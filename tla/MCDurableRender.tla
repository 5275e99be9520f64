--------------------------- MODULE MCDurableRender ---------------------------
(* DurableRender on small instances.                                       *)
EXTENDS DurableRender, TLC

CONSTANTS c1, c2, c3, p1, p2, w1

(* Two tasks of one worker process and one of another.                     *)
TwoWorkers == (c1 :> p1) @@ (c2 :> p1) @@ (c3 :> p2)

(* Of the behaviours that only rename the tasks of p1, one: c1 is called   *)
(* before c2.  Nothing is fair about calling, so that none is cut off      *)
(* before it has settled.                                                  *)
UpToNames == pc[c2] # "new" => pc[c1] # "new"

(* Every call is a task of the same worker process.                        *)
OneWorker == [c \in Callers |-> p1]

(* The keys sort the other way round than the takes.                       *)
Reversed == [t \in Takes |-> 2 - t]

MCOneTake == {0}
MCTwoTakes == {0, 1}
=============================================================================
