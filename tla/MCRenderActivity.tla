-------------------------- MODULE MCRenderActivity --------------------------
(* RenderActivity on small instances.                                      *)
EXTENDS RenderActivity, TLC

CONSTANTS e1, e2, e3, p1, p2, k1, x1

(* An execution that timed out and its retry in one process, an execution  *)
(* of another workflow in the other.                                       *)
TwoWorkers == (e1 :> p1) @@ (e2 :> p1) @@ (e3 :> p2)

(* Of the behaviours that only rename the executions of p1, or the token   *)
(* lists, one: e1 starts before e2, and e3 has the list k1.  Nothing is    *)
(* fair about starting, so that none is cut off before it has settled.     *)
UpToNames ==
  /\ pc[e2] # "new" => pc[e1] # "new"
  /\ input[e3] # NoInput => input[e3].tokens = k1
=============================================================================
