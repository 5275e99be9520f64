-------------------------- MODULE EpisodeLifecycle --------------------------
(***************************************************************************)
(* What episode_service.py promises of an episode, whoever works on it:    *)
(* it goes through the production stages in order, one version a step,     *)
(* may fail at any stage but the last, is packaged once, and keeps its     *)
(* package for good.                                                       *)
(***************************************************************************)
EXTENDS Naturals, Sequences

CONSTANTS Episodes, Packages, Nothing

Stages == <<"validated", "scripted", "rendered", "qa_passed", "packaged", "published">>

VARIABLE lifecycle  \* lifecycle[e]: Nothing, or e's stage, version, package

Init == lifecycle = [e \in Episodes |-> Nothing]

Begin(e) ==
  /\ lifecycle[e] = Nothing
  /\ lifecycle' = [lifecycle EXCEPT ![e] =
       [stage |-> Stages[1], version |-> 1, package |-> Nothing]]

Step(e, s, p) ==
  lifecycle' = [lifecycle EXCEPT ![e] =
    [stage |-> s, version |-> lifecycle[e].version + 1, package |-> p]]

(* An episode that has not failed is at the stage of its version.          *)
Advance(e) ==
  LET n == lifecycle[e].version
  IN /\ lifecycle[e] # Nothing /\ lifecycle[e].stage # "failed"
     /\ n < Len(Stages)
     /\ \E p \in IF Stages[n + 1] = "packaged" THEN Packages
                                               ELSE {lifecycle[e].package} :
          Step(e, Stages[n + 1], p)

Fail(e) ==
  /\ lifecycle[e] # Nothing /\ lifecycle[e].stage \notin {"published", "failed"}
  /\ Step(e, "failed", lifecycle[e].package)

Next == \E e \in Episodes : Begin(e) \/ Advance(e) \/ Fail(e)

Spec == Init /\ [][Next]_lifecycle
=============================================================================
