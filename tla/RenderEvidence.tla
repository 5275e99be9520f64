--------------------------- MODULE RenderEvidence ---------------------------
(***************************************************************************)
(* What the durable render service promises its callers, with none of the  *)
(* machinery (claims, artifacts, threads, crashes) that keeps the promise: *)
(*                                                                         *)
(*   - a take has at most one piece of evidence, and it never changes;     *)
(*   - a call is answered once, with the evidence of every take it asked   *)
(*     for and nothing else;                                               *)
(*   - the cost event of a take is handed to at most one call, all the     *)
(*     others see the take replayed.                                       *)
(***************************************************************************)
CONSTANTS Callers,    \* calls of render_takes
          Takes,      \* takes, each with its own idempotency key
          Evidence,   \* candidate and cost event of one provider response
          NoEvidence  \* no evidence (yet), not in Evidence

VARIABLES evidence,   \* evidence[t]: what is durable for take t
          delivered,  \* delivered[c][t]: the evidence call c returned for t
          charged     \* charged[c]: the takes whose cost event c returned

vars == <<evidence, delivered, charged>>

NoAnswers == [t \in Takes |-> NoEvidence]

Init ==
  /\ evidence = NoAnswers
  /\ delivered = [c \in Callers |-> NoAnswers]
  /\ charged = [c \in Callers |-> {}]

(* A provider response for a take without evidence becomes its evidence.   *)
Persist(t, e) ==
  /\ evidence[t] = NoEvidence
  /\ evidence' = [evidence EXCEPT ![t] = e]
  /\ UNCHANGED <<delivered, charged>>

(* Call c is answered for the takes of w; f are those it is charged for.   *)
Answer(c, w, f) ==
  /\ delivered[c] = NoAnswers
  /\ \A t \in w : evidence[t] # NoEvidence
  /\ \A d \in Callers : charged[d] \cap f = {}
  /\ delivered' = [delivered EXCEPT
                     ![c] = [t \in Takes |-> IF t \in w THEN evidence[t]
                                                        ELSE NoEvidence]]
  /\ charged' = [charged EXCEPT ![c] = f]
  /\ UNCHANGED evidence

Next ==
  \/ \E t \in Takes, e \in Evidence : Persist(t, e)
  \/ \E c \in Callers, w \in SUBSET Takes : \E f \in SUBSET w : Answer(c, w, f)

Spec == Init /\ [][Next]_vars
=============================================================================
