------------------------ MODULE DurableRender_proofs ------------------------
(***************************************************************************)
(* Proofs about DurableRender for every set of calls, processes, takes and *)
(* artifacts, every order of the keys and every pool size.                 *)
(***************************************************************************)
EXTENDS DurableRender, TLAPS

(***************************************************************************)
(* The inductive invariant.  A claim is held only by a running call for a  *)
(* take of its window; from the lookup to the last save a call holds every *)
(* claim of its window; what it holds for a take is the take's record,     *)
(* which nobody else can have changed; the take's record names the call    *)
(* that paid for it.                                                       *)
(***************************************************************************)
ClaimInv ==
  \A t \in Takes, c \in Callers :
    claim[t] = c => pc[c] \in Running /\ t \in window[c]

AllClaimed ==
  \A c \in Callers : pc[c] \in {"lookup", "work", "render", "put", "save"} =>
    \A t \in window[c] : claim[t] = c

KnowsRecords ==
  \A c \in Callers :
    pc[c] \in {"work", "render", "put", "save", "release", "returned"} =>
      \A t \in Takes : outcome[c][t] = IF t \in window[c] THEN record[t]
                                                         ELSE NoEvidence

NothingMissing ==
  \A c \in Callers : pc[c] \in {"release", "returned"} =>
    \A t \in window[c] : record[t] # NoEvidence

OwnResponse ==
  \A c \in Callers :
    /\ pc[c] \in {"render", "put", "save"} =>
         response[c] \in Evidence /\ response[c].request = c
    /\ pc[c] = "save" => response[c].audio \in linked

FreshIsRecorded ==
  \A c \in Callers :
    /\ pc[c] = "new" => fresh[c] = {}
    /\ \A t \in fresh[c] : /\ t \in window[c]
                           /\ record[t] # NoEvidence
                           /\ record[t].request = c

RecordIsLinked ==
  \A t \in Takes : record[t] # NoEvidence => record[t].audio \in linked

IndInv ==
  /\ TypeOK
  /\ ClaimInv
  /\ AllClaimed
  /\ KnowsRecords
  /\ NothingMissing
  /\ OwnResponse
  /\ FreshIsRecorded
  /\ RecordIsLinked

-----------------------------------------------------------------------------
(* The invariant holds before any call is made.                            *)
LEMMA InitIndInv == Init => IndInv
  BY DurableRenderAssumption, SMT
  DEF Init, IndInv, TypeOK, ClaimInv, AllClaimed, KnowsRecords, NothingMissing,
      OwnResponse, FreshIsRecorded, RecordIsLinked, NoOutcome, Running, Settled

(* Type correctness rests on OwnResponse: what a call links and records is  *)
(* a provider response it received.                                        *)
LEMMA TypeStep == ASSUME TypeOK, OwnResponse, [Next]_vars PROVE TypeOK'
  <1> USE DurableRenderAssumption DEF TypeOK, Settled, Running, Goto, local, durable
  <1>1. ASSUME NEW c \in Callers, Refuse(c) PROVE TypeOK'
    BY <1>1 DEF Refuse
  <1>2. ASSUME NEW c \in Callers, RenderTakes(c) PROVE TypeOK'
    BY <1>2 DEF RenderTakes, TakeWindows
  <1>3. ASSUME NEW c \in Callers, WaitForClaim(c) PROVE TypeOK'
    BY <1>3 DEF WaitForClaim
  <1>4. ASSUME NEW c \in Callers, OpenClaimFails(c) PROVE TypeOK'
    BY <1>4 DEF OpenClaimFails
  <1>5. ASSUME NEW c \in Callers, NEW t \in Takes, TakeClaim(c, t) PROVE TypeOK'
    BY <1>5 DEF TakeClaim
  <1>6. ASSUME NEW c \in Callers, FindRecords(c) PROVE TypeOK'
    BY <1>6 DEF FindRecords
  <1>7. ASSUME NEW c \in Callers, FindRecordsFails(c) PROVE TypeOK'
    BY <1>7 DEF FindRecordsFails
  <1>8. ASSUME NEW c \in Callers, NEW t \in Takes, NEW a \in Audio,
               Dispatch(c, t, a)
        PROVE TypeOK'
    BY <1>8 DEF Dispatch, Evidence
  <1>9. ASSUME NEW c \in Callers, ProviderReturns(c) PROVE TypeOK'
    BY <1>9 DEF ProviderReturns
  <1>10. ASSUME NEW c \in Callers, ProviderFails(c) PROVE TypeOK'
    BY <1>10 DEF ProviderFails
  <1>11. ASSUME NEW c \in Callers, PutArtifact(c) PROVE TypeOK'
    BY <1>11 DEF PutArtifact, Evidence, OwnResponse
  <1>12. ASSUME NEW c \in Callers, PutArtifactFails(c) PROVE TypeOK'
    BY <1>12 DEF PutArtifactFails, Evidence, OwnResponse
  <1>13. ASSUME NEW c \in Callers, NEW t \in Takes, SaveRecord(c, t) PROVE TypeOK'
    <2>1. response[c] \in Evidence
      BY <1>13 DEF SaveRecord, OwnResponse
    <2> DEFINE accepted == \/ record[t] = NoEvidence
                           \/ record[t] = response[c] /\ response[c].audio \notin damaged
    <2>2. CASE accepted
      <3>1. /\ record' = [record EXCEPT ![t] = response[c]]
            /\ outcome' = [outcome EXCEPT ![c][t] = response[c]]
            /\ fresh' = [fresh EXCEPT ![c] = @ \cup {t}]
            /\ pc' = [pc EXCEPT ![c] = "work"]
            /\ response' = [response EXCEPT ![c] = NoEvidence]
            /\ UNCHANGED <<window, claim, linked, damaged, dispatches>>
        BY <1>13, <2>2 DEF SaveRecord
      <3>2. /\ record' \in [Takes -> Evidence \cup {NoEvidence}]
            /\ outcome' \in [Callers -> [Takes -> Evidence \cup {NoEvidence}]]
        BY <2>1, <3>1
      <3>3. QED
        BY <2>1, <3>1, <3>2
    <2>3. CASE ~accepted
      BY <1>13, <2>1, <2>3 DEF SaveRecord
    <2>4. QED
      BY <2>2, <2>3
  <1>14. ASSUME NEW c \in Callers, Finish(c) PROVE TypeOK'
    BY <1>14 DEF Finish
  <1>20. ASSUME NEW c \in Callers, NEW t \in Takes, SaveRecordFails(c, t) PROVE TypeOK'
    BY <1>20 DEF SaveRecordFails, OwnResponse
  <1>15. ASSUME NEW c \in Callers, NEW t \in Takes, ReleaseClaim(c, t) PROVE TypeOK'
    BY <1>15 DEF ReleaseClaim
  <1>16. ASSUME NEW p \in Procs, Crash(p) PROVE TypeOK'
    BY <1>16 DEF Crash
  <1>17. ASSUME NEW a \in Audio, DamageArtifact(a) PROVE TypeOK'
    BY <1>17 DEF DamageArtifact
  <1>18. CASE UNCHANGED vars
    BY <1>18 DEF vars
  <1>19. QED
    BY <1>1, <1>2, <1>3, <1>4, <1>5, <1>6, <1>7, <1>8, <1>9, <1>10, <1>11, <1>12,
       <1>13, <1>14, <1>15, <1>16, <1>17, <1>18, <1>20
    DEF Next, CallStep, AllSettled

(* Every action keeps the rest of the invariant: the claims exclude other  *)
(* writers between the lookup and the save.                                *)
LEMMA RestStep == ASSUME IndInv, TypeOK', [Next]_vars PROVE IndInv'
  <1> USE DurableRenderAssumption
      DEF IndInv, TypeOK, ClaimInv, AllClaimed, KnowsRecords, NothingMissing,
          OwnResponse, FreshIsRecorded, RecordIsLinked,
          Settled, Running, Goto, local, durable
  <1>1. ASSUME NEW c \in Callers, Refuse(c)
        PROVE IndInv'
    BY <1>1 DEF Refuse
  <1>2. ASSUME NEW c \in Callers, RenderTakes(c)
        PROVE IndInv'
    BY <1>2 DEF RenderTakes
  <1>3. ASSUME NEW c \in Callers, WaitForClaim(c)
        PROVE IndInv'
    BY <1>3 DEF WaitForClaim
  <1>4. ASSUME NEW c \in Callers, OpenClaimFails(c)
        PROVE IndInv'
    BY <1>4 DEF OpenClaimFails, Held
  <1>5. ASSUME NEW c \in Callers, NEW t \in Takes, TakeClaim(c, t)
        PROVE IndInv'
    <2> USE <1>5 DEF TakeClaim
    <2>1. pc' \in [Callers -> {"lookup", "claim"} \cup Settled \cup Running \cup {"new"}]
      OBVIOUS
    <2>2. ClaimInv'
      BY DEF IsNextClaim, Unheld
    <2>3. AllClaimed'
      <3>1. pc'[c] = "lookup" => \A u \in window[c] : claim'[u] = c
        BY DEF IsNextClaim, Unheld, Held
      <3>2. QED
        BY <3>1
    <2>4. KnowsRecords' /\ NothingMissing' /\ OwnResponse' /\ FreshIsRecorded'
          /\ RecordIsLinked'
      OBVIOUS
    <2>5. QED
      BY <2>2, <2>3, <2>4
  <1>6. ASSUME NEW c \in Callers, FindRecords(c)
        PROVE IndInv'
    BY <1>6 DEF FindRecords
  <1>7. ASSUME NEW c \in Callers, FindRecordsFails(c)
        PROVE IndInv'
    BY <1>7 DEF FindRecordsFails
  <1>8. ASSUME NEW c \in Callers, NEW t \in Takes, NEW a \in Audio, Dispatch(c, t, a)
        PROVE IndInv'
    BY <1>8 DEF Dispatch, IsNextTake, Missing, Evidence
  <1>9. ASSUME NEW c \in Callers, ProviderReturns(c)
        PROVE IndInv'
    BY <1>9 DEF ProviderReturns
  <1>10. ASSUME NEW c \in Callers, ProviderFails(c)
        PROVE IndInv'
    BY <1>10 DEF ProviderFails
  <1>11. ASSUME NEW c \in Callers, PutArtifact(c)
        PROVE IndInv'
    BY <1>11 DEF PutArtifact, Evidence
  <1>12. ASSUME NEW c \in Callers, PutArtifactFails(c)
        PROVE IndInv'
    BY <1>12 DEF PutArtifactFails, Evidence
  <1>13. ASSUME NEW c \in Callers, NEW t \in Takes, SaveRecord(c, t)
        PROVE IndInv'
    <2> USE <1>13 DEF SaveRecord
    <2>1. /\ t \in window[c] /\ claim[t] = c /\ record[t] = NoEvidence
          /\ response[c] \in Evidence /\ response[c] # NoEvidence
          /\ response[c].request = c /\ response[c].audio \in linked
      BY DEF IsNextTake, Missing
    <2>2. /\ record' = [record EXCEPT ![t] = response[c]]
          /\ outcome' = [outcome EXCEPT ![c][t] = response[c]]
          /\ fresh' = [fresh EXCEPT ![c] = @ \cup {t}]
          /\ pc' = [pc EXCEPT ![c] = "work"]
          /\ response' = [response EXCEPT ![c] = NoEvidence]
      BY <2>1
    <2>3. UNCHANGED <<window, claim, linked>>
      OBVIOUS
    <2> HIDE <1>13 DEF SaveRecord
    <2>4. pc[c] = "save"
      BY <1>13 DEF SaveRecord
    <2>5. ClaimInv' /\ AllClaimed'
      BY <2>1, <2>2, <2>3, <2>4
    <2>6. KnowsRecords'
      <3>1. \A d \in Callers : d # c /\ pc[d] \in {"work", "render", "put", "save"}
              => t \notin window[d]
        BY <2>1
      <3>2. \A d \in Callers : pc[d] \in {"release", "returned"} => t \notin window[d]
        BY <2>1
      <3>3. QED
        BY <2>1, <2>2, <2>3, <2>4, <3>1, <3>2
    <2>7. NothingMissing' /\ OwnResponse' /\ RecordIsLinked'
      BY <2>1, <2>2, <2>3, <2>4
    <2>8. FreshIsRecorded'
      <3>1. record'[t] = response[c] /\ pc'[c] # "new"
        BY <2>1, <2>2
      <3>2. ASSUME NEW d \in Callers, NEW u \in fresh[d]
            PROVE  /\ u \in window'[d]
                   /\ record'[u] # NoEvidence
                   /\ record'[u].request = d
        BY <2>1, <2>2, <2>3, <3>2
      <3>3. \A d \in Callers : fresh'[d] = IF d = c THEN fresh[c] \cup {t} ELSE fresh[d]
        BY <2>2
      <3>4. \A d \in Callers : pc'[d] = "new" => fresh'[d] = {}
        BY <2>2, <2>4, <3>3
      <3>5. ASSUME NEW d \in Callers, NEW u \in fresh'[d]
            PROVE  /\ u \in window'[d]
                   /\ record'[u] # NoEvidence
                   /\ record'[u].request = d
        <4>1. CASE u \in fresh[d]
          BY <3>2, <4>1
        <4>2. CASE d = c /\ u = t
          BY <2>1, <2>3, <3>1, <4>2
        <4>3. QED
          BY <3>3, <3>5, <4>1, <4>2
      <3>6. QED
        BY <3>4, <3>5
    <2>9. QED
      BY <2>5, <2>6, <2>7, <2>8
  <1>14. ASSUME NEW c \in Callers, Finish(c)
        PROVE IndInv'
    BY <1>14 DEF Finish, Missing
  <1>20. ASSUME NEW c \in Callers, NEW t \in Takes, SaveRecordFails(c, t)
        PROVE IndInv'
    <2>5. pc[c] = "save" /\ t \in window[c]
      BY <1>20 DEF SaveRecordFails, IsNextTake, Missing
    <2>6. claim[t] = c
      BY <2>5
    <2>7. response[c] \in Evidence /\ response[c].audio \in linked
      BY <2>5
    <2>1. /\ t \in window[c] /\ claim[t] = c /\ pc[c] = "save"
          /\ response[c] \in Evidence /\ response[c] # NoEvidence
          /\ response[c].audio \in linked
      BY <2>5, <2>6, <2>7
    <2>2. /\ pc' = [pc EXCEPT ![c] = "abort"]
          /\ response' = [response EXCEPT ![c] = NoEvidence]
          /\ UNCHANGED <<window, outcome, fresh, claim, linked, damaged>>
      BY <1>20 DEF SaveRecordFails
    <2>3. CASE UNCHANGED record
      BY <2>1, <2>2, <2>3
    <2>4. CASE record[t] = NoEvidence /\ record' = [record EXCEPT ![t] = response[c]]
      <3>1. \A d \in Callers : d # c /\ pc[d] \in {"work", "render", "put", "save"}
              => t \notin window[d]
        BY <2>1
      <3>2. \A d \in Callers : pc[d] \in {"release", "returned"} => t \notin window[d]
        BY <2>4
      <3>3. \A d \in Callers : t \notin fresh[d]
        BY <2>4
      <3>4. ClaimInv' /\ AllClaimed'
        BY <2>1, <2>2, <2>4
      <3>5. KnowsRecords'
        BY <2>1, <2>2, <2>4, <3>1, <3>2
      <3>6. NothingMissing' /\ OwnResponse' /\ RecordIsLinked'
        BY <2>1, <2>2, <2>4
      <3>7. FreshIsRecorded'
        BY <2>1, <2>2, <2>4, <3>3
      <3> QED
        BY <3>4, <3>5, <3>6, <3>7
    <2> QED
      BY <1>20, <2>3, <2>4 DEF SaveRecordFails
  <1>15. ASSUME NEW c \in Callers, NEW t \in Takes, ReleaseClaim(c, t)
        PROVE IndInv'
    BY <1>15 DEF ReleaseClaim, IsLastClaim, Held
  <1>16. ASSUME NEW p \in Procs, Crash(p)
        PROVE IndInv'
    BY <1>16 DEF Crash
  <1>17. ASSUME NEW a \in Audio, DamageArtifact(a)
        PROVE IndInv'
    BY <1>17 DEF DamageArtifact
  <1>18. CASE UNCHANGED vars
    BY <1>18 DEF vars
  <1>19. QED
    BY <1>1, <1>2, <1>3, <1>4, <1>5, <1>6, <1>7, <1>8, <1>9, <1>10, <1>11, <1>12,
       <1>13, <1>14, <1>15, <1>16, <1>17, <1>18, <1>20
    DEF Next, CallStep, AllSettled

(* The invariant holds in every reachable state of the service.            *)
THEOREM Inductive == Spec => []IndInv
  <1>1. IndInv /\ [Next]_vars => IndInv'
    BY TypeStep, RestStep DEF IndInv
  <1>2. QED
    BY InitIndInv, <1>1, PTL DEF Spec

-----------------------------------------------------------------------------
(* Every variable has its type in every reachable state.                   *)
THEOREM TypeCorrect == Spec => []TypeOK
  BY Inductive, PTL DEF IndInv

(* At most one call at a time is paying the provider for a take.           *)
THEOREM OneSpenderHolds == Spec => []OneSpender
  <1>1. IndInv => OneSpender
    BY DurableRenderAssumption
    DEF IndInv, AllClaimed, OneSpender, Spending, IsNextTake, Missing
  <1>2. QED
    BY Inductive, <1>1, PTL

(* A cost event held by two callers would name both as its provider call.  *)
LEMMA OneCostEventFollows == FreshIsRecorded => OneCostEvent
  <1>1. ASSUME FreshIsRecorded, NEW c \in Callers, NEW d \in Callers, NEW t,
               t \in fresh[c], t \in fresh[d]
        PROVE  c = d
    <2>1. record[t].request = c
      BY <1>1 DEF FreshIsRecorded
    <2>2. record[t].request = d
      BY <1>1 DEF FreshIsRecorded
    <2> QED
      BY <2>1, <2>2
  <1> QED
    BY <1>1 DEF OneCostEvent

(* The cost event of a take reaches the caller of at most one call.        *)
THEOREM OneCostEventHolds == Spec => []OneCostEvent
  <1>1. IndInv => OneCostEvent
    BY OneCostEventFollows DEF IndInv
  <1>2. QED
    BY Inductive, <1>1, PTL

(* What a call returns is what is durable, artifacts included.             *)
THEOREM AnswersAreDurableHolds == Spec => []AnswersAreDurable
  <1>1. IndInv => AnswersAreDurable
    BY DEF IndInv, TypeOK, KnowsRecords, NothingMissing, RecordIsLinked,
           AnswersAreDurable
  <1>2. QED
    BY Inductive, <1>1, PTL

(* A step that calls the provider is for a take without durable evidence.  *)
THEOREM NoDispatchAfterRecordHolds == Spec => NoDispatchAfterRecord
  <1> DEFINE Unpaid == \A t \in Takes : record[t] # NoEvidence =>
                                         dispatches'[t] = dispatches[t]
  <1>1. ASSUME IndInv, Next PROVE Unpaid
    <2>1. ASSUME NEW c \in Callers, NEW t \in Takes, NEW a \in Audio,
                 Dispatch(c, t, a)
          PROVE Unpaid
      <3>1. record[t] = NoEvidence
        BY <1>1, <2>1 DEF IndInv, KnowsRecords, Dispatch, IsNextTake, Missing
      <3>2. QED
        BY <1>1, <2>1, <3>1 DEF IndInv, TypeOK, Dispatch
    <2>2. ASSUME UNCHANGED dispatches PROVE Unpaid
      BY <2>2
    <2>3. QED
      BY <1>1, <2>1, <2>2
      DEF Next, CallStep, Refuse, RenderTakes, OpenClaimFails, WaitForClaim,
          TakeClaim, FindRecords, FindRecordsFails, ProviderReturns,
          ProviderFails, PutArtifact, PutArtifactFails, SaveRecord, SaveRecordFails,
          Finish, ReleaseClaim, Crash, DamageArtifact, AllSettled, vars
  <1>2. IndInv /\ [Next]_vars => [Unpaid]_vars
    BY <1>1
  <1>3. QED
    BY Inductive, <1>2, PTL DEF Spec, NoDispatchAfterRecord

-----------------------------------------------------------------------------
(***************************************************************************)
(* The service implements RenderEvidence.  A save that links a record is   *)
(* Persist, giving back the last claim of a finished call is Answer, every *)
(* other step leaves the abstract state alone.                             *)
(***************************************************************************)
(* The initial states map to initial states of RenderEvidence.             *)
LEMMA InitPromise == Init => Promise!Init
  BY DEF Init, Promise!Init, Promise!NoAnswers, Answers, Charges, NoOutcome

(* Every step of the service maps to a step of RenderEvidence or a stutter. *)
LEMMA StepPromise ==
  ASSUME IndInv, IndInv', [Next]_vars
  PROVE  [Promise!Next]_Promise!vars
  <1> USE DEF Promise!vars
  <1>1. ASSUME NEW c \in Callers, NEW t \in Takes, SaveRecord(c, t)
        PROVE  [Promise!Next]_Promise!vars
    <2>1. /\ record[t] = NoEvidence
          /\ response[c] \in Evidence
          /\ pc[c] = "save"
      BY <1>1 DEF SaveRecord, IndInv, KnowsRecords, OwnResponse, IsNextTake, Missing
    <2>2. /\ record' = [record EXCEPT ![t] = response[c]]
          /\ outcome' = [outcome EXCEPT ![c][t] = response[c]]
          /\ fresh' = [fresh EXCEPT ![c] = @ \cup {t}]
          /\ pc' = [pc EXCEPT ![c] = "work"]
      BY <1>1, <2>1 DEF SaveRecord, Goto
    <2>3. UNCHANGED <<Answers, Charges>>
      BY <2>1, <2>2 DEF IndInv, TypeOK, Answers, Charges, NoOutcome
    <2>4. Promise!Persist(t, response[c])
      BY <2>1, <2>2, <2>3 DEF Promise!Persist
    <2>5. QED
      BY <2>1, <2>4 DEF Promise!Next
  <1>7. ASSUME NEW c \in Callers, NEW t \in Takes, SaveRecordFails(c, t)
        PROVE  [Promise!Next]_Promise!vars
    <2>1. /\ response[c] \in Evidence /\ pc[c] = "save"
          /\ pc' = [pc EXCEPT ![c] = "abort"] /\ UNCHANGED <<outcome, fresh>>
      BY <1>7 DEF SaveRecordFails, Goto, IndInv, OwnResponse
    <2>2. UNCHANGED <<Answers, Charges>>
      BY <2>1 DEF IndInv, TypeOK, Answers, Charges
    <2>3. UNCHANGED record \/ Promise!Persist(t, response[c])
      BY <1>7, <2>2 DEF SaveRecordFails, Promise!Persist
    <2> QED
      BY <2>1, <2>2, <2>3 DEF Promise!Next
  <1>2. ASSUME NEW c \in Callers, NEW t \in Takes, ReleaseClaim(c, t)
        PROVE  [Promise!Next]_Promise!vars
    <2>1. UNCHANGED <<record, outcome, fresh, window>>
      BY <1>2 DEF ReleaseClaim, local, durable
    <2>2. CASE pc'[c] = "returned"
      <3>1. pc[c] = "release" /\ pc' = [pc EXCEPT ![c] = "returned"]
        BY <1>2, <2>2 DEF ReleaseClaim, Goto, IndInv, TypeOK
      <3>2. /\ Answers' = [Answers EXCEPT ![c] = outcome[c]]
            /\ Charges' = [Charges EXCEPT ![c] = fresh[c]]
            /\ Answers[c] = Promise!NoAnswers
        BY <2>1, <3>1 DEF IndInv, TypeOK, Answers, Charges, NoOutcome, Promise!NoAnswers
      <3>3. outcome[c] = [u \in Takes |-> IF u \in window[c] THEN record[u]
                                                             ELSE NoEvidence]
        BY <3>1 DEF IndInv, TypeOK, KnowsRecords
      <3>4. \A u \in window[c] : record[u] # NoEvidence
        BY <3>1 DEF IndInv, NothingMissing
      <3>5. \A d \in Callers : Charges[d] \cap fresh[c] = {}
        <4>1. OneCostEvent
          BY OneCostEventFollows DEF IndInv
        <4>2. ASSUME NEW d \in Callers PROVE Charges[d] \cap fresh[c] = {}
          <5>1. CASE d = c
            BY <3>1, <5>1 DEF Charges
          <5>2. CASE d # c
            BY <4>1, <5>2 DEF Charges, OneCostEvent
          <5>3. QED
            BY <5>1, <5>2
        <4>3. QED
          BY <4>2
      <3>6. fresh[c] \subseteq window[c] /\ window[c] \subseteq Takes
        BY DEF IndInv, TypeOK, FreshIsRecorded
      <3>7. Promise!Answer(c, window[c], fresh[c])
        BY <2>1, <3>2, <3>3, <3>4, <3>5 DEF Promise!Answer
      <3>8. QED
        BY <3>6, <3>7 DEF Promise!Next
    <2>3. CASE pc'[c] # "returned"
      <3>1. UNCHANGED <<Answers, Charges>>
        BY <1>2, <2>1, <2>3 DEF ReleaseClaim, Goto, IndInv, TypeOK, Answers, Charges
      <3>2. QED
        BY <2>1, <3>1
    <2>4. QED
      BY <2>2, <2>3
  <1>3. ASSUME NEW c \in Callers,
               \/ Refuse(c) \/ RenderTakes(c) \/ OpenClaimFails(c)
               \/ WaitForClaim(c) \/ FindRecords(c) \/ FindRecordsFails(c)
               \/ ProviderReturns(c) \/ ProviderFails(c)
               \/ PutArtifact(c) \/ PutArtifactFails(c) \/ Finish(c)
               \/ \E t \in Takes : TakeClaim(c, t)
               \/ \E t \in Takes, a \in Audio : Dispatch(c, t, a)
        PROVE  [Promise!Next]_Promise!vars
    <2>1. /\ record' = record
          /\ fresh' = fresh
          /\ pc[c] # "returned"
          /\ pc'[c] # "returned"
          /\ \A d \in Callers : d # c => pc'[d] = pc[d]
      BY <1>3 DEF IndInv, TypeOK, Refuse, RenderTakes, OpenClaimFails, WaitForClaim, FindRecords,
                  FindRecordsFails, ProviderReturns, ProviderFails, PutArtifact,
                  PutArtifactFails, Finish, TakeClaim, Dispatch, Goto, durable
    <2>2. \A d \in Callers : d # c => outcome'[d] = outcome[d]
      BY <1>3 DEF IndInv, TypeOK, Refuse, RenderTakes, OpenClaimFails, WaitForClaim,
                  FindRecords, FindRecordsFails, ProviderReturns, ProviderFails,
                  PutArtifact, PutArtifactFails, Finish, TakeClaim, Dispatch
    <2>3. UNCHANGED <<Answers, Charges>>
      BY <2>1, <2>2 DEF IndInv, TypeOK, Answers, Charges
    <2>4. QED
      BY <2>1, <2>3
  <1>4. ASSUME NEW p \in Procs, Crash(p)
        PROVE  [Promise!Next]_Promise!vars
    <2>1. /\ UNCHANGED <<record, outcome, fresh>>
          /\ \A d \in Callers : pc[d] = "returned" <=> pc'[d] = "returned"
      BY <1>4 DEF Crash, durable, Running, IndInv, TypeOK
    <2>2. UNCHANGED <<Answers, Charges>>
      BY <2>1 DEF Answers, Charges
    <2>3. QED
      BY <2>1, <2>2
  <1>5. ASSUME \/ \E a \in Audio : DamageArtifact(a)
               \/ UNCHANGED vars
        PROVE  [Promise!Next]_Promise!vars
    BY <1>5 DEF DamageArtifact, vars, local, Answers, Charges
  <1>6. QED
    BY <1>1, <1>2, <1>3, <1>4, <1>5, <1>7 DEF Next, CallStep, AllSettled

(* Whatever the interleaving, the crashes and the damage, the service      *)
(* keeps the promise of RenderEvidence.                                    *)
THEOREM KeepsPromiseHolds == Spec => KeepsPromise
  <1>1. IndInv /\ IndInv' /\ [Next]_vars => [Promise!Next]_Promise!vars
    BY StepPromise
  <1>2. QED
    BY InitPromise, Inductive, <1>1, PTL DEF Spec, KeepsPromise, Promise!Spec

-----------------------------------------------------------------------------
(***************************************************************************)
(* What a take costs.  A call that asked the provider for it is still      *)
(* storing the answer, or has made it the take's record, or has been lost; *)
(* the claims leave one call at a time for the first, and no other once    *)
(* there is a record.                                                      *)
(***************************************************************************)
Lost(c) == pc[c] \in {"failed", "dead", "abort"}
Recorded(c, t) == record[t] # NoEvidence /\ record[t].request = c

PaidInv ==
  \A c \in Callers, t \in Takes :
    /\ dispatches[t][c] <= 1
    /\ dispatches[t][c] > 0 => Spending(c, t) \/ Recorded(c, t) \/ Lost(c)

(* A step of call c or of none keeps what every other call has paid for.   *)
LEMMA OthersPaid ==
  ASSUME IndInv, PaidInv, NEW d \in Callers, NEW t \in Takes,
         pc'[d] = pc[d], outcome'[d] = outcome[d], window'[d] = window[d],
         dispatches'[t][d] = dispatches[t][d],
         record[t] # NoEvidence => record'[t] = record[t]
  PROVE  /\ dispatches'[t][d] <= 1
         /\ dispatches'[t][d] > 0 => Spending(d, t)' \/ Recorded(d, t)' \/ Lost(d)'
<1>1. Spending(d, t) => Spending(d, t)'
  BY DEF Spending, IsNextTake, Missing
<1>2. Recorded(d, t) => Recorded(d, t)'
  BY DEF Recorded
<1>3. Lost(d) => Lost(d)'
  BY DEF Lost
<1> QED
  BY <1>1, <1>2, <1>3 DEF PaidInv

(* A record is final.                                                      *)
LEMMA RecordIsFinal ==
  ASSUME IndInv, [Next]_vars, NEW t \in Takes, record[t] # NoEvidence
  PROVE  record'[t] = record[t]
<1>1. ASSUME NEW c \in Callers, NEW u \in Takes, SaveRecord(c, u) \/ SaveRecordFails(c, u)
      PROVE  record'[t] = record[t]
  BY <1>1 DEF SaveRecord, SaveRecordFails, IndInv, TypeOK, KnowsRecords, IsNextTake, Missing
<1> QED
  BY <1>1
  DEF Next, CallStep, Refuse, RenderTakes, OpenClaimFails, WaitForClaim, TakeClaim,
      FindRecords, FindRecordsFails, Dispatch, ProviderReturns, ProviderFails,
      PutArtifact, PutArtifactFails, Finish, ReleaseClaim, Crash, DamageArtifact,
      AllSettled, vars, durable

LEMMA PaidStep ==
  ASSUME IndInv, PaidInv, [Next]_vars
  PROVE  PaidInv'
<1> USE DEF IndInv, TypeOK
<1> DEFINE Paid(d, t) ==
      /\ dispatches'[t][d] <= 1
      /\ dispatches'[t][d] > 0 => Spending(d, t)' \/ Recorded(d, t)' \/ Lost(d)'
<1> SUFFICES ASSUME NEW d \in Callers, NEW t \in Takes PROVE Paid(d, t)
  BY DEF PaidInv
<1>0. record[t] # NoEvidence => record'[t] = record[t]
  BY RecordIsFinal
<1>00. /\ dispatches[t][d] \in Nat /\ dispatches[t][d] <= 1
       /\ dispatches[t][d] > 0 => Spending(d, t) \/ Recorded(d, t) \/ Lost(d)
       /\ Recorded(d, t) => Recorded(d, t)'
  BY <1>0 DEF PaidInv, Recorded
<1> HIDE DEF Paid
<1>1. ASSUME NEW c \in Callers,
             \/ Refuse(c) \/ RenderTakes(c) \/ OpenClaimFails(c) \/ WaitForClaim(c)
             \/ (\E u \in Takes : TakeClaim(c, u))
             \/ FindRecords(c) \/ FindRecordsFails(c) \/ Finish(c)
             \/ (\E u \in Takes : ReleaseClaim(c, u))
             \/ ProviderFails(c) \/ PutArtifactFails(c)
             \/ (\E u \in Takes : SaveRecordFails(c, u))
      PROVE  Paid(d, t)
  <2>1. /\ d # c => /\ pc'[d] = pc[d] /\ outcome'[d] = outcome[d]
                    /\ window'[d] = window[d]
        /\ pc[c] \in {"render", "put", "save"} => pc'[c] = "abort"
        /\ Lost(c) => Lost(c)'
        /\ UNCHANGED dispatches
    BY <1>1
    DEF Refuse, RenderTakes, OpenClaimFails, WaitForClaim, TakeClaim, FindRecords,
        FindRecordsFails, Finish, ReleaseClaim, ProviderFails, PutArtifactFails,
        SaveRecordFails, Goto, durable, Lost
  <2>2. CASE d # c
    BY <1>0, <2>1, <2>2, OthersPaid DEF Paid
  <2>3. CASE d = c
    <3>1. Spending(d, t) => Lost(d)'
      BY <2>1, <2>3 DEF Spending, Lost
    <3> QED
      BY <1>00, <2>1, <2>3, <3>1 DEF Paid
  <2> QED
    BY <2>2, <2>3
<1>2. ASSUME NEW c \in Callers, NEW u \in Takes, NEW a \in Audio, Dispatch(c, u, a)
      PROVE  Paid(d, t)
  <2>1. /\ pc[c] = "work" /\ pc' = [pc EXCEPT ![c] = "render"] /\ IsNextTake(c, u)
        /\ dispatches' = [dispatches EXCEPT ![u][c] = @ + 1]
        /\ UNCHANGED <<window, outcome, record>>
    BY <1>2 DEF Dispatch, Goto, durable
  <2>2. CASE d = c /\ t = u
    <3>1. record[t] = NoEvidence
      BY <2>1, <2>2 DEF IsNextTake, Missing, KnowsRecords
    <3>2. ~(dispatches[t][d] > 0)
      BY <1>00, <2>1, <2>2, <3>1 DEF Spending, Recorded, Lost
    <3>3. dispatches'[t][d] = 1
      BY <1>00, <2>1, <2>2, <3>2
    <3>4. Spending(d, t)'
      BY <2>1, <2>2 DEF Spending, IsNextTake, Missing
    <3> QED
      BY <3>3, <3>4 DEF Paid
  <2>3. CASE d # c
    <3>1. dispatches'[t][d] = dispatches[t][d]
      BY <2>1, <2>3
    <3>2. pc'[d] = pc[d]
      BY <2>1, <2>3
    <3> QED
      BY <1>0, <2>1, <3>1, <3>2, OthersPaid DEF Paid
  <2>4. CASE d = c /\ t # u
    <3>1. dispatches'[t][d] = dispatches[t][d]
      BY <2>1, <2>4
    <3>2. ~Spending(d, t) /\ ~Lost(d)
      BY <2>1, <2>4 DEF Spending, Lost
    <3> QED
      BY <1>00, <3>1, <3>2 DEF Paid
  <2> QED
    BY <2>2, <2>3, <2>4
<1>3. ASSUME NEW c \in Callers, ProviderReturns(c) \/ PutArtifact(c)
      PROVE  Paid(d, t)
  <2>1. /\ pc[c] \in {"render", "put"} /\ pc'[c] \in {"put", "save"}
        /\ d # c => pc'[d] = pc[d]
        /\ UNCHANGED <<window, outcome, record, dispatches>>
    BY <1>3 DEF ProviderReturns, PutArtifact, Goto, durable
  <2>2. Spending(d, t) => Spending(d, t)'
    BY <2>1 DEF Spending, IsNextTake, Missing
  <2>3. Lost(d) => Lost(d)'
    BY <2>1 DEF Lost
  <2> QED
    BY <1>00, <2>1, <2>2, <2>3 DEF Paid
<1>4. ASSUME NEW c \in Callers, NEW u \in Takes, SaveRecord(c, u)
      PROVE  Paid(d, t)
  <2>1. /\ u \in window[c] /\ record[u] = NoEvidence
        /\ response[c] \in Evidence /\ response[c].request = c
        /\ IsNextTake(c, u) /\ pc[c] = "save"
    BY <1>4 DEF SaveRecord, IsNextTake, Missing, KnowsRecords, OwnResponse
  <2>2. /\ record' = [record EXCEPT ![u] = response[c]]
        /\ outcome' = [outcome EXCEPT ![c][u] = response[c]]
        /\ pc' = [pc EXCEPT ![c] = "work"]
        /\ UNCHANGED <<window, dispatches>>
    BY <1>4, <2>1 DEF SaveRecord, Goto
  <2>3. CASE d # c
    BY <1>0, <2>2, <2>3, OthersPaid DEF Paid
  <2>4. CASE d = c
    <3>1. Spending(d, t) => t = u
      BY <2>1, <2>4, DurableRenderAssumption DEF Spending, IsNextTake, Missing
    <3>2. t = u => Recorded(d, t)'
      BY <2>1, <2>2, <2>4, DurableRenderAssumption DEF Recorded
    <3>3. ~Lost(d)
      BY <2>1, <2>4 DEF Lost
    <3> QED
      BY <1>00, <2>2, <3>1, <3>2, <3>3 DEF Paid
  <2> QED
    BY <2>3, <2>4
<1>5. ASSUME NEW p \in Procs, Crash(p)
      PROVE  Paid(d, t)
  <2>1. /\ UNCHANGED <<window, outcome, record, dispatches>>
        /\ pc'[d] = pc[d] \/ pc'[d] = "dead"
    BY <1>5 DEF Crash, durable
  <2>2. CASE pc'[d] = pc[d]
    BY <1>0, <2>1, <2>2, OthersPaid DEF Paid
  <2>3. CASE pc'[d] = "dead"
    BY <1>00, <2>1, <2>3 DEF Paid, Lost
  <2> QED
    BY <2>1, <2>2, <2>3
<1>6. CASE (\E a \in Audio : DamageArtifact(a)) \/ UNCHANGED vars
  <2>1. UNCHANGED <<pc, window, outcome, record, dispatches>>
    BY <1>6 DEF DamageArtifact, vars, local
  <2> QED
    BY <1>0, <2>1, OthersPaid DEF Paid
<1> QED
  BY <1>1, <1>2, <1>3, <1>4, <1>5, <1>6 DEF Next, CallStep, AllSettled

(* Every provider call for a take but one was lost with a call that failed *)
(* or died, however many calls there are: of two others, one would be      *)
(* storing its answer, or both, under the claim that the record's writer   *)
(* held.                                                                   *)
THEOREM SpendBoundedHolds == Spec => []SpendBoundedByLosses
<1>1. Init => PaidInv
  BY DEF Init, PaidInv
<1>2. IndInv /\ PaidInv /\ [Next]_vars => PaidInv'
  BY PaidStep
<1>3. ASSUME IndInv, PaidInv PROVE SpendBoundedByLosses
  <2>1. ASSUME NEW t \in Takes, NEW c \in Payers(t) \ Losers(t)
        PROVE  c \in Callers /\ (Spending(c, t) \/ Recorded(c, t))
    BY <1>3, <2>1 DEF PaidInv, Payers, Losers, Lost, Recorded
  <2>2. ASSUME NEW t \in Takes, NEW c \in Callers, Spending(c, t)
        PROVE  record[t] = NoEvidence
    BY <1>3, <2>2 DEF IndInv, Spending, IsNextTake, Missing, KnowsRecords
  <2>3. ASSUME NEW t \in Takes, NEW c \in Callers, NEW d \in Callers,
               Spending(c, t), Spending(d, t)
        PROVE  c = d
    BY <1>3, <2>3, DurableRenderAssumption
    DEF IndInv, Spending, IsNextTake, Missing, AllClaimed
  <2>4. ASSUME NEW t \in Takes, NEW c \in Payers(t) \ Losers(t),
               NEW d \in Payers(t) \ Losers(t)
        PROVE  c = d
    BY <2>1, <2>2, <2>3 DEF Recorded
  <2> QED
    BY <1>3, <2>4 DEF SpendBoundedByLosses, PaidInv
<1> QED
  BY Inductive, <1>1, <1>2, <1>3, PTL DEF Spec
=============================================================================
