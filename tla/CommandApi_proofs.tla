-------------------------- MODULE CommandApi_proofs --------------------------
(***************************************************************************)
(* Proofs about CommandApi for every set of requests, workers, keys,       *)
(* sources and packages.                                                   *)
(***************************************************************************)
EXTENDS CommandApi, Sequences, TLAPS

(***************************************************************************)
(* The inductive invariant.  Every record is backed by the evidence of its *)
(* stage, and an episode that has not failed is at the stage of its        *)
(* version.  What a worker is about to write is one version ahead at most, *)
(* and when it is one ahead, it was made from the very record it replaces: *)
(* this is what the version stands for.  A request on its way is for an    *)
(* episode that has what its command was checked for.                      *)
(***************************************************************************)
Ready(c) == c.qa /\ c.package # Nothing

Backed(c) ==
  /\ c.state \in {"qa_passed", "packaged", "published"} => c.qa
  /\ c.state \in {"packaged", "published"} => c.package # Nothing
  /\ c.state = "failed" <=> c.failure

AtStage(c) ==
  c.state # "failed" =>
    c.version \in 1 .. Len(Lifecycle!Stages) /\ c.state = Lifecycle!Stages[c.version]

Follows(c, n) ==
  \E s \in Transitions[c.state] :
    \E p \in IF s = "packaged" THEN Packages ELSE {Nothing} : n = Updated(c, s, p)

RecordInv ==
  \A e \in Requests : Exists(e) => Backed(episodes[e]) /\ AtStage(episodes[e])

PendingInv ==
  \A w \in Workers : pending[w] # Nothing =>
    LET c == episodes[pending[w].episode]
        n == pending[w].record
    IN /\ Exists(pending[w].episode)
       /\ n.version <= c.version + 1
       /\ n.version = c.version + 1 => Follows(c, n)

CallInv ==
  \A r \in Requests :
    /\ pc[r] = "idle" => ~Exists(r)
    /\ pc[r] \in {"replay", "submit", "answered"} =>
         call[r] \in Call /\ Exists(call[r].episode)
    /\ pc[r] = "replay" => call[r].command = "render"
    /\ pc[r] = "submit" /\ call[r].command = "create" =>
         episodes[call[r].episode].key = call[r].key
    /\ pc[r] = "submit" /\ call[r].command = "publish" =>
         Ready(episodes[call[r].episode])

AnswerInv ==
  \A r \in Requests : pc[r] = "answered" =>
    \E x \in receipts : Identical(x, call[r]) /\ x.id = answer[r]

PublishInv ==
  \A x \in receipts : x.command = "publish" => Ready(episodes[x.episode])

IndInv ==
  /\ TypeOK
  /\ KeysBindOnce
  /\ RecordInv
  /\ PendingInv
  /\ CallInv
  /\ AnswerInv
  /\ PublishInv

-----------------------------------------------------------------------------
(* A transition makes a record of the next version, which keeps what the   *)
(* record before it had and has the evidence of its own stage.             *)
LEMMA UpdatedFacts ==
  ASSUME NEW c \in Record, Backed(c), AtStage(c),
         NEW s \in Transitions[c.state],
         NEW p \in IF s = "packaged" THEN Packages ELSE {Nothing}
  PROVE  LET n == Updated(c, s, p)
         IN /\ n \in Record
            /\ n.key = c.key
            /\ n.version = c.version + 1
            /\ Backed(n)
            /\ AtStage(n)
            /\ Ready(c) => Ready(n)
<1> DEFINE n == Updated(c, s, p)
<1>1. c.state \in Stages /\ c.version \in Nat \ {0} /\ c.qa \in BOOLEAN
        /\ c.package \in Packages \cup {Nothing}
  BY DEF Record
<1>2. s \in Stages
  BY <1>1 DEF Transitions, Stages
<1>3. /\ n.key = c.key /\ n.source = c.source /\ n.state = s
      /\ n.version = c.version + 1
      /\ n.qa = (c.qa \/ s = "qa_passed")
      /\ n.package = (IF s = "packaged" THEN p ELSE c.package)
      /\ n.failure = (s = "failed")
  BY DEF Updated, Record
<1>4. n \in Record
  <2>1. n.package \in Packages \cup {Nothing}
    BY <1>1, <1>3
  <2>2. (c.version + 1) \in Nat \ {0}
    BY <1>1
  <2> QED
    BY <1>1, <1>2, <2>1, <2>2 DEF Updated, Record
<1>5. Backed(n)
  <2>1. s = "packaged" => c.state = "qa_passed" /\ p \in Packages
    BY <1>1 DEF Transitions, Stages
  <2>2. s = "published" => c.state = "packaged"
    BY <1>1 DEF Transitions, Stages
  <2> QED
    BY <1>1, <1>3, <2>1, <2>2, CommandApiAssumption DEF Backed
<1>6. AtStage(n)
  <2>1. c.state # "failed"
    BY <1>1 DEF Transitions, Stages
  <2>2. c.version \in 1 .. 6 /\ c.state = Lifecycle!Stages[c.version]
    BY <2>1 DEF AtStage, Lifecycle!Stages
  <2>3. s # "failed" => c.version + 1 \in 1 .. 6 /\ s = Lifecycle!Stages[c.version + 1]
    BY <2>2, <1>1 DEF Transitions, Stages, Lifecycle!Stages
  <2> QED
    BY <1>3, <2>3 DEF AtStage, Lifecycle!Stages
<1>7. Ready(c) => Ready(n)
  BY <1>1, <1>3, CommandApiAssumption DEF Ready
<1> QED
  BY <1>3, <1>4, <1>5, <1>6, <1>7

-----------------------------------------------------------------------------
(* The invariant holds of the empty tables.                                *)
LEMMA InitInv == Init => IndInv
BY DEF Init, IndInv, TypeOK, KeysBindOnce, RecordInv, PendingInv, CallInv,
       AnswerInv, PublishInv, Exists

(* A request that is on its way leaves the tables and the others alone.    *)
LEMMA RequestSteps ==
  ASSUME IndInv, NEW r \in Requests,
         \/ RenderEpisode(r) \/ PublishEpisode(r)
         \/ ReplayRender(r) \/ LoseRequest(r)
  PROVE  IndInv'
<1> USE DEF IndInv, Exists
<1>1. UNCHANGED <<episodes, receipts, pending>>
  BY DEF RenderEpisode, PublishEpisode, ReplayRender, LoseRequest
<1>2. /\ pc' \in [Requests -> {"idle", "replay", "submit", "answered", "refused",
                              "conflict", "lost"}]
      /\ call' \in [Requests -> Call \cup {Nothing}]
      /\ \A q \in Requests \ {r} :
           pc'[q] = pc[q] /\ call'[q] = call[q] /\ answer'[q] = answer[q]
  BY DEF TypeOK, RenderEpisode, PublishEpisode, ReplayRender, LoseRequest,
         Accept, Goto, Call, Commands, AnswerWith
<1>3. seen' \in [Requests -> Stages \cup {Nothing}]
  BY DEF TypeOK, RenderEpisode, PublishEpisode, ReplayRender, LoseRequest, Record
<1>4. answer' \in [Requests -> Requests \cup {Nothing}]
  BY DEF TypeOK, RenderEpisode, PublishEpisode, ReplayRender, LoseRequest,
         AnswerWith, Replays, Receipt
<1>5. TypeOK'
  BY <1>1, <1>2, <1>3, <1>4 DEF TypeOK
<1>6. KeysBindOnce' /\ RecordInv' /\ PendingInv' /\ PublishInv'
  BY <1>1 DEF KeysBindOnce, RecordInv, PendingInv, PublishInv
<1>7. /\ pc'[r] \in {"replay", "submit", "answered"} =>
           call'[r] \in Call /\ episodes[call'[r].episode] # Nothing
      /\ pc'[r] = "replay" => call'[r].command = "render"
      /\ pc'[r] = "submit" => \/ call'[r].command = "render"
                              \/ /\ call'[r].command = "publish"
                                 /\ Ready(episodes[call'[r].episode])
      /\ pc'[r] # "idle"
      /\ pc'[r] = "answered" =>
           \E x \in receipts : Identical(x, call'[r]) /\ x.id = answer'[r]
  <2>1. CASE RenderEpisode(r)
    BY <2>1 DEF RenderEpisode, TypeOK, Accept, Goto, Call, Commands
  <2>2. CASE PublishEpisode(r)
    <3>1. PICK e \in Requests, k \in Keys :
            /\ episodes[e] # Nothing
            /\ episodes[e].state \in {"packaged", "published"}
            /\ Accept(r, e, "publish", k)
      BY <2>2 DEF PublishEpisode
    <3>2. call'[r] = [episode |-> e, command |-> "publish", key |-> k]
      BY <3>1 DEF Accept, TypeOK
    <3>3. Ready(episodes[e])
      BY <3>1 DEF RecordInv, Backed, Ready
    <3> QED
      BY <2>2, <3>1, <3>2, <3>3 DEF PublishEpisode, Goto, TypeOK, Call, Commands
  <2>3. CASE ReplayRender(r)
    BY <2>3 DEF ReplayRender, CallInv, TypeOK, Goto, AnswerWith, Replays
  <2>4. CASE LoseRequest(r)
    BY <2>4 DEF LoseRequest, TypeOK, Goto
  <2> QED
    BY <2>1, <2>2, <2>3, <2>4
<1>8. CallInv'
  BY <1>1, <1>2, <1>7 DEF CallInv
<1>9. AnswerInv'
  BY <1>1, <1>2, <1>7 DEF AnswerInv
<1> QED
  BY <1>5, <1>6, <1>8, <1>9

(* A create makes a record under a key that no other has, or finds one.    *)
LEMMA CreateStep ==
  ASSUME IndInv, NEW r \in Requests, CreateEpisode(r)
  PROVE  IndInv'
<1> USE DEF IndInv, Exists
<1>1. PICK k \in Keys, x \in Sources :
        \/ /\ Owners(k) = {}
           /\ episodes' = [episodes EXCEPT ![r] = NewRecord(k, x)]
           /\ Accept(r, r, "create", k)
        \/ \E e \in Owners(k) :
             /\ episodes[e].source = x
             /\ Accept(r, e, "create", k)
             /\ UNCHANGED episodes
  BY DEF CreateEpisode
<1>2. /\ pc[r] = "idle" /\ pc' = [pc EXCEPT ![r] = "submit"]
      /\ UNCHANGED <<receipts, seen, answer, pending>>
      /\ episodes[r] = Nothing
  BY DEF CreateEpisode, Goto, CallInv
<1>3. PICK e \in Requests :
        /\ call' = [call EXCEPT ![r] = [episode |-> e, command |-> "create", key |-> k]]
        /\ episodes'[e] # Nothing /\ episodes'[e].key = k
        /\ \/ e = r /\ Owners(k) = {} /\ episodes' = [episodes EXCEPT ![r] = NewRecord(k, x)]
           \/ episodes' = episodes
  <2>1. CASE /\ Owners(k) = {}
             /\ episodes' = [episodes EXCEPT ![r] = NewRecord(k, x)]
             /\ Accept(r, r, "create", k)
    <3>1. NewRecord(k, x) \in Record /\ NewRecord(k, x).key = k
      BY DEF NewRecord, Record, Stages
    <3>2. episodes'[r] = NewRecord(k, x)
      BY <2>1 DEF TypeOK
    <3> QED
      BY <2>1, <3>1, <3>2, CommandApiAssumption DEF Accept
  <2>2. CASE \E e \in Owners(k) :
               /\ episodes[e].source = x
               /\ Accept(r, e, "create", k)
               /\ UNCHANGED episodes
    BY <2>2 DEF Owners, Accept
  <2> QED
    BY <1>1, <2>1, <2>2
<1>4. /\ \A q \in Requests : episodes[q] # Nothing => episodes'[q] = episodes[q]
      /\ \A q \in Requests \ {r} : episodes'[q] = episodes[q]
  BY <1>2, <1>3 DEF TypeOK
<1>5. NewRecord(k, x) \in Record
  BY DEF NewRecord, Record, Stages
<1>6. episodes'[r] # Nothing =>
        /\ episodes'[r] = NewRecord(k, x)
        /\ \A q \in Requests : episodes[q] # Nothing => episodes[q].key # k
  <2>1. CASE episodes' = episodes
    BY <1>2, <2>1
  <2>2. CASE Owners(k) = {} /\ episodes' = [episodes EXCEPT ![r] = NewRecord(k, x)]
    <3>1. episodes'[r] = NewRecord(k, x)
      BY <2>2 DEF TypeOK
    <3> QED
      BY <2>2, <3>1 DEF Owners
  <2> QED
    BY <1>3, <2>1, <2>2
<1>7. TypeOK'
  <2>1. episodes' \in [Requests -> Record \cup {Nothing}]
    BY <1>3, <1>5 DEF TypeOK
  <2>2. call' \in [Requests -> Call \cup {Nothing}]
    BY <1>3 DEF TypeOK, Call, Commands
  <2> QED
    BY <1>2, <2>1, <2>2 DEF TypeOK
<1>8. KeysBindOnce'
  <2>1. \A d, e1 \in Requests :
          episodes'[d] # Nothing /\ episodes'[e1] # Nothing
            /\ episodes'[d].key = episodes'[e1].key => d = e1
    BY <1>4, <1>6 DEF KeysBindOnce, NewRecord
  <2>2. \A y \in receipts : episodes'[y.episode] = episodes[y.episode]
    BY <1>4 DEF KeysBindOnce, TypeOK, Receipt
  <2> QED
    BY <1>2, <2>1, <2>2 DEF KeysBindOnce
<1>9. RecordInv'
  <2>1. Backed(NewRecord(k, x))
    BY DEF Backed, NewRecord
  <2>2. AtStage(NewRecord(k, x))
    BY DEF AtStage, NewRecord, Lifecycle!Stages
  <2> QED
    BY <1>4, <1>6, <2>1, <2>2 DEF RecordInv
<1>10. PendingInv'
  <2>1. \A w \in Workers : pending[w] # Nothing =>
          episodes'[pending[w].episode] = episodes[pending[w].episode]
    BY <1>4 DEF PendingInv, TypeOK, Update
  <2> QED
    BY <1>2, <2>1 DEF PendingInv
<1>11. CallInv'
  <2>1. \A q \in Requests \ {r} :
          /\ pc'[q] = pc[q] /\ call'[q] = call[q] /\ episodes'[q] = episodes[q]
          /\ pc[q] \in {"replay", "submit", "answered"} =>
               episodes'[call[q].episode] = episodes[call[q].episode]
    BY <1>2, <1>3, <1>4 DEF CallInv, TypeOK, Call
  <2>2. /\ pc'[r] = "submit"
        /\ call'[r] = [episode |-> e, command |-> "create", key |-> k]
    BY <1>2, <1>3 DEF TypeOK
  <2> QED
    BY <1>3, <2>1, <2>2 DEF CallInv, Call, Commands
<1>12. AnswerInv'
  BY <1>2, <1>3 DEF AnswerInv, TypeOK
<1>13. PublishInv'
  <2>1. \A y \in receipts : episodes'[y.episode] = episodes[y.episode]
    BY <1>4 DEF KeysBindOnce, TypeOK, Receipt
  <2> QED
    BY <1>2, <2>1 DEF PublishInv
<1> QED
  BY <1>7, <1>8, <1>9, <1>10, <1>11, <1>12, <1>13

(* A submit answers with the receipt of the command, adds the only one of  *)
(* its key, or ends in a conflict.                                         *)
LEMMA SubmitStep ==
  ASSUME IndInv, NEW r \in Requests, Submit(r)
  PROVE  IndInv'
<1> USE DEF IndInv, Exists
<1> DEFINE x == [episode |-> call[r].episode, command |-> call[r].command,
                 key |-> call[r].key, id |-> r]
<1>1. /\ pc[r] = "submit"
      /\ UNCHANGED <<episodes, call, seen, pending>>
      /\ call[r] \in Call /\ episodes[call[r].episode] # Nothing
  BY DEF Submit, CallInv
<1>2. x \in Receipt /\ Identical(x, call[r])
  BY <1>1 DEF Receipt, Call, Identical
<1>3. \/ receipts' = receipts
      \/ receipts' = receipts \cup {x} /\ \A y \in receipts : y.key # x.key
  BY DEF Submit
<1>4. /\ pc' \in [Requests -> {"idle", "replay", "submit", "answered", "refused",
                              "conflict", "lost"}]
      /\ answer' \in [Requests -> Requests \cup {Nothing}]
      /\ pc'[r] \in {"answered", "conflict"}
      /\ pc'[r] = "answered" =>
           \E y \in receipts' : Identical(y, call[r]) /\ y.id = answer'[r]
      /\ \A q \in Requests \ {r} : pc'[q] = pc[q] /\ answer'[q] = answer[q]
  <2>1. CASE \E y \in Replays(r) : AnswerWith(r, y) /\ UNCHANGED receipts
    BY <2>1 DEF Replays, AnswerWith, Goto, TypeOK, Receipt
  <2>2. CASE Goto(r, "conflict") /\ UNCHANGED <<receipts, answer>>
    BY <2>2 DEF Goto, TypeOK
  <2>3. CASE receipts' = receipts \cup {x} /\ AnswerWith(r, x)
    BY <1>2, <2>3 DEF AnswerWith, Goto, TypeOK
  <2> QED
    BY <2>1, <2>2, <2>3 DEF Submit
<1>5. TypeOK'
  BY <1>1, <1>2, <1>3, <1>4 DEF TypeOK
<1>6. KeysBindOnce'
  <2>1. \A y, z \in receipts' : y.key = z.key => y = z
    BY <1>3 DEF KeysBindOnce
  <2>2. /\ episodes[x.episode] # Nothing
        /\ x.command = "create" => episodes[x.episode].key = x.key
    BY <1>1 DEF CallInv
  <2>3. \A y \in receipts' : /\ episodes[y.episode] # Nothing
                             /\ y.command = "create" => episodes[y.episode].key = y.key
    BY <1>3, <2>2 DEF KeysBindOnce
  <2> QED
    BY <1>1, <2>1, <2>3 DEF KeysBindOnce
<1>7. RecordInv' /\ PendingInv'
  BY <1>1 DEF RecordInv, PendingInv
<1>8. CallInv'
  BY <1>1, <1>4 DEF CallInv
<1>9. AnswerInv'
  BY <1>1, <1>3, <1>4 DEF AnswerInv
<1>10. PublishInv'
  <2>1. x.command = "publish" => Ready(episodes[x.episode])
    BY <1>1 DEF CallInv
  <2> QED
    BY <1>1, <1>3, <2>1 DEF PublishInv
<1> QED
  BY <1>5, <1>6, <1>7, <1>8, <1>9, <1>10

(* A worker builds the next version of the record it has read.             *)
LEMMA TransitionStep ==
  ASSUME IndInv, NEW w \in Workers, Transition(w)
  PROVE  IndInv'
<1> USE DEF IndInv, Exists
<1>1. UNCHANGED <<episodes, receipts, pc, call, seen, answer>>
  BY DEF Transition, requests
<1>2. PICK e \in Requests :
        /\ episodes[e] # Nothing
        /\ \E s \in Transitions[episodes[e].state] :
             \E p \in IF s = "packaged" THEN Packages ELSE {Nothing} :
               pending' = [pending EXCEPT ![w] =
                 [episode |-> e, record |-> Updated(episodes[e], s, p)]]
  BY DEF Transition
<1>3. PICK s \in Transitions[episodes[e].state] :
        \E p \in IF s = "packaged" THEN Packages ELSE {Nothing} :
          pending' = [pending EXCEPT ![w] =
            [episode |-> e, record |-> Updated(episodes[e], s, p)]]
  BY <1>2
<1>4. PICK p \in IF s = "packaged" THEN Packages ELSE {Nothing} :
        pending' = [pending EXCEPT ![w] =
          [episode |-> e, record |-> Updated(episodes[e], s, p)]]
  BY <1>3
<1> DEFINE n == Updated(episodes[e], s, p)
<1>5. episodes[e] \in Record /\ Backed(episodes[e]) /\ AtStage(episodes[e])
  BY <1>2 DEF TypeOK, RecordInv
<1>6. n \in Record /\ n.version = episodes[e].version + 1
  BY <1>5, UpdatedFacts
<1>7. [episode |-> e, record |-> n] \in Update
  BY <1>6 DEF Update
<1>8. TypeOK'
  BY <1>1, <1>4, <1>7 DEF TypeOK
<1>9. Follows(episodes[e], n)
  BY DEF Follows
<1>10. PendingInv'
  <2> HIDE DEF n
  <2>1. pending'[w] = [episode |-> e, record |-> n]
    BY <1>4 DEF TypeOK, n
  <2>2. episodes[e].version \in Nat
    BY <1>5 DEF Record
  <2>3. \A v \in Workers \ {w} : pending'[v] = pending[v]
    BY <1>4 DEF TypeOK
  <2>4. ASSUME NEW v \in Workers, pending'[v] # Nothing
        PROVE  LET c == episodes[pending'[v].episode]
                   m == pending'[v].record
               IN /\ c # Nothing
                  /\ m.version <= c.version + 1
                  /\ m.version = c.version + 1 => Follows(c, m)
    <3>1. CASE v = w
      BY <1>2, <1>6, <1>9, <2>1, <2>2, <3>1
    <3>2. CASE v # w
      BY <2>3, <2>4, <3>2 DEF PendingInv
    <3> QED
      BY <3>1, <3>2
  <2> QED
    BY <1>1, <2>4 DEF PendingInv
<1>11. KeysBindOnce' /\ RecordInv' /\ CallInv' /\ AnswerInv' /\ PublishInv'
  BY <1>1 DEF KeysBindOnce, RecordInv, CallInv, AnswerInv, PublishInv
<1> QED
  BY <1>8, <1>10, <1>11

(* A write goes in only over the record it was made from, so what was known*)
(* of that episode stays true, and every other write to it is now stale.   *)
LEMMA ReplaceStep ==
  ASSUME IndInv, NEW w \in Workers, Replace(w)
  PROVE  IndInv'
<1> USE DEF IndInv, Exists
<1> DEFINE e == pending[w].episode
           n == pending[w].record
<1>1. /\ pending[w] # Nothing
      /\ pending' = [pending EXCEPT ![w] = Nothing]
      /\ UNCHANGED <<receipts, pc, call, seen, answer>>
  BY DEF Replace, requests
<1>2. e \in Requests /\ n \in Record /\ episodes[e] \in Record
        /\ episodes[e] # Nothing
  BY <1>1 DEF TypeOK, Update, PendingInv
<1>3. pending' \in [Workers -> Update \cup {Nothing}]
        /\ \A v \in Workers : pending'[v] # Nothing => pending'[v] = pending[v]
  BY <1>1 DEF TypeOK
<1>4. CASE episodes' = episodes
  BY <1>1, <1>3, <1>4
     DEF TypeOK, KeysBindOnce, RecordInv, PendingInv, CallInv, AnswerInv, PublishInv
<1>5. CASE episodes[e].version + 1 = n.version
             /\ episodes' = [episodes EXCEPT ![e] = n]
  <2>1. Follows(episodes[e], n)
    BY <1>1, <1>5 DEF PendingInv
  <2>2. /\ n.key = episodes[e].key
        /\ n.version = episodes[e].version + 1
        /\ Backed(n) /\ AtStage(n)
        /\ Ready(episodes[e]) => Ready(n)
    BY <1>2, <2>1, UpdatedFacts DEF RecordInv, Follows
  <2>3. /\ episodes' \in [Requests -> Record \cup {Nothing}]
        /\ episodes'[e] = n
        /\ \A d \in Requests \ {e} : episodes'[d] = episodes[d]
    BY <1>2, <1>5 DEF TypeOK
  <2>4. \A d \in Requests :
          /\ episodes'[d] # Nothing <=> episodes[d] # Nothing
          /\ episodes[d] # Nothing => episodes'[d].key = episodes[d].key
          /\ episodes[d] # Nothing /\ Ready(episodes[d]) => Ready(episodes'[d])
    <3>1. n # Nothing
      BY <1>2, CommandApiAssumption
    <3> QED
      BY <1>2, <2>2, <2>3, <3>1
  <2>5. TypeOK'
    BY <1>1, <1>3, <2>3 DEF TypeOK
  <2>6. KeysBindOnce'
    BY <1>1, <2>4 DEF KeysBindOnce, TypeOK, Receipt
  <2>7. RecordInv'
    BY <2>2, <2>3 DEF RecordInv
  <2>8. PendingInv'
    <3>1. ASSUME NEW v \in Workers, pending'[v] # Nothing
          PROVE  LET c == episodes'[pending[v].episode]
                     m == pending[v].record
                 IN /\ c # Nothing
                    /\ m.version <= c.version + 1
                    /\ m.version = c.version + 1 => Follows(c, m)
      <4>1. /\ pending[v] \in Update
            /\ pending[v].record.version \in Nat
            /\ pending[v].episode \in Requests
        BY <1>3, <3>1 DEF TypeOK, Update, Record
      <4>2. LET c == episodes[pending[v].episode]
                m == pending[v].record
            IN /\ c # Nothing
               /\ m.version <= c.version + 1
               /\ m.version = c.version + 1 => Follows(c, m)
        BY <1>3, <3>1 DEF PendingInv
      <4>3. CASE pending[v].episode = e
        <5>1. episodes[e].version \in Nat
          BY <1>2 DEF Record
        <5>2. pending[v].record.version < episodes'[e].version + 1
          BY <2>2, <2>3, <4>1, <4>2, <4>3, <5>1
        <5>3. episodes'[e].version \in Nat
          BY <2>2, <2>3, <5>1
        <5> QED
          BY <1>2, <2>4, <4>1, <4>3, <5>2, <5>3
      <4>4. CASE pending[v].episode # e
        BY <2>3, <4>1, <4>2, <4>4
      <4> QED
        BY <4>3, <4>4
    <3> QED
      BY <1>3, <3>1 DEF PendingInv
  <2>9. CallInv'
    BY <1>1, <2>4 DEF CallInv, Call
  <2>10. AnswerInv'
    BY <1>1 DEF AnswerInv
  <2>11. PublishInv'
    BY <1>1, <2>4 DEF PublishInv, KeysBindOnce, TypeOK, Receipt
  <2> QED
    BY <2>5, <2>6, <2>7, <2>8, <2>9, <2>10, <2>11
<1> QED
  BY <1>4, <1>5 DEF Replace

(* A write that is lost leaves nothing behind.                             *)
LEMMA LoseTransitionStep ==
  ASSUME IndInv, NEW w \in Workers, LoseTransition(w)
  PROVE  IndInv'
BY DEF IndInv, LoseTransition, requests, TypeOK, KeysBindOnce, RecordInv,
       PendingInv, CallInv, AnswerInv, PublishInv, Exists

-----------------------------------------------------------------------------
(* The invariant is inductive.                                             *)
LEMMA NextInv == IndInv /\ [Next]_vars => IndInv'
<1> SUFFICES ASSUME IndInv, [Next]_vars
             PROVE  IndInv'
  OBVIOUS
<1>1. CASE UNCHANGED vars
  BY <1>1 DEF vars, requests, IndInv, TypeOK, KeysBindOnce, RecordInv,
              PendingInv, CallInv, AnswerInv, PublishInv, Exists
<1>2. ASSUME NEW r \in Requests,
             \/ CreateEpisode(r) \/ RenderEpisode(r) \/ PublishEpisode(r)
             \/ ReplayRender(r) \/ Submit(r) \/ LoseRequest(r)
      PROVE  IndInv'
  BY <1>2, CreateStep, RequestSteps, SubmitStep
<1>3. ASSUME NEW w \in Workers, Transition(w) \/ Replace(w) \/ LoseTransition(w)
      PROVE  IndInv'
  BY <1>3, TransitionStep, ReplaceStep, LoseTransitionStep
<1> QED
  BY <1>1, <1>2, <1>3 DEF Next

(* The invariant holds in every reachable state.                           *)
THEOREM Invariance == Spec => []IndInv
<1>1. Init => IndInv
  BY InitInv
<1>2. IndInv /\ [Next]_vars => IndInv'
  BY NextInv
<1> QED
  BY <1>1, <1>2, PTL DEF Spec

(* Every variable has its type: a stale writer, a replay or a lost request *)
(* never puts a malformed record or receipt in a table.                    *)
THEOREM TypeCorrect == Spec => []TypeOK
<1>1. IndInv => TypeOK
  BY DEF IndInv
<1> QED
  BY <1>1, Invariance, PTL

(* A key belongs to one episode and to one receipt, whatever requests race.*)
THEOREM KeysBindOnceHolds == Spec => []KeysBindOnce
<1>1. IndInv => KeysBindOnce
  BY DEF IndInv
<1> QED
  BY <1>1, Invariance, PTL

(* Two calls of one command that are answered have the same receipt.       *)
THEOREM AnswersAgreeHolds == Spec => []AnswersAgree
<1>1. IndInv => AnswersAgree
  <2> SUFFICES ASSUME IndInv, NEW r \in Requests, pc[r] = "answered"
               PROVE  /\ \E x \in Replays(r) : x.id = answer[r]
                      /\ \A s \in Requests :
                           pc[s] = "answered" /\ call[s] = call[r]
                             => answer[s] = answer[r]
    BY DEF AnswersAgree
  <2>1. PICK x \in receipts : Identical(x, call[r]) /\ x.id = answer[r]
    BY DEF IndInv, AnswerInv
  <2>2. ASSUME NEW s \in Requests, pc[s] = "answered", call[s] = call[r]
        PROVE  answer[s] = answer[r]
    <3>1. PICK y \in receipts : Identical(y, call[s]) /\ y.id = answer[s]
      BY <2>2 DEF IndInv, AnswerInv
    <3>2. x = y
      BY <2>1, <2>2, <3>1 DEF IndInv, KeysBindOnce, Identical
    <3> QED
      BY <2>1, <3>1, <3>2
  <2> QED
    BY <2>1, <2>2 DEF Replays
<1> QED
  BY <1>1, Invariance, PTL

(* Publish is accepted only for what passed QA and is packaged, although   *)
(* the record is checked in another transaction than the receipt is written*)
(* in.                                                                     *)
THEOREM PublishedArePackagedHolds == Spec => []PublishedArePackaged
<1>1. IndInv => PublishedArePackaged
  BY DEF IndInv, PublishInv, RecordInv, Backed, Ready, PublishedArePackaged
<1> QED
  BY <1>1, Invariance, PTL

-----------------------------------------------------------------------------
(* A create keeps the key of its episode until it is answered with a       *)
(* receipt, and is only refused because the key has one.                   *)
CreateInv ==
  \A r \in Requests : call[r] # Nothing /\ call[r].command = "create" =>
    /\ Exists(call[r].episode) /\ episodes[call[r].episode].key = call[r].key
    /\ pc[r] \in {"submit", "answered", "conflict", "lost"}
    /\ pc[r] = "conflict" => \E x \in receipts : x.key = call[r].key

(* A record that was created stays, under its key.                         *)
LEMMA KeysStay ==
  ASSUME IndInv, [Next]_vars, NEW e \in Requests, Exists(e)
  PROVE  episodes'[e] # Nothing /\ episodes'[e].key = episodes[e].key
<1> USE DEF Exists
<1>1. CASE episodes' = episodes
  BY <1>1
<1>2. ASSUME NEW r \in Requests, CreateEpisode(r)
      PROVE  episodes'[e] = episodes[e]
  BY <1>2 DEF CreateEpisode, IndInv, CallInv, TypeOK
<1>3. ASSUME NEW w \in Workers, Replace(w), episodes' # episodes
      PROVE  episodes'[e] # Nothing /\ episodes'[e].key = episodes[e].key
  <2> DEFINE d == pending[w].episode
             n == pending[w].record
  <2>1. /\ pending[w] # Nothing /\ pending[w] \in Update
        /\ episodes' = [episodes EXCEPT ![d] = n]
        /\ episodes[d].version + 1 = n.version
    BY <1>3 DEF Replace, IndInv, TypeOK
  <2>2. d \in Requests /\ n \in Record /\ n # Nothing
    BY <2>1, CommandApiAssumption DEF Update
  <2>3. episodes[d] \in Record /\ Backed(episodes[d]) /\ AtStage(episodes[d])
    BY <2>1, <2>2 DEF IndInv, TypeOK, PendingInv, RecordInv
  <2>4. episodes[d].version \in Nat
    BY <2>3 DEF Record
  <2>5. Follows(episodes[d], n)
    BY <2>1, <2>4 DEF IndInv, PendingInv
  <2>6. n.key = episodes[d].key
    BY <2>3, <2>5, UpdatedFacts DEF Follows
  <2> QED
    BY <2>1, <2>2, <2>6 DEF IndInv, TypeOK
<1>4. \/ episodes' = episodes
      \/ \E r \in Requests : CreateEpisode(r)
      \/ \E w \in Workers : Replace(w)
  BY DEF Next, vars, RenderEpisode, PublishEpisode, ReplayRender, Submit, LoseRequest,
         Transition, LoseTransition
<1> QED
  BY <1>1, <1>2, <1>3, <1>4

LEMMA CreateInvStep == IndInv /\ CreateInv /\ [Next]_vars => CreateInv'
<1> SUFFICES ASSUME IndInv, CreateInv, [Next]_vars,
                    NEW q \in Requests, call'[q] # Nothing, call'[q].command = "create"
             PROVE  /\ episodes'[call'[q].episode] # Nothing
                    /\ episodes'[call'[q].episode].key = call'[q].key
                    /\ pc'[q] \in {"submit", "answered", "conflict", "lost"}
                    /\ pc'[q] = "conflict" => \E x \in receipts' : x.key = call'[q].key
  BY DEF CreateInv, Exists
<1> DEFINE Kept == /\ pc'[q] = pc[q] /\ call'[q] = call[q]
                   /\ receipts \subseteq receipts'
<1>1. CASE Kept
  <2>1. call[q] \in Call
    BY <1>1 DEF IndInv, TypeOK
  <2>2. call[q].episode \in Requests /\ Exists(call[q].episode)
    BY <1>1, <2>1 DEF CreateInv, Call
  <2> QED
    BY <1>1, <2>2, KeysStay DEF CreateInv, Exists
<1>2. ASSUME NEW r \in Requests, CreateEpisode(r), ~Kept
      PROVE  /\ episodes'[call'[q].episode] # Nothing
             /\ episodes'[call'[q].episode].key = call'[q].key
             /\ pc'[q] = "submit"
  <2>1. q = r /\ pc'[q] = "submit"
    BY <1>2 DEF CreateEpisode, Accept, Goto, IndInv, TypeOK
  <2>2. PICK k \in Keys, x \in Sources :
          \/ /\ Owners(k) = {}
             /\ episodes' = [episodes EXCEPT ![r] = NewRecord(k, x)]
             /\ Accept(r, r, "create", k)
          \/ \E e \in Owners(k) :
               /\ episodes[e].source = x
               /\ Accept(r, e, "create", k)
               /\ UNCHANGED episodes
    BY <1>2 DEF CreateEpisode
  <2>3. NewRecord(k, x) # Nothing /\ NewRecord(k, x).key = k
    <3>1. NewRecord(k, x) \in Record
      BY DEF NewRecord, Record, Stages
    <3> QED
      BY <3>1, CommandApiAssumption DEF NewRecord
  <2>4. CASE /\ episodes' = [episodes EXCEPT ![r] = NewRecord(k, x)]
             /\ Accept(r, r, "create", k)
    BY <2>1, <2>3, <2>4 DEF Accept, IndInv, TypeOK, Exists
  <2>5. CASE \E e \in Owners(k) : Accept(r, e, "create", k) /\ UNCHANGED episodes
    BY <2>1, <2>5 DEF Accept, Owners, IndInv, TypeOK, Exists
  <2> QED
    BY <2>1, <2>2, <2>4, <2>5
<1>3. ASSUME NEW r \in Requests, RenderEpisode(r) \/ PublishEpisode(r)
      PROVE  Kept
  BY <1>3 DEF RenderEpisode, PublishEpisode, Accept, Goto, IndInv, TypeOK
<1>4. ASSUME NEW r \in Requests, ReplayRender(r)
      PROVE  Kept
  <2>1. call[r].command = "render" /\ call' = call /\ receipts' = receipts
    BY <1>4 DEF ReplayRender, IndInv, CallInv
  <2> QED
    BY <1>4, <2>1 DEF ReplayRender, AnswerWith, Goto, IndInv, TypeOK
<1>5. ASSUME NEW r \in Requests, Submit(r), ~Kept
      PROVE  /\ call' = call /\ episodes' = episodes
             /\ pc'[q] \in {"answered", "conflict"}
             /\ pc'[q] = "conflict" => \E x \in receipts' : x.key = call'[q].key
  BY <1>5 DEF Submit, AnswerWith, Goto, IndInv, TypeOK
<1>6. ASSUME NEW r \in Requests, LoseRequest(r), ~Kept
      PROVE  call' = call /\ episodes' = episodes /\ pc'[q] = "lost"
  BY <1>6 DEF LoseRequest, Goto, IndInv, TypeOK
<1>7. ASSUME NEW w \in Workers, Transition(w) \/ Replace(w) \/ LoseTransition(w)
      PROVE  Kept
  BY <1>7 DEF Transition, Replace, LoseTransition, requests
<1>8. CASE UNCHANGED vars
  BY <1>1, <1>8 DEF vars, requests
<1> QED
  BY <1>1, <1>2, <1>3, <1>4, <1>5, <1>6, <1>7, <1>8 DEF Next, CreateInv, Exists

(* An episode without a create receipt has no create that was answered,    *)
(* unless its key was taken by another command.                            *)
THEOREM EpisodesAreReceiptedHolds == Spec => []EpisodesAreReceipted
<1>1. Init => CreateInv
  BY DEF Init, CreateInv
<1>2. IndInv /\ CreateInv => EpisodesAreReceipted
  <2> SUFFICES ASSUME IndInv, CreateInv, NEW e \in Requests, Exists(e),
                      ~ \E x \in receipts : x.episode = e /\ x.command = "create",
                      ~ \E x \in receipts : x.key = episodes[e].key,
                      NEW r \in Requests, call[r] # Nothing, call[r].episode = e,
                      call[r].command = "create"
               PROVE  pc[r] \in {"submit", "lost"}
    BY DEF EpisodesAreReceipted
  <2>1. pc[r] # "answered"
    BY DEF IndInv, AnswerInv, Identical
  <2>2. pc[r] # "conflict"
    BY DEF CreateInv
  <2> QED
    BY <2>1, <2>2 DEF CreateInv
<1> QED
  BY <1>1, <1>2, CreateInvStep, Invariance, PTL DEF Spec

-----------------------------------------------------------------------------
(* Writing a record over the one it was made from is a step of the         *)
(* lifecycle: the next stage, or a failure.                                *)
LEMMA WriteAdvances ==
  ASSUME IndInv, NEW w \in Workers, Replace(w), episodes' # episodes
  PROVE  Lifecycle!Next
<1>1. PICK e \in Requests : e = pending[w].episode
  BY DEF Replace, IndInv, TypeOK, Update
<1> DEFINE c == episodes[e]
<1>2. /\ e \in Requests /\ pending[w].record \in Record
      /\ c \in Record /\ Exists(e)
      /\ episodes' = [episodes EXCEPT ![e] = pending[w].record]
      /\ Follows(c, pending[w].record)
  BY <1>1 DEF Replace, IndInv, PendingInv, TypeOK, Update, Exists
<1>3. PICK s \in Transitions[c.state] :
        \E p \in IF s = "packaged" THEN Packages ELSE {Nothing} :
          pending[w].record = Updated(c, s, p)
  BY <1>2 DEF Follows
<1>4. PICK p \in IF s = "packaged" THEN Packages ELSE {Nothing} :
        pending[w].record = Updated(c, s, p)
  BY <1>3
<1>5. /\ pending[w].record.state = s
      /\ pending[w].record.version = c.version + 1
      /\ pending[w].record.package = IF s = "packaged" THEN p ELSE c.package
  BY <1>2, <1>4 DEF Updated, Record
<1>6. Shown' = [Shown EXCEPT ![e] =
        [stage |-> s, version |-> c.version + 1,
         package |-> IF s = "packaged" THEN p ELSE c.package]]
  <2>1. pending[w].record # Nothing
    BY <1>2, CommandApiAssumption
  <2> QED
    BY <1>2, <1>5, <2>1 DEF Shown, Exists, IndInv, TypeOK
<1>7. /\ Shown[e] = [stage |-> c.state, version |-> c.version, package |-> c.package]
      /\ Shown[e] # Nothing
  <2>1. Shown[e] = [stage |-> c.state, version |-> c.version, package |-> c.package]
    BY <1>2 DEF Shown
  <2>2. Shown[e] # Nothing
    BY <1>2, <2>1, CommandApiAssumption DEF Record, View
  <2> QED
    BY <2>1, <2>2
<1>8. c.state \in Stages /\ c.state \notin {"published", "failed"}
  BY <1>2, <1>3 DEF Transitions, Stages, Record
<1> HIDE DEF c
<1>9. CASE s = "failed"
  <2>1. Shown[e].version = c.version /\ Shown[e].stage = c.state
          /\ Shown[e].package = c.package
    BY <1>7
  <2>2. Lifecycle!Fail(e)
    BY <1>6, <1>7, <1>8, <1>9, <2>1 DEF Lifecycle!Fail, Lifecycle!Step
  <2> QED
    BY <1>2, <2>2 DEF Lifecycle!Next
<1>10. CASE s # "failed"
  <2>1. c.version \in 1 .. 6 /\ c.state = Lifecycle!Stages[c.version]
    BY <1>2, <1>8 DEF IndInv, RecordInv, AtStage, Lifecycle!Stages, c
  <2>2. c.version < 6 /\ s = Lifecycle!Stages[c.version + 1]
    BY <1>3, <1>8, <1>10, <2>1 DEF Transitions, Stages, Lifecycle!Stages
  <2>3. Lifecycle!Advance(e)
    <3>1. Shown[e].version = c.version /\ Shown[e].stage = c.state
            /\ Shown[e].package = c.package
      BY <1>7
    <3>2. c.version < Len(Lifecycle!Stages)
      BY <2>2 DEF Lifecycle!Stages
    <3>3. PICK q \in IF s = "packaged" THEN Packages ELSE {c.package} :
            q = IF s = "packaged" THEN p ELSE c.package
      BY <1>4
    <3>4. Lifecycle!Step(e, s, q)
      BY <1>6, <3>1, <3>3 DEF Lifecycle!Step
    <3> QED
      BY <1>7, <1>8, <2>2, <3>1, <3>2, <3>4 DEF Lifecycle!Advance
  <2> QED
    BY <1>2, <2>3 DEF Lifecycle!Next
<1> QED
  BY <1>9, <1>10

(* A render that repeats an accepted one is never turned away: only the    *)
(* step after the lookup refuses, and only when it has found no receipt.   *)
THEOREM ReplaysAreNotRefusedHolds == Spec => ReplaysAreNotRefused
<1> DEFINE Turned(r) == pc[r] # "refused" /\ pc'[r] = "refused"
<1>1. TypeOK /\ [Next]_vars => \A r \in Requests : Turned(r) => Replays(r) = {}
  <2> SUFFICES ASSUME TypeOK, [Next]_vars, NEW r \in Requests, Turned(r)
               PROVE  Replays(r) = {}
    OBVIOUS
  <2>1. pc \in [Requests -> {"idle", "replay", "submit", "answered", "refused",
                              "conflict", "lost"}]
    BY DEF TypeOK
  <2>2. ASSUME NEW q \in Requests, NEW step, Goto(q, step), step # "refused"
        PROVE  FALSE
    BY <2>1, <2>2 DEF Goto
  <2>3. pc' # pc
    OBVIOUS
  <2>4. \A q \in Requests :
          ~(\/ CreateEpisode(q) \/ RenderEpisode(q) \/ PublishEpisode(q)
            \/ Submit(q) \/ LoseRequest(q))
    BY <2>2 DEF CreateEpisode, RenderEpisode, PublishEpisode, Submit, LoseRequest, AnswerWith
  <2>5. PICK q \in Requests : ReplayRender(q)
    BY <2>3, <2>4 DEF Next, vars, requests, Transition, Replace, LoseTransition
  <2>6. Replays(q) = {} /\ Goto(q, IF seen[q] = "published" THEN "refused" ELSE "submit")
    BY <2>2, <2>5 DEF ReplayRender, AnswerWith
  <2>7. q = r
    BY <2>1, <2>6 DEF Goto
  <2> QED
    BY <2>6, <2>7
<1> QED
  BY <1>1, TypeCorrect, PTL DEF Spec, ReplaysAreNotRefused

(* The API and its workers implement the lifecycle episode_service.py      *)
(* promises: an episode goes through the stages in order, one version a    *)
(* step, however stale the callers are.                                    *)
THEOREM KeepsLifecycleHolds == Spec => KeepsLifecycle
<1>1. Init => Lifecycle!Init
  BY DEF Init, Lifecycle!Init, Exists, Shown
<1>2. IndInv /\ [Next]_vars => [Lifecycle!Next]_Shown
  <2> SUFFICES ASSUME IndInv, [Next]_vars, episodes' # episodes
               PROVE  Lifecycle!Next
    BY DEF Shown, Exists
  <2>1. ASSUME NEW r \in Requests, CreateEpisode(r)
        PROVE  Lifecycle!Next
    <3>1. PICK k \in Keys, x \in Sources :
            episodes' = [episodes EXCEPT ![r] = NewRecord(k, x)]
      BY <2>1 DEF CreateEpisode
    <3>2. NewRecord(k, x) \in Record
      BY DEF NewRecord, Record, Stages
    <3>3. NewRecord(k, x) # Nothing
      BY <3>2, CommandApiAssumption
    <3>4. ~Exists(r)
      BY <2>1 DEF CreateEpisode, IndInv, CallInv
    <3>5. Shown' = [Shown EXCEPT ![r] =
            [stage |-> "validated", version |-> 1, package |-> Nothing]]
      BY <3>1, <3>3 DEF Shown, Exists, IndInv, TypeOK, NewRecord
    <3>6. Lifecycle!Begin(r)
      BY <3>5, <3>4 DEF Lifecycle!Begin, Lifecycle!Stages, Shown
    <3> QED
      BY <3>6 DEF Lifecycle!Next
  <2>2. (\E r \in Requests : CreateEpisode(r)) \/ (\E w \in Workers : Replace(w))
    BY DEF Next, vars, requests, RenderEpisode, PublishEpisode, ReplayRender,
           Submit, LoseRequest, Transition, LoseTransition
  <2> QED
    BY <2>1, <2>2, WriteAdvances
<1> QED
  BY <1>1, <1>2, Invariance, PTL DEF Spec, KeepsLifecycle, Lifecycle!Spec, Shown
=============================================================================
