-------------------------- MODULE Publishing_proofs --------------------------
(***************************************************************************)
(* For any number of threads, keys, targets, packages, calls and crashes:  *)
(*                                                                         *)
(*  - an idempotency key publishes once and mutates once (KeyInv);         *)
(*  - the steps of a publication are those of its target's adapter, so     *)
(*    that each adapter can be looked at by itself (KindInv);              *)
(*  - a feed lists the episodes with receipts (FeedInv);                   *)
(*  - a filesystem receipt stands for its package's bytes (FileInv);       *)
(*  - the object store keeps what was put into it until it is removed      *)
(*    (ReadInv, in the second half of the module).                         *)
(***************************************************************************)
EXTENDS Publishing, TLAPS

(* The steps of the four kinds of calls; a publication goes through those  *)
(* of a put.                                                               *)
PutSteps == {"put", "linkObject", "linkSidecar"}
RemoveSteps == {"remove", "unlinkObject", "unlinkSidecar", "prune"}
PublishSteps ==
  {"mkdir", "mkdtemp", "write", "exists", "compare", "rename", "cleanup",
   "s3", "read", "rollback", "rss", "setItem", "buildFeed", "storeFeed",
   "transistor", "done", "failed"} \cup PutSteps
MutationSteps ==
  {"scan", "update", "writeUpdate", "rmtree", "unlink", "transistorMutation",
   "mutated", "mutationFailed"}
Steps == PutSteps \cup RemoveSteps \cup PublishSteps \cup MutationSteps \cup {"idle", "open"}

StepsOf(op) ==
  IF op = "publish" THEN PublishSteps
  ELSE IF op = "put" THEN PutSteps
  ELSE IF op = "remove" THEN RemoveSteps
  ELSE MutationSteps

(* A thread is between calls, about to take its key's lock, or inside the  *)
(* steps of its operation.                                                 *)
CallInv ==
  /\ pc \in [Threads -> Steps] /\ call \in [Threads -> Call \cup {Nothing}]
  /\ menu \in Menus
  /\ \A t \in Threads : pc[t] # "idle" =>
       /\ call[t] \in Call
       /\ IF pc[t] = "open" THEN OpOf(t) \in Operations ELSE pc[t] \in StepsOf(OpOf(t))

ServiceInv ==
  /\ keyLock \in [Keys -> Threads \cup {Nothing}]
  /\ receipts \in [Keys -> Receipt \cup {Nothing}]
  /\ tries \in [Mutations -> [Keys -> {"none", "in-flight", "unknown", "completed"}]]
  /\ successes \in [Keys -> Nat] /\ dispatches \in [Keys -> Nat]

Inside(t) == pc[t] \in StepsOf(OpOf(t)) /\ OpOf(t) \in Operations

(* Inside, it holds the lock, and a key that is publishing has no receipt. *)
LockInv == \A t \in Threads : Inside(t) =>
             /\ keyLock[KeyOf(t)] = t
             /\ OpOf(t) = "publish" => receipts[KeyOf(t)] = Nothing

(* What has happened once left a receipt or an attempt behind.             *)
Untried(k) == \A o \in Mutations : tries[o][k] = "none"
OnceInv ==
  \A k \in Keys :
    /\ successes[k] <= 1 /\ (receipts[k] = Nothing => successes[k] = 0)
    /\ dispatches[k] <= 1 /\ (Untried(k) => dispatches[k] = 0)

KeyInv == CallInv /\ ServiceInv /\ LockInv /\ OnceInv
-----------------------------------------------------------------------------
(* Calls to the service have a key, a package and a target.                *)
LEMMA CallsHaveParts ==
  ASSUME NEW c \in Call
  PROVE  /\ c.op \in Operations \cup {"put", "remove"}
         /\ c.op \in Operations => /\ c.key \in Keys /\ c.of \in Keys
                                   /\ c.package \in Packages /\ c.target \in Targets
         /\ c.op # "idle" /\ c.op # "open"
BY DEF Call, PublicationCall, StoreCall, Operations

(* The steps of different operations are different steps.                  *)
LEMMA StepsAreDistinct ==
  /\ \A op : {"idle", "open"} \cap StepsOf(op) = {} /\ StepsOf(op) \subseteq Steps
  /\ \A op, step : step \in StepsOf(op) /\ step \in PublishSteps \ PutSteps => op = "publish"
  /\ \A op, step : step \in StepsOf(op) /\ step \in PutSteps => op \in {"put", "publish"}
  /\ \A op, step : step \in StepsOf(op) /\ step \in RemoveSteps => op = "remove"
  /\ \A op, step : step \in StepsOf(op) /\ step \in MutationSteps =>
       op \notin {"publish", "put", "remove"}
BY DEF StepsOf, Steps, PublishSteps, PutSteps, RemoveSteps, MutationSteps

(* A step of an adapter: it stays inside its operation, unless it ends a   *)
(* call to the object store.                                               *)
Moves(t) ==
  /\ call' = call
  /\ pc' \in [Threads -> Steps]
  /\ \A u \in Threads \ {t} : pc'[u] = pc[u]
  /\ pc[t] \in StepsOf(OpOf(t))
  /\ pc'[t] \in StepsOf(OpOf(t)) \/ (pc'[t] = "idle" /\ OpOf(t) \in {"put", "remove"})

(* The filesystem adapter.                                                 *)
LEMMA FilesystemMoves ==
  ASSUME CallInv, NEW t \in Threads, FilesystemStep(t)
  PROVE  Moves(t)
<1> USE DEF CallInv, Moves, At, Goto, Steps, StepsOf, PublishSteps, PutSteps,
            RemoveSteps, MutationSteps
<1>1. CASE MakeParent(t)
  BY <1>1, StepsAreDistinct DEF MakeParent
<1>2. CASE MakeStaging(t)
  BY <1>2, StepsAreDistinct DEF MakeStaging
<1>3. CASE WriteFiles(t)
  BY <1>3, StepsAreDistinct DEF WriteFiles
<1>4. CASE LookForDestination(t)
  BY <1>4, StepsAreDistinct DEF LookForDestination
<1>5. CASE CompareFile(t)
  BY <1>5, StepsAreDistinct DEF CompareFile
<1>6. CASE DropStaging(t)
  BY <1>6, StepsAreDistinct DEF DropStaging
<1>7. CASE Rename(t)
  BY <1>7, StepsAreDistinct DEF Rename
<1>8. CASE RenameFails(t)
  BY <1>8, StepsAreDistinct DEF RenameFails
<1>9. CASE CleanUp(t)
  BY <1>9, StepsAreDistinct DEF CleanUp
<1>10. CASE LookForUpdate(t)
  BY <1>10, StepsAreDistinct DEF LookForUpdate
<1>11. CASE WriteUpdate(t)
  BY <1>11, StepsAreDistinct DEF WriteUpdate
<1>12. CASE ListTree(t)
  BY <1>12, StepsAreDistinct DEF ListTree, GoThrough
<1>13. CASE UnlinkFile(t)
  BY <1>13, StepsAreDistinct DEF UnlinkFile
<1>14. CASE RemoveTree(t)
  BY <1>14, StepsAreDistinct DEF RemoveTree
<1> QED
  BY <1>1, <1>2, <1>3, <1>4, <1>5, <1>6, <1>7, <1>8, <1>9, <1>10, <1>11, <1>12, <1>13,
     <1>14
  DEF FilesystemStep

(* The S3 adapter and the clients of its store.                            *)
LEMMA S3Moves ==
  ASSUME CallInv, NEW t \in Threads, S3Step(t)
  PROVE  Moves(t)
<1> USE DEF CallInv, Moves, At, Goto, Steps, StepsOf, PublishSteps, PutSteps,
            RemoveSteps, MutationSteps
<1>1. CASE EnterS3(t)
  BY <1>1, StepsAreDistinct DEF EnterS3
<1>2. CASE ReadObject(t)
  BY <1>2, StepsAreDistinct DEF ReadObject
<1>3. CASE CompleteS3(t)
  BY <1>3, StepsAreDistinct DEF CompleteS3
<1>4. CASE FailS3(t)
  BY <1>4, StepsAreDistinct DEF FailS3
<1>5. CASE RollBackS3(t)
  BY <1>5, StepsAreDistinct DEF RollBackS3
<1>6. CASE StartPut(t)
  BY <1>6, StepsAreDistinct DEF StartPut
<1>7. CASE LinkObject(t)
  BY <1>7, StepsAreDistinct DEF LinkObject
<1>8. CASE LinkSidecar(t)
  BY <1>8, StepsAreDistinct DEF LinkSidecar, OpOf
<1>9. CASE AbortPut(t)
  BY <1>9, StepsAreDistinct DEF AbortPut, OpOf
<1>10. CASE StartRemove(t)
  BY <1>10, StepsAreDistinct DEF StartRemove
<1>11. CASE UnlinkObject(t)
  BY <1>11, StepsAreDistinct DEF UnlinkObject
<1>12. CASE UnlinkSidecar(t)
  BY <1>12, StepsAreDistinct DEF UnlinkSidecar
<1>13. CASE PruneObject(t)
  BY <1>13, StepsAreDistinct DEF PruneObject
<1>14. CASE AbortRemove(t)
  BY <1>14, StepsAreDistinct DEF AbortRemove
<1> QED
  BY <1>1, <1>2, <1>3, <1>4, <1>5, <1>6, <1>7, <1>8, <1>9, <1>10, <1>11, <1>12, <1>13,
     <1>14
  DEF S3Step

(* The RSS adapter.                                                        *)
LEMMA RssMoves ==
  ASSUME CallInv, NEW t \in Threads, RssStep(t)
  PROVE  Moves(t)
<1> USE DEF CallInv, Moves, At, Goto, Steps, StepsOf, PublishSteps, PutSteps,
            RemoveSteps, MutationSteps
<1>1. CASE CheckItem(t)
  BY <1>1, StepsAreDistinct DEF CheckItem
<1>2. CASE SetItem(t)
  BY <1>2, StepsAreDistinct DEF SetItem
<1>3. CASE BuildFeed(t)
  BY <1>3, StepsAreDistinct DEF BuildFeed
<1>4. CASE StoreFeed(t)
  BY <1>4, StepsAreDistinct DEF StoreFeed
<1> QED
  BY <1>1, <1>2, <1>3, <1>4 DEF RssStep

-----------------------------------------------------------------------------
(* A thread that is inside holds its key's lock, so that no other is       *)
(* inside with that key.                                                   *)
LEMMA OneInside ==
  ASSUME CallInv, LockInv, NEW t \in Threads, NEW u \in Threads, Inside(t), Inside(u),
         KeyOf(t) = KeyOf(u)
  PROVE  t = u
BY DEF LockInv

(* It has a key of the service's.                                          *)
LEMMA InsideHasKey ==
  ASSUME CallInv, NEW t \in Threads, Inside(t)
  PROVE  call[t] \in Call /\ KeyOf(t) \in Keys
BY CallsHaveParts, StepsAreDistinct DEF CallInv, Inside, OpOf, KeyOf

(* Steps of an adapter change nothing that the service keeps.              *)
LEMMA MovesKeep ==
  ASSUME KeyInv, NEW t \in Threads, Moves(t), UNCHANGED bounds, UNCHANGED service
  PROVE  KeyInv'
<1> USE DEF Moves, bounds, service
<1>1. CallInv'
  <2>1. \A u \in Threads : call'[u] = call[u] /\ OpOf(u)' = OpOf(u)
    BY DEF OpOf
  <2> QED
    BY <2>1, StepsAreDistinct DEF KeyInv, CallInv, Operations
<1>2. ServiceInv' /\ OnceInv'
  BY DEF KeyInv, ServiceInv, OnceInv, Untried
<1>3. \A u \in Threads : Inside(u)' => Inside(u)
  BY StepsAreDistinct DEF Inside, OpOf, Operations
<1>4. LockInv'
  BY <1>3 DEF KeyInv, LockInv, KeyOf, OpOf
<1> QED
  BY <1>1, <1>2, <1>4 DEF KeyInv

(* The service's own steps, one by one.                                    *)
LEMMA ServiceMoves ==
  ASSUME KeyInv, NEW t \in Threads
  PROVE  /\ StartCall(t) => KeyInv'
         /\ AnswerFromReceipt(t) \/ AnswerFromMutation(t) => KeyInv'
         /\ StartPublication(t) \/ RecordReceipt(t) \/ FailPublication(t) => KeyInv'
         /\ StartScan(t) \/ RefuseMutation(t) \/ DispatchMutation(t) => KeyInv'
         /\ RecordMutation(t) \/ FailMutation(t) => KeyInv'
<1> USE DEF KeyInv, At, Goto, bounds, LockIsFree, TakeLock, ReleaseLock
<1>1. ASSUME StartCall(t) PROVE KeyInv'
  <2>1. PICK c \in menu :
          /\ call' = [call EXCEPT ![t] = c]
          /\ pc' = [pc EXCEPT ![t] = IF c.op \in Operations THEN "open" ELSE c.op]
    BY <1>1 DEF StartCall
  <2>2. c \in Call
    BY <2>1, PublishingAssumption DEF CallInv, PublishingAssumption
  <2>3. CallInv'
    BY <1>1, <2>1, <2>2, CallsHaveParts
    DEF StartCall, CallInv, OpOf, Steps, StepsOf, PutSteps, RemoveSteps
  <2>4. \A u \in Threads : Inside(u)' => u # t /\ Inside(u)
    BY <2>1, <2>2, CallsHaveParts, StepsAreDistinct DEF CallInv, Inside, OpOf
  <2>5. LockInv'
    BY <1>1, <2>1, <2>4 DEF StartCall, service, LockInv, KeyOf, OpOf, CallInv
  <2> QED
    BY <1>1, <2>3, <2>5 DEF StartCall, service, ServiceInv, OnceInv, Untried
<1>2. ASSUME AnswerFromReceipt(t) \/ AnswerFromMutation(t) PROVE KeyInv'
  <2> USE <1>2 DEF AnswerFromReceipt, AnswerFromMutation, service
  <2>1. CallInv'
    BY DEF CallInv, Steps, OpOf
  <2>2. LockInv'
    BY StepsAreDistinct DEF LockInv, Inside, KeyOf, OpOf, CallInv
  <2> QED
    BY <2>1, <2>2 DEF ServiceInv, OnceInv, Untried
<1>3. ASSUME StartPublication(t) PROVE KeyInv'
  <2> USE <1>3 DEF StartPublication
  <2>1. /\ OpOf(t) = "publish" /\ call[t] \in Call /\ KeyOf(t) \in Keys
        /\ KindOf(t) \in Kinds /\ keyLock[KeyOf(t)] = Nothing
    BY CallsHaveParts, PublicationAssumption
    DEF CallInv, OpOf, KeyOf, KindOf, TargetOf, Operations, PublicationAssumption
  <2>2. FirstStep[KindOf(t)] \in PublishSteps
    BY <2>1 DEF FirstStep, Kinds, PublishSteps
  <2>3. CallInv'
    BY <2>1, <2>2, StepsAreDistinct DEF CallInv, OpOf, StepsOf, Steps
  <2>4. ServiceInv' /\ OnceInv'
    BY <2>1 DEF ServiceInv, OnceInv, Untried
  <2>5. \A u \in Threads \ {t} : Inside(u)' => Inside(u) /\ KeyOf(u) # KeyOf(t)
    BY <2>1, PublicationAssumption
    DEF CallInv, Inside, OpOf, KeyOf, LockInv, PublicationAssumption
  <2>6. ASSUME NEW u \in Threads, Inside(u)'
        PROVE  /\ keyLock'[KeyOf(u)] = u
               /\ OpOf(u) = "publish" => receipts[KeyOf(u)] = Nothing
    <3>1. CASE u # t
      BY <2>1, <2>5, <2>6, <3>1, InsideHasKey DEF LockInv, ServiceInv
    <3>2. CASE u = t
      BY <2>1, <2>6, <3>2, StepsAreDistinct DEF ServiceInv, Inside, OpOf, CallInv
    <3> QED
      BY <3>1, <3>2
  <2>7. LockInv'
    BY <2>6 DEF LockInv, KeyOf, OpOf
  <2> QED
    BY <2>3, <2>4, <2>7
<1>4. ASSUME RecordReceipt(t) PROVE KeyInv'
  <2> USE <1>4 DEF RecordReceipt
  <2>1. /\ call[t] \in Call /\ pc[t] \in StepsOf(OpOf(t)) /\ pc[t] \in PublishSteps \ PutSteps
    BY DEF CallInv, PublishSteps, PutSteps
  <2>2. OpOf(t) = "publish" /\ Inside(t)
    BY <2>1, StepsAreDistinct DEF Inside, Operations
  <2>3. KeyOf(t) \in Keys /\ PackageOf(t) \in Packages /\ TargetOf(t) \in Targets
    BY <2>1, <2>2, CallsHaveParts DEF OpOf, KeyOf, PackageOf, TargetOf, Operations
  <2> DEFINE r == [package |-> PackageOf(t), target |-> TargetOf(t),
                   status |-> IF attempts[KeyOf(t)] = "failed" THEN "resumed" ELSE "published"]
  <2>4. r \in Receipt /\ receipts' = [receipts EXCEPT ![KeyOf(t)] = r]
    BY <2>3 DEF Receipt
  <2> HIDE DEF r
  <2>5. receipts[KeyOf(t)] = Nothing /\ r # Nothing
    BY <2>2, <2>4, PublishingAssumption DEF LockInv, PublishingAssumption
  <2>6. CallInv'
    BY DEF CallInv, Steps, OpOf
  <2>7. ServiceInv' /\ OnceInv'
    BY <2>3, <2>4, <2>5 DEF ServiceInv, OnceInv, Untried
  <2>8. \A u \in Threads : Inside(u)' => Inside(u) /\ KeyOf(u) # KeyOf(t)
    BY <2>2, OneInside, StepsAreDistinct DEF CallInv, Inside, OpOf
  <2>9. LockInv'
    BY <2>3, <2>4, <2>8 DEF LockInv, KeyOf, OpOf, ServiceInv
  <2> QED
    BY <2>6, <2>7, <2>9
<1>5. ASSUME \/ FailPublication(t) \/ RefuseMutation(t) \/ RecordMutation(t) \/ FailMutation(t)
      PROVE  KeyInv'
  <2> USE DEF FailPublication, RefuseMutation, RecordMutation, FailMutation
  <2>1. /\ call[t] \in Call /\ pc[t] \in StepsOf(OpOf(t))
        /\ pc[t] \in (PublishSteps \ PutSteps) \cup MutationSteps
    BY <1>5 DEF CallInv, PublishSteps, PutSteps, MutationSteps
  <2>2. Inside(t) /\ (OpOf(t) \in Mutations \/ pc[t] = "failed")
    BY <1>5, <2>1, StepsAreDistinct, CallsHaveParts
    DEF Inside, Operations, Mutations, MutationSteps, OpOf
  <2>3. KeyOf(t) \in Keys
    BY <2>1, <2>2, CallsHaveParts DEF Inside, OpOf, KeyOf
  <2>4. CallInv'
    BY <1>5 DEF CallInv, Steps, OpOf
  <2>5. ServiceInv' /\ OnceInv'
    <3>1. CASE FailPublication(t) \/ RefuseMutation(t)
      BY <3>1, <2>3 DEF ServiceInv, OnceInv, Untried
    <3>2. CASE RecordMutation(t) \/ FailMutation(t)
      <4>1. OpOf(t) \in Mutations
        BY <2>2, <3>2
      <4>2. \E x \in {"unknown", "completed"} :
              tries' = [tries EXCEPT ![OpOf(t)][KeyOf(t)] = x]
        BY <3>2
      <4> QED
        BY <2>3, <3>2, <4>1, <4>2 DEF ServiceInv, OnceInv, Untried
    <3> QED
      BY <1>5, <3>1, <3>2
  <2>6. \A u \in Threads : Inside(u)' => Inside(u) /\ KeyOf(u) # KeyOf(t)
    BY <1>5, <2>2, OneInside, StepsAreDistinct DEF CallInv, Inside, OpOf
  <2>7. LockInv'
    BY <1>5, <2>3, <2>6, InsideHasKey DEF LockInv, KeyOf, OpOf, ServiceInv
  <2> QED
    BY <2>4, <2>5, <2>7
<1>6. ASSUME StartScan(t) PROVE KeyInv'
  <2> USE <1>6 DEF StartScan
  <2>1. OpOf(t) \in Mutations /\ call[t] \in Call /\ KeyOf(t) \in Keys
        /\ keyLock[KeyOf(t)] = Nothing
    BY CallsHaveParts DEF CallInv, OpOf, KeyOf, Operations
  <2>2. CallInv'
    BY <2>1 DEF CallInv, OpOf, StepsOf, Steps, MutationSteps, Mutations
  <2>3. ServiceInv' /\ OnceInv'
    BY <2>1 DEF ServiceInv, OnceInv, Untried
  <2>4. \A u \in Threads \ {t} : Inside(u)' => Inside(u) /\ KeyOf(u) # KeyOf(t)
    BY <2>1, PublicationAssumption
    DEF CallInv, Inside, OpOf, KeyOf, LockInv, PublicationAssumption
  <2>5. ASSUME NEW u \in Threads, Inside(u)'
        PROVE  /\ keyLock'[KeyOf(u)] = u
               /\ OpOf(u) = "publish" => receipts[KeyOf(u)] = Nothing
    <3>1. CASE u # t
      BY <2>1, <2>4, <2>5, <3>1 DEF LockInv, ServiceInv
    <3>2. CASE u = t
      BY <2>1, <3>2 DEF ServiceInv, Mutations
    <3> QED
      BY <3>1, <3>2
  <2>6. LockInv'
    BY <2>5 DEF LockInv, KeyOf, OpOf
  <2> QED
    BY <2>2, <2>3, <2>6
<1>7. ASSUME DispatchMutation(t) PROVE KeyInv'
  <2> USE <1>7 DEF DispatchMutation, MayNotMutate
  <2>1. /\ call[t] \in Call /\ pc[t] \in StepsOf(OpOf(t)) /\ pc[t] \in MutationSteps
    BY DEF CallInv, MutationSteps
  <2>2. OpOf(t) \in Mutations /\ KeyOf(t) \in Keys
    BY <2>1, StepsAreDistinct, CallsHaveParts DEF OpOf, KeyOf, Operations, Mutations
  <2>3. FirstMutationStep(t) \in MutationSteps
    BY DEF FirstMutationStep, MutationSteps
  <2>4. Untried(KeyOf(t))
    BY DEF Untried
  <2>5. CallInv'
    <3>1. pc' = [pc EXCEPT ![t] = FirstMutationStep(t)] /\ UNCHANGED <<call, menu>>
      OBVIOUS
    <3>2. FirstMutationStep(t) \in StepsOf(OpOf(t)) /\ FirstMutationStep(t) \in Steps
      BY <2>2, <2>3 DEF StepsOf, Steps, Mutations
    <3>3. FirstMutationStep(t) # "open"
      BY <3>2, StepsAreDistinct
    <3> QED
      BY <2>1, <3>1, <3>2, <3>3 DEF CallInv, OpOf
  <2>6. ServiceInv' /\ OnceInv'
    BY <2>2, <2>4 DEF ServiceInv, OnceInv, Untried
  <2>7. \A u \in Threads : Inside(u)' => Inside(u)
    BY <2>1, <2>2 DEF CallInv, Inside, OpOf, Operations, Mutations
  <2>8. LockInv'
    BY <2>7 DEF LockInv, KeyOf, OpOf
  <2> QED
    BY <2>5, <2>6, <2>8
<1> QED
  BY <1>1, <1>2, <1>3, <1>4, <1>5, <1>6, <1>7

(* The invariant, for all behaviours with their fairness.                  *)
THEOREM KeyInvHolds == Spec => []KeyInv
<1>1. Init => KeyInv
  BY DEF Init, CallsInit, ServiceInit, All, AllMutations, KeyInv, CallInv, ServiceInv,
         LockInv, OnceInv, Untried, Inside, Steps, StepsOf, PutSteps, RemoveSteps,
         PublishSteps, MutationSteps, Mutations
<1>2. KeyInv /\ [Next]_vars => KeyInv'
  <2> SUFFICES ASSUME KeyInv, [Next]_vars PROVE KeyInv'
    OBVIOUS
  <2>1. ASSUME NEW t \in Threads, StartCall(t) PROVE KeyInv'
    BY <2>1, ServiceMoves
  <2>2. ASSUME NEW t \in Threads, Step(t) PROVE KeyInv'
    <3>1. CASE \/ AnswerFromReceipt(t) \/ AnswerFromMutation(t) \/ StartPublication(t)
               \/ RecordReceipt(t) \/ FailPublication(t) \/ StartScan(t)
               \/ RefuseMutation(t) \/ DispatchMutation(t) \/ RecordMutation(t)
               \/ FailMutation(t)
      BY <3>1, ServiceMoves
    <3>2. CASE FilesystemStep(t) /\ UNCHANGED <<s3, rss, bounds, service>>
      BY <3>2, FilesystemMoves, MovesKeep DEF KeyInv
    <3>3. CASE S3Step(t) /\ UNCHANGED <<filesystem, rss, bounds, service>>
      BY <3>3, S3Moves, MovesKeep DEF KeyInv
    <3>4. CASE RssStep(t) /\ UNCHANGED <<filesystem, s3, bounds, service>>
      BY <3>4, RssMoves, MovesKeep DEF KeyInv
    <3>5. CASE PublishTransistor(t) \/ MutateTransistor(t)
      <4>1. Moves(t)
        BY <3>5, StepsAreDistinct
        DEF PublishTransistor, MutateTransistor, KeyInv, CallInv, Moves, At, Goto, Steps,
            StepsOf, PublishSteps, PutSteps, MutationSteps
      <4> QED
        BY <3>5, <4>1, MovesKeep DEF PublishTransistor, MutateTransistor
    <3> QED
      BY <2>2, <3>1, <3>2, <3>3, <3>4, <3>5 DEF Step
  <2>3. CASE Crash
    BY <2>3, StepsAreDistinct
    DEF Crash, ForgetService, All, AllMutations, KeyInv, CallInv, ServiceInv, LockInv,
        OnceInv, Untried, Inside, Steps, Mutations
  <2>4. CASE UNCHANGED vars
    BY <2>4
    DEF vars, control, bounds, service, KeyInv, CallInv, ServiceInv, LockInv, OnceInv,
        Untried, Inside, OpOf, KeyOf
  <2> QED
    BY <2>1, <2>2, <2>3, <2>4 DEF Next
<1> QED
  BY <1>1, <1>2, PTL DEF Spec

(* A key publishes once and mutates once while the process lives, whatever *)
(* fails, is retried or overlaps.                                          *)
THEOREM EffectsHappenOnceHolds == Spec => []EffectsHappenOnce
<1>1. KeyInv => EffectsHappenOnce
  BY DEF KeyInv, OnceInv, EffectsHappenOnce
<1> QED
  BY <1>1, KeyInvHolds, PTL

-----------------------------------------------------------------------------
(* Each adapter has its own steps, and a publication goes through those of *)
(* its target's adapter.                                                   *)
FilesystemSteps == {"mkdir", "mkdtemp", "write", "exists", "compare", "rename", "cleanup"}
FileMutationSteps == {"update", "writeUpdate", "rmtree", "unlink"}
S3Steps == {"s3", "read", "rollback"} \cup PutSteps
FeedSteps == {"setItem", "buildFeed", "storeFeed"}
StepsOfKind(kind) ==
  IF kind = "filesystem" THEN FilesystemSteps
  ELSE IF kind = "s3" THEN S3Steps
  ELSE IF kind = "rss" THEN FeedSteps \cup {"rss"}
  ELSE {"transistor"}

KindInv ==
  \A t \in Threads : pc[t] \notin {"idle", "open"} /\ OpOf(t) = "publish" =>
    pc[t] \in {"done", "failed"} \cup StepsOfKind(KindOf(t))

LEMMA FilesystemKeepsToItself ==
  ASSUME CallInv, NEW t \in Threads, FilesystemStep(t)
  PROVE  \/ pc[t] \in FilesystemSteps /\ pc'[t] \in FilesystemSteps \cup {"done", "failed"}
         \/ pc[t] \in FileMutationSteps
            /\ pc'[t] \in FileMutationSteps \cup {"mutated", "mutationFailed"}
BY DEF CallInv, FilesystemStep, FilesystemSteps, FileMutationSteps, At, Goto,
       MakeParent, MakeStaging, WriteFiles, LookForDestination, CompareFile, DropStaging,
       Rename,
       RenameFails, CleanUp, LookForUpdate, WriteUpdate, ListTree, UnlinkFile, RemoveTree

LEMMA S3KeepsToItself ==
  ASSUME CallInv, NEW t \in Threads, S3Step(t)
  PROVE  /\ pc[t] \in S3Steps \cup RemoveSteps
         /\ pc'[t] \in S3Steps \cup RemoveSteps \cup {"done", "failed", "idle"}
         /\ pc'[t] \in {"done", "failed"} => pc[t] \in {"read", "rollback"}
BY DEF CallInv, S3Step, S3Steps, PutSteps, RemoveSteps, At, Goto,
       EnterS3, ReadObject, CompleteS3, FailS3, RollBackS3, StartPut, LinkObject,
       LinkSidecar, AbortPut, StartRemove, UnlinkObject, UnlinkSidecar, PruneObject,
       AbortRemove

LEMMA RssKeepsToItself ==
  ASSUME CallInv, NEW t \in Threads, RssStep(t)
  PROVE  /\ pc[t] \in FeedSteps \cup {"rss"}
         /\ pc'[t] \in FeedSteps \cup {"done", "failed"}
BY DEF CallInv, RssStep, FeedSteps, At, Goto, CheckItem, SetItem, BuildFeed, StoreFeed

(* What a publication is at tells its kind.                                *)
LEMMA KindIsKnown ==
  ASSUME CallInv, KindInv, NEW t \in Threads
  PROVE  /\ pc[t] \in FilesystemSteps => OpOf(t) = "publish" /\ KindOf(t) = "filesystem"
         /\ pc[t] \in {"s3", "read", "rollback"} => OpOf(t) = "publish" /\ KindOf(t) = "s3"
         /\ pc[t] \in FeedSteps \cup {"rss"} => OpOf(t) = "publish" /\ KindOf(t) = "rss"
         /\ pc[t] = "transistor" =>
              OpOf(t) = "publish" /\ KindOf(t) \notin {"filesystem", "s3", "rss"}
BY StepsAreDistinct
DEF CallInv, KindInv, StepsOfKind, FilesystemSteps, S3Steps, FeedSteps, PublishSteps,
    PutSteps

(* A step of an adapter, or a call that begins, keeps it so.               *)
LEMMA KindInvStep ==
  ASSUME KeyInv, KindInv, [Next]_vars
  PROVE  KindInv'
<1> USE DEF KeyInv
<1>1. ASSUME NEW t \in Threads, StartCall(t) PROVE KindInv'
  <2>1. PICK c \in menu :
          /\ call' = [call EXCEPT ![t] = c]
          /\ pc' = [pc EXCEPT ![t] = IF c.op \in Operations THEN "open" ELSE c.op]
    BY <1>1 DEF StartCall, Goto
  <2>2. c \in Call
    BY <2>1, PublishingAssumption DEF CallInv, PublishingAssumption
  <2>3. pc'[t] = "open" \/ OpOf(t)' # "publish"
    BY <2>1, <2>2, CallsHaveParts DEF CallInv, OpOf, Operations
  <2>4. \A u \in Threads \ {t} : pc'[u] = pc[u] /\ call'[u] = call[u]
    BY <2>1 DEF CallInv
  <2> QED
    BY <2>3, <2>4 DEF KindInv, OpOf, KindOf, TargetOf
<1>2. ASSUME NEW t \in Threads, Step(t) PROVE KindInv'
  <2> SUFFICES /\ call' = call
               /\ \A u \in Threads \ {t} : pc'[u] = pc[u]
               /\ pc'[t] \notin {"idle", "open"} /\ OpOf(t) = "publish" =>
                    pc'[t] \in {"done", "failed"} \cup StepsOfKind(KindOf(t))
    BY DEF KindInv, OpOf, KindOf, TargetOf
  <2>1. CASE FilesystemStep(t)
    BY <2>1, FilesystemMoves, FilesystemKeepsToItself, KindIsKnown, StepsAreDistinct
    DEF Moves, StepsOfKind, FilesystemSteps, FileMutationSteps, MutationSteps
  <2>2. CASE S3Step(t)
    <3>1. Moves(t) /\ pc[t] \in S3Steps \cup RemoveSteps
          /\ pc'[t] \in S3Steps \cup RemoveSteps \cup {"done", "failed", "idle"}
      BY <2>2, S3Moves, S3KeepsToItself
    <3>2. OpOf(t) = "publish" => pc[t] \in S3Steps /\ pc'[t] \notin RemoveSteps
      BY <3>1, StepsAreDistinct DEF Moves
    <3>3. OpOf(t) = "publish" => KindOf(t) = "s3"
      BY <3>2 DEF KindInv, S3Steps, PutSteps, StepsOfKind, FilesystemSteps, FeedSteps
    <3> QED
      BY <3>1, <3>2, <3>3 DEF Moves, StepsOfKind
  <2>3. CASE RssStep(t)
    BY <2>3, RssMoves, RssKeepsToItself, KindIsKnown DEF Moves, StepsOfKind
  <2>4. CASE StartPublication(t)
    <3>1. KindOf(t) \in Kinds
      BY <2>4, CallsHaveParts, PublicationAssumption
      DEF StartPublication, CallInv, At, OpOf, KindOf, TargetOf, Operations,
          PublicationAssumption
    <3>2. FirstStep[KindOf(t)] \in StepsOfKind(KindOf(t))
      BY <3>1 DEF FirstStep, Kinds, StepsOfKind, FilesystemSteps, S3Steps
    <3> QED
      BY <2>4, <3>2 DEF StartPublication, Goto, CallInv
  <2>5. CASE PublishTransistor(t)
    BY <2>5 DEF PublishTransistor, Goto, CallInv
  <2>6. CASE \/ AnswerFromReceipt(t) \/ RecordReceipt(t) \/ FailPublication(t)
             \/ AnswerFromMutation(t) \/ RefuseMutation(t) \/ RecordMutation(t) \/ FailMutation(t)
    BY <2>6
    DEF AnswerFromReceipt, RecordReceipt, FailPublication, AnswerFromMutation,
        RefuseMutation, RecordMutation, FailMutation, Goto, CallInv
  <2>7. CASE StartScan(t) \/ DispatchMutation(t) \/ MutateTransistor(t)
    <3>1. OpOf(t) # "publish"
      BY <2>7, StepsAreDistinct
      DEF StartScan, DispatchMutation, MutateTransistor, At, CallInv, Mutations,
          MutationSteps
    <3> QED
      BY <2>7, <3>1 DEF StartScan, DispatchMutation, MutateTransistor, Goto, CallInv
  <2> QED
    BY <1>2, <2>1, <2>2, <2>3, <2>4, <2>5, <2>6, <2>7 DEF Step
<1>3. CASE Crash
  BY <1>3 DEF Crash, KindInv
<1>4. CASE UNCHANGED vars
  BY <1>4 DEF vars, control, KindInv, OpOf, KindOf, TargetOf
<1> QED
  BY <1>1, <1>2, <1>3, <1>4 DEF Next

-----------------------------------------------------------------------------
(* A thread that no other has met still has the items it built its feed    *)
(* of, and what it stores is what there is; items are those of receipts    *)
(* and of publications that are about to get one.                          *)
AloneInv ==
  \A t \in alone :
    /\ InRss(TargetOf(t)) = {t}
    /\ pc[t] = "storeFeed" => built[t] = items[TargetOf(t)]

ServedInv == \A g \in Targets \ raced : InRss(g) = {} => feeds[g] = items[g]

Receipted(g) ==
  {receipts[k].package.episode : k \in {j \in OfKind("rss") : receipts[j].target = g}}
Finishing(g) ==
  {t \in Threads : pc[t] \in {"buildFeed", "storeFeed", "done"} /\ TargetOf(t) = g}
ItemsInv ==
  \A g \in Targets : Kind[g] = "rss" =>
    Guids(items[g]) = Receipted(g) \cup {EpisodeOf(t) : t \in Finishing(g)}

FeedInv == RssTypeOK /\ AloneInv /\ ServedInv /\ ItemsInv

(* A step that has nothing to do with feeds.                               *)
LEMMA FeedsStay ==
  ASSUME FeedInv, NEW t \in Threads, UNCHANGED <<rss, receipts>>,
         \A u \in Threads \ {t} : pc'[u] = pc[u] /\ call'[u] = call[u],
         pc[t] \notin FeedSteps \cup {"done"}, pc'[t] \notin FeedSteps,
         pc'[t] = "done" => KindOf(t)' # "rss"
  PROVE  FeedInv'
<1> USE DEF FeedInv, rss
<1>1. \A g \in Targets : InRss(g)' = InRss(g)
  BY DEF InRss, FeedSteps, TargetOf
<1>2. \A g \in Targets : Kind[g] = "rss" => Finishing(g)' = Finishing(g)
  BY DEF Finishing, FeedSteps, TargetOf, KindOf
<1>3. RssTypeOK'
  BY DEF RssTypeOK
<1>4. AloneInv'
  <2>1. \A u \in alone : u \in Threads /\ u # t
    BY DEF RssTypeOK, AloneInv, InRss, FeedSteps
  <2>2. \A u \in alone : InRss(TargetOf(u))' = InRss(TargetOf(u))
    BY <2>1 DEF InRss, FeedSteps, TargetOf
  <2> QED
    BY <2>1, <2>2 DEF AloneInv, TargetOf
<1>5. ServedInv'
  BY <1>1 DEF ServedInv
<1>6. \A g \in Targets : Receipted(g)' = Receipted(g)
  BY DEF Receipted, OfKind
<1>7. \A u \in Threads, g \in Targets :
        Kind[g] = "rss" /\ u \in Finishing(g) => EpisodeOf(u)' = EpisodeOf(u)
  BY DEF Finishing, FeedSteps, EpisodeOf, TargetOf, KindOf
<1>8. ItemsInv'
  <2> SUFFICES ASSUME NEW g \in Targets, Kind[g] = "rss"
               PROVE  Guids(items[g])' = Receipted(g)' \cup {EpisodeOf(u)' : u \in Finishing(g)'}
    BY DEF ItemsInv
  <2>1. {EpisodeOf(u)' : u \in Finishing(g)'} = {EpisodeOf(u) : u \in Finishing(g)}
    BY <1>2, <1>7 DEF Finishing
  <2> QED
    BY <1>6, <2>1 DEF ItemsInv, Guids
<1> QED
  BY <1>3, <1>4, <1>5, <1>8

(* A publication at its feed has a target, an episode and an item.         *)
LEMMA AtItsFeed ==
  ASSUME CallInv, KindInv, NEW t \in Threads, pc[t] \in FeedSteps \cup {"rss"}
  PROVE  /\ TargetOf(t) \in Targets /\ EpisodeOf(t) \in Episodes
         /\ Item(t) \in Lengths /\ Item(t) # Nothing
         /\ Kind[TargetOf(t)] = "rss"
<1>1. OpOf(t) = "publish" /\ KindOf(t) = "rss" /\ call[t] \in Call
  BY KindIsKnown DEF CallInv, FeedSteps
<1>2. TargetOf(t) \in Targets /\ call[t].package \in Package
  BY <1>1, CallsHaveParts, PublicationAssumption
  DEF OpOf, Operations, TargetOf, PublicationAssumption
<1>3. Item(t) \in Lengths
  BY <1>2, RssAssumption DEF RssAssumption, Package, Item, BytesOf, Lengths
<1> QED
  BY <1>1, <1>2, <1>3, RssAssumption DEF RssAssumption, EpisodeOf, Package, KindOf

(* Who enters the adapter is alone, or takes it from those it meets.       *)
LEMMA CheckItemKeepsFeeds ==
  ASSUME FeedInv, CallInv, KindInv, NEW t \in Threads, CheckItem(t), UNCHANGED receipts
  PROVE  FeedInv'
<1>0. PICK g \in Targets : g = TargetOf(t)
  BY AtItsFeed DEF CheckItem, At
<1>1. \A u \in Threads \ {t} : pc'[u] = pc[u] /\ call'[u] = call[u]
  BY DEF CheckItem, Goto, CallInv
<1>2. CASE pc' = [pc EXCEPT ![t] = "failed"]
  <2>1. pc[t] = "rss" /\ pc'[t] = "failed" /\ UNCHANGED rss
    BY <1>2 DEF CheckItem, At, Goto, CallInv, rss
  <2> QED
    BY <1>1, <2>1, FeedsStay DEF FeedSteps
<1>3. CASE pc' # [pc EXCEPT ![t] = "failed"]
  <2>1. /\ pc[t] = "rss" /\ pc'[t] = "setItem" /\ UNCHANGED <<call, items, feeds, built, raced>>
        /\ alone' = IF InRss(g) = {} THEN alone \cup {t} ELSE alone \ InRss(g)
    BY <1>0, <1>3 DEF CheckItem, At, Goto, CallInv
  <2>3. /\ \A h \in Targets \ {g} : InRss(h)' = InRss(h)
        /\ InRss(g)' = InRss(g) \cup {t}
        /\ \A h \in Targets : Finishing(h)' = Finishing(h)
    BY <1>0, <1>1, <2>1 DEF InRss, Finishing, TargetOf
  <2>4. RssTypeOK'
    BY <2>1 DEF FeedInv, RssTypeOK
  <2>5. AloneInv'
    <3> SUFFICES ASSUME NEW u \in alone'
                 PROVE  /\ InRss(TargetOf(u))' = {u}
                        /\ pc'[u] = "storeFeed" => built[u] = items[TargetOf(u)]
      BY <2>1 DEF AloneInv, TargetOf
    <3>1. CASE u = t
      BY <1>0, <2>1, <2>3, <3>1 DEF TargetOf, FeedInv, AloneInv, InRss
    <3>2. CASE u # t
      <4>1. u \in alone /\ u \in Threads /\ InRss(TargetOf(u)) = {u}
        BY <2>1, <3>2 DEF FeedInv, RssTypeOK, AloneInv
      <4>2. TargetOf(u) # g
        BY <2>1, <3>2, <4>1
      <4>3. InRss(TargetOf(u))' = InRss(TargetOf(u))
        BY <1>0, <1>1, <2>1, <4>2 DEF InRss, TargetOf
      <4> QED
        BY <1>1, <3>2, <4>1, <4>3 DEF FeedInv, AloneInv, TargetOf
    <3> QED
      BY <3>1, <3>2
  <2>6. ServedInv'
    <3>1. InRss(g)' # {}
      BY <2>3
    <3>2. \A h \in Targets \ raced : InRss(h)' = {} => feeds[h] = items[h]
      BY <2>3, <3>1 DEF FeedInv, ServedInv
    <3> QED
      BY <2>1, <3>2 DEF ServedInv
  <2>7. ItemsInv'
    BY <2>1, <2>3 DEF FeedInv, ItemsInv, Receipted, OfKind, Guids, EpisodeOf
  <2> QED
    BY <2>4, <2>5, <2>6, <2>7 DEF FeedInv
<1> QED
  BY <1>2, <1>3

(* Its item is among the items from now on.                                *)
LEMMA SetItemKeepsFeeds ==
  ASSUME FeedInv, CallInv, KindInv, NEW t \in Threads, SetItem(t), UNCHANGED receipts
  PROVE  FeedInv'
<1>0. PICK g \in Targets : g = TargetOf(t)
  BY AtItsFeed DEF SetItem, At, FeedSteps
<1>1. /\ \A u \in Threads \ {t} : pc'[u] = pc[u]
      /\ pc[t] = "setItem" /\ pc'[t] = "buildFeed"
      /\ UNCHANGED <<call, feeds, built, alone, raced>>
      /\ items' = [items EXCEPT ![g][EpisodeOf(t)] = Item(t)]
  BY <1>0 DEF SetItem, At, Goto, CallInv
<1>2. /\ EpisodeOf(t) \in Episodes /\ Kind[g] = "rss"
      /\ Item(t) \in Lengths /\ Item(t) # Nothing
  BY <1>0, <1>1, AtItsFeed DEF FeedSteps
<1>3. /\ \A h \in Targets : InRss(h)' = InRss(h)
      /\ \A h \in Targets \ {g} : Finishing(h)' = Finishing(h)
      /\ Finishing(g)' = Finishing(g) \cup {t}
      /\ t \in InRss(g)
  BY <1>0, <1>1 DEF InRss, Finishing, TargetOf
<1>4. RssTypeOK'
  BY <1>1, <1>2 DEF FeedInv, RssTypeOK, Feed
<1>5. AloneInv'
  <2> SUFFICES ASSUME NEW u \in alone
               PROVE  /\ InRss(TargetOf(u))' = {u}
                      /\ pc'[u] = "storeFeed" => built[u] = items'[TargetOf(u)]
    BY <1>1 DEF AloneInv, TargetOf
  <2>1. u \in Threads /\ InRss(TargetOf(u)) = {u} /\ InRss(TargetOf(u))' = InRss(TargetOf(u))
    BY <1>1 DEF FeedInv, RssTypeOK, AloneInv, InRss, TargetOf
  <2>2. u # t => TargetOf(u) # g /\ TargetOf(u) \in Targets
    BY <1>3, <2>1, AtItsFeed DEF InRss, FeedSteps
  <2> QED
    BY <1>1, <2>1, <2>2 DEF FeedInv, RssTypeOK, AloneInv
<1>6. ServedInv'
  BY <1>1, <1>2, <1>3 DEF FeedInv, ServedInv, RssTypeOK
<1>7. ItemsInv'
  <2>1. /\ \A h \in Targets \ {g} : Guids(items'[h]) = Guids(items[h])
        /\ Guids(items'[g]) = Guids(items[g]) \cup {EpisodeOf(t)}
    BY <1>1, <1>2 DEF FeedInv, RssTypeOK, Feed, Guids
  <2>2. \A h \in Targets : \A u \in Finishing(h)' : EpisodeOf(u)' = EpisodeOf(u)
    BY <1>1 DEF EpisodeOf, Finishing
  <2>3. \A h \in Targets : Receipted(h)' = Receipted(h)
    BY DEF Receipted, OfKind
  <2> SUFFICES ASSUME NEW h \in Targets, Kind[h] = "rss"
               PROVE  Guids(items'[h]) = Receipted(h) \cup {EpisodeOf(u) : u \in Finishing(h)'}
    BY <2>2, <2>3 DEF ItemsInv, Guids
  <2>4. Guids(items[h]) = Receipted(h) \cup {EpisodeOf(u) : u \in Finishing(h)}
    BY DEF FeedInv, ItemsInv
  <2>5. CASE h = g
    <3>1. {EpisodeOf(u) : u \in Finishing(h)'}
            = {EpisodeOf(u) : u \in Finishing(h)} \cup {EpisodeOf(t)}
      BY <1>3, <2>5
    <3> QED
      BY <2>1, <2>4, <2>5, <3>1
  <2>6. CASE h # g
    BY <1>3, <2>1, <2>4, <2>6
  <2> QED
    BY <2>5, <2>6
<1> QED
  BY <1>4, <1>5, <1>6, <1>7 DEF FeedInv

(* The feed is built of all items, and nobody else changes them while the  *)
(* thread is alone.                                                        *)
LEMMA BuildFeedKeepsFeeds ==
  ASSUME FeedInv, CallInv, KindInv, NEW t \in Threads, BuildFeed(t), UNCHANGED receipts
  PROVE  FeedInv'
<1>0. PICK g \in Targets : g = TargetOf(t)
  BY AtItsFeed DEF BuildFeed, At, FeedSteps
<1>1. /\ \A u \in Threads \ {t} : pc'[u] = pc[u]
      /\ pc[t] = "buildFeed" /\ pc'[t] = "storeFeed"
      /\ UNCHANGED <<call, items, feeds, alone, raced>>
      /\ built' = [built EXCEPT ![t] = items[g]]
  BY <1>0 DEF BuildFeed, At, Goto, CallInv
<1>2. \A h \in Targets : InRss(h)' = InRss(h) /\ Finishing(h)' = Finishing(h)
  BY <1>1 DEF InRss, Finishing, TargetOf
<1>3. RssTypeOK'
  BY <1>1 DEF FeedInv, RssTypeOK
<1>4. AloneInv'
  <2>1. \A u \in alone : /\ u \in Threads
                         /\ InRss(TargetOf(u)) = {u}
                         /\ InRss(TargetOf(u))' = InRss(TargetOf(u))
    BY <1>1 DEF FeedInv, RssTypeOK, AloneInv, InRss, TargetOf
  <2> QED
    BY <1>0, <1>1, <2>1 DEF FeedInv, RssTypeOK, AloneInv, TargetOf
<1>5. ServedInv'
  BY <1>1, <1>2 DEF FeedInv, ServedInv
<1>6. ItemsInv'
  BY <1>1, <1>2 DEF FeedInv, ItemsInv, Receipted, OfKind, Guids, EpisodeOf
<1> QED
  BY <1>3, <1>4, <1>5, <1>6 DEF FeedInv

(* What is stored is what there is, or the target is marked.               *)
LEMMA StoreFeedKeepsFeeds ==
  ASSUME FeedInv, CallInv, KindInv, NEW t \in Threads, StoreFeed(t), UNCHANGED receipts
  PROVE  FeedInv'
<1>0. PICK g \in Targets : g = TargetOf(t)
  BY AtItsFeed DEF StoreFeed, At, FeedSteps
<1>1. /\ \A u \in Threads \ {t} : pc'[u] = pc[u]
      /\ pc[t] = "storeFeed" /\ pc'[t] = "done"
      /\ UNCHANGED <<call, items>>
      /\ feeds' = [feeds EXCEPT ![g] = built[t]]
      /\ built' = [built EXCEPT ![t] = NoItems]
      /\ alone' = alone \ {t}
      /\ raced' = IF t \in alone THEN raced \ {g} ELSE raced \cup {g}
  BY <1>0 DEF StoreFeed, At, Goto, CallInv
<1>2. /\ \A h \in Targets \ {g} : InRss(h)' = InRss(h)
      /\ \A h \in Targets : Finishing(h)' = Finishing(h)
  BY <1>0, <1>1 DEF InRss, Finishing, TargetOf
<1>3. RssTypeOK'
  BY <1>1 DEF FeedInv, RssTypeOK, Feed, NoItems
<1>4. AloneInv'
  <2> SUFFICES ASSUME NEW u \in alone, u # t
               PROVE  /\ InRss(TargetOf(u))' = {u}
                      /\ pc'[u] = "storeFeed" => built'[u] = items[TargetOf(u)]
    BY <1>1 DEF AloneInv, TargetOf
  <2>1. u \in Threads /\ InRss(TargetOf(u)) = {u}
    BY DEF FeedInv, RssTypeOK, AloneInv
  <2>2. TargetOf(u) # g
    BY <1>0, <1>1, <2>1 DEF InRss
  <2>3. InRss(TargetOf(u))' = InRss(TargetOf(u))
    BY <1>0, <1>1, <2>2 DEF InRss, TargetOf
  <2> QED
    BY <1>1, <2>1, <2>3 DEF FeedInv, RssTypeOK, AloneInv
<1>5. ServedInv'
  <2>1. t \in alone => built[t] = items[g]
    BY <1>0, <1>1 DEF FeedInv, AloneInv
  <2>2. \A h \in Targets \ raced' : InRss(h)' = {} => feeds'[h] = items[h]
    BY <1>1, <1>2, <2>1 DEF FeedInv, ServedInv, RssTypeOK
  <2> QED
    BY <1>1, <2>2 DEF ServedInv
<1>6. ItemsInv'
  BY <1>1, <1>2 DEF FeedInv, ItemsInv, Receipted, OfKind, Guids, EpisodeOf
<1> QED
  BY <1>3, <1>4, <1>5, <1>6 DEF FeedInv

(* A receipt takes the place of the publication that has ended.            *)
LEMMA RecordReceiptKeepsFeeds ==
  ASSUME FeedInv, KeyInv, NEW t \in Threads, RecordReceipt(t)
  PROVE  FeedInv'
<1> USE DEF KeyInv
<1>1. /\ \A u \in Threads \ {t} : pc'[u] = pc[u]
      /\ pc[t] = "done" /\ pc'[t] = "idle" /\ UNCHANGED <<call, rss>>
  BY DEF RecordReceipt, At, Goto, CallInv
<1>2. OpOf(t) = "publish" /\ call[t] \in Call /\ Inside(t)
  BY <1>1, StepsAreDistinct DEF CallInv, PublishSteps, PutSteps, Inside, Operations
<1>3. /\ KeyOf(t) \in Keys /\ TargetOf(t) \in Targets /\ PackageOf(t) \in Packages
      /\ receipts[KeyOf(t)] = Nothing
  BY <1>2, CallsHaveParts DEF OpOf, KeyOf, TargetOf, PackageOf, Operations, LockInv
<1>4. PICK g \in Targets, k \in Keys, e \in {EpisodeOf(t)} :
        g = TargetOf(t) /\ k = KeyOf(t) /\ e = EpisodeOf(t)
  BY <1>3
<1>5. /\ receipts'[k].package.episode = e /\ receipts'[k].target = g /\ receipts'[k] # Nothing
      /\ \A j \in Keys \ {k} : receipts'[j] = receipts[j]
  <2> DEFINE r == [package |-> PackageOf(t), target |-> TargetOf(t),
                   status |-> IF attempts[KeyOf(t)] = "failed" THEN "resumed" ELSE "published"]
  <2>1. r \in Receipt /\ receipts' = [receipts EXCEPT ![KeyOf(t)] = r]
    BY <1>3 DEF Receipt, RecordReceipt
  <2>2. r # Nothing
    BY <2>1, PublishingAssumption DEF PublishingAssumption
  <2>3. r.package.episode = e /\ r.target = g
    BY <1>4 DEF PackageOf, EpisodeOf
  <2> HIDE DEF r
  <2> QED
    BY <1>4, <2>1, <2>2, <2>3 DEF ServiceInv
<1>6. /\ \A h \in Targets : InRss(h)' = InRss(h)
      /\ \A h \in Targets \ {g} : Finishing(h)' = Finishing(h)
      /\ Finishing(g) = Finishing(g)' \cup {t} /\ \A h \in Targets : Finishing(h) \subseteq Threads
  BY <1>1, <1>4 DEF InRss, Finishing, TargetOf
<1>7. /\ \A h \in Targets : Kind[h] = "rss" /\ h # g => Receipted(h)' = Receipted(h)
      /\ Kind[g] = "rss" => Receipted(g)' = Receipted(g) \cup {e}
  <2>1. receipts[k] = Nothing
    BY <1>3, <1>4
  <2>2. OfKind("rss")' = IF Kind[g] = "rss" THEN OfKind("rss") \cup {k} ELSE OfKind("rss")
    BY <1>5, <2>1 DEF OfKind
  <2>3. \A h : {j \in OfKind("rss")' : receipts'[j].target = h}
                = IF Kind[g] = "rss" /\ h = g
                  THEN {j \in OfKind("rss") : receipts[j].target = h} \cup {k}
                  ELSE {j \in OfKind("rss") : receipts[j].target = h}
    BY <1>5, <2>1, <2>2 DEF OfKind
  <2>4. k \notin OfKind("rss") /\ OfKind("rss") \subseteq Keys
    BY <2>1 DEF OfKind
  <2>5. ASSUME NEW h \in Targets, Kind[h] = "rss", h # g
        PROVE  Receipted(h)' = Receipted(h)
    <3>1. {j \in OfKind("rss")' : receipts'[j].target = h}
            = {j \in OfKind("rss") : receipts[j].target = h}
      BY <2>3, <2>5
    <3>2. \A j \in OfKind("rss") : receipts'[j] = receipts[j]
      BY <1>5, <2>4
    <3> QED
      BY <3>1, <3>2 DEF Receipted
  <2>6. ASSUME Kind[g] = "rss" PROVE Receipted(g)' = Receipted(g) \cup {e}
    <3>1. {j \in OfKind("rss")' : receipts'[j].target = g}
            = {j \in OfKind("rss") : receipts[j].target = g} \cup {k}
      BY <2>3, <2>6
    <3>2. \A j \in OfKind("rss") : receipts'[j] = receipts[j]
      BY <1>5, <2>4
    <3>3. {receipts'[j].package.episode : j \in {j \in OfKind("rss")' : receipts'[j].target = g}}
            = {receipts[j].package.episode : j \in {j \in OfKind("rss") : receipts[j].target = g}}
              \cup {e}
      BY <1>5, <3>1, <3>2
    <3> QED
      BY <3>3 DEF Receipted
  <2> QED
    BY <2>5, <2>6
<1>8. AloneInv'
  <2>1. \A u \in alone : InRss(TargetOf(u))' = InRss(TargetOf(u))
    BY <1>1 DEF InRss, TargetOf
  <2>2. \A u \in alone : u \in Threads /\ u # t
    BY <1>1 DEF FeedInv, RssTypeOK, AloneInv, InRss
  <2> QED
    BY <1>1, <2>1, <2>2 DEF FeedInv, AloneInv, TargetOf, rss
<1>9. RssTypeOK' /\ ServedInv'
  BY <1>1, <1>6 DEF FeedInv, RssTypeOK, ServedInv, rss
<1>10. ItemsInv'
  <2> SUFFICES ASSUME NEW h \in Targets, Kind[h] = "rss"
               PROVE  Guids(items[h]) = Receipted(h)' \cup {EpisodeOf(u)' : u \in Finishing(h)'}
    <3>1. items' = items
      BY <1>1 DEF rss
    <3> QED
      BY <3>1 DEF ItemsInv, Guids
  <2>1. Guids(items[h]) = Receipted(h) \cup {EpisodeOf(u) : u \in Finishing(h)}
    BY DEF FeedInv, ItemsInv
  <2>2. {EpisodeOf(u)' : u \in Finishing(h)'} = {EpisodeOf(u) : u \in Finishing(h)'}
    BY <1>1 DEF EpisodeOf, Finishing
  <2>3. CASE h = g
    <3>1. {EpisodeOf(u) : u \in Finishing(h)} = {EpisodeOf(u) : u \in Finishing(h)'} \cup {e}
      BY <1>4, <1>6, <2>3
    <3> QED
      BY <1>7, <2>1, <2>2, <2>3, <3>1
  <2>4. CASE h # g
    <3>1. Finishing(h)' = Finishing(h) /\ Receipted(h)' = Receipted(h)
      BY <1>6, <1>7, <2>4
    <3>2. {EpisodeOf(u)' : u \in Finishing(h)'} = {EpisodeOf(u) : u \in Finishing(h)}
      BY <2>2, <3>1
    <3> QED
      BY <2>1, <3>1, <3>2
  <2> QED
    BY <2>3, <2>4
<1> QED
  BY <1>8, <1>9, <1>10 DEF FeedInv

(* All other steps have nothing to do with feeds.                          *)
LEMMA FeedInvStep ==
  ASSUME FeedInv, KeyInv, KindInv, [Next]_vars
  PROVE  FeedInv'
<1> USE DEF KeyInv
<1>1. ASSUME NEW t \in Threads, StartCall(t) PROVE FeedInv'
  <2>1. PICK c \in menu :
          /\ call' = [call EXCEPT ![t] = c]
          /\ pc' = [pc EXCEPT ![t] = IF c.op \in Operations THEN "open" ELSE c.op]
    BY <1>1 DEF StartCall, Goto
  <2>2. c.op \in Operations \cup {"put", "remove"}
    BY <2>1, CallsHaveParts, PublishingAssumption DEF CallInv, PublishingAssumption
  <2>3. pc[t] = "idle" /\ UNCHANGED <<rss, receipts>>
    BY <1>1 DEF StartCall, At, service
  <2>4. pc'[t] \in {"open", "put", "remove"}
    BY <2>1, <2>2 DEF CallInv
  <2>5. \A u \in Threads \ {t} : pc'[u] = pc[u] /\ call'[u] = call[u]
    BY <2>1 DEF CallInv
  <2> QED
    BY <2>3, <2>4, <2>5, FeedsStay DEF FeedSteps
<1>2. ASSUME NEW t \in Threads, Step(t) PROVE FeedInv'
  <2>1. CASE FilesystemStep(t) /\ UNCHANGED <<s3, rss, bounds, service>>
    <3>1. Moves(t) /\ (pc'[t] = "done" => KindOf(t) = "filesystem")
      BY <2>1, FilesystemMoves, FilesystemKeepsToItself, KindIsKnown DEF FileMutationSteps
    <3>2. KindOf(t)' = KindOf(t) /\ UNCHANGED <<rss, receipts>>
      BY <2>1, <3>1 DEF Moves, KindOf, TargetOf, service
    <3>3. pc[t] \notin FeedSteps \cup {"done"} /\ pc'[t] \notin FeedSteps
      BY <2>1, FilesystemKeepsToItself DEF FilesystemSteps, FileMutationSteps, FeedSteps
    <3> QED
      BY <3>1, <3>2, <3>3, FeedsStay DEF Moves
  <2>2. CASE S3Step(t) /\ UNCHANGED <<filesystem, rss, bounds, service>>
    <3>1. Moves(t) /\ (pc'[t] = "done" => KindOf(t) = "s3")
      BY <2>2, S3Moves, S3KeepsToItself, KindIsKnown
    <3>2. KindOf(t)' = KindOf(t) /\ UNCHANGED <<rss, receipts>>
      BY <2>2, <3>1 DEF Moves, KindOf, TargetOf, service
    <3>3. pc[t] \notin FeedSteps \cup {"done"} /\ pc'[t] \notin FeedSteps
      BY <2>2, S3KeepsToItself DEF S3Steps, PutSteps, RemoveSteps, FeedSteps
    <3> QED
      BY <3>1, <3>2, <3>3, FeedsStay DEF Moves
  <2>3. CASE RssStep(t) /\ UNCHANGED <<filesystem, s3, bounds, service>>
    <3>1. UNCHANGED receipts
      BY <2>3 DEF service
    <3> QED
      BY <2>3, <3>1, CheckItemKeepsFeeds, SetItemKeepsFeeds, BuildFeedKeepsFeeds,
         StoreFeedKeepsFeeds
      DEF RssStep
  <2>4. CASE PublishTransistor(t)
    <3>1. /\ pc[t] = "transistor" /\ pc'[t] \in {"done", "failed"}
          /\ UNCHANGED <<call, rss, receipts>>
          /\ \A u \in Threads \ {t} : pc'[u] = pc[u]
      BY <2>4 DEF PublishTransistor, At, Goto, CallInv, service
    <3>2. KindOf(t)' # "rss"
      BY <3>1, KindIsKnown DEF KindOf, TargetOf
    <3> QED
      BY <3>1, <3>2, FeedsStay DEF FeedSteps
  <2>5. CASE \/ AnswerFromReceipt(t) \/ StartPublication(t) \/ FailPublication(t)
             \/ AnswerFromMutation(t) \/ StartScan(t) \/ RefuseMutation(t)
             \/ DispatchMutation(t) \/ RecordMutation(t) \/ FailMutation(t)
             \/ MutateTransistor(t)
    <3>1. UNCHANGED <<call, rss, receipts>>
      BY <2>5
      DEF AnswerFromReceipt, StartPublication, FailPublication, AnswerFromMutation,
          StartScan,
          RefuseMutation, DispatchMutation, RecordMutation, FailMutation, MutateTransistor,
          service
    <3>2. StartPublication(t) => FirstStep[KindOf(t)] \notin FeedSteps \cup {"done"}
      <4>1. StartPublication(t) => KindOf(t) \in Kinds
        BY CallsHaveParts, PublicationAssumption
        DEF StartPublication, CallInv, At, OpOf, KindOf, TargetOf, Operations,
            PublicationAssumption
      <4> QED
        BY <4>1 DEF FirstStep, Kinds, FeedSteps
    <3>3. /\ \A u \in Threads \ {t} : pc'[u] = pc[u]
          /\ pc[t] \in {"open", "failed", "scan", "mutated", "mutationFailed",
                        "transistorMutation"}
          /\ pc'[t] \notin FeedSteps \cup {"done"}
      BY <2>5, <3>2
      DEF AnswerFromReceipt, StartPublication, FailPublication, AnswerFromMutation,
          StartScan,
          RefuseMutation, DispatchMutation, RecordMutation, FailMutation, MutateTransistor,
          FirstMutationStep, At, Goto, CallInv, FeedSteps
    <3> QED
      BY <3>1, <3>3, FeedsStay DEF FeedSteps
  <2> QED
    BY <1>2, <2>1, <2>2, <2>3, <2>4, <2>5, RecordReceiptKeepsFeeds DEF Step
<1>3. CASE Crash
  BY <1>3, PublicationAssumption
  DEF Crash, RssCrash, ForgetService, All, FeedInv, RssTypeOK, AloneInv, ServedInv,
      ItemsInv,
      Receipted, OfKind, Finishing, Guids, Feed, NoItems, InRss
<1>4. CASE UNCHANGED vars
  BY <1>4
  DEF vars, control, rss, service, FeedInv, RssTypeOK, AloneInv, ServedInv, ItemsInv,
      Receipted,
      OfKind, Finishing, Guids, InRss, TargetOf, EpisodeOf
<1> QED
  BY <1>1, <1>2, <1>3, <1>4 DEF Next

-----------------------------------------------------------------------------
(* A destination has some of a package's files; somebody is deleting it.   *)
Has(g, e, p, names) ==
  published[g][e] # Nothing /\ \A n \in names : published[g][e][n] = p.files[n]
StagedSteps == {"write", "exists", "compare", "rename", "cleanup"}
DeletingSteps == {"rmtree", "unlink"}
Deleting(g, e) ==
  {u \in Threads : pc[u] \in DeletingSteps /\ TargetOf(u) = g /\ EpisodeOf(u) = e}

(* Who has a staging directory is in the adapter, and who has files left   *)
(* to unlink holds a directory that is there.                              *)
InHandInv ==
  /\ left \in [Threads -> SUBSET Entries]
  /\ \A t \in Threads : t \in staging => pc[t] \in StagedSteps
  /\ \A t \in Threads : pc[t] = "unlink" /\ left[t] # {} => Exists(t)

ReceiptInv ==
  \A k \in OfKind("filesystem") \ withdrawn :
    /\ Deleting(receipts[k].target, receipts[k].package.episode) = {}
    /\ Has(receipts[k].target, receipts[k].package.episode, receipts[k].package, Files)

(* A publication under a key that no delete has touched has agreed with    *)
(* all files that it has compared, and in the end with all of them.        *)
Writing(t) == pc[t] \in FilesystemSteps \cup {"done"} /\ KindOf(t) = "filesystem"
WriterInv ==
  \A t \in Threads : Writing(t) /\ KeyOf(t) \notin withdrawn =>
    /\ Deleting(TargetOf(t), EpisodeOf(t)) = {}
    /\ pc[t] = "compare" =>
         Has(TargetOf(t), EpisodeOf(t), PackageOf(t), Files \ left[t])
    /\ pc[t] = "done" => Has(TargetOf(t), EpisodeOf(t), PackageOf(t), Files)

FileInv == FilesystemTypeOK /\ InHandInv /\ ReceiptInv /\ WriterInv
-----------------------------------------------------------------------------
LEMMA PackagesAreTyped ==
  ASSUME NEW p \in Packages
  PROVE  p.episode \in Episodes /\ \A n \in Files : p.files[n] \in Contents
BY PublicationAssumption DEF PublicationAssumption, Package

(* What a thread in the adapter is about.                                  *)
LEMMA AtItsDestination ==
  ASSUME CallInv, NEW t \in Threads,
         pc[t] \in FilesystemSteps \cup FileMutationSteps \cup {"done"}
  PROVE  /\ Inside(t) /\ KeyOf(t) \in Keys
         /\ TargetOf(t) \in Targets /\ EpisodeOf(t) \in Episodes /\ PackageOf(t) \in Packages
         /\ EpisodeOf(t) = PackageOf(t).episode
         /\ \A n \in Files : BytesOf(t, n) = PackageOf(t).files[n]
         /\ \A n \in Files : BytesOf(t, n) \in Contents
<1>1. pc[t] \in StepsOf(OpOf(t)) /\ pc[t] \in (PublishSteps \ PutSteps) \cup MutationSteps
  BY DEF CallInv, FilesystemSteps, FileMutationSteps, PublishSteps, PutSteps, MutationSteps
<1>2. call[t] \in Call /\ OpOf(t) \in Operations
  BY <1>1, StepsAreDistinct, CallsHaveParts
  DEF CallInv, Operations, OpOf, FilesystemSteps, FileMutationSteps
<1>3. Inside(t) /\ KeyOf(t) \in Keys /\ TargetOf(t) \in Targets /\ PackageOf(t) \in Packages
  BY <1>1, <1>2, CallsHaveParts DEF Inside, KeyOf, OpOf, TargetOf, PackageOf
<1> QED
  BY <1>3, PackagesAreTyped DEF PackageOf, EpisodeOf, BytesOf

(* A step of a thread that neither publishes nor deletes files.            *)
LEMMA FilesStay ==
  ASSUME FileInv, NEW t \in Threads, UNCHANGED <<filesystem, receipts, withdrawn>>,
         \A u \in Threads \ {t} :
           pc'[u] = pc[u] /\ call'[u] = call[u] /\ left'[u] = left[u],
         left' \in [Threads -> SUBSET Entries], pc[t] \notin FilesystemSteps,
         pc'[t] \notin DeletingSteps, ~Writing(t)'
  PROVE  FileInv'
<1> USE DEF FileInv, filesystem
<1>1. \A g, e : Deleting(g, e)' \subseteq Deleting(g, e)
  BY DEF Deleting, TargetOf, EpisodeOf
<1>2. \A g, e, p, names : Has(g, e, p, names)' = Has(g, e, p, names)
  BY DEF Has
<1>3. FilesystemTypeOK' /\ InHandInv'
  BY
  DEF StagedSteps, FilesystemSteps, FilesystemTypeOK, InHandInv, Exists, Destination,
      TargetOf, EpisodeOf, DeletingSteps
<1>4. ReceiptInv'
  <2> SUFFICES ASSUME NEW k \in OfKind("filesystem") \ withdrawn, NEW r, r = receipts[k]
               PROVE  /\ Deleting(r.target, r.package.episode)' = {}
                      /\ Has(r.target, r.package.episode, r.package, Files)'
    BY DEF ReceiptInv, OfKind
  <2> QED
    BY <1>1, <1>2 DEF ReceiptInv
<1>5. WriterInv'
  <2> SUFFICES ASSUME NEW u \in Threads, Writing(u)', KeyOf(u)' \notin withdrawn',
                      NEW g, NEW e, NEW p, NEW names,
                      g = TargetOf(u)', e = EpisodeOf(u)', p = PackageOf(u)',
                      names = Files \ left'[u]
               PROVE  /\ Deleting(g, e)' = {}
                      /\ pc'[u] = "compare" => Has(g, e, p, names)'
                      /\ pc'[u] = "done" => Has(g, e, p, Files)'
    BY DEF WriterInv
  <2>1. u # t /\ Writing(u) /\ KeyOf(u) \notin withdrawn
    BY DEF Writing, KindOf, TargetOf, KeyOf
  <2>2. g = TargetOf(u) /\ e = EpisodeOf(u) /\ p = PackageOf(u) /\ names = Files \ left[u]
    BY <2>1 DEF TargetOf, EpisodeOf, PackageOf
  <2> QED
    BY <1>1, <1>2, <2>1, <2>2 DEF WriterInv
<1> QED
  BY <1>3, <1>4, <1>5

(* A step of the adapter takes nothing that a receipt or a publication     *)
(* relies on, and its own comparison goes on.                              *)
LEMMA FilesAreKept ==
  ASSUME FileInv, CallInv, NEW t \in Threads, UNCHANGED <<call, receipts, withdrawn>>,
         \A u \in Threads \ {t} :
           pc'[u] = pc[u] /\ (pc[u] \notin DeletingSteps => left'[u] = left[u]),
         pc'[t] \in DeletingSteps => pc[t] \in DeletingSteps,
         pc'[t] \in FilesystemSteps \cup {"done"} => pc[t] \in FilesystemSteps,
         \A g \in Targets, e \in Episodes, p \in Packages, names \in SUBSET Files :
           Deleting(g, e) = {} /\ Has(g, e, p, names) => Has(g, e, p, names)',
         \A g, e, p, names :
           /\ Writing(t) /\ KeyOf(t) \notin withdrawn
           /\ g = TargetOf(t) /\ e = EpisodeOf(t) /\ p = PackageOf(t)
           /\ names = Files \ left'[t]
           => /\ pc'[t] = "compare" => Has(g, e, p, names)'
              /\ pc'[t] = "done" => Has(g, e, p, Files)',
         ServiceInv
  PROVE  ReceiptInv' /\ WriterInv'
<1> USE DEF FileInv
<1>1. \A g, e : Deleting(g, e)' \subseteq Deleting(g, e)
  BY DEF Deleting, TargetOf, EpisodeOf
<1>2. ReceiptInv'
  <2> SUFFICES ASSUME NEW k \in OfKind("filesystem") \ withdrawn, NEW r, r = receipts[k]
               PROVE  /\ Deleting(r.target, r.package.episode)' = {}
                      /\ Has(r.target, r.package.episode, r.package, Files)'
    BY DEF ReceiptInv, OfKind
  <2>1. r \in Receipt /\ r.target \in Targets /\ r.package \in Packages
    BY DEF OfKind, ServiceInv, Receipt
  <2>2. r.package.episode \in Episodes
    BY <2>1, PackagesAreTyped
  <2> QED
    BY <1>1, <2>1, <2>2 DEF ReceiptInv
<1>3. WriterInv'
  <2> SUFFICES ASSUME NEW u \in Threads, Writing(u)', KeyOf(u)' \notin withdrawn',
                      NEW g, NEW e, NEW p, NEW names,
                      g = TargetOf(u)', e = EpisodeOf(u)', p = PackageOf(u)',
                      names = Files \ left'[u]
               PROVE  /\ Deleting(g, e)' = {}
                      /\ pc'[u] = "compare" => Has(g, e, p, names)'
                      /\ pc'[u] = "done" => Has(g, e, p, Files)'
    BY DEF WriterInv
  <2>1. Writing(u) /\ KeyOf(u) \notin withdrawn
    BY DEF Writing, KindOf, TargetOf, KeyOf
  <2>2. g = TargetOf(u) /\ e = EpisodeOf(u) /\ p = PackageOf(u)
    BY DEF TargetOf, EpisodeOf, PackageOf
  <2>3. g \in Targets /\ e \in Episodes /\ p \in Packages
    BY <2>1, <2>2, AtItsDestination DEF Writing
  <2>4. Deleting(g, e) = {} /\ Deleting(g, e)' = {}
    BY <1>1, <2>1, <2>2 DEF WriterInv
  <2>5. CASE u = t
    BY <2>1, <2>2, <2>4, <2>5
  <2>6. CASE u # t
    <3>1. pc'[u] = pc[u] /\ left'[u] = left[u]
      BY <2>1, <2>6 DEF Writing, FilesystemSteps, DeletingSteps
    <3>2. /\ pc[u] = "compare" => Has(g, e, p, names)
          /\ pc[u] = "done" => Has(g, e, p, Files)
      BY <2>1, <2>2, <3>1 DEF WriterInv
    <3> QED
      BY <2>3, <2>4, <3>1, <3>2
  <2> QED
    BY <2>5, <2>6
<1> QED
  BY <1>2, <1>3

(* A destination is set, and no other.                                     *)
LEMMA OneDestinationIsSet ==
  ASSUME FilesystemTypeOK, NEW t \in Threads, NEW g \in Targets, NEW e \in Episodes,
         g = TargetOf(t), e = EpisodeOf(t), NEW dir \in Directory \cup {Nothing},
         SetDestination(t, dir)
  PROVE  /\ published' \in [Targets -> [Episodes -> Directory \cup {Nothing}]]
         /\ published'[g][e] = dir
         /\ \A h \in Targets, f \in Episodes :
              h # g \/ f # e => published'[h][f] = published[h][f]
BY DEF FilesystemTypeOK, SetDestination

(* Steps that publish nothing and list nothing.                            *)
LEMMA StepsAsideKeepFiles ==
  ASSUME FileInv, KeyInv, KindInv, NEW t \in Threads, UNCHANGED <<receipts, withdrawn>>,
         \/ MakeParent(t) \/ MakeStaging(t) \/ WriteFiles(t) \/ RenameFails(t) \/ CleanUp(t)
         \/ LookForUpdate(t)
  PROVE  FileInv'
<1> USE DEF KeyInv
<1>1. /\ UNCHANGED <<call, left, published>>
      /\ \A u \in Threads \ {t} : pc'[u] = pc[u]
      /\ \/ /\ pc[t] \in FilesystemSteps
            /\ pc'[t] \in (FilesystemSteps \ {"compare"}) \cup {"failed"}
         \/ pc[t] = "update" /\ pc'[t] \in {"writeUpdate", "mutationFailed"}
  BY DEF MakeParent, MakeStaging, WriteFiles, RenameFails, CleanUp, LookForUpdate, At, Goto,
         CallInv, filesystem, FilesystemSteps
<1>2. TargetOf(t) \in Targets
  BY <1>1, AtItsDestination DEF FileMutationSteps
<1>3. FilesystemTypeOK'
  BY <1>1, <1>2
  DEF FileInv, FilesystemTypeOK, MakeParent, MakeStaging, WriteFiles, RenameFails, CleanUp,
      LookForUpdate, filesystem
<1>4. InHandInv'
  <2>1. \A u \in Threads : u \in staging' => pc'[u] \in StagedSteps
    <3>1. CASE MakeStaging(t)
      BY <1>1, <3>1 DEF FileInv, InHandInv, MakeStaging, At, Goto, CallInv, StagedSteps
    <3>2. CASE CleanUp(t)
      BY <1>1, <3>2 DEF FileInv, InHandInv, CleanUp
    <3>3. CASE staging' = staging /\ (t \in staging => pc'[t] \in StagedSteps)
      BY <1>1, <3>3 DEF FileInv, InHandInv
    <3> QED
      BY <3>1, <3>2, <3>3
      DEF FileInv, InHandInv, StagedSteps, MakeParent, WriteFiles, RenameFails,
          LookForUpdate, At, Goto, CallInv, filesystem
  <2> QED
    BY <1>1, <2>1
    DEF FileInv, InHandInv, Exists, Destination, TargetOf, EpisodeOf, FilesystemSteps,
        StagedSteps
<1>5. \A g, e, p, names : Has(g, e, p, names) => Has(g, e, p, names)'
  BY <1>1 DEF Has
<1>6. ReceiptInv' /\ WriterInv'
  BY <1>1, <1>5, FilesAreKept DEF FilesystemSteps, DeletingSteps
<1> QED
  BY <1>3, <1>4, <1>6 DEF FileInv

(* The comparison starts with all files left, and ends with none.          *)
LEMMA ComparisonKeepsFiles ==
  ASSUME FileInv, KeyInv, KindInv, NEW t \in Threads, UNCHANGED <<receipts, withdrawn>>,
         LookForDestination(t) \/ CompareFile(t) \/ DropStaging(t)
  PROVE  FileInv'
<1> USE DEF KeyInv
<1>1. /\ UNCHANGED <<call, published>>
      /\ \A u \in Threads \ {t} : pc'[u] = pc[u] /\ left'[u] = left[u]
      /\ pc[t] \in {"exists", "compare"}
      /\ pc'[t] \in {"compare", "rename", "cleanup", "done"}
  BY DEF LookForDestination, CompareFile, DropStaging, At, Goto, GoThrough, Ticks, CallInv,
         FileInv, InHandInv, filesystem
<1>2. left' \in [Threads -> SUBSET Entries]
  BY DEF LookForDestination, CompareFile, DropStaging, GoThrough, Ticks, FileInv, InHandInv,
         Entries
<1>3. FilesystemTypeOK'
  BY DEF FileInv, FilesystemTypeOK, LookForDestination, CompareFile, DropStaging, filesystem
<1>4. InHandInv'
  <2>1. \A u \in Threads : u \in staging' => pc'[u] \in StagedSteps
    BY <1>1
    DEF FileInv, InHandInv, LookForDestination, CompareFile, DropStaging, At, Goto, CallInv,
        filesystem, FilesystemSteps, StagedSteps
  <2> QED
    BY <1>1, <1>2, <2>1 DEF FileInv, InHandInv, Exists, Destination, TargetOf, EpisodeOf
<1>5. \A g, e, p, names : Has(g, e, p, names)' = Has(g, e, p, names)
  BY <1>1 DEF Has
<1>6. ASSUME Writing(t), KeyOf(t) \notin withdrawn,
             NEW g, NEW e, NEW p, NEW names,
             g = TargetOf(t), e = EpisodeOf(t), p = PackageOf(t), names = Files \ left'[t]
      PROVE  /\ pc'[t] = "compare" => Has(g, e, p, names)
             /\ pc'[t] = "done" => Has(g, e, p, Files)
  <2>1. \A n \in Files : BytesOf(t, n) = p.files[n]
    BY <1>6 DEF PackageOf, BytesOf
  <2>2. pc[t] = "compare" => Has(g, e, p, Files \ left[t])
    BY <1>6 DEF FileInv, WriterInv
  <2>3. CASE LookForDestination(t)
    <3>1. pc'[t] = "compare" => Exists(t) /\ left'[t] = Files
      BY <2>3 DEF LookForDestination, Goto, GoThrough, CallInv, FileInv, InHandInv
    <3> QED
      BY <1>6, <2>3, <3>1
      DEF LookForDestination, Goto, CallInv, Has, Exists, Destination
  <2>4. CASE CompareFile(t)
    <3>1. ASSUME pc'[t] = "compare"
          PROVE  \E n \in left[t] : Agrees(t, n) /\ left'[t] = left[t] \ {n}
      BY <2>4, <3>1 DEF CompareFile, Goto, Ticks, CallInv, FileInv, InHandInv
    <3>2. pc'[t] # "done" /\ pc[t] = "compare"
      BY <2>4 DEF CompareFile, Goto, CallInv, At
    <3> QED
      BY <1>6, <2>1, <2>2, <3>1, <3>2 DEF Has, Agrees, Exists, Destination
  <2>5. CASE DropStaging(t)
    <3>1. pc[t] = "compare" /\ pc'[t] \in {"done", "cleanup"} /\ left[t] = {}
      BY <2>5 DEF DropStaging, At, Goto, CallInv
    <3> QED
      BY <2>2, <3>1 DEF Has
  <2> QED
    BY <2>3, <2>4, <2>5
<1>7. ReceiptInv' /\ WriterInv'
  BY <1>1, <1>5, <1>6, FilesAreKept DEF FilesystemSteps, DeletingSteps
<1> QED
  BY <1>3, <1>4, <1>7 DEF FileInv

(* rename replaces nothing, or a directory in which nobody has found a     *)
(* file.                                                                   *)
LEMMA RenameKeepsFiles ==
  ASSUME FileInv, KeyInv, KindInv, NEW t \in Threads, UNCHANGED <<receipts, withdrawn>>,
         Rename(t)
  PROVE  FileInv'
<1> USE DEF KeyInv
<1>1. /\ call' = call
      /\ \A u \in Threads \ {t} : pc'[u] = pc[u]
      /\ pc[t] = "rename" /\ pc'[t] = "done"
      /\ FilesIn(Destination(t)) = {}
      /\ SetDestination(t, PublishedFiles(t))
  BY DEF Rename, At, Goto, CallInv
<1>2. PICK g \in Targets, e \in Episodes, p \in Packages :
        /\ g = TargetOf(t) /\ e = EpisodeOf(t) /\ p = PackageOf(t)
        /\ \A n \in Files : BytesOf(t, n) = p.files[n] /\ BytesOf(t, n) \in Contents
  BY <1>1, AtItsDestination DEF FilesystemSteps
<1>3. PublishedFiles(t) \in Directory
  BY <1>2 DEF PublishedFiles, Directory, Entries
<1>4. /\ published' \in [Targets -> [Episodes -> Directory \cup {Nothing}]]
      /\ published'[g][e] = PublishedFiles(t)
      /\ \A h \in Targets, f \in Episodes :
           h # g \/ f # e => published'[h][f] = published[h][f]
  BY <1>1, <1>2, <1>3, OneDestinationIsSet DEF FileInv
<1>5. Has(g, e, p, Files)'
  BY <1>2, <1>3, <1>4, FilesystemAssumption
  DEF Has, PublishedFiles, Entries, FilesystemAssumption
<1>6. ASSUME NEW h \in Targets, NEW f \in Episodes, NEW q \in Packages,
             NEW names \in SUBSET Files, Has(h, f, q, names)
      PROVE  Has(h, f, q, names)'
  <2>1. CASE h = g /\ f = e
    <3>1. \A n \in names : n \in FilesIn(Destination(t))
      BY <1>2, <1>6, <2>1, PackagesAreTyped, PublicationAssumption
      DEF FilesIn, Destination, Has, Entries, PublicationAssumption
    <3>2. names = {}
      BY <1>1, <3>1
    <3> QED
      BY <1>5, <2>1, <3>2 DEF Has
  <2>2. CASE h # g \/ f # e
    BY <1>4, <1>6, <2>2 DEF Has
  <2> QED
    BY <2>1, <2>2
<1>7. /\ left' \in [Threads -> SUBSET Entries]
      /\ \A u \in Threads : left'[u] = IF u \in Deleters(t) THEN {} ELSE left[u]
  BY DEF Rename, DetachDeleters, FileInv, InHandInv
<1>8. FilesystemTypeOK'
  BY <1>4 DEF FileInv, FilesystemTypeOK, Rename
<1>9. InHandInv'
  <2>0. \A u \in Threads : u \in staging' => pc'[u] \in StagedSteps
    BY <1>1 DEF Rename, FileInv, InHandInv
  <2> SUFFICES ASSUME NEW u \in Threads, pc'[u] = "unlink", left'[u] # {}
               PROVE  published'[TargetOf(u)][EpisodeOf(u)] # Nothing
    BY <1>1, <1>7, <2>0 DEF InHandInv, Exists, Destination, TargetOf, EpisodeOf
  <2>1. pc[u] = "unlink" /\ u \notin Deleters(t) /\ left[u] # {}
    BY <1>1, <1>7
  <2>2. TargetOf(u) \in Targets /\ EpisodeOf(u) \in Episodes
    BY <2>1, AtItsDestination DEF FileMutationSteps
  <2>3. TargetOf(u) # g \/ EpisodeOf(u) # e
    BY <1>2, <2>1 DEF Deleters
  <2> QED
    BY <1>4, <2>1, <2>2, <2>3 DEF FileInv, InHandInv, Exists, Destination
<1>10. \A u \in Threads : pc[u] \notin DeletingSteps => left'[u] = left[u]
  BY <1>7 DEF Deleters, DeletingSteps
<1>11. ReceiptInv' /\ WriterInv'
  <2>1. \A h, f, q : h = TargetOf(t) /\ f = EpisodeOf(t) /\ q = PackageOf(t)
           => Has(h, f, q, Files)'
    BY <1>2, <1>5
  <2> QED
    BY <1>1, <1>6, <1>10, <2>1, FilesAreKept DEF FilesystemSteps, DeletingSteps
<1> QED
  BY <1>8, <1>9, <1>11 DEF FileInv

(* The record of an update is none of the package's files.                 *)
LEMMA WriteUpdateKeepsFiles ==
  ASSUME FileInv, KeyInv, KindInv, NEW t \in Threads, UNCHANGED <<receipts, withdrawn>>,
         WriteUpdate(t)
  PROVE  FileInv'
<1> USE DEF KeyInv
<1>1. /\ UNCHANGED <<call, left>>
      /\ \A u \in Threads \ {t} : pc'[u] = pc[u]
      /\ pc[t] = "writeUpdate" /\ pc'[t] \in {"mutated", "mutationFailed"}
  BY DEF WriteUpdate, At, Goto, CallInv
<1>2. PICK g \in Targets, e \in Episodes : g = TargetOf(t) /\ e = EpisodeOf(t)
  BY <1>1, AtItsDestination DEF FileMutationSteps
<1>3. /\ published' \in [Targets -> [Episodes -> Directory \cup {Nothing}]]
      /\ \A h \in Targets, f \in Episodes : published[h][f] # Nothing =>
           /\ published'[h][f] # Nothing
           /\ \A n \in Files : published'[h][f][n] = published[h][f][n]
  <2>1. CASE UNCHANGED published
    BY <2>1 DEF FileInv, FilesystemTypeOK
  <2>2. CASE Exists(t) /\ SetDestination(t, [Destination(t) EXCEPT ![UpdateFile] = UpdateFile])
    <3> DEFINE dir == [Destination(t) EXCEPT ![UpdateFile] = UpdateFile]
    <3>1. Destination(t) = published[g][e] /\ Destination(t) \in Directory
      BY <1>2, <2>2 DEF FileInv, FilesystemTypeOK, Destination, Exists
    <3>2. dir \in Directory /\ \A n \in Files : dir[n] = Destination(t)[n]
      BY <3>1, FilesystemAssumption DEF Directory, Entries, FilesystemAssumption
    <3> HIDE DEF dir
    <3>3. SetDestination(t, dir)
      BY <2>2 DEF dir
    <3> QED
      BY <1>2, <3>1, <3>2, <3>3, OneDestinationIsSet, FilesystemAssumption
      DEF FileInv, FilesystemAssumption
  <2> QED
    BY <2>1, <2>2 DEF WriteUpdate
<1>4. FilesystemTypeOK'
  BY <1>3 DEF FileInv, FilesystemTypeOK, WriteUpdate
<1>5. InHandInv'
  <2>1. \A u \in Threads : u \in staging' => pc'[u] \in StagedSteps
    BY <1>1 DEF FileInv, InHandInv, WriteUpdate, FilesystemSteps, StagedSteps
  <2> QED
    BY <1>1, <1>3, <2>1, AtItsDestination
    DEF FileInv, InHandInv, Exists, Destination, TargetOf, EpisodeOf, FileMutationSteps
<1>6. \A h \in Targets, f \in Episodes, q \in Packages, names \in SUBSET Files :
        Has(h, f, q, names) => Has(h, f, q, names)'
  BY <1>3 DEF Has
<1>7. ReceiptInv' /\ WriterInv'
  BY <1>1, <1>6, FilesAreKept DEF FilesystemSteps, DeletingSteps
<1> QED
  BY <1>4, <1>5, <1>7 DEF FileInv

(* rmtree removes files and directories only where somebody is deleting.   *)
LEMMA DeletionKeepsFiles ==
  ASSUME FileInv, KeyInv, KindInv, NEW t \in Threads, UNCHANGED <<receipts, withdrawn>>,
         ListTree(t) \/ UnlinkFile(t) \/ RemoveTree(t)
  PROVE  FileInv'
<1> USE DEF KeyInv
<1>1. /\ call' = call
      /\ \A u \in Threads \ {t} : pc'[u] = pc[u]
      /\ pc[t] \in DeletingSteps /\ pc'[t] \in {"unlink", "mutated"}
  BY DEF ListTree, UnlinkFile, RemoveTree, At, Goto, CallInv, DeletingSteps
<1>2. PICK g \in Targets, e \in Episodes : g = TargetOf(t) /\ e = EpisodeOf(t)
  BY <1>1, AtItsDestination DEF FileMutationSteps, DeletingSteps
<1>3. t \in Deleting(g, e) /\ Destination(t) = published[g][e]
  BY <1>1, <1>2 DEF Deleting, Destination
<1>10. \A u \in Threads : u \in staging' => pc'[u] \in StagedSteps
  BY <1>1
  DEF FileInv, InHandInv, ListTree, UnlinkFile, RemoveTree, filesystem, DeletingSteps,
      FilesystemSteps, StagedSteps
<1>4. /\ FilesystemTypeOK' /\ InHandInv'
      /\ \A h \in Targets, f \in Episodes :
           h # g \/ f # e => published'[h][f] = published[h][f]
      /\ \A u \in Threads : pc[u] \notin DeletingSteps => left'[u] = left[u]
  <2>1. CASE ListTree(t)
    <3>1. left' \in [Threads -> SUBSET Entries]
      BY <2>1 DEF ListTree, GoThrough, FilesIn, FileInv, InHandInv
    <3>2. InHandInv'
      BY <1>1, <1>10, <2>1, <3>1
      DEF ListTree, Goto, GoThrough, At, CallInv, FileInv, InHandInv, Exists, Destination,
          TargetOf, EpisodeOf, filesystem
    <3> QED
      BY <1>1, <2>1, <3>2
      DEF ListTree, GoThrough, FileInv, FilesystemTypeOK, InHandInv, filesystem
  <2>2. CASE UnlinkFile(t)
    <3>1. PICK n \in left[t] :
            /\ Ticks(t, n)
            /\ \/ SetDestination(t, [Destination(t) EXCEPT ![n] = Nothing])
               \/ UNCHANGED published
      BY <2>2 DEF UnlinkFile
    <3>2. Destination(t) \in Directory /\ n \in Entries
      BY <1>2, <1>3, <2>2, <3>1
      DEF UnlinkFile, At, FileInv, InHandInv, Exists, FilesystemTypeOK
    <3>3. [Destination(t) EXCEPT ![n] = Nothing] \in Directory
      BY <3>2 DEF Directory
    <3>4. /\ published' \in [Targets -> [Episodes -> Directory \cup {Nothing}]]
          /\ \A h \in Targets, f \in Episodes :
               h # g \/ f # e => published'[h][f] = published[h][f]
          /\ published'[g][e] # Nothing
      <4>1. CASE UNCHANGED published
        BY <1>3, <3>2, <4>1, FilesystemAssumption
        DEF FileInv, FilesystemTypeOK, FilesystemAssumption
      <4>2. CASE SetDestination(t, [Destination(t) EXCEPT ![n] = Nothing])
        BY <1>2, <3>3, <4>2, OneDestinationIsSet, FilesystemAssumption
        DEF FileInv, FilesystemAssumption
      <4> QED
        BY <3>1, <4>1, <4>2
    <3>5. left' \in [Threads -> SUBSET Entries]
          /\ \A u \in Threads : left'[u] \subseteq left[u] /\ (u # t => left'[u] = left[u])
      BY <3>1 DEF Ticks, FileInv, InHandInv
    <3>6. ASSUME NEW u \in Threads, pc'[u] = "unlink", left'[u] # {}
          PROVE  published'[TargetOf(u)][EpisodeOf(u)] # Nothing
      <4>1. pc[u] = "unlink" /\ left[u] # {}
        BY <2>2, <3>5, <3>6 DEF UnlinkFile
      <4>2. TargetOf(u) \in Targets /\ EpisodeOf(u) \in Episodes
        BY <4>1, AtItsDestination DEF FileMutationSteps
      <4> QED
        BY <3>4, <4>1, <4>2 DEF FileInv, InHandInv, Exists, Destination
    <3>7. InHandInv'
      BY <1>1, <1>10, <3>5, <3>6 DEF InHandInv, Exists, Destination, TargetOf, EpisodeOf
    <3> QED
      BY <1>1, <2>2, <3>4, <3>5, <3>7 DEF UnlinkFile, FileInv, FilesystemTypeOK
  <2>3. CASE RemoveTree(t) /\ UNCHANGED <<published, left>>
    <3>1. pc'[t] = "mutated"
      BY <2>3 DEF RemoveTree, Goto, CallInv
    <3>2. InHandInv'
      BY <1>1, <1>10, <2>3, <3>1
      DEF FileInv, InHandInv, Exists, Destination, TargetOf, EpisodeOf
    <3> QED
      BY <2>3, <3>2 DEF RemoveTree, FileInv, FilesystemTypeOK
  <2>4. CASE RemoveTree(t) /\ SetDestination(t, Nothing) /\ DetachDeleters(t)
    <3>1. /\ published' \in [Targets -> [Episodes -> Directory \cup {Nothing}]]
          /\ \A h \in Targets, f \in Episodes :
               h # g \/ f # e => published'[h][f] = published[h][f]
      BY <1>2, <2>4, OneDestinationIsSet DEF FileInv
    <3>2. /\ left' \in [Threads -> SUBSET Entries]
          /\ \A u \in Threads : left'[u] = IF u \in Deleters(t) THEN {} ELSE left[u]
      BY <2>4 DEF DetachDeleters, FileInv, InHandInv
    <3>3. ASSUME NEW u \in Threads, pc'[u] = "unlink", left'[u] # {}
          PROVE  published'[TargetOf(u)][EpisodeOf(u)] # Nothing
      <4>1. u # t
        BY <2>4, <3>3 DEF RemoveTree, Goto, CallInv
      <4>2. pc[u] = "unlink" /\ u \notin Deleters(t) /\ left[u] # {}
        BY <1>1, <3>2, <3>3, <4>1
      <4>3. TargetOf(u) \in Targets /\ EpisodeOf(u) \in Episodes
        BY <4>2, AtItsDestination DEF FileMutationSteps
      <4>4. TargetOf(u) # g \/ EpisodeOf(u) # e
        BY <1>2, <4>2 DEF Deleters
      <4> QED
        BY <3>1, <4>2, <4>3, <4>4 DEF FileInv, InHandInv, Exists, Destination
    <3>4. InHandInv'
      BY <1>1, <1>10, <3>2, <3>3 DEF InHandInv, Exists, Destination, TargetOf, EpisodeOf
    <3>5. FilesystemTypeOK'
      BY <2>4, <3>1 DEF RemoveTree, FileInv, FilesystemTypeOK
    <3> QED
      BY <3>1, <3>2, <3>4, <3>5 DEF Deleters, DeletingSteps
  <2> QED
    BY <2>1, <2>2, <2>3, <2>4 DEF RemoveTree
<1>5. ASSUME NEW h \in Targets, NEW f \in Episodes, NEW q, NEW names,
             Deleting(h, f) = {}, Has(h, f, q, names)
      PROVE  Has(h, f, q, names)'
  <2>1. h # g \/ f # e
    BY <1>3, <1>5
  <2> QED
    BY <1>4, <1>5, <2>1 DEF Has
<1>6. ReceiptInv' /\ WriterInv'
  BY <1>1, <1>4, <1>5, FilesAreKept DEF FilesystemSteps, DeletingSteps
<1> QED
  BY <1>4, <1>6 DEF FileInv

LEMMA FilesystemKeepsFiles ==
  ASSUME FileInv, KeyInv, KindInv, NEW t \in Threads, UNCHANGED <<receipts, withdrawn>>,
         FilesystemStep(t)
  PROVE  FileInv'
BY StepsAsideKeepFiles, ComparisonKeepsFiles, RenameKeepsFiles, WriteUpdateKeepsFiles,
   DeletionKeepsFiles
DEF FilesystemStep

-----------------------------------------------------------------------------
(* The object store goes through files of its own.                         *)
LEMMA S3GoesThroughFiles ==
  ASSUME left \in [Threads -> SUBSET Entries], NEW t \in Threads, S3Step(t)
  PROVE  /\ left' \in [Threads -> SUBSET Entries]
         /\ \A u \in Threads \ {t} : left'[u] = left[u]
<1>1. CASE EnterS3(t)
  BY <1>1 DEF EnterS3, GoThrough, Entries
<1>2. CASE ReadObject(t)
  BY <1>2 DEF ReadObject, Ticks
<1>3. CASE LinkSidecar(t)
  BY <1>3 DEF LinkSidecar, Ticks
<1>4. CASE left' = left
  BY <1>4
<1> QED
  BY <1>1, <1>2, <1>3, <1>4
  DEF S3Step, CompleteS3, FailS3, RollBackS3, StartPut, LinkObject, AbortPut, StartRemove,
      UnlinkObject, UnlinkSidecar, PruneObject, AbortRemove

(* A publication that begins while its destination is being deleted is     *)
(* withdrawn; otherwise it begins in the adapter with nothing to rely on.  *)
LEMMA StartPublicationKeepsFiles ==
  ASSUME FileInv, KeyInv, NEW t \in Threads, StartPublication(t)
  PROVE  FileInv'
<1> USE DEF KeyInv, FileInv
<1>1. /\ UNCHANGED <<call, left, filesystem, receipts>>
      /\ \A u \in Threads \ {t} : pc'[u] = pc[u]
      /\ pc[t] = "open" /\ call[t] \in Call /\ OpOf(t) = "publish"
      /\ keyLock[KeyOf(t)] = Nothing /\ receipts[KeyOf(t)] = Nothing
      /\ withdrawn' = IF Deleters(t) # {} THEN withdrawn \cup {KeyOf(t)}
                      ELSE withdrawn \ {KeyOf(t)}
      /\ pc'[t] \in {FirstStep[KindOf(t)], "idle"}
  BY DEF StartPublication, At, Goto, LockIsFree, CallInv
<1>2. KindOf(t) \in Kinds /\ KeyOf(t) \in Keys
  BY <1>1, CallsHaveParts, PublicationAssumption
  DEF OpOf, KeyOf, KindOf, TargetOf, Operations, PublicationAssumption
<1>3. /\ pc'[t] \notin DeletingSteps \cup {"done", "compare", "unlink"}
      /\ pc'[t] \in FilesystemSteps => KindOf(t) = "filesystem"
  BY <1>1, <1>2 DEF FirstStep, Kinds, DeletingSteps, FilesystemSteps
<1>4. \A g, e : Deleting(g, e)' \subseteq Deleting(g, e)
  BY <1>1, <1>3 DEF Deleting, TargetOf, EpisodeOf
<1>5. \A g, e, p, names : Has(g, e, p, names)' = Has(g, e, p, names)
  BY <1>1 DEF Has, filesystem
<1>6. FilesystemTypeOK' /\ InHandInv'
  BY <1>1, <1>3
  DEF FilesystemSteps, StagedSteps, FilesystemTypeOK, InHandInv, Exists, Destination,
      TargetOf, EpisodeOf, filesystem
<1>7. ReceiptInv'
  <2> SUFFICES ASSUME NEW k \in OfKind("filesystem") \ withdrawn', NEW r, r = receipts[k]
               PROVE  /\ Deleting(r.target, r.package.episode)' = {}
                      /\ Has(r.target, r.package.episode, r.package, Files)'
    BY <1>1 DEF ReceiptInv, OfKind
  <2>1. k \in OfKind("filesystem") \ withdrawn
    BY <1>1 DEF OfKind
  <2> QED
    BY <1>4, <1>5, <2>1 DEF ReceiptInv
<1>8. WriterInv'
  <2> SUFFICES ASSUME NEW u \in Threads, Writing(u)', KeyOf(u)' \notin withdrawn',
                      NEW g, NEW e, NEW p, NEW names,
                      g = TargetOf(u)', e = EpisodeOf(u)', p = PackageOf(u)',
                      names = Files \ left'[u]
               PROVE  /\ Deleting(g, e)' = {}
                      /\ pc'[u] = "compare" => Has(g, e, p, names)'
                      /\ pc'[u] = "done" => Has(g, e, p, Files)'
    BY DEF WriterInv
  <2>1. /\ g = TargetOf(u) /\ e = EpisodeOf(u) /\ p = PackageOf(u) /\ names = Files \ left[u]
        /\ KeyOf(u) \notin withdrawn'
    BY <1>1 DEF TargetOf, EpisodeOf, PackageOf, KeyOf
  <2>2. CASE u = t
    <3>1. Deleters(t) = {}
      BY <1>1, <2>1, <2>2
    <3>2. Deleting(g, e) = {}
      BY <2>1, <2>2, <3>1 DEF Deleters, Deleting, DeletingSteps
    <3> QED
      BY <1>3, <1>4, <2>2, <3>2
  <2>3. CASE u # t
    <3>1. Writing(u)
      BY <1>1, <2>3 DEF Writing, KindOf, TargetOf
    <3>2. Inside(u)
      BY <3>1, AtItsDestination DEF Writing
    <3>3. KeyOf(u) # KeyOf(t)
      BY <1>1, <3>2, PublicationAssumption DEF LockInv, PublicationAssumption
    <3>4. KeyOf(u) \notin withdrawn /\ pc'[u] = pc[u]
      BY <1>1, <2>1, <2>3, <3>3
    <3> QED
      BY <1>4, <1>5, <2>1, <3>1, <3>4 DEF WriterInv
  <2> QED
    BY <2>2, <2>3
<1> QED
  BY <1>6, <1>7, <1>8

(* What a publication has found or put there is what its receipt stands    *)
(* for.                                                                    *)
LEMMA RecordReceiptKeepsFiles ==
  ASSUME FileInv, KeyInv, NEW t \in Threads, RecordReceipt(t)
  PROVE  FileInv'
<1> USE DEF KeyInv, FileInv
<1>1. /\ UNCHANGED <<call, left, filesystem, withdrawn>>
      /\ \A u \in Threads \ {t} : pc'[u] = pc[u]
      /\ pc[t] = "done" /\ pc'[t] = "idle"
  BY DEF RecordReceipt, At, Goto, CallInv
<1>2. PICK k \in Keys, g \in Targets, e \in Episodes, p \in Packages :
        /\ k = KeyOf(t) /\ g = TargetOf(t) /\ e = EpisodeOf(t) /\ p = PackageOf(t)
        /\ e = p.episode
  BY <1>1, AtItsDestination
<1>3. /\ receipts'[k].package = p /\ receipts'[k].target = g
      /\ \A j \in Keys \ {k} : receipts'[j] = receipts[j]
  BY <1>2 DEF RecordReceipt, ServiceInv
<1>4. \A h, f : Deleting(h, f)' = Deleting(h, f)
  BY <1>1 DEF Deleting, TargetOf, EpisodeOf, DeletingSteps
<1>5. \A h, f, q, names : Has(h, f, q, names)' = Has(h, f, q, names)
  BY <1>1 DEF Has, filesystem
<1>6. FilesystemTypeOK' /\ InHandInv'
  BY <1>1
  DEF FilesystemSteps, StagedSteps, FilesystemTypeOK, InHandInv, Exists, Destination,
      TargetOf, EpisodeOf, filesystem
<1>7. ReceiptInv'
  <2> SUFFICES ASSUME NEW j \in Keys \ withdrawn, NEW r, r = receipts'[j], r # Nothing,
                      Kind[r.target] = "filesystem"
               PROVE  /\ Deleting(r.target, r.package.episode)' = {}
                      /\ Has(r.target, r.package.episode, r.package, Files)'
    BY <1>1 DEF ReceiptInv, OfKind
  <2>1. CASE j = k
    <3>1. Writing(t) /\ KeyOf(t) \notin withdrawn
      BY <1>1, <1>2, <1>3, <2>1 DEF Writing, KindOf
    <3>2. Deleting(g, e) = {} /\ Has(g, e, p, Files)
      BY <1>1, <1>2, <3>1 DEF WriterInv
    <3> QED
      BY <1>2, <1>3, <1>4, <1>5, <2>1, <3>2
  <2>2. CASE j # k
    <3>1. r = receipts[j] /\ j \in OfKind("filesystem") \ withdrawn
      BY <1>3, <2>2 DEF OfKind
    <3> QED
      BY <1>4, <1>5, <3>1 DEF ReceiptInv
  <2> QED
    BY <2>1, <2>2
<1>8. WriterInv'
  <2> SUFFICES ASSUME NEW u \in Threads, Writing(u)', KeyOf(u)' \notin withdrawn',
                      NEW h, NEW f, NEW q, NEW names,
                      h = TargetOf(u)', f = EpisodeOf(u)', q = PackageOf(u)',
                      names = Files \ left'[u]
               PROVE  /\ Deleting(h, f)' = {}
                      /\ pc'[u] = "compare" => Has(h, f, q, names)'
                      /\ pc'[u] = "done" => Has(h, f, q, Files)'
    BY DEF WriterInv
  <2>1. /\ h = TargetOf(u) /\ f = EpisodeOf(u) /\ q = PackageOf(u) /\ names = Files \ left[u]
        /\ Writing(u) /\ KeyOf(u) \notin withdrawn /\ pc'[u] = pc[u]
    BY <1>1
    DEF TargetOf, EpisodeOf, PackageOf, KeyOf, Writing, KindOf, FilesystemSteps
  <2> QED
    BY <1>4, <1>5, <2>1 DEF WriterInv
<1> QED
  BY <1>6, <1>7, <1>8

(* A delete withdraws the receipts at its destination, and the keys of     *)
(* those who are on their way there.                                       *)
LEMMA DispatchMutationKeepsFiles ==
  ASSUME FileInv, KeyInv, KindInv, NEW t \in Threads, DispatchMutation(t)
  PROVE  FileInv'
<1> USE DEF KeyInv, FileInv
<1>1. /\ UNCHANGED <<call, left, filesystem, receipts>>
      /\ \A u \in Threads \ {t} : pc'[u] = pc[u]
      /\ pc[t] = "scan" /\ pc'[t] = FirstMutationStep(t)
      /\ Withdraw(t)
  BY DEF DispatchMutation, At, Goto, CallInv
<1>2. OpOf(t) \in Mutations
  BY <1>1, StepsAreDistinct, CallsHaveParts
  DEF CallInv, OpOf, Operations, Mutations, MutationSteps
<1>3. /\ pc'[t] \in DeletingSteps => OpOf(t) = "delete"
      /\ pc'[t] \in {"update", "rmtree", "transistorMutation", "mutationFailed"}
  BY <1>1, <1>2 DEF FirstMutationStep, DeletingSteps, Mutations
<1>4. withdrawn \subseteq withdrawn'
  BY <1>1 DEF Withdraw
<1>5. \A g, e : Deleting(g, e)' # {} =>
        Deleting(g, e) # {} \/ (OpOf(t) = "delete" /\ g = TargetOf(t) /\ e = EpisodeOf(t))
  BY <1>1, <1>3 DEF Deleting, TargetOf, EpisodeOf
<1>6. \A g, e, p, names : Has(g, e, p, names)' = Has(g, e, p, names)
  BY <1>1 DEF Has, filesystem
<1>7. FilesystemTypeOK' /\ InHandInv'
  BY <1>1, <1>3
  DEF FilesystemSteps, StagedSteps, FilesystemTypeOK, InHandInv, Exists, Destination,
      TargetOf, EpisodeOf, filesystem
<1>8. ReceiptInv'
  <2> SUFFICES ASSUME NEW k \in OfKind("filesystem") \ withdrawn', NEW r, r = receipts[k]
               PROVE  /\ Deleting(r.target, r.package.episode)' = {}
                      /\ Has(r.target, r.package.episode, r.package, Files)'
    BY <1>1 DEF ReceiptInv, OfKind
  <2>1. OpOf(t) = "delete" => ~IsAt(k, t)
    BY <1>1 DEF Withdraw, OfKind
  <2>2. r.target # TargetOf(t) \/ r.package.episode # EpisodeOf(t) \/ OpOf(t) # "delete"
    BY <2>1 DEF IsAt, OfKind
  <2> QED
    BY <1>4, <1>5, <1>6, <2>2 DEF ReceiptInv
<1>9. WriterInv'
  <2> SUFFICES ASSUME NEW u \in Threads, Writing(u)', KeyOf(u)' \notin withdrawn',
                      NEW g, NEW e, NEW p, NEW names,
                      g = TargetOf(u)', e = EpisodeOf(u)', p = PackageOf(u)',
                      names = Files \ left'[u]
               PROVE  /\ Deleting(g, e)' = {}
                      /\ pc'[u] = "compare" => Has(g, e, p, names)'
                      /\ pc'[u] = "done" => Has(g, e, p, Files)'
    BY DEF WriterInv
  <2>1. u # t
    BY <1>3 DEF Writing, FilesystemSteps
  <2>2. /\ g = TargetOf(u) /\ e = EpisodeOf(u) /\ p = PackageOf(u) /\ names = Files \ left[u]
        /\ Writing(u) /\ KeyOf(u) \notin withdrawn' /\ pc'[u] = pc[u]
    BY <1>1, <2>1 DEF TargetOf, EpisodeOf, PackageOf, KeyOf, Writing, KindOf
  <2>3. Inside(u) /\ KeyOf(u) \in Keys /\ OpOf(u) = "publish"
    BY <2>2, AtItsDestination, StepsAreDistinct
    DEF Writing, Inside, FilesystemSteps, PublishSteps, PutSteps
  <2>4. keyLock[KeyOf(u)] = u
    BY <2>3 DEF LockInv
  <2>5. OpOf(t) = "delete" => ~SameDestination(t, u)
    BY <1>1, <2>2, <2>3, <2>4 DEF Withdraw, IsOnItsWayTo
  <2> QED
    BY <1>4, <1>5, <1>6, <2>2, <2>5 DEF WriterInv, SameDestination
<1> QED
  BY <1>7, <1>8, <1>9

LEMMA FileInvStep ==
  ASSUME FileInv, KeyInv, KindInv, [Next]_vars
  PROVE  FileInv'
<1> USE DEF KeyInv
<1>0. left \in [Threads -> SUBSET Entries]
  BY DEF FileInv, InHandInv
<1>1. ASSUME NEW t \in Threads, StartCall(t) PROVE FileInv'
  <2>1. PICK c \in menu :
          /\ call' = [call EXCEPT ![t] = c]
          /\ \/ /\ c.op \in Operations /\ pc' = [pc EXCEPT ![t] = "open"]
                /\ left' = [left EXCEPT ![t] = {}]
             \/ /\ c.op \notin Operations /\ pc' = [pc EXCEPT ![t] = c.op]
                /\ left' = [left EXCEPT ![t] = {c.file}]
    BY <1>1 DEF StartCall, Goto, GoThrough
  <2>2. c \in Call
    BY <2>1, PublishingAssumption DEF CallInv, PublishingAssumption
  <2>3. c.op \notin Operations => c.op \in {"put", "remove"} /\ c.file \in Files
    BY <2>2 DEF Call, PublicationCall, StoreCall, Operations
  <2>4. UNCHANGED <<filesystem, receipts, withdrawn>>
    BY <1>1 DEF StartCall, service
  <2>5. pc'[t] \in {"open", "put", "remove"}
    BY <2>1, <2>3 DEF CallInv
  <2>6. left' \in [Threads -> SUBSET Entries]
    BY <1>0, <2>1, <2>3 DEF Entries
  <2>7. \A u \in Threads \ {t} :
          pc'[u] = pc[u] /\ call'[u] = call[u] /\ left'[u] = left[u]
    BY <1>0, <2>1 DEF CallInv
  <2>8. pc[t] \notin FilesystemSteps /\ pc'[t] \notin DeletingSteps /\ ~Writing(t)'
    BY <1>1, <2>5 DEF StartCall, At, DeletingSteps, Writing, FilesystemSteps
  <2> QED
    BY <2>4, <2>6, <2>7, <2>8, FilesStay
<1>2. ASSUME NEW t \in Threads, Step(t) PROVE FileInv'
  <2>1. CASE FilesystemStep(t) /\ UNCHANGED <<s3, rss, bounds, service>>
    BY <2>1, FilesystemKeepsFiles DEF service
  <2>2. CASE S3Step(t) /\ UNCHANGED <<filesystem, rss, bounds, service>>
    <3>1. Moves(t) /\ (pc'[t] = "done" => KindOf(t) = "s3")
      BY <2>2, S3Moves, S3KeepsToItself, KindIsKnown
    <3>2. KindOf(t)' = KindOf(t) /\ UNCHANGED <<call, filesystem, receipts, withdrawn>>
      BY <2>2, <3>1 DEF Moves, KindOf, TargetOf, service
    <3>3. pc[t] \notin FilesystemSteps /\ pc'[t] \notin DeletingSteps /\ ~Writing(t)'
      BY <2>2, <3>1, <3>2, S3KeepsToItself
      DEF S3Steps, PutSteps, RemoveSteps, DeletingSteps, Writing, FilesystemSteps
    <3> QED
      BY <1>0, <2>2, <3>1, <3>2, <3>3, S3GoesThroughFiles, FilesStay DEF Moves
  <2>3. CASE RssStep(t) /\ UNCHANGED <<filesystem, s3, bounds, service>>
    <3>1. Moves(t) /\ (pc'[t] = "done" => KindOf(t) = "rss")
      BY <2>3, RssMoves, RssKeepsToItself, KindIsKnown
    <3>2. KindOf(t)' = KindOf(t) /\ UNCHANGED <<call, left, filesystem, receipts, withdrawn>>
      BY <2>3, <3>1
      DEF Moves, KindOf, TargetOf, service, RssStep, CheckItem, SetItem, BuildFeed,
          StoreFeed
    <3>3. pc[t] \notin FilesystemSteps /\ pc'[t] \notin DeletingSteps /\ ~Writing(t)'
      BY <2>3, <3>1, <3>2, RssKeepsToItself
      DEF FeedSteps, DeletingSteps, Writing, FilesystemSteps
    <3> QED
      BY <1>0, <3>1, <3>2, <3>3, FilesStay DEF Moves
  <2>4. CASE PublishTransistor(t)
    <3>1. /\ pc[t] = "transistor" /\ pc'[t] \in {"done", "failed"}
          /\ UNCHANGED <<call, left, filesystem, receipts, withdrawn>>
          /\ \A u \in Threads \ {t} : pc'[u] = pc[u]
      BY <2>4 DEF PublishTransistor, At, Goto, CallInv, service
    <3>2. pc[t] \notin FilesystemSteps /\ pc'[t] \notin DeletingSteps /\ ~Writing(t)'
      BY <3>1, KindIsKnown DEF Writing, KindOf, TargetOf, DeletingSteps, FilesystemSteps
    <3> QED
      BY <1>0, <3>1, <3>2, FilesStay
  <2>5. CASE \/ AnswerFromReceipt(t) \/ FailPublication(t) \/ AnswerFromMutation(t)
             \/ StartScan(t) \/ RefuseMutation(t) \/ RecordMutation(t) \/ FailMutation(t)
             \/ MutateTransistor(t)
    <3>1. UNCHANGED <<call, left, filesystem, receipts, withdrawn>>
      BY <2>5
      DEF AnswerFromReceipt, FailPublication, AnswerFromMutation, StartScan, RefuseMutation,
          RecordMutation, FailMutation, MutateTransistor, service
    <3>2. /\ \A u \in Threads \ {t} : pc'[u] = pc[u]
          /\ pc[t] \in {"open", "failed", "scan", "mutated", "mutationFailed",
                        "transistorMutation"}
          /\ pc'[t] \in {"idle", "scan", "mutated", "mutationFailed"}
      BY <2>5
      DEF AnswerFromReceipt, FailPublication, AnswerFromMutation, StartScan, RefuseMutation,
          RecordMutation, FailMutation, MutateTransistor, At, Goto, CallInv
    <3>3. pc[t] \notin FilesystemSteps /\ pc'[t] \notin DeletingSteps /\ ~Writing(t)'
      BY <3>2 DEF Writing, DeletingSteps, FilesystemSteps
    <3> QED
      BY <1>0, <3>1, <3>2, <3>3, FilesStay
  <2> QED
    BY <1>2, <2>1, <2>2, <2>3, <2>4, <2>5, StartPublicationKeepsFiles,
       RecordReceiptKeepsFiles, DispatchMutationKeepsFiles
    DEF Step
<1>3. CASE Crash
  <2>1. \A t \in Threads : pc'[t] = "idle"
    BY <1>3 DEF Crash
  <2>2. \A t \in staging : TargetOf(t) \in Targets
    BY AtItsDestination
    DEF FileInv, FilesystemTypeOK, InHandInv, StagedSteps, FilesystemSteps
  <2>3. FilesystemTypeOK'
    BY <1>3, <2>2 DEF Crash, FilesystemCrash, FileInv, FilesystemTypeOK
  <2> QED
    BY <1>3, <2>1, <2>3
    DEF Crash, FilesystemCrash, ForgetService, All, FileInv, InHandInv, ReceiptInv,
        WriterInv, OfKind, Writing, FilesystemSteps, StagedSteps
<1>4. CASE UNCHANGED vars
  <2>1. UNCHANGED <<control, filesystem, service>>
    BY <1>4 DEF vars
  <2>2. FilesystemTypeOK' /\ InHandInv'
    BY <2>1
    DEF control, filesystem, FileInv, FilesystemTypeOK, InHandInv, Exists, Destination,
        TargetOf, EpisodeOf, PackageOf
  <2>3. ReceiptInv'
    BY <2>1
    DEF control, filesystem, service, FileInv, ReceiptInv, OfKind, Has, Deleting, TargetOf,
        EpisodeOf, PackageOf
  <2>4. WriterInv'
    BY <2>1
    DEF control, filesystem, service, FileInv, WriterInv, Writing, Has, Deleting, TargetOf,
        EpisodeOf, PackageOf, KindOf, KeyOf
  <2> QED
    BY <2>2, <2>3, <2>4 DEF FileInv
<1> QED
  BY <1>1, <1>2, <1>3, <1>4 DEF Next

(* The invariants of the adapters, for all behaviours.                     *)
THEOREM AdaptersHold == Spec => [](KindInv /\ FeedInv /\ FileInv)
<1>1. Init => KindInv /\ FeedInv /\ FileInv
  BY DEF Init, CallsInit, RssInit, FilesystemInit, ServiceInit, All, KindInv, FeedInv,
         RssTypeOK, AloneInv, ServedInv, ItemsInv, Receipted, OfKind, Finishing, Guids, Feed,
         NoItems, InRss, FileInv, FilesystemTypeOK, InHandInv, ReceiptInv, WriterInv, Writing,
         FilesystemSteps
<1>2. KindInv /\ FeedInv /\ FileInv /\ KeyInv /\ [Next]_vars
        => KindInv' /\ FeedInv' /\ FileInv'
  BY KindInvStep, FeedInvStep, FileInvStep
<1> QED
  BY <1>1, <1>2, KeyInvHolds, PTL DEF Spec

(* While no RSS publication is in progress, a feed that was stored by a    *)
(* publication which met no other lists exactly the episodes with receipts.*)
THEOREM FeedListsReceiptsHolds == Spec => []FeedListsReceipts
<1>1. FeedInv /\ KeyInv => FeedListsReceipts
  <2> SUFFICES ASSUME FeedInv, KeyInv, NEW g \in Targets \ raced, Kind[g] = "rss",
                      \A k \in Keys : keyLock[k] # Nothing => TargetOf(keyLock[k]) # g
               PROVE  Guids(feeds[g]) = Receipted(g)
    BY DEF FeedListsReceipts, Receipted
  <2>1. ASSUME NEW t \in Threads, pc[t] \in FeedSteps \cup {"done"} PROVE TargetOf(t) # g
    <3>1. Inside(t)
      BY <2>1, StepsAreDistinct
      DEF KeyInv, CallInv, Inside, FeedSteps, PublishSteps, PutSteps, Operations
    <3> QED
      BY <3>1, InsideHasKey, PublicationAssumption
      DEF KeyInv, LockInv, PublicationAssumption
  <2>2. InRss(g) = {} /\ Finishing(g) = {}
    BY <2>1 DEF InRss, Finishing, FeedSteps
  <2> QED
    BY <2>2 DEF FeedInv, ServedInv, ItemsInv
<1> QED
  BY <1>1, KeyInvHolds, AdaptersHold, PTL

(* While the process lives, a filesystem receipt stands for the bytes of   *)
(* its package, unless a delete has overlapped or followed it.             *)
THEOREM PublishedBytesAreExactHolds == Spec => []PublishedBytesAreExact
<1>1. FileInv => PublishedBytesAreExact
  BY DEF FileInv, ReceiptInv, Has, PublishedBytesAreExact
<1> QED
  BY <1>1, AdaptersHold, PTL
-----------------------------------------------------------------------------
(***************************************************************************)
(* What the object store keeps, for any number of publications and other   *)
(* clients, contents, shards, calls and crashes: no put, failed put,       *)
(* rollback or pruning of a directory takes an object away.                *)
(***************************************************************************)

Linking == {"linkObject", "linkSidecar"}
Unlinking == {"unlinkObject", "unlinkSidecar"}
StoreSteps == {"read", "put", "remove", "prune"} \cup Linking \cup Unlinking

(* A client of the store has a file at hand.                               *)
LeftInv ==
  /\ left \in [Threads -> SUBSET Entries]
  /\ \A t \in Threads : pc[t] \in StoreSteps =>
       left[t] \subseteq Files /\ (pc[t] # "read" => left[t] # {})

(* A shard that is held open exists and is the one of the file at hand, and*)
(* so does the shard of every object.                                      *)
ShardInv ==
  /\ \A t \in Threads :
       /\ opened[t] # Nothing => opened[t] \in shards
       /\ pc[t] \in Linking \cup Unlinking =>
            opened[t] \in {Nothing, ShardOf[NextRef(t).bytes]}
  /\ \A d \in objects : ShardOf[d] \in shards

(* A put that no removal has crossed meets none of its object, and keeps   *)
(* what it has linked.                                                     *)
CrossInv ==
  \A t \in Threads : pc[t] \in Linking /\ t \notin crossed =>
    /\ \A u \in Threads : pc[u] \in Unlinking => NextRef(u).bytes # NextRef(t).bytes
    /\ pc[t] = "linkSidecar" => NextRef(t).bytes \in objects

(* Nobody is removing what is kept.                                        *)
KeptInv ==
  /\ kept \subseteq ObjectRef
  /\ \A ref \in kept :
       /\ Readable(ref)
       /\ \A u \in Threads : pc[u] \in Unlinking => NextRef(u).bytes # ref.bytes

ReadInv == StoreTypeOK /\ LeftInv /\ ShardInv /\ CrossInv /\ KeptInv
-----------------------------------------------------------------------------
(* The file at hand depends on the thread's own call and files only.       *)
LEMMA NextRefStays ==
  ASSUME NEW u \in Threads, call'[u] = call[u], left'[u] = left[u]
  PROVE  NextRef(u)' = NextRef(u)
BY DEF NextRef, NextFile, Ref, BytesOf

(* It is an object, if there is one.                                       *)
LEMMA NextRefIsTyped ==
  ASSUME NEW t \in Threads, call[t] \in Call, left[t] \subseteq Files, left[t] # {}
  PROVE  NextRef(t) \in ObjectRef /\ NextFile(t) \in left[t]
<1>1. NextFile(t) \in left[t]
  BY DEF NextFile
<1>2. call[t].package \in Package
  BY PublicationAssumption DEF PublicationAssumption, Call, PublicationCall, StoreCall
<1>3. BytesOf(t, NextFile(t)) \in Contents
  BY <1>1, <1>2 DEF BytesOf, Package
<1> QED
  BY <1>1, <1>3 DEF NextRef, Ref, ObjectRef

-----------------------------------------------------------------------------
(* The other threads stay where they are, and so do their files at hand.   *)
OthersStay(t) ==
  \A u \in Threads \ {t} :
    /\ pc'[u] = pc[u] /\ call'[u] = call[u]
    /\ pc[u] \in StoreSteps => left'[u] = left[u]

LEMMA OthersKeepTheirRef ==
  ASSUME NEW t \in Threads, OthersStay(t), NEW u \in Threads \ {t}, pc[u] \in StoreSteps
  PROVE  pc'[u] = pc[u] /\ NextRef(u)' = NextRef(u)
<1>1. call'[u] = call[u] /\ left'[u] = left[u]
  BY DEF OthersStay
<1> QED
  BY <1>1, NextRefStays DEF OthersStay

(* A thread whose own files go through the rules.                          *)
FilesAtHand(t) ==
  /\ left' \in [Threads -> SUBSET Entries]
  /\ pc'[t] \in StoreSteps =>
       left'[t] \subseteq Files /\ (pc'[t] # "read" => left'[t] # {})

LEMMA LeftInvStep ==
  ASSUME NEW t \in Threads, LeftInv, OthersStay(t), FilesAtHand(t)
  PROVE  LeftInv'
BY DEF LeftInv, OthersStay, FilesAtHand

(* A step that leaves the store alone, outside of puts and removals.       *)
LEMMA StoreStays ==
  ASSUME NEW t \in Threads, ReadInv, OthersStay(t), FilesAtHand(t),
         UNCHANGED <<store, crossed, kept>>, pc'[t] \notin Linking \cup Unlinking
  PROVE  ReadInv'
<1> USE DEF ReadInv, store
<1>1. StoreTypeOK' /\ LeftInv'
  BY LeftInvStep DEF StoreTypeOK
<1>2. \A u \in Threads : pc'[u] \in Linking \cup Unlinking =>
         pc'[u] = pc[u] /\ NextRef(u)' = NextRef(u)
  BY OthersKeepTheirRef DEF StoreSteps, OthersStay
<1>3. ShardInv'
  BY <1>2 DEF ShardInv
<1>4. CrossInv'
  BY <1>2 DEF CrossInv
<1>5. KeptInv'
  BY <1>2 DEF KeptInv, Readable
<1> QED
  BY <1>1, <1>3, <1>4, <1>5

-----------------------------------------------------------------------------
(* A thread in a put or a removal has an object at hand.                   *)
LEMMA AtHand ==
  ASSUME NEW t \in Threads, CallInv, LeftInv, pc[t] \in StoreSteps,
         pc[t] # "read" \/ left[t] # {}
  PROVE  /\ NextRef(t) \in ObjectRef
         /\ NextRef(t).name \in Files /\ NextRef(t).bytes \in Contents
         /\ ShardOf[NextRef(t).bytes] \in Shards
         /\ NextFile(t) \in left[t] /\ left[t] \subseteq Files
<1>1. call[t] \in Call /\ left[t] \subseteq Files /\ left[t] # {}
  BY DEF CallInv, LeftInv, StoreSteps, Linking, Unlinking
<1>2. NextRef(t) \in ObjectRef /\ NextFile(t) \in left[t]
  BY <1>1, NextRefIsTyped
<1> QED
  BY <1>1, <1>2, ObjectStoreAssumption DEF ObjectRef, ObjectStoreAssumption
(* A step at which no thread's files change.                               *)
LEMMA AllKeepTheirRef ==
  ASSUME UNCHANGED <<call, left>>
  PROVE  \A u \in Threads : NextRef(u)' = NextRef(u)
BY NextRefStays

LEMMA LeftInvStays ==
  ASSUME NEW t \in Threads, NEW step, LeftInv, CallInv, UNCHANGED <<call, left>>,
         pc[t] \in StoreSteps, pc[t] # "read" \/ left[t] # {} \/ step \notin StoreSteps,
         pc' = [pc EXCEPT ![t] = step]
  PROVE  LeftInv'
BY DEF LeftInv, CallInv

-----------------------------------------------------------------------------
(* A put, step by step.                                                    *)
LEMMA StartPutKeeps ==
  ASSUME NEW t \in Threads, ReadInv, CallInv, StartPut(t)
  PROVE  ReadInv'
<1> USE DEF ReadInv, StartPut, At, Goto, OpenShard
<1> DEFINE r == NextRef(t)
<1>1. /\ r \in ObjectRef /\ r.name \in Files /\ r.bytes \in Contents
      /\ ShardOf[r.bytes] \in Shards
  BY AtHand DEF StoreSteps
<1>2. \A u \in Threads : NextRef(u)' = NextRef(u)
  BY AllKeepTheirRef
<1>3. \A u \in Threads \ {t} : pc'[u] = pc[u] /\ pc'[t] = "linkObject"
  BY DEF CallInv
<1>4. LeftInv'
  BY LeftInvStays DEF StoreSteps
<1>5. StoreTypeOK'
  BY <1>1 DEF StoreTypeOK
<1>6. ShardInv'
  BY <1>1, <1>2, <1>3 DEF ShardInv, StoreTypeOK, CallInv
<1>7. CrossInv'
  <2> SUFFICES ASSUME NEW u \in Threads, pc'[u] \in Linking, u \notin crossed'
               PROVE  /\ \A v \in Threads : pc'[v] \in Unlinking =>
                           NextRef(v).bytes # NextRef(u).bytes
                      /\ pc'[u] = "linkSidecar" => NextRef(u).bytes \in objects
    BY <1>2 DEF CrossInv
  <2>1. \A v \in Threads : pc'[v] \in Unlinking => pc[v] \in Unlinking
    BY <1>3 DEF Unlinking
  <2>2. CASE u = t
    BY <1>3, <2>1, <2>2 DEF Removing, BusyWith, Unlinking
  <2>3. CASE u # t
    BY <1>3, <2>1, <2>3 DEF CrossInv
  <2> QED
    BY <2>2, <2>3
<1>8. KeptInv'
  BY <1>2, <1>3 DEF KeptInv, Readable, Unlinking
<1> QED
  BY <1>4, <1>5, <1>6, <1>7, <1>8

LEMMA LinkObjectKeeps ==
  ASSUME NEW t \in Threads, ReadInv, CallInv, LinkObject(t)
  PROVE  ReadInv'
<1> USE DEF ReadInv, LinkObject, At, Goto, EnsureObject, ShardIsGone
<1> DEFINE r == NextRef(t)
<1>1. /\ r \in ObjectRef /\ r.name \in Files /\ r.bytes \in Contents
      /\ ShardOf[r.bytes] \in Shards
  BY AtHand DEF StoreSteps, Linking
<1>2. \A u \in Threads : NextRef(u)' = NextRef(u)
  BY AllKeepTheirRef
<1>3. \A u \in Threads \ {t} : pc'[u] = pc[u] /\ pc'[t] = "linkSidecar"
  BY DEF CallInv
<1>4. LeftInv'
  BY LeftInvStays DEF StoreSteps, Linking
<1>5. StoreTypeOK'
  BY <1>1 DEF StoreTypeOK
<1>6. ShardInv'
  BY <1>1, <1>2, <1>3 DEF ShardInv, Linking
<1>7. CrossInv'
  BY <1>2, <1>3 DEF CrossInv, Linking, Unlinking
<1>8. KeptInv'
  BY <1>2, <1>3 DEF KeptInv, Readable, Unlinking
<1> QED
  BY <1>4, <1>5, <1>6, <1>7, <1>8

(* What is linked is kept, unless a removal has crossed the put.           *)
LEMMA LinkSidecarKeeps ==
  ASSUME NEW t \in Threads, ReadInv, CallInv, LinkSidecar(t)
  PROVE  ReadInv'
<1> USE DEF ReadInv, LinkSidecar, At, Goto, EnsureSidecar, ShardIsGone, SidecarConflicts,
            Close, Ticks
<1> DEFINE r == NextRef(t)
           step == IF call[t].op = "put" THEN "idle" ELSE "read"
<1>1. /\ r \in ObjectRef /\ r.name \in Files /\ r.bytes \in Contents
      /\ ShardOf[r.bytes] \in Shards /\ left[t] \subseteq Files
  BY AtHand DEF StoreSteps, Linking
<1>2. /\ step \in {"idle", "read"} /\ pc'[t] = step
      /\ \A u \in Threads \ {t} : pc'[u] = pc[u] /\ call'[u] = call[u] /\ left'[u] = left[u]
  BY DEF CallInv, LeftInv
<1>3. OthersStay(t)
  BY <1>2 DEF OthersStay
<1>4. \A u \in Threads : pc'[u] \in Linking \cup Unlinking =>
         u # t /\ pc'[u] = pc[u] /\ NextRef(u)' = NextRef(u)
  BY <1>2, <1>3, OthersKeepTheirRef DEF StoreSteps, Linking, Unlinking
<1>5. LeftInv'
  <2>1. left'[t] \subseteq Files /\ left' \in [Threads -> SUBSET Entries]
    BY <1>1 DEF LeftInv
  <2>2. FilesAtHand(t)
    BY <1>2, <2>1 DEF FilesAtHand, StoreSteps, Linking, Unlinking
  <2> QED
    BY <1>3, <2>2, LeftInvStep
<1>6. StoreTypeOK'
  BY <1>1 DEF StoreTypeOK
<1>7. ShardInv'
  BY <1>4 DEF ShardInv, StoreTypeOK
<1>8. CrossInv'
  BY <1>4 DEF CrossInv
<1>9. KeptInv'
  <2>1. \A ref \in kept : sidecars'[ref.bytes] = ref.name /\ ref.bytes \in objects'
    BY <1>1, ObjectStoreAssumption
    DEF KeptInv, Readable, StoreTypeOK, ObjectRef, ObjectStoreAssumption
  <2>2. t \notin crossed => sidecars'[r.bytes] = r.name /\ r.bytes \in objects'
    BY <1>1 DEF CrossInv, Linking, Readable, StoreTypeOK
  <2>3. t \notin crossed => \A u \in Threads : pc[u] \in Unlinking => NextRef(u).bytes # r.bytes
    BY DEF CrossInv, Linking
  <2>4. kept' = IF t \in crossed THEN kept ELSE kept \cup {r}
    OBVIOUS
  <2> HIDE DEF r, LinkSidecar
  <2>5. \A ref \in kept' : sidecars'[ref.bytes] = ref.name /\ ref.bytes \in objects'
    BY <2>1, <2>2, <2>4
  <2>6. kept' \subseteq ObjectRef
    BY <1>1, <2>4 DEF KeptInv
  <2>7. \A ref \in kept' : \A u \in Threads : pc'[u] \in Unlinking => NextRef(u)'.bytes # ref.bytes
    BY <1>4, <2>3, <2>4 DEF KeptInv
  <2> QED
    BY <2>5, <2>6, <2>7 DEF KeptInv, Readable
<1> QED
  BY <1>5, <1>6, <1>7, <1>8, <1>9

(* A put that fails has changed no object and no sidecar.                  *)
LEMMA AbortPutKeeps ==
  ASSUME NEW t \in Threads, ReadInv, CallInv, AbortPut(t)
  PROVE  ReadInv'
<1> USE DEF ReadInv, AbortPut, Goto, PutFails, Close
<1>1. \A u \in Threads : NextRef(u)' = NextRef(u)
  BY AllKeepTheirRef
<1>2. pc'[t] \in {"idle", "rollback"} /\ \A u \in Threads \ {t} : pc'[u] = pc[u]
  BY DEF CallInv
<1>3. \A u \in Threads : pc'[u] \in Linking \cup Unlinking => u # t /\ pc'[u] = pc[u]
  BY <1>2 DEF Linking, Unlinking
<1>4. LeftInv'
  BY <1>2 DEF LeftInv, StoreSteps, Linking, Unlinking
<1>5. StoreTypeOK'
  BY DEF StoreTypeOK
<1>6. ShardInv'
  BY <1>1, <1>3 DEF ShardInv, StoreTypeOK
<1>7. CrossInv'
  BY <1>1, <1>3 DEF CrossInv
<1>8. KeptInv'
  BY <1>1, <1>3 DEF KeptInv, Readable
<1> QED
  BY <1>4, <1>5, <1>6, <1>7, <1>8
-----------------------------------------------------------------------------
(* A removal, step by step.  When it begins, nothing of its object is kept *)
(* any longer, and every put of it is crossed.                             *)
LEMMA StartRemoveKeeps ==
  ASSUME NEW t \in Threads, ReadInv, CallInv, HoldShard(t, NextRef(t)), StartRemove(t),
         pc' = [pc EXCEPT ![t] = "unlinkObject"],
         kept' = {ref \in kept : ref.bytes # NextRef(t).bytes},
         crossed' = crossed \cup Putting(NextRef(t))
  PROVE  ReadInv'
<1> USE DEF ReadInv, HoldShard
<1> DEFINE r == NextRef(t)
<1>1. /\ r \in ObjectRef /\ r.bytes \in Contents /\ ShardOf[r.bytes] \in Shards
      /\ pc[t] = "remove" /\ UNCHANGED <<call, left>>
  BY AtHand DEF StoreSteps, StartRemove, At
<1>2. \A u \in Threads : NextRef(u)' = NextRef(u)
  BY <1>1, AllKeepTheirRef
<1>3. pc'[t] = "unlinkObject" /\ \A u \in Threads \ {t} : pc'[u] = pc[u]
  BY DEF CallInv
<1>4. LeftInv'
  BY <1>1, LeftInvStays DEF StoreSteps
<1>5. StoreTypeOK'
  BY <1>1 DEF StoreTypeOK
<1>6. ShardInv'
  BY <1>1, <1>2, <1>3 DEF ShardInv, StoreTypeOK, Readable
<1>7. CrossInv'
  <2> SUFFICES ASSUME NEW u \in Threads, pc'[u] \in Linking, u \notin crossed'
               PROVE  /\ \A v \in Threads : pc'[v] \in Unlinking =>
                           NextRef(v).bytes # NextRef(u).bytes
                      /\ pc'[u] = "linkSidecar" => NextRef(u).bytes \in objects
    BY <1>2 DEF CrossInv
  <2>1. u # t /\ pc[u] \in Linking /\ u \notin crossed
    BY <1>3 DEF Linking
  <2>2. NextRef(u).bytes # r.bytes
    BY <2>1 DEF Putting, BusyWith, Linking
  <2> QED
    BY <1>3, <2>1, <2>2 DEF CrossInv
<1>8. KeptInv'
  BY <1>2, <1>3 DEF KeptInv, Readable
<1> QED
  BY <1>4, <1>5, <1>6, <1>7, <1>8

LEMMA UnlinkObjectKeeps ==
  ASSUME NEW t \in Threads, ReadInv, CallInv, UnlinkObject(t)
  PROVE  ReadInv'
<1> USE DEF ReadInv, UnlinkObject, At, Goto, RemoveObject
<1>1. NextRef(t).bytes \in Contents
  BY AtHand DEF StoreSteps, Unlinking
<1>2. \A u \in Threads : NextRef(u)' = NextRef(u)
  BY AllKeepTheirRef
<1>3. \A u \in Threads \ {t} : pc'[u] = pc[u] /\ pc'[t] = "unlinkSidecar"
  BY DEF CallInv
<1>4. LeftInv'
  BY LeftInvStays DEF StoreSteps, Unlinking
<1>5. StoreTypeOK'
  BY <1>1 DEF StoreTypeOK
<1>6. ShardInv'
  BY <1>2, <1>3 DEF ShardInv, Unlinking
<1>7. CrossInv'
  BY <1>2, <1>3 DEF CrossInv, Linking, Unlinking
<1>8. KeptInv'
  BY <1>2, <1>3 DEF KeptInv, Readable, Unlinking
<1> QED
  BY <1>4, <1>5, <1>6, <1>7, <1>8

LEMMA UnlinkSidecarKeeps ==
  ASSUME NEW t \in Threads, ReadInv, CallInv, UnlinkSidecar(t)
  PROVE  ReadInv'
<1> USE DEF ReadInv, UnlinkSidecar, At, Goto, RemoveSidecar, Close
<1>1. NextRef(t).bytes \in Contents
  BY AtHand DEF StoreSteps, Unlinking
<1>2. \A u \in Threads : NextRef(u)' = NextRef(u)
  BY AllKeepTheirRef
<1>3. \A u \in Threads \ {t} : pc'[u] = pc[u] /\ pc'[t] = "prune"
  BY DEF CallInv
<1>4. LeftInv'
  BY LeftInvStays DEF StoreSteps, Unlinking
<1>5. StoreTypeOK'
  BY <1>1 DEF StoreTypeOK
<1>6. ShardInv'
  BY <1>2, <1>3 DEF ShardInv, StoreTypeOK, Linking, Unlinking
<1>7. CrossInv'
  BY <1>2, <1>3 DEF CrossInv, Linking, Unlinking
<1>8. KeptInv'
  BY <1>1, <1>2, <1>3 DEF KeptInv, Readable, Unlinking, StoreTypeOK
<1> QED
  BY <1>4, <1>5, <1>6, <1>7, <1>8

(* A directory is removed only when no object is in it, and whoever held it*)
(* open finds it gone.                                                     *)
LEMMA PruneObjectKeeps ==
  ASSUME NEW t \in Threads, ReadInv, CallInv, PruneObject(t)
  PROVE  ReadInv'
<1> USE DEF ReadInv, PruneObject, At, Goto
<1> DEFINE s == ShardOf[NextRef(t).bytes]
<1>1. \A u \in Threads : NextRef(u)' = NextRef(u)
  BY AllKeepTheirRef
<1>2. \A u \in Threads \ {t} : pc'[u] = pc[u] /\ pc'[t] = "idle"
  BY DEF CallInv
<1>3. \A u \in Threads : pc'[u] \in Linking \cup Unlinking => u # t /\ pc'[u] = pc[u]
  BY <1>2 DEF Linking, Unlinking, CallInv
<1>4. LeftInv'
  BY LeftInvStays DEF StoreSteps, Linking, Unlinking
<1>5. /\ UNCHANGED <<objects, sidecars>>
      /\ \/ UNCHANGED <<shards, opened>>
         \/ /\ \A d \in objects : ShardOf[d] # s
            /\ shards' = shards \ {s}
            /\ opened' = [u \in Threads |-> IF opened[u] = s THEN Nothing ELSE opened[u]]
  BY DEF PruneShard, IsEmpty, StoreTypeOK
<1> HIDE DEF s
<1>6. StoreTypeOK'
  BY <1>5 DEF StoreTypeOK
<1>7. ShardInv'
  BY <1>1, <1>3, <1>5 DEF ShardInv, StoreTypeOK
<1>8. CrossInv'
  BY <1>1, <1>3, <1>5 DEF CrossInv
<1>9. KeptInv'
  BY <1>1, <1>3, <1>5 DEF KeptInv, Readable
<1> QED
  BY <1>4, <1>6, <1>7, <1>8, <1>9

LEMMA AbortRemoveKeeps ==
  ASSUME NEW t \in Threads, ReadInv, CallInv, AbortRemove(t)
  PROVE  ReadInv'
<1> USE DEF ReadInv, AbortRemove, At, Goto, Close
<1>1. \A u \in Threads : NextRef(u)' = NextRef(u)
  BY AllKeepTheirRef
<1>2. \A u \in Threads \ {t} : pc'[u] = pc[u] /\ pc'[t] = "idle"
  BY DEF CallInv
<1>3. \A u \in Threads : pc'[u] \in Linking \cup Unlinking => u # t /\ pc'[u] = pc[u]
  BY <1>2 DEF Linking, Unlinking, CallInv
<1>4. LeftInv'
  BY LeftInvStays DEF StoreSteps, Linking, Unlinking
<1>5. StoreTypeOK' /\ ShardInv'
  BY <1>1, <1>3 DEF StoreTypeOK, ShardInv
<1>6. CrossInv' /\ KeptInv'
  BY <1>1, <1>3 DEF CrossInv, KeptInv, Readable
<1> QED
  BY <1>4, <1>5, <1>6

-----------------------------------------------------------------------------
(* A publication keeps what it finds, if nobody is removing it.            *)
LEMMA ReadObjectKeeps ==
  ASSUME NEW t \in Threads, ReadInv, CallInv, ReadObject(t)
  PROVE  ReadInv'
<1> USE DEF ReadInv, ReadObject, At, Goto, Ticks
<1> DEFINE r == NextRef(t)
<1>1. r \in ObjectRef /\ left[t] \subseteq Files /\ left[t] # {}
  BY AtHand DEF StoreSteps
<1>2. /\ \A u \in Threads \ {t} : pc'[u] = pc[u] /\ call'[u] = call[u] /\ left'[u] = left[u]
      /\ pc'[t] \in {"read", "put", "rollback"}
      /\ left'[t] \subseteq Files /\ (pc'[t] # "read" => left'[t] # {})
      /\ left' \in [Threads -> SUBSET Entries]
  BY <1>1 DEF CallInv, LeftInv
<1>3. OthersStay(t) /\ FilesAtHand(t)
  BY <1>2 DEF OthersStay, FilesAtHand
<1>4. LeftInv'
  BY <1>3, LeftInvStep
<1>5. \A u \in Threads : pc'[u] \in Linking \cup Unlinking =>
         u # t /\ pc'[u] = pc[u] /\ NextRef(u)' = NextRef(u)
  BY <1>2, <1>3, OthersKeepTheirRef DEF StoreSteps, Linking, Unlinking
<1>6. StoreTypeOK' /\ ShardInv' /\ CrossInv'
  BY <1>5 DEF store, StoreTypeOK, ShardInv, CrossInv
<1>7. KeptInv'
  <2>1. \/ kept' = kept
        \/ Readable(r) /\ Removing(r) = {} /\ kept' = kept \cup {r}
    OBVIOUS
  <2>2. Removing(r) = {} => \A u \in Threads : pc[u] \in Unlinking => NextRef(u).bytes # r.bytes
    BY DEF Removing, BusyWith, Unlinking
  <2>3. UNCHANGED <<objects, sidecars>>
    BY DEF store
  <2> HIDE DEF r, ReadObject
  <2> QED
    BY <1>1, <1>5, <2>1, <2>2, <2>3 DEF KeptInv, Readable
<1> QED
  BY <1>4, <1>6, <1>7
(* Every step of the S3 adapter and of the store's other clients.          *)
LEMMA S3StepKeeps ==
  ASSUME NEW t \in Threads, ReadInv, CallInv, S3Step(t)
  PROVE  ReadInv'
<1>1. CASE EnterS3(t) \/ CompleteS3(t) \/ FailS3(t) \/ RollBackS3(t)
  <2> USE DEF EnterS3, CompleteS3, FailS3, RollBackS3, At, Goto, GoThrough
  <2>1. /\ UNCHANGED <<store, crossed, kept, call>>
        /\ pc'[t] \in {"read", "done", "failed", "rollback"}
        /\ pc'[t] = "read" => left'[t] = Files
        /\ \A u \in Threads \ {t} : pc'[u] = pc[u] /\ left'[u] = left[u]
        /\ left' \in [Threads -> SUBSET Entries]
    BY <1>1 DEF CallInv, ReadInv, LeftInv, s3, Entries
  <2>2. OthersStay(t) /\ FilesAtHand(t) /\ pc'[t] \notin Linking \cup Unlinking
    BY <2>1 DEF OthersStay, FilesAtHand, StoreSteps, Linking, Unlinking
  <2> QED
    BY <2>1, <2>2, StoreStays
<1>2. CASE StartRemove(t)
  <2>1. CASE pc' = [pc EXCEPT ![t] = "idle"]
    <3>1. UNCHANGED <<store, crossed, kept, call, left>>
      BY <1>2, <2>1 DEF StartRemove, Goto, CallInv
    <3>2. pc'[t] = "idle" /\ \A u \in Threads \ {t} : pc'[u] = pc[u]
      BY <2>1 DEF CallInv
    <3>3. OthersStay(t) /\ FilesAtHand(t) /\ pc'[t] \notin Linking \cup Unlinking
      BY <3>1, <3>2 DEF OthersStay, FilesAtHand, StoreSteps, Linking, Unlinking, ReadInv, LeftInv
    <3> QED
      BY <3>1, <3>3, StoreStays
  <2>2. CASE pc' # [pc EXCEPT ![t] = "idle"]
    <3>1. /\ HoldShard(t, NextRef(t)) /\ pc' = [pc EXCEPT ![t] = "unlinkObject"]
          /\ kept' = {ref \in kept : ref.bytes # NextRef(t).bytes}
          /\ crossed' = crossed \cup Putting(NextRef(t))
      BY <1>2, <2>2 DEF StartRemove, Goto
    <3> QED
      BY <1>2, <3>1, StartRemoveKeeps
  <2> QED
    BY <2>1, <2>2
<1> QED
  BY <1>1, <1>2, StartPutKeeps, LinkObjectKeeps, LinkSidecarKeeps, AbortPutKeeps,
     UnlinkObjectKeeps, UnlinkSidecarKeeps, PruneObjectKeeps, AbortRemoveKeeps,
     ReadObjectKeeps
  DEF S3Step

-----------------------------------------------------------------------------
(* Away from the store: a step that neither begins nor continues a put, a  *)
(* removal or the reading of a package's objects.                          *)
Away(t) ==
  /\ call' = call
  /\ left' \in [Threads -> SUBSET Entries]
  /\ pc'[t] \notin StoreSteps
  /\ \A u \in Threads \ {t} : pc'[u] = pc[u] /\ (pc[u] \in StoreSteps => left'[u] = left[u])

LEMMA AwayKeeps ==
  ASSUME NEW t \in Threads, ReadInv, Away(t), UNCHANGED s3
  PROVE  ReadInv'
<1>1. OthersStay(t) /\ FilesAtHand(t)
  BY DEF Away, OthersStay, FilesAtHand
<1>2. pc'[t] \notin Linking \cup Unlinking
  BY DEF Away, StoreSteps
<1> QED
  BY <1>1, <1>2, StoreStays DEF s3

(* The filesystem adapter.                                                 *)
LEMMA FilesystemIsAway ==
  ASSUME NEW t \in Threads, CallInv, LeftInv, FilesystemStep(t)
  PROVE  Away(t)
<1> USE DEF CallInv, LeftInv, Away, At, Goto, GoThrough, Ticks, Entries, StoreSteps, Linking,
            Unlinking
<1>1. CASE MakeParent(t)
  BY <1>1 DEF MakeParent
<1>2. CASE MakeStaging(t)
  BY <1>2 DEF MakeStaging
<1>3. CASE WriteFiles(t)
  BY <1>3 DEF WriteFiles
<1>4. CASE LookForDestination(t)
  BY <1>4 DEF LookForDestination
<1>5. CASE CompareFile(t)
  BY <1>5 DEF CompareFile
<1>6. CASE DropStaging(t)
  BY <1>6 DEF DropStaging
<1>7. CASE Rename(t)
  BY <1>7 DEF Rename, DetachDeleters, Deleters
<1>8. CASE RenameFails(t)
  BY <1>8 DEF RenameFails
<1>9. CASE CleanUp(t)
  BY <1>9 DEF CleanUp
<1>10. CASE LookForUpdate(t)
  BY <1>10 DEF LookForUpdate
<1>11. CASE WriteUpdate(t)
  BY <1>11 DEF WriteUpdate
<1>12. CASE ListTree(t)
  BY <1>12 DEF ListTree, FilesIn
<1>13. CASE UnlinkFile(t)
  BY <1>13 DEF UnlinkFile
<1>14. CASE RemoveTree(t)
  BY <1>14 DEF RemoveTree, DetachDeleters, Deleters
<1> QED
  BY <1>1, <1>2, <1>3, <1>4, <1>5, <1>6, <1>7, <1>8, <1>9, <1>10, <1>11, <1>12, <1>13,
     <1>14
  DEF FilesystemStep

(* The RSS and Transistor adapters, and the service itself.                *)
LEMMA ServiceIsAway ==
  ASSUME NEW t \in Threads, CallInv, LeftInv,
         \/ RssStep(t) \/ PublishTransistor(t) \/ MutateTransistor(t)
         \/ AnswerFromReceipt(t) \/ StartPublication(t) \/ RecordReceipt(t)
         \/ FailPublication(t) \/ AnswerFromMutation(t) \/ StartScan(t)
         \/ RefuseMutation(t) \/ DispatchMutation(t) \/ RecordMutation(t)
         \/ FailMutation(t)
  PROVE  Away(t)
<1> USE DEF CallInv, LeftInv, Away, At, Goto, StoreSteps, Linking, Unlinking
<1>1. CASE RssStep(t)
  BY <1>1 DEF RssStep, CheckItem, SetItem, BuildFeed, StoreFeed
<1>2. CASE PublishTransistor(t) \/ MutateTransistor(t)
  BY <1>2 DEF PublishTransistor, MutateTransistor
<1>3. CASE AnswerFromReceipt(t) \/ AnswerFromMutation(t) \/ RecordReceipt(t) \/ FailPublication(t)
  BY <1>3 DEF AnswerFromReceipt, AnswerFromMutation, RecordReceipt, FailPublication
<1>4. CASE StartPublication(t)
  <2>1. KindOf(t) \in Kinds
    BY <1>4, CallsHaveParts, PublicationAssumption
    DEF StartPublication, OpOf, KindOf, TargetOf, Operations, PublicationAssumption
  <2>2. FirstStep[KindOf(t)] \in {"mkdir", "s3", "rss", "transistor"}
    BY <2>1 DEF FirstStep, Kinds
  <2> QED
    BY <1>4, <2>2 DEF StartPublication
<1>5. CASE StartScan(t) \/ RefuseMutation(t) \/ RecordMutation(t) \/ FailMutation(t)
  BY <1>5 DEF StartScan, RefuseMutation, RecordMutation, FailMutation
<1>6. CASE DispatchMutation(t)
  <2>1. FirstMutationStep(t) \in {"update", "rmtree", "transistorMutation", "mutationFailed"}
    BY DEF FirstMutationStep
  <2> QED
    BY <1>6, <2>1 DEF DispatchMutation
<1> QED
  BY <1>1, <1>2, <1>3, <1>4, <1>5, <1>6

(* A new call, which may be a put or a removal of one file.                *)
LEMMA StartCallKeeps ==
  ASSUME NEW t \in Threads, ReadInv, CallInv, StartCall(t)
  PROVE  ReadInv'
<1>1. PICK c \in menu :
        /\ call' = [call EXCEPT ![t] = c]
        /\ pc' = [pc EXCEPT ![t] = IF c.op \in Operations THEN "open" ELSE c.op]
        /\ left' = [left EXCEPT ![t] = IF c.op \in Operations THEN {} ELSE {c.file}]
  BY DEF StartCall, Goto, GoThrough
<1>2. /\ c \in Call
      /\ c.op \in Operations \/ (c.op \in {"put", "remove"} /\ c.file \in Files)
  BY <1>1, PublishingAssumption
  DEF CallInv, PublishingAssumption, Call, PublicationCall, StoreCall
<1>3. /\ pc'[t] \in {"open", "put", "remove"} /\ (pc'[t] # "open" => left'[t] = {c.file})
      /\ left' \in [Threads -> SUBSET Entries] /\ (pc'[t] # "open" => c.file \in Files)
      /\ \A u \in Threads \ {t} : pc'[u] = pc[u] /\ call'[u] = call[u] /\ left'[u] = left[u]
  BY <1>1, <1>2 DEF CallInv, ReadInv, LeftInv, Entries
<1>4. OthersStay(t) /\ FilesAtHand(t) /\ pc'[t] \notin Linking \cup Unlinking
  BY <1>3 DEF OthersStay, FilesAtHand, StoreSteps, Linking, Unlinking
<1> QED
  BY <1>4, StoreStays DEF StartCall, s3

(* A crash keeps all that is linked.                                       *)
LEMMA CrashKeeps ==
  ASSUME ReadInv, Crash
  PROVE  ReadInv'
<1> USE DEF ReadInv, Crash, S3Crash, StoreCrash
<1>1. \A u \in Threads : pc'[u] \notin StoreSteps /\ opened'[u] = Nothing
  BY DEF StoreSteps, Linking, Unlinking
<1>2. LeftInv'
  BY <1>1 DEF LeftInv
<1>3. StoreTypeOK' /\ ShardInv'
  BY <1>1 DEF StoreTypeOK, ShardInv, StoreSteps
<1>4. CrossInv' /\ KeptInv'
  BY <1>1 DEF CrossInv, KeptInv, Readable, StoreSteps
<1> QED
  BY <1>2, <1>3, <1>4

-----------------------------------------------------------------------------
THEOREM ReadInvHolds == Spec => []ReadInv
<1>1. Init => ReadInv
  BY ObjectStoreAssumption
  DEF Init, CallsInit, S3Init, StoreInit, ReadInv, StoreTypeOK, LeftInv, ShardInv, CrossInv,
      KeptInv, StoreSteps, Linking, Unlinking
<1>2. ReadInv /\ KeyInv /\ [Next]_vars => ReadInv'
  <2> SUFFICES ASSUME ReadInv, CallInv, [Next]_vars PROVE ReadInv'
    BY DEF KeyInv
  <2>1. ASSUME NEW t \in Threads, Step(t) PROVE ReadInv'
    <3>1. CASE S3Step(t)
      BY <3>1, S3StepKeeps
    <3>2. CASE FilesystemStep(t) /\ UNCHANGED s3
      BY <3>2, FilesystemIsAway, AwayKeeps DEF ReadInv
    <3>3. CASE RssStep(t) /\ UNCHANGED s3
      BY <3>3, ServiceIsAway, AwayKeeps DEF ReadInv
    <3>4. CASE \/ AnswerFromReceipt(t) \/ StartPublication(t) \/ RecordReceipt(t)
               \/ FailPublication(t) \/ AnswerFromMutation(t) \/ StartScan(t)
               \/ RefuseMutation(t) \/ DispatchMutation(t) \/ RecordMutation(t)
               \/ FailMutation(t) \/ PublishTransistor(t) \/ MutateTransistor(t)
      <4>1. UNCHANGED s3
        BY <3>4
        DEF AnswerFromReceipt, StartPublication, RecordReceipt, FailPublication,
            AnswerFromMutation, StartScan, RefuseMutation, DispatchMutation,
            RecordMutation, FailMutation, PublishTransistor, MutateTransistor
      <4> QED
        BY <3>4, <4>1, ServiceIsAway, AwayKeeps DEF ReadInv
    <3> QED
      BY <2>1, <3>1, <3>2, <3>3, <3>4 DEF Step
  <2>2. CASE UNCHANGED vars
    <3>1. UNCHANGED <<pc, call, left, store, crossed, kept>>
      BY <2>2 DEF vars, control, s3
    <3>2. \A u \in Threads : NextRef(u)' = NextRef(u)
      BY <3>1, AllKeepTheirRef
    <3>3. StoreTypeOK' /\ LeftInv'
      BY <3>1 DEF store, ReadInv, StoreTypeOK, LeftInv
    <3>4. ShardInv' /\ CrossInv'
      BY <3>1, <3>2 DEF store, ReadInv, ShardInv, CrossInv
    <3>5. KeptInv'
      BY <3>1, <3>2 DEF store, ReadInv, KeptInv, Readable
    <3> QED
      BY <3>3, <3>4, <3>5 DEF ReadInv
  <2> QED
    BY <2>1, <2>2, StartCallKeeps, CrashKeeps DEF Next
<1> QED
  BY <1>1, <1>2, KeyInvHolds, PTL DEF Spec

(* An object that a put or a publication has left in the store can be read *)
(* back until somebody begins to remove it.                                *)
THEOREM ObjectsStayReadableHolds == Spec => []ObjectsStayReadable
<1>1. ReadInv => ObjectsStayReadable
  BY DEF ReadInv, KeptInv, ShardInv, Readable, ObjectsStayReadable
<1> QED
  BY <1>1, ReadInvHolds, PTL

-----------------------------------------------------------------------------
(* What is left of the types.                                              *)
RestTypeOK ==
  /\ s3Lock \in Threads \cup {Nothing}
  /\ finals \in [Targets -> (SUBSET ObjectRef) \cup {Nothing}]
  /\ crossed \subseteq Threads
  /\ attempts \in [Keys -> {"none", "pending", "failed", "completed"}]
  /\ mutations \in [Mutations -> [Keys -> Keys \cup {Nothing}]]

LEMMA RestTypeStep ==
  ASSUME RestTypeOK, KeyInv, [Next]_vars
  PROVE  RestTypeOK'
<1> USE DEF RestTypeOK
<1>1. ASSUME NEW t \in Threads, S3Step(t), UNCHANGED service PROVE RestTypeOK'
  <2> USE DEF service
  <2>1. CASE CompleteS3(t)
    <3>1. call[t] \in Call /\ OpOf(t) \in Operations
      BY <2>1, StepsAreDistinct
      DEF CompleteS3, At, KeyInv, CallInv, PublishSteps, PutSteps, Operations
    <3>2. \A n \in Files : BytesOf(t, n) \in Contents
      BY <3>1, CallsHaveParts, PackagesAreTyped DEF OpOf, BytesOf
    <3> DEFINE all == {Ref(t, n) : n \in Files}
    <3>3. \A n \in Files : Ref(t, n) \in ObjectRef
      BY <3>2 DEF Ref, ObjectRef
    <3>4. all \in SUBSET ObjectRef
      BY <3>3
    <3>5. finals' = [finals EXCEPT ![TargetOf(t)] = all]
      BY <2>1 DEF CompleteS3
    <3> HIDE DEF all
    <3> QED
      BY <1>1, <2>1, <3>4, <3>5 DEF CompleteS3
  <2>2. CASE EnterS3(t) \/ RollBackS3(t)
    BY <1>1, <2>2 DEF EnterS3, RollBackS3
  <2>3. CASE \/ ReadObject(t) \/ FailS3(t) \/ StartPut(t) \/ LinkObject(t) \/ LinkSidecar(t)
             \/ AbortPut(t) \/ StartRemove(t) \/ UnlinkObject(t) \/ UnlinkSidecar(t)
             \/ PruneObject(t) \/ AbortRemove(t)
    BY <1>1, <2>3
    DEF ReadObject, FailS3, StartPut, LinkObject, LinkSidecar, AbortPut, StartRemove,
        UnlinkObject, UnlinkSidecar, PruneObject, AbortRemove, s3, Putting, BusyWith
  <2> QED
    BY <1>1, <2>1, <2>2, <2>3 DEF S3Step
<1>2. ASSUME NEW t \in Threads, RecordMutation(t) PROVE RestTypeOK'
  <2>1. call[t] \in Call /\ pc[t] \in StepsOf(OpOf(t)) /\ pc[t] \in MutationSteps
    BY <1>2 DEF RecordMutation, At, KeyInv, CallInv, MutationSteps
  <2>2. OpOf(t) \in Mutations /\ call[t].of \in Keys
    BY <2>1, StepsAreDistinct, CallsHaveParts DEF OpOf, Operations, Mutations
  <2> QED
    BY <1>2, <2>2 DEF RecordMutation, s3
<1>3. ASSUME NEW t \in Threads,
             \/ StartPublication(t) \/ RecordReceipt(t) \/ FailPublication(t)
      PROVE  RestTypeOK'
  BY <1>3 DEF StartPublication, RecordReceipt, FailPublication, s3
<1>4. CASE UNCHANGED <<s3Lock, finals, crossed, attempts, mutations>>
  BY <1>4
<1>5. CASE Crash
  BY <1>5 DEF Crash, S3Crash, ForgetService, All, AllMutations
<1> QED
  BY <1>1, <1>2, <1>3, <1>4, <1>5
  DEF Next, Step, StartCall, AnswerFromReceipt, AnswerFromMutation, StartScan, RefuseMutation,
      DispatchMutation, FailMutation, PublishTransistor, MutateTransistor, s3, service, vars

(* Type correctness of the whole service and its adapters.                 *)
THEOREM TypeCorrect == Spec => []PublishingTypeOK
<1>1. Init => RestTypeOK
  BY DEF Init, S3Init, ServiceInit, All, AllMutations, RestTypeOK
<1>2. RestTypeOK /\ KeyInv /\ [Next]_vars => RestTypeOK'
  BY RestTypeStep
<1>3. RestTypeOK /\ KeyInv /\ ReadInv /\ FeedInv /\ FileInv => PublishingTypeOK
  BY DEF RestTypeOK, KeyInv, ServiceInv, ReadInv, KeptInv, FeedInv, FileInv, S3TypeOK,
         PublishingTypeOK
<1> QED
  BY <1>1, <1>2, <1>3, KeyInvHolds, ReadInvHolds, AdaptersHold, PTL DEF Spec
=============================================================================
