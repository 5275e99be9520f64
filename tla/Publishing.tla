----------------------------- MODULE Publishing -----------------------------
(***************************************************************************)
(* PublishingService of publishing.py over its four adapters.              *)
(*                                                                         *)
(* Every publication and mutation runs under the lock of its idempotency   *)
(* key; calls with different keys, and the adapters below, overlap.  All   *)
(* of the service is in memory: a crash forgets receipts and attempts and  *)
(* keeps what is on disk.  A call with the wrong authorization, or with a  *)
(* receipt of an earlier life of the process, changes nothing and is left  *)
(* out.                                                                    *)
(***************************************************************************)
EXTENDS FilesystemPublication, S3Publication, RssPublication, FiniteSets

CONSTANTS
  Fixture,    \* what RecordedTransistorAdapter has recorded
  Menus,      \* sets of calls; the calls of a behaviour come from one of them
  MaxCalls,   \* bound on calls
  MaxCrashes  \* bound on crashes

Mutations == {"update", "delete"}

Receipt == [package : Packages, target : Targets,
            status : {"published", "resumed"}]

ASSUME PublishingAssumption ==
  /\ Fixture \in [id : BOOLEAN, operation : Mutations]
  /\ \A menu \in Menus : menu \subseteq Call
  /\ MaxCalls \in Nat /\ MaxCrashes \in Nat
  /\ Nothing \notin Receipt

VARIABLES
  menu, calls, crashes,
  keyLock,    \* keyLock[k]: the thread that holds the lock of key k
  attempts,   \* attempts[k]: the state of the publication attempt of k
  receipts,   \* receipts[k]: the publication receipt of k
  tries,      \* tries[o][k]: the state of the mutation attempt of o and k
  mutations,  \* mutations[o][k]: the publication that it has mutated
  scanned,    \* scanned[t]: number of mutation attempts when t began to scan
  successes,  \* history: publications under k that the adapter has finished
  dispatches, \* history: mutations under k that went to the adapter
  withdrawn   \* history: keys of publications that a delete has overlapped

bounds == <<menu, calls, crashes>>
service == <<keyLock, attempts, receipts, tries, mutations, scanned,
             successes, dispatches, withdrawn>>
vars == <<control, filesystem, s3, rss, bounds, service>>

PublishingTypeOK ==
  /\ FilesystemTypeOK /\ S3TypeOK /\ RssTypeOK
  /\ keyLock \in [Keys -> Threads \cup {Nothing}]
  /\ attempts \in [Keys -> {"none", "pending", "failed", "completed"}]
  /\ receipts \in [Keys -> Receipt \cup {Nothing}]
  /\ tries \in [Mutations -> [Keys -> {"none", "in-flight", "unknown", "completed"}]]
  /\ mutations \in [Mutations -> [Keys -> Keys \cup {Nothing}]]

All(value) == [k \in Keys |-> value]
AllMutations(value) == [o \in Mutations |-> All(value)]
NoScans == [t \in Threads |-> 0]

ServiceInit ==
  /\ keyLock = All(Nothing) /\ attempts = All("none")
  /\ receipts = All(Nothing) /\ tries = AllMutations("none")
  /\ mutations = AllMutations(Nothing) /\ scanned = NoScans
  /\ successes = All(0) /\ dispatches = All(0)
  /\ withdrawn = {}

ForgetService ==
  /\ keyLock' = All(Nothing) /\ attempts' = All("none")
  /\ receipts' = All(Nothing) /\ tries' = AllMutations("none")
  /\ mutations' = AllMutations(Nothing) /\ scanned' = NoScans
  /\ successes' = All(0) /\ dispatches' = All(0)
  /\ withdrawn' = {}

Init ==
  /\ CallsInit /\ FilesystemInit /\ S3Init /\ RssInit /\ ServiceInit
  /\ menu \in Menus /\ calls = 0 /\ crashes = 0
-----------------------------------------------------------------------------
KeyOf(t) == call[t].key
OpOf(t) == call[t].op
KindOf(t) == Kind[TargetOf(t)]
LockIsFree(t) == keyLock[KeyOf(t)] = Nothing
TakeLock(t) == keyLock' = [keyLock EXCEPT ![KeyOf(t)] = t]
ReleaseLock(t) == keyLock' = [keyLock EXCEPT ![KeyOf(t)] = Nothing]

HasReceipt(c) == /\ receipts[c.of] # Nothing
                 /\ receipts[c.of].package = c.package
                 /\ receipts[c.of].target = c.target

StartCall(t) ==
  /\ At(t, "idle") /\ calls < MaxCalls
  /\ \E c \in menu :
       /\ c.op \in Mutations => HasReceipt(c)
       /\ call' = [call EXCEPT ![t] = c]
       /\ IF c.op \in Operations
            THEN Goto(t, "open") /\ GoThrough(t, {})
            ELSE Goto(t, c.op) /\ GoThrough(t, {c.file})
  /\ calls' = calls + 1
  /\ UNCHANGED <<menu, crashes, filesystem, s3, rss, service>>

(* History: a delete withdraws every publication it may have overlapped.   *)
SameDestination(t, u) == TargetOf(t) = TargetOf(u) /\ EpisodeOf(t) = EpisodeOf(u)
IsAt(k, t) == /\ receipts[k] # Nothing
              /\ receipts[k].target = TargetOf(t)
              /\ receipts[k].package.episode = EpisodeOf(t)
IsOnItsWayTo(k, t) ==
  \E u \in Threads : /\ keyLock[k] = u
                     /\ OpOf(u) = "publish" /\ SameDestination(t, u)
Withdraw(t) ==
  withdrawn' = IF OpOf(t) = "delete"
                 THEN withdrawn \cup {k \in Keys : IsAt(k, t) \/ IsOnItsWayTo(k, t)}
                 ELSE withdrawn

(* A key with a receipt: the same publication is answered with it, another *)
(* one is refused.  Neither changes anything.                              *)
AnswerFromReceipt(t) ==
  /\ At(t, "open") /\ OpOf(t) = "publish" /\ LockIsFree(t)
  /\ receipts[KeyOf(t)] # Nothing
  /\ Goto(t, "idle")
  /\ UNCHANGED <<call, left, filesystem, s3, rss, bounds, service>>

FirstStep == [k \in Kinds |-> CASE k = "filesystem" -> "mkdir"
                                [] k = "s3" -> "s3"
                                [] k = "rss" -> "rss"
                                [] k = "transistor" -> "transistor"]

(* A key without one: the attempt is recorded, and unless an artifact of   *)
(* the package cannot be read or has the wrong checksum the adapter is     *)
(* called.  The lock is held on to.                                        *)
StartPublication(t) ==
  /\ At(t, "open") /\ OpOf(t) = "publish" /\ LockIsFree(t)
  /\ receipts[KeyOf(t)] = Nothing
  /\ attempts' = [attempts EXCEPT ![KeyOf(t)] = IF @ = "none" THEN "pending" ELSE @]
  /\ \/ TakeLock(t) /\ Goto(t, FirstStep[KindOf(t)])
     \/ Goto(t, "idle") /\ UNCHANGED keyLock
  /\ withdrawn' = IF Deleters(t) # {} THEN withdrawn \cup {KeyOf(t)}
                  ELSE withdrawn \ {KeyOf(t)}
  /\ UNCHANGED <<call, left, filesystem, s3, rss, bounds,
                 receipts, tries, mutations, scanned, successes, dispatches>>

RecordReceipt(t) ==
  /\ At(t, "done")
  /\ receipts' = [receipts EXCEPT ![KeyOf(t)] =
       [package |-> PackageOf(t), target |-> TargetOf(t),
        status |-> IF attempts[KeyOf(t)] = "failed" THEN "resumed" ELSE "published"]]
  /\ attempts' = [attempts EXCEPT ![KeyOf(t)] = "completed"]
  /\ successes' = [successes EXCEPT ![KeyOf(t)] = @ + 1]
  /\ ReleaseLock(t)
  /\ Goto(t, "idle")
  /\ UNCHANGED <<call, left, filesystem, s3, rss, bounds,
                 tries, mutations, scanned, dispatches, withdrawn>>

(* (mutant: a failed attempt keeps the lock)                               *)
FailPublicationLocked(t) ==
  /\ At(t, "failed")
  /\ attempts' = [attempts EXCEPT ![KeyOf(t)] = "failed"]
  /\ Goto(t, "idle")
  /\ UNCHANGED <<call, left, filesystem, s3, rss, bounds, receipts, keyLock,
                 tries, mutations, scanned, successes, dispatches, withdrawn>>

FailPublication(t) ==
  /\ At(t, "failed")
  /\ attempts' = [attempts EXCEPT ![KeyOf(t)] = "failed"]
  /\ ReleaseLock(t)
  /\ Goto(t, "idle")
  /\ UNCHANGED <<call, left, filesystem, s3, rss, bounds, receipts,
                 tries, mutations, scanned, successes, dispatches, withdrawn>>
-----------------------------------------------------------------------------
(* A key that has mutated something is answered or refused likewise.       *)
AnswerFromMutation(t) ==
  /\ At(t, "open") /\ OpOf(t) \in Mutations /\ LockIsFree(t)
  /\ mutations[OpOf(t)][KeyOf(t)] # Nothing
  /\ Goto(t, "idle")
  /\ UNCHANGED <<call, left, filesystem, s3, rss, bounds, service>>

Tried == {x \in Mutations \X Keys : tries[x[1]][x[2]] # "none"}

(* Otherwise all attempts are scanned for one of the same key.             *)
StartScan(t) ==
  /\ At(t, "open") /\ OpOf(t) \in Mutations /\ LockIsFree(t)
  /\ mutations[OpOf(t)][KeyOf(t)] = Nothing
  /\ TakeLock(t)
  /\ scanned' = [scanned EXCEPT ![t] = Cardinality(Tried)]
  /\ Goto(t, "scan")
  /\ UNCHANGED <<call, left, filesystem, s3, rss, bounds, attempts, receipts,
                 tries, mutations, successes, dispatches, withdrawn>>

(* (mutant: only attempts of the same operation are looked for)            *)
MayNotMutateAgain(t) == \/ scanned[t] # Cardinality(Tried)
                        \/ tries[OpOf(t)][KeyOf(t)] # "none"

(* The scan ends in an error if the dictionary grew under it, and in a     *)
(* refusal if the key was tried before, whatever came of it.               *)
MayNotMutate(t) == \/ scanned[t] # Cardinality(Tried)
                   \/ \E o \in Mutations : tries[o][KeyOf(t)] # "none"

RefuseMutation(t) ==
  /\ At(t, "scan") /\ MayNotMutate(t)
  /\ ReleaseLock(t)
  /\ Goto(t, "idle")
  /\ UNCHANGED <<call, left, filesystem, s3, rss, bounds, attempts, receipts,
                 tries, mutations, scanned, successes, dispatches, withdrawn>>

FirstMutationStep(t) ==
  CASE KindOf(t) = "filesystem" -> IF OpOf(t) = "update" THEN "update" ELSE "rmtree"
    [] KindOf(t) = "transistor" -> "transistorMutation"
    [] OTHER -> "mutationFailed"

DispatchMutation(t) ==
  /\ At(t, "scan") /\ ~MayNotMutate(t)
  /\ tries' = [tries EXCEPT ![OpOf(t)][KeyOf(t)] = "in-flight"]
  /\ dispatches' = [dispatches EXCEPT ![KeyOf(t)] = @ + 1]
  /\ Withdraw(t)
  /\ Goto(t, FirstMutationStep(t))
  /\ UNCHANGED <<call, left, filesystem, s3, rss, bounds, keyLock, attempts,
                 receipts, mutations, scanned, successes>>

RecordMutation(t) ==
  /\ At(t, "mutated")
  /\ mutations' = [mutations EXCEPT ![OpOf(t)][KeyOf(t)] = call[t].of]
  /\ tries' = [tries EXCEPT ![OpOf(t)][KeyOf(t)] = "completed"]
  /\ ReleaseLock(t)
  /\ Goto(t, "idle")
  /\ UNCHANGED <<call, left, filesystem, s3, rss, bounds, attempts, receipts,
                 scanned, successes, dispatches, withdrawn>>

FailMutation(t) ==
  /\ At(t, "mutationFailed")
  /\ tries' = [tries EXCEPT ![OpOf(t)][KeyOf(t)] = "unknown"]
  /\ ReleaseLock(t)
  /\ Goto(t, "idle")
  /\ UNCHANGED <<call, left, filesystem, s3, rss, bounds, attempts, receipts,
                 mutations, scanned, successes, dispatches, withdrawn>>

(* RecordedTransistorAdapter answers from its fixture.                     *)
PublishTransistor(t) ==
  /\ At(t, "transistor")
  /\ Goto(t, IF Fixture.id THEN "done" ELSE "failed")
  /\ UNCHANGED <<call, left, filesystem, s3, rss, bounds, service>>

MutateTransistor(t) ==
  /\ At(t, "transistorMutation")
  /\ Goto(t, IF Fixture.operation = OpOf(t) THEN "mutated" ELSE "mutationFailed")
  /\ UNCHANGED <<call, left, filesystem, s3, rss, bounds, service>>
-----------------------------------------------------------------------------
(* The process dies with all that it has in memory.                        *)
Crash ==
  /\ crashes < MaxCrashes /\ crashes' = crashes + 1
  /\ pc' = [t \in Threads |-> "idle"]
  /\ left' = [t \in Threads |-> {}]
  /\ FilesystemCrash /\ S3Crash /\ RssCrash /\ ForgetService
  /\ UNCHANGED <<call, menu, calls>>

Step(t) ==
  \/ AnswerFromReceipt(t) \/ StartPublication(t) \/ RecordReceipt(t) \/ FailPublication(t)
  \/ AnswerFromMutation(t) \/ StartScan(t) \/ RefuseMutation(t) \/ DispatchMutation(t)
  \/ RecordMutation(t) \/ FailMutation(t)
  \/ PublishTransistor(t) \/ MutateTransistor(t)
  \/ FilesystemStep(t) /\ UNCHANGED <<s3, rss, bounds, service>>
  \/ S3Step(t) /\ UNCHANGED <<filesystem, rss, bounds, service>>
  \/ RssStep(t) /\ UNCHANGED <<filesystem, s3, bounds, service>>

Next == (\E t \in Threads : StartCall(t) \/ Step(t)) \/ Crash

(* A thread that is in a call goes on; nobody has to start one.            *)
Spec == Init /\ [][Next]_vars /\ \A t \in Threads : WF_vars(Step(t))
-----------------------------------------------------------------------------
OfKind(kind) == {k \in Keys : receipts[k] # Nothing /\ Kind[receipts[k].target] = kind}

(* While the process lives, a filesystem receipt stands for a destination  *)
(* that holds exactly the package's bytes, unless a delete of that         *)
(* destination has overlapped the publication or come after it: whatever   *)
(* other publications, of the same or of other bytes, have failed, pruned  *)
(* parents or been renamed at the same time.                               *)
PublishedBytesAreExact ==
  \A k \in OfKind("filesystem") \ withdrawn :
    LET dir == published[receipts[k].target][receipts[k].package.episode] IN
    dir # Nothing /\ \A n \in Files : dir[n] = receipts[k].package.files[n]

(* While the process lives, a key publishes once and mutates once, be it   *)
(* update or delete, be it retried after a failure, an unknown outcome or  *)
(* by two threads at once.                                                 *)
EffectsHappenOnce ==
  \A k \in Keys : successes[k] <= 1 /\ dispatches[k] <= 1

(* While no RSS publication is in progress, a feed lists exactly the       *)
(* episodes that have receipts for its target, unless the publication that *)
(* stored it last had met another one in the adapter: then an episode may  *)
(* be missing until the next publication that meets none.                  *)
FeedListsReceipts ==
  \A g \in Targets \ raced :
    Kind[g] = "rss"
    /\ (\A k \in Keys : keyLock[k] # Nothing => TargetOf(keyLock[k]) # g)
    => Guids(feeds[g]) = {receipts[k].package.episode :
                            k \in {j \in OfKind("rss") : receipts[j].target = g}}

(* An object that a put or a publication has left in the store can be read *)
(* back, by this process and by the ones after a crash, until somebody     *)
(* begins to remove it: no other put, failed put, rollback or pruning of   *)
(* directories takes it away.                                              *)
ObjectsStayReadable == \A ref \in kept : Readable(ref) /\ ShardOf[ref.bytes] \in shards

(* Every call ends: no key's lock and no adapter's lock is left behind by  *)
(* a failure, and the two kinds of locks do not wait for each other.       *)
CallsEnd == \A t \in Threads : ~At(t, "idle") ~> At(t, "idle")
=============================================================================
