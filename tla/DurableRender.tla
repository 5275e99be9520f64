---------------------------- MODULE DurableRender ----------------------------
(***************************************************************************)
(* DurableRenderService.render_takes (audio/render.py) over the filesystem *)
(* artifact and render record stores (audio/storage.py).                   *)
(*                                                                         *)
(* Many calls of render_takes run at once, as tasks of several worker      *)
(* processes that share one filesystem.  A call asks for a window of one   *)
(* to three takes.  Every take has an idempotency key (a SHA-256 of the    *)
(* request, assumed injective), and the call                               *)
(*   1. takes the exclusive file lock of every key, in the order of the    *)
(*      keys, waiting for each in a thread of its process's default pool;  *)
(*   2. looks up the record of every take, and checks it;                  *)
(*   3. in take order renders each take that has none: provider call,      *)
(*      artifact link, record link;                                        *)
(*   4. gives the locks back, last one first, and returns or raises.       *)
(* A process may die anywhere: its locks vanish with it, what it linked    *)
(* stays.  A call is one-shot; a retry of it is another caller.            *)
(***************************************************************************)
EXTENDS Naturals, FiniteSets

CONSTANTS
  Callers,     \* calls of render_takes, retries and timed-out zombies included
  Procs,       \* worker processes
  Home,        \* Home[c]: the process call c runs in
  Takes,       \* take indexes
  Rank,        \* Rank[t]: place of take t's idempotency key in sorted order
  Audio,       \* provider outputs (audio bytes), named by their digest
  PoolSize,    \* threads of a process's default executor (asyncio.to_thread)
  NoOne,       \* a claim nobody holds
  NoEvidence   \* no render record, no response

MaxTakeCount == 3

(* A candidate with its cost event: the artifact it names and the provider *)
(* call it comes from.  A call asks for a take at most once, so the caller *)
(* stands for the provider's request_id.                                   *)
Evidence == [audio : Audio, request : Callers]

ASSUME DurableRenderAssumption ==
  /\ Home \in [Callers -> Procs]
  /\ Takes \subseteq Nat
  /\ Rank \in [Takes -> Nat]
  /\ \A t, u \in Takes : Rank[t] = Rank[u] => t = u
  /\ PoolSize \in Nat \ {0}
  /\ NoOne \notin Callers
  /\ NoEvidence \notin Evidence

VARIABLES
  pc,          \* pc[c]: where call c is
  window,      \* window[c]: the takes call c asked for
  outcome,     \* outcome[c][t]: the candidate call c holds for take t
  fresh,       \* fresh[c]: the takes whose cost event call c holds
  response,    \* response[c]: the provider's answer call c is storing
  claim,       \* claim[t]: who holds the file lock of take t's key
  record,      \* record[t]: the durable render record of take t
  linked,      \* artifacts linked into the content-addressed store
  damaged,     \* artifacts whose stored bytes no longer match their digest
  dispatches   \* dispatches[t][c]: provider calls that c made for t (history)

local == <<pc, window, outcome, fresh, response>>
durable == <<record, linked, damaged>>
vars == <<pc, window, outcome, fresh, response, claim, record, linked,
          damaged, dispatches>>

Settled == {"returned", "failed", "dead"}
Running == {"claim", "flock", "lookup", "work", "render", "put", "save",
            "release", "abort"}

NoOutcome == [t \in Takes |-> NoEvidence]

Init ==
  /\ pc = [c \in Callers |-> "new"]
  /\ window = [c \in Callers |-> {}]
  /\ outcome = [c \in Callers |-> NoOutcome]
  /\ fresh = [c \in Callers |-> {}]
  /\ response = [c \in Callers |-> NoEvidence]
  /\ claim = [t \in Takes |-> NoOne]
  /\ record = [t \in Takes |-> NoEvidence]
  /\ linked = {}
  /\ damaged = {}
  /\ dispatches = [t \in Takes |-> [c \in Callers |-> 0]]

-----------------------------------------------------------------------------
Goto(c, l) == pc' = [pc EXCEPT ![c] = l]

(* Mutant: the take offsets run one too far.                               *)
TakeWindowsOffByOne ==
  {first .. (first + count) : first \in Takes, count \in 1 .. MaxTakeCount}

(* The takes of one call: take_count consecutive indexes from the request. *)
TakeWindows ==
  {first .. (first + count - 1) : first \in Takes, count \in 1 .. MaxTakeCount}
    \cap SUBSET Takes

Held(c) == {t \in Takes : claim[t] = c}
Unheld(c) == window[c] \ Held(c)
Missing(c) == {t \in window[c] : outcome[c][t] = NoEvidence}

(* Mutant: the claims are taken in whatever order the requests come.       *)
IsNextClaimUnsorted(c, t) == t \in Unheld(c)

(* sorted(requests, key=idempotency_key): the next claim to take, and, the *)
(* exit stack being last in first out, the next one to give back.          *)
IsNextClaim(c, t) ==
  t \in Unheld(c) /\ \A u \in Unheld(c) : Rank[t] <= Rank[u]
IsLastClaim(c, t) ==
  t \in Held(c) /\ \A u \in Held(c) : Rank[u] <= Rank[t]

(* Missing takes are rendered in the order of the requests.                *)
IsNextTake(c, t) ==
  t \in Missing(c) /\ \A u \in Missing(c) : t <= u

(* A thread waiting in flock(LOCK_EX) is lost to its process's pool until  *)
(* the lock is granted; LOCK_UN needs a thread of the same pool.           *)
BlockedThreads(p) == {c \in Callers : Home[c] = p /\ pc[c] = "flock"}
FreeThread(p) == Cardinality(BlockedThreads(p)) < PoolSize

-----------------------------------------------------------------------------
(* take_count, rights or renderer capabilities refuse the call.            *)
Refuse(c) ==
  /\ pc[c] = "new"
  /\ Goto(c, "failed")
  /\ UNCHANGED <<window, outcome, fresh, response, claim, durable, dispatches>>

RenderTakes(c) ==
  /\ pc[c] = "new"
  /\ \E w \in TakeWindows : window' = [window EXCEPT ![c] = w]
  /\ Goto(c, "claim")
  /\ UNCHANGED <<outcome, fresh, response, claim, durable, dispatches>>

(* The lock file is open and flock(LOCK_EX) is handed to a pool thread.    *)
WaitForClaim(c) ==
  /\ pc[c] = "claim"
  /\ FreeThread(Home[c])
  /\ Goto(c, "flock")
  /\ UNCHANGED <<window, outcome, fresh, response, claim, durable, dispatches>>

(* The lock file cannot be opened: the claims taken so far are unwound.    *)
OpenClaimFails(c) ==
  /\ pc[c] = "claim"
  /\ Goto(c, IF Held(c) = {} THEN "failed" ELSE "abort")
  /\ UNCHANGED <<window, outcome, fresh, response, claim, durable, dispatches>>

(* Mutant: the lock is shared (LOCK_SH).                                   *)
TakeClaimShared(c, t) ==
  /\ pc[c] = "flock"
  /\ IsNextClaim(c, t)
  /\ claim' = [claim EXCEPT ![t] = c]
  /\ Goto(c, IF Unheld(c) = {t} THEN "lookup" ELSE "claim")
  /\ UNCHANGED <<window, outcome, fresh, response, durable, dispatches>>

TakeClaim(c, t) ==
  /\ pc[c] = "flock"
  /\ IsNextClaim(c, t)
  /\ claim[t] = NoOne
  /\ claim' = [claim EXCEPT ![t] = c]
  /\ Goto(c, IF Unheld(c) = {t} THEN "lookup" ELSE "claim")
  /\ UNCHANGED <<window, outcome, fresh, response, durable, dispatches>>

(* Mutants: the lookup ignores what is durable,                            *)
FindNoRecords(c) ==
  /\ pc[c] = "lookup"
  /\ Goto(c, "work")
  /\ UNCHANGED <<window, outcome, fresh, response, claim, durable, dispatches>>

(* or hands out what it finds without marking it replayed.                 *)
FindRecordsAsNew(c) ==
  /\ pc[c] = "lookup"
  /\ outcome' = [outcome EXCEPT
                   ![c] = [t \in Takes |-> IF t \in window[c] THEN record[t]
                                                              ELSE NoEvidence]]
  /\ fresh' = [fresh EXCEPT ![c] = {t \in window[c] : record[t] # NoEvidence}]
  /\ Goto(c, "work")
  /\ UNCHANGED <<window, response, claim, durable, dispatches>>

(* records.find for every take of the window; load also verifies the       *)
(* artifact, and one record that is bad, or cannot be read, fails the      *)
(* whole call before any dispatch.                                         *)
FindRecords(c) ==
  /\ pc[c] = "lookup"
  /\ \A t \in window[c] : record[t] # NoEvidence => record[t].audio \notin damaged
  /\ outcome' = [outcome EXCEPT
                   ![c] = [t \in Takes |-> IF t \in window[c] THEN record[t]
                                                              ELSE NoEvidence]]
  /\ Goto(c, "work")
  /\ UNCHANGED <<window, fresh, response, claim, durable, dispatches>>

FindRecordsFails(c) ==
  /\ pc[c] = "lookup"
  /\ \E t \in window[c] : record[t] # NoEvidence
  /\ Goto(c, "abort")
  /\ UNCHANGED <<window, outcome, fresh, response, claim, durable, dispatches>>

(* renderer.render is called; the answer it will give is fixed here and    *)
(* seen by the call only when it arrives.                                  *)
Dispatch(c, t, a) ==
  /\ pc[c] = "work"
  /\ IsNextTake(c, t)
  /\ dispatches' = [dispatches EXCEPT ![t][c] = @ + 1]
  /\ response' = [response EXCEPT
                    ![c] = [audio |-> a, request |-> c]]
  /\ Goto(c, "render")
  /\ UNCHANGED <<window, outcome, fresh, claim, durable>>

ProviderReturns(c) ==
  /\ pc[c] = "render"
  /\ Goto(c, "put")
  /\ UNCHANGED <<window, outcome, fresh, response, claim, durable, dispatches>>

(* The renderer raises, or _validate_rendered rejects what it returned.    *)
ProviderFails(c) ==
  /\ pc[c] = "render"
  /\ response' = [response EXCEPT ![c] = NoEvidence]
  /\ Goto(c, "abort")
  /\ UNCHANGED <<window, outcome, fresh, claim, durable, dispatches>>

(* Mutant: the record is saved without its artifact.                       *)
PutNoArtifact(c) ==
  /\ pc[c] = "put"
  /\ Goto(c, "save")
  /\ UNCHANGED <<window, outcome, fresh, response, claim, durable, dispatches>>

(* FilesystemArtifactStore.put: link the bytes under their digest; bytes   *)
(* already there are verified.                                             *)
PutArtifact(c) ==
  /\ pc[c] = "put"
  /\ response[c].audio \notin damaged
  /\ linked' = linked \cup {response[c].audio}
  /\ Goto(c, "save")
  /\ UNCHANGED <<window, outcome, fresh, response, claim, record, damaged,
                 dispatches>>

(* The bytes there are others, or the filesystem fails, before the link or *)
(* after it.                                                               *)
PutArtifactFails(c) ==
  /\ pc[c] = "put"
  /\ linked' \in {linked, linked \cup {response[c].audio}}
  /\ response' = [response EXCEPT ![c] = NoEvidence]
  /\ Goto(c, "abort")
  /\ UNCHANGED <<window, outcome, fresh, claim, record, damaged, dispatches>>

(* FilesystemRenderRecordStore.save: link the record once; a record that   *)
(* is already there must load and be the same, or the save raises.         *)
SaveRecord(c, t) ==
  /\ pc[c] = "save"
  /\ IsNextTake(c, t)
  /\ LET e == response[c]
         accepted == \/ record[t] = NoEvidence
                     \/ record[t] = e /\ e.audio \notin damaged
     IN IF accepted
        THEN /\ record' = [record EXCEPT ![t] = e]
             /\ outcome' = [outcome EXCEPT ![c][t] = e]
             /\ fresh' = [fresh EXCEPT ![c] = @ \cup {t}]
             /\ Goto(c, "work")
        ELSE /\ Goto(c, "abort")
             /\ UNCHANGED <<record, outcome, fresh>>
  /\ response' = [response EXCEPT ![c] = NoEvidence]
  /\ UNCHANGED <<window, claim, linked, damaged, dispatches>>

(* The filesystem fails, before the record is linked or after it.          *)
SaveRecordFails(c, t) ==
  /\ pc[c] = "save"
  /\ IsNextTake(c, t)
  /\ \/ UNCHANGED record
     \/ record[t] = NoEvidence /\ record' = [record EXCEPT ![t] = response[c]]
  /\ response' = [response EXCEPT ![c] = NoEvidence]
  /\ Goto(c, "abort")
  /\ UNCHANGED <<window, outcome, fresh, claim, linked, damaged, dispatches>>

Finish(c) ==
  /\ pc[c] = "work"
  /\ Missing(c) = {}
  /\ Goto(c, "release")
  /\ UNCHANGED <<window, outcome, fresh, response, claim, durable, dispatches>>

(* One exit callback of the stack: flock(LOCK_UN) in a pool thread, close. *)
ReleaseClaim(c, t) ==
  /\ pc[c] \in {"release", "abort"}
  /\ IsLastClaim(c, t)
  /\ FreeThread(Home[c])
  /\ claim' = [claim EXCEPT ![t] = NoOne]
  /\ Goto(c, IF Held(c) # {t} THEN pc[c]
             ELSE IF pc[c] = "release" THEN "returned" ELSE "failed")
  /\ UNCHANGED <<window, outcome, fresh, response, durable, dispatches>>

-----------------------------------------------------------------------------
(* A worker process dies: the kernel drops its locks, its calls are gone.  *)
Crash(p) ==
  LET lost == {c \in Callers : Home[c] = p /\ pc[c] \in Running}
  IN /\ lost # {}
     /\ pc' = [c \in Callers |-> IF c \in lost THEN "dead" ELSE pc[c]]
     /\ response' = [c \in Callers |-> IF c \in lost THEN NoEvidence
                                                     ELSE response[c]]
     /\ claim' = [t \in Takes |-> IF claim[t] \in lost THEN NoOne ELSE claim[t]]
     /\ UNCHANGED <<window, outcome, fresh, durable, dispatches>>

(* The bytes of a stored artifact are changed behind the service's back.   *)
DamageArtifact(a) ==
  /\ a \in linked \ damaged
  /\ damaged' = damaged \cup {a}
  /\ UNCHANGED <<local, claim, record, linked, dispatches>>

(* Every call has settled: nothing is left to do.                          *)
AllSettled ==
  /\ \A c \in Callers : pc[c] \in Settled
  /\ UNCHANGED vars

CallStep(c) ==
  \/ WaitForClaim(c)
  \/ \E t \in Takes : TakeClaim(c, t)
  \/ FindRecords(c) \/ FindRecordsFails(c)
  \/ \E t \in Takes, a \in Audio : Dispatch(c, t, a)
  \/ ProviderReturns(c) \/ ProviderFails(c)
  \/ PutArtifact(c) \/ PutArtifactFails(c)
  \/ \E t \in Takes : SaveRecord(c, t) \/ SaveRecordFails(c, t)
  \/ Finish(c)
  \/ \E t \in Takes : ReleaseClaim(c, t)

Next ==
  \/ \E c \in Callers : Refuse(c) \/ RenderTakes(c) \/ OpenClaimFails(c)
                          \/ CallStep(c)
  \/ \E p \in Procs : Crash(p)
  \/ \E a \in Audio : DamageArtifact(a)
  \/ AllSettled

Spec == Init /\ [][Next]_vars

(* The event loop keeps running a started call, pool threads and file      *)
(* locks are granted, a provider call returns or times out.  Nobody is     *)
(* obliged to make a call, to crash or to damage a file.                   *)
Fairness == \A c \in Callers : WF_vars(CallStep(c))
FairSpec == Spec /\ Fairness
-----------------------------------------------------------------------------
TypeOK ==
  /\ pc \in [Callers -> Settled \cup Running \cup {"new"}]
  /\ window \in [Callers -> SUBSET Takes]
  /\ outcome \in [Callers -> [Takes -> Evidence \cup {NoEvidence}]]
  /\ fresh \in [Callers -> SUBSET Takes]
  /\ response \in [Callers -> Evidence \cup {NoEvidence}]
  /\ claim \in [Takes -> Callers \cup {NoOne}]
  /\ record \in [Takes -> Evidence \cup {NoEvidence}]
  /\ linked \subseteq Audio
  /\ damaged \subseteq linked
  /\ dispatches \in [Takes -> [Callers -> Nat]]

(* The calls between asking the provider for take t and storing its answer. *)
Spending(c, t) ==
  pc[c] \in {"render", "put", "save"} /\ IsNextTake(c, t)

(* The file lock keeps two tasks, of one process or of two, from paying    *)
(* the provider for the same take at the same time (render.py _claim).     *)
OneSpender ==
  \A c, d \in Callers, t \in Takes : Spending(c, t) /\ Spending(d, t) => c = d

(* The calls that asked the provider for take t, and those of them that    *)
(* failed or died without their answer becoming t's record.                *)
Payers(t) == {c \in Callers : dispatches[t][c] > 0}
Losers(t) ==
  {c \in Payers(t) : /\ pc[c] \in {"failed", "dead", "abort"}
                     /\ record[t] = NoEvidence \/ record[t].request # c}

(* Every provider call for a take but one was lost: its answer rejected,   *)
(* or not stored, or its process dead.  A call asks at most once for a     *)
(* take.  Neither concurrency nor retries of settled work cost anything.   *)
SpendBoundedByLosses ==
  \A t \in Takes :
    /\ \A c \in Callers : dispatches[t][c] <= 1
    /\ \A c, d \in Payers(t) \ Losers(t) : c = d

(* A call that returns holds, for every take it asked for, exactly what is *)
(* durable, and the artifact of each was stored before its record.         *)
AnswersAreDurable ==
  /\ \A c \in Callers : pc[c] = "returned" =>
       \A t \in window[c] : outcome[c][t] = record[t] /\ record[t] # NoEvidence
  /\ \A t \in Takes : record[t] # NoEvidence => record[t].audio \in linked

(* The cost event of a take reaches the caller of at most one call: every  *)
(* other call of the same take, in any process and after any crash, sees a *)
(* replay.                                                                 *)
OneCostEvent ==
  \A c, d \in Callers : c # d => fresh[c] \cap fresh[d] = {}

(* Once a take has durable evidence the provider is never called for it    *)
(* again.                                                                  *)
NoDispatchAfterRecord ==
  [][\A t \in Takes : record[t] # NoEvidence =>
       dispatches'[t] = dispatches[t]]_vars

(* The service implements RenderEvidence: what a call that returned holds  *)
(* is its answer, the calls that have not are unanswered.                  *)
Answers == [c \in Callers |-> IF pc[c] = "returned" THEN outcome[c]
                                                     ELSE NoOutcome]
Charges == [c \in Callers |-> IF pc[c] = "returned" THEN fresh[c] ELSE {}]

Promise == INSTANCE RenderEvidence
             WITH evidence <- record, delivered <- Answers, charged <- Charges
KeepsPromise == Promise!Spec

(* Every call that starts settles: sorted claims never wait in a circle,   *)
(* and a claim is given back on every path.                                *)
EveryCallSettles ==
  \A c \in Callers : pc[c] = "claim" ~> pc[c] \in Settled
=============================================================================
