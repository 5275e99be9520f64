----------------------------- MODULE CommandApi -----------------------------
(***************************************************************************)
(* The episode API (api/__init__.py) over the SQLite adapters              *)
(* (persistence.py), with the workers that move an episode through its     *)
(* lifecycle (episode_service.py).                                         *)
(*                                                                         *)
(* A request or a worker is a thread of some process; every repository or  *)
(* dispatcher call is one transaction (BEGIN IMMEDIATE), and anything may  *)
(* happen between two of them.  Idempotency keys and rows are scoped by    *)
(* tenant in every query, so one tenant is modelled.  A request that is    *)
(* turned away before it has written anything (a foreign project, a        *)
(* malformed body, a transition that is not allowed) changes nothing and   *)
(* is left out, unless a property is about the refusal.                    *)
(***************************************************************************)
EXTENDS Naturals

CONSTANTS
  Requests,  \* HTTP calls; a create's episode id is fresh: the call itself
  Workers,   \* callers of transition and publish
  Keys,      \* idempotency keys
  Sources,   \* request fingerprints: project, profile and source
  Packages,  \* package checksums
  Nothing

Commands == {"create", "render", "publish"}
Stages == {"validated", "scripted", "rendered", "qa_passed", "packaged",
           "published", "failed"}

(* EpisodeRecord: qa, package and failure are the evidence it carries.     *)
Record == [key : Keys, source : Sources, state : Stages, version : Nat \ {0},
           qa : BOOLEAN, package : Packages \cup {Nothing}, failure : BOOLEAN]

(* CommandReceipt.  Its project is that of the episode, which the request  *)
(* was checked against.                                                    *)
Receipt == [episode : Requests, command : Commands, key : Keys, id : Requests]

Call == [episode : Requests, command : Commands, key : Keys]
Update == [episode : Requests, record : Record]
View == [stage : Stages, version : Nat \ {0}, package : Packages \cup {Nothing}]

ASSUME CommandApiAssumption ==
  /\ Nothing \notin Requests /\ Nothing \notin Packages /\ Nothing \notin Stages
  /\ Nothing \notin Record /\ Nothing \notin Call /\ Nothing \notin Update
  /\ Nothing \notin View

VARIABLES
  episodes,  \* the table of episodes
  receipts,  \* the table of command receipts
  pc,        \* pc[r]: where request r is
  call,      \* call[r]: the episode, the command and the key it is for
  seen,      \* seen[r]: the state it read of the episode
  answer,    \* answer[r]: the receipt it was answered with
  pending    \* pending[w]: the record worker w is about to write

requests == <<pc, call, seen, answer>>
vars == <<episodes, receipts, pc, call, seen, answer, pending>>

Exists(e) == episodes[e] # Nothing

Init ==
  /\ episodes = [e \in Requests |-> Nothing]
  /\ receipts = {}
  /\ pc = [r \in Requests |-> "idle"]
  /\ call = [r \in Requests |-> Nothing]
  /\ seen = [r \in Requests |-> Nothing]
  /\ answer = [r \in Requests |-> Nothing]
  /\ pending = [w \in Workers |-> Nothing]

Goto(r, step) == pc' = [pc EXCEPT ![r] = step]
Accept(r, e, command, k) ==
  call' = [call EXCEPT ![r] = [episode |-> e, command |-> command, key |-> k]]
-----------------------------------------------------------------------------
(* POST /v1/episodes: validate, snapshot, and create the record            *)
(* (mutant: versions are counted from 0)                                   *)
NewRecordZero(k, x) ==
  [key |-> k, source |-> x, state |-> "validated", version |-> 0,
   qa |-> FALSE, package |-> Nothing, failure |-> FALSE]

NewRecord(k, x) ==
  [key |-> k, source |-> x, state |-> "validated", version |-> 1,
   qa |-> FALSE, package |-> Nothing, failure |-> FALSE]

Owners(k) == {e \in Requests : Exists(e) /\ episodes[e].key = k}

(* Mutant: a replayed create is answered with no receipt of its own.       *)
CreateEpisodeOrAnswer(r) ==
  /\ pc[r] = "idle"
  /\ \E k \in Keys, x \in Sources :
       \/ /\ Owners(k) = {}
          /\ episodes' = [episodes EXCEPT ![r] = NewRecord(k, x)]
          /\ Accept(r, r, "create", k)
          /\ Goto(r, "submit")
          /\ UNCHANGED answer
       \/ \E e \in Owners(k) :
            /\ episodes[e].source = x
            /\ Accept(r, e, "create", k)
            /\ Goto(r, "answered")
            /\ answer' = [answer EXCEPT ![r] = e]
            /\ UNCHANGED episodes
  /\ UNCHANGED <<receipts, seen, pending>>

(* in one transaction, or replay the one the key belongs to if it has the  *)
(* same fingerprint.                                                       *)
CreateEpisode(r) ==
  /\ pc[r] = "idle"
  /\ \E k \in Keys, x \in Sources :
       \/ /\ Owners(k) = {}
          /\ episodes' = [episodes EXCEPT ![r] = NewRecord(k, x)]
          /\ Accept(r, r, "create", k)
       \/ \E e \in Owners(k) :
            /\ episodes[e].source = x
            /\ Accept(r, e, "create", k)
            /\ UNCHANGED episodes
  /\ Goto(r, "submit")
  /\ UNCHANGED <<receipts, seen, answer, pending>>

(* POST .../render: read the record, to look for a receipt next.           *)
RenderEpisode(r) ==
  /\ pc[r] = "idle"
  /\ \E e \in Requests, k \in Keys :
       /\ Exists(e)
       /\ seen' = [seen EXCEPT ![r] = episodes[e].state]
       /\ Accept(r, e, "render", k)
  /\ Goto(r, "replay")
  /\ UNCHANGED <<episodes, receipts, answer, pending>>

(* Mutant: any episode that has been rendered may be published.            *)
PublishRenderedEpisode(r) ==
  /\ pc[r] = "idle"
  /\ \E e \in Requests, k \in Keys :
       /\ Exists(e)
       /\ episodes[e].state \notin {"validated", "scripted", "failed"}
       /\ Accept(r, e, "publish", k)
  /\ Goto(r, "submit")
  /\ UNCHANGED <<episodes, receipts, seen, answer, pending>>

(* POST .../publish, with authorization: read the record and check it.     *)
PublishEpisode(r) ==
  /\ pc[r] = "idle"
  /\ \E e \in Requests, k \in Keys :
       /\ Exists(e)
       /\ episodes[e].state \in {"packaged", "published"}
       /\ Accept(r, e, "publish", k)
  /\ Goto(r, "submit")
  /\ UNCHANGED <<episodes, receipts, seen, answer, pending>>

-----------------------------------------------------------------------------
Identical(x, y) == x.episode = y.episode /\ x.command = y.command /\ x.key = y.key
Replays(r) == {x \in receipts : Identical(x, call[r])}
AnswerWith(r, x) ==
  /\ answer' = [answer EXCEPT ![r] = x.id]
  /\ Goto(r, "answered")

(* Mutant: the gate comes before the lookup.                               *)
GateRender(r) ==
  /\ pc[r] = "replay"
  /\ IF seen[r] = "published"
     THEN Goto(r, "refused") /\ UNCHANGED answer
     ELSE \/ \E x \in Replays(r) : AnswerWith(r, x)
          \/ Replays(r) = {} /\ Goto(r, "submit") /\ UNCHANGED answer
  /\ UNCHANGED <<episodes, receipts, call, seen, pending>>

(* dispatcher.replay, and then the gate on the state read before it.       *)
ReplayRender(r) ==
  /\ pc[r] = "replay"
  /\ \/ \E x \in Replays(r) : AnswerWith(r, x)
     \/ /\ Replays(r) = {}
        /\ Goto(r, IF seen[r] = "published" THEN "refused" ELSE "submit")
        /\ UNCHANGED answer
  /\ UNCHANGED <<episodes, receipts, call, seen, pending>>

(* Mutant: a receipt is looked for, but not the key.                       *)
SubmitRebound(r) ==
  /\ pc[r] = "submit"
  /\ \/ \E x \in Replays(r) : AnswerWith(r, x) /\ UNCHANGED receipts
     \/ LET x == [episode |-> call[r].episode, command |-> call[r].command,
                  key |-> call[r].key, id |-> r]
        IN /\ Replays(r) = {}
           /\ receipts' = receipts \cup {x}
           /\ AnswerWith(r, x)
  /\ UNCHANGED <<episodes, call, seen, pending>>

(* Mutant: every submit accepts the command anew.                          *)
SubmitAnew(r) ==
  /\ pc[r] = "submit"
  /\ LET x == [episode |-> call[r].episode, command |-> call[r].command,
               key |-> call[r].key, id |-> r]
     IN /\ receipts' = {y \in receipts : y.key # x.key} \cup {x}
        /\ AnswerWith(r, x)
  /\ UNCHANGED <<episodes, call, seen, pending>>

(* dispatcher.submit, in one transaction: the receipt of the same command, *)
(* a conflict if the key was used for anything else, or a new receipt.     *)
Submit(r) ==
  /\ pc[r] = "submit"
  /\ \/ \E x \in Replays(r) : AnswerWith(r, x) /\ UNCHANGED receipts
     \/ /\ Replays(r) = {}
        /\ \E x \in receipts : x.key = call[r].key
        /\ Goto(r, "conflict")
        /\ UNCHANGED <<receipts, answer>>
     \/ LET x == [episode |-> call[r].episode, command |-> call[r].command,
                  key |-> call[r].key, id |-> r]
        IN /\ \A y \in receipts : y.key # x.key
           /\ receipts' = receipts \cup {x}
           /\ AnswerWith(r, x)
  /\ UNCHANGED <<episodes, call, seen, pending>>

(* The process dies, or a transaction fails ("database is locked").        *)
LoseRequest(r) ==
  /\ pc[r] \in {"replay", "submit"}
  /\ Goto(r, "lost")
  /\ UNCHANGED <<episodes, receipts, call, seen, answer, pending>>

-----------------------------------------------------------------------------
(* The lifecycle: transition and publish.                                  *)
Transitions ==
  [s \in Stages |->
     CASE s = "validated" -> {"scripted", "failed"}
       [] s = "scripted" -> {"rendered", "failed"}
       [] s = "rendered" -> {"qa_passed", "failed"}
       [] s = "qa_passed" -> {"packaged", "failed"}
       [] s = "packaged" -> {"published", "failed"}
       [] s \in {"published", "failed"} -> {}]

(* The record of a transition from record c to state s with checksum p:    *)
(* passing QA evidence comes with qa_passed, a verified package with       *)
(* packaged, a failure with failed, and nothing of it otherwise.           *)
Updated(c, s, p) ==
  [c EXCEPT !.state = s,
            !.version = @ + 1,
            !.qa = @ \/ s = "qa_passed",
            !.package = IF s = "packaged" THEN p ELSE @,
            !.failure = s = "failed"]

(* Read the record, compare its version with the expected one, check the   *)
(* transition and its evidence, and build the next version.                *)
Transition(w) ==
  /\ pending[w] = Nothing
  /\ \E e \in Requests :
       /\ Exists(e)
       /\ \E s \in Transitions[episodes[e].state] :
            \E p \in IF s = "packaged" THEN Packages ELSE {Nothing} :
              pending' = [pending EXCEPT ![w] =
                [episode |-> e, record |-> Updated(episodes[e], s, p)]]
  /\ UNCHANGED <<episodes, receipts, requests>>

(* Mutant: the update does not look at the version.                        *)
ReplaceBlindly(w) ==
  /\ pending[w] # Nothing
  /\ episodes' = [episodes EXCEPT ![pending[w].episode] = pending[w].record]
  /\ pending' = [pending EXCEPT ![w] = Nothing]
  /\ UNCHANGED <<receipts, requests>>

(* repository.replace: in one transaction, compare the version again and   *)
(* write, or end in a VersionConflict.                                     *)
Replace(w) ==
  /\ pending[w] # Nothing
  /\ LET e == pending[w].episode
     IN episodes' = IF episodes[e].version + 1 = pending[w].record.version
                    THEN [episodes EXCEPT ![e] = pending[w].record]
                    ELSE episodes
  /\ pending' = [pending EXCEPT ![w] = Nothing]
  /\ UNCHANGED <<receipts, requests>>

LoseTransition(w) ==
  /\ pending[w] # Nothing
  /\ pending' = [pending EXCEPT ![w] = Nothing]
  /\ UNCHANGED <<episodes, receipts, requests>>

-----------------------------------------------------------------------------
Next ==
  \/ \E r \in Requests :
       \/ CreateEpisode(r) \/ RenderEpisode(r) \/ PublishEpisode(r)
       \/ ReplayRender(r) \/ Submit(r) \/ LoseRequest(r)
  \/ \E w \in Workers : Transition(w) \/ Replace(w) \/ LoseTransition(w)

Spec == Init /\ [][Next]_vars
-----------------------------------------------------------------------------
TypeOK ==
  /\ episodes \in [Requests -> Record \cup {Nothing}]
  /\ receipts \subseteq Receipt
  /\ pc \in [Requests -> {"idle", "replay", "submit", "answered", "refused",
                          "conflict", "lost"}]
  /\ call \in [Requests -> Call \cup {Nothing}]
  /\ seen \in [Requests -> Stages \cup {Nothing}]
  /\ answer \in [Requests -> Requests \cup {Nothing}]
  /\ pending \in [Workers -> Update \cup {Nothing}]

(* A key stands for one thing of the tenant: it belongs to one episode and *)
(* to one receipt, and a create receipt's key is its episode's.            *)
KeysBindOnce ==
  /\ \A d, e \in Requests :
       Exists(d) /\ Exists(e) /\ episodes[d].key = episodes[e].key => d = e
  /\ \A x, y \in receipts : x.key = y.key => x = y
  /\ \A x \in receipts :
       /\ Exists(x.episode)
       /\ x.command = "create" => episodes[x.episode].key = x.key

(* Idempotency: whoever repeats a command, at once or after a lost answer, *)
(* is answered with the same durable receipt.                              *)
AnswersAgree ==
  \A r \in Requests : pc[r] = "answered" =>
    /\ \E x \in Replays(r) : x.id = answer[r]
    /\ \A s \in Requests :
         pc[s] = "answered" /\ call[s] = call[r] => answer[s] = answer[r]

(* A create commits twice.  An episode has no create receipt only while a  *)
(* create of it is on its way or lost, or when its key is taken by another *)
(* command.                                                                *)
EpisodesAreReceipted ==
  \A e \in Requests : Exists(e) =>
    LET creates == {r \in Requests : call[r] # Nothing /\ call[r].episode = e
                                       /\ call[r].command = "create"}
    IN \/ \E x \in receipts : x.episode = e /\ x.command = "create"
       \/ \A r \in creates : pc[r] \in {"submit", "lost"}
       \/ \E x \in receipts : x.key = episodes[e].key

(* A publish command, checked against a record that may have changed since,*)
(* is only ever accepted for an episode whose QA passed and which has a    *)
(* package, and no record claims a stage without the evidence for it.      *)
PublishedArePackaged ==
  /\ \A x \in receipts : x.command = "publish" =>
       episodes[x.episode].qa /\ episodes[x.episode].package # Nothing
  /\ \A e \in Requests : Exists(e) =>
       /\ episodes[e].state \in {"qa_passed", "packaged", "published"} => episodes[e].qa
       /\ episodes[e].state \in {"packaged", "published"} => episodes[e].package # Nothing
       /\ episodes[e].state = "failed" <=> episodes[e].failure

(* docs/verification/episode-api.md: "Render first performs a non-mutating *)
(* replay lookup; only a new request reaches the published-state gate."    *)
ReplaysAreNotRefused ==
  [][\A r \in Requests :
       pc[r] # "refused" /\ pc'[r] = "refused" => Replays(r) = {}]_vars

(* What EpisodeLifecycle sees of the table.                                *)
Shown ==
  [e \in Requests |->
     IF Exists(e) THEN [stage |-> episodes[e].state,
                        version |-> episodes[e].version,
                        package |-> episodes[e].package]
                  ELSE Nothing]

Lifecycle == INSTANCE EpisodeLifecycle WITH Episodes <- Requests, lifecycle <- Shown

(* Each episode keeps the promise of its lifecycle, whatever its workers   *)
(* do at the same time: no update is lost, no stage skipped or repeated.   *)
KeepsLifecycle == Lifecycle!Spec

(* docs/verification/episode-api.md: "The command receipt identity is now  *)
(* exactly tenant, episode, command, and idempotency key": a command with  *)
(* an identity of its own is in conflict with nothing.                     *)
IdentityIsExact ==
  \A r \in Requests : pc[r] = "conflict" =>
    \E s \in Requests \ {r} : call[s] # Nothing /\ Identical(call[s], call[r])
=============================================================================
