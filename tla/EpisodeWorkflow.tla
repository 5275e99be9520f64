--------------------------- MODULE EpisodeWorkflow ---------------------------
(***************************************************************************)
(* EpisodeRenderWorkflow (audio/workflow.py) as Temporal runs it for       *)
(* TemporalEpisodeWorkflowService (audio/orchestration.py).                *)
(*                                                                         *)
(* Clients submit one immutable snapshot; its digest is the workflow id,   *)
(* and the id is never reused.  The workflow renders the segments in order.*)
(* An attempt of a segment fans out one activity per take and gathers them *)
(* all.  The server tries an activity up to MaximumAttempts times, after a *)
(* retryable error or a timeout; a try that timed out goes on running on   *)
(* its worker, where it shares the take's durable records with the next    *)
(* try.  When all takes are closed the workflow accepts the best candidate *)
(* that passes the hard gates, repairs the segment with another attempt,   *)
(* or fails the episode.                                                   *)
(*                                                                         *)
(* The workflow's own worker may crash at any time: Temporal replays the   *)
(* history, which is the state here, so that a crash is a stuttering step. *)
(* A try still running when its take is closed writes under the take's own *)
(* keys, which nothing reads again: what it does then is left out, and the *)
(* records of past attempts with it.                                       *)
(***************************************************************************)
EXTENDS Naturals, Sequences

CONSTANTS
  Clients,          \* calls of run_episode with the same snapshot
  SegmentCount,     \* segments of the episode
  MaxAttempts,      \* max_attempts of the snapshot
  Takes,            \* take indexes of an attempt, range(3) in the code
  IdRank,           \* IdRank[t]: place of take t's candidate id in sorted order
  MaximumAttempts,  \* of the activity's RetryPolicy, 3 in the code
  Verdicts,         \* quality evidence a take may get
  Raised,           \* errors a try may end with
  None              \* no verdict, no result, no accepted take

Gates == {"fidelity", "pronunciation", "audio"}
Quality == [score : Nat, gates : SUBSET Gates]   \* gates: those that failed

TranscriptionErrors == {"TranscriptionFailureError", "TranscriptionTransientError"}
StoppingErrors == {"RightsFailureError", "MalformedAudioError",
                   "WorkflowContractError", "ActivityNotConfigured"}
(* Timeouts, and application errors without a code the workflow knows.     *)
Uncoded == "uncoded"
(* Not an error of the activity: a result that is no CandidateQuality.     *)
Unreadable == "MALFORMED_ACTIVITY_OUTPUT"
Exhausted == "QUALITY_GATES_EXHAUSTED"

Codes == TranscriptionErrors \cup StoppingErrors
Errors == Codes \cup {Uncoded, Unreadable}
Retryable == {"TranscriptionTransientError", Uncoded}

Tries == 1 .. MaximumAttempts
Result == [error : {"none"}, quality : Verdicts]
            \cup [error : Errors, quality : {None}]
Returned(q) == [error |-> "none", quality |-> q]
Failed(x) == [error |-> x, quality |-> None]

Decision == [accepted : Takes \cup {None},
             code : {"none", Unreadable, Exhausted} \cup Codes,
             gates : SUBSET (Gates \cup {"rights", "contract", "transcription",
                                         "configuration", "activity"})]

ASSUME EpisodeWorkflowAssumption ==
  /\ SegmentCount \in Nat \ {0}
  /\ MaxAttempts \in Nat \ {0}
  /\ MaximumAttempts \in Nat \ {0}
  /\ Takes \subseteq Nat /\ Takes # {}
  /\ IdRank \in [Takes -> Nat]
  /\ \A t, u \in Takes : IdRank[t] = IdRank[u] => t = u
  /\ Verdicts \subseteq Quality
  /\ Raised \subseteq Errors
  /\ None \notin Verdicts /\ None \notin Takes /\ None \notin Result

VARIABLES
  client,     \* client[c]: where the call of client c is
  workflow,   \* state of the workflow execution
  segment,    \* the segment being rendered
  attempt,    \* the attempt at it
  lastError,  \* last_error of _run_segment
  decisions,  \* the segments' decisions so far
  phase,      \* phase[t]: the server's view of take t's activity
  try,        \* try[t]: tries of it started so far
  result,     \* result[t]: what it closed with
  worker,     \* worker[t][k]: where try k of take t is on its worker
  verdict,    \* verdict[t]: the evidence the take's audio and transcript give
  saved       \* saved[t]: whether the take's quality record is durable

server == <<phase, try, result>>
working == <<worker, verdict, saved>>
running == <<workflow, segment, attempt, lastError, decisions>>
vars == <<client, workflow, segment, attempt, lastError, decisions,
          phase, try, result, worker, verdict, saved>>

Finished == workflow \in {"completed", "failed"}
Idle == [k \in Tries |-> "none"]

Init ==
  /\ client = [c \in Clients |-> "idle"]
  /\ workflow = "unstarted"
  /\ segment = 1
  /\ attempt = 1
  /\ lastError = Exhausted
  /\ decisions = <<>>
  /\ phase = [t \in Takes |-> "scheduled"]
  /\ try = [t \in Takes |-> 0]
  /\ result = [t \in Takes |-> None]
  /\ worker = [t \in Takes |-> Idle]
  /\ verdict = [t \in Takes |-> None]
  /\ saved = [t \in Takes |-> FALSE]

-----------------------------------------------------------------------------
(* Mutant: a closed workflow's id may be used again.                       *)
RunEpisodeAnew(c) ==
  /\ client[c] = "idle"
  /\ client' = [client EXCEPT ![c] = "waiting"]
  /\ workflow' = "running"
  /\ decisions' = IF Finished THEN <<>> ELSE decisions
  /\ UNCHANGED <<segment, attempt, lastError, server, working>>

(* run_episode: start the workflow, or take the handle of the one that     *)
(* owns the id, running or closed (REJECT_DUPLICATE).                      *)
RunEpisode(c) ==
  /\ client[c] = "idle"
  /\ client' = [client EXCEPT ![c] = "waiting"]
  /\ workflow' = IF workflow = "unstarted" THEN "running" ELSE workflow
  /\ UNCHANGED <<segment, attempt, lastError, decisions, server, working>>

AnswerClient(c) ==
  /\ client[c] = "waiting"
  /\ Finished
  /\ client' = [client EXCEPT ![c] = "answered"]
  /\ UNCHANGED <<running, server, working>>

-----------------------------------------------------------------------------
(* The server and the worker that runs a take's activity.                  *)
StartTry(t) ==
  /\ workflow = "running"
  /\ phase[t] = "scheduled"
  /\ phase' = [phase EXCEPT ![t] = "started"]
  /\ try' = [try EXCEPT ![t] = @ + 1]
  /\ worker' = [worker EXCEPT ![t][try[t] + 1] = "running"]
  /\ UNCHANGED <<client, running, result, verdict, saved>>

(* The server closes the current try with r, or schedules the next; w are  *)
(* the tries still on their workers.                                       *)
Close(t, r, w) ==
  IF r.error \in Retryable /\ try[t] < MaximumAttempts
  THEN /\ phase' = [phase EXCEPT ![t] = "scheduled"]
       /\ worker' = [worker EXCEPT ![t] = w]
       /\ UNCHANGED result
  ELSE /\ phase' = [phase EXCEPT ![t] = "closed"]
       /\ result' = [result EXCEPT ![t] = r]
       /\ worker' = [worker EXCEPT ![t] = Idle]

(* Try k of take t ends with r.  The server drops what a try that timed    *)
(* out reports.                                                            *)
Complete(t, k, r) ==
  LET others == [worker[t] EXCEPT ![k] = "none"]
  IN /\ IF k = try[t] /\ phase[t] = "started"
        THEN Close(t, r, others)
        ELSE /\ worker' = [worker EXCEPT ![t] = others]
             /\ UNCHANGED <<phase, result>>
     /\ UNCHANGED <<client, running, try>>

(* The try finds the take's quality record,                                *)
FindQuality(t, k) ==
  /\ worker[t][k] = "running"
  /\ saved[t]
  /\ Complete(t, k, Returned(verdict[t]))
  /\ UNCHANGED <<verdict, saved>>

(* or finds none and evaluates the take's durable audio and transcript,    *)
Evaluate(t, k) ==
  /\ worker[t][k] = "running"
  /\ ~saved[t]
  /\ worker' = [worker EXCEPT ![t][k] = "evaluated"]
  /\ \E q \in IF verdict[t] = None THEN Verdicts ELSE {verdict[t]} :
       verdict' = [verdict EXCEPT ![t] = q]
  /\ UNCHANGED <<client, running, server, saved>>

(* Mutant: the verdict is returned without being saved.                    *)
SaveNoQuality(t, k) ==
  /\ worker[t][k] = "evaluated"
  /\ ~saved[t]
  /\ Complete(t, k, Returned(verdict[t]))
  /\ UNCHANGED <<verdict, saved>>

(* then saves the verdict,                                                 *)
SaveQuality(t, k) ==
  /\ worker[t][k] = "evaluated"
  /\ ~saved[t]
  /\ saved' = [saved EXCEPT ![t] = TRUE]
  /\ Complete(t, k, Returned(verdict[t]))
  /\ UNCHANGED verdict

(* which fails when another try of the take was faster (RenderActivity).   *)
SaveQualityCollides(t, k) ==
  /\ worker[t][k] = "evaluated"
  /\ saved[t]
  /\ Complete(t, k, Failed("MalformedAudioError"))
  /\ UNCHANGED <<verdict, saved>>

TryFails(t, k, x) ==
  /\ worker[t][k] = "running"
  /\ Complete(t, k, Failed(x))
  /\ UNCHANGED <<verdict, saved>>

(* The worker dies and the server is not told.                             *)
LoseTry(t, k) ==
  /\ worker[t][k] # "none"
  /\ worker' = [worker EXCEPT ![t][k] = "none"]
  /\ UNCHANGED <<client, running, server, verdict, saved>>

(* Mutant: no start_to_close_timeout.                                      *)
TimeOutNever(t) == FALSE /\ UNCHANGED vars

(* start_to_close_timeout of the current try.                              *)
TimeOut(t) ==
  /\ phase[t] = "started"
  /\ Close(t, Failed(Uncoded), worker[t])
  /\ UNCHANGED <<client, running, try, verdict, saved>>

-----------------------------------------------------------------------------
(* The workflow, once gather has returned.                                 *)
(* Mutant: gather returns with the first result.                           *)
GatheredFirst == workflow = "running" /\ \E t \in Takes : phase[t] = "closed"

Gathered == workflow = "running" /\ \A t \in Takes : phase[t] = "closed"

Ended(x) == {t \in Takes : result[t] # None /\ result[t].error = x}
Candidates == Ended("none")
Readable == Ended(Unreadable) = {}

(* Mutant: the soft score can outrank a hard gate.                         *)
EligibleByScore == {t \in Candidates : result[t].quality.score > 0
                                        \/ result[t].quality.gates = {}}

Eligible == {t \in Candidates : result[t].quality.gates = {}}

(* Mutant: ties are broken by take.                                        *)
IsBestByTake(t) ==
  /\ t \in Eligible
  /\ \A u \in Eligible : \/ result[u].quality.score < result[t].quality.score
                         \/ t <= u

(* rank_candidates: descending score, ties by candidate id.                *)
IsBest(t) ==
  /\ t \in Eligible
  /\ \A u \in Eligible : \/ result[u].quality.score < result[t].quality.score
                         \/ /\ result[u].quality.score = result[t].quality.score
                            /\ IdRank[t] <= IdRank[u]

(* terminal_error: the code of the first activity error, in take order,    *)
(* that carries one.                                                       *)
TerminalError ==
  LET coded == UNION {Ended(x) : x \in Codes}
  IN IF coded = {} THEN "none"
     ELSE result[CHOOSE t \in coded : \A u \in coded : t <= u].error

FailedGates(code) ==
  CASE code = "RightsFailureError" -> {"rights"}
    [] code = "MalformedAudioError" -> {"audio"}
    [] code = "WorkflowContractError" -> {"contract"}
    [] code = "ActivityNotConfigured" -> {"configuration"}
    [] code \in TranscriptionErrors -> {"transcription"}
    [] code = Exhausted /\ \E t \in Candidates : result[t].quality.gates # {} ->
         UNION {result[t].quality.gates : t \in Candidates}
    [] OTHER -> {"activity"}

(* Whether the error of this attempt ends the segment.                     *)
Stops ==
  \/ TerminalError \in StoppingErrors
  \/ TerminalError \in TranscriptionErrors /\ Candidates = {}

(* The activities of the next attempt are scheduled.                       *)
Schedule ==
  /\ phase' = [t \in Takes |-> "scheduled"]
  /\ try' = [t \in Takes |-> 0]
  /\ result' = [t \in Takes |-> None]
  /\ worker' = [t \in Takes |-> Idle]
  /\ verdict' = [t \in Takes |-> None]
  /\ saved' = [t \in Takes |-> FALSE]

Decide(t, code, gates) ==
  decisions' = Append(decisions, [accepted |-> t, code |-> code, gates |-> gates])

(* Mutant: the loop over the segments is not left.                         *)
FailSegment(code) ==
  /\ Decide(None, code, FailedGates(code))
  /\ IF segment < SegmentCount
     THEN /\ segment' = segment + 1
          /\ attempt' = 1
          /\ Schedule
          /\ UNCHANGED workflow
     ELSE /\ workflow' = "failed"
          /\ UNCHANGED <<segment, attempt, server, working>>
  /\ UNCHANGED client

(* The segment is decided without a candidate, which fails the episode.    *)
FailEpisode(code) ==
  /\ Decide(None, code, FailedGates(code))
  /\ workflow' = "failed"
  /\ UNCHANGED <<client, segment, attempt, server, working>>

RejectOutput ==
  /\ Gathered
  /\ ~Readable
  /\ FailEpisode(Unreadable)
  /\ UNCHANGED lastError

StopSegment ==
  /\ Gathered /\ Readable
  /\ Stops
  /\ FailEpisode(TerminalError)
  /\ UNCHANGED lastError

AcceptCandidate(t) ==
  /\ Gathered /\ Readable
  /\ ~Stops
  /\ IsBest(t)
  /\ Decide(t, "none", {})
  /\ IF segment = SegmentCount
     THEN /\ workflow' = "completed"
          /\ UNCHANGED <<segment, attempt, lastError, server, working>>
     ELSE /\ segment' = segment + 1
          /\ attempt' = 1
          /\ lastError' = Exhausted
          /\ Schedule
          /\ UNCHANGED workflow
  /\ UNCHANGED client

(* Mutant: last_error is not reset by an attempt without an error.         *)
ErrorEver == IF TerminalError = "none" THEN lastError ELSE TerminalError

ErrorOfAttempt == IF TerminalError = "none" THEN Exhausted ELSE TerminalError

RepairSegment ==
  /\ Gathered /\ Readable
  /\ ~Stops
  /\ Eligible = {}
  /\ attempt < MaxAttempts
  /\ lastError' = ErrorOfAttempt
  /\ attempt' = attempt + 1
  /\ Schedule
  /\ UNCHANGED <<client, workflow, segment, decisions>>

ExhaustAttempts ==
  /\ Gathered /\ Readable
  /\ ~Stops
  /\ Eligible = {}
  /\ attempt = MaxAttempts
  /\ lastError' = ErrorOfAttempt
  /\ FailEpisode(ErrorOfAttempt)

-----------------------------------------------------------------------------
(* Every client has its answer: nothing is left to do but for tries that   *)
(* nobody waits for.                                                       *)
AllAnswered ==
  /\ \A c \in Clients : client[c] = "answered"
  /\ UNCHANGED vars

WorkflowStep ==
  \/ RejectOutput \/ StopSegment \/ RepairSegment \/ ExhaustAttempts
  \/ \E t \in Takes : AcceptCandidate(t)

TryStep(t, k) ==
  \/ FindQuality(t, k) \/ Evaluate(t, k)
  \/ SaveQuality(t, k) \/ SaveQualityCollides(t, k)
  \/ \E x \in Raised : TryFails(t, k, x)
  \/ LoseTry(t, k)

Next ==
  \/ \E c \in Clients : RunEpisode(c) \/ AnswerClient(c)
  \/ \E t \in Takes : StartTry(t) \/ TimeOut(t)
  \/ \E t \in Takes, k \in Tries : workflow = "running" /\ TryStep(t, k)
  \/ WorkflowStep
  \/ AllAnswered

Spec == Init /\ [][Next]_vars

(* Temporal keeps dispatching scheduled activities and workflow tasks and  *)
(* times out what does not answer; it answers a client when the workflow   *)
(* closes.  Nothing is asked of the workers.                               *)
Fairness ==
  /\ \A t \in Takes : WF_vars(StartTry(t)) /\ WF_vars(TimeOut(t))
  /\ WF_vars(WorkflowStep)
  /\ \A c \in Clients : WF_vars(AnswerClient(c))
FairSpec == Spec /\ Fairness
-----------------------------------------------------------------------------
TypeOK ==
  /\ client \in [Clients -> {"idle", "waiting", "answered"}]
  /\ workflow \in {"unstarted", "running", "completed", "failed"}
  /\ segment \in 1 .. SegmentCount
  /\ attempt \in 1 .. MaxAttempts
  /\ lastError \in Codes \cup {Exhausted}
  /\ decisions \in Seq(Decision)
  /\ phase \in [Takes -> {"scheduled", "started", "closed"}]
  /\ try \in [Takes -> 0 .. MaximumAttempts]
  /\ result \in [Takes -> Result \cup {None}]
  /\ worker \in [Takes -> [Tries -> {"none", "running", "evaluated"}]]
  /\ verdict \in [Takes -> Verdicts \cup {None}]
  /\ saved \in [Takes -> BOOLEAN]

(* What the workflow decides on is durable: the quality a take closed with *)
(* is its quality record, whichever of its tries, timed out or not, wrote  *)
(* the record and whichever reported it.                                   *)
ResultsAreDurable ==
  \A t \in Takes : result[t] # None /\ result[t].error = "none" =>
    saved[t] /\ result[t].quality = verdict[t]

(* A candidate is accepted only if it passes every hard gate and no other  *)
(* take of the attempt, whenever it came back, passes them with a higher   *)
(* score, or with the same score and a smaller candidate id.               *)
Accepts(t) == decisions' # decisions /\ decisions'[Len(decisions')].accepted = t
AcceptsOnlyTheBest ==
  [][\A t \in Takes : Accepts(t) =>
       /\ verdict[t].gates = {}
       /\ \A u \in Takes \ {t} :
            saved[u] /\ result[u] = Returned(verdict[u]) /\ verdict[u].gates = {} =>
              \/ verdict[u].score < verdict[t].score
              \/ /\ verdict[u].score = verdict[t].score
                 /\ IdRank[t] < IdRank[u]]_vars

(* Only a failed segment is repaired, and only when all its takes are in:  *)
(* no activity is abandoned, no eligible candidate is thrown away, and no  *)
(* segment is started before the ones before it have a candidate.          *)
RepairsOnlyFailures ==
  [][/\ attempt' > attempt => \A t \in Takes :
          phase[t] = "closed" /\ (result[t].error = "none" => verdict[t].gates # {})
     /\ segment' > segment =>
          /\ \A t \in Takes : phase[t] = "closed"
          /\ \A i \in 1 .. segment : decisions'[i].accepted # None]_vars

(* The result adds up: an episode is completed when every segment has an   *)
(* accepted candidate, and failed by exactly the last segment it tried.    *)
EpisodeAddsUp ==
  LET accepted == {i \in 1 .. Len(decisions) : decisions[i].accepted # None}
  IN /\ workflow = "running" => Len(decisions) = segment - 1
                                 /\ accepted = 1 .. segment - 1
     /\ workflow = "completed" => Len(decisions) = SegmentCount
                                   /\ accepted = 1 .. SegmentCount
     /\ workflow = "failed" => Len(decisions) = segment
                                /\ accepted = 1 .. segment - 1

(* The terminal failure names what happened in the failing attempt: an     *)
(* error code some take ended with, exhausted gates only when none did, and*)
(* no gate that every candidate passed (tests/unit/audio/                  *)
(* test_workflow_failure_semantics.py, "Terminal evidence must not claim   *)
(* gates that the candidate passed").                                      *)
FailureIsHonest ==
  [][workflow # "failed" /\ workflow' = "failed" =>
       LET d == decisions'[Len(decisions')]
           errors == {result[t].error : t \in Takes}
       IN /\ d.gates # {}
          /\ d.code = Exhausted => errors \cap Codes = {}
          /\ d.code # Exhausted => d.code \in errors
          /\ \A g \in d.gates \cap Gates :
               \/ \E t \in Takes : result[t].error = "none" /\ g \in verdict[t].gates
               \/ g = "audio" /\ "MalformedAudioError" \in errors]_vars

(* A closed workflow is never run again: every client of the snapshot gets *)
(* the same result.                                                        *)
OutcomeIsFinal == [][Finished => UNCHANGED <<workflow, decisions>>]_vars

(* Every call of run_episode is answered, whatever workers do.             *)
EveryClientAnswered ==
  \A c \in Clients : client[c] = "waiting" ~> client[c] = "answered"

(* tests/unit/audio/test_workflow_failure_semantics.py: "A terminal        *)
(* Temporal activity error must not consume later repair attempts."        *)
TerminalErrorsStopRepair ==
  [][attempt' > attempt => \A t \in Takes : result[t].error \notin StoppingErrors]_vars
=============================================================================
