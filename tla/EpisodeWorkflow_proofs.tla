---------------------- MODULE EpisodeWorkflow_proofs ----------------------
(***************************************************************************)
(* Proofs about EpisodeWorkflow for every number of segments, attempts,    *)
(* takes and tries, every set of verdicts and every order of candidates.   *)
(***************************************************************************)
EXTENDS EpisodeWorkflow, SequenceTheorems, WellFoundedInduction, TLAPS

(***************************************************************************)
(* The inductive invariant.  A take's activity has a result exactly when   *)
(* it is closed, and a try left to it unless it is.  What is evaluated or  *)
(* saved is the take's one verdict, which is why a result is durable       *)
(* whichever try reports it.  Decisions are counted by the segment.        *)
(***************************************************************************)
PhaseInv ==
  \A t \in Takes :
    /\ phase[t] = "scheduled" => try[t] < MaximumAttempts
    /\ phase[t] = "started" => try[t] \in Tries
    /\ phase[t] = "closed" <=> result[t] # None

VerdictInv ==
  \A t \in Takes :
    /\ saved[t] => verdict[t] # None
    /\ \A k \in Tries : worker[t][k] = "evaluated" => verdict[t] # None

StartInv == workflow = "unstarted" => segment = 1 /\ decisions = <<>>

IndInv ==
  /\ TypeOK
  /\ PhaseInv
  /\ VerdictInv
  /\ ResultsAreDurable
  /\ StartInv
  /\ EpisodeAddsUp

-----------------------------------------------------------------------------
(* A non-empty set of takes has a first one.                               *)
LEMMA FirstTake ==
  ASSUME NEW S \in SUBSET Nat, S # {}
  PROVE  \E n \in S : \A m \in S : n <= m
<1> DEFINE R == {ss \in Nat \X Nat : ss[1] < ss[2]}
<1>1. IsWellFoundedOn(R, Nat)
  BY NatLessThanWellFounded DEF OpToRel
<1>2. \A m, n \in Nat : m < n => <<m, n>> \in R
  OBVIOUS
<1> HIDE DEF R
<1>3. PICK n \in S : \A m \in S : ~(<<m, n>> \in R)
  BY <1>1, WFMin
<1>4. \A m \in S : n \in Nat /\ m \in Nat /\ ~(m < n)
  BY <1>2, <1>3
<1>5. \A m \in S : n <= m
  BY <1>4
<1> QED
  BY <1>5

(* The terminal error is the error of some take, or there is none.         *)
LEMMA TerminalErrorIsRaised ==
  ASSUME TypeOK
  PROVE  \/ /\ TerminalError = "none"
            /\ \A t \in Takes : result[t] = None \/ result[t].error \notin Codes
         \/ /\ TerminalError \in Codes
            /\ \E t \in Takes : result[t] # None /\ result[t].error = TerminalError
<1> DEFINE coded == UNION {Ended(x) : x \in Codes}
           first == CHOOSE t \in coded : \A u \in coded : t <= u
<1>1. coded = {t \in Takes : result[t] # None /\ result[t].error \in Codes}
  BY DEF Ended
<1>2. CASE coded = {}
  <2>1. TerminalError = "none"
    BY <1>2 DEF TerminalError
  <2> QED
    BY <1>1, <1>2, <2>1
<1>3. CASE coded # {}
  <2>1. coded \in SUBSET Nat
    BY <1>1, EpisodeWorkflowAssumption DEF EpisodeWorkflowAssumption
  <2>2. \E t \in coded : \A u \in coded : t <= u
    BY <1>3, <2>1, FirstTake
  <2>3. first \in coded
    BY <2>2
  <2>4. TerminalError = result[first].error
    BY <1>3 DEF TerminalError
  <2> QED
    BY <1>1, <2>3, <2>4
<1> QED
  BY <1>2, <1>3

(* A code the workflow gives for a failed segment belongs to a decision.   *)
LEMMA FailedDecision ==
  ASSUME TypeOK, NEW code \in {Unreadable, Exhausted} \cup Codes
  PROVE  [accepted |-> None, code |-> code, gates |-> FailedGates(code)] \in Decision
<1>1. FailedGates(code) \in SUBSET (Gates \cup {"rights", "contract", "transcription",
                                               "configuration", "activity"})
  <2>1. \A t \in Candidates : result[t].quality.gates \subseteq Gates
    BY EpisodeWorkflowAssumption, SMTT(30)
    DEF Candidates, Ended, TypeOK, Result, Quality, Errors, Codes, Uncoded, Unreadable,
        TranscriptionErrors, StoppingErrors, EpisodeWorkflowAssumption
  <2>2. UNION {result[t].quality.gates : t \in Candidates} \subseteq Gates
    BY <2>1
  <2>3. CASE code = Exhausted
    BY <2>2, <2>3
    DEF FailedGates, Gates, Exhausted, TranscriptionErrors, Candidates, Ended
  <2>4. CASE code # Exhausted
    BY <2>4
    DEF FailedGates, Gates, TranscriptionErrors
  <2> QED
    BY <2>3, <2>4
<1> QED
  BY <1>1 DEF Decision

-----------------------------------------------------------------------------
(* A closing activity keeps the invariant if its result is durable.        *)
LEMMA CloseStep ==
  ASSUME IndInv, NEW t \in Takes, NEW r \in Result,
         NEW w \in [Tries -> {"none", "running", "evaluated"}],
         Close(t, r, w), phase[t] = "started",
         \A k \in Tries : w[k] = "evaluated" => verdict[t] # None,
         r.error = "none" => saved'[t] /\ r.quality = verdict[t],
         saved' \in [Takes -> BOOLEAN],
         \A u \in Takes : saved[u] => saved'[u],
         \A u \in Takes : saved'[u] => verdict[u] # None,
         UNCHANGED <<client, running, try, verdict>>
  PROVE  IndInv'
<1> USE DEF IndInv, Close, running
<1>1. TypeOK'
  <2>1. Idle \in [Tries -> {"none", "running", "evaluated"}]
    BY DEF Idle
  <2>2. phase' \in [Takes -> {"scheduled", "started", "closed"}]
    BY DEF TypeOK
  <2>4. result' \in [Takes -> Result \cup {None}]
    BY DEF TypeOK
  <2>3. worker' \in [Takes -> [Tries -> {"none", "running", "evaluated"}]]
    BY <2>1 DEF TypeOK
  <2> QED
    BY <2>2, <2>3, <2>4 DEF TypeOK
<1>2. PhaseInv'
  BY EpisodeWorkflowAssumption
  DEF PhaseInv, TypeOK, EpisodeWorkflowAssumption, Tries
<1>6. /\ \A u \in Takes \ {t} : worker'[u] = worker[u] /\ result'[u] = result[u]
      /\ worker'[t] = w \/ worker'[t] = Idle
      /\ result'[t] = result[t] \/ result'[t] = r
  BY DEF TypeOK
<1> HIDE DEF Close
<1>3. VerdictInv'
  <2>1. \A k \in Tries : Idle[k] # "evaluated"
    BY DEF Idle
  <2> QED
    BY <1>6, <2>1 DEF VerdictInv
<1>4. ResultsAreDurable'
  BY <1>6 DEF ResultsAreDurable
<1>5. StartInv' /\ EpisodeAddsUp'
  BY DEF StartInv, EpisodeAddsUp
<1> QED
  BY <1>1, <1>2, <1>3, <1>4, <1>5 DEF IndInv

(* So does a try that ends.                                                *)
LEMMA CompleteStep ==
  ASSUME IndInv, NEW t \in Takes, NEW k \in Tries, NEW r \in Result,
         Complete(t, k, r),
         r.error = "none" => saved'[t] /\ r.quality = verdict[t],
         saved' \in [Takes -> BOOLEAN],
         \A u \in Takes : saved[u] => saved'[u],
         \A u \in Takes : saved'[u] => verdict[u] # None,
         UNCHANGED verdict
  PROVE  IndInv'
<1> DEFINE others == [worker[t] EXCEPT ![k] = "none"]
<1>1. /\ others \in [Tries -> {"none", "running", "evaluated"}]
      /\ \A j \in Tries : others[j] = "evaluated" => verdict[t] # None
  BY DEF IndInv, TypeOK, VerdictInv
<1>2. CASE k = try[t] /\ phase[t] = "started"
  BY <1>1, <1>2, CloseStep DEF Complete
<1>3. CASE ~(k = try[t] /\ phase[t] = "started")
  <2>1. /\ worker' = [worker EXCEPT ![t] = others]
        /\ UNCHANGED <<phase, result, client, running, try>>
    BY <1>3 DEF Complete
  <2> HIDE DEF others
  <2>2. TypeOK' /\ PhaseInv'
    BY <1>1, <2>1 DEF IndInv, TypeOK, PhaseInv, running
  <2>3. VerdictInv' /\ ResultsAreDurable'
    BY <1>1, <2>1 DEF IndInv, TypeOK, VerdictInv, ResultsAreDurable
  <2>4. StartInv' /\ EpisodeAddsUp'
    BY <2>1 DEF IndInv, StartInv, EpisodeAddsUp, running
  <2> QED
    BY <2>2, <2>3, <2>4 DEF IndInv
<1> QED
  BY <1>2, <1>3

(* A verdict the workflow may be told of is a result, and so is an error.  *)
LEMMA ResultsAreTyped ==
  /\ \A q \in Verdicts : Returned(q) \in Result /\ Returned(q).error = "none"
                                                /\ Returned(q).quality = q
  /\ \A x \in Errors : Failed(x) \in Result /\ Failed(x).error # "none"
  /\ Raised \subseteq Errors /\ Uncoded \in Errors /\ "MalformedAudioError" \in Errors
BY EpisodeWorkflowAssumption
DEF Returned, Failed, Result, Errors, Codes, Uncoded, Unreadable, TranscriptionErrors,
    StoppingErrors, EpisodeWorkflowAssumption

LEMMA TrySteps ==
  ASSUME IndInv, NEW t \in Takes, NEW k \in Tries, TryStep(t, k)
  PROVE  IndInv'
<1>1. CASE FindQuality(t, k)
  <2>1. verdict[t] \in Verdicts /\ saved[t]
    BY <1>1 DEF FindQuality, IndInv, TypeOK, VerdictInv
  <2> QED
    BY <1>1, <2>1, CompleteStep, ResultsAreTyped
    DEF FindQuality, IndInv, TypeOK, VerdictInv
<1>2. CASE SaveQuality(t, k)
  <2>1. verdict[t] \in Verdicts
    BY <1>2 DEF SaveQuality, IndInv, TypeOK, VerdictInv
  <2>2. /\ saved' \in [Takes -> BOOLEAN] /\ saved'[t]
        /\ \A u \in Takes : u # t => saved'[u] = saved[u]
    BY <1>2 DEF SaveQuality, IndInv, TypeOK
  <2>3. /\ \A u \in Takes : saved[u] => saved'[u]
        /\ \A u \in Takes : saved'[u] => verdict[u] # None
    BY <2>1, <2>2, EpisodeWorkflowAssumption
    DEF IndInv, VerdictInv, EpisodeWorkflowAssumption
  <2> QED
    BY <1>2, <2>1, <2>2, <2>3, CompleteStep, ResultsAreTyped DEF SaveQuality
<1>3. CASE SaveQualityCollides(t, k)
  BY <1>3, CompleteStep, ResultsAreTyped
  DEF SaveQualityCollides, IndInv, TypeOK, VerdictInv
<1>4. ASSUME NEW x \in Raised, TryFails(t, k, x)
      PROVE  IndInv'
  BY <1>4, CompleteStep, ResultsAreTyped DEF TryFails, IndInv, TypeOK, VerdictInv
<1>5. CASE Evaluate(t, k)
  <2> USE <1>5 DEF Evaluate, running, server, IndInv
  <2>1. PICK q \in Verdicts : /\ verdict' = [verdict EXCEPT ![t] = q]
                              /\ verdict[t] = None \/ verdict[t] = q
    BY DEF TypeOK
  <2>2. q # None
    BY EpisodeWorkflowAssumption DEF EpisodeWorkflowAssumption
  <2>3. TypeOK' /\ PhaseInv'
    BY <2>1 DEF TypeOK, PhaseInv
  <2>4. VerdictInv'
    BY <2>1, <2>2 DEF TypeOK, VerdictInv
  <2>5. ResultsAreDurable'
    BY <2>1 DEF TypeOK, ResultsAreDurable
  <2>6. StartInv' /\ EpisodeAddsUp'
    BY DEF StartInv, EpisodeAddsUp
  <2> QED
    BY <2>3, <2>4, <2>5, <2>6
<1>6. CASE LoseTry(t, k)
  BY <1>6
  DEF LoseTry, running, server, IndInv, TypeOK, PhaseInv, VerdictInv, ResultsAreDurable,
      StartInv, EpisodeAddsUp
<1> QED
  BY <1>1, <1>2, <1>3, <1>4, <1>5, <1>6 DEF TryStep

(* The server starts a try, or gives one up.                               *)
LEMMA ServerSteps ==
  ASSUME IndInv, NEW t \in Takes, StartTry(t) \/ TimeOut(t)
  PROVE  IndInv'
<1>1. CASE StartTry(t)
  <2> USE <1>1 DEF StartTry, running, IndInv
  <2>1. try[t] + 1 \in Tries /\ try[t] + 1 \in 0 .. MaximumAttempts
    BY EpisodeWorkflowAssumption
    DEF TypeOK, PhaseInv, Tries, EpisodeWorkflowAssumption
  <2>2. TypeOK'
    BY <2>1 DEF TypeOK
  <2>3. PhaseInv' /\ VerdictInv'
    BY <2>1 DEF TypeOK, PhaseInv, VerdictInv
  <2>4. ResultsAreDurable' /\ StartInv' /\ EpisodeAddsUp'
    BY DEF ResultsAreDurable, StartInv, EpisodeAddsUp
  <2> QED
    BY <2>2, <2>3, <2>4
<1>2. CASE TimeOut(t)
  <2>1. /\ Failed(Uncoded) \in Result
        /\ Failed(Uncoded).error # "none"
    BY ResultsAreTyped
  <2>2. /\ worker[t] \in [Tries -> {"none", "running", "evaluated"}]
        /\ \A k \in Tries : worker[t][k] = "evaluated" => verdict[t] # None
        /\ saved \in [Takes -> BOOLEAN]
        /\ \A u \in Takes : saved[u] => verdict[u] # None
    BY DEF IndInv, TypeOK, VerdictInv
  <2>3. /\ phase[t] = "started"
        /\ Close(t, Failed(Uncoded), worker[t])
        /\ UNCHANGED <<client, running, try, verdict>>
        /\ saved' = saved
    BY <1>2 DEF TimeOut
  <2> QED
    BY <2>1, <2>2, <2>3, CloseStep
<1> QED
  BY <1>1, <1>2

(* Clients start the workflow or are answered.                             *)
LEMMA ClientSteps ==
  ASSUME IndInv, NEW c \in Clients, RunEpisode(c) \/ AnswerClient(c)
  PROVE  IndInv'
<1> USE DEF RunEpisode, AnswerClient, server, working, running, IndInv
<1>1. TypeOK'
  BY DEF TypeOK
<1>3. PhaseInv' /\ VerdictInv' /\ ResultsAreDurable' /\ StartInv'
  BY DEF PhaseInv, VerdictInv, ResultsAreDurable, StartInv
<1>2. EpisodeAddsUp'
  BY DEF EpisodeAddsUp, StartInv
<1> QED
  BY <1>1, <1>2, <1>3

-----------------------------------------------------------------------------
(* A segment that is decided without a candidate ends a running episode.   *)
LEMMA FailStep ==
  ASSUME IndInv, workflow = "running",
         NEW code \in {Unreadable, Exhausted} \cup Codes,
         FailEpisode(code), lastError' \in Codes \cup {Exhausted}
  PROVE  IndInv'
<1> DEFINE d == [accepted |-> None, code |-> code, gates |-> FailedGates(code)]
<1>1. /\ decisions' = Append(decisions, d) /\ workflow' = "failed"
      /\ UNCHANGED <<client, segment, attempt, server, working>>
  BY DEF FailEpisode, Decide
<1>2. d \in Decision /\ decisions \in Seq(Decision) /\ d.accepted = None
  BY FailedDecision DEF IndInv, TypeOK
<1> HIDE DEF d
<1>3. /\ decisions' \in Seq(Decision)
      /\ Len(decisions') = Len(decisions) + 1
      /\ \A i \in 1 .. Len(decisions) : decisions'[i] = decisions[i]
      /\ decisions'[Len(decisions) + 1] = d
  BY <1>1, <1>2, AppendProperties
<1>4. TypeOK' /\ PhaseInv' /\ VerdictInv' /\ ResultsAreDurable' /\ StartInv'
  BY <1>1, <1>3
  DEF IndInv, TypeOK, PhaseInv, VerdictInv, ResultsAreDurable, StartInv, server, working
<1>5. EpisodeAddsUp'
  <2>1. /\ Len(decisions) = segment - 1 /\ segment \in Nat /\ segment' = segment
        /\ {i \in 1 .. Len(decisions) : decisions[i].accepted # None} = 1 .. segment - 1
    BY <1>1 DEF IndInv, TypeOK, EpisodeAddsUp
  <2>2. \A i \in 1 .. segment - 1 : decisions'[i].accepted # None
    BY <1>3, <2>1
  <2>3. decisions'[segment].accepted = None
    BY <1>2, <1>3, <2>1
  <2> QED
    BY <1>1, <1>3, <2>1, <2>2, <2>3 DEF EpisodeAddsUp
<1> QED
  BY <1>4, <1>5 DEF IndInv

(* A new attempt starts with nothing done and nothing durable.             *)
LEMMA ScheduleStep ==
  ASSUME Schedule
  PROVE  /\ phase' \in [Takes -> {"scheduled", "started", "closed"}]
         /\ try' \in [Takes -> 0 .. MaximumAttempts]
         /\ result' \in [Takes -> Result \cup {None}]
         /\ worker' \in [Takes -> [Tries -> {"none", "running", "evaluated"}]]
         /\ verdict' \in [Takes -> Verdicts \cup {None}]
         /\ saved' \in [Takes -> BOOLEAN]
         /\ PhaseInv' /\ VerdictInv' /\ ResultsAreDurable'
BY EpisodeWorkflowAssumption
DEF Schedule, Idle, PhaseInv, VerdictInv, ResultsAreDurable, EpisodeWorkflowAssumption

LEMMA AcceptStep ==
  ASSUME IndInv, NEW t \in Takes, AcceptCandidate(t)
  PROVE  IndInv'
<1> DEFINE d == [accepted |-> t, code |-> "none", gates |-> {}]
<1>1. decisions' = Append(decisions, d) /\ UNCHANGED client /\ workflow = "running"
  BY DEF AcceptCandidate, Decide, Gathered
<1>2. d \in Decision /\ decisions \in Seq(Decision) /\ d.accepted # None
  BY EpisodeWorkflowAssumption DEF Decision, IndInv, TypeOK, EpisodeWorkflowAssumption
<1> HIDE DEF d
<1>3. /\ decisions' \in Seq(Decision)
      /\ Len(decisions') = Len(decisions) + 1
      /\ \A i \in 1 .. Len(decisions) : decisions'[i] = decisions[i]
      /\ decisions'[Len(decisions) + 1] = d
  BY <1>1, <1>2, AppendProperties
<1>4. /\ Len(decisions) = segment - 1 /\ segment \in 1 .. SegmentCount
      /\ {i \in 1 .. Len(decisions) : decisions[i].accepted # None} = 1 .. segment - 1
  BY <1>1 DEF IndInv, TypeOK, EpisodeAddsUp
<1>5. Len(decisions') = segment /\ \A i \in 1 .. segment : decisions'[i].accepted # None
  BY <1>2, <1>3, <1>4
<1>6. CASE segment = SegmentCount
  <2>1. /\ workflow' = "completed"
        /\ UNCHANGED <<segment, attempt, lastError, server, working>>
    BY <1>6 DEF AcceptCandidate
  <2>2. TypeOK' /\ PhaseInv' /\ VerdictInv' /\ ResultsAreDurable' /\ StartInv'
    BY <1>1, <1>3, <2>1
    DEF IndInv, TypeOK, PhaseInv, VerdictInv, ResultsAreDurable, StartInv, server, working
  <2>3. EpisodeAddsUp'
    BY <1>4, <1>5, <1>6, <2>1 DEF EpisodeAddsUp
  <2> QED
    BY <2>2, <2>3 DEF IndInv
<1>7. CASE segment # SegmentCount
  <2>1. /\ segment' = segment + 1 /\ attempt' = 1 /\ lastError' = Exhausted
        /\ Schedule /\ workflow' = workflow
    BY <1>7 DEF AcceptCandidate
  <2>2. segment' \in 1 .. SegmentCount /\ attempt' \in 1 .. MaxAttempts
    BY <1>4, <1>7, <2>1, EpisodeWorkflowAssumption DEF EpisodeWorkflowAssumption
  <2>3. TypeOK' /\ PhaseInv' /\ VerdictInv' /\ ResultsAreDurable'
    BY <1>1, <1>3, <2>1, <2>2, ScheduleStep DEF IndInv, TypeOK
  <2>4. StartInv' /\ EpisodeAddsUp'
    BY <1>1, <1>4, <1>5, <2>1 DEF StartInv, EpisodeAddsUp
  <2> QED
    BY <2>3, <2>4 DEF IndInv
<1> QED
  BY <1>6, <1>7

LEMMA WorkflowSteps ==
  ASSUME IndInv, WorkflowStep
  PROVE  IndInv'
<1>1. CASE RejectOutput
  BY <1>1, FailStep DEF RejectOutput, Gathered, IndInv, TypeOK
<1>2. CASE StopSegment
  <2>1. TerminalError \in Codes
    BY <1>2 DEF StopSegment, Stops, Codes
  <2> QED
    BY <1>2, <2>1, FailStep DEF StopSegment, Gathered, IndInv, TypeOK
<1>3. ErrorOfAttempt \in Codes \cup {Exhausted}
  BY TerminalErrorIsRaised DEF ErrorOfAttempt, IndInv
<1>4. CASE RepairSegment
  <2>1. /\ lastError' = ErrorOfAttempt /\ attempt' = attempt + 1 /\ attempt < MaxAttempts
        /\ Schedule
        /\ UNCHANGED <<client, workflow, segment, decisions>>
    BY <1>4 DEF RepairSegment
  <2>2. attempt' \in 1 .. MaxAttempts
    BY <2>1, EpisodeWorkflowAssumption DEF IndInv, TypeOK, EpisodeWorkflowAssumption
  <2>3. TypeOK' /\ PhaseInv' /\ VerdictInv' /\ ResultsAreDurable'
    BY <1>3, <2>1, <2>2, ScheduleStep DEF IndInv, TypeOK
  <2>4. StartInv' /\ EpisodeAddsUp'
    BY <2>1 DEF IndInv, StartInv, EpisodeAddsUp
  <2> QED
    BY <2>3, <2>4 DEF IndInv
<1>5. CASE ExhaustAttempts
  BY <1>3, <1>5, FailStep DEF ExhaustAttempts, Gathered
<1> QED
  BY <1>1, <1>2, <1>4, <1>5, AcceptStep DEF WorkflowStep

LEMMA InitInv == Init => IndInv
<1> SUFFICES ASSUME Init PROVE IndInv
  OBVIOUS
<1> USE EpisodeWorkflowAssumption DEF Init, EpisodeWorkflowAssumption
<1>1. TypeOK
  BY DEF TypeOK, Idle
<1>2. PhaseInv /\ VerdictInv /\ ResultsAreDurable
  BY DEF PhaseInv, VerdictInv, ResultsAreDurable, Idle
<1>3. StartInv /\ EpisodeAddsUp
  BY DEF StartInv, EpisodeAddsUp
<1> QED
  BY <1>1, <1>2, <1>3 DEF IndInv

LEMMA StepInv == IndInv /\ [Next]_vars => IndInv'
<1> SUFFICES ASSUME IndInv, [Next]_vars PROVE IndInv'
  OBVIOUS
<1>1. ASSUME NEW c \in Clients, RunEpisode(c) \/ AnswerClient(c)
      PROVE  IndInv'
  BY <1>1, ClientSteps
<1>2. ASSUME NEW t \in Takes, StartTry(t) \/ TimeOut(t)
      PROVE  IndInv'
  BY <1>2, ServerSteps
<1>3. ASSUME NEW t \in Takes, NEW k \in Tries, TryStep(t, k)
      PROVE  IndInv'
  BY <1>3, TrySteps
<1>4. CASE WorkflowStep
  BY <1>4, WorkflowSteps
<1>5. CASE UNCHANGED vars
  BY <1>5
  DEF IndInv, TypeOK, PhaseInv, VerdictInv, ResultsAreDurable, StartInv, EpisodeAddsUp, vars
<1> QED
  BY <1>1, <1>2, <1>3, <1>4, <1>5 DEF Next, AllAnswered

(* The inductive invariant holds.                                          *)
THEOREM Invariance == Spec => []IndInv
BY InitInv, StepInv, PTL DEF Spec

(* Every state variable of the workflow keeps its type, in particular what *)
(* it decides with and the attempt it is at.                               *)
THEOREM TypeCorrect == Spec => []TypeOK
<1>1. IndInv => TypeOK
  BY DEF IndInv
<1> QED
  BY <1>1, Invariance, PTL

(* What the workflow decides on is durable: whichever try of a take wrote  *)
(* the quality record, and whichever reported it, late or not.             *)
THEOREM ResultsAreDurableHolds == Spec => []ResultsAreDurable
<1>1. IndInv => ResultsAreDurable
  BY DEF IndInv
<1> QED
  BY <1>1, Invariance, PTL

(* The decisions add up to the episode's outcome.                          *)
THEOREM EpisodeAddsUpHolds == Spec => []EpisodeAddsUp
<1>1. IndInv => EpisodeAddsUp
  BY DEF IndInv
<1> QED
  BY <1>1, Invariance, PTL

-----------------------------------------------------------------------------
(* Only the workflow's own steps decide, and only while it runs.           *)
LEMMA OthersDecideNothing ==
  ASSUME [Next]_vars, ~WorkflowStep
  PROVE  /\ UNCHANGED <<segment, attempt, decisions>>
         /\ workflow # "unstarted" => workflow' = workflow
         /\ workflow' # workflow => workflow' = "running"
<1>1. ASSUME NEW c \in Clients, RunEpisode(c) \/ AnswerClient(c)
      PROVE  /\ UNCHANGED <<segment, attempt, decisions>>
             /\ workflow # "unstarted" => workflow' = workflow
             /\ workflow' # workflow => workflow' = "running"
  BY <1>1 DEF RunEpisode, AnswerClient, running
<1>2. ASSUME NEW t \in Takes, StartTry(t) \/ TimeOut(t)
      PROVE  UNCHANGED running
  BY <1>2 DEF StartTry, TimeOut
<1>3. ASSUME NEW t \in Takes, NEW k \in Tries, TryStep(t, k)
      PROVE  UNCHANGED running
  BY <1>3
  DEF TryStep, FindQuality, Evaluate, SaveQuality, SaveQualityCollides, TryFails, LoseTry,
      Complete
<1>4. CASE UNCHANGED vars
  BY <1>4 DEF vars
<1> QED
  BY <1>1, <1>2, <1>3, <1>4 DEF Next, AllAnswered, running

(* A failed segment appends a decision that accepts nothing.               *)
LEMMA FailDecides ==
  ASSUME IndInv, NEW code, FailEpisode(code)
  PROVE  /\ decisions'[Len(decisions')] =
              [accepted |-> None, code |-> code, gates |-> FailedGates(code)]
         /\ workflow' = "failed"
         /\ UNCHANGED <<segment, attempt>>
<1> DEFINE d == [accepted |-> None, code |-> code, gates |-> FailedGates(code)]
<1>1. decisions' = Append(decisions, d) /\ workflow' = "failed"
      /\ UNCHANGED <<segment, attempt>>
  BY DEF FailEpisode, Decide
<1> HIDE DEF d
<1>2. decisions'[Len(decisions')] = d
  BY <1>1 DEF IndInv, TypeOK
<1> QED
  BY <1>1, <1>2 DEF d

(* A closed workflow is never run again, whoever calls for it.             *)
THEOREM OutcomeIsFinalHolds == Spec => OutcomeIsFinal
<1>1. [Next]_vars => (Finished => UNCHANGED <<workflow, decisions>>)
  <2> SUFFICES ASSUME [Next]_vars, Finished
               PROVE  UNCHANGED <<workflow, decisions>>
    OBVIOUS
  <2>1. ~WorkflowStep
    BY DEF Finished, WorkflowStep, RejectOutput, StopSegment, RepairSegment,
           ExhaustAttempts, AcceptCandidate, Gathered
  <2>2. workflow # "unstarted"
    BY DEF Finished
  <2> QED
    BY <2>1, <2>2, OthersDecideNothing
<1> QED
  BY <1>1, PTL DEF Spec, OutcomeIsFinal

-----------------------------------------------------------------------------
(* The candidates are the takes that closed with their durable quality.    *)
LEMMA CandidatesAreDurable ==
  ASSUME IndInv
  PROVE  /\ Candidates = {t \in Takes : result[t] # None /\ result[t].error = "none"}
         /\ \A t \in Candidates : saved[t] /\ result[t].quality = verdict[t]
BY DEF IndInv, ResultsAreDurable, Candidates, Ended

(* An accepted take is the last decision's, and the best one.              *)
LEMMA AcceptDecides ==
  ASSUME IndInv, NEW t \in Takes, AcceptCandidate(t)
  PROVE  /\ decisions' = Append(decisions, decisions'[Len(decisions')])
         /\ decisions'[Len(decisions')].accepted = t
         /\ IsBest(t)
<1> DEFINE d == [accepted |-> t, code |-> "none", gates |-> {}]
<1>1. decisions' = Append(decisions, d) /\ IsBest(t) /\ d.accepted = t
  BY DEF AcceptCandidate, Decide
<1> HIDE DEF d
<1>2. decisions'[Len(decisions')] = d
  BY <1>1 DEF IndInv, TypeOK
<1> QED
  BY <1>1, <1>2

(* The workflow's step that accepts t is AcceptCandidate(t).               *)
LEMMA AcceptsByAccepting ==
  ASSUME IndInv, [Next]_vars, NEW t \in Takes, Accepts(t)
  PROVE  AcceptCandidate(t)
<1>1. WorkflowStep
  BY OthersDecideNothing DEF Accepts
<1>2. ASSUME NEW code, FailEpisode(code)
      PROVE  FALSE
  <2>1. decisions'[Len(decisions')] =
           [accepted |-> None, code |-> code, gates |-> FailedGates(code)]
    BY <1>2, FailDecides
  <2>2. decisions'[Len(decisions')].accepted = None
    BY <2>1
  <2> QED
    BY <2>2, EpisodeWorkflowAssumption DEF Accepts, EpisodeWorkflowAssumption
<1>3. ~RepairSegment
  BY DEF RepairSegment, Accepts
<1>4. ASSUME NEW u \in Takes, AcceptCandidate(u)
      PROVE  u = t
  BY <1>4, AcceptDecides DEF Accepts
<1> QED
  BY <1>1, <1>2, <1>3, <1>4
  DEF WorkflowStep, RejectOutput, StopSegment, ExhaustAttempts

(* A take is accepted only if no other one, whenever it came back, passes  *)
(* the gates and ranks before it.                                          *)
THEOREM AcceptsOnlyTheBestHolds == Spec => AcceptsOnlyTheBest
<1> DEFINE Best(t) ==
      /\ verdict[t].gates = {}
      /\ \A u \in Takes \ {t} :
           saved[u] /\ result[u] = Returned(verdict[u]) /\ verdict[u].gates = {} =>
             \/ verdict[u].score < verdict[t].score
             \/ /\ verdict[u].score = verdict[t].score
                /\ IdRank[t] < IdRank[u]
<1>1. ASSUME IndInv, [Next]_vars, NEW t \in Takes, Accepts(t)
      PROVE  Best(t)
  <2>1. IsBest(t)
    BY <1>1, AcceptsByAccepting, AcceptDecides
  <2>2. t \in Candidates /\ result[t].quality = verdict[t] /\ verdict[t].gates = {}
    BY <1>1, <2>1, CandidatesAreDurable DEF IsBest, Eligible
  <2>3. ASSUME NEW u \in Takes \ {t}, saved[u], result[u] = Returned(verdict[u]),
               verdict[u].gates = {}
        PROVE  \/ verdict[u].score < verdict[t].score
               \/ /\ verdict[u].score = verdict[t].score
                  /\ IdRank[t] < IdRank[u]
    <3>1. verdict[u] \in Verdicts
      BY <1>1, <2>3 DEF IndInv, TypeOK, VerdictInv
    <3>2. result[u] # None /\ result[u].error = "none" /\ result[u].quality = verdict[u]
      BY <2>3, <3>1, ResultsAreTyped, EpisodeWorkflowAssumption
      DEF EpisodeWorkflowAssumption
    <3>3. u \in Eligible
      BY <1>1, <2>3, <3>2, CandidatesAreDurable DEF Eligible
    <3>4. \/ verdict[u].score < verdict[t].score
          \/ /\ verdict[u].score = verdict[t].score
             /\ IdRank[t] <= IdRank[u]
      BY <2>1, <2>2, <3>2, <3>3 DEF IsBest
    <3>5. IdRank[t] \in Nat /\ IdRank[u] \in Nat /\ IdRank[t] # IdRank[u]
      BY EpisodeWorkflowAssumption DEF EpisodeWorkflowAssumption
    <3> QED
      BY <3>4, <3>5
  <2> QED
    BY <2>2, <2>3
<1>2. IndInv /\ [Next]_vars => \A t \in Takes : Accepts(t) => Best(t)
  BY <1>1
<1> QED
  BY <1>2, Invariance, PTL DEF Spec, AcceptsOnlyTheBest

(* Only a failed segment is repaired, with all its takes in, and segments  *)
(* are accepted in order.                                                  *)
THEOREM RepairsOnlyFailuresHolds == Spec => RepairsOnlyFailures
<1> DEFINE Repair == \A t \in Takes :
             phase[t] = "closed" /\ (result[t].error = "none" => verdict[t].gates # {})
           NextSegment == /\ \A t \in Takes : phase[t] = "closed"
                          /\ \A i \in 1 .. segment : decisions'[i].accepted # None
<1>1. ASSUME IndInv, [Next]_vars, attempt' > attempt
      PROVE  RepairSegment
  <2>1. WorkflowStep /\ attempt \in 1 .. MaxAttempts
    BY <1>1, OthersDecideNothing DEF IndInv, TypeOK
  <2>2. ASSUME NEW code, FailEpisode(code)
        PROVE  FALSE
    BY <1>1, <2>1, <2>2 DEF FailEpisode
  <2>3. ASSUME NEW t \in Takes, AcceptCandidate(t)
        PROVE  FALSE
    BY <1>1, <2>1, <2>3, EpisodeWorkflowAssumption
    DEF AcceptCandidate, EpisodeWorkflowAssumption
  <2> QED
    BY <2>1, <2>2, <2>3 DEF WorkflowStep, RejectOutput, StopSegment, ExhaustAttempts
<1>2. ASSUME IndInv, RepairSegment
      PROVE  Repair
  BY <1>2, CandidatesAreDurable DEF RepairSegment, Gathered, Eligible, IndInv, PhaseInv
<1>3. ASSUME IndInv, [Next]_vars, segment' > segment
      PROVE  \E t \in Takes : AcceptCandidate(t)
  <2>1. WorkflowStep /\ segment \in 1 .. SegmentCount
    BY <1>3, OthersDecideNothing DEF IndInv, TypeOK
  <2>2. ASSUME NEW code, FailEpisode(code)
        PROVE  FALSE
    BY <1>3, <2>1, <2>2 DEF FailEpisode
  <2>3. ~RepairSegment
    BY <1>3, <2>1 DEF RepairSegment
  <2> QED
    BY <2>1, <2>2, <2>3 DEF WorkflowStep, RejectOutput, StopSegment, ExhaustAttempts
<1>4. ASSUME IndInv, NEW t \in Takes, AcceptCandidate(t)
      PROVE  NextSegment
  <2>1. Gathered /\ Len(decisions) = segment - 1 /\ segment \in 1 .. SegmentCount
        /\ {i \in 1 .. Len(decisions) : decisions[i].accepted # None} = 1 .. segment - 1
        /\ decisions \in Seq(Decision)
    BY <1>4 DEF AcceptCandidate, Gathered, IndInv, TypeOK, EpisodeAddsUp
  <2>2. /\ decisions' = Append(decisions, decisions'[Len(decisions')])
        /\ decisions'[Len(decisions')].accepted # None
    BY <1>4, AcceptDecides, EpisodeWorkflowAssumption DEF EpisodeWorkflowAssumption
  <2>3. /\ Len(decisions') = segment
        /\ \A i \in 1 .. segment - 1 : decisions'[i] = decisions[i]
    BY <2>1, <2>2
  <2>4. \A i \in 1 .. segment : decisions'[i].accepted # None
    BY <2>1, <2>2, <2>3, EpisodeWorkflowAssumption DEF EpisodeWorkflowAssumption
  <2> QED
    BY <2>1, <2>4 DEF Gathered
<1>5. IndInv /\ [Next]_vars =>
        (attempt' > attempt => Repair) /\ (segment' > segment => NextSegment)
  BY <1>1, <1>2, <1>3, <1>4
<1> QED
  BY <1>5, Invariance, PTL DEF Spec, RepairsOnlyFailures

-----------------------------------------------------------------------------
(* Takes that are all in and readable carry no other errors than these.    *)
LEMMA GatesOfFailure ==
  ASSUME IndInv, Gathered, NEW g \in FailedGates(Exhausted) \cap Gates
  PROVE  \E t \in Takes : result[t].error = "none" /\ g \in verdict[t].gates
<1>1. CASE \E t \in Candidates : result[t].quality.gates # {}
  <2>1. FailedGates(Exhausted) = UNION {result[t].quality.gates : t \in Candidates}
    BY <1>1
    DEF FailedGates, Exhausted, TranscriptionErrors
  <2>2. PICK t \in Candidates : g \in result[t].quality.gates
    BY <2>1
  <2> QED
    BY <2>2, CandidatesAreDurable
<1>2. CASE ~ \E t \in Candidates : result[t].quality.gates # {}
  <2>1. FailedGates(Exhausted) = {"activity"}
    BY <1>2
    DEF FailedGates, Exhausted, TranscriptionErrors
  <2> QED
    BY <2>1 DEF Gates
<1> QED
  BY <1>1, <1>2

(* An error the workflow knows fails one gate of its own.                  *)
LEMMA GatesOfError ==
  ASSUME NEW code \in Codes
  PROVE  /\ FailedGates(code) # {}
         /\ \A g \in FailedGates(code) \cap Gates :
              g = "audio" /\ code = "MalformedAudioError"
<1>1. CASE code \in TranscriptionErrors
  <2>1. FailedGates(code) = {"transcription"}
    BY <1>1 DEF FailedGates, TranscriptionErrors, Exhausted
  <2> QED
    BY <2>1 DEF Gates
<1>2. CASE code \in StoppingErrors
  <2>1. /\ code = "RightsFailureError" => FailedGates(code) = {"rights"}
        /\ code = "MalformedAudioError" => FailedGates(code) = {"audio"}
        /\ code = "WorkflowContractError" => FailedGates(code) = {"contract"}
        /\ code = "ActivityNotConfigured" => FailedGates(code) = {"configuration"}
    BY DEF FailedGates, TranscriptionErrors, Exhausted
  <2> QED
    BY <1>2, <2>1 DEF Gates, StoppingErrors
<1> QED
  BY <1>1, <1>2 DEF Codes

(* The terminal failure names an error some take of the failing attempt    *)
(* ended with, or gates some candidate failed; it says the attempts were   *)
(* used up only if no take ended with an error the workflow knows.         *)
THEOREM FailureIsHonestHolds == Spec => FailureIsHonest
<1> DEFINE errors == {result[t].error : t \in Takes}
           Honest(code, gates) ==
             /\ gates # {}
             /\ code = Exhausted => errors \cap Codes = {}
             /\ code # Exhausted => code \in errors
             /\ \A g \in gates \cap Gates :
                  \/ \E t \in Takes : result[t].error = "none" /\ g \in verdict[t].gates
                  \/ g = "audio" /\ "MalformedAudioError" \in errors
<1>1. ASSUME IndInv, RejectOutput
      PROVE  FailEpisode(Unreadable) /\ Honest(Unreadable, FailedGates(Unreadable))
  <2>1. FailEpisode(Unreadable) /\ Unreadable \in errors
    BY <1>1 DEF RejectOutput, Readable, Ended
  <2>2. FailedGates(Unreadable) = {"activity"} /\ Unreadable # Exhausted
    BY DEF FailedGates, Unreadable, Exhausted, TranscriptionErrors
  <2> QED
    BY <2>1, <2>2 DEF Gates
<1>2. ASSUME IndInv, TerminalError \in Codes
      PROVE  Honest(TerminalError, FailedGates(TerminalError))
  <2>1. TerminalError \in errors /\ TerminalError # Exhausted
    BY <1>2, TerminalErrorIsRaised
    DEF IndInv, Codes, TranscriptionErrors, StoppingErrors, Exhausted
  <2>2. /\ FailedGates(TerminalError) # {}
        /\ \A g \in FailedGates(TerminalError) \cap Gates :
             g = "audio" /\ TerminalError = "MalformedAudioError"
    BY <1>2, GatesOfError
  <2> HIDE DEF errors
  <2> QED
    BY <2>1, <2>2
<1>3. ASSUME IndInv, Gathered, TerminalError = "none"
      PROVE  Honest(Exhausted, FailedGates(Exhausted))
  <2>1. errors \cap Codes = {}
    <3>1. "none" \notin Codes
      BY DEF Codes, TranscriptionErrors, StoppingErrors
    <3>2. \A t \in Takes : result[t] # None
      BY <1>3 DEF IndInv, Gathered, PhaseInv
    <3> QED
      BY <1>3, <3>1, <3>2, TerminalErrorIsRaised DEF IndInv
  <2>2. FailedGates(Exhausted) # {}
    BY DEF FailedGates, Exhausted, TranscriptionErrors
  <2> QED
    BY <1>3, <2>1, <2>2, GatesOfFailure
<1>4. ASSUME IndInv, [Next]_vars, workflow # "failed", workflow' = "failed"
      PROVE  \E code : FailEpisode(code) /\ Honest(code, FailedGates(code))
  <2>1. WorkflowStep
    BY <1>4, OthersDecideNothing
  <2>2. CASE RejectOutput
    BY <1>1, <1>4, <2>2
  <2>3. CASE StopSegment
    <3>1. TerminalError \in Codes /\ FailEpisode(TerminalError)
      BY <2>3 DEF StopSegment, Stops, Codes
    <3> QED
      BY <1>2, <1>4, <3>1
  <2>4. CASE ExhaustAttempts
    <3>1. Gathered /\ FailEpisode(ErrorOfAttempt)
      BY <2>4 DEF ExhaustAttempts
    <3>2. Honest(ErrorOfAttempt, FailedGates(ErrorOfAttempt))
      BY <1>2, <1>3, <1>4, <3>1, TerminalErrorIsRaised DEF ErrorOfAttempt, IndInv
    <3> QED
      BY <3>1, <3>2
  <2>5. ~RepairSegment
    BY <1>4 DEF RepairSegment
  <2>6. \A t \in Takes : ~AcceptCandidate(t)
    BY <1>4 DEF AcceptCandidate
  <2> QED
    BY <2>1, <2>2, <2>3, <2>4, <2>5, <2>6 DEF WorkflowStep
<1>5. ASSUME IndInv, [Next]_vars, workflow # "failed", workflow' = "failed"
      PROVE  Honest(decisions'[Len(decisions')].code, decisions'[Len(decisions')].gates)
  <2>1. PICK code : FailEpisode(code) /\ Honest(code, FailedGates(code))
    BY <1>4, <1>5
  <2>2. decisions'[Len(decisions')] =
           [accepted |-> None, code |-> code, gates |-> FailedGates(code)]
    BY <1>5, <2>1, FailDecides
  <2>3. /\ decisions'[Len(decisions')].code = code
        /\ decisions'[Len(decisions')].gates = FailedGates(code)
    BY <2>2
  <2> QED
    BY <2>1, <2>3
<1>6. IndInv /\ [Next]_vars =>
        (workflow # "failed" /\ workflow' = "failed" =>
           Honest(decisions'[Len(decisions')].code, decisions'[Len(decisions')].gates))
  BY <1>5
<1> QED
  BY <1>6, Invariance, PTL DEF Spec, FailureIsHonest
=============================================================================
