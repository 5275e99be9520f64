--------------------------- MODULE RenderActivity ---------------------------
(***************************************************************************)
(* The render activity a Temporal worker executes for one take             *)
(* (audio/activities.py), in its provider-backed form: a transcriber with  *)
(* quality and transcription records (audio/storage.py).                   *)
(*                                                                         *)
(* An execution renders its take through DurableRender, of which it sees   *)
(* only the promise of RenderEvidence, then                                *)
(*   1. returns the quality record of (candidate, critical tokens) if any; *)
(*   2. reads and diagnoses the artifact;                                  *)
(*   3. under a process lock and a file lock of the candidate, loads the   *)
(*      durable transcript, or calls the transcriber and stores its answer;*)
(*   4. stores the quality record and returns it.                          *)
(* An execution that exceeds its 30 s is not stopped: Temporal starts the  *)
(* next attempt beside it.  Attempts, such zombies and the executions of   *)
(* other workflows over the same take are all members of Execs.            *)
(***************************************************************************)
EXTENDS Naturals, FiniteSets

CONSTANTS
  Execs,       \* activity executions
  Procs,       \* worker processes
  Home,        \* Home[e]: the process execution e runs in
  Takes,       \* takes; a take's candidate id and render key are one identity
  TokenLists,  \* critical token lists a segment may be evaluated against
  Audio,       \* provider outputs
  Texts,       \* texts the transcriber may return
  OpenMayFail, \* whether opening a claim file may raise OSError
  NoOne,       \* a lock nobody holds
  Nothing      \* no record, no result

(* What render_takes delivers for a take, and what the transcriber's answer*)
(* to one execution is worth: the text, and the checksum of the audio it   *)
(* was made from.                                                          *)
Evidence == [audio : Audio, request : Execs]
Transcript == [text : Texts, audio : Audio, request : Execs]

(* Candidate quality.  Fidelity is a function of tokens and text, the      *)
(* diagnostics are a function of the audio: neither is stored apart.       *)
Quality == [take : Takes, tokens : TokenLists, transcript : Transcript]

(* What a payload names.                                                   *)
Inputs == [take : Takes, tokens : TokenLists]

ASSUME RenderActivityAssumption ==
  /\ Home \in [Execs -> Procs]
  /\ OpenMayFail \in BOOLEAN
  /\ NoOne \notin Execs
  /\ Nothing \notin Evidence \cup Transcript \cup Quality \cup Inputs

VARIABLES
  evidence, delivered, charged,  \* the render service, see RenderEvidence
  pc,           \* pc[e]: where execution e is
  input,        \* input[e]: the take and the tokens of e's payload
  heard,        \* heard[e]: the transcript e evaluates
  result,       \* result[e]: the quality e returned
  error,        \* error[e]: how e failed
  transcripts,  \* transcripts[t]: the transcription record of take t
  qualities,    \* qualities[t, k]: the quality record of take t and tokens k
  processLock,  \* processLock[p][t]: _TRANSCRIPTION_CLAIMS of process p
  fileLock,     \* fileLock[t]: the flock of take t's claim file
  calls         \* calls[e]: transcriber calls that e made (history)

rendering == <<evidence, delivered, charged>>
locks == <<processLock, fileLock>>
records == <<transcripts, qualities>>
vars == <<evidence, delivered, charged, pc, input, heard, result, error,
          transcripts, qualities, processLock, fileLock, calls>>

Render == INSTANCE RenderEvidence WITH Callers <- Execs, NoEvidence <- Nothing

Settled == {"returned", "failed", "dead"}
Running == {"render", "cache", "read", "lock", "flock", "lookup",
            "transcribe", "store", "unlock", "save"}

(* Application error types, by whether Temporal may retry them.  Anything  *)
(* the handler does not map (provider and OS errors, conflicts) is retried.*)
(* "Refused" stands for RightsFailureError and WorkflowContractError.      *)
Errors == {"none", "Refused", "MalformedAudio", "TranscriptionFailure",
           "TranscriptionTransient", "unmapped"}

NoInput == Nothing
take(e) == input[e].take

(* Mutant: the cache key is the candidate's id, whatever the tokens.       *)
KeyOfCandidate(e) == <<input[e].take, CHOOSE k \in TokenLists : TRUE>>
(* _quality_cache_key: candidate id and ordered tokens.                    *)
key(e) == <<input[e].take, input[e].tokens>>

Init ==
  /\ Render!Init
  /\ pc = [e \in Execs |-> "new"]
  /\ input = [e \in Execs |-> NoInput]
  /\ heard = [e \in Execs |-> Nothing]
  /\ result = [e \in Execs |-> Nothing]
  /\ error = [e \in Execs |-> "none"]
  /\ transcripts = [t \in Takes |-> Nothing]
  /\ qualities = [k \in Takes \X TokenLists |-> Nothing]
  /\ processLock = [p \in Procs |-> [t \in Takes |-> NoOne]]
  /\ fileLock = [t \in Takes |-> NoOne]
  /\ calls = [e \in Execs |-> 0]

Goto(e, l) == pc' = [pc EXCEPT ![e] = l]
Fail(e, x) == Goto(e, "failed") /\ error' = [error EXCEPT ![e] = x]

-----------------------------------------------------------------------------
(* The payload parses, its key matches the snapshot, preflight passes.     *)
RunRenderActivity(e) ==
  /\ pc[e] = "new"
  /\ \E i \in Inputs : input' = [input EXCEPT ![e] = i]
  /\ Goto(e, "render")
  /\ UNCHANGED <<rendering, heard, result, error, records, locks, calls>>

RejectPayload(e) ==
  /\ pc[e] = "new"
  /\ \E x \in {"Refused", "MalformedAudio"} : Fail(e, x)
  /\ UNCHANGED <<rendering, input, heard, result, records, locks, calls>>

(* render_takes with take_count 1: e's provider call becomes the evidence, *)
RenderNew(e) ==
  /\ pc[e] = "render"
  /\ \E a \in Audio : Render!Persist(take(e), [audio |-> a, request |-> e])
  /\ UNCHANGED <<pc, input, heard, result, error, records, locks, calls>>

(* e is answered with the durable evidence, its own or a replay,           *)
RenderAnswers(e) ==
  /\ pc[e] = "render"
  /\ evidence[take(e)] # Nothing
  /\ Render!Answer(e, {take(e)}, {t \in {take(e)} : evidence[t].request = e})
  /\ Goto(e, "cache")
  /\ UNCHANGED <<input, heard, result, error, records, locks, calls>>

(* or the render raises: rejected or corrupt evidence, a provider or an OS *)
(* error.                                                                  *)
RenderFails(e) ==
  /\ pc[e] = "render"
  /\ \E x \in {"MalformedAudio", "unmapped"} : Fail(e, x)
  /\ UNCHANGED <<rendering, input, heard, result, records, locks, calls>>

(* quality_records.find under the cache key of candidate and tokens.       *)
FindQuality(e) ==
  /\ pc[e] = "cache"
  /\ qualities[key(e)] # Nothing
  /\ result' = [result EXCEPT ![e] = qualities[key(e)]]
  /\ Goto(e, "returned")
  /\ UNCHANGED <<rendering, input, heard, error, records, locks, calls>>

MissQuality(e) ==
  /\ pc[e] = "cache"
  /\ qualities[key(e)] = Nothing
  /\ Goto(e, "read")
  /\ UNCHANGED <<rendering, input, heard, result, error, records, locks, calls>>

(* The quality record cannot be read, or is not one.                       *)
FindQualityFails(e) ==
  /\ pc[e] = "cache"
  /\ qualities[key(e)] # Nothing
  /\ Fail(e, "MalformedAudio")
  /\ UNCHANGED <<rendering, input, heard, result, records, locks, calls>>

ReadAndDiagnose(e) ==
  /\ pc[e] = "read"
  /\ Goto(e, "lock")
  /\ UNCHANGED <<rendering, input, heard, result, error, records, locks, calls>>

ReadOrDiagnoseFails(e) ==
  /\ pc[e] = "read"
  /\ Fail(e, "MalformedAudio")
  /\ UNCHANGED <<rendering, input, heard, result, records, locks, calls>>

-----------------------------------------------------------------------------
(* _transcription_claim: the process's lock of the candidate first,        *)
AcquireProcessLock(e) ==
  /\ pc[e] = "lock"
  /\ processLock[Home[e]][take(e)] = NoOne
  /\ processLock' = [processLock EXCEPT ![Home[e]][take(e)] = e]
  /\ Goto(e, "flock")
  /\ UNCHANGED <<rendering, input, heard, result, error, records, fileLock, calls>>

(* then its claim file is opened: if that raises, it is                    *)
(* between the acquire and the try whose finally releases the lock,        *)
OpenClaimFileFails(e) ==
  /\ OpenMayFail
  /\ pc[e] = "flock"
  /\ Fail(e, "unmapped")
  /\ UNCHANGED <<rendering, input, heard, result, records, locks, calls>>

(* Mutant: the file lock is shared (LOCK_SH).                              *)
AcquireSharedFileLock(e) ==
  /\ pc[e] = "flock"
  /\ fileLock' = [fileLock EXCEPT ![take(e)] = e]
  /\ Goto(e, "lookup")
  /\ UNCHANGED <<rendering, input, heard, result, error, records, processLock,
                 calls>>

(* then the lock of that file, shared by all processes.                    *)
AcquireFileLock(e) ==
  /\ pc[e] = "flock"
  /\ fileLock[take(e)] = NoOne
  /\ fileLock' = [fileLock EXCEPT ![take(e)] = e]
  /\ Goto(e, "lookup")
  /\ UNCHANGED <<rendering, input, heard, result, error, records, processLock,
                 calls>>

FindTranscript(e) ==
  /\ pc[e] = "lookup"
  /\ transcripts[take(e)] # Nothing
  /\ heard' = [heard EXCEPT ![e] = transcripts[take(e)]]
  /\ Goto(e, "unlock")
  /\ UNCHANGED <<rendering, input, result, error, records, locks, calls>>

(* The transcription record cannot be read, or is not one.                 *)
FindTranscriptFails(e) ==
  /\ pc[e] = "lookup"
  /\ transcripts[take(e)] # Nothing
  /\ error' = [error EXCEPT ![e] = "TranscriptionFailure"]
  /\ Goto(e, "unlock")
  /\ UNCHANGED <<rendering, input, heard, result, records, locks, calls>>

(* Mutant: the transcriber is called before the record is looked up.       *)
TranscribeFirst(e) ==
  /\ pc[e] = "lookup"
  /\ calls' = [calls EXCEPT ![e] = @ + 1]
  /\ Goto(e, "transcribe")
  /\ UNCHANGED <<rendering, input, heard, result, error, records, locks>>

Transcribe(e) ==
  /\ pc[e] = "lookup"
  /\ transcripts[take(e)] = Nothing
  /\ calls' = [calls EXCEPT ![e] = @ + 1]
  /\ Goto(e, "transcribe")
  /\ UNCHANGED <<rendering, input, heard, result, error, records, locks>>

(* The answer is valid: text not blank, checksum that of the audio sent.   *)
TranscriberReturns(e) ==
  /\ pc[e] = "transcribe"
  /\ \E x \in Texts :
       heard' = [heard EXCEPT ![e] = [text |-> x, request |-> e,
                                      audio |-> delivered[e][take(e)].audio]]
  /\ Goto(e, "store")
  /\ UNCHANGED <<rendering, input, result, error, records, locks, calls>>

(* Rate limits and timeouts are transient, anything else is terminal, an   *)
(* invalid answer included.  The error surfaces after the claim is gone.   *)
TranscriberFails(e) ==
  /\ pc[e] = "transcribe"
  /\ \E x \in {"TranscriptionFailure", "TranscriptionTransient"} :
       error' = [error EXCEPT ![e] = x]
  /\ Goto(e, "unlock")
  /\ UNCHANGED <<rendering, input, heard, result, records, locks, calls>>

(* Mutant: the answer is used without being stored.                        *)
StoreNoTranscript(e) ==
  /\ pc[e] = "store"
  /\ Goto(e, "unlock")
  /\ UNCHANGED <<rendering, input, heard, result, error, records, locks, calls>>

(* FilesystemTranscriptionRecordStore.save: link once; a record already    *)
(* there must be the same.                                                 *)
StoreTranscript(e) ==
  /\ pc[e] = "store"
  /\ IF transcripts[take(e)] \in {Nothing, heard[e]}
     THEN /\ transcripts' = [transcripts EXCEPT ![take(e)] = heard[e]]
          /\ UNCHANGED error
     ELSE /\ error' = [error EXCEPT ![e] = "TranscriptionFailure"]
          /\ UNCHANGED transcripts
  /\ Goto(e, "unlock")
  /\ UNCHANGED <<rendering, input, heard, result, qualities, locks, calls>>

(* The filesystem fails, before the record is linked or after it: nothing  *)
(* maps the error, and a paid answer may be lost.                          *)
StoreTranscriptFails(e) ==
  /\ pc[e] = "store"
  /\ \/ UNCHANGED transcripts
     \/ /\ transcripts[take(e)] = Nothing
        /\ transcripts' = [transcripts EXCEPT ![take(e)] = heard[e]]
  /\ error' = [error EXCEPT ![e] = "unmapped"]
  /\ Goto(e, "unlock")
  /\ UNCHANGED <<rendering, input, heard, result, qualities, locks, calls>>

(* Mutant: only the process lock is given back.                            *)
ReleaseProcessLock(e) ==
  /\ pc[e] = "unlock"
  /\ processLock' = [processLock EXCEPT ![Home[e]][take(e)] = NoOne]
  /\ Goto(e, IF error[e] = "none" THEN "save" ELSE "failed")
  /\ UNCHANGED <<rendering, input, heard, result, error, records, fileLock,
                 calls>>

(* The finally blocks: flock(LOCK_UN), close, process_lock.release.        *)
ReleaseLocks(e) ==
  /\ pc[e] = "unlock"
  /\ fileLock' = [fileLock EXCEPT ![take(e)] = NoOne]
  /\ processLock' = [processLock EXCEPT ![Home[e]][take(e)] = NoOne]
  /\ Goto(e, IF error[e] = "none" THEN "save" ELSE "failed")
  /\ UNCHANGED <<rendering, input, heard, result, error, records, calls>>

-----------------------------------------------------------------------------
Verdict(e) ==
  [take |-> take(e), tokens |-> input[e].tokens, transcript |-> heard[e]]

(* FilesystemQualityRecordStore.save with a cache key: the link succeeds   *)
SaveQuality(e) ==
  /\ pc[e] = "save"
  /\ qualities[key(e)] = Nothing
  /\ qualities' = [qualities EXCEPT ![key(e)] = Verdict(e)]
  /\ result' = [result EXCEPT ![e] = Verdict(e)]
  /\ Goto(e, "returned")
  /\ UNCHANGED <<rendering, input, heard, error, transcripts, locks, calls>>

(* or the file exists, and the save loads it to compare: load(key) takes   *)
(* the key for the candidate id, which a cache key never is, and raises    *)
(* ArtifactIntegrityError whatever the record says.                        *)
SaveQualityCollides(e) ==
  /\ pc[e] = "save"
  /\ qualities[key(e)] # Nothing
  /\ Fail(e, "MalformedAudio")
  /\ UNCHANGED <<rendering, input, heard, result, records, locks, calls>>

(* The filesystem fails, before the verdict is linked or after it.         *)
SaveQualityFails(e) ==
  /\ pc[e] = "save"
  /\ \/ UNCHANGED qualities
     \/ /\ qualities[key(e)] = Nothing
        /\ qualities' = [qualities EXCEPT ![key(e)] = Verdict(e)]
  /\ Fail(e, "unmapped")
  /\ UNCHANGED <<rendering, input, heard, result, transcripts, locks, calls>>

(* A worker process dies with its executions, its locks and its claims.    *)
Crash(p) ==
  LET lost == {e \in Execs : Home[e] = p /\ pc[e] \in Running}
  IN /\ lost # {}
     /\ pc' = [e \in Execs |-> IF e \in lost THEN "dead" ELSE pc[e]]
     /\ processLock' = [processLock EXCEPT ![p] = [t \in Takes |-> NoOne]]
     /\ fileLock' = [t \in Takes |-> IF fileLock[t] \in lost THEN NoOne
                                                            ELSE fileLock[t]]
     /\ UNCHANGED <<rendering, input, heard, result, error, records, calls>>

AllSettled ==
  /\ \A e \in Execs : pc[e] \in Settled
  /\ UNCHANGED vars

ExecStep(e) ==
  \/ RenderNew(e) \/ RenderAnswers(e) \/ RenderFails(e)
  \/ FindQuality(e) \/ MissQuality(e) \/ FindQualityFails(e)
  \/ ReadAndDiagnose(e) \/ ReadOrDiagnoseFails(e)
  \/ AcquireProcessLock(e) \/ AcquireFileLock(e)
  \/ FindTranscript(e) \/ FindTranscriptFails(e) \/ Transcribe(e)
  \/ TranscriberReturns(e) \/ TranscriberFails(e)
  \/ StoreTranscript(e) \/ StoreTranscriptFails(e) \/ ReleaseLocks(e)
  \/ SaveQuality(e) \/ SaveQualityCollides(e) \/ SaveQualityFails(e)

Next ==
  \/ \E e \in Execs : RunRenderActivity(e) \/ RejectPayload(e)
                        \/ OpenClaimFileFails(e) \/ ExecStep(e)
  \/ \E p \in Procs : Crash(p)
  \/ AllSettled

Spec == Init /\ [][Next]_vars

(* A started execution keeps running, locks are granted, providers answer  *)
(* or time out.                                                            *)
FairSpec == Spec /\ \A e \in Execs : WF_vars(ExecStep(e))
-----------------------------------------------------------------------------
TypeOK ==
  /\ evidence \in [Takes -> Evidence \cup {Nothing}]
  /\ delivered \in [Execs -> [Takes -> Evidence \cup {Nothing}]]
  /\ charged \in [Execs -> SUBSET Takes]
  /\ pc \in [Execs -> Settled \cup Running \cup {"new"}]
  /\ input \in [Execs -> Inputs \cup {NoInput}]
  /\ heard \in [Execs -> Transcript \cup {Nothing}]
  /\ result \in [Execs -> Quality \cup {Nothing}]
  /\ error \in [Execs -> Errors]
  /\ transcripts \in [Takes -> Transcript \cup {Nothing}]
  /\ qualities \in [Takes \X TokenLists -> Quality \cup {Nothing}]
  /\ processLock \in [Procs -> [Takes -> Execs \cup {NoOne}]]
  /\ fileLock \in [Takes -> Execs \cup {NoOne}]
  /\ calls \in [Execs -> Nat]

(* The executions that called the transcriber for take t, and those of     *)
(* them that failed or died without their answer going on record.          *)
Payers(t) == {e \in Execs : calls[e] > 0 /\ take(e) = t}
Losers(t) ==
  {e \in Payers(t) : /\ pc[e] = "dead" \/ error[e] # "none"
                     /\ transcripts[t] = Nothing \/ transcripts[t].request # e}

(* Every transcriber call for a take but one was lost, by an error or with *)
(* its process, and none is made twice: concurrent executions share one    *)
(* paid call (tests/unit/audio/test_activities.py, "Concurrent retries     *)
(* must share one paid transcription result").                             *)
CallsBoundedByLosses ==
  /\ \A e \in Execs : calls[e] <= 1
  /\ \A t \in Takes : \A e, f \in Payers(t) \ Losers(t) : e = f

(* Executions over the same take that return agree: on the transcript,     *)
(* whatever their tokens, and on the whole verdict for the same tokens.    *)
VerdictsAgree ==
  \A e, f \in Execs :
    /\ pc[e] = "returned" /\ pc[f] = "returned"
    /\ take(e) = take(f)
    => /\ result[e].transcript = result[f].transcript
       /\ input[e] = input[f] => result[e] = result[f]

(* A verdict rests on durable evidence: the transcript in it is the one on *)
(* record, and was made from the audio of the take's render record.        *)
VerdictsAreBacked ==
  \A e \in Execs : pc[e] = "returned" =>
    LET q == result[e]
    IN /\ q.take = take(e) /\ q.tokens = input[e].tokens
       /\ q.transcript = transcripts[take(e)]
       /\ q.transcript.audio = evidence[take(e)].audio

(* Durable records are written once, and the transcriber is not called for *)
(* a take whose transcript is on record.                                   *)
RecordsAreFinal ==
  [][/\ \A t \in Takes : transcripts[t] # Nothing =>
          transcripts'[t] = transcripts[t] /\ Payers(t)' = Payers(t)
     /\ \A k \in DOMAIN qualities : qualities[k] # Nothing =>
          qualities'[k] = qualities[k]]_vars

(* activities.py, _transcription_claim: "Hold a process and filesystem     *)
(* claim until transcription evidence is saved."  A claim has a holder     *)
(* that is still running.                                                  *)
ClaimsEndWithTheirHolder ==
  \A p \in Procs, t \in Takes :
    processLock[p][t] # NoOne => pc[processLock[p][t]] \in Running

(* Every execution that starts returns, fails or dies with its process,    *)
(* unless a claim was lost: the process lock and the file lock behind it   *)
(* cannot deadlock, and an error on the way gives both back.               *)
EveryExecutionSettles ==
  \A e \in Execs : pc[e] = "render" ~> pc[e] \in Settled \/ ~ClaimsEndWithTheirHolder

(* storage.py, FilesystemQualityRecordStore.save: "Store quality once or   *)
(* reject conflicting evidence for its candidate."  An execution past its  *)
(* transcription fails only when the record on disk differs from its own   *)
(* verdict.                                                                *)
RejectsOnlyConflicts ==
  \A e \in Execs :
    pc[e] = "failed" /\ error[e] = "MalformedAudio" /\ heard[e] # Nothing =>
      qualities[key(e)] # Verdict(e)
=============================================================================
