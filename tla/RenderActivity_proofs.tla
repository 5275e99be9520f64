----------------------- MODULE RenderActivity_proofs -----------------------
(***************************************************************************)
(* Proofs about RenderActivity for every set of executions, processes,     *)
(* takes and token lists, whichever executions share a process.            *)
(***************************************************************************)
EXTENDS RenderActivity, TLAPS

(***************************************************************************)
(* The inductive invariant.  The verdicts of executions agree because each *)
(* is the record on disk, and the record on disk is the only one there was *)
(* because an execution between lookup and release holds the file lock of  *)
(* its candidate.  Which process lock it holds does not matter.            *)
(***************************************************************************)
Answered == {"cache", "read", "lock", "flock", "lookup", "transcribe", "store",
             "unlock", "save", "returned"}
Claiming == {"lookup", "transcribe", "store", "unlock"}

InputInv ==
  \A e \in Execs : pc[e] \in Running \cup {"returned"} => input[e] \in Inputs

(* An execution past its render has the evidence of its take,              *)
DeliveryInv ==
  \A e \in Execs : pc[e] \in Answered =>
    /\ evidence[take(e)] # Nothing
    /\ delivered[e][take(e)] = evidence[take(e)]

(* works on its transcript under the file lock,                            *)
ClaimInv ==
  \A e \in Execs :
    /\ pc[e] \in Claiming => fileLock[take(e)] = e
    /\ pc[e] \in {"transcribe", "store"} => transcripts[take(e)] = Nothing

(* has heard the transcript on record unless it has failed,                *)
HeardInv ==
  \A e \in Execs :
    /\ pc[e] = "store" =>
         /\ heard[e] \in Transcript /\ heard[e].request = e
         /\ heard[e].audio = evidence[take(e)].audio
    /\ pc[e] = "save" \/ (pc[e] = "unlock" /\ error[e] = "none") =>
         heard[e] # Nothing /\ heard[e] = transcripts[take(e)]

(* and returns the verdict on record.                                      *)
ResultInv ==
  \A e \in Execs : pc[e] = "returned" =>
    qualities[key(e)] # Nothing /\ result[e] = qualities[key(e)]

(* A transcript was made from the audio of its take's evidence, a verdict  *)
(* from the transcript of its take.                                        *)
TranscriptInv ==
  \A t \in Takes : transcripts[t] # Nothing =>
    evidence[t] # Nothing /\ transcripts[t].audio = evidence[t].audio

QualityInv ==
  \A t \in Takes, k \in TokenLists : qualities[<<t, k>>] # Nothing =>
    /\ qualities[<<t, k>>].take = t /\ qualities[<<t, k>>].tokens = k
    /\ transcripts[t] # Nothing
    /\ qualities[<<t, k>>].transcript = transcripts[t]

IndInv ==
  /\ TypeOK
  /\ InputInv
  /\ DeliveryInv
  /\ ClaimInv
  /\ HeardInv
  /\ ResultInv
  /\ TranscriptInv
  /\ QualityInv

-----------------------------------------------------------------------------
(* The invariant holds before anything has run.                            *)
LEMMA InitInv == Init => IndInv
BY RenderActivityAssumption
   DEF Init, IndInv, TypeOK, InputInv, DeliveryInv, ClaimInv, HeardInv,
       ResultInv, TranscriptInv, QualityInv, Answered, Claiming, Settled,
       Running, Inputs, Errors, NoInput, Render!Init, Render!NoAnswers

(* The payload is accepted or refused, the render answers or fails: of the *)
(* records only the evidence grows, and only where there was none.         *)
LEMMA RenderSteps ==
  ASSUME IndInv, NEW e \in Execs,
         \/ RunRenderActivity(e) \/ RejectPayload(e) \/ RenderNew(e)
         \/ RenderAnswers(e) \/ RenderFails(e)
  PROVE  IndInv'
<1> USE RenderActivityAssumption DEF IndInv
<1>1. CASE RunRenderActivity(e)
  <2> USE <1>1 DEF RunRenderActivity, Goto, rendering, records, locks
  <2>1. TypeOK'
    BY DEF Running, TypeOK
  <2>2. InputInv' /\ DeliveryInv' /\ ClaimInv'
    BY DEF take, TypeOK, InputInv, DeliveryInv, ClaimInv, Answered, Claiming
  <2>3. HeardInv' /\ ResultInv'
    BY DEF take, key, HeardInv, ResultInv
  <2>4. TranscriptInv' /\ QualityInv'
    BY DEF TranscriptInv, QualityInv
  <2> QED
    BY <2>1, <2>2, <2>3, <2>4
<1>2. CASE RejectPayload(e)
  <2> USE <1>2 DEF RejectPayload, Goto, Fail, rendering, records, locks
  <2>1. TypeOK'
    BY DEF Settled, TypeOK, Errors
  <2>2. InputInv' /\ DeliveryInv' /\ ClaimInv'
    BY DEF take, Running, InputInv, DeliveryInv, ClaimInv, Answered, Claiming
  <2>3. HeardInv' /\ ResultInv'
    BY DEF take, key, HeardInv, ResultInv
  <2>4. TranscriptInv' /\ QualityInv'
    BY DEF TranscriptInv, QualityInv
  <2> QED
    BY <2>1, <2>2, <2>3, <2>4
<1>3. CASE RenderNew(e)
  <2> USE <1>3 DEF RenderNew, Render!Persist, records, locks
  <2>1. TypeOK'
    BY DEF take, Running, TypeOK, Inputs, Evidence, InputInv
  <2>2. InputInv' /\ DeliveryInv' /\ ClaimInv'
    BY DEF take, InputInv, DeliveryInv, ClaimInv
  <2>3. HeardInv' /\ ResultInv'
    BY DEF take, key, DeliveryInv, HeardInv, ResultInv, Answered
  <2>4. TranscriptInv' /\ QualityInv'
    BY DEF TranscriptInv, QualityInv
  <2> QED
    BY <2>1, <2>2, <2>3, <2>4
<1>4. CASE RenderAnswers(e)
  <2> USE <1>4 DEF RenderAnswers, Goto, Render!Answer, Render!NoAnswers, records, locks
  <2>1. TypeOK'
    BY DEF TypeOK, Settled, Running, Errors, InputInv, Inputs, take
  <2>2. InputInv' /\ DeliveryInv' /\ ClaimInv'
    BY DEF take, Running, TypeOK, InputInv, Inputs, DeliveryInv, ClaimInv, Answered,
           Claiming
  <2>3. HeardInv' /\ ResultInv'
    BY DEF take, key, HeardInv, ResultInv
  <2>4. TranscriptInv' /\ QualityInv'
    BY DEF TranscriptInv, QualityInv
  <2> QED
    BY <2>1, <2>2, <2>3, <2>4
<1>5. CASE RenderFails(e)
  <2> USE <1>5 DEF RenderFails, Goto, Fail, rendering, records, locks
  <2>1. TypeOK'
    BY DEF TypeOK, Settled, Running, Errors, InputInv, Inputs, take
  <2>2. InputInv' /\ DeliveryInv' /\ ClaimInv'
    BY DEF take, Running, InputInv, DeliveryInv, ClaimInv, Answered, Claiming
  <2>3. HeardInv' /\ ResultInv'
    BY DEF take, key, HeardInv, ResultInv
  <2>4. TranscriptInv' /\ QualityInv'
    BY DEF TranscriptInv, QualityInv
  <2> QED
    BY <2>1, <2>2, <2>3, <2>4
<1> QED
  BY <1>1, <1>2, <1>3, <1>4, <1>5

(* The quality record is found or missed, the artifact is read.            *)
LEMMA LookupSteps ==
  ASSUME IndInv, NEW e \in Execs,
         \/ FindQuality(e) \/ MissQuality(e) \/ ReadAndDiagnose(e)
         \/ ReadOrDiagnoseFails(e) \/ FindQualityFails(e)
  PROVE  IndInv'
<1> USE RenderActivityAssumption DEF IndInv
<1>1. CASE FindQuality(e)
  <2> USE <1>1 DEF FindQuality, Goto, rendering, records, locks
  <2>1. TypeOK'
    BY DEF take, key, Settled, Running, TypeOK, Errors, Inputs, Evidence, Transcript,
           Quality, InputInv, DeliveryInv, HeardInv, Answered
  <2>2. InputInv' /\ DeliveryInv' /\ ClaimInv'
    BY DEF take, Running, InputInv, DeliveryInv, ClaimInv, Answered, Claiming
  <2>3. HeardInv'
    BY DEF take, TypeOK, HeardInv
  <2>4. ResultInv'
    <3>1. /\ result' = [result EXCEPT ![e] = qualities[key(e)]]
          /\ pc' = [pc EXCEPT ![e] = "returned"]
          /\ qualities[key(e)] # Nothing
          /\ UNCHANGED <<qualities, input>>
      OBVIOUS
    <3>2. \A f \in Execs : key(f)' = key(f)
      BY <3>1 DEF key, take
    <3> HIDE <1>1 DEF FindQuality, Goto, rendering, records, locks
    <3> QED
      BY <3>1, <3>2 DEF TypeOK, ResultInv
  <2>5. TranscriptInv' /\ QualityInv'
    BY DEF TranscriptInv, QualityInv
  <2> QED
    BY <2>1, <2>2, <2>3, <2>4, <2>5
<1>2. CASE MissQuality(e)
  <2> USE <1>2 DEF MissQuality, Goto, rendering, records, locks
  <2>1. TypeOK'
    BY DEF TypeOK, Settled, Running
  <2>2. InputInv' /\ DeliveryInv' /\ ClaimInv'
    BY DEF take, Running, InputInv, DeliveryInv, ClaimInv, Answered, Claiming
  <2>3. HeardInv' /\ ResultInv'
    BY DEF take, key, HeardInv, ResultInv
  <2>4. TranscriptInv' /\ QualityInv'
    BY DEF TranscriptInv, QualityInv
  <2> QED
    BY <2>1, <2>2, <2>3, <2>4
<1>3. CASE ReadAndDiagnose(e)
  <2> USE <1>3 DEF ReadAndDiagnose, Goto, rendering, records, locks
  <2>1. TypeOK'
    BY DEF TypeOK, Settled, Running
  <2>2. InputInv' /\ DeliveryInv' /\ ClaimInv'
    BY DEF take, Running, InputInv, DeliveryInv, ClaimInv, Answered, Claiming
  <2>3. HeardInv' /\ ResultInv'
    BY DEF take, key, HeardInv, ResultInv
  <2>4. TranscriptInv' /\ QualityInv'
    BY DEF TranscriptInv, QualityInv
  <2> QED
    BY <2>1, <2>2, <2>3, <2>4
<1>4. CASE ReadOrDiagnoseFails(e)
  <2> USE <1>4 DEF ReadOrDiagnoseFails, Goto, Fail, rendering, records, locks
  <2>1. TypeOK'
    BY DEF TypeOK, Settled, Running, Errors, InputInv, Inputs, take
  <2>2. InputInv' /\ DeliveryInv' /\ ClaimInv'
    BY DEF take, Running, InputInv, DeliveryInv, ClaimInv, Answered, Claiming
  <2>3. HeardInv' /\ ResultInv'
    BY DEF take, key, HeardInv, ResultInv
  <2>4. TranscriptInv' /\ QualityInv'
    BY DEF TranscriptInv, QualityInv
  <2> QED
    BY <2>1, <2>2, <2>3, <2>4
<1>5. CASE FindQualityFails(e)
  <2> USE <1>5 DEF FindQualityFails, Goto, Fail, rendering, records, locks
  <2>1. TypeOK'
    BY DEF TypeOK, Settled, Running, Errors, InputInv, Inputs, take
  <2>2. InputInv' /\ DeliveryInv' /\ ClaimInv'
    BY DEF take, Running, InputInv, DeliveryInv, ClaimInv, Answered, Claiming
  <2>3. HeardInv' /\ ResultInv'
    BY DEF take, key, HeardInv, ResultInv
  <2>4. TranscriptInv' /\ QualityInv'
    BY DEF TranscriptInv, QualityInv
  <2> QED
    BY <2>1, <2>2, <2>3, <2>4
<1> QED
  BY <1>1, <1>2, <1>3, <1>4, <1>5

(* The claim is taken and given back.                                      *)
LEMMA LockSteps ==
  ASSUME IndInv, NEW e \in Execs,
         \/ AcquireProcessLock(e) \/ OpenClaimFileFails(e)
         \/ AcquireFileLock(e) \/ ReleaseLocks(e)
  PROVE  IndInv'
<1> USE RenderActivityAssumption DEF IndInv
<1>1. CASE AcquireProcessLock(e)
  <2> USE <1>1 DEF AcquireProcessLock, Goto, rendering, records
  <2>1. TypeOK'
    BY DEF TypeOK, Settled, Running
  <2>2. InputInv' /\ DeliveryInv' /\ ClaimInv'
    BY DEF take, Running, InputInv, DeliveryInv, ClaimInv, Answered, Claiming
  <2>3. HeardInv' /\ ResultInv'
    BY DEF take, key, HeardInv, ResultInv
  <2>4. TranscriptInv' /\ QualityInv'
    BY DEF TranscriptInv, QualityInv
  <2> QED
    BY <2>1, <2>2, <2>3, <2>4
<1>2. CASE OpenClaimFileFails(e)
  <2> USE <1>2 DEF OpenClaimFileFails, Goto, Fail, rendering, records, locks
  <2>1. TypeOK'
    BY DEF TypeOK, Settled, Running, Errors, InputInv, Inputs, take
  <2>2. InputInv' /\ DeliveryInv' /\ ClaimInv'
    BY DEF take, Running, InputInv, DeliveryInv, ClaimInv, Answered, Claiming
  <2>3. HeardInv' /\ ResultInv'
    BY DEF take, key, HeardInv, ResultInv
  <2>4. TranscriptInv' /\ QualityInv'
    BY DEF TranscriptInv, QualityInv
  <2> QED
    BY <2>1, <2>2, <2>3, <2>4
<1>3. CASE AcquireFileLock(e)
  <2> USE <1>3 DEF AcquireFileLock, Goto, rendering, records
  <2>1. TypeOK'
    BY DEF TypeOK, Settled, Running
  <2>2. InputInv' /\ DeliveryInv' /\ ClaimInv'
    BY DEF take, Running, TypeOK, InputInv, Inputs, DeliveryInv, ClaimInv, Answered,
           Claiming
  <2>3. HeardInv' /\ ResultInv'
    BY DEF take, key, HeardInv, ResultInv
  <2>4. TranscriptInv' /\ QualityInv'
    BY DEF TranscriptInv, QualityInv
  <2> QED
    BY <2>1, <2>2, <2>3, <2>4
<1>4. CASE ReleaseLocks(e)
  <2> USE <1>4 DEF ReleaseLocks, Goto, rendering, records
  <2>1. TypeOK'
    BY DEF TypeOK, Settled, Running
  <2>2. InputInv' /\ DeliveryInv' /\ ClaimInv'
    BY DEF take, Running, TypeOK, InputInv, Inputs, DeliveryInv, ClaimInv, Answered,
           Claiming
  <2>3. HeardInv' /\ ResultInv'
    BY DEF take, key, HeardInv, ResultInv
  <2>4. TranscriptInv' /\ QualityInv'
    BY DEF TranscriptInv, QualityInv
  <2> QED
    BY <2>1, <2>2, <2>3, <2>4
<1> QED
  BY <1>1, <1>2, <1>3, <1>4

(* Under the claim, the take has a transcript or its holder makes one.     *)
LEMMA TranscriptSteps ==
  ASSUME IndInv, NEW e \in Execs,
         \/ FindTranscript(e) \/ Transcribe(e)
         \/ TranscriberReturns(e) \/ TranscriberFails(e)
         \/ StoreTranscript(e) \/ FindTranscriptFails(e) \/ StoreTranscriptFails(e)
  PROVE  IndInv'
<1> USE RenderActivityAssumption DEF IndInv
<1>1. CASE FindTranscript(e)
  <2> USE <1>1 DEF FindTranscript, Goto, rendering, records, locks
  <2>1. TypeOK'
    BY DEF TypeOK, Settled, Running, Errors, InputInv, Inputs, take
  <2>2. InputInv' /\ DeliveryInv' /\ ClaimInv'
    BY DEF take, Running, InputInv, DeliveryInv, ClaimInv, Answered, Claiming
  <2>3. HeardInv' /\ ResultInv'
    BY DEF take, key, TypeOK, HeardInv, ResultInv, Running, InputInv, Inputs
  <2>4. TranscriptInv' /\ QualityInv'
    BY DEF TranscriptInv, QualityInv
  <2> QED
    BY <2>1, <2>2, <2>3, <2>4
<1>2. CASE Transcribe(e)
  <2> USE <1>2 DEF Transcribe, Goto, rendering, records, locks
  <2>1. TypeOK'
    BY DEF TypeOK, Settled, Running, Errors, InputInv, Inputs, take
  <2>2. InputInv' /\ DeliveryInv' /\ ClaimInv'
    BY DEF take, Running, InputInv, DeliveryInv, ClaimInv, Answered, Claiming
  <2>3. HeardInv' /\ ResultInv'
    BY DEF take, key, HeardInv, ResultInv
  <2>4. TranscriptInv' /\ QualityInv'
    BY DEF TranscriptInv, QualityInv
  <2> QED
    BY <2>1, <2>2, <2>3, <2>4
<1>3. CASE TranscriberReturns(e)
  <2> USE <1>3 DEF TranscriberReturns, Goto, rendering, records, locks
  <2>1. TypeOK'
    BY DEF take, key, Settled, Running, TypeOK, Errors, Inputs, Evidence, Transcript,
           Quality, InputInv, DeliveryInv, HeardInv, Answered
  <2>2. InputInv' /\ DeliveryInv' /\ ClaimInv'
    BY DEF take, Running, InputInv, DeliveryInv, ClaimInv, Answered, Claiming
  <2>3. HeardInv'
    <3>1. PICK x \in Texts :
            heard' = [heard EXCEPT ![e] = [text |-> x, request |-> e,
                                           audio |-> delivered[e][take(e)].audio]]
      OBVIOUS
    <3>2. delivered[e][take(e)] \in Evidence
          /\ delivered[e][take(e)] = evidence[take(e)]
      BY DEF DeliveryInv, Answered, take, TypeOK, InputInv, Inputs, Running
    <3>3. [text |-> x, request |-> e, audio |-> delivered[e][take(e)].audio] \in Transcript
      BY <3>2 DEF Transcript, Evidence
    <3> QED
      BY <3>1, <3>2, <3>3 DEF take, TypeOK, HeardInv
  <2>4. ResultInv'
    BY DEF take, key, TypeOK, ResultInv
  <2>5. TranscriptInv' /\ QualityInv'
    BY DEF TranscriptInv, QualityInv
  <2> QED
    BY <2>1, <2>2, <2>3, <2>4, <2>5
<1>4. CASE TranscriberFails(e)
  <2> USE <1>4 DEF TranscriberFails, Goto, rendering, records, locks
  <2>1. TypeOK'
    BY DEF TypeOK, Settled, Running, Errors, InputInv, Inputs, take
  <2>2. InputInv' /\ DeliveryInv' /\ ClaimInv'
    BY DEF take, Running, InputInv, DeliveryInv, ClaimInv, Answered, Claiming
  <2>3. HeardInv' /\ ResultInv'
    BY DEF take, key, TypeOK, HeardInv, ResultInv, Running, InputInv, Inputs
  <2>4. TranscriptInv' /\ QualityInv'
    BY DEF TranscriptInv, QualityInv
  <2> QED
    BY <2>1, <2>2, <2>3, <2>4
<1>5. CASE StoreTranscript(e)
  <2> USE <1>5 DEF StoreTranscript, Goto, records, locks, rendering
  <2>1. /\ take(e) \in Takes /\ heard[e] \in Transcript /\ transcripts[take(e)] = Nothing
        /\ heard[e].audio = evidence[take(e)].audio /\ evidence[take(e)] # Nothing
    BY DEF InputInv, Inputs, HeardInv, ClaimInv, DeliveryInv, Running, Answered, take
  <2>2. transcripts' = [transcripts EXCEPT ![take(e)] = heard[e]] /\ UNCHANGED error
    BY <2>1
  <2>3. TypeOK'
    BY <2>1, <2>2 DEF TypeOK, Settled, Running
  <2>4. InputInv' /\ DeliveryInv'
    BY DEF TypeOK, InputInv, DeliveryInv, Running, Answered, take
  <2>5. ClaimInv'
    BY <2>1, <2>2 DEF TypeOK, InputInv, Inputs, ClaimInv, Claiming, Running, take
  <2>6. HeardInv' /\ ResultInv'
    BY <2>1, <2>2
    DEF TypeOK, InputInv, Inputs, ClaimInv, HeardInv, ResultInv, Claiming, Running,
        take, key
  <2>7. TranscriptInv' /\ QualityInv'
    BY <2>1, <2>2 DEF TypeOK, TranscriptInv, QualityInv
  <2> QED
    BY <2>3, <2>4, <2>5, <2>6, <2>7
<1>6. CASE FindTranscriptFails(e)
  <2> USE <1>6 DEF FindTranscriptFails, Goto, rendering, records, locks
  <2>1. TypeOK'
    BY DEF TypeOK, Settled, Running, Errors, InputInv, Inputs, take
  <2>2. InputInv' /\ DeliveryInv' /\ ClaimInv'
    BY DEF take, Running, InputInv, DeliveryInv, ClaimInv, Answered, Claiming
  <2>3. HeardInv' /\ ResultInv'
    BY DEF take, key, TypeOK, HeardInv, ResultInv, Running, InputInv, Inputs
  <2>4. TranscriptInv' /\ QualityInv'
    BY DEF TranscriptInv, QualityInv
  <2> QED
    BY <2>1, <2>2, <2>3, <2>4
<1>7. CASE StoreTranscriptFails(e)
  <2> USE <1>7 DEF StoreTranscriptFails, Goto, records, locks, rendering
  <2>1. /\ take(e) \in Takes /\ heard[e] \in Transcript /\ transcripts[take(e)] = Nothing
        /\ heard[e].audio = evidence[take(e)].audio /\ evidence[take(e)] # Nothing
    BY DEF InputInv, Inputs, HeardInv, ClaimInv, DeliveryInv, Running, Answered, take
  <2>2. \/ UNCHANGED transcripts
        \/ transcripts' = [transcripts EXCEPT ![take(e)] = heard[e]]
    OBVIOUS
  <2>8. /\ pc' = [pc EXCEPT ![e] = "unlock"] /\ error' = [error EXCEPT ![e] = "unmapped"]
        /\ UNCHANGED <<evidence, delivered, charged, input, heard, result, qualities,
                       processLock, fileLock, calls>>
    OBVIOUS
  <2> HIDE <1>7 DEF StoreTranscriptFails, Goto, records, locks, rendering
  <2>9. pc[e] = "store"
    BY <1>7 DEF StoreTranscriptFails
  <2>3. TypeOK'
    BY <2>1, <2>2, <2>8, <2>9 DEF TypeOK, Settled, Running, Errors
  <2>4. InputInv' /\ DeliveryInv'
    BY <2>8, <2>9 DEF TypeOK, InputInv, DeliveryInv, Running, Answered, take
  <2>5. ClaimInv'
    BY <2>1, <2>2, <2>8, <2>9 DEF TypeOK, InputInv, Inputs, ClaimInv, Claiming, Running, take
  <2>6. HeardInv'
    BY <2>1, <2>2, <2>8, <2>9
    DEF TypeOK, InputInv, Inputs, ClaimInv, HeardInv, Claiming, Running, take
  <2>10. ResultInv'
    BY <2>8, <2>9 DEF TypeOK, ResultInv, take, key
  <2>11. \A t \in Takes : \/ transcripts'[t] = transcripts[t]
                          \/ t = take(e) /\ transcripts'[t] = heard[e]
    <3>1. CASE transcripts' = transcripts
      BY <3>1
    <3>2. CASE transcripts' = [transcripts EXCEPT ![take(e)] = heard[e]]
      <4>1. transcripts \in [Takes -> Transcript \cup {Nothing}]
        BY DEF TypeOK
      <4> QED
        BY <3>2, <4>1
    <3> QED
      BY <2>2, <3>1, <3>2
  <2>7. TranscriptInv'
    BY <2>1, <2>8, <2>11 DEF TranscriptInv
  <2>12. QualityInv'
    BY <2>1, <2>8, <2>11 DEF QualityInv
  <2> QED
    BY <2>3, <2>4, <2>5, <2>6, <2>7, <2>10, <2>12
<1> QED
  BY <1>1, <1>2, <1>3, <1>4, <1>5, <1>6, <1>7

(* The verdict is recorded, or another one is there.                       *)
LEMMA SaveSteps ==
  ASSUME IndInv, NEW e \in Execs,
         \/ SaveQuality(e) \/ SaveQualityCollides(e) \/ SaveQualityFails(e)
  PROVE  IndInv'
<1> USE RenderActivityAssumption DEF IndInv
<1>1. CASE SaveQuality(e)
  <2> USE <1>1 DEF SaveQuality, Goto, Verdict, rendering, locks
  <2>1. TypeOK'
    BY DEF take, key, Settled, Running, TypeOK, Errors, Inputs, Evidence, Transcript,
           Quality, InputInv, DeliveryInv, HeardInv, Answered
  <2>2. InputInv' /\ DeliveryInv' /\ ClaimInv'
    BY DEF take, Running, InputInv, DeliveryInv, ClaimInv, Answered, Claiming
  <2>3. HeardInv' /\ ResultInv'
    BY DEF take, key, Settled, Running, TypeOK, Inputs, Transcript, Quality, Evidence,
           InputInv, DeliveryInv, ClaimInv, HeardInv, ResultInv, Answered, Claiming
  <2>4. TranscriptInv' /\ QualityInv'
    BY DEF take, key, Settled, Running, TypeOK, Inputs, Transcript, Quality, Evidence,
           InputInv, DeliveryInv, ClaimInv, HeardInv, TranscriptInv, QualityInv,
           Answered, Claiming
  <2> QED
    BY <2>1, <2>2, <2>3, <2>4
<1>2. CASE SaveQualityCollides(e)
  <2> USE <1>2 DEF SaveQualityCollides, Goto, Fail, rendering, records, locks
  <2>1. TypeOK'
    BY DEF TypeOK, Settled, Running, Errors, InputInv, Inputs, take
  <2>2. InputInv' /\ DeliveryInv' /\ ClaimInv'
    BY DEF take, Running, InputInv, DeliveryInv, ClaimInv, Answered, Claiming
  <2>3. HeardInv' /\ ResultInv'
    BY DEF take, key, HeardInv, ResultInv
  <2>4. TranscriptInv' /\ QualityInv'
    BY DEF TranscriptInv, QualityInv
  <2> QED
    BY <2>1, <2>2, <2>3, <2>4
<1>3. CASE SaveQualityFails(e)
  <2> USE <1>3 DEF SaveQualityFails, Goto, Fail, rendering, locks
  <2>1. /\ take(e) \in Takes /\ input[e].tokens \in TokenLists
        /\ key(e) = <<take(e), input[e].tokens>>
        /\ heard[e] \in Transcript /\ heard[e] = transcripts[take(e)]
        /\ transcripts[take(e)] # Nothing
        /\ Verdict(e) \in Quality /\ Verdict(e) # Nothing
    BY DEF take, key, Verdict, Quality, Running, TypeOK, Inputs, InputInv, HeardInv
  <2>2. \/ UNCHANGED qualities
        \/ qualities[key(e)] = Nothing /\ qualities' = [qualities EXCEPT ![key(e)] = Verdict(e)]
    OBVIOUS
  <2>9. /\ pc' = [pc EXCEPT ![e] = "failed"] /\ error' = [error EXCEPT ![e] = "unmapped"]
        /\ UNCHANGED <<evidence, delivered, charged, input, heard, result, transcripts,
                       processLock, fileLock, calls>>
    OBVIOUS
  <2>10. pc[e] = "save"
    OBVIOUS
  <2> HIDE <1>3 DEF SaveQualityFails, Goto, Fail, rendering, locks
  <2>3. TypeOK'
    <3>1. qualities' \in [Takes \X TokenLists -> Quality \cup {Nothing}]
      <4>1. PICK k \in Takes \X TokenLists, v \in Quality :
              qualities' = qualities \/ qualities' = [qualities EXCEPT ![k] = v]
        <5>1. key(e) \in Takes \X TokenLists
          BY <2>1
        <5> QED
          BY <5>1, <2>1, <2>2
      <4>2. qualities \in [Takes \X TokenLists -> Quality \cup {Nothing}]
        BY DEF TypeOK
      <4> QED
        BY ONLY <4>1, <4>2
    <3>2. pc' \in [Execs -> Settled \cup Running \cup {"new"}]
          /\ error' \in [Execs -> Errors]
      BY <2>9 DEF TypeOK, Settled, Errors
    <3> QED
      BY <3>1, <3>2, <2>9 DEF TypeOK
  <2>4. InputInv' /\ DeliveryInv' /\ ClaimInv'
    BY <2>9
    DEF take, Running, TypeOK, InputInv, DeliveryInv, ClaimInv, Answered, Claiming
  <2>5. HeardInv'
    BY <2>9 DEF take, TypeOK, HeardInv
  <2>6. ResultInv'
    <3>1. ASSUME NEW f \in Execs, pc'[f] = "returned"
          PROVE  qualities'[key(f)] # Nothing /\ result'[f] = qualities'[key(f)]
                 /\ key(f)' = key(f)
      <4>1. pc[f] = "returned" /\ qualities[key(f)] # Nothing /\ result[f] = qualities[key(f)]
        BY <2>9, <3>1 DEF TypeOK, ResultInv
      <4>3. key(f) \in Takes \X TokenLists
        BY <4>1 DEF InputInv, Inputs, key
      <4>2. qualities'[key(f)] = qualities[key(f)]
        BY <2>2, <4>1, <4>3 DEF TypeOK
      <4> QED
        BY <2>9, <4>1, <4>2 DEF key
    <3> QED
      BY <3>1 DEF ResultInv, key
  <2>7. TranscriptInv'
    BY <2>9 DEF TranscriptInv
  <2>8. QualityInv'
    <3>1. ASSUME NEW t \in Takes, NEW k \in TokenLists
          PROVE  \/ qualities'[<<t, k>>] = qualities[<<t, k>>]
                 \/ /\ t = take(e) /\ k = input[e].tokens
                    /\ qualities'[<<t, k>>] = Verdict(e)
      <4>1. CASE UNCHANGED qualities
        BY <4>1
      <4>2. CASE qualities' = [qualities EXCEPT ![key(e)] = Verdict(e)]
        <5>1. qualities'[<<t, k>>] = IF <<t, k>> = key(e) THEN Verdict(e)
                                                         ELSE qualities[<<t, k>>]
          BY <4>2 DEF TypeOK
        <5> QED
          BY <2>1, <5>1
      <4> QED
        BY <2>2, <4>1, <4>2
    <3>2. /\ Verdict(e).take = take(e) /\ Verdict(e).tokens = input[e].tokens
          /\ Verdict(e).transcript = transcripts[take(e)]
      BY <2>1 DEF Verdict
    <3> QED
      BY <2>1, <2>9, <3>1, <3>2 DEF QualityInv
  <2> QED
    BY <2>3, <2>4, <2>5, <2>6, <2>7, <2>8
<1> QED
  BY <1>1, <1>2, <1>3

(* A crash takes its executions and their locks, and nothing durable.      *)
LEMMA CrashSteps ==
  ASSUME IndInv, NEW p \in Procs, Crash(p)
  PROVE  IndInv'
<1> USE RenderActivityAssumption DEF IndInv, Crash, rendering, records
<1>1. TypeOK'
  BY DEF TypeOK, Settled
<1>2. \A e \in Execs : pc'[e] = pc[e] \/ pc'[e] = "dead"
  BY DEF TypeOK
<1>3. \A e \in Execs : pc'[e] # "dead" /\ pc[e] \in Running => Home[e] # p
  BY DEF TypeOK
<1>4. InputInv' /\ DeliveryInv' /\ HeardInv' /\ ResultInv'
  BY <1>2 DEF InputInv, DeliveryInv, HeardInv, ResultInv, Answered, Running, take, key
<1>5. ClaimInv'
  BY <1>2, <1>3 DEF ClaimInv, Claiming, Running, take, TypeOK, InputInv, Inputs
<1>6. TranscriptInv' /\ QualityInv'
  BY DEF TranscriptInv, QualityInv
<1> QED
  BY <1>1, <1>4, <1>5, <1>6

-----------------------------------------------------------------------------
(* Every step keeps the invariant.                                         *)
LEMMA StepInv == IndInv /\ [Next]_vars => IndInv'
<1> SUFFICES ASSUME IndInv, [Next]_vars PROVE IndInv'
  OBVIOUS
<1>1. ASSUME NEW e \in Execs,
             \/ RunRenderActivity(e) \/ RejectPayload(e) \/ OpenClaimFileFails(e)
             \/ ExecStep(e)
      PROVE  IndInv'
  BY <1>1, RenderSteps, LookupSteps, LockSteps, TranscriptSteps, SaveSteps
  DEF ExecStep
<1>2. ASSUME NEW p \in Procs, Crash(p) PROVE IndInv'
  BY <1>2, CrashSteps
<1>3. CASE UNCHANGED vars
  BY <1>3
  DEF vars, IndInv, TypeOK, InputInv, DeliveryInv, ClaimInv, HeardInv, ResultInv,
      TranscriptInv, QualityInv, take, key
<1> QED
  BY <1>1, <1>2, <1>3 DEF Next, AllSettled

(* The invariant, for all behaviours.                                      *)
THEOREM Invariance == Spec => []IndInv
BY InitInv, StepInv, PTL DEF Spec

(* Every variable keeps its type.                                          *)
THEOREM TypeCorrect == Spec => []TypeOK
<1>1. IndInv => TypeOK
  BY DEF IndInv
<1> QED
  BY <1>1, Invariance, PTL

(* What an execution returned is the record of its take and its tokens.    *)
LEMMA ReturnedIsRecorded ==
  ASSUME IndInv, NEW e \in Execs, pc[e] = "returned"
  PROVE  /\ result[e] = qualities[key(e)]
         /\ result[e].take = take(e) /\ result[e].tokens = input[e].tokens
         /\ result[e].transcript = transcripts[take(e)]
         /\ transcripts[take(e)].audio = evidence[take(e)].audio
<1>1. /\ take(e) \in Takes /\ input[e].tokens \in TokenLists
      /\ key(e) = <<take(e), input[e].tokens>>
  BY DEF IndInv, InputInv, Inputs, take, key
<1>2. result[e] = qualities[key(e)] /\ qualities[key(e)] # Nothing
  BY DEF IndInv, ResultInv
<1> QED
  BY <1>1, <1>2 DEF IndInv, QualityInv, TranscriptInv

(* A verdict that is returned rests on the transcript on record, which was *)
(* made from the audio on record.                                          *)
THEOREM VerdictsAreBackedHolds == Spec => []VerdictsAreBacked
<1>1. IndInv => VerdictsAreBacked
  BY ReturnedIsRecorded DEF VerdictsAreBacked
<1> QED
  BY <1>1, Invariance, PTL

(* Executions that return over one take agree, however many there are, in  *)
(* whatever processes, and whichever of them died on the way.              *)
THEOREM VerdictsAgreeHolds == Spec => []VerdictsAgree
<1>1. IndInv => VerdictsAgree
  <2> SUFFICES ASSUME IndInv, NEW e \in Execs, NEW f \in Execs,
                      pc[e] = "returned", pc[f] = "returned", take(e) = take(f)
               PROVE  /\ result[e].transcript = result[f].transcript
                      /\ input[e] = input[f] => result[e] = result[f]
    BY DEF VerdictsAgree
  <2> QED
    BY ReturnedIsRecorded DEF key
<1> QED
  BY <1>1, Invariance, PTL

(* What an execution does next neither undoes its payment nor moves it.    *)
LEMMA PayersStay ==
  ASSUME IndInv, NEW t \in Takes, UNCHANGED calls,
         \A e \in Execs : calls[e] > 0 => take(e)' = take(e)
  PROVE  Payers(t)' = Payers(t)
BY DEF Payers, take

(* Inputs are fixed when an execution starts, before any call.             *)
LEMMA TakesStay ==
  ASSUME IndInv, Next, NEW e \in Execs, pc[e] # "new"
  PROVE  take(e)' = take(e)
BY DEF IndInv, TypeOK, take, Next, ExecStep, Crash, AllSettled, RunRenderActivity,
       RejectPayload, OpenClaimFileFails, RenderNew, RenderAnswers, RenderFails,
       FindQuality, MissQuality, FindQualityFails, ReadAndDiagnose, ReadOrDiagnoseFails,
       AcquireProcessLock, AcquireFileLock, FindTranscript, FindTranscriptFails,
       Transcribe, TranscriberReturns, TranscriberFails, StoreTranscript,
       StoreTranscriptFails, ReleaseLocks, SaveQuality, SaveQualityCollides,
       SaveQualityFails, vars

-----------------------------------------------------------------------------
(***************************************************************************)
(* What a take's transcript costs.  An execution that called the           *)
(* transcriber has no other call to make: it is storing the answer, under  *)
(* the claim, or has put it on record, or has failed or died.              *)
(***************************************************************************)
Recorded(e) == transcripts[take(e)] # Nothing /\ transcripts[take(e)].request = e
Lost(e) == pc[e] = "dead" \/ error[e] # "none"

ErrorInv ==
  \A e \in Execs : pc[e] \in (Running \ {"unlock"}) \cup {"new"} => error[e] = "none"

CallInv ==
  \A e \in Execs :
    /\ calls[e] <= 1
    /\ calls[e] > 0 => /\ pc[e] # "new" /\ input[e] \in Inputs
                       /\ pc[e] \in {"transcribe", "store"} \/ Recorded(e) \/ Lost(e)

PaidInv == IndInv /\ ErrorInv /\ CallInv

LEMMA ErrorSteps ==
  ASSUME IndInv, ErrorInv, [Next]_vars
  PROVE  ErrorInv'
<1> USE DEF IndInv, ErrorInv, TypeOK, Running, records, rendering, locks
<1>1. ASSUME NEW e \in Execs,
             \/ RejectPayload(e) \/ RenderFails(e) \/ ReadOrDiagnoseFails(e)
             \/ OpenClaimFileFails(e) \/ SaveQualityCollides(e)
             \/ FindQualityFails(e) \/ SaveQualityFails(e)
      PROVE  ErrorInv'
  <2>1. CASE RejectPayload(e)
    BY <2>1 DEF RejectPayload, Fail, Goto
  <2>2. CASE RenderFails(e)
    BY <2>2 DEF RenderFails, Fail, Goto
  <2>3. CASE ReadOrDiagnoseFails(e)
    BY <2>3 DEF ReadOrDiagnoseFails, Fail, Goto
  <2>4. CASE OpenClaimFileFails(e)
    BY <2>4 DEF OpenClaimFileFails, Fail, Goto
  <2>5. CASE SaveQualityCollides(e)
    BY <2>5 DEF SaveQualityCollides, Fail, Goto
  <2>6. CASE FindQualityFails(e)
    BY <2>6 DEF FindQualityFails, Fail, Goto
  <2>7. CASE SaveQualityFails(e)
    BY <2>7 DEF SaveQualityFails, Fail, Goto
  <2> QED
    BY <1>1, <2>1, <2>2, <2>3, <2>4, <2>5, <2>6, <2>7
<1>2. ASSUME NEW e \in Execs,
             \/ TranscriberFails(e) \/ StoreTranscript(e) \/ FindTranscriptFails(e)
             \/ StoreTranscriptFails(e)
      PROVE  ErrorInv'
  BY <1>2, SMTT(30)
  DEF TranscriberFails, StoreTranscript, FindTranscriptFails, StoreTranscriptFails, Goto
<1>3. ASSUME NEW e \in Execs, ReleaseLocks(e)
      PROVE  ErrorInv'
  BY <1>3 DEF ReleaseLocks, Goto
<1>4. ASSUME NEW e \in Execs,
             \/ RunRenderActivity(e) \/ RenderNew(e) \/ RenderAnswers(e)
             \/ FindQuality(e) \/ MissQuality(e) \/ ReadAndDiagnose(e)
             \/ AcquireProcessLock(e) \/ AcquireFileLock(e) \/ FindTranscript(e)
             \/ Transcribe(e) \/ TranscriberReturns(e) \/ SaveQuality(e)
      PROVE  ErrorInv'
  BY <1>4, SMTT(30)
  DEF RunRenderActivity, RenderNew, RenderAnswers, FindQuality, MissQuality,
      ReadAndDiagnose, AcquireProcessLock, AcquireFileLock, FindTranscript, Transcribe,
      TranscriberReturns, SaveQuality, Goto
<1>5. ASSUME NEW p \in Procs, Crash(p)
      PROVE  ErrorInv'
  BY <1>5 DEF Crash
<1>6. CASE UNCHANGED vars
  BY <1>6 DEF vars
<1> QED
  BY <1>1, <1>2, <1>3, <1>4, <1>5, <1>6 DEF Next, ExecStep, AllSettled

(* The transcriber is called only by an execution that never called it,    *)
(* and an answer is dropped only by an error.                              *)
LEMMA CallSteps ==
  ASSUME IndInv, ErrorInv, CallInv, Next
  PROVE  CallInv'
<1> USE DEF IndInv, TypeOK
<1> DEFINE Paid(f) ==
      /\ calls'[f] <= 1
      /\ calls'[f] > 0 => /\ pc'[f] # "new" /\ input'[f] \in Inputs
                          /\ pc'[f] \in {"transcribe", "store"} \/ Recorded(f)' \/ Lost(f)'
<1> SUFFICES ASSUME NEW f \in Execs PROVE Paid(f)
  BY DEF CallInv
<1>0. /\ calls[f] \in Nat /\ calls[f] <= 1
      /\ calls[f] > 0 => /\ pc[f] # "new" /\ input[f] \in Inputs
                         /\ pc[f] \in {"transcribe", "store"} \/ Recorded(f) \/ Lost(f)
  BY DEF CallInv
<1>1. ASSUME NEW e \in Execs, Transcribe(e)
      PROVE  Paid(f)
  <2>1. /\ pc[e] = "lookup" /\ pc' = [pc EXCEPT ![e] = "transcribe"]
        /\ transcripts[take(e)] = Nothing
        /\ calls' = [calls EXCEPT ![e] = @ + 1]
        /\ UNCHANGED <<input, error, transcripts>>
    BY <1>1 DEF Transcribe, Goto, records
  <2>2. CASE f = e
    <3>1. error[e] = "none"
      BY <2>1 DEF ErrorInv, Running
    <3>2. ~(calls[e] > 0)
      BY <1>0, <2>1, <2>2, <3>1 DEF Recorded, Lost
    <3>3. calls'[f] = 1
      BY <1>0, <2>1, <2>2, <3>2
    <3>4. input'[f] \in Inputs
      BY <2>1, <2>2 DEF InputInv, Running
    <3> QED
      BY <2>1, <2>2, <3>3, <3>4
  <2>3. CASE f # e
    <3>1. /\ calls'[f] = calls[f] /\ pc'[f] = pc[f]
          /\ Recorded(f) => Recorded(f)'
          /\ Lost(f) => Lost(f)'
      BY <2>1, <2>3 DEF Recorded, Lost, take
    <3> QED
      BY <1>0, <2>1, <3>1
  <2> QED
    BY <2>2, <2>3
<1>2. ASSUME NEW e \in Execs, StoreTranscript(e) \/ StoreTranscriptFails(e)
      PROVE  Paid(f)
  <2>1. /\ take(e) \in Takes /\ heard[e] \in Transcript /\ heard[e].request = e
        /\ transcripts[take(e)] = Nothing /\ pc[e] = "store" /\ error[e] = "none"
    BY <1>2
    DEF StoreTranscript, StoreTranscriptFails, ClaimInv, HeardInv, InputInv, Inputs,
        Running, ErrorInv, take
  <2>2. /\ pc' = [pc EXCEPT ![e] = "unlock"]
        /\ \/ transcripts' = [transcripts EXCEPT ![take(e)] = heard[e]] /\ UNCHANGED error
           \/ /\ transcripts' \in {transcripts, [transcripts EXCEPT ![take(e)] = heard[e]]}
              /\ error' = [error EXCEPT ![e] = "unmapped"]
        /\ UNCHANGED <<input, calls>>
    BY <1>2, <2>1 DEF StoreTranscript, StoreTranscriptFails, Goto
  <2>3. CASE f = e
    <3>1. Recorded(f)' \/ Lost(f)'
      BY <2>1, <2>2, <2>3, RenderActivityAssumption DEF Recorded, Lost, take
    <3>2. calls'[f] = calls[f] /\ pc'[f] = "unlock" /\ input'[f] = input[f]
      BY <2>2, <2>3
    <3> QED
      BY <1>0, <3>1, <3>2
  <2>4. CASE f # e
    <3>1. calls'[f] = calls[f] /\ pc'[f] = pc[f] /\ input'[f] = input[f]
      BY <2>2, <2>4
    <3>2. calls[f] > 0 /\ Recorded(f) => Recorded(f)'
      BY <1>0, <2>1, <2>2 DEF Recorded, Inputs, take
    <3>3. Lost(f) => Lost(f)'
      BY <2>2, <2>4 DEF Lost
    <3> QED
      BY <1>0, <3>1, <3>2, <3>3
  <2> QED
    BY <2>3, <2>4
<1>3. ASSUME NEW e \in Execs, TranscriberReturns(e)
      PROVE  Paid(f)
  <2>1. /\ pc[e] = "transcribe" /\ pc' = [pc EXCEPT ![e] = "store"]
        /\ UNCHANGED <<input, error, transcripts, calls>>
    BY <1>3 DEF TranscriberReturns, Goto, records
  <2>2. /\ Recorded(f) => Recorded(f)'
        /\ pc'[f] = (IF f = e THEN "store" ELSE pc[f])
        /\ Lost(f) => Lost(f)'
    BY <2>1 DEF Recorded, Lost, take
  <2> QED
    BY <1>0, <2>1, <2>2
<1>4. ASSUME NEW e \in Execs, TranscriberFails(e)
      PROVE  Paid(f)
  <2>1. /\ pc[e] = "transcribe" /\ pc' = [pc EXCEPT ![e] = "unlock"]
        /\ error'[e] # "none" /\ \A g \in Execs \ {e} : error'[g] = error[g]
        /\ UNCHANGED <<input, transcripts, calls>>
    BY <1>4 DEF TranscriberFails, Goto, records
  <2>2. Recorded(f) => Recorded(f)'
    BY <2>1 DEF Recorded, take
  <2>3. CASE f = e
    BY <1>0, <2>1, <2>2, <2>3 DEF Lost
  <2>4. CASE f # e
    BY <1>0, <2>1, <2>2, <2>4 DEF Lost
  <2> QED
    BY <2>3, <2>4
<1>5. ASSUME NEW p \in Procs, Crash(p)
      PROVE  Paid(f)
  <2>1. /\ UNCHANGED <<input, error, transcripts, calls>>
        /\ pc'[f] = pc[f] \/ pc'[f] = "dead"
    BY <1>5 DEF Crash, records
  <2>2. /\ Recorded(f) => Recorded(f)'
        /\ Lost(f) => Lost(f)'
    BY <2>1 DEF Recorded, Lost, take
  <2> QED
    BY <1>0, <2>1, <2>2 DEF Lost
<1>6. ASSUME NEW e \in Execs, RunRenderActivity(e)
      PROVE  Paid(f)
  <2>1. /\ pc[e] = "new" /\ pc' = [pc EXCEPT ![e] = "render"]
        /\ \A g \in Execs \ {e} : input'[g] = input[g]
        /\ UNCHANGED <<error, transcripts, calls>>
    BY <1>6 DEF RunRenderActivity, Goto, records
  <2>2. CASE f = e
    BY <1>0, <2>1, <2>2
  <2>3. CASE f # e
    <3>1. /\ pc'[f] = pc[f] /\ input'[f] = input[f]
          /\ Recorded(f) => Recorded(f)'
          /\ Lost(f) => Lost(f)'
      BY <2>1, <2>3 DEF Recorded, Lost, take
    <3> QED
      BY <1>0, <2>1, <3>1
  <2> QED
    BY <2>2, <2>3
<1>7. ASSUME NEW e \in Execs,
             \/ RejectPayload(e) \/ RenderFails(e) \/ ReadOrDiagnoseFails(e)
             \/ OpenClaimFileFails(e) \/ FindQualityFails(e) \/ FindTranscriptFails(e)
             \/ SaveQualityCollides(e) \/ SaveQualityFails(e)
      PROVE  Paid(f)
  <2>1. /\ pc[e] \notin {"transcribe", "store"} /\ pc'[e] # "new"
        /\ \A g \in Execs \ {e} : pc'[g] = pc[g] /\ error'[g] = error[g]
        /\ error'[e] # "none"
        /\ UNCHANGED <<input, transcripts, calls>>
    BY <1>7
    DEF RejectPayload, RenderFails, ReadOrDiagnoseFails, OpenClaimFileFails,
        FindQualityFails, FindTranscriptFails, SaveQualityCollides, SaveQualityFails,
        Fail, Goto, records
  <2>2. Recorded(f) => Recorded(f)'
    BY <2>1 DEF Recorded, take
  <2>3. CASE f = e
    BY <1>0, <2>1, <2>2, <2>3 DEF Lost
  <2>4. CASE f # e
    BY <1>0, <2>1, <2>2, <2>4 DEF Lost
  <2> QED
    BY <2>3, <2>4
<1>8. ASSUME NEW e \in Execs,
             \/ RenderNew(e) \/ RenderAnswers(e) \/ FindQuality(e) \/ MissQuality(e)
             \/ ReadAndDiagnose(e) \/ AcquireProcessLock(e) \/ AcquireFileLock(e)
             \/ FindTranscript(e) \/ ReleaseLocks(e) \/ SaveQuality(e)
      PROVE  Paid(f)
  <2>1. /\ pc[e] \notin {"new", "transcribe", "store", "dead"} /\ pc'[e] # "new"
        /\ \A g \in Execs \ {e} : pc'[g] = pc[g]
        /\ UNCHANGED <<input, error, transcripts, calls>>
    BY <1>8
    DEF RenderNew, RenderAnswers, FindQuality, MissQuality, ReadAndDiagnose,
        AcquireProcessLock, AcquireFileLock, FindTranscript, ReleaseLocks, SaveQuality,
        Goto, records
  <2>2. /\ Recorded(f) => Recorded(f)'
        /\ Lost(f) => Lost(f)'
    BY <2>1 DEF Recorded, Lost, take
  <2> QED
    BY <1>0, <2>1, <2>2
<1>9. CASE AllSettled
  <2>1. /\ UNCHANGED <<pc, input, error, transcripts, calls>>
        /\ Recorded(f) => Recorded(f)'
        /\ Lost(f) => Lost(f)'
    BY <1>9 DEF AllSettled, vars, Recorded, Lost, take
  <2> QED
    BY <1>0, <2>1
<1> QED
  BY <1>1, <1>2, <1>3, <1>4, <1>5, <1>6, <1>7, <1>8, <1>9 DEF Next, ExecStep

(* The invariant with what was paid, for all behaviours.                   *)
LEMMA PaidInvariance == Spec => []PaidInv
<1>1. Init => PaidInv
  <2> SUFFICES ASSUME Init PROVE ErrorInv /\ CallInv
    BY InitInv DEF PaidInv
  <2> QED
    BY DEF Init, ErrorInv, CallInv
<1>2. PaidInv /\ [Next]_vars => PaidInv'
  <2> SUFFICES ASSUME PaidInv, [Next]_vars PROVE PaidInv'
    OBVIOUS
  <2>1. IndInv' /\ ErrorInv'
    BY StepInv, ErrorSteps DEF PaidInv
  <2>2. CASE Next
    BY <2>1, <2>2, CallSteps DEF PaidInv
  <2>3. CASE UNCHANGED vars
    BY <2>1, <2>3 DEF PaidInv, CallInv, Recorded, Lost, take, vars
  <2> QED
    BY <2>2, <2>3
<1> QED
  BY <1>1, <1>2, PTL DEF Spec

(* However many executions there are over a take, the transcriber calls    *)
(* for it that were not lost are one: two at once would share the claim,   *)
(* and one after the other finds the record.                               *)
THEOREM CallsBoundedHolds == Spec => []CallsBoundedByLosses
<1>1. ASSUME PaidInv PROVE CallsBoundedByLosses
  <2>1. \A e \in Execs : calls[e] <= 1
    BY <1>1 DEF PaidInv, CallInv
  <2>2. ASSUME NEW t \in Takes, NEW e \in Payers(t) \ Losers(t)
        PROVE  /\ e \in Execs /\ take(e) = t
               /\ pc[e] \in {"transcribe", "store"} \/ Recorded(e)
    BY <1>1, <2>2 DEF PaidInv, CallInv, Payers, Losers, Lost, Recorded
  <2>3. ASSUME NEW t \in Takes, NEW e \in Execs, take(e) = t,
               pc[e] \in {"transcribe", "store"}
        PROVE  fileLock[t] = e /\ transcripts[t] = Nothing
    BY <1>1, <2>3 DEF PaidInv, IndInv, ClaimInv, Claiming
  <2>4. ASSUME NEW t \in Takes, NEW e \in Payers(t) \ Losers(t),
               NEW f \in Payers(t) \ Losers(t)
        PROVE  e = f
    BY <2>2, <2>3 DEF Recorded
  <2> QED
    BY <2>1, <2>4 DEF CallsBoundedByLosses
<1> QED
  BY <1>1, PaidInvariance, PTL

(* Records are written once, and a take whose transcript is on record is   *)
(* never paid for again.                                                   *)
THEOREM RecordsAreFinalHolds == Spec => RecordsAreFinal
<1> DEFINE Final ==
      /\ \A t \in Takes : transcripts[t] # Nothing =>
           transcripts'[t] = transcripts[t] /\ Payers(t)' = Payers(t)
      /\ \A k \in DOMAIN qualities : qualities[k] # Nothing =>
           qualities'[k] = qualities[k]
<1>1. PaidInv /\ [Next]_vars => [Final]_vars
  <2> SUFFICES ASSUME PaidInv, Next PROVE Final
    BY DEF RecordsAreFinal
  <2> USE DEF PaidInv, IndInv, TypeOK
  <2>1. \A e \in Execs : calls[e] > 0 => take(e)' = take(e)
    BY TakesStay DEF CallInv
  <2>2. ASSUME NEW e \in Execs, Transcribe(e) PROVE Final
    <3>1. /\ transcripts[take(e)] = Nothing /\ UNCHANGED <<input, transcripts, qualities>>
          /\ \A f \in Execs \ {e} : calls'[f] = calls[f]
          /\ pc[e] # "new"
      BY <2>2 DEF Transcribe, records
    <3>2. ASSUME NEW t \in Takes, transcripts[t] # Nothing
          PROVE  Payers(t)' = Payers(t)
      <4>1. \A f \in Execs : take(f)' = take(f)
        BY <3>1 DEF take
      <4>2. e \notin Payers(t) /\ e \notin Payers(t)'
        BY <3>1, <3>2, <4>1 DEF Payers
      <4> QED
        BY <3>1, <4>1, <4>2 DEF Payers
    <3> QED
      BY <3>1, <3>2
  <2>3. ASSUME NEW e \in Execs, StoreTranscript(e) \/ StoreTranscriptFails(e)
        PROVE  Final
    <3>1. UNCHANGED <<calls, qualities>> /\ transcripts[take(e)] = Nothing
      BY <2>3 DEF StoreTranscript, StoreTranscriptFails, ClaimInv
    <3>2. \A t \in Takes : transcripts[t] # Nothing => transcripts'[t] = transcripts[t]
      BY <2>3, <3>1 DEF StoreTranscript, StoreTranscriptFails
    <3> QED
      BY <2>1, <3>1, <3>2, PayersStay
  <2>4. ASSUME NEW e \in Execs, SaveQuality(e) \/ SaveQualityFails(e) PROVE Final
    <3>1. UNCHANGED <<calls, transcripts>>
      BY <2>4 DEF SaveQuality, SaveQualityFails
    <3>2. \A k \in DOMAIN qualities : qualities[k] # Nothing => qualities'[k] = qualities[k]
      BY <2>4 DEF SaveQuality, SaveQualityFails
    <3> QED
      BY <2>1, <3>1, <3>2, PayersStay
  <2>5. CASE UNCHANGED <<transcripts, qualities, calls>>
    BY <2>1, <2>5, PayersStay
  <2> HIDE DEF Final
  <2> QED
    BY <2>2, <2>3, <2>4, <2>5
    DEF Next, ExecStep, Crash, AllSettled, RunRenderActivity, RejectPayload,
        OpenClaimFileFails, RenderNew, RenderAnswers, RenderFails, FindQuality, MissQuality,
        FindQualityFails, ReadAndDiagnose, ReadOrDiagnoseFails, AcquireProcessLock,
        AcquireFileLock, FindTranscript, FindTranscriptFails, TranscriberReturns,
        TranscriberFails, ReleaseLocks, SaveQualityCollides, records, vars
<1> QED
  BY <1>1, PaidInvariance, PTL DEF Spec, RecordsAreFinal
=============================================================================
