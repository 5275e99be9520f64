------------------------ MODULE ReferenceDemo_proofs ------------------------
(***************************************************************************)
(* What the reference demo keeps true for any number of segments, takes,   *)
(* renderers, runs, crashes and damages.                                   *)
(***************************************************************************)
EXTENDS ReferenceDemo, TLAPS

(* The steps of a run that does not replay a result, from the point where  *)
(* this is decided; those that follow its commit; and those that follow    *)
(* its publication, its usage file and its publication record.             *)
Fresh == {"master", "qa", "commit", "store", "packaged", "ledger", "usage",
          "publication", "published", "result"}
Committed == {"packaged", "ledger", "usage", "publication", "published", "result"}
PublishedSteps == {"usage", "publication", "published", "result"}
UsageSteps == {"publication", "published", "result"}
RecordSteps == {"published", "result"}

RequestsOf(failedOnce) == TotalTakes + (IF failedOnce THEN 1 ELSE 0)

(* What a run knows of the result.json it found.                           *)
ReplayInv ==
  /\ pc \in {"start", "ingested", "prepared"} => persisted = Nothing
  /\ pc = "render" /\ persisted = Nothing => ~IsReplay
  /\ pc = "validate" => persisted # Nothing
  /\ pc \in Fresh => persisted = Nothing /\ ~IsReplay
  /\ pc \in {"render", "validate"} /\ persisted # Nothing /\ damages = 0 =>
       result # Nothing /\ persisted = result.requests

(* What is on disk after each step of a run, whatever was damaged before.  *)
CommitInv ==
  /\ pc = "store" => /\ manifest = Nothing
                     /\ \A n \in Names \ unstored : Readable(Bytes(n, RunEvidence))
  /\ pc \in Committed => manifest = RunEvidence /\ PackageReadable(RunEvidence)
  /\ pc = "ledger" => \A s \in Segments \ left : ledger[renderer][s] # Nothing
  /\ pc \in PublishedSteps =>
       Billed(RunEvidence) /\ published = PublishedPackage(RunEvidence)
  /\ pc \in UsageSteps => usageFile = RenderRequests
  /\ pc \in RecordSteps => publication = MasterBytes(RunEvidence)
  /\ pc \in {"complete", "done"} => result \in Evidence /\ Agreed(result)
  /\ result \in Evidence => Billed(result)

(* What is on disk at any time, while nobody has damaged a file.           *)
TidyPackage ==
  /\ spoiled = {}
  /\ manifest # Nothing =>
       /\ manifest \in Evidence /\ PackageReadable(manifest)
       /\ manifest.requests = RequestsOf(manifest.failed)
  /\ published # Nothing => manifest # Nothing /\ published = PublishedPackage(manifest)

TidyLedger ==
  \A r \in Renderers, s \in Segments : ledger[r][s] # Nothing =>
    /\ manifest # Nothing /\ manifest.renderer = r
    /\ ledger[r][s] = manifest.requests \div SegmentCount

TidyResult ==
  /\ result # Nothing => result \in Evidence /\ Agreed(result) /\ Accounted(result)
  /\ status = "completed" => result # Nothing

TidyInv ==
  damages = 0 => TidyPackage /\ TidyLedger /\ TidyResult /\ RefusesOnlyWithCause

IInv == TypeOK /\ ReplayInv /\ CommitInv /\ TidyInv
-----------------------------------------------------------------------------
(* Takes are counted in natural numbers, and so are renders.               *)
LEMMA CountsAreNatural ==
  /\ TotalTakes \in Nat /\ SegmentCount \in Nat \ {0}
  /\ \A f \in BOOLEAN : RequestsOf(f) \in Nat
BY ReferenceDemoAssumption DEF ReferenceDemoAssumption, TotalTakes, RequestsOf

(* What a run would commit is evidence, and never a missing file.          *)
LEMMA EvidenceOfRun ==
  ASSUME TypeOK
  PROVE  /\ RunEvidence \in Evidence /\ RunEvidence # Nothing
         /\ RunEvidence.renderer = renderer /\ RunEvidence.failed = failed
         /\ RunEvidence.requests = RequestsOf(failed)
         /\ RenderRequests = RequestsOf(failed) /\ RenderRequests \in Nat
         /\ Units \in Nat /\ Units # Nothing
<1>1. failed \in BOOLEAN /\ renderer \in Renderers
  BY DEF TypeOK
<1>2. RenderRequests = RequestsOf(failed) /\ RenderRequests \in Nat
  BY <1>1, CountsAreNatural DEF RenderRequests, RequestsOf
<1>3. RunEvidence \in Evidence /\ RunEvidence # Nothing
  BY <1>1, <1>2, ReferenceDemoAssumption
  DEF RunEvidence, Evidence, ReferenceDemoAssumption
<1>4. Units \in Nat /\ Units # Nothing
  BY <1>2, ReferenceDemoAssumption DEF Units, ReferenceDemoAssumption
<1> QED
  BY <1>1, <1>2, <1>3, <1>4 DEF RunEvidence

(* What a package is made of has a type.                                   *)
LEMMA BytesAreBytes ==
  ASSUME NEW n \in Names, NEW e \in Evidence
  PROVE  Bytes(n, e) \in AllBytes
BY DEF Bytes, AllBytes, Evidence
-----------------------------------------------------------------------------
(* Types, step by step.                                                    *)
LEMMA TypeStep == TypeOK /\ [Next]_vars => TypeOK'
<1> SUFFICES ASSUME TypeOK, [Next]_vars PROVE TypeOK'
  OBVIOUS
<1> USE DEF TypeOK, PackageTypeOK, packages, files
<1>1. ASSUME NEW r \in Renderers, NEW asked \in BOOLEAN, Start(r, asked) PROVE TypeOK'
  BY <1>1 DEF Start
<1>2. CASE Ingest
  BY <1>2 DEF Ingest, SetStatus, Stages
<1>3. CASE Prepare
  BY <1>3 DEF Prepare, SetStatus, Stages
<1>4. CASE LookForResult
  <2>1. persisted' \in Nat \cup {Nothing}
    BY <1>4, ReferenceDemoAssumption
    DEF LookForResult, IsReplay, Evidence, ReferenceDemoAssumption
  <2> QED
    BY <1>4, <2>1 DEF LookForResult
<1>5. CASE RejectRender
  BY <1>5 DEF RejectRender
<1>6. CASE RenderTake
  BY <1>6, CountsAreNatural DEF RenderTake, run
<1>7. CASE FinishRendering
  BY <1>7 DEF FinishRendering, SetStatus, Stages
<1>8. CASE ValidateResume
  BY <1>8 DEF ValidateResume
<1>9. CASE EvaluateMaster
  BY <1>9 DEF EvaluateMaster, SetStatus, Stages
<1>10. CASE RecordMaster
  BY <1>10 DEF RecordMaster, SetStatus, Stages
<1>11. CASE CommitPackage
  BY <1>11 DEF CommitPackage, StartCommit
<1>12. CASE StoreArtifact
  BY <1>12, EvidenceOfRun, BytesAreBytes DEF StoreArtifact, PutArtifact
<1>13. CASE CommitManifest
  BY <1>13, EvidenceOfRun DEF CommitManifest, LinkManifest
<1>14. CASE RecordPackaged
  BY <1>14 DEF RecordPackaged, SetStatus, Stages
<1>15. CASE RecordUsage
  BY <1>15, EvidenceOfRun DEF RecordUsage
<1>16. CASE Publish
  <2>1. PublishedPackage(RunEvidence) \in [Names -> AllBytes \cup {Nothing, Forged}]
    BY EvidenceOfRun, BytesAreBytes DEF PublishedPackage
  <2>2. published' \in [Names -> AllBytes \cup {Nothing, Forged}] \cup {Nothing}
    BY <1>16, <2>1 DEF Publish
  <2> QED
    BY <1>16, <2>2 DEF Publish
<1>17. CASE WriteUsage
  BY <1>17, EvidenceOfRun DEF WriteUsage
<1>18. CASE WritePublication
  <2>1. MasterBytes(RunEvidence) \in AllBytes
    BY EvidenceOfRun DEF MasterBytes, AllBytes, Evidence
  <2> QED
    BY <1>18, <2>1 DEF WritePublication
<1>19. CASE RecordPublished
  BY <1>19 DEF RecordPublished, SetStatus, Stages
<1>20. CASE WriteResult
  BY <1>20, EvidenceOfRun DEF WriteResult
<1>21. CASE Complete
  BY <1>21 DEF Complete, SetStatus, Stages
<1>22. CASE Crash
  BY <1>22 DEF Crash
<1>23. CASE Damage
  BY <1>23 DEF Damage, DamagePackage
<1>24. CASE UNCHANGED vars
  BY <1>24 DEF vars, run
<1> QED
  BY <1>1, <1>2, <1>3, <1>4, <1>5, <1>6, <1>7, <1>8, <1>9, <1>10, <1>11, <1>12, <1>13,
     <1>14, <1>15, <1>16, <1>17, <1>18, <1>19, <1>20, <1>21, <1>22, <1>23, <1>24
  DEF Next, RunStep
-----------------------------------------------------------------------------
(* What a run knows of the result, step by step.                           *)
LEMMA ReplayStep ==
  ASSUME TypeOK, ReplayInv, TidyInv, [Next]_vars
  PROVE  ReplayInv'
<1> USE DEF ReplayInv, IsReplay, Fresh, run, packages, files, At, Goto, SetStatus
<1>1. ASSUME NEW r \in Renderers, NEW asked \in BOOLEAN, Start(r, asked) PROVE ReplayInv'
  BY <1>1 DEF Start
<1>2. CASE Ingest
  BY <1>2 DEF Ingest
<1>3. CASE Prepare
  BY <1>3 DEF Prepare
<1>4. CASE LookForResult
  <2>1. result \in Evidence => result.requests # Nothing
    BY ReferenceDemoAssumption DEF Evidence, ReferenceDemoAssumption
  <2>2. result \in Evidence \cup {Nothing, Forged} /\ 0 # Nothing
    BY ReferenceDemoAssumption DEF TypeOK, ReferenceDemoAssumption
  <2>3. damages = 0 /\ result # Nothing => result \in Evidence /\ result # Forged
    BY ReferenceDemoAssumption DEF TidyInv, TidyResult, ReferenceDemoAssumption
  <2> QED
    BY <1>4, <2>1, <2>2, <2>3 DEF LookForResult
<1>5. CASE RejectRender
  BY <1>5 DEF RejectRender
<1>6. CASE RenderTake
  BY <1>6 DEF RenderTake
<1>7. CASE FinishRendering
  BY <1>7 DEF FinishRendering
<1>8. CASE ValidateResume
  BY <1>8 DEF ValidateResume
<1>9. CASE EvaluateMaster
  BY <1>9 DEF EvaluateMaster
<1>10. CASE RecordMaster
  BY <1>10 DEF RecordMaster
<1>11. CASE CommitPackage
  BY <1>11 DEF CommitPackage
<1>12. CASE StoreArtifact
  BY <1>12 DEF StoreArtifact
<1>13. CASE CommitManifest
  BY <1>13 DEF CommitManifest
<1>14. CASE RecordPackaged
  BY <1>14 DEF RecordPackaged
<1>15. CASE RecordUsage
  BY <1>15 DEF RecordUsage
<1>16. CASE Publish
  BY <1>16 DEF Publish
<1>17. CASE WriteUsage
  BY <1>17 DEF WriteUsage
<1>18. CASE WritePublication
  BY <1>18 DEF WritePublication
<1>19. CASE RecordPublished
  BY <1>19 DEF RecordPublished
<1>20. CASE WriteResult
  BY <1>20 DEF WriteResult
<1>21. CASE Complete
  BY <1>21 DEF Complete
<1>22. CASE Crash
  BY <1>22 DEF Crash
<1>23. CASE Damage
  BY <1>23 DEF Damage
<1>24. CASE UNCHANGED vars
  BY <1>24 DEF vars, run, ReferenceDemoAssumption
<1> QED
  BY <1>1, <1>2, <1>3, <1>4, <1>5, <1>6, <1>7, <1>8, <1>9, <1>10, <1>11, <1>12, <1>13,
     <1>14, <1>15, <1>16, <1>17, <1>18, <1>19, <1>20, <1>21, <1>22, <1>23, <1>24
  DEF Next, RunStep

(* What is on disk behind a run, step by step.                             *)
LEMMA CommitStep ==
  ASSUME TypeOK, ReplayInv, CommitInv, [Next]_vars
  PROVE  CommitInv'
<1> USE DEF CommitInv, Committed, PublishedSteps, UsageSteps, RecordSteps, Billed,
            Agreed, Readable, PackageReadable, run, packages, files, At, Goto,
            SetStatus, RunEvidence, RenderRequests
<1>1. ASSUME NEW r \in Renderers, NEW asked \in BOOLEAN, Start(r, asked) PROVE CommitInv'
  BY <1>1 DEF Start
<1>2. CASE Ingest
  BY <1>2 DEF Ingest
<1>3. CASE Prepare
  BY <1>3 DEF Prepare
<1>4. CASE LookForResult
  BY <1>4 DEF LookForResult
<1>5. CASE RejectRender
  BY <1>5 DEF RejectRender
<1>6. CASE RenderTake
  BY <1>6 DEF RenderTake
<1>7. CASE FinishRendering
  BY <1>7 DEF FinishRendering
<1>8. CASE ValidateResume
  BY <1>8 DEF ValidateResume, AllAgree
<1>9. CASE EvaluateMaster
  BY <1>9 DEF EvaluateMaster
<1>10. CASE RecordMaster
  BY <1>10 DEF RecordMaster
<1>11. CASE CommitPackage
  BY <1>11 DEF CommitPackage, StartCommit, IsCommitted
<1>12. CASE StoreArtifact
  BY <1>12 DEF StoreArtifact, PutArtifact
<1>13. CASE CommitManifest
  BY <1>13 DEF CommitManifest, LinkManifest
<1>14. CASE RecordPackaged
  BY <1>14 DEF RecordPackaged
<1>15. CASE RecordUsage
  <2>1. Units # Nothing
    BY EvidenceOfRun
  <2>2. ledger \in [Renderers -> [Segments -> Nat \cup {Nothing}]] /\ renderer \in Renderers
    BY DEF TypeOK
  <2>3. PICK s \in left :
          \/ /\ ledger' = [ledger EXCEPT ![renderer][s] = Units]
             /\ left' = left \ {s} /\ UNCHANGED pc
          \/ pc' = "refused" /\ UNCHANGED <<ledger, left>>
    BY <1>15 DEF RecordUsage
  <2>4. \A r \in Renderers, q \in Segments :
          /\ ledger'[r][q] \in {ledger[r][q], Units}
          /\ r = renderer /\ q = s /\ pc' = pc => ledger'[r][q] = Units
    BY <2>2, <2>3, <1>15 DEF RecordUsage
  <2>5. result \in Evidence => result.renderer \in Renderers
    BY DEF Evidence
  <2> QED
    BY <1>15, <2>1, <2>2, <2>3, <2>4, <2>5 DEF RecordUsage
<1>16. CASE Publish
  BY <1>16 DEF Publish
<1>17. CASE WriteUsage
  BY <1>17 DEF WriteUsage
<1>18. CASE WritePublication
  BY <1>18 DEF WritePublication
<1>19. CASE RecordPublished
  BY <1>19 DEF RecordPublished
<1>20. CASE WriteResult
  <2>1. RunEvidence \in Evidence
    BY EvidenceOfRun
  <2>2. Agreed(RunEvidence) /\ Billed(RunEvidence)
    BY <1>20 DEF WriteResult
  <2>3. Agreed(RunEvidence)' /\ Billed(RunEvidence)'
    BY <1>20, <2>2 DEF WriteResult, PublishedPackage, Bytes, MasterBytes
  <2>4. result' = RunEvidence' /\ RunEvidence' \in Evidence
    BY <1>20, <2>1 DEF WriteResult
  <2> QED
    BY <1>20, <2>3, <2>4 DEF WriteResult
<1>21. CASE Complete
  BY <1>21 DEF Complete
<1>22. CASE Crash
  BY <1>22 DEF Crash
<1>23. CASE Damage
  BY <1>23, ReferenceDemoAssumption DEF Damage, ReferenceDemoAssumption
<1>24. CASE UNCHANGED vars
  BY <1>24 DEF vars, run, ReferenceDemoAssumption
<1> QED
  BY <1>1, <1>2, <1>3, <1>4, <1>5, <1>6, <1>7, <1>8, <1>9, <1>10, <1>11, <1>12, <1>13,
     <1>14, <1>15, <1>16, <1>17, <1>18, <1>19, <1>20, <1>21, <1>22, <1>23, <1>24
  DEF Next, RunStep

(* What is on disk while nobody has damaged a file, step by step.          *)
LEMMA TidyStep ==
  ASSUME TypeOK, ReplayInv, CommitInv, TidyInv, [Next]_vars
  PROVE  TidyInv'
<1> USE DEF TidyInv, TidyPackage, TidyLedger, TidyResult, RefusesOnlyWithCause,
            IsReplay, Agreed, Accounted, Readable, PackageReadable, run, packages,
            files, At, Goto, SetStatus
<1>1. ASSUME NEW r \in Renderers, NEW asked \in BOOLEAN, Start(r, asked) PROVE TidyInv'
  BY <1>1 DEF Start
<1>2. CASE Ingest
  BY <1>2 DEF Ingest
<1>3. CASE Prepare
  BY <1>3 DEF Prepare
<1>4. CASE LookForResult
  BY <1>4, ReferenceDemoAssumption
  DEF LookForResult, IdentityMismatch, ReferenceDemoAssumption
<1>5. CASE RejectRender
  BY <1>5 DEF RejectRender
<1>6. CASE RenderTake
  BY <1>6 DEF RenderTake
<1>7. CASE FinishRendering
  BY <1>7 DEF FinishRendering
<1>8. CASE ValidateResume
  BY <1>8 DEF ValidateResume, AllAgree, Requests, ReplayInv
<1>9. CASE EvaluateMaster
  BY <1>9 DEF EvaluateMaster
<1>10. CASE RecordMaster
  BY <1>10 DEF RecordMaster
<1>11. CASE CommitPackage
  BY <1>11, EvidenceOfRun
  DEF CommitPackage, StartCommit, IsCommitted, CommitConflicts, ReplayInv, Evidence,
      Fresh
<1>12. CASE StoreArtifact
  BY <1>12 DEF StoreArtifact, PutArtifact, PutFails
<1>13. CASE CommitManifest
  BY <1>13, EvidenceOfRun DEF CommitManifest, LinkManifest, CommitInv
<1>14. CASE RecordPackaged
  BY <1>14 DEF RecordPackaged
<1>15. CASE RecordUsage
  <2>1. manifest = RunEvidence /\ manifest # Nothing /\ manifest.renderer = renderer
    BY <1>15, EvidenceOfRun DEF RecordUsage, CommitInv, Committed
  <2>2. Units = manifest.requests \div SegmentCount /\ Units # Nothing
    BY <2>1, EvidenceOfRun DEF Units
  <2>3. left \subseteq Segments /\ renderer \in Renderers
        /\ ledger \in [Renderers -> [Segments -> Nat \cup {Nothing}]]
    BY DEF TypeOK
  <2>4. SUFFICES ASSUME damages = 0 PROVE TidyInv'
    BY <1>15 DEF RecordUsage
  <2>5. \A s \in left : ledger[renderer][s] \in {Nothing, Units}
    BY <2>1, <2>2, <2>3, <2>4
  <2>6. pc' = pc /\ \E s \in left : ledger' = [ledger EXCEPT ![renderer][s] = Units]
    BY <1>15, <2>5 DEF RecordUsage, Recorded
  <2>7. \A r \in Renderers, s \in Segments :
          \/ ledger'[r][s] = ledger[r][s]
          \/ r = renderer /\ ledger'[r][s] = Units
    BY <2>3, <2>6
  <2>8. TidyLedger'
    BY <1>15, <2>1, <2>2, <2>4, <2>7 DEF RecordUsage
  <2> QED
    BY <1>15, <2>4, <2>6, <2>8 DEF RecordUsage, PublishedPackage, MasterBytes, Bytes
<1>16. CASE Publish
  BY <1>16, EvidenceOfRun DEF Publish, CommitInv, Committed
<1>17. CASE WriteUsage
  BY <1>17, EvidenceOfRun DEF WriteUsage, CommitInv, Committed
<1>18. CASE WritePublication
  BY <1>18 DEF WritePublication, CommitInv, Committed
<1>19. CASE RecordPublished
  BY <1>19 DEF RecordPublished
<1>20. CASE WriteResult
  <2>1. RunEvidence \in Evidence /\ RunEvidence # Nothing
    BY EvidenceOfRun
  <2>2. Agreed(RunEvidence) /\ Accounted(RunEvidence)
    BY <1>20, EvidenceOfRun
    DEF WriteResult, CommitInv, Committed, PublishedSteps, UsageSteps, RecordSteps
  <2>3. result' = RunEvidence /\ pc' = "complete"
    BY <1>20 DEF WriteResult
  <2>4. TidyResult'
    BY <1>20, <2>1, <2>2, <2>3 DEF WriteResult, PublishedPackage, Bytes, MasterBytes
  <2> QED
    BY <1>20, <2>3, <2>4 DEF WriteResult, PublishedPackage, Bytes
<1>21. CASE Complete
  BY <1>21, ReferenceDemoAssumption DEF Complete, CommitInv, ReferenceDemoAssumption
<1>22. CASE Crash
  BY <1>22 DEF Crash
<1>23. CASE Damage
  BY <1>23 DEF Damage, TypeOK
<1>24. CASE UNCHANGED vars
  BY <1>24
  DEF vars, run, TypeOK, CommitInv, ReplayInv, ReferenceDemoAssumption, Evidence,
      RunEvidence, Committed, Fresh
<1> QED
  BY <1>1, <1>2, <1>3, <1>4, <1>5, <1>6, <1>7, <1>8, <1>9, <1>10, <1>11, <1>12, <1>13,
     <1>14, <1>15, <1>16, <1>17, <1>18, <1>19, <1>20, <1>21, <1>22, <1>23, <1>24
  DEF Next, RunStep

(* The invariant, and what follows from it.                                *)
THEOREM Invariance == Spec => []IInv
<1>1. Init => IInv
  <2> SUFFICES ASSUME Init PROVE IInv
    OBVIOUS
  <2>1. TypeOK
    <3>1. ledger \in [Renderers -> [Segments -> Nat \cup {Nothing}]]
      BY DEF Init
    <3>2. recorded \in [Renderers -> 0 .. TotalTakes] /\ replayed \in 0 .. TotalTakes
      BY CountsAreNatural DEF Init
    <3>3. PackageTypeOK
      BY DEF Init, PackageInit, PackageTypeOK
    <3> QED
      BY <3>1, <3>2, <3>3 DEF Init, TypeOK
  <2>2. ReplayInv /\ CommitInv
    BY ReferenceDemoAssumption
    DEF Init, ReplayInv, CommitInv, Fresh, Committed, PublishedSteps, UsageSteps,
        RecordSteps, Evidence, ReferenceDemoAssumption
  <2>3. TidyInv
    <3>1. TidyLedger
      BY DEF Init, TidyLedger
    <3>2. TidyPackage /\ TidyResult /\ RefusesOnlyWithCause
      BY ReferenceDemoAssumption
      DEF Init, PackageInit, TidyPackage, TidyResult, RefusesOnlyWithCause,
          ReferenceDemoAssumption, Stages
    <3> QED
      BY <3>1, <3>2 DEF TidyInv
  <2> QED
    BY <2>1, <2>2, <2>3 DEF IInv
<1>2. IInv /\ [Next]_vars => IInv'
  BY TypeStep, ReplayStep, CommitStep, TidyStep DEF IInv
<1> QED
  BY <1>1, <1>2, PTL DEF Spec

(* Type correctness of the run, its files and the package store.           *)
THEOREM TypeCorrect == Spec => []TypeOK
<1>1. IInv => TypeOK
  BY DEF IInv
<1> QED
  BY <1>1, Invariance, PTL

(* A completed run leaves a result that the package, the publication and   *)
(* the ledger back, whatever came before it; while nothing is damaged, so  *)
(* does any result.                                                        *)
THEOREM ResultIsBackedHolds == Spec => []ResultIsBacked
<1>1. IInv => ResultIsBacked
  BY DEF IInv, CommitInv, TidyInv, TidyResult, ResultIsBacked
<1> QED
  BY <1>1, Invariance, PTL

(* While nothing is damaged, a run is refused only because of the package  *)
(* that is there.                                                          *)
THEOREM RefusesOnlyWithCauseHolds == Spec => []RefusesOnlyWithCause
<1>1. IInv => RefusesOnlyWithCause
  BY DEF IInv, TidyInv, RefusesOnlyWithCause
<1> QED
  BY <1>1, Invariance, PTL

(* No step replaces a manifest or a publication that is there, or a result *)
(* while nothing is damaged.                                               *)
THEOREM EvidenceIsImmutableHolds == Spec => EvidenceIsImmutable
<1> DEFINE Immutable ==
      damages' = damages =>
        /\ manifest # Nothing => manifest' = manifest
        /\ published # Nothing => published' = published
        /\ damages = 0 /\ result # Nothing => result' = result
<1>1. IInv /\ [Next]_vars => [Immutable]_vars
  <2> SUFFICES ASSUME IInv, Next PROVE Immutable
    BY DEF vars, run, files, packages
  <2> USE DEF packages, files, SetStatus
  <2>1. CASE \E r \in Renderers, asked \in BOOLEAN : Start(r, asked)
    BY <2>1 DEF Start
  <2>2. CASE CommitManifest
    BY <2>2 DEF CommitManifest, LinkManifest
  <2>3. CASE Publish
    BY <2>3 DEF Publish
  <2>4. CASE WriteResult
    <3>1. manifest = RunEvidence /\ result' = RunEvidence
      BY <2>4 DEF WriteResult, At, IInv, CommitInv, Committed
    <3>2. damages = 0 /\ result # Nothing => manifest = result
      BY DEF IInv, TidyInv, TidyResult, Agreed
    <3> QED
      BY <2>4, <3>1, <3>2 DEF WriteResult
  <2>5. CASE Damage
    BY <2>5 DEF Damage, IInv, TypeOK
  <2>6. CASE Ingest \/ Prepare \/ LookForResult \/ RejectRender \/ RenderTake
    BY <2>6 DEF Ingest, Prepare, LookForResult, RejectRender, RenderTake
  <2>7. CASE FinishRendering \/ ValidateResume \/ EvaluateMaster \/ RecordMaster
    BY <2>7 DEF FinishRendering, ValidateResume, EvaluateMaster, RecordMaster
  <2>8. CASE CommitPackage \/ StoreArtifact \/ RecordPackaged
    BY <2>8 DEF CommitPackage, StartCommit, StoreArtifact, PutArtifact, RecordPackaged
  <2>9. CASE RecordUsage \/ WriteUsage \/ WritePublication \/ RecordPublished
    BY <2>9 DEF RecordUsage, WriteUsage, WritePublication, RecordPublished
  <2>10. CASE Complete \/ Crash
    BY <2>10 DEF Complete, Crash
  <2> QED
    BY <2>1, <2>2, <2>3, <2>4, <2>5, <2>6, <2>7, <2>8, <2>9, <2>10 DEF Next, RunStep
<1> QED
  BY <1>1, Invariance, PTL DEF Spec, EvidenceIsImmutable
=============================================================================
