---------------------------- MODULE ReferenceDemo ----------------------------
(***************************************************************************)
(* run_reference_demo (demo.py): one command that takes the reference      *)
(* episode from its source to a publication in one output directory, and   *)
(* that an operator runs again, with or without --resume and with either   *)
(* renderer, after it has died, failed or completed.                       *)
(*                                                                         *)
(* Each run is one process, and runs do not overlap.  What a run builds is *)
(* in its memory until it is written; every file is replaced or linked     *)
(* whole, so that a crash falls between two writes.                        *)
(***************************************************************************)
EXTENDS PackageStore, FiniteSets

CONSTANTS
  SegmentCount,  \* segments of the episode
  TakeCount,     \* takes rendered of each
  MaxCrashes,    \* bound: runs that die or fail of themselves
  MaxDamages     \* bound: files removed or changed by somebody else

Segments == 1 .. SegmentCount
TotalTakes == SegmentCount * TakeCount

Stages == {"ingested", "prepared", "rendering", "qa", "mastering", "packaged",
           "published", "completed"}

ASSUME ReferenceDemoAssumption ==
  /\ SegmentCount \in Nat /\ SegmentCount >= 2 /\ TakeCount \in Nat \ {0}
  /\ AudioNames \subseteq Names /\ AudioNames # {}
  /\ Nothing # Forged /\ Nothing \notin Stages
  /\ {Nothing, Forged} \cap (Evidence \cup AllBytes \cup Nat) = {}

VARIABLES
  pc,           \* where the run in progress is; how the last one ended
  renderer,     \* the renderer it uses
  resume,       \* whether it was asked to resume
  replayed,     \* takes that it has found recorded
  failed,       \* whether the first render it made was rejected
  persisted,    \* the render count it has read from result.json
  left,         \* selected candidates whose usage it has still to record
  recorded,     \* recorded[r]: durable takes of renderer r, in their order
  status,       \* stage in status.json
  ledger,       \* ledger[r][s]: units recorded for the candidate of segment s
  published,    \* files of the published directory
  usageFile,    \* usage.json
  publication,  \* publication.json
  result,       \* result.json
  crashes, damages

run == <<pc, renderer, resume, replayed, failed, persisted, left>>
files == <<recorded, status, ledger, published, usageFile, publication, result>>
vars == <<run, packages, files, crashes, damages>>

TypeOK ==
  /\ PackageTypeOK
  /\ renderer \in Renderers /\ resume \in BOOLEAN /\ failed \in BOOLEAN
  /\ replayed \in 0 .. TotalTakes /\ persisted \in Nat \cup {Nothing}
  /\ left \subseteq Segments
  /\ recorded \in [Renderers -> 0 .. TotalTakes]
  /\ status \in Stages \cup {Nothing}
  /\ ledger \in [Renderers -> [Segments -> Nat \cup {Nothing}]]
  /\ published \in [Names -> AllBytes \cup {Nothing, Forged}] \cup {Nothing}
  /\ usageFile \in Nat \cup {Nothing}
  /\ publication \in AllBytes \cup {Nothing, Forged}
  /\ result \in Evidence \cup {Nothing, Forged}
  /\ crashes \in Nat /\ damages \in Nat

Init ==
  /\ PackageInit
  /\ pc = "idle"
  /\ renderer \in Renderers /\ resume = FALSE
  /\ replayed = 0 /\ failed = FALSE /\ persisted = Nothing /\ left = {}
  /\ recorded = [r \in Renderers |-> 0]
  /\ status = Nothing
  /\ ledger = [r \in Renderers |-> [s \in Segments |-> Nothing]]
  /\ published = Nothing
  /\ usageFile = Nothing /\ publication = Nothing /\ result = Nothing
  /\ crashes = 0 /\ damages = 0
-----------------------------------------------------------------------------
Between == pc \in {"idle", "refused", "done"}
At(step) == pc = step
Goto(step) == pc' = step

(* render_requests counts replayed takes and the rejected request, too.    *)
(* (mutant: it counts the takes rendered in this run)                      *)
NewRequests == TotalTakes - replayed + (IF failed THEN 1 ELSE 0)

RenderRequests == TotalTakes + (IF failed THEN 1 ELSE 0)

(* A run that resumes goes by the count it has read.                       *)
Requests == IF persisted # Nothing THEN persisted ELSE RenderRequests

RunEvidence == [renderer |-> renderer, failed |-> failed, requests |-> RenderRequests]

MasterBytes(e) == [audio |-> e.renderer]
PublishedPackage(e) == [n \in Names |-> Bytes(n, e)]

(* _validate_resume_evidence: manifest, artifacts, publication record and  *)
(* published bytes all agree with the result.                              *)
(* (mutant: the published files are not looked at)                         *)
AgreesButForPublished ==
  /\ result \in Evidence /\ result.requests = Requests
  /\ manifest = result /\ PackageReadable(result)
  /\ publication = MasterBytes(result)

AllAgree ==
  /\ result \in Evidence /\ result.requests = Requests
  /\ manifest = result /\ PackageReadable(result)
  /\ publication = MasterBytes(result)
  /\ published = PublishedPackage(result)
-----------------------------------------------------------------------------
Start(r, asked) ==
  /\ Between
  /\ Goto("start")
  /\ renderer' = r /\ resume' = asked
  /\ replayed' = recorded[r]
  /\ failed' = FALSE /\ persisted' = Nothing
  /\ UNCHANGED <<left, packages, files, crashes, damages>>

SetStatus(stage) ==
  /\ status' = stage
  /\ UNCHANGED <<recorded, ledger, published, usageFile, publication, result>>

Ingest ==
  /\ At("start") /\ SetStatus("ingested") /\ Goto("ingested")
  /\ UNCHANGED <<renderer, resume, replayed, failed, persisted, left, packages,
                 crashes, damages>>

Prepare ==
  /\ At("ingested") /\ SetStatus("prepared") /\ Goto("prepared")
  /\ UNCHANGED <<renderer, resume, replayed, failed, persisted, left, packages,
                 crashes, damages>>

(* A run that resumes reads the result, and refuses at once if there is no *)
(* package or it is of another renderer.  A changed file may pass, as long *)
(* as what is looked at here was not changed.                              *)
IsReplay == resume /\ result # Nothing
IdentityMismatch ==
  \/ manifest = Nothing
  \/ manifest \in Evidence /\ manifest.renderer # renderer
  \/ result \in Evidence /\ result.renderer # renderer

(* (mutant: the count of the result is not taken over)                     *)
LookForResultOnly ==
  /\ At("prepared")
  /\ Goto(IF IsReplay /\ IdentityMismatch THEN "refused" ELSE "render")
  /\ UNCHANGED <<renderer, resume, replayed, failed, persisted, left, packages, files,
                 crashes, damages>>

LookForResult ==
  /\ At("prepared")
  /\ \/ ~IsReplay /\ Goto("render") /\ UNCHANGED persisted
     \/ IsReplay /\ IdentityMismatch /\ Goto("refused") /\ UNCHANGED persisted
     \/ /\ IsReplay /\ ~IdentityMismatch
        /\ persisted' = IF result = Forged THEN 0 ELSE result.requests
        /\ Goto("render")
     \/ /\ IsReplay /\ Forged \in {result, manifest}
        /\ Goto("refused")
        /\ UNCHANGED persisted
  /\ UNCHANGED <<renderer, resume, replayed, failed, left, packages, files,
                 crashes, damages>>

(* The next take that has no record is rendered; the first render of the   *)
(* first segment is rejected once per run, and retried.                    *)
RejectRender ==
  /\ At("render") /\ recorded[renderer] < TakeCount /\ ~failed
  /\ failed' = TRUE
  /\ UNCHANGED <<pc, renderer, resume, replayed, persisted, left, packages, files,
                 crashes, damages>>

RenderTake ==
  /\ At("render") /\ recorded[renderer] < TotalTakes
  /\ recorded[renderer] < TakeCount => failed
  /\ recorded' = [recorded EXCEPT ![renderer] = @ + 1]
  /\ UNCHANGED <<run, packages, status, ledger, published, usageFile, publication,
                 result, crashes, damages>>

FinishRendering ==
  /\ At("render") /\ recorded[renderer] = TotalTakes
  /\ SetStatus("rendering")
  /\ Goto(IF persisted # Nothing THEN "validate" ELSE "master")
  /\ UNCHANGED <<renderer, resume, replayed, failed, persisted, left, packages,
                 crashes, damages>>

(* A replay that is not refused writes the result it has read again.       *)
ValidateResume ==
  /\ At("validate")
  /\ Goto(IF AllAgree THEN "complete" ELSE "refused")
  /\ UNCHANGED <<renderer, resume, replayed, failed, persisted, left, packages, files,
                 crashes, damages>>

(* Otherwise the takes are mastered and checked.                           *)
EvaluateMaster ==
  /\ At("master") /\ SetStatus("qa") /\ Goto("qa")
  /\ UNCHANGED <<renderer, resume, replayed, failed, persisted, left, packages,
                 crashes, damages>>

RecordMaster ==
  /\ At("qa") /\ SetStatus("mastering") /\ Goto("commit")
  /\ UNCHANGED <<renderer, resume, replayed, failed, persisted, left, packages,
                 crashes, damages>>

(* The package is committed; one that is there must be the same.           *)
CommitPackage ==
  /\ At("commit")
  /\ \/ StartCommit /\ Goto("store")
     \/ IsCommitted(RunEvidence) /\ Goto("packaged") /\ UNCHANGED packages
     \/ CommitConflicts(RunEvidence) /\ Goto("refused") /\ UNCHANGED packages
  /\ UNCHANGED <<renderer, resume, replayed, failed, persisted, left, files,
                 crashes, damages>>

StoreArtifact ==
  /\ At("store")
  /\ \E n \in Names :
       \/ PutArtifact(n, RunEvidence) /\ UNCHANGED pc
       \/ PutFails(n, RunEvidence) /\ Goto("refused") /\ UNCHANGED packages
  /\ UNCHANGED <<renderer, resume, replayed, failed, persisted, left, files,
                 crashes, damages>>

CommitManifest ==
  /\ At("store") /\ LinkManifest(RunEvidence) /\ Goto("packaged")
  /\ UNCHANGED <<renderer, resume, replayed, failed, persisted, left, files,
                 crashes, damages>>

RecordPackaged ==
  /\ At("packaged") /\ SetStatus("packaged") /\ Goto("ledger")
  /\ left' = Segments
  /\ UNCHANGED <<renderer, resume, replayed, failed, persisted, packages,
                 crashes, damages>>

(* Usage of each selected candidate: a row that is there must be the same. *)
Units == RenderRequests \div SegmentCount
Recorded(s) == ledger[renderer][s]

RecordUsage ==
  /\ At("ledger")
  /\ \E s \in left :
       IF Recorded(s) \in {Nothing, Units}
         THEN /\ ledger' = [ledger EXCEPT ![renderer][s] = Units]
              /\ left' = left \ {s}
              /\ UNCHANGED pc
         ELSE Goto("refused") /\ UNCHANGED <<ledger, left>>
  /\ UNCHANGED <<renderer, resume, replayed, failed, persisted, packages, recorded,
                 status, published, usageFile, publication, result, crashes, damages>>

(* Publish: all artifacts are read; a destination that is there must hold  *)
(* the same bytes.                                                         *)
(* (mutant: it is overwritten)                                             *)
PublishOver ==
  /\ At("ledger") /\ left = {}
  /\ published' = PublishedPackage(RunEvidence)
  /\ Goto("usage")
  /\ UNCHANGED <<renderer, resume, replayed, failed, persisted, left, packages,
                 recorded, status, ledger, usageFile, publication, result,
                 crashes, damages>>

Publish ==
  /\ At("ledger") /\ left = {}
  /\ IF PackageReadable(RunEvidence)
          /\ published \in {Nothing, PublishedPackage(RunEvidence)}
       THEN published' = PublishedPackage(RunEvidence) /\ Goto("usage")
       ELSE Goto("refused") /\ UNCHANGED published
  /\ UNCHANGED <<renderer, resume, replayed, failed, persisted, left, packages,
                 recorded, status, ledger, usageFile, publication, result,
                 crashes, damages>>

WriteUsage ==
  /\ At("usage") /\ usageFile' = RenderRequests /\ Goto("publication")
  /\ UNCHANGED <<renderer, resume, replayed, failed, persisted, left, packages,
                 recorded, status, ledger, published, publication, result,
                 crashes, damages>>

WritePublication ==
  /\ At("publication") /\ publication' = MasterBytes(RunEvidence) /\ Goto("published")
  /\ UNCHANGED <<renderer, resume, replayed, failed, persisted, left, packages,
                 recorded, status, ledger, published, usageFile, result,
                 crashes, damages>>

RecordPublished ==
  /\ At("published") /\ SetStatus("published") /\ Goto("result")
  /\ UNCHANGED <<renderer, resume, replayed, failed, persisted, left, packages,
                 crashes, damages>>

WriteResult ==
  /\ At("result") /\ result' = RunEvidence /\ Goto("complete")
  /\ UNCHANGED <<renderer, resume, replayed, failed, persisted, left, packages,
                 recorded, status, ledger, published, usageFile, publication,
                 crashes, damages>>

Complete ==
  /\ At("complete") /\ SetStatus("completed") /\ Goto("done")
  /\ UNCHANGED <<renderer, resume, replayed, failed, persisted, left, packages,
                 crashes, damages>>
-----------------------------------------------------------------------------
(* The process dies, or gives up on an I/O error or on its renderer.       *)
Crash ==
  /\ ~Between /\ crashes < MaxCrashes
  /\ crashes' = crashes + 1
  /\ Goto("idle")
  /\ left' = {} /\ unstored' = {}
  /\ UNCHANGED <<renderer, resume, replayed, failed, persisted, objects, spoiled,
                 manifest, files, damages>>

Damage ==
  /\ Between /\ damages < MaxDamages
  /\ damages' = damages + 1
  /\ Goto("idle")
  /\ \/ DamagePackage /\ UNCHANGED <<published, publication, result>>
     \/ /\ published # Nothing
        /\ \/ published' = Nothing
           \/ \E n \in Names, b \in {Nothing, Forged} :
                published' = [published EXCEPT ![n] = b]
        /\ UNCHANGED <<packages, publication, result>>
     \/ /\ publication # Nothing /\ publication' \in {Nothing, Forged}
        /\ UNCHANGED <<packages, published, result>>
     \/ /\ result # Nothing /\ result' \in {Nothing, Forged}
        /\ UNCHANGED <<packages, published, publication>>
  /\ UNCHANGED <<renderer, resume, replayed, failed, persisted, left, recorded,
                 status, ledger, usageFile, crashes>>

RunStep ==
  \/ Ingest \/ Prepare \/ LookForResult \/ RejectRender \/ RenderTake
  \/ FinishRendering \/ ValidateResume \/ EvaluateMaster \/ RecordMaster
  \/ CommitPackage \/ StoreArtifact \/ CommitManifest \/ RecordPackaged
  \/ RecordUsage \/ Publish \/ WriteUsage \/ WritePublication \/ RecordPublished
  \/ WriteResult \/ Complete

Next ==
  \/ \E r \in Renderers, asked \in BOOLEAN : Start(r, asked)
  \/ RunStep \/ Crash \/ Damage

(* A run goes on, and the operator resumes with either renderer again and  *)
(* again.                                                                  *)
Spec == Init /\ [][Next]_vars /\ WF_vars(RunStep)
             /\ \A r \in Renderers : SF_vars(Start(r, TRUE))
-----------------------------------------------------------------------------
(* What a replay compares; the ledger, which only grows; the usage file,   *)
(* which a replay does not look at.                                        *)
Agreed(e) ==
  /\ manifest = e /\ PackageReadable(e)
  /\ published = PublishedPackage(e)
  /\ publication = MasterBytes(e)
Billed(e) == \A s \in Segments : ledger[e.renderer][s] # Nothing
Accounted(e) == usageFile = e.requests

(* A run that has completed, whatever runs, crashes and damages came       *)
(* before it, leaves a result that the manifest, every artifact, the       *)
(* published bytes, the publication record and the ledger back; and while  *)
(* nobody has damaged a file, so does any result there is, the usage file  *)
(* agrees as well, and status.json claims completion of no other.          *)
ResultIsBacked ==
  /\ pc = "done" => result \in Evidence /\ Agreed(result) /\ Billed(result)
  /\ damages = 0 /\ (result # Nothing \/ status = "completed") =>
       result \in Evidence /\ Agreed(result) /\ Billed(result) /\ Accounted(result)

(* No run replaces a committed manifest or a published directory, not even *)
(* one that somebody has damaged, or the identity of a result that it does *)
(* not have to repair.                                                     *)
EvidenceIsImmutable ==
  [][damages' = damages =>
       /\ manifest # Nothing => manifest' = manifest
       /\ published # Nothing => published' = published
       /\ damages = 0 /\ result # Nothing => result' = result]_vars

(* While nobody has damaged a file, a run is refused only because of the   *)
(* package that is there: it is of the other renderer, or the run did not  *)
(* resume from a result and the package was built after a rejected render  *)
(* and this run has had none, or the other way round.                      *)
RefusesOnlyWithCause ==
  pc = "refused" /\ damages = 0 =>
    /\ manifest \in Evidence
    /\ \/ manifest.renderer # renderer
       \/ (~IsReplay /\ manifest.failed # failed)

(* An operator who resumes again and again with either renderer ends up    *)
(* with a result, unless a crash has come between the commit of a package  *)
(* that records a rejected render and the result: no later run can build   *)
(* that package again, and every one is refused.                           *)
Orphaned == /\ crashes > 0 /\ result = Nothing
            /\ manifest \in Evidence /\ manifest.failed
DemoCompletes == <>[](result \in Evidence \/ Orphaned \/ damages > 0)
=============================================================================
