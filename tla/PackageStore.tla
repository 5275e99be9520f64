---------------------------- MODULE PackageStore ----------------------------
(***************************************************************************)
(* What one episode version's package is made of (package_generation.py),  *)
(* and how EpisodePackageService (packages.py) commits it: the artifacts   *)
(* to a content-addressed store (artifacts.py), then the manifest by one   *)
(* link that never replaces another.                                       *)
(*                                                                         *)
(* Everything here survives a crash.                                       *)
(***************************************************************************)
EXTENDS Naturals

CONSTANTS
  Renderers,
  Names,       \* the artifacts of a package
  AudioNames,  \* those that are the master's audio
  Nothing,     \* no file
  Forged       \* a file with contents that nobody here has written

(* The evidence a package is built from: who rendered it, whether the      *)
(* first render was rejected, and how many renders it took.                *)
Evidence == [renderer : Renderers, failed : BOOLEAN, requests : Nat]

(* Audio depends on the renderer only, whose takes are durable; manifest   *)
(* and reports carry all of the evidence.                                  *)
Bytes(n, e) == IF n \in AudioNames THEN [audio |-> e.renderer] ELSE e
AllBytes == [audio : Renderers] \cup Evidence

VARIABLES
  objects,   \* bytes in the artifact store
  spoiled,   \* those of them that no longer match their checksum
  manifest,  \* the evidence of the committed manifest
  unstored   \* artifacts that the commit in progress has still to store

packages == <<objects, spoiled, manifest, unstored>>

PackageTypeOK ==
  /\ objects \subseteq AllBytes /\ spoiled \subseteq AllBytes
  /\ manifest \in Evidence \cup {Nothing, Forged}
  /\ unstored \subseteq Names

PackageInit ==
  /\ objects = {} /\ spoiled = {}
  /\ manifest = Nothing
  /\ unstored = {}

(* FilesystemArtifactStore.read verifies what it reads.                    *)
Readable(b) == b \in objects \ spoiled
PackageReadable(e) == \A n \in Names : Readable(Bytes(n, e))
-----------------------------------------------------------------------------
(* commit, with a manifest there: it is the same, and all that it lists    *)
(* can be read, or the commit fails.  Otherwise the artifacts are stored.  *)
IsCommitted(e) == manifest = e /\ PackageReadable(e)
CommitConflicts(e) == manifest # Nothing /\ ~IsCommitted(e)

StartCommit ==
  /\ manifest = Nothing
  /\ unstored' = Names
  /\ UNCHANGED <<objects, spoiled, manifest>>

(* An object that is there is verified and left as it is.                  *)
PutArtifact(n, e) ==
  /\ n \in unstored /\ Bytes(n, e) \notin spoiled
  /\ objects' = objects \cup {Bytes(n, e)}
  /\ unstored' = unstored \ {n}
  /\ UNCHANGED <<spoiled, manifest>>

PutFails(n, e) == n \in unstored /\ Bytes(n, e) \in spoiled

LinkManifest(e) ==
  /\ unstored = {} /\ manifest = Nothing
  /\ manifest' = e
  /\ UNCHANGED <<objects, spoiled, unstored>>

(* Somebody else removes or changes a file between two runs.               *)
DamagePackage ==
  /\ \/ manifest' \in {Nothing, Forged} \ {manifest} /\ UNCHANGED <<objects, spoiled>>
     \/ /\ \E b \in objects : objects' = objects \ {b} /\ spoiled' = spoiled \ {b}
        /\ UNCHANGED manifest
     \/ /\ \E b \in objects : spoiled' = spoiled \cup {b}
        /\ UNCHANGED <<objects, manifest>>
  /\ UNCHANGED unstored
=============================================================================
