-------------------------- MODULE PublicationCalls --------------------------
(***************************************************************************)
(* What the publication adapters of publishing.py have in common: threads  *)
(* that publish packages to targets, or update and delete what was         *)
(* published, one call at a time.                                          *)
(*                                                                         *)
(* Packages, targets, keys and stored bytes are scoped by tenant and       *)
(* project everywhere; one scope is modelled.                              *)
(***************************************************************************)
EXTENDS Naturals

CONSTANTS
  Threads,
  Episodes,  \* episode version ids
  Files,     \* artifact names of a package
  Contents,  \* artifact bytes, known by their checksum
  Packages,
  Targets,
  Kind,      \* Kind[g]: the adapter of target g
  Keys,      \* idempotency keys
  Nothing

Kinds == {"filesystem", "s3", "rss", "transistor"}
Operations == {"publish", "update", "delete"}

(* EpisodePackage: its episode and the bytes of each file.                 *)
Package == [episode : Episodes, files : [Files -> Contents]]

(* A call names a package, a target and a key.  An update or a delete is   *)
(* given the receipt of key "of" and has package and target from there.    *)
(* Other clients of the object store put or remove one file of a package.  *)
PublicationCall == [op : Operations, package : Packages, target : Targets,
                    key : Keys, of : Keys]
StoreCall == [op : {"put", "remove"}, package : Packages, file : Files]
Call == PublicationCall \cup StoreCall

ASSUME PublicationAssumption ==
  /\ Packages \subseteq Package
  /\ Kind \in [Targets -> Kinds]
  /\ Nothing \notin Contents /\ Nothing \notin Threads /\ Nothing \notin Call

VARIABLES
  pc,    \* pc[t]: where thread t is
  call,  \* call[t]: what it was asked for
  left   \* left[t]: the files it still has to go through

control == <<pc, call, left>>

(* Files are gone through in any order; the code's order (of the manifest, *)
(* or of the directory) is one of them.                                    *)
CallsInit ==
  /\ pc = [t \in Threads |-> "idle"]
  /\ call = [t \in Threads |-> Nothing]
  /\ left = [t \in Threads |-> {}]

At(t, step) == pc[t] = step
Goto(t, step) == pc' = [pc EXCEPT ![t] = step]
GoThrough(t, names) == left' = [left EXCEPT ![t] = names]
Ticks(t, n) == left' = [left EXCEPT ![t] = @ \ {n}]

PackageOf(t) == call[t].package
EpisodeOf(t) == call[t].package.episode
TargetOf(t) == call[t].target
BytesOf(t, n) == call[t].package.files[n]
=============================================================================
