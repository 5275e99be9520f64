------------------------ MODULE FilesystemPublication ------------------------
(***************************************************************************)
(* FilesystemPublicationAdapter of publishing.py: the package is written   *)
(* to a staging directory beside the destination, which is then renamed to *)
(* it, or compared with the destination and dropped when that is there.    *)
(*                                                                         *)
(* No lock guards a destination: calls with different keys overlap here.   *)
(* The directories above the parent of the destination are left out: they  *)
(* are made and pruned the way the parent is.                              *)
(***************************************************************************)
EXTENDS PublicationCalls

VARIABLES
  parents,   \* targets whose directory exists
  staging,   \* threads that have a staging directory in it
  litter,    \* targets with a staging directory that a crash left behind
  published  \* published[g][e]: the files of a destination, once it exists

filesystem == <<parents, staging, litter, published>>

(* The record that update leaves beside the published files.               *)
UpdateFile == "publication-update"
Entries == Files \cup {UpdateFile}
Directory == [Entries -> Contents \cup {UpdateFile, Nothing}]

(* The record's name begins with a dot, and no artifact's does.            *)
ASSUME FilesystemAssumption ==
  /\ UpdateFile \notin Files
  /\ Nothing \notin Directory

FilesystemTypeOK ==
  /\ parents \subseteq Targets
  /\ staging \subseteq Threads
  /\ litter \subseteq Targets
  /\ published \in [Targets -> [Episodes -> Directory \cup {Nothing}]]

FilesystemInit ==
  /\ parents = {}
  /\ staging = {}
  /\ litter = {}
  /\ published = [g \in Targets |-> [e \in Episodes |-> Nothing]]

Destination(t) == published[TargetOf(t)][EpisodeOf(t)]
Exists(t) == Destination(t) # Nothing
SetDestination(t, dir) ==
  published' = [published EXCEPT ![TargetOf(t)][EpisodeOf(t)] = dir]

FilesIn(dir) == {n \in Entries : dir # Nothing /\ dir[n] # Nothing}
PublishedFiles(t) ==
  [n \in Entries |-> IF n \in Files THEN BytesOf(t, n) ELSE Nothing]
-----------------------------------------------------------------------------
(* publish: make the parent, and the staging directory in it, unless it    *)
(* was pruned in the meantime.  That failure is outside of the try.        *)
MakeParent(t) ==
  /\ At(t, "mkdir") /\ Goto(t, "mkdtemp")
  /\ parents' = parents \cup {TargetOf(t)}
  /\ UNCHANGED <<staging, litter, published, call, left>>

MakeStaging(t) ==
  /\ At(t, "mkdtemp")
  /\ \/ /\ TargetOf(t) \in parents
        /\ staging' = staging \cup {t}
        /\ Goto(t, "write")
     \/ /\ TargetOf(t) \notin parents
        /\ Goto(t, "failed")
        /\ UNCHANGED staging
  /\ UNCHANGED <<parents, litter, published, call, left>>

(* Write all files, or fail at one of them.  Nobody else sees them yet.    *)
WriteFiles(t) ==
  /\ At(t, "write")
  /\ Goto(t, "exists") \/ Goto(t, "cleanup")
  /\ UNCHANGED <<filesystem, call, left>>

LookForDestination(t) ==
  /\ At(t, "exists")
  /\ \/ Exists(t) /\ Goto(t, "compare") /\ GoThrough(t, Files)
     \/ ~Exists(t) /\ Goto(t, "rename") /\ UNCHANGED left
  /\ UNCHANGED <<filesystem, call>>

(* Compare one staged file with the published one.                         *)
Agrees(t, n) == Exists(t) /\ Destination(t)[n] = BytesOf(t, n)

(* (mutant: a destination that is there is taken for the package)          *)
CompareNothing(t) ==
  /\ At(t, "compare")
  /\ \E n \in left[t] : Ticks(t, n)
  /\ UNCHANGED <<pc, filesystem, call>>

CompareFile(t) ==
  /\ At(t, "compare")
  /\ \E n \in left[t] :
       \/ Agrees(t, n) /\ Ticks(t, n) /\ UNCHANGED pc
       \/ ~Agrees(t, n) /\ Goto(t, "cleanup") /\ GoThrough(t, {})
  /\ UNCHANGED <<filesystem, call>>

(* All agree: the staging directory has served, if it can be removed.      *)
DropStaging(t) ==
  /\ At(t, "compare") /\ left[t] = {}
  /\ \/ staging' = staging \ {t} /\ Goto(t, "done")
     \/ UNCHANGED staging /\ Goto(t, "cleanup")
  /\ UNCHANGED <<parents, litter, published, call, left>>

(* rename succeeds onto nothing and onto an empty directory.  Whoever was  *)
(* emptying that one has hold of a directory that is gone.                 *)
Deleters(t) == {u \in Threads : /\ pc[u] \in {"rmtree", "unlink"}
                                /\ TargetOf(u) = TargetOf(t)
                                /\ EpisodeOf(u) = EpisodeOf(t)}
DetachDeleters(t) ==
  left' = [u \in Threads |-> IF u \in Deleters(t) THEN {} ELSE left[u]]

Rename(t) ==
  /\ At(t, "rename")
  /\ FilesIn(Destination(t)) = {}
  /\ SetDestination(t, PublishedFiles(t))
  /\ staging' = staging \ {t}
  /\ DetachDeleters(t)
  /\ Goto(t, "done")
  /\ UNCHANGED <<parents, litter, call>>

RenameFails(t) ==
  /\ At(t, "rename")
  /\ FilesIn(Destination(t)) # {}
  /\ Goto(t, "cleanup")
  /\ UNCHANGED <<filesystem, call, left>>

(* On failure: remove the staging directory, or leave it where it cannot   *)
(* be removed, and the parent if it is empty.                              *)
InUse(g) == \/ g \in litter'
            \/ \E e \in Episodes : published[g][e] # Nothing
            \/ \E u \in staging' : TargetOf(u) = g

CleanUp(t) ==
  /\ At(t, "cleanup")
  /\ staging' = staging \ {t}
  /\ UNCHANGED litter \/ litter' = litter \cup {TargetOf(t)}
  /\ parents' = IF InUse(TargetOf(t)) THEN parents ELSE parents \ {TargetOf(t)}
  /\ Goto(t, "failed")
  /\ UNCHANGED <<published, call, left>>
-----------------------------------------------------------------------------
(* update: the destination must be there; then write the record into it.   *)
LookForUpdate(t) ==
  /\ At(t, "update")
  /\ \/ Exists(t) /\ Goto(t, "writeUpdate")
     \/ ~Exists(t) /\ Goto(t, "mutationFailed")
  /\ UNCHANGED <<filesystem, call, left>>

(* The write may also fail after it has made the file.                     *)
WriteUpdate(t) ==
  /\ At(t, "writeUpdate")
  /\ \/ /\ Exists(t)
        /\ SetDestination(t, [Destination(t) EXCEPT ![UpdateFile] = UpdateFile])
        /\ Goto(t, "mutated") \/ Goto(t, "mutationFailed")
     \/ /\ ~Exists(t)
        /\ Goto(t, "mutationFailed")
        /\ UNCHANGED published
  /\ UNCHANGED <<parents, staging, litter, call, left>>

(* delete: rmtree lists the directory, unlinks what it has listed, and     *)
(* removes the directory, ignoring every error on the way.                 *)
ListTree(t) ==
  /\ At(t, "rmtree")
  /\ \/ Exists(t) /\ GoThrough(t, FilesIn(Destination(t))) /\ Goto(t, "unlink")
     \/ ~Exists(t) /\ Goto(t, "mutated") /\ UNCHANGED left
  /\ UNCHANGED <<filesystem, call>>

UnlinkFile(t) ==
  /\ At(t, "unlink")
  /\ \E n \in left[t] :
       /\ Ticks(t, n)
       /\ \/ SetDestination(t, [Destination(t) EXCEPT ![n] = Nothing])
          \/ UNCHANGED published
  /\ UNCHANGED <<parents, staging, litter, pc, call>>

RemoveTree(t) ==
  /\ At(t, "unlink") /\ left[t] = {}
  /\ \/ /\ FilesIn(Destination(t)) = {}
        /\ SetDestination(t, Nothing)
        /\ DetachDeleters(t)
     \/ /\ FilesIn(Destination(t)) # {}
        /\ UNCHANGED <<published, left>>
  /\ Goto(t, "mutated")
  /\ UNCHANGED <<parents, staging, litter, call>>

(* A crash leaves the staging directories where they are.                  *)
FilesystemCrash ==
  /\ litter' = litter \cup {TargetOf(t) : t \in staging}
  /\ staging' = {}
  /\ UNCHANGED <<parents, published>>

FilesystemStep(t) ==
  \/ MakeParent(t) \/ MakeStaging(t) \/ WriteFiles(t) \/ LookForDestination(t)
  \/ CompareFile(t) \/ DropStaging(t) \/ Rename(t) \/ RenameFails(t) \/ CleanUp(t)
  \/ LookForUpdate(t) \/ WriteUpdate(t)
  \/ ListTree(t) \/ UnlinkFile(t) \/ RemoveTree(t)
=============================================================================
