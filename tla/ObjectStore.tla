----------------------------- MODULE ObjectStore -----------------------------
(***************************************************************************)
(* FilesystemObjectStore of object_storage.py: an object is a file named   *)
(* by the checksum of its bytes, in a directory (a shard) that it shares   *)
(* with the objects of the same checksum prefix, and a metadata sidecar    *)
(* beside it that carries the name it was stored under.                    *)
(*                                                                         *)
(* Every file appears by one link of a finished temporary, so a put is two *)
(* steps, the object and the sidecar; a delete is two unlinks and the      *)
(* removal of the directories left empty.  A caller holds the shard by an  *)
(* open descriptor, which does not keep the directory from being removed.  *)
(* The directories above the shard are left out: they go the same way.     *)
(***************************************************************************)
CONSTANTS
  Threads,
  Files,     \* names objects are stored under
  Contents,  \* object bytes, known by their checksum
  Shards,
  ShardOf,   \* ShardOf[d]: the directory of object d
  Nothing

VARIABLES
  shards,    \* the directories that exist
  objects,   \* the objects that are linked
  sidecars,  \* sidecars[d]: the name in the sidecar of object d
  opened     \* opened[t]: the shard that t holds open, while it is linked

ObjectRef == [name : Files, bytes : Contents]

StoreTypeOK ==
  /\ shards \subseteq Shards
  /\ objects \subseteq Contents
  /\ sidecars \in [Contents -> Files \cup {Nothing}]
  /\ opened \in [Threads -> Shards \cup {Nothing}]

StoreInit ==
  /\ shards = {}
  /\ objects = {}
  /\ sidecars = [d \in Contents |-> Nothing]
  /\ opened = [t \in Threads |-> Nothing]
-----------------------------------------------------------------------------
(* read: an object in no directory, or one whose sidecar is left alone, is *)
(* missing; one whose sidecar is missing or of another name is damaged.    *)
Readable(ref) == sidecars[ref.bytes] = ref.name /\ ref.bytes \in objects
Damaged(ref) == /\ ShardOf[ref.bytes] \in shards
                /\ sidecars[ref.bytes] # ref.name
Missing(ref) == ~Readable(ref) /\ ~Damaged(ref)

Close(t) == opened' = [opened EXCEPT ![t] = Nothing]

(* put: open the shard, which is made if need be.                          *)
OpenShard(t, ref) ==
  /\ shards' = shards \cup {ShardOf[ref.bytes]}
  /\ opened' = [opened EXCEPT ![t] = ShardOf[ref.bytes]]
  /\ UNCHANGED <<objects, sidecars>>

(* Nothing can be opened or made in a directory that was removed.          *)
ShardIsGone(t) == opened[t] = Nothing

(* put: link the object unless it is there.                                *)
EnsureObject(t, ref) ==
  /\ ~ShardIsGone(t)
  /\ objects' = objects \cup {ref.bytes}
  /\ UNCHANGED <<shards, sidecars, opened>>

(* put: link the sidecar unless it is there, and then it has to agree.     *)
SidecarConflicts(ref) == sidecars[ref.bytes] \notin {Nothing, ref.name}

(* (mutant: it replaces one that does not)                                 *)
EnsureSidecarAnyway(t, ref) ==
  /\ ~ShardIsGone(t)
  /\ sidecars' = [sidecars EXCEPT ![ref.bytes] = ref.name]
  /\ Close(t)
  /\ UNCHANGED <<shards, objects>>

EnsureSidecar(t, ref) ==
  /\ ~ShardIsGone(t) /\ ~SidecarConflicts(ref)
  /\ sidecars' = [sidecars EXCEPT ![ref.bytes] = ref.name]
  /\ Close(t)
  /\ UNCHANGED <<shards, objects>>

PutFails(t, ref) ==
  /\ ShardIsGone(t) \/ SidecarConflicts(ref)
  /\ Close(t)
  /\ UNCHANGED <<shards, objects, sidecars>>

(* delete: read the object and open its shard, unlink the object, and then *)
(* the sidecar.                                                            *)
HoldShard(t, ref) ==
  /\ Readable(ref)
  /\ opened' = [opened EXCEPT ![t] = ShardOf[ref.bytes]]
  /\ UNCHANGED <<shards, objects, sidecars>>

RemoveObject(t, ref) ==
  /\ ~ShardIsGone(t) /\ ref.bytes \in objects
  /\ objects' = objects \ {ref.bytes}
  /\ UNCHANGED <<shards, sidecars, opened>>

RemoveSidecar(t, ref) ==
  /\ ~ShardIsGone(t) /\ sidecars[ref.bytes] # Nothing
  /\ sidecars' = [sidecars EXCEPT ![ref.bytes] = Nothing]
  /\ Close(t)
  /\ UNCHANGED <<shards, objects>>

(* delete: remove the shard if it is empty, under those who hold it open.  *)
IsEmpty(s) ==
  \A d \in Contents : ShardOf[d] = s => d \notin objects /\ sidecars[d] = Nothing

PruneShard(ref) ==
  LET s == ShardOf[ref.bytes] IN
  /\ \/ /\ IsEmpty(s)
        /\ shards' = shards \ {s}
        /\ opened' = [t \in Threads |-> IF opened[t] = s THEN Nothing ELSE opened[t]]
     \/ ~IsEmpty(s) /\ UNCHANGED <<shards, opened>>
  /\ UNCHANGED <<objects, sidecars>>

(* A crash closes the descriptors; what is linked stays.                   *)
StoreCrash ==
  /\ opened' = [t \in Threads |-> Nothing]
  /\ UNCHANGED <<shards, objects, sidecars>>
=============================================================================
