---------------------------- MODULE S3Publication ----------------------------
(***************************************************************************)
(* S3CompatiblePublicationAdapter of publishing.py over the object store,  *)
(* and the store's other clients, who put and remove objects directly.     *)
(*                                                                         *)
(* A publication holds the adapter's lock while it reads each artifact     *)
(* from the store and puts it there when it is missing; the other clients  *)
(* take no lock.                                                           *)
(***************************************************************************)
EXTENDS PublicationCalls

CONSTANTS
  Shards,   \* directories of the object store
  ShardOf   \* ShardOf[d]: the directory of object d, its checksum's prefix

ASSUME ObjectStoreAssumption ==
  /\ ShardOf \in [Contents -> Shards]
  /\ Nothing \notin Files /\ Nothing \notin Shards

VARIABLES
  shards, objects, sidecars, opened,
  s3Lock,  \* the thread in the adapter
  finals,  \* finals[g]: final_references of target g
  crossed, \* history: threads whose put a removal of the object has crossed
  kept     \* history: objects stored by a put or found by a publication that
           \* no removal has crossed, and that nobody began to remove since

INSTANCE ObjectStore

store == <<shards, objects, sidecars, opened>>
s3 == <<store, s3Lock, finals, crossed, kept>>

S3TypeOK ==
  /\ StoreTypeOK
  /\ s3Lock \in Threads \cup {Nothing}
  /\ finals \in [Targets -> (SUBSET ObjectRef) \cup {Nothing}]
  /\ crossed \subseteq Threads
  /\ kept \subseteq ObjectRef

S3Init ==
  /\ StoreInit
  /\ s3Lock = Nothing
  /\ finals = [g \in Targets |-> Nothing]
  /\ crossed = {} /\ kept = {}

(* The artifacts are gone through in a fixed order.                        *)
NextFile(t) == CHOOSE n \in left[t] : TRUE
Ref(t, n) == [name |-> n, bytes |-> BytesOf(t, n)]
NextRef(t) == Ref(t, NextFile(t))

BusyWith(ref, steps) ==
  {u \in Threads : pc[u] \in steps /\ NextRef(u).bytes = ref.bytes}
Removing(ref) == BusyWith(ref, {"unlinkObject", "unlinkSidecar"})
Putting(ref) == BusyWith(ref, {"linkObject", "linkSidecar"})
-----------------------------------------------------------------------------
(* One publication at a time.                                              *)
EnterS3(t) ==
  /\ At(t, "s3") /\ s3Lock = Nothing
  /\ s3Lock' = t
  /\ GoThrough(t, Files)
  /\ Goto(t, "read")
  /\ UNCHANGED <<store, finals, crossed, kept, call>>

(* Reuse an object that is there, put one that is missing, and give up on  *)
(* one that is damaged.                                                    *)
ReadObject(t) ==
  /\ At(t, "read") /\ left[t] # {}
  /\ LET ref == NextRef(t) IN
     \/ /\ Readable(ref)
        /\ kept' = IF Removing(ref) = {} THEN kept \cup {ref} ELSE kept
        /\ Ticks(t, ref.name)
        /\ UNCHANGED pc
     \/ Missing(ref) /\ Goto(t, "put") /\ UNCHANGED <<left, kept>>
     \/ Damaged(ref) /\ Goto(t, "rollback") /\ UNCHANGED <<left, kept>>
  /\ UNCHANGED <<store, s3Lock, finals, crossed, call>>

StartPut(t) ==
  /\ At(t, "put") /\ OpenShard(t, NextRef(t)) /\ Goto(t, "linkObject")
  /\ crossed' = IF Removing(NextRef(t)) = {} THEN crossed ELSE crossed \cup {t}
  /\ UNCHANGED <<s3Lock, finals, kept, call, left>>

LinkObject(t) ==
  /\ At(t, "linkObject") /\ EnsureObject(t, NextRef(t)) /\ Goto(t, "linkSidecar")
  /\ UNCHANGED <<s3Lock, finals, crossed, kept, call, left>>

LinkSidecar(t) ==
  /\ At(t, "linkSidecar") /\ EnsureSidecar(t, NextRef(t))
  /\ kept' = IF t \in crossed THEN kept ELSE kept \cup {NextRef(t)}
  /\ crossed' = crossed \ {t}
  /\ Ticks(t, NextFile(t))
  /\ Goto(t, IF call[t].op = "put" THEN "idle" ELSE "read")
  /\ UNCHANGED <<s3Lock, finals, call>>

AbortPut(t) ==
  /\ pc[t] \in {"linkObject", "linkSidecar"}
  /\ At(t, "linkObject") => ShardIsGone(t)
  /\ PutFails(t, NextRef(t))
  /\ crossed' = crossed \ {t}
  /\ Goto(t, IF call[t].op = "put" THEN "idle" ELSE "rollback")
  /\ UNCHANGED <<s3Lock, finals, kept, call, left>>

(* All are stored: the target is completed with these references.          *)
CompleteS3(t) ==
  /\ At(t, "read") /\ left[t] = {}
  /\ finals' = [finals EXCEPT ![TargetOf(t)] = {Ref(t, n) : n \in Files}]
  /\ s3Lock' = Nothing
  /\ Goto(t, "done")
  /\ UNCHANGED <<store, crossed, kept, call, left>>

(* It may fail in between, too.  On failure all references of the target   *)
(* are dropped, those of an earlier publication included; nothing is       *)
(* removed from the store.                                                 *)
FailS3(t) ==
  /\ At(t, "read") /\ left[t] # Files /\ Goto(t, "rollback")
  /\ UNCHANGED <<s3, call, left>>

RollBackS3(t) ==
  /\ At(t, "rollback")
  /\ finals' = [finals EXCEPT ![TargetOf(t)] = Nothing]
  /\ s3Lock' = Nothing
  /\ Goto(t, "failed")
  /\ UNCHANGED <<store, crossed, kept, call, left>>
-----------------------------------------------------------------------------
(* Other clients: delete reads the object before it removes it.            *)
StartRemove(t) ==
  /\ At(t, "remove")
  /\ \/ /\ HoldShard(t, NextRef(t))
        /\ kept' = {ref \in kept : ref.bytes # NextRef(t).bytes}
        /\ crossed' = crossed \cup Putting(NextRef(t))
        /\ Goto(t, "unlinkObject")
     \/ /\ ~Readable(NextRef(t))
        /\ Goto(t, "idle")
        /\ UNCHANGED <<store, crossed, kept>>
  /\ UNCHANGED <<s3Lock, finals, call, left>>

UnlinkObject(t) ==
  /\ At(t, "unlinkObject") /\ RemoveObject(t, NextRef(t)) /\ Goto(t, "unlinkSidecar")
  /\ UNCHANGED <<s3Lock, finals, crossed, kept, call, left>>

UnlinkSidecar(t) ==
  /\ At(t, "unlinkSidecar") /\ RemoveSidecar(t, NextRef(t)) /\ Goto(t, "prune")
  /\ UNCHANGED <<s3Lock, finals, crossed, kept, call, left>>

PruneObject(t) ==
  /\ At(t, "prune") /\ PruneShard(NextRef(t)) /\ Goto(t, "idle")
  /\ UNCHANGED <<s3Lock, finals, crossed, kept, call, left>>

(* Another client has removed it first.                                    *)
AbortRemove(t) ==
  /\ \/ At(t, "unlinkObject") /\ (ShardIsGone(t) \/ NextRef(t).bytes \notin objects)
     \/ At(t, "unlinkSidecar") /\ (ShardIsGone(t) \/ sidecars[NextRef(t).bytes] = Nothing)
  /\ Close(t)
  /\ Goto(t, "idle")
  /\ UNCHANGED <<shards, objects, sidecars, s3Lock, finals, crossed, kept, call, left>>

(* References live in memory.                                              *)
S3Crash ==
  /\ StoreCrash
  /\ s3Lock' = Nothing
  /\ finals' = [g \in Targets |-> Nothing]
  /\ crossed' = {}
  /\ UNCHANGED kept

S3Step(t) ==
  \/ EnterS3(t) \/ ReadObject(t) \/ CompleteS3(t) \/ FailS3(t) \/ RollBackS3(t)
  \/ StartPut(t) \/ LinkObject(t) \/ LinkSidecar(t) \/ AbortPut(t)
  \/ StartRemove(t) \/ UnlinkObject(t) \/ UnlinkSidecar(t) \/ PruneObject(t)
  \/ AbortRemove(t)
=============================================================================
