---------------------------- MODULE MCPublishing ----------------------------
(* Publishing on small instances: two episodes, one of them in three       *)
(* packages, and a menu of calls for each adapter.                         *)
EXTENDS Publishing, TLC

CONSTANTS
  e1, e2,          \* episodes
  a1, a2, a3, n1,  \* audio, and the notes that all packages share
  fs, s3t, rsst, tr,
  k1, k2, k3,
  sh1, sh2

(* a3 is as long as a1, and a2 has the checksum prefix of a1.              *)
MCLengthOf == (a1 :> 1) @@ (a2 :> 2) @@ (a3 :> 1) @@ (n1 :> 1)
MCShardOf == (a1 :> sh1) @@ (a2 :> sh1) @@ (a3 :> sh2) @@ (n1 :> sh2)
MCKind == (fs :> "filesystem") @@ (s3t :> "s3") @@ (rsst :> "rss")
          @@ (tr :> "transistor")
MCFixture == [id |-> TRUE, operation |-> "update"]
MCFiles == {"audio", "notes"}

Of(e, a, n) == [episode |-> e, files |-> ("audio" :> a) @@ ("notes" :> n)]
First == Of(e1, a1, n1)
Rewritten == Of(e1, a2, n1)  \* other audio, other length
Remixed == Of(e1, a3, n1)    \* other audio, same length
Second == Of(e2, a2, n1)
Swapped == Of(e2, n1, a1)    \* the same bytes under other names
MCPackages == {First, Rewritten, Remixed, Second, Swapped}

Publish(p, g, k) ==
  [op |-> "publish", package |-> p, target |-> g, key |-> k, of |-> k]
Mutate(o, p, g, k, j) ==
  [op |-> o, package |-> p, target |-> g, key |-> k, of |-> j]
Store(o, p, n) == [op |-> o, package |-> p, file |-> n]

MCMenus ==
  { {Publish(First, fs, k1), Publish(Rewritten, fs, k2), Publish(First, fs, k2)},
    {Publish(First, fs, k1), Mutate("update", First, fs, k2, k1),
     Mutate("delete", First, fs, k2, k1), Mutate("delete", First, fs, k3, k1)},
    {Publish(First, s3t, k1), Publish(Second, s3t, k2),
     Store("put", Swapped, "audio"), Store("remove", First, "audio")},
    {Publish(First, s3t, k1), Store("put", First, "audio"), Store("put", Rewritten, "audio"),
     Store("remove", First, "audio")},
    {Publish(First, rsst, k1), Publish(Second, rsst, k2), Publish(Rewritten, rsst, k3),
     Publish(Remixed, rsst, k3)},
    {Publish(First, tr, k1), Publish(First, rsst, k1), Mutate("update", First, tr, k2, k1),
     Mutate("delete", First, tr, k1, k1), Mutate("update", First, rsst, k1, k1)} }
=============================================================================
