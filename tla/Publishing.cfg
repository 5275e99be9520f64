\* Two threads make up to three calls, all from one menu; one crash.
CONSTANTS
  e1 = e1
  e2 = e2
  a1 = a1
  a2 = a2
  a3 = a3
  n1 = n1
  fs = fs
  s3t = s3t
  rsst = rsst
  tr = tr
  k1 = k1
  k2 = k2
  k3 = k3
  sh1 = sh1
  sh2 = sh2
  Nothing = Nothing
  Threads = {t1, t2}
  Episodes = {e1, e2}
  Files <- MCFiles
  Contents = {a1, a2, a3, n1}
  Packages <- MCPackages
  Targets = {fs, s3t, rsst, tr}
  Kind <- MCKind
  Keys = {k1, k2, k3}
  Shards = {sh1, sh2}
  ShardOf <- MCShardOf
  Audio = "audio"
  LengthOf <- MCLengthOf
  Fixture <- MCFixture
  Menus <- MCMenus
  MaxCalls = 3
  MaxCrashes = 1
SPECIFICATION Spec
PROPERTY CallsEnd
INVARIANTS PublishedBytesAreExact EffectsHappenOnce FeedListsReceipts ObjectsStayReadable
\* All calls have been made and have ended.
CHECK_DEADLOCK FALSE
