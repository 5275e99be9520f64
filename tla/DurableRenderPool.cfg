\* One more task than the default pool has threads, all of one process and for
\* the same take.  The pool of a one-CPU host has min(32, 1 + 4) = 5 threads; two
\* threads and three tasks are the same situation.  The process does stop here,
\* which the liveness property reports, so the deadlock check is off.
CONSTANTS
  c1 = c1
  c2 = c2
  c3 = c3
  p1 = p1
  p2 = p2
  w1 = w1
  Callers = {c1, c2, c3}
  Procs = {p1}
  Home <- OneWorker
  Takes <- MCOneTake
  Rank <- Reversed
  Audio = {w1}
  PoolSize = 2
  NoOne = NoOne
  NoEvidence = NoEvidence
SPECIFICATION FairSpec
PROPERTIES EveryCallSettles
CHECK_DEADLOCK FALSE
