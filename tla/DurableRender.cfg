\* Three calls in two worker processes ask for overlapping windows of two
\* takes; processes crash and artifacts get damaged.
CONSTANTS
  c1 = c1
  c2 = c2
  c3 = c3
  p1 = p1
  p2 = p2
  w1 = w1
  Callers = {c1, c2, c3}
  Procs = {p1, p2}
  Home <- TwoWorkers
  Takes <- MCTwoTakes
  Rank <- Reversed
  Audio = {w1}
  PoolSize = 2
  NoOne = NoOne
  NoEvidence = NoEvidence
SPECIFICATION FairSpec
CONSTRAINT UpToNames
INVARIANTS TypeOK OneSpender SpendBoundedByLosses AnswersAreDurable OneCostEvent
PROPERTIES NoDispatchAfterRecord KeepsPromise EveryCallSettles
