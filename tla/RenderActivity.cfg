\* Three executions over one take, two of them in one process, with two token
\* lists; the answers of the transcriber differ in their request.  Opening a claim
\* file may fail, which leaks a lock and really stops the executions behind it, so
\* the deadlock check is off here.
CONSTANTS
  e1 = e1
  e2 = e2
  e3 = e3
  p1 = p1
  p2 = p2
  k1 = k1
  x1 = x1
  Execs = {e1, e2, e3}
  Procs = {p1, p2}
  Home <- TwoWorkers
  Takes = {t1}
  TokenLists = {k1, k2}
  Audio = {w1}
  Texts = {x1}
  OpenMayFail = TRUE
  NoOne = NoOne
  Nothing = Nothing
SPECIFICATION FairSpec
CONSTRAINT UpToNames
INVARIANTS CallsBoundedByLosses VerdictsAgree VerdictsAreBacked
PROPERTIES RecordsAreFinal EveryExecutionSettles
CHECK_DEADLOCK FALSE
