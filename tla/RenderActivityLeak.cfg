\* Opening a claim file may raise an OSError.  The executions behind the leaked
\* lock do stop, so the deadlock check is off.
CONSTANTS
  e1 = e1
  e2 = e2
  e3 = e3
  p1 = p1
  p2 = p2
  k1 = k1
  x1 = x1
  Execs = {e1, e2, e3}
  Procs = {p1, p2}
  Home <- TwoWorkers
  Takes = {t1}
  TokenLists = {k1}
  Audio = {w1}
  Texts = {x1}
  OpenMayFail = TRUE
  NoOne = NoOne
  Nothing = Nothing
SPECIFICATION Spec
INVARIANTS ClaimsEndWithTheirHolder
CHECK_DEADLOCK FALSE
