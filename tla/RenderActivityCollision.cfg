\* Executions over one take with the same tokens, as a timed-out activity and
\* its retry are.
CONSTANTS
  e1 = e1
  e2 = e2
  e3 = e3
  p1 = p1
  p2 = p2
  k1 = k1
  x1 = x1
  Execs = {e1, e2, e3}
  Procs = {p1, p2}
  Home <- TwoWorkers
  Takes = {t1}
  TokenLists = {k1}
  Audio = {w1}
  Texts = {x1}
  OpenMayFail = FALSE
  NoOne = NoOne
  Nothing = Nothing
SPECIFICATION Spec
INVARIANTS RejectsOnlyConflicts
