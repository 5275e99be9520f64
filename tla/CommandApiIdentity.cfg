\* One key for two commands of one episode.
CONSTANTS
  Requests = {r1, r2}
  Workers = {w1}
  Keys = {k1}
  Sources = {x1}
  Packages = {p1}
  Nothing = Nothing
SPECIFICATION Spec
INVARIANT IdentityIsExact
CHECK_DEADLOCK FALSE
