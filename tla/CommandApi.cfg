\* Three requests with two keys, and two workers.
CONSTANTS
  Requests = {r1, r2, r3}
  Workers = {w1, w2}
  Keys = {k1, k2}
  Sources = {x1}
  Packages = {p1, p2}
  Nothing = Nothing
CONSTRAINT OneEpisodeAtWork
SYMMETRY MCSymmetry
SPECIFICATION Spec
INVARIANTS TypeOK KeysBindOnce AnswersAgree EpisodesAreReceipted PublishedArePackaged
PROPERTIES ReplaysAreNotRefused KeepsLifecycle
\* All requests have been answered and all episodes have ended.
CHECK_DEADLOCK FALSE
