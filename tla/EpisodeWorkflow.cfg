\* Two clients, an episode of two segments with two attempts of two takes each,
\* and two tries per take.
CONSTANTS
  Clients = {c1, c2}
  SegmentCount = 2
  MaxAttempts = 2
  Takes <- MCTakes
  IdRank <- Reversed
  MaximumAttempts = 2
  Verdicts <- MCVerdicts
  Raised <- MCRaised
  None = None
SPECIFICATION FairSpec
INVARIANTS ResultsAreDurable EpisodeAddsUp
PROPERTIES AcceptsOnlyTheBest RepairsOnlyFailures FailureIsHonest OutcomeIsFinal EveryClientAnswered
