\* Every short document, and proposals for documents of up to four words.
CONSTANTS
  Nothing = Nothing
  Numbers = {"2", "12"}
  Units = {"kg"}
  Negations = {"no", "none"}
  HeardNegations = {"no"}
  Speech <- MCSpeech
  Inside <- MCInside
  Starts <- MCStarts
  Ends <- MCEnds
  Utterances <- MCUtterances
  Requests <- MCRequests
  Challenges = {"disagree"}
  Insertions = {"no", "none"}
SPECIFICATION Spec
INVARIANTS BlocksTileTheSource TokensKeepTheirPlace SegmentsPartitionTurns PackagesAreFaithful
\* A request ends packaged or rejected.
CHECK_DEADLOCK FALSE
