\* One segment: an attempt in which one take ends with a transcription error and
\* a later one with an error that is to stop the segment.
CONSTANTS
  Clients = {c1}
  SegmentCount = 1
  MaxAttempts = 2
  Takes <- MCThreeTakes
  IdRank <- Reversed
  MaximumAttempts = 1
  Verdicts <- MCVerdicts
  Raised <- MCRaised
  None = None
SPECIFICATION Spec
PROPERTY TerminalErrorsStopRepair
