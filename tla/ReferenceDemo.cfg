\* Any number of runs; two of them crash, one file is damaged.
CONSTANTS
  Renderers = {deterministic, speech}
  Names = {"episode.wav", "render-manifest.json"}
  AudioNames = {"episode.wav"}
  Nothing = Nothing
  Forged = Forged
  SegmentCount = 2
  TakeCount = 2
  MaxCrashes = 2
  MaxDamages = 1
SPECIFICATION Spec
INVARIANTS ResultIsBacked RefusesOnlyWithCause
PROPERTIES EvidenceIsImmutable DemoCompletes
