SPECIFICATION ScanSpec
CONSTANTS
  Batches <- ScanBatches
  Hints <- ScanHints
  Continuations <- ScanSuffixes
  NBatch = 2
  NoHint = NoHint
  NoToken = NoToken
  CandidateRows <- ScanCandidates
  PadAndEos <- ScanPadAndEos
INVARIANTS QwenBatchIsRowByRow PlanIsOnEveryFreshPath PlanIsLongest KeyIndependentOfCandidates
CHECK_DEADLOCK FALSE
