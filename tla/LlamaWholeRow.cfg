SPECIFICATION RecencySpec
CONSTANTS
  Tokens <- MCTokens
  Calls <- MCWholeRowCalls
  StateBytes <- MCStateBytes
  NBatch = 2
  NCtx = 7
  MaxEntries = 2
  MaxBytes = 5
  MaxCalls = 1
  NoHint = NoHint
  None = None
INVARIANTS FreshEquivalence
CHECK_DEADLOCK FALSE
