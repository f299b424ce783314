SPECIFICATION RecencySpec
CONSTANTS
  Tokens <- MCTokens
  Calls <- MCCalls
  StateBytes <- MCStateBytes
  NBatch = 2
  NCtx = 7
  MaxEntries = 2
  MaxBytes = 5
  MaxCalls = 1
  NoHint = NoHint
  None = None
INVARIANTS TypeOK FreshEquivalence CachedStatesFresh CacheBounded
  BooksBalance BranchesNeverStranded HoldsMostRecent
PROPERTIES ImplementsFreshOracle
CHECK_DEADLOCK FALSE
