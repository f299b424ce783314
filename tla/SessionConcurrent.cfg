SPECIFICATION Spec
CONSTANTS
  alice = alice
  bob = bob
  carol = carol
  Threads <- MCThreads
  Choosers <- TwoChoosers
  Closers <- OneCloser
  Generators <- OneGenerator
  Prompts <- MCPrompts
  NoThread = NoThread
  NoHint = NoHint
  NBatch = 2
  Encodes = 1
  MaxOps = 2
INVARIANTS AnswersOwnPrompt NoUseAfterFree MetricsOfOwnCall
PROPERTIES EveryCallReturns
CHECK_DEADLOCK FALSE
