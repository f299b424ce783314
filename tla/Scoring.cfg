SPECIFICATION Spec
CONSTANTS
  Encode <- MCEncode
  ChatPrompt <- MCChatPrompt
  Collation <- MCCollation
  Alphabet <- MCAlphabet
  Orders <- MCOrders
  Requests <- MCRequests
  Backends <- MCBackends
  Answers <- MCAnswers
  Weight <- MCWeight
  Scorers = {"letter", "question_prefix", "semantic", "independent"}
  MaxDecisions = 2
  NoHint = NoHint
  NaN = NaN
INVARIANTS OrderDoesNotMatter ScoredByOwnText HintsCanBeShared
CHECK_DEADLOCK FALSE
