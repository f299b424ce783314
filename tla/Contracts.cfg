SPECIFICATION Spec
CONSTANTS
  Edits <- MCEdits
  LaterEdits <- MCLaterEdits
  ItemEdits <- MCItemEdits
  Items <- MCItems
  Repository <- MCRepository
  RepositoryLists <- MCLists
  MaxEdits = 2
  Malformed = Malformed
CONSTRAINT Related
INVARIANTS StagePolicyFollows JourneysReachable
CHECK_DEADLOCK FALSE
