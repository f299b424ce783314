SPECIFICATION Spec
CONSTANTS
  p1 = p1
  p2 = p2
  Pages <- OnePage
  Handlers = {h1, h2}
  MaxSteps = 2
  Starts <- StartsOfOne
  MaxFaults = 0
  None = None
INVARIANTS LogKeepsEveryMove
CHECK_DEADLOCK FALSE
