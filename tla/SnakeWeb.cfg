SPECIFICATION Spec
CONSTANTS
  p1 = p1
  p2 = p2
  Pages <- TwoPages
  Handlers = {h1, h2}
  MaxSteps = 2
  Starts <- StartsOfTwo
  MaxFaults = 1
  None = None
INVARIANTS DecisionFitsGame TraceOfThisGame OneMoveAtATime RunningGoesOn
PROPERTIES MoveEnds
CHECK_DEADLOCK FALSE
