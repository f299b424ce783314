SPECIFICATION MCSpec
CONSTANTS
  Width = 5
  Height = 5
  RecentLimit = 4
  Controllers = {"model", "adjacent-food", "scripted"}
  NoFood = NoFood
  Positions <- MCPositions
  MaxNodes = 100
  MaxDepth = 7
  EscapeHorizon = 2
  SurvivalHorizon = 3
CONSTRAINT FewMeals
INVARIANTS BodyWellFormed VerdictsHold BestMovesAreBest
PROPERTIES FilterIsExact SensorsForetell PolicyLeavesExit
CHECK_DEADLOCK FALSE
