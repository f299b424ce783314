SPECIFICATION Spec
CONSTANTS
  Strip <- MCStrip
  Inputs <- MCInputs
  Revisions <- MCRevisions
  Picks <- MCPicks
  Durations <- MCDurations
  Rounds <- MCRounds
  NoId = NoId
  NaN = NaN
  None = None
  NotJson = NotJson
  NotAnObject = NotAnObject
  Error = Error
  NoLabel = NoLabel
  NoFile = NoFile
  Broken = Broken
  MaxRuns = 2
  MaxEdits = 1
CONSTRAINT Bounded
INVARIANTS ReportAddsUp StatisticsExact TrialsComparable ReportNotNewerThanRows
CHECK_DEADLOCK FALSE
