SPECIFICATION Spec
CONSTANTS
  Launches = {l1}
  MaxLaunches = 0
  Chunks = 1
  Chunk = Chunk
  Other = Other
  Hole = Hole
  NoFile = NoFile
  Absent = Absent
  Broken = Broken
  MaxSteps = {1, 2}
  HoldFrames = {1}
  Work = {1}
  MaxEpisodes = 2
  MaxRenderings = 2
INVARIANTS VideoShowsNothingElse
CHECK_DEADLOCK FALSE
