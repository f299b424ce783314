SPECIFICATION Spec
CONSTANTS
  Launches = {l1, l2}
  MaxLaunches = 3
  Chunks = 2
  Chunk = Chunk
  Other = Other
  Hole = Hole
  NoFile = NoFile
  Absent = Absent
  Broken = Broken
  MaxSteps = {1, 2}
  HoldFrames = {1, 2}
  Work = {1, 2}
  MaxEpisodes = 2
  MaxRenderings = 2
INVARIANTS ServedModelIsPinned TraceIsOneEpisode VideoShowsTrace
PROPERTIES OldModelKept
CHECK_DEADLOCK FALSE
