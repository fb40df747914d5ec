SPECIFICATION FairSpec
CONSTANTS
  Keys = {image, text, foreign}
  Foreign = {foreign}
  NotImages = {text}
  Requests = {r1}
  MaxFiles = 2
  MaxJobs = 2
  MaxEvents = 2
  NoKey = none
  MaxStrays = 1
  Prefetch = 2
  MaxFaults = 1
  MaxLosses = 1
INVARIANTS JobsAreComplete OneJobPerFile
PROPERTIES ResultsReachTheirRow
CHECK_DEADLOCK FALSE
