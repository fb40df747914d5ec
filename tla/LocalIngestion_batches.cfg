SPECIFICATION FairSpec
CONSTANTS
  Paths = {1, 2, 3}
  BatchSizes = {0, 1, 2, 3}
  MaxBatchSize = 2
  MaxFaults = 1
  MaxRemovals = 1
INVARIANTS BatchesEqualSingles NoImageIsSkipped
PROPERTIES ReachableImagesGetIndexed
CHECK_DEADLOCK FALSE
