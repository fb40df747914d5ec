SPECIFICATION FairSpec
CONSTANTS
  Writers = {consumer, script}
  Keyed = {consumer}
  Searchers = {t1, t2}
  Images = {img}
  Dims = {3, 4}
  MaxDrops = 1
  MaxFaults = 1
INVARIANTS TypeOK StoredPointsSurvive RacesAreNoErrors
PROPERTIES RetriedImagesAreStored
CHECK_DEADLOCK FALSE
