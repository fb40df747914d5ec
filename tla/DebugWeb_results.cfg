SPECIFICATION Spec
CONSTANTS
  Keys = {image, text}
  Foreign = {}
  NotImages = {text}
  Requests = {r1, r2}
  MaxFiles = 1
  MaxJobs = 2
  MaxEvents = 4
  NoKey = none
  MaxStrays = 1
  Prefetch = 2
  MaxFaults = 1
  MaxLosses = 1
INVARIANTS TypeOK IndexedRowIsSearchable NoResultIsLost QuietRowsAreFinal
PROPERTIES RowsGoBackOnlyByRedelivery
SYMMETRY Symmetry
CHECK_DEADLOCK FALSE
