SPECIFICATION Spec
CONSTANTS
  MaxTag = 3
  Images = {1, 2, 3}
  Large = {2}
  MaxFaults = 2
INVARIANTS SettledOnce OnlyOwnDocuments AckedIsIndexed PreparedFilesExist NoFileOutlivesTheCall
CHECK_DEADLOCK FALSE
