SPECIFICATION FairSpec
CONSTANTS
  Uploaders = {consumer}
  Texters = {t}
  MaxBatch = 2
  Names = {f1, f2, f3, f4, f5, f6, f7, f8}
  Timeout = 2
  Normal = 1
  Slow = 4
  MaxSlow = 1
  MaxFaults = 1
  MaxCalls = 4
INVARIANTS InferenceHasItsFiles OneFileAFault
PROPERTIES RetriesAreAnswered
CHECK_DEADLOCK FALSE
