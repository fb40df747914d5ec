SPECIFICATION StoreSpec
CONSTANTS
  Devices = {"auto", "cpu", "cuda"}
  MaxRuns = 2
INVARIANTS StartsAsAsked
CHECK_DEADLOCK FALSE
