SPECIFICATION FairSpec
CONSTANTS
  Images = {good, unsupported}
  MaxJobs = 2
  BatchSize = 2
  MaxFaults = 0
  Unreadable = {}
  Refused = {}
  Malformed = {}
  Unsupported = {unsupported}
  Keyed = {}
PROPERTIES BatchMatesAreIsolated
