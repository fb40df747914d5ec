SPECIFICATION FairSpec
CONSTANTS
  Images = {good, unreadable, refused, keyed}
  MaxJobs = 3
  BatchSize = 2
  MaxFaults = 2
  Unreadable = {unreadable}
  Refused = {refused}
  Malformed = {}
  Unsupported = {}
  Keyed = {keyed}
PROPERTIES SettledUnlessSpoiled StopIsHeeded
