SPECIFICATION Spec
CONSTANTS
  Images = {good, unreadable, refused, unsupported, malformed, keyed}
  MaxJobs = 2
  BatchSize = 2
  MaxFaults = 2
  Unreadable = {unreadable}
  Refused = {refused}
  Malformed = {malformed}
  Unsupported = {unsupported}
  Keyed = {keyed}
INVARIANTS TypeOK AckedWasIndexed DroppedWasReported IndexedReportIsTrue InHand
PROPERTIES NothingPassesMalformed ProcessingReportedFirst ImplementsImageJobs
