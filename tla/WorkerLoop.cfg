SPECIFICATION FairSpec
CONSTANTS
  Kinds = {"webhook", "sequence"}
  FailureLimit = 2
  Retention = 0
  NoRecord = NoRecord
  MaxTime = 1
  MaxTicks = 2
  MaxBeats = 2
  MaxFaults = 3
  MaxRuns = 2
INVARIANTS
  TypeOK
  EndedIsRecorded
PROPERTIES
  RecordsInOrder
  AbortEnds
CHECK_DEADLOCK FALSE
