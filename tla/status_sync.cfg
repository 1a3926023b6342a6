SPECIFICATION MCSpec
CONSTANTS
  k1 = k1
  k2 = k2
  k3 = k3
  Keys = {k1, k2, k3}
  Records <- MCRecords
  MaxBufferEntries = 2
  MaxPos = 3
  NoRecord = NoRecord
  Second = 2
  maxViolationRecords = 2
  MaxEvents = 3
  MaxAcks = 1
  MaxAllows = 1
  MaxAgents = 2
  MaxFaults = 1
  NoClient = NoClient
INVARIANTS
  TypeOK
  CountedOnce
  UniqueIDs
  AcknowledgesChosen
  LoggedOnce
  AnnotationsKept
  NewestListed
PROPERTIES
  RefinesLog
  ScrapedEventually
  AcknowledgedEventually
