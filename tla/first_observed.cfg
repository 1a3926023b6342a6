SPECIFICATION MCSpec
CONSTANTS
  k1 = k1
  k2 = k2
  k3 = k3
  Keys = {k1, k2, k3}
  Records <- MCRecords
  MaxBufferEntries = 2
  MaxPos = 3
  NoRecord = NoRecord
  Second = 2
  maxViolationRecords = 2
  MaxEvents = 3
  MaxAcks = 0
  MaxAllows = 0
  MaxAgents = 1
  MaxFaults = 0
  NoClient = NoClient
INVARIANT
  FirstObservedIsEarliest
