\* A running discovery is answered as completed.
SPECIFICATION Spec
CONSTANTS
  Names = {n1, n2}
  Serials = {s1}
  Clients = {c1}
  MaxDiscoveries = 2
  MaxEngines = 1
  MaxDbErrors = 0
  MaxCrashes = 0
  NoRow = NoRow
  NoSerial = NoSerial
INVARIANTS
  RunningIsNotAnsweredCompleted
CHECK_DEADLOCK FALSE
