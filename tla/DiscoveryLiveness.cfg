\* Two discoveries that end under weak fairness of their goroutines.
SPECIFICATION FairSpec
CONSTANTS
  Names = {n1, n2}
  Serials = {s1}
  Clients = {c1}
  MaxDiscoveries = 2
  MaxEngines = 1
  MaxDbErrors = 1
  MaxCrashes = 1
  NoRow = NoRow
  NoSerial = NoSerial
PROPERTIES
  WorkerStops
  RunningSettles
  KeepsALedger
CHECK_DEADLOCK FALSE
