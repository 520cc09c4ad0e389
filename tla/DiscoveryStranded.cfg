\* Two discoveries store the same certificate and one stays inProgress.
SPECIFICATION Spec
CONSTANTS
  Names = {n1, n2}
  Serials = {s1}
  Clients = {c1}
  MaxDiscoveries = 2
  MaxEngines = 1
  MaxDbErrors = 0
  MaxCrashes = 0
  NoRow = NoRow
  NoSerial = NoSerial
INVARIANTS
  FailDiscoveryPersists
CHECK_DEADLOCK FALSE
