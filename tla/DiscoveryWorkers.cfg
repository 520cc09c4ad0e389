\* Two discoveries that share a certificate, two clients that read and delete
\* them, a crash and a failing database call.
SPECIFICATION Spec
CONSTANTS
  Names = {n1, n2}
  Serials = {s1}
  Clients = {c1, c2}
  MaxDiscoveries = 2
  MaxEngines = 1
  MaxDbErrors = 1
  MaxCrashes = 1
  NoRow = NoRow
  NoSerial = NoSerial
SYMMETRY Symmetry
INVARIANTS
  TypeOK
  CompletedIsComplete
  ResurrectedIsEmpty
  StrandedOnlyByConflict
  FinishedAnswerIsWhole
  PanicOnlyIfDeleted
PROPERTIES
  SettledStays
CHECK_DEADLOCK FALSE
