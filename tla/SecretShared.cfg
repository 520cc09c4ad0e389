\* Two processes, other users of the vault and a write that comes late, under
\* weak fairness of the requests.
SPECIFICATION FairSpec
CONSTANTS
  Processes = {i1, i2}
  Requests = {r1, r2}
  Paths = {p1, p2}
  Versioned = {p1}
  Values = {v1}
  Absent = Absent
  Hidden = Hidden
  RetryMax = 1
  MaxOutside = 1
  MaxLate = 1
  MaxCrashes = 1
INVARIANTS
  ChangesAreAlone
PROPERTIES
  AtomicAmongOthers
  RequestsAreAnswered
CHECK_DEADLOCK FALSE
