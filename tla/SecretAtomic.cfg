\* One process, a secret of each version.
SPECIFICATION Spec
CONSTANTS
  Processes = {i1}
  Requests = {r1, r2, r3}
  Paths = {p1, p2}
  Versioned = {p2}
  Values = {v1, v2}
  Absent = Absent
  Hidden = Hidden
  RetryMax = 1
  MaxOutside = 0
  MaxLate = 0
  MaxCrashes = 1
SYMMETRY Symmetry
INVARIANTS
  TypeOK
PROPERTIES
  Atomic
CHECK_DEADLOCK FALSE
