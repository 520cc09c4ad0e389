\* The attributes of a rotation are asked of the handler of another route.
SPECIFICATION Spec
CONSTANTS
  Idle = Idle
  value = value
  Segments = {value}
  EngineNames <- MCEngineNames
  AttributeLists <- MCAttributeLists
INVARIANTS
  RotationIsNotImplemented
