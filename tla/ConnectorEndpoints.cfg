\* Every endpoint the platform knows, with every body its controller tells apart.
SPECIFICATION Spec
CONSTANTS
  Idle = Idle
  value = value
  Segments = {value}
  EngineNames <- MCEngineNames
  AttributeLists <- MCAttributeLists
INVARIANTS
  TypeOK
  ReachesItsHandler
  AdvertisesEveryRoute
  CertificateServicesSeeAttributes
