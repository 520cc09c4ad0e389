\* Two requests on one authority that moves between two vaults.
SPECIFICATION FairSpec
CONSTANTS
  Requests = {r1, r2}
  Authorities = {a1}
  Vaults = {v1, v2}
  Engines = {e1}
  Roles = {x1}
  Inputs = {c1}
  None = None
  RetryMax = 1
  MaxChanges = 1
INVARIANTS
  TypeOK
  OrphansOnlyByLostAnswers
  AnsweredAsAsked
  RevokedAsAnswered
  RevokedWasAsked
PROPERTIES
  RequestsEnd
CHECK_DEADLOCK FALSE
