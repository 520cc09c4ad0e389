\* Two requests at once and one database error, three values of the serial.
SPECIFICATION Spec
CONSTANTS
  a = a
  b = b
  vault = vault
  nowhere = nowhere
  secret = secret
  role = role
  Unset = Unset
  None = None
  Requests = {r1, r2}
  Names = {a, b}
  Attributes <- MCAttributes
  Bodies <- MCBodies
  CredentialTypes <- MCTypes
  Addresses = {vault, nowhere}
  Malformed = {nowhere}
  Secrets = {secret}
  VaultRoles = {role}
  MaxIds = 3
  MaxErrors = 1
SYMMETRY Symmetry
INVARIANTS
  TypeOK
  RowsAreWhole
PROPERTIES
  CreateStoresConnected
  OnlyReadRowsChange
