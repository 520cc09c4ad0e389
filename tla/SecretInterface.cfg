\* Two names below a path, with a prefix and without: four paths of one mount that
\* meet at two places, requests of every shape, a restart and another user of the
\* vault.
SPECIFICATION Spec
CONSTANTS
  Refused = Refused
  Nil = Nil
  Empty = Empty
  Blank = Blank
  Mounts = {"kv"}
  Names <- MCNames
  Secrets <- MCSecrets
  RoleSecrets <- MCRoleSecrets
  Others <- MCOthers
  Styles <- MCStyles
  MaxRestarts = 1
  MaxChanges = 3
  Prefixes <- MCPrefixes
  SecretPaths <- MCSecretPaths
  Resolved <- MCResolved
INVARIANTS TypeOK OfferedIsAccepted
PROPERTIES ReadsBack
