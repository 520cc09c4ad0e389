\* The forms of an authority, a certificate and a discovery, with mounts, rows
\* and the token file changing between the steps.
SPECIFICATION Spec
CONSTANTS
  Panic = Panic
  Missing = Missing
  n1 = n1
  n2 = n2
  plain = plain
  nested = nested
  odd = odd
  straight = straight
  slashed = slashed
  Names <- MCNames
  Engines <- MCEngines
  RefusedEngines <- MCRefusedEngines
  Roles <- MCRoles
  RefusedRoles <- MCRefusedRoles
SYMMETRY Symmetry
INVARIANTS TypeOK OfferedIsAccepted StoredIsAnswered
PROPERTIES SelectionIsUsed
