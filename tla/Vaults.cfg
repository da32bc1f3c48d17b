CONSTANTS
  User = {u1, u2}
  Collaborator = {u2}
  VaultId = {1, 2, 3}
  Key = {k1, k2}
  Name = {n1, n2}
  Req = {r1, r2}
  MaxVaults = 1
  MaxRetired = 3
  MaxRetiredPerOwner = 2
  Times = {1, 2}
SPECIFICATION Spec
INVARIANTS
  KeyAgreement
  NameKept
  RetiredVerifies
PROPERTY
  GoneIsRemembered
SYMMETRY Renaming
