CONSTANTS
  v1 = v1
  v2 = v2
  v3 = v3
  u1 = u1
  u2 = u2
  u3 = u3
  VaultId = {v1, v2, v3}
  User = {u1, u2, u3}
  Sharing = {u1}
  MaxVaults = 2
  MaxActive = 1
  MaxRevoked = 2
  MaxMemberships = 3
  MaxSeq = 3
  Times = {1, 2}
  None = None
  Never = Never
SPECIFICATION Spec
INVARIANTS
  TableVerifies
  RowsBounded
  UidNamesOneGrant
PROPERTIES
  ImplementsACL
SYMMETRY Renaming
