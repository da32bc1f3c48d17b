CONSTANTS
  p1 = p1
  p2 = p2
  p3 = p3
  d1 = d1
  d2 = d2
  s1 = s1
  s2 = s2
  None = None
  Proc = {p1, p2, p3}
  Roles <- MCRoles
  Database <- MCDatabase
  Staging <- MCStaging
  Host = {h1, h2}
  Listener = {"control", "data"}
  Conn = {c1}
  Nonce = {0}
  MaxRows = 1
SPECIFICATION FairSpec
INVARIANTS StagedKept  HostsMatch StreamKept
PROPERTY ShutdownEnds
