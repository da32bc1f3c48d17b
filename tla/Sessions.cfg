CONSTANTS
  User = {u1, u2}
  Token = {t1, t2, t3}
  Req = {r1, r2}
  MaxSessions = 2
  MaxPerUser = 1
  TTL = 2
  MaxClock = 2
  Rollback = TRUE
SPECIFICATION Spec
INVARIANTS
  TableVerifies
  WindowSlides
PROPERTIES
  OnlyExtends
SYMMETRY Renaming
