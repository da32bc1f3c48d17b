CONSTANTS
  Email = {e1, e2, e3, e4}
  Password = {p1, p2}
  Req = {r1, r2}
  MaxUsers = 3
  Times = {1}
SPECIFICATION Spec
INVARIANTS
  SessionsMatchPassword
PROPERTIES
  ActiveAdministratorRemains
SYMMETRY Renaming
CHECK_DEADLOCK FALSE
