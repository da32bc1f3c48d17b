CONSTANTS
  Conn = {c1, c2}
  Path = {a}
  Capacity = 1
  PageSize = 1
  MaxUid = 2
  Ops = {"metadata", "unread"}
  None = None
SPECIFICATION FairSpec
PROPERTIES
  Answered
  Converges
