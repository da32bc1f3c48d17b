CONSTANTS
  Conn = {c1, c2}
  Path = {a, b}
  Capacity = 1
  PageSize = 1
  MaxUid = 2
  Ops = {"metadata", "upload", "conditional", "restore", "purge", "elsewhere"}
  None = None
SPECIFICATION Spec
SYMMETRY Interchangeable
INVARIANTS
  NoLostRevision
  OwnCommitAhead
PROPERTIES
  NoticesInOrder
  ConditionalPushSawAll
  ImplementsOrderedFeed
