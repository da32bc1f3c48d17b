SPECIFICATION RevisionSpec
CONSTANTS
  a = a
  b = b
  c = c
  Path = {a, b, c}
  Kinds <- MCKinds
  PieceSize = 2
  PageSize = 1
  MaxItems = 2
  HistoryPage = 2
  MaxUid = 6
  Start <- MCStart
  Null = Null
INVARIANTS StoreVerifies PullExact DeletedExact HistoryComplete
