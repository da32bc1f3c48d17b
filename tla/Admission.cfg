CONSTANTS
  r1 = r1
  r2 = r2
  r3 = r3
  Client = {r1, r2, r3}
  Kinds <- MCKinds
  Capacity <- MCCapacity
  Argon2 = 3
SPECIFICATION FairAdmissionSpec
INVARIANTS SyncLaneLive
PROPERTY RequestsEnd
