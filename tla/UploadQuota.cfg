CONSTANTS
  c1 = c1
  c2 = c2
  u1 = u1
  u2 = u2
  Conn = {c1, c2}
  User = {u1, u2}
  ActingUser <- Acting
  VaultOwner <- Owning
  MaxUploads = 2
  MaxUserUploads = 2
  PieceSize = 2
  Sizes = {1, 3}
  GlobalQuotas = {3, 4}
  OwnerQuotas = {3}
  None = None
SPECIFICATION FairSpec
INVARIANTS
  AdmittedNeverRefused
  ReservationsExact
PROPERTIES
  ReservationReleased
  QuotaHard
