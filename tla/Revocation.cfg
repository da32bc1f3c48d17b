CONSTANTS
  alice = alice
  bob = bob
  v1 = v1
  ta = ta
  tb = tb
  c1 = c1
  c2 = c2
  r1 = r1
  User = {alice, bob}
  Vault = {v1}
  Token = {ta, tb}
  Conn = {c1, c2}
  Req = {r1}
  Owner <- OneOwner
  TokenUser <- OneTokenEach
  MaxConn = 2
  MaxPerUser = 1
  MaxWrites = 1
  MaxInvites = 1
SPECIFICATION FairSpec
INVARIANTS
  NoDeliveryAfterWithdrawal
  WithdrawalReachesLive
PROPERTIES
  WithdrawnCloses
