CONSTANTS
  Device = {d1, d2}
  Path = {live, old, p1}
  Live = live
  Old = old
  VaultId = {v1, v2}
  First = v1
  Versions = {2, 7}
  Grant = {"owner", "account"}
  MaxWrites = 2
SPECIFICATION RecoverySpec
SYMMETRY Renaming
VIEW RelevantVars
INVARIANTS
  NoSilentGap
  NothingResurrected
