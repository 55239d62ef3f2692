CONSTANTS
  Task = {t1, t2, t3}
  Key = {k1, k2}
  Dest = {d1, d2, d3}
  NoDest = NoDest
  Enabled = TRUE
  MaxIdlePerHost = 2
  IdleTimeout = 2
  MaxTime = 3
SPECIFICATION Spec
SYMMETRY PoolSymmetry
INVARIANTS
  ExclusiveOwnership
  KeyIntegrity
  PerHostLimit
  NoEntryLeak
PROPERTIES
  TakesFreshest
  FreshLostOnlyToRemove
