CONSTANTS
  Task = {t1, t2}
  Key = {k1, k2}
  Dest = {d1, d2}
  NoDest = NoDest
  Enabled = TRUE
  MaxIdlePerHost = 1
  IdleTimeout = 1
  MaxTime = 2
SPECIFICATION FairSpec
PROPERTIES
  ExpiredIsReaped
  ImplementsLifecycle
