CONSTANTS
  Conn = {c1, c2}
  Key = {k1, k2}
  Dest = {d1, d2}
  NoKey = NoKey
  NoDest = NoDest
  MaxPre = 1
  MaxPost = 0
  MaxReq = 1
  Flows <- PooledFlows
  Env = {"client_close", "route_failure", "bad_response", "response_close"}
SPECIFICATION FairSpec
CHECK_DEADLOCK FALSE
PROPERTIES
  Answered
  Forwarded
  GoneIsCleanedUp
  ImplementsLifecycle
