CONSTANTS
  Conn = {c1}
  Key = {k1}
  Dest = {d1}
  NoKey = NoKey
  NoDest = NoDest
  MaxPre = 1
  MaxPost = 1
  MaxReq = 2
  Flows <- PooledFlows
  Env = {"server_close"}
SPECIFICATION FairSpec
CHECK_DEADLOCK FALSE
PROPERTY Answered
