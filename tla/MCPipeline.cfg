CONSTANTS
  Conn = {c1, c2}
  Key = {k1}
  Dest = {d1, d2}
  NoKey = NoKey
  NoDest = NoDest
  MaxPre = 1
  MaxPost = 1
  MaxReq = 2
  Flows <- AllFlows
  Env = {"client_close", "bad_request", "invalid_request", "request_close", "route_failure", "server_close", "truncated", "bad_response", "response_close"}
SPECIFICATION Spec
CHECK_DEADLOCK FALSE
SYMMETRY PipelineSymmetry
INVARIANTS
  WithinLimits
  NoCrossTalk
  ErrorLast
  QuietWhenPooled
  OneOwner
  GaugeBalanced
