CONSTANTS
  Conn = {c1, c2, c3}
  Kinds = {"tcp", "tls", "forward"}
  AcceptErrors = TRUE
  WriteErrors = TRUE
  Forwarded = {c1}
  MaxPieces = 2
SPECIFICATION Spec
CHECK_DEADLOCK FALSE
INVARIANTS
  AccountedFor
  NoTruncation
PROPERTIES
  ImplementsDrainLoop
  ShutdownCompletes
  OnlyHandshakeHoldsUp
  RelayEnds
