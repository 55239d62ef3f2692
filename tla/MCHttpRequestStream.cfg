CONSTANT Clients <- AllClients
SPECIFICATION FairSpec
CHECK_DEADLOCK FALSE
INVARIANTS
  Conservation
  WholeWithoutBody
PROPERTY AllForwarded
