CONSTANT Clients <- BodyClient
SPECIFICATION Spec
CHECK_DEADLOCK FALSE
INVARIANT WholeRequests
