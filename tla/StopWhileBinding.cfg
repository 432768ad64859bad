SPECIFICATION ServiceSpec
CONSTANTS
  HostIsName = TRUE
  MaxConnections = 1
INVARIANT
  NoOpenPortAfterFailure
CHECK_DEADLOCK FALSE
