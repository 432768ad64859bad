SPECIFICATION StartSpec
CONSTANTS
  HostIsName = FALSE
  MaxConnections = 2
  service = service
  other = other
  Self = service
  Processes = {service, other}
  Runners <- MCRunners
  Builds <- MCBuilds
  DirectoryOf <- MCDirectoryOf
  Environments <- MCEnvironments
INVARIANTS
  NoOpenPortAfterFailure
  PoolOutlivesConnections
  MigrationsSettle
PROPERTIES
  StoppingIsFinal
  ShutdownCompletes
CHECK_DEADLOCK FALSE
