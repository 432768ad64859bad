SPECIFICATION Spec
CONSTANTS
  ann = ann
  bob = bob
  cyd = cyd
  p1 = p1
  cMedium = cMedium
  cCritical = cCritical
  id1 = id1
  s1 = s1
  s2 = s2
  s3 = s3
  Unbound = Unbound
  NoRecord = NoRecord
  NoCommand = NoCommand
  NoDecision = NoDecision
  Nobody = Nobody
  Actors <- MCActors
  Projects = {p1}
  Contents = {cCritical}
  RiskOf <- MCRiskOf
  ScopeOf <- MCScopeOf
  Grants <- MCRoleGrants
  Times = {1}
  Ids = {id1}
  Versions = {1, 2}
  MaxRevision = 5
  Sessions = {s1, s2}
  Ops = {"create", "replace", "review", "submit", "publish", "deprecate", "archive"}
CONSTRAINT MCTwoVersions
SYMMETRY MCSymmetry
INVARIANTS
  DeadlocksOnlyAmongChangeRequests
PROPERTY
  GovernanceImplemented
CHECK_DEADLOCK FALSE
