SPECIFICATION QueriesSpec
CONSTANTS
  ann = ann
  bob = bob
  cyd = cyd
  p1 = p1
  p2 = p2
  cMedium = cMedium
  cCritical = cCritical
  id1 = id1
  Unbound = Unbound
  NoRecord = NoRecord
  Actors <- MCActors
  Projects <- MCProjects
  Contents <- MCContents
  RiskOf <- MCRiskOf
  ScopeOf <- MCScopeOf
  Grants <- MCGrants
  Times = {1, 2}
  Ids = {id1}
  Versions = {1, 2}
  KeyRank <- MCKeyRank
  SnapshotRank <- MCSnapshotRank
  Snapshots <- MCSnapshots
  Queries <- MCQueries
  PageLimits = {1}
  MaxRevision = 5
INVARIANTS
  RecordsValid
  PublishedOnApproval
  PagesComplete
CONSTRAINT MCSmall
CHECK_DEADLOCK FALSE
