SPECIFICATION QueriesSpec
CONSTANTS
  ann = ann
  bob = bob
  cyd = cyd
  dan = dan
  kLow = kLow
  kHigh = kHigh
  x1 = x1
  cLow = cLow
  cFull = cFull
  cExempt = cExempt
  cOpen = cOpen
  NoPlan = NoPlan
  Actors <- MCActors
  Plans = {kHigh, kLow}
  RiskOf <- MCRiskOf
  Contents = {cExempt, cFull, cLow}
  PlanOf <- MCPlanOf
  CreatorOf <- MCCreatorOf
  CreatedAtOf <- MCCreatedAtOf
  ObligationsOf <- MCObligationsOf
  Exemptions = {x1}
  AllowMandatoryPartial = TRUE
  Times = {1, 2}
  Grants <- MCGrants
  MaxRevision = 6
  PlanRank <- MCPlanRank
  Queries <- MCQueries
  PageLimits = {1}
SYMMETRY MCSymmetry
INVARIANTS
  PlansValid
  ApprovedOnEvidence
  FrozenAsReviewed
  PagesComplete
  TimelineShowsEvidence
CONSTRAINT MCSmall
CHECK_DEADLOCK FALSE
