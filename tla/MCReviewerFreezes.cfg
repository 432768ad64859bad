SPECIFICATION Spec
CONSTANTS
  ann = ann
  bob = bob
  cyd = cyd
  kLow = kLow
  kHigh = kHigh
  x1 = x1
  cFull = cFull
  cExempt = cExempt
  cOther = cOther
  cForeign = cForeign
  s1 = s1
  s2 = s2
  s3 = s3
  NoPlan = NoPlan
  NoCommand = NoCommand
  NoDecision = NoDecision
  Nobody = Nobody
  Actors <- MCActors
  Plans = {kLow}
  RiskOf <- MCRiskOf
  Contents = {cFull}
  PlanOf <- MCPlanOf
  CreatorOf <- MCCreatorOf
  CreatedAtOf <- MCCreatedAtOf
  ObligationsOf <- MCObligationsOf
  Exemptions = {x1}
  AllowMandatoryPartial = TRUE
  Times = {1}
  Grants <- MCGrants
  MaxRevision = 4
  Sessions = {s1, s2}
  Ops = {"generate", "submit", "review", "approve", "freeze"}
SYMMETRY MCSessionSymmetry
INVARIANT
  ApproversDoNotFreeze
CHECK_DEADLOCK FALSE
