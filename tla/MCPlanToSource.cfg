SPECIFICATION Spec
CONSTANTS
  Context <- MCContext
  Limits <- MCLimits
  Layerings <- MCLayerings
  Requests <- MCRequests
  Orders <- MCOrders
INVARIANTS
  LaterLayersDoNotWeaken
  LargestSupportedPlan
  RefusedForCause
  DependenciesFirst
  AcceptedExactly
CHECK_DEADLOCK FALSE
