SPECIFICATION FairSpec
CONSTANTS
  Problems <- AllProblems
  MAX_PLAN_LENGTH = 100
INVARIANTS
  LegalPlan
  UnsolvableIsTrue
  RelaxedPlanWorks
  AgendaRespectsOrders
  PlanFollowsStates
  FieldConstraints
PROPERTIES
  Terminates
