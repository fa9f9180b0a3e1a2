SPECIFICATION Spec
CONSTANTS
  Problems <- Unequal
  MAX_PLAN_LENGTH = 100
INVARIANTS
  LegalPlan
