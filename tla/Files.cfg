SPECIFICATION Spec
CONSTANTS
  staging = staging
  prod = prod
  d1 = d1
  d2 = d2
  r1 = r1
  Free = Free
  Deploys = {d1, d2}
  Rollbacks = {r1}
  Envs = {staging, prod}
  EnvOf <- Checkout
  MaxTime = 2
INVARIANT TypeOK
INVARIANT OverrideIsOwn
INVARIANT AuditTrail
INVARIANT HintLeadsBack
CHECK_DEADLOCK FALSE
