SPECIFICATION FairSpec
CONSTANTS
  v1 = v1
  v2 = v2
  None = None
  Versions = {v1, v2}
  MaxAttempts = 3
  LateDelivery = FALSE
  MaxCalls = 2
INVARIANT TypeOK
PROPERTY ImplementsRecordCall
PROPERTY EveryCallReturns
