SPECIFICATION FairSpec
CONSTANTS
  v1 = v1
  v2 = v2
  None = None
  Services = {1, 2, 3}
  Versions = {v1, v2}
  Pacts <- Complete
  Known <- ButNew
  Candidates <- New
  Deployed <- Old
  Limit = 2
INVARIANT TypeOK
INVARIANT PassedIsDue
INVARIANT VerifyForesees
PROPERTY NoFalseAlarm
PROPERTY EveryGateEnds
