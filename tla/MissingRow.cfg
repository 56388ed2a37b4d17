SPECIFICATION Spec
CONSTANTS
  v1 = v1
  v2 = v2
  None = None
  Services = {1, 2, 3}
  Versions = {v1, v2}
  Pacts <- OneMissing
  Known <- ButNew
  Candidates <- New
  Deployed <- Old
  Limit = 2
INVARIANT PassedIsDue
