SPECIFICATION HostSpec
CONSTANTS
  v1 = v1
  v2 = v2
  p1 = p1
  p2 = p2
  r1 = r1
  e1 = e1
  None = None
  Free = Free
  Services = {1, 2}
  Versions = {v1, v2}
  Verified <- AllButOne
  Procs = {p1, p2}
  Others = {r1}
  Envs = {e1}
  EnvOf <- OneEnv
  AllOrNothing <- Aggregate
  GateOnly <- NoneGateOnly
  ComposeServices = {1, 2}
  PullAlways = FALSE
  SmokeConfigured = TRUE
  Options <- BothOrFirst
  InitialViews <- Baseline
  StaleMask = FALSE
  MayCancel = TRUE
  MayCrash = FALSE
  OldSnapshots <- EarlierToo
  MaxEdits = 1
INVARIANT RollbackReportTrue
INVARIANT RestoreTrue
PROPERTY RecordsOnlyWhatRuns
PROPERTY HostImplementsProtocol
SYMMETRY Alike
