SPECIFICATION Spec
CONSTANTS
  v1 = v1
  v2 = v2
  p1 = p1
  p2 = p2
  e1 = e1
  None = None
  Free = Free
  Services = {1, 2}
  Versions = {v1, v2}
  Verified <- AllButOne
  Procs = {p1}
  Others = {}
  Envs = {e1}
  EnvOf <- OneEnv
  AllOrNothing <- Aggregate
  GateOnly <- NoneGateOnly
  ComposeServices = {1, 2}
  PullAlways = FALSE
  SmokeConfigured = TRUE
  Options <- FullOn
  InitialViews <- Baseline
  StaleMask = TRUE
  MayCancel = FALSE
  MayCrash = FALSE
  MaxEdits = 0
PROPERTY RecordsOnlyWhatRuns
