SPECIFICATION FairHostSpec
CONSTANTS
  v1 = v1
  v2 = v2
  p1 = p1
  p2 = p2
  r1 = r1
  e1 = e1
  None = None
  Free = Free
  Services = {1, 2}
  Versions = {v1, v2}
  Verified <- AllButOne
  Procs = {p1, p2}
  Others = {r1}
  Envs = {e1}
  EnvOf <- OneEnv
  AllOrNothing <- PerService
  GateOnly <- SecondGateOnly
  ComposeServices = {1, 2}
  PullAlways = TRUE
  SmokeConfigured = TRUE
  Options <- AnyFlags
  InitialViews <- Baseline
  StaleMask = TRUE
  MayCancel = TRUE
  MayCrash = TRUE
  OldSnapshots <- Unrendered
  MaxEdits = 0
INVARIANT HostTypeOK
INVARIANT OneComposeRunOnHost
PROPERTY EveryRunEnds
PROPERTY EveryRestoreEnds
