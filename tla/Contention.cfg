SPECIFICATION Spec
CONSTANTS
  v1 = v1
  v2 = v2
  p1 = p1
  p2 = p2
  e1 = e1
  None = None
  Free = Free
  Services = {1, 2}
  Versions = {v1, v2}
  Verified <- AllButOne
  Procs = {p1, p2}
  Others = {}
  Envs = {e1}
  EnvOf <- OneEnv
  AllOrNothing <- Aggregate
  GateOnly <- NoneGateOnly
  ComposeServices = {1, 2}
  PullAlways = TRUE
  SmokeConfigured = TRUE
  Options <- AnyScope
  InitialViews <- BaselineOrTorn
  StaleMask = FALSE
  MayCancel = TRUE
  MayCrash = TRUE
  MaxEdits = 1
INVARIANT TypeOK
INVARIANT LockHeld
INVARIANT OneComposeRun
INVARIANT VerdictStillHolds
INVARIANT VerifiedTogether
INVARIANT ReportedRecordsShown
INVARIANT HintTrue
PROPERTY ImplementsProtocol
SYMMETRY Alike
