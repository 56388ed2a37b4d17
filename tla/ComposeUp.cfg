SPECIFICATION FairSpec
CONSTANTS
  job = job
  web = web
  db=db
  Services = {job, web, db}
  InitJobs = {job}
  Restarting = {web}
  Strands = FALSE
INVARIANT TypeOK
INVARIANT CrashNotMasked
PROPERTY CancelledIsNotSuccess
PROPERTY CancelledUpReturns
PROPERTY UpReturns
PROPERTY ImplementsComposeRun
CHECK_DEADLOCK FALSE
