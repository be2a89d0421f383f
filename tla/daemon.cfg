SPECIFICATION FairSpec
CONSTANTS
  db = db
  api = api
  Secrets <- MCSecrets
  Schedules <- MCSchedules
  Labels <- MCLabels
  AnySecret = AnySecret
  NoSecret = NoSecret
  WithMaxAge <- MCWithMaxAge
  Jobs = {j1, j2}
  Policy = Policy
  Faults = {"rotate", "expire", "audit", "webhook", "history"}
INVARIANTS
  TypeOK
  NoOverlap
  CronRotationsFinish
PROPERTIES
  LocksAreReleased
  ShutdownCompletes
  OverdueIsAttempted
