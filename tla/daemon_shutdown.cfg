SPECIFICATION Spec
CONSTANTS
  db = db
  api = api
  Secrets <- MCSecrets
  Schedules <- MCSchedules
  Labels <- MCLabels
  AnySecret = AnySecret
  NoSecret = NoSecret
  WithMaxAge <- MCWithMaxAge
  Jobs = {j1}
  Policy = Policy
  Faults = {}
INVARIANTS
  RunningRotationsFinish
