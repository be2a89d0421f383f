SPECIFICATION Spec
CONSTANTS
  daemon = daemon
  command = command
  job = job
  policy = policy
  other = other
  db = db
  api = api
  masterKey = masterKey
  Processes = {daemon}
  Threads = {job, policy}
  ProcessOf <- MCProcessOf
  Passphrase <- MCPassphrase
  Askers = {policy}
  Secrets = {db, api}
  Rotates <- MCRotates
  Earlier <- MCEarlier
  Faults = {}
  MaxRecords = 3
  MaxCrashes = 0
INVARIANT
  NextCheckSeesRotation
