SPECIFICATION FairSpec
CONSTANTS
  daemon = daemon
  command = command
  job = job
  policy = policy
  other = other
  db = db
  api = api
  masterKey = masterKey
  Processes = {daemon, command}
  Threads = {job, policy, other}
  ProcessOf <- MCProcessOf
  Passphrase <- MCPassphrase
  Askers = {policy}
  Secrets = {db, api}
  Rotates <- MCRotates
  Earlier <- MCEarlier
  Faults = {"read", "write", "crash"}
  MaxRecords = 3
  MaxCrashes = 1
INVARIANTS
  TypeOK
  EntriesReadable
  AnswersAreFresh
PROPERTIES
  ReadableOnlyGrows
  CallsReturn
