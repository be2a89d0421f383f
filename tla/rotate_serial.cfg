SPECIFICATION Spec
CONSTANTS
  db = db
  app = app
  hook = hook
  cache = cache
  key = key
  env1 = env1
  env2 = env2
  env3 = env3
  c1 = c1
  c2 = c2
  c3 = c3
  Secrets = {db, app}
  Accounts = {db, app}
  Files = {env1, env2}
  Containers = {c1, c2}
  KindOf <- MCKindOf
  EnvFiles <- TogetherEnvFiles
  ContainersOf <- TogetherContainersOf
  Reads <- TogetherReads
  Probing = {c2}
  AdminAccount <- MCAdminAccount
  AdminPassword <- NoAdminPassword
  AdminPasswordEnv <- MCAdminPasswordEnv
  HasVerifyCommand = {}
  InitialFiles <- FilesInOrder
  MayOverlap = FALSE
  Faults = {"apply", "apply_lost", "apply_noop", "verify", "write", "restart", "health", "restore_file", "restore_credential", "restore_noop", "expire", "crash"}
  MaxAttempts <- DbTwice
INVARIANTS
  AgreedUnlessReported
  NewValueIsAccepted
PROPERTIES
  RotatesAtomically
