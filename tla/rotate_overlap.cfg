SPECIFICATION FairSpec
CONSTANTS
  db = db
  app = app
  hook = hook
  cache = cache
  key = key
  env1 = env1
  env2 = env2
  env3 = env3
  c1 = c1
  c2 = c2
  c3 = c3
  Secrets = {db, hook}
  Accounts = {db, hook}
  Files = {env1, env2, env3}
  Containers = {c1, c2, c3}
  KindOf <- MCKindOf
  EnvFiles <- ApartEnvFiles
  ContainersOf <- ApartContainersOf
  Reads <- ApartReads
  Probing = {c2}
  AdminAccount <- MCAdminAccount
  AdminPassword <- NoAdminPassword
  AdminPasswordEnv <- MCAdminPasswordEnv
  HasVerifyCommand = {}
  InitialFiles <- FilesInOrder
  MayOverlap = TRUE
  Faults = {"resolve", "open", "generate", "apply", "apply_noop", "verify", "write", "restart", "restore_noop", "health", "audit", "expire"}
  MaxAttempts <- Once
INVARIANTS
  TypeOK
  AgreedUnlessReported
  NewValueIsAccepted
PROPERTIES
  AttemptsTerminate
