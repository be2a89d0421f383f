SPECIFICATION Spec
CONSTANTS
  db = db
  app = app
  hook = hook
  cache = cache
  key = key
  env1 = env1
  env2 = env2
  env3 = env3
  c1 = c1
  c2 = c2
  c3 = c3
  Secrets = {db, app, hook, cache, key}
  Accounts = {db, app, hook, cache, key}
  Files = {env1, env2}
  Containers = {c1, c2}
  KindOf <- MCKindOf
  EnvFiles <- TogetherEnvFiles
  ContainersOf <- TogetherContainersOf
  Reads <- TogetherReads
  Probing = {c2}
  AdminAccount <- MCAdminAccount
  AdminPassword <- NoAdminPassword
  AdminPasswordEnv <- MCAdminPasswordEnv
  HasVerifyCommand = {}
  InitialFiles <- FilesInOrder
  MayOverlap = FALSE
  Faults = {}
  MaxAttempts <- Twice
INVARIANTS
  RepeatRotationsWork
