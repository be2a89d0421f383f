SPECIFICATION Spec
CONSTANTS
  Faults = {"network", "lost", "rewrite", "restart", "start"}
INVARIANTS
  TypeOK
  VerifiedSurvivesRestart
  FailedApplyLeavesOld
  RollbackIsPossible
  RestoredIsInForce
  NothingOutlivesTimeout
PROPERTIES
  CallsReturn
