SPECIFICATION Spec
CONSTANTS
  N = 2
  Unreliable <- BackupFails
  Inputs = 2
  Stolen <- Second
  Uniform = TRUE
  MaxCrashes = 1
INVARIANTS TypeOK RefundMeansDead 
PROPERTIES ConflictIsReal EvictedReturns KeepsPromise
