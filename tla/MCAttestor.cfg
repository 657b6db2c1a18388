CONSTANTS
  t1 = t1
  t2 = t2
  Epochs <- MCEpochs
  Targets <- MCTargets
  NoRecord = NoRecord
  FlushMayFail = TRUE
  CATCH_UP_LIMIT = 2
SYMMETRY MCSymmetry
SPECIFICATION Spec
INVARIANTS
  AttestorTypeOK
  EquivocationNeedsUnsavedRecord
  ReleasedIsDurable
  LogReadable
PROPERTY KeepsPromise
