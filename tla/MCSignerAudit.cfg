CONSTANTS
  t1 = t1
  t2 = t2
  Epochs <- MCEpochs
  Targets <- MCTargets
  NoRecord = NoRecord
  FlushMayFail = TRUE
  DeniedPurposes <- MCDeniedPurposes
  AUDIT_CHECKPOINT_INTERVAL = 2
  MaxRequests = 4
SYMMETRY MCSymmetry
SPECIFICATION Spec
INVARIANT SignedIsAudited
