CONSTANTS
  t1 = t1
  t2 = t2
  c1 = c1
  c2 = c2
  Epochs <- MCEpochs
  Targets <- MCTargets
  Coins <- MCCoins
  NoRecord = NoRecord
  NoOutpoint = NoOutpoint
  FlushMayFail = TRUE
  CoinAmount = 3
  ATTESTATION_CATCH_UP_LIMIT = 2
  MaxTxs = 3
SYMMETRY MCSymmetry
SPECIFICATION Spec
INVARIANT NeverReselectsInflight
