CONSTANTS
  outpoint = outpoint
  bondTx = bondTx
  reportA = reportA
  reportB = reportB
  exitTx = exitTx
  Txs <- MCTxs
  Kind <- MCKind
  BondOf <- MCBondOf
  Declared <- MCDeclared
  Prefix <- MCPrefix
  Bodies <- MCBodies
  MaxBlocks = 6
  MaxParents = 2
SYMMETRY Reporters
SPECIFICATION Spec
INVARIANTS
  RegistryTypeOK
  StoreIsOfTheSink
  ViewIsOfThePoint
  VerdictIsOfTheChain
  AbortNeedsRepeatedEffect
