CONSTANTS
  outpoint = outpoint
  bondTx = bondTx
  reportA = reportA
  reportB = reportB
  exitTx = exitTx
  Txs <- MCTxs
  Kind <- MCKind
  BondOf <- MCBondOf
  Declared <- MCDeclared
  Prefix <- MCPrefix
  Bodies <- ReportBodies
  MaxBlocks = 6
  MaxParents = 1
SYMMETRY Reporters
SPECIFICATION Spec
INVARIANTS
  WriterNeverAborts
