CONSTANTS
  blockA = blockA
  blockB = blockB
  Blocks <- MCBlocks
  Parents <- MCParents
  HeaderV4 = TRUE
  MaxSubmissions = 2
  MaxWrites = 2
SPECIFICATION Spec
PROPERTIES
  EveryTaskAnswered EveryTaskResolved ShutdownCompletes
CHECK_DEADLOCK FALSE
