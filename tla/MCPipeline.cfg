CONSTANTS
  blockA = blockA
  blockB = blockB
  Blocks <- MCBlocks
  Parents <- MCParents
  HeaderV4 = TRUE
  MaxSubmissions = 3
  MaxWrites = 2
SPECIFICATION Spec
INVARIANTS
  PipelineTypeOK
  OneCallPerBlock
  NoSpuriousOrphan
  BodyAfterHeader
  NoWaiterAtShutdown
  ParentsSettledFirst
PROPERTIES
  StatusMonotone
CHECK_DEADLOCK FALSE
