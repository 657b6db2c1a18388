----------------------------- MODULE MCPipeline -----------------------------
(* A chain of two blocks, Header-v4 rules.                                 *)
EXTENDS Pipeline

CONSTANTS blockA, blockB

MCBlocks == {blockA, blockB}
MCParents == [x \in MCBlocks |-> IF x = blockB THEN {blockA} ELSE {}]
=============================================================================
