------------------------- MODULE MCPruningRecovery -------------------------
(* A chain of nine blocks with a pruning sample every second one.  The      *)
(* process starts on a fresh datadir, or on one of a release without the    *)
(* sidecars that stopped inside a pruning pass.                             *)
EXTENDS PruningRecovery

MCDatadirs ==
    {[pp |-> 0, pos |-> 0, sidecar |-> 0, checkpoint |-> 0, sink |-> 3],
     [pp |-> 2, pos |-> 1, sidecar |-> 0, checkpoint |-> 0, sink |-> 5]}

=============================================================================
