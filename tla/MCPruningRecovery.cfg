SPECIFICATION FairSpec
CONSTANTS
    MaxScore = 9
    FinalityDepth = 2
    PruningDepth = 3
    AnticoneDepth = 1
    palw_activation_daa_score = 5
    MaxFaults = 1
    MaxRetreats = 2
    Datadirs <- MCDatadirs
INVARIANTS
    TypeOK
    UtxosetMatchesItsPosition
    StableBoundaryIsComplete
    PanicNeedsIbdRace
PROPERTY
    TransitionalStateEnds
\* The chain is finite: at its end the worker and the peers have nothing left to do.
CHECK_DEADLOCK FALSE
