------------------------- MODULE MCValidatorService -------------------------
(* The in-node validator on two epochs with two targets each, and two coins *)
(* that pay for two shard or beacon transactions each.  Targets and coins   *)
(* are interchangeable.                                                     *)
EXTENDS ValidatorService, TLC

CONSTANTS t1, t2, c1, c2

MCEpochs == 0 .. 1
MCTargets == {t1, t2}
MCCoins == {c1, c2}
MCSymmetry == Permutations(MCTargets) \cup Permutations(MCCoins)
=============================================================================
