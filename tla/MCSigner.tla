------------------------------ MODULE MCSigner ------------------------------
(* One epoch with two interchangeable targets; a validator-only signer that *)
(* takes a checkpoint every second record.                                  *)
EXTENDS Signer, TLC

CONSTANTS t1, t2

MCEpochs == {0}
MCTargets == {t1, t2}
MCSymmetry == Permutations(MCTargets)
MCDeniedPurposes == {"Transaction"}
=============================================================================
