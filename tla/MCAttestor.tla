----------------------------- MODULE MCAttestor -----------------------------
(* The daemon on two epochs with two interchangeable targets each.         *)
EXTENDS Attestor, TLC

CONSTANTS t1, t2

MCEpochs == 0 .. 1
MCTargets == {t1, t2}
MCSymmetry == Permutations(MCTargets)
=============================================================================
