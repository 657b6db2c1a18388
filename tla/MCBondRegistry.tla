--------------------------- MODULE MCBondRegistry ---------------------------
(* One bond, two reporters, one unbond request; the model starts on a chain *)
(* whose third block accepts the bond, Pending until DAA score 3.           *)
EXTENDS BondRegistry

CONSTANTS outpoint, bondTx, reportA, reportB, exitTx

MCTxs == {bondTx, reportA, reportB, exitTx}
MCKind == (bondTx :> "bond") @@ (reportA :> "evidence") @@ (reportB :> "evidence") @@ (exitTx :> "unbond")
MCBondOf == [t \in MCTxs |-> outpoint]
MCDeclared == (outpoint :> 3)
MCPrefix == << <<>>, <<bondTx>>, <<>> >>
MCBodies == {<<>>, <<bondTx>>, <<reportA>>, <<reportB>>, <<exitTx>>}
Reporters == Permutations({reportA, reportB})
ReportBodies == {<<>>, <<reportA>>, <<reportB>>}
=============================================================================
