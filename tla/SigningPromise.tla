--------------------------- MODULE SigningPromise ---------------------------
(***************************************************************************)
(* What the equivocation guard promises, whatever implements it: a         *)
(* validator commits to at most one target per epoch, for ever, and only   *)
(* attestations of committed targets leave the host.                       *)
(***************************************************************************)
CONSTANTS Epochs, Targets, NoRecord

VARIABLES
  committed,  \* the target the validator is bound to in each epoch
  released    \* the attestations that have left the host

vars == <<committed, released>>

Init ==
  /\ committed = [e \in Epochs |-> NoRecord]
  /\ released = {}

\* New commitments may reach stable storage together; none is ever withdrawn.
Commit ==
  /\ committed' \in [Epochs -> Targets \cup {NoRecord}]
  /\ \A e \in Epochs : committed[e] # NoRecord => committed'[e] = committed[e]
  /\ UNCHANGED released

Release(e) ==
  /\ committed[e] # NoRecord
  /\ released' = released \cup {<<e, committed[e]>>}
  /\ UNCHANGED committed

Next == Commit \/ \E e \in Epochs : Release(e)

Spec == Init /\ [][Next]_vars
=============================================================================
