--------------------------- MODULE MCDnsFinality ----------------------------
(* Two branches, 2-3-4 and 5-6-7-8, forking above block 1.  A block of the  *)
(* second one has twice the work.  Block 8 has an invalid UTXO state in one *)
(* shape and merges the first branch in the other.                          *)
EXTENDS DnsFinality, TLC

CONSTANTS valA, valB

(* A function that TLC holds as a table of enumerated values.               *)
Table(f) == f @@ [x \in {} |-> x]

Branch == Table([x \in 0 .. 8 |-> {y \in 0 .. x : x >= 5 /\ y \notin {0, 1} => y >= 5}])
Parents == Table([x \in 0 .. 8 |-> IF x = 0 THEN {} ELSE IF x = 5 THEN {1} ELSE {x - 1}])
WorkOf(past) == Table([x \in 0 .. 8 |-> Cardinality(past[x]) - 1 + Cardinality({y \in past[x] \ {x} : y >= 5})])

Shape(parents, past, bad) ==
  [blocks |-> 0 .. 8, parents |-> parents, past |-> past, chain |-> Branch, invalid |-> bad,
   blue   |-> Table([x \in 0 .. 8 |-> Cardinality(past[x]) - 1]), work |-> WorkOf(past)]

Shapes == [fork  |-> Shape(Parents, Branch, {8}),
           merge |-> Shape([Parents EXCEPT ![8] = {4, 7}], [Branch EXCEPT ![8] = 0 .. 8], {})]
MCDags == Shapes
MCValidators == {valA, valB}
MCVoteSets == {{}, {valA, valB}}
MCActiveSets == {{valA, valB}, {valA}}
Scenario(shape, mode, depth, changes) ==
  [shape |-> shape, reorg_mode |-> mode, finality_depth |-> depth, bondChanges |-> changes]
MCScenarios == {Scenario("merge", "HardCheckpoint", 3, 0), Scenario("merge", "HardCheckpoint", 6, 1),
                Scenario("fork", "TwoDimensionalDominance", 6, 0), Scenario("merge", "TwoDimensionalDominance", 4, 0)}
=============================================================================
