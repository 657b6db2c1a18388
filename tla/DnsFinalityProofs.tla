-------------------------- MODULE DnsFinalityProofs --------------------------
(* For every DAG, every set of parameters and every vote: the sink search   *)
(* finds a sink, and one no lighter than the last, unless the gate has      *)
(* turned against the sink it starts from.  The argument is that of the     *)
(* loop: as long as the previous sink has not been refused, some candidate  *)
(* in the heap has it in its past.  And virtual leaves a confirmed anchor   *)
(* only for stake: a sum of credits above zero has an epoch with a quorum.  *)
EXTENDS DnsFinality, FiniteSetTheorems, WellFoundedInduction, TLAPS

(* The stores: the tips cover the bodies, the sink is a valid body.         *)
Stores ==
  /\ scenario \in Scenarios
  /\ bodies \subseteq Dag.blocks /\ tips \subseteq bodies /\ heap \subseteq bodies
  /\ \A x \in bodies : Dag.parents[x] \subseteq bodies
  /\ \A x \in bodies : \E t \in tips : x \in Past(t)
  /\ sink \in bodies /\ UtxoValid(sink)

(* The loop: the finality point is below the sink it was computed for, and  *)
(* a sink the gate allows is still to be visited.                           *)
Covered == \E h \in heap : sink \in Past(h)

Loop == phase = "search" => finality \in Chain(sink) /\ (GateAllowsSink => Covered)

IInv == Stores /\ Loop /\ SinkMissingNeedsAbandonedAnchor

LEMMA DagFacts ==
  ASSUME scenario \in Scenarios
  PROVE  /\ IsFiniteSet(Dag.blocks) /\ Dag.blocks \subseteq Nat /\ Genesis \in Dag.blocks
         /\ \A x \in Dag.blocks : x \in Nat /\ Work(x) \in Nat /\ Blue(x) \in Nat
<1>1. WellFormed(Dag)
  BY DagAssumption DEF Dag
<1> QED
  BY Zenon, <1>1 DEF WellFormed, Work, Blue, Genesis

(* Reachability: a block is in its own past, its parents' pasts are in its  *)
(* own, and everything else in its past is below a parent.                  *)
LEMMA PastFacts ==
  ASSUME scenario \in Scenarios, NEW x \in Dag.blocks
  PROVE  /\ x \in Past(x) /\ Chain(x) \subseteq Past(x) /\ Past(x) \subseteq Dag.blocks
         /\ \A p \in Dag.parents[x] : p \in Dag.blocks /\ Past(p) \subseteq Past(x)
         /\ \A y \in Past(x) : y = x \/ \E p \in Dag.parents[x] : y \in Past(p)
         /\ \A y \in Past(x) : Past(y) \subseteq Past(x) /\ Work(y) <= Work(x)
         /\ Genesis \in Dag.blocks /\ Genesis \in Chain(x)
<1>1. WellFormed(Dag)
  BY DagAssumption DEF Dag
<1>2. /\ x \in Chain(x) /\ Genesis \in Chain(x) /\ Chain(x) \subseteq Past(x) /\ Past(x) \subseteq Dag.blocks
      /\ Past(x) = {x} \cup UNION {Past(p) : p \in Dag.parents[x]} /\ Dag.parents[x] \subseteq Dag.blocks
      /\ Genesis \in Dag.blocks
  BY Zenon, <1>1 DEF WellFormed, Past, Chain, Genesis
<1>3. \A y \in Past(x) : Past(y) \subseteq Past(x) /\ Work(y) <= Work(x)
  BY Zenon, <1>1 DEF WellFormed, Past, Work
<1> QED
  BY Zenon, <1>2, <1>3

(* Every non-empty set of naturals has a least element.                     *)
LEMMA LeastNatural ==
  ASSUME NEW T, T \subseteq Nat, T # {}
  PROVE  \E n \in T : \A m \in T : n <= m
<1>1. \A m, n \in Nat : m < n => <<m, n>> \in OpToRel(<, Nat)
  BY Zenon DEF OpToRel
<1>2. \E R : IsWellFoundedOn(R, Nat) /\ \A m, n \in Nat : m < n => <<m, n>> \in R
  BY <1>1, NatLessThanWellFounded, Zenon
<1>3. PICK R : IsWellFoundedOn(R, Nat) /\ \A m, n \in Nat : m < n => <<m, n>> \in R
  BY <1>2
<1>4. IsWellFoundedOn(R, Nat)
  BY <1>3
<1>5. \E n \in T : \A m \in T : ~(<<m, n>> \in R)
  BY <1>4, WFMin, Zenon
<1>6. PICK n \in T : \A m \in T : ~(<<m, n>> \in R)
  BY <1>5
<1>7. \A m \in T : ~(m < n)
  BY <1>3, <1>6, Zenon
<1> QED
  BY <1>7

(* Every non-empty part of a selected chain has a block of highest blue     *)
(* score.                                                                   *)
LEMMA HighestOnChain ==
  ASSUME scenario \in Scenarios, NEW x \in Dag.blocks, NEW S, S \subseteq Chain(x), S # {}
  PROVE  \E y \in S : \A z \in S : Blue(z) <= Blue(y)
<1> DEFINE T == {Blue(x) - Blue(y) : y \in S}
<1>1. \A y \in S : Blue(y) \in Nat /\ Blue(x) \in Nat /\ Blue(y) <= Blue(x)
  <2>1. WellFormed(Dag)
    BY DagAssumption DEF Dag
  <2> QED
    BY Zenon, <2>1 DEF WellFormed, Blue, Chain
<1>2. T \subseteq Nat /\ T # {}
  BY <1>1
<1>3. PICK n \in T : \A m \in T : n <= m
  <2> HIDE DEF T
  <2> QED
    BY Zenon, <1>2, LeastNatural
<1>4. PICK y \in S : n = Blue(x) - Blue(y)
  BY <1>3
<1>5. \A z \in S : n <= Blue(x) - Blue(z)
  BY <1>3
<1> QED
  BY <1>1, <1>4, <1>5

LEMMA InitEstablishes == Init => IInv
<1> SUFFICES ASSUME Init PROVE IInv
  OBVIOUS
<1>1. Genesis \in Dag.blocks /\ Genesis \in Past(Genesis) /\ Dag.parents[Genesis] \subseteq {Genesis}
         /\ Chain(Genesis) \cap Dag.invalid = {}
  <2>1. WellFormed(Dag)
    BY DagAssumption DEF Init, Dag
  <2> QED
    BY <2>1 DEF WellFormed, Past, Chain, Genesis
<1> QED
  BY <1>1 DEF Init, IInv, Stores, Loop, SinkMissingNeedsAbandonedAnchor, UtxoValid

(* A new body covers the parents it takes from the tips; a search under way *)
(* keeps its heap.                                                          *)
LEMMA CommitBodyKeeps ==
  ASSUME IInv, NEW x \in Dag.blocks \ bodies, NEW votes, NEW s, CommitBody(x, votes, s)
  PROVE  IInv'
<1> USE DEF CommitBody
<1>1. \A y \in bodies \cup {x} : \E t \in tips' : y \in Past(t)
  <2> SUFFICES ASSUME NEW y \in bodies \cup {x} PROVE \E t \in tips' : y \in Past(t)
    OBVIOUS
  <2>1. x \in tips' /\ x \in Past(x) /\ \A p \in Dag.parents[x] : Past(p) \subseteq Past(x)
    BY Zenon, PastFacts DEF IInv, Stores
  <2>2. CASE y = x
    BY Zenon, <2>1, <2>2
  <2>3. CASE y \in bodies
    <3>1. PICK t \in tips : y \in Past(t)
      BY <2>3 DEF IInv, Stores
    <3>2. CASE t \in Dag.parents[x]
      BY Zenon, <2>1, <3>1
    <3>3. CASE t \notin Dag.parents[x]
      BY Zenon, <3>1, <3>3
    <3> QED
      BY Zenon, <3>2, <3>3
  <2> QED
    BY Zenon, <2>2, <2>3
<1>2. Stores'
  BY Zenon, <1>1 DEF IInv, Stores, Dag, Past, UtxoValid, Chain
<1>3. Loop' /\ SinkMissingNeedsAbandonedAnchor'
  BY Zenon DEF IInv, Loop, Covered, SinkMissingNeedsAbandonedAnchor, GateAllowsSink, GateEngaged, Chain, Past, Dag
<1> QED
  BY <1>2, <1>3 DEF IInv

(* The finality point is on the chain of the sink, so the tip above the     *)
(* sink passes the filter that starts the search.                           *)
LEMMA ResolveVirtualKeeps ==
  ASSUME IInv, ResolveVirtual
  PROVE  IInv'
<1> USE DEF ResolveVirtual
<1>1. VirtualFinalityPoint \in Chain(sink)
  <2>1. Genesis \in Chain(sink)
    BY PastFacts DEF IInv, Stores
  <2> DEFINE deep == {y \in Chain(sink) : Blue(y) < virtualBlue - scenario.finality_depth}
  <2>2. CASE deep = {}
    BY <2>1, <2>2 DEF VirtualFinalityPoint
  <2>3. CASE deep # {}
    <3>1. \E y \in deep : \A z \in deep : Blue(z) <= Blue(y)
      BY Zenon, <2>3, HighestOnChain DEF IInv, Stores
    <3> QED
      BY Zenon, <3>1 DEF VirtualFinalityPoint
  <2> QED
    BY <2>2, <2>3
<1>2. \E h \in heap' : sink \in Past(h)
  <2>1. PICK t \in tips : sink \in Past(t)
    BY DEF IInv, Stores
  <2>2. finality' \in Past(t)
    BY Zenon, <1>1, <2>1, PastFacts DEF IInv, Stores
  <2> QED
    BY <2>1, <2>2
<1>3. Stores'
  BY Zenon DEF IInv, Stores, Dag, Past, UtxoValid, Chain
<1>4. Loop' /\ SinkMissingNeedsAbandonedAnchor'
  BY Zenon, <1>1, <1>2 DEF Loop, Covered, SinkMissingNeedsAbandonedAnchor, Chain, Past, Dag
<1> QED
  BY <1>3, <1>4 DEF IInv

(* Refusing a candidate keeps the sink covered: the sink itself is refused  *)
(* only by the gate, and a block below the candidate is below one of its    *)
(* parents, which is pushed or already below the rest of the heap.          *)
LEMMA RejectKeeps ==
  ASSUME IInv, NEW c \in heap, RejectCandidate(c)
  PROVE  IInv'
<1> USE DEF RejectCandidate
<1>1. Stores'
  BY Zenon DEF IInv, Stores, Dag, Past, UtxoValid, Chain, PushedParents
<1>2. ASSUME GateAllowsSink PROVE \E h \in heap' : sink \in Past(h)
  <2>1. PICK h \in heap : sink \in Past(h)
    BY <1>2 DEF IInv, Loop, Covered
  <2>2. CASE h # c
    BY <2>1, <2>2
  <2>3. CASE h = c /\ sink = c
    BY Zenon, <1>2, <2>3 DEF IInv, Loop, Stores, AcceptsCandidate, DnsReorgAllows, GateAllowsSink
  <2>4. CASE h = c /\ sink # c
    <3>1. PICK p \in Dag.parents[c] : sink \in Past(p)
      BY <2>1, <2>4, PastFacts DEF IInv, Stores
    <3>2. p \in Dag.blocks /\ sink \in Dag.blocks
      BY Zenon DEF IInv, Stores
    <3>3. finality \in Past(p)
      BY Zenon, <3>1, PastFacts DEF IInv, Loop, Stores
    <3>4. CASE \A g \in heap \ {c} : p \notin Past(g)
      BY Zenon, <3>1, <3>3, <3>4 DEF PushedParents
    <3>5. CASE \E g \in heap \ {c} : p \in Past(g)
      <4>1. PICK g \in heap \ {c} : p \in Past(g)
        BY <3>5
      <4>2. sink \in Past(g)
        BY Zenon, <3>1, <4>1, PastFacts DEF IInv, Stores
      <4> QED
        BY <4>2
    <3> QED
      BY <3>4, <3>5
  <2> QED
    BY <2>2, <2>3, <2>4
<1>3. Loop' /\ SinkMissingNeedsAbandonedAnchor'
  BY Zenon, <1>2 DEF IInv, Loop, Covered, SinkMissingNeedsAbandonedAnchor, GateAllowsSink, GateEngaged, Chain,
     Past, Dag
<1> QED
  BY <1>1, <1>3 DEF IInv

(* The accepted candidate is a valid body, and the search is over.          *)
LEMMA CommitKeeps ==
  ASSUME IInv, NEW c \in heap, CommitVirtualState(c)
  PROVE  IInv'
<1>1. Stores'
  BY Zenon DEF IInv, Stores, CommitVirtualState, AcceptsCandidate, Dag, Past, UtxoValid, Chain
<1>2. Loop' /\ SinkMissingNeedsAbandonedAnchor'
  BY DEF CommitVirtualState, Loop, SinkMissingNeedsAbandonedAnchor
<1> QED
  BY <1>1, <1>2 DEF IInv

(* An empty heap covers nothing: the gate does not allow the sink.          *)
LEMMA SinkMissingKeeps ==
  ASSUME IInv, SinkMissing
  PROVE  IInv'
<1>1. ~GateAllowsSink
  BY DEF IInv, Loop, Covered, SinkMissing
<1>2. Stores'
  BY Zenon DEF IInv, Stores, SinkMissing, Dag, Past, UtxoValid, Chain
<1>3. Loop' /\ SinkMissingNeedsAbandonedAnchor'
  BY <1>1 DEF SinkMissing, Loop, SinkMissingNeedsAbandonedAnchor, GateAllowsSink, GateEngaged, Chain, Dag
<1> QED
  BY <1>2, <1>3 DEF IInv

LEMMA RestartKeeps ==
  ASSUME IInv, Restart
  PROVE  IInv'
<1>1. Stores'
  BY Zenon DEF IInv, Stores, Restart, Dag, Past, UtxoValid, Chain
<1>2. Loop' /\ SinkMissingNeedsAbandonedAnchor'
  BY DEF Restart, Loop, SinkMissingNeedsAbandonedAnchor
<1> QED
  BY <1>1, <1>2 DEF IInv

LEMMA StutterKeeps ==
  ASSUME IInv, UNCHANGED vars
  PROVE  IInv'
  BY Zenon DEF vars, IInv, Stores, Loop, Covered, SinkMissingNeedsAbandonedAnchor, GateAllowsSink, GateEngaged,
     Dag, Past, UtxoValid, Chain

LEMMA NextKeeps ==
  ASSUME IInv, [Next]_vars
  PROVE  IInv'
<1>1. CASE AddBlock
  BY <1>1, CommitBodyKeeps DEF AddBlock
<1>2. CASE ResolveVirtual
  BY <1>2, ResolveVirtualKeeps
<1>3. CASE \E c \in heap : RejectCandidate(c)
  BY <1>3, RejectKeeps
<1>4. CASE \E c \in heap : CommitVirtualState(c)
  BY <1>4, CommitKeeps
<1>5. CASE SinkMissing
  BY <1>5, SinkMissingKeeps
<1>6. CASE Restart
  BY <1>6, RestartKeeps
<1>7. CASE UNCHANGED vars
  BY <1>7, StutterKeeps
<1> QED
  BY Zenon, <1>1, <1>2, <1>3, <1>4, <1>5, <1>6, <1>7 DEF Next

(* The loop invariant of sink_search_algorithm, with the stores it reads,   *)
(* holds in every behaviour.                                                *)
THEOREM SearchInvariant == Spec => []IInv
  BY InitEstablishes, NextKeeps, PTL DEF Spec

(* For every DAG and every history of votes and bonds, the expect("valid    *)
(* sink must exist") of the search can only fail when the confirmed anchor  *)
(* is not on the chain of the sink while the rollout stage is Active.       *)
THEOREM ValidSinkExists == Spec => []SinkMissingNeedsAbandonedAnchor
<1>1. IInv => SinkMissingNeedsAbandonedAnchor
  BY DEF IInv
<1> QED
  BY <1>1, SearchInvariant, PTL

(* The candidate that is accepted is the heaviest of a heap that covers the *)
(* sink, so it is no lighter than the sink.                                 *)
LEMMA CommitDoesNotRetreat ==
  ASSUME IInv, NEW c \in heap, CommitVirtualState(c), GateAllowsSink
  PROVE  Work(c) >= Work(sink)
<1>1. PICK h \in heap : sink \in Past(h)
  BY DEF IInv, Loop, Covered, CommitVirtualState
<1>2. \A x \in bodies : Work(x) \in Nat
  BY DagFacts DEF IInv, Stores
<1>3. Work(sink) <= Work(h)
  BY Zenon, <1>1, PastFacts DEF IInv, Stores
<1>4. Work(h) <= Work(c)
  BY <1>2 DEF CommitVirtualState, Heaviest, IInv, Stores
<1> QED
  BY <1>2, <1>3, <1>4 DEF IInv, Stores

LEMMA StepDoesNotRetreat ==
  ASSUME IInv, [Next]_vars, GateAllowsSink
  PROVE  Work(sink') >= Work(sink)
<1>1. CASE \E c \in heap : CommitVirtualState(c)
  BY <1>1, CommitDoesNotRetreat DEF CommitVirtualState
<1>2. CASE sink' = sink
  <2>1. Work(sink) \in Nat
    BY DagFacts DEF IInv, Stores
  <2> QED
    BY <1>2, <2>1
<1> QED
  BY Zenon, <1>1, <1>2 DEF Next, AddBlock, CommitBody, ResolveVirtual, RejectCandidate, SinkMissing, Restart, vars

(* For every DAG: virtual moves to a block of less blue work only after the *)
(* gate has turned against the sink.                                        *)
THEOREM NoNeedlessRetreat == Spec => SinkRetreatNeedsAbandonedAnchor
<1>1. IInv /\ [Next]_vars => [GateAllowsSink => Work(sink') >= Work(sink)]_vars
  BY StepDoesNotRetreat
<1> QED
  BY <1>1, SearchInvariant, PTL DEF Spec, SinkRetreatNeedsAbandonedAnchor

------------------------------------------------------------------------------
(* The search overlooks nothing: an acceptable body is below some candidate *)
(* still in the heap, as long as no body has arrived since it started.      *)
Complete ==
  phase = "search" /\ ~pending => \A x \in bodies : AcceptsCandidate(x) => \E h \in heap : x \in Past(h)

(* The anchors of the epochs are a matter of the DAG alone, and the         *)
(* StakeScore one of the DAG and of what its blocks have accepted.          *)
LEMMA AnchorsAreOfTheDag ==
  ASSUME UNCHANGED scenario
  PROVE  /\ \A e, t : CanonicalAnchor(e, t)' = CanonicalAnchor(e, t)
         /\ \A t : CanonicalAnchorsInWindow(t)' = CanonicalAnchorsInWindow(t)
         /\ \A t, d : SelectedChainCommonAncestor(t, d)' = SelectedChainCommonAncestor(t, d)
<1>1. \A e, t : CanonicalAnchor(e, t)' = CanonicalAnchor(e, t)
  BY DEF CanonicalAnchor, InWindow, Chain, Blue, Dag, AnchorCutoff
<1>2. \A t : CanonicalAnchorsInWindow(t)' = CanonicalAnchorsInWindow(t)
  BY DEF CanonicalAnchorsInWindow, CanonicalAnchor, InWindow, Chain, Blue, Dag, Epochs, ReadyEpoch
<1>3. \A t, d : SelectedChainCommonAncestor(t, d)' = SelectedChainCommonAncestor(t, d)
  BY DEF SelectedChainCommonAncestor, Chain, Blue, Dag
<1> QED
  BY <1>1, <1>2, <1>3

LEMMA ScoresAreOfTheStores ==
  ASSUME UNCHANGED <<scenario, accepted, active>>
  PROVE  \A t, s : StakeScore(t, s)' = StakeScore(t, s)
<1> SUFFICES ASSUME NEW t, NEW s PROVE StakeScore(t, s)' = StakeScore(t, s)
  OBVIOUS
<1>1. \A e : StakeContributions(t, s, e)' = StakeContributions(t, s, e)
  BY DEF CanonicalAnchor, InWindow, Chain, Blue, Dag, StakeContributions
<1> QED
  BY <1>1, AnchorsAreOfTheDag DEF StakeScore, Chain, Dag

(* A search that runs undisturbed judges a candidate the same way each time.*)
LEMMA AcceptanceIsStable ==
  ASSUME UNCHANGED <<scenario, accepted, active, sink, dns, finality>>, NEW x
  PROVE  AcceptsCandidate(x)' <=> AcceptsCandidate(x)
<1>1. Dominates(x)' <=> Dominates(x)
  BY Zenon, ScoresAreOfTheStores, AnchorsAreOfTheDag DEF Dominates, Work, Dag
<1> QED
  BY Zenon, <1>1 DEF AcceptsCandidate, UtxoValid, DnsReorgAllows, GateEngaged, Chain, Dag

(* The tip above an acceptable body has the finality point in its past.     *)
LEMMA ResolveIsComplete ==
  ASSUME IInv, ResolveVirtual
  PROVE  Complete'
<1> SUFFICES ASSUME NEW x \in bodies, AcceptsCandidate(x)' PROVE \E h \in heap' : x \in Past(h)'
  BY DEF Complete, ResolveVirtual
<1>1. Dag' = Dag
  BY DEF ResolveVirtual, Dag
<1>2. finality' \in Chain(x)
  BY <1>1 DEF AcceptsCandidate, Chain
<1>3. PICK t \in tips : x \in Past(t)
  BY DEF IInv, Stores
<1>4. finality' \in Past(t)
  BY Zenon, <1>2, <1>3, PastFacts DEF IInv, Stores
<1>5. t \in heap'
  BY <1>4 DEF ResolveVirtual
<1> QED
  BY <1>1, <1>3, <1>5 DEF Past

(* A refused candidate hands what is below it to its parents: those pushed, *)
(* and those already below another candidate.                               *)
LEMMA RejectIsComplete ==
  ASSUME IInv, Complete, NEW c \in heap, RejectCandidate(c)
  PROVE  Complete'
<1> SUFFICES ASSUME ~pending, NEW x \in bodies, AcceptsCandidate(x)' PROVE \E h \in heap' : x \in Past(h)'
  BY DEF Complete, RejectCandidate
<1>1. AcceptsCandidate(x) /\ Dag' = Dag
  BY AcceptanceIsStable DEF RejectCandidate, Dag
<1>2. x # c /\ finality \in Chain(x) /\ x \in Dag.blocks /\ c \in Dag.blocks
  BY Zenon, <1>1 DEF RejectCandidate, AcceptsCandidate, IInv, Stores
<1>3. PICK h \in heap : x \in Past(h)
  BY <1>1 DEF Complete, RejectCandidate
<1>4. CASE h # c
  BY Zenon, <1>1, <1>3, <1>4 DEF RejectCandidate, Past
<1>5. CASE h = c
  <2>1. PICK p \in Dag.parents[c] : x \in Past(p)
    BY <1>2, <1>3, <1>5, PastFacts DEF IInv, Stores
  <2>2. p \in Dag.blocks /\ finality \in Past(p)
    BY Zenon, <1>2, <2>1, PastFacts DEF IInv, Stores
  <2>3. CASE \A g \in heap \ {c} : p \notin Past(g)
    <3>1. p \in heap'
      BY Zenon, <2>2, <2>3 DEF RejectCandidate, PushedParents
    <3> QED
      BY <1>1, <2>1, <3>1 DEF Past
  <2>4. CASE \E g \in heap \ {c} : p \in Past(g)
    <3>1. PICK g \in heap \ {c} : p \in Past(g)
      BY <2>4
    <3>2. x \in Past(g) /\ g \in heap'
      BY Zenon, <2>1, <3>1, PastFacts DEF IInv, Stores, RejectCandidate
    <3> QED
      BY <1>1, <3>2 DEF Past
  <2> QED
    BY <2>3, <2>4
<1> QED
  BY <1>4, <1>5

LEMMA NextIsComplete ==
  ASSUME IInv, Complete, [Next]_vars
  PROVE  Complete'
<1>1. CASE AddBlock
  BY Zenon, <1>1 DEF AddBlock, CommitBody, Complete
<1>2. CASE ResolveVirtual
  BY <1>2, ResolveIsComplete
<1>3. CASE \E c \in heap : RejectCandidate(c)
  BY <1>3, RejectIsComplete
<1>4. CASE (\E c \in heap : CommitVirtualState(c)) \/ SinkMissing \/ Restart
  BY Zenon, <1>4 DEF CommitVirtualState, SinkMissing, Restart, Complete
<1>5. CASE UNCHANGED vars
  BY Zenon, <1>5, AcceptanceIsStable DEF vars, Complete, Past, Dag
<1> QED
  BY Zenon, <1>1, <1>2, <1>3, <1>4, <1>5 DEF Next

(* What the search visits is enough: as long as no body has arrived since   *)
(* it started, no acceptable body is out of the reach of its heap.          *)
THEOREM SearchIsComplete == Spec => []Complete
<1>1. Init => Complete
  BY DEF Init, Complete
<1> QED
  BY <1>1, NextIsComplete, SearchInvariant, PTL DEF Spec

(* A body below the heap is no heavier than the heaviest candidate.         *)
LEMMA CommitTakesTheHeaviest ==
  ASSUME IInv, Complete, ~pending, CommitVirtualState(sink')
  PROVE  \A x \in bodies : AcceptsCandidate(x) =>
            \/ Work(x) < Work(sink')
            \/ Work(x) = Work(sink')
               /\ (x <= sink' \/ \E y \in bodies \ {x} : Work(y) = Work(x) /\ x \in Past(y))
<1> SUFFICES ASSUME NEW x \in bodies, AcceptsCandidate(x)
             PROVE  \/ Work(x) < Work(sink')
                    \/ Work(x) = Work(sink')
                       /\ (x <= sink' \/ \E y \in bodies \ {x} : Work(y) = Work(x) /\ x \in Past(y))
  OBVIOUS
<1> DEFINE c == sink'
<1>1. c \in heap /\ Heaviest(c) /\ phase = "search"
  BY DEF CommitVirtualState
<1>2. PICK h \in heap : x \in Past(h)
  BY <1>1 DEF Complete
<1>3. \A y \in bodies : y \in Nat /\ Work(y) \in Nat
  BY DagFacts DEF IInv, Stores
<1>4. x \in Dag.blocks /\ h \in bodies /\ h \in Dag.blocks /\ c \in bodies
  BY <1>1, <1>2 DEF IInv, Stores
<1>5. Work(x) <= Work(h)
  BY Zenon, <1>2, PastFacts DEF IInv, Stores
<1>6. h = c \/ Work(h) < Work(c) \/ (Work(h) = Work(c) /\ h < c)
  BY <1>1, <1>2 DEF Heaviest
<1>7. CASE h = c
  BY <1>2, <1>3, <1>4, <1>5, <1>7
<1>8. CASE Work(h) < Work(c)
  BY <1>3, <1>4, <1>5, <1>8
<1>9. CASE Work(h) = Work(c) /\ h < c
  <2>1. CASE x = h
    BY <1>3, <1>4, <1>9, <2>1
  <2>2. CASE x # h /\ Work(x) = Work(h)
    <3>1. h \in bodies \ {x} /\ Work(h) = Work(x) /\ x \in Past(h)
      BY <1>2, <1>4, <2>2
    <3> QED
      BY Zenon, <1>9, <3>1
  <2>3. CASE Work(x) < Work(h)
    BY <1>9, <2>3
  <2> QED
    BY <1>3, <1>4, <1>5, <2>1, <2>2, <2>3
<1> QED
  BY Zenon, <1>6, <1>7, <1>8, <1>9

(* For every DAG: when no body arrived during the search, no body that      *)
(* finality, UTXO validation and the gate accept is heavier than the sink   *)
(* it commits, and ties go by the hash, up to the extension of a loser by   *)
(* a block of the same work.                                                *)
THEOREM TheHeaviestIsChosen == Spec => SinkIsTheHeaviestAllowed
<1> DEFINE A == ~pending /\ CommitVirtualState(sink')
       => \A x \in bodies : AcceptsCandidate(x) =>
            \/ Work(x) < Work(sink')
            \/ Work(x) = Work(sink')
               /\ (x <= sink' \/ \E y \in bodies \ {x} : Work(y) = Work(x) /\ x \in Past(y))
<1>1. IInv /\ Complete /\ [Next]_vars => [A]_vars
  BY CommitTakesTheHeaviest
<1> QED
  BY <1>1, SearchInvariant, SearchIsComplete, PTL DEF Spec, SinkIsTheHeaviestAllowed

------------------------------------------------------------------------------
(* Types.  The search computes blocks by CHOOSE: each is shown to exist.    *)
AttestationOf(blocks) == [validator : Validators, epoch : Nat, target : blocks]

DnsStateOf(blocks) ==
  [anchor : blocks \cup {NoBlock}, confirmed : blocks \cup {NoBlock}, stage : {"Active", "Bootstrap"}]

Typed ==
  /\ Genesis \in bodies /\ finality \in Dag.blocks
  /\ accepted \in [Dag.blocks -> SUBSET AttestationOf(Dag.blocks)]
  /\ active \in [Dag.blocks -> SUBSET Validators]
  /\ virtualBlue \in Nat
  /\ dns \in DnsStateOf(Dag.blocks)
  /\ pending \in BOOLEAN /\ phase \in {"idle", "search", "panicked"}

LEMMA BlueFacts ==
  ASSUME scenario \in Scenarios, NEW x \in Dag.blocks
  PROVE  /\ Chain(x) \subseteq Dag.blocks /\ x \in Chain(x)
         /\ \A y \in Chain(x) : Blue(y) \in Nat
         /\ Blue(x) \in Nat
<1>1. WellFormed(Dag)
  BY DagAssumption DEF Dag
<1> QED
  BY Zenon, <1>1 DEF WellFormed, Chain, Blue

(* The anchor of an epoch is a block of the chain, or there is none.        *)
LEMMA AnchorType ==
  ASSUME scenario \in Scenarios, NEW x \in Dag.blocks, NEW e
  PROVE  /\ CanonicalAnchor(e, x) \in Dag.blocks \cup {NoBlock}
         /\ {y \in InWindow(x) : Blue(y) <= AnchorCutoff(e)} # {} => CanonicalAnchor(e, x) \in Dag.blocks
<1> DEFINE below == {y \in InWindow(x) : Blue(y) <= AnchorCutoff(e)}
<1>1. below \subseteq Chain(x) /\ Chain(x) \subseteq Dag.blocks
  BY BlueFacts DEF InWindow
<1>2. CASE below = {}
  BY <1>2 DEF CanonicalAnchor
<1>3. CASE below # {}
  <2>1. \E y \in below : \A z \in below : Blue(z) <= Blue(y)
    <3> HIDE DEF below
    <3> QED
      BY Zenon, <1>1, <1>3, HighestOnChain
  <2>2. CanonicalAnchor(e, x) \in below
    BY <1>3, <2>1 DEF CanonicalAnchor
  <2> QED
    BY <1>1, <2>2
<1> QED
  BY Zenon, <1>2, <1>3

(* The anchor is the highest block of the window under the cutoff.          *)
LEMMA AnchorIsHighest ==
  ASSUME scenario \in Scenarios, NEW x \in Dag.blocks, NEW e,
         NEW y \in InWindow(x), Blue(y) <= AnchorCutoff(e)
  PROVE  /\ CanonicalAnchor(e, x) \in InWindow(x) /\ Blue(CanonicalAnchor(e, x)) <= AnchorCutoff(e)
         /\ Blue(y) <= Blue(CanonicalAnchor(e, x))
<1> DEFINE below == {z \in InWindow(x) : Blue(z) <= AnchorCutoff(e)}
<1>1. below \subseteq Chain(x) /\ below # {} /\ y \in below
  BY DEF InWindow
<1>2. \E u \in below : \A z \in below : Blue(z) <= Blue(u)
  <2> HIDE DEF below
  <2> QED
    BY <1>1, HighestOnChain
<1>3. CanonicalAnchor(e, x) \in below /\ \A z \in below : Blue(z) <= Blue(CanonicalAnchor(e, x))
  BY Zenon, <1>2 DEF CanonicalAnchor
<1> QED
  BY Zenon, <1>3

LEMMA CutoffGrows ==
  ASSUME NEW e \in Nat, NEW prev \in Nat, prev <= e
  PROVE  AnchorCutoff(prev) <= AnchorCutoff(e) /\ AnchorCutoff(prev) \in Nat /\ AnchorCutoff(e) \in Nat
<1> DEFINE d == e - prev
<1>1. d \in Nat /\ e + 1 = (prev + 1) + d
  OBVIOUS
<1>2. (e + 1) * EpochLen = (prev + 1) * EpochLen + d * EpochLen
  <2> HIDE DEF d
  <2> QED
    BY <1>1, ParamAssumption
<1>3. /\ (e + 1) * EpochLen \in Nat /\ (prev + 1) * EpochLen \in Nat /\ d * EpochLen \in Nat
      /\ (e + 1) * EpochLen >= 1 /\ (prev + 1) * EpochLen >= 1
  <2> HIDE DEF d
  <2> QED
    BY <1>1, ParamAssumption
<1> QED
  BY ParamAssumption DEF AnchorCutoff

(* The cutoff of the epoch before a counted one is not below the lowest     *)
(* block of the window.                                                     *)
LEMMA CountedEpochFacts ==
  ASSUME scenario \in Scenarios, NEW x \in Dag.blocks, NEW e \in CanonicalAnchorsInWindow(x)
  PROVE  /\ e \in Nat
         /\ \E y \in InWindow(x) : /\ \A z \in InWindow(x) : Blue(y) <= Blue(z)
                                   /\ Blue(y) <= AnchorCutoff(e)
                                   /\ e # 0 => Blue(y) <= AnchorCutoff(e - 1)
<1> DEFINE scores == {Blue(y) : y \in InWindow(x)}
           prev == Max({e - 1, 0})
<1>1. e \in Nat
  BY DEF CanonicalAnchorsInWindow, Epochs
<1>2. prev \in Nat /\ prev <= e /\ (e # 0 => prev = e - 1)
  <2>1. \E m \in {e - 1, 0} : \A n \in {e - 1, 0} : m >= n
    BY <1>1
  <2>2. prev \in {e - 1, 0} /\ \A n \in {e - 1, 0} : prev >= n
    BY <2>1 DEF Max
  <2> QED
    BY <1>1, <2>2
<1>3. AnchorCutoff(prev) <= AnchorCutoff(e) /\ AnchorCutoff(prev) \in Nat /\ AnchorCutoff(e) \in Nat
  BY Zenon, <1>1, <1>2, CutoffGrows
<1>4. x \in InWindow(x) /\ InWindow(x) \subseteq Chain(x)
  BY BlueFacts, ParamAssumption DEF InWindow
<1>5. scores \subseteq Nat /\ scores # {}
  BY <1>4, BlueFacts
<1>6. Min(scores) \in scores /\ \A n \in scores : Min(scores) <= n
  <2>1. \E m \in scores : \A n \in scores : m <= n
    <3> HIDE DEF scores
    <3> QED
      BY Zenon, <1>5, LeastNatural
  <2> QED
    BY <2>1 DEF Min
<1>7. PICK y \in InWindow(x) : Min(scores) = Blue(y)
  BY Zenon, <1>6
<1>8. AnchorCutoff(prev) >= Blue(y)
  BY <1>7 DEF CanonicalAnchorsInWindow
<1>9. Blue(y) <= AnchorCutoff(e)
  BY <1>3, <1>4, <1>8, BlueFacts
<1>10. e # 0 => Blue(y) <= AnchorCutoff(e - 1)
  <2>1. Blue(y) \in Nat
    BY <1>4, BlueFacts
  <2> QED
    BY Zenon, <1>2, <1>8
<1>11. \A z \in InWindow(x) : Blue(y) <= Blue(z)
  BY <1>6, <1>7
<1> QED
  BY Zenon, <1>1, <1>9, <1>10, <1>11

(* So an epoch that is counted has an anchor.                               *)
LEMMA CountedEpochHasAnchor ==
  ASSUME scenario \in Scenarios, NEW x \in Dag.blocks, NEW e \in CanonicalAnchorsInWindow(x)
  PROVE  e \in Nat /\ CanonicalAnchor(e, x) \in Dag.blocks /\ CanonicalAnchor(e, x) \in InWindow(x)
<1>1. e \in Nat /\ CanonicalAnchor(e, x) \in InWindow(x)
  BY Zenon, CountedEpochFacts, AnchorIsHighest
<1> QED
  BY <1>1, BlueFacts DEF InWindow

LEMMA VotesType ==
  ASSUME scenario \in Scenarios, NEW x \in Dag.blocks, NEW e, NEW vs \in VoteSets
  PROVE  Votes(x, e, vs) \subseteq AttestationOf(Dag.blocks)
<1>1. CASE e \notin CanonicalAnchorsInWindow(x)
  BY <1>1 DEF Votes
<1>2. CASE e \in CanonicalAnchorsInWindow(x)
  <2>1. e \in Nat /\ CanonicalAnchor(e, x) \in Dag.blocks /\ vs \subseteq Validators
    BY <1>2, CountedEpochHasAnchor, ParamAssumption
  <2> QED
    BY <1>2, <2>1 DEF Votes, AttestationOf
<1> QED
  BY <1>1, <1>2

LEMMA UpdateType ==
  ASSUME scenario \in Scenarios, NEW x \in Dag.blocks, dns \in DnsStateOf(Dag.blocks)
  PROVE  UpdateDnsState(x) \in DnsStateOf(Dag.blocks)
<1>1. ConfirmableAnchor(x) \in Dag.blocks \cup {NoBlock}
  BY AnchorType DEF ConfirmableAnchor
<1>2. RolloutStage(x) \in {"Active", "Bootstrap"}
  BY DEF RolloutStage
<1>3. dns.confirmed \in Dag.blocks \cup {NoBlock}
  BY DEF DnsStateOf
<1> QED
  BY Zenon, <1>1, <1>2 DEF UpdateDnsState, DnsStateOf

LEMMA InitTyped == Init => Typed
<1> SUFFICES ASSUME Init PROVE Typed
  OBVIOUS
<1>1. Genesis \in Dag.blocks
  BY DagFacts DEF Init
<1>2. dns \in DnsStateOf(Dag.blocks)
  BY DEF Init, NoState, DnsStateOf
<1>3. accepted \in [Dag.blocks -> SUBSET AttestationOf(Dag.blocks)] /\ active \in [Dag.blocks -> SUBSET Validators]
  BY DEF Init
<1> QED
  BY Zenon, <1>1, <1>2 DEF Init, Typed

LEMMA CommitBodyTyped ==
  ASSUME Stores, Typed, NEW x \in Dag.blocks, NEW vs \in VoteSets, NEW s \in ActiveSets,
         CommitBody(x, Votes(x, ReadyEpoch(x), vs), s)
  PROVE  Typed'
<1>1. Votes(x, ReadyEpoch(x), vs) \in SUBSET AttestationOf(Dag.blocks) /\ s \in SUBSET Validators
  BY Zenon, VotesType, ParamAssumption DEF Stores
<1>2. Dag' = Dag
  BY Zenon DEF CommitBody, Dag
<1>3. accepted' \in [Dag.blocks -> SUBSET AttestationOf(Dag.blocks)]
  BY Zenon, <1>1 DEF CommitBody, Typed
<1>4. active' \in [Dag.blocks -> SUBSET Validators]
  BY Zenon, <1>1 DEF CommitBody, Typed
<1> QED
  BY Zenon, <1>2, <1>3, <1>4 DEF CommitBody, Typed

LEMMA CommitTyped ==
  ASSUME Stores, Typed, NEW c \in heap, CommitVirtualState(c)
  PROVE  Typed'
<1>1. Dag' = Dag /\ c \in Dag.blocks /\ Genesis \in Dag.blocks
  BY Zenon DEF CommitVirtualState, Dag, Stores, Typed
<1>2. virtualBlue' \in Nat
  <2> DEFINE merged == UNION {Past(h) : h \in heap}
  <2>1. merged \subseteq Dag.blocks
    BY PastFacts DEF Stores
  <2>2. IsFiniteSet(Dag.blocks)
    BY DagFacts DEF Stores
  <2>3. Cardinality(merged) \in Nat
    <3> HIDE DEF merged
    <3> QED
      BY <2>1, <2>2, FS_Subset, FS_CardinalityType
  <2> QED
    BY <2>3 DEF CommitVirtualState
<1>3. dns' \in DnsStateOf(Dag.blocks)
  BY Zenon, UpdateType DEF CommitVirtualState, Stores, Typed
<1> QED
  BY Zenon, <1>1, <1>2, <1>3 DEF CommitVirtualState, Typed

LEMMA NextTyped ==
  ASSUME IInv, Typed, [Next]_vars
  PROVE  Typed'
<1>1. CASE AddBlock
  BY <1>1, CommitBodyTyped DEF AddBlock, IInv
<1>2. CASE ResolveVirtual
  <2>1. Stores' /\ Loop'
    BY <1>2, ResolveVirtualKeeps DEF IInv
  <2>2. Dag' = Dag /\ sink' = sink /\ phase' = "search"
    BY <1>2 DEF ResolveVirtual, Dag
  <2>3. finality' \in Dag.blocks
    BY Zenon, <2>1, <2>2, BlueFacts DEF Loop, IInv, Stores, Chain
  <2> QED
    BY Zenon, <1>2, <2>2, <2>3 DEF ResolveVirtual, Typed
<1>3. CASE \E c \in heap : RejectCandidate(c)
  BY Zenon, <1>3 DEF RejectCandidate, Typed, Dag
<1>4. CASE \E c \in heap : CommitVirtualState(c)
  BY <1>4, CommitTyped DEF IInv
<1>5. CASE SinkMissing \/ Restart
  <2>1. Genesis \in Dag.blocks
    BY DEF IInv, Stores, Typed
  <2> QED
    BY Zenon, <1>5, <2>1 DEF SinkMissing, Restart, Typed, Dag
<1>6. CASE UNCHANGED vars
  BY Zenon, <1>6 DEF vars, Typed, Dag
<1> QED
  BY <1>1, <1>2, <1>3, <1>4, <1>5, <1>6 DEF Next

(* Type correctness for every DAG: the blocks picked as anchors and finality *)
(* points exist, the sink is a valid body and the tips cover all bodies.    *)
THEOREM SearchTypeCorrect == Spec => []TypeOK
<1>1. IInv /\ Typed /\ [Next]_vars => Typed'
  BY NextTyped
<1>2. IInv /\ Typed => TypeOK
  BY Zenon DEF IInv, Stores, Typed, TypeOK, AttestationOf, DnsStateOf
<1> QED
  BY <1>1, <1>2, InitTyped, SearchInvariant, PTL DEF Spec

------------------------------------------------------------------------------
(* Sums of stake.  The recursion of the sum is over a finite set: what is   *)
(* claimed of it has no counterexample of least cardinality.                *)

(* The sum over a set takes one element away at a time.                     *)
Pick(s) == CHOOSE x \in s : TRUE
IsSum(g, f, S) == g = [s \in S |-> IF s = {} THEN 0 ELSE f[Pick(s)] + g[s \ {Pick(s)}]]

(* What is taken away is an element, and leaves a smaller set.              *)
LEMMA PickFacts ==
  ASSUME NEW D, IsFiniteSet(D), NEW s \in SUBSET D
  PROVE  /\ Cardinality(s) \in Nat /\ Cardinality(s) <= Cardinality(D) /\ Cardinality(D) \in Nat
         /\ Cardinality(s) = 0 <=> s = {}
         /\ s # {} => /\ Pick(s) \in s /\ s \ {Pick(s)} \in SUBSET D
                      /\ Cardinality(s \ {Pick(s)}) = Cardinality(s) - 1
<1>1. IsFiniteSet(s) /\ Cardinality(s) <= Cardinality(D)
  BY FS_Subset
<1>2. Cardinality(s) \in Nat /\ Cardinality(D) \in Nat
  BY <1>1, FS_CardinalityType
<1>3. Cardinality(s) = 0 <=> s = {}
  BY <1>1, FS_EmptySet
<1>4. s # {} => Pick(s) \in s
  BY DEF Pick
<1>5. s # {} => Cardinality(s \ {Pick(s)}) = Cardinality(s) - 1
  BY Zenon, <1>1, <1>4, FS_RemoveElement
<1> QED
  BY Zenon, <1>1, <1>2, <1>3, <1>4, <1>5

(* The recursion has a solution: one for the sets of at most n elements     *)
(* extends to those of n + 1.                                               *)
LEMMA SumExists ==
  ASSUME NEW D, IsFiniteSet(D), NEW f
  PROVE  \E g : IsSum(g, f, SUBSET D)
<1> DEFINE Small(n) == {s \in SUBSET D : Cardinality(s) <= n}
           Bad == {n \in Nat : ~ \E g : IsSum(g, f, Small(n))}
<1>0. \A s \in SUBSET D : Cardinality(s) \in Nat /\ (Cardinality(s) = 0 <=> s = {})
  BY Zenon, PickFacts
<1>1. ASSUME NEW n \in Nat, n = 0 PROVE \E g : IsSum(g, f, Small(n))
  <2> DEFINE h == [s \in Small(n) |-> 0]
  <2>1. \A s \in Small(n) : s = {}
    BY <1>0, <1>1
  <2>2. IsSum(h, f, Small(n))
    BY <2>1 DEF IsSum
  <2> QED
    BY Zenon, <2>2
<1>2. ASSUME NEW n \in Nat, n # 0, NEW g, IsSum(g, f, Small(n - 1)) PROVE \E h : IsSum(h, f, Small(n))
  <2> DEFINE h == [s \in Small(n) |-> IF s = {} THEN 0 ELSE f[Pick(s)] + g[s \ {Pick(s)}]]
  <2>1. \A s \in Small(n) : s # {} => s \ {Pick(s)} \in Small(n - 1)
    BY PickFacts
  <2>2. \A s \in Small(n - 1) : s \in Small(n)
    BY <1>0
  <2>3. \A s \in Small(n - 1) : g[s] = IF s = {} THEN 0 ELSE f[Pick(s)] + g[s \ {Pick(s)}]
    <3> HIDE DEF Small
    <3> QED
      BY Zenon, <1>2 DEF IsSum
  <2>4. \A s \in Small(n - 1) : g[s] = h[s]
    <3> HIDE DEF Small
    <3> QED
      BY Zenon, <2>2, <2>3
  <2>5. \A s \in Small(n) : h[s] = IF s = {} THEN 0 ELSE f[Pick(s)] + h[s \ {Pick(s)}]
    <3> HIDE DEF Small
    <3> QED
      BY Zenon, <2>1, <2>4
  <2>6. IsSum(h, f, Small(n))
    <3> HIDE DEF Small
    <3> QED
      BY Zenon, <2>5 DEF IsSum
  <2> QED
    BY <2>6
<1>3. Bad = {}
  <2> SUFFICES ASSUME Bad # {} PROVE FALSE
    OBVIOUS
  <2>1. PICK n \in Bad : \A m \in Bad : n <= m
    <3>1. Bad \subseteq Nat
      OBVIOUS
    <3> HIDE DEF Bad
    <3> QED
      BY Zenon, <3>1, LeastNatural
  <2>2. n \in Nat /\ ~ \E g : IsSum(g, f, Small(n))
    BY Zenon
  <2>3. n # 0
    BY Zenon, <1>1
  <2>4. n - 1 \in Nat /\ n - 1 \notin Bad
    <3>1. n - 1 \in Nat /\ ~(n <= n - 1)
      BY <2>2, <2>3
    <3> HIDE DEF Bad
    <3> QED
      BY <2>1, <3>1
  <2>5. \E g : IsSum(g, f, Small(n - 1))
    BY Zenon, <2>4
  <2> QED
    BY Zenon, <1>2, <2>3, <2>5
<1>4. Small(Cardinality(D)) = SUBSET D
  BY Zenon, PickFacts
<1>5. Cardinality(D) \in Nat
  BY Zenon, PickFacts
<1> QED
  BY Zenon, <1>3, <1>4, <1>5

(* A sum of naturals is one, and if it is positive then so is a summand.    *)
LEMMA SumFacts ==
  ASSUME NEW D, IsFiniteSet(D), NEW f \in [D -> Nat]
  PROVE  SumFunction(f) \in Nat /\ (SumFunction(f) > 0 => \E e \in D : f[e] > 0)
<1>1. \E g : IsSum(g, f, SUBSET D) /\ SumFunction(f) = g[D]
  <2>1. PICK h : IsSum(h, f, SUBSET (DOMAIN f))
    BY Zenon, SumExists
  <2>2. \E g : IsSum(g, f, SUBSET (DOMAIN f)) /\ SumFunction(f) = g[DOMAIN f]
    BY Zenon, <2>1 DEF SumFunction, SumFunctionOnSet, FoldFunctionOnSet, MapThenFoldSet, IsSum, Pick
  <2> QED
    BY <2>2
<1>2. PICK g : IsSum(g, f, SUBSET D) /\ SumFunction(f) = g[D]
  BY <1>1
<1>3. \A s \in SUBSET D : g[s] = IF s = {} THEN 0 ELSE f[Pick(s)] + g[s \ {Pick(s)}]
  BY Zenon, <1>2 DEF IsSum
<1> DEFINE Good(s) == g[s] \in Nat /\ (g[s] > 0 => \E e \in s : f[e] > 0)
           Bad == {n \in Nat : \E s \in SUBSET D : Cardinality(s) = n /\ ~Good(s)}
<1>4. Bad = {}
  <2> SUFFICES ASSUME Bad # {} PROVE FALSE
    OBVIOUS
  <2>1. PICK n \in Bad : \A m \in Bad : n <= m
    <3>1. Bad \subseteq Nat
      OBVIOUS
    <3> HIDE DEF Bad
    <3> QED
      BY Zenon, <3>1, LeastNatural
  <2>2. PICK s \in SUBSET D : Cardinality(s) = n /\ ~Good(s)
    OBVIOUS
  <2>3. s # {}
    <3>1. g[{}] = 0
      BY Zenon, <1>3
    <3> QED
      BY <2>2, <3>1
  <2>4. PICK x \in D : x = Pick(s) /\ x \in s /\ s \ {x} \in SUBSET D /\ Cardinality(s \ {x}) = n - 1 /\ n \in Nat
    BY Zenon, <2>2, <2>3, PickFacts
  <2>5. Good(s \ {x})
    <3>1. n - 1 \notin Bad /\ n - 1 \in Nat
      <4>1. n - 1 \in Int /\ ~(n <= n - 1)
        BY <2>4
      <4>2. n - 1 \in Nat
        BY <2>4, PickFacts
      <4> HIDE DEF Bad
      <4> QED
        BY <2>1, <4>1, <4>2
    <3> HIDE DEF Good
    <3> QED
      BY Zenon, <2>4, <3>1
  <2>6. g[s] = f[x] + g[s \ {x}] /\ f[x] \in Nat
    BY Zenon, <1>3, <2>4
  <2>7. Good(s)
    BY <2>5, <2>6
  <2> QED
    BY Zenon, <2>2, <2>7
<1>5. Good(D)
  <2>1. Cardinality(D) \in Nat
    BY Zenon, PickFacts
  <2> HIDE DEF Good
  <2> QED
    BY <1>4, <2>1
<1> QED
  BY <1>2, <1>5

LEMMA BpsFacts ==
  FullBps \in Nat /\ QualityFloor \in Nat /\ QualityFloor <= FullBps
<1>1. FullBps \in Nat
  BY DEF FullBps
<1> QED
  BY <1>1, ScoreAssumption

(* An epoch earns credit only with validators, and with a quorum of them.   *)
LEMMA CreditFacts ==
  ASSUME NEW i \in Nat, NEW n \in Nat
  PROVE  /\ EpochStakeCredit(i, n) \in Nat
         /\ EpochStakeCredit(i, n) > 0 => n # 0 /\ i * FullBps >= n * QualityFloor
<1>1. CASE n = 0 \/ i * FullBps < n * QualityFloor
  BY <1>1 DEF EpochStakeCredit
<1>2. CASE n # 0 /\ ~(i * FullBps < n * QualityFloor) /\ QualityFloor = FullBps
  BY <1>2, ScoreAssumption DEF EpochStakeCredit
<1>3. CASE n # 0 /\ ~(i * FullBps < n * QualityFloor) /\ QualityFloor # FullBps
  <2> FullBps \in Nat /\ QualityFloor \in Nat /\ QualityFloor <= FullBps /\ Scale \in Nat
    BY BpsFacts, ScoreAssumption
  <2>1. i * FullBps \in Nat /\ n * QualityFloor \in Nat /\ i * FullBps >= n * QualityFloor
    BY <1>3
  <2>2. PICK k \in Nat : k = i * FullBps - n * QualityFloor
    BY <2>1
  <2>3. PICK p \in Nat : p = k * Scale
    OBVIOUS
  <2>4. PICK m \in Nat \ {0} : m = FullBps - QualityFloor
    BY <1>3
  <2>5. PICK q \in Nat \ {0} : q = n * m
    BY <1>3
  <2>6. EpochStakeCredit(i, n) = p \div q
    BY Zenon, <1>3, <2>2, <2>3, <2>4, <2>5 DEF EpochStakeCredit
  <2>7. p \div q \in Nat
    OBVIOUS
  <2> QED
    BY <1>3, <2>1, <2>6, <2>7
<1> QED
  BY Zenon, <1>1, <1>2, <1>3

(* A chain with a score has an epoch with a quorum for its own anchor.      *)
LEMMA ScoreFacts ==
  ASSUME scenario \in Scenarios, Typed, NEW tip \in Dag.blocks, NEW stop
  PROVE  /\ StakeScore(tip, stop) \in Nat
         /\ StakeScore(tip, stop) > 0 =>
              \E e \in CanonicalAnchorsInWindow(tip) :
                /\ stop = NoBlock \/ CanonicalAnchor(e, tip) \notin Chain(stop)
                /\ active[CanonicalAnchor(e, tip)] # {}
                /\ Quorum(StakeContributions(tip, stop, e), CanonicalAnchor(e, tip))
<1> DEFINE creditable == {e \in CanonicalAnchorsInWindow(tip) :
                            stop = NoBlock \/ CanonicalAnchor(e, tip) \notin Chain(stop)}
           votes(e) == Cardinality(StakeContributions(tip, stop, e))
           weight(e) == Cardinality(active[CanonicalAnchor(e, tip)])
           credit == [e \in creditable |-> EpochStakeCredit(votes(e), weight(e))]
<1>1. StakeScore(tip, stop) = SumFunction(credit)
  BY DEF StakeScore
<1>2. IsFiniteSet(creditable)
  <2>1. \A e \in creditable : e \in Nat /\ e <= ReadyEpoch(tip)
    BY Zenon, CountedEpochHasAnchor DEF CanonicalAnchorsInWindow
  <2>2. ReadyEpoch(tip) \in Int
    <3>1. Blue(tip) \in Nat
      BY BlueFacts
    <3> QED
      BY <3>1, ParamAssumption DEF ReadyEpoch
  <2>3. creditable \subseteq 0 .. ReadyEpoch(tip)
    BY <2>1, <2>2
  <2> HIDE DEF creditable
  <2>4. IsFiniteSet(0 .. ReadyEpoch(tip))
    <3>1. 0 \in Int
      OBVIOUS
    <3> QED
      BY <2>2, <3>1, FS_Interval, Zenon
  <2> QED
    BY <2>3, <2>4, FS_Subset, Zenon
<1>3. \A e \in creditable : /\ IsFiniteSet(active[CanonicalAnchor(e, tip)]) /\ weight(e) \in Nat /\ votes(e) \in Nat
                            /\ weight(e) # 0 => active[CanonicalAnchor(e, tip)] # {}
  <2> SUFFICES ASSUME NEW e \in creditable
               PROVE  /\ IsFiniteSet(active[CanonicalAnchor(e, tip)]) /\ weight(e) \in Nat /\ votes(e) \in Nat
                      /\ weight(e) # 0 => active[CanonicalAnchor(e, tip)] # {}
    BY Zenon
  <2>1. active[CanonicalAnchor(e, tip)] \in SUBSET Validators
    BY CountedEpochHasAnchor DEF Typed
  <2>2. StakeContributions(tip, stop, e) \in SUBSET Validators
    BY <2>1 DEF StakeContributions
  <2>3. IsFiniteSet(active[CanonicalAnchor(e, tip)]) /\ IsFiniteSet(StakeContributions(tip, stop, e))
    <3>1. IsFiniteSet(Validators)
      BY ScoreAssumption
    <3> QED
      BY <2>1, <2>2, <3>1, FS_Subset, Zenon
  <2> QED
    BY Zenon, <2>3, FS_CardinalityType, FS_EmptySet
<1>4. credit \in [creditable -> Nat]
  BY Zenon, <1>3, CreditFacts
<1>5. /\ SumFunction(credit) \in Nat
      /\ SumFunction(credit) > 0 => \E e \in creditable : credit[e] > 0
  <2> HIDE DEF credit, creditable
  <2> QED
    BY <1>2, <1>4, SumFacts
<1>6. ASSUME NEW e \in creditable, credit[e] > 0
      PROVE  active[CanonicalAnchor(e, tip)] # {} /\ Quorum(StakeContributions(tip, stop, e), CanonicalAnchor(e, tip))
  <2>1. weight(e) # 0 /\ votes(e) * FullBps >= weight(e) * QualityFloor
    <3>1. votes(e) \in Nat /\ weight(e) \in Nat
      BY <1>3
    <3>2. EpochStakeCredit(votes(e), weight(e)) > 0
      BY <1>6
    <3> HIDE DEF votes, weight
    <3> QED
      BY <3>1, <3>2, CreditFacts, Zenon
  <2> QED
    BY Zenon, <1>3, <2>1 DEF Quorum
<1> QED
  BY Zenon, <1>1, <1>5, <1>6

------------------------------------------------------------------------------
(* Selected chains and where they fork.                                     *)

LEMMA ChainFacts ==
  ASSUME scenario \in Scenarios, NEW x \in Dag.blocks, NEW y \in Chain(x)
  PROVE  /\ y \in Dag.blocks /\ Chain(y) \subseteq Chain(x)
         /\ Blue(x) \in Nat /\ Blue(y) \in Nat /\ Blue(y) <= Blue(x) /\ (y # x => Blue(y) < Blue(x))
         /\ \A z \in Chain(x) : y \in Chain(z) \/ z \in Chain(y)
<1>1. y \in Dag.blocks
  BY BlueFacts
<1>2. ChainsAreLinear(Dag)
  <2>1. WellFormed(Dag)
    BY DagAssumption DEF Dag
  <2> QED
    BY <2>1, Zenon DEF WellFormed
<1>3. /\ Chain(y) \subseteq Chain(x) /\ (y # x => Blue(y) < Blue(x))
      /\ \A z \in Chain(x) : y \in Chain(z) \/ z \in Chain(y)
  BY Zenon, <1>2 DEF ChainsAreLinear, Chain, Blue
<1>4. Blue(x) \in Nat /\ Blue(y) \in Nat
  BY <1>1, BlueFacts
<1> QED
  BY <1>1, <1>3, <1>4

LEMMA BlueIsUnique ==
  ASSUME scenario \in Scenarios, NEW x \in Dag.blocks, NEW y \in Chain(x), NEW z \in Chain(x), Blue(y) = Blue(z)
  PROVE  y = z
<1>1. y \in Dag.blocks /\ z \in Dag.blocks /\ (y \in Chain(z) \/ z \in Chain(y))
  BY Zenon, ChainFacts
<1>2. y \in Chain(z) /\ y # z => Blue(y) < Blue(z)
  BY Zenon, <1>1, ChainFacts
<1>3. z \in Chain(y) /\ y # z => Blue(z) < Blue(y)
  BY Zenon, <1>1, ChainFacts
<1>4. Blue(y) \in Nat
  BY Zenon, <1>1, BlueFacts
<1> QED
  BY <1>1, <1>2, <1>3, <1>4

Fork(c, d) == CHOOSE x \in Chain(c) \cap Chain(d) : \A y \in Chain(c) \cap Chain(d) : Blue(y) <= Blue(x)

(* All that two chains share is at or below their fork.                     *)
LEMMA ForkFacts ==
  ASSUME scenario \in Scenarios, NEW c \in Dag.blocks, NEW d \in Dag.blocks
  PROVE  /\ Fork(c, d) \in Chain(c) /\ Fork(c, d) \in Chain(d) /\ Fork(c, d) # NoBlock
         /\ Chain(c) \cap Chain(d) \subseteq Chain(Fork(c, d))
<1> DEFINE S == Chain(c) \cap Chain(d)
<1>1. S \subseteq Chain(c) /\ S # {}
  BY PastFacts
<1>2. \E x \in S : \A y \in S : Blue(y) <= Blue(x)
  <2> HIDE DEF S
  <2> QED
    BY <1>1, HighestOnChain
<1>3. PICK a \in S : a = Fork(c, d) /\ \A y \in S : Blue(y) <= Blue(a)
  BY <1>2 DEF Fork
<1>4. \A y \in S : y \in Chain(a)
  <2> SUFFICES ASSUME NEW y \in S, a \in Chain(y) PROVE y \in Chain(a)
    BY ChainFacts
  <2>1. y \in Dag.blocks /\ Blue(y) \in Nat /\ Blue(a) \in Nat /\ (y # a => Blue(a) < Blue(y))
    BY ChainFacts
  <2>2. y = a
    BY <1>3, <2>1
  <2> QED
    BY <2>2
<1>5. a # NoBlock
  <2>1. a \in Nat
    BY Zenon, ChainFacts, DagFacts
  <2> QED
    BY <2>1 DEF NoBlock
<1> QED
  BY Zenon, <1>3, <1>4, <1>5

(* A chain has no more blocks above one of its blocks than blue score.      *)
LEMMA ChainIsNoLongerThanBlue ==
  ASSUME scenario \in Scenarios, NEW c \in Dag.blocks, NEW a \in Chain(c)
  PROVE  Cardinality(Chain(c) \ Chain(a)) \in Nat /\ Cardinality(Chain(c) \ Chain(a)) <= Blue(c) - Blue(a)
<1> DEFINE S == Chain(c) \ Chain(a)
           T == Blue(a) + 1 .. Blue(c)
           f == [z \in S |-> Blue(z)]
<1>1. Blue(a) \in Nat /\ Blue(c) \in Nat /\ Blue(a) <= Blue(c)
  BY ChainFacts
<1>2. ASSUME NEW z \in S PROVE Blue(z) \in T
  <2>1. a \in Chain(z) /\ z # a /\ z \in Dag.blocks
    BY Zenon, ChainFacts
  <2>2. Blue(a) < Blue(z) /\ Blue(z) \in Nat
    BY Zenon, ChainFacts
  <2>3. Blue(z) <= Blue(c)
    BY ChainFacts
  <2> QED
    BY <1>1, <2>2, <2>3
<1>3. ASSUME NEW y \in S, NEW z \in S, Blue(y) = Blue(z) PROVE y = z
  BY Zenon, <1>3, BlueIsUnique
<1>4. f \in Injection(S, T)
  BY <1>2, <1>3 DEF Injection, IsInjective
<1>5. IsFiniteSet(T) /\ Cardinality(T) = Blue(c) - Blue(a)
  <2>1. Blue(a) + 1 \in Int /\ Blue(c) \in Int
    BY <1>1
  <2>2. IsFiniteSet(T) /\ Cardinality(T) = IF Blue(a) + 1 > Blue(c) THEN 0 ELSE Blue(c) - (Blue(a) + 1) + 1
    BY <2>1, FS_Interval
  <2> QED
    BY <1>1, <2>2
<1>6. IsFiniteSet(S) /\ Cardinality(S) <= Cardinality(T)
  <2> HIDE DEF S, T, f
  <2> QED
    BY Zenon, <1>4, <1>5, FS_Injection
<1> QED
  BY Zenon, <1>5, <1>6, FS_CardinalityType

(* dns_reorg_allows: a fork the walk for the common ancestor gives up on is *)
(* older than the anchor of every epoch the candidate counts, so that its   *)
(* score over the window is its score since the fork.  Epoch 0 is excepted: *)
(* the walk ends a block before the window, and only the comparison with    *)
(* the anchor of the epoch before rules that block out.                     *)
THEOREM DeepForkIsOlderThanItsEpochs ==
  ASSUME scenario \in Scenarios, NEW c \in Dag.blocks, NEW d \in Dag.blocks,
         SelectedChainCommonAncestor(c, d) = NoBlock,
         NEW e \in CanonicalAnchorsInWindow(c), e # 0
  PROVE  CanonicalAnchor(e, c) \notin Chain(d)
<1> DEFINE a == Fork(c, d)
           t == CanonicalAnchor(e, c)
           u == CanonicalAnchor(e - 1, c)
<1>1. /\ a \in Chain(c) /\ a # NoBlock /\ a \in Dag.blocks /\ Blue(a) \in Nat /\ Blue(c) \in Nat
      /\ Chain(c) \cap Chain(d) \subseteq Chain(a)
  BY Zenon, ForkFacts, ChainFacts
<1>2. Blue(a) <= Blue(c) - Window
  <2>1. Cardinality(Chain(c) \ Chain(a)) \in Nat /\ Cardinality(Chain(c) \ Chain(a)) <= Blue(c) - Blue(a)
    BY Zenon, <1>1, ChainIsNoLongerThanBlue
  <2>2. Max({MaxReorgHorizon, Window}) \in Nat /\ Max({MaxReorgHorizon, Window}) >= Window
    <3>1. \E m \in {MaxReorgHorizon, Window} : \A n \in {MaxReorgHorizon, Window} : m >= n
      BY ParamAssumption, ScoreAssumption
    <3>2. Max({MaxReorgHorizon, Window}) \in {MaxReorgHorizon, Window} /\ Max({MaxReorgHorizon, Window}) >= Window
      BY <3>1 DEF Max
    <3> QED
      BY Zenon, <3>2, ParamAssumption, ScoreAssumption
  <2>3. (IF a = c THEN 0 ELSE Cardinality(Chain(c) \ Chain(a)) + 1) > Max({MaxReorgHorizon, Window})
    BY Zenon, <1>1 DEF SelectedChainCommonAncestor, Fork
  <2> HIDE DEF a
  <2> QED
    BY <1>1, <2>1, <2>2, <2>3, ParamAssumption
<1>3. PICK y \in InWindow(c) : /\ \A z \in InWindow(c) : Blue(y) <= Blue(z)
                               /\ Blue(y) <= AnchorCutoff(e)
                               /\ Blue(y) <= AnchorCutoff(e - 1)
  BY CountedEpochFacts
<1>4. /\ t \in InWindow(c) /\ Blue(y) <= Blue(t)
      /\ u \in InWindow(c) /\ Blue(y) <= Blue(u) /\ Blue(u) <= AnchorCutoff(e - 1)
  BY Zenon, <1>3, AnchorIsHighest
<1>5. u # t
  BY CountedEpochFacts DEF CanonicalAnchorsInWindow
<1>6. SUFFICES ASSUME t \in Chain(d) PROVE FALSE
  OBVIOUS
<1>7. /\ t \in Chain(c) /\ u \in Chain(c) /\ t \in Dag.blocks /\ u \in Dag.blocks
      /\ Blue(t) \in Nat /\ Blue(u) \in Nat /\ Blue(y) \in Nat
  BY Zenon, <1>4, ChainFacts DEF InWindow
<1>8. Blue(u) <= Blue(t)
  <2>1. e \in Nat /\ e - 1 \in Nat /\ e - 1 <= e
    BY CountedEpochFacts
  <2>2. AnchorCutoff(e - 1) <= AnchorCutoff(e) /\ AnchorCutoff(e - 1) \in Nat /\ AnchorCutoff(e) \in Nat
    BY Zenon, <2>1, CutoffGrows
  <2>3. Blue(u) <= AnchorCutoff(e)
    <3> HIDE DEF u
    <3> QED
      BY <1>4, <1>7, <2>2
  <2> QED
    BY Zenon, <1>4, <2>3, AnchorIsHighest
<1> HIDE DEF a, t, u
<1>9. Blue(t) <= Blue(a)
  <2>1. t \in Chain(a)
    BY Zenon, <1>1, <1>6, <1>7
  <2> QED
    BY Zenon, <1>1, <2>1, ChainFacts
<1>10. Blue(t) <= Blue(y)
  <2>1. Blue(c) - Blue(y) <= Window
    BY Zenon, <1>3 DEF InWindow
  <2> QED
    BY <1>1, <1>2, <1>7, <1>9, <2>1, ParamAssumption
<1>11. Blue(u) = Blue(t)
  BY <1>4, <1>7, <1>8, <1>10
<1> QED
  BY Zenon, <1>5, <1>7, <1>11, BlueIsUnique

------------------------------------------------------------------------------
(* What virtual needs to leave a confirmed anchor.                          *)

(* A vote is accepted only above the anchor it is for.                      *)
VotesOnChain == \A x \in Dag.blocks : \A w \in accepted[x] : w.target \in Chain(x)

LEMMA VotesAreOnChain ==
  ASSUME scenario \in Scenarios, NEW x \in Dag.blocks, NEW e, NEW vs, NEW w \in Votes(x, e, vs)
  PROVE  w.target \in Chain(x)
<1>1. e \in CanonicalAnchorsInWindow(x) /\ w.target = CanonicalAnchor(e, x)
  BY DEF Votes
<1> QED
  BY <1>1, CountedEpochHasAnchor DEF InWindow

LEMMA NextKeepsVotes ==
  ASSUME Stores, Typed, VotesOnChain, [Next]_vars
  PROVE  VotesOnChain'
<1>1. scenario' = scenario
  BY Zenon DEF Next, AddBlock, CommitBody, ResolveVirtual, RejectCandidate, CommitVirtualState, SinkMissing,
     Restart, vars
<1>2. CASE accepted' = accepted
  BY Zenon, <1>1, <1>2 DEF VotesOnChain, Dag, Chain
<1>3. CASE AddBlock
  <2>1. PICK y \in Dag.blocks, vs \in VoteSets, s \in ActiveSets : CommitBody(y, Votes(y, ReadyEpoch(y), vs), s)
    BY <1>3 DEF AddBlock
  <2>2. accepted' = [accepted EXCEPT ![y] = Votes(y, ReadyEpoch(y), vs)]
    BY Zenon, <2>1 DEF CommitBody
  <2>3. DOMAIN accepted = Dag.blocks
    BY DEF Typed
  <2>4. \A x \in Dag.blocks : \A w \in accepted'[x] : w.target \in Chain(x)
    BY Zenon, <2>2, <2>3, VotesAreOnChain DEF VotesOnChain, Stores
  <2> QED
    BY Zenon, <1>1, <2>4 DEF VotesOnChain, Dag, Chain
<1> QED
  BY Zenon, <1>2, <1>3 DEF Next, ResolveVirtual, RejectCandidate, CommitVirtualState, SinkMissing, Restart, vars

(* The window does not reach below a fork the walk gave up on: no candidate *)
(* of such a fork still counts epoch 0 with its anchor below the fork.      *)
FirstEpochIsSettled ==
  \A c \in bodies : SelectedChainCommonAncestor(c, sink) = NoBlock /\ 0 \in CanonicalAnchorsInWindow(c)
                      => CanonicalAnchor(0, c) \notin Chain(sink)

(* Which takes a candidate of the node's first epochs: the window of a      *)
(* higher one does not reach the cutoff of epoch 0.                         *)
LEMMA OnlyYoungChainsCountIt ==
  ASSUME scenario \in Scenarios, NEW c \in Dag.blocks, Blue(c) > Window + AnchorCutoff(0)
  PROVE  0 \notin CanonicalAnchorsInWindow(c)
<1> SUFFICES ASSUME 0 \in CanonicalAnchorsInWindow(c) PROVE FALSE
  OBVIOUS
<1>1. PICK y \in InWindow(c) : Blue(y) <= AnchorCutoff(0)
  BY CountedEpochFacts
<1>2. Blue(c) - Blue(y) <= Window /\ Blue(y) \in Nat /\ Blue(c) \in Nat
  BY ChainFacts DEF InWindow
<1>3. AnchorCutoff(0) \in Nat
  BY CutoffGrows
<1> QED
  BY <1>1, <1>2, <1>3, ParamAssumption

LEMMA QuorumGrows ==
  ASSUME NEW anchor, IsFiniteSet(active[anchor]),
         NEW s \in SUBSET active[anchor], NEW t \in SUBSET s, Quorum(t, anchor)
  PROVE  Quorum(s, anchor)
<1>1. IsFiniteSet(s)
  BY FS_Subset, Zenon
<1>2. Cardinality(t) <= Cardinality(s) /\ Cardinality(s) \in Nat /\ Cardinality(t) \in Nat
  BY Zenon, FS_Subset, FS_CardinalityType
<1>3. \A k, m, n \in Nat : k <= m /\ k * n \in Int /\ m * n \in Int => k * n <= m * n
  OBVIOUS
<1>4. PICK w \in Int : w = Cardinality(active[anchor]) * QualityFloor
  <2>1. Cardinality(active[anchor]) \in Nat /\ QualityFloor \in Nat
    BY BpsFacts, FS_CardinalityType
  <2> QED
    BY <2>1
<1>5. PICK k \in Nat, m \in Nat : k = Cardinality(t) * FullBps /\ m = Cardinality(s) * FullBps
  BY <1>2, BpsFacts
<1>6. k <= m
  BY <1>2, <1>5, BpsFacts
<1> QED
  BY <1>4, <1>5, <1>6 DEF Quorum

(* The stake that dominance asks for is a quorum of votes on the new        *)
(* chain's side of the fork, for an anchor on that side.                    *)
LEMMA DominanceIsAQuorum ==
  ASSUME Stores, Typed, VotesOnChain, FirstEpochIsSettled, NEW c \in bodies, Dominates(c)
  PROVE  \E e \in Epochs : \E target \in Chain(c) \ Chain(sink) :
           /\ active[target] # {}
           /\ Quorum({v \in active[target] : \E x \in Chain(c) \ Chain(sink) :
                        [validator |-> v, epoch |-> e, target |-> target] \in accepted[x]}, target)
<1> DEFINE stop == SelectedChainCommonAncestor(c, sink)
<1>1. scenario \in Scenarios /\ c \in Dag.blocks /\ sink \in Dag.blocks
  BY DEF Stores
<1>2. stop # NoBlock => Chain(c) \cap Chain(sink) \subseteq Chain(stop)
  <2>1. stop # NoBlock => stop = Fork(c, sink)
    BY Zenon DEF SelectedChainCommonAncestor, Fork
  <2> QED
    BY Zenon, <1>1, <2>1, ForkFacts
<1>3. StakeScore(c, stop) > 0
  <2>1. StakeScore(c, stop) > StakeScore(sink, stop) + StakeMargin
    BY DEF Dominates
  <2>2. StakeScore(c, stop) \in Nat /\ StakeScore(sink, stop) \in Nat
    <3> HIDE DEF stop
    <3> QED
      BY Zenon, <1>1, ScoreFacts
  <2>3. StakeMargin \in Nat
    BY ScoreAssumption
  <2> QED
    BY <2>1, <2>2, <2>3
<1>4. PICK e \in CanonicalAnchorsInWindow(c) :
        /\ stop = NoBlock \/ CanonicalAnchor(e, c) \notin Chain(stop)
        /\ active[CanonicalAnchor(e, c)] # {}
        /\ Quorum(StakeContributions(c, stop, e), CanonicalAnchor(e, c))
  <2> HIDE DEF stop
  <2> QED
    BY Zenon, <1>1, <1>3, ScoreFacts
<1> DEFINE target == CanonicalAnchor(e, c)
           voters == {v \in active[target] : \E x \in Chain(c) \ Chain(sink) :
                        [validator |-> v, epoch |-> e, target |-> target] \in accepted[x]}
<1>5. target \in Chain(c) /\ target \in Dag.blocks /\ e \in Epochs
  BY Zenon, <1>1, CountedEpochHasAnchor DEF InWindow, CanonicalAnchorsInWindow
<1>6. target \notin Chain(sink)
  <2>1. CASE stop # NoBlock
    BY Zenon, <1>2, <1>4, <1>5, <2>1
  <2>2. CASE stop = NoBlock /\ e = 0
    BY <2>2 DEF FirstEpochIsSettled
  <2>3. CASE stop = NoBlock /\ e # 0
    BY <1>1, <2>3, DeepForkIsOlderThanItsEpochs
  <2> QED
    BY <2>1, <2>2, <2>3
<1>7. StakeContributions(c, stop, e) \subseteq voters
  <2> SUFFICES ASSUME NEW v \in active[target],
                      NEW x \in InWindow(c),
                      [validator |-> v, epoch |-> e, target |-> target] \in accepted[x]
               PROVE  x \in Chain(c) \ Chain(sink)
    BY Zenon DEF StakeContributions
  <2>1. x \in Chain(c) /\ x \in Dag.blocks
    BY Zenon, <1>1, ChainFacts DEF InWindow
  <2>2. target \in Chain(x)
    BY Zenon, <2>1 DEF VotesOnChain
  <2>3. x \in Chain(sink) => target \in Chain(sink)
    BY Zenon, <1>1, <2>2, ChainFacts
  <2> QED
    BY Zenon, <1>6, <2>1, <2>3
<1>8. IsFiniteSet(active[target])
  <2>1. active[target] \in SUBSET Validators
    BY Zenon, <1>5 DEF Typed
  <2>2. IsFiniteSet(Validators)
    BY ScoreAssumption
  <2> QED
    BY <2>1, <2>2, FS_Subset, Zenon
<1>9. Quorum(voters, target)
  <2>1. voters \in SUBSET active[target] /\ StakeContributions(c, stop, e) \in SUBSET voters
    BY Zenon, <1>7
  <2>2. Quorum(StakeContributions(c, stop, e), target) /\ IsFiniteSet(active[target])
    BY Zenon, <1>4, <1>8
  <2> HIDE DEF voters, target, stop
  <2> QED
    BY <2>1, <2>2, QuorumGrows, Zenon
<1> QED
  BY Zenon, <1>4, <1>5, <1>6, <1>9

(* sink_search_algorithm's gate: a confirmed anchor is left in dominance    *)
(* mode only, and only for a quorum of votes on the other side of the fork, *)
(* for every DAG and every placement of the votes, as long as no candidate  *)
(* whose fork is beyond the walk's bound counts epoch 0 below that fork.    *)
THEOREM AnchorLeftForStake == Spec /\ []FirstEpochIsSettled => AnchorIsLeftOnlyForStake
<1>1. Init => VotesOnChain
  BY DEF Init, VotesOnChain
<1>2. Stores /\ Typed /\ VotesOnChain /\ [Next]_vars => VotesOnChain'
  BY NextKeepsVotes
<1> DEFINE Goal == GateEngaged /\ dns.confirmed \in Chain(sink) /\ dns.confirmed \notin Chain(sink')
             => /\ scenario.reorg_mode = "TwoDimensionalDominance"
                /\ \E e \in Epochs : \E target \in Chain(sink') \ Chain(sink) :
                     /\ active[target] # {}
                     /\ Quorum({v \in active[target] : \E x \in Chain(sink') \ Chain(sink) :
                                  [validator |-> v, epoch |-> e, target |-> target] \in accepted[x]}, target)
<1>3. ASSUME Stores, Typed, VotesOnChain, FirstEpochIsSettled, Next
      PROVE  Goal
  <2>1. CASE sink' = sink
    BY Zenon, <2>1
  <2>2. CASE \E c \in heap : CommitVirtualState(c)
    <3>1. PICK c \in heap : CommitVirtualState(c)
      BY <2>2
    <3>2. sink' = c /\ c \in bodies /\ DnsReorgAllows(c)
      BY Zenon, <1>3, <3>1 DEF CommitVirtualState, AcceptsCandidate, Stores
    <3>3. GateEngaged /\ dns.confirmed \notin Chain(c)
            => scenario.reorg_mode = "TwoDimensionalDominance" /\ Dominates(c)
      BY <3>2 DEF DnsReorgAllows
    <3> QED
      BY Zenon, <1>3, <3>2, <3>3, DominanceIsAQuorum
  <2> QED
    BY Zenon, <1>3, <2>2 DEF Next, AddBlock, CommitBody, ResolveVirtual, RejectCandidate, SinkMissing, Restart
<1>4. Stores /\ Typed /\ VotesOnChain /\ FirstEpochIsSettled /\ [Next]_vars => [Goal]_vars
  BY Zenon, <1>3
<1>5. IInv => Stores
  BY DEF IInv
<1>6. IInv /\ Typed /\ [Next]_vars => Typed'
  BY NextTyped
<1> QED
  BY <1>1, <1>2, <1>4, <1>5, <1>6, InitTyped, SearchInvariant, PTL DEF Spec, AnchorIsLeftOnlyForStake

==============================================================================
