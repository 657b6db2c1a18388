----------------------------- MODULE DnsFinality -----------------------------
(* The sink search of the virtual processor under the DNS finality overlay: *)
(* bodies arrive in any order, resolve_virtual searches the tips for the    *)
(* heaviest block that is above finality, UTXO valid and allowed by the     *)
(* reorg gate, and the commit recomputes the StakeScore, the rollout stage  *)
(* and the confirmed anchor the gate protects.                              *)
(*                                                                          *)
(* The block DAG is a constant: what GHOSTDAG and reachability say of a     *)
(* block (inclusive past, selected chain, blue score, blue work) and which  *)
(* blocks fail UTXO validation.  Every merged block is blue, the number of  *)
(* a block is its hash, and block 0 is genesis and the pruning point.       *)
(* Blocks accept attestations of active bonds of equal stake for epochs of  *)
(* their own chain; a validator signs one target per epoch (Attestor).      *)
(* Dormancy, health and the attestation mass check are left out.            *)
EXTENDS Integers, FiniteSets, FiniteSetsExt, Functions

CONSTANTS
  Dags,                \* shape -> the DAG of that shape
  Scenarios,           \* [shape, reorg_mode, finality_depth, bondChanges]: the DAG, two
                       \* parameters and a bound on the blocks that change the active set
  Validators,
  VoteSets,            \* sets of validators whose votes one block may accept
  ActiveSets,          \* active validator sets a chain may move to
  EpochLen,            \* attestation_epoch_length_blue_score
  Lag,                 \* attestation_lag_blue_score
  Backoff,             \* attestation_anchor_backoff_blue_score
  Window,              \* stake_score_window_blue_score
  MaxReorgHorizon,     \* max_reorg_horizon_blocks
  QualityFloor,        \* stake_event_quality_floor_bps
  Scale,               \* STAKE_SCORE_SCALE
  RequiredStakeDepth,
  RequiredWorkDepth,
  WorkMargin,          \* emergency_work_margin
  StakeMargin,         \* emergency_stake_margin
  MinActiveValidators

(* A selected chain is the path of selected parents to genesis, along which *)
(* blue score grows.                                                        *)
ChainsAreLinear(d) ==
  \A x \in d.blocks : \A y \in d.chain[x] :
    /\ d.chain[y] \subseteq d.chain[x] /\ (y # x => d.blue[y] < d.blue[x])
    /\ \A z \in d.chain[x] : y \in d.chain[z] \/ z \in d.chain[y]

(* What reachability and GHOSTDAG guarantee of the blocks they have seen.   *)
WellFormed(d) ==
  /\ IsFiniteSet(d.blocks) /\ 0 \in d.blocks /\ d.blocks \subseteq Nat /\ 0 \notin d.invalid /\ d.parents[0] = {}
  /\ d.past \in [d.blocks -> SUBSET d.blocks]
  /\ d.chain \in [d.blocks -> SUBSET d.blocks]
  /\ d.parents \in [d.blocks -> SUBSET d.blocks]
  /\ d.blue \in [d.blocks -> Nat] /\ d.work \in [d.blocks -> Nat]
  /\ \A x \in d.blocks :
       /\ x \in d.chain[x] /\ 0 \in d.chain[x] /\ d.chain[x] \subseteq d.past[x]
       /\ d.past[x] = {x} \cup UNION {d.past[p] : p \in d.parents[x]}
       /\ x \notin d.parents[x]
  /\ \A x \in d.blocks : \A y \in d.past[x] :
       d.past[y] \subseteq d.past[x] /\ d.work[y] <= d.work[x] /\ d.blue[y] <= d.blue[x]
  /\ ChainsAreLinear(d)

(* An epoch length of zero counts as one everywhere.                        *)
ASSUME ParamAssumption ==
  /\ EpochLen \in Nat \ {0} /\ Lag \in Nat /\ Backoff \in Nat /\ Window \in Nat
  /\ VoteSets \subseteq SUBSET Validators /\ ActiveSets \subseteq SUBSET Validators

(* The whole of a stake, in basis points; a floor above it counts as it.    *)
FullBps == 10000

ASSUME ScoreAssumption ==
  /\ QualityFloor \in 0 .. FullBps /\ Scale \in Nat /\ StakeMargin \in Nat /\ MaxReorgHorizon \in Nat
  /\ IsFiniteSet(Validators)

ASSUME DagAssumption == \A s \in Scenarios : WellFormed(Dags[s.shape])

VARIABLES
  scenario,      \* of this behaviour
  bodies,        \* blocks with a committed body
  tips,          \* body_tips_store
  accepted,      \* attestations in the acceptance data of each block
  active,        \* validators whose bonds are Active as of each block
  sink,          \* selected parent of the committed virtual state
  virtualBlue,   \* blue score of the committed virtual state
  dns,           \* dns_state_store: NoState or the DnsState
  pending,       \* a message waits in the virtual processor's channel
  phase,         \* of the worker: "idle", "search" or "panicked"
  heap,          \* candidates of the search (volatile)
  finality       \* finality point of the search (volatile)

vars == <<scenario, bodies, tips, accepted, active, sink, virtualBlue, dns, pending, phase, heap, finality>>

Dag == Dags[scenario.shape]
Genesis == 0
NoBlock == -1

Past(x) == Dag.past[x]
Chain(x) == Dag.chain[x]
Blue(x) == Dag.blue[x]
Work(x) == Dag.work[x]
SelectedParent(x) == CHOOSE p \in Chain(x) \ {x} : \A q \in Chain(x) \ {x} : Blue(q) <= Blue(p)

------------------------------------------------------------------------------
(* Epochs and their anchors.                                                *)

AnchorCutoff(e) ==
  LET end == (e + 1) * EpochLen - 1
  IN  IF end < Backoff THEN 0 ELSE end - Backoff

Epochs == 0 .. Max({Blue(x) : x \in Dag.blocks}) \div EpochLen

(* The ready epochs of a tip are 0 .. ReadyEpoch(tip); -1 is None.          *)
ReadyEpoch(tip) == IF Blue(tip) < Lag THEN -1 ELSE (Blue(tip) - Lag + 1) \div EpochLen - 1

InWindow(tip) == {x \in Chain(tip) : Blue(tip) - Blue(x) <= Window}

CanonicalAnchor(e, tip) ==
  LET below == {x \in InWindow(tip) : Blue(x) <= AnchorCutoff(e)}
  IN  IF below = {} THEN NoBlock
      ELSE CHOOSE x \in below : \A y \in below : Blue(y) <= Blue(x)

CanonicalAnchorsInWindow(tip) ==
  {e \in Epochs : /\ e <= ReadyEpoch(tip)
                  /\ AnchorCutoff(Max({e - 1, 0})) >= Min({Blue(x) : x \in InWindow(tip)})
                  /\ e > 0 => CanonicalAnchor(e, tip) # CanonicalAnchor(e - 1, tip)}

------------------------------------------------------------------------------
(* StakeScore.                                                              *)

EpochStakeCredit(included, expected) ==
  IF expected = 0 \/ included * FullBps < expected * QualityFloor THEN 0
  ELSE IF QualityFloor = FullBps THEN Scale
  ELSE ((included * FullBps - expected * QualityFloor) * Scale) \div (expected * (FullBps - QualityFloor))

(* The votes of an epoch over the blocks of the chain of tip above stop,    *)
(* one per validator however often they are accepted.                       *)
StakeContributions(tip, stop, e) ==
  LET anchor == CanonicalAnchor(e, tip)
      above  == InWindow(tip) \ (IF stop = NoBlock THEN {} ELSE Chain(stop))
  IN  {v \in active[anchor] : \E x \in above : [validator |-> v, epoch |-> e, target |-> anchor] \in accepted[x]}

StakeScore(tip, stop) ==
  LET creditable == {e \in CanonicalAnchorsInWindow(tip) :
                       stop = NoBlock \/ CanonicalAnchor(e, tip) \notin Chain(stop)}
  IN  SumFunction([e \in creditable |-> EpochStakeCredit(Cardinality(StakeContributions(tip, stop, e)),
                                                         Cardinality(active[CanonicalAnchor(e, tip)]))])

------------------------------------------------------------------------------
(* The reorg gate.                                                          *)

NoState == [anchor |-> NoBlock, confirmed |-> NoBlock, stage |-> "Bootstrap"]

GateEngaged == dns.stage = "Active" /\ dns.confirmed # NoBlock

(* First block on the chain of c that is on the chain of d, or NoBlock when *)
(* the walk (which visits c twice) is longer than the bound.                *)
SelectedChainCommonAncestor(c, d) ==
  LET common == CHOOSE x \in Chain(c) \cap Chain(d) : \A y \in Chain(c) \cap Chain(d) : Blue(y) <= Blue(x)
      walked == IF common = c THEN 0 ELSE Cardinality(Chain(c) \ Chain(common)) + 1
  IN  IF walked > Max({MaxReorgHorizon, Window}) THEN NoBlock ELSE common

(* A surplus of work alone lets a candidate leave the confirmed anchor.     *)
WorkDominates(c) == Work(c) > Work(sink) + WorkMargin

Dominates(c) ==
  LET ancestor == SelectedChainCommonAncestor(c, sink)
  IN  /\ Work(c) > Work(sink) + WorkMargin
      /\ StakeScore(c, ancestor) > StakeScore(sink, ancestor) + StakeMargin

DnsReorgAllows(c) ==
  \/ ~GateEngaged
  \/ dns.confirmed \in Chain(c)
  \/ scenario.reorg_mode = "TwoDimensionalDominance" /\ Dominates(c)

------------------------------------------------------------------------------
(* Confirmation, recomputed by the commit of a virtual state.               *)

DnsV3ParamsConsistent ==
  /\ EpochLen >= 1 /\ Lag >= 1 /\ Backoff < EpochLen
  /\ Window >= Max({RequiredStakeDepth \div Scale, 2}) * EpochLen + Lag + Backoff

RolloutStage(s) ==
  IF Cardinality(active[s]) >= MinActiveValidators /\ DnsV3ParamsConsistent THEN "Active" ELSE "Bootstrap"

ConfirmableAnchor(s) == IF ReadyEpoch(s) < 0 THEN NoBlock ELSE CanonicalAnchor(ReadyEpoch(s), s)

IsDnsConfirmed(s) ==
  /\ ConfirmableAnchor(s) # NoBlock
  /\ Work(s) - Work(ConfirmableAnchor(s)) >= RequiredWorkDepth
  /\ StakeScore(s, NoBlock) >= RequiredStakeDepth

UpdateDnsState(s) ==
  IF dns.anchor # NoBlock /\ Blue(s) \div EpochLen = Blue(dns.anchor) \div EpochLen THEN dns
  ELSE [anchor    |-> s,
        stage     |-> RolloutStage(s),
        confirmed |-> IF IsDnsConfirmed(s) THEN ConfirmableAnchor(s) ELSE dns.confirmed]

------------------------------------------------------------------------------
Init ==
  /\ scenario \in Scenarios
  /\ bodies = {Genesis} /\ tips = {Genesis} /\ sink = Genesis /\ virtualBlue = 1
  /\ accepted = [x \in Dag.blocks |-> {}]
  /\ active = [x \in Dag.blocks |-> Validators]
  /\ dns = NoState
  /\ pending = FALSE /\ phase = "idle" /\ heap = {} /\ finality = Genesis

(* Attestations a block of this chain may accept for epoch e.               *)
Votes(x, e, s) ==
  IF e \notin CanonicalAnchorsInWindow(x) THEN {}
  ELSE {[validator |-> v, epoch |-> e, target |-> CanonicalAnchor(e, x)] : v \in s}

KeepsThePromise(votes) ==
  \A w \in votes : \A x \in bodies : \A u \in accepted[x] :
    u.validator = w.validator /\ u.epoch = w.epoch => u.target = w.target

BondChanges == Cardinality({x \in bodies \ {Genesis} : active[x] # active[SelectedParent(x)]})

(* commit_body adds the block and moves the tips in one batch, then queues  *)
(* it for the virtual processor.                                            *)
CommitBody(x, votes, s) ==
  /\ phase # "panicked"
  /\ x \notin bodies /\ Dag.parents[x] \subseteq bodies
  /\ KeepsThePromise(votes) /\ \A y \in Chain(x) : votes \cap accepted[y] = {}
  /\ s # active[SelectedParent(x)] => BondChanges < scenario.bondChanges
  /\ bodies' = bodies \cup {x}
  /\ tips' = (tips \ Dag.parents[x]) \cup {x}
  /\ accepted' = [accepted EXCEPT ![x] = votes]
  /\ active' = [active EXCEPT ![x] = s]
  /\ pending' = TRUE
  /\ UNCHANGED <<scenario, sink, virtualBlue, dns, phase, heap, finality>>

(* Genesis until the virtual is finality_depth deep, then the highest chain  *)
(* block that is deeper than that.                                          *)
VirtualFinalityPoint ==
  LET deep == {x \in Chain(sink) : Blue(x) < virtualBlue - scenario.finality_depth}
  IN  IF deep = {} THEN Genesis ELSE CHOOSE x \in deep : \A y \in deep : Blue(y) <= Blue(x)

(* The tips are cut to the candidates considered before they are sorted.    *)
ResolveTruncatedTips ==
  /\ phase = "idle" /\ pending
  /\ pending' = FALSE /\ phase' = "search"
  /\ finality' = VirtualFinalityPoint
  /\ heap' = {CHOOSE t \in tips : finality' \in Past(t)}
  /\ UNCHANGED <<scenario, bodies, tips, accepted, active, sink, virtualBlue, dns>>

ResolveVirtual ==
  /\ phase = "idle" /\ pending
  /\ pending' = FALSE /\ phase' = "search"
  /\ finality' = VirtualFinalityPoint
  /\ heap' = {t \in tips : finality' \in Past(t)}
  /\ UNCHANGED <<scenario, bodies, tips, accepted, active, sink, virtualBlue, dns>>

(* Candidates are ordered by blue score.                                    *)
HighestBlueScore(c) == \A h \in heap \ {c} : Blue(h) < Blue(c) \/ (Blue(h) = Blue(c) /\ h < c)

(* SortableBlock: blue work, then hash.                                     *)
Heaviest(c) == \A h \in heap \ {c} : Work(h) < Work(c) \/ (Work(h) = Work(c) /\ h < c)

UtxoValid(c) == Chain(c) \cap Dag.invalid = {}

(* A candidate is taken before its UTXO state is verified.                  *)
AcceptsUnverified(c) == finality \in Chain(c) /\ DnsReorgAllows(c)

AcceptsCandidate(c) == finality \in Chain(c) /\ UtxoValid(c) /\ DnsReorgAllows(c)

(* A candidate with an invalid UTXO state is dropped with all its past.     *)
PushesUnlessInvalid(c) ==
  {p \in Dag.parents[c] : UtxoValid(c) /\ finality \in Past(p) /\ \A h \in heap \ {c} : p \notin Past(h)}

PushedParents(c) == {p \in Dag.parents[c] : finality \in Past(p) /\ \A h \in heap \ {c} : p \notin Past(h)}

(* The candidate is refused: finality, an invalid UTXO state or the gate.   *)
RejectCandidate(c) ==
  /\ phase = "search" /\ c \in heap /\ Heaviest(c)
  /\ ~AcceptsCandidate(c)
  /\ heap' = (heap \ {c}) \cup PushedParents(c)
  /\ UNCHANGED <<scenario, bodies, tips, accepted, active, sink, virtualBlue, dns, pending, phase, finality>>

(* The candidate is the new sink; the virtual merges the rest of the heap   *)
(* and the DnsState moves in the same batch.                                *)
CommitVirtualState(c) ==
  /\ phase = "search" /\ c \in heap /\ Heaviest(c)
  /\ AcceptsCandidate(c)
  /\ sink' = c
  /\ virtualBlue' = Cardinality(UNION {Past(h) : h \in heap})
  /\ dns' = UpdateDnsState(c)
  /\ phase' = "idle" /\ heap' = {} /\ finality' = Genesis
  /\ UNCHANGED <<scenario, bodies, tips, accepted, active, pending>>

(* heap.pop().expect("valid sink must exist").                              *)
SinkMissing ==
  /\ phase = "search" /\ heap = {}
  /\ phase' = "panicked" /\ finality' = Genesis
  /\ UNCHANGED <<scenario, bodies, tips, accepted, active, sink, virtualBlue, dns, pending, heap>>

(* Only the stores survive; nothing resolves the virtual before a message.  *)
Restart ==
  /\ phase # "idle" \/ pending
  /\ phase' = "idle" /\ pending' = FALSE /\ heap' = {} /\ finality' = Genesis
  /\ UNCHANGED <<scenario, bodies, tips, accepted, active, sink, virtualBlue, dns>>

AddBlock ==
  \E x \in {y \in Dag.blocks \ bodies : Dag.parents[y] \subseteq bodies} :
    \E votes \in {Votes(x, ReadyEpoch(x), vs) : vs \in VoteSets} :
      \E s \in ActiveSets : CommitBody(x, votes, s)

Next ==
  \/ AddBlock
  \/ ResolveVirtual
  \/ \E c \in heap : RejectCandidate(c)
  \/ \E c \in heap : CommitVirtualState(c)
  \/ SinkMissing
  \/ Restart

Spec == Init /\ [][Next]_vars

------------------------------------------------------------------------------
(* Properties.                                                              *)

(* Types, and the stores the search relies on: the sink is a body with a    *)
(* valid UTXO state, the tips cover every body.                             *)
TypeOK ==
  /\ scenario \in Scenarios
  /\ Genesis \in bodies /\ bodies \subseteq Dag.blocks /\ tips \subseteq bodies /\ heap \subseteq bodies
  /\ sink \in bodies /\ UtxoValid(sink) /\ finality \in Dag.blocks
  /\ \A x \in bodies : Dag.parents[x] \subseteq bodies /\ \E t \in tips : x \in Past(t)
  /\ accepted \in [Dag.blocks -> SUBSET [validator : Validators, epoch : Nat, target : Dag.blocks]]
  /\ active \in [Dag.blocks -> SUBSET Validators]
  /\ virtualBlue \in Nat
  /\ dns \in [anchor : Dag.blocks \cup {NoBlock}, confirmed : Dag.blocks \cup {NoBlock}, stage : {"Active", "Bootstrap"}]
  /\ pending \in BOOLEAN /\ phase \in {"idle", "search", "panicked"}

(* The gate does not object to the sink virtual is on.                      *)
GateAllowsSink == ~GateEngaged \/ dns.confirmed \in Chain(sink)

(* heap.pop().expect("valid sink must exist") holds as long as the gate     *)
(* allows the sink the search starts from: only a confirmed anchor left     *)
(* behind on an abandoned branch can make every candidate unacceptable.     *)
SinkMissingNeedsAbandonedAnchor == phase = "panicked" => ~GateAllowsSink

(* sink_search_algorithm returns the heaviest acceptable body: it visits    *)
(* tips, then parents of refused candidates, and no body it did not visit   *)
(* is heavier and acceptable.  The hash decides between blocks of equal     *)
(* work, unless the loser is extended by another block of that work (capped *)
(* compute work need not grow).  A body that arrives during the search      *)
(* waits for the next one.                                                  *)
SinkIsTheHeaviestAllowed ==
  [][~pending /\ CommitVirtualState(sink')
       => \A x \in bodies : AcceptsCandidate(x) =>
            \/ Work(x) < Work(sink')
            \/ Work(x) = Work(sink')
               /\ (x <= sink' \/ \E y \in bodies \ {x} : Work(y) = Work(x) /\ x \in Past(y))]_vars

(* Virtual never moves to a block of less blue work, unless the gate has    *)
(* turned against the sink it is on (an anchor confirmed on a branch that   *)
(* an emergency or Bootstrap reorganisation has left).                      *)
SinkRetreatNeedsAbandonedAnchor == [][GateAllowsSink => Work(sink') >= Work(sink)]_vars

Quorum(votes, anchor) == Cardinality(votes) * FullBps >= Cardinality(active[anchor]) * QualityFloor

(* A surplus of work does not substitute for stake: while the gate is       *)
(* engaged virtual leaves a confirmed anchor only in dominance mode, and    *)
(* only for a chain that accepted, after the fork, a quorum of votes for an *)
(* anchor that is not on the chain being left.                              *)
AnchorIsLeftOnlyForStake ==
  [][GateEngaged /\ dns.confirmed \in Chain(sink) /\ dns.confirmed \notin Chain(sink')
       => /\ scenario.reorg_mode = "TwoDimensionalDominance"
          /\ \E e \in Epochs : \E target \in Chain(sink') \ Chain(sink) :
               /\ active[target] # {}
               /\ Quorum({v \in active[target] : \E x \in Chain(sink') \ Chain(sink) :
                            [validator |-> v, epoch |-> e, target |-> target] \in accepted[x]}, target)]_vars

==============================================================================
