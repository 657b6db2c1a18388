---------------------------- MODULE BondRegistry ----------------------------
(* The stake-bond registry of the virtual processor: how the accepted       *)
(* StakeBond, SlashingEvidence and StakeUnbond transactions of the selected *)
(* chain become rows of the StakeBonds store, across reorganisations,       *)
(* disqualified candidates and restarts.  The sink search walks an          *)
(* in-memory ActiveBondView (lenient), the virtual commit reconciles the    *)
(* persisted rows (strict: a row that does not fit aborts the process).     *)
(*                                                                          *)
(* A transaction is an identity with a kind and a bond; each spends an      *)
(* input of its own, so a chain accepts it once.  Signatures, evidence      *)
(* freshness and the amount floor hold for every transaction here.  The     *)
(* dormancy fence and the mergeset spend gate are inert on every preset     *)
(* (params.rs:1077, 1091), and the rollout stage is before Active, where    *)
(* dns_reorg_allows accepts every candidate.  Finality is the first block.  *)
(* An Option<u64> is a set of at most one DAA score.                        *)
EXTENDS Naturals, FiniteSets, Sequences, SequencesExt, FiniteSetsExt, TLC

CONSTANTS
  Txs,          \* transaction identities
  Kind,         \* Txs -> {"bond", "evidence", "unbond"}
  BondOf,       \* Txs -> the bond outpoint a transaction creates or names
  Declared,     \* bond -> activation_daa_score of its payload
  Bodies,       \* the bodies a new block may carry
  Prefix,       \* bodies of the chain the model starts on
  MaxBlocks,    \* bound on the DAG
  MaxParents    \* bound on a block's parents

VARIABLES
  blocks,       \* ghostdag, header and body stores, in order of arrival
  status,       \* statuses_store: "pending", "valid" or "disqualified"
  accepted,     \* acceptance_data_store: accepted transactions, in order
  sink,         \* selected parent of the committed virtual state
  store,        \* StakeBonds store: bond -> record
  search,       \* the sink search in progress (volatile)
  aborted       \* palw_overlay_commit_fail_stop ended the process

vars == <<blocks, status, accepted, sink, store, search, aborted>>

Bonds == {BondOf[t] : t \in Txs}
Genesis == 1
NoBlock == 0

------------------------------------------------------------------------------
(* Records and mutations.                                                   *)

EffectiveStatus(r, pov) ==
  IF \E s \in r.slashed : pov >= s THEN "Slashed"
  ELSE IF \E u \in r.unbond : pov >= u THEN "Unbonding"
  ELSE IF pov >= r.activation THEN "Active" ELSE "Pending"

NewRecord(o, daa) ==
  [activation |-> Max({Declared[o], daa}), unbond |-> {}, slashed |-> {}, status |-> "Pending"]

(* Every accepted request and every evidence becomes a mutation.            *)
KeepsEveryEffect(txs, i) == TRUE

FirstOfKind(txs, i) ==
  Kind[txs[i]] = "bond"
    \/ \A j \in 1 .. i - 1 : Kind[txs[j]] # Kind[txs[i]] \/ BondOf[txs[j]] # BondOf[txs[i]]

BondMutations(txs, daa) ==
  LET kept == SetToSortSeq({i \in DOMAIN txs : FirstOfKind(txs, i)}, <)
  IN  [k \in DOMAIN kept |-> [kind |-> Kind[txs[kept[k]]], bond |-> BondOf[txs[kept[k]]], daa |-> daa]]

Stamped(r, kind, stamp, daa) ==
  LET q == IF kind = "evidence" THEN [r EXCEPT !.slashed = stamp] ELSE [r EXCEPT !.unbond = stamp]
  IN  [q EXCEPT !.status = EffectiveStatus(q, daa)]

Apply(rows, m) ==
  IF m.kind = "bond" THEN (m.bond :> NewRecord(m.bond, m.daa)) @@ rows
  ELSE IF m.bond \in DOMAIN rows
    THEN [rows EXCEPT ![m.bond] = Stamped(@, m.kind, {m.daa}, m.daa)]
    ELSE rows

Revert(rows, m) ==
  IF m.kind = "bond" THEN Restrict(rows, DOMAIN rows \ {m.bond})
  ELSE IF m.bond \in DOMAIN rows
    THEN [rows EXCEPT ![m.bond] = Stamped(@, m.kind, {}, m.daa)]
    ELSE rows

ViewApply(view, muts) == FoldLeft(Apply, view, muts)
ViewRevert(view, muts) == FoldLeft(Revert, view, Reverse(muts))

------------------------------------------------------------------------------
(* The strict writer: the same effects, each one checked first.             *)

StampOf(r, kind) == IF kind = "evidence" THEN r.slashed ELSE r.unbond

CanApply(rows, m) ==
  IF m.kind = "bond" THEN m.bond \notin DOMAIN rows
  ELSE m.bond \in DOMAIN rows /\ StampOf(rows[m.bond], m.kind) = {}

CanRevert(rows, m) ==
  m.bond \in DOMAIN rows /\ (m.kind # "bond" => StampOf(rows[m.bond], m.kind) = {m.daa})

ReconcileAdded(w, m) == [ok |-> w.ok /\ CanApply(w.rows, m), rows |-> Apply(w.rows, m)]
ReconcileRemoved(w, m) == [ok |-> w.ok /\ CanRevert(w.rows, m), rows |-> Revert(w.rows, m)]

(* The status byte as the mutations left it.                                *)
LeavesStatuses(rows, daa) == rows

Canonicalize(rows, daa) ==
  [o \in DOMAIN rows |-> [rows[o] EXCEPT !.status = EffectiveStatus(rows[o], daa)]]

------------------------------------------------------------------------------
(* The DAG: GHOSTDAG with every block blue.                                 *)

BlueWork(b) == Cardinality(blocks[b].past)
Lighter(x, y) == BlueWork(x) < BlueWork(y) \/ (BlueWork(x) = BlueWork(y) /\ x < y)
Heaviest(S) == CHOOSE b \in S : \A c \in S \ {b} : Lighter(c, b)
Chain(b) == blocks[b].chain
InPastOf(a, b) == a = b \/ a \in blocks[b].past
Antichain(S) == \A x, y \in S : x # y => ~InPastOf(x, y)
Tips == {b \in DOMAIN blocks : \A c \in DOMAIN blocks : b \notin blocks[c].parents}

NewBlock(parents, body) ==
  LET sp == Heaviest(parents)
      past == UNION {blocks[p].past \cup {p} : p \in parents}
      merge == <<sp>> \o SetToSortSeq(past \ (blocks[sp].past \cup {sp}), Lighter)
  IN  [parents |-> parents, past |-> past, sp |-> sp, merge |-> merge, body |-> body,
       daa |-> blocks[sp].daa + Len(merge), chain |-> Chain(sp) \cup {Len(blocks) + 1}]

MutationsOf(b) == BondMutations(accepted[b], blocks[b].daa)

(* calculate_utxo_state: the bodies of the mergeset in consensus order,     *)
(* without the transactions whose inputs the chain has already spent.       *)
AcceptedOn(b) == UNION {ToSet(accepted[c]) : c \in Chain(b)}
Acceptance(b) ==
  LET merged == FlattenSeq([k \in DOMAIN blocks[b].merge |-> blocks[blocks[b].merge[k]].body])
      fresh(i) == merged[i] \notin AcceptedOn(blocks[b].sp) /\ \A j \in 1 .. i - 1 : merged[j] # merged[i]
      kept == SetToSortSeq({i \in DOMAIN merged : fresh(i)}, <)
  IN  [k \in DOMAIN kept |-> merged[kept[k]]]

------------------------------------------------------------------------------
(* verify_expected_utxo_state: the rules a block's own body must meet, read *)
(* against the bond view of the selected parent.                            *)

StatusIn(view, o, daa, S) == o \in DOMAIN view /\ EffectiveStatus(view[o], daa) \in S

SlashingEvidenceGenuine(view, b) ==
  \A t \in ToSet(blocks[b].body) :
    Kind[t] = "evidence" => StatusIn(view, BondOf[t], blocks[b].daa, {"Active", "Unbonding"})

UnbondRequestAuthorized(view, b) ==
  \A t \in ToSet(blocks[b].body) :
    Kind[t] = "unbond" => StatusIn(view, BondOf[t], blocks[b].daa, {"Pending", "Active"})

BodySpendable(b) ==
  \A t \in ToSet(blocks[b].body) : t \notin AcceptedOn(blocks[b].sp) \cup ToSet(Acceptance(b))

(* The rules read the view with the block's own mutations already in it.    *)
VerifiesAfterOwn(view, b) ==
  LET own == ViewApply(view, BondMutations(Acceptance(b), blocks[b].daa))
  IN  SlashingEvidenceGenuine(own, b) /\ UnbondRequestAuthorized(own, b) /\ BodySpendable(b)

Verifies(view, b) ==
  SlashingEvidenceGenuine(view, b) /\ UnbondRequestAuthorized(view, b) /\ BodySpendable(b)

------------------------------------------------------------------------------
Idle == [on |-> FALSE, heap |-> {}, cand |-> NoBlock, point |-> NoBlock, view |-> <<>>]

PrefixBlock(i) ==
  [parents |-> IF i = 1 THEN {} ELSE {i - 1}, past |-> 1 .. i - 1, sp |-> i - 1,
   merge |-> IF i = 1 THEN <<>> ELSE <<i - 1>>, body |-> Prefix[i], daa |-> i - 1, chain |-> 1 .. i]

Init ==
  /\ blocks = [i \in DOMAIN Prefix |-> PrefixBlock(i)]
  /\ status = [i \in DOMAIN Prefix |-> "valid"]
  /\ accepted = [i \in DOMAIN Prefix |-> IF i = 1 THEN <<>> ELSE Prefix[i - 1]]
  /\ sink = Len(Prefix)
  /\ store = Canonicalize(
       ViewApply(<<>>, FlattenSeq([i \in DOMAIN Prefix |-> BondMutations(accepted[i], i - 1)])), sink - 1)
  /\ search = Idle
  /\ aborted = FALSE

(* A block of the DAG passes body validation; the resolver may be anywhere. *)
AddBlock ==
  /\ Len(blocks) < MaxBlocks
  /\ \E parents \in UNION {kSubset(k, DOMAIN blocks) : k \in 1 .. MaxParents}, body \in Bodies :
       /\ Antichain(parents)
       /\ blocks' = Append(blocks, NewBlock(parents, body))
  /\ status' = Append(status, "pending")
  /\ accepted' = Append(accepted, <<>>)
  /\ UNCHANGED <<sink, store, search, aborted>>

(* resolve_virtual: the view is seeded from the store, at the previous sink *)
StartResolve ==
  /\ ~search.on /\ ~aborted
  /\ search' = [on |-> TRUE, heap |-> Tips, cand |-> NoBlock, point |-> sink, view |-> store]
  /\ UNCHANGED <<blocks, status, accepted, sink, store, aborted>>

WithParentsOf(heap, b) ==
  heap \cup {p \in blocks[b].parents : \A h \in heap : ~InPastOf(p, h)}

(* The heaviest candidate; one already disqualified is not walked to.       *)
PopCandidate ==
  /\ search.on /\ ~aborted /\ search.cand = NoBlock
  /\ LET c == Heaviest(search.heap)
         rest == search.heap \ {c}
     IN  search' = IF status[c] = "disqualified"
                   THEN [search EXCEPT !.heap = WithParentsOf(rest, c)]
                   ELSE [search EXCEPT !.heap = rest, !.cand = c]
  /\ UNCHANGED <<blocks, status, accepted, sink, store, aborted>>

Walking == search.on /\ ~aborted /\ search.cand # NoBlock

(* A block that leaves the walked chain without its mutations reverted.     *)
StepDownKeepingView ==
  /\ Walking /\ search.point \notin Chain(search.cand)
  /\ search' = [search EXCEPT !.point = blocks[search.point].sp]
  /\ UNCHANGED <<blocks, status, accepted, sink, store, aborted>>

StepDown ==
  /\ Walking /\ search.point \notin Chain(search.cand)
  /\ search' = [search EXCEPT !.point = blocks[search.point].sp,
                              !.view = ViewRevert(@, MutationsOf(search.point))]
  /\ UNCHANGED <<blocks, status, accepted, sink, store, aborted>>

NextUp == Min({c \in Chain(search.cand) : c > search.point})
CanStepUp == Walking /\ search.point \in Chain(search.cand) /\ search.point # search.cand

(* An already validated chain block joins the walk.                         *)
StepUpKnown ==
  /\ CanStepUp /\ status[NextUp] = "valid"
  /\ search' = [search EXCEPT !.point = NextUp, !.view = ViewApply(@, MutationsOf(NextUp))]
  /\ UNCHANGED <<blocks, status, accepted, sink, store, aborted>>

StepUpValidated ==
  /\ CanStepUp /\ status[NextUp] # "valid" /\ Verifies(search.view, NextUp)
  /\ status' = [status EXCEPT ![NextUp] = "valid"]
  /\ accepted' = [accepted EXCEPT ![NextUp] = Acceptance(NextUp)]
  /\ search' = [search EXCEPT
       !.point = NextUp, !.view = ViewApply(@, BondMutations(Acceptance(NextUp), blocks[NextUp].daa))]
  /\ UNCHANGED <<blocks, sink, store, aborted>>

(* The block that fails and the chain blocks above it.                      *)
DoomedWithPoint == {b \in Chain(search.cand) : b >= search.point}
Doomed == {b \in Chain(search.cand) : b > search.point}

(* They are disqualified, and the search goes on with the candidate's       *)
(* parents.                                                                 *)
StepUpRejected ==
  /\ CanStepUp /\ status[NextUp] # "valid" /\ ~Verifies(search.view, NextUp)
  /\ status' = [b \in DOMAIN status |-> IF b \in Doomed THEN "disqualified" ELSE status[b]]
  /\ search' = [search EXCEPT !.cand = NoBlock, !.heap = WithParentsOf(@, search.cand)]
  /\ UNCHANGED <<blocks, accepted, sink, store, aborted>>

(* calculate_and_commit_virtual_state: one write batch moves the sink and   *)
(* the rows, or the strict writer aborts the process before it.             *)
Commit ==
  /\ Walking /\ search.point = search.cand
  /\ LET c == search.cand
         muts(S) == FlattenSeq([k \in 1 .. Cardinality(S) |-> MutationsOf(SetToSortSeq(S, <)[k])])
         down == FoldLeft(ReconcileRemoved, [ok |-> TRUE, rows |-> store],
                          Reverse(muts(Chain(sink) \ Chain(c))))
         up == FoldLeft(ReconcileAdded, down, muts(Chain(c) \ Chain(sink)))
     IN  IF up.ok
         THEN /\ store' = Canonicalize(up.rows, blocks[c].daa)
              /\ sink' = c
              /\ search' = Idle
              /\ UNCHANGED aborted
         ELSE aborted' = TRUE /\ UNCHANGED <<sink, store, search>>
  /\ UNCHANGED <<blocks, status, accepted>>

(* The process dies, or is started again after an abort: the walk is lost,  *)
(* what was written stays.                                                  *)
Restart ==
  /\ search.on
  /\ search' = Idle
  /\ aborted' = FALSE
  /\ UNCHANGED <<blocks, status, accepted, sink, store>>

Next ==
  \/ AddBlock \/ StartResolve \/ PopCandidate \/ StepDown \/ StepUpKnown
  \/ StepUpValidated \/ StepUpRejected \/ Commit \/ Restart

Spec == Init /\ [][Next]_vars

------------------------------------------------------------------------------
(* What the chain of a block says of the bonds, from its accepted           *)
(* transactions alone and in no order of visiting.                          *)

DaasOn(b, o, kind) ==
  {blocks[c].daa : c \in {d \in Chain(b) :
     \E t \in ToSet(accepted[d]) : Kind[t] = kind /\ BondOf[t] = o}}

RegistryOf(b) ==
  LET row(o) == [activation |-> Max(DaasOn(b, o, "bond") \cup {Declared[o]}),
                 unbond |-> DaasOn(b, o, "unbond"), slashed |-> DaasOn(b, o, "evidence")]
      known == {o \in Bonds : DaasOn(b, o, "bond") # {}}
  IN  [o \in known |-> [activation |-> row(o).activation, unbond |-> row(o).unbond,
                        slashed |-> row(o).slashed, status |-> EffectiveStatus(row(o), blocks[b].daa)]]

Stamps(rows) == [o \in DOMAIN rows |-> [rows[o] EXCEPT !.status = "any"]]

(* A chain gives each bond at most one block of evidence and one of unbond  *)
(* requests, all after the bond itself.                                     *)
OnceEach(b) ==
  LET chain == SetToSortSeq(Chain(b), <)
      txs == FlattenSeq([k \in DOMAIN chain |-> [i \in DOMAIN accepted[chain[k]] |->
               [tx |-> accepted[chain[k]][i], at |-> chain[k]]]])
      same(i, j) == BondOf[txs[i].tx] = BondOf[txs[j].tx]
  IN  \A j \in DOMAIN txs : Kind[txs[j].tx] # "bond" =>
        /\ \E i \in 1 .. j - 1 : Kind[txs[i].tx] = "bond" /\ same(i, j)
        /\ \A i \in 1 .. j - 1 : Kind[txs[i].tx] = Kind[txs[j].tx] /\ same(i, j) => txs[i].at = txs[j].at

EveryChainOnceEach == \A b \in DOMAIN blocks : status[b] = "valid" => OnceEach(b)

------------------------------------------------------------------------------
Record == [activation : Nat, unbond : SUBSET Nat, slashed : SUBSET Nat,
           status : {"Pending", "Active", "Unbonding", "Slashed"}]

(* The body rules of verify_expected_utxo_state, against the registry of    *)
(* the selected parent.                                                     *)
BondRulesHold(b) ==
  LET rows == RegistryOf(blocks[b].sp)
      st(t) == IF BondOf[t] \in DOMAIN rows THEN EffectiveStatus(rows[BondOf[t]], blocks[b].daa) ELSE "none"
  IN  \A t \in ToSet(blocks[b].body) :
        /\ Kind[t] = "evidence" => st(t) \in {"Active", "Unbonding"}
        /\ Kind[t] = "unbond" => st(t) \in {"Pending", "Active"}
        /\ t \notin AcceptedOn(blocks[b].sp) \cup ToSet(Acceptance(b))

(* Types of the stores and of the walk, and the walk's point is validated.  *)
RegistryTypeOK ==
  /\ status \in [DOMAIN blocks -> {"pending", "valid", "disqualified"}]
  /\ accepted \in [DOMAIN blocks -> Seq(Txs)]
  /\ sink \in DOMAIN blocks /\ status[sink] = "valid"
  /\ DOMAIN store \subseteq Bonds /\ \A o \in DOMAIN store : store[o] \in Record
  /\ search.on => /\ search.point \in DOMAIN blocks /\ status[search.point] = "valid"
                  /\ search.heap \subseteq DOMAIN blocks
                  /\ search.cand \in DOMAIN blocks \cup {NoBlock}
                  /\ DOMAIN search.view \subseteq Bonds
  /\ aborted \in BOOLEAN

(* The persisted registry is a function of the selected chain, the cached   *)
(* status byte included: whatever branches the node visited, left, or was   *)
(* restarted on, reconcile_dns_bond_registry and                            *)
(* canonicalize_dns_bond_statuses leave the rows a node that only ever saw  *)
(* this chain would hold.                                                   *)
StoreIsOfTheSink == store = RegistryOf(sink)

(* ActiveBondView walked down and up by calculate_utxo_state_relatively is  *)
(* the bond set as of the block the walk stands on, as long as no chain     *)
(* repeats an effect; between candidates too, and however many were         *)
(* rejected on the way.                                                     *)
ViewIsOfThePoint ==
  search.on /\ EveryChainOnceEach => Stamps(search.view) = Stamps(RegistryOf(search.point))

(* The verdict on a block that the search persists depends on its chain     *)
(* only, not on the walk that led to it: valid blocks meet the body rules   *)
(* against the registry of their selected parent, disqualified ones do not, *)
(* or stand on a disqualified block.                                        *)
VerdictIsOfTheChain ==
  EveryChainOnceEach =>
    \A b \in DOMAIN blocks \ {Genesis} :
      LET sp == blocks[b].sp
      IN  /\ status[b] = "valid" => status[sp] = "valid" /\ BondRulesHold(b)
          /\ status[b] = "disqualified" => status[sp] = "disqualified" \/ ~BondRulesHold(b)

(* The strict writer aborts only over a chain that repeats an effect on a   *)
(* bond in two blocks, or names a bond before it exists.                    *)
AbortNeedsRepeatedEffect == aborted => ~OnceEach(search.cand)

(* unbond_request_authorized promises "at most one unbond mutation applies  *)
(* per bond per chain", and slashing_evidence_genuine that a replay "must   *)
(* not emit a second registry mutation": then the writer never aborts.      *)
WriterNeverAborts == ~aborted
=============================================================================
