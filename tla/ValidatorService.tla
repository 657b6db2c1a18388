-------------------------- MODULE ValidatorService --------------------------
(***************************************************************************)
(* The in-node validator (kaspad --enable-validator): every heartbeat it   *)
(* takes the ready attestation targets after the last signed epoch and,    *)
(* for each, selects a funding output, signs under the equivocation guard, *)
(* persists the record and, in Active mode, submits the shard transaction, *)
(* whose change output funds the next one.                                 *)
(*                                                                         *)
(* The node is the environment: it offers any target for an epoch, lists   *)
(* the confirmed outputs of the funding address, accepts or rejects a      *)
(* transaction, mines it, or drops it with its descendants.  The shard     *)
(* transactions it accepted are numbered; output n is the change of        *)
(* transaction n.                                                          *)
(***************************************************************************)
EXTENDS SignedEpochStore, Sequences

CONSTANTS
  Coins,       \* outputs paid to the funding address by others
  CoinAmount,  \* their value; a shard transaction costs a fee of 1
  NoOutpoint,
  ATTESTATION_CATCH_UP_LIMIT,
  MaxTxs       \* bound: accepted transactions

ASSUME ServiceAssumption ==
  /\ NoOutpoint \notin Coins \cup Nat
  /\ \A c \in Coins : c \notin Nat
  /\ CoinAmount \in Nat
  /\ ATTESTATION_CATCH_UP_LIMIT \in Nat \ {0}
  /\ MaxTxs \in Nat

VARIABLES
  up,              \* the node process is running
  active,          \* mode = Active (Observer and Standby never submit)
  pc,              \* "tick", "targets", "flush", "submit" or "overlay"
  targets,         \* the targets of this heartbeat still to do
  funding,         \* the funding output selected for the first of them
  pending_change,  \* FundingChain::pending_change
  inflight_spent,  \* FundingChain::inflight_spent
  forgotten,       \* history: exclusions lost to a failed index lookup
  listed,          \* node: confirmed unspent outputs of the funding address
  mempool,         \* node: the shard transactions in its mempool
  txs,             \* history: every accepted transaction, [input, change]
  own,             \* history: transactions accepted since the last start
  synced,          \* history: no failed fsync of the directory has been ignored
                   \* for the target in hand
  released         \* history: the attestations submitted to the node, but for
                   \* those with an ignored fsync failure

serviceVars == <<up, active, pc, targets, funding, synced, released, own>>
chainVars == <<pending_change, inflight_spent, forgotten>>
nodeVars == <<listed, mempool, txs>>
vars == <<storeVars, serviceVars, chainVars, nodeVars>>

Attestation == Epochs \X Targets
Outpoint == Coins \cup (1 .. MaxTxs)
Tx == [input : Outpoint, change : Nat]

ServiceTypeOK ==
  /\ StoreTypeOK
  /\ up \in BOOLEAN /\ active \in BOOLEAN
  /\ pc \in {"tick", "targets", "flush", "submit", "overlay"}
  /\ targets \in Seq(Attestation)
  /\ funding \in Outpoint \cup {NoOutpoint}
  /\ pending_change \in Outpoint \cup {NoOutpoint}
  /\ inflight_spent \subseteq Outpoint
  /\ forgotten \subseteq Outpoint
  /\ listed \subseteq Outpoint
  /\ txs \in Seq(Tx) /\ Len(txs) <= MaxTxs
  /\ mempool \subseteq DOMAIN txs
  /\ own \subseteq DOMAIN txs
  /\ synced \in BOOLEAN
  /\ released \subseteq Attestation

Init ==
  /\ StoreInit
  /\ up = TRUE /\ active \in BOOLEAN
  /\ pc = "tick"
  /\ targets = <<>>
  /\ funding = NoOutpoint
  /\ pending_change = NoOutpoint
  /\ inflight_spent = {}
  /\ forgotten = {}
  /\ listed = {}
  /\ mempool = {}
  /\ txs = <<>>
  /\ own = {}
  /\ synced = TRUE
  /\ released = {}

amount(op) == IF op \in Coins THEN CoinAmount ELSE txs[op].change

-----------------------------------------------------------------------------
(* The heartbeat.                                                          *)

\* get_validator_attestation_targets: deficient epochs ascending, or the
\* certified ones newest first; none when the validator is not eligible.
ReadyTargets(from, limit) ==
  {s \in UNION {[1 .. n -> Attestation] : n \in 0 .. limit} :
     /\ \A i \in DOMAIN s : s[i][1] >= from
     /\ \/ \A i, j \in DOMAIN s : i < j => s[i][1] < s[j][1]
        \/ \A i, j \in DOMAIN s : i < j => s[i][1] > s[j][1]}

\* Only the latest target on a first run; afterwards everything past the
\* highest epoch in the log.  (The stall counters of the funding chain, which
\* only steer a warning, are left out.)
Tick ==
  /\ up /\ pc = "tick"
  /\ \/ /\ SignedEpochs = {}
        /\ targets' \in ReadyTargets(0, 1)
     \/ \E last \in SignedEpochs :
          /\ \A e \in SignedEpochs : e <= last
          /\ targets' \in ReadyTargets(last + 1, ATTESTATION_CATCH_UP_LIMIT)
  /\ pc' = "targets"
  /\ UNCHANGED <<storeVars, up, active, funding, synced, released, own, chainVars, nodeVars>>

TickDone ==
  /\ up /\ pc = "targets" /\ targets = <<>>
  /\ pc' = "tick"
  /\ UNCHANGED <<storeVars, up, active, targets, funding, synced, released, own, chainVars, nodeVars>>

-----------------------------------------------------------------------------
(* try_attest.                                                             *)

\* The outputs the node lists, or none when the index lookup fails.
find_funding_candidates == {listed, {}}

\* The exclusions are rebuilt from nothing at every selection.
PruneChain_ForgetsAll(candidates) ==
  /\ inflight_spent' = {}
  /\ pending_change' = IF pending_change \in candidates THEN NoOutpoint ELSE pending_change
  /\ forgotten' = IF candidates = listed THEN forgotten ELSE forgotten \cup inflight_spent

\* Exclusions the node no longer lists are forgotten; a head it lists has been mined.
PruneChain(candidates) ==
  /\ inflight_spent' = inflight_spent \cap candidates
  /\ pending_change' = IF pending_change \in candidates THEN NoOutpoint ELSE pending_change
  /\ forgotten' = IF candidates = listed THEN forgotten ELSE forgotten \cup inflight_spent

\* The chain head while it covers the fee, else the largest candidate that is
\* not excluded.  Ties go either way.
select_funding(head, inflight, candidates) ==
  LET usable == {op \in candidates \ inflight : amount(op) > 1}
  IN IF head # NoOutpoint /\ amount(head) > 1 THEN {head}
     ELSE IF usable = {} THEN {NoOutpoint}
     ELSE {op \in usable : \A other \in usable : amount(other) <= amount(op)}

SelectFunding ==
  \E candidates \in find_funding_candidates :
    /\ PruneChain(candidates)
    /\ funding' \in select_funding(pending_change', inflight_spent', candidates)

\* The anchor of the target predates the activation of the bond.
GatedByActivation ==
  /\ up /\ pc = "targets" /\ targets # <<>>
  /\ targets' = Tail(targets)
  /\ UNCHANGED <<storeVars, up, active, pc, funding, synced, released, own, chainVars, nodeVars>>

\* The guard refuses, the target was signed before, there is no funding, the
\* signature does not verify, or the transaction cannot be built.
TryAttestSkips ==
  /\ up /\ pc = "targets" /\ targets # <<>>
  /\ \E candidates \in find_funding_candidates : PruneChain(candidates)
  /\ targets' = Tail(targets)
  /\ UNCHANGED <<storeVars, up, active, pc, funding, synced, released, own, nodeVars>>

TryAttestSigns ==
  /\ up /\ pc = "targets" /\ targets # <<>>
  /\ check(targets[1][1], targets[1][2]) = "Allow"
  /\ SelectFunding
  /\ funding' # NoOutpoint
  /\ record_and_flush(targets[1][1], targets[1][2])
  /\ pc' = "flush"
  /\ UNCHANGED <<up, active, targets, synced, released, own, nodeVars>>

Flushing ==
  /\ up /\ pc = "flush"
  /\ FlushStep
  /\ UNCHANGED <<serviceVars, chainVars, nodeVars>>

\* The fsync of the directory fails, and record_and_flush goes on.
FlushUnsynced ==
  /\ up /\ pc = "flush"
  /\ SyncDirFails
  /\ synced' = FALSE
  /\ UNCHANGED <<up, active, pc, targets, funding, released, own, chainVars, nodeVars>>

\* The record is written after the transaction is handed over: a failed flush
\* does not hold the transaction back.
FlushReturns_Ignored ==
  /\ up /\ pc = "flush"
  /\ flush \in {"ok", "err"}
  /\ TakeFlushResult
  /\ pc' = "submit"
  /\ UNCHANGED <<up, active, targets, funding, synced, released, own, chainVars, nodeVars>>

\* A failed flush, and a mode other than Active, end the attempt.
FlushReturns ==
  /\ up /\ pc = "flush"
  /\ flush \in {"ok", "err"}
  /\ TakeFlushResult
  /\ \/ /\ flush = "ok" /\ active
        /\ pc' = "submit"
        /\ UNCHANGED <<targets, funding, synced>>
     \/ /\ flush = "err" \/ ~active
        /\ pc' = "targets"
        /\ targets' = Tail(targets)
        /\ funding' = NoOutpoint
        /\ synced' = TRUE
  /\ UNCHANGED <<up, active, released, own, chainVars, nodeVars>>

\* The mempool takes a transaction whose input is confirmed or the output of
\* a transaction it holds, and not spent by one it holds.
Spendable(op) ==
  /\ op \in listed \cup mempool
  /\ \A n \in mempool : txs[n].input # op

\* build_fund_submit_overlay, after the targets: a beacon transaction is funded
\* from the same chain.
OverlaySelects ==
  /\ up /\ pc = "targets" /\ targets = <<>>
  /\ SelectFunding
  /\ active
  /\ funding' # NoOutpoint
  /\ pc' = "overlay"
  /\ UNCHANGED <<storeVars, up, active, targets, synced, released, own, nodeVars>>

\* No funding, the transaction cannot be built, or the mode is not Active.
OverlaySkips ==
  /\ up /\ pc = "targets" /\ targets = <<>>
  /\ \E candidates \in find_funding_candidates : PruneChain(candidates)
  /\ UNCHANGED <<storeVars, serviceVars, nodeVars>>

\* The attestation in hand leaves the host; the loop moves on.
Advance ==
  /\ targets' = IF pc = "submit" THEN Tail(targets) ELSE targets
  /\ synced' = TRUE

Accepted ==
  /\ up /\ pc \in {"submit", "overlay"}
  /\ Spendable(funding) /\ Len(txs) < MaxTxs
  /\ txs' = Append(txs, [input |-> funding, change |-> amount(funding) - 1])
  /\ mempool' = mempool \cup {Len(txs) + 1}
  /\ own' = own \cup {Len(txs) + 1}
  /\ released' = IF pc = "submit" /\ synced THEN released \cup {targets[1]} ELSE released
  /\ Advance
  /\ pc' = "targets"
  /\ funding' = NoOutpoint
  /\ UNCHANGED <<storeVars, up, active, listed, forgotten>>

\* The head is set to the change of the transaction before.
SubmitAccepted_WrongChange ==
  /\ Accepted
  /\ inflight_spent' = inflight_spent \cup {funding}
  /\ pending_change' = Len(txs)

\* The head keeps pointing at the output that has just been spent.
SubmitAccepted_StaleHead ==
  /\ Accepted
  /\ inflight_spent' = inflight_spent \cup {funding}
  /\ pending_change' = funding

SubmitAccepted ==
  /\ Accepted
  /\ inflight_spent' = inflight_spent \cup {funding}
  /\ pending_change' = Len(txs) + 1

\* Rejected, for this or any other reason: the chain head is dropped.
SubmitRejected ==
  /\ up /\ pc \in {"submit", "overlay"}
  /\ pending_change' = NoOutpoint
  /\ Advance
  /\ pc' = "targets"
  /\ funding' = NoOutpoint
  /\ UNCHANGED <<storeVars, up, active, released, own, inflight_spent, forgotten, nodeVars>>

-----------------------------------------------------------------------------
(* The node, the network and the crash of the process.                     *)

Deposit(c) ==
  /\ c \notin listed /\ \A n \in DOMAIN txs : txs[n].input # c
  /\ listed' = listed \cup {c}
  /\ UNCHANGED <<storeVars, serviceVars, chainVars, mempool, txs>>

Mine(n) ==
  /\ txs[n].input \in listed
  /\ listed' = (listed \ {txs[n].input}) \cup {n}
  /\ mempool' = mempool \ {n}
  /\ UNCHANGED <<storeVars, serviceVars, chainVars, txs>>

\* Sets of mempool transactions that can go together: no child stays behind.
Droppable == {D \in SUBSET mempool : \A n \in mempool : txs[n].input \in D => n \in D}

Drop ==
  /\ \E D \in Droppable \ {{}} : mempool' = mempool \ D
  /\ UNCHANGED <<storeVars, serviceVars, chainVars, listed, txs>>

\* The node goes down with its mempool; peers may hand transactions back.
GoesDown ==
  /\ \E D \in Droppable : mempool' = mempool \ D
  /\ up' = FALSE
  /\ pc' = "tick"
  /\ targets' = <<>>
  /\ funding' = NoOutpoint
  /\ pending_change' = NoOutpoint
  /\ inflight_spent' = {}
  /\ forgotten' = {}
  /\ own' = {}
  /\ synced' = TRUE
  /\ UNCHANGED <<active, released, listed, txs>>

Kill == up /\ KillStore /\ GoesDown

WriteBack ==
  /\ WriteBackStore
  /\ UNCHANGED <<serviceVars, chainVars, nodeVars>>

PowerLoss == PowerLossStore /\ GoesDown

\* ValidatorService::new
Start ==
  /\ ~up
  /\ load_or_empty
  /\ up' = TRUE
  /\ active' \in BOOLEAN
  /\ UNCHANGED <<pc, targets, funding, synced, released, own, chainVars, nodeVars>>

Node ==
  \/ \E c \in Coins : Deposit(c)
  \/ \E n \in mempool : Mine(n)
  \/ Drop

Next ==
  \/ Tick \/ TickDone
  \/ GatedByActivation \/ TryAttestSkips \/ TryAttestSigns
  \/ OverlaySelects \/ OverlaySkips
  \/ Flushing \/ FlushUnsynced \/ FlushReturns
  \/ SubmitAccepted \/ SubmitRejected
  \/ Node
  \/ Kill \/ WriteBack \/ PowerLoss \/ Start

Spec == Init /\ [][Next]_vars

-----------------------------------------------------------------------------
(* No two attestations of one epoch for different targets are ever         *)
(* submitted, through moved anchors, flushes that return an error, kills,  *)
(* power losses and restarts: guarded_build_funded signs on Allow only,    *)
(* never on AllowRebroadcast, and holds the transaction back until         *)
(* record_and_flush has returned Ok.  The one exception are attestations   *)
(* for which record_and_flush ignored a failed fsync of the directory.     *)
NoEquivocation ==
  \A a, b \in released : a[1] = b[1] => a[2] = b[2]

(* With the same exception, and flushes that return an error included, the *)
(* service keeps the promise of the abstract guard: what it submitted is   *)
(* on stable storage, and what is there is never withdrawn or replaced.    *)
Promise == INSTANCE SigningPromise WITH committed <- durable.log
KeepsPromise == Promise!Spec

(* The head of the funding chain is never an output that a transaction of  *)
(* ours has spent: chaining from it cannot double-spend (the purpose of    *)
(* FundingChain::pending_change).                                          *)
HeadIsUnspent ==
  pending_change # NoOutpoint => \A n \in own : txs[n].input # pending_change

(* A coin spent by a transaction of ours that is still in the mempool      *)
(* stays excluded from selection, however often the exclusions are pruned  *)
(* against the node's list in between.  Only a failed index lookup, which  *)
(* try_attest takes for an empty list, loses one.                          *)
InflightCoinsExcluded ==
  \A n \in own \cap mempool :
    txs[n].input \in Coins => txs[n].input \in inflight_spent \cup forgotten

(* The service never selects an output that a transaction of ours in the   *)
(* mempool spends already: what try_attest and select_funding say of any   *)
(* output.  It fails for a change output that confirms while its spender   *)
(* is still in the mempool, with no lookup failure.                         *)
NeverReselectsInflight ==
  pc = "flush" /\ forgotten = {} => \A n \in own \cap mempool : txs[n].input # funding
=============================================================================
