--------------------------- MODULE ServiceProofs ---------------------------
(***************************************************************************)
(* The in-node validator service: no equivocation, and a funding chain     *)
(* that does not spend an output twice, for any number of epochs, targets, *)
(* coins and transactions.                                                 *)
(***************************************************************************)
EXTENDS ValidatorService, StoreProofs

ReleasedIsDurable == \A a \in released : durable.log[a[1]] = a[2]

(* The guard.  Unlike the daemon the service signs on Allow only, so the    *)
(* record in hand is always a fresh one: nothing leaves the host on the     *)
(* word of the memory alone, or of a file whose rename is not durable.      *)
GuardInv ==
  /\ StoreInv(up)
  /\ pc = "flush" <=> flush # "idle"
  /\ pc \in {"flush", "submit"} => up /\ targets # <<>>
  /\ pc = "flush" => records[targets[1][1]] = targets[1][2]
  /\ (pc = "submit" \/ flush = "ok") /\ synced =>
       durable.log[targets[1][1]] = targets[1][2]
  /\ ReleasedIsDurable

(* An output that exists: a coin, or the change of an accepted transaction. *)
Existing == Coins \cup DOMAIN txs

(* The funding chain.  Its head is the change of the last transaction, and  *)
(* a transaction spends only what existed before it.  The mempool holds no  *)
(* two spenders of one output, and no transaction whose input is gone.      *)
FundingInv ==
  /\ pending_change # NoOutpoint => pending_change = Len(txs) /\ txs # <<>>
  /\ funding # NoOutpoint => funding \in Existing /\ amount(funding) > 1
  /\ pc \in {"flush", "submit", "overlay"} => funding # NoOutpoint
  /\ \A n \in DOMAIN txs : txs[n].input \in Coins \/ txs[n].input \in 1 .. n - 1
  /\ listed \subseteq Existing
  /\ \A n \in mempool : txs[n].input \in listed \cup mempool
  /\ \A m, n \in mempool : txs[m].input = txs[n].input => m = n
  /\ InflightCoinsExcluded

ServiceInv == ServiceTypeOK /\ GuardInv /\ FundingInv

-----------------------------------------------------------------------------
LEMMA FirstTarget ==
  ASSUME ServiceTypeOK, targets # <<>>
  PROVE  /\ targets[1] \in Attestation /\ targets[1] = <<targets[1][1], targets[1][2]>>
         /\ targets[1][1] \in Epochs /\ targets[1][2] \in Targets
         /\ Tail(targets) \in Seq(Attestation)
<1>1. targets[1] \in Attestation /\ Tail(targets) \in Seq(Attestation)
  BY DEF ServiceTypeOK
<1> QED
  BY <1>1 DEF Attestation

LEMMA NoTargets == <<>> \in Seq(Attestation)
  OBVIOUS

LEMMA ReadyTargetsType ==
  ASSUME NEW from, NEW limit \in Nat
  PROVE  ReadyTargets(from, limit) \subseteq Seq(Attestation)
<1> SUFFICES ASSUME NEW s \in ReadyTargets(from, limit)
             PROVE  s \in Seq(Attestation)
  OBVIOUS
<1>1. PICK n \in 0 .. limit : s \in [1 .. n -> Attestation]
  BY DEF ReadyTargets
<1> QED
  BY <1>1

(* A step that leaves the store alone keeps what the invariant says of it.  *)
LEMMA StoreUnchanged ==
  ASSUME ServiceInv, UNCHANGED storeVars, UNCHANGED up
  PROVE  StoreTypeOK' /\ StoreInv(up)'
BY Zenon DEF ServiceInv, GuardInv, ServiceTypeOK, StoreTypeOK, StoreInv, storeVars

(* A submitted attestation stays durable when the log on disk only grows.   *)
LEMMA DurableGrows ==
  ASSUME ServiceTypeOK, ReleasedIsDurable, Extends(durable.log, durable'.log), UNCHANGED released
  PROVE  ReleasedIsDurable'
<1> SUFFICES ASSUME NEW a \in released
             PROVE  durable'.log[a[1]] = a[2]
  BY DEF ReleasedIsDurable
<1>1. a \in Attestation
  BY DEF ServiceTypeOK
<1>2. a[1] \in Epochs /\ a[2] \in Targets
  BY <1>1 DEF Attestation
<1>3. durable.log[a[1]] = a[2]
  BY DEF ReleasedIsDurable
<1>4. durable.log[a[1]] # NoRecord
  BY <1>2, <1>3, StoreAssumption
<1> QED
  BY <1>2, <1>3, <1>4 DEF Extends

-----------------------------------------------------------------------------
(* The funding chain.                                                       *)

LEMMA ExistingIsOutpoint ==
  ASSUME ServiceTypeOK
  PROVE  /\ Existing \subseteq Outpoint /\ DOMAIN txs = 1 .. Len(txs) /\ Len(txs) \in Nat
         /\ \A n \in DOMAIN txs : txs[n].input \in Outpoint /\ txs[n].change \in Nat
         /\ \A op \in Existing : amount(op) \in Nat
         /\ NoOutpoint \notin Outpoint
<1>1. DOMAIN txs = 1 .. Len(txs) /\ Len(txs) \in Nat /\ Len(txs) <= MaxTxs
  BY DEF ServiceTypeOK
<1>2. \A n \in DOMAIN txs : txs[n].input \in Outpoint /\ txs[n].change \in Nat
  <2>1. \A n \in DOMAIN txs : txs[n] \in Tx
    BY DEF ServiceTypeOK
  <2> QED
    BY <2>1 DEF Tx
<1> QED
  BY <1>1, <1>2, ServiceAssumption DEF Existing, Outpoint, amount

(* A pass that touches neither the chain nor the node.                      *)
LEMMA FundingQuiet ==
  ASSUME FundingInv, UNCHANGED <<chainVars, nodeVars, own>>,
         funding' \in {funding, NoOutpoint},
         pc' \in {"flush", "submit", "overlay"} => funding' # NoOutpoint
  PROVE  FundingInv'
BY DEF FundingInv, chainVars, nodeVars, Existing, amount, InflightCoinsExcluded

(* Pruning the exclusions against the node's list loses none that matters:  *)
(* a coin that a transaction in the mempool spends is listed.               *)
LEMMA PruneKeeps ==
  ASSUME ServiceTypeOK, FundingInv, NEW candidates \in find_funding_candidates,
         PruneChain(candidates), UNCHANGED <<nodeVars, own>>
  PROVE  /\ pending_change' \in {pending_change, NoOutpoint}
         /\ inflight_spent' \subseteq Outpoint /\ forgotten' \subseteq Outpoint
         /\ InflightCoinsExcluded'
<1>1. pending_change' \in {pending_change, NoOutpoint}
  BY DEF PruneChain
<1>2. inflight_spent' \subseteq Outpoint /\ forgotten' \subseteq Outpoint
  BY DEF PruneChain, ServiceTypeOK
<1>3. ASSUME NEW n \in own \cap mempool, txs[n].input \in Coins
      PROVE  txs[n].input \in inflight_spent' \cup forgotten'
  <2>1. txs[n].input \in inflight_spent \cup forgotten
    BY <1>3 DEF FundingInv, InflightCoinsExcluded
  <2>2. txs[n].input \notin mempool
    <3>1. mempool \subseteq Nat
      BY ExistingIsOutpoint DEF ServiceTypeOK
    <3> QED
      BY Zenon, <1>3, <3>1, ServiceAssumption
  <2>3. txs[n].input \in listed
    BY <2>2 DEF FundingInv
  <2>4. CASE candidates = listed
    BY <2>1, <2>3, <2>4 DEF PruneChain
  <2>5. CASE candidates # listed
    BY <2>1, <2>5 DEF PruneChain
  <2> QED
    BY <2>4, <2>5
<1>4. InflightCoinsExcluded'
  BY <1>3 DEF InflightCoinsExcluded, nodeVars
<1> QED
  BY <1>1, <1>2, <1>4

(* An attempt that prunes and gives up.                                     *)
LEMMA PruneFundingInv ==
  ASSUME ServiceTypeOK, FundingInv, NEW candidates \in find_funding_candidates,
         PruneChain(candidates), UNCHANGED <<nodeVars, own, funding, pc>>
  PROVE  FundingInv'
BY Zenon, PruneKeeps DEF FundingInv, nodeVars, Existing, amount

(* What select_funding returns exists and covers the fee.                   *)
LEMMA SelectedExists ==
  ASSUME ServiceTypeOK, FundingInv, SelectFunding, UNCHANGED <<nodeVars, own>>
  PROVE  /\ FundingInv' \/ funding' = NoOutpoint
         /\ funding' \in Outpoint \cup {NoOutpoint}
         /\ pending_change' \in {pending_change, NoOutpoint}
         /\ inflight_spent' \subseteq Outpoint /\ forgotten' \subseteq Outpoint
<1>1. PICK candidates \in find_funding_candidates :
        /\ PruneChain(candidates)
        /\ funding' \in select_funding(pending_change', inflight_spent', candidates)
  BY DEF SelectFunding
<1>2. /\ pending_change' \in {pending_change, NoOutpoint}
      /\ inflight_spent' \subseteq Outpoint /\ forgotten' \subseteq Outpoint
      /\ InflightCoinsExcluded'
  BY <1>1, PruneKeeps
<1>3. candidates \subseteq Existing
  BY DEF find_funding_candidates, FundingInv
<1>4. pending_change' # NoOutpoint => pending_change' \in Existing
  BY <1>2, ExistingIsOutpoint DEF FundingInv, Existing
<1>5. funding' = NoOutpoint \/ (funding' \in Existing /\ amount(funding') > 1)
  <2> DEFINE usable == {op \in candidates \ inflight_spent' : amount(op) > 1}
  <2>1. CASE pending_change' # NoOutpoint /\ amount(pending_change') > 1
    BY <1>1, <1>4, <2>1 DEF select_funding
  <2>2. CASE ~(pending_change' # NoOutpoint /\ amount(pending_change') > 1)
    <3>1. funding' = NoOutpoint \/ funding' \in usable
      BY <1>1, <2>2 DEF select_funding
    <3> QED
      BY <1>3, <3>1
  <2> QED
    BY <2>1, <2>2
<1>6. txs' = txs /\ listed' = listed /\ mempool' = mempool
  BY DEF nodeVars
<1>7. funding' # NoOutpoint => FundingInv'
  BY <1>2, <1>5, <1>6 DEF FundingInv, Existing, amount
<1> QED
  BY <1>2, <1>5, <1>7, ExistingIsOutpoint

-----------------------------------------------------------------------------
(* One lemma per action: it keeps the invariant and is a step, or a         *)
(* stutter, of the abstract promise.                                        *)

LEMMA InitInv == Init => ServiceInv
<1> SUFFICES ASSUME Init PROVE ServiceInv
  OBVIOUS
<1>1. StoreTypeOK /\ StoreInv(up)
  BY StoreInitInv DEF Init, StoreInv
<1>2. ServiceTypeOK
  BY <1>1, ServiceAssumption DEF Init, ServiceTypeOK
<1>3. GuardInv
  BY <1>1 DEF Init, StoreInit, GuardInv, ReleasedIsDurable
<1>4. FundingInv
  BY DEF Init, FundingInv, InflightCoinsExcluded
<1> QED
  BY <1>2, <1>3, <1>4 DEF ServiceInv

(* What the guard is about is untouched, and no flush or submission begins. *)
LEMMA GuardQuiet ==
  ASSUME ServiceInv, UNCHANGED <<storeVars, up, synced, released>>,
         pc \notin {"flush", "submit"} \/ UNCHANGED <<pc, targets>>,
         pc' \notin {"flush", "submit"} \/ UNCHANGED <<pc, targets>>
  PROVE  GuardInv' /\ [Promise!Next]_(Promise!vars)
<1>1. StoreInv(up)'
  BY StoreUnchanged
<1>2. CASE UNCHANGED <<pc, targets>>
  BY <1>1, <1>2 DEF ServiceInv, GuardInv, storeVars, ReleasedIsDurable, Promise!vars
<1>3. CASE pc \notin {"flush", "submit"} /\ pc' \notin {"flush", "submit"}
  BY <1>1, <1>3 DEF ServiceInv, GuardInv, storeVars, ReleasedIsDurable, Promise!vars
<1> QED
  BY <1>2, <1>3

LEMMA TickStep ==
  ASSUME ServiceInv, Tick
  PROVE  ServiceInv' /\ [Promise!Next]_(Promise!vars)
<1>1. targets' \in Seq(Attestation)
  BY ReadyTargetsType, ServiceAssumption DEF Tick, ServiceInv
<1>2. ServiceTypeOK'
  BY Zenon, <1>1, StoreUnchanged DEF Tick, ServiceTypeOK, chainVars, nodeVars, ServiceInv
<1>3. GuardInv' /\ [Promise!Next]_(Promise!vars)
  BY GuardQuiet DEF Tick, ServiceInv
<1>4. FundingInv'
  BY FundingQuiet DEF Tick, ServiceInv
<1> QED
  BY <1>2, <1>3, <1>4 DEF ServiceInv

LEMMA TickDoneStep ==
  ASSUME ServiceInv, TickDone
  PROVE  ServiceInv' /\ [Promise!Next]_(Promise!vars)
<1>1. ServiceTypeOK'
  BY Zenon, StoreUnchanged DEF TickDone, ServiceTypeOK, chainVars, nodeVars, ServiceInv
<1>2. GuardInv' /\ [Promise!Next]_(Promise!vars)
  BY GuardQuiet DEF TickDone, ServiceInv
<1>3. FundingInv'
  BY FundingQuiet DEF TickDone, ServiceInv
<1> QED
  BY <1>1, <1>2, <1>3 DEF ServiceInv

LEMMA GatedByActivationStep ==
  ASSUME ServiceInv, GatedByActivation
  PROVE  ServiceInv' /\ [Promise!Next]_(Promise!vars)
<1>1. ServiceTypeOK'
  BY Zenon, FirstTarget, StoreUnchanged
     DEF GatedByActivation, ServiceTypeOK, chainVars, nodeVars, ServiceInv
<1>2. GuardInv' /\ [Promise!Next]_(Promise!vars)
  BY GuardQuiet DEF GatedByActivation, ServiceInv
<1>3. FundingInv'
  BY FundingQuiet DEF GatedByActivation, ServiceInv
<1> QED
  BY <1>1, <1>2, <1>3 DEF ServiceInv

LEMMA TryAttestSkipsStep ==
  ASSUME ServiceInv, TryAttestSkips
  PROVE  ServiceInv' /\ [Promise!Next]_(Promise!vars)
<1>1. PICK candidates \in find_funding_candidates : PruneChain(candidates)
  BY DEF TryAttestSkips, ServiceInv
<1>2. UNCHANGED <<storeVars, up, active, pc, funding, synced, released, own, nodeVars>>
  BY DEF TryAttestSkips, ServiceInv
<1>3. ServiceTypeOK'
  BY Zenon, <1>1, <1>2, PruneKeeps, FirstTarget, StoreUnchanged
     DEF TryAttestSkips, ServiceTypeOK, nodeVars, ServiceInv
<1>4. GuardInv' /\ [Promise!Next]_(Promise!vars)
  BY GuardQuiet DEF TryAttestSkips, ServiceInv
<1>5. FundingInv'
  BY <1>1, <1>2, PruneFundingInv DEF ServiceInv
<1> QED
  BY <1>3, <1>4, <1>5 DEF ServiceInv

LEMMA OverlaySkipsStep ==
  ASSUME ServiceInv, OverlaySkips
  PROVE  ServiceInv' /\ [Promise!Next]_(Promise!vars)
<1>1. PICK candidates \in find_funding_candidates : PruneChain(candidates)
  BY DEF OverlaySkips, ServiceInv
<1>2. UNCHANGED <<storeVars, up, active, pc, targets, funding, synced, released, own, nodeVars>>
  BY DEF OverlaySkips, serviceVars, ServiceInv
<1>3. ServiceTypeOK'
  BY Zenon, <1>1, <1>2, PruneKeeps, StoreUnchanged DEF ServiceTypeOK, nodeVars, ServiceInv
<1>4. GuardInv' /\ [Promise!Next]_(Promise!vars)
  BY <1>2, GuardQuiet DEF ServiceInv
<1>5. FundingInv'
  BY <1>1, <1>2, PruneFundingInv DEF ServiceInv
<1> QED
  BY <1>3, <1>4, <1>5 DEF ServiceInv

LEMMA OverlaySelectsStep ==
  ASSUME ServiceInv, OverlaySelects
  PROVE  ServiceInv' /\ [Promise!Next]_(Promise!vars)
<1>1. SelectFunding /\ UNCHANGED <<nodeVars, own>> /\ funding' # NoOutpoint
  BY DEF OverlaySelects, ServiceInv
<1>2. ServiceTypeOK'
  BY Zenon, <1>1, SelectedExists, StoreUnchanged
     DEF OverlaySelects, ServiceTypeOK, nodeVars, ServiceInv
<1>3. GuardInv' /\ [Promise!Next]_(Promise!vars)
  BY GuardQuiet DEF OverlaySelects, ServiceInv
<1>4. FundingInv'
  BY <1>1, SelectedExists DEF ServiceInv
<1> QED
  BY <1>2, <1>3, <1>4 DEF ServiceInv

(* The guard allows: the record enters the log and its flush begins.        *)
LEMMA TryAttestSignsStep ==
  ASSUME ServiceInv, TryAttestSigns
  PROVE  ServiceInv' /\ [Promise!Next]_(Promise!vars)
<1>1. SelectFunding /\ UNCHANGED <<nodeVars, own>> /\ funding' # NoOutpoint
  BY DEF TryAttestSigns, ServiceInv
<1>2. targets[1][1] \in Epochs /\ targets[1][2] \in Targets /\ targets # <<>>
  BY FirstTarget DEF TryAttestSigns, ServiceInv
<1>3. records[targets[1][1]] = NoRecord
  BY <1>2, StoreAssumption DEF TryAttestSigns, check, check_signed_epoch_record, ServiceInv
<1>4. /\ StoreTypeOK' /\ StoreInv(TRUE)' /\ records'[targets[1][1]] = targets[1][2]
  BY Zenon, <1>2, <1>3, RecordInv DEF TryAttestSigns, GuardInv, ServiceTypeOK, ServiceInv
<1>5. /\ durable' = durable /\ flush' = "write" /\ up /\ pc' = "flush"
      /\ UNCHANGED <<up, active, targets, synced, released, own>>
  BY DEF TryAttestSigns, record_and_flush, ServiceInv
<1>6. ServiceTypeOK'
  BY Zenon, <1>1, <1>4, <1>5, SelectedExists DEF ServiceTypeOK, nodeVars, ServiceInv
<1>7. GuardInv'
  BY Zenon, <1>2, <1>4, <1>5 DEF GuardInv, ReleasedIsDurable, ServiceInv
<1>8. FundingInv'
  BY <1>1, SelectedExists DEF ServiceInv
<1>9. [Promise!Next]_(Promise!vars)
  BY <1>5 DEF Promise!vars, ServiceInv
<1> QED
  BY <1>6, <1>7, <1>8, <1>9 DEF ServiceInv

(* One file operation of record_and_flush.                                  *)
LEMMA FlushingStep ==
  ASSUME ServiceInv, Flushing
  PROVE  ServiceInv' /\ [Promise!Next]_(Promise!vars)
<1>1. /\ StoreTypeOK' /\ StoreInv(TRUE)' /\ records' = records
      /\ flush' # "idle" /\ (flush' = "ok" => durable'.log = records)
      /\ Extends(durable.log, durable'.log)
  BY Zenon, FlushStepInv DEF Flushing, ServiceTypeOK, GuardInv, ServiceInv
<1>2. up /\ pc = "flush" /\ UNCHANGED <<serviceVars, chainVars, nodeVars>>
  BY DEF Flushing, ServiceInv
<1>3. ServiceTypeOK'
  BY <1>1, <1>2 DEF ServiceTypeOK, serviceVars, chainVars, nodeVars, ServiceInv
<1>4. ReleasedIsDurable'
  BY <1>1, <1>2, DurableGrows DEF GuardInv, serviceVars, ServiceInv
<1>5. GuardInv'
  BY Zenon, <1>1, <1>2, <1>4 DEF GuardInv, serviceVars, ServiceInv
<1>6. FundingInv'
  BY Zenon, <1>2, FundingQuiet DEF serviceVars, FundingInv, ServiceInv
<1>7. [Promise!Next]_(Promise!vars)
  BY <1>1, <1>2 DEF StoreTypeOK, Image, Log, Extends, Promise!Next, Promise!Commit, Promise!vars,
     serviceVars, ServiceInv
<1> QED
  BY <1>3, <1>5, <1>6, <1>7 DEF ServiceInv

(* The directory fsync fails and is ignored: the target is no longer synced. *)
LEMMA FlushUnsyncedStep ==
  ASSUME ServiceInv, FlushUnsynced
  PROVE  ServiceInv' /\ [Promise!Next]_(Promise!vars)
<1>1. StoreTypeOK' /\ StoreInv(TRUE)'
  BY Zenon, SyncDirFailsInv DEF FlushUnsynced, ServiceTypeOK, GuardInv, ServiceInv
<1>2. /\ up /\ pc = "flush" /\ flush' = "ok" /\ synced' = FALSE
      /\ UNCHANGED <<up, active, pc, targets, funding, released, own, chainVars, nodeVars, records, durable>>
  BY DEF FlushUnsynced, SyncDirFails, ServiceInv
<1>3. ServiceTypeOK'
  BY Zenon, <1>1, <1>2 DEF ServiceTypeOK, chainVars, nodeVars, ServiceInv
<1>4. StoreInv(up)'
  BY <1>1, <1>2 DEF StoreInv, ServiceInv
<1>5. GuardInv'
  BY Zenon, <1>2, <1>4 DEF GuardInv, ReleasedIsDurable, ServiceInv
<1>6. FundingInv'
  BY Zenon, <1>2, FundingQuiet DEF FundingInv, ServiceInv
<1>7. [Promise!Next]_(Promise!vars)
  BY <1>2 DEF Promise!vars, ServiceInv
<1> QED
  BY <1>3, <1>5, <1>6, <1>7 DEF ServiceInv

(* A transaction is handed over only after the flush returned Ok.           *)
LEMMA FlushReturnsStep ==
  ASSUME ServiceInv, FlushReturns
  PROVE  ServiceInv' /\ [Promise!Next]_(Promise!vars)
<1>1. StoreTypeOK' /\ StoreInv(TRUE)'
  BY Zenon, TakeFlushResultInv DEF FlushReturns, ServiceTypeOK, GuardInv, ServiceInv
<1>2. /\ up /\ flush' = "idle" /\ records' = records /\ durable' = durable
      /\ UNCHANGED <<up, active, released, own, chainVars, nodeVars>>
  BY DEF FlushReturns, TakeFlushResult, ServiceInv
<1>3. targets # <<>> /\ targets[1][1] \in Epochs /\ Tail(targets) \in Seq(Attestation)
  BY FirstTarget DEF FlushReturns, GuardInv, ServiceInv
<1>4. targets' \in Seq(Attestation) /\ funding' \in {funding, NoOutpoint}
  BY Zenon, <1>3 DEF FlushReturns, ServiceTypeOK, ServiceInv
<1>5. ServiceTypeOK'
  BY Zenon, <1>1, <1>2, <1>4 DEF FlushReturns, ServiceTypeOK, chainVars, nodeVars, ServiceInv
<1>6. FundingInv'
  BY Zenon, FundingQuiet DEF FlushReturns, FundingInv, ServiceInv
<1>7. GuardInv'
  <2>1. StoreInv(up)' /\ ReleasedIsDurable'
    BY Zenon, <1>1, <1>2 DEF GuardInv, ReleasedIsDurable, ServiceInv
  <2>2. CASE flush = "ok" /\ pc' = "submit" /\ UNCHANGED <<targets, synced>>
    BY Zenon, <1>2, <1>3, <2>1, <2>2 DEF GuardInv, ServiceInv
  <2>3. CASE pc' = "targets"
    BY Zenon, <1>2, <2>1, <2>3 DEF GuardInv, ServiceInv
  <2> QED
    BY <2>2, <2>3 DEF FlushReturns, ServiceInv
<1>8. [Promise!Next]_(Promise!vars)
  BY <1>2 DEF Promise!vars, ServiceInv
<1> QED
  BY <1>5, <1>6, <1>7, <1>8 DEF ServiceInv

(* The transaction is in the mempool: its change is the head of the chain   *)
(* and its input is excluded.                                               *)
LEMMA AcceptedFunding ==
  ASSUME ServiceTypeOK, FundingInv, SubmitAccepted
  PROVE  /\ FundingInv'
         /\ txs' \in Seq(Tx) /\ Len(txs') <= MaxTxs /\ DOMAIN txs' = 1 .. Len(txs) + 1
         /\ DOMAIN txs = 1 .. Len(txs) /\ Len(txs) \in Nat
<1> DEFINE new == [input |-> funding, change |-> amount(funding) - 1]
<1>1. /\ funding \in Existing /\ amount(funding) > 1 /\ funding \in Outpoint
      /\ DOMAIN txs = 1 .. Len(txs) /\ Len(txs) \in Nat /\ Len(txs) < MaxTxs
  BY Zenon, ExistingIsOutpoint DEF SubmitAccepted, Accepted, FundingInv
<1>2. new \in Tx
  BY <1>1, ExistingIsOutpoint DEF Tx
<1>3. /\ txs' = Append(txs, new) /\ txs' \in Seq(Tx) /\ Len(txs') = Len(txs) + 1
      /\ txs'[Len(txs) + 1] = new /\ \A n \in DOMAIN txs : txs'[n] = txs[n]
  BY <1>2 DEF SubmitAccepted, Accepted, ServiceTypeOK
<1>4. DOMAIN txs' = 1 .. Len(txs) + 1
  BY <1>3
<1>5. /\ mempool' = mempool \cup {Len(txs) + 1} /\ own' = own \cup {Len(txs) + 1}
      /\ funding' = NoOutpoint /\ pc' = "targets" /\ listed' = listed /\ forgotten' = forgotten
      /\ inflight_spent' = inflight_spent \cup {funding} /\ pending_change' = Len(txs) + 1
      /\ Spendable(funding)
  BY DEF SubmitAccepted, Accepted
<1>6. mempool \subseteq DOMAIN txs /\ own \subseteq DOMAIN txs /\ Len(txs) + 1 \notin DOMAIN txs
  BY <1>1 DEF ServiceTypeOK
<1>7. txs'[Len(txs) + 1].input = funding
  BY <1>3
<1>8. \A n \in DOMAIN txs' : txs'[n].input \in Coins \/ txs'[n].input \in 1 .. n - 1
  <2>1. SUFFICES ASSUME NEW n \in 1 .. Len(txs) + 1
                 PROVE  txs'[n].input \in Coins \/ txs'[n].input \in 1 .. n - 1
    BY <1>4
  <2>2. CASE n \in DOMAIN txs
    BY <2>2, <1>3 DEF FundingInv
  <2>3. CASE n = Len(txs) + 1
    BY <2>3, <1>1, <1>7 DEF Existing
  <2> QED
    BY <1>1, <2>2, <2>3
<1>9. \A n \in mempool' : txs'[n].input \in listed' \cup mempool'
  <2>1. \A n \in mempool : txs'[n].input \in listed \cup mempool
    BY <1>3, <1>6 DEF FundingInv
  <2> QED
    BY <1>5, <1>7, <2>1 DEF Spendable
<1>10. \A m, n \in mempool' : txs'[m].input = txs'[n].input => m = n
  <2>1. \A m, n \in mempool : txs'[m].input = txs'[n].input => m = n
    BY <1>3, <1>6 DEF FundingInv
  <2>2. \A n \in mempool : txs'[n].input # funding
    BY <1>3, <1>5, <1>6 DEF Spendable
  <2> QED
    BY <1>5, <1>7, <2>1, <2>2
<1>11. InflightCoinsExcluded'
  <2>1. SUFFICES ASSUME NEW n \in own' \cap mempool', txs'[n].input \in Coins
                 PROVE  txs'[n].input \in inflight_spent' \cup forgotten'
    BY DEF InflightCoinsExcluded
  <2>2. CASE n = Len(txs) + 1
    BY <1>5, <1>7, <2>2
  <2>3. CASE n # Len(txs) + 1
    BY Zenon, <1>3, <1>5, <1>6, <2>1, <2>3 DEF FundingInv, InflightCoinsExcluded
  <2> QED
    BY <2>2, <2>3
<1>12. listed' \subseteq Existing' /\ txs' # <<>>
  BY <1>3, <1>5 DEF FundingInv, Existing
<1>13. pending_change' = Len(txs') /\ Len(txs') <= MaxTxs
  BY <1>1, <1>3, <1>5, ServiceAssumption
<1>14. funding' = NoOutpoint /\ pc' = "targets"
  BY <1>5
<1>15. FundingInv'
  BY Zenon, <1>8, <1>9, <1>10, <1>11, <1>12, <1>13, <1>14 DEF FundingInv
<1> QED
  BY <1>1, <1>3, <1>4, <1>13, <1>15

LEMMA SubmitAcceptedStep ==
  ASSUME ServiceInv, SubmitAccepted
  PROVE  ServiceInv' /\ [Promise!Next]_(Promise!vars)
<1>1. /\ UNCHANGED <<storeVars, up, active, listed, forgotten>> /\ up
      /\ pc \in {"submit", "overlay"} /\ pc' = "targets"
      /\ mempool' = mempool \cup {Len(txs) + 1} /\ own' = own \cup {Len(txs) + 1}
      /\ funding' = NoOutpoint
      /\ inflight_spent' = inflight_spent \cup {funding} /\ pending_change' = Len(txs) + 1
      /\ pc = "submit" /\ synced => released' = released \cup {targets[1]}
      /\ pc = "submit" => targets' = Tail(targets)
      /\ pc = "overlay" => UNCHANGED targets
      /\ ~(pc = "submit" /\ synced) => released' = released
      /\ synced' = TRUE
  BY DEF SubmitAccepted, Accepted, Advance, ServiceInv
<1>2. pc = "submit" => /\ targets # <<>> /\ targets[1] \in Attestation
                       /\ targets[1] = <<targets[1][1], targets[1][2]>>
                       /\ targets[1][1] \in Epochs /\ targets[1][2] \in Targets
                       /\ Tail(targets) \in Seq(Attestation)
                       /\ synced => durable.log[targets[1][1]] = targets[1][2]
  BY FirstTarget DEF GuardInv, ServiceInv
<1>3. /\ FundingInv' /\ txs' \in Seq(Tx) /\ Len(txs') <= MaxTxs
      /\ DOMAIN txs' = 1 .. Len(txs) + 1 /\ DOMAIN txs = 1 .. Len(txs) /\ Len(txs) \in Nat
  BY AcceptedFunding DEF ServiceInv
<1>4. Len(txs) + 1 \in Outpoint /\ funding \in Outpoint
  <2>1. Len(txs) < MaxTxs
    BY DEF SubmitAccepted, Accepted, ServiceInv
  <2>2. funding # NoOutpoint
    BY <1>1 DEF FundingInv, ServiceInv
  <2> QED
    BY <2>1, <2>2, ServiceAssumption DEF Outpoint, ServiceTypeOK, ServiceInv
<1>5. targets' \in Seq(Attestation) /\ released' \subseteq Attestation
  BY Zenon, <1>1, <1>2 DEF ServiceTypeOK, ServiceInv
<1>6. mempool' \subseteq DOMAIN txs' /\ own' \subseteq DOMAIN txs'
  BY <1>1, <1>3 DEF ServiceTypeOK, ServiceInv
<1>7. ServiceTypeOK'
  BY Zenon, <1>1, <1>3, <1>4, <1>5, <1>6, StoreUnchanged DEF ServiceTypeOK, ServiceInv
<1>8. ReleasedIsDurable'
  BY Zenon, <1>1 DEF GuardInv, ReleasedIsDurable, storeVars, ServiceInv
<1>9. GuardInv'
  BY Zenon, <1>1, <1>8, StoreUnchanged DEF GuardInv, storeVars, ServiceInv
<1>10. [Promise!Next]_(Promise!vars)
  <2>1. CASE pc = "submit" /\ synced
    <3>1. durable.log[targets[1][1]] # NoRecord
      BY <1>2, <2>1, StoreAssumption DEF ServiceInv
    <3>2. Promise!Release(targets[1][1])
      BY Zenon, <1>1, <1>2, <2>1, <3>1 DEF Promise!Release, storeVars, ServiceInv
    <3> QED
      BY <1>2, <2>1, <3>2 DEF Promise!Next, ServiceInv
  <2>2. CASE ~(pc = "submit" /\ synced)
    BY <1>1, <2>2 DEF Promise!vars, storeVars, ServiceInv
  <2> QED
    BY <2>1, <2>2 DEF ServiceInv
<1> QED
  BY <1>3, <1>7, <1>9, <1>10 DEF ServiceInv

LEMMA SubmitRejectedStep ==
  ASSUME ServiceInv, SubmitRejected
  PROVE  ServiceInv' /\ [Promise!Next]_(Promise!vars)
<1>1. targets' \in Seq(Attestation)
  BY Zenon, FirstTarget DEF SubmitRejected, Advance, GuardInv, ServiceTypeOK, ServiceInv
<1>2. /\ UNCHANGED <<storeVars, up, active, released, own, inflight_spent, forgotten, nodeVars>> /\ up
      /\ pc \in {"submit", "overlay"} /\ pc' = "targets"
      /\ pending_change' = NoOutpoint /\ funding' = NoOutpoint /\ synced' = TRUE
  BY DEF SubmitRejected, Advance, ServiceInv
<1>3. ServiceTypeOK'
  BY Zenon, <1>1, <1>2, StoreUnchanged DEF ServiceTypeOK, nodeVars, ServiceInv
<1>4. GuardInv'
  BY Zenon, <1>2, StoreUnchanged DEF GuardInv, storeVars, ReleasedIsDurable, ServiceInv
<1>5. FundingInv'
  BY Zenon, <1>2 DEF FundingInv, nodeVars, Existing, InflightCoinsExcluded, ServiceInv
<1>6. [Promise!Next]_(Promise!vars)
  BY <1>2 DEF Promise!vars, storeVars, ServiceInv
<1> QED
  BY <1>3, <1>4, <1>5, <1>6 DEF ServiceInv

(* A new coin on the funding address.                                       *)
LEMMA DepositStep ==
  ASSUME ServiceInv, NEW c \in Coins, Deposit(c)
  PROVE  ServiceInv' /\ [Promise!Next]_(Promise!vars)
<1>1. /\ UNCHANGED <<storeVars, serviceVars, chainVars, mempool, txs>>
      /\ listed' = listed \cup {c}
  BY DEF Deposit, ServiceInv
<1>2. ServiceTypeOK'
  BY <1>1, StoreUnchanged DEF ServiceTypeOK, serviceVars, chainVars, Outpoint, ServiceInv
<1>3. GuardInv' /\ [Promise!Next]_(Promise!vars)
  BY <1>1, GuardQuiet DEF serviceVars, ServiceInv
<1>4. FundingInv'
  BY Zenon, <1>1 DEF FundingInv, serviceVars, chainVars, Existing, amount, InflightCoinsExcluded,
     ServiceInv
<1> QED
  BY <1>2, <1>3, <1>4 DEF ServiceInv

(* A block takes a transaction: its change is listed, its input is not.     *)
LEMMA MineStep ==
  ASSUME ServiceInv, NEW n \in mempool, Mine(n)
  PROVE  ServiceInv' /\ [Promise!Next]_(Promise!vars)
<1>1. /\ UNCHANGED <<storeVars, serviceVars, chainVars, txs>>
      /\ listed' = (listed \ {txs[n].input}) \cup {n}
      /\ mempool' = mempool \ {n}
  BY DEF Mine, ServiceInv
<1>2. n \in DOMAIN txs /\ n \in Outpoint
  BY ExistingIsOutpoint DEF ServiceTypeOK, Existing, ServiceInv
<1>3. ServiceTypeOK'
  BY <1>1, <1>2, StoreUnchanged DEF ServiceTypeOK, serviceVars, chainVars, ServiceInv
<1>4. GuardInv' /\ [Promise!Next]_(Promise!vars)
  BY Zenon, <1>1, GuardQuiet DEF serviceVars, ServiceInv
<1>5. \A m \in mempool' : txs[m].input \in listed' \cup mempool'
  BY <1>1 DEF FundingInv, ServiceInv
<1>6. FundingInv'
  BY Zenon, <1>1, <1>2 DEF FundingInv, serviceVars, chainVars, Existing, amount,
     InflightCoinsExcluded, ServiceInv
<1> QED
  BY <1>3, <1>4, <1>6 DEF ServiceInv

LEMMA DropStep ==
  ASSUME ServiceInv, Drop
  PROVE  ServiceInv' /\ [Promise!Next]_(Promise!vars)
<1>1. PICK D \in Droppable : mempool' = mempool \ D
  BY DEF Drop, ServiceInv
<1>2. UNCHANGED <<storeVars, serviceVars, chainVars, listed, txs>>
  BY DEF Drop, ServiceInv
<1>3. ServiceTypeOK'
  BY <1>1, <1>2, StoreUnchanged DEF ServiceTypeOK, serviceVars, chainVars, ServiceInv
<1>4. GuardInv' /\ [Promise!Next]_(Promise!vars)
  BY <1>2, GuardQuiet DEF serviceVars, ServiceInv
<1>5. \A m \in mempool' : txs[m].input \in listed \cup mempool'
  BY <1>1 DEF FundingInv, Droppable, ServiceInv
<1>6. FundingInv'
  BY Zenon, <1>1, <1>2, <1>5 DEF FundingInv, serviceVars, chainVars, Existing, amount,
     InflightCoinsExcluded,
     ServiceInv
<1> QED
  BY <1>3, <1>4, <1>6 DEF ServiceInv

(* Going down forgets the chain, and the mempool loses no parent alone.     *)
LEMMA GoesDownFunding ==
  ASSUME ServiceTypeOK, FundingInv, GoesDown
  PROVE  FundingInv' /\ mempool' \subseteq mempool
<1>1. PICK D \in Droppable : mempool' = mempool \ D
  BY DEF GoesDown
<1>2. \A m \in mempool' : txs[m].input \in listed \cup mempool'
  BY <1>1 DEF FundingInv, Droppable
<1>3. /\ funding' = NoOutpoint /\ pending_change' = NoOutpoint /\ own' = {} /\ pc' = "tick"
      /\ UNCHANGED <<listed, txs>>
  BY DEF GoesDown
<1> QED
  BY Zenon, <1>1, <1>2, <1>3 DEF FundingInv, Existing, InflightCoinsExcluded

(* A process that goes down keeps every record on stable storage.           *)
LEMMA GoesDownStep ==
  ASSUME ServiceInv, GoesDown, StoreTypeOK', StoreInv(FALSE)', flush' = "idle", durable' = durable
  PROVE  ServiceInv' /\ [Promise!Next]_(Promise!vars)
<1>1. /\ up' = FALSE /\ pc' = "tick" /\ targets' = <<>> /\ funding' = NoOutpoint
      /\ pending_change' = NoOutpoint /\ inflight_spent' = {} /\ forgotten' = {} /\ own' = {}
      /\ synced' = TRUE /\ UNCHANGED <<active, released, listed, txs>>
  BY DEF GoesDown
<1>2. FundingInv' /\ mempool' \subseteq mempool
  BY GoesDownFunding DEF ServiceInv
<1>3. ServiceTypeOK'
  BY Zenon, <1>1, <1>2, NoTargets DEF ServiceInv, ServiceTypeOK
<1>4. StoreInv(up)'
  BY <1>1 DEF StoreInv
<1>5. ReleasedIsDurable' /\ [Promise!Next]_(Promise!vars)
  BY <1>1 DEF ServiceInv, GuardInv, ReleasedIsDurable, Promise!vars
<1>6. GuardInv'
  BY <1>1, <1>4, <1>5 DEF GuardInv
<1> QED
  BY <1>2, <1>3, <1>5, <1>6 DEF ServiceInv

LEMMA KillStep ==
  ASSUME ServiceInv, Kill
  PROVE  ServiceInv' /\ [Promise!Next]_(Promise!vars)
<1>1. StoreTypeOK' /\ StoreInv(FALSE)'
  BY Zenon, KillInv DEF Kill, ServiceInv, ServiceTypeOK, GuardInv
<1>2. GoesDown /\ flush' = "idle" /\ durable' = durable
  BY DEF Kill, KillStore
<1> QED
  BY <1>1, <1>2, GoesDownStep

LEMMA PowerLossStep ==
  ASSUME ServiceInv, PowerLoss
  PROVE  ServiceInv' /\ [Promise!Next]_(Promise!vars)
<1>1. StoreTypeOK' /\ StoreInv(FALSE)' /\ durable' = durable
  BY Zenon, PowerLossInv DEF PowerLoss, ServiceInv, ServiceTypeOK, GuardInv
<1>2. GoesDown /\ flush' = "idle"
  BY DEF PowerLoss, PowerLossStore
<1> QED
  BY <1>1, <1>2, GoesDownStep

(* Stable storage catches up with the file.                                 *)
LEMMA WriteBackStep ==
  ASSUME ServiceInv, WriteBack
  PROVE  ServiceInv' /\ [Promise!Next]_(Promise!vars)
<1>1. StoreTypeOK' /\ StoreInv(up)' /\ Extends(durable.log, durable'.log)
  <2>1. up \in BOOLEAN /\ up' = up
    BY DEF WriteBack, serviceVars, ServiceTypeOK, ServiceInv
  <2> QED
    BY Zenon, <2>1, WriteBackInv DEF WriteBack, ServiceTypeOK, GuardInv, ServiceInv
<1>2. UNCHANGED <<serviceVars, chainVars, nodeVars, records, flush>>
  BY DEF WriteBack, WriteBackStore, ServiceInv
<1>3. ServiceTypeOK'
  BY <1>1, <1>2 DEF ServiceTypeOK, serviceVars, chainVars, nodeVars, ServiceInv
<1>4. ReleasedIsDurable'
  BY Zenon, <1>1, <1>2, DurableGrows DEF GuardInv, serviceVars, ServiceInv
<1>5. ASSUME pc = "submit" \/ flush = "ok", synced
      PROVE  durable'.log[targets[1][1]] = targets[1][2]
  <2>1. targets[1][1] \in Epochs /\ targets[1][2] \in Targets
    BY <1>5, FirstTarget DEF GuardInv, ServiceInv
  <2>2. durable.log[targets[1][1]] = targets[1][2] /\ targets[1][2] # NoRecord
    BY Zenon, <1>5, <2>1, StoreAssumption DEF GuardInv, ServiceInv
  <2> QED
    BY <1>1, <2>1, <2>2 DEF Extends, ServiceInv
<1>6. GuardInv'
  BY Zenon, <1>1, <1>2, <1>4, <1>5 DEF GuardInv, serviceVars, ServiceInv
<1>7. FundingInv'
  BY Zenon, <1>2, FundingQuiet DEF serviceVars, FundingInv, ServiceInv
<1>8. [Promise!Next]_(Promise!vars)
  BY Zenon, <1>1, <1>2 DEF StoreTypeOK, Image, Log, Extends, Promise!Next, Promise!Commit,
     serviceVars, ServiceInv
<1> QED
  BY <1>3, <1>6, <1>7, <1>8 DEF ServiceInv

(* A restart brings the file back into memory.                              *)
LEMMA StartStep ==
  ASSUME ServiceInv, Start
  PROVE  ServiceInv' /\ [Promise!Next]_(Promise!vars)
<1>1. /\ StoreTypeOK' /\ StoreInv(TRUE)' /\ flush = "idle" /\ flush' = "idle"
      /\ durable' = durable
  BY Zenon, LoadInv DEF Start, ServiceTypeOK, GuardInv, ServiceInv
<1>2. /\ ~up /\ up' = TRUE /\ active' \in BOOLEAN
      /\ UNCHANGED <<pc, targets, funding, synced, released, own, chainVars, nodeVars>>
  BY DEF Start, ServiceInv
<1>3. ServiceTypeOK'
  BY <1>1, <1>2 DEF ServiceTypeOK, chainVars, nodeVars, ServiceInv
<1>4. StoreInv(up)'
  BY <1>1, <1>2 DEF StoreInv, ServiceInv
<1>5. pc \notin {"flush", "submit"}
  BY <1>2 DEF GuardInv, ServiceInv
<1>6. GuardInv'
  BY Zenon, <1>1, <1>2 DEF GuardInv, ReleasedIsDurable, ServiceInv
<1>7. FundingInv'
  BY Zenon, <1>2, FundingQuiet DEF FundingInv, ServiceInv
<1>8. [Promise!Next]_(Promise!vars)
  BY <1>1, <1>2 DEF Promise!vars, ServiceInv
<1> QED
  BY <1>3, <1>6, <1>7, <1>8 DEF ServiceInv

LEMMA StutterStep ==
  ASSUME ServiceInv, UNCHANGED vars
  PROVE  ServiceInv' /\ [Promise!Next]_(Promise!vars)
<1>1. ServiceTypeOK'
  BY StoreUnchanged DEF vars, ServiceTypeOK, serviceVars, chainVars, nodeVars, ServiceInv
<1>2. GuardInv' /\ [Promise!Next]_(Promise!vars)
  BY GuardQuiet DEF vars, serviceVars, ServiceInv
<1>3. FundingInv'
  BY Zenon, FundingQuiet DEF vars, serviceVars, FundingInv, ServiceInv
<1> QED
  BY <1>1, <1>2, <1>3 DEF ServiceInv

(* Every step keeps the invariant and is a step of the abstract promise.    *)
LEMMA StepInv ==
  ASSUME ServiceInv, [Next]_vars
  PROVE  ServiceInv' /\ [Promise!Next]_(Promise!vars)
<1>1. CASE Node
  BY <1>1, DepositStep, MineStep, DropStep DEF Node
<1> QED
  BY Zenon, <1>1, TickStep, TickDoneStep, GatedByActivationStep, TryAttestSkipsStep,
     TryAttestSignsStep,
     OverlaySelectsStep, OverlaySkipsStep, FlushingStep, FlushUnsyncedStep, FlushReturnsStep,
     SubmitAcceptedStep, SubmitRejectedStep, KillStep, WriteBackStep, PowerLossStep, StartStep, StutterStep DEF
     Next

-----------------------------------------------------------------------------
(* The inductive invariant holds of every reachable state.                  *)
THEOREM ServiceInvariant == Spec => []ServiceInv
<1>1. ServiceInv /\ [Next]_vars => ServiceInv'
  BY StepInv
<1> QED
  BY InitInv, <1>1, PTL DEF Spec

(* The variables of the service, its funding chain and the node keep their  *)
(* types.                                                                   *)
THEOREM ServiceTypeCorrect == Spec => []ServiceTypeOK
<1>1. ServiceInv => ServiceTypeOK
  BY DEF ServiceInv
<1> QED
  BY ServiceInvariant, <1>1, PTL

(* No two attestations of one epoch for different targets are ever          *)
(* submitted by try_attest, those with an ignored fsync failure aside.      *)
THEOREM ServiceNeverEquivocates == Spec => []NoEquivocation
<1>1. ServiceInv => NoEquivocation
  BY DEF ServiceInv, GuardInv, ReleasedIsDurable, NoEquivocation
<1> QED
  BY ServiceInvariant, <1>1, PTL

(* The head of the funding chain is never an output that a transaction of   *)
(* ours has spent.                                                          *)
THEOREM ServiceHeadIsUnspent == Spec => []HeadIsUnspent
<1>1. ServiceInv => HeadIsUnspent
  <2> SUFFICES ASSUME ServiceInv, pending_change # NoOutpoint, NEW n \in own
               PROVE  txs[n].input # pending_change
    BY DEF HeadIsUnspent
  <2>1. DOMAIN txs = 1 .. Len(txs) /\ Len(txs) \in Nat /\ n \in DOMAIN txs
    BY ExistingIsOutpoint DEF ServiceInv, ServiceTypeOK
  <2>2. pending_change = Len(txs)
    BY DEF ServiceInv, FundingInv
  <2>3. txs[n].input \in Coins \/ txs[n].input \in 1 .. n - 1
    BY <2>1 DEF ServiceInv, FundingInv
  <2> QED
    BY <2>1, <2>2, <2>3, ServiceAssumption
<1> QED
  BY ServiceInvariant, <1>1, PTL

(* A coin that a transaction of ours in the mempool spends stays excluded,  *)
(* unless an index lookup failed.                                           *)
THEOREM ServiceInflightCoinsExcluded == Spec => []InflightCoinsExcluded
<1>1. ServiceInv => InflightCoinsExcluded
  BY DEF ServiceInv, FundingInv
<1> QED
  BY ServiceInvariant, <1>1, PTL

(* The service implements the abstract promise, flushes that return an      *)
(* error included, those with an ignored fsync failure aside.               *)
THEOREM ServiceKeepsPromise == Spec => KeepsPromise
<1>1. Init => Promise!Init
  BY DEF Init, StoreInit, NoFile, EmptyLog, Promise!Init
<1>2. ServiceInv /\ [Next]_vars => [Promise!Next]_(Promise!vars)
  BY StepInv
<1> QED
  BY ServiceInvariant, <1>1, <1>2, PTL DEF Spec, KeepsPromise, Promise!Spec
=============================================================================
