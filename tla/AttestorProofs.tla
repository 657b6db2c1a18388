--------------------------- MODULE AttestorProofs ---------------------------
(***************************************************************************)
(* The validator daemon never equivocates on flushed attestations: proofs  *)
(* for any number of epochs and targets and any batch limit.               *)
(***************************************************************************)
EXTENDS Attestor, StoreProofs

(* A record of epoch e for target t, if there is one, is on stable storage  *)
(* or is of a flush that never saw its directory fsync succeed.             *)
Backed(e, t) == t = NoRecord \/ t = durable.log[e] \/ <<e, t>> \in unsaved

(* Why it works.  Memory knows everything the disk knows (StoreInv), so an  *)
(* epoch whose record is on stable storage is never signed afresh; and      *)
(* every record that a running process holds, or that the next one will     *)
(* load, is backed or is the one being flushed, so a rebroadcast is of a    *)
(* durable record or of an unsaved one.                                     *)
AttestorInv ==
  /\ AttestorTypeOK
  /\ StoreInv(up)
  /\ pc = "flush" <=> flush # "idle"
  /\ pc \in {"flush", "submit"} => up /\ batch # <<>>
  /\ pc = "flush" =>
       /\ records[epoch] = target
       /\ flush \in {"write", "sync", "rename", "err"} => file.log[epoch] = NoRecord
       /\ flush # "ok" => batch[1] \notin released \ unsaved
       /\ flush = "ok" => Backed(epoch, target)
  /\ pc = "submit" => Backed(epoch, target)
  /\ up => \A e \in Epochs : Backed(e, records[e]) \/ (pc = "flush" /\ e = epoch)
  /\ ~up => \A e \in Epochs : Backed(e, file.log[e])
  /\ ReleasedIsDurable

-----------------------------------------------------------------------------
LEMMA FirstOfBatch ==
  ASSUME AttestorTypeOK, batch # <<>>
  PROVE  /\ batch[1] \in Attestation /\ batch[1] = <<epoch, target>>
         /\ epoch \in Epochs /\ epoch \in Nat /\ target \in Targets
         /\ Tail(batch) \in Seq(Attestation)
<1>1. batch[1] \in Attestation /\ Tail(batch) \in Seq(Attestation)
  BY DEF AttestorTypeOK
<1>2. PICK e \in Epochs, t \in Targets : batch[1] = <<e, t>>
  BY <1>1 DEF Attestation
<1>3. epoch = e /\ target = t
  BY <1>2 DEF epoch, target
<1> QED
  BY <1>1, <1>2, <1>3, StoreAssumption

LEMMA EmptyBatch == <<>> \in Seq(Attestation)
  OBVIOUS

LEMMA ReadyTargetsType ==
  ASSUME NEW from \in Nat
  PROVE  ReadyTargets(from) \subseteq Seq(Attestation)
<1> SUFFICES ASSUME NEW s \in ReadyTargets(from)
             PROVE  s \in Seq(Attestation)
  OBVIOUS
<1>1. PICK n \in 1 .. CATCH_UP_LIMIT : s \in [1 .. n -> Attestation]
  BY DEF ReadyTargets
<1> QED
  BY <1>1, CatchUpAssumption

(* A step that leaves the store alone keeps what the invariant says of it.  *)
LEMMA StoreUnchanged ==
  ASSUME AttestorInv, UNCHANGED storeVars, UNCHANGED up
  PROVE  StoreTypeOK' /\ StoreInv(up)'
BY DEF AttestorInv, AttestorTypeOK, StoreTypeOK, StoreInv, storeVars, Extends

(* A released attestation stays durable when the log on disk only grows.    *)
LEMMA DurableGrows ==
  ASSUME AttestorTypeOK, ReleasedIsDurable, Extends(durable.log, durable'.log),
         UNCHANGED <<released, unsaved>>
  PROVE  ReleasedIsDurable'
<1> SUFFICES ASSUME NEW a \in released \ unsaved
             PROVE  durable'.log[a[1]] = a[2]
  BY DEF ReleasedIsDurable
<1>1. a \in Attestation
  BY DEF AttestorTypeOK
<1>2. a[1] \in Epochs /\ a[2] \in Targets
  BY <1>1 DEF Attestation
<1>3. durable.log[a[1]] = a[2]
  BY DEF ReleasedIsDurable
<1>4. durable.log[a[1]] # NoRecord
  BY <1>2, <1>3, StoreAssumption
<1> QED
  BY <1>2, <1>3, <1>4 DEF Extends

(* A backed record stays backed when stable storage and the history grow.   *)
LEMMA BackedGrows ==
  ASSUME Extends(durable.log, durable'.log), unsaved \subseteq unsaved',
         NEW e \in Epochs, NEW t, Backed(e, t)
  PROVE  Backed(e, t)'
BY DEF Backed, Extends

LEMMA InitInv == Init => AttestorInv
<1> SUFFICES ASSUME Init PROVE AttestorInv
  OBVIOUS
<1>1. StoreTypeOK /\ StoreInv(up)
  BY StoreInitInv DEF Init, StoreInv
<1>2. AttestorTypeOK
  BY <1>1 DEF Init, AttestorTypeOK
<1> QED
  BY <1>1, <1>2 DEF Init, StoreInit, AttestorInv, ReleasedIsDurable, EmptyLog, Backed

-----------------------------------------------------------------------------
(* One lemma per action: it keeps the invariant and is a step, or a         *)
(* stutter, of the abstract promise.                                        *)

(* Poll: a new batch of ready targets; the store is untouched.              *)
LEMMA PollStep ==
  ASSUME AttestorInv, Poll
  PROVE  AttestorInv' /\ [Promise!Next]_(Promise!vars)
<1> USE DEF AttestorInv
<1>1. batch' \in Seq(Attestation)
  BY ReadyTargetsType DEF Poll, AttestorTypeOK
<1>2. AttestorTypeOK'
  BY Zenon, <1>1, StoreUnchanged DEF Poll, AttestorTypeOK
<1> QED
  BY Zenon, <1>2, StoreUnchanged
     DEF Poll, storeVars, ReleasedIsDurable, Promise!vars, epoch, target, Backed

(* BatchDone: the loop over the batch ends.                                 *)
LEMMA BatchDoneStep ==
  ASSUME AttestorInv, BatchDone
  PROVE  AttestorInv' /\ [Promise!Next]_(Promise!vars)
BY Zenon, StoreUnchanged
   DEF AttestorInv, BatchDone, AttestorTypeOK, storeVars, ReleasedIsDurable, Promise!vars, Backed

(* SkipTarget: a target of an epoch below the cursor is passed.             *)
LEMMA SkipTargetStep ==
  ASSUME AttestorInv, SkipTarget
  PROVE  AttestorInv' /\ [Promise!Next]_(Promise!vars)
BY Zenon, StoreUnchanged, FirstOfBatch
   DEF AttestorInv, SkipTarget, AttestorTypeOK, storeVars, ReleasedIsDurable, Promise!vars, Backed

(* AttestNothing: attest returns Ok without signing.                        *)
LEMMA AttestNothingStep ==
  ASSUME AttestorInv, AttestNothing
  PROVE  AttestorInv' /\ [Promise!Next]_(Promise!vars)
<1> USE DEF AttestorInv
<1>1. epoch \in Nat /\ Tail(batch) \in Seq(Attestation)
  BY FirstOfBatch DEF AttestNothing
<1>2. cursor' \in Nat
  BY <1>1 DEF AttestNothing, AttestOk, AttestorTypeOK
<1>3. AttestorTypeOK'
  BY Zenon, <1>1, <1>2, StoreUnchanged DEF AttestNothing, AttestOk, AttestorTypeOK
<1> QED
  BY Zenon, <1>3, StoreUnchanged
     DEF AttestNothing, AttestOk, storeVars, ReleasedIsDurable, Promise!vars, Backed

(* AttestFails: attest returns an error before the guard.                   *)
LEMMA AttestFailsStep ==
  ASSUME AttestorInv, AttestFails
  PROVE  AttestorInv' /\ [Promise!Next]_(Promise!vars)
BY Zenon, StoreUnchanged, EmptyBatch
   DEF AttestorInv, AttestFails, AttestErr, AttestorTypeOK, storeVars, ReleasedIsDurable,
       Promise!vars, Backed

(* AttestSign: the guard allows, and a flush or a submission begins.        *)
LEMMA AttestSignStep ==
  ASSUME AttestorInv, AttestSign
  PROVE  AttestorInv' /\ [Promise!Next]_(Promise!vars)
<1> USE DEF AttestorInv
<1>1. CASE check(epoch, target) = "Allow" /\ record_and_flush(epoch, target)
  <2>1. records[epoch] = NoRecord
    BY <1>1, FirstOfBatch, StoreAssumption DEF check, check_signed_epoch_record, AttestSign
  <2>2. /\ StoreTypeOK' /\ StoreInv(TRUE)' /\ records'[epoch] = target
        /\ file.log[epoch] = NoRecord /\ durable.log[epoch] = NoRecord
    BY Zenon, <1>1, <2>1, RecordInv, FirstOfBatch DEF AttestSign, AttestorTypeOK
  <2>3. /\ batch' = batch /\ batch # <<>> /\ pc' = "flush" /\ up' /\ flush' = "write"
        /\ UNCHANGED <<file, durable, released, unsaved>>
    BY <1>1 DEF AttestSign, record_and_flush, check, check_signed_epoch_record, storeVars
  <2>4. AttestorTypeOK'
    BY <2>2, <2>3 DEF AttestSign, AttestorTypeOK
  <2>5. StoreInv(up)'
    BY <2>2, <2>3 DEF StoreInv
  <2>6. \A e \in Epochs : e # epoch => records'[e] = records[e]
    BY <1>1 DEF record_and_flush, AttestorTypeOK, StoreTypeOK, Log
  <2>7. batch[1] \notin released \ unsaved
    BY <2>2, FirstOfBatch, StoreAssumption DEF AttestSign, ReleasedIsDurable
  <2>8. epoch' = epoch /\ target' = target
    BY <2>3 DEF epoch, target
  <2>9. \A e \in Epochs : Backed(e, records[e])
    BY DEF AttestSign
  <2>10. \A e \in Epochs : Backed(e, records[e])' \/ e = epoch
    BY <2>3, <2>6, <2>9 DEF Backed
  <2>11. ReleasedIsDurable'
    BY <2>3 DEF ReleasedIsDurable
  <2>12. UNCHANGED Promise!vars
    BY <2>3 DEF Promise!vars
  <2> QED
    BY Zenon, <2>2, <2>3, <2>4, <2>5, <2>7, <2>8, <2>10, <2>11, <2>12
<1>2. CASE check(epoch, target) = "AllowRebroadcast" /\ pc' = "submit" /\ UNCHANGED storeVars
  <2>1. records[epoch] = target /\ target # NoRecord
    BY <1>2, FirstOfBatch, StoreAssumption DEF AttestSign, check, check_signed_epoch_record
  <2>2. Backed(epoch, target)
    BY <2>1, FirstOfBatch DEF AttestSign
  <2>3. AttestorTypeOK'
    BY Zenon, <1>2, StoreUnchanged DEF AttestSign, AttestorTypeOK
  <2> QED
    BY Zenon, <1>2, <2>2, <2>3, StoreUnchanged
       DEF AttestSign, storeVars, ReleasedIsDurable, Promise!vars, epoch, target, Backed
<1> QED
  BY Zenon, <1>1, <1>2 DEF AttestSign

(* Flushing: one file operation of record_and_flush.                        *)
LEMMA FlushingStep ==
  ASSUME AttestorInv, Flushing
  PROVE  AttestorInv' /\ [Promise!Next]_(Promise!vars)
<1> USE DEF AttestorInv
<1>1. /\ StoreTypeOK' /\ StoreInv(TRUE)' /\ records' = records
      /\ flush' # "idle" /\ flush \notin {"ok", "err"}
      /\ flush' = "ok" => durable'.log = records
      /\ flush' \in {"write", "sync", "rename", "err"} =>
           flush \in {"write", "sync", "rename"} /\ file' = file
      /\ Extends(durable.log, durable'.log)
  BY FlushStepInv DEF Flushing, AttestorTypeOK, StoreInv
<1>2. UNCHANGED <<up, dry_run, pc, batch, cursor, released, unsaved>> /\ up /\ pc = "flush"
  BY DEF Flushing, attestorVars
<1>3. AttestorTypeOK' /\ StoreInv(up)'
  BY <1>1, <1>2 DEF AttestorTypeOK, StoreInv
<1>4. ReleasedIsDurable'
  BY <1>1, <1>2, DurableGrows
<1>5. [Promise!Next]_(Promise!vars)
  BY <1>1, <1>2
     DEF AttestorTypeOK, StoreTypeOK, Image, Log, Extends, Promise!Next, Promise!Commit, Promise!vars
<1>6. epoch' = epoch /\ target' = target
  BY <1>2 DEF epoch, target
<1>7. flush' = "ok" => Backed(epoch, target)'
  BY <1>1, <1>2, <1>6 DEF Backed
<1>8. \A e \in Epochs : Backed(e, records[e])' \/ e = epoch
  BY <1>1, <1>2, BackedGrows
<1> QED
  BY Zenon, <1>1, <1>2, <1>3, <1>4, <1>5, <1>6, <1>7, <1>8

(* The attestation in hand joins the unsaved ones: nothing that counts as   *)
(* released is taken back.                                                  *)
LEMMA JoinsUnsaved ==
  ASSUME AttestorInv, batch # <<>>, batch[1] \notin released \ unsaved,
         unsaved' = unsaved \cup {batch[1]}, UNCHANGED <<released, durable>>
  PROVE  /\ unsaved' \subseteq Attestation /\ ReleasedIsDurable'
         /\ UNCHANGED Promise!vars
         /\ <<epoch, target>> \in unsaved'
         /\ \A e \in Epochs : \A t : Backed(e, t) => Backed(e, t)'
<1>1. batch[1] \in Attestation /\ batch[1] = <<epoch, target>> /\ unsaved \subseteq Attestation
  BY FirstOfBatch DEF AttestorInv, AttestorTypeOK
<1>2. released' \ unsaved' = released \ unsaved
  OBVIOUS
<1>3. ReleasedIsDurable' /\ UNCHANGED Promise!vars
  BY <1>2 DEF AttestorInv, ReleasedIsDurable, Promise!vars
<1> QED
  BY <1>1, <1>3 DEF Backed

(* FlushUnsynced: the directory fsync fails and is ignored.                 *)
LEMMA FlushUnsyncedStep ==
  ASSUME AttestorInv, FlushUnsynced
  PROVE  AttestorInv' /\ [Promise!Next]_(Promise!vars)
<1> USE DEF AttestorInv
<1>1. StoreTypeOK' /\ StoreInv(TRUE)'
  BY SyncDirFailsInv DEF FlushUnsynced, AttestorTypeOK, StoreInv
<1>2. /\ UNCHANGED <<up, dry_run, pc, batch, cursor, released, records, file, durable>>
      /\ up /\ pc = "flush" /\ flush = "syncdir" /\ flush' = "ok"
      /\ unsaved' = unsaved \cup {batch[1]} /\ batch # <<>>
  BY DEF FlushUnsynced, SyncDirFails
<1>3. /\ unsaved' \subseteq Attestation /\ ReleasedIsDurable' /\ UNCHANGED Promise!vars
      /\ <<epoch, target>> \in unsaved' /\ \A e \in Epochs : \A t : Backed(e, t) => Backed(e, t)'
  BY <1>2, JoinsUnsaved
<1>4. AttestorTypeOK' /\ StoreInv(up)'
  BY <1>1, <1>2, <1>3 DEF AttestorTypeOK, StoreInv
<1>5. epoch' = epoch /\ target' = target
  BY <1>2 DEF epoch, target
<1>6. \A e \in Epochs : Backed(e, records[e])' \/ e = epoch
  BY <1>2, <1>3 DEF Backed
<1>7. Backed(epoch, target)'
  BY <1>3, <1>5 DEF Backed
<1> QED
  BY Zenon, <1>2, <1>3, <1>4, <1>5, <1>6, <1>7

(* FlushReturns: after Ok the record is backed; after an error the          *)
(* attestation is counted as unsaved.                                       *)
LEMMA FlushReturnsStep ==
  ASSUME AttestorInv, FlushReturns
  PROVE  AttestorInv' /\ [Promise!Next]_(Promise!vars)
<1> USE DEF AttestorInv
<1>1. StoreTypeOK' /\ StoreInv(TRUE)'
  BY TakeFlushResultInv DEF FlushReturns, AttestorTypeOK, StoreInv
<1>2. /\ up /\ up' /\ flush' = "idle" /\ pc = "flush" /\ batch # <<>>
      /\ UNCHANGED <<records, durable, released, dry_run>>
  BY DEF FlushReturns, TakeFlushResult
<1>3. StoreInv(up)'
  BY <1>1, <1>2 DEF StoreInv
<1>4. CASE flush = "ok"
  <2>1. pc' = "submit" /\ UNCHANGED <<batch, cursor, unsaved>>
    BY <1>4 DEF FlushReturns
  <2>2. AttestorTypeOK'
    BY <1>1, <1>2, <2>1 DEF AttestorTypeOK
  <2>3. epoch' = epoch /\ target' = target
    BY <2>1 DEF epoch, target
  <2>4. \A e \in Epochs : Backed(e, records[e])
    BY <1>2, <1>4
  <2>5. Backed(epoch, target)' /\ \A e \in Epochs : Backed(e, records[e])'
    BY <1>2, <1>4, <2>1, <2>3, <2>4 DEF Backed
  <2> QED
    BY Zenon, <1>2, <1>3, <2>1, <2>2, <2>5 DEF ReleasedIsDurable, Promise!vars
<1>5. CASE flush = "err"
  <2>1. batch' = <<>> /\ pc' = "sleep" /\ unsaved' = unsaved \cup {batch[1]} /\ UNCHANGED cursor
    BY <1>5 DEF FlushReturns, AttestErr
  <2>2. /\ unsaved' \subseteq Attestation /\ ReleasedIsDurable' /\ UNCHANGED Promise!vars
        /\ <<epoch, target>> \in unsaved' /\ \A e \in Epochs : \A t : Backed(e, t) => Backed(e, t)'
    BY <1>2, <1>5, <2>1, JoinsUnsaved
  <2>3. AttestorTypeOK'
    BY <1>1, <1>2, <2>1, <2>2, EmptyBatch DEF AttestorTypeOK
  <2>4. \A e \in Epochs : Backed(e, records[e])'
    BY <1>2, <2>2 DEF Backed
  <2> QED
    BY Zenon, <1>2, <1>3, <2>1, <2>2, <2>3, <2>4
<1> QED
  BY Zenon, <1>4, <1>5 DEF FlushReturns

(* Submit: what is released was committed before.                           *)
LEMMA SubmitStep ==
  ASSUME AttestorInv, Submit
  PROVE  AttestorInv' /\ [Promise!Next]_(Promise!vars)
<1> USE DEF AttestorInv
<1>1. /\ UNCHANGED <<storeVars, up, dry_run, unsaved>> /\ up /\ pc = "submit"
      /\ released' \in {released, released \cup {batch[1]}}
      /\ pc' \in {"batch", "sleep"} /\ batch' \in {Tail(batch), <<>>}
  BY DEF Submit, AttestOk, AttestErr
<1>2. batch # <<>> /\ epoch \in Epochs /\ target \in Targets /\ batch[1] = <<epoch, target>>
      /\ epoch \in Nat /\ batch[1] \in Attestation /\ Tail(batch) \in Seq(Attestation)
  BY <1>1, FirstOfBatch
<1>3. cursor' \in Nat
  BY <1>2 DEF Submit, AttestOk, AttestErr, AttestorTypeOK
<1>4. AttestorTypeOK'
  BY Zenon, <1>1, <1>2, <1>3, StoreUnchanged, EmptyBatch DEF AttestorTypeOK
<1>5. ReleasedIsDurable'
  <2>1. durable' = durable /\ unsaved' = unsaved
    BY <1>1 DEF storeVars
  <2>2. SUFFICES ASSUME NEW a \in released' \ unsaved
                 PROVE  durable.log[a[1]] = a[2]
    BY <2>1 DEF ReleasedIsDurable
  <2>3. CASE a \in released
    BY <2>3 DEF ReleasedIsDurable
  <2>4. CASE a = batch[1]
    BY <1>1, <1>2, <2>4, StoreAssumption DEF Backed
  <2> QED
    BY <1>1, <2>3, <2>4
<1>6. [Promise!Next]_(Promise!vars)
  <2>1. CASE released' \ unsaved' = released \ unsaved
    BY <1>1, <2>1 DEF Promise!vars, storeVars
  <2>2. CASE released' \ unsaved' # released \ unsaved
    <3>1. released' = released \cup {batch[1]} /\ batch[1] \notin unsaved
      BY <1>1, <2>2
    <3>2. durable.log[epoch] = target /\ target # NoRecord
      BY <1>1, <1>2, <3>1, StoreAssumption DEF Backed
    <3>3. released' \ unsaved' = (released \ unsaved) \cup {<<epoch, durable.log[epoch]>>}
      BY <1>1, <1>2, <3>1, <3>2
    <3>4. Promise!Release(epoch)
      BY <1>1, <3>2, <3>3 DEF Promise!Release, storeVars
    <3> QED
      BY <1>2, <3>4 DEF Promise!Next
  <2> QED
    BY <2>1, <2>2
<1>7. \A e \in Epochs : Backed(e, records[e])'
  BY <1>1 DEF storeVars, Backed
<1> QED
  BY Zenon, <1>1, <1>4, <1>5, <1>6, <1>7, StoreUnchanged DEF storeVars

(* Kill: what the next process will load is backed.                         *)
LEMMA KillStep ==
  ASSUME AttestorInv, Kill
  PROVE  AttestorInv' /\ [Promise!Next]_(Promise!vars)
<1> USE DEF AttestorInv
<1>1. StoreTypeOK' /\ StoreInv(FALSE)'
  BY KillInv DEF Kill, AttestorTypeOK, StoreInv
<1>2. /\ up /\ up' = FALSE /\ pc' = "sleep" /\ batch' = <<>> /\ cursor' = 0 /\ flush' = "idle"
      /\ UNCHANGED <<file, durable, released, dry_run>>
  BY DEF Kill, GoesDown, KillStore
<1>3. Extends(file.log, records) /\ (flush = "syncdir" => pc = "flush")
  BY <1>2 DEF StoreInv
<1>4. /\ unsaved' \subseteq Attestation /\ ReleasedIsDurable' /\ UNCHANGED Promise!vars
      /\ \A e \in Epochs : \A t : Backed(e, t) => Backed(e, t)'
      /\ flush = "syncdir" => <<epoch, target>> \in unsaved'
  <2>1. CASE flush = "syncdir"
    <3>1. unsaved' = unsaved \cup {batch[1]} /\ batch # <<>> /\ batch[1] \notin released \ unsaved
      BY <1>3, <2>1 DEF Kill
    <3> QED
      BY <1>2, <3>1, JoinsUnsaved
  <2>2. CASE flush # "syncdir"
    <3>1. unsaved' = unsaved
      BY <2>2 DEF Kill
    <3> QED
      BY <1>2, <2>2, <3>1 DEF AttestorTypeOK, ReleasedIsDurable, Promise!vars, Backed
  <2> QED
    BY <2>1, <2>2
<1>5. AttestorTypeOK' /\ StoreInv(up)'
  BY Zenon, <1>1, <1>2, <1>4, EmptyBatch DEF AttestorTypeOK, StoreInv
<1>6. ASSUME NEW e \in Epochs
      PROVE  Backed(e, file.log[e])'
  <2>1. file.log[e] = NoRecord \/ file.log[e] = records[e]
    BY <1>3 DEF Extends
  <2>2. CASE pc = "flush" /\ e = epoch
    <3>1. records[e] = target /\ flush \in {"write", "sync", "rename", "syncdir", "ok", "err"}
      BY <2>2 DEF AttestorTypeOK, StoreTypeOK, FlushStages
    <3>2. Backed(e, file.log[e]) \/ flush = "syncdir"
      BY <2>1, <2>2, <3>1 DEF Backed
    <3> QED
      BY <1>2, <1>4, <2>1, <2>2, <3>1, <3>2 DEF Backed
  <2>3. CASE ~(pc = "flush" /\ e = epoch)
    <3>1. Backed(e, file.log[e])
      BY <1>2, <2>1, <2>3 DEF Backed
    <3> QED
      BY Zenon, <1>2, <1>4, <3>1
  <2> QED
    BY <2>2, <2>3
<1> QED
  BY <1>2, <1>4, <1>5, <1>6

(* WriteBack: stable storage catches up with the file.                      *)
LEMMA WriteBackStep ==
  ASSUME AttestorInv, WriteBack
  PROVE  AttestorInv' /\ [Promise!Next]_(Promise!vars)
<1> USE DEF AttestorInv
<1>1. StoreTypeOK' /\ StoreInv(up)' /\ Extends(durable.log, durable'.log)
  <2>1. up \in BOOLEAN /\ up' = up
    BY DEF WriteBack, attestorVars, AttestorTypeOK
  <2> QED
    BY <2>1, WriteBackInv DEF WriteBack, AttestorTypeOK, StoreInv
<1>2. UNCHANGED <<up, dry_run, pc, batch, cursor, released, unsaved, records, file, flush>>
  BY DEF WriteBack, WriteBackStore, attestorVars
<1>3. AttestorTypeOK'
  BY <1>1, <1>2 DEF AttestorTypeOK
<1>4. ReleasedIsDurable'
  BY <1>1, <1>2, DurableGrows
<1>5. [Promise!Next]_(Promise!vars)
  BY <1>1, <1>2 DEF StoreTypeOK, Image, Log, Extends, Promise!Next, Promise!Commit
<1>6. epoch' = epoch /\ target' = target
  BY <1>2 DEF epoch, target
<1>7. \A e \in Epochs : \A t : Backed(e, t) => Backed(e, t)'
  BY <1>1, <1>2, BackedGrows
<1>8. pc \in {"flush", "submit"} => epoch \in Epochs
  BY FirstOfBatch
<1>9. /\ pc = "flush" /\ flush = "ok" => Backed(epoch, target)'
      /\ pc = "submit" => Backed(epoch, target)'
  BY <1>6, <1>7, <1>8 DEF Backed
<1>10. /\ up => \A e \in Epochs : Backed(e, records[e])' \/ (pc = "flush" /\ e = epoch)
       /\ ~up => \A e \in Epochs : Backed(e, file.log[e])'
  BY <1>2, <1>7 DEF Backed
<1> QED
  BY Zenon, <1>1, <1>2, <1>3, <1>4, <1>5, <1>6, <1>9, <1>10

(* PowerLoss: the file is what stable storage holds.                        *)
LEMMA PowerLossStep ==
  ASSUME AttestorInv, PowerLoss
  PROVE  AttestorInv' /\ [Promise!Next]_(Promise!vars)
<1> USE DEF AttestorInv
<1>1. StoreTypeOK' /\ StoreInv(FALSE)' /\ file' = durable /\ durable' = durable
  BY Zenon, PowerLossInv DEF PowerLoss, AttestorTypeOK
<1>2. /\ up' = FALSE /\ pc' = "sleep" /\ batch' = <<>> /\ cursor' = 0 /\ flush' = "idle"
      /\ UNCHANGED <<released, unsaved, dry_run>>
  BY DEF PowerLoss, GoesDown, PowerLossStore
<1>3. AttestorTypeOK' /\ StoreInv(up)'
  BY Zenon, <1>1, <1>2, EmptyBatch DEF AttestorTypeOK, StoreInv
<1>4. \A e \in Epochs : Backed(e, file.log[e])'
  BY <1>1 DEF Backed
<1> QED
  BY <1>1, <1>2, <1>3, <1>4 DEF ReleasedIsDurable, Promise!vars

(* Start: load_or_empty brings the file back into memory.                   *)
LEMMA StartStep ==
  ASSUME AttestorInv, Start
  PROVE  AttestorInv' /\ [Promise!Next]_(Promise!vars)
<1> USE DEF AttestorInv
<1>1. /\ StoreTypeOK' /\ StoreInv(TRUE)' /\ flush = "idle" /\ flush' = "idle"
      /\ records' = file.log /\ durable' = durable
  BY LoadInv DEF Start, AttestorTypeOK, StoreInv
<1>2. ~up /\ up' = TRUE /\ UNCHANGED <<pc, batch, cursor, released, unsaved>> /\ dry_run' \in BOOLEAN
  BY DEF Start
<1>3. AttestorTypeOK' /\ StoreInv(up)'
  BY <1>1, <1>2 DEF AttestorTypeOK, StoreInv
<1>4. \A e \in Epochs : Backed(e, records[e])'
  BY <1>1, <1>2 DEF Backed
<1> QED
  BY <1>1, <1>2, <1>3, <1>4 DEF ReleasedIsDurable, Promise!vars

(* A step that changes nothing.                                             *)
LEMMA StutterStep ==
  ASSUME AttestorInv, UNCHANGED vars
  PROVE  AttestorInv' /\ [Promise!Next]_(Promise!vars)
BY Zenon, StoreUnchanged
   DEF AttestorInv, vars, attestorVars, storeVars, AttestorTypeOK, ReleasedIsDurable,
       Promise!vars, epoch, target, Backed

(* Every step keeps the invariant and is a step of the abstract promise.    *)
LEMMA StepInv ==
  ASSUME AttestorInv, [Next]_vars
  PROVE  AttestorInv' /\ [Promise!Next]_(Promise!vars)
BY PollStep, BatchDoneStep, SkipTargetStep, AttestNothingStep, AttestFailsStep, AttestSignStep,
   FlushingStep, FlushUnsyncedStep, FlushReturnsStep, SubmitStep,
   KillStep, WriteBackStep, PowerLossStep, StartStep, StutterStep DEF Next

-----------------------------------------------------------------------------
(* The inductive invariant holds of every reachable state.                  *)
THEOREM AttestorInvariant == Spec => []AttestorInv
<1>1. AttestorInv /\ [Next]_vars => AttestorInv'
  BY StepInv
<1> QED
  BY InitInv, <1>1, PTL DEF Spec

(* The variables of the daemon keep their types.                            *)
THEOREM AttestorTypeCorrect == Spec => []AttestorTypeOK
<1>1. AttestorInv => AttestorTypeOK
  BY DEF AttestorInv
<1> QED
  BY AttestorInvariant, <1>1, PTL

(* An attestation that left the host has its record on stable storage,      *)
(* unless its record_and_flush never saw its directory fsync succeed.       *)
THEOREM AttestorReleasesDurable == Spec => []ReleasedIsDurable
<1>1. AttestorInv => ReleasedIsDurable
  BY DEF AttestorInv
<1> QED
  BY AttestorInvariant, <1>1, PTL

(* Two conflicting attestations never leave the host unless one of them is  *)
(* of a record_and_flush that never saw its directory fsync succeed.        *)
THEOREM AttestorNeverEquivocates == Spec => []EquivocationNeedsUnsavedRecord
<1>1. AttestorInv => EquivocationNeedsUnsavedRecord
  <2> SUFFICES ASSUME AttestorInv,
                      NEW a \in released \ unsaved, NEW b \in released \ unsaved,
                      a[1] = b[1]
               PROVE  a[2] = b[2]
    BY DEF EquivocationNeedsUnsavedRecord
  <2> QED
    BY DEF AttestorInv, ReleasedIsDurable
<1> QED
  BY AttestorInvariant, <1>1, PTL

(* load_or_empty never meets a log that does not parse.                     *)
THEOREM AttestorLogReadable == Spec => []LogReadable
<1>1. AttestorInv => LogReadable
  BY DEF AttestorInv, StoreInv, LogReadable
<1> QED
  BY AttestorInvariant, <1>1, PTL

(* The daemon implements the abstract promise.                              *)
THEOREM AttestorKeepsPromise == Spec => KeepsPromise
<1>1. Init => Promise!Init
  BY DEF Init, StoreInit, NoFile, EmptyLog, Promise!Init
<1>2. AttestorInv /\ [Next]_vars => [Promise!Next]_(Promise!vars)
  BY StepInv
<1> QED
  BY AttestorInvariant, <1>1, <1>2, PTL DEF Spec, KeepsPromise, Promise!Spec
=============================================================================
