---------------------------- MODULE SignerProofs ----------------------------
(***************************************************************************)
(* The remote signer: its guard, its audit log and its checkpoints, for    *)
(* any number of epochs, targets and requests and any checkpoint interval. *)
(***************************************************************************)
EXTENDS Signer, StoreProofs, WellFoundedInduction

ReleasedIsDurable == \A a \in released \ unsaved : durable.log[a[1]] = a[2]

(* A record of epoch e for target t, if there is one, is on stable storage  *)
(* or is of a flush that never saw its directory fsync succeed.             *)
Backed(e, t) == t = NoRecord \/ t = durable.log[e] \/ <<e, t>> \in unsaved

(* Attestation a is the one being flushed.                                  *)
InHand(a) ==
  /\ signing = {a}
  /\ records[a[1]] = a[2]
  /\ flush \in {"write", "sync", "rename", "err"} => file.log[a[1]] = NoRecord
  /\ flush # "ok" => a \notin released \ unsaved
  /\ flush = "ok" => Backed(a[1], a[2])

(* The guard.  As in the daemon, every record that a running process holds, *)
(* or that the next one will load, is backed or is the one being flushed.   *)
(* The signer differs in that only a request under the attestation context  *)
(* carries an attestation, and in that only a Strict signer is bound by a   *)
(* Block.                                                                   *)
GuardTypeOK ==
  /\ StoreTypeOK
  /\ up \in BOOLEAN
  /\ policy \in {"Strict", "AuditOnly", "Permissive"}
  /\ pc \in {"idle", "flush", "append", "sync", "checkpoint", "ckptsync", "reply"}
  /\ signing = {} \/ \E a \in Attestation : signing = {a}
  /\ result \in {"signed", "refused"}
  /\ released \subseteq Attestation /\ unsaved \subseteq Attestation

GuardInv ==
  /\ GuardTypeOK
  /\ StoreInv(up)
  /\ ~up => pc = "idle"
  /\ pc = "idle" => result = "refused"
  /\ pc = "flush" <=> flush # "idle"
  /\ pc = "flush" => \E a \in Attestation : InHand(a)
  /\ pc # "flush" /\ result = "signed" /\ policy = "Strict" =>
       \A a \in signing : Backed(a[1], a[2])
  /\ up => \A e \in Epochs :
       Backed(e, records[e]) \/ (pc = "flush" /\ \E t \in Targets : <<e, t>> \in signing)
  /\ ~up => \A e \in Epochs : Backed(e, file.log[e])
  /\ ReleasedIsDurable

(* The audit log.  Until an append fails, the chain in memory is that of    *)
(* the file, and has no torn frame; once a record is appended it is on      *)
(* stable storage as a whole.                                               *)
AuditTypeOK ==
  /\ request \in Frame
  /\ audit \in Seq(Frame) /\ auditSynced \in 0 .. Len(audit)
  /\ chain \in Seq(Frame \ {Torn})
  /\ checkpoints \in Seq(Checkpoint) /\ ckptSynced \in 0 .. Len(checkpoints)
  /\ appends_since_checkpoint \in 0 .. AUDIT_CHECKPOINT_INTERVAL - 1
  /\ answered \subseteq Frame /\ shadowed \subseteq answered
  /\ failed \in BOOLEAN

(* The first m frames are whole and on stable storage.                      *)
Intact(m) == m \in 0 .. auditSynced /\ \A j \in 1 .. m : audit[j] # Torn

(* A record the next start replays, and a checkpoint it can verify.         *)
Audited(n) == \E m \in 1 .. auditSynced : Intact(m) /\ audit[m] = n
Verifies(c) == Intact(Len(c.head)) /\ \A j \in 1 .. Len(c.head) : audit[j] = c.head[j]

ChainInv ==
  /\ pc # "idle" => request # Torn
  /\ ~up => pc = "idle"
  /\ up /\ ~failed => \A j \in 1 .. Len(chain) : audit[j] = chain[j]
  /\ up /\ ~failed /\ pc # "sync" => Len(audit) = Len(chain)
  /\ up /\ ~failed /\ pc = "sync" => Len(audit) = Len(chain) + 1 /\ audit[Len(audit)] = request
  /\ pc \in {"checkpoint", "ckptsync", "reply"} /\ ~failed => Intact(Len(chain))
  /\ pc \in {"checkpoint", "ckptsync", "reply"} /\ result = "signed" /\ ~failed =>
       chain # <<>> /\ chain[Len(chain)] = request

LogInv ==
  /\ \A n \in answered \ shadowed : Audited(n)
  /\ \A i \in DOMAIN checkpoints :
       checkpoints[i].clean => checkpoints[i] = TornCheckpoint \/ Verifies(checkpoints[i])

AuditInv == AuditTypeOK /\ ChainInv /\ LogInv

SignerInv == GuardInv /\ AuditInv

-----------------------------------------------------------------------------
(* The guard: one lemma per action or group of actions.                     *)

LEMMA AttestationParts ==
  ASSUME NEW a \in Attestation
  PROVE  a = <<a[1], a[2]>> /\ a[1] \in Epochs /\ a[2] \in Targets /\ a[2] # NoRecord
BY StoreAssumption DEF Attestation

LEMMA StoreUnchanged ==
  ASSUME GuardInv, UNCHANGED storeVars, UNCHANGED up
  PROVE  StoreTypeOK' /\ StoreInv(up)'
BY Zenon DEF GuardInv, GuardTypeOK, StoreTypeOK, StoreInv, storeVars

(* A released attestation stays durable when the log on disk only grows.    *)
LEMMA DurableGrows ==
  ASSUME GuardInv, Extends(durable.log, durable'.log), UNCHANGED <<released, unsaved>>
  PROVE  ReleasedIsDurable'
<1> SUFFICES ASSUME NEW a \in released \ unsaved
             PROVE  durable'.log[a[1]] = a[2]
  BY DEF ReleasedIsDurable
<1>1. a \in Attestation
  BY Zenon DEF GuardInv, GuardTypeOK
<1>2. durable.log[a[1]] = a[2]
  BY Zenon DEF GuardInv, ReleasedIsDurable
<1> QED
  BY Zenon, <1>1, <1>2, AttestationParts DEF Extends

(* A backed record stays backed when stable storage and the history grow.   *)
LEMMA BackedGrows ==
  ASSUME Extends(durable.log, durable'.log), unsaved \subseteq unsaved',
         NEW e \in Epochs, NEW t, Backed(e, t)
  PROVE  Backed(e, t)'
BY Zenon DEF Backed, Extends

(* The attestation in hand joins the unsaved ones: nothing that counts as   *)
(* released is taken back.                                                  *)
LEMMA JoinsUnsaved ==
  ASSUME GuardInv, NEW a \in Attestation, a \notin released \ unsaved,
         unsaved' = unsaved \cup {a}, UNCHANGED <<released, durable>>
  PROVE  /\ unsaved' \subseteq Attestation /\ ReleasedIsDurable'
         /\ UNCHANGED Promise!vars
         /\ \A e \in Epochs : \A t : Backed(e, t) => Backed(e, t)'
<1>1. unsaved \subseteq Attestation
  BY Zenon DEF GuardInv, GuardTypeOK
<1>2. released' \ unsaved' = released \ unsaved
  OBVIOUS
<1>3. ReleasedIsDurable' /\ UNCHANGED Promise!vars
  BY Zenon DEF GuardInv, ReleasedIsDurable, Promise!vars
<1> QED
  BY Zenon, <1>1, <1>3 DEF Backed

(* A step that leaves the store and the attestation in hand alone.          *)
LEMMA GuardQuiet ==
  ASSUME GuardInv, UNCHANGED <<storeVars, up, policy, signing, released, unsaved>>,
         up, pc # "flush",
         pc' \in {"append", "sync", "checkpoint", "ckptsync", "reply"},
         result' \in {result, "refused"}
  PROVE  GuardInv' /\ [Promise!Next]_(Promise!vars)
<1>1. GuardTypeOK'
  BY Zenon, StoreUnchanged DEF GuardInv, GuardTypeOK
<1>2. [Promise!Next]_(Promise!vars)
  BY DEF Promise!vars, storeVars
<1> QED
  BY Zenon, <1>1, <1>2, StoreUnchanged DEF GuardInv, storeVars, ReleasedIsDurable, Backed

LEMMA TryRefusedGuard ==
  ASSUME GuardInv, TryRefused
  PROVE  GuardInv' /\ [Promise!Next]_(Promise!vars)
<1>1. /\ UNCHANGED <<storeVars, up, policy, released, unsaved>> /\ up /\ pc = "idle"
      /\ signing' = {} /\ result' = "refused" /\ pc' = "append"
  BY Zenon DEF TryRefused, Begin, historyVars
<1>2. GuardTypeOK'
  BY Zenon, <1>1, StoreUnchanged DEF GuardInv, GuardTypeOK
<1>3. [Promise!Next]_(Promise!vars)
  BY <1>1 DEF Promise!vars, storeVars
<1> QED
  BY Zenon, <1>1, <1>2, <1>3, StoreUnchanged DEF GuardInv, storeVars, ReleasedIsDurable, Backed

(* A signature under the attestation context is of a guarded request,       *)
(* unless the guard is off, and a guarded request carries its attestation.  *)
LEMMA ContextIsGuarded ==
  ASSUME NEW r \in Request, NEW a \in Attestation, WellFormed(r)
  PROVE  /\ Carries(r, a) # {} /\ policy # "Permissive" => Guarded(r)
         /\ Guarded(r) => Carries(r, a) = {a}
         /\ Carries(r, a) \in {{}, {a}}
BY Zenon DEF WellFormed, ContextBound, Guarded, Carries, Purposes

LEMMA TrySignedGuard ==
  ASSUME GuardInv, TrySigned
  PROVE  GuardInv' /\ [Promise!Next]_(Promise!vars)
<1>1. /\ UNCHANGED <<up, policy, released, unsaved>> /\ up /\ pc = "idle" /\ result' = "signed"
  BY Zenon DEF TrySigned, Begin, historyVars
<1>2. PICK r \in Request : \E a \in Attestation :
       /\ WellFormed(r)
       /\ \/ /\ Guarded(r) /\ check(a[1], a[2]) = "Allow"
             /\ record_and_flush(a[1], a[2])
             /\ pc' = "flush"
          \/ /\ Guarded(r) => \/ check(a[1], a[2]) = "AllowRebroadcast"
                              \/ check(a[1], a[2]) = "Block" /\ policy = "AuditOnly"
             /\ pc' = "append"
             /\ UNCHANGED storeVars
       /\ signing' = Carries(r, a)
  BY Zenon DEF TrySigned
<1>3. PICK a \in Attestation :
       /\ WellFormed(r)
       /\ \/ /\ Guarded(r) /\ check(a[1], a[2]) = "Allow"
             /\ record_and_flush(a[1], a[2])
             /\ pc' = "flush"
          \/ /\ Guarded(r) => \/ check(a[1], a[2]) = "AllowRebroadcast"
                              \/ check(a[1], a[2]) = "Block" /\ policy = "AuditOnly"
             /\ pc' = "append"
             /\ UNCHANGED storeVars
       /\ signing' = Carries(r, a)
  BY Zenon, <1>2 DEF GuardInv
<1>4. a = <<a[1], a[2]>> /\ a[1] \in Epochs /\ a[2] \in Targets /\ a[2] # NoRecord
  BY Zenon, AttestationParts
<1>5. CASE /\ Guarded(r) /\ check(a[1], a[2]) = "Allow"
           /\ record_and_flush(a[1], a[2])
           /\ pc' = "flush"
  <2>1. records[a[1]] = NoRecord
    BY Zenon, <1>5 DEF check, check_signed_epoch_record
  <2>2. /\ StoreTypeOK' /\ StoreInv(TRUE)' /\ records'[a[1]] = a[2]
        /\ file.log[a[1]] = NoRecord /\ durable.log[a[1]] = NoRecord
    BY Zenon, <1>1, <1>4, <1>5, <2>1, RecordInv DEF GuardTypeOK, GuardInv
  <2>3. file' = file /\ durable' = durable /\ flush' = "write"
    BY Zenon, <1>5 DEF record_and_flush
  <2>4. \A e \in Epochs : e # a[1] => records'[e] = records[e]
    BY Zenon, <1>5 DEF record_and_flush, GuardTypeOK, StoreTypeOK, Log, GuardInv
  <2>5. signing' = {a}
    BY Zenon, <1>3, <1>5, ContextIsGuarded
  <2>6. GuardTypeOK'
    BY Zenon, <1>1, <1>5, <2>2, <2>5 DEF GuardTypeOK, GuardInv
  <2>7. StoreInv(up)'
    BY Zenon, <1>1, <2>2
  <2>8. ReleasedIsDurable'
    BY Zenon, <1>1, <2>3 DEF ReleasedIsDurable, GuardInv
  <2>9. \A e \in Epochs : Backed(e, records[e])' \/ \E t \in Targets : <<e, t>> \in signing'
    <3> TAKE e \in Epochs
    <3>1. CASE e = a[1]
      BY Zenon, <1>4, <2>5, <3>1
    <3>2. CASE e # a[1]
      <4>1. Backed(e, records[e]) /\ records'[e] = records[e]
        BY Zenon, <1>1, <2>4, <3>2 DEF GuardInv
      <4> QED
        BY Zenon, <1>1, <2>3, <4>1 DEF Backed
    <3> QED
      BY Zenon, <3>1, <3>2
  <2>10. a \notin released \ unsaved
    BY Zenon, <1>4, <2>2 DEF ReleasedIsDurable, GuardInv
  <2>11. InHand(a)'
    BY Zenon, <1>1, <2>2, <2>3, <2>5, <2>10 DEF InHand
  <2>12. [Promise!Next]_(Promise!vars)
    BY Zenon, <1>1, <2>3 DEF Promise!vars
  <2> QED
    BY Zenon, <1>1, <1>5, <2>3, <2>6, <2>7, <2>8, <2>9, <2>11, <2>12 DEF GuardInv
<1>6. CASE /\ Guarded(r) => \/ check(a[1], a[2]) = "AllowRebroadcast"
                            \/ check(a[1], a[2]) = "Block" /\ policy = "AuditOnly"
           /\ pc' = "append"
           /\ UNCHANGED storeVars
  <2>1. signing' \in {{}, {a}}
    BY Zenon, <1>3, ContextIsGuarded
  <2>2. GuardTypeOK'
    BY Zenon, <1>1, <1>6, <2>1, StoreUnchanged DEF GuardTypeOK, GuardInv
  <2>3. policy = "Strict" => \A b \in signing' : Backed(b[1], b[2])
    <3> SUFFICES ASSUME policy = "Strict", NEW b \in signing'
                 PROVE  Backed(b[1], b[2])
      BY Zenon
    <3>1. Guarded(r) /\ b = a
      BY Zenon, <1>3, ContextIsGuarded
    <3>2. records[a[1]] = a[2]
      BY Zenon, <1>6, <3>1 DEF check, check_signed_epoch_record
    <3> QED
      BY Zenon, <1>1, <1>4, <3>1, <3>2 DEF GuardInv
  <2>4. [Promise!Next]_(Promise!vars)
    BY Zenon, <1>1, <1>6 DEF Promise!vars, storeVars
  <2> QED
    BY Zenon, <1>1, <1>6, <2>2, <2>3, <2>4, StoreUnchanged DEF storeVars, ReleasedIsDurable, Backed, GuardInv
<1> QED
  BY Zenon, <1>3, <1>5, <1>6

LEMMA FlushingGuard ==
  ASSUME GuardInv, Flushing
  PROVE  GuardInv' /\ [Promise!Next]_(Promise!vars)
<1>1. /\ StoreTypeOK' /\ StoreInv(TRUE)' /\ records' = records
      /\ flush' # "idle" /\ flush \notin {"ok", "err"}
      /\ flush' = "ok" => durable'.log = records
      /\ flush' \in {"write", "sync", "rename", "err"} =>
           flush \in {"write", "sync", "rename"} /\ file' = file
      /\ Extends(durable.log, durable'.log)
  BY Zenon, FlushStepInv DEF Flushing, GuardTypeOK, GuardInv
<1>2. UNCHANGED <<up, policy, pc, signing, result, released, unsaved>> /\ up /\ pc = "flush"
  BY Zenon DEF Flushing, signerVars, historyVars
<1>3. GuardTypeOK' /\ StoreInv(up)'
  BY Zenon, <1>1, <1>2 DEF GuardTypeOK, GuardInv
<1>4. ReleasedIsDurable'
  BY Zenon, <1>1, <1>2, DurableGrows
<1>5. [Promise!Next]_(Promise!vars)
  BY Zenon, <1>1, <1>2 DEF StoreTypeOK, Image, Log, Extends, Promise!Next, Promise!Commit
<1>6. \A e \in Epochs : Backed(e, records[e])' \/ \E t \in Targets : <<e, t>> \in signing'
  BY Zenon, <1>1, <1>2, BackedGrows DEF GuardInv
<1>7. PICK a \in Attestation : InHand(a)
  BY Zenon, <1>2 DEF GuardInv
<1>8. InHand(a)'
  BY Zenon, <1>1, <1>2, <1>7 DEF InHand, Backed
<1> QED
  BY Zenon, <1>1, <1>2, <1>3, <1>4, <1>5, <1>6, <1>8 DEF GuardInv

(* The directory fsync fails and is ignored: the attestation is unsaved.    *)
LEMMA FlushUnsyncedGuard ==
  ASSUME GuardInv, FlushUnsynced
  PROVE  GuardInv' /\ [Promise!Next]_(Promise!vars)
<1>1. StoreTypeOK' /\ StoreInv(TRUE)'
  BY Zenon, SyncDirFailsInv DEF FlushUnsynced, GuardTypeOK, GuardInv
<1>2. /\ UNCHANGED <<up, policy, pc, signing, result, released, records, file, durable>>
      /\ up /\ pc = "flush" /\ flush = "syncdir" /\ flush' = "ok"
      /\ unsaved' = unsaved \cup signing
  BY Zenon DEF FlushUnsynced, SyncDirFails, signerVars
<1>3. PICK a \in Attestation : InHand(a)
  BY Zenon, <1>2 DEF GuardInv
<1>4. signing = {a} /\ a \notin released \ unsaved /\ records[a[1]] = a[2]
  BY Zenon, <1>2, <1>3 DEF InHand
<1>5. a = <<a[1], a[2]>> /\ a[1] \in Epochs
  BY Zenon, AttestationParts
<1>6. /\ unsaved' \subseteq Attestation /\ ReleasedIsDurable' /\ UNCHANGED Promise!vars
      /\ \A e \in Epochs : \A t : Backed(e, t) => Backed(e, t)'
  BY Zenon, <1>2, <1>4, JoinsUnsaved
<1>7. GuardTypeOK' /\ StoreInv(up)'
  BY Zenon, <1>1, <1>2 DEF GuardTypeOK, GuardInv
<1>8. InHand(a)'
  BY Zenon, <1>2, <1>4, <1>5 DEF InHand, Backed
<1>9. \A e \in Epochs : Backed(e, records[e])' \/ \E t \in Targets : <<e, t>> \in signing'
  BY Zenon, <1>2 DEF Backed, GuardInv
<1> QED
  BY Zenon, <1>2, <1>6, <1>7, <1>8 DEF GuardInv

(* After Ok the record is backed; after an error the attestation is         *)
(* counted as unsaved, and was not released before.                         *)
LEMMA FlushReturnsGuard ==
  ASSUME GuardInv, FlushReturns
  PROVE  GuardInv' /\ [Promise!Next]_(Promise!vars)
<1>1. StoreTypeOK' /\ StoreInv(TRUE)'
  BY Zenon, TakeFlushResultInv DEF FlushReturns, GuardTypeOK, GuardInv
<1>2. /\ up /\ flush' = "idle" /\ records' = records /\ durable' = durable
      /\ pc = "flush" /\ pc' = "append" /\ flush \in {"ok", "err"}
      /\ UNCHANGED <<up, policy, signing, released>>
  BY Zenon DEF FlushReturns, TakeFlushResult
<1>3. StoreInv(up)'
  BY Zenon, <1>1, <1>2
<1>4. PICK a \in Attestation : InHand(a)
  BY Zenon, <1>2 DEF GuardInv
<1>5. a = <<a[1], a[2]>> /\ a[1] \in Epochs /\ a[2] \in Targets /\ a[2] # NoRecord
  BY Zenon, AttestationParts
<1>6. signing = {a} /\ records[a[1]] = a[2]
  BY Zenon, <1>4 DEF InHand
<1>7. \A e \in Epochs : e # a[1] => Backed(e, records[e])
  BY <1>2, <1>6 DEF GuardInv
<1>8. CASE flush = "ok"
  <2>1. result' = "signed" /\ unsaved' = unsaved
    BY Zenon, <1>8 DEF FlushReturns
  <2>2. Backed(a[1], a[2])
    BY Zenon, <1>4, <1>8 DEF InHand
  <2>3. \A e \in Epochs : Backed(e, records[e])
    BY Zenon, <1>6, <1>7, <2>2
  <2>4. \A e \in Epochs : Backed(e, records[e])'
    BY Zenon, <1>2, <2>1, <2>3 DEF Backed
  <2>5. \A b \in signing' : Backed(b[1], b[2])'
    BY Zenon, <1>2, <1>6, <2>1, <2>2 DEF Backed
  <2>6. GuardTypeOK'
    BY Zenon, <1>1, <1>2, <2>1 DEF GuardTypeOK, GuardInv
  <2>7. [Promise!Next]_(Promise!vars) /\ ReleasedIsDurable'
    BY Zenon, <1>2, <2>1 DEF Promise!vars, ReleasedIsDurable, GuardInv
  <2> QED
    BY Zenon, <1>2, <1>3, <2>4, <2>5, <2>6, <2>7 DEF GuardInv
<1>9. CASE flush = "err"
  <2>1. result' = "refused" /\ unsaved' = unsaved \cup {a}
    BY Zenon, <1>6, <1>9 DEF FlushReturns
  <2>2. a \notin released \ unsaved
    BY Zenon, <1>4, <1>9 DEF InHand
  <2>3. /\ unsaved' \subseteq Attestation /\ ReleasedIsDurable' /\ UNCHANGED Promise!vars
        /\ \A e \in Epochs : \A t : Backed(e, t) => Backed(e, t)'
    BY Zenon, <1>2, <2>1, <2>2, JoinsUnsaved
  <2>4. GuardTypeOK'
    BY Zenon, <1>1, <1>2, <2>1 DEF GuardTypeOK, GuardInv
  <2>5. \A e \in Epochs : Backed(e, records[e])'
    <3> TAKE e \in Epochs
    <3>1. CASE e = a[1]
      BY Zenon, <1>2, <1>5, <1>6, <2>1, <3>1 DEF Backed
    <3>2. CASE e # a[1]
      BY Zenon, <1>2, <1>7, <2>1, <3>2 DEF Backed
    <3> QED
      BY Zenon, <3>1, <3>2
  <2> QED
    BY Zenon, <1>2, <1>3, <2>1, <2>3, <2>4, <2>5 DEF GuardInv
<1> QED
  BY Zenon, <1>2, <1>8, <1>9

(* What a Strict signer returns is backed.                                  *)
LEMMA ReplyGuard ==
  ASSUME GuardInv, Reply
  PROVE  GuardInv' /\ [Promise!Next]_(Promise!vars)
<1>1. /\ UNCHANGED <<storeVars, up, policy, unsaved>> /\ up /\ pc = "reply" /\ pc' = "idle"
      /\ signing' = {} /\ result' = "refused"
      /\ released' = released \/ (result = "signed" /\ policy = "Strict" /\ released' = released \cup signing)
  BY Zenon DEF Reply
<1>2. signing \subseteq Attestation
  BY Zenon DEF GuardTypeOK, GuardInv
<1>3. GuardTypeOK'
  BY Zenon, <1>1, StoreUnchanged DEF GuardTypeOK, GuardInv
<1>4. \A a \in released' \ unsaved : durable.log[a[1]] = a[2]
  <2> SUFFICES ASSUME NEW a \in released' \ unsaved, a \notin released
               PROVE  durable.log[a[1]] = a[2]
    BY Zenon DEF ReleasedIsDurable, GuardInv
  <2>1. a \in signing /\ Backed(a[1], a[2])
    BY Zenon, <1>1 DEF GuardInv
  <2>2. a = <<a[1], a[2]>> /\ a[2] # NoRecord
    BY Zenon, <1>2, <2>1, AttestationParts
  <2> QED
    BY Zenon, <2>1, <2>2 DEF Backed
<1>5. ReleasedIsDurable'
  BY Zenon, <1>1, <1>4 DEF ReleasedIsDurable, storeVars
<1>6. [Promise!Next]_(Promise!vars)
  <2>1. CASE released' \ unsaved' = released \ unsaved
    BY Zenon, <1>1, <2>1 DEF Promise!vars, storeVars
  <2>2. CASE released' \ unsaved' # released \ unsaved
    <3>1. signing # {} /\ released' = released \cup signing
      BY Zenon, <1>1, <2>2
    <3>2. PICK a \in Attestation : signing = {a}
      BY Zenon, <3>1 DEF GuardTypeOK, GuardInv
    <3>3. a \in released' \ unsaved /\ released' \ unsaved' = (released \ unsaved) \cup {a}
      BY Zenon, <1>1, <2>2, <3>2
    <3>4. durable.log[a[1]] = a[2]
      BY Zenon, <1>4, <3>3
    <3>5. a = <<a[1], a[2]>> /\ a[1] \in Epochs /\ a[2] # NoRecord
      BY Zenon, AttestationParts
    <3>6. Promise!Release(a[1])
      BY Zenon, <1>1, <3>3, <3>4, <3>5 DEF Promise!Release, storeVars
    <3> QED
      BY Zenon, <3>5, <3>6 DEF Promise!Next
  <2> QED
    BY Zenon, <2>1, <2>2
<1>7. \A e \in Epochs : Backed(e, records[e])'
  BY Zenon, <1>1 DEF storeVars, Backed, GuardInv
<1> QED
  BY Zenon, <1>1, <1>3, <1>5, <1>6, <1>7, StoreUnchanged DEF storeVars, GuardInv

(* What the next process will load after a kill is backed.                  *)
LEMMA KillGuard ==
  ASSUME GuardInv, Kill
  PROVE  GuardInv' /\ [Promise!Next]_(Promise!vars)
<1>1. StoreTypeOK' /\ StoreInv(FALSE)'
  BY Zenon, KillInv DEF Kill, GuardTypeOK, GuardInv
<1>2. /\ up /\ up' = FALSE /\ pc' = "idle" /\ signing' = {} /\ result' = "refused" /\ flush' = "idle"
      /\ UNCHANGED <<policy, file, durable, released>>
      /\ unsaved' = IF flush = "syncdir" THEN unsaved \cup signing ELSE unsaved
  BY Zenon DEF Kill, GoesDown, KillStore
<1>3. \A e \in Epochs : file.log[e] = NoRecord \/ file.log[e] = records[e]
  BY Zenon, <1>2 DEF StoreInv, Extends, GuardInv
<1>4. CASE pc # "flush"
  <2>1. unsaved' = unsaved
    BY Zenon, <1>2, <1>4 DEF GuardInv
  <2>2. GuardTypeOK' /\ StoreInv(up)'
    BY Zenon, <1>1, <1>2 DEF GuardTypeOK, GuardInv
  <2>3. ReleasedIsDurable' /\ UNCHANGED Promise!vars
    BY Zenon, <1>2, <2>1 DEF ReleasedIsDurable, Promise!vars, GuardInv
  <2>4. \A e \in Epochs : Backed(e, file.log[e])
    BY Zenon, <1>3, <1>4 DEF Backed, GuardInv
  <2>5. \A e \in Epochs : Backed(e, file.log[e])'
    BY Zenon, <1>2, <2>4 DEF Backed
  <2> QED
    BY Zenon, <1>2, <2>2, <2>3, <2>5 DEF GuardInv
<1>5. CASE pc = "flush"
  <2>1. PICK a \in Attestation : InHand(a)
    BY Zenon, <1>5 DEF GuardInv
  <2>2. a = <<a[1], a[2]>> /\ a[1] \in Epochs /\ a[2] \in Targets
    BY Zenon, AttestationParts
  <2>3. signing = {a} /\ records[a[1]] = a[2]
    BY Zenon, <2>1 DEF InHand
  <2>4. /\ unsaved' \subseteq Attestation /\ ReleasedIsDurable' /\ UNCHANGED Promise!vars
        /\ \A e \in Epochs : \A t : Backed(e, t) => Backed(e, t)'
    <3>1. CASE flush = "syncdir"
      <4>1. unsaved' = unsaved \cup {a} /\ a \notin released \ unsaved
        BY Zenon, <1>2, <2>3, <3>1 DEF InHand, GuardInv
      <4> QED
        BY Zenon, <1>2, <4>1, JoinsUnsaved
    <3>2. CASE flush # "syncdir"
      BY Zenon, <1>2, <3>2 DEF GuardTypeOK, ReleasedIsDurable, Promise!vars, Backed, GuardInv
    <3> QED
      BY Zenon, <3>1, <3>2
  <2>5. GuardTypeOK' /\ StoreInv(up)'
    BY Zenon, <1>1, <1>2 DEF GuardTypeOK, GuardInv
  <2>6. Backed(a[1], file.log[a[1]])'
    <3>1. CASE flush = "syncdir"
      BY Zenon, <1>2, <1>3, <2>2, <2>3, <3>1 DEF Backed
    <3>2. CASE flush = "ok"
      BY Zenon, <1>2, <1>3, <2>1, <2>2, <3>2 DEF InHand, Backed
    <3>3. CASE flush \in {"write", "sync", "rename", "err"}
      BY Zenon, <1>2, <2>1, <3>3 DEF InHand, Backed
    <3> QED
      BY Zenon, <1>5, <3>1, <3>2, <3>3 DEF GuardTypeOK, StoreTypeOK, FlushStages, GuardInv
  <2>7. ASSUME NEW e \in Epochs, e # a[1]
        PROVE  Backed(e, file.log[e])'
    <3>1. Backed(e, records[e])
      BY <1>2, <2>3, <2>7 DEF GuardInv
    <3>2. Backed(e, file.log[e])
      BY Zenon, <1>3, <3>1 DEF Backed
    <3> QED
      BY Zenon, <1>2, <2>4, <3>2
  <2>8. \A e \in Epochs : Backed(e, file.log[e])'
    BY Zenon, <2>6, <2>7
  <2> QED
    BY Zenon, <1>2, <2>4, <2>5, <2>8 DEF GuardInv
<1> QED
  BY Zenon, <1>4, <1>5

(* Stable storage catches up with the file.                                 *)
LEMMA WriteBackGuard ==
  ASSUME GuardInv, WriteBack
  PROVE  GuardInv' /\ [Promise!Next]_(Promise!vars)
<1>1. StoreTypeOK' /\ StoreInv(up)' /\ Extends(durable.log, durable'.log)
  <2>1. up \in BOOLEAN /\ up' = up
    BY Zenon DEF WriteBack, signerVars, GuardTypeOK, GuardInv
  <2> QED
    BY Zenon, <2>1, WriteBackInv DEF WriteBack, GuardTypeOK, GuardInv
<1>2. UNCHANGED <<up, policy, pc, signing, result, released, unsaved, records, file, flush>>
  BY Zenon DEF WriteBack, WriteBackStore, signerVars, historyVars
<1>3. GuardTypeOK'
  BY Zenon, <1>1, <1>2 DEF GuardTypeOK, GuardInv
<1>4. ReleasedIsDurable'
  BY Zenon, <1>1, <1>2, DurableGrows
<1>5. [Promise!Next]_(Promise!vars)
  BY Zenon, <1>1, <1>2 DEF StoreTypeOK, Image, Log, Extends, Promise!Next, Promise!Commit
<1>6. \A e \in Epochs : \A t : Backed(e, t) => Backed(e, t)'
  BY Zenon, <1>1, <1>2, BackedGrows
<1>7. \A a \in Attestation : a[1] \in Epochs
  BY Zenon, AttestationParts
<1>8. \A a \in Attestation : InHand(a) => InHand(a)'
  BY Zenon, <1>2, <1>6, <1>7 DEF InHand
<1>9. signing \subseteq Attestation
  BY Zenon DEF GuardTypeOK, GuardInv
<1>10. pc # "flush" /\ result = "signed" /\ policy = "Strict" => \A a \in signing : Backed(a[1], a[2])'
  BY Zenon, <1>6, <1>7, <1>9 DEF GuardInv
<1>11. /\ up => \A e \in Epochs :
                  Backed(e, records[e])' \/ (pc = "flush" /\ \E t \in Targets : <<e, t>> \in signing)
       /\ ~up => \A e \in Epochs : Backed(e, file.log[e])'
  BY Zenon, <1>2, <1>6 DEF GuardInv
<1>12. pc = "flush" => \E a \in Attestation : InHand(a)'
  BY Zenon, <1>8 DEF GuardInv
<1>13. pc' # "flush" /\ result' = "signed" /\ policy' = "Strict" => \A a \in signing' : Backed(a[1], a[2])'
  BY Zenon, <1>2, <1>10
<1> QED
  BY Zenon, <1>1, <1>2, <1>3, <1>4, <1>5, <1>11, <1>12, <1>13 DEF GuardInv

(* After a power loss the file is what stable storage holds.                *)
LEMMA PowerLossGuard ==
  ASSUME GuardInv, PowerLoss
  PROVE  GuardInv' /\ [Promise!Next]_(Promise!vars)
<1>1. StoreTypeOK' /\ StoreInv(FALSE)' /\ file' = durable /\ durable' = durable
  BY Zenon, PowerLossInv DEF PowerLoss, GuardTypeOK, GuardInv
<1>2. /\ up' = FALSE /\ pc' = "idle" /\ signing' = {} /\ result' = "refused" /\ flush' = "idle"
      /\ UNCHANGED <<policy, released, unsaved>>
  BY Zenon DEF PowerLoss, GoesDown, PowerLossStore
<1>3. GuardTypeOK' /\ StoreInv(up)'
  BY Zenon, <1>1, <1>2 DEF GuardTypeOK, GuardInv
<1>4. \A e \in Epochs : Backed(e, file.log[e])'
  BY Zenon, <1>1 DEF Backed
<1>5. ReleasedIsDurable' /\ [Promise!Next]_(Promise!vars)
  BY Zenon, <1>1, <1>2 DEF ReleasedIsDurable, Promise!vars, GuardInv
<1> QED
  BY Zenon, <1>2, <1>3, <1>4, <1>5 DEF GuardInv

(* Whatever policy the next life runs under, it starts from the file.       *)
LEMMA StartGuard ==
  ASSUME GuardInv, Start
  PROVE  GuardInv' /\ [Promise!Next]_(Promise!vars)
<1>1. /\ StoreTypeOK' /\ StoreInv(TRUE)' /\ flush = "idle" /\ flush' = "idle"
      /\ records' = file.log /\ durable' = durable
  BY Zenon, LoadInv DEF Start, GuardTypeOK, GuardInv
<1>2. /\ ~up /\ up' = TRUE /\ policy' \in {"Strict", "AuditOnly", "Permissive"}
      /\ UNCHANGED <<pc, signing, result, released, unsaved>> /\ pc = "idle"
  BY Zenon DEF Start, historyVars, GuardInv
<1>3. GuardTypeOK' /\ StoreInv(up)'
  BY Zenon, <1>1, <1>2 DEF GuardTypeOK, GuardInv
<1>4. \A e \in Epochs : Backed(e, records[e])'
  BY Zenon, <1>1, <1>2 DEF Backed, GuardInv
<1>5. ReleasedIsDurable' /\ [Promise!Next]_(Promise!vars)
  BY Zenon, <1>1, <1>2 DEF ReleasedIsDurable, Promise!vars, GuardInv
<1> QED
  BY Zenon, <1>1, <1>2, <1>3, <1>4, <1>5 DEF GuardInv

-----------------------------------------------------------------------------
(* The operators on append-only files.                                      *)

(* Every nonempty set of natural numbers has a least element.               *)
LEMMA LeastElement ==
  ASSUME NEW T \in SUBSET Nat, T # {}
  PROVE  \E x \in T : \A y \in T : x <= y
<1> DEFINE R == {ss \in Nat \X Nat : ss[1] < ss[2]}
<1>1. IsWellFoundedOn(R, Nat)
  BY NatLessThanWellFounded DEF OpToRel
<1>2. \E x \in T : \A y \in T : ~ (<<y, x>> \in R)
  <2> HIDE DEF R
  <2> QED
    BY Zenon, <1>1, WFMin
<1>3. PICK x \in T : \A y \in T : ~ (<<y, x>> \in R)
  BY <1>2
<1>4. \A y \in T : x <= y
  <2> TAKE y \in T
  <2>1. ~ (<<y, x>> \in R)
    BY <1>3
  <2>2. y \in Nat /\ x \in Nat /\ ~(y < x)
    BY <2>1
  <2> QED
    BY <2>2
<1> QED
  BY <1>4

LEMMA PrefixFacts ==
  ASSUME NEW S, NEW s \in Seq(S), NEW k \in 0 .. Len(s)
  PROVE  /\ Prefix(s, k) \in Seq(S) /\ Len(Prefix(s, k)) = k
         /\ \A i \in 1 .. k : Prefix(s, k)[i] = s[i]
BY DEF Prefix

(* Readable is the longest prefix without a torn frame.                     *)
LEMMA ReadableFacts ==
  ASSUME NEW S, NEW s \in Seq(S), NEW torn
  PROVE  \E k \in 0 .. Len(s) :
           /\ Readable(s, torn) = Prefix(s, k)
           /\ \A i \in 1 .. k : s[i] # torn
           /\ k < Len(s) => s[k + 1] = torn
<1> DEFINE P(k) == /\ \A i \in 1 .. k : s[i] # torn
                   /\ k < Len(s) => s[k + 1] = torn
<1>1. \E k \in 0 .. Len(s) : P(k)
  <2>1. CASE \A i \in 1 .. Len(s) : s[i] # torn
    <3>1. P(Len(s)) /\ Len(s) \in 0 .. Len(s)
      BY <2>1
    <3> QED
      BY <3>1
  <2>2. CASE \E i \in 1 .. Len(s) : s[i] = torn
    <3> DEFINE T == {i \in 1 .. Len(s) : s[i] = torn}
    <3>1. T \in SUBSET Nat /\ T # {}
      BY <2>2
    <3>2. PICK x \in T : \A y \in T : x <= y
      <4> HIDE DEF T
      <4> QED
        BY <3>1, LeastElement
    <3>3. P(x - 1) /\ x - 1 \in 0 .. Len(s)
      <4>1. x \in 1 .. Len(s) /\ s[x] = torn /\ x - 1 \in 0 .. Len(s) /\ (x - 1) + 1 = x
        OBVIOUS
      <4>2. \A i \in 1 .. x - 1 : s[i] # torn
        BY <3>2
      <4> QED
        BY <4>1, <4>2
    <3> HIDE DEF P
    <3> QED
      BY <3>3
  <2> QED
    BY Zenon, <2>1, <2>2
<1> DEFINE c == CHOOSE k \in 0 .. Len(s) : P(k)
<1>2. c \in 0 .. Len(s) /\ P(c)
  <2> HIDE DEF P
  <2> QED
    BY <1>1
<1>3. Readable(s, torn) = Prefix(s, c)
  BY DEF Readable
<1> HIDE DEF c
<1> QED
  BY <1>2, <1>3

(* A power loss keeps the synced frames, and leaves of the others whole     *)
(* ones and at most a torn one.                                             *)
LEMMA AfterPowerLossFacts ==
  ASSUME NEW S, NEW s \in Seq(S), NEW synced \in 0 .. Len(s), NEW torn \in S, NEW writing \in BOOLEAN,
         NEW t \in AfterPowerLoss(s, synced, torn, writing)
  PROVE  /\ t \in Seq(S) /\ synced <= Len(t)
         /\ \A i \in 1 .. synced : t[i] = s[i]
         /\ \A i \in 1 .. Len(t) : t[i] = torn \/ (i \in 1 .. Len(s) /\ t[i] = s[i])
<1>1. CASE \E k \in synced .. Len(s) : t = Prefix(s, k)
  <2>1. PICK k \in synced .. Len(s) : t = Prefix(s, k)
    BY <1>1
  <2>2. k \in 0 .. Len(s)
    OBVIOUS
  <2> QED
    BY <2>1, PrefixFacts
<1>2. CASE \E k \in synced .. Len(s) : t = Append(Prefix(s, k), torn)
  <2>1. PICK k \in synced .. Len(s) : t = Append(Prefix(s, k), torn)
    BY Zenon, <1>2
  <2>2. k \in 0 .. Len(s)
    OBVIOUS
  <2>3. /\ Prefix(s, k) \in Seq(S) /\ Len(Prefix(s, k)) = k
        /\ \A i \in 1 .. k : Prefix(s, k)[i] = s[i]
    BY Zenon, <2>2, PrefixFacts
  <2>4. /\ t \in Seq(S) /\ Len(t) = k + 1 /\ t[k + 1] = torn
        /\ \A i \in 1 .. k : t[i] = Prefix(s, k)[i]
    BY <2>1, <2>3
  <2> QED
    BY <2>3, <2>4
<1> QED
  BY <1>1, <1>2 DEF AfterPowerLoss

-----------------------------------------------------------------------------
(* The audit log and its checkpoints.                                       *)

(* What the next start can read is never lost while the file keeps its      *)
(* whole, synced frames.                                                    *)
KeepsIntact ==
  \A m \in 0 .. auditSynced :
    Intact(m) => m <= auditSynced' /\ \A j \in 1 .. m : audit'[j] = audit[j]

LEMMA IntactKept ==
  ASSUME AuditTypeOK, KeepsIntact, auditSynced' \in Nat
  PROVE  /\ \A m : Intact(m) => Intact(m)'
         /\ \A n : Audited(n) => Audited(n)'
<1>1. ASSUME NEW m, Intact(m)
      PROVE  Intact(m)' /\ \A j \in 1 .. m : audit'[j] = audit[j]
  <2>1. m \in 0 .. auditSynced /\ \A j \in 1 .. m : audit[j] # Torn
    BY <1>1 DEF Intact
  <2>2. m <= auditSynced' /\ \A j \in 1 .. m : audit'[j] = audit[j]
    BY <1>1, <2>1 DEF KeepsIntact
  <2>3. m \in 0 .. auditSynced'
    BY <2>1, <2>2
  <2> QED
    BY <2>1, <2>2 DEF Intact
<1>2. ASSUME NEW n, Audited(n)
      PROVE  Audited(n)'
  <2>1. PICK m \in 1 .. auditSynced : Intact(m) /\ audit[m] = n
    BY <1>2 DEF Audited
  <2>2. Intact(m)' /\ audit'[m] = n /\ m \in 1 .. auditSynced'
    BY <1>1, <2>1 DEF Intact
  <2> QED
    BY <2>2 DEF Audited
<1> QED
  BY <1>1, <1>2

LEMMA CheckpointType ==
  ASSUME AuditTypeOK
  PROVE  /\ TornCheckpoint \in Checkpoint
         /\ [head |-> chain, clean |-> ~failed] \in Checkpoint
         /\ \A i \in DOMAIN checkpoints :
              checkpoints[i] \in Checkpoint /\ checkpoints[i].head \in Seq(Frame)
<1>1. Torn \in Frame
  BY SignerAssumption DEF Torn, Frame
<1>2. <<Torn>> \in Seq(Frame) /\ chain \in Seq(Frame)
  BY <1>1 DEF AuditTypeOK
<1>3. (~failed) \in BOOLEAN
  OBVIOUS
<1>4. \A i \in DOMAIN checkpoints : checkpoints[i] \in Checkpoint
  BY DEF AuditTypeOK
<1> QED
  BY Zenon, <1>2, <1>4 DEF TornCheckpoint, Checkpoint

(* A checkpoint that verified still does.                                   *)
LEMMA CheckpointsKept ==
  ASSUME AuditTypeOK, KeepsIntact, auditSynced' \in Nat,
         NEW c \in Checkpoint, Verifies(c)
  PROVE  Verifies(c)'
<1>1. Len(c.head) \in Nat
  BY DEF Checkpoint
<1>2. Intact(Len(c.head))' /\ \A j \in 1 .. Len(c.head) : audit'[j] = audit[j]
  BY Zenon, IntactKept DEF Verifies, KeepsIntact, Intact
<1> QED
  BY <1>2 DEF Verifies

LEMMA LogKept ==
  ASSUME AuditTypeOK, LogInv, KeepsIntact, auditSynced' \in Nat,
         answered' \ shadowed' \subseteq answered \ shadowed,
         \A i \in DOMAIN checkpoints' :
           \/ checkpoints'[i] = TornCheckpoint
           \/ i \in DOMAIN checkpoints /\ checkpoints'[i] = checkpoints[i]
  PROVE  LogInv'
<1>1. \A n \in answered' \ shadowed' : Audited(n)'
  BY Zenon, IntactKept DEF LogInv
<1>2. ASSUME NEW i \in DOMAIN checkpoints', checkpoints'[i].clean, checkpoints'[i] # TornCheckpoint
      PROVE  Verifies(checkpoints[i])'
  <2>1. i \in DOMAIN checkpoints /\ checkpoints'[i] = checkpoints[i]
    BY <1>2
  <2>2. Verifies(checkpoints[i]) /\ checkpoints[i] \in Checkpoint
    BY Zenon, <1>2, CheckpointType DEF LogInv
  <2>3. PICK d \in Checkpoint : d = checkpoints[i]
    BY <2>2
  <2>4. Verifies(d)'
    BY <2>2, <2>3, CheckpointsKept
  <2> QED
    BY Zenon, <2>1, <2>3, <2>4
<1> QED
  BY Zenon, <1>1, <1>2 DEF LogInv

(* try_sign and the flush leave the audit log alone.                        *)
LEMMA TryAudit ==
  ASSUME AuditInv, UNCHANGED <<up, auditVars, ckptVars, answered, failed, shadowed>>,
         up, pc # "sync", pc' \in {"flush", "append"}, request' \in Frame \ {Torn}
  PROVE  AuditInv'
<1>1. AuditTypeOK'
  BY Zenon DEF AuditInv, AuditTypeOK, auditVars, ckptVars
<1>2. ChainInv'
  BY Zenon DEF AuditInv, ChainInv, auditVars
<1>3. LogInv'
  BY DEF AuditInv, LogInv, auditVars, ckptVars, Audited, Verifies, Intact
<1> QED
  BY <1>1, <1>2, <1>3 DEF AuditInv

LEMMA AuditUnchanged ==
  ASSUME AuditInv, UNCHANGED <<signerVars, auditVars, ckptVars, historyVars>>
  PROVE  AuditInv'
<1>1. AuditTypeOK'
  BY Zenon DEF signerVars, auditVars, ckptVars, historyVars, AuditInv, AuditTypeOK
<1>2. ChainInv'
  BY Zenon DEF signerVars, auditVars, historyVars, AuditInv, ChainInv, Intact
<1>3. LogInv'
  BY DEF auditVars, ckptVars, historyVars, AuditInv, LogInv, Audited, Verifies, Intact
<1> QED
  BY <1>1, <1>2, <1>3 DEF AuditInv

LEMMA NextRequest ==
  ASSUME AuditTypeOK, Begin
  PROVE  request' \in Frame \ {Torn}
BY SignerAssumption DEF AuditTypeOK, Begin, Frame, Torn

LEMMA AppendFacts ==
  ASSUME AuditTypeOK, NEW x \in Frame, audit' = Append(audit, x), auditSynced' = auditSynced
  PROVE  /\ audit' \in Seq(Frame) /\ Len(audit') = Len(audit) + 1
         /\ audit'[Len(audit) + 1] = x /\ \A j \in 1 .. Len(audit) : audit'[j] = audit[j]
         /\ auditSynced' \in 0 .. Len(audit') /\ auditSynced' \in Nat
         /\ KeepsIntact
<1>1. /\ audit' \in Seq(Frame) /\ Len(audit') = Len(audit) + 1
      /\ audit'[Len(audit) + 1] = x /\ \A j \in 1 .. Len(audit) : audit'[j] = audit[j]
  BY DEF AuditTypeOK
<1>2. auditSynced \in 0 .. Len(audit) /\ Len(audit) \in Nat
  BY DEF AuditTypeOK
<1>3. auditSynced' \in 0 .. Len(audit') /\ auditSynced' \in Nat
  BY <1>2
<1>4. KeepsIntact
  BY <1>2 DEF KeepsIntact
<1> QED
  BY Zenon, <1>1, <1>3, <1>4

LEMMA SyncFacts ==
  ASSUME AuditTypeOK, audit' = audit, auditSynced' \in {auditSynced, Len(audit)}
  PROVE  KeepsIntact /\ auditSynced' \in Nat /\ auditSynced' \in 0 .. Len(audit')
<1>1. auditSynced \in 0 .. Len(audit) /\ Len(audit) \in Nat
  BY DEF AuditTypeOK
<1>2. auditSynced' \in Nat /\ auditSynced' >= auditSynced /\ auditSynced' \in 0 .. Len(audit')
  BY <1>1
<1> QED
  BY <1>2 DEF KeepsIntact

(* A failed append marks the process; what was synced stays.                *)
LEMMA AppendErrorAudit ==
  ASSUME AuditInv, AppendError, up, UNCHANGED <<up, request, answered, shadowed>>,
         audit' \in {audit, Append(audit, Torn)}, request # Torn
  PROVE  AuditInv'
<1>1. AuditTypeOK /\ Torn \in Frame
  BY SignerAssumption DEF AuditInv, Frame, Torn
<1>2. UNCHANGED <<auditSynced, chain, checkpoints, ckptSynced, appends_since_checkpoint>> /\ failed' = TRUE /\ pc' = "reply"
  BY DEF AppendError, ckptVars
<1>3. audit' \in Seq(Frame) /\ auditSynced' \in 0 .. Len(audit') /\ auditSynced' \in Nat /\ KeepsIntact
  BY Zenon, <1>1, <1>2, AppendFacts, SyncFacts DEF AuditTypeOK
<1>4. AuditTypeOK'
  BY Zenon, <1>1, <1>2, <1>3 DEF AuditTypeOK
<1>5. ChainInv'
  BY Zenon, <1>2 DEF ChainInv
<1>6. LogInv'
  BY Zenon, <1>2, <1>3, LogKept DEF AuditInv
<1> QED
  BY <1>4, <1>5, <1>6 DEF AuditInv

LEMMA AppendWriteAudit ==
  ASSUME AuditInv, AppendWrite
  PROVE  AuditInv'
<1>1. /\ up /\ pc = "append" /\ UNCHANGED <<up, request, answered, shadowed>>
  BY DEF AppendWrite
<1>2. request # Torn /\ request \in Frame /\ AuditTypeOK
  BY Zenon, <1>1 DEF AuditInv, ChainInv, AuditTypeOK
<1>3. CASE /\ audit' = Append(audit, request)
           /\ pc' = "sync"
           /\ UNCHANGED <<result, failed, auditSynced, chain, ckptVars>>
  <2>1. /\ audit' \in Seq(Frame) /\ Len(audit') = Len(audit) + 1
        /\ audit'[Len(audit) + 1] = request /\ \A j \in 1 .. Len(audit) : audit'[j] = audit[j]
        /\ auditSynced' \in 0 .. Len(audit') /\ auditSynced' \in Nat
        /\ KeepsIntact
    BY Zenon, <1>2, <1>3, AppendFacts
  <2>2. AuditTypeOK'
    BY Zenon, <1>1, <1>2, <1>3, <2>1 DEF AuditTypeOK, ckptVars
  <2>3. LogInv'
    BY Zenon, <1>1, <1>3, <2>1, LogKept DEF AuditInv, ckptVars
  <2>4. ASSUME ~failed
        PROVE  (\A j \in 1 .. Len(chain) : audit'[j] = chain[j]) /\ Len(audit) = Len(chain)
    <3>1. (\A j \in 1 .. Len(chain) : audit[j] = chain[j]) /\ Len(audit) = Len(chain)
      BY Zenon, <1>1, <2>4 DEF AuditInv, ChainInv
    <3> QED
      BY <2>1, <3>1
  <2>5. ChainInv'
    BY Zenon, <1>1, <1>2, <1>3, <2>1, <2>4 DEF ChainInv
  <2> QED
    BY <2>2, <2>3, <2>5 DEF AuditInv
<1>4. CASE audit' \in FailedWrite(audit, Torn) /\ AppendError
  BY <1>1, <1>2, <1>4, AppendErrorAudit DEF FailedWrite
<1> QED
  BY Zenon, <1>3, <1>4 DEF AppendWrite

LEMMA AppendSyncAudit ==
  ASSUME AuditInv, AppendSync
  PROVE  AuditInv'
<1>1. /\ up /\ pc = "sync" /\ UNCHANGED <<up, request, answered, shadowed, audit>>
  BY DEF AppendSync
<1>2. request # Torn /\ request \in Frame /\ AuditTypeOK /\ chain \in Seq(Frame \ {Torn})
  BY Zenon, <1>1 DEF AuditInv, ChainInv, AuditTypeOK
<1>3. CASE /\ auditSynced' = Len(audit)
           /\ chain' = Append(chain, request)
           /\ IF appends_since_checkpoint + 1 >= AUDIT_CHECKPOINT_INTERVAL
              THEN appends_since_checkpoint' = 0 /\ pc' = "checkpoint"
              ELSE appends_since_checkpoint' = appends_since_checkpoint + 1 /\ pc' = "reply"
           /\ UNCHANGED <<result, failed, checkpoints, ckptSynced>>
  <2>1. KeepsIntact /\ auditSynced' \in Nat /\ auditSynced' \in 0 .. Len(audit')
    BY Zenon, <1>1, <1>2, <1>3, SyncFacts
  <2>2. /\ chain' \in Seq(Frame \ {Torn}) /\ Len(chain') = Len(chain) + 1 /\ chain' # <<>>
        /\ chain'[Len(chain')] = request /\ \A j \in 1 .. Len(chain) : chain'[j] = chain[j]
        /\ Len(chain) \in Nat
    BY <1>2, <1>3
  <2>3. appends_since_checkpoint' \in 0 .. AUDIT_CHECKPOINT_INTERVAL - 1
    BY <1>2, <1>3, SignerAssumption DEF AuditTypeOK
  <2>4. pc' \in {"checkpoint", "reply"}
    BY <1>3
  <2>5. AuditTypeOK'
    BY Zenon, <1>1, <1>2, <1>3, <2>1, <2>2, <2>3 DEF AuditTypeOK
  <2>6. LogInv'
    BY Zenon, <1>1, <1>3, <2>1, LogKept DEF AuditInv
  <2>7. ASSUME ~failed
        PROVE  /\ Intact(Len(chain))' /\ \A j \in 1 .. Len(chain') : audit'[j] = chain'[j]
               /\ Len(audit') = Len(chain')
    <3>1. /\ \A j \in 1 .. Len(chain) : audit[j] = chain[j] /\ chain[j] # Torn
          /\ Len(audit) = Len(chain) + 1 /\ audit[Len(audit)] = request
      BY <1>1, <1>2, <2>7 DEF AuditInv, ChainInv
    <3>2. \A j \in 1 .. Len(chain') : audit'[j] = chain'[j] /\ audit'[j] # Torn
      <4> TAKE j \in 1 .. Len(chain')
      <4>1. CASE j \in 1 .. Len(chain)
        BY Zenon, <1>1, <2>2, <3>1, <4>1
      <4>2. CASE j = Len(chain')
        BY Zenon, <1>1, <1>2, <2>2, <3>1, <4>2
      <4> QED
        BY <2>2, <4>1, <4>2
    <3>3. Len(chain') \in 0 .. auditSynced' /\ Len(audit') = Len(chain')
      BY <1>1, <1>3, <3>1
    <3> QED
      BY <3>2, <3>3 DEF Intact
  <2>8. ChainInv'
    BY Zenon, <1>1, <1>2, <1>3, <2>2, <2>7 DEF ChainInv
  <2> QED
    BY <2>5, <2>6, <2>8 DEF AuditInv
<1>4. CASE AppendError
  BY <1>1, <1>2, <1>4, AppendErrorAudit
<1> QED
  BY Zenon, <1>3, <1>4 DEF AppendSync

(* A checkpoint is of a chain that is whole and on stable storage, unless   *)
(* an append had failed.                                                    *)
LEMMA CheckpointWriteAudit ==
  ASSUME AuditInv, CheckpointWrite
  PROVE  AuditInv'
<1>1. /\ up /\ pc = "checkpoint" /\ pc' \in {"ckptsync", "reply"}
      /\ UNCHANGED <<up, request, result, audit, auditSynced, chain, ckptSynced,
                     appends_since_checkpoint, answered, shadowed, failed>>
  BY Zenon DEF CheckpointWrite, auditVars, historyVars
<1>2. AuditTypeOK
  BY DEF AuditInv
<1>3. ChainInv'
  BY Zenon, <1>1 DEF AuditInv, ChainInv, Intact
<1>4. KeepsIntact /\ auditSynced' \in Nat
  BY <1>1, <1>2, SyncFacts
<1>5. CASE checkpoints' = checkpoints
  <2>1. AuditTypeOK'
    BY Zenon, <1>1, <1>2, <1>5 DEF AuditTypeOK
  <2>2. LogInv'
    BY Zenon, <1>1, <1>4, <1>5, LogKept DEF AuditInv
  <2> QED
    BY <1>3, <2>1, <2>2 DEF AuditInv
<1>6. ASSUME NEW c \in Checkpoint, checkpoints' = Append(checkpoints, c),
             c.clean => c = TornCheckpoint \/ Verifies(c)
      PROVE  AuditInv'
  <2>1. checkpoints \in Seq(Checkpoint) /\ ckptSynced \in 0 .. Len(checkpoints)
    BY <1>2 DEF AuditTypeOK
  <2>2. /\ checkpoints' \in Seq(Checkpoint) /\ Len(checkpoints') = Len(checkpoints) + 1
        /\ checkpoints'[Len(checkpoints) + 1] = c
        /\ \A i \in 1 .. Len(checkpoints) : checkpoints'[i] = checkpoints[i]
        /\ DOMAIN checkpoints = 1 .. Len(checkpoints)
        /\ DOMAIN checkpoints' = 1 .. Len(checkpoints) + 1
        /\ Len(checkpoints) \in Nat
    BY <1>6, <2>1
  <2>3. ckptSynced' \in 0 .. Len(checkpoints')
    BY <1>1, <2>1, <2>2
  <2>4. AuditTypeOK'
    BY Zenon, <1>1, <1>2, <2>2, <2>3 DEF AuditTypeOK
  <2>5. \A n \in answered' \ shadowed' : Audited(n)'
    BY Zenon, <1>1, <1>4, IntactKept DEF AuditInv, LogInv
  <2>6. \A i \in DOMAIN checkpoints' :
          checkpoints'[i].clean => checkpoints'[i] = TornCheckpoint \/ Verifies(checkpoints'[i])
    <3> TAKE i \in DOMAIN checkpoints'
    <3>1. CASE i \in DOMAIN checkpoints
      BY Zenon, <2>2, <3>1 DEF AuditInv, LogInv
    <3>2. CASE i = Len(checkpoints) + 1
      BY Zenon, <1>6, <2>2, <3>2
    <3> QED
      BY <2>2, <3>1, <3>2
  <2>7. LogInv'
    BY Zenon, <1>1, <2>5, <2>6 DEF LogInv, Verifies, Intact
  <2> QED
    BY <1>3, <2>4, <2>7 DEF AuditInv
<1>7. CASE checkpoints' = Append(checkpoints, TornCheckpoint)
  BY <1>2, <1>6, <1>7, CheckpointType
<1>8. CASE checkpoints' = Append(checkpoints, [head |-> chain, clean |-> ~failed])
  <2> DEFINE c == [head |-> chain, clean |-> ~failed]
  <2>1. c.clean => ~failed
    BY Zenon
  <2>2. c.head = chain
    OBVIOUS
  <2>3. ~failed => Verifies(c)
    <3> HIDE DEF c
    <3> QED
      BY Zenon, <1>1, <2>2 DEF AuditInv, ChainInv, Verifies
  <2>4. c \in Checkpoint /\ checkpoints' = Append(checkpoints, c)
    BY <1>2, <1>8, CheckpointType
  <2> HIDE DEF c
  <2>5. PICK d \in Checkpoint : d = c
    BY <2>4
  <2>6. checkpoints' = Append(checkpoints, d) /\ (d.clean => Verifies(d))
    BY <2>1, <2>3, <2>4, <2>5
  <2> QED
    BY <1>6, <2>6
<1> QED
  BY Zenon, <1>5, <1>7, <1>8 DEF CheckpointWrite, FailedWrite

LEMMA CheckpointSyncAudit ==
  ASSUME AuditInv, CheckpointSync
  PROVE  AuditInv'
<1>1. /\ up /\ pc = "ckptsync" /\ pc' = "reply" /\ ckptSynced' \in {ckptSynced, Len(checkpoints)}
      /\ UNCHANGED <<up, request, result, audit, auditSynced, chain, checkpoints,
                     appends_since_checkpoint, answered, shadowed, failed>>
  BY DEF CheckpointSync, auditVars, historyVars
<1>2. ckptSynced' \in 0 .. Len(checkpoints')
  BY <1>1 DEF AuditInv, AuditTypeOK
<1>3. AuditTypeOK'
  BY Zenon, <1>1, <1>2 DEF AuditInv, AuditTypeOK
<1>4. ChainInv'
  BY Zenon, <1>1 DEF AuditInv, ChainInv, Intact
<1>5. LogInv'
  BY <1>1 DEF AuditInv, LogInv, Audited, Verifies, Intact
<1> QED
  BY <1>3, <1>4, <1>5 DEF AuditInv

(* A request is answered once its record is the last of an intact chain.    *)
LEMMA ReplyAudit ==
  ASSUME AuditInv, Reply
  PROVE  AuditInv'
<1>1. /\ up /\ pc = "reply" /\ pc' = "idle" /\ result' = "refused"
      /\ UNCHANGED <<up, request, audit, auditSynced, chain, checkpoints, ckptSynced,
                     appends_since_checkpoint, failed>>
  BY Zenon DEF Reply, auditVars, ckptVars
<1>2. AuditTypeOK /\ request \in Frame
  BY Zenon DEF AuditInv, AuditTypeOK
<1>3. \/ UNCHANGED <<answered, shadowed>>
      \/ /\ result = "signed" /\ answered' = answered \cup {request}
         /\ shadowed' = IF failed THEN shadowed \cup {request} ELSE shadowed
  BY DEF Reply
<1>4. AuditTypeOK'
  BY Zenon, <1>1, <1>2, <1>3 DEF AuditTypeOK
<1>5. ChainInv'
  BY Zenon, <1>1 DEF AuditInv, ChainInv
<1>6. \A n \in answered' \ shadowed' : Audited(n)
  <2> TAKE n \in answered' \ shadowed'
  <2>1. CASE n \in answered \ shadowed
    BY <2>1 DEF AuditInv, LogInv
  <2>2. CASE n \notin answered \ shadowed
    <3>1. n = request /\ result = "signed" /\ ~failed
      BY <1>3, <2>2
    <3>2. /\ chain # <<>> /\ chain[Len(chain)] = request /\ chain \in Seq(Frame \ {Torn})
          /\ Intact(Len(chain)) /\ \A j \in 1 .. Len(chain) : audit[j] = chain[j]
      BY Zenon, <1>1, <3>1 DEF AuditInv, ChainInv, AuditTypeOK
    <3>3. Len(chain) \in 1 .. auditSynced /\ audit[Len(chain)] = request
      <4>1. Len(chain) \in Nat /\ Len(chain) # 0
        BY <3>2
      <4> QED
        BY <3>2 DEF Intact
    <3> QED
      BY <3>1, <3>2, <3>3 DEF Audited
  <2> QED
    BY <2>1, <2>2
<1>7. LogInv'
  BY <1>1, <1>6 DEF AuditInv, LogInv, Audited, Verifies, Intact
<1> QED
  BY <1>4, <1>5, <1>7 DEF AuditInv

(* Going down keeps the invariant when it keeps the intact frames and the   *)
(* checkpoint frames, torn ones aside.                                      *)
LEMMA GoesDownAudit ==
  ASSUME AuditInv, GoesDown, KeepsIntact,
         audit' \in Seq(Frame), auditSynced' \in 0 .. Len(audit'),
         checkpoints' \in Seq(Checkpoint), ckptSynced' \in 0 .. Len(checkpoints'),
         \A i \in 1 .. Len(checkpoints') : \/ checkpoints'[i] = TornCheckpoint
                                           \/ i \in 1 .. Len(checkpoints) /\ checkpoints'[i] = checkpoints[i]
  PROVE  AuditInv'
<1>1. /\ up' = FALSE /\ pc' = "idle" /\ chain' = <<>> /\ failed' = FALSE
      /\ appends_since_checkpoint' = 0
      /\ UNCHANGED <<request, answered, shadowed>>
  BY DEF GoesDown
<1>2. AuditTypeOK /\ auditSynced' \in Nat /\ checkpoints \in Seq(Checkpoint)
  BY DEF AuditInv, AuditTypeOK
<1>3. AuditTypeOK'
  <2>1. appends_since_checkpoint' \in 0 .. AUDIT_CHECKPOINT_INTERVAL - 1
    BY <1>1, SignerAssumption
  <2>2. answered' \subseteq Frame /\ shadowed' \subseteq answered' /\ failed' \in BOOLEAN /\ request' \in Frame
    BY Zenon, <1>1, <1>2 DEF AuditTypeOK
  <2>3. chain' \in Seq(Frame \ {Torn})
    BY <1>1
  <2> QED
    BY Zenon, <2>1, <2>2, <2>3 DEF AuditTypeOK
<1>4. ChainInv'
  BY Zenon, <1>1 DEF ChainInv
<1>5. DOMAIN checkpoints = 1 .. Len(checkpoints) /\ DOMAIN checkpoints' = 1 .. Len(checkpoints')
  OBVIOUS
<1>6. LogInv'
  BY Zenon, <1>1, <1>2, <1>5, LogKept DEF AuditInv
<1> QED
  BY <1>3, <1>4, <1>6 DEF AuditInv

(* A kill leaves the files alone, or a torn frame at their end.             *)
LEMMA KillAudit ==
  ASSUME AuditInv, Kill
  PROVE  AuditInv'
<1>1. /\ GoesDown /\ UNCHANGED <<auditSynced, ckptSynced>>
      /\ audit' \in {audit, Append(audit, Torn)}
      /\ checkpoints' \in {checkpoints, Append(checkpoints, TornCheckpoint)}
  BY DEF Kill, FailedWrite
<1>2. AuditTypeOK /\ Torn \in Frame /\ TornCheckpoint \in Checkpoint
  BY SignerAssumption, CheckpointType DEF AuditInv, Frame, Torn
<1>3. audit' \in Seq(Frame) /\ auditSynced' \in 0 .. Len(audit') /\ KeepsIntact
  BY Zenon, <1>1, <1>2, AppendFacts, SyncFacts DEF AuditTypeOK
<1>4. checkpoints \in Seq(Checkpoint) /\ ckptSynced \in 0 .. Len(checkpoints)
  BY <1>2 DEF AuditTypeOK
<1>5. /\ checkpoints' \in Seq(Checkpoint) /\ ckptSynced' \in 0 .. Len(checkpoints')
      /\ \A i \in 1 .. Len(checkpoints') : \/ checkpoints'[i] = TornCheckpoint
                                           \/ i \in 1 .. Len(checkpoints) /\ checkpoints'[i] = checkpoints[i]
  <2>1. CASE checkpoints' = checkpoints
    BY <1>1, <1>4, <2>1
  <2>2. CASE checkpoints' = Append(checkpoints, TornCheckpoint)
    <3>1. /\ checkpoints' \in Seq(Checkpoint) /\ Len(checkpoints') = Len(checkpoints) + 1
          /\ checkpoints'[Len(checkpoints) + 1] = TornCheckpoint
          /\ \A i \in 1 .. Len(checkpoints) : checkpoints'[i] = checkpoints[i]
      BY <1>2, <1>4, <2>2
    <3> QED
      BY <1>1, <1>4, <3>1
  <2> QED
    BY Zenon, <1>1, <2>1, <2>2
<1> QED
  BY Zenon, <1>1, <1>3, <1>5, GoesDownAudit

LEMMA PowerLossAudit ==
  ASSUME AuditInv, PowerLoss
  PROVE  AuditInv'
<1>1. GoesDown /\ auditSynced' = Len(audit') /\ ckptSynced' = Len(checkpoints')
  BY DEF PowerLoss
<1>2. AuditTypeOK /\ Torn \in Frame /\ TornCheckpoint \in Checkpoint
  BY SignerAssumption, CheckpointType DEF AuditInv, Frame, Torn
<1>3. audit \in Seq(Frame) /\ auditSynced \in 0 .. Len(audit)
      /\ checkpoints \in Seq(Checkpoint) /\ ckptSynced \in 0 .. Len(checkpoints)
  BY <1>2 DEF AuditTypeOK
<1>4. /\ audit' \in Seq(Frame) /\ auditSynced <= Len(audit')
      /\ \A j \in 1 .. auditSynced : audit'[j] = audit[j]
  <2>1. PICK w \in BOOLEAN : audit' \in AfterPowerLoss(audit, auditSynced, Torn, w)
    BY Zenon DEF PowerLoss
  <2> QED
    BY <1>2, <1>3, <2>1, AfterPowerLossFacts
<1>5. /\ checkpoints' \in Seq(Checkpoint)
      /\ \A i \in 1 .. Len(checkpoints') : \/ checkpoints'[i] = TornCheckpoint
                                           \/ i \in 1 .. Len(checkpoints) /\ checkpoints'[i] = checkpoints[i]
  <2>1. PICK w \in BOOLEAN : checkpoints' \in AfterPowerLoss(checkpoints, ckptSynced, TornCheckpoint, w)
    BY Zenon DEF PowerLoss
  <2> QED
    BY <1>2, <1>3, <2>1, AfterPowerLossFacts
<1>6. auditSynced' \in 0 .. Len(audit') /\ ckptSynced' \in 0 .. Len(checkpoints')
  <2>1. Len(audit') \in Nat /\ Len(checkpoints') \in Nat
    OBVIOUS
  <2> QED
    BY <1>1
<1>7. KeepsIntact
  BY <1>1, <1>3, <1>4 DEF KeepsIntact
<1> QED
  BY Zenon, <1>1, <1>4, <1>5, <1>6, <1>7, GoesDownAudit

(* The replay cuts the log behind everything that was intact.               *)
LEMMA StartAudit ==
  ASSUME AuditInv, Start
  PROVE  AuditInv'
<1>1. /\ ~up /\ up' = TRUE /\ audit' = Readable(audit, Torn) /\ chain' = audit'
      /\ auditSynced' = IF audit' = audit THEN auditSynced ELSE Len(audit')
      /\ UNCHANGED <<pc, request, result, checkpoints, ckptSynced, appends_since_checkpoint,
                     answered, shadowed, failed>>
  BY DEF Start, ckptVars, historyVars
<1>2. AuditTypeOK /\ audit \in Seq(Frame) /\ pc = "idle" /\ auditSynced \in 0 .. Len(audit)
  BY Zenon, <1>1 DEF AuditInv, AuditTypeOK, ChainInv
<1>3. PICK k \in 0 .. Len(audit) : /\ audit' = Prefix(audit, k)
                                   /\ \A i \in 1 .. k : audit[i] # Torn
                                   /\ k < Len(audit) => audit[k + 1] = Torn
  BY Zenon, <1>1, <1>2, ReadableFacts
<1>4. /\ audit' \in Seq(Frame) /\ Len(audit') = k
      /\ \A i \in 1 .. k : audit'[i] = audit[i]
  BY Zenon, <1>2, <1>3, PrefixFacts
<1>5. \A i \in 1 .. Len(audit') : audit'[i] \in Frame \ {Torn}
  BY <1>3, <1>4
<1>6. chain' \in Seq(Frame \ {Torn})
  BY <1>1, <1>4, <1>5
<1>7. auditSynced' \in 0 .. Len(audit') /\ auditSynced' \in Nat
  BY <1>1, <1>2
<1>8. AuditTypeOK'
  BY Zenon, <1>1, <1>2, <1>4, <1>6, <1>7 DEF AuditTypeOK
<1>9. KeepsIntact
  <2> SUFFICES ASSUME NEW m \in 0 .. auditSynced, Intact(m)
               PROVE  m <= auditSynced' /\ \A j \in 1 .. m : audit'[j] = audit[j]
    BY DEF KeepsIntact
  <2>1. m <= k
    <3>1. Len(audit) \in Nat
      OBVIOUS
    <3> QED
      BY <1>2, <1>3 DEF Intact
  <2>2. m <= auditSynced'
    BY <1>1, <1>4, <2>1
  <2> QED
    BY <1>4, <2>1, <2>2
<1>10. ChainInv'
  BY Zenon, <1>1, <1>2 DEF ChainInv
<1>11. LogInv'
  BY Zenon, <1>1, <1>7, <1>9, LogKept DEF AuditInv
<1> QED
  BY <1>8, <1>10, <1>11 DEF AuditInv

-----------------------------------------------------------------------------
LEMMA InitInv == Init => SignerInv
<1> SUFFICES ASSUME Init PROVE SignerInv
  OBVIOUS
<1>1. StoreTypeOK /\ StoreInv(up)
  BY Zenon, StoreInitInv DEF Init
<1>2. GuardTypeOK
  BY <1>1 DEF Init, GuardTypeOK
<1>3. GuardInv
  BY Zenon, <1>1, <1>2 DEF Init, StoreInit, GuardInv, ReleasedIsDurable, EmptyLog, Backed
<1>4. AuditTypeOK
  <2>1. request \in Frame /\ appends_since_checkpoint \in 0 .. AUDIT_CHECKPOINT_INTERVAL - 1
    BY SignerAssumption DEF Init, Frame
  <2>2. /\ audit \in Seq(Frame) /\ auditSynced \in 0 .. Len(audit) /\ chain \in Seq(Frame \ {Torn})
        /\ checkpoints \in Seq(Checkpoint) /\ ckptSynced \in 0 .. Len(checkpoints)
    BY DEF Init
  <2>3. answered \subseteq Frame /\ shadowed \subseteq answered /\ failed \in BOOLEAN
    BY Zenon DEF Init
  <2> QED
    BY <2>1, <2>2, <2>3 DEF AuditTypeOK
<1>5. ChainInv
  BY DEF Init, ChainInv, Intact
<1>6. LogInv
  BY DEF Init, LogInv
<1> QED
  BY <1>3, <1>4, <1>5, <1>6 DEF SignerInv, AuditInv

(* Every step keeps both halves of the invariant and is a step of the       *)
(* abstract promise.                                                        *)
LEMMA StepInv ==
  ASSUME SignerInv, [Next]_vars
  PROVE  SignerInv' /\ [Promise!Next]_(Promise!vars)
<1> USE DEF SignerInv
<1>1. CASE TryRefused
  <2>1. AuditInv'
    BY Zenon, <1>1, TryAudit, NextRequest DEF TryRefused, Begin, AuditInv, historyVars
  <2> QED
    BY <1>1, <2>1, TryRefusedGuard
<1>2. CASE TrySigned
  <2>1. AuditInv'
    BY Zenon, <1>2, TryAudit, NextRequest DEF TrySigned, Begin, AuditInv, historyVars
  <2> QED
    BY <1>2, <2>1, TrySignedGuard
<1>3. CASE Flushing
  <2>1. AuditInv'
    BY Zenon, <1>3, TryAudit DEF Flushing, signerVars, historyVars, AuditInv, AuditTypeOK, ChainInv
  <2> QED
    BY <1>3, <2>1, FlushingGuard
<1>4. CASE FlushReturns
  <2>1. AuditInv'
    BY Zenon, <1>4, TryAudit DEF FlushReturns, AuditInv, AuditTypeOK, ChainInv
  <2> QED
    BY <1>4, <2>1, FlushReturnsGuard
<1>5. CASE AppendWrite
  <2>1. GuardInv' /\ [Promise!Next]_(Promise!vars)
    BY Zenon, <1>5, GuardQuiet DEF AppendWrite, AppendError
  <2> QED
    BY <1>5, <2>1, AppendWriteAudit
<1>6. CASE AppendSync
  <2>1. GuardInv' /\ [Promise!Next]_(Promise!vars)
    BY Zenon, <1>6, GuardQuiet DEF AppendSync, AppendError
  <2> QED
    BY <1>6, <2>1, AppendSyncAudit
<1>7. CASE CheckpointWrite
  <2>1. GuardInv' /\ [Promise!Next]_(Promise!vars)
    BY Zenon, <1>7, GuardQuiet DEF CheckpointWrite, historyVars
  <2> QED
    BY <1>7, <2>1, CheckpointWriteAudit
<1>8. CASE CheckpointSync
  <2>1. GuardInv' /\ [Promise!Next]_(Promise!vars)
    BY Zenon, <1>8, GuardQuiet DEF CheckpointSync, historyVars
  <2> QED
    BY <1>8, <2>1, CheckpointSyncAudit
<1>9. CASE UNCHANGED vars
  <2>1. GuardTypeOK' /\ StoreInv(up)'
    BY Zenon, <1>9, StoreUnchanged DEF vars, signerVars, historyVars, GuardInv, GuardTypeOK
  <2>2. GuardInv' /\ [Promise!Next]_(Promise!vars)
    BY Zenon, <1>9, <2>1 DEF vars, storeVars, signerVars, historyVars, GuardInv, ReleasedIsDurable,
       Promise!vars, InHand, Backed
  <2> QED
    BY <1>9, <2>2, AuditUnchanged DEF vars
<1>10. CASE FlushUnsynced
  <2>1. AuditInv'
    BY Zenon, <1>10, TryAudit DEF FlushUnsynced, signerVars, AuditInv, AuditTypeOK, ChainInv
  <2> QED
    BY <1>10, <2>1, FlushUnsyncedGuard
<1>11. CASE WriteBack
  <2>1. AuditInv'
    BY <1>11, AuditUnchanged DEF WriteBack
  <2> QED
    BY <1>11, <2>1, WriteBackGuard
<1> QED
  BY Zenon, <1>1, <1>2, <1>3, <1>4, <1>5, <1>6, <1>7, <1>8, <1>9, <1>10, <1>11, ReplyGuard, ReplyAudit,
     KillGuard, KillAudit, PowerLossGuard, PowerLossAudit, StartGuard, StartAudit DEF Next

(* The inductive invariant holds of every reachable state.                  *)
THEOREM SignerInvariant == Spec => []SignerInv
<1>1. SignerInv /\ [Next]_vars => SignerInv'
  BY StepInv
<1> QED
  BY InitInv, <1>1, PTL DEF Spec

(* The variables of the signer keep their types; in particular at most one  *)
(* attestation is in hand, and the interval counter stays below             *)
(* AUDIT_CHECKPOINT_INTERVAL.                                               *)
THEOREM SignerTypeCorrect == Spec => []SignerTypeOK
<1>1. SignerInv => SignerTypeOK
  <2> SUFFICES ASSUME SignerInv PROVE SignerTypeOK
    OBVIOUS
  <2>1. signing \in SUBSET Attestation
    BY Zenon DEF SignerInv, GuardInv, GuardTypeOK
  <2>2. \A a, b \in signing : a = b
    BY Zenon DEF SignerInv, GuardInv, GuardTypeOK
  <2> QED
    BY Zenon DEF SignerInv, GuardInv, GuardTypeOK, AuditInv, AuditTypeOK, SignerTypeOK
<1> QED
  BY SignerInvariant, <1>1, PTL

(* A Strict signer never signs two conflicting attestations unless one of   *)
(* them is of a record_and_flush that never saw its directory fsync         *)
(* succeed.                                                                 *)
THEOREM SignerNeverEquivocates == Spec => []EquivocationNeedsUnsavedRecord
<1>1. SignerInv => EquivocationNeedsUnsavedRecord
  BY DEF SignerInv, GuardInv, ReleasedIsDurable, EquivocationNeedsUnsavedRecord
<1> QED
  BY SignerInvariant, <1>1, PTL

(* The Strict lives of the signer implement the abstract promise.           *)
THEOREM SignerKeepsPromise == Spec => KeepsPromise
<1>1. Init => Promise!Init
  BY DEF Init, StoreInit, NoFile, EmptyLog, Promise!Init
<1>2. SignerInv /\ [Next]_vars => [Promise!Next]_(Promise!vars)
  BY StepInv
<1> QED
  BY SignerInvariant, <1>1, <1>2, PTL DEF Spec, KeepsPromise, Promise!Spec

(* What the next start replays reaches as far as the intact frames do.      *)
LEMMA ReplayReaches ==
  ASSUME AuditTypeOK
  PROVE  \E k \in 0 .. auditSynced :
           /\ Readable(Prefix(audit, auditSynced), Torn) = Prefix(Prefix(audit, auditSynced), k)
           /\ Len(Prefix(Prefix(audit, auditSynced), k)) = k
           /\ Prefix(Prefix(audit, auditSynced), k) \in Seq(Frame)
           /\ \A i \in 1 .. k : Prefix(Prefix(audit, auditSynced), k)[i] = audit[i]
           /\ \A m : Intact(m) => m \in 0 .. k
<1> DEFINE log == Prefix(audit, auditSynced)
<1>1. audit \in Seq(Frame) /\ auditSynced \in 0 .. Len(audit)
  BY DEF AuditTypeOK
<1>2. log \in Seq(Frame) /\ Len(log) = auditSynced /\ \A i \in 1 .. auditSynced : log[i] = audit[i]
  BY <1>1, PrefixFacts
<1> HIDE DEF log
<1>3. PICK k \in 0 .. Len(log) : /\ Readable(log, Torn) = Prefix(log, k)
                                 /\ \A i \in 1 .. k : log[i] # Torn
                                 /\ k < Len(log) => log[k + 1] = Torn
  BY Zenon, <1>2, ReadableFacts
<1>4. /\ Prefix(log, k) \in Seq(Frame) /\ Len(Prefix(log, k)) = k
      /\ \A i \in 1 .. k : Prefix(log, k)[i] = log[i]
  BY <1>2, PrefixFacts
<1>5. k \in 0 .. auditSynced /\ auditSynced \in Nat
  BY <1>2
<1>6. \A i \in 1 .. k : Prefix(log, k)[i] = audit[i]
  BY <1>2, <1>4
<1>7. ASSUME NEW m, Intact(m)
      PROVE  m \in 0 .. k
  <2>1. m \in 0 .. auditSynced /\ \A j \in 1 .. m : audit[j] # Torn
    BY <1>7 DEF Intact
  <2>2. ~(k < m)
    <3> SUFFICES ASSUME k < m PROVE FALSE
      OBVIOUS
    <3>1. k + 1 \in 1 .. m /\ k < Len(log) /\ k + 1 \in 1 .. auditSynced
      BY <1>2, <2>1
    <3>2. audit[k + 1] = Torn
      BY Zenon, <1>2, <1>3, <3>1
    <3> QED
      BY <2>1, <3>2
  <2> QED
    BY <2>1, <2>2
<1> QED
  BY Zenon, <1>3, <1>4, <1>5, <1>6, <1>7 DEF log

(* Only signatures returned after a failed append can be missing from the   *)
(* audit log that the next start replays.                                   *)
THEOREM SignerAuditsSignatures == Spec => []AuditGapNeedsAppendError
<1>1. SignerInv => AuditGapNeedsAppendError
  <2> SUFFICES ASSUME SignerInv, NEW n \in answered \ shadowed
               PROVE  n \in Replayed
    BY DEF AuditGapNeedsAppendError
  <2> DEFINE r == Readable(Prefix(audit, auditSynced), Torn)
  <2>1. AuditTypeOK /\ Audited(n)
    BY DEF SignerInv, AuditInv, LogInv
  <2>2. PICK m \in 1 .. auditSynced : Intact(m) /\ audit[m] = n
    BY <2>1 DEF Audited
  <2>3. PICK k \in 0 .. auditSynced :
          /\ Len(r) = k /\ r \in Seq(Frame)
          /\ \A i \in 1 .. k : r[i] = audit[i]
          /\ \A x : Intact(x) => x \in 0 .. k
    BY Zenon, <2>1, ReplayReaches
  <2> HIDE DEF r
  <2>4. m \in DOMAIN r /\ r[m] = n
    BY <2>2, <2>3
  <2> QED
    BY <2>4 DEF Replayed, r
<1> QED
  BY SignerInvariant, <1>1, PTL

(* A checkpoint written by a process with no failed append matches the log  *)
(* that the next start replays: verify_audit_checkpoints raises no false    *)
(* alarm.                                                                   *)
THEOREM SignerCheckpointsVerify == Spec => []CheckpointsVerify
<1>1. SignerInv => CheckpointsVerify
  <2> DEFINE readable == Readable(checkpoints, TornCheckpoint)
             log == Readable(Prefix(audit, auditSynced), Torn)
  <2> SUFFICES ASSUME SignerInv, NEW i \in DOMAIN readable, readable[i].clean
               PROVE  /\ Len(readable[i].head) <= Len(log)
                      /\ Prefix(log, Len(readable[i].head)) = readable[i].head
    BY Zenon DEF CheckpointsVerify
  <2>1. AuditTypeOK /\ checkpoints \in Seq(Checkpoint)
    BY Zenon DEF SignerInv, AuditInv, AuditTypeOK
  <2>2. PICK k \in 0 .. auditSynced :
          /\ Len(log) = k /\ log \in Seq(Frame)
          /\ \A j \in 1 .. k : log[j] = audit[j]
          /\ \A x : Intact(x) => x \in 0 .. k
    BY Zenon, <2>1, ReplayReaches
  <2>3. PICK n \in 0 .. Len(checkpoints) :
          /\ readable = Prefix(checkpoints, n)
          /\ \A j \in 1 .. n : checkpoints[j] # TornCheckpoint
    BY <2>1, ReadableFacts
  <2> HIDE DEF readable, log
  <2>4. /\ Prefix(checkpoints, n) \in Seq(Checkpoint) /\ Len(Prefix(checkpoints, n)) = n
        /\ \A j \in 1 .. n : Prefix(checkpoints, n)[j] = checkpoints[j]
    BY <2>1, PrefixFacts
  <2>5. i \in 1 .. n /\ readable[i] = checkpoints[i] /\ i \in DOMAIN checkpoints
    BY <2>3, <2>4
  <2> DEFINE h == checkpoints[i].head
  <2>6. h \in Seq(Frame) /\ Verifies(checkpoints[i])
    BY Zenon, <2>3, <2>5, CheckpointType DEF SignerInv, AuditInv, LogInv
  <2>7. Intact(Len(h)) /\ \A j \in 1 .. Len(h) : audit[j] = h[j]
    BY Zenon, <2>6 DEF Verifies
  <2> HIDE DEF h
  <2>8. Len(h) \in 0 .. k
    BY <2>2, <2>7
  <2>9. /\ Prefix(log, Len(h)) \in Seq(Frame) /\ Len(Prefix(log, Len(h))) = Len(h)
        /\ \A j \in 1 .. Len(h) : Prefix(log, Len(h))[j] = log[j]
    BY Zenon, <2>2, <2>8, PrefixFacts
  <2>10. \A j \in 1 .. Len(h) : Prefix(log, Len(h))[j] = h[j]
    BY <2>2, <2>7, <2>9
  <2>11. Prefix(log, Len(h)) = h
    BY <2>6, <2>9, <2>10
  <2>12. Len(h) <= Len(log)
    BY <2>2, <2>8
  <2> QED
    BY <2>5, <2>11, <2>12 DEF h
<1> QED
  BY SignerInvariant, <1>1, PTL
=============================================================================
