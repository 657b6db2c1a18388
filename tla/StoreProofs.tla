---------------------------- MODULE StoreProofs ----------------------------
(***************************************************************************)
(* What each step of the equivocation-safety log preserves, for the proofs *)
(* of the programs that keep one.                                          *)
(***************************************************************************)
EXTENDS SignedEpochStore, TLAPS

(* "Holds every record of" is a preorder on logs.                          *)
LEMMA ExtendsReflexive ==
  ASSUME NEW l \in Log
  PROVE  Extends(l, l)
BY DEF Extends

LEMMA ExtendsTransitive ==
  ASSUME NEW l1 \in Log, NEW l2 \in Log, NEW l3 \in Log,
         Extends(l1, l2), Extends(l2, l3)
  PROVE  Extends(l1, l3)
BY DEF Extends

(* The images and logs the steps build are images and logs.                *)
LEMMA EmptyTypes == EmptyLog \in Log /\ NoFile \in Image
BY DEF EmptyLog, NoFile, Log, Image

LEMMA StoreInitInv ==
  ASSUME StoreInit
  PROVE  StoreTypeOK /\ StoreInv(TRUE)
<1>1. StoreTypeOK
  BY EmptyTypes DEF StoreInit, StoreTypeOK, FlushStages
<1>2. StoreInv(TRUE)
  BY EmptyTypes DEF StoreInit, StoreInv, NoFile, Extends
<1> QED
  BY <1>1, <1>2

(* A new record joins the log in memory: none is replaced.                 *)
LEMMA RecordInv ==
  ASSUME NEW e \in Epochs, NEW t \in Targets,
         StoreTypeOK, StoreInv(TRUE),
         records[e] = NoRecord,
         record_and_flush(e, t)
  PROVE  /\ StoreTypeOK' /\ StoreInv(TRUE)'
         /\ file.log[e] = NoRecord /\ durable.log[e] = NoRecord
         /\ records'[e] = t
<1>1. StoreTypeOK'
  BY DEF StoreTypeOK, record_and_flush, Log, FlushStages
<1>2. Extends(file.log, records')
  BY DEF StoreTypeOK, StoreInv, record_and_flush, Log, Extends
<1>3. StoreInv(TRUE)'
  BY <1>2 DEF StoreInv, record_and_flush, Extends
<1>4. file.log[e] = NoRecord /\ durable.log[e] = NoRecord
  BY DEF StoreInv, Extends
<1>5. records'[e] = t
  BY DEF record_and_flush, StoreTypeOK, Log
<1> QED
  BY <1>1, <1>3, <1>4, <1>5

(* No step of a flush touches the records in memory, or takes a record     *)
(* back from stable storage; only the directory fsync moves stable storage *)
(* at all, and then to exactly the records in memory.  The file itself     *)
(* changes only with the rename.                                           *)
LEMMA FlushStepInv ==
  ASSUME StoreTypeOK, StoreInv(TRUE), FlushStep
  PROVE  /\ StoreTypeOK' /\ StoreInv(TRUE)'
         /\ records' = records
         /\ flush' # "idle" /\ flush # "idle" /\ flush \notin {"ok", "err"}
         /\ flush' # "ok" => durable' = durable
         /\ flush' = "ok" => durable'.log = records
         /\ flush' \in {"write", "sync", "rename", "err"} =>
              flush \in {"write", "sync", "rename"} /\ file' = file
         /\ Extends(durable.log, durable'.log)
<1>1. CASE WriteTmp
  BY <1>1, ExtendsReflexive
     DEF WriteTmp, StoreTypeOK, StoreInv, Image, FlushStages, Extends
<1>2. CASE SyncTmp
  BY <1>2, ExtendsReflexive
     DEF SyncTmp, StoreTypeOK, StoreInv, Image, FlushStages, Extends
<1>3. CASE Rename
  BY <1>3, EmptyTypes
     DEF Rename, StoreTypeOK, StoreInv, Image, FlushStages, Extends
<1>4. CASE SyncDir
  BY <1>4, ExtendsReflexive
     DEF SyncDir, StoreTypeOK, StoreInv, Image, FlushStages, Extends
<1>5. CASE FlushError
  BY <1>5 DEF FlushError, StoreTypeOK, StoreInv, Image, FlushStages, Extends
<1> QED
  BY <1>1, <1>2, <1>3, <1>4, <1>5 DEF FlushStep

LEMMA SyncDirFailsInv ==
  ASSUME StoreTypeOK, StoreInv(TRUE), SyncDirFails
  PROVE  StoreTypeOK' /\ StoreInv(TRUE)'
BY DEF SyncDirFails, StoreTypeOK, StoreInv, FlushStages, Extends

LEMMA TakeFlushResultInv ==
  ASSUME StoreTypeOK, StoreInv(TRUE), flush \in {"ok", "err"}, TakeFlushResult
  PROVE  StoreTypeOK' /\ StoreInv(TRUE)'
BY EmptyTypes DEF TakeFlushResult, StoreTypeOK, StoreInv, FlushStages, Extends

(* A kill leaves the files alone.                                          *)
LEMMA KillInv ==
  ASSUME StoreTypeOK, StoreInv(TRUE), KillStore
  PROVE  StoreTypeOK' /\ StoreInv(FALSE)'
BY EmptyTypes DEF KillStore, StoreTypeOK, StoreInv, FlushStages, Extends

(* A write-back takes no record back from stable storage.                  *)
LEMMA WriteBackInv ==
  ASSUME NEW u \in BOOLEAN, StoreTypeOK, StoreInv(u), WriteBackStore
  PROVE  /\ StoreTypeOK' /\ StoreInv(u)'
         /\ Extends(durable.log, durable'.log)
<1>1. StoreTypeOK'
  BY DEF WriteBackStore, StoreTypeOK
<1>2. Extends(durable.log, durable'.log)
  BY DEF WriteBackStore, StoreInv
<1>3. StoreInv(u)'
  BY ExtendsReflexive DEF WriteBackStore, StoreTypeOK, Image, StoreInv, Extends
<1> QED
  BY <1>1, <1>2, <1>3

(* A power loss brings back stable storage, which parses.                  *)
LEMMA PowerLossInv ==
  ASSUME NEW u \in BOOLEAN, StoreTypeOK, StoreInv(u), PowerLossStore
  PROVE  /\ StoreTypeOK' /\ StoreInv(FALSE)'
         /\ file' = durable /\ durable' = durable
<1>1. file' = durable /\ durable' = durable
  BY DEF PowerLossStore, StoreInv, StoreTypeOK, Image
<1>2. StoreTypeOK'
  BY <1>1, EmptyTypes DEF PowerLossStore, StoreTypeOK, FlushStages
<1>3. StoreInv(FALSE)'
  BY <1>1 DEF PowerLossStore, StoreInv, Extends
<1> QED
  BY <1>1, <1>2, <1>3

(* A restart brings every record of the file back into memory.             *)
LEMMA LoadInv ==
  ASSUME StoreTypeOK, StoreInv(FALSE), load_or_empty
  PROVE  /\ StoreTypeOK' /\ StoreInv(TRUE)'
         /\ flush = "idle" /\ flush' = "idle"
         /\ records' = file.log /\ durable' = durable
<1>1. flush = "idle"
  BY DEF StoreInv
<1>2. StoreTypeOK'
  BY DEF load_or_empty, StoreTypeOK, Image
<1>3. StoreInv(TRUE)'
  BY <1>1 DEF load_or_empty, StoreInv, Extends
<1> QED
  BY <1>1, <1>2, <1>3 DEF load_or_empty
=============================================================================
