-------------------------- MODULE SignedEpochStore --------------------------
(***************************************************************************)
(* The equivocation-safety log of a validator (SignedEpochStore of         *)
(* kaspa-pq-validator-core): one record per attestation epoch, held in     *)
(* memory and rewritten to disk as a whole by a temp-file / fsync / rename *)
(* / directory-fsync sequence.  The process may be killed, and the host    *)
(* may lose power, between any two of those file operations.               *)
(*                                                                         *)
(* The (target_hash, target_daa_score) pair the guard compares is one      *)
(* element of Targets; the signature fingerprint, which the guard ignores, *)
(* is left out.  A file is a log plus the state of its bytes: in the page  *)
(* cache only, forced to stable storage, or lost with the cache.  An       *)
(* absent file loads as the empty log.                                     *)
(***************************************************************************)
EXTENDS Naturals

CONSTANTS
  Epochs,        \* the attestation epochs
  Targets,       \* the anchors an attestation may approve
  NoRecord,      \* "no record for this epoch"
  FlushMayFail   \* whether the file operations of a flush may return errors

ASSUME StoreAssumption ==
  /\ Epochs \subseteq Nat
  /\ NoRecord \notin Targets
  /\ FlushMayFail \in BOOLEAN

VARIABLES
  records,   \* SignedEpochStore::records, in memory
  tmp,       \* <path>.json.tmp
  file,      \* <path>, as the running system sees it
  durable,   \* <path>, as a power loss would leave it: the renamed file may
             \* not have reached the directory on disk yet
  flush      \* how far the running record_and_flush has come

storeVars == <<records, tmp, file, durable, flush>>

Log == [Epochs -> Targets \cup {NoRecord}]
Image == [log : Log, bytes : {"cached", "synced", "torn"}]
EmptyLog == [e \in Epochs |-> NoRecord]
NoFile == [log |-> EmptyLog, bytes |-> "synced"]

FlushStages == {"idle", "write", "sync", "rename", "syncdir", "ok", "err"}

StoreTypeOK ==
  /\ records \in Log
  /\ tmp \in Image
  /\ file \in Image
  /\ durable \in Image
  /\ flush \in FlushStages

StoreInit ==
  /\ records = EmptyLog
  /\ tmp = NoFile
  /\ file = NoFile
  /\ durable = NoFile
  /\ flush = "idle"

-----------------------------------------------------------------------------
(* Reading the log.                                                        *)

check_signed_epoch_record(prev, target) ==
  IF prev = NoRecord THEN "Allow"
  ELSE IF prev = target THEN "AllowRebroadcast"
  ELSE "Block"

\* A guard that compares the epoch only, and takes any second request for a rebroadcast.
check_EpochOnly(e, t) == IF records[e] = NoRecord THEN "Allow" ELSE "AllowRebroadcast"

check(e, t) == check_signed_epoch_record(records[e], t)

SignedEpochs == {e \in Epochs : records[e] # NoRecord}

-----------------------------------------------------------------------------
(* record_and_flush: the in-memory insert, then one step per file          *)
(* operation.  The caller holds the store for all of them.                 *)

record_and_flush(e, t) ==
  /\ flush = "idle"
  /\ records' = [records EXCEPT ![e] = t]
  /\ flush' = "write"
  /\ UNCHANGED <<tmp, file, durable>>

\* The file is serialised without the new record.
WriteTmp_Stale ==
  /\ flush = "write"
  /\ tmp' = [log |-> file.log, bytes |-> "cached"]
  /\ flush' = "sync"
  /\ UNCHANGED <<records, file, durable>>

WriteTmp ==
  /\ flush = "write"
  /\ tmp' = [log |-> records, bytes |-> "cached"]
  /\ flush' = "sync"
  /\ UNCHANGED <<records, file, durable>>

\* The fsync of the temp file is forgotten.
SyncTmp_Skipped ==
  /\ flush = "sync"
  /\ flush' = "rename"
  /\ UNCHANGED <<records, tmp, file, durable>>

SyncTmp ==
  /\ flush = "sync"
  /\ tmp' = [tmp EXCEPT !.bytes = "synced"]
  /\ flush' = "rename"
  /\ UNCHANGED <<records, file, durable>>

Rename ==
  /\ flush = "rename"
  /\ file' = tmp
  /\ tmp' = NoFile
  /\ flush' = "syncdir"
  /\ UNCHANGED <<records, durable>>

SyncDir ==
  /\ flush = "syncdir"
  /\ durable' = file
  /\ flush' = "ok"
  /\ UNCHANGED <<records, tmp, file>>

\* The parent directory cannot be opened, or its fsync fails: record_and_flush
\* ignores it and returns Ok.
SyncDirFails ==
  /\ FlushMayFail
  /\ flush = "syncdir"
  /\ flush' = "ok"
  /\ UNCHANGED <<records, tmp, file, durable>>

\* A fallible file operation returns an error: the log file is as it was, and
\* the in-memory insert stays.
FlushError ==
  /\ FlushMayFail
  /\ flush \in {"write", "sync", "rename"}
  /\ flush' = "err"
  /\ UNCHANGED <<records, tmp, file, durable>>

FlushStep == WriteTmp \/ SyncTmp \/ Rename \/ SyncDir \/ FlushError

\* The caller takes the result of record_and_flush.  A temp file left behind is
\* never read, and the model forgets it.
TakeFlushResult ==
  /\ flush' = "idle"
  /\ tmp' = NoFile
  /\ UNCHANGED <<records, file, durable>>

-----------------------------------------------------------------------------
(* What happens around the program.  A killed process leaves the files as  *)
(* they are.  A renamed file reaches the directory on disk when the        *)
(* operating system writes it back, at any time.  A power loss brings back *)
(* what is on disk, where bytes that were only cached may be missing.      *)

KillStore ==
  /\ records' = EmptyLog
  /\ flush' = "idle"
  /\ tmp' = NoFile
  /\ UNCHANGED <<file, durable>>

WriteBackStore ==
  /\ file # durable
  /\ durable' = file
  /\ UNCHANGED <<records, tmp, file, flush>>

PowerLossStore ==
  /\ \E left \in IF durable.bytes = "cached" THEN {"synced", "torn"} ELSE {durable.bytes} :
       file' = [durable EXCEPT !.bytes = left]
  /\ durable' = file'
  /\ records' = EmptyLog
  /\ flush' = "idle"
  /\ tmp' = NoFile

\* A file that does not parse stops the start.
load_or_empty ==
  /\ file.bytes # "torn"
  /\ records' = file.log
  /\ UNCHANGED <<tmp, file, durable, flush>>

-----------------------------------------------------------------------------
(* l2 holds every record of l1.                                            *)
Extends(l1, l2) == \A e \in Epochs : l1[e] # NoRecord => l2[e] = l1[e]

(* What stable storage knows the file knows, and what the file knows a     *)
(* running validator knows: a record is never lost or replaced on the way  *)
(* to disk.  The stage of a flush says which copies already agree.         *)
StoreInv(up) ==
  /\ file.bytes = "synced" /\ durable.bytes = "synced"
  /\ Extends(durable.log, file.log)
  /\ up => Extends(file.log, records)
  /\ flush # "idle" => up
  /\ flush \in {"sync", "rename"} => tmp.log = records
  /\ flush = "rename" => tmp.bytes = "synced"
  /\ flush \in {"syncdir", "ok"} => file.log = records
=============================================================================
