------------------------------ MODULE Attestor ------------------------------
(***************************************************************************)
(* The stand-alone validator daemon (kaspa-pq-validator run): it polls a   *)
(* node for the ready attestation targets of its bond and, one after the   *)
(* other, signs each under the equivocation guard, persists the record and *)
(* submits the funded shard transaction.                                   *)
(*                                                                         *)
(* The node is untrusted for liveness: a reorganisation may move the       *)
(* anchor of an epoch, so every poll may offer any target for any epoch.   *)
(* Whether a funding output is found is a nondeterministic choice.         *)
(***************************************************************************)
EXTENDS SignedEpochStore, Sequences

CONSTANT CATCH_UP_LIMIT   \* targets per poll

ASSUME CatchUpAssumption == CATCH_UP_LIMIT \in Nat \ {0}

VARIABLES
  up,        \* the process is running
  dry_run,   \* its --dry-run flag
  pc,        \* "sleep", "batch", "flush" or "submit"
  batch,     \* the targets of this poll still to do, <<epoch, target>>
  cursor,    \* last_attested_epoch + 1, 0 for None
  released,  \* history: the attestations ever handed to the node
  unsaved    \* history: the attestations whose record_and_flush did not end with
             \* a successful fsync of the directory

attestorVars == <<up, dry_run, pc, batch, cursor, released, unsaved>>
vars == <<storeVars, attestorVars>>

Attestation == Epochs \X Targets

AttestorTypeOK ==
  /\ StoreTypeOK
  /\ up \in BOOLEAN
  /\ dry_run \in BOOLEAN
  /\ pc \in {"sleep", "batch", "flush", "submit"}
  /\ batch \in Seq(Attestation)
  /\ cursor \in Nat
  /\ released \subseteq Attestation
  /\ unsaved \subseteq Attestation

Init ==
  /\ StoreInit
  /\ up = TRUE
  /\ dry_run \in BOOLEAN
  /\ pc = "sleep"
  /\ batch = <<>>
  /\ cursor = 0
  /\ released = {}
  /\ unsaved = {}

-----------------------------------------------------------------------------
\* The ready targets a node returns: deficient epochs ascending, or the
\* certified ones newest first.
ReadyTargets(from) ==
  {s \in UNION {[1 .. n -> Attestation] : n \in 1 .. CATCH_UP_LIMIT} :
     /\ \A i \in DOMAIN s : s[i][1] >= from
     /\ \/ \A i, j \in DOMAIN s : i < j => s[i][1] < s[j][1]
        \/ \A i, j \in DOMAIN s : i < j => s[i][1] > s[j][1]}

\* run_loop, bond active: fetch the batch.
Poll ==
  /\ up /\ pc = "sleep"
  /\ batch' \in ReadyTargets(cursor)
  /\ pc' = "batch"
  /\ UNCHANGED <<storeVars, up, dry_run, cursor, released, unsaved>>

epoch == batch[1][1]
target == batch[1][2]

\* The cursor is set to the epoch before the attested one.
AttestOk_Short ==
  /\ cursor' = epoch - 1
  /\ batch' = Tail(batch)
  /\ pc' = "batch"

\* attest returned Ok: the cursor advances and the batch goes on.
AttestOk ==
  /\ cursor' = IF epoch + 1 > cursor THEN epoch + 1 ELSE cursor
  /\ batch' = Tail(batch)
  /\ pc' = "batch"

\* attest returned Err: the batch stops here, the next poll retries.
AttestErr ==
  /\ batch' = <<>>
  /\ pc' = "sleep"
  /\ UNCHANGED cursor

BatchDone ==
  /\ up /\ pc = "batch" /\ batch = <<>>
  /\ pc' = "sleep"
  /\ UNCHANGED <<storeVars, up, dry_run, batch, cursor, released, unsaved>>

\* An epoch the cursor has passed is skipped, and so is one whose anchor predates
\* the activation of the bond (any of them may).
SkipTarget ==
  /\ up /\ pc = "batch" /\ batch # <<>>
  /\ batch' = Tail(batch)
  /\ UNCHANGED <<storeVars, up, dry_run, pc, cursor, released, unsaved>>

\* The guard refuses, or the dry run ends after the guard: nothing is signed.
AttestNothing ==
  /\ up /\ pc = "batch" /\ batch # <<>>
  /\ epoch >= cursor
  /\ check(epoch, target) = "Block" \/ dry_run
  /\ AttestOk
  /\ UNCHANGED <<storeVars, up, dry_run, released, unsaved>>

\* The digest differs from the local recomputation, the signature does not
\* verify, or no funding output is found.
AttestFails ==
  /\ up /\ pc = "batch" /\ batch # <<>>
  /\ epoch >= cursor
  /\ AttestErr
  /\ UNCHANGED <<storeVars, up, dry_run, released, unsaved>>

\* Signed and funded.  A first signature is recorded before it is submitted; a
\* repeated one is on record already.
AttestSign ==
  /\ up /\ pc = "batch" /\ batch # <<>>
  /\ epoch >= cursor
  /\ ~dry_run
  /\ \/ /\ check(epoch, target) = "Allow"
        /\ record_and_flush(epoch, target)
        /\ pc' = "flush"
     \/ /\ check(epoch, target) = "AllowRebroadcast"
        /\ pc' = "submit"
        /\ UNCHANGED storeVars
  /\ UNCHANGED <<up, dry_run, batch, cursor, released, unsaved>>

Flushing ==
  /\ up /\ pc = "flush"
  /\ FlushStep
  /\ UNCHANGED attestorVars

\* The fsync of the directory fails, and record_and_flush goes on.
FlushUnsynced ==
  /\ up /\ pc = "flush"
  /\ SyncDirFails
  /\ unsaved' = unsaved \cup {batch[1]}
  /\ UNCHANGED <<up, dry_run, pc, batch, cursor, released>>

FlushReturns ==
  /\ up /\ pc = "flush"
  /\ flush \in {"ok", "err"}
  /\ TakeFlushResult
  /\ \/ /\ flush = "ok"
        /\ pc' = "submit"
        /\ UNCHANGED <<batch, cursor, unsaved>>
     \/ /\ flush = "err"
        /\ AttestErr
        /\ unsaved' = unsaved \cup {batch[1]}
  /\ UNCHANGED <<up, dry_run, released>>

\* submit_transaction: accepted, rejected, or accepted with the reply lost.
Submit ==
  /\ up /\ pc = "submit"
  /\ \/ released' = released \cup {batch[1]} /\ AttestOk
     \/ released' \in {released, released \cup {batch[1]}} /\ AttestErr
  /\ UNCHANGED <<storeVars, up, dry_run, unsaved>>

GoesDown ==
  /\ up' = FALSE
  /\ pc' = "sleep"
  /\ batch' = <<>>
  /\ cursor' = 0
  /\ UNCHANGED <<dry_run, released>>

\* A process killed between the rename and the fsync of the directory leaves a
\* record that its successor reads and a power loss may still take away.
Kill ==
  /\ up
  /\ KillStore
  /\ GoesDown
  /\ unsaved' = IF flush = "syncdir" THEN unsaved \cup {batch[1]} ELSE unsaved

WriteBack ==
  /\ WriteBackStore
  /\ UNCHANGED attestorVars

PowerLoss ==
  /\ PowerLossStore
  /\ GoesDown
  /\ UNCHANGED unsaved

\* Attestor::load
Start ==
  /\ ~up
  /\ load_or_empty
  /\ up' = TRUE
  /\ dry_run' \in BOOLEAN
  /\ UNCHANGED <<pc, batch, cursor, released, unsaved>>

Next ==
  \/ Poll \/ BatchDone \/ SkipTarget
  \/ AttestNothing \/ AttestFails \/ AttestSign
  \/ Flushing \/ FlushUnsynced \/ FlushReturns \/ Submit
  \/ Kill \/ WriteBack \/ PowerLoss \/ Start

Spec == Init /\ [][Next]_vars

-----------------------------------------------------------------------------
(* No two attestations of one epoch for different targets ever leave the   *)
(* host, through any sequence of polls, moved anchors, failed submissions, *)
(* crashes and restarts: what the persist-before-broadcast comment of      *)
(* Attestor::attest claims without qualification.  It fails once an        *)
(* attestation is released whose record was not forced to disk.            *)
NoEquivocation ==
  \A a, b \in released : a[1] = b[1] => a[2] = b[2]

(* Of two conflicting attestations that left the host, at least one is of  *)
(* a record_and_flush that never saw its directory fsync succeed: it       *)
(* returned an error, it ignored a failure of that fsync, or the process   *)
(* was killed between the rename and that fsync (the successor then        *)
(* rebroadcasts on AllowRebroadcast without a flush of its own).  There is *)
(* no other way to an equivocation.                                        *)
EquivocationNeedsUnsavedRecord ==
  \A a, b \in released \ unsaved : a[1] = b[1] => a[2] = b[2]

(* An attestation leaves the host only when a power loss at that very      *)
(* moment would leave its record on disk: record_and_flush comes before    *)
(* submit_transaction, and on the rebroadcast path the record is one of an *)
(* earlier flush, perhaps of an earlier process.  The exceptions are again *)
(* the attestations whose flush never saw its directory fsync succeed.     *)
ReleasedIsDurable ==
  \A a \in released \ unsaved : durable.log[a[1]] = a[2]

(* Whatever the moment of a kill or a power loss, the log on disk parses,  *)
(* so that load_or_empty can bring the validator back with all its         *)
(* records: the temp file is synced before it is renamed over the log.     *)
LogReadable == ~up => file.bytes # "torn"

(* The daemon keeps the promise of the abstract guard, with the log on     *)
(* stable storage as its commitments, for every attestation whose flush    *)
(* saw its directory fsync succeed: commitments are never withdrawn or     *)
(* replaced, and only committed targets are released.                      *)
Promise == INSTANCE SigningPromise
  WITH committed <- durable.log, released <- released \ unsaved
KeepsPromise == Promise!Spec
=============================================================================
