------------------------------- MODULE Signer -------------------------------
(***************************************************************************)
(* The remote signer daemon (kaspa-pq-signer): one request at a time, under *)
(* the state mutex, goes through the policy checks, the equivocation guard, *)
(* the append to the hash-chained audit log and, every                      *)
(* AUDIT_CHECKPOINT_INTERVAL records, a signed checkpoint of the chain      *)
(* head.  Any file operation may fail, and between any two of them the      *)
(* process may be killed or the host lose power.                            *)
(*                                                                         *)
(* One validator key is modelled; stores of several keys share nothing.     *)
(* Requests are numbered, and an audit record is the number of its request: *)
(* the log file is a sequence of frames, a frame cut short being Torn, and  *)
(* a chain hash is the sequence of records it was computed from.            *)
(* Clients are taken to send the epoch and target that the digest was       *)
(* computed from: try_sign cannot recompute it and takes them as given.     *)
(* The epoch store, which the code loads at its first use, is loaded at     *)
(* start.  An fsync of audit.log or audit.checkpoints is taken to make the  *)
(* directory entry of a newly created file durable with its bytes.          *)
(***************************************************************************)
EXTENDS SignedEpochStore, Sequences

CONSTANTS
  DeniedPurposes,              \* set_denied_purposes
  AUDIT_CHECKPOINT_INTERVAL,
  MaxRequests                  \* bound: requests handled

ASSUME SignerAssumption ==
  /\ AUDIT_CHECKPOINT_INTERVAL \in Nat \ {0}
  /\ MaxRequests \in Nat

VARIABLES
  up,
  policy,       \* "Strict", "AuditOnly" or "Permissive", chosen at start
  pc,           \* where handle_request stands, "idle" between requests
  request,      \* number of the request being handled (the last one when idle)
  signing,      \* the attestation its signature will carry, or none: a set
  result,       \* what try_sign returned: "signed" or "refused"
  audit,        \* audit.log, as the running system sees it
  auditSynced,  \* how many of its frames are on stable storage
  chain,        \* AuditLog::chain_hash (and record_count, its length)
  checkpoints,  \* audit.checkpoints, as the running system sees it
  ckptSynced,   \* how many of its frames are on stable storage
  appends_since_checkpoint,
  released,     \* history: attestations whose signature a Strict signer returned
  unsaved,      \* history: attestations whose record_and_flush did not end with
                \* a successful fsync of the directory
  answered,     \* history: requests answered with a signature
  failed,       \* history: an append returned an error since the last start
  shadowed      \* history: requests answered with a signature after that

signerVars == <<up, policy, pc, request, signing, result>>
auditVars == <<audit, auditSynced, chain>>
ckptVars == <<checkpoints, ckptSynced, appends_since_checkpoint>>
historyVars == <<released, unsaved, answered, failed, shadowed>>
vars == <<storeVars, signerVars, auditVars, ckptVars, historyVars>>

Attestation == Epochs \X Targets
Torn == 0
Frame == 0 .. MaxRequests
Checkpoint == [head : Seq(Frame), clean : BOOLEAN]
TornCheckpoint == [head |-> <<Torn>>, clean |-> TRUE]

SignerTypeOK ==
  /\ StoreTypeOK
  /\ up \in BOOLEAN
  /\ policy \in {"Strict", "AuditOnly", "Permissive"}
  /\ pc \in {"idle", "flush", "append", "sync", "checkpoint", "ckptsync", "reply"}
  /\ request \in Frame
  /\ signing \in SUBSET Attestation /\ \A a, b \in signing : a = b
  /\ result \in {"signed", "refused"}
  /\ audit \in Seq(Frame) /\ auditSynced \in 0 .. Len(audit)
  /\ chain \in Seq(Frame \ {Torn})
  /\ checkpoints \in Seq(Checkpoint) /\ ckptSynced \in 0 .. Len(checkpoints)
  /\ appends_since_checkpoint \in 0 .. AUDIT_CHECKPOINT_INTERVAL - 1
  /\ released \subseteq Attestation /\ unsaved \subseteq Attestation
  /\ answered \subseteq Frame /\ shadowed \subseteq answered
  /\ failed \in BOOLEAN

Init ==
  /\ StoreInit
  /\ up = TRUE
  /\ policy \in {"Strict", "AuditOnly", "Permissive"}
  /\ pc = "idle" /\ request = 0 /\ signing = {} /\ result = "refused"
  /\ audit = <<>> /\ auditSynced = 0 /\ chain = <<>>
  /\ checkpoints = <<>> /\ ckptSynced = 0 /\ appends_since_checkpoint = 0
  /\ released = {} /\ unsaved = {} /\ answered = {}
  /\ failed = FALSE /\ shadowed = {}

-----------------------------------------------------------------------------
(* try_sign.                                                               *)

Purposes == {"Attestation", "Unbond", "TakeoverToken", "Transaction"}
Contexts == Purposes \cup {"TooLong"}  \* the reserved ones, and one over 255 bytes

Request == [purpose : Purposes, digest : Purposes, context : Contexts,
            known_key : BOOLEAN, metadata : BOOLEAN]

\* The context is not bound to the purpose.
ContextBound_Unchecked(r) == TRUE

\* An overlay context belongs to its purpose; a transaction borrows none.
ContextBound(r) ==
  IF r.purpose = "Transaction"
  THEN r.context \notin {"Attestation", "Unbond", "TakeoverToken"}
  ELSE r.context = r.purpose

WellFormed(r) ==
  /\ r.purpose = r.digest
  /\ ContextBound(r)
  /\ r.purpose \notin DeniedPurposes
  /\ r.context # "TooLong"
  /\ r.known_key

Guarded(r) == r.purpose = "Attestation" /\ policy # "Permissive"

\* What a signature over attestation a is worth: one under the attestation
\* context verifies as an attestation, whatever the purpose of the request.
Carries(r, a) == IF r.context = "Attestation" THEN {a} ELSE {}

Begin ==
  /\ up /\ pc = "idle" /\ request < MaxRequests
  /\ request' = request + 1

\* Some request does not get through.
TryRefused ==
  /\ Begin
  /\ ~ \A r \in Request, a \in Attestation :
         /\ WellFormed(r)
         /\ Guarded(r) => r.metadata /\ ~(policy = "Strict" /\ check(a[1], a[2]) = "Block")
  /\ signing' = {} /\ result' = "refused"
  /\ pc' = "append"
  /\ UNCHANGED <<storeVars, up, policy, auditVars, ckptVars, historyVars>>

\* A first signature of an epoch is recorded before anything else happens.
TrySigned ==
  /\ Begin
  /\ \E r \in Request, a \in Attestation :
       /\ WellFormed(r)
       /\ Guarded(r) => r.metadata
       /\ \/ /\ Guarded(r) /\ check(a[1], a[2]) = "Allow"
             /\ record_and_flush(a[1], a[2])
             /\ pc' = "flush"
          \/ /\ Guarded(r) => \/ check(a[1], a[2]) = "AllowRebroadcast"
                              \/ check(a[1], a[2]) = "Block" /\ policy = "AuditOnly"
             /\ pc' = "append"
             /\ UNCHANGED storeVars
       /\ signing' = Carries(r, a)
  /\ result' = "signed"
  /\ UNCHANGED <<up, policy, auditVars, ckptVars, historyVars>>

Flushing ==
  /\ up /\ pc = "flush"
  /\ FlushStep
  /\ UNCHANGED <<signerVars, auditVars, ckptVars, historyVars>>

\* The fsync of the directory fails, and record_and_flush goes on.
FlushUnsynced ==
  /\ up /\ pc = "flush"
  /\ SyncDirFails
  /\ unsaved' = unsaved \cup signing
  /\ UNCHANGED <<signerVars, auditVars, ckptVars, released, answered, failed, shadowed>>

FlushReturns ==
  /\ up /\ pc = "flush"
  /\ flush \in {"ok", "err"}
  /\ TakeFlushResult
  /\ result' = IF flush = "ok" THEN "signed" ELSE "refused"
  /\ unsaved' = IF flush = "ok" THEN unsaved ELSE unsaved \cup signing
  /\ pc' = "append"
  /\ UNCHANGED <<up, policy, request, signing, auditVars, ckptVars, released, answered, failed, shadowed>>

-----------------------------------------------------------------------------
(* AuditLog::append, write_audit_checkpoint and the reply.                 *)

\* What a write that is cut short may have left behind.
FailedWrite(s, torn) == {s, Append(s, torn)}

\* An append that failed: the request is refused.
AppendError ==
  /\ result' = "refused"
  /\ failed' = TRUE
  /\ pc' = "reply"
  /\ UNCHANGED <<auditSynced, chain, ckptVars>>

AppendWrite ==
  /\ up /\ pc = "append"
  /\ \/ /\ audit' = Append(audit, request)
        /\ pc' = "sync"
        /\ UNCHANGED <<result, failed, auditSynced, chain, ckptVars>>
     \/ /\ audit' \in FailedWrite(audit, Torn)
        /\ AppendError
  /\ UNCHANGED <<storeVars, up, policy, request, signing, released, unsaved, answered, shadowed>>

\* The frame is not forced to stable storage.
AppendSync_Skipped ==
  /\ up /\ pc = "sync"
  /\ chain' = Append(chain, request)
  /\ IF appends_since_checkpoint + 1 >= AUDIT_CHECKPOINT_INTERVAL
     THEN appends_since_checkpoint' = 0 /\ pc' = "checkpoint"
     ELSE appends_since_checkpoint' = appends_since_checkpoint + 1 /\ pc' = "reply"
  /\ UNCHANGED <<storeVars, up, policy, request, signing, result, audit, auditSynced,
                 checkpoints, ckptSynced, historyVars>>

\* The interval counter is not reset.
AppendSync_NoReset ==
  /\ up /\ pc = "sync"
  /\ auditSynced' = Len(audit)
  /\ chain' = Append(chain, request)
  /\ appends_since_checkpoint' = appends_since_checkpoint + 1
  /\ pc' = IF appends_since_checkpoint' >= AUDIT_CHECKPOINT_INTERVAL THEN "checkpoint" ELSE "reply"
  /\ UNCHANGED <<storeVars, up, policy, request, signing, result, audit,
                 checkpoints, ckptSynced, historyVars>>

AppendSync ==
  /\ up /\ pc = "sync"
  /\ \/ /\ auditSynced' = Len(audit)
        /\ chain' = Append(chain, request)
        /\ IF appends_since_checkpoint + 1 >= AUDIT_CHECKPOINT_INTERVAL
           THEN appends_since_checkpoint' = 0 /\ pc' = "checkpoint"
           ELSE appends_since_checkpoint' = appends_since_checkpoint + 1 /\ pc' = "reply"
        /\ UNCHANGED <<result, failed, checkpoints, ckptSynced>>
     \/ AppendError
  /\ UNCHANGED <<storeVars, up, policy, request, signing, audit, released, unsaved, answered, shadowed>>

\* A checkpoint is best effort: its errors do not fail the request.
CheckpointWrite ==
  /\ up /\ pc = "checkpoint"
  /\ \/ /\ checkpoints' = Append(checkpoints, [head |-> chain, clean |-> ~failed])
        /\ pc' = "ckptsync"
     \/ /\ checkpoints' \in FailedWrite(checkpoints, TornCheckpoint)
        /\ pc' = "reply"
  /\ UNCHANGED <<storeVars, up, policy, request, signing, result, auditVars, ckptSynced,
                 appends_since_checkpoint, historyVars>>

CheckpointSync ==
  /\ up /\ pc = "ckptsync"
  /\ ckptSynced' \in {ckptSynced, Len(checkpoints)}
  /\ pc' = "reply"
  /\ UNCHANGED <<storeVars, up, policy, request, signing, result, auditVars, checkpoints,
                 appends_since_checkpoint, historyVars>>

\* serve_connection writes the response frame and takes the next request.
Reply ==
  /\ up /\ pc = "reply"
  /\ IF result = "signed"
     THEN /\ answered' = answered \cup {request}
          /\ released' = IF policy = "Strict" THEN released \cup signing ELSE released
          /\ shadowed' = IF failed THEN shadowed \cup {request} ELSE shadowed
     ELSE UNCHANGED <<answered, released, shadowed>>
  /\ signing' = {} /\ result' = "refused"
  /\ pc' = "idle"
  /\ UNCHANGED <<storeVars, up, policy, request, auditVars, ckptVars, unsaved, failed>>

-----------------------------------------------------------------------------
(* Going down and starting again.                                          *)

GoesDown ==
  /\ chain' = <<>>
  /\ up' = FALSE
  /\ pc' = "idle" /\ signing' = {} /\ result' = "refused"
  /\ appends_since_checkpoint' = 0
  /\ failed' = FALSE
  /\ UNCHANGED <<policy, request, released, answered, shadowed>>

\* A killed process leaves its files as they are, perhaps with the frame it was
\* writing cut short.
Kill ==
  /\ up
  /\ KillStore
  /\ audit' \in IF pc = "append" THEN FailedWrite(audit, Torn) ELSE {audit}
  /\ checkpoints' \in IF pc = "checkpoint" THEN FailedWrite(checkpoints, TornCheckpoint) ELSE {checkpoints}
  /\ UNCHANGED <<auditSynced, ckptSynced>>
  /\ unsaved' = IF flush = "syncdir" THEN unsaved \cup signing ELSE unsaved
  /\ GoesDown

WriteBack ==
  /\ WriteBackStore
  /\ UNCHANGED <<signerVars, auditVars, ckptVars, historyVars>>

Prefix(s, k) == SubSeq(s, 1, k)

\* What a power loss leaves of an append-only file: the synced frames, perhaps
\* more, perhaps one cut short (the next one, if it was being written).
AfterPowerLoss(s, synced, torn, writing) ==
  LET torn_at == (synced .. Len(s) - 1) \cup (IF writing THEN {Len(s)} ELSE {})
  IN {Prefix(s, k) : k \in synced .. Len(s)} \cup {Append(Prefix(s, k), torn) : k \in torn_at}

PowerLoss ==
  /\ PowerLossStore
  /\ audit' \in AfterPowerLoss(audit, auditSynced, Torn, pc = "append")
  /\ checkpoints' \in AfterPowerLoss(checkpoints, ckptSynced, TornCheckpoint, pc = "checkpoint")
  /\ auditSynced' = Len(audit') /\ ckptSynced' = Len(checkpoints')
  /\ UNCHANGED unsaved
  /\ GoesDown

\* The frames before the first torn one.
Readable(s, torn) ==
  Prefix(s, CHOOSE k \in 0 .. Len(s) :
              /\ \A i \in 1 .. k : s[i] # torn
              /\ k < Len(s) => s[k + 1] = torn)

\* AuditLog::load_or_new replays the log; at a torn frame it cuts the log and
\* syncs it.  Frames after a torn one are cut with it, or make the start fail.
Start ==
  /\ ~up
  /\ load_or_empty
  /\ audit' = Readable(audit, Torn)
  /\ auditSynced' = IF audit' = audit THEN auditSynced ELSE Len(audit')
  /\ chain' = audit'
  /\ up' = TRUE
  /\ policy' \in {"Strict", "AuditOnly", "Permissive"}
  /\ UNCHANGED <<pc, request, signing, result, ckptVars, historyVars>>

Next ==
  \/ TryRefused \/ TrySigned
  \/ Flushing \/ FlushUnsynced \/ FlushReturns
  \/ AppendWrite \/ AppendSync
  \/ CheckpointWrite \/ CheckpointSync
  \/ Reply
  \/ Kill \/ WriteBack \/ PowerLoss \/ Start

Spec == Init /\ [][Next]_vars

-----------------------------------------------------------------------------
(* Two conflicting attestations are never both signed by a Strict signer   *)
(* unless one of them is of a record_and_flush that never saw its          *)
(* directory fsync succeed (it returned an error, ignored a failure of     *)
(* that fsync, or was killed before it), whatever policies the signer ran  *)
(* under in between and whatever purpose and context the requests carried: *)
(* every signature under the attestation context passes the guard of       *)
(* try_sign.                                                               *)
EquivocationNeedsUnsavedRecord ==
  \A a, b \in released \ unsaved : a[1] = b[1] => a[2] = b[2]

(* The signer keeps the promise of the abstract guard for all signatures   *)
(* of its Strict lives whose flush saw its directory fsync succeed.        *)
Promise == INSTANCE SigningPromise
  WITH committed <- durable.log, released <- released \ unsaved
KeepsPromise == Promise!Spec

(* The records that the next start will replay, if the host goes down now. *)
Replayed == LET r == Readable(Prefix(audit, auditSynced), Torn)
            IN {r[i] : i \in DOMAIN r}

(* Every request answered with a signature is on the audit log that the    *)
(* next start replays ("never return a signature we could not durably      *)
(* audit", handle_request).  It fails after an append that left a torn     *)
(* frame: later records land behind it.                                    *)
SignedIsAudited == answered \subseteq Replayed

(* Only signatures returned by a process whose audit log had already       *)
(* failed once can be missing from the log the next start replays.         *)
AuditGapNeedsAppendError == answered \ shadowed \subseteq Replayed

(* verify_audit_checkpoints raises no false alarm: a checkpoint written by *)
(* a process with no failed append matches the log that the next start     *)
(* replays, at its record index.                                           *)
CheckpointsVerify ==
  LET readable == Readable(checkpoints, TornCheckpoint)
      log == Readable(Prefix(audit, auditSynced), Torn)
  IN \A i \in DOMAIN readable :
       LET c == readable[i]
       IN c.clean => Len(c.head) <= Len(log) /\ Prefix(log, Len(c.head)) = c.head
=============================================================================
