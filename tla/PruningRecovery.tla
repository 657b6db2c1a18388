-------------------------- MODULE PruningRecovery --------------------------
(***************************************************************************)
(* The pruning worker of consensus/src/pipeline/pruning_processor, the     *)
(* start-up recovery it shares with the consensus object, and the IBD      *)
(* session that moves the pruning point intrusively (pruning catch-up).    *)
(*                                                                         *)
(* A selected-chain block is its blue score.  Every action is at most one  *)
(* database batch, so a crash between two actions is a crash between two   *)
(* batches.  The pruning point UTXO set is the set of chain blocks whose   *)
(* diffs it holds: it is the UTXO set of block n when it equals 1 .. n.    *)
(* `rows' are the chain blocks whose per-block rows (UTXO diff, overlay    *)
(* sources) are in the database; a trusted pruning point body brings none. *)
(*                                                                         *)
(* The pruning lock: an IBD session holds it in read mode from start to    *)
(* end, so the steps of the worker that take it in write mode need         *)
(* phase = "none"; the UTXO advance and the proof fetch do not take it.    *)
(***************************************************************************)
EXTENDS Integers

CONSTANTS
    MaxScore,          \* bound: the highest blue score of the chain
    FinalityDepth,     \* a pruning sample every FinalityDepth blocks
    PruningDepth,
    AnticoneDepth,     \* anticone_finalization_depth
    palw_activation_daa_score,  \* a chain block's DAA score is its blue score
    Datadirs,          \* what the process may find on disk: pp, pos, sidecar, checkpoint, sink
    MaxFaults,         \* bound: crashes and aborted IBD sessions
    MaxRetreats        \* bound: reorgs to a sink of lower blue score

ASSUME DepthAssumption ==
    /\ MaxScore \in Nat /\ FinalityDepth \in Nat \ {0}
    /\ AnticoneDepth \in Nat /\ PruningDepth \in Nat /\ AnticoneDepth =< PruningDepth
    /\ palw_activation_daa_score \in Nat
    /\ MaxFaults \in Nat /\ MaxRetreats \in Nat

Chain == 0 .. MaxScore
Samples == {n \in Chain : n % FinalityDepth = 0}

ASSUME DatadirAssumption ==
    \A d \in Datadirs :
       /\ d.pp \in Samples /\ d.sink \in Chain /\ d.pos \in 0 .. d.pp
       /\ d.sidecar \in 0 .. d.pp /\ d.checkpoint \in 0 .. d.pp
       /\ d.pp =< d.sink
       /\ d.sidecar = d.pp \/ d.checkpoint # d.pp

NoMessage == -1

VARIABLES
    archival,          \* config.is_archival
    pp, root, checkpoint,   \* PruningPointStores: pruning point, retention root, retention checkpoint
    pos, utxoset,      \* PruningMetaStores: utxoset position and the set itself
    stable, missing,   \* PruningMetaStores: stable flag, body-missing anticone non-empty
    palw, overlay, faithful, \* the pruning points the PALW and DNS overlay sidecars belong to;
                       \* faithful: the overlay sidecar was built from complete rows or imported
    rows, sink,        \* per-block rows; sink of the stored virtual state
    inbox, recovered, pc, job,   \* the worker thread
    phase, target,     \* the IBD session and the syncer's pruning point
    faults, retreats, raced, panicked,
    reorgs             \* history: retreats under the worker since it last confirmed its depth

store == <<pp, root, checkpoint, pos, utxoset, stable, missing, palw, overlay, faithful>>
dag == <<rows, sink>>
worker == <<recovered, pc, job>>
session == <<phase, target>>
history == <<faults, retreats, raced, panicked, reorgs>>
vars == <<archival, store, dag, inbox, worker, session, history>>

\* is_in_transitional_ibd_state
Transitional == missing \/ ~stable

is_palw_active(n) == n >= palw_activation_daa_score

confirm_pruning_depth_below_virtual(p) == sink + 1 >= p + PruningDepth

\* The locals of the worker: the routine and its message, the iterator of the UTXO advance, and
\* the pruning point, retention root and checkpoint the routine read under the lock.
Task(mode, msg, cur, goal, r, c) ==
    [mode |-> mode, msg |-> msg, cur |-> cur, goal |-> goal, root |-> r, checkpoint |-> c]
NoJob == Task("none", NoMessage, 0, 0, 0, 0)
Startup == Task("startup", NoMessage, 0, 0, 0, 0)

----------------------------------------------------------------------------
(* The virtual processor: a resolved virtual replaces the message waiting  *)
(* in the pruning channel.                                                 *)

Running == job.mode # "startup"

\* A node that catches up is out of sync and takes no relayed blocks: the syncer's pruning point
\* stays without a body, while blocks already submitted may still be resolved.
AdvanceVirtual ==
    /\ Running /\ ~Transitional /\ sink < MaxScore
    /\ phase = "catchup" => sink + 1 < target
    /\ sink' = sink + 1
    /\ rows' = rows \cup {sink + 1}
    /\ inbox' = sink + 1
    /\ UNCHANGED <<archival, store, worker, session, history>>

\* Sinks are ordered by blue work: the heavier one may have a lower blue score,
\* by less than the finality depth.
RetreatVirtual ==
    /\ Running /\ ~Transitional /\ retreats < MaxRetreats
    /\ \E s \in pp .. sink - 1 :
          /\ sink - s < FinalityDepth
          /\ sink' = s
          /\ rows' = {b \in rows : b =< s}
          /\ inbox' = s
    /\ retreats' = retreats + 1
    /\ reorgs' = IF pc \in {"advance", "fetch"} THEN reorgs + 1 ELSE reorgs
    /\ UNCHANGED <<archival, store, worker, session, faults, raced, panicked>>

----------------------------------------------------------------------------
(* The worker.                                                             *)

\* A routine returns: false leaves the worker idle, true after a recovery goes on
\* to the periodic step of the same message.
ReturnFalse ==
    /\ pc' = "idle" /\ job' = NoJob
    /\ UNCHANGED recovered

ReturnTrue ==
    IF job.mode = "recover"
    THEN /\ recovered' = TRUE
         /\ pc' = "periodic"
         /\ job' = Task("periodic", job.msg, 0, 0, 0, 0)
    ELSE ReturnFalse

\* The panic hook exits the process; whatever was volatile is gone.
Exit ==
    /\ pc' = "inspect" /\ job' = Startup /\ recovered' = FALSE
    /\ inbox' = NoMessage
    /\ phase' = "none" /\ target' = 0

Panic ==
    /\ panicked' = TRUE
    /\ Exit
    /\ UNCHANGED <<archival, store, dag, faults, retreats, raced, reorgs>>

Goto(l) ==
    /\ pc' = l
    /\ UNCHANGED <<recovered, job>>

Receive ==
    /\ pc = "idle" /\ inbox # NoMessage
    /\ inbox' = NoMessage
    /\ job' = Task(IF recovered THEN "periodic" ELSE "recover", inbox, 0, 0, 0, 0)
    /\ pc' = IF recovered THEN "periodic" ELSE "inspect"
    /\ UNCHANGED <<archival, store, dag, recovered, session, history>>

pruning_boundary_source_rows_pruned == ~archival /\ checkpoint = root

palw_snapshot_recovery_plan(valid) ==
    IF pp = 0 \/ valid THEN "None"
    ELSE IF pruning_boundary_source_rows_pruned THEN "FailClosed" ELSE "Rebuild"

\* Mutant: a recovery that repairs the sidecars and leaves the UTXO set where the crash left it.
InspectSidecarsOnly ==
    /\ pc = "inspect" /\ phase = "none"
    /\ palw' = pp /\ overlay' = pp
    /\ job' = Task(job.mode, job.msg, 0, pp, root, checkpoint)
    /\ pc' = "confirm"
    /\ UNCHANGED <<archival, pp, root, checkpoint, pos, utxoset, stable, missing, faithful, dag, inbox,
                   recovered, session, history>>

\* The inspection and repair of recover_pruning_workflows_if_needed, under the lock.  Recovery
\* asks for the PALW sidecar whether or not PALW is active at the pruning point.  Rebuilding it
\* needs the rows only if PALW is active; the overlay is built from whatever rows there are.
Inspect ==
    LET palw_plan == palw_snapshot_recovery_plan(palw = pp)
        overlay_plan == palw_snapshot_recovery_plan(overlay = pp)
        refused == \/ "FailClosed" \in {palw_plan, overlay_plan}
                   \/ palw_plan = "Rebuild" /\ is_palw_active(pp) /\ pp \notin rows
    IN
    /\ pc = "inspect" /\ phase = "none"
    /\ \/ /\ refused
          /\ ReturnFalse
          /\ UNCHANGED <<palw, overlay, faithful>>
       \/ /\ ~refused
          /\ palw' = pp /\ overlay' = pp
          /\ faithful' = IF overlay = pp THEN faithful ELSE pp \in rows
          /\ job' = Task(job.mode, job.msg, pos, pp, root, checkpoint)
          /\ pc' = IF pos # pp THEN "depth" ELSE "confirm"
          /\ UNCHANGED recovered
    /\ UNCHANGED <<archival, pp, root, checkpoint, pos, utxoset, stable, missing, dag, inbox,
                   session, history>>

next_pruning_points(s) ==
    IF pp + PruningDepth > s THEN {}
    ELSE {n \in Samples : pp < n /\ n + PruningDepth =< s}

\* Mutant: the clamp to the new pruning point is dropped.
RetentionRootsUnclamped(p) == IF archival THEN {root} ELSE {n \in Samples : root =< n}

\* advance_retention_period_root: the pruning point, or with a retention period a sample
\* down to the old root, according to the timestamps.
RetentionRoots(p) == IF archival THEN {root} ELSE {n \in Samples : root =< n /\ n =< p}

\* advance_pruning_point_if_possible up to the boundary batch, under the lock.  The UTXO
\* advance that follows starts from the pruning point just replaced.
MovePruningPoint ==
    LET points == next_pruning_points(job.msg)
        last == {n \in points : \A m \in points : m =< n}
    IN
    /\ pc = "periodic" /\ phase = "none"
    /\ \/ /\ last \cap rows = {}
          /\ ReturnFalse
          /\ UNCHANGED store
       \/ \E new \in last \cap rows :
             /\ \E r \in RetentionRoots(new) :
                   /\ root' = r
                   /\ job' = Task("periodic", NoMessage, pp, new, r, 0)
             /\ pp' = new /\ palw' = new /\ overlay' = new /\ faithful' = TRUE
             /\ pc' = "depth"
             /\ UNCHANGED <<checkpoint, pos, utxoset, stable, missing, recovered>>
    /\ UNCHANGED <<archival, dag, inbox, session, history>>

\* History: a check of the depth starts the count of retreats anew.
NoteCheck == reorgs' = 0

\* Mutant: a deferred UTXO advance does not keep the caller from pruning.
CheckDepthAndPrune ==
    /\ pc = "depth"
    /\ Goto(IF confirm_pruning_depth_below_virtual(job.goal) THEN "advance" ELSE "fetch")
    /\ NoteCheck
    /\ UNCHANGED <<archival, store, dag, inbox, session, faults, retreats, raced, panicked>>

\* advance_pruning_utxoset, without the lock.
CheckDepth ==
    /\ pc = "depth"
    /\ IF confirm_pruning_depth_below_virtual(job.goal) THEN Goto("advance") ELSE ReturnFalse
    /\ NoteCheck
    /\ UNCHANGED <<archival, store, dag, inbox, session, faults, retreats, raced, panicked>>

ApplyDiff ==
    LET b == job.cur + 1 IN
    /\ pc = "advance" /\ job.cur < job.goal
    /\ \/ /\ Transitional
          /\ ReturnFalse
          /\ UNCHANGED <<archival, store, dag, inbox, session, history>>
       \/ /\ ~Transitional /\ b \notin rows
          /\ Panic
       \/ /\ ~Transitional /\ b \in rows
          /\ utxoset' = utxoset \cup {b}
          /\ pos' = b
          /\ job' = [job EXCEPT !.cur = b]
          /\ UNCHANGED <<archival, pp, root, checkpoint, stable, missing, palw, overlay, faithful,
                         dag, inbox, recovered, pc, session, history>>

UtxosetAdvanced ==
    /\ pc = "advance" /\ job.cur = job.goal
    /\ Goto(IF job.mode = "periodic" THEN "fetch" ELSE "confirm")
    /\ UNCHANGED <<archival, store, dag, inbox, session, history>>

\* The tail of recover_pruning_workflows_if_needed.
ConfirmRecovery ==
    /\ pc = "confirm"
    /\ IF ~confirm_pruning_depth_below_virtual(job.goal) \/ Transitional THEN ReturnFalse
       ELSE IF job.checkpoint # job.root THEN Goto("fetch")
       ELSE ReturnTrue
    /\ NoteCheck
    /\ UNCHANGED <<archival, store, dag, inbox, session, faults, retreats, raced, panicked>>

\* prune up to the lock: the proof and the anticone are those of the stored pruning
\* point; the anticone may be in the cache.
FetchProof ==
    /\ pc = "fetch"
    /\ \/ /\ archival
          /\ ReturnTrue
          /\ UNCHANGED <<archival, store, dag, inbox, session, history>>
       \/ /\ ~archival /\ pp = job.goal
          /\ Goto("sweep")
          /\ UNCHANGED <<archival, store, dag, inbox, session, history>>
       \/ /\ ~archival
          /\ pp # job.goal \/ sink + 1 < pp + AnticoneDepth
          /\ Panic

\* The rows prune deletes: not in the future of the retention root, not kept in full.
Prunable == {b \in rows : b < job.root /\ b # job.goal}

\* One batch of prune; the lock is yielded between batches.
PruneRow ==
    /\ pc = "sweep" /\ phase = "none"
    /\ \E b \in Prunable :
          /\ \A c \in Prunable : b =< c
          /\ rows' = rows \ {b}
    /\ UNCHANGED <<archival, store, sink, inbox, worker, session, history>>

FinishPrune ==
    /\ pc = "sweep" /\ phase = "none"
    /\ Prunable = {}
    /\ Goto("mark")
    /\ UNCHANGED <<archival, store, dag, inbox, session, history>>

MarkRetention ==
    /\ pc = "mark"
    /\ checkpoint' = job.root
    /\ ReturnTrue
    /\ UNCHANGED <<archival, pp, root, pos, utxoset, stable, missing, palw, overlay, faithful,
                   dag, inbox, session, history>>

----------------------------------------------------------------------------
(* The IBD session.                                                        *)

\* Mutant: an aligned peer is no help to a transitional node.
SyncsOnlyWhenSettled(q) ==
    IF Transitional /\ q =< pp THEN "Error"
    ELSE IF q =< pp \/ q \in rows THEN "Sync" ELSE "PruningCatchUp"

determine_ibd_type(q) ==
    CASE q = pp -> "Sync"
      [] q > pp -> IF ~Transitional /\ q \in rows THEN "Sync" ELSE "PruningCatchUp"
      [] q < pp -> IF Transitional THEN "Error" ELSE "Sync"

\* History: the session replaces the pruning point or its UTXO set while the worker is between
\* the release of the lock and its proof fetch, with what it read under the lock in hand.
NoteRace == raced' = (raced \/ pc \in {"depth", "advance", "confirm", "fetch"})

\* A sync of a settled node only adds blocks (AdvanceVirtual) and is left out.
StartSync ==
    /\ Running /\ phase = "none"
    /\ Transitional
    /\ determine_ibd_type(pp) = "Sync"
    /\ phase' = IF missing THEN "bodies" ELSE "boundary"
    /\ target' = pp
    /\ UNCHANGED <<archival, store, dag, inbox, worker, history>>

StartCatchUp ==
    /\ Running /\ phase = "none"
    /\ \E q \in Samples :
          /\ q > sink /\ q + PruningDepth =< MaxScore
          /\ determine_ibd_type(q) = "PruningCatchUp"
          /\ target' = q
    /\ phase' = "catchup"
    /\ UNCHANGED <<archival, store, dag, inbox, worker, history>>

\* The flow downloads a PALW sidecar only for a pruning point at which PALW is active.
Installed(p) == IF is_palw_active(p) THEN p ELSE palw

\* intrusive_pruning_point_store_writes: one batch.  The UTXO position and the DNS overlay
\* sidecar stay as they were, and with PALW inactive so does the PALW sidecar.
IntrusiveUpdate ==
    /\ phase = "catchup"
    /\ pp' = target /\ palw' = Installed(target)
    /\ root' \in RetentionRoots(target)
    /\ sink' = target
    /\ stable' = FALSE /\ missing' = TRUE
    /\ NoteRace
    /\ phase' = "trusted"
    /\ UNCHANGED <<archival, checkpoint, pos, utxoset, overlay, faithful, rows, inbox, worker,
                   target, faults, retreats, panicked, reorgs>>

\* sync_missing_trusted_bodies, then clear_body_missing_anticone_set.  A catch-up session has
\* installed the PALW boundary itself; a session that finds the node unstable fetches it again.
TrustedBodies ==
    /\ phase \in {"bodies", "trusted"}
    /\ missing' = FALSE
    /\ phase' = IF phase = "trusted" THEN "clear" ELSE IF stable THEN "none" ELSE "boundary"
    /\ UNCHANGED <<archival, pp, root, checkpoint, pos, utxoset, stable, palw, overlay, faithful,
                   dag, inbox, worker, target, history>>

\* sync_new_utxo_set, batch by batch.
InstallBoundary ==
    /\ phase = "boundary"
    /\ palw' = Installed(pp)
    /\ phase' = "clear"
    /\ UNCHANGED <<archival, pp, root, checkpoint, pos, utxoset, stable, missing, overlay, faithful,
                   dag, inbox, worker, target, history>>

ClearFlag ==
    /\ phase = "clear"
    /\ stable' = FALSE
    /\ phase' = "cleared"
    /\ UNCHANGED <<archival, pp, root, checkpoint, pos, utxoset, missing, palw, overlay, faithful,
                   dag, inbox, worker, target, history>>

ClearUtxoset ==
    /\ phase = "cleared"
    /\ utxoset' = {}
    /\ phase' = "chunks"
    /\ UNCHANGED <<archival, pp, root, checkpoint, pos, stable, missing, palw, overlay, faithful,
                   dag, inbox, worker, target, history>>

AppendChunk ==
    /\ phase = "chunks" /\ utxoset # 1 .. pp
    /\ \E n \in {pp - 1, pp} : utxoset' = utxoset \cup 1 .. n
    /\ UNCHANGED <<archival, pp, root, checkpoint, pos, stable, missing, palw, overlay, faithful,
                   dag, inbox, worker, session, history>>

\* Mutant: the set is marked stable as soon as it is imported, before the sidecars.
ImportMarksStable ==
    /\ phase = "chunks" /\ utxoset = 1 .. pp
    /\ pos' = pp /\ stable' = TRUE
    /\ NoteRace
    /\ phase' = "sidecars"
    /\ UNCHANGED <<archival, pp, root, checkpoint, utxoset, missing, palw, overlay, faithful,
                   dag, inbox, worker, target, faults, retreats, panicked, reorgs>>

\* import_pruning_point_utxo_set: the commitment check, then the position.
ImportUtxoset ==
    /\ phase = "chunks" /\ utxoset = 1 .. pp
    /\ pos' = pp
    /\ NoteRace
    /\ phase' = "sidecars"
    /\ UNCHANGED <<archival, pp, root, checkpoint, utxoset, stable, missing, palw, overlay, faithful,
                   dag, inbox, worker, target, faults, retreats, panicked, reorgs>>

ImportSidecars ==
    /\ phase = "sidecars"
    /\ overlay' = pp /\ faithful' = TRUE
    /\ phase' = "final"
    /\ UNCHANGED <<archival, pp, root, checkpoint, pos, utxoset, stable, missing, palw,
                   dag, inbox, worker, target, history>>

SetStable ==
    /\ phase = "final"
    /\ stable' = TRUE
    /\ phase' = "none" /\ target' = 0
    /\ UNCHANGED <<archival, pp, root, checkpoint, pos, utxoset, missing, palw, overlay, faithful,
                   dag, inbox, worker, history>>

\* A timeout, a missing answer or a disconnect ends the session where it is.
AbortIbd ==
    /\ phase # "none" /\ faults < MaxFaults
    /\ faults' = faults + 1
    /\ phase' = "none" /\ target' = 0
    /\ UNCHANGED <<archival, store, dag, inbox, worker, retreats, raced, panicked, reorgs>>

\* A crash, or an exit signal: the worker leaves its loops at the next check.
Crash ==
    /\ faults < MaxFaults
    /\ faults' = faults + 1
    /\ Exit
    /\ UNCHANGED <<archival, store, dag, retreats, raced, panicked, reorgs>>

----------------------------------------------------------------------------

Init ==
    /\ archival \in BOOLEAN
    /\ \E d \in Datadirs :
          /\ pp = d.pp /\ pos = d.pos /\ utxoset = 1 .. d.pos
          /\ root = (IF archival THEN 0 ELSE d.pp)
          /\ checkpoint = (IF archival THEN 0 ELSE d.checkpoint)
          /\ palw = d.sidecar /\ overlay = d.sidecar
          /\ sink = d.sink /\ rows = 0 .. d.sink
    /\ stable = TRUE /\ missing = FALSE /\ faithful = TRUE
    /\ inbox = NoMessage /\ recovered = FALSE /\ pc = "inspect" /\ job = Startup
    /\ phase = "none" /\ target = 0
    /\ faults = 0 /\ retreats = 0 /\ raced = FALSE /\ panicked = FALSE /\ reorgs = 0

WorkerStep ==
    \/ Receive \/ Inspect \/ MovePruningPoint \/ CheckDepth \/ ApplyDiff \/ UtxosetAdvanced
    \/ ConfirmRecovery \/ FetchProof \/ PruneRow \/ FinishPrune \/ MarkRetention

IbdStep ==
    \/ IntrusiveUpdate \/ TrustedBodies \/ InstallBoundary \/ ClearFlag \/ ClearUtxoset
    \/ AppendChunk \/ ImportUtxoset \/ ImportSidecars \/ SetStable

Next ==
    \/ AdvanceVirtual \/ RetreatVirtual \/ WorkerStep
    \/ StartSync \/ StartCatchUp \/ IbdStep
    \/ AbortIbd \/ Crash

Spec == Init /\ [][Next]_vars

\* The worker thread runs; an IBD session answers or ends; while the node is transitional
\* every relayed block triggers an IBD, with a peer that does not lag behind sooner or later.
Fairness ==
    /\ WF_vars(WorkerStep)
    /\ WF_vars(IbdStep)
    /\ WF_vars(StartSync)

FairSpec == Spec /\ Fairness

----------------------------------------------------------------------------
Phases == {"none", "catchup", "bodies", "trusted", "boundary", "clear", "cleared", "chunks",
           "sidecars", "final"}
Labels == {"idle", "inspect", "periodic", "depth", "advance", "confirm", "fetch", "sweep", "mark"}
Jobs == [mode : {"none", "startup", "recover", "periodic"}, msg : Chain \cup {NoMessage},
         cur : Chain, goal : Chain, root : Chain, checkpoint : Chain]

\* The stores, the worker and the session take only the values the code gives them; the retention
\* root never passes the pruning point and the virtual never falls below it.
TypeOK ==
    /\ archival \in BOOLEAN
    /\ pp \in Samples /\ root \in Samples /\ checkpoint \in Chain /\ pos \in Chain
    /\ root =< pp /\ pp =< sink
    /\ utxoset \subseteq Chain /\ rows \subseteq Chain /\ sink \in Chain
    /\ stable \in BOOLEAN /\ missing \in BOOLEAN /\ faithful \in BOOLEAN
    /\ palw \in Chain /\ overlay \in Chain
    /\ inbox \in Chain \cup {NoMessage} /\ recovered \in BOOLEAN
    /\ pc \in Labels /\ job \in Jobs
    /\ phase \in Phases /\ target \in Chain
    /\ faults \in 0 .. MaxFaults /\ retreats \in 0 .. MaxRetreats
    /\ raced \in BOOLEAN /\ panicked \in BOOLEAN /\ reorgs \in Nat

\* What assert_utxo_commitment asserts: whatever crashes and aborted sessions came before, a set
\* marked stable is the UTXO set of its recorded position.  The advance may miss diffs only if the
\* virtual lost blue score (a deferred advance is followed by one that starts at the pruning point
\* and not at the position) or a catch-up was committed inside an advance.
UtxosetMatchesItsPosition ==
    stable /\ retreats = 0 /\ ~raced => utxoset = 1 .. pos

\* The "all-or-nothing" of sync_new_utxo_set and of the boundary batches: once the start-up
\* inspection is over, a stable pruning point has its overlay sidecar, not one rebuilt from rows the
\* node did not have, and its PALW sidecar if PALW is active there.  (Below the activation score a
\* catch-up leaves the old PALW sidecar in place: the next recovery replaces it by an empty one, or
\* fails closed if the retention root has not moved from the checkpoint.)
StableBoundaryIsComplete ==
    stable /\ job.mode # "startup" =>
       /\ overlay = pp /\ (faithful \/ pp = 0)
       /\ is_palw_active(pp) => palw = pp

\* The asserts of prune and the expect of the UTXO advance hold in every interleaving but one: a
\* catch-up that replaced the pruning point between the worker's last check and its proof fetch.
PanicNeedsIbdRace == panicked => raced

\* A node left transitional by a catch-up, a crash or an aborted session becomes usable again.
TransitionalStateEnds == Transitional ~> ~Transitional

=============================================================================
