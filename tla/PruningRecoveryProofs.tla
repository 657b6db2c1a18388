----------------------- MODULE PruningRecoveryProofs -----------------------
(***************************************************************************)
(* For every chain length, depth, datadir and number of faults:            *)
(*   - a stable pruning point has its sidecars (BoundaryComplete);         *)
(*   - while the virtual's blue score does not fall and no IBD session     *)
(*     overlaps a UTXO advance, the stable pruning point UTXO set is the   *)
(*     one of its recorded position (UtxosetIsItsPosition);                *)
(*   - the stores, the worker and the session keep their types             *)
(*     (PruningTypeCorrect);                                               *)
(*   - as long as the retreats between a depth check of the worker and its *)
(*     proof fetch fit between the anticone depth and the pruning depth,   *)
(*     an assert fails only after a session raced the worker               *)
(*     (PanicsNeedARace).                                                  *)
(***************************************************************************)
EXTENDS PruningRecovery, TLAPS

JobType == [mode : {"none", "startup", "recover", "periodic"}, msg : Int, cur : Nat, goal : Nat,
            root : Int, checkpoint : Int]

Types ==
    /\ pp \in Nat /\ root \in Int /\ checkpoint \in Int /\ pos \in Nat
    /\ sink \in Nat /\ target \in Nat /\ inbox \in Int
    /\ job \in JobType /\ retreats \in Nat

----------------------------------------------------------------------------
(* The boundary: what each phase of a session has already installed, and   *)
(* the one state in which a stable boundary may be incomplete, a datadir   *)
(* without sidecars before its first inspection.                           *)

PalwInstalled == is_palw_active(pp) => palw = pp

Complete == overlay = pp /\ (faithful \/ pp = 0) /\ PalwInstalled

Unrepaired ==
    /\ pc = "inspect" /\ job.mode = "startup" /\ phase = "none"
    /\ overlay # pp /\ pp # 0 /\ pp \in rows
    /\ archival \/ checkpoint # root

Boundary ==
    /\ stable => Complete \/ Unrepaired
    /\ phase \in {"trusted", "clear", "cleared", "chunks", "sidecars", "final"} => PalwInstalled
    /\ phase = "final" => overlay = pp /\ faithful = TRUE

----------------------------------------------------------------------------
(* The UTXO set.  The worker's iterator stands at the recorded position,   *)
(* and between two advances the position is the pruning point.             *)

Quiet == retreats = 0 /\ ~raced

Window == {"depth", "advance", "confirm", "fetch"}

SessionOrder ==
    /\ missing => ~stable
    /\ phase \notin {"none", "catchup"} => ~stable
    /\ phase \in {"boundary", "clear", "cleared", "chunks", "sidecars", "final"} => ~missing
    /\ Transitional => sink = pp
    /\ phase = "catchup" => target > sink
    /\ inbox =< sink /\ job.msg =< sink

Position ==
    /\ stable => utxoset = 1 .. pos
    /\ phase \in {"sidecars", "final"} => pos = pp /\ utxoset = 1 .. pp /\ pc \notin Window
    /\ pc \in {"depth", "advance"} => job.cur = pos /\ job.goal = pp
    /\ pc \in {"depth", "advance"} /\ recovered => job.mode = "periodic"
    /\ pc = "depth" /\ job.mode = "periodic" => sink >= job.goal + PruningDepth
    /\ stable /\ pc \notin {"depth", "advance"}
         /\ (recovered \/ pc \in {"periodic", "confirm", "fetch", "sweep", "mark"}) => pos = pp
    /\ pc = "inspect" => ~recovered /\ job.mode # "periodic"

UInv == Quiet => SessionOrder /\ Position

IInv == Types /\ Boundary /\ UInv

----------------------------------------------------------------------------
(* Each action preserves the invariant.                                    *)

LEMMA JobFacts ==
    /\ NoJob \in JobType /\ NoJob.mode = "none" /\ NoJob.msg = -1
    /\ Startup \in JobType /\ Startup.mode = "startup" /\ Startup.msg = -1
    /\ NoMessage = -1
BY DEF NoJob, Startup, Task, JobType, NoMessage

\* The job a recovery leaves to the periodic step of its message.
LEMMA PeriodicFacts ==
    ASSUME NEW m \in Int
    PROVE  LET t == Task("periodic", m, 0, 0, 0, 0)
           IN  t \in JobType /\ t.mode = "periodic" /\ t.msg = m
BY DEF Task, JobType

LEMMA AdvanceVirtualKeeps == IInv /\ AdvanceVirtual => IInv'
<1> SUFFICES ASSUME IInv, AdvanceVirtual PROVE IInv'
  OBVIOUS
<1>1. Types'
  BY DepthAssumption DEF IInv, Types, JobType, AdvanceVirtual, store, dag, worker, session,
     history, Running
<1>2. Boundary'
  BY <1>1 DEF IInv, Types, JobType, Boundary, PalwInstalled, Complete, Unrepaired, AdvanceVirtual,
     store, dag, worker, session, history, Running
<1>3. UInv'
  BY DepthAssumption DEF IInv, Types, JobType, UInv, Quiet, SessionOrder, Position, Transitional,
     AdvanceVirtual, store, worker, session, history
<1> QED
  BY <1>1, <1>2, <1>3 DEF IInv

LEMMA RetreatVirtualKeeps == IInv /\ RetreatVirtual => IInv'
<1> SUFFICES ASSUME IInv, RetreatVirtual PROVE IInv'
  OBVIOUS
<1>1. Types'
  BY DepthAssumption DEF IInv, Types, JobType, RetreatVirtual, store, dag, worker, session,
     history, Running
<1>2. Boundary'
  BY <1>1 DEF IInv, Types, JobType, Boundary, PalwInstalled, Complete, Unrepaired, RetreatVirtual,
     store, dag, worker, session, history, Running
<1>3. UInv'
  BY DEF IInv, Types, JobType, UInv, Quiet, Window, RetreatVirtual, dag, session, history, Running
<1> QED
  BY <1>1, <1>2, <1>3 DEF IInv

LEMMA PanicKeeps == IInv /\ Panic => IInv'
<1> SUFFICES ASSUME IInv, Panic PROVE IInv'
  OBVIOUS
<1>1. Types'
  BY JobFacts DEF IInv, Types, Panic, Exit, store, dag, worker, session, history
<1>2. Boundary'
  BY JobFacts DEF IInv, Boundary, PalwInstalled, Complete, Unrepaired, Panic, Exit, store, dag,
     worker, session, history
<1>3. UInv'
  BY JobFacts DEF IInv, Types, UInv, Quiet, Window, SessionOrder, Position, Transitional, Panic,
     Exit, store, dag, worker, session, history
<1> QED
  BY <1>1, <1>2, <1>3 DEF IInv

LEMMA ReceiveKeeps == IInv /\ Receive => IInv'
<1> SUFFICES ASSUME IInv, Receive PROVE IInv'
  OBVIOUS
<1>1. Types'
  BY DepthAssumption DEF IInv, Types, JobType, Receive, store, dag, worker, session, history,
     NoJob, Task, NoMessage
<1>2. Boundary'
  BY <1>1 DEF IInv, Types, JobType, Boundary, PalwInstalled, Complete, Unrepaired, Receive, store,
     dag, worker, session, history, NoJob, Task, NoMessage
<1>3. UInv'
  BY DEF IInv, Types, JobType, UInv, Quiet, Window, SessionOrder, Position, Transitional, Receive,
     store, dag,
     worker, session, history, NoJob, Task, NoMessage
<1> QED
  BY <1>1, <1>2, <1>3 DEF IInv

LEMMA InspectKeeps == IInv /\ Inspect => IInv'
<1> SUFFICES ASSUME IInv, Inspect PROVE IInv'
  OBVIOUS
<1>1. Types'
  BY DEF IInv, Types, JobType, Inspect, store, dag, worker, session, history, ReturnFalse, NoJob,
     Task, NoMessage
<1>2. Boundary'
  BY Zenon DEF IInv, Boundary, PalwInstalled, Complete, Unrepaired, Inspect, session, history,
     NoJob, Task, NoMessage,
     palw_snapshot_recovery_plan, pruning_boundary_source_rows_pruned
<1>3. UInv'
  <2>1. CASE ReturnFalse
    BY <2>1, JobFacts DEF IInv, Types, UInv, Quiet, Window, SessionOrder, Position, Transitional,
       Inspect, ReturnFalse, store, dag, worker, session, history
  <2>2. CASE /\ job' = Task(job.mode, job.msg, pos, pp, root, checkpoint)
             /\ pc' = IF pos # pp THEN "depth" ELSE "confirm"
             /\ UNCHANGED recovered
    <3>1. job'.mode = job.mode /\ job'.msg = job.msg /\ job'.cur = pos /\ job'.goal = pp
      BY <2>2 DEF Task
    <3>2. phase = "none" /\ pc = "inspect"
      BY DEF Inspect
    <3>3. UNCHANGED <<pp, pos, utxoset, stable, missing, sink, inbox, phase, target, retreats, raced>>
      BY DEF Inspect, store, dag, worker, session, history
    <3> SUFFICES ASSUME Quiet' PROVE SessionOrder' /\ Position'
      BY DEF UInv
    <3>4. SessionOrder /\ Position
      BY <3>3 DEF IInv, UInv, Quiet
    <3>5. SessionOrder'
      BY <3>1, <3>3, <3>4 DEF SessionOrder, Transitional
    <3>6. ~recovered'
      BY <2>2, <3>2, <3>4 DEF Position
    <3>7. job.mode # "periodic"
      BY <3>2, <3>4 DEF Position
    <3>8. Position'
      BY Zenon, <2>2, <3>1, <3>2, <3>3, <3>4, <3>6 DEF Position
    <3> QED
      BY <3>5, <3>8
  <2> QED
    BY <2>1, <2>2 DEF Inspect
<1> QED
  BY <1>1, <1>2, <1>3 DEF IInv

LEMMA MovePruningPointKeeps == IInv /\ MovePruningPoint => IInv'
<1> SUFFICES ASSUME IInv, MovePruningPoint PROVE IInv'
  OBVIOUS
<1>1. CASE ReturnFalse /\ UNCHANGED store
  <2>1. Types'
    BY <1>1, JobFacts DEF IInv, Types, MovePruningPoint, ReturnFalse, store, dag, worker, session,
       history
  <2>2. Boundary'
    BY Zenon, <1>1 DEF IInv, Boundary, PalwInstalled, Complete, Unrepaired, MovePruningPoint,
       store, worker,
       session
  <2>3. UInv'
    BY <1>1, JobFacts DEF IInv, Types, UInv, Quiet, Window, SessionOrder, Position, Transitional,
       MovePruningPoint, ReturnFalse, store, dag, worker, session, history
  <2> QED
    BY <2>1, <2>2, <2>3 DEF IInv
<1>2. CASE ~(ReturnFalse /\ UNCHANGED store)
  <2> DEFINE points == next_pruning_points(job.msg)
             last == {n \in points : \A m \in points : m =< n}
  <2>0. PICK new \in last \cap rows :
          /\ \E r \in RetentionRoots(new) :
                /\ root' = r
                /\ job' = Task("periodic", NoMessage, pp, new, r, 0)
          /\ pp' = new /\ palw' = new /\ overlay' = new /\ faithful' = TRUE
          /\ pc' = "depth"
          /\ UNCHANGED <<checkpoint, pos, utxoset, stable, missing, recovered>>
    BY <1>2, Zenon DEF MovePruningPoint
  <2>1. PICK r \in RetentionRoots(new) :
          /\ root' = r
          /\ job' = Task("periodic", NoMessage, pp, new, r, 0)
    BY <2>0
  <2>2. /\ pc = "periodic" /\ phase = "none"
        /\ UNCHANGED <<sink, inbox, phase, target, retreats, raced>>
    BY DEF MovePruningPoint, dag, session, history
  <2>3. new \in Nat /\ pp < new /\ new + PruningDepth =< job.msg /\ r \in Int
    BY <2>0, <2>1, DepthAssumption
       DEF next_pruning_points, RetentionRoots, Samples, Chain, IInv, Types
  <2>4. /\ job' \in JobType
        /\ job'.mode = "periodic" /\ job'.msg = -1 /\ job'.cur = pp /\ job'.goal = new
    BY <2>0, <2>1, <2>3 DEF Task, JobType, IInv, Types, NoMessage
  <2>5. Types'
    BY <2>0, <2>1, <2>2, <2>3, <2>4 DEF IInv, Types
  <2>6. Boundary'
    BY <2>0, <2>2 DEF Boundary, PalwInstalled, Complete
  <2>7. UInv'
    <3> SUFFICES ASSUME Quiet' PROVE SessionOrder' /\ Position'
      BY DEF UInv
    <3>1. SessionOrder /\ Position
      BY <2>2 DEF IInv, UInv, Quiet
    <3>2. job.msg \in Int /\ sink \in Nat /\ pp \in Nat
      BY DEF IInv, Types, JobType
    <3>3. ~Transitional /\ sink >= new + PruningDepth
      BY <2>3, <3>1, <3>2, DepthAssumption DEF SessionOrder
    <3>4. SessionOrder'
      BY <2>0, <2>2, <2>4, <3>1, <3>2, <3>3 DEF SessionOrder, Transitional
    <3>5. pos = pp
      BY <2>2, <3>1, <3>3 DEF Position, Transitional
    <3>6. Position'
      BY Zenon, <2>0, <2>2, <2>4, <3>1, <3>3, <3>5 DEF Position
    <3> QED
      BY <3>4, <3>6
  <2> QED
    BY <2>5, <2>6, <2>7 DEF IInv
<1> QED
  BY <1>1, <1>2

LEMMA CheckDepthKeeps == IInv /\ CheckDepth => IInv'
<1> SUFFICES ASSUME IInv, CheckDepth PROVE IInv'
  OBVIOUS
<1>1. Types'
  BY DepthAssumption DEF IInv, Types, JobType, CheckDepth, store, dag, worker, session, history,
     ReturnFalse, NoJob, Task, NoMessage, Goto, confirm_pruning_depth_below_virtual
<1>2. Boundary'
  BY <1>1 DEF IInv, Types, JobType, Boundary, PalwInstalled, Complete, Unrepaired, CheckDepth,
     store, dag, worker, session, history, ReturnFalse, NoJob, Task, NoMessage, Goto,
     confirm_pruning_depth_below_virtual
<1>3. UInv'
  BY <1>1, DepthAssumption DEF IInv, Types, UInv, Quiet, Window, SessionOrder, Position,
     Transitional,
     CheckDepth, store, dag, worker, session, history, ReturnFalse, NoJob, Task, NoMessage, Goto,
     confirm_pruning_depth_below_virtual
<1> QED
  BY <1>1, <1>2, <1>3 DEF IInv

LEMMA ApplyDiffKeeps == IInv /\ ApplyDiff => IInv'
<1> SUFFICES ASSUME IInv, ApplyDiff PROVE IInv'
  OBVIOUS
<1>1. CASE Panic
  BY <1>1, PanicKeeps
<1>2. CASE Transitional /\ ReturnFalse /\ UNCHANGED <<archival, store, dag, inbox, session, history>>
  <2>1. Types'
    BY <1>2, JobFacts DEF IInv, Types, ReturnFalse, store, dag, worker, session, history
  <2>2. Boundary'
    BY Zenon, <1>2 DEF IInv, Boundary, PalwInstalled, Complete, Unrepaired, ApplyDiff, store, dag,
       worker, session
  <2>3. UInv'
    BY <1>2, JobFacts DEF IInv, Types, UInv, Quiet, Window, SessionOrder, Position, Transitional,
       ReturnFalse, store, dag, worker, session, history
  <2> QED
    BY <2>1, <2>2, <2>3 DEF IInv
<1>3. CASE ~Transitional /\ ~Panic
  <2>1. /\ pc = "advance"
        /\ utxoset' = utxoset \cup {job.cur + 1}
        /\ pos' = job.cur + 1
        /\ job' = [job EXCEPT !.cur = job.cur + 1]
        /\ UNCHANGED <<archival, pp, root, checkpoint, stable, missing, palw, overlay, faithful,
                       dag, inbox, recovered, pc, session, history>>
    BY <1>3 DEF ApplyDiff
  <2>2. Types'
    BY <2>1 DEF IInv, Types, JobType, store, dag, worker, session, history
  <2>3. Boundary'
    BY <2>1 DEF IInv, Boundary, PalwInstalled, Complete, Unrepaired, store, dag, worker, session,
       history
  <2>4. UInv'
    BY <1>3, <2>1 DEF IInv, Types, JobType, UInv, Quiet, Window, SessionOrder, Position,
       Transitional, store, dag, worker, session, history
  <2> QED
    BY <2>2, <2>3, <2>4 DEF IInv
<1> QED
  BY <1>1, <1>2, <1>3 DEF ApplyDiff

LEMMA UtxosetAdvancedKeeps == IInv /\ UtxosetAdvanced => IInv'
<1> SUFFICES ASSUME IInv, UtxosetAdvanced PROVE IInv'
  OBVIOUS
<1>1. Types'
  BY DepthAssumption DEF IInv, Types, JobType, UtxosetAdvanced, store, dag, worker, session,
     history, Goto
<1>2. Boundary'
  BY <1>1 DEF IInv, Types, JobType, Boundary, PalwInstalled, Complete, Unrepaired, UtxosetAdvanced,
     store, dag, worker, session, history, Goto
<1>3. UInv'
  BY Zenon DEF IInv, UInv, Quiet, Window, SessionOrder, Position, Transitional, UtxosetAdvanced,
     store, dag,
     worker, session, history, Goto
<1> QED
  BY <1>1, <1>2, <1>3 DEF IInv

LEMMA ConfirmRecoveryKeeps == IInv /\ ConfirmRecovery => IInv'
<1> SUFFICES ASSUME IInv, ConfirmRecovery PROVE IInv'
  OBVIOUS
<1>1. CASE ReturnFalse
  <2>0. job.msg \in Int
    BY DEF IInv, Types, JobType
  <2>1. Types'
    BY <1>1, <2>0, JobFacts, PeriodicFacts
       DEF IInv, Types, ConfirmRecovery, ReturnFalse, store, dag, worker, session, history
  <2>2. Boundary'
    BY <1>1 DEF IInv, Boundary, PalwInstalled, Complete, Unrepaired, ConfirmRecovery, ReturnFalse,
       store, dag, worker, session, history
  <2>3. UInv'
    BY <1>1, JobFacts DEF IInv, Types, UInv, Quiet, Window, SessionOrder, Position, Transitional,
       ConfirmRecovery, ReturnFalse, store, dag, worker, session, history
  <2> QED
    BY <2>1, <2>2, <2>3 DEF IInv
<1>2. CASE Goto("fetch")
  <2>0. job.msg \in Int
    BY DEF IInv, Types, JobType
  <2>1. Types'
    BY <1>2, <2>0, JobFacts, PeriodicFacts
       DEF IInv, Types, ConfirmRecovery, Goto, store, dag, worker, session, history
  <2>2. Boundary'
    BY <1>2 DEF IInv, Boundary, PalwInstalled, Complete, Unrepaired, ConfirmRecovery, Goto, store,
       dag, worker, session, history
  <2>3. UInv'
    BY Zenon, <1>2, <2>0 DEF IInv, Types, UInv, Quiet, Window, SessionOrder, Position, Transitional,
       ConfirmRecovery, Goto, store, dag, session, history
  <2> QED
    BY <2>1, <2>2, <2>3 DEF IInv
<1>3. CASE ReturnTrue
  <2>0. job.msg \in Int
    BY DEF IInv, Types, JobType
  <2>1. Types'
    BY Zenon, <1>3, <2>0, JobFacts, PeriodicFacts
       DEF IInv, Types, ConfirmRecovery, ReturnTrue, ReturnFalse,
       store, dag, session, history
  <2>2. Boundary'
    BY <1>3 DEF IInv, Boundary, PalwInstalled, Complete, Unrepaired, ConfirmRecovery, ReturnTrue,
       ReturnFalse, store, dag, worker, session, history
  <2>3. UInv'
    BY <1>3, <2>0, JobFacts, PeriodicFacts
       DEF IInv, Types, UInv, Quiet, Window, SessionOrder, Position,
       Transitional, ConfirmRecovery, ReturnTrue, ReturnFalse, store, dag, session
  <2> QED
    BY <2>1, <2>2, <2>3 DEF IInv
<1> QED
  BY <1>1, <1>2, <1>3 DEF ConfirmRecovery

LEMMA FetchProofKeeps == IInv /\ FetchProof => IInv'
<1> SUFFICES ASSUME IInv, FetchProof PROVE IInv'
  OBVIOUS
<1>1. CASE Panic
  BY <1>1, PanicKeeps
<1>2. CASE ReturnTrue /\ UNCHANGED <<archival, store, dag, inbox, session, history>>
  <2>0. job.msg \in Int
    BY DEF IInv, Types, JobType
  <2>1. Types'
    BY <1>2, <2>0, JobFacts, PeriodicFacts
       DEF IInv, Types, ReturnTrue, ReturnFalse, store, dag, worker, session, history
  <2>2. Boundary'
    BY Zenon, <1>2 DEF IInv, Boundary, PalwInstalled, Complete, Unrepaired, FetchProof,
       ReturnFalse, store, worker, session,
       history
  <2>3. UInv'
    BY <1>2, <2>0, JobFacts, PeriodicFacts DEF IInv, Types, UInv, Quiet, Window, SessionOrder,
       Position, Transitional, FetchProof, ReturnTrue, ReturnFalse, store, dag, worker, session,
       history
  <2> QED
    BY <2>1, <2>2, <2>3 DEF IInv
<1>3. CASE Goto("sweep") /\ UNCHANGED <<archival, store, dag, inbox, session, history>>
  <2>1. Types'
    BY <1>3 DEF IInv, Types, Goto, store, dag, worker, session, history
  <2>2. Boundary'
    BY Zenon, <1>3 DEF IInv, Boundary, PalwInstalled, Complete, Unrepaired, FetchProof, store,
       worker, session
  <2>3. UInv'
    BY Zenon, <1>3 DEF IInv, UInv, Quiet, Window, SessionOrder, Position, Transitional, FetchProof,
       Goto,
       store, dag, session, history
  <2> QED
    BY <2>1, <2>2, <2>3 DEF IInv
<1> QED
  BY <1>1, <1>2, <1>3 DEF FetchProof

LEMMA PruneRowKeeps == IInv /\ PruneRow => IInv'
<1> SUFFICES ASSUME IInv, PruneRow PROVE IInv'
  OBVIOUS
<1>1. Types'
  BY DepthAssumption DEF IInv, Types, JobType, PruneRow, store, dag, worker, session, history
<1>2. Boundary'
  BY <1>1 DEF IInv, Types, JobType, Boundary, PalwInstalled, Complete, Unrepaired, PruneRow, store,
     dag, worker, session, history
<1>3. UInv'
  BY Zenon DEF IInv, UInv, Quiet, Window, SessionOrder, Position, Transitional, PruneRow, store,
     dag, worker,
     session, history
<1> QED
  BY <1>1, <1>2, <1>3 DEF IInv

LEMMA FinishPruneKeeps == IInv /\ FinishPrune => IInv'
<1> SUFFICES ASSUME IInv, FinishPrune PROVE IInv'
  OBVIOUS
<1>1. Types'
  BY DepthAssumption DEF IInv, Types, JobType, FinishPrune, store, dag, worker, session, history,
     Goto
<1>2. Boundary'
  BY <1>1 DEF IInv, Types, JobType, Boundary, PalwInstalled, Complete, Unrepaired, FinishPrune,
     store, dag, worker, session, history, Goto
<1>3. UInv'
  BY Zenon DEF IInv, JobType, UInv, Quiet, Window, SessionOrder, Position, Transitional,
     FinishPrune, store,
     dag, worker, session, history, Goto
<1> QED
  BY <1>1, <1>2, <1>3 DEF IInv

LEMMA MarkRetentionKeeps == IInv /\ MarkRetention => IInv'
<1> SUFFICES ASSUME IInv, MarkRetention PROVE IInv'
  OBVIOUS
<1>1. Types'
  BY DepthAssumption DEF IInv, Types, JobType, MarkRetention, store, dag, worker, session, history,
     ReturnFalse, ReturnTrue, NoJob, Task, NoMessage
<1>2. Boundary'
  BY Zenon DEF IInv, Boundary, PalwInstalled, Complete, Unrepaired, MarkRetention, session, history,
     ReturnFalse, ReturnTrue, NoMessage
<1>3. UInv'
  <2> SUFFICES ASSUME Quiet' PROVE SessionOrder' /\ Position'
    BY DEF UInv
  <2>1. SessionOrder'
    BY DEF IInv, Types, UInv, Quiet, Window, SessionOrder, Transitional, MarkRetention, dag,
       session, history,
       ReturnFalse, ReturnTrue, NoJob, Task, NoMessage
  <2>2. Position'
    BY Zenon DEF IInv, JobType, UInv, Quiet, Window, Position, Transitional, MarkRetention,
       session, history,
       ReturnFalse, ReturnTrue, NoMessage
  <2> QED
    BY <2>1, <2>2
<1> QED
  BY <1>1, <1>2, <1>3 DEF IInv

LEMMA StartSyncKeeps == IInv /\ StartSync => IInv'
<1> SUFFICES ASSUME IInv, StartSync PROVE IInv'
  OBVIOUS
<1>1. Types'
  BY DepthAssumption DEF IInv, Types, JobType, StartSync, store, dag, worker, session, history,
     Running
<1>2. Boundary'
  BY <1>1 DEF IInv, Types, JobType, Boundary, PalwInstalled, Complete, Unrepaired, StartSync,
     store, dag, worker, session, history, Running
<1>3. UInv'
  BY Zenon DEF IInv, JobType, UInv, Quiet, SessionOrder, Position, Transitional, StartSync, store,
     dag, worker,
     session, history, Running
<1> QED
  BY <1>1, <1>2, <1>3 DEF IInv

LEMMA StartCatchUpKeeps == IInv /\ StartCatchUp => IInv'
<1> SUFFICES ASSUME IInv, StartCatchUp PROVE IInv'
  OBVIOUS
<1>1. Types'
  BY DepthAssumption DEF IInv, Types, JobType, StartCatchUp, store, dag, worker, session, history,
     Running, Samples, Chain
<1>2. Boundary'
  BY <1>1 DEF IInv, Types, JobType, Boundary, PalwInstalled, Complete, Unrepaired, StartCatchUp,
     store, dag, worker, session, history, Running, Samples, Chain
<1>3. UInv'
  BY Zenon DEF IInv, JobType, UInv, Quiet, Window, SessionOrder, Position, Transitional,
     StartCatchUp, store,
     dag, worker, session, history, Running, Samples, Chain
<1> QED
  BY <1>1, <1>2, <1>3 DEF IInv

LEMMA IntrusiveUpdateKeeps == IInv /\ IntrusiveUpdate => IInv'
<1> SUFFICES ASSUME IInv, IntrusiveUpdate PROVE IInv'
  OBVIOUS
<1>1. Types'
  BY DepthAssumption DEF IInv, Types, IntrusiveUpdate, RetentionRoots, Samples, Chain, store, dag,
     worker, session, history
<1>2. Boundary'
  <2>1. PalwInstalled' /\ ~stable' /\ phase' = "trusted"
    BY DEF PalwInstalled, IntrusiveUpdate, Installed
  <2> QED
    BY Zenon, <2>1 DEF Boundary
<1>3. UInv'
  <2> SUFFICES ASSUME Quiet' PROVE SessionOrder' /\ Position'
    BY DEF UInv
  <2>1. ~raced /\ pc \notin Window /\ retreats = 0
    BY Zenon DEF Quiet, IntrusiveUpdate, NoteRace, Window
  <2>2. SessionOrder /\ Position
    BY <2>1 DEF IInv, UInv, Quiet
  <2>3. SessionOrder'
    <3>1. /\ sink' = target /\ pp' = target /\ phase' = "trusted" /\ ~stable' /\ missing'
          /\ inbox' = inbox /\ job' = job
      BY DEF IntrusiveUpdate, worker
    <3>2. target > sink /\ inbox =< sink /\ job.msg =< sink
      BY <2>2 DEF SessionOrder, IntrusiveUpdate
    <3>3. target \in Int /\ sink \in Int /\ inbox \in Int /\ job.msg \in Int
      BY DEF IInv, Types, JobType
    <3>4. inbox' =< sink' /\ job'.msg =< sink'
      BY <3>1, <3>2, <3>3
    <3> QED
      BY <3>1, <3>4 DEF SessionOrder
  <2>4. Position'
    BY <2>1, <2>2 DEF Position, Window, IntrusiveUpdate, worker
  <2> QED
    BY <2>3, <2>4
<1> QED
  BY <1>1, <1>2, <1>3 DEF IInv

LEMMA TrustedBodiesKeeps == IInv /\ TrustedBodies => IInv'
<1> SUFFICES ASSUME IInv, TrustedBodies PROVE IInv'
  OBVIOUS
<1>1. Types'
  BY DepthAssumption DEF IInv, Types, JobType, TrustedBodies, store, dag, worker, session, history
<1>2. Boundary'
  BY <1>1 DEF IInv, Types, JobType, Boundary, PalwInstalled, Complete, Unrepaired, TrustedBodies,
     store, dag, worker, session, history
<1>3. UInv'
  BY Zenon DEF IInv, JobType, UInv, Quiet, Window, SessionOrder, Position, Transitional,
     TrustedBodies, store,
     dag, worker, history
<1> QED
  BY <1>1, <1>2, <1>3 DEF IInv

LEMMA InstallBoundaryKeeps == IInv /\ InstallBoundary => IInv'
<1> SUFFICES ASSUME IInv, InstallBoundary PROVE IInv'
  OBVIOUS
<1>1. Types'
  BY DepthAssumption DEF IInv, Types, JobType, InstallBoundary, store, dag, worker, session, history
<1>2. Boundary'
  <2>1. PalwInstalled' /\ phase' = "clear" /\ UNCHANGED <<pp, stable, overlay, faithful, pc>>
    BY DEF PalwInstalled, InstallBoundary, Installed, worker
  <2>2. stable => Complete'
    BY <2>1 DEF IInv, Boundary, Complete, Unrepaired, InstallBoundary
  <2> QED
    BY Zenon, <2>1, <2>2 DEF Boundary
<1>3. UInv'
  BY Zenon DEF IInv, UInv, Quiet, Window, SessionOrder, Position, Transitional, InstallBoundary,
     store, dag,
     worker, session, history
<1> QED
  BY <1>1, <1>2, <1>3 DEF IInv

LEMMA ClearFlagKeeps == IInv /\ ClearFlag => IInv'
<1> SUFFICES ASSUME IInv, ClearFlag PROVE IInv'
  OBVIOUS
<1>1. Types'
  BY DepthAssumption DEF IInv, Types, JobType, ClearFlag, store, dag, worker, session, history
<1>2. Boundary'
  BY <1>1 DEF IInv, Types, JobType, Boundary, PalwInstalled, Complete, Unrepaired, ClearFlag,
     store, dag, worker, session, history
<1>3. UInv'
  BY Zenon DEF IInv, Types, JobType, UInv, Quiet, Window, SessionOrder, Position, Transitional,
     ClearFlag,
     store, dag, worker, session, history
<1> QED
  BY <1>1, <1>2, <1>3 DEF IInv

LEMMA ClearUtxosetKeeps == IInv /\ ClearUtxoset => IInv'
<1> SUFFICES ASSUME IInv, ClearUtxoset PROVE IInv'
  OBVIOUS
<1>1. Types'
  BY DepthAssumption DEF IInv, Types, JobType, ClearUtxoset, store, dag, worker, session, history
<1>2. Boundary'
  BY <1>1 DEF IInv, Types, JobType, Boundary, PalwInstalled, Complete, Unrepaired, ClearUtxoset,
     store, dag, worker, session, history
<1>3. UInv'
  BY Zenon DEF IInv, JobType, UInv, Quiet, Window, SessionOrder, Position, Transitional,
     ClearUtxoset, store,
     dag, worker, session, history
<1> QED
  BY <1>1, <1>2, <1>3 DEF IInv

LEMMA AppendChunkKeeps == IInv /\ AppendChunk => IInv'
<1> SUFFICES ASSUME IInv, AppendChunk PROVE IInv'
  OBVIOUS
<1>1. Types'
  BY DepthAssumption DEF IInv, Types, JobType, AppendChunk, store, dag, worker, session, history
<1>2. Boundary'
  BY <1>1 DEF IInv, Types, JobType, Boundary, PalwInstalled, Complete, Unrepaired, AppendChunk,
     store, dag, worker, session, history
<1>3. UInv'
  BY Zenon DEF IInv, Types, UInv, Quiet, SessionOrder, Position, Transitional, AppendChunk, store,
     dag, worker,
     session, history
<1> QED
  BY <1>1, <1>2, <1>3 DEF IInv

LEMMA ImportUtxosetKeeps == IInv /\ ImportUtxoset => IInv'
<1> SUFFICES ASSUME IInv, ImportUtxoset PROVE IInv'
  OBVIOUS
<1>1. Types'
  BY DepthAssumption DEF IInv, Types, JobType, ImportUtxoset, store, dag, worker, session, history,
     NoteRace
<1>2. Boundary'
  BY <1>1 DEF IInv, Types, JobType, Boundary, PalwInstalled, Complete, Unrepaired, ImportUtxoset,
     store, dag, worker, session, history, NoteRace
<1>3. UInv'
  BY Zenon DEF IInv, Types, UInv, Quiet, Window, SessionOrder, Position, Transitional,
     ImportUtxoset, store,
     dag, worker, session, history, NoteRace
<1> QED
  BY <1>1, <1>2, <1>3 DEF IInv

LEMMA ImportSidecarsKeeps == IInv /\ ImportSidecars => IInv'
<1> SUFFICES ASSUME IInv, ImportSidecars PROVE IInv'
  OBVIOUS
<1>1. Types'
  BY DepthAssumption DEF IInv, Types, JobType, ImportSidecars, store, dag, worker, session, history
<1>2. Boundary'
  BY <1>1 DEF IInv, Types, JobType, Boundary, PalwInstalled, Complete, Unrepaired, ImportSidecars,
     store, dag, worker, session, history
<1>3. UInv'
  BY Zenon DEF IInv, UInv, Quiet, SessionOrder, Position, Transitional, ImportSidecars, dag,
     worker, history
<1> QED
  BY <1>1, <1>2, <1>3 DEF IInv

LEMMA SetStableKeeps == IInv /\ SetStable => IInv'
<1> SUFFICES ASSUME IInv, SetStable PROVE IInv'
  OBVIOUS
<1>1. Types'
  BY DepthAssumption DEF IInv, Types, JobType, SetStable, store, dag, worker, session, history
<1>2. Boundary'
  BY <1>1 DEF IInv, Types, JobType, Boundary, PalwInstalled, Complete, Unrepaired, SetStable,
     store, dag, worker, session, history
<1>3. UInv'
  BY Zenon DEF IInv, JobType, UInv, Quiet, Window, SessionOrder, Position, Transitional, SetStable,
     dag,
     worker, session, history
<1> QED
  BY <1>1, <1>2, <1>3 DEF IInv

LEMMA AbortIbdKeeps == IInv /\ AbortIbd => IInv'
<1> SUFFICES ASSUME IInv, AbortIbd PROVE IInv'
  OBVIOUS
<1>1. Types'
  BY DepthAssumption DEF IInv, Types, JobType, AbortIbd, store, dag, worker, session, history
<1>2. Boundary'
  BY <1>1 DEF IInv, Types, JobType, Boundary, PalwInstalled, Complete, Unrepaired, AbortIbd, store,
     dag, worker, session, history
<1>3. UInv'
  BY Zenon DEF IInv, Types, JobType, UInv, Quiet, Window, SessionOrder, Position, Transitional,
     AbortIbd,
     store, dag, worker, session, history
<1> QED
  BY <1>1, <1>2, <1>3 DEF IInv

LEMMA CrashKeeps == IInv /\ Crash => IInv'
<1> SUFFICES ASSUME IInv, Crash PROVE IInv'
  OBVIOUS
<1>1. Types'
  BY JobFacts DEF IInv, Types, Crash, Exit, store, dag, worker, session, history
<1>2. Boundary'
  BY JobFacts DEF IInv, Boundary, PalwInstalled, Complete, Unrepaired, Crash, Exit, store, dag,
     worker, session, history
<1>3. UInv'
  BY JobFacts DEF IInv, Types, UInv, Quiet, Window, SessionOrder, Position, Transitional, Crash,
     Exit, store, dag, worker, session, history
<1> QED
  BY <1>1, <1>2, <1>3 DEF IInv

LEMMA InitEstablishes == Init => IInv
<1> SUFFICES ASSUME Init PROVE IInv
  OBVIOUS
<1>1. PICK d \in Datadirs :
        /\ pp = d.pp /\ pos = d.pos /\ utxoset = 1 .. d.pos
        /\ root = (IF archival THEN 0 ELSE d.pp)
        /\ checkpoint = (IF archival THEN 0 ELSE d.checkpoint)
        /\ palw = d.sidecar /\ overlay = d.sidecar
        /\ sink = d.sink /\ rows = 0 .. d.sink
  BY DEF Init
<1>2. /\ d.pp \in Nat /\ d.sink \in Nat /\ d.pos \in Nat /\ d.sidecar \in 0 .. d.pp
      /\ d.checkpoint \in Int /\ d.pp =< d.sink /\ (d.sidecar = d.pp \/ d.checkpoint # d.pp)
  BY DepthAssumption, DatadirAssumption DEF Samples, Chain
<1>3. Types
  BY <1>1, <1>2, JobFacts DEF Types, Init
<1>4. Boundary
  BY <1>1, <1>2, JobFacts DEF Boundary, PalwInstalled, Complete, Unrepaired, Init
<1>5. UInv
  BY <1>1, <1>2, JobFacts DEF UInv, SessionOrder, Position, Transitional, Init
<1> QED
  BY <1>3, <1>4, <1>5 DEF IInv

LEMMA StutterKeeps == IInv /\ UNCHANGED vars => IInv'
<1> SUFFICES ASSUME IInv, UNCHANGED vars PROVE IInv'
  OBVIOUS
<1>1. Types'
  BY DEF IInv, Types, vars, store, dag, worker, session, history
<1>2. Boundary'
  BY DEF IInv, Boundary, PalwInstalled, Complete, Unrepaired, vars, store, dag, worker, session,
     history
<1>3. UInv'
  BY Zenon DEF IInv, UInv, Quiet, SessionOrder, Position, Transitional, vars, store, dag, worker,
     session, history
<1> QED
  BY <1>1, <1>2, <1>3 DEF IInv

LEMMA NextKeeps == IInv /\ [Next]_vars => IInv'
<1> SUFFICES ASSUME IInv, [Next]_vars PROVE IInv'
  OBVIOUS
<1>1. CASE WorkerStep
  BY <1>1, ReceiveKeeps, InspectKeeps, MovePruningPointKeeps, CheckDepthKeeps, ApplyDiffKeeps,
     UtxosetAdvancedKeeps, ConfirmRecoveryKeeps, FetchProofKeeps, PruneRowKeeps, FinishPruneKeeps,
     MarkRetentionKeeps DEF WorkerStep
<1>2. CASE IbdStep
  BY <1>2, IntrusiveUpdateKeeps, TrustedBodiesKeeps, InstallBoundaryKeeps, ClearFlagKeeps,
     ClearUtxosetKeeps, AppendChunkKeeps, ImportUtxosetKeeps, ImportSidecarsKeeps, SetStableKeeps
     DEF IbdStep
<1>3. CASE AdvanceVirtual \/ RetreatVirtual \/ StartSync \/ StartCatchUp \/ AbortIbd \/ Crash
  BY <1>3, AdvanceVirtualKeeps, RetreatVirtualKeeps, StartSyncKeeps, StartCatchUpKeeps,
     AbortIbdKeeps, CrashKeeps
<1>4. CASE UNCHANGED vars
  BY <1>4, StutterKeeps
<1> QED
  BY <1>1, <1>2, <1>3, <1>4 DEF Next

----------------------------------------------------------------------------
\* Every reachable state satisfies the inductive invariant: what the worker's iterator, the
\* recorded position, the boundary and the phase of an IBD session say of each other.
THEOREM PruningInvariant == Spec => []IInv
<1>1. Init => IInv
  BY InitEstablishes
<1>2. IInv /\ [Next]_vars => IInv'
  BY NextKeeps
<1> QED
  BY <1>1, <1>2, PTL DEF Spec

\* The all-or-nothing of sync_new_utxo_set and of the boundary batches: after the start-up
\* inspection a stable pruning point has its overlay sidecar, and its PALW sidecar if PALW is active
\* there, through crashes, aborted sessions and retreats of the virtual.
THEOREM BoundaryComplete == Spec => []StableBoundaryIsComplete
<1>1. IInv => StableBoundaryIsComplete
  BY DEF IInv, Boundary, PalwInstalled, Complete, Unrepaired, StableBoundaryIsComplete
<1> QED
  BY <1>1, PruningInvariant, PTL

\* advance_pruning_utxoset, the crash recovery and the import leave the pruning point UTXO set at
\* its recorded position, as long as the virtual has not retreated and no session raced the worker.
THEOREM UtxosetIsItsPosition == Spec => []UtxosetMatchesItsPosition
<1>1. IInv => UtxosetMatchesItsPosition
  BY DEF IInv, UInv, Quiet, Position, UtxosetMatchesItsPosition
<1> QED
  BY <1>1, PruningInvariant, PTL

----------------------------------------------------------------------------
(* Types, and when the worker panics.  Neither needs a quiet node: the     *)
(* virtual may retreat and the position may lag behind the pruning point.  *)

StoreOK ==
    /\ pp \in Samples /\ root \in Samples /\ checkpoint \in Chain /\ pos \in Chain
    /\ sink \in Chain /\ root =< pp /\ pp =< sink
    /\ utxoset \subseteq Chain /\ rows \subseteq 0 .. sink
    /\ palw \in Chain /\ overlay \in Chain
    /\ \A b \in pp + 1 .. sink : b \in rows

FlagsOK ==
    /\ archival \in BOOLEAN /\ stable \in BOOLEAN /\ missing \in BOOLEAN /\ faithful \in BOOLEAN
    /\ recovered \in BOOLEAN /\ raced \in BOOLEAN /\ panicked \in BOOLEAN

WorkerOK ==
    /\ inbox \in Chain \cup {NoMessage}
    /\ pc \in Labels /\ job \in Jobs /\ job.root =< pp

SessionOK ==
    /\ phase \in Phases /\ target \in Samples
    /\ faults \in 0 .. MaxFaults /\ retreats \in 0 .. MaxRetreats /\ reorgs \in Nat
    /\ missing => ~stable
    /\ phase \notin {"none", "catchup"} => ~stable
    /\ phase \in {"boundary", "clear", "cleared", "chunks", "sidecars", "final"} => ~missing
    /\ ~stable => sink = pp
    /\ phase = "catchup" => target > sink

\* The most blue score the sink has lost since the worker last confirmed its depth.
Lost == reorgs * (FinalityDepth - 1)

\* Those retreats have not used up what the pruning depth leaves above the anticone depth.
RetreatsAreCovered == Lost + AnticoneDepth =< PruningDepth

\* As long as no session has raced the worker: it works for the stored pruning point, the rows it
\* still has to apply are there, and a depth it confirmed is lost only to retreats.
Unraced ==
    /\ pc \in Window => job.goal = pp
    /\ phase \in {"sidecars", "final"} => pos = pp /\ pc \notin Window
    /\ stable => \A b \in pos + 1 .. pp : b \in rows
    /\ stable /\ pc \in {"confirm", "fetch", "sweep", "mark"} => pos = pp
    /\ stable /\ pc \in {"depth", "advance"} => \A b \in job.cur + 1 .. job.goal : b \in rows
    /\ pc \in {"depth", "advance"} => job.cur = pos \/ job.cur < job.goal
    /\ pc \in {"advance", "fetch"} => sink + 1 + Lost >= job.goal + PruningDepth

WorkerSafe == ~raced /\ ~panicked => Unraced

PInv == StoreOK /\ FlagsOK /\ WorkerOK /\ SessionOK /\ WorkerSafe

\* A pruning sample is a block of the chain, and genesis is one.
LEMMA SampleFacts ==
    /\ 0 \in Samples
    /\ \A n \in Samples : n \in Nat /\ n =< MaxScore
BY DepthAssumption DEF Samples, Chain

LEMMA TaskFacts ==
    ASSUME NEW mode \in {"none", "startup", "recover", "periodic"}, NEW msg \in Chain \cup {NoMessage},
           NEW cur \in Chain, NEW goal \in Chain, NEW r \in Chain, NEW c \in Chain
    PROVE  LET t == Task(mode, msg, cur, goal, r, c)
           IN  /\ t \in Jobs /\ t.mode = mode /\ t.msg = msg /\ t.cur = cur /\ t.goal = goal
               /\ t.root = r /\ t.checkpoint = c
BY DEF Task, Jobs

LEMMA IdleJobs ==
    /\ NoJob \in Jobs /\ NoJob.root = 0
    /\ Startup \in Jobs /\ Startup.root = 0
BY DepthAssumption DEF NoJob, Startup, Task, Jobs, Chain

LEMMA JobFields ==
    ASSUME job \in Jobs
    PROVE  /\ job.mode \in {"none", "startup", "recover", "periodic"}
           /\ job.msg \in Chain \cup {NoMessage}
           /\ job.cur \in Chain /\ job.goal \in Chain /\ job.root \in Chain /\ job.checkpoint \in Chain
BY DEF Jobs

LEMMA LostFacts ==
    ASSUME reorgs \in Nat
    PROVE  Lost \in Nat
<1>1. FinalityDepth - 1 \in Nat
  BY DepthAssumption
<1> QED
  BY <1>1 DEF Lost

LEMMA AdvanceVirtualIsSafe == PInv /\ AdvanceVirtual => PInv'
<1> SUFFICES ASSUME PInv, AdvanceVirtual PROVE PInv'
  OBVIOUS
<1>1. StoreOK'
  BY DepthAssumption, SampleFacts DEF PInv, StoreOK, Chain, AdvanceVirtual, store, Transitional
<1>2. FlagsOK'
  BY DEF PInv, FlagsOK, AdvanceVirtual, store, dag, worker, session, history, Transitional
<1>3. WorkerOK'
  BY DepthAssumption DEF PInv, StoreOK, WorkerOK, Chain, NoMessage, AdvanceVirtual, store, worker,
     history,
     Transitional
<1>4. SessionOK'
  BY Zenon DEF PInv, StoreOK, SessionOK, Phases, Chain, AdvanceVirtual, store, dag, worker,
     session, history,
     Transitional
<1>5. WorkerSafe'
  <2>1. Lost' = Lost /\ Lost \in Nat
    BY LostFacts DEF PInv, SessionOK, Lost, AdvanceVirtual, history
  <2> QED
    BY <2>1, SampleFacts, DepthAssumption DEF PInv, StoreOK, WorkerSafe, Unraced, Window, Chain,
       AdvanceVirtual, store, dag, worker, session, history, Transitional
<1> QED
  BY <1>1, <1>2, <1>3, <1>4, <1>5 DEF PInv

LEMMA RetreatVirtualIsSafe == PInv /\ RetreatVirtual => PInv'
<1> SUFFICES ASSUME PInv, RetreatVirtual PROVE PInv'
  OBVIOUS
<1>1. StoreOK'
  <2>1. PICK s \in pp .. sink - 1 : sink' = s /\ rows' = {b \in rows : b =< s}
    BY DEF RetreatVirtual
  <2>0. pp \in Nat /\ sink \in Nat /\ sink =< MaxScore /\ pp =< sink /\ s \in Nat
    BY <2>1, SampleFacts, DepthAssumption DEF PInv, StoreOK, Chain
  <2>2. s \in Chain /\ pp =< s /\ rows' \subseteq 0 .. s /\ (\A b \in pp + 1 .. s : b \in rows')
    <3>1. s \in Chain /\ pp =< s
      BY <2>0, <2>1, DepthAssumption DEF Chain
    <3>2. \A b \in rows' : b \in 0 .. sink /\ b =< s
      BY <2>1 DEF PInv, StoreOK
    <3>4. \A b \in rows' : b \in 0 .. s
      BY <2>0, <3>2
    <3>3. \A b \in pp + 1 .. s : b \in rows'
      BY <2>0, <2>1 DEF PInv, StoreOK
    <3> QED
      BY <3>1, <3>3, <3>4
  <2>3. UNCHANGED <<pp, root, checkpoint, pos, utxoset, palw, overlay>>
    BY DEF RetreatVirtual, store
  <2> QED
    BY <2>1, <2>2, <2>3, SampleFacts DEF PInv, StoreOK
<1>2. FlagsOK'
  BY DEF PInv, FlagsOK, RetreatVirtual, store, dag, worker, session, history, Transitional
<1>3. WorkerOK'
  BY DepthAssumption, SampleFacts
     DEF PInv, StoreOK, WorkerOK, Chain, NoMessage, RetreatVirtual, store, worker,
     session
<1>4. SessionOK'
  BY DepthAssumption, SampleFacts DEF PInv, StoreOK, SessionOK, Phases, Chain, RetreatVirtual,
     store, dag, worker, session, history, Transitional
<1>5. WorkerSafe'
  <2>1. PICK s \in pp .. sink - 1 :
          sink - s < FinalityDepth /\ sink' = s /\ rows' = {b \in rows : b =< s}
    BY DEF RetreatVirtual
  <2>2. sink \in Nat /\ pp \in Nat /\ pos \in Nat /\ s \in Nat /\ job.goal \in Nat /\ job.cur \in Nat
    BY <2>1, SampleFacts, JobFields DEF PInv, StoreOK, WorkerOK, Chain
  <2>3. UNCHANGED <<pp, pos, stable, pc, job, phase, raced, panicked>>
    BY DEF RetreatVirtual, store, worker, session
  <2>4. Lost \in Nat /\ (pc \in {"advance", "fetch"} => Lost' = Lost + (FinalityDepth - 1))
    <3> DEFINE f == FinalityDepth - 1
    <3>1. f \in Nat /\ reorgs \in Nat /\ (pc \in {"advance", "fetch"} => reorgs' = reorgs + 1)
      BY DepthAssumption DEF PInv, SessionOK, RetreatVirtual
    <3>2. (reorgs + 1) * f = reorgs * f + f /\ reorgs * f \in Nat
      BY <3>1
    <3> QED
      BY <3>1, <3>2 DEF Lost
  <2> SUFFICES ASSUME ~raced, ~panicked PROVE Unraced'
    BY <2>3 DEF WorkerSafe
  <2>5. Unraced
    BY DEF PInv, WorkerSafe
  <2>6. pc \in {"advance", "fetch"} => s + 1 + Lost' >= job.goal + PruningDepth
    BY <2>1, <2>2, <2>4, <2>5, DepthAssumption DEF Unraced
  <2>7. \A b \in rows : b =< pp => b \in rows'
    BY <2>1, <2>2 DEF PInv, StoreOK
  <2>8. stable => \A b \in pos + 1 .. pp : b \in rows'
    BY <2>2, <2>5, <2>7 DEF Unraced
  <2>9. stable /\ pc \in {"depth", "advance"} => \A b \in job.cur + 1 .. job.goal : b \in rows'
    BY <2>2, <2>5, <2>7 DEF Unraced, Window
  <2> QED
    BY Zenon, <2>1, <2>3, <2>5, <2>6, <2>8, <2>9 DEF Unraced
<1> QED
  BY <1>1, <1>2, <1>3, <1>4, <1>5 DEF PInv

LEMMA PanicIsSafe == PInv /\ Panic => PInv'
<1> SUFFICES ASSUME PInv, Panic PROVE PInv'
  OBVIOUS
<1>1. StoreOK'
  BY DEF PInv, StoreOK, Panic, store, dag
<1>2. FlagsOK'
  BY Zenon DEF PInv, FlagsOK, Panic, Exit, store
<1>3. WorkerOK'
  BY IdleJobs, SampleFacts DEF PInv, StoreOK, WorkerOK, Labels, Panic, Exit, store
<1>4. SessionOK'
  BY SampleFacts DEF PInv, SessionOK, Phases, Panic, Exit, store, dag
<1>5. WorkerSafe'
  BY DEF WorkerSafe, Panic
<1> QED
  BY <1>1, <1>2, <1>3, <1>4, <1>5 DEF PInv

LEMMA ReturnTrueKeepsTypes == WorkerOK /\ StoreOK /\ ReturnTrue /\ pp' = pp /\ inbox' = inbox => WorkerOK'
<1> SUFFICES ASSUME WorkerOK, StoreOK, ReturnTrue, pp' = pp, inbox' = inbox PROVE WorkerOK'
  OBVIOUS
<1>1. CASE job.mode = "recover"
  <2>1. job' = Task("periodic", job.msg, 0, 0, 0, 0) /\ pc' = "periodic"
    BY <1>1 DEF ReturnTrue
  <2>2. job' \in Jobs /\ job'.root = 0
    <3>1. job.msg \in Chain \cup {NoMessage} /\ 0 \in Chain
      BY JobFields, DepthAssumption DEF WorkerOK, Chain
    <3> QED
      BY <2>1, <3>1, TaskFacts
  <2> QED
    BY <2>1, <2>2, SampleFacts DEF WorkerOK, StoreOK, Labels
<1>2. CASE job.mode # "recover"
  BY <1>2, IdleJobs, SampleFacts DEF ReturnTrue, ReturnFalse, WorkerOK, StoreOK, Labels
<1> QED
  BY <1>1, <1>2

LEMMA ReceiveIsSafe == PInv /\ Receive => PInv'
<1> SUFFICES ASSUME PInv, Receive PROVE PInv'
  OBVIOUS
<1>1. StoreOK'
  BY Zenon DEF PInv, StoreOK, Receive, store, dag, session
<1>2. FlagsOK'
  BY DEF PInv, FlagsOK, Receive, store, dag, worker, session, history
<1>3. WorkerOK'
  <2>1. job' = Task(IF recovered THEN "periodic" ELSE "recover", inbox, 0, 0, 0, 0)
    BY DEF Receive
  <2>2. job' \in Jobs /\ job'.root = 0
    <3>1. CASE recovered
      BY <2>1, TaskFacts, DepthAssumption DEF PInv, WorkerOK, Chain
    <3>2. CASE ~recovered
      BY <2>1, TaskFacts, DepthAssumption DEF PInv, WorkerOK, Chain
    <3> QED
      BY <3>1, <3>2
  <2> QED
    BY <2>2, SampleFacts DEF PInv, StoreOK, WorkerOK, Labels, Receive, store
<1>4. SessionOK'
  BY Zenon DEF PInv, StoreOK, SessionOK, Receive, store, dag, worker, session, history
<1>5. WorkerSafe'
  BY Zenon DEF PInv, WorkerSafe, Unraced, Lost, Window, Receive, store, dag, worker, session,
     history
<1> QED
  BY <1>1, <1>2, <1>3, <1>4, <1>5 DEF PInv

LEMMA InspectIsSafe == PInv /\ Inspect => PInv'
<1> SUFFICES ASSUME PInv, Inspect PROVE PInv'
  OBVIOUS
<1>1. StoreOK'
  BY SampleFacts DEF PInv, StoreOK, Chain, Inspect, dag, worker, session
<1>2. FlagsOK'
  <2>1. faithful' \in BOOLEAN
    <3>1. \/ faithful' = faithful
          \/ faithful' = (pp \in rows)
      BY DEF Inspect
    <3>2. faithful \in BOOLEAN /\ (pp \in rows) \in BOOLEAN
      BY DEF PInv, FlagsOK
    <3> QED
      BY <3>1, <3>2, Zenon
  <2> QED
    BY Zenon, <2>1 DEF PInv, FlagsOK, Inspect, store, worker, session, history, ReturnFalse
<1>3. WorkerOK'
  <2>1. CASE ReturnFalse
    BY <2>1, IdleJobs, SampleFacts
       DEF PInv, StoreOK, WorkerOK, Labels, Inspect, session, ReturnFalse
  <2>2. CASE /\ job' = Task(job.mode, job.msg, pos, pp, root, checkpoint)
             /\ pc' = IF pos # pp THEN "depth" ELSE "confirm"
    <3>1. job' \in Jobs /\ job'.root = root
      <4>1. pp \in Chain /\ pos \in Chain /\ root \in Chain /\ checkpoint \in Chain
        BY DEF PInv, StoreOK, Samples
      <4>2. job.mode \in {"none", "startup", "recover", "periodic"} /\ job.msg \in Chain \cup {NoMessage}
        BY JobFields DEF PInv, WorkerOK
      <4> QED
        BY <2>2, <4>1, <4>2, Zenon DEF Task, Jobs
    <3> QED
      BY Zenon, <2>2, <3>1 DEF PInv, StoreOK, WorkerOK, Labels, Inspect
  <2> QED
    BY <2>1, <2>2 DEF Inspect
<1>4. SessionOK'
  BY Zenon DEF PInv, SessionOK, Chain, Inspect, store, dag, session, history
<1>5. WorkerSafe'
  <2>1. CASE ReturnFalse
    BY Zenon, <2>1 DEF PInv, WorkerSafe, Unraced, Window, Inspect, store, dag, session, history,
       ReturnFalse
  <2>2. CASE /\ job' = Task(job.mode, job.msg, pos, pp, root, checkpoint)
             /\ pc' = IF pos # pp THEN "depth" ELSE "confirm"
    <3>1. job'.goal = pp /\ job'.cur = pos
      BY <2>2 DEF Task
    <3>2. UNCHANGED <<pp, pos, stable, rows, sink, phase, raced, panicked>> /\ phase = "none"
      BY DEF Inspect, dag, session, history
    <3> QED
      BY Zenon, <2>2, <3>1, <3>2 DEF PInv, WorkerSafe, Unraced
  <2> QED
    BY <2>1, <2>2 DEF Inspect
<1> QED
  BY <1>1, <1>2, <1>3, <1>4, <1>5 DEF PInv

LEMMA MovePruningPointIsSafe == PInv /\ MovePruningPoint => PInv'
<1> SUFFICES ASSUME PInv, MovePruningPoint PROVE PInv'
  OBVIOUS
<1>1. CASE ReturnFalse /\ UNCHANGED store
  <2>1. StoreOK'
    BY Zenon, <1>1 DEF PInv, StoreOK, MovePruningPoint, store, dag
  <2>2. FlagsOK'
    BY <1>1 DEF PInv, FlagsOK, MovePruningPoint, ReturnFalse, store, history
  <2>3. WorkerOK'
    BY <1>1, IdleJobs, SampleFacts
       DEF PInv, StoreOK, WorkerOK, Labels, MovePruningPoint, ReturnFalse, store
  <2>4. SessionOK'
    BY Zenon, <1>1 DEF PInv, SessionOK, MovePruningPoint, store, dag, session, history
  <2>5. WorkerSafe'
    BY Zenon, <1>1 DEF PInv, WorkerSafe, Unraced, Window, MovePruningPoint, ReturnFalse, store,
       dag, session,
       history
  <2> QED
    BY <2>1, <2>2, <2>3, <2>4, <2>5 DEF PInv
<1>2. CASE ~(ReturnFalse /\ UNCHANGED store)
  <2>1. PICK new \in next_pruning_points(job.msg) \cap rows :
          /\ \E r \in RetentionRoots(new) :
                root' = r /\ job' = Task("periodic", NoMessage, pp, new, r, 0)
          /\ pp' = new /\ palw' = new /\ overlay' = new /\ faithful' = TRUE
          /\ pc' = "depth"
          /\ UNCHANGED <<checkpoint, pos, utxoset, stable, missing, recovered>>
    BY <1>2 DEF MovePruningPoint
  <2>2. PICK r \in RetentionRoots(new) : root' = r /\ job' = Task("periodic", NoMessage, pp, new, r, 0)
    BY <2>1
  <2>3. UNCHANGED <<archival, rows, sink, inbox, phase, target, faults, retreats, raced, panicked, reorgs>>
    BY DEF MovePruningPoint, dag, session, history
  <2>4. new \in Samples /\ new \in Nat /\ pp \in Nat /\ pp < new /\ new =< sink /\ new \in Chain /\ sink \in Nat
        /\ pos \in Nat
    BY DEF PInv, StoreOK, next_pruning_points, Samples, Chain
  <2>5. r \in Samples /\ r =< new /\ r \in Chain
    BY <2>2, <2>4, SampleFacts DEF PInv, StoreOK, RetentionRoots, Samples
  <2>6. /\ job' \in Jobs /\ job'.root = r /\ job'.cur = pp /\ job'.goal = new
    <3>1. pp \in Chain /\ 0 \in Chain /\ NoMessage \in Chain \cup {NoMessage}
      BY DepthAssumption DEF PInv, StoreOK, Samples, Chain
    <3> QED
      BY <2>2, <2>4, <2>5, <3>1 DEF Task, Jobs
  <2>7. StoreOK'
    <3>1. \A b \in new + 1 .. sink : b \in rows
      BY <2>4 DEF PInv, StoreOK
    <3> QED
      BY Zenon, <2>1, <2>2, <2>3, <2>4, <2>5, <3>1 DEF PInv, StoreOK
  <2>8. FlagsOK'
    BY <2>1, <2>3 DEF PInv, FlagsOK
  <2>9. WorkerOK'
    BY Zenon, <2>1, <2>3, <2>5, <2>6 DEF PInv, WorkerOK, Labels
  <2>10. SessionOK'
    BY <2>1, <2>3, <2>4 DEF PInv, SessionOK
  <2>11. WorkerSafe'
    <3> SUFFICES ASSUME ~raced, ~panicked PROVE Unraced'
      BY <2>3 DEF WorkerSafe
    <3>1. Unraced
      BY DEF PInv, WorkerSafe
    <3>2. \A b \in pp + 1 .. new : b \in rows
      BY <2>4 DEF PInv, StoreOK
    <3>3. stable => \A b \in pos + 1 .. new : b \in rows
      BY <3>1, <3>2, <2>4 DEF Unraced
    <3>4. phase = "none"
      BY DEF MovePruningPoint
    <3> QED
      BY Zenon, <2>1, <2>3, <2>4, <2>6, <3>2, <3>3, <3>4 DEF Unraced
  <2> QED
    BY <2>7, <2>8, <2>9, <2>10, <2>11 DEF PInv
<1> QED
  BY <1>1, <1>2

LEMMA CheckDepthIsSafe == PInv /\ CheckDepth => PInv'
<1> SUFFICES ASSUME PInv, CheckDepth PROVE PInv'
  OBVIOUS
<1>1. StoreOK'
  BY Zenon DEF PInv, StoreOK, Chain, CheckDepth, store, dag, worker, session, history, Goto,
     ReturnFalse
<1>2. FlagsOK'
  BY DEF PInv, FlagsOK, CheckDepth, store, dag, worker, session, history, Goto, ReturnFalse
<1>3. WorkerOK'
  BY SampleFacts, IdleJobs DEF PInv, StoreOK, WorkerOK, Labels, NoMessage, CheckDepth, store, dag,
     worker,
     Goto, ReturnFalse
<1>4. SessionOK'
  <2>1. reorgs' \in Nat
    BY DEF CheckDepth, NoteCheck
  <2> QED
    BY Zenon, <2>1 DEF PInv, SessionOK, CheckDepth, store, dag, session
<1>5. WorkerSafe'
  <2>1. UNCHANGED <<pp, pos, stable, rows, sink, phase, raced, panicked>>
    BY DEF CheckDepth, store, dag, session
  <2>2. Lost' = 0
    BY DepthAssumption DEF Lost, CheckDepth, NoteCheck
  <2>3. CASE pc' = "idle"
    BY <2>1, <2>3 DEF PInv, WorkerSafe, Unraced, Window
  <2>4. CASE pc' = "advance" /\ job' = job /\ confirm_pruning_depth_below_virtual(job.goal)
    <3>1. sink + 1 + Lost' >= job.goal + PruningDepth
      BY <2>2, <2>4 DEF confirm_pruning_depth_below_virtual, PInv, StoreOK, Chain
    <3> SUFFICES ASSUME ~raced, ~panicked PROVE Unraced'
      BY <2>1 DEF WorkerSafe
    <3>2. Unraced /\ pc = "depth"
      BY DEF PInv, WorkerSafe, CheckDepth
    <3>3. sink' + 1 + Lost' >= job'.goal + PruningDepth
      BY <2>1, <2>4, <3>1
    <3> QED
      BY Zenon, <2>1, <2>4, <3>2, <3>3 DEF Unraced, Window
  <2> QED
    BY <2>3, <2>4 DEF CheckDepth, Goto, ReturnFalse
<1> QED
  BY <1>1, <1>2, <1>3, <1>4, <1>5 DEF PInv

LEMMA ApplyDiffIsSafe == PInv /\ ApplyDiff => PInv'
<1> SUFFICES ASSUME PInv, ApplyDiff PROVE PInv'
  OBVIOUS
<1> DEFINE b == job.cur + 1
<1>1. /\ pc = "advance" /\ job.cur < job.goal /\ job.cur \in Nat /\ job.goal \in Nat /\ job.goal \in Chain
      /\ b \in Nat /\ b =< job.goal /\ b \in Chain
  BY JobFields, DepthAssumption DEF ApplyDiff, PInv, WorkerOK, Chain
<1>2. CASE Transitional /\ ReturnFalse /\ UNCHANGED <<archival, store, dag, inbox, session, history>>
  <2>1. StoreOK'
    BY <1>2 DEF PInv, StoreOK, store, dag
  <2>2. FlagsOK'
    BY <1>2 DEF PInv, FlagsOK, ReturnFalse, store, history
  <2>3. WorkerOK'
    BY <1>2, IdleJobs, SampleFacts DEF PInv, StoreOK, WorkerOK, Labels, ReturnFalse, store
  <2>4. SessionOK'
    BY <1>2 DEF PInv, SessionOK, store, dag, session, history
  <2>5. WorkerSafe'
    BY Zenon, <1>2 DEF PInv, WorkerSafe, Unraced, Window, ReturnFalse, store, dag, session, history
  <2> QED
    BY <2>1, <2>2, <2>3, <2>4, <2>5 DEF PInv
<1>3. CASE ~Transitional /\ b \notin rows /\ Panic
  BY <1>3, PanicIsSafe
<1>4. CASE /\ ~Transitional /\ b \in rows
           /\ utxoset' = utxoset \cup {b}
           /\ pos' = b
           /\ job' = [job EXCEPT !.cur = b]
           /\ UNCHANGED <<archival, pp, root, checkpoint, stable, missing, palw, overlay, faithful,
                          dag, inbox, recovered, pc, session, history>>
  <2>1. UNCHANGED <<rows, sink, phase, target, faults, retreats, raced, panicked, reorgs>>
    BY <1>4 DEF dag, session, history
  <2>2. /\ job' \in Jobs /\ job'.cur = b /\ job'.goal = job.goal /\ job'.root = job.root
    BY <1>1, <1>4 DEF PInv, WorkerOK, Jobs
  <2>3. StoreOK'
    BY Zenon, <1>1, <1>4, <2>1 DEF PInv, StoreOK
  <2>4. FlagsOK'
    BY <1>4, <2>1 DEF PInv, FlagsOK
  <2>5. WorkerOK'
    BY <1>4, <2>2 DEF PInv, WorkerOK
  <2>6. SessionOK'
    BY <1>4, <2>1 DEF PInv, SessionOK
  <2>7. WorkerSafe'
    <3> SUFFICES ASSUME ~raced, ~panicked PROVE Unraced'
      BY <2>1 DEF WorkerSafe
    <3>1. Unraced
      BY DEF PInv, WorkerSafe
    <3>2. Lost' = Lost
      BY <2>1 DEF Lost
    <3>3. stable => \A c \in b + 1 .. job.goal : c \in rows
      BY <1>1, <3>1 DEF Unraced
    <3> QED
      BY Zenon, <1>1, <1>4, <2>1, <2>2, <3>1, <3>2, <3>3 DEF Unraced, Window
  <2> QED
    BY <2>3, <2>4, <2>5, <2>6, <2>7 DEF PInv
<1> QED
  BY <1>2, <1>3, <1>4 DEF ApplyDiff

LEMMA UtxosetAdvancedIsSafe == PInv /\ UtxosetAdvanced => PInv'
<1> SUFFICES ASSUME PInv, UtxosetAdvanced PROVE PInv'
  OBVIOUS
<1>1. StoreOK'
  BY Zenon DEF PInv, StoreOK, Chain, UtxosetAdvanced, store, dag, worker, history, Goto
<1>2. FlagsOK'
  BY DEF PInv, FlagsOK, UtxosetAdvanced, store, dag, worker, session, history, Goto
<1>3. WorkerOK'
  BY Zenon DEF PInv, WorkerOK, Labels, Chain, UtxosetAdvanced, store, dag, worker, Goto
<1>4. SessionOK'
  BY Zenon DEF PInv, StoreOK, SessionOK, UtxosetAdvanced, store, dag, session, history, Goto
<1>5. WorkerSafe'
  BY SampleFacts DEF PInv, StoreOK, WorkerSafe, Unraced, Lost, Window, UtxosetAdvanced, store, dag,
     worker,
     session, history, Goto
<1> QED
  BY <1>1, <1>2, <1>3, <1>4, <1>5 DEF PInv

LEMMA ConfirmRecoveryIsSafe == PInv /\ ConfirmRecovery => PInv'
<1> SUFFICES ASSUME PInv, ConfirmRecovery PROVE PInv'
  OBVIOUS
<1>1. StoreOK'
  BY Zenon DEF PInv, StoreOK, Chain, ConfirmRecovery, store, dag, session, Goto
<1>2. FlagsOK'
  BY Zenon DEF PInv, FlagsOK, ConfirmRecovery, store, dag, worker, session, history, Goto,
     ReturnTrue,
     ReturnFalse, Transitional
<1>3. WorkerOK'
  <2>1. pp' = pp /\ inbox' = inbox
    BY Zenon DEF ConfirmRecovery, store
  <2>2. CASE ReturnFalse
    BY <2>1, <2>2, IdleJobs, SampleFacts DEF PInv, StoreOK, WorkerOK, Labels, ReturnFalse
  <2>3. CASE Goto("fetch")
    BY <2>1, <2>3 DEF PInv, WorkerOK, Labels, Goto
  <2>4. CASE ReturnTrue
    BY <2>1, <2>2, <2>4, ReturnTrueKeepsTypes DEF PInv
  <2> QED
    BY <2>2, <2>3, <2>4 DEF ConfirmRecovery
<1>4. SessionOK'
  <2>1. reorgs' \in Nat
    BY DEF ConfirmRecovery, NoteCheck
  <2> QED
    BY Zenon, <2>1 DEF PInv, SessionOK, ConfirmRecovery, store, dag, session
<1>5. WorkerSafe'
  <2>1. UNCHANGED <<pp, pos, stable, rows, sink, phase, raced, panicked>>
    BY DEF ConfirmRecovery, store, dag, session
  <2>2. Lost' = 0
    BY DepthAssumption DEF Lost, ConfirmRecovery, NoteCheck
  <2>3. CASE pc' \in {"idle", "periodic"}
    BY <2>1, <2>3 DEF PInv, WorkerSafe, Unraced, Window
  <2>4. CASE pc' = "fetch" /\ job' = job /\ confirm_pruning_depth_below_virtual(job.goal)
    <3>1. sink + 1 + Lost' >= job.goal + PruningDepth
      BY <2>2, <2>4 DEF confirm_pruning_depth_below_virtual, PInv, StoreOK, Chain
    <3> SUFFICES ASSUME ~raced, ~panicked PROVE Unraced'
      BY <2>1 DEF WorkerSafe
    <3>2. Unraced /\ pc = "confirm"
      BY DEF PInv, WorkerSafe, ConfirmRecovery
    <3>3. sink' + 1 + Lost' >= job'.goal + PruningDepth
      BY <2>1, <2>4, <3>1
    <3> QED
      BY Zenon, <2>1, <2>4, <3>2, <3>3 DEF Unraced, Window
  <2> QED
    BY <2>3, <2>4 DEF ConfirmRecovery, Goto, ReturnTrue, ReturnFalse
<1> QED
  BY <1>1, <1>2, <1>3, <1>4, <1>5 DEF PInv

LEMMA FetchProofIsSafe == PInv /\ FetchProof => PInv'
<1> SUFFICES ASSUME PInv, FetchProof PROVE PInv'
  OBVIOUS
<1>1. CASE (ReturnTrue \/ Goto("sweep")) /\ UNCHANGED <<archival, store, dag, inbox, session, history>>
  <2>1. StoreOK'
    BY <1>1 DEF PInv, StoreOK, store, dag
  <2>2. FlagsOK'
    BY Zenon, <1>1 DEF PInv, FlagsOK, ReturnTrue, ReturnFalse, Goto, store, history
  <2>3. WorkerOK'
    <3>1. pp' = pp /\ inbox' = inbox
      BY <1>1 DEF store
    <3>2. CASE Goto("sweep")
      BY <3>1, <3>2 DEF PInv, WorkerOK, Labels, Goto
    <3>3. CASE ReturnTrue
      BY <3>1, <3>3, ReturnTrueKeepsTypes DEF PInv
    <3> QED
      BY <1>1, <3>2, <3>3
  <2>4. SessionOK'
    BY <1>1 DEF PInv, SessionOK, store, dag, session, history
  <2>5. WorkerSafe'
    BY Zenon, <1>1 DEF PInv, WorkerSafe, Unraced, Window, FetchProof, Goto, ReturnTrue,
       ReturnFalse, store,
       dag, session, history
  <2> QED
    BY <2>1, <2>2, <2>3, <2>4, <2>5 DEF PInv
<1>2. CASE Panic
  BY <1>2, PanicIsSafe
<1> QED
  BY <1>1, <1>2 DEF FetchProof

LEMMA PruneRowIsSafe == PInv /\ PruneRow => PInv'
<1> SUFFICES ASSUME PInv, PruneRow PROVE PInv'
  OBVIOUS
<1>1. StoreOK'
  <2>1. PICK b \in Prunable : rows' = rows \ {b}
    BY DEF PruneRow
  <2>2. b < pp /\ b \in 0 .. sink
    BY <2>1, JobFields, SampleFacts DEF PInv, StoreOK, WorkerOK, Prunable, Chain
  <2>3. UNCHANGED <<pp, root, checkpoint, pos, utxoset, palw, overlay, sink>>
    BY DEF PruneRow, store
  <2>4. rows' \subseteq 0 .. sink /\ (\A c \in pp + 1 .. sink : c \in rows')
    BY <2>1, <2>2, SampleFacts DEF PInv, StoreOK, Chain
  <2> QED
    BY <2>3, <2>4 DEF PInv, StoreOK
<1>2. FlagsOK'
  BY DEF PInv, FlagsOK, PruneRow, store, dag, worker, session, history, Prunable
<1>3. WorkerOK'
  BY Zenon DEF PInv, WorkerOK, NoMessage, PruneRow, store, dag, worker, session, history
<1>4. SessionOK'
  BY Zenon DEF PInv, SessionOK, Chain, PruneRow, store, dag, worker, session, history, Prunable
<1>5. WorkerSafe'
  BY DEF PInv, StoreOK, WorkerSafe, Unraced, Lost, Window, Chain, PruneRow, store, dag, worker,
     session, history
<1> QED
  BY <1>1, <1>2, <1>3, <1>4, <1>5 DEF PInv

LEMMA FinishPruneIsSafe == PInv /\ FinishPrune => PInv'
<1> SUFFICES ASSUME PInv, FinishPrune PROVE PInv'
  OBVIOUS
<1>1. StoreOK'
  BY Zenon DEF PInv, StoreOK, Chain, FinishPrune, store, dag
<1>2. FlagsOK'
  BY DEF PInv, FlagsOK, FinishPrune, store, dag, worker, session, history, Goto
<1>3. WorkerOK'
  BY Zenon DEF PInv, WorkerOK, Labels, Chain, NoMessage, FinishPrune, store, dag, worker, session,
     Goto
<1>4. SessionOK'
  BY Zenon DEF PInv, SessionOK, Phases, FinishPrune, store, dag, session, history, Goto
<1>5. WorkerSafe'
  BY Zenon DEF PInv, WorkerSafe, Unraced, Window, FinishPrune, store, dag, worker, session,
     history, Goto
<1> QED
  BY <1>1, <1>2, <1>3, <1>4, <1>5 DEF PInv

LEMMA MarkRetentionIsSafe == PInv /\ MarkRetention => PInv'
<1> SUFFICES ASSUME PInv, MarkRetention PROVE PInv'
  OBVIOUS
<1>1. StoreOK'
  <2>1. checkpoint' \in Chain
    BY JobFields DEF PInv, WorkerOK, MarkRetention
  <2> QED
    BY <2>1 DEF PInv, StoreOK, MarkRetention, dag
<1>2. FlagsOK'
  BY Zenon DEF PInv, FlagsOK, MarkRetention, dag, session, history, ReturnTrue, ReturnFalse
<1>3. WorkerOK'
  <2>1. pp' = pp /\ inbox' = inbox
    BY DEF MarkRetention
  <2> QED
    BY <2>1, ReturnTrueKeepsTypes DEF PInv, MarkRetention
<1>4. SessionOK'
  BY Zenon DEF PInv, SessionOK, MarkRetention, store, dag, session, history, ReturnFalse
<1>5. WorkerSafe'
  BY Zenon DEF PInv, WorkerOK, WorkerSafe, Unraced, Window, Chain, MarkRetention, store, dag,
     worker, session,
     history, ReturnTrue, ReturnFalse
<1> QED
  BY <1>1, <1>2, <1>3, <1>4, <1>5 DEF PInv

LEMMA StartSyncIsSafe == PInv /\ StartSync => PInv'
<1> SUFFICES ASSUME PInv, StartSync PROVE PInv'
  OBVIOUS
<1>1. StoreOK'
  BY Zenon DEF PInv, StoreOK, StartSync, store, dag, worker, session, history, Transitional
<1>2. FlagsOK'
  BY DEF PInv, FlagsOK, StartSync, store, dag, worker, session, history, Transitional
<1>3. WorkerOK'
  BY Zenon DEF PInv, WorkerOK, NoMessage, StartSync, store, worker, history
<1>4. SessionOK'
  BY Zenon DEF PInv, StoreOK, SessionOK, Phases, StartSync, store, dag, worker, session, history,
     Transitional
<1>5. WorkerSafe'
  BY Zenon DEF PInv, WorkerOK, WorkerSafe, Unraced, Lost, Window, Chain, StartSync, store, dag,
     worker,
     session, history
<1> QED
  BY <1>1, <1>2, <1>3, <1>4, <1>5 DEF PInv

LEMMA StartCatchUpIsSafe == PInv /\ StartCatchUp => PInv'
<1> SUFFICES ASSUME PInv, StartCatchUp PROVE PInv'
  OBVIOUS
<1>1. StoreOK'
  BY Zenon DEF PInv, StoreOK, StartCatchUp, store, dag, worker
<1>2. FlagsOK'
  BY DEF PInv, FlagsOK, StartCatchUp, store, dag, worker, session, history
<1>3. WorkerOK'
  BY Zenon DEF PInv, WorkerOK, NoMessage, StartCatchUp, store, worker, session, history
<1>4. SessionOK'
  BY Zenon DEF PInv, SessionOK, Phases, Chain, StartCatchUp, store, dag, history
<1>5. WorkerSafe'
  BY Zenon DEF PInv, WorkerSafe, Unraced, Lost, Window, StartCatchUp, store, dag, worker, session,
     history
<1> QED
  BY <1>1, <1>2, <1>3, <1>4, <1>5 DEF PInv

LEMMA IntrusiveUpdateIsSafe == PInv /\ IntrusiveUpdate => PInv'
<1> SUFFICES ASSUME PInv, IntrusiveUpdate PROVE PInv'
  OBVIOUS
<1>1. StoreOK'
  <2>1. target \in Samples /\ target > sink
    BY DEF PInv, SessionOK, IntrusiveUpdate
  <2>2. root' \in Samples /\ root' =< target
    BY <2>1, SampleFacts DEF PInv, StoreOK, IntrusiveUpdate, RetentionRoots, Chain
  <2>3. rows \subseteq 0 .. target
    BY <2>1, SampleFacts DEF PInv, StoreOK, Chain
  <2>4. \A b \in target + 1 .. target : b \in rows
    BY <2>1, SampleFacts
  <2>5. target \in Chain
    BY <2>1 DEF Samples
  <2>6. /\ pp' = target /\ palw' \in {palw, target} /\ sink' = target
        /\ UNCHANGED <<checkpoint, pos, utxoset, overlay, rows>>
    BY DEF IntrusiveUpdate, Installed
  <2> QED
    BY <2>1, <2>2, <2>3, <2>5, <2>6, SampleFacts DEF PInv, StoreOK
<1>2. FlagsOK'
  BY Zenon DEF PInv, FlagsOK, IntrusiveUpdate, worker, NoteRace
<1>3. WorkerOK'
  <2>1. pp' > pp /\ pp' \in Nat /\ pp \in Nat
    BY SampleFacts DEF PInv, StoreOK, SessionOK, Chain, IntrusiveUpdate
  <2>2. UNCHANGED <<inbox, pc, job>>
    BY DEF IntrusiveUpdate, worker
  <2> QED
    BY <2>1, <2>2, JobFields DEF PInv, WorkerOK, Chain
<1>4. SessionOK'
  BY Zenon DEF PInv, SessionOK, Phases, IntrusiveUpdate, store, dag, worker, history, NoteRace
<1>5. WorkerSafe'
  BY Zenon DEF PInv, WorkerSafe, Unraced, Window, Chain, IntrusiveUpdate, store, worker, session,
     NoteRace
<1> QED
  BY <1>1, <1>2, <1>3, <1>4, <1>5 DEF PInv

LEMMA TrustedBodiesIsSafe == PInv /\ TrustedBodies => PInv'
<1> SUFFICES ASSUME PInv, TrustedBodies PROVE PInv'
  OBVIOUS
<1>1. StoreOK'
  BY Zenon DEF PInv, StoreOK, TrustedBodies, dag
<1>2. FlagsOK'
  BY Zenon DEF PInv, FlagsOK, TrustedBodies, store, worker, session, history
<1>3. WorkerOK'
  BY Zenon DEF PInv, WorkerOK, Chain, NoMessage, TrustedBodies, dag, worker, session
<1>4. SessionOK'
  BY Zenon DEF PInv, SessionOK, Phases, Chain, TrustedBodies, store, dag, session, history
<1>5. WorkerSafe'
  BY Zenon DEF PInv, WorkerSafe, Unraced, Lost, Window, Chain, TrustedBodies, store, dag, worker,
     session,
     history
<1> QED
  BY <1>1, <1>2, <1>3, <1>4, <1>5 DEF PInv

LEMMA InstallBoundaryIsSafe == PInv /\ InstallBoundary => PInv'
<1> SUFFICES ASSUME PInv, InstallBoundary PROVE PInv'
  OBVIOUS
<1>1. StoreOK'
  <2>1. palw' \in {palw, pp} /\ pp \in Chain
    BY DEF PInv, StoreOK, Samples, InstallBoundary, Installed
  <2> QED
    BY Zenon, <2>1 DEF PInv, StoreOK, InstallBoundary, dag
<1>2. FlagsOK'
  BY DEF PInv, FlagsOK, InstallBoundary, store, dag, worker, session, history
<1>3. WorkerOK'
  BY Zenon DEF PInv, WorkerOK, InstallBoundary, dag, worker, history
<1>4. SessionOK'
  BY Zenon DEF PInv, SessionOK, Phases, InstallBoundary, dag, session, history
<1>5. WorkerSafe'
  BY Zenon DEF PInv, WorkerSafe, Unraced, Lost, Window, Chain, InstallBoundary, store, dag, worker,
     session,
     history
<1> QED
  BY <1>1, <1>2, <1>3, <1>4, <1>5 DEF PInv

LEMMA ClearFlagIsSafe == PInv /\ ClearFlag => PInv'
<1> SUFFICES ASSUME PInv, ClearFlag PROVE PInv'
  OBVIOUS
<1>1. StoreOK'
  BY Zenon DEF PInv, StoreOK, ClearFlag, dag, session, history
<1>2. FlagsOK'
  BY Zenon DEF PInv, FlagsOK, ClearFlag, dag, worker, history
<1>3. WorkerOK'
  BY Zenon DEF PInv, WorkerOK, ClearFlag, store, dag, worker, session
<1>4. SessionOK'
  BY Zenon DEF PInv, SessionOK, Phases, Chain, ClearFlag, store, dag, worker, history
<1>5. WorkerSafe'
  BY Zenon DEF PInv, WorkerSafe, Unraced, Lost, Chain, ClearFlag, store, dag, worker, session,
     history
<1> QED
  BY <1>1, <1>2, <1>3, <1>4, <1>5 DEF PInv

LEMMA ClearUtxosetIsSafe == PInv /\ ClearUtxoset => PInv'
<1> SUFFICES ASSUME PInv, ClearUtxoset PROVE PInv'
  OBVIOUS
<1>1. StoreOK'
  BY Zenon DEF PInv, StoreOK, Chain, ClearUtxoset, store, dag, worker, history
<1>2. FlagsOK'
  BY DEF PInv, FlagsOK, ClearUtxoset, store, dag, worker, session, history
<1>3. WorkerOK'
  BY Zenon DEF PInv, WorkerOK, Chain, NoMessage, ClearUtxoset, dag, worker, session, history
<1>4. SessionOK'
  BY Zenon DEF PInv, SessionOK, Phases, ClearUtxoset, store, dag, worker, history
<1>5. WorkerSafe'
  BY Zenon DEF PInv, WorkerSafe, Unraced, Lost, Window, Chain, ClearUtxoset, dag, worker, history
<1> QED
  BY <1>1, <1>2, <1>3, <1>4, <1>5 DEF PInv

LEMMA AppendChunkIsSafe == PInv /\ AppendChunk => PInv'
<1> SUFFICES ASSUME PInv, AppendChunk PROVE PInv'
  OBVIOUS
<1>1. StoreOK'
  BY DepthAssumption, SampleFacts
     DEF PInv, StoreOK, Chain, AppendChunk, store, dag, worker, session, history
<1>2. FlagsOK'
  BY DEF PInv, FlagsOK, AppendChunk, store, dag, worker, session, history
<1>3. WorkerOK'
  BY Zenon DEF PInv, WorkerOK, NoMessage, AppendChunk, worker
<1>4. SessionOK'
  BY Zenon DEF PInv, SessionOK, Chain, AppendChunk, store, dag, session, history
<1>5. WorkerSafe'
  BY Zenon DEF PInv, WorkerSafe, Unraced, Lost, Window, Chain, AppendChunk, dag, worker, session,
     history
<1> QED
  BY <1>1, <1>2, <1>3, <1>4, <1>5 DEF PInv

LEMMA ImportUtxosetIsSafe == PInv /\ ImportUtxoset => PInv'
<1> SUFFICES ASSUME PInv, ImportUtxoset PROVE PInv'
  OBVIOUS
<1>1. StoreOK'
  BY SampleFacts DEF PInv, StoreOK, Chain, ImportUtxoset, dag, session, history
<1>2. FlagsOK'
  BY DEF PInv, FlagsOK, ImportUtxoset, store, dag, worker, session, history, NoteRace
<1>3. WorkerOK'
  BY Zenon DEF PInv, WorkerOK, NoMessage, ImportUtxoset, dag, worker, session
<1>4. SessionOK'
  BY Zenon DEF PInv, SessionOK, Phases, Chain, ImportUtxoset, store, dag, worker, session
<1>5. WorkerSafe'
  BY Zenon DEF PInv, SessionOK, WorkerSafe, Unraced, Window, Chain, ImportUtxoset, dag, worker,
     session,
     history, NoteRace
<1> QED
  BY <1>1, <1>2, <1>3, <1>4, <1>5 DEF PInv

LEMMA ImportSidecarsIsSafe == PInv /\ ImportSidecars => PInv'
<1> SUFFICES ASSUME PInv, ImportSidecars PROVE PInv'
  OBVIOUS
<1>1. StoreOK'
  BY SampleFacts DEF PInv, StoreOK, Chain, ImportSidecars, dag, session
<1>2. FlagsOK'
  BY DEF PInv, FlagsOK, ImportSidecars, store, dag, worker, session, history
<1>3. WorkerOK'
  BY Zenon DEF PInv, WorkerOK, Chain, NoMessage, ImportSidecars, store, worker, session
<1>4. SessionOK'
  BY Zenon DEF PInv, SessionOK, Phases, Chain, ImportSidecars, dag, worker, history
<1>5. WorkerSafe'
  BY Zenon DEF PInv, WorkerSafe, Unraced, Window, Chain, ImportSidecars, dag, worker, history
<1> QED
  BY <1>1, <1>2, <1>3, <1>4, <1>5 DEF PInv

LEMMA SetStableIsSafe == PInv /\ SetStable => PInv'
<1> SUFFICES ASSUME PInv, SetStable PROVE PInv'
  OBVIOUS
<1>1. StoreOK'
  BY Zenon DEF PInv, StoreOK, SetStable, dag, session, history
<1>2. FlagsOK'
  BY DEF PInv, FlagsOK, SetStable, store, dag, worker, session, history
<1>3. WorkerOK'
  BY Zenon DEF PInv, WorkerOK, SetStable, store, dag, worker, session
<1>4. SessionOK'
  BY Zenon, SampleFacts DEF PInv, SessionOK, Phases, Chain, SetStable, store, worker, session,
     history
<1>5. WorkerSafe'
  BY Zenon DEF PInv, StoreOK, SessionOK, WorkerSafe, Unraced, Window, Chain, SetStable, dag,
     worker, session,
     history
<1> QED
  BY <1>1, <1>2, <1>3, <1>4, <1>5 DEF PInv

LEMMA AbortIbdIsSafe == PInv /\ AbortIbd => PInv'
<1> SUFFICES ASSUME PInv, AbortIbd PROVE PInv'
  OBVIOUS
<1>1. StoreOK'
  BY Zenon DEF PInv, StoreOK, AbortIbd, store, dag, worker, session, history
<1>2. FlagsOK'
  BY DEF PInv, FlagsOK, AbortIbd, store, dag, worker, session, history
<1>3. WorkerOK'
  BY Zenon DEF PInv, WorkerOK, Chain, NoMessage, AbortIbd, store, dag, worker, history
<1>4. SessionOK'
  BY DepthAssumption, SampleFacts
     DEF PInv, SessionOK, Phases, AbortIbd, store, dag, session, history
<1>5. WorkerSafe'
  BY Zenon DEF PInv, WorkerSafe, Unraced, Lost, Window, Chain, AbortIbd, store, dag, worker,
     session, history
<1> QED
  BY <1>1, <1>2, <1>3, <1>4, <1>5 DEF PInv

LEMMA CrashIsSafe == PInv /\ Crash => PInv'
<1> SUFFICES ASSUME PInv, Crash PROVE PInv'
  OBVIOUS
<1>1. StoreOK'
  BY Zenon DEF PInv, StoreOK, Crash, store, dag, worker
<1>2. FlagsOK'
  BY Zenon DEF PInv, FlagsOK, Crash, store, worker, Exit
<1>3. WorkerOK'
  BY SampleFacts, IdleJobs DEF PInv, StoreOK, WorkerOK, Labels, NoMessage, Crash, store, dag, Exit
<1>4. SessionOK'
  BY DepthAssumption, SampleFacts
     DEF PInv, SessionOK, Phases, Chain, Crash, store, dag, session, Exit
<1>5. WorkerSafe'
  BY Zenon DEF PInv, WorkerSafe, Unraced, Window, Chain, Crash, store, dag, history, Exit
<1> QED
  BY <1>1, <1>2, <1>3, <1>4, <1>5 DEF PInv

LEMMA InitIsSafe == Init => PInv
<1> SUFFICES ASSUME Init PROVE PInv
  OBVIOUS
<1>1. PICK d \in Datadirs :
        /\ pp = d.pp /\ pos = d.pos /\ utxoset = 1 .. d.pos
        /\ root = (IF archival THEN 0 ELSE d.pp)
        /\ checkpoint = (IF archival THEN 0 ELSE d.checkpoint)
        /\ palw = d.sidecar /\ overlay = d.sidecar
        /\ sink = d.sink /\ rows = 0 .. d.sink
  BY DEF Init
<1>2. /\ d.pp \in Samples /\ d.sink \in Chain /\ d.pos \in 0 .. d.pp
      /\ d.sidecar \in 0 .. d.pp /\ d.checkpoint \in 0 .. d.pp /\ d.pp =< d.sink
  BY DatadirAssumption
<1>3. d.pp \in Nat /\ d.pos \in Chain /\ d.sidecar \in Chain /\ d.checkpoint \in Chain /\ d.sink \in Nat
  BY <1>2, SampleFacts, DepthAssumption DEF Chain
<1>4. StoreOK
  BY <1>1, <1>2, SampleFacts, DepthAssumption DEF StoreOK, Chain
<1>5. FlagsOK
  BY Zenon DEF FlagsOK, Init
<1>6. WorkerOK
  BY <1>1, <1>3, IdleJobs DEF WorkerOK, Labels, Init
<1>7. SessionOK
  BY SampleFacts, DepthAssumption DEF SessionOK, Phases, Init
<1>8. WorkerSafe
  BY <1>1, <1>2, <1>3 DEF WorkerSafe, Unraced, Window, Init
<1> QED
  BY <1>4, <1>5, <1>6, <1>7, <1>8 DEF PInv

LEMMA StutterIsSafe == PInv /\ UNCHANGED vars => PInv'
<1> SUFFICES ASSUME PInv, UNCHANGED vars PROVE PInv'
  OBVIOUS
<1>1. StoreOK' /\ WorkerOK'
  BY DEF PInv, StoreOK, WorkerOK, vars, store, dag, worker
<1>2. FlagsOK'
  BY DEF PInv, FlagsOK, vars, store, worker, history
<1>3. SessionOK'
  BY DEF PInv, SessionOK, vars, store, dag, session, history
<1>4. WorkerSafe'
  BY Zenon DEF PInv, WorkerSafe, Unraced, Lost, vars, store, dag, worker, session, history
<1> QED
  BY <1>1, <1>2, <1>3, <1>4 DEF PInv

LEMMA NextIsSafe == PInv /\ [Next]_vars => PInv'
<1> SUFFICES ASSUME PInv, [Next]_vars PROVE PInv'
  OBVIOUS
<1>1. CASE WorkerStep
  BY <1>1, ReceiveIsSafe, InspectIsSafe, MovePruningPointIsSafe, CheckDepthIsSafe, ApplyDiffIsSafe,
     UtxosetAdvancedIsSafe, ConfirmRecoveryIsSafe, FetchProofIsSafe, PruneRowIsSafe, FinishPruneIsSafe,
     MarkRetentionIsSafe DEF WorkerStep
<1>2. CASE IbdStep
  BY <1>2, IntrusiveUpdateIsSafe, TrustedBodiesIsSafe, InstallBoundaryIsSafe, ClearFlagIsSafe,
     ClearUtxosetIsSafe, AppendChunkIsSafe, ImportUtxosetIsSafe, ImportSidecarsIsSafe, SetStableIsSafe
     DEF IbdStep
<1>3. CASE AdvanceVirtual \/ RetreatVirtual \/ StartSync \/ StartCatchUp \/ AbortIbd \/ Crash
  BY <1>3, AdvanceVirtualIsSafe, RetreatVirtualIsSafe, StartSyncIsSafe, StartCatchUpIsSafe,
     AbortIbdIsSafe, CrashIsSafe
<1>4. CASE UNCHANGED vars
  BY <1>4, StutterIsSafe
<1> QED
  BY <1>1, <1>2, <1>3, <1>4 DEF Next

\* The stores, the worker and the session keep each other's bounds: the rows of the blocks above the
\* pruning point are there, a transitional node's virtual is its pruning point, and the worker that no
\* session has raced holds the pruning point the store holds.
THEOREM WorkerInvariant == Spec => []PInv
<1>1. Init => PInv
  BY InitIsSafe
<1>2. PInv /\ [Next]_vars => PInv'
  BY NextIsSafe
<1> QED
  BY <1>1, <1>2, PTL DEF Spec

\* Type correctness; the retention root never passes the pruning point and the virtual never falls
\* below it, whatever crashes, aborts and retreats happen.
THEOREM PruningTypeCorrect == Spec => []TypeOK
<1>1. PInv => TypeOK
  <2> SUFFICES ASSUME PInv PROVE TypeOK
    OBVIOUS
  <2>1. rows \subseteq Chain /\ target \in Chain
    BY SampleFacts, DepthAssumption DEF PInv, StoreOK, SessionOK, Chain
  <2> QED
    BY Zenon, <2>1 DEF PInv, StoreOK, FlagsOK, WorkerOK, SessionOK, TypeOK
<1> QED
  BY <1>1, WorkerInvariant, PTL

\* The histories only grow, and only the UTXO advance and the proof fetch panic.
LEMMA WhoPanics ==
    ASSUME [Next]_vars
    PROVE  \/ panicked' = panicked /\ (raced' = raced \/ NoteRace)
           \/ raced' = raced /\ (ApplyDiff \/ FetchProof)
<1>1. CASE AdvanceVirtual \/ RetreatVirtual \/ StartSync \/ StartCatchUp \/ AbortIbd \/ Crash
  <2>1. CASE AdvanceVirtual
    BY <2>1 DEF AdvanceVirtual, history
  <2>2. CASE RetreatVirtual
    BY <2>2 DEF RetreatVirtual, history
  <2>3. CASE StartSync
    BY <2>3 DEF StartSync, history
  <2>4. CASE StartCatchUp
    BY <2>4 DEF StartCatchUp, history
  <2>5. CASE AbortIbd
    BY <2>5 DEF AbortIbd, history
  <2>6. CASE Crash
    BY <2>6 DEF Crash, history
  <2> QED
    BY Zenon, <1>1, <2>1, <2>2, <2>3, <2>4, <2>5, <2>6
<1>2. CASE ApplyDiff \/ FetchProof
  <2>1. CASE ApplyDiff
    BY <2>1 DEF ApplyDiff, Panic, history
  <2>2. CASE FetchProof
    BY <2>2 DEF FetchProof, Panic, history
  <2> QED
    BY Zenon, <1>2, <2>1, <2>2
<1>3. CASE WorkerStep /\ ~ApplyDiff /\ ~FetchProof
  <2>1. CASE Receive
    BY <2>1 DEF Receive, history
  <2>2. CASE Inspect
    BY <2>2 DEF Inspect, history
  <2>3. CASE MovePruningPoint
    BY <2>3 DEF MovePruningPoint, history
  <2>4. CASE CheckDepth
    BY <2>4 DEF CheckDepth, history
  <2>5. CASE UtxosetAdvanced
    BY <2>5 DEF UtxosetAdvanced, history
  <2>6. CASE ConfirmRecovery
    BY <2>6 DEF ConfirmRecovery, history
  <2>7. CASE PruneRow
    BY <2>7 DEF PruneRow, history
  <2>8. CASE FinishPrune
    BY <2>8 DEF FinishPrune, history
  <2>9. CASE MarkRetention
    BY <2>9 DEF MarkRetention, history
  <2> QED
    BY Zenon, <1>3, <2>1, <2>2, <2>3, <2>4, <2>5, <2>6, <2>7, <2>8, <2>9 DEF WorkerStep
<1>4. CASE IbdStep
  <2>1. CASE TrustedBodies
    BY <2>1 DEF TrustedBodies, history
  <2>2. CASE InstallBoundary
    BY <2>2 DEF InstallBoundary, history
  <2>3. CASE ClearFlag
    BY <2>3 DEF ClearFlag, history
  <2>4. CASE ClearUtxoset
    BY <2>4 DEF ClearUtxoset, history
  <2>5. CASE AppendChunk
    BY <2>5 DEF AppendChunk, history
  <2>6. CASE ImportSidecars
    BY <2>6 DEF ImportSidecars, history
  <2>7. CASE SetStable
    BY <2>7 DEF SetStable, history
  <2>8. CASE IntrusiveUpdate
    BY <2>8 DEF IntrusiveUpdate
  <2>9. CASE ImportUtxoset
    BY <2>9 DEF ImportUtxoset
  <2> QED
    BY Zenon, <1>4, <2>1, <2>2, <2>3, <2>4, <2>5, <2>6, <2>7, <2>8, <2>9 DEF IbdStep
<1>5. CASE UNCHANGED vars
  BY <1>5 DEF vars, history
<1> QED
  BY Zenon, <1>1, <1>2, <1>3, <1>4, <1>5 DEF Next, WorkerStep

\* With the retreats covered, neither of the two panics unless a session raced the worker.
LEMMA PanicStep ==
    PInv /\ RetreatsAreCovered /\ PanicNeedsIbdRace /\ [Next]_vars => PanicNeedsIbdRace'
<1> SUFFICES ASSUME PInv, RetreatsAreCovered, PanicNeedsIbdRace, [Next]_vars
             PROVE  PanicNeedsIbdRace'
  OBVIOUS
<1>0. ~raced' => ~raced
  BY Zenon, WhoPanics DEF NoteRace
<1> SUFFICES ASSUME ~panicked, ~raced PROVE ~panicked'
  BY Zenon, <1>0 DEF PanicNeedsIbdRace
<1>1. Unraced
  BY DEF PInv, WorkerSafe
<1>2. ASSUME ApplyDiff, Panic PROVE FALSE
  <2>1. /\ pc = "advance" /\ stable /\ job.cur < job.goal /\ job.cur + 1 \notin rows
    BY Zenon, <1>2 DEF ApplyDiff, Transitional, Panic, history, FlagsOK, PInv
  <2>2. job.cur \in Nat /\ job.goal \in Nat
    BY JobFields DEF PInv, WorkerOK, Chain
  <2>3. \A b \in job.cur + 1 .. job.goal : b \in rows
    BY <1>1, <2>1 DEF Unraced
  <2> QED
    BY <2>1, <2>2, <2>3
<1>3. ASSUME FetchProof, Panic PROVE FALSE
  <2>1. pc = "fetch" /\ (pp # job.goal \/ sink + 1 < pp + AnticoneDepth)
    BY Zenon, <1>3 DEF FetchProof, Panic, history, FlagsOK, PInv
  <2>2. job.goal = pp /\ sink + 1 + Lost >= job.goal + PruningDepth
    BY <1>1, <2>1 DEF Unraced, Window
  <2>3. Lost \in Nat /\ pp \in Nat /\ sink \in Nat
    BY LostFacts, SampleFacts DEF PInv, StoreOK, SessionOK, Chain
  <2> QED
    BY <2>1, <2>2, <2>3, DepthAssumption DEF RetreatsAreCovered
<1>4. ApplyDiff \/ FetchProof => Panic \/ ~panicked'
  BY Zenon DEF ApplyDiff, FetchProof, history
<1> QED
  BY <1>2, <1>3, <1>4, WhoPanics

\* The expect of advance_pruning_utxoset and the asserts of prune hold unless a catch-up replaced the
\* pruning point under the worker, however often the virtual retreats, provided that the retreats
\* between a depth check and the proof fetch that relies on it (each by less than the finality depth)
\* never use up what the pruning depth leaves above the anticone depth: the worker does not repeat
\* its check before it fetches the proof.
THEOREM PanicsNeedARace == Spec /\ []RetreatsAreCovered => []PanicNeedsIbdRace
<1>1. Init => PanicNeedsIbdRace
  BY DEF Init, PanicNeedsIbdRace
<1>2. PInv /\ RetreatsAreCovered /\ PanicNeedsIbdRace /\ [Next]_vars => PanicNeedsIbdRace'
  BY PanicStep
<1> QED
  BY <1>1, <1>2, WorkerInvariant, PTL DEF Spec

=============================================================================
