------------------------------ MODULE Pipeline ------------------------------
(***************************************************************************)
(* The block processing pipeline of consensus: the header and body stages, *)
(* each a receiving worker, a BlockTaskDependencyManager and a thread pool, *)
(* the single virtual worker behind them and the pruning worker behind      *)
(* that, connected by channels and drained in order by the Exit message.    *)
(* Headers, bodies and virtual read under the pruning lock, a readers-first *)
(* lock the pruning worker takes for writing.                               *)
(*                                                                         *)
(* A block is its name; Parents gives the direct parents its header names   *)
(* (the stored past, which is what pruning deletes, is left out).  What      *)
(* validation says of a block is a nondeterministic choice; which blocks it *)
(* looks at, what it stores and in which order is the code's.               *)
(***************************************************************************)
EXTENDS Naturals, Sequences, FiniteSets

CONSTANTS
  Blocks,
  Parents,         \* [Blocks -> SUBSET Blocks], acyclic
  HeaderV4,        \* Header-v4 rules: a body waits for its parents' UTXO verdicts
  MaxSubmissions,  \* bound: blocks handed to the pipeline
  MaxWrites        \* bound: write acquisitions of the pruning lock per pruning message

ASSUME PipelineAssumption ==
  /\ Parents \in [Blocks -> SUBSET Blocks]
  /\ HeaderV4 \in BOOLEAN
  /\ MaxSubmissions \in Nat /\ MaxWrites \in Nat \ {0}

VARIABLES
  log,        \* history: the tasks handed over, in order; a task is its position
  channel,    \* per worker: the messages not yet received
  worker,     \* the state of each worker thread
  writes,     \* write acquisitions left to the pruning worker for its message
  pending,    \* per stage: BlockTaskDependencyManager::pending
  pool,       \* per stage: how many queue_block calls are spawned for a block
  step,       \* per stage: how far the processing of a block's task has come
  status,     \* the statuses store, "None" for no entry
  blockRes,   \* what each task's block_result_transmitter has sent
  virtualRes  \* what each task's virtual_state_result_transmitter has sent

vars == <<log, channel, worker, writes, pending, pool, step, status, blockRes, virtualRes>>

Stages == {"header", "body"}
Workers == Stages \cup {"virtual", "pruning"}
Kinds == {"full", "header_only", "trusted"}
Task == 1 .. MaxSubmissions
Exit == 0   \* the exit message; a task is its own Process message

block(t) == log[t].block
kind(t) == log[t].kind

NoGroup == [tasks |-> <<>>, taken |-> FALSE, dependents |-> <<>>]
IsPending(s, b) == pending[s][b].tasks # <<>>
Front(s, b) == Head(pending[s][b].tasks)

HasBody == {"UTXOPendingVerification", "UTXOValid", "DisqualifiedFromChain"}
Statuses == {"None", "HeaderOnly", "Invalid"} \cup HasBody
Results == {"Ok", "Err", "MissingParents"}

\* Messages to the virtual worker.
Process(t) == <<"Process", t>>
EnsurePalwParents(b) == <<"EnsurePalwParents", b>>
VirtualExit == <<"Exit", Exit>>

PipelineTypeOK ==
  /\ log \in Seq([block : Blocks, kind : Kinds]) /\ Len(log) <= MaxSubmissions
  /\ DOMAIN channel = Workers
  /\ worker \in [Workers -> {"recv", "draining", "waiting", "notified", "writing", "exited"}]
  /\ writes \in 0 .. MaxWrites
  /\ \A s \in Stages : \A b \in Blocks :
       /\ \A i \in DOMAIN pending[s][b].tasks : block(pending[s][b].tasks[i]) = b
       /\ pending[s][b].taken \in BOOLEAN
       /\ pending[s][b].dependents \in Seq(Blocks)
  /\ pool \in [Stages -> [Blocks -> Nat]]
  /\ step \in [Stages -> [Blocks -> {"none", "begun", "asking", "answered", "refused"} \cup Results]]
  /\ status \in [Blocks -> Statuses]
  /\ blockRes \in [Task -> Results \cup {"open"}]
  /\ virtualRes \in [Task -> Results \cup {"open"}]

Init ==
  /\ log = <<>>
  /\ channel = [w \in Workers |-> <<>>]
  /\ worker = [w \in Workers |-> "recv"]
  /\ writes = 0
  /\ pending = [s \in Stages |-> [b \in Blocks |-> NoGroup]]
  /\ pool = [s \in Stages |-> [b \in Blocks |-> 0]]
  /\ step = [s \in Stages |-> [b \in Blocks |-> "none"]]
  /\ status = [b \in Blocks |-> "None"]
  /\ blockRes = [t \in Task |-> "open"]
  /\ virtualRes = [t \in Task |-> "open"]

Send(c, m) == channel' = [channel EXCEPT ![c] = Append(@, m)]

-----------------------------------------------------------------------------
(* Callers and receiving workers.                                          *)

Exiting == worker["header"] # "recv" \/ \E i \in DOMAIN channel["header"] : channel["header"][i] = Exit

\* validate_and_insert_block
Submit(b, k) ==
  /\ Len(log) < MaxSubmissions /\ ~Exiting
  /\ log' = Append(log, [block |-> b, kind |-> k])
  /\ Send("header", Len(log) + 1)
  /\ UNCHANGED <<writes, worker, pending, pool, step, status, blockRes, virtualRes>>

signal_exit ==
  /\ ~Exiting
  /\ Send("header", Exit)
  /\ UNCHANGED <<writes, log, worker, pending, pool, step, status, blockRes, virtualRes>>

\* A second task of a pending block is spawned at once, not queued behind the first.
register_Spawns(s, t) ==
  LET b == block(t) IN
  /\ pending' = [pending EXCEPT ![s][b].tasks = Append(@, t)]
  /\ pool' = [pool EXCEPT ![s][b] = @ + 1]

\* The first task of a block is spawned; later ones queue behind it.
register(s, t) ==
  LET b == block(t) IN
  /\ pending' = [pending EXCEPT ![s][b].tasks = Append(@, t)]
  /\ pool' = IF IsPending(s, b) THEN pool ELSE [pool EXCEPT ![s][b] = @ + 1]

Receive(s) ==
  /\ worker[s] = "recv" /\ channel[s] # <<>>
  /\ channel' = [channel EXCEPT ![s] = Tail(@)]
  /\ IF Head(channel[s]) = Exit
     THEN worker' = [worker EXCEPT ![s] = "draining"] /\ UNCHANGED <<pending, pool>>
     ELSE register(s, Head(channel[s])) /\ UNCHANGED worker
  /\ UNCHANGED <<writes, log, step, status, blockRes, virtualRes>>

Idle(s) == \A b \in Blocks : ~IsPending(s, b)

\* wait_for_idle looks once, under the lock, and sleeps on the condvar.
wait_for_idle(s) ==
  /\ worker[s] = "draining" /\ ~Idle(s)
  /\ worker' = [worker EXCEPT ![s] = "waiting"]
  /\ UNCHANGED <<writes, log, channel, pending, pool, step, status, blockRes, virtualRes>>

\* The exit signal is passed on while tasks are pending.
WorkerExits_NoDrain(s) ==
  /\ worker[s] = "draining"
  /\ worker' = [worker EXCEPT ![s] = "exited"]
  /\ IF s = "header" THEN Send("body", Exit) ELSE Send("virtual", VirtualExit)
  /\ UNCHANGED <<writes, log, pending, pool, step, status, blockRes, virtualRes>>

WorkerExits(s) ==
  /\ worker[s] = "notified" \/ (worker[s] = "draining" /\ Idle(s))
  /\ worker' = [worker EXCEPT ![s] = "exited"]
  /\ IF s = "header" THEN Send("body", Exit) ELSE Send("virtual", VirtualExit)
  /\ UNCHANGED <<writes, log, pending, pool, step, status, blockRes, virtualRes>>

-----------------------------------------------------------------------------
(* The pruning lock.  A body keeps its read guard while it waits for the     *)
(* virtual worker; the other readers hold theirs within one step.            *)

BodyWaits(b) == step["body"][b] \in {"asking", "answered", "refused"}

\* A lock that lets no reader past a waiting writer.
blocking_read_Fair == worker["pruning"] \notin {"writing", "waiting"}

blocking_read == worker["pruning"] # "writing"

blocking_write == \A b \in Blocks : ~BodyWaits(b)

PruningReceive ==
  /\ worker["pruning"] = "recv" /\ channel["pruning"] # <<>>
  /\ channel' = [channel EXCEPT !["pruning"] = Tail(@)]
  /\ IF Head(channel["pruning"]) = "Exit"
     THEN worker' = [worker EXCEPT !["pruning"] = "exited"] /\ UNCHANGED writes
     ELSE worker' = [worker EXCEPT !["pruning"] = "waiting"] /\ writes' = MaxWrites
  /\ UNCHANGED <<log, pending, pool, step, status, blockRes, virtualRes>>

PruningLocks ==
  /\ worker["pruning"] = "waiting" /\ blocking_write
  /\ worker' = [worker EXCEPT !["pruning"] = "writing"]
  /\ writes' = writes - 1
  /\ UNCHANGED <<log, channel, pending, pool, step, status, blockRes, virtualRes>>

\* The guard is dropped or yielded: to move the pruning point, to prune, to let
\* readers in between; the pass ends when there is nothing (more) to prune.
PruningUnlocks ==
  /\ worker["pruning"] = "writing"
  /\ \E w \in {"waiting", "recv"} :
       /\ w = "waiting" => writes > 0
       /\ worker' = [worker EXCEPT !["pruning"] = w]
  /\ UNCHANGED <<writes, log, channel, pending, pool, step, status, blockRes, virtualRes>>

-----------------------------------------------------------------------------
(* queue_block: try_begin, the processing of the stage, end.               *)

\* A call that nobody spawned.
try_begin_Unspawned(s, b) ==
  /\ pool' = [pool EXCEPT ![s][b] = @ - 1]
  /\ pending' = [pending EXCEPT ![s][b].taken = TRUE]
  /\ step' = [step EXCEPT ![s][b] = "begun"]
  /\ UNCHANGED <<writes, log, channel, worker, status, blockRes, virtualRes>>

\* The parents are not looked up.
try_begin_NoDeps(s, b) ==
  /\ pool[s][b] > 0
  /\ pool' = [pool EXCEPT ![s][b] = @ - 1]
  /\ pending' = [pending EXCEPT ![s][b].taken = TRUE]
  /\ step' = [step EXCEPT ![s][b] = "begun"]
  /\ UNCHANGED <<writes, log, channel, worker, status, blockRes, virtualRes>>

\* A block with a pending parent becomes a dependent of it; else its task is taken.
try_begin(s, b) ==
  /\ pool[s][b] > 0
  /\ pool' = [pool EXCEPT ![s][b] = @ - 1]
  /\ \/ \E p \in Parents[b] :
          /\ IsPending(s, p)
          /\ pending' = [pending EXCEPT ![s][p].dependents = Append(@, b)]
          /\ UNCHANGED step
     \/ /\ \A p \in Parents[b] : ~IsPending(s, p)
        /\ pending' = [pending EXCEPT ![s][b].taken = TRUE]
        /\ step' = [step EXCEPT ![s][b] = "begun"]
  /\ UNCHANGED <<writes, log, channel, worker, status, blockRes, virtualRes>>

Finish(s, b, result, newStatus) ==
  /\ step' = [step EXCEPT ![s][b] = result]
  /\ status' = [status EXCEPT ![b] = newStatus]
  /\ UNCHANGED <<writes, log, channel, worker, pending, pool, blockRes, virtualRes>>

\* The status is not looked at first: the header is validated and stored again.
process_header_Blind(b) ==
  /\ step["header"][b] = "begun" /\ blocking_read
  /\ Finish("header", b, "Ok", "HeaderOnly")

\* A failure of post-PoW validation is remembered, other failures are not.
process_header(b) ==
  LET trusted == kind(Front("header", b)) = "trusted"
      invalidParent == \E p \in Parents[b] : status[p] = "Invalid"
      missingParent == \E p \in Parents[b] : status[p] = "None"
  IN
  /\ step["header"][b] = "begun" /\ blocking_read
  /\ \/ /\ status[b] = "Invalid" /\ Finish("header", b, "Err", "Invalid")
     \/ /\ status[b] \notin {"None", "Invalid"} /\ Finish("header", b, "Ok", status[b])
     \/ /\ status[b] = "None"
        /\ \/ Finish("header", b, "Err", "None")
           \/ ~trusted /\ missingParent /\ ~invalidParent /\ Finish("header", b, "MissingParents", "None")
           \/ ~trusted /\ ~missingParent /\ ~invalidParent /\ Finish("header", b, "Err", "Invalid")
           \/ trusted /\ Finish("header", b, "Ok", "HeaderOnly")
           \/ ~missingParent /\ ~invalidParent /\ Finish("header", b, "Ok", "HeaderOnly")

\* The outcomes of body validation once the parents are known: a merkle-root or
\* pruned-block failure is not remembered, any other one is.
BodyVerdict(b) ==
  \/ Finish("body", b, "Err", "HeaderOnly")
  \/ Finish("body", b, "Err", "Invalid")
  \/ Finish("body", b, "Ok", "UTXOPendingVerification")

\* The verdicts of the parents are not waited for.
process_body_NoWait(b) ==
  LET trusted == kind(Front("body", b)) = "trusted"
      missingParent == \E p \in Parents[b] : status[p] \notin HasBody
  IN
  /\ step["body"][b] = "begun" /\ blocking_read
  /\ \/ status[b] = "Invalid" /\ Finish("body", b, "Err", "Invalid")
     \/ status[b] \in HasBody /\ Finish("body", b, "Ok", status[b])
     \/ status[b] = "HeaderOnly" /\ ~trusted /\ missingParent /\ Finish("body", b, "MissingParents", "HeaderOnly")
     \/ status[b] = "HeaderOnly" /\ (trusted \/ ~missingParent) /\ BodyVerdict(b)

process_body(b) ==
  LET trusted == kind(Front("body", b)) = "trusted"
      missingParent == \E p \in Parents[b] : status[p] \notin HasBody
  IN
  /\ step["body"][b] = "begun" /\ blocking_read
  /\ \/ status[b] = "Invalid" /\ Finish("body", b, "Err", "Invalid")
     \/ status[b] \in HasBody /\ Finish("body", b, "Ok", status[b])
     \/ status[b] = "HeaderOnly"
        /\ \/ Finish("body", b, "Err", "HeaderOnly") \/ Finish("body", b, "Err", "Invalid")
           \/ ~trusted /\ missingParent /\ Finish("body", b, "MissingParents", "HeaderOnly")
           \/ (trusted \/ (~missingParent /\ ~(HeaderV4 /\ Parents[b] # {}))) /\ BodyVerdict(b)
           \/ /\ ~trusted /\ ~missingParent /\ HeaderV4 /\ Parents[b] # {}
              /\ step' = [step EXCEPT !["body"][b] = "asking"]
              /\ Send("virtual", EnsurePalwParents(b))
              /\ UNCHANGED <<writes, log, worker, pending, pool, status, blockRes, virtualRes>>

\* ensure_palw_v4_parent_provenance returned; an Err is a bad block.
process_body_resumes(b) ==
  \/ step["body"][b] = "answered" /\ BodyVerdict(b)
  \/ step["body"][b] = "refused" /\ Finish("body", b, "Err", "Invalid")

Answer(res, t, r) == [res EXCEPT ![t] = r]

\* A task is passed on whatever its result.
Callback_PassesErrors(s, t, r) ==
  IF s = "header"
  THEN Send("body", t) /\ UNCHANGED <<blockRes, virtualRes>>
  ELSE /\ blockRes' = Answer(blockRes, t, r)
       /\ Send("virtual", Process(t)) /\ UNCHANGED virtualRes

\* A stored block is answered for but not passed on to virtual.
Callback_NoVirtual(s, t, r) ==
  IF s = "header"
  THEN IF r # "Ok" \/ kind(t) = "header_only"
       THEN /\ blockRes' = Answer(blockRes, t, r) /\ virtualRes' = Answer(virtualRes, t, r)
            /\ UNCHANGED channel
       ELSE Send("body", t) /\ UNCHANGED <<blockRes, virtualRes>>
  ELSE blockRes' = Answer(blockRes, t, r) /\ UNCHANGED <<channel, virtualRes>>

\* The callback of end: pass the task on, or answer its callers.
Callback(s, t, r) ==
  IF s = "header"
  THEN IF r # "Ok" \/ kind(t) = "header_only"
       THEN /\ blockRes' = Answer(blockRes, t, r) /\ virtualRes' = Answer(virtualRes, t, r)
            /\ UNCHANGED channel
       ELSE Send("body", t) /\ UNCHANGED <<blockRes, virtualRes>>
  ELSE /\ blockRes' = Answer(blockRes, t, r)
       /\ IF r # "Ok" \/ kind(t) = "trusted"
          THEN virtualRes' = Answer(virtualRes, t, r) /\ UNCHANGED channel
          ELSE Send("virtual", Process(t)) /\ UNCHANGED virtualRes

Occurrences(b, seq) == Cardinality({i \in DOMAIN seq : seq[i] = b})

\* What end returns: the same block while it has tasks, else its dependents.
Requeued(s, b, rest) ==
  [x \in Blocks |-> IF rest # <<>> THEN (IF x = b THEN 1 ELSE 0)
                    ELSE Occurrences(x, pending[s][b].dependents)]

\* The sleeping worker is not notified.
NotifyIdle_Never(s) == UNCHANGED worker

NotifyIdle(s) ==
  worker' = IF (\A x \in Blocks : pending'[s][x].tasks = <<>>) /\ worker[s] = "waiting"
            THEN [worker EXCEPT ![s] = "notified"] ELSE worker

end(s, b) ==
  LET rest == Tail(pending[s][b].tasks) IN
  /\ step[s][b] \in Results
  /\ step' = [step EXCEPT ![s][b] = "none"]
  /\ pending' = [pending EXCEPT ![s][b] =
                   IF rest = <<>> THEN NoGroup ELSE [@ EXCEPT !.tasks = rest, !.taken = FALSE]]
  /\ pool' = [pool EXCEPT ![s] = [x \in Blocks |-> @[x] + Requeued(s, b, rest)[x]]]
  /\ Callback(s, Front(s, b), step[s][b])
  /\ NotifyIdle(s)
  /\ UNCHANGED <<writes, log, status>>

-----------------------------------------------------------------------------
(* The virtual worker.                                                     *)

Batch == {channel["virtual"][i] : i \in DOMAIN channel["virtual"]}

Asking == {b \in Blocks : EnsurePalwParents(b) \in Batch}
Settled == {"UTXOValid", "DisqualifiedFromChain"}

\* What resolve_virtual and the completion of parents may do to the statuses.  A
\* disqualified chain block is looked at again when its chain is a candidate again.
Resolved ==
  {st \in [Blocks -> Statuses] :
     \A b \in Blocks :
       \/ st[b] = status[b]
       \/ status[b] \in {"UTXOPendingVerification", "DisqualifiedFromChain"} /\ st[b] \in Settled}

\* ensure_palw_parent_provenance: every parent has its verdict, the selected one a valid one.
ensure_palw_parent_provenance(b) ==
  /\ \A p \in Parents[b] : status'[p] \in Settled
  /\ \E p \in Parents[b] : status'[p] = "UTXOValid"

\* The whole channel is one batch.  A request may also be refused for a parent
\* below finality or a missing lifecycle view.
VirtualWorker ==
  /\ worker["virtual"] = "recv" /\ Batch # {} /\ VirtualExit \notin Batch
  /\ blocking_read
  /\ channel' = [channel EXCEPT !["virtual"] = <<>>, !["pruning"] = <<"Process">>]
  /\ status' \in Resolved
  /\ \E refused \in SUBSET Asking :
       /\ \A b \in Asking \ refused : ensure_palw_parent_provenance(b)
       /\ step' = [step EXCEPT !["body"] = [b \in Blocks |->
                     IF b \in refused THEN "refused" ELSE IF b \in Asking THEN "answered" ELSE @[b]]]
  /\ virtualRes' = [t \in Task |-> IF Process(t) \in Batch THEN "Ok" ELSE virtualRes[t]]
  /\ UNCHANGED <<writes, log, worker, pending, pool, blockRes>>

\* A batch with Exit in it: requests are failed, tasks are dropped unanswered.
VirtualWorkerExits ==
  /\ worker["virtual"] = "recv" /\ VirtualExit \in Batch
  /\ channel' = [channel EXCEPT !["virtual"] = <<>>, !["pruning"] = Append(@, "Exit")]
  /\ worker' = [worker EXCEPT !["virtual"] = "exited"]
  /\ step' = [step EXCEPT !["body"] = [b \in Blocks |-> IF b \in Asking THEN "refused" ELSE @[b]]]
  /\ UNCHANGED <<writes, log, pending, pool, status, blockRes, virtualRes>>

-----------------------------------------------------------------------------
Stage(s) ==
  \/ Receive(s) \/ wait_for_idle(s) \/ WorkerExits(s)
  \/ \E b \in Blocks : try_begin(s, b) \/ end(s, b)

Threads ==
  \/ \E s \in Stages : Stage(s)
  \/ \E b \in Blocks : process_header(b) \/ process_body(b) \/ process_body_resumes(b)
  \/ VirtualWorker \/ VirtualWorkerExits
  \/ PruningReceive \/ PruningLocks \/ PruningUnlocks

Next ==
  \/ \E b \in Blocks, k \in Kinds : Submit(b, k)
  \/ signal_exit
  \/ Threads

\* Every thread that can run does: the workers are threads of their own, and a
\* spawned closure is run by the pool.  Submitting and exiting are up to others.
Fairness ==
  /\ \A s \in Stages :
       /\ WF_vars(Receive(s)) /\ WF_vars(wait_for_idle(s)) /\ WF_vars(WorkerExits(s))
       /\ \A b \in Blocks : WF_vars(try_begin(s, b)) /\ WF_vars(end(s, b))
  /\ \A b \in Blocks :
       WF_vars(process_header(b)) /\ WF_vars(process_body(b)) /\ WF_vars(process_body_resumes(b))
  /\ WF_vars(VirtualWorker) /\ WF_vars(VirtualWorkerExits)
  /\ WF_vars(PruningReceive) /\ WF_vars(PruningLocks) /\ WF_vars(PruningUnlocks)

Spec == Init /\ [][Next]_vars /\ Fairness

-----------------------------------------------------------------------------
(* A queue_block call finds the block pending with its front task still to *)
(* take, there is never a second one for the block, and a task is never    *)
(* processed twice at a time: what the expects and the assert of try_begin *)
(* and end take for granted.                                               *)
OneCallPerBlock ==
  \A s \in Stages : \A b \in Blocks :
    LET waiting == Cardinality({p \in Blocks : \E i \in DOMAIN pending[s][p].dependents :
                                                 pending[s][p].dependents[i] = b})
        running == IF step[s][b] = "none" THEN 0 ELSE 1
    IN /\ pool[s][b] + waiting + running = (IF IsPending(s, b) THEN 1 ELSE 0)
       /\ pending[s][b].taken <=> step[s][b] # "none"

(* A block handed over after its parents is never turned away for missing  *)
(* them: if a task fails with MissingParents, then one of the parents had   *)
(* not been handed over before it (with its body, where one is needed), or  *)
(* had itself failed.  The dependency tracking of the two stages, and the   *)
(* order in which end feeds the body stage, guarantee it.                   *)
NoSpuriousOrphan ==
  \A t \in DOMAIN log :
    blockRes[t] = "MissingParents" =>
      \E p \in Parents[block(t)] :
        \A u \in 1 .. t - 1 :
          block(u) = p /\ (kind(u) = "header_only" => kind(t) = "header_only") => blockRes[u] # "Ok"

(* A block of the body stage has its header stored: process_body unwraps   *)
(* the status and panics on an unexpected one.                             *)
BodyAfterHeader ==
  \A b \in Blocks : step["body"][b] = "begun" => status[b] # "None"

(* No body is failed because the virtual worker is going down ("Exit is    *)
(* ordered after the body processor has drained its workers"): the failure *)
(* would mark the block invalid for good.                                  *)
NoWaiterAtShutdown ==
  worker["virtual"] = "exited" => \A b \in Blocks : step["body"][b] = "none"

(* Under the Header-v4 rules a body is stored only after each of its        *)
(* parents got its UTXO verdict, one of them a valid one (unless the block  *)
(* came with a pruning proof): the accepted lifecycle it is checked against *)
(* exists, however requests and answers interleave.                         *)
ParentsSettledFirst ==
  \A b \in Blocks :
    HeaderV4 /\ Parents[b] # {} /\ status[b] \in HasBody
    /\ (\A t \in DOMAIN log : block(t) = b => kind(t) # "trusted") =>
      /\ \A p \in Parents[b] : status[p] \in Settled
      /\ \E p \in Parents[b] : status[p] = "UTXOValid"

(* The status of a block only moves forward: a stored header or body is    *)
(* never taken back by a late duplicate, an invalid block stays invalid,   *)
(* and so does a UTXO-valid one; only a disqualification may be reviewed.   *)
StatusMonotone ==
  [][\A b \in Blocks :
       \/ status'[b] = status[b]
       \/ status[b] = "None" /\ status'[b] \in {"HeaderOnly", "Invalid"}
       \/ status[b] = "HeaderOnly" /\ status'[b] \in {"UTXOPendingVerification", "Invalid"}
       \/ status[b] = "UTXOPendingVerification" /\ status'[b] \in Settled
       \/ status[b] = "DisqualifiedFromChain" /\ status'[b] = "UTXOValid"
    ]_status

(* Every block handed over gets its block result, during a shutdown too.   *)
EveryTaskAnswered ==
  \A t \in Task : (t \in DOMAIN log) ~> (blockRes[t] # "open")

(* Every block handed over gets its virtual-state result unless the        *)
(* virtual worker goes down first.                                         *)
EveryTaskResolved ==
  \A t \in Task : (t \in DOMAIN log) ~> (virtualRes[t] # "open" \/ worker["virtual"] = "exited")

(* A signalled exit drains the pipeline to its last worker: no sleeper of  *)
(* wait_for_idle is left behind, and bodies, virtual and pruning never wait *)
(* for each other in a circle over the pruning lock.                        *)
ShutdownCompletes ==
  Exiting ~> (worker["pruning"] = "exited")
=============================================================================
