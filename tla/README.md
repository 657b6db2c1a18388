# TLA+ models of the misakas node and its validators

misakas is a post-quantum fork of a GHOSTDAG node. A DNS-finality overlay of
staked validators attests the chain, and a PALW lane and an EVM lane ride on it.
This directory holds TLA+ models of the parts of it where order, crashes and
concurrency decide correctness. TLC checks them on small instances; TLAPS proves
most of the safety results for every value of the constants.

## Inventory

| Part | State | Operations that change it | Hard behaviours |
|---|---|---|---|
| Signed-epoch store (`kaspa-pq-validator-core`) | records in memory, temp file, log file | `record_and_flush`, `load_or_empty` | kill or power loss between file operations, failing file operations |
| Stand-alone validator (`kaspa-pq-validator`) | store, cursor, batch, funding chain | `run_loop`, `attest` | moved anchors, lost replies, retries, restarts |
| In-node validator (`kaspad/validator_service`) | store, `FundingChain` | heartbeat, `try_attest`, `build_fund_submit_overlay` | stale index views, chained unconfirmed outputs, dropped transactions, restarts |
| Remote signer (`kaspa-pq-signer`) | epoch stores, audit log, checkpoints | `handle_request`, `AuditLog::append`, `load_or_new` | torn frames, failed appends, changes of policy |
| Block pipeline (`consensus/src/pipeline`) | dependency managers, channels, statuses, pruning lock | workers, `queue_block`, `process_header`, `process_body`, `resolve_virtual` | interleavings, duplicates, shutdown, lock cycles |
| Bond registry and `ActiveBondView` | bonds, stamps, persisted registry, walked view | `sink_search_algorithm`, `calculate_utxo_state_relatively`, `stage_dns_bond_mutations` | reorganisations, rejected candidates, restarts |
| DNS confirmation and reorg gate | last confirmed anchor, stage, stake score | `update_dns_state`, `dns_reorg_allows`, `sink_search_algorithm` | reorganisations past the anchor, throttled updates, bodies in any order |
| Dormancy, rewards, epoch accumulator | per-epoch tallies | `apply_dormancy_round`, `update_epoch_accumulator` | reorganisations, stale reads |
| Pruning and pruning catch-up | pruning point, its UTXO set and sidecars, retention root, flags | `advance_pruning_point_if_possible`, `prune`, recovery, `intrusive_pruning_point_update`, `sync_new_utxo_set` | crash between batches, lost peers, a session racing the worker |
| PALW beacon, tickets, data availability | secrets, commits, challenges | `beacon_step`, overlay transactions | lost secrets, deadlines |
| Mempools, relay flows, staging IBD, notifications, UTXO index | queues, peers, subscriptions | many | concurrency, resynchronisation |

`PROJECT.json` lists every component, including those left out and why, and the
hazards with the line at which each one bites.

How the modelled parts interact. The three signers of attestations (daemon,
in-node service, remote signer) all own a signed-epoch store and must ask it
before a signature leaves the host. The daemon and the service pay for an
attestation with a transaction chained to the previous one. The node's pipeline
takes blocks from its callers through four worker threads in a row. Its virtual worker
moves the sink and, with it, the registry of the bonds the validators attest with and
the anchor they confirm, which in turn limits where the sink may move. Every
resolved virtual wakes the pruning worker, which shares the pruning point and its UTXO
set with the IBD sessions of the P2P flows.

## Modules

| Module | Models |
|---|---|
| `SigningPromise` | the abstract guard: at most one target per epoch is ever committed, and only committed targets are released |
| `SignedEpochStore` | the store: memory, temp file, file as the system sees it, file as a power loss would leave it; one step per file operation of `record_and_flush` |
| `Attestor` | `Attestor::load`, the batch loop of `run_loop`, `attest`; extends the store |
| `ValidatorService` | heartbeat, `try_attest`, overlay transactions and the funding chain; extends the store; the node (mempool, mining, index) is its environment |
| `Signer` | `handle_request` with `try_sign`, audit log, checkpoints, crash and reload; extends the store |
| `Pipeline` | header, body, virtual and pruning workers, two dependency managers, statuses, pruning lock, shutdown |
| `BondRegistry` | the bond rows of the selected chain: sink search, walked `ActiveBondView`, body rules, strict reconciliation, restart |
| `DnsFinality` | tips, finality point and sink search under the reorg gate; StakeScore, rollout stage and the confirmed anchor the commit of a virtual state recomputes; restart |
| `PruningRecovery` | the pruning worker, its recovery at start-up and in process, and the IBD session that replaces the pruning point and its UTXO set; one action per database batch |
| `StoreProofs`, `AttestorProofs`, `ServiceProofs`, `SignerProofs` | proofs about the store and its three users |
| `PipelineProofs`, `PipelineOrderProofs` | proofs about the pipeline; the second extends the first |
| `DnsFinalityProofs`, `PruningRecoveryProofs` | proofs about the sink search and about pruning |
| `MC*` | instances for TLC |

### The store

`records` is the in-memory map; `tmp` and `file` are the two paths; `durable` is
what the directory entry of `file` names on stable storage. An image of a file is a
log plus one bit, whether its bytes were forced to disk. `record_and_flush` inserts
in memory and starts a flush; `WriteTmp`, `SyncTmp`, `Rename` and `SyncDir` are the
file operations in the order of the code; `FlushError` lets any fallible one return
an error. `SyncDirFails` is a directory fsync that fails, which the code ignores: it returns
`Ok` with `durable` as it was. A killed process (`KillStore`) leaves the files alone, so a rename that
was not forced to disk stays visible to the next start without being durable. The operating
system may write it back at any time (`WriteBackStore`). A power loss (`PowerLossStore`) brings
back `durable`, and bytes that were only cached may then be unreadable.

### The daemon

A poll returns any ready targets from the cursor on, ascending or newest first, as
`get_validator_attestation_targets` does; reorganisations may offer a different
target for an epoch each time. `dry_run` and the gate on the activation of the bond
are modelled; whether funding is found is a free choice. `released` and `unsaved`
are history variables: what was handed to the node, and the attestations whose
`record_and_flush` did not see its directory fsync succeed. There are three ways into
`unsaved`: the flush returned an error, it ignored a failure of that fsync, or the process was
killed between the rename and that fsync.

### The in-node service

Shard and beacon transactions are numbered as the mempool accepts them; output *n*
is the change of transaction *n*. `PruneChain`, `select_funding`, `SubmitAccepted`
and `SubmitRejected` are the statements on `FundingChain`. The node may list,
mine, or drop transactions, and a lookup of the index may fail, which the code
takes for an empty list. The service signs on `Allow` only, so a record it reads back after a
kill is never released again. `released` leaves out the attestations for which a
failure of the directory fsync was ignored (`synced`). The stall counters only steer a warning and
are left out.

### The signer

A request is a purpose, the purpose of its digest, a context, whether the key is
known and whether it carries the metadata of an attestation. Files are sequences of
frames with a synced length; a frame cut short is `Torn`. The policy (Strict,
AuditOnly, Permissive) is chosen at every start. The epoch and target of a request
are taken to be those of its digest: the signer has no way to check this. `unsaved` is as in
the daemon, for the signatures of Strict lives.
The directory entries of newly created log files are taken to be durable.

### The pipeline

A task is the position of its submission. `pending`, `pool` and `step` are the
dependency manager and the threads of a stage; `register`, `try_begin` and `end`
keep the code's names. The verdict of validation is a free choice among the ones
the code distinguishes: an error that is remembered as `StatusInvalid`, one that is
not, missing parents, success. A Header-v4 body sends `EnsurePalwParents` to the
virtual worker and waits for the answer with its read guard of the pruning lock held.
Trusted tasks carry a body; the size of the thread pool is not bounded; the deletion of data is
not modelled; submissions after `signal_exit` are not modelled (the code does
not answer them).

### The bond registry

`blocks` is the DAG in order of arrival, `status` and `accepted` what the walk
persisted for each block, `sink` and `store` what the virtual commit persisted, and
`search` the sink search in progress, which a restart loses. A record keeps its
activation score, its two stamps (an `Option<u64>` is a set of at most one score) and
the cached status byte. `StartResolve` is the head of `resolve_virtual`, `PopCandidate`
a turn of `sink_search_algorithm`; `StepDown` and the three `StepUp` actions are the
turns of the two loops of `calculate_utxo_state_relatively`; `Commit` is
`stage_dns_bond_mutations` in the batch that moves the sink. `Apply` and `Revert` are the
lenient effects of the view; the writer's checks are `CanApply` and `CanRevert`, and a
row that does not fit aborts the process. The bodies of the mergeset are accepted one
block after they were included, as in `calculate_utxo_state`.

Every block is blue, block *n* has a larger hash than the earlier ones, and the first
block is the finality point. Signatures, freshness of evidence and the minimum amount
are taken to hold. The dormancy fence and the mergeset spend gate are inert on every
preset and not modelled here; `dns_reorg_allows` is in `DnsFinality`. The output of a bond
and its burn are not modelled. The blocks above
a rejected one are marked in one step; the code marks them one by one, and a block it
did not reach before a crash is judged again later.

### DNS finality

The DAG is a constant: what GHOSTDAG and reachability say of each block, and which
blocks fail UTXO validation; `WellFormed` states what the model relies on. A behaviour
chooses the order in which bodies arrive, the votes each accepts and the active set on
its chain. `CommitBody` is `commit_body` with the update of the tips. `ResolveVirtual`
reads finality point and tips; `RejectCandidate` and `CommitVirtualState` are the turns of
the loop of `sink_search_algorithm`, and bodies may arrive between them; the commit
recomputes `dns` unless the sink is still in the epoch of the last recompute. An empty
heap is the `expect("valid sink must exist")` and is a state of its own, `panicked`.
`DnsReorgAllows` has both reorg modes; scores are taken since the common ancestor, or over
the window when the walk is too long. Votes follow the promise of `SigningPromise`:
no validator signs two targets of one epoch.

Every merged block is blue and bonds have equal stake. Dormancy, health, the mass capacity
of attestations and the skipped recompute of a sink without acceptance data are left out.
The virtual merges what is left of the heap: the limits of `pick_virtual_parents` are not
reached by the instance.

### Pruning and its recovery

A selected-chain block is its blue score, and its DAA score too, which `is_palw_active` compares with
the activation. The UTXO set of the pruning point is the set of
chain blocks whose diffs it holds, so that a skipped diff is visible: it is right for block
*n* when it is `1 .. n`. `rows` are the chain blocks with rows in the database. `palw` and
`overlay` are the pruning points the two sidecars belong to.

`Inspect`, `CheckDepth`, `ApplyDiff`, `ConfirmRecovery`, `FetchProof`, `PruneRow` and
`MarkRetention` follow `recover_pruning_workflows_if_needed`, `advance_pruning_utxoset` and
`prune`; `MovePruningPoint` is the boundary batch of `advance_pruning_point_if_possible`. `job`
holds the locals of the worker: what it read under the lock and uses after releasing it. The
session goes through `IntrusiveUpdate` (one batch), `TrustedBodies`, `InstallBoundary`,
`ClearFlag`, `ClearUtxoset`, `AppendChunk`, `ImportUtxoset`, `ImportSidecars`, `SetStable`.
A session holds the pruning lock in read mode; the steps of the worker under the write lock
wait for it, the UTXO advance and the proof fetch do not. `RetreatVirtual` is a
reorganisation to a heavier sink of lower blue score. `Crash`, `AbortIbd` and `Panic` may
follow any step. `raced` and `retreats` are history variables: that a session replaced the
pruning point or its UTXO set while the worker was between its lock and its proof fetch,
and how often the sink moved down; `reorgs` counts the moves since the worker last confirmed
its depth.

A session downloads a PALW sidecar only for a pruning point at which PALW is active
(`Installed`); otherwise the stored one stays, that of an earlier pruning point. The worker
builds both sidecars at every move of its own, an empty PALW one below the activation.
`palw_requires_archival`, which refuses a catch-up without a PALW sidecar, is not modelled: the presets
that set it are PALW-active from genesis.

The proof, the anticone and the relations kept for them are not modelled: `FetchProof`
only compares pruning points and depth, which is what the asserts of `prune` do. The EVM state
travels with the overlay sidecar.

## Runs

| Run | Instance | What it shows |
|---|---|---|
| `attestor` | 2 epochs, 2 targets, batches of 2 | `AttestorTypeOK`; of two conflicting attestations one has a record that was never forced to disk (`EquivocationNeedsUnsavedRecord`); `ReleasedIsDurable`, `LogReadable`, and that the daemon implements `SigningPromise` |
| `attestor_flush_error` | the same | `NoEquivocation` is violated (finding 1) |
| `validator_service` | 2 epochs, 2 targets, 2 coins worth 3 fees, 3 transactions | no equivocation even with flushes that return an error, unless a failed directory fsync was ignored; the funding chain's head is unspent; confirmed coins spent in flight stay excluded |
| `validator_service_funding` | the same | `NeverReselectsInflight` is violated (finding 2) |
| `signer` | 1 epoch, 2 targets, 4 requests, a checkpoint every second record | the guard cannot be bypassed by purpose, context or policy; audit gaps and checkpoint mismatches need a failed append |
| `signer_audit` | the same | `SignedIsAudited` is violated (finding 3) |
| `pipeline` | 2 blocks in a chain, 3 submissions, 2 write acquisitions per pruning message | the assertions of the dependency manager, no spurious orphan, no body failed by a shutdown, settled parents, forward-only statuses |
| `pipeline_liveness` | the same with 2 submissions | every task is answered, every shutdown completes |
| `bond_registry` | 3 blocks with up to 2 parents over a chain of 3; a bond, two reports, an exit request | rows, walked view and verdicts are functions of the chain alone; the writer aborts only over a chain that repeats an effect |
| `bond_registry_repeat` | the same without merges, reports only | `WriterNeverAborts` is violated (finding 4) |
| `dns_finality` | 9 blocks: two branches above a common block, the second of double work, and a merge or an invalid tip; 2 validators; 4 scenarios of reorg mode, finality depth and bond changes | the search ends on the heaviest body finality, UTXO validity and the gate allow; it fails, and virtual retreats, only when the confirmed anchor was left behind; an anchor is left only for a quorum of votes after the fork |
| `pruning_recovery` | chain of 9, a sample every 2, pruning depth 3, PALW active from 5; a fresh datadir and one of a release without sidecars stopped in a prune; one fault, two retreats; archival or not | the stable UTXO set is that of its position, a stable boundary has its overlay sidecar and, where PALW is active, its PALW one, the asserts hold outside one race, a transitional node becomes usable |

Bounds. Two targets are enough for a conflict and two epochs for one record to be
lost or carried along by the flush of another; epochs are otherwise independent.
Two coins and three transactions reach a chain of two transactions off one coin
with a competing coin. Four requests reach a torn frame, records behind it, and a
checkpoint on either side of a restart. Two blocks and three submissions reach a
duplicate of either block in any order with the other; a second submission of a block while
the first one is in the other stage is among them. Three blocks over the
bonded chain reach a fork, a merge of both sides, a reorganisation back and forth, a
rejected candidate with its fallback to the parents, and a request that meets evidence
of another branch. The two branches of `dns_finality` are long enough for two
epochs on each, so an anchor is confirmed on the first, the second gathers a quorum, and
virtual leaves the anchor in dominance mode and comes back; the finality depths put the
finality point below the fork, above it, or out of the way. In `pruning_recovery` two
moves of the pruning point fit into the chain, with a retreat, a deferred advance or a whole
session between them, and a catch-up lands inside a UTXO advance; pruning points lie on both sides of the
PALW activation, so that a session leaves an old PALW sidecar behind, a recovery rebuilds an empty one, and
another fails closed; one fault reaches every point
between two batches. Targets, coins and reports are interchangeable,
so symmetry is used in the runs without liveness properties.

Fairness. `Pipeline` states weak fairness of every action of every
worker thread, since workers are threads of their own and the pool runs what was
spawned. Submitting and shutting down are not fair. Deadlock is not checked there:
a pipeline that has shut down stops. `PruningRecovery` states weak fairness of the
worker thread, of a session under way (it answers or is ended by a timeout) and of starting
a session while the node is transitional: every relayed block triggers one then
(`v7/blockrelay/flow.rs:158`), and some peer is not behind. New blocks, catch-ups, retreats
and faults are not fair. Its chain is finite, as is the DAG of `DnsFinality`: both stop
when nothing is left to arrive, so deadlock is not checked.

### Findings

1. `record_and_flush` keeps its in-memory insert when the flush fails. The daemon's
   next poll takes the record for a durable one and submits the attestation as a
   rebroadcast. After a crash the record is gone and another target can be signed.
   Two other ways end in the same state, each with a power loss. The directory fsync fails and
   `record_and_flush` returns `Ok` (its comment says both "Fail-closed on any error" and
   "Best-effort"). Or, with no failing operation at all, the process is killed between the rename
   and the directory fsync, its successor rebroadcasts from the record it reads, and the power goes
   before the rename is written back. `EquivocationNeedsUnsavedRecord` shows that there is no
   fourth way. The signer has the same three; the in-node service skips rebroadcasts and has
   only the ignored fsync.
2. `inflight_spent` is pruned to what the node lists. A change output that is not
   confirmed yet is not listed, so its exclusion is lost, and it can be selected
   again once it confirms while its spender is still in the mempool.
3. A failed audit append may leave part of a frame. Later records of the same process
   land behind it and are cut at the next start although their signatures were returned.
4. The rules on evidence and unbond requests check a body against the view of the
   selected parent, which does not yet have the effects of the selected parent's own body.
   Two reports (or two requests) on one bond in consecutive chain blocks both pass, and the
   strict writer aborts on the second. `AbortNeedsRepeatedEffect` shows that there is
   no other way to abort, reorganisations and restarts included.

Limitations met on the way that contradict no claim of the code, or whose claim is
not modelled: the in-node service never retries an epoch whose flush or submission
failed; the daemon's cursor passes older epochs of a newest-first batch; a torn
checkpoint hides the ones after it; a batch of the virtual worker with `Exit` in it
drops the virtual-state results of its tasks.

In `DnsFinality`, after a dominance reorganisation the confirmed anchor stays on the branch
that was left until an epoch of the new one confirms. The gate then refuses every candidate
without that anchor that does not dominate the sink, the sink itself included: virtual
goes back to the old branch, or, if finality forbids that, the search empties its heap and the
process ends. The warning at `processor.rs:5217` expects a node that holds its sink.
`SinkMissingNeedsAbandonedAnchor` and `SinkRetreatNeedsAbandonedAnchor` show that this is
the only way to either.

In `PruningRecovery`, a UTXO advance of the periodic step that is deferred by the depth check is
not retried on the next message, as the comment at
`pruning_processor/processor.rs:994` says of the check: recovery runs once per process and the
next move starts at the pruning point, so the diffs below it are skipped. It takes a
retreat of the virtual between the move and the check, which is why
`UtxosetMatchesItsPosition` has `retreats = 0`. And a catch-up that replaces the pruning point
between the worker's last check and its proof fetch makes an assert of `prune` or the
`expect` of the UTXO advance fail; the process exits and recovers at the next start.

Below the PALW activation a catch-up leaves a stable node with the PALW sidecar of its old pruning
point. Nothing reads it there, but recovery wants one for every pruning point other than
genesis (`pruning_processor/processor.rs:203`): the next start rebuilds an empty one, or, when the
retention root has not moved from the checkpoint, takes the rows for pruned and fails closed: it
does not prune, and neither do the starts after it.

## Proofs

`StoreProofs` proves, for each operation of the store, that it preserves the
type invariant and `StoreInv`: stable storage is extended by the file, the file by
the memory of a running validator, and the stage of a flush says which of them are
equal. The invariant is needed because the released attestations are compared with
`durable`, which no step of `attest` looks at: the argument goes from the guard's
answer about memory through the flush to the disk.

`AttestorProofs` proves `Spec => []AttestorInv`, where `AttestorInv` adds to it that
an attestation about to be submitted, or submitted, is on stable storage unless its
`record_and_flush` never saw its directory fsync succeed. A kill separates the file from stable
storage, so the invariant also says that every record a process holds, or the next one will load,
is on stable storage, in `unsaved`, or being flushed. From it follow `AttestorTypeCorrect`,
`AttestorReleasesDurable`, `AttestorNeverEquivocates`, `AttestorLogReadable` and, as
a refinement, `AttestorKeepsPromise`. One lemma per action shows that it keeps the invariant
and maps to a step or a stutter of `SigningPromise`. The assumptions are those of the modules:
epochs are natural numbers, `NoRecord` is not a target, the batch limit is positive.

`ServiceProofs` proves `Spec => []ServiceInv` and from it `ServiceTypeCorrect`,
`ServiceNeverEquivocates`, `ServiceHeadIsUnspent`, `ServiceInflightCoinsExcluded` and
`ServiceKeepsPromise`. The service signs on `Allow` only, so `GuardInv` needs no exception for
flushes that return an error and for kills: the record in hand is fresh, and at `submit` it is on disk
unless a failed directory fsync was ignored. `FundingInv` says
that the head of the chain is the change of the last transaction and that a transaction spends
only what existed before it, so nothing can have spent the head. `ServiceAssumption` says,
among others, that coins are not numbers: outputs of transactions are numbered, and
a coin must not be taken for one.

`SignerProofs` proves `Spec => []SignerInv` and from it `SignerTypeCorrect`,
`SignerNeverEquivocates`, `SignerKeepsPromise`, `SignerAuditsSignatures` and
`SignerCheckpointsVerify`. `GuardInv` follows an attestation from the guard through the flush,
under every policy. `AuditInv` says what the log and its synced part hold at each stage of a
request: without a failed append the chain in memory is the log, with no torn frame; every answered
record that no failed append shadows is in the part a start replays, and a clean checkpoint verifies
against that part.

`PipelineProofs` proves, for every DAG, number of submissions and interleaving,
`Spec => []PInv` and from it `PipelineTypeCorrect`, `PipelineOneCallPerBlock`,
`PipelineBodyAfterHeader`, `PipelineNoWaiterAtShutdown`, `PipelineParentsSettledFirst` and
`PipelineStatusMonotone`. One lemma per action shows that the step is an `Effect`: it keeps
`Types` and `Calls`, and moves tasks, the batch, workers, statuses and calls only in the ways
listed there. One lemma for each other conjunct of the invariant shows that an `Effect` keeps it.
`Calls` counts the `queue_block` calls of a block: spawned, waiting as one entry of the dependents
of one parent, or under way. `Tasks` and `Stored` tie channels and
groups to the log and to the statuses, `Draining` the exit messages to idle stages, `Settling` the
questions of the bodies to the batch of the virtual worker.

`PipelineOrderProofs` proves `Spec => []OInv` on top of it, and `PipelineNoSpuriousOrphan`.
The property looks only at answers; the invariant says why they come in order. An open task is
in exactly one channel or group (`Places`), at most once (`Once`); when a header is processed,
the earlier tasks of its parents have left the header stage, and when a body is processed, those
with a body are answered (`ParentsFirst`). Between the two stages a parent's task is ahead in the
channel, since `end` sends it before it releases the dependents. A parent that is then missing has
only failed tasks (`Blames`). The assumption is `PipelineAssumption`.

`DnsFinalityProofs` proves, for every well-formed DAG, parameter and history of votes,
`Spec => []IInv` and from it `ValidSinkExists` and `NoNeedlessRetreat`. The properties
speak of the moment the heap is empty or a candidate is taken; the invariant says why it is
not reached: throughout the search the finality point is on the chain of the old sink and,
as long as the gate allows that sink, some candidate in the heap has it in its past. A refused
candidate passes this on to one of its parents. By the same argument `SearchIsComplete`: while
no body arrives, every acceptable body is in the past of a candidate. `TheHeaviestIsChosen` follows,
since work does not decrease from a block to its descendants. It need not increase either
(compute work is capped), which is why `SinkIsTheHeaviestAllowed` has a case for equal work.
`SearchTypeCorrect` is type correctness. The assumptions are `DagAssumption`, what reachability and
GHOSTDAG guarantee, and `ParamAssumption` and `ScoreAssumption`, the types of the parameters.

`AnchorLeftForStake` proves `AnchorIsLeftOnlyForStake` in the same generality. The gate compares two
sums over the epochs a branch counts; the property wants one epoch with a quorum. `SumFacts` is the step
between them: a sum of credits above zero has a credit above zero. It is an induction over the
set summed, done by a smallest counterexample. `CreditFacts` turns a credit into a quorum. The
votes are on the new side of the fork because a vote is accepted only above its target
(`VotesOnChain`, an invariant) and the target is on that side.

Where the fork is deeper than the bound of the walk, `dns_reorg_allows` scores the whole window,
since the ancestor "is provably older than every creditable epoch" (`processor.rs:5153`).
`DeepForkIsOlderThanItsEpochs` is that proof, for every epoch but the first. The walk counts the
candidate twice and so stops one block before the end of the window, and an anchor on the last block of
the window is that of the epoch before too, hence not counted; epoch 0 has no epoch before it.
`AnchorLeftForStake` therefore has the hypothesis `FirstEpochIsSettled`: no candidate with so
deep a fork counts epoch 0 with its anchor below the fork. It can fail only for a candidate whose
blue score is at most the window plus the cutoff of epoch 0 (`OnlyYoungChainsCountIt`; the window of
the presets is 1500), with a fork exactly a window deep. In the run's instance no walk is that long.

`PruningRecoveryProofs` proves, for every chain length, depth, datadir and number of
faults and retreats, `Spec => []IInv` and from it `BoundaryComplete` and
`UtxosetIsItsPosition`. `Boundary` says what each phase of a session has installed, and
which datadir may be stable without its sidecars before its first inspection; the PALW sidecar is
claimed where PALW is active. `SessionOrder`
relates flags, phase and sink; `Position` says that the worker's iterator stands at the
stored position and that between two advances the position is the pruning point. Both
are claimed while nothing retreated and nothing raced. `WorkerInvariant` is a second inductive
invariant, for `PruningTypeCorrect` and `PanicsNeedARace`. The assumptions are `DepthAssumption` and
`DatadirAssumption`.

`PanicsNeedARace` has a hypothesis, `[]RetreatsAreCovered`: the retreats since the worker last
confirmed its depth, each by less than the finality depth, fit together between the anticone depth
and the pruning depth. The worker does not repeat its depth check before it fetches the proof, so
deeper retreats in between would fail the assert on the depth. Retreats at any other time do not
count, so a behaviour may have any number of them. With the constants of the presets (10 blocks
per second: finality 432000, anticone 591258, pruning 1080000) it allows one retreat of full depth
between a check and its fetch and not two. The instance of the run satisfies it throughout.

Only model-checked: everything about liveness, which the proof system does not support, and all
of `BondRegistry`. Its rows are folds over the effects of a chain, sorted into a sequence, and its
invariants compare the folds of two paths: each needs an induction over sequences, with the fold in
the induction hypothesis, which the provers were not brought to do.

## Not modelled

- GHOSTDAG colouring, reachability intervals, difficulty and DAA windows: algorithms over large
  DAGs and wide integers. `BondRegistry` computes selected parent, mergeset and blue work with every
  block blue, `DnsFinality` takes them as given.
- Dormancy, rewards and the epoch accumulator: they rewrite the rows of `BondRegistry` in
  the batch of `DnsFinality`, and the product of the two is beyond TLC on a useful DAG.
- Beacon, PALW data availability, mempools, notifications, UTXO index, IBD into a staging
  consensus: state machines of their own, not modelled yet.
- EVM execution, script engine, cryptography: computation without protocol state.
- RPC, P2P transport, wallets, miners, bridge, indexers: conversion and I/O, or
  clients of the node.

## Plan

1. `Beacon`: commit/reveal secrets over the flush protocol of `SignedEpochStore`; rewards on
   the DAG of `DnsFinality`; dormancy, which adds a third stamp to the rows of `BondRegistry`.
2. Mempool orphans and replacement; staging and swapping a consensus instance during IBD.
3. Proofs: path independence of the bond registry.
