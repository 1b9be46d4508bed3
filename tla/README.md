# Formal models of the strix-halo cluster

TLA+ models of the parts of this repository that are concurrent, distributed or
crash-prone: the CPU RDMA all-reduce and the two GPU back ends on top of it, the
start-up vote that turns them on, the controller that starts, stops and
updates the service, the tools that switch its sources, the patch layer over
upstream vLLM, and the experiments that run beside it. TLC checks them on small
instances; the TLA+ proof system proves their safety, and that the collective and the UMA
exchange implement what they promise, for any number of ranks, nodes, runs and faults.

1. [The system](#1-the-system): components, state, operations, hard behaviours
2. [The modules](#2-the-modules): how state and actions correspond to the code
3. [The runs](#3-the-runs): what is checked, bounds, fairness
4. [The proofs](#4-the-proofs)
5. [What the checks found](#5-what-the-checks-found)
6. [What is not modelled](#6-what-is-not-modelled)
7. [Plan](#7-plan)

Line numbers below are those of the source at the modelled commit. `PROJECT.json`
maps every definition to its lines and lists the hazards, runs, mutants and theorems.

## 1. The system

Four Strix Halo hosts run one tensor-parallel vLLM worker each. Small all-reduces
can leave RCCL and go through an experimental path:

    vLLM communicator hook          patches/strix_hip_rdma_hook.py
      -> start-up vote, Python ABI  tools/hip_rdma_backend.py, tools/validate_rccl_ring4.py
         -> GPU back end            tools/hip_uma_backend.hip     (kernel and CPU thread)
                              or    tools/hip_rdma_backend.cpp    (host callbacks)
            -> CPU RDMA collective  tools/cpu_rdma_transport.c    (verbs over RoCE)

A native controller runs the service: `scripts/native/cluster.py` on the operator's
host talks by SSH to `scripts/native/node_runtime.py` on each node, and
`scripts/native/deploy_release.py` installs and restores releases of the controller.
The vLLM that runs is an upstream tree edited by the numbered scripts of `patches/`
when the image is built. Single files of it, the launch configuration and the GPU
performance mode are switched on all nodes by `tools/deploy_*.py`,
`tools/set_*_canonical_config.py`, `tools/stage_*.py` and `tools/gpu_performance_profile.py`;
kernels and transports are measured beside the idle service by `tools/run_*.py`.

| Component | State it keeps | Operations | Talks to | What must hold |
|---|---|---|---|---|
| CPU RDMA collective (`cpu_rdma_transport.c` 255-305, 387-412) | sequence number, send bits, receive masks of two slots, expected immediates, poison flag; the arena with input, two receive slots per peer and output | `cpu_rdma_run` | NICs of the peers, which write the arena at any time | every answer is the sum of the operands of that round; an error is final; no rank waits for ever |
| Context lifecycle (same file, 140-253, 307-386) | verbs resources, listener and sockets, endpoint table | `cpu_rdma_create`, `cpu_rdma_destroy` | TCP with rank 0 | ready means the whole group is connected; nothing is leaked or freed under a queue pair |
| UMA back end (`hip_uma_backend.hip`) | `active`, `request`, `completed`, `error` in host memory mapped by the GPU, one epoch counter on the device, `ready`, `stop`, `has_capture` | `exchange` (kernel), `progress` (thread), enqueue, close | GPU and CPU through shared memory; the transport | no stream goes on with a sum that is not its own, unless the process is doomed |
| Descriptor back end (`hip_rdma_backend.cpp`) | descriptor pool with events and cursors, one arena, the CAS flag of the callback | enqueue (eager, captured), host callback, close | HIP streams; the transport | one owner per descriptor; a healthy rank never runs out early |
| Start-up vote (`create_if_enabled`, `make_backend`, `validate`) | the sequence of `all_gather_object` calls | vote on flag, metadata, library, creation, validation | Gloo, which pairs the n-th gathers | all ranks return the back end, or none goes on as if it were never asked for |
| Cluster and node lifecycle (`cluster.py`, `node_runtime.py`) | per node: a flock, `rankN.json`, the launcher, processes with a run token; per coordinator: a stage | start, stop, restart, preflight, status, cleanup | SSH, podman | one service per node; a failed start is undone, and only it |
| Release (`deploy_release.py`) | targets, `previous/`, receipt, `deploy.lock` | promote, restore | operator, file system | nothing is lost, and what is interrupted can be put back |
| Patch layer (`patches/apply_all.sh`, 28 scripts, `verify_compat.py`) | the files of the vLLM tree, with markers in them | apply, check, verify | the image build | what verify accepts has every edit; an interrupted run can be repeated |
| Source switches and performance mode (13 tools) | per node: the file, its helpers, a staging directory; for the mode a snapshot at the operator's | stage, activate, restore, roll back | SSH; the service, which reads the file | there is a way back from every content; a running service keeps its source; reports are true |
| Experiment runners (41 `tools/run_*.py`) | a directory of evidence, marked processes on the nodes | look, run, collect, scan, judge | SSH; the metrics of the service | what is accepted was undisturbed, has evidence of its own and leaves nothing behind |
| Benchmark matrix (`bench/run_matrix.py`) | result file | resume, tear down | the service | not modelled, section 6 |

The hard behaviours are: ranks that drift apart by a round with no barrier in
between; a NIC that reads the operand later than the program posts it; timeouts of
two parties that know nothing of each other (kernel and CPU thread, SSH client and
remote command); gathers that pair calls by position only; teardown of memory that
a GPU, a thread and a NIC still use; commands that outlive the coordinator that sent
them; crashes between two files of a release or of a patch; tools layered on one file that are
repeated, restored and cut off in any order; and programs on a node that outlive the script that
measures with them. The `hazards` of `PROJECT.json` list
them at their lines, with the properties that cover them.

## 2. The modules

### AllReduce and RdmaTransport

`AllReduce` is what one all-reduce promises: a rank gets a result for its round only
after all contributed to that round, made of the contributions to that very round;
a rank that gives up never answers again. Operands are abstracted to the number of
their round, since the only thing to be told apart is a right operand from a stale one.

`RdmaTransport` is `collective()` and `cpu_rdma_run`.

| Model | Code |
|---|---|
| `sequence`, `poisoned` | `s->sequence`, `s->poisoned` |
| `sent`, `recv_mask[r][slot]`, `recv_next` | `sent_mask`, `recv_mask[2]`, `recv_next[]` (line 266-292) |
| `wr`, `landed`, `acked` | the queue pair: all immediates posted, with cursors for those executed and those whose completion was taken. A reliable connection keeps the order of one queue pair, and nothing else |
| `memory[r][slot][p]`, `input`, `output` | the arena |
| `Run`, `Refuse` | entry of `cpu_rdma_run`; exhaustion at `UINT32_MAX - 1` and the floating-point check poison |
| `PostSend`, `PostFails` | the posting loop; peers in any order, which covers the variant of `build_rdma_send_order.py` |
| `SendCompletion`, `RecvCompletion`, `PollFails` | one turn of the completion loop with its window, mask and expected-number checks, its deadline and its errors |
| `Reduce`, `Return`, `ReturnExpired` | the reduction, the reset of the slot's mask, the increment, the final deadline check |
| `Land` | the NIC: consumes a posted receive and copies what the input buffer holds *at that time* |
| `Close` | `cpu_rdma_destroy` or the end of the process |

`EarlyReduce` selects the variant generated by `build_rdma_early_reduce.py`, which sums
before its own sends have completed. Sequence numbers wrap at `UintMax`; the check for
exhaustion keeps them from doing so. The arithmetic of the sum is not modelled.

### RdmaLifecycle

`cpu_rdma_create` and `cpu_rdma_destroy` of all processes that use one master address:
those of a group and those of earlier runs that are still about. A process is
`<<run, rank>>`. `Setup` takes device, domain, completion queue, memory region and queue
pairs in that order; the master's `Listen`, `Accept`, `Reject`, `Spread` and the workers'
`Connect`, `ReceiveTable` are `bootstrap`; `Arrive`, `Collect`, `Release`, `Released` are
`barrier`; `Ready` is the last check of the deadline. `Fail` may happen at every step and
goes through `GiveBack`, the body of `cpu_rdma_destroy`: it stops at the first resource that
cannot be given back, and the context is retained and may be destroyed again. `orderly`
is chosen in the initial state and excludes failures; it serves the liveness property.

### DeviceCollective, UmaExchange, DescriptorPool

`DeviceCollective` is what the users of a GPU back end rely on: the stream goes on with the
sum of this call or, if the back end may abandon calls, untouched; then the process is doomed and
later calls are not answered either. Both back ends are shown to implement it.

`UmaExchange`: `kpc[s]` is the step of the kernel `exchange` on stream `s`
(`Enter` 49-54, `Clash` 52-55, `Stage` 56-57, `Publish` 59, `SpinError`/`SpinCompleted`/`SpinOut`
60-67, `GiveUp` 68-73, `Copy` 74-75, `Leave` 76), `cpc` that of `progress` (`Top` tests `stop`,
`CheckError`, `LoadRequest`, then the call and `Complete`). `hip_rdma_backend_close` is five steps,
of which those that call HIP or the transport may fail and the close be called again. Every load and store that
another party can see is a step of its own. The atomics of the code have release and acquire
fences around the plain copies, so the interleavings are sequentially consistent. The transport
is reduced to one fact of `RdmaTransport`: while a call runs its operand may be read at any
time; `carried` collects what the input slot held during it. `orderly` excludes faults and
overlapping kernels.

`DescriptorPool`: a stream is a queue of calls, of which the first has a `stage`
(`CopyIn`, `CallbackEnter`, `RunReturns`, `CallbackLeave`, `CopyOut`, `Retire`). `FreeEager` and
`FreeCapture` are the two scans of the pool from their cursors, `Pending` is the event query.
An operand is the number of its call. All errors end in `_exit(86)`: `tools/hip_rdma_backend.py`
turns every error code of the C functions into a `_fail_stop`, which the model includes. The
allocation of the pool, `cpu_rdma_create`, and the ABI checks are before the initial state.

### BackendVote

`create_if_enabled` on every rank, called directly or through the hook (`hooked`). `posts[r]` is
the list of what rank `r` contributed to `all_gather_object`; a rank that waits in its n-th
gather goes on when every rank has contributed n times, *whatever the others meant by it*. The
hook that leaves before any vote, and a validator that raises and so skips one gather, put
the ranks out of step; the model has both. The `dist.barrier` of the validator (`validate_rccl_ring4.py:49`) is left out: it
decides nothing, and whoever waits in it would wait in the gather that follows. `GatherFails` is Gloo's timeout or a lost
connection, `Killed` an operator or the executor.

### ClusterLifecycle

`pc[c]` is the stage of a coordinator (`idle` is `ensure_idle`, then `stop`, `preflight`,
`start`, `watch`, `cleanup`); `session[k][c][n]` is the command of kind `k` it has sent to node
`n`. `GiveUp` is the timeout of `subprocess.run` or Ctrl-C: it ends the client only, and a command that has not begun
(`uncertain`) may begin at any later time, or never. `late` records the starts that begin after the cleanup that should
have undone them; it is used by a property only. The node's part is
`BeginStop`, `StopEnds`, `StopFails`, and for a start or preflight `BeginLook` (the flock without waiting, and the scan for
processes, a `podman exec`), then the look for a pending launcher and what follows it (`Launch`, `PreflightOk`, `LookFails`), and
`StartEnds`, `StartFails`. The two looks are two steps, and `orphans` notes a run whose launcher dies between them. A round of
`status` is read node by node, what one node answers in one step; `Spawn` is podman creating the process later than its launcher exists, `Dies` a crash.
A run is named by its coordinator. `internal_stop` is one step, because a fresh launcher cannot appear
while it holds the flock, and its 1.5 quiet seconds are taken to be long enough.

### Release

`promote` and `restore`, file by file, each able to die between any two steps (`Killed`);
`Edit` is the operator, who takes no lock. `dirty` holds the backups that are in the page
cache only: `replace` syncs, `write_bytes` does not; `PowerLoss` may take them. `writer` and
`late` are history, used by properties only. `Compare` and the replacement (`Replace`, `Undo`) are two steps, since the new
content is written and synced in between; `now` is the file in that state, and `raced` notes an edit of it, which is lost.

### PatchScripts and PatchLayer

`PatchScripts` has each script of `patches/` as a record: the files it edits, the texts it looks for in
them and whether it leaves (`keeps`) or replaces (`eats`) them, what tells it that it has run, its answer when
a file, an anchor or a package is missing, and what its `--check` asks. A file is the set of those texts.
`PatchLayer` gives the meaning: `Answer`, `Writes` and `Written` are what a script does with one file; `RunScript`
runs the next script, which ends the run unless it answers 0; `AllRun` and `Verify` are the end of
`apply_all.sh` and the marker check. `Kill` stops a run after any number of writes of a script, with the
next file perhaps emptied (`torn`): `write_text` truncates before it writes. `builder` is the stage of
`docker/Dockerfile.fedora` that looks for the markers whatever the run has answered.

### Rollout

One tool is a record of its differences (`Tool` and the thirteen definitions after it): node after node or all at
once, whether it ends at the first failure, looks for a running service, takes up a staging that is there, installs
helper modules, looks at all nodes first, keeps the originals itself in a snapshot, adds to that snapshot in place, rolls back.
`op` is the run of a tool at the operator's (`Begin`, `Send`, `Save`, `Checked`, `RollBack`, `End`, `Die`). `Save` is
`write_text`, which cuts the snapshot to nothing and then fills it: cut off in between, or failing, it leaves the snapshot `torn` before
a node has been switched and `lost` afterwards (`gpu_performance_profile.py` 39, 49, 56, 59).

`flight` holds the commands on the nodes. One that changes the file takes it in steps: `Look` (the content, the staging, the service), `Help` (the
helper modules), `Write` (the temporary file, which has one name for all commands of a tool), `Replace`; a performance mode has no temporary
file. Between any two of them the service may start (`Serve`) and the operator edit (`Edit`). Three histories serve the
properties only: `raced` and `blind` have the nodes on which an edit or a start came in between, and `raced` those where a command replaced the file
by what another one of its tool was still writing; `edited` has those of the operator. `Refuse` and `Check` end after the look, `Stage` fills a
directory. `TimeOut` and `Die` leave a command behind that acts later (`live` is false), `Cut` ends one between two writes, and a mode
that could not be written is put back (`bench_gpu_profile.py` 15-19). A command that was given up and then acts makes its run `crossed`, unless the roll back has still to
come to its node (`Undoable`): the lost answer of a node that is then put back is no exception. Tool t turns
content t - 1 of the file into content t, so that a tuple of tools is a stack of layers on one file.

### Runners and Experiments

`Runners` has the 41 scripts as records of the checks they make; `Experiments` the steps. `Look`, `MakeDir`, `Collect`,
`Scan` and `After` are the script; `Begin`, `Fork`, `BenchEnds`, `TimeLimit` and `Report` its program on a node. `GiveUp` is the
ssh timeout, after which the command may still begin. `procs[x][n]` are the processes on node n that bear the
mark of run x; `active` and `total` are the gauges and the counter of completed requests in the metrics of the service.
The verdict compares them with what `Look` read.

## 3. The runs

Twelve runs; every property of a passing run has a mutant in `PROJECT.json`, a plausible slip
in the mapped code (the definitions named `X_Y` beside `X`, marked "Seeded fault") that violates it under
the same configuration. Where a module has no run for its `TypeOK` alone, the type invariant is the first conjunct of one of
its invariants.

| Run | Instance | What it shows |
|---|---|---|
| `transport_safety` | 3 ranks, 3 rounds, all faults | `OperandIntact`, `InputHeld`, `NoFalseAlarm`, `QueuesBounded`, `Lockstep`, and that the transport implements `AllReduce` |
| `transport_live` | 2 ranks, 5 rounds, early reduce, with and without faults | `AllRoundsComplete`: a group without faults cannot block itself, up to the exhaustion of the sequence numbers; `CallReturns`: thanks to the deadline every call ends, whoever is gone |
| `rdma_lifecycle` | any part of a group of 3 and a stale worker | `OneGroup`, `ReadyMeansConnected`, `NothingLeaked`, and `AllReady` for an undisturbed group |
| `uma_exchange` | 2 streams, 3 epochs | `Exclusive`, `StableUntilError`, `TeardownOrder`, the refinement of `DeviceCollective`, and the liveness of kernels, errors, close and service (`NobodyLeftWaiting`, `Served`) |
| `uma_input_slot` | 1 stream, 2 epochs | violation, see section 5 |
| `descriptor_pool` | 2 streams, 2 + 6 descriptors, 4 calls, 7 calls and captures | `DescriptorOwned`, with the pool running out only when it is full; the refinement of `DeviceCollective` |
| `backend_vote` | 3 ranks, 2 configurations, with and without hook | `NoSplit`, `BackendEarned`, `Decides` |
| `cluster_lifecycle` | 2 operators restart 2 nodes, 1 of them may lose connections or be killed (`Flaky`) | `OneService`, `CleanupScoped`, `RolledBackInTime` |
| `release` | 2 releases, 2 targets of which one is the configuration, 1 edit | `Recoverable`, `NothingLost`, `AllOrNothing` |
| `patch_layer` | all 28 scripts; upstream trees with every set of packages, every variant, every anchor and file moved; 1 kill | `Landed`, `Resumable`, `CheckAgrees` |
| `experiments` | each of the 41 scripts alone; two runs with one directory or two; 2 nodes, 1 request | `AcceptedQuiet`, `AcceptedClean`, `EvidenceOwn`, `Freed` |
| `rollout` | each of the 13 tools alone, and two stacks of two; 2 nodes, 3 to 5 runs, 1 or 2 faults | `NodeSound`, `ServedSource`, `ReportTrue` |

**Bounds.** *Transport*: three rounds use both slots and use slot 0 again, which is when an
operand can be overwritten; by `Lockstep` no rank is more than one round ahead, so a fourth round
repeats the pattern (the proof covers all). `RecvDepth` is 2, below the code's four: the queues
suffice even then. `UintMax` is small, so that exhaustion is reached. *UMA*: three epochs are one
that fails or is late, one that follows it and one after that; two streams give one overlap, and
the flag makes a third kernel no different. *Descriptors*: 8 gives the scans of the code (a quarter eager) two
eager descriptors to wrap around and six captured ones; `MaxWork` bounds calls and captures together, so
that either can run out. *Vote*: three ranks have a majority and a minority of any verdict; two
settings suffice to differ. *Cluster*: two operators and two nodes let each win one node; a restart
contains stop, preflight, start, watch and cleanup, in that order, and an operator killed after
the stop is a mere stop; the other can still fail at every node, and start or clean up late. *Release*: a promotion and its restoration interrupted with two
files are every mix of old and new; a second release makes a receipt outdated. *Patch layer*: a run that is
begun again after a kill leaves a finished tree or fails, so a second kill meets what a first could have left;
every single deviation of the upstream tree is there, combinations of two are not. *Experiments*: one request can
begin or end between any two steps; two runs are what an earlier run and the one after it need, more would each be
in the place of one of the two; a run uses one node or all, and two are the fewest that differ. *Rollout*: three runs
are stage, activate and restore; the tools with a snapshot and the pairs of tools have four, the pair that looks for a service five, which is both
up and down again and one more (`MCMaxRuns`). Two faults are a command left behind and one cut off, or a failure and a failure of its
roll back; the pairs, and the tool that calls all nodes at once, have one (`MCMaxLate`), a second of theirs makes the state space too large
for a run. The operator edits one node once. The proof has none of these bounds.

**Symmetry** is used in runs that check safety only, over ranks, streams, nodes, releases
and contents; the ranks of `RdmaLifecycle` are not alike (0 is the master) and are not
permuted. `CHECK_DEADLOCK FALSE` everywhere except in `patch_layer`: the other systems may stop for good
(exhausted, poisoned, closed, all processes gone, all runs used up and nothing left in flight).

**Fairness.** `RdmaTransportLive!LiveSpec`: without faults CPUs run and a reliable connection delivers;
with faults only a CPU that is inside a call goes on, and the deadline, a comparison with
the clock in the polling loop, comes; nothing is assumed of the network or of the caller.
`UmaExchange`: the GPU runs a launched kernel, and the bounded spin loop ends (strong fairness,
since the loop passes through the test again and again); the CPU thread and the close are fair only in
the parts of the properties that say so (`CpuFair => ...`); a kernel returns even with a CPU thread that hangs in the driver.
`BackendVote`: ranks run, Gloo has a timeout, and the executor ends a group that lost a worker.
`RdmaLifecycle`: when nothing fails, some step follows as long as there is one; which one is not assumed.
`Experiments`: the time limits of ssh and of the programs come, a script or wrapper that has begun goes on, and what was
sent KILL dies. Nothing makes a program, a child of it or a request end by itself, and no script has to begin.
The other modules state no liveness: an operator may go away, a host may stay down.

## 4. The proofs

Eight modules hold proofs, each beside the module or the two modules it speaks of. For every component there is an inductive
invariant (`IInv`, for the pool `PoolInv`), a theorem that every behaviour keeps it (`Invariance`, `PoolInvariance`) with one
lemma per action or group of like actions, and a theorem per property.

| Module | Assumed of the constants | Properties proved |
|---|---|---|
| `RdmaTransportProofs` | `UintMax >= 2` (the code has 2^32 - 1), `RecvDepth >= 2` (the code has 4) | `TypeOK`, `Lockstep`, `OperandIntact`, `InputHeld`, `NoFalseAlarm`, `QueuesBounded`, `ImplementsAllReduce` |
| `RdmaLifecycleProofs` | a process is a pair of run and rank | `OneGroup`, `ReadyMeansConnected`, `NothingLeaked` |
| `UmaExchangeProofs` | `MaxEpoch` is a number | `Exclusive`, `StableUntilError`, `TeardownOrder`, `ImplementsCollective` |
| `HipBackendProofs`, of `BackendVote` and `DescriptorPool` | at least four descriptors (the code's quarter must not be empty); `MaxCalls` is a number | `NoSplit`, `BackendEarned`; `DescriptorOwned`, `ImplementsCollective`, and `CloseWaits`: the transport is gone only when nothing is left that could use it |
| `ServingProofs`, of `ClusterLifecycle` and `PatchLayer` | jobs are start, stop and restart; no upstream tree has a text that the scripts write, and the builder has no vLLM installed | `OneService`, `RolledBackInTime`, `CleanupScoped`; `CheckAgrees`, `Landed`, `Resumable`, and that no run in the builder ends well |
| `ReleaseProofs` | the configuration is a file; `None` is no release, file, writer or receipt | `Recoverable`, `NothingLost`, `AllOrNothing` |
| `RolloutProofs` | at least one node; stacks consist of tools | `NodeSound`, `ServedSource`, `ReportTrue` |
| `ExperimentsProofs` | at least one node and one request; plans name runs and directories | `AcceptedQuiet`, `AcceptedClean`, `EvidenceOwn` |

The assumptions are `ASSUME`s of the modules, which TLC evaluates in the runs. What bounds a run bounds no proof: ranks,
rounds, nodes, streams, runs, faults, kills, edits and upstream trees are arbitrary. The type invariants are proved too, as the first conjunct of
`IInv` or of a property.

**The collective.** None of its properties is inductive alone: that an operand survives in its slot depends
on how far its sender can be ahead, which depends on what its receiver sent, and so on around the
group. `IInv` is the conjunction of the type invariant with

- `RoundInv`: the operand staged, the phase of the call and the peers served agree with `sequence`;
- `LogInv`: the k-th write of a pair carries the number k - 1, and there is one per round;
- `CursorInv`, `AckInv`: completions never run ahead of the writes they report, and those taken are
  those of past rounds and, as `sent` has them, of this one;
- `WindowInv`: a receive mask holds exactly the receives of this round and of the next;
- `ReducedInv`: a reduced round has received everything;
- `StagedInv`: only a write of the current round can still be in flight;
- `SlotInv`: a landed operand that is still to be summed is in its slot;
- `OutputInv`: the sum handed out is that of the last round.

The lemma `Bounds` derives from it the fact everything turns on: no write is more than one round ahead
of its receiver's `sequence`, because its sender needed an operand of the receiver for each round before.
Two slots are then enough: a write for slot `n % 2` that is not of round `n` is of round `n + 2` or later, and
cannot exist. `Window` shows that the checks on a receive completion succeed, which makes `NoFalseAlarm`
a step of the invariance proof and not a corollary of it. `Refinement` maps each action
to a step of `AllReduce` or to a stutter.

**The context.** `Grouped`: the checks of a table leave one possible table per run, so whoever connects has that one.
`Barred`: an arrival is of a connected process, an answer of the barrier is given when the whole run has arrived
(`Whole`), and nothing disconnects. `Held`: resources are held in the order in which they are taken, so that
a queue pair comes with its memory region.

**The UMA exchange.** `OneActive`: the kernel that has the flag has the last epoch. `Handshake` says what
request, completed, the arena and the thread agree on at each step of that kernel; for a kernel that looks for an answer or
copies one, and for all while there is no error, this is `InFlight`: the slot, the request and the call are of the last epoch.
A kernel looks only after it has found no error, and nothing else can change the handshake while it has the flag; hence an error that
arrives between its two loads does no harm. `Outputs` and `Teardown` are about what a kernel leaves and the order of a close. The refinement maps
launch, copy and leave to `Call`, `Answer` and `Return`, the two errors, and a look that comes too late, to `Doom`, and the
exit to `Die`; all other steps are stutters.

**The vote.** `Placed`: the step of a rank determines which gather is its next, also when a rank has skipped one.
`Known`: a rank is at a step only if every rank granted the votes before it; consent cannot be withdrawn, for posts only
grow. `Truthful`: a contribution says what its rank has. So a rank with a back end knows of six votes in its
favour, while one that stays with RCCL has taken part in one gather at most. `Lone` is about the rank that
skipped a gather: it voted no in the one it takes for the last.

**The descriptors.** A scan starts at its cursor and goes round a ring whose size is a parameter: `Around` shows that it comes by every
place and by no other, hence an empty result means that all are taken (`EagerScan`, `CaptureScan`), and `Least` that the first
free one is a place of the ring. It makes `Apart`, that no descriptor stands in two queues, an invariant: an
eager one is taken only when its event is done, a captured one is replayed only where its graph already is. With `Behind`, that one stands twice in a
queue only for the replays of one graph, `Carried` follows: what the copy, the callback or the sum left in descriptor and arena is there for
the next step, `OneAtWork` keeping the arena for one callback. The refinement is then as for the UMA exchange, with no `Doom`: the pool abandons no call.

**The cluster.** `OneRun`: `rankN.json` names the only run of which the node can have a launcher or a process, because a start
writes it under the flock after it has found nothing, and a failure to end a run keeps it. Between the two looks of a start whatever
has processes has its launcher, too, or is an orphan; so no pending launcher means that nothing else is there. For the rollback,
`NoneSent`: once a coordinator is past its start, only what it has given up on can still be on its way; `Undone`: the
flock keeps a cleanup apart from the start it undoes, so that one that is done has found the start over, or it comes later and is in `late`.

**Releases.** A receipt is written once, when everything it names has been read and backed up (`Reading`); so it and its
backups agree for good (`Backups`). Whoever changes a target later is the release of the last receipt, which writes one of the two
contents that the receipt allows, or is noted as its writer (`Targets`). A file between its comparison and its replacement
is as it was read, unless it is `raced` (`Facing`): so a promotion replaces what it has backed up.

**Source switches.** A content lies on originals that are staged whole (`Kept`). A command between two writes finds, at the
second, what the first was decided on: nobody else fills a directory that one has begun (`StagingOK`), and nothing
takes away what a change stands on, before it is written (`ChangingOK`) and in the temporary file, whosever it is (`PendingOK`). A
snapshot is there before the first mode is changed and is never begun anew while a command that changes one is about (`SnapshotOK`). A
run knows what its nodes hold as long as nobody else has written to them (`RunOK`), since at most one live command on a node is
its own (`LiveOK`, `LiveUnique`), with a temporary file that is its own (`MineOK`); and of a command that it has given up it knows that its node has failed, or that the
roll back has still to come there (`GoneOK`).

**Experiments.** A command is over before its answer is good (`Told`), so nothing of it can begin afterwards; a program is never
there when it could be begun once more (`Benched`); a request beside a program is still in progress or has raised the total above
what the run has seen (`Counted`); and the manifest holds a directory for its run (`Holding`, `OneOwner`).

**The patch layer.** The scripts are given, the tree is not: any packages, any gap, any texts that other releases brought along.
1. The data. Every site and script keeps a few rules (`SiteOK`, `ScriptOK`, `AllOK`; the only part that goes through the 28 one by
   one): a text has one script that writes it, an anchor at most one that replaces it (`Eater`), guards ask for what nothing
   takes away, and the site where a script may end early has none behind it that counts.
2. `CheckTells`: from these rules, `--check` accepts a tree exactly where the script would succeed and write nothing.
3. `Landed` is not inductive, since it looks only at runs that have ended well. `LayerInv` says what holds on the way: the tree has
   what the scripts can have put there and lost only what they replace (`Sound`), and all sites of the scripts behind a run are
   settled (`Progress`). A site stays settled because writing only adds texts and replaces its own anchors (`Grew`,
   `SettledStays`). A check knows nothing of `cpp_itfs/utils.py`, which patch 54 edits; but a tree that has the marker of patch 56 has
   been through 54 (`CppFirst`), so that the marker check closes that gap. `SettledLands` compares such a tree with that
   of the uninterrupted run, `IdealTree`, which is defined by recursion over the scripts and followed by induction (`IdealGrows`, `IdealWriter`).
4. For `Resumable`, what upstream has in a file is there until its replacement is, except in a file that a kill has emptied
   (`Still`, `TornOnes`). A script then finds in an interrupted tree no less than in the uninterrupted run's (`CodeAgain`), and the marker
   check no less (`VerifiedAgain`): the run fails only where that one does. An emptied file that a script creates, or
   the header of patch 54, which needs no anchor, is written again.
5. In the builder patch 72 fails for want of an installed vLLM, whatever was run before (`Stuck`): `BuilderNeverPasses`.

Only model-checked: liveness, as fairness and ENABLED are beyond the prover (`CallReturns`, `AllRoundsComplete`, `AllReady`,
`NobodyLeftWaiting`, `Served`, `Decides`, `Freed`). Every other property of a passing run has a theorem.

## 5. What the checks found

- **`uma_input_slot`** (code). `cpu_rdma_transport.h:47` asks for a "stable input slot" and lines 62-63 allow
  reuse after the call. The kernel's spin bound and the transport's deadline are independent: a kernel
  that gives up stores `error = 2` and then `active = 0` (`hip_uma_backend.hip:68-76`) while `progress` may still
  be in `cpu_rdma_run`; the next kernel of the stream stages its operand over the one in flight. The CPU
  thread ends the process at its next look at `error`, but the peers may by then have summed
  the wrong operand. `StableUntilError`, which passes, says that it cannot happen before an error was raised.

Where the code does not do what a text beside it says, and a property had to be stated with the exception:

- The hook and the vote. The module says that a "configuration vote still prevents
  inconsistent enable flags" (`hip_rdma_backend.py:25`), but the hook returns before any vote on a rank whose flag is off
  (`strix_hip_rdma_hook.py:6`). The other ranks wait in their first gather until Gloo's timeout. No mixed group
  results (`NoSplit`), but nobody says why.
- The late start. "Include uncertain SSH outcomes: cleanup matches the new token
  only" (`cluster.py:138`): a cleanup removes what is there; a start command that begins after it, its client having been
  killed by the timeout, launches a run that nobody is left to stop. `RolledBackInTime` says that
  nothing else is left: a node that carries something of a run that was rolled back began its start after its cleanup, and
  the coordinator had given up on that start.
- The two looks. A start holds the flock, and finds a pending launcher by its identity (`node_runtime.py:303`), but it does so
  after the scan for processes (line 302), which takes a `podman exec`. A launcher of another run can create its processes after
  that scan and die before the second look: both find nothing, and the start goes on beside those processes, although
  "Node start rechecks under a local lock to reject concurrent or stale coordinators" (`cluster.py:112-113`). `OneService` excepts
  exactly such a run (`orphans`). The launcher looked for first, and the processes after it, would leave no such gap.
- "Every patch actually landed" (`verify_compat.py:5`). Patch 57 writes three files and asks only the first
  whether it has run (`57_ple_offload_amd.py:624-626`); killed after the first write and repeated, it never makes the edits in
  `model.py` and `envs.py`, and the check passes. Patch 72 skips `indexer_qsa.py` when its anchor is not there
  (`72_gate_indexer_quant.py:52-54`). `Landed` excepts those three edits. The check asks nothing about patches 50, 61, 62, 72 and 74 to 76,
  looks for the edit of 57 under a name it does not have, and does not accept the older markers that 63 and 64 do.
- `--check`. That of patch 54 does not look at all the files that 54 edits, and 72 does not read its command line and edits.
  `CheckAgrees` leaves out those two. (The marker check makes up for the first, and why is a part of the proof of `Landed`.)
- The builder stage (`docker/Dockerfile.fedora:180-187`) looks for the markers before vLLM is installed: without the
  `qwen4_exp` package patch 69 ends the run with 42, and with it patch 72 fails on a path that only the installed package
  has, so that 73 does not run. The model has both, and `BuilderNeverPasses` proves that this verification passes in no behaviour.
- The communicator switch (`deploy_hip_rdma_experiment.py:54`) does not look for a running service, as the other switches of a source do.
  `ServedSource` speaks of those that do.
- The look and the replacement. "activation/restoration refuse live serving workers and unexpected source hashes"
  (`docs/2026-09-07-moe-w1-model.md:25`; `docs/2026-09-07-aiter-gdn.md:42` is alike). Both are found before the file is written
  (`deploy_moe_w2_serial.py:13`, 22-29) and not again: a service that starts in between has its source changed, an edit in between is overwritten. `ServedSource`
  excepts the nodes with such a start (`blind`), `NodeSound` those with such an edit (`raced`).
- The temporary file has a fixed name (`deploy_moe_w2_serial.py:33`). A late command and one of the run after it can write it at once, and
  what one of them puts in place can be the other's content, or half of it; `NodeSound` and `ReportTrue` except such a node (`raced`).
- The tool of the performance mode "saves their values before modification" (`docs/2026-09-10-gpu-performance-profile.md:56-57`), but then writes this
  only copy of the originals over in place while nodes are switched (`gpu_performance_profile.py:10-11`, from 39, 56 and 59).
  Killed there, or with a full disk, it leaves a snapshot that cannot be read, and no way back by the tool; the document asks for a separate copy
  on account of the restoration alone (lines 59-61). `NodeSound` excepts exactly that (`lost`).
- The roll back calls every node that was attempted (`gpu_performance_profile.py:53-58`), also one whose answer was lost. If the
  command of that one is late enough to come after the roll back's, the node stays switched, and the roll back has reported no error; `ReportTrue`
  excepts a run with such a command (`crossed`).
- "Target changed during deployment" (`deploy_release.py:88`, and line 109 of a restoration) is raised for an edit that comes
  before the comparison. The new content is written and synced between the comparison and `os.replace` (lines 37-46), and
  an edit of that file in between is overwritten without a backup. `NothingLost` excepts exactly that edit (`raced`).

Two more behaviours of `deploy_release.py` came up in modelling, and `Release` takes them as they are.
Backups are written without a sync (line 78) while receipt and targets are synced, so that after a power loss the
receipt can name an original that is gone; `Recoverable` excepts such a release. And `restore` tells an untouched
file by its content only (line 100): if a later release has brought each target of an earlier one back to
what it was before or after that one, restoring the earlier one is accepted and undoes the later.

## 6. What is not modelled

Real time (deadlines are steps that may come at any moment; the 1.5 quiet seconds of `internal_stop`,
`node_runtime.py:104`, are taken to be long enough), the BF16 arithmetic and its SIMD forms (the repository has
reference tests), memory ordering weaker than the fences of the code ask for, parameter
validation, process inspection and signals on a node, a kill of `node_runtime.py` between `Popen` and the
state file (a launcher that no file names), a second thread of the caller in enqueue or close, a request that arrives between
`ensure_idle` and the stop.

*Patch layer*: the text itself; an anchor is a name, and one that must be unique and is there twice counts as absent. The imports that some
scripts and `verify_compat.py` try after an edit, and the search of the tree for a file that is not where it is expected.
*Rollout*: how the new source is made; edits of helper modules; a second snapshot of the performance mode (the tool refuses to
overwrite one, and another name is another tool's copy); power loss. The content and `/proc` are looked at in one step, though the code reads the file first:
an edit between the two is met like one after both, a stop of the service like one before both. Writing the file and reading it back for the report are one step. *Experiments*: what is measured; the checks of versions, checksums and devices before a
run; a restart of the service in the middle of a run, which resets the counter of requests; the scan of `/proc` is one step.
The launcher of `run_cpu_rdma_allreduce.py` kills the group of its benchmark and then waits for the end of its output
without a limit (lines 43-45), which a child in another group could hold open; the model takes that wait to end.

Not modelled as components, with reasons in `PROJECT.json`: numerical kernels, vendored code and patches applied outside
`apply_all.sh`, the reduction arithmetic, benchmark and analysis scripts, the Ray-based shell scripts, the model registry.

## 7. Plan

Order of work, most important behaviour first. Done: 1 to 9.

1. `AllReduce`, `RdmaTransport`, `RdmaTransportProofs`: the collective, checked and proved.
2. `DeviceCollective`, `UmaExchange`, `DescriptorPool`: both GPU back ends against one promise.
3. `BackendVote`: the start-up protocol.
4. `RdmaLifecycle`: create, bootstrap, barrier, destroy.
5. `ClusterLifecycle`: coordinators and nodes.
6. `Release`: promotion and restoration.
7. `PatchScripts`, `PatchLayer`: the edits of the vLLM tree, interrupted and repeated.
8. `Rollout`: switching a source, the configuration and the performance mode on all nodes.
9. `Runners`, `Experiments`: measurements beside the service.
10. The partition and the order of additions of the ring-4 mode (`cpu_rdma_transport.c` 87-117) against
   the order of the GPU's rings, over bounded lengths.
11. `run_matrix.py`: resume and teardown.
12. A kill of `node_runtime.py` between `Popen` and the state file, in `ClusterLifecycle`.

The modules have no recursive operators and name their assumptions, so that each can be extended by a proof module.
