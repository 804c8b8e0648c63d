# A TLA+ model of langgraph-cpp

langgraph-cpp runs stateful graphs: nodes are handlers, a *super-step* runs a set
of them concurrently on one snapshot of the state, merges their writes and routes
to the next set. A run stores checkpoints, so that after a failure, an interrupt,
a cancellation or the end of the process the *thread* can be resumed. This
directory models that core and the saver below it in TLA+, checks them with TLC on
small instances, and proves part of them with TLAPS for every graph and every set
of requests.

## 1. The system and its parts

| Part | State | Operations | Talks to |
| --- | --- | --- | --- |
| Graph run (`graph_run.cpp`) | result state, step, active tasks, pending writes, budget | start, super-step, failure, pause, completion | checkpointer, event sink, executor, handlers |
| Thread API (`compiled_state_graph.cpp`) | none of its own | invoke, resume, replay, updateState, getState, getStateHistory | graph run, checkpointer |
| Subgraph nodes (`state_graph.cpp`) | none of their own | start a child run, map its result to a node output | graph run of the child |
| Savers (`checkpoint/`) | checkpoints, pending writes, latest pointer | put, putWrites, getTuple, list, delete, prune, copy | storage backends |
| Event streams (`stream*.cpp`) | producer thread, channel, projections | start, next, cancel, close | channels, graph run |
| Channels, futures (`foundation/async`) | queue or handoff slot, waiters, closed flag | send, receive, close, select | threads, cancellation |
| Cancellation (`foundation/cancellation`) | flag, reason, callbacks | cancel, onCancel, unregister | all of the above |
| Executors, threads, pools | queues, workers, closing flag | execute, close, drain | handlers, scheduler |
| Scheduler and timers | due times, task states | schedule, cancel, fire, retry | executors |
| Event sinks | queue, closing flag | publish, flush, close | graph run |
| Stores, caches, blobs, storage backends | key-value maps | get, put, delete, batch, expire | tools, savers |
| Rate limiter, circuit breaker, retry policy | tokens, counters, windows | acquire, record | network, models |
| Lifecycle and container | component states | start, stop, roll back | all services |
| Messages, models, tools, config, crypto, logging, network, process | mostly data conversion and I/O | | |

What makes the core hard is not one algorithm but the number of places a run can
stop: a handler fails while its siblings succeed, an event or a checkpoint is
refused between two assignments, the process ends, the budget runs out, a second
fault hits the run that recovers from the first. `PROJECT.json` lists these
hazards at the lines where they bite, and every component with its status.

## 2. Modules

| Module | What it is |
| --- | --- |
| `Tasks` | Data: tasks with their place and merge order, writes, commands, routing, the lists stored in checkpoints. |
| `SuperStep` | Abstract specification: what a persisted run promises, in five variables. |
| `GraphRun` | `GraphRun::run` with `invoke`, `resume`, `putCheckpoint`, `failRun` and the environment. |
| `GraphRunRefinement` | The refinement mapping from `GraphRun` to `SuperStep`. |
| `MCGraphRun` | Small graphs for TLC. |
| `StorageSaver` | `StorageSaver`: concurrent calls as sequences of storage operations. |
| `MCStorageSaver` | Checkpoints and requests for TLC. |
| `Tasks_proofs`, `GraphRun_proofs` | Lemmas and theorems about them, checked by TLAPS. |
| `StorageSaver_types`, `StorageSaver_calls`, `StorageSaver_proofs` | The same for the saver: types and stages; reading and deleting calls; the theorems. |

### Tasks

A `CheckpointTask` list is a *set* of tasks, each with its place `pos` in the list:
the code only ever uses the relative order of the places, so removing a task
leaves the others alone. `order` is the merge order that `annotateTasks` gives a
task once, from its index, and that the task keeps from then on; a task that
waited for an answer may therefore have an order its index no longer gives.
`Listing` is `normalizeNextTasks` followed by `annotateTasks`: kept tasks first, then
the routed ones in the merge order of the writes that name them, a plain target
once, for the first write that does, and a `Send` once per write. Only the order of
several targets of one write is not fixed by the model's values and is left to
`SetToSeq`. `failureNext` keeps the places the failed tasks had, where the code lists
failed handlers before rejected parent commands; nothing but the node named first
in a later error depends on it. A write records which
snapshot (`in`) its handler read: the number of super-steps merged before it, or 0
for a `Send`, which carries its own state.

### GraphRun

The state of a thread is the log of the write sets merged into it, plus the
metadata the runtime keeps inside it: the interrupted tasks (`__interrupt__`) and
the error (`__run_error__`), a set with at most one record of its cause, which
stands for code and message, its node and its step; the run status follows from
the cause. With reducers abstracted like this, a write merged
twice, lost or merged early is visible as such.

| Code | Action or operator |
| --- | --- |
| `CompiledStateGraph::invoke` and `invokeSubgraph`, run start to the loop | `Invoke` |
| `CompiledStateGraph::resume`, matching of a resume command | `Resume`, `RunFrom`, `Matches` |
| `replayStartStep` | `replayStartStep` |
| loop head: cancellation, budget, NodeStarted | `BeginStep` |
| `dispatchExecutions`, `executeTask` | `ExecuteTask` (one per task, in any order within a batch) |
| classification of executions | `Failures`, `Interrupts`, `Parents` |
| failure path | `FailStep` |
| NodeCompleted events | `CompleteNodes` |
| `writeFromExecution`, task-level checkpoints | `CollectWrite` |
| sort and `applyWrite` | `Merged`, `MergeFails` |
| parent command, interrupt, routing | `MergeAndLeave`, `MergeAndPause`, `MergeAndRoute` |
| after the loop | `Finish` |
| `putCheckpoint`, `failRun` | `PutThen`, `Failing` (or `Fail`) and `FailRun` |
| cancellation token, process end | `Cancel`, `Restart` |

`failRun` is two actions, because the process may end between the decision and the
checkpoint; `Failing` is what the failure checkpoint will hold, and `Fail` is the
same for a step that has put nothing. Two failures follow a checkpoint of their own
step: what is rejected after the initial checkpoint of a new run (the state schema,
or the Command that a resumed subgraph node passes to `invokeSubgraph`), and a
refused InterruptRequested event. A refused event, checkpoint or schema, a failing
handler, reducer or router is a *fault*: `Faults` says which kinds occur in a run,
`MaxFaults` how many. The kind `schema` is the rejection of what a run starts from:
its state, the update of its Command, or the answer to one of the interrupts. A call
that returns a `Status` error instead of a `RunResult` returns `"error"`.

The checkpointer is the map a saver presents: `put` refuses an id that exists, the
latest checkpoint is the one with the highest step and, among those, the last one
put, as `InMemorySaver` keeps them. Of the saver that survives a restart this is true
while no two checkpoints of one step share a millisecond (run `stale_latest`).
`StorageSaver` takes the calls of one saver apart.

### SuperStep

A thread is a log of merged super-steps, the tasks of the one under way, the
writes of it that are decided, and the interrupts that wait for an answer. Writes
may become decided (`Decide`), the super-step is merged as a whole (`Commit`,
`Pause`, `Leave`), each with exactly one write per task computed from the snapshot
the super-step began with. `GraphRunRefinement` reads these five variables off the
latest checkpoint only: that is what survives a crash.

### StorageSaver

`StorageSaver` has no lock. Each of its calls reads and writes a key-value storage
several times, and callers in other threads or processes do so in between. One
action is one storage operation together with the computation up to the next one.
`call` holds, per caller, the request, the next operation (`pc`) and the locals.

| Code | Actions |
| --- | --- |
| `put`, `putWrites` (as `putCheckpoint` calls them) | `Put`, `SetPointer`, `PutWrite` |
| `getTuple` of the latest checkpoint, `getLatestCheckpoint`, `getCheckpoint`, `readWrites` | `GetTuple`, `GetCheckpoint`, `ReadCheckpointWrites`, `Scan`, `ReadTupleWrites` |
| `prune`, `deleteForRuns`, `removeWrites`, `repairLatestPointer` | `Prune`, `DeleteForRuns`, `RemoveRecord`, `FindWrites`, `DropWrite`, `Rescan`, `RepairPointer` |
| `deleteThread`, `removeThreadWrites` | `DeleteThread`, `RemoveRecord`, `FindPointers`, `DropPointer`, `FindThreadWrites`, `DropWrite` |
| `copyThreadWith` | `CopyThread` or `DeleteThread`, `ListAfterErasure`, `Gather`, `CopyRecord` and the actions of a put |
| the storage refuses an operation, or the process ends | `Stop` |

Data. A checkpoint has an id, a parent, a run, a step, its stored time in
milliseconds and the pending writes inside it. Ids are numbered in the order of
the strings, because `checkpointIsOlder` compares them as strings. The time is that
of the put (`createdAt_ = now()`), so two checkpoints put under one id, by processes
whose run ids repeat, may differ in it as in everything else. `Found` is what earlier
runs have left behind. A run puts a checkpoint only after the one it names as its
parent. A pending write stands for its key and its content
at once. A listing is one storage operation, which holds for threads that fit on
one page. Reads that change nothing and do not look for the latest checkpoint
(queries at an id, filters, delta histories) are left out.

History variables record what a call could have known: the entries it could have
seen (`present`), the entries and writes that were stored all the time it ran
(`stayed`, `lasting`), whether it ran alone (`calm`); what went while prunes are under
way otherwise than as a checkpoint a prune had listed (`erased`, forgotten with the
last of them); and the checkpoints whose put has returned and of which nothing was
removed (`acked`, with `intact` for a put still under way). No action reads them. One
more, `known`, holds the ids that have been stored: the guard of `Put` reads it, since
a run knows the parent it has put.

## 3. Runs

The first nine runs use `MCGraphRun`, the other three `MCStorageSaver`. All say
`CHECK_DEADLOCK FALSE`: a thread whose caller makes no further call, and a storage
nobody calls, have really stopped.

| Run | Checks | Shows |
| --- | --- | --- |
| `run_async` | `TypeOK`, `FinishedTasksStayFinished`, `ResultMatchesThread`, `InterruptsAnswerable`, `RecoverySafe` | Diamond graph, Async durability, a budget of one super-step per run, a child run with parent commands and interrupts (also repeated ones), two faults among handler failures, cancellation, restart, rejected starts, refused checkpoints, refused RunStarted, NodeStarted, CheckpointCreated and InterruptRequested events. |
| `run_sync` | `FinishedTasksStayFinished`, `CheckpointIdsFresh`, `RecoverySafe` | Sync durability, three tasks of which one is a `Send` to a node that is also listed plainly, goto commands, `Send` routing. |
| `run_exit` | `ResultMatchesThread`, `InterruptsAnswerable`, `ThreadCompletes` | Exit durability, one task at a time, a budget of one super-step per run, every kind of fault. |
| `bad_write`, `router_failure` | `RecoverySafe` (violated) | Two error paths break the promise, see section 5. |
| `interrupt_collision` | `InterruptsAnswerable` (violated) | A graph can leave a thread that cannot be answered; it needs no cycle. |
| `restarted_ids` | `CheckpointIdsFresh` (violated) | Generated run ids repeat after a restart. |
| `shadowed_error` | `ErrorIsShown` (violated) | The error a call returned may not be the one `getState` shows. |
| `start_failure` | `FailuresReturned` (violated) | A run rejected after its initial checkpoint returns an error instead of its failure. |
| `saver` | `LatestIsCurrent`, `AcknowledgedPutsStay`, `DeletionComplete`, `PruneKeepsNewest`, `CopyShowsSource` | Two callers on a storage that holds two checkpoints, three calls of any kind in any interleaving, one of which may stop anywhere; one put uses the id of a stored checkpoint. |
| `torn_writes` | `PendingWritesComplete` (violated) | A stop between two pending writes makes the others invisible. |
| `stale_latest` | `LatestIsNotSuperseded` (violated) | Of two checkpoints of one step and millisecond the older one may be shown. |

The properties:

- `RecoverySafe`: the latest checkpoint moves as `SuperStep` allows. No decided write
  is lost, recomputed or merged early; no super-step is merged in part or twice.
- `FinishedTasksStayFinished`: no checkpoint and no run lists a task whose write it
  holds.
- `ResultMatchesThread`: `getState` shows next the merged super-steps and the
  interrupts a call returned, and of a completed one that nothing is left to run.
  The error is left to the next property.
- `ErrorIsShown`: `getState` shows next the error, with its cause, node and step, that
  a failed call returned.
- `FailuresReturned`: a failure of a run that has begun is returned as its result,
  unless the checkpointer fails.
- `InterruptsAnswerable`: every interrupt of a paused thread matches exactly one
  pending task, so a resume command can be delivered. In `run_async` and `run_exit`
  this says that answered interrupts are forgotten and unanswered ones stay listed;
  nothing routes to a node that asks, so the collision of `interrupt_collision`
  cannot arise there.
- `CheckpointIdsFresh`: a run never finds the id of its next checkpoint taken, be it
  that of a failure, of a merged super-step or of a task-level checkpoint. `run_sync`
  shows it for the faults that do not fail a run after it has stored its own step;
  the three that do are in section 5.
- `ThreadCompletes`: a caller that answers and resumes finishes the thread.
- `LatestIsCurrent`: what `getTuple` returns was stored during the call and is not
  older than anything that was stored all through it. The latest pointer may be
  missing, behind, or name a removed checkpoint.
- `AcknowledgedPutsStay`: a checkpoint whose put has returned stays as it was put, with
  all its pending writes, until a prune or a deletion takes some of it; another put
  under its id is refused and damages nothing.
- `PruneKeepsNewest`: a checkpoint that a prune listed and removes leaves a newer one
  of its place stored, whatever other prunes do from other listings. The newer one
  may be missing only if, while prunes were under way, a deletion took it or a prune
  that had listed another checkpoint under its id.
- `DeletionComplete`: a `deleteThread` that succeeds leaves no checkpoint and no write
  that stayed, also when an earlier one stopped half way. It says nothing of pointers.
- `CopyShowsSource`: a copy that runs alone shows at the target every checkpoint the
  source shows, with the same pending writes, also when the source was left half
  written; what else the target holds is not its business.
- `PendingWritesComplete`: a tuple carries all pending writes of its checkpoint.
- `LatestIsNotSuperseded`: the checkpoint shown as the latest is not the parent of
  one that was stored all through the call.

Bounds. Two faults are enough for a fault to hit the run that recovers from the
first. Three nodes on two levels give a super-step with two or three tasks and a
successor whose input depends on the merge. Two handler values, in `run_sync`, tell a kept
write from a recomputed one; the other runs use one. `MaxRuns` bounds only resumes that cannot make progress (of a finished
thread, or with a command nobody asked for), `MaxPauses` how often a handler asks
again after it was answered; `MaxInvokes` is 1, see section 5. A `MaxSteps` of 1 on
graphs of two levels exhausts the budget in `run_async` and `run_exit`. `saver` starts
with a task-level and a merged checkpoint, so three calls are enough for a prune
beside a put and another prune, with different and non-empty listings, for a deletion
and a put of a listed id in the middle of a prune, and for two deletions, or a
deletion and a reader, to run against each other: about 480,000 distinct states. The
callers are symmetric, and no property of the run is a liveness property, so symmetry
is sound.

Fairness (`FairSpec`). `WF(RunStep)`: a run is a sequential function, and its handlers
return. `WF(Invoke)` and `WF(Retry)`: the caller, who is part of the assumption and not
of the code, makes its first call and resumes a thread that has tasks left,
answering it when it is paused. Faults are not fair, and bounded.

## 4. Proofs

`GraphRun_proofs` proves, for every graph, every durability, every set of fault
kinds and every bound:

- `TypeCorrect`: `Spec => []TypeOK`;
- `NoTaskRunsTwice`: `Spec => []FinishedTasksStayFinished`.

The second is not inductive: a failed super-step keeps the writes of the executions
that did not fail and lists the tasks of those that did, which are apart only if a
task has one execution, and only of a listed task. The inductive invariant `IInv`
therefore adds to the types that execution records belong to listed tasks (`Executed
\subseteq next`), that a task has at most one, that a super-step under way has
tasks, that all lists are finite (checkpoint ids contain their cardinality), that
pending writes come with tasks to run, and that the same holds of every stored
checkpoint. There is one lemma per action, and lemmas for the parts actions share
(`PutInv`, `FailingInv`, `FailInv`, `ReturnInv`, `EnterInv`). The assumptions are
`TasksAssumption` (finitely many nodes and Send arguments, routes lead to nodes) and
`GraphRunAssumption` (types of the parameters); every TLC run evaluates them.

`Tasks_proofs` holds the facts about lists: a non-empty list has a first task,
listings and routings are finite and well typed.

`StorageSaver_proofs` proves, for any callers, places, checkpoints, requests and
bounds:

- `LatestCorrect`: `Spec => []LatestIsCurrent`;
- `PutCorrect`: `Spec => []AcknowledgedPutsStay`;
- `DeletionCorrect`: `Spec => []DeletionComplete`;
- `PruneCorrect`: `Spec => PruneKeepsNewest`.

The inductive invariant `Inv` says where a call of each kind can be and which
locals are set there (`StageInv`); that a reader has seen what it holds, and after
the scan holds nothing older than what stayed (`ReadInv`); that a deletion still has
on its list whatever stayed (`DeleteInv`); that a key holds one checkpoint
(`OneCheckpointPerId`); that a put whose checkpoint nobody touched has stored it and
all writes but those it still has to (`AckInv`); and that everything a prune has still on
its list has a newer checkpoint in its place, stored or erased (`PruneInv`).

`AckInv` gives `PutCorrect`: only a removal under the key of an acknowledged
checkpoint touches it, and then it is no longer acknowledged, while a put under that
key is refused (`KeptUnlessTaken`, `PutGoesOn`). `PruneInv` is the heart of
`PruneCorrect`: it survives another prune's removal because a removed checkpoint that
was listed had a newer one itself, and one that was not listed is erased (`RemovesOne`,
`CoverKept`); that a key holds one checkpoint says which of the two it is. A step of
one call disturbs no other, because what a call may have seen only grows and what
stayed only shrinks (`Bystander`). That a finite listing has a newest checkpoint
(`NewestInList`) follows from a least number of newer ones.

The assumption is `StorageSaverAssumption`: types, and that `Found` is finite and holds
one checkpoint per key. Nothing is assumed about checkpoints that are put under one
id. `StorageSaver_types` holds the order of checkpoints and the proof that every step
keeps types and stages, one lemma per group of actions; `StorageSaver_calls` the calls
that read and those that delete.

Only model-checked: `RecoverySafe`, `ResultMatchesThread`, `InterruptsAnswerable`,
`CheckpointIdsFresh`, `CopyShowsSource` (safety, planned), and `ThreadCompletes`
(liveness under fairness is out of the prover's reach).

## 5. Where the code departs from its documents

`docs/PERSISTENCE_MODEL.md` section 4 promises that after a partial failure the
successful writes are kept as pending writes, only failed or unfinished tasks run
again, and the super-step is merged once. The passing runs show that this holds for
handler failures, cancellation, restarts, refused checkpoints and, in `run_async`,
an exhausted budget, rejected starts and refused start events. It does not hold for
five error paths, each a fault kind that the `RecoverySafe` runs leave out; adding
it to `Faults` of `BadWrite.cfg` reproduces the trace:

| Kind | Place | What happens |
| --- | --- | --- |
| `badWrite` (run `bad_write`) | `graph_run.cpp:1486` | siblings that finished are neither pending nor listed: their updates are lost |
| `emitNode` | `graph_run.cpp:1429` | likewise, for the tasks not yet reported in a failed super-step |
| `apply` | `graph_run.cpp:1513` | the half merged state is stored with all tasks listed |
| `router` (run `router_failure`) | `graph_run.cpp:1615` | the merged state is stored with all tasks listed: every write is merged again |
| `emitEnd` | `graph_run.cpp:1633` | the merged state is stored with the first task listed |

Two more departures concern what "latest" means. With `MaxInvokes = 2` a second
`invoke` on a thread starts at step 0 again, and a shorter second run stays behind
the first. And a resume that fails before its first super-step stores its failure at
the step it starts from, which is one behind the checkpoint it resumed if that has
pending writes: `shadowed_error` (`graph_run.cpp:1210`) shows the call return one error
and `getState` another. The two checkpoints agree on super-steps and interrupts,
since the checkpoint of a pause has no pending writes.

Three failures follow a checkpoint with the id that `failRun` computes, so that the
put is refused and the call returns AlreadyExists instead of a failed `RunResult`:

- the state schema rejects the input of a new run, after its initial checkpoint
  (run `start_failure`, `graph_run.cpp:1287`);
- a resumed subgraph node passes a Command, and the child has several start tasks
  (`AllowParent = TRUE`, `graph_run.cpp:1232`; the same holds of a Command given to
  `invoke`);
- InterruptRequested is refused after the checkpoint of the pause (fault kind
  `emitAsked`, `graph_run.cpp:1605`).

`docs/API_CONTRACT.md` section 2 promises a failed result for the first two, section 3
for the third. The thread itself is sound after each of them: `run_async` contains all
three, and `RecoverySafe` holds.

An interrupted task keeps its order, and a task routed by a sibling takes its index:
`interrupt_collision` needs only START to a and b, and an edge from a to b, where b
asks. No resume can answer the thread from then on.

In the saver two things depart from what a thread is promised:

- `torn_writes` (`storage_saver.cpp:361`): the writes stored under keys of their own
  are preferred to those inside the checkpoint as soon as there is one of them, and
  they are stored one by one. `InMemorySaver` prefers the checkpoint's own.
- `stale_latest` (`checkpointer.cpp:112`): under Sync durability `run-step-N-writes-K` and
  `run-step-N` have one step; in one millisecond the order of the strings decides,
  and the task-level checkpoint wins over the merged one, whatever the pointer says.

Two more are only hazards, which take a repeated run id (run `restarted_ids`) to
reach. Writes that outlive their checkpoint are adopted by a later checkpoint with the
same id. And a prune removes by key (`storage_saver.cpp:577`): when a deletion has taken
a listed checkpoint and another process puts one under its id, the prune removes that
too, be it the newest. `saver` reaches this; `PruneKeepsNewest` does not forbid it.

## 6. What is not modelled, and the plan

Left out of `GraphRun`: the content of `Command.update` and the shape of the resume
payload (that they are rejected is modelled), validation before a run has an id, a
failing START router (the call returns an error and nothing is stored), task ids,
event payloads, wall-clock limits. Left out of `StorageSaver`: listings of several
pages, filtered and delta queries, encoding errors.

Planned, in this order:

1. Savers: `StorageSaver` refining the saver that `GraphRun` assumes when calls do not
   overlap; listings that take several pages.
2. Thread history: replay and updateState on top of `GraphRun`.
3. Task attempts: retries, the timeout watch, the parent's cancellation.
4. Subgraph composition: a parent run and its child, paused and resumed.
5. Bounded and unbuffered channels with close and cancellation; event streams.
6. Executors, thread pool, scheduler, queued event sink: submission against close.
7. Rate limiter, circuit breaker, caches, stores, lifecycle.

Proofs to follow: the refinement of `SuperStep` under the fault kinds that respect
it, and the safety of the modules above.
