------------------------------ MODULE GraphRun ------------------------------
(***************************************************************************)
(* A graph run over one thread and one checkpoint namespace: invoke,       *)
(* resume, the super-step loop of GraphRun::run with its failure paths,    *)
(* the checkpoints it writes, cancellation, and the end of the process at  *)
(* any point.  The checkpointer is the map of a saver: put is one step.    *)
(***************************************************************************)
EXTENDS Tasks

CONSTANTS Durability,       \* "Sync", "Async" or "Exit"
          MaxConcurrency,   \* tasks dispatched together
          MaxSteps,         \* ResourceLimits::maxSteps_ of a run
          AllowParent,      \* TRUE for a run started by invokeSubgraph
          GeneratedIds,     \* TRUE when run ids come from generatedId
          Commands,         \* per node, the Commands its handler may return
          Interrupting,     \* nodes whose handler may ask for an interrupt
          Faults,           \* the kinds of fault that may occur
          MaxFaults,        \* bound: faults in one behaviour
          MaxInvokes,       \* bound: calls of invoke
          MaxRuns,          \* bound: resumes that cannot make progress
          MaxPauses         \* bound: pauses after which an answered handler asks again

FaultKinds ==
  {"handler",    \* a handler fails (or times out, or is never submitted)
   "badWrite",   \* an output that writeFromExecution rejects
   "cancel",     \* the run's cancellation token is cancelled
   "restart",    \* the process ends and starts again
   "put",        \* the checkpointer refuses a checkpoint
   "schema",     \* what a run starts from is rejected: the state, or a Command's update or answer
   "emitStart",  \* RunStarted or NodeStarted is not accepted
   "emitNode",   \* NodeCompleted is not accepted
   "emitStored", \* CheckpointCreated is not accepted
   "emitAsked",  \* InterruptRequested is not accepted
   "emitEnd",    \* RunCompleted is not accepted, or the output schema fails
   "apply",      \* a reducer, the state schema or StateUpdated fails
   "router"}     \* a router fails or names an unknown node

ASSUME GraphRunAssumption ==
  /\ Durability \in {"Sync", "Async", "Exit"}
  /\ MaxConcurrency \in Nat \ {0}
  /\ MaxSteps \in Nat \ {0}
  /\ AllowParent \in BOOLEAN
  /\ GeneratedIds \in BOOLEAN
  /\ Commands \in [Nodes -> SUBSET Command]
  /\ Interrupting \subseteq Nodes
  /\ Faults \subseteq FaultKinds
  /\ MaxFaults \in Nat
  /\ MaxInvokes \in Nat
  /\ MaxRuns \in Nat
  /\ MaxPauses \in Nat

VARIABLES
  store,      \* the thread's checkpoints, in the order they were put
  pc,         \* "idle", or where the run is
  runId,      \* result_.runId_
  ids,        \* the counter of generatedId
  step,       \* result_.step_
  st,         \* result_.state_
  next,       \* nextTasks; activeTasks while a super-step is under way
  pending,    \* pendingWrites
  execs,      \* executions collected so far
  writes,     \* writes
  used,       \* steps consumed from the ExecutionBudget
  cancelled,  \* the cancellation token
  resumed,    \* the tasks of resumeValuesByTask_
  result,     \* how the last call returned, or "running"
  answer,     \* the state the last call returned
  faults,     \* faults so far
  invokes     \* calls of invoke so far

thread == <<store, ids, faults, invokes>>
volatile == <<pc, runId, step, st, next, pending, execs, writes, used, cancelled, resumed, result, answer>>
vars == <<thread, volatile>>

(* A state: the super-steps merged into it and, while the thread is paused *)
(* or failed, the metadata of the interrupts and of the error.             *)
EmptyState == [log |-> <<>>, intr |-> {}, err |-> {}]

(* The code and message of an error, taken together. *)
Causes == {"event", "cancelled", "maxSteps", "handler", "command", "answer", "schema", "write", "merge", "route"}

Error == [cause : Causes, node : SUBSET Nodes, step : Nat]

withRunErrorMetadata(state, cause, node, s) ==
  [state EXCEPT !.err = {[cause |-> cause, node |-> node, step |-> s]}]

withoutRunErrorMetadata(state) == [state EXCEPT !.err = {}]

runStatusFromStatus(cause) == IF cause \in {"cancelled", "maxSteps"} THEN cause ELSE "failed"

(* What executeTask may return for task t. *)
AnyVal == CHOOSE v \in Vals : TRUE

Outputs(t, kind) ==
  [task : {t}, kind : {kind}, val : IF kind = "ok" THEN Vals ELSE {AnyVal},
   cmd : IF kind = "ok" THEN Commands[t.node] ELSE {NoCommand}]

Fault(kind) ==
  /\ kind \in Faults
  /\ faults < MaxFaults
  /\ faults' = faults + 1

NoFault == UNCHANGED faults

-----------------------------------------------------------------------------
(* Checkpoints *)

StepId(r, s, source, pend) == <<r, s, 0>>

(* <run>-step-<n>, or <run>-step-<n>-writes-<k>. *)
CheckpointId(r, s, source, pend) ==
  <<r, s, IF source = "task_writes" THEN Cardinality(pend) ELSE 0>>

Stored(id) == \E i \in DOMAIN store : store[i].id = id

OldestOfStep ==
  store[CHOOSE i \in DOMAIN store : \A j \in DOMAIN store :
          \/ store[j].step < store[i].step
          \/ store[j].step = store[i].step /\ j >= i]

(* The newest checkpoint: the highest step, then the last one put. *)
Latest ==
  store[CHOOSE i \in DOMAIN store : \A j \in DOMAIN store :
          \/ store[j].step < store[i].step
          \/ store[j].step = store[i].step /\ j <= i]

(* Exit durability keeps the initial and the terminal checkpoints only. *)
ShouldStore(source, terminal) == Durability # "Exit" \/ source = "initial" \/ terminal

Put(r, s, state, nx, pend, source) ==
  LET id == CheckpointId(r, s, source, pend)
  IN  /\ ~Stored(id)
      /\ store' = Append(store, [id |-> id, step |-> s, state |-> state, next |-> nx,
                                 pending |-> pend, source |-> source])

(* The call returns how, with the given state: the run object is gone, and *)
(* only what was put survives.                                             *)
Return(how, state) ==
  /\ pc' = "idle"
  /\ result' = how
  /\ answer' = state
  /\ runId' = 0 /\ step' = 0 /\ st' = EmptyState
  /\ next' = {} /\ pending' = {} /\ execs' = {} /\ writes' = {}
  /\ used' = 0 /\ cancelled' = FALSE /\ resumed' = {}

(* A put that fails makes the call return that error. *)
PutFails(r, s, source, pend) ==
  /\ \/ Stored(CheckpointId(r, s, source, pend)) /\ NoFault
     \/ Fault("put")
  /\ UNCHANGED store
  /\ Return("error", EmptyState)

(* putCheckpoint, then Continue, which accounts for its own faults.  A     *)
(* checkpoint may be stored and the call still return an error, when the   *)
(* event that announces it is refused.                                     *)
PutThen(r, s, state, nx, pend, source, terminal, Continue) ==
  \/ /\ ~ShouldStore(source, terminal)
     /\ UNCHANGED store /\ Continue
  \/ /\ ShouldStore(source, terminal)
     /\ \/ PutFails(r, s, source, pend)
        \/ /\ Put(r, s, state, nx, pend, source)
           /\ \/ Continue
              \/ Fault("emitStored") /\ Return("error", EmptyState)

(* A failing node without a task to run again is listed itself. *)
FallbackTask(node) == [pos |-> 1, order |-> 0, node |-> node, arg |-> NoArg]

(* The first half of failRun: what the failure checkpoint will hold.       *)
(* Without a task to run again the failing node itself is listed.          *)
Failing(r, s, state, failNext, pend, node, cause) ==
  /\ pc' = "fail"
  /\ runId' = r /\ step' = s
  /\ st' = withRunErrorMetadata(state, cause, node, s)
  /\ next' = IF failNext = {} THEN {FallbackTask(n) : n \in node} ELSE failNext
  /\ pending' = pend
  /\ result' = runStatusFromStatus(cause)
  /\ execs' = {} /\ writes' = {} /\ resumed' = {}
  /\ UNCHANGED <<used, cancelled>>
  /\ answer' = EmptyState

FailForgetting(r, s, state, failNext, pend, node, cause) ==
  UNCHANGED store /\ Failing(r, s, state, failNext, {}, node, cause)

(* A failure of a step that has put no checkpoint. *)
Fail(r, s, state, failNext, pend, node, cause) ==
  UNCHANGED store /\ Failing(r, s, state, failNext, pend, node, cause)

(* The second half: the checkpoint is put and the call returns.  The       *)
(* checkpointer may take the checkpoint and refuse its pending writes.     *)
FailRun ==
  /\ pc = "fail"
  /\ \/ PutFails(runId, step, "failure", pending)
     \/ /\ Put(runId, step, st, next, pending, "failure")
        /\ \/ NoFault /\ Return(result, st)
           \/ pending # {} /\ Fault("put") /\ Return("error", EmptyState)
  /\ UNCHANGED <<ids, invokes>>

-----------------------------------------------------------------------------
(* The start of a run *)

Enter(r, s, state, nx, pend, res) ==
  /\ pc' = "loop"
  /\ runId' = r /\ step' = s /\ st' = state
  /\ next' = nx /\ pending' = pend /\ resumed' = res
  /\ execs' = {} /\ writes' = {} /\ used' = 0 /\ cancelled' = FALSE
  /\ result' = "running" /\ answer' = EmptyState

(* The start of a new run.  The node of a subgraph that is resumed passes  *)
(* its resume value to invokeSubgraph as a Command, which is taken if one  *)
(* task is listed.  What is rejected after the initial checkpoint fails at *)
(* its step, 0.                                                            *)
Invoke ==
  /\ pc = "idle"
  /\ invokes < MaxInvokes \/ store = <<>>
  /\ invokes' = invokes + 1
  /\ ids' = ids + 1
  /\ \E nx \in StartLists, command \in {FALSE, AllowParent} :
       LET taken == command => Cardinality(nx) = 1
           rejected(cause) == Failing(ids, 0, EmptyState, nx, {}, {}, cause)
       IN \/ /\ Fault("emitStart")
             /\ Fail(ids, 0, EmptyState, nx, {}, {}, "event")
          \/ PutThen(ids, 0, EmptyState, nx, {}, "initial", FALSE,
               \/ taken /\ NoFault /\ Enter(ids, 0, EmptyState, nx, {}, IF command THEN nx ELSE {})
               \/ taken /\ Fault("schema") /\ rejected("schema")
               \/ ~taken /\ NoFault /\ rejected("command"))

StepBefore(c) == IF c.next # {} THEN c.step - 1 ELSE c.step

(* A checkpoint that holds writes of an unfinished super-step belongs to   *)
(* the step before it: the super-step is run under the same number again.  *)
replayStartStep(c) ==
  IF c.pending # {} /\ c.next # {} /\ c.step > 0 THEN c.step - 1 ELSE c.step

(* The pending tasks an interrupt's resume value may be meant for. *)
Matches(m, nx) == {t \in nx : t.node = m.node /\ t.order = m.order}

StillAsking(state) == state

(* A Command answers the interrupts of the thread, and they are forgotten. *)
Answered(state) == [state EXCEPT !.intr = {}]

(* GraphRun::run up to its loop, for a run that continues a checkpoint.    *)
(* With a Command each interrupt is matched to a task and given its value  *)
(* in turn; without interrupts the Command is for the only task listed.    *)
RunFrom(c, s, command) ==
  LET cleaned == withoutRunErrorMetadata(c.state)
      begun == IF command THEN Answered(cleaned) ELSE cleaned
      unmatched == {m \in c.state.intr : Cardinality(Matches(m, c.next)) # 1}
      taken == command => unmatched = {} /\ (c.state.intr = {} => Cardinality(c.next) = 1)
      addressed == IF c.state.intr = {} THEN c.next ELSE UNION {Matches(m, c.next) : m \in c.state.intr}
      rejected(state, node, cause) == Fail(ids, s, state, c.next, c.pending, node, cause)
  IN \/ Fault("emitStart") /\ rejected(c.state, {}, "event")
     \/ /\ taken /\ NoFault /\ UNCHANGED store
        /\ Enter(ids, s, begun, c.next, c.pending, IF command THEN addressed ELSE {})
     \/ taken /\ Fault("schema") /\ rejected(begun, {}, "schema")
     \/ /\ ~taken /\ NoFault
        /\ rejected(cleaned, IF unmatched = {} THEN {} ELSE {First(unmatched).node}, "command")
     \/ /\ command /\ Fault("schema")
        /\ \E m \in c.state.intr :
             /\ \A u \in unmatched : m.pos < u.pos
             /\ rejected(cleaned, {m.node}, "answer")

HealthyOnly(c, command) == c.state.err = {} /\ (command \/ c.state.intr = {})

(* An interrupted thread needs a Command, and is refused without. *)
Resumable(c, command) == command \/ c.state.intr = {} \/ c.next = {}

Resume(command) ==
  /\ pc = "idle"
  /\ store # <<>>
  /\ ids <= MaxRuns \/ (Latest.next # {} /\ command = (Latest.state.intr # {}))
  /\ Resumable(Latest, command)
  /\ RunFrom(Latest, replayStartStep(Latest), command)
  /\ ids' = ids + 1
  /\ UNCHANGED invokes

-----------------------------------------------------------------------------
(* The super-step loop *)

(* Nothing left to do: the run completes without another checkpoint. *)
Finish ==
  /\ pc = "loop"
  /\ next = {}
  /\ \/ NoFault /\ UNCHANGED store /\ Return("completed", st)
     \/ Fault("emitEnd") /\ Fail(runId, step, st, {}, {}, {}, "event")
  /\ UNCHANGED <<ids, invokes>>

BudgetLeft == used < MaxSteps

(* The checks before the handlers run: cancellation, budget, NodeStarted. *)
BeginStep ==
  LET refused(node, cause) == Fail(runId, step + 1, st, next, pending, {node}, cause) IN
  /\ pc = "loop"
  /\ next # {}
  /\ \/ cancelled /\ NoFault /\ refused(First(next).node, "cancelled")
     \/ ~cancelled /\ ~BudgetLeft /\ NoFault /\ refused(First(next).node, "maxSteps")
     \/ ~cancelled /\ BudgetLeft /\ Fault("emitStart") /\ \E t \in next : refused(t.node, "event")
     \/ /\ ~cancelled /\ BudgetLeft /\ NoFault
        /\ pc' = "exec"
        /\ used' = used + 1
        /\ UNCHANGED <<store, runId, step, st, next, pending, execs, writes, cancelled, resumed, result, answer>>
  /\ UNCHANGED <<ids, invokes>>

(* The batch of a task: MaxConcurrency tasks are dispatched together. *)
Batch(t) == Cardinality(Before(t, next)) \div MaxConcurrency

Executed == {e.task : e \in execs}

(* Only a run begun by invokeSubgraph may command its parent, not one that *)
(* continues a checkpoint.                                                 *)
allowParentCommand ==
  AllowParent /\ \E i \in DOMAIN store : store[i].source = "initial" /\ store[i].id[1] = runId

(* A handler may ask again after its question was answered. *)
MayAsk(t) ==
  /\ t.node \in Interrupting
  /\ t \notin resumed \/ Cardinality({i \in DOMAIN store : store[i].source = "interrupt"}) < MaxPauses

(* executeTask, its attempts taken together: the output of the handler or  *)
(* of the error handler, an interrupt, a failure, a cancellation, or an    *)
(* output that cannot be turned into a write.  A parent command that will  *)
(* be rejected counts as a fault of the handler.                           *)
ExecuteTask(t) ==
  /\ pc = "exec"
  /\ t \in next \ Executed
  /\ \A u \in next : Batch(u) < Batch(t) => u \in Executed
  /\ \E kind \in {"ok", "interrupt", "fail", "cancelled", "bad"} :
       /\ kind = "interrupt" => MayAsk(t)
       /\ kind = "cancelled" => cancelled
       /\ \E e \in Outputs(t, kind) :
            /\ execs' = execs \cup {e}
            /\ CASE kind = "fail" \/ (e.cmd = ToParent /\ ~allowParentCommand) -> Fault("handler")
                 [] kind = "bad" -> Fault("badWrite")
                 [] OTHER        -> NoFault
  /\ UNCHANGED <<store, ids, invokes, pc, runId, step, st, next, pending, writes, used, cancelled, resumed, result, answer>>

FirstOf(es) == CHOOSE e \in es : e.task = First({f.task : f \in es})

Parents == {e \in execs : e.cmd = ToParent}

Interrupts == {e \in execs : e.kind = "interrupt"}

HandlerFailures == {e \in execs : e.kind \in {"fail", "cancelled"}}

(* Parent commands at the root, and all but the first of several. *)
RejectedParents == {e \in Parents : ~allowParentCommand \/ e # FirstOf(Parents)}

(* The executions the step rejects: failed handlers, rejected parent       *)
(* commands, and one that is combined with an interrupt.                   *)
Failures ==
  HandlerFailures \cup RejectedParents \cup (IF Interrupts # {} THEN Parents ELSE {})

(* failedIndexes.front(), whose status is the status of the run *)
FirstFailure ==
  FirstOf(IF HandlerFailures # {} THEN HandlerFailures
          ELSE IF RejectedParents # {} THEN RejectedParents ELSE Parents)

FailureCause ==
  CASE FirstFailure.kind = "cancelled" -> "cancelled"
    [] FirstFailure.kind = "fail"      -> "handler"
    [] OTHER                           -> "command"

WriteOfLateState(e) == [task |-> e.task, in |-> Len(st.log), val |-> e.val, cmd |-> e.cmd]

(* writeFromExecution *)
WriteOf(e) == [task |-> e.task, in |-> Snapshot(e.task, st.log), val |-> e.val, cmd |-> e.cmd]

RunAllAgain == Executed

(* The tasks a failed super-step leaves to be run again. *)
failureNext == {e.task : e \in Failures}

(* Some task failed: the writes of the others are kept as pending, unless  *)
(* one of them cannot be reported or turned into a write, and unless a     *)
(* task asked for an interrupt; then the whole super-step is run again.    *)
FailStep ==
  LET good == execs \ Failures
      bad  == {e \in good : e.kind = "bad"}
      kept(es) == pending \cup {WriteOf(e) : e \in es}
      ahead(e) == {g \in good : g.task.pos < e.task.pos}
      left(again, pend, e, cause) == Fail(runId, step + 1, st, again, pend, {e.task.node}, cause)
  IN  /\ pc = "exec"
      /\ Executed = next
      /\ Failures # {}
      /\ \/ /\ Interrupts # {} /\ NoFault
            /\ left(next, pending, FirstFailure, FailureCause)
         \/ /\ Interrupts = {} /\ bad = {} /\ NoFault
            /\ left(failureNext, kept(good), FirstFailure, FailureCause)
         \/ /\ Interrupts = {} /\ bad # {} /\ NoFault
            /\ left({FirstOf(bad).task}, kept(ahead(FirstOf(bad))), FirstOf(bad), "write")
         \/ /\ Interrupts = {} /\ Fault("emitNode")
            /\ \E e \in good :
                 /\ \A b \in bad : e.task.pos <= b.task.pos
                 /\ left(failureNext, kept(ahead(e)), e, "event")
      /\ UNCHANGED <<ids, invokes>>

(* Every task succeeded or asked for an interrupt. *)
CompleteNodes ==
  /\ pc = "exec"
  /\ Executed = next
  /\ Failures = {}
  /\ \/ /\ Fault("emitNode")
        /\ \E e \in execs \ Interrupts : Fail(runId, step + 1, st, next, pending, {e.task.node}, "event")
     \/ /\ NoFault
        /\ pc' = "writes"
        /\ writes' = pending
        /\ UNCHANGED <<store, runId, step, st, next, pending, execs, used, cancelled, resumed, result, answer>>
  /\ UNCHANGED <<ids, invokes>>

Unwritten == {e \in execs : e.task \notin TasksOf(writes)}

(* The next execution becomes a write.  Sync durability puts a checkpoint  *)
(* after each but the last: the writes so far, and the tasks to follow.    *)
CollectWrite ==
  LET e == FirstOf(Unwritten)
      collected == writes \cup {WriteOf(e)}
      remaining == {f.task : f \in Unwritten \ {e}}
      Continue == /\ NoFault
                  /\ writes' = collected
                  /\ UNCHANGED <<pc, runId, step, st, next, pending, execs, used, cancelled, resumed, result, answer>>
  IN  /\ pc = "writes"
      /\ Unwritten # {}
      /\ IF e.kind = "bad"
         THEN NoFault /\ Fail(runId, step + 1, st, {e.task}, pending, {e.task.node}, "write")
         ELSE IF Durability = "Sync" /\ Interrupts = {} /\ Parents = {} /\ remaining # {}
         THEN PutThen(runId, step + 1, st, remaining, collected, "task_writes", FALSE, Continue)
         ELSE UNCHANGED store /\ Continue
      /\ UNCHANGED <<ids, invokes>>

(* The state with the writes of ws applied in one go. *)
Merged(ws) == IF ws = {} THEN st ELSE [st EXCEPT !.log = Append(@, ws)]

Merging == pc = "writes" /\ Unwritten = {}

(* The write w cannot be applied, validated or reported: the ones sorted   *)
(* before it are in the state, and w itself unless its update failed.      *)
MergeFails ==
  /\ Merging
  /\ Fault("apply")
  /\ \E w \in writes, ws \in SUBSET writes :
       /\ \A v \in ws \ {w} : v.task.order <= w.task.order
       /\ \A v \in writes \ (ws \cup {w}) : w.task.order <= v.task.order
       /\ Fail(runId, step + 1, Merged(ws), next, pending, {w.task.node}, "merge")
  /\ UNCHANGED <<ids, invokes>>

(* A subgraph node returned a command for the parent: the run is over. *)
MergeAndLeave ==
  /\ Merging
  /\ Parents # {}
  /\ \/ /\ Fault("emitEnd")
        /\ Fail(runId, step + 1, Merged(writes), {}, {}, {FirstOf(Parents).task.node}, "event")
     \/ PutThen(runId, step + 1, Merged(writes), {}, {}, "parent_command", TRUE,
                NoFault /\ Return("completed", Merged(writes)))
  /\ UNCHANGED <<ids, invokes>>

(* Interrupted tasks are recognised by node and order. *)
IsInterruptedWrite(w) ==
  \E e \in Interrupts : e.task.node = w.task.node /\ e.task.order = w.task.order

(* The thread pauses: the interrupted tasks stay, in front of the tasks    *)
(* the completed ones route to.  When InterruptRequested is refused the    *)
(* run fails, after the checkpoint of the pause is stored.                 *)
MergeAndPause ==
  LET paused == {e.task : e \in Interrupts}
      completed == {w \in writes : ~IsInterruptedWrite(w)}
  IN  /\ Merging
      /\ Interrupts # {}
      /\ \/ /\ Fault("router")
            /\ \E w \in completed : Fail(runId, step + 1, Merged(writes), next, {}, {w.task.node}, "route")
         \/ \E goto \in Routings(completed) :
              LET state == [Merged(writes) EXCEPT !.intr = paused]
                  nx == Listing(paused, Routed(goto))
              IN  PutThen(runId, step + 1, state, nx, {}, "interrupt", TRUE,
                    \/ NoFault /\ Return("paused", state)
                    \/ /\ Fault("emitAsked")
                       /\ \E t \in paused : Failing(runId, step + 1, state, nx, {}, {t.node}, "event"))
      /\ UNCHANGED <<ids, invokes>>

(* The super-step is complete: merge, route, checkpoint. *)
MergeAndRoute ==
  /\ Merging
  /\ Interrupts = {}
  /\ Parents = {}
  /\ \/ /\ Fault("router")
        /\ \E w \in writes : Fail(runId, step + 1, Merged(writes), next, {}, {w.task.node}, "route")
     \/ \E goto \in Routings(writes) :
          LET nx == Listing({}, Routed(goto))
          IN  \/ /\ nx = {} /\ Fault("emitEnd")
                 /\ Fail(runId, step + 1, Merged(writes), {}, {}, {First(next).node}, "event")
              \/ /\ nx = {}
                 /\ PutThen(runId, step + 1, Merged(writes), nx, {}, "completion", TRUE,
                            NoFault /\ Return("completed", Merged(writes)))
              \/ /\ nx # {}
                 /\ PutThen(runId, step + 1, Merged(writes), nx, {}, "step", FALSE,
                      /\ NoFault
                      /\ pc' = "loop"
                      /\ step' = step + 1 /\ st' = Merged(writes) /\ next' = nx
                      /\ pending' = {} /\ execs' = {} /\ writes' = {} /\ resumed' = {}
                      /\ UNCHANGED <<runId, used, cancelled, result, answer>>)
  /\ UNCHANGED <<ids, invokes>>

-----------------------------------------------------------------------------
(* The environment *)

Cancel ==
  /\ pc \in {"loop", "exec"}
  /\ ~cancelled
  /\ Fault("cancel")
  /\ cancelled' = TRUE
  /\ UNCHANGED <<store, ids, invokes, pc, runId, step, st, next, pending, execs, writes, used, resumed, result, answer>>

(* The process ends; the counter of generatedId starts again with it. *)
Restart ==
  /\ Fault("restart")
  /\ ids' = IF GeneratedIds THEN 1 ELSE ids
  /\ Return("none", EmptyState)
  /\ UNCHANGED <<store, invokes>>

Init ==
  /\ store = <<>> /\ ids = 1 /\ faults = 0 /\ invokes = 0
  /\ pc = "idle" /\ runId = 0 /\ step = 0 /\ st = EmptyState
  /\ next = {} /\ pending = {} /\ execs = {} /\ writes = {}
  /\ used = 0 /\ cancelled = FALSE /\ resumed = {} /\ result = "none" /\ answer = EmptyState

RunStep ==
  \/ Finish \/ BeginStep
  \/ \E t \in next : ExecuteTask(t)
  \/ FailStep \/ CompleteNodes \/ CollectWrite
  \/ MergeFails \/ MergeAndLeave \/ MergeAndPause \/ MergeAndRoute
  \/ FailRun

Next == Invoke \/ (\E command \in BOOLEAN : Resume(command)) \/ RunStep \/ Cancel \/ Restart

Spec == Init /\ [][Next]_vars

(* A caller that answers every interrupt and resumes until nothing is left. *)
Retry ==
  /\ store # <<>>
  /\ Latest.next # {}
  /\ Resume(Latest.state.intr # {})

FairSpec == Spec /\ WF_vars(RunStep) /\ WF_vars(Invoke) /\ WF_vars(Retry)

-----------------------------------------------------------------------------
(* Properties *)

State == [log : Seq(SUBSET Write), intr : SUBSET Task, err : SUBSET Error]

Checkpoint ==
  [id : Nat \X Nat \X Nat, step : Nat, state : State, next : SUBSET Task, pending : SUBSET Write,
   source : {"initial", "task_writes", "step", "interrupt", "completion", "parent_command", "failure"}]

Exec == [task : Task, kind : {"ok", "interrupt", "fail", "cancelled", "bad"}, val : Vals, cmd : Command]

(* The type of the run's variables and of the checkpoints it stores. *)
TypeOK ==
  /\ store \in Seq(Checkpoint)
  /\ pc \in {"idle", "loop", "exec", "writes", "fail"}
  /\ runId \in Nat /\ ids \in Nat /\ step \in Nat /\ used \in Nat
  /\ faults \in Nat /\ invokes \in Nat
  /\ st \in State /\ answer \in State
  /\ next \in SUBSET Task /\ pending \in SUBSET Write
  /\ execs \in SUBSET Exec /\ writes \in SUBSET Write
  /\ cancelled \in BOOLEAN /\ resumed \in SUBSET Task
  /\ result \in {"none", "running", "completed", "paused", "failed", "cancelled", "maxSteps", "error"}

(* The thread as its latest checkpoint shows it. *)
Shown == IF store = <<>> THEN [state |-> EmptyState, next |-> {}, pending |-> {}] ELSE Latest

(* A task whose write is known is not run again: no checkpoint lists a     *)
(* task next to its write, and no run has both.                            *)
FinishedTasksStayFinished ==
  /\ \A i \in DOMAIN store : store[i].next \cap TasksOf(store[i].pending) = {}
  /\ next \cap TasksOf(pending) = {}

(* A run never finds the id of the checkpoint it is about to put taken:    *)
(* not that of a failure, of a merged super-step, or of the writes of some *)
(* tasks, which carries their number (putCheckpoint).                      *)
CheckpointIdsFresh ==
  /\ pc = "fail" => ~Stored(CheckpointId(runId, step, "failure", pending))
  /\ Merging => ~Stored(CheckpointId(runId, step + 1, "step", {}))
  /\ pc = "writes" /\ Durability = "Sync" /\ Cardinality(Unwritten) > 1 =>
       ~Stored(CheckpointId(runId, step + 1, "task_writes", writes \cup {WriteOf(FirstOf(Unwritten))}))

(* What a call returned is what getState shows next: a completed run has   *)
(* left nothing to run, a paused one its interrupts, and a failed one the  *)
(* merged super-steps and the interrupts it returned.                      *)
ResultMatchesThread ==
  pc = "idle" =>
    /\ result = "completed" => Shown.next = {} /\ Shown.state.log = answer.log
    /\ result = "paused" => Shown.state = answer
    /\ result \in {"failed", "cancelled", "maxSteps"} =>
         Shown.state.log = answer.log /\ Shown.state.intr = answer.intr

(* The error a failed call returned is the error getState shows next       *)
(* (failRun, withRunErrorMetadata).                                        *)
ErrorIsShown ==
  pc = "idle" /\ result \in {"failed", "cancelled", "maxSteps"} => Shown.state.err = answer.err

(* A failure of a run that has begun is returned as its result: the call   *)
(* is an error only if the checkpointer fails (failRun).                   *)
FailuresReturned == [][pc = "fail" /\ result' = "error" => faults' # faults]_vars

(* Every interrupt of a paused thread can be answered: exactly one pending *)
(* task matches it.                                                        *)
InterruptsAnswerable ==
  Shown.next # {} => \A m \in Shown.state.intr : Cardinality(Matches(m, Shown.next)) = 1

(* A caller that keeps resuming, and answering, completes the thread. *)
ThreadCompletes == <>[](store # <<>> /\ Shown.next = {})
=============================================================================
