-------------------------- MODULE GraphRun_proofs --------------------------
(***************************************************************************)
(* What holds of a graph run for every graph, every bound and every        *)
(* combination of faults: its types, and that a task whose write is known  *)
(* is never listed to run again.                                           *)
(***************************************************************************)
EXTENDS GraphRun, Tasks_proofs, SequenceTheorems

Results == {"none", "running", "completed", "paused", "failed", "cancelled", "maxSteps", "error"}

Sources == {"initial", "task_writes", "step", "interrupt", "completion", "parent_command", "failure"}

(* A list of tasks and the writes kept with it: no task is listed beside   *)
(* its write, and writes are kept only for a super-step that has tasks to  *)
(* run.                                                                    *)
Fine(nx, pend) ==
  /\ IsFiniteSet(nx) /\ IsFiniteSet(pend)
  /\ nx \cap TasksOf(pend) = {}
  /\ nx = {} => pend = {}

(* The checkpoints. *)
StoreInv ==
  /\ store \in Seq(Checkpoint)
  /\ \A i \in DOMAIN store : Fine(store[i].next, store[i].pending)

(* The counters. *)
CountInv == ids \in Nat /\ faults \in Nat /\ invokes \in Nat

(* The run: a super-step has tasks, at most one execution of each, and no  *)
(* execution of any other.                                                 *)
RunInv ==
  /\ pc \in {"idle", "loop", "exec", "writes", "fail"}
  /\ runId \in Nat /\ step \in Nat /\ used \in Nat
  /\ st \in State /\ answer \in State
  /\ next \in SUBSET Task /\ pending \in SUBSET Write
  /\ execs \in SUBSET Exec /\ writes \in SUBSET Write
  /\ cancelled \in BOOLEAN /\ resumed \in SUBSET Task
  /\ result \in Results
  /\ Fine(next, pending) /\ IsFiniteSet(execs) /\ IsFiniteSet(writes)
  /\ pc \in {"exec", "writes"} => next # {}
  /\ Executed \subseteq next
  /\ \A e, f \in execs : e.task = f.task => e = f

IInv == StoreInv /\ CountInv /\ RunInv

(* At most one fault occurs in a step. *)
Counted == faults' = faults \/ faults' = faults + 1

-----------------------------------------------------------------------------
(* The parts actions are made of *)

(* A step that may inject a fault leaves the fault count within its bound. *)
LEMMA FaultCounted ==
  /\ NoFault => Counted
  /\ \A kind : Fault(kind) => Counted
PROOF BY DEF NoFault, Fault, Counted

(* The state a fresh thread starts from is a well-formed state. *)
LEMMA EmptyStateType == EmptyState \in State
PROOF BY DEF EmptyState, State

(* The first of some executions is one of them. *)
LEMMA FirstOfType ==
  ASSUME NEW es \in SUBSET Exec, es # {}
  PROVE  FirstOf(es) \in es
PROOF
<1> DEFINE ts == {f.task : f \in es}
<1>1. ts \in SUBSET Task /\ ts # {}
  BY DEF Exec
<1>2. First(ts) \in ts
  BY <1>1, FirstInList, Zenon
<1> QED BY <1>2 DEF FirstOf

(* A put adds a checkpoint that is fit to be resumed. *)
LEMMA PutInv ==
  ASSUME NEW r \in Nat, NEW s \in Nat, NEW state \in State, NEW nx \in SUBSET Task,
         NEW pend \in SUBSET Write, NEW source \in Sources,
         StoreInv, Fine(nx, pend), Put(r, s, state, nx, pend, source)
  PROVE  StoreInv'
PROOF
<1> DEFINE id == CheckpointId(r, s, source, pend)
           c == [id |-> id, step |-> s, state |-> state, next |-> nx, pending |-> pend, source |-> source]
<1>1. Cardinality(pend) \in Nat
  BY FS_CardinalityType DEF Fine
<1>2. id \in Nat \X Nat \X Nat
  BY <1>1 DEF CheckpointId
<1>3. c \in Checkpoint
  BY <1>2 DEF Checkpoint, Sources
<1>4. store' = Append(store, c)
  BY DEF Put
<1>5. store' \in Seq(Checkpoint)
  BY <1>3, <1>4 DEF StoreInv
<1>6. \A i \in DOMAIN store' : store'[i] = c \/ (i \in DOMAIN store /\ store'[i] = store[i])
  BY <1>3, <1>4 DEF StoreInv
<1>7. Fine(c.next, c.pending)
  OBVIOUS
<1>8. \A i \in DOMAIN store' : Fine(store'[i].next, store'[i].pending)
  BY <1>6, <1>7 DEF StoreInv
<1> QED BY <1>5, <1>8 DEF StoreInv, Fine

(* A call that returned leaves nothing behind. *)
LEMMA ReturnInv ==
  ASSUME NEW how \in Results, NEW state \in State, Return(how, state)
  PROVE  RunInv'
PROOF BY EmptyStateType, FS_EmptySet, Zenon DEF Return, RunInv, Fine, TasksOf, Executed

(* The metadata of an error, and its removal, leave a state a state. *)
LEMMA ErrorMetadataType ==
  ASSUME NEW state \in State
  PROVE  /\ withoutRunErrorMetadata(state) \in State
         /\ \A cause \in Causes, node \in SUBSET Nodes, s \in Nat :
              withRunErrorMetadata(state, cause, node, s) \in State
PROOF
<1>1. \A es \in SUBSET Error : [state EXCEPT !.err = es] \in State
  BY Zenon DEF State
<1>2. {} \in SUBSET Error
  OBVIOUS
<1>3. \A cause \in Causes, node \in SUBSET Nodes, s \in Nat :
        {[cause |-> cause, node |-> node, step |-> s]} \in SUBSET Error
  BY DEF Error
<1> QED BY <1>1, <1>2, <1>3, Zenon DEF withoutRunErrorMetadata, withRunErrorMetadata

(* failRun: the tasks to run again and the writes to keep are apart. *)
LEMMA FailingInv ==
  ASSUME NEW r \in Nat, NEW s \in Nat, NEW state \in State, NEW fn \in SUBSET Task,
         NEW pend \in SUBSET Write, NEW node \in SUBSET Nodes, NEW cause \in Causes,
         Fine(fn, pend),
         RunInv, Failing(r, s, state, fn, pend, node, cause)
  PROVE  RunInv'
PROOF
<1>1. withRunErrorMetadata(state, cause, node, s) \in State
  BY ErrorMetadataType, Zenon
<1> DEFINE fallback == {FallbackTask(n) : n \in node}
<1>2. fallback \in SUBSET Task
  BY DEF FallbackTask, Task
<1>3. fn = {} => Fine(fallback, pend)
  <2> SUFFICES ASSUME fn = {} PROVE Fine(fallback, pend)
    OBVIOUS
  <2> DEFINE f == [n \in node |-> FallbackTask(n)]
  <2>1. f \in Surjection(node, fallback)
    BY DEF Surjection
  <2>2. IsFiniteSet(node)
    BY TasksAssumption, FS_Subset
  <2>3. IsFiniteSet(fallback)
    BY <2>1, <2>2, FS_Surjection
  <2> HIDE DEF fallback
  <2> QED BY <2>3, FS_EmptySet DEF Fine, TasksOf
<1>4. next' \in SUBSET Task /\ Fine(next', pending') /\ pending' \in SUBSET Write
  BY <1>2, <1>3 DEF Failing
<1>5. execs' = {} /\ writes' = {} /\ resumed' = {} /\ st' \in State /\ answer' \in State
  BY <1>1, EmptyStateType DEF Failing
<1>6. result' \in Results
  BY DEF Failing, runStatusFromStatus, Results
<1> QED BY <1>4, <1>5, <1>6, FS_EmptySet DEF Failing, RunInv, Fine, TasksOf, Executed

(* A failure before any put leaves the checkpoints alone. *)
LEMMA FailInv ==
  ASSUME NEW r \in Nat, NEW s \in Nat, NEW state \in State, NEW fn \in SUBSET Task,
         NEW pend \in SUBSET Write, NEW node \in SUBSET Nodes, NEW cause \in Causes,
         Fine(fn, pend),
         StoreInv, RunInv, Fail(r, s, state, fn, pend, node, cause)
  PROVE  StoreInv' /\ RunInv'
PROOF
<1>1. UNCHANGED store /\ Failing(r, s, state, fn, pend, node, cause)
  BY DEF Fail
<1>2. RunInv'
  BY <1>1, FailingInv
<1> QED BY <1>1, <1>2 DEF StoreInv, Fine

(* The loop is entered with what the checkpoint lists. *)
LEMMA EnterInv ==
  ASSUME NEW r \in Nat, NEW s \in Nat, NEW state \in State, NEW nx \in SUBSET Task,
         NEW pend \in SUBSET Write, NEW res \in SUBSET Task,
         Fine(nx, pend), Enter(r, s, state, nx, pend, res)
  PROVE  RunInv'
PROOF BY EmptyStateType, FS_EmptySet, Zenon DEF Enter, RunInv, Fine, TasksOf, Executed, Results

(* The newest checkpoint is one of those that were put: of the checkpoints *)
(* newer than a given one there are ever fewer.                            *)
LEMMA LatestType ==
  ASSUME StoreInv, store # <<>>
  PROVE  \E i \in DOMAIN store : Latest = store[i]
PROOF
<1> DEFINE D == DOMAIN store
           newer(j, i) == store[j].step > store[i].step \/ (store[j].step = store[i].step /\ j > i)
           N(i) == {j \in D : newer(j, i)}
           F == {N(i) : i \in D}
<1>1. D = 1..Len(store) /\ D # {} /\ Len(store) \in Nat /\ \A i \in D : store[i].step \in Nat
  <2>1. store \in Seq(Checkpoint)
    BY DEF StoreInv
  <2>2. D = 1..Len(store) /\ Len(store) \in Nat /\ \A i \in D : store[i] \in Checkpoint
    BY <2>1
  <2>4. Len(store) # 0
    BY <2>1, EmptySeq
  <2>3. \A c \in Checkpoint : c.step \in Nat
    BY DEF Checkpoint
  <2> QED BY <2>2, <2>3, <2>4
<1>2. IsFiniteSet(D)
  BY <1>1, FS_Interval
<1>3. F # {} /\ F \subseteq SUBSET D
  BY <1>1, Zenon
<1>4. IsWellFoundedOn(StrictSubsetOrdering(D), SUBSET D)
  BY <1>2, FS_StrictSubsetOrderingWellFounded, FS_FiniteSubsetsOfFinite, Zenon
<1>5. PICK M \in F : \A L \in F : ~(<<L, M>> \in StrictSubsetOrdering(D))
  BY <1>3, <1>4, WFMin, Zenon
<1>6. PICK i \in D : M = N(i)
  OBVIOUS
<1>7. N(i) = {}
  <2> SUFFICES ASSUME NEW j \in N(i) PROVE FALSE
    OBVIOUS
  <2>1. N(j) \subseteq N(i)
    BY <1>1
  <2>2. j \notin N(j)
    BY <1>1
  <2>3. <<N(j), N(i)>> \in StrictSubsetOrdering(D)
    BY <2>1, <2>2 DEF StrictSubsetOrdering
  <2> QED BY <1>5, <1>6, <2>3
<1>8. \A j \in D : store[j].step < store[i].step \/ (store[j].step = store[i].step /\ j <= i)
  BY <1>1, <1>7
<1> QED BY <1>8, Zenon DEF Latest

-----------------------------------------------------------------------------
(* One lemma per action *)

(* invoke keeps the inductive invariant: the run starts from the input, with no task finished. *)
LEMMA InvokeInv ==
  ASSUME IInv, Invoke
  PROVE  IInv'
PROOF
<1> USE DEF IInv
<1>1. CountInv'
  <2>1. Counted
    BY FaultCounted, Zenon DEF Invoke, PutThen, PutFails
  <2> QED BY <2>1 DEF CountInv, Counted, Invoke
<1>2. PICK nx \in StartLists :
        \/ Fail(ids, 0, EmptyState, nx, {}, {}, "event")
        \/ /\ UNCHANGED store \/ Put(ids, 0, EmptyState, nx, {}, "initial")
           /\ \/ \E res \in {{}, nx} : Enter(ids, 0, EmptyState, nx, {}, res)
              \/ \E cause \in {"schema", "command"} : Failing(ids, 0, EmptyState, nx, {}, {}, cause)
              \/ Return("error", EmptyState)
  BY Zenon DEF Invoke, PutThen, PutFails
<1>3. nx \in SUBSET Task /\ IsFiniteSet(nx)
  BY StartListsType
<1>4. Fine(nx, {}) /\ ids \in Nat
  BY <1>3, FS_EmptySet DEF Fine, TasksOf, CountInv
<1>5. CASE Fail(ids, 0, EmptyState, nx, {}, {}, "event")
  BY <1>1, <1>3, <1>4, <1>5, FailInv, EmptyStateType DEF Causes
<1>6. ASSUME UNCHANGED store \/ Put(ids, 0, EmptyState, nx, {}, "initial")
      PROVE  StoreInv'
  <2>1. CASE UNCHANGED store
    BY <2>1 DEF StoreInv, Fine
  <2>2. CASE Put(ids, 0, EmptyState, nx, {}, "initial")
    BY <1>3, <1>4, <2>2, PutInv, EmptyStateType DEF Sources
  <2> QED BY <1>6, <2>1, <2>2
<1>7. ASSUME NEW res \in {{}, nx}, Enter(ids, 0, EmptyState, nx, {}, res)
      PROVE  RunInv'
  BY <1>3, <1>4, <1>7, EnterInv, EmptyStateType
<1>8. ASSUME NEW cause \in {"schema", "command"}, Failing(ids, 0, EmptyState, nx, {}, {}, cause)
      PROVE  RunInv'
  BY <1>3, <1>4, <1>8, FailingInv, EmptyStateType DEF Causes
<1>9. ASSUME Return("error", EmptyState)
      PROVE  RunInv'
  BY <1>9, ReturnInv, EmptyStateType DEF Results
<1> QED BY <1>1, <1>2, <1>5, <1>6, <1>7, <1>8, <1>9, Zenon

(* resume keeps the inductive invariant: what it restores was checkpointed by a run that kept it. *)
LEMMA ResumeInv ==
  ASSUME IInv, NEW command \in BOOLEAN, Resume(command)
  PROVE  IInv'
PROOF
<1> USE DEF IInv
<1> DEFINE c == Latest
           s == replayStartStep(c)
           cleaned == withoutRunErrorMetadata(c.state)
<1>1. PICK i \in DOMAIN store : c = store[i]
  BY LatestType DEF Resume
<1>2. c \in Checkpoint /\ Fine(c.next, c.pending)
  BY <1>1 DEF StoreInv
<1> HIDE DEF c
<1>3. /\ c.step \in Nat /\ c.state \in State
      /\ c.next \in SUBSET Task /\ c.pending \in SUBSET Write
  BY <1>2 DEF Checkpoint
<1>4. s \in Nat
  BY <1>3 DEF replayStartStep
<1>5. cleaned \in State /\ Answered(cleaned) \in State
  <2>1. cleaned \in State
    BY <1>3, ErrorMetadataType, Zenon
  <2>2. \A state \in State : Answered(state) \in State
    BY Zenon DEF State, Answered
  <2> QED BY <2>1, <2>2, Zenon
<1>6. RunFrom(c, s, command) /\ ids' = ids + 1 /\ UNCHANGED invokes
  BY DEF Resume, c
<1> HIDE DEF s, cleaned
<1>7. CountInv'
  <2>1. Counted
    BY <1>6, FaultCounted DEF RunFrom
  <2> QED BY <1>6, <2>1 DEF CountInv, Counted
<1>8. ids \in Nat
  BY DEF CountInv
<1>9. \A ms \in SUBSET Task : ms # {} => First(ms).node \in Nodes
  BY FirstInList DEF Task
<1>10. \/ \E state \in State, node \in SUBSET Nodes, cause \in Causes :
            Fail(ids, s, state, c.next, c.pending, node, cause)
       \/ \E state \in State, res \in SUBSET Task :
            UNCHANGED store /\ Enter(ids, s, state, c.next, c.pending, res)
  <2> DEFINE begun == IF command THEN Answered(cleaned) ELSE cleaned
             unmatched == {m \in c.state.intr : Cardinality(Matches(m, c.next)) # 1}
             addressed == IF c.state.intr = {} THEN c.next ELSE UNION {Matches(m, c.next) : m \in c.state.intr}
             asked == IF unmatched = {} THEN {} ELSE {First(unmatched).node}
             res == IF command THEN addressed ELSE {}
  <2>1. c.state.intr \in SUBSET Task
    BY <1>3 DEF State
  <2>2. \A m : Matches(m, c.next) \in SUBSET Task
    BY <1>3 DEF Matches
  <2>3. begun \in State /\ res \in SUBSET Task
    BY <1>3, <1>5, <2>2
  <2>4. asked \in SUBSET Nodes
    <3>1. unmatched \in SUBSET Task
      BY <2>1
    <3> HIDE DEF unmatched
    <3> QED BY <1>9, <3>1
  <2>5. \A m \in c.state.intr : {m.node} \in SUBSET Nodes
    BY <2>1 DEF Task
  <2>6. {} \in SUBSET Nodes /\ {"event", "schema", "command", "answer"} \subseteq Causes
    BY DEF Causes
  <2>7. \/ Fail(ids, s, c.state, c.next, c.pending, {}, "event")
        \/ UNCHANGED store /\ Enter(ids, s, begun, c.next, c.pending, res)
        \/ Fail(ids, s, begun, c.next, c.pending, {}, "schema")
        \/ Fail(ids, s, cleaned, c.next, c.pending, asked, "command")
        \/ \E m \in c.state.intr : Fail(ids, s, cleaned, c.next, c.pending, {m.node}, "answer")
    BY <1>6, Zenon DEF RunFrom, cleaned
  <2> HIDE DEF begun, asked, res
  <2> QED BY <1>3, <1>5, <2>3, <2>4, <2>5, <2>6, <2>7, Zenon
<1>11. ASSUME NEW state \in State, NEW node \in SUBSET Nodes, NEW cause \in Causes,
              Fail(ids, s, state, c.next, c.pending, node, cause)
       PROVE  StoreInv' /\ RunInv'
  BY <1>2, <1>3, <1>4, <1>8, <1>11, FailInv
<1>12. ASSUME NEW state \in State, NEW res \in SUBSET Task,
              UNCHANGED store /\ Enter(ids, s, state, c.next, c.pending, res)
       PROVE  StoreInv' /\ RunInv'
  <2>1. RunInv'
    BY <1>2, <1>3, <1>4, <1>8, <1>12, EnterInv, Zenon
  <2> QED BY <1>12, <2>1 DEF StoreInv, Fine
<1> QED BY <1>7, <1>10, <1>11, <1>12

(* A run that leaves its loop keeps the inductive invariant. *)
LEMMA FinishInv ==
  ASSUME IInv, Finish
  PROVE  IInv'
PROOF
<1> USE DEF IInv
<1>1. CountInv'
  <2>1. Counted
    BY FaultCounted DEF Finish
  <2>2. UNCHANGED <<ids, invokes>>
    BY DEF Finish
  <2> QED BY <2>1, <2>2 DEF CountInv, Counted
<1>2. Fine({}, {}) /\ runId \in Nat /\ step \in Nat /\ st \in State
  BY FS_EmptySet DEF Fine, TasksOf, RunInv
<1>3. CASE UNCHANGED store /\ Return("completed", st)
  <2>1. RunInv'
    BY <1>2, <1>3, ReturnInv DEF Results
  <2> QED BY <1>1, <1>3, <2>1 DEF StoreInv, Fine
<1>4. CASE Fail(runId, step, st, {}, {}, {}, "event")
  <2>1. StoreInv' /\ RunInv'
    BY <1>2, <1>4, FailInv DEF Causes
  <2> QED BY <1>1, <2>1
<1> QED BY <1>3, <1>4 DEF Finish

(* Opening a super-step keeps the inductive invariant. *)
LEMMA BeginStepInv ==
  ASSUME IInv, BeginStep
  PROVE  IInv'
PROOF
<1> USE DEF IInv
<1>1. CountInv'
  <2>1. Counted
    BY FaultCounted DEF BeginStep
  <2>2. UNCHANGED <<ids, invokes>>
    BY DEF BeginStep
  <2> QED BY <2>1, <2>2 DEF CountInv, Counted
<1>2. /\ runId \in Nat /\ step + 1 \in Nat /\ st \in State /\ Fine(next, pending)
      /\ next \in SUBSET Task /\ pending \in SUBSET Write /\ next # {}
  BY DEF RunInv, BeginStep
<1>3. \A t \in next : {t.node} \in SUBSET Nodes
  BY <1>2 DEF Task
<1>4. First(next) \in next
  BY <1>2, FirstInList
<1>5. ASSUME NEW t \in next, NEW cause \in Causes,
             Fail(runId, step + 1, st, next, pending, {t.node}, cause)
      PROVE  StoreInv' /\ RunInv'
  BY <1>2, <1>3, <1>5, FailInv
<1>6. ASSUME pc' = "exec" /\ used' = used + 1,
             UNCHANGED <<store, runId, step, st, next, pending, execs, writes, cancelled, resumed, result, answer>>
      PROVE  StoreInv' /\ RunInv'
  <2>1. RunInv'
    BY <1>2, <1>6 DEF RunInv, Fine, TasksOf, Executed
  <2> QED BY <1>6, <2>1 DEF StoreInv, Fine
<1>7. \/ \E t \in next, cause \in Causes : Fail(runId, step + 1, st, next, pending, {t.node}, cause)
      \/ /\ pc' = "exec" /\ used' = used + 1
         /\ UNCHANGED <<store, runId, step, st, next, pending, execs, writes, cancelled, resumed, result, answer>>
  <2>1. {"cancelled", "maxSteps", "event"} \subseteq Causes
    BY DEF Causes
  <2> QED BY <1>4, <2>1, Zenon DEF BeginStep
<1> QED BY <1>1, <1>5, <1>6, <1>7

(* A node handler that returns, fails or asks keeps the inductive invariant. *)
LEMMA ExecuteTaskInv ==
  ASSUME IInv, NEW t \in next, ExecuteTask(t)
  PROVE  IInv'
PROOF
<1> USE DEF IInv
<1>1. CountInv'
  <2>1. Counted
    BY FaultCounted DEF ExecuteTask
  <2>2. UNCHANGED <<ids, invokes>>
    BY DEF ExecuteTask
  <2> QED BY <2>1, <2>2 DEF CountInv, Counted
<1>2. PICK kind \in {"ok", "interrupt", "fail", "cancelled", "bad"} :
        \E e \in Outputs(t, kind) : execs' = execs \cup {e}
  BY DEF ExecuteTask
<1> PICK e \in Outputs(t, kind) : execs' = execs \cup {e}
  BY <1>2
<1>3. e \in Exec /\ e.task = t
  <2>1. AnyVal \in Vals
    BY TasksAssumption DEF AnyVal
  <2>2. t \in Task /\ Commands[t.node] \in SUBSET Command /\ NoCommand \in Command
    BY GraphRunAssumption DEF RunInv, Task, Command
  <2> QED BY <2>1, <2>2 DEF Outputs, Exec
<1>4. IsFiniteSet(execs \cup {e})
  BY FS_AddElement DEF RunInv
<1>5. t \notin Executed
  BY DEF ExecuteTask
<1>6. execs' \in SUBSET Exec /\ IsFiniteSet(execs')
  BY <1>3, <1>4 DEF RunInv
<1>7. Executed' \subseteq next /\ \A f, g \in execs' : f.task = g.task => f = g
  BY <1>3, <1>5 DEF RunInv, Executed
<1>8. UNCHANGED <<pc, runId, step, st, next, pending, writes, used, cancelled, resumed, result, answer>>
  BY DEF ExecuteTask
<1>9. RunInv'
  BY <1>6, <1>7, <1>8, Zenon DEF RunInv, Fine, TasksOf
<1> QED BY <1>1, <1>9 DEF StoreInv, Fine, ExecuteTask

(* An execution becomes a write of its task. *)
LEMMA WriteOfType ==
  ASSUME RunInv, NEW e \in Exec
  PROVE  WriteOf(e) \in Write /\ WriteOf(e).task = e.task
PROOF
<1>1. st.log \in Seq(SUBSET Write)
  BY DEF RunInv, State
<1>2. Len(st.log) \in Nat
  BY <1>1
<1>3. Snapshot(e.task, st.log) \in Nat
  BY <1>2 DEF Snapshot
<1> QED BY <1>3 DEF WriteOf, Write, Exec

(* Executions kept as writes and executions to be run again stay apart. *)
LEMMA KeptFine ==
  ASSUME RunInv, NEW es \in SUBSET execs, NEW again \in SUBSET execs, again # {}, es \cap again = {}
  PROVE  /\ {e.task : e \in again} \in SUBSET Task
         /\ pending \cup {WriteOf(e) : e \in es} \in SUBSET Write
         /\ Fine({e.task : e \in again}, pending \cup {WriteOf(e) : e \in es})
PROOF
<1> DEFINE ts == {e.task : e \in again}
           new == {WriteOf(e) : e \in es}
           ws == pending \cup new
           f == [e \in again |-> e.task]
           g == [e \in es |-> WriteOf(e)]
<1>1. es \in SUBSET Exec /\ again \in SUBSET Exec
  BY DEF RunInv
<1>2. ts \in SUBSET Task
  BY <1>1 DEF Exec
<1>3. \A e \in es : WriteOf(e) \in Write /\ WriteOf(e).task = e.task
  BY <1>1, WriteOfType
<1>4. ws \in SUBSET Write
  BY <1>3 DEF RunInv
<1>5. IsFiniteSet(es) /\ IsFiniteSet(again) /\ IsFiniteSet(pending)
  BY FS_Subset DEF RunInv, Fine
<1>6. IsFiniteSet(ts)
  <2>1. f \in Surjection(again, ts)
    BY DEF Surjection
  <2> QED BY <1>5, <2>1, FS_Surjection
<1>7. IsFiniteSet(new)
  <2>1. g \in Surjection(es, new)
    BY DEF Surjection
  <2> QED BY <1>5, <2>1, FS_Surjection
<1>8. IsFiniteSet(ws)
  <2> HIDE DEF new
  <2> QED BY <1>5, <1>7, FS_Union, Zenon
<1>9. ts \cap TasksOf(ws) = {}
  <2> SUFFICES ASSUME NEW a \in again, NEW w \in ws, a.task = w.task PROVE FALSE
    BY DEF TasksOf
  <2>1. CASE w \in pending
    <3>1. a.task \in next
      BY DEF RunInv, Executed
    <3>2. w.task \notin next
      BY <2>1 DEF RunInv, Fine, TasksOf
    <3> QED BY <3>1, <3>2
  <2>2. CASE w \in new
    <3>1. PICK e \in es : w = WriteOf(e)
      BY <2>2
    <3>2. e.task = a.task
      BY <1>3, <3>1
    <3> QED BY <3>2 DEF RunInv
  <2> QED BY <2>1, <2>2
<1> HIDE DEF ts, ws
<1>10. Fine(ts, ws)
  <2>1. ts # {}
    BY DEF ts
  <2> QED BY <1>6, <1>8, <1>9, <2>1 DEF Fine
<1> QED BY <1>2, <1>4, <1>10 DEF ts, ws

(* The error path of a super-step keeps the inductive invariant, checkpoint of the failure included. *)
LEMMA FailStepInv ==
  ASSUME IInv, FailStep
  PROVE  IInv'
PROOF
<1> USE DEF IInv
<1> DEFINE good == execs \ Failures
           bad  == {e \in good : e.kind = "bad"}
           kept(es) == pending \cup {WriteOf(e) : e \in es}
           ahead(e) == {g \in good : g.task.pos < e.task.pos}
<1>1. CountInv'
  <2>1. Counted
    BY FaultCounted DEF FailStep
  <2>2. UNCHANGED <<ids, invokes>>
    BY DEF FailStep
  <2> QED BY <2>1, <2>2 DEF CountInv, Counted
<1>2. /\ runId \in Nat /\ step + 1 \in Nat /\ st \in State /\ Fine(next, pending)
      /\ next \in SUBSET Task /\ pending \in SUBSET Write /\ execs \in SUBSET Exec
  BY DEF RunInv
<1>3. Failures \subseteq execs /\ Failures # {}
  BY DEF Failures, HandlerFailures, RejectedParents, Parents, FailStep
<1>4. FirstFailure \in execs
  <2>1. HandlerFailures \in SUBSET execs /\ RejectedParents \in SUBSET execs /\ Parents \in SUBSET execs
    BY DEF HandlerFailures, RejectedParents, Parents
  <2>2. HandlerFailures # {} \/ RejectedParents # {} \/ Parents # {}
    BY <1>3 DEF Failures
  <2>3. \A es \in SUBSET execs : es # {} => FirstOf(es) \in execs
    BY <1>2, FirstOfType
  <2> QED BY <2>1, <2>2, <2>3 DEF FirstFailure
<1>5. \A e \in execs : {e.task.node} \in SUBSET Nodes
  BY <1>2 DEF Exec, Task
<1>6. FailureCause \in Causes /\ {"write", "event"} \subseteq Causes
  BY DEF FailureCause, Causes
<1>7. ASSUME Fail(runId, step + 1, st, next, pending, {FirstFailure.task.node}, FailureCause)
      PROVE  StoreInv' /\ RunInv'
  BY <1>2, <1>4, <1>5, <1>6, <1>7, FailInv
<1>8. ASSUME NEW es \in SUBSET good, NEW e \in execs, NEW cause \in Causes,
             Fail(runId, step + 1, st, failureNext, kept(es), {e.task.node}, cause)
      PROVE  StoreInv' /\ RunInv'
  <2>1. es \in SUBSET execs /\ Failures \in SUBSET execs /\ es \cap Failures = {}
    BY <1>3
  <2>2. failureNext \in SUBSET Task /\ kept(es) \in SUBSET Write /\ Fine(failureNext, kept(es))
    BY <1>3, <2>1, KeptFine, Zenon DEF failureNext
  <2> HIDE DEF kept
  <2> QED BY <1>2, <1>5, <1>8, <2>2, FailInv
<1>9. ASSUME bad # {},
             Fail(runId, step + 1, st, {FirstOf(bad).task}, kept(ahead(FirstOf(bad))),
                  {FirstOf(bad).task.node}, "write")
      PROVE  StoreInv' /\ RunInv'
  <2> DEFINE b == FirstOf(bad)
             ts == {e.task : e \in {b}}
             ws == kept(ahead(b))
  <2>1. b \in execs
    <3>1. bad \in SUBSET Exec
      BY DEF RunInv
    <3> QED BY <1>9, <3>1, FirstOfType
  <2>2. ahead(b) \in SUBSET execs /\ {b} \in SUBSET execs
    BY <2>1
  <2>3. ahead(b) \cap {b} = {}
    <3>1. b.task.pos \in Nat
      BY <2>1 DEF RunInv, Exec, Task
    <3> QED BY <3>1
  <2>4. ts \in SUBSET Task /\ ws \in SUBSET Write /\ Fine(ts, ws)
    BY <2>2, <2>3, KeptFine, Zenon
  <2>5. ts = {b.task}
    OBVIOUS
  <2> HIDE DEF b, ts, ws
  <2>6. Fail(runId, step + 1, st, ts, ws, {b.task.node}, "write")
    BY <1>9, <2>5 DEF b, ws
  <2> QED BY <1>2, <1>5, <1>6, <2>1, <2>4, <2>6, FailInv
<1>10. StoreInv' /\ RunInv'
  <2>1. good \in SUBSET good /\ (\A e : ahead(e) \in SUBSET good) /\ good \in SUBSET execs
    OBVIOUS
  <2>2. \/ Fail(runId, step + 1, st, next, pending, {FirstFailure.task.node}, FailureCause)
        \/ Fail(runId, step + 1, st, failureNext, kept(good), {FirstFailure.task.node}, FailureCause)
        \/ /\ bad # {}
           /\ Fail(runId, step + 1, st, {FirstOf(bad).task}, kept(ahead(FirstOf(bad))),
                   {FirstOf(bad).task.node}, "write")
        \/ \E e \in good : Fail(runId, step + 1, st, failureNext, kept(ahead(e)), {e.task.node}, "event")
    BY Zenon DEF FailStep
  <2>3. CASE Fail(runId, step + 1, st, failureNext, kept(good), {FirstFailure.task.node}, FailureCause)
    BY <1>4, <1>6, <1>8, <2>1, <2>3, Zenon
  <2>4. CASE \E e \in good : Fail(runId, step + 1, st, failureNext, kept(ahead(e)), {e.task.node}, "event")
    <3>1. PICK e \in good : Fail(runId, step + 1, st, failureNext, kept(ahead(e)), {e.task.node}, "event")
      BY <2>4
    <3>2. "event" \in Causes /\ e \in execs /\ ahead(e) \in SUBSET good
      BY <1>6, <2>1
    <3> HIDE DEF good, kept, ahead
    <3> QED BY <1>8, <3>1, <3>2, Zenon
  <2> HIDE DEF good, bad, kept, ahead
  <2> QED BY <1>7, <1>9, <2>2, <2>3, <2>4, Zenon
<1> QED BY <1>1, <1>10

(* Leaving the wait for the step's tasks keeps the inductive invariant. *)
LEMMA CompleteNodesInv ==
  ASSUME IInv, CompleteNodes
  PROVE  IInv'
PROOF
<1> USE DEF IInv
<1>1. CountInv'
  <2>1. Counted
    BY FaultCounted DEF CompleteNodes
  <2>2. UNCHANGED <<ids, invokes>>
    BY DEF CompleteNodes
  <2> QED BY <2>1, <2>2 DEF CountInv, Counted
<1>2. /\ runId \in Nat /\ step + 1 \in Nat /\ st \in State /\ Fine(next, pending)
      /\ next \in SUBSET Task /\ pending \in SUBSET Write /\ "event" \in Causes
  BY DEF RunInv, Causes
<1>3. \A e \in execs : {e.task.node} \in SUBSET Nodes
  BY DEF RunInv, Exec, Task
<1>4. ASSUME NEW e \in execs, Fail(runId, step + 1, st, next, pending, {e.task.node}, "event")
      PROVE  StoreInv' /\ RunInv'
  BY <1>2, <1>3, <1>4, FailInv
<1>5. ASSUME pc' = "writes", writes' = pending,
             UNCHANGED <<store, runId, step, st, next, pending, execs, used, cancelled, resumed, result, answer>>
      PROVE  StoreInv' /\ RunInv'
  <2>1. next # {}
    BY DEF RunInv, CompleteNodes
  <2>2. RunInv'
    BY <1>5, <2>1 DEF RunInv, Fine, TasksOf, Executed
  <2> QED BY <1>5, <2>2 DEF StoreInv, Fine
<1>6. StoreInv' /\ RunInv'
  BY <1>4, <1>5 DEF CompleteNodes
<1> QED BY <1>1, <1>6

(* Turning one result into a write keeps the inductive invariant. *)
LEMMA CollectWriteInv ==
  ASSUME IInv, CollectWrite
  PROVE  IInv'
PROOF
<1> USE DEF IInv
<1> DEFINE e == FirstOf(Unwritten)
           collected == writes \cup {WriteOf(e)}
           remaining == {f.task : f \in Unwritten \ {e}}
           Continue == /\ writes' = collected
                       /\ UNCHANGED <<pc, runId, step, st, next, pending, execs, used, cancelled, resumed, result, answer>>
<1>1. CountInv'
  <2>1. Counted
    BY FaultCounted, Zenon DEF CollectWrite, PutThen, PutFails
  <2>2. UNCHANGED <<ids, invokes>>
    BY DEF CollectWrite
  <2> QED BY <2>1, <2>2 DEF CountInv, Counted
<1>2. e \in Unwritten /\ e \in execs /\ e \in Exec
  <2>1. Unwritten \in SUBSET Exec /\ Unwritten # {}
    BY DEF Unwritten, RunInv, CollectWrite
  <2> QED BY <2>1, FirstOfType DEF Unwritten
<1>3. /\ runId \in Nat /\ step + 1 \in Nat /\ st \in State
      /\ "write" \in Causes /\ "error" \in Results /\ "task_writes" \in Sources
  BY DEF RunInv, Causes, Results, Sources
<1>4. WriteOf(e) \in Write /\ WriteOf(e).task = e.task
  BY <1>2, WriteOfType
<1>5. collected \in SUBSET Write /\ IsFiniteSet(collected)
  BY <1>4, FS_AddElement DEF RunInv
<1>6. remaining \in SUBSET Task /\ IsFiniteSet(remaining)
  <2> DEFINE es == Unwritten \ {e}
             f == [x \in es |-> x.task]
  <2>1. es \in SUBSET execs
    BY DEF Unwritten
  <2>2. IsFiniteSet(es)
    BY <2>1, FS_Subset DEF RunInv
  <2>3. f \in Surjection(es, remaining)
    BY DEF Surjection
  <2>4. IsFiniteSet(remaining)
    BY <2>2, <2>3, FS_Surjection
  <2> QED BY <2>1, <2>4 DEF RunInv, Exec
<1>7. remaining # {} => Fine(remaining, collected)
  <2>1. \A x \in Unwritten : x \in execs /\ x.task \notin TasksOf(writes)
    BY DEF Unwritten
  <2>2. \A x \in Unwritten \ {e} : x.task # e.task
    BY <1>2, <2>1 DEF RunInv
  <2>3. TasksOf(collected) = TasksOf(writes) \cup {e.task}
    BY <1>4 DEF TasksOf
  <2>4. remaining \cap TasksOf(collected) = {}
    BY <2>1, <2>2, <2>3
  <2> QED BY <1>5, <1>6, <2>4 DEF Fine
<1> HIDE DEF e, collected, remaining
<1>8. ASSUME Fail(runId, step + 1, st, {e.task}, pending, {e.task.node}, "write")
      PROVE  StoreInv' /\ RunInv'
  <2>1. e.task \in next /\ next \in SUBSET Task /\ pending \in SUBSET Write /\ Fine(next, pending)
    BY <1>2 DEF RunInv, Executed
  <2>2. {e.task} \in SUBSET Task /\ Fine({e.task}, pending)
    BY <2>1, FS_Singleton, Zenon DEF Fine
  <2>3. {e.task.node} \in SUBSET Nodes
    BY <2>1 DEF Task
  <2> QED BY <1>3, <1>8, <2>1, <2>2, <2>3, FailInv
<1>9. ASSUME UNCHANGED store \/ (remaining # {} /\ Put(runId, step + 1, st, remaining, collected, "task_writes"))
      PROVE  StoreInv'
  <2>1. CASE UNCHANGED store
    BY <2>1 DEF StoreInv, Fine
  <2>2. CASE remaining # {} /\ Put(runId, step + 1, st, remaining, collected, "task_writes")
    BY <1>3, <1>5, <1>6, <1>7, <2>2, PutInv
  <2> QED BY <1>9, <2>1, <2>2
<1>10. ASSUME Continue
       PROVE  RunInv'
  BY <1>5, <1>10 DEF RunInv, Fine, TasksOf, Executed
<1>11. ASSUME Return("error", EmptyState)
       PROVE  RunInv'
  BY <1>3, <1>11, ReturnInv, EmptyStateType
<1>12. \/ Fail(runId, step + 1, st, {e.task}, pending, {e.task.node}, "write")
       \/ /\ remaining # {}
          /\ PutThen(runId, step + 1, st, remaining, collected, "task_writes", FALSE, NoFault /\ Continue)
       \/ UNCHANGED store /\ Continue
  BY Zenon DEF CollectWrite, e, collected, remaining
<1> HIDE DEF Continue
<1>13. \/ Fail(runId, step + 1, st, {e.task}, pending, {e.task.node}, "write")
       \/ /\ UNCHANGED store \/ (remaining # {} /\ Put(runId, step + 1, st, remaining, collected, "task_writes"))
          /\ Continue \/ Return("error", EmptyState)
  BY <1>12, Zenon DEF PutThen, PutFails
<1> QED BY <1>1, <1>8, <1>9, <1>10, <1>11, <1>13

(* Merging keeps the state a state. *)
LEMMA MergedType ==
  ASSUME RunInv, NEW ws \in SUBSET Write
  PROVE  Merged(ws) \in State
PROOF
<1>1. st.log \in Seq(SUBSET Write) /\ st \in State
  BY DEF RunInv, State
<1>2. Append(st.log, ws) \in Seq(SUBSET Write)
  BY <1>1
<1> QED BY <1>1, <1>2, Zenon DEF Merged, State

(* A merge that is refused keeps the inductive invariant. *)
LEMMA MergeFailsInv ==
  ASSUME IInv, MergeFails
  PROVE  IInv'
PROOF
<1> USE DEF IInv
<1>1. CountInv'
  <2>1. Counted
    BY FaultCounted DEF MergeFails
  <2>2. UNCHANGED <<ids, invokes>>
    BY DEF MergeFails
  <2> QED BY <2>1, <2>2 DEF CountInv, Counted
<1>2. PICK w \in writes, ws \in SUBSET writes :
        Fail(runId, step + 1, Merged(ws), next, pending, {w.task.node}, "merge")
  BY DEF MergeFails
<1>3. /\ runId \in Nat /\ step + 1 \in Nat /\ Fine(next, pending) /\ ws \in SUBSET Write
      /\ next \in SUBSET Task /\ pending \in SUBSET Write /\ "merge" \in Causes
  BY DEF RunInv, Causes
<1>4. Merged(ws) \in State
  BY <1>3, MergedType
<1>5. {w.task.node} \in SUBSET Nodes
  BY DEF RunInv, Write, Task
<1>6. StoreInv' /\ RunInv'
  BY <1>2, <1>3, <1>4, <1>5, FailInv
<1> QED BY <1>1, <1>6

(* A merge followed by a command to the parent graph keeps the inductive invariant. *)
LEMMA MergeAndLeaveInv ==
  ASSUME IInv, MergeAndLeave
  PROVE  IInv'
PROOF
<1> USE DEF IInv
<1> DEFINE m == Merged(writes)
           node == {FirstOf(Parents).task.node}
<1>1. CountInv'
  <2>1. Counted
    BY FaultCounted, Zenon DEF MergeAndLeave, PutThen, PutFails
  <2>2. UNCHANGED <<ids, invokes>>
    BY DEF MergeAndLeave
  <2> QED BY <2>1, <2>2 DEF CountInv, Counted
<1>2. /\ runId \in Nat /\ step + 1 \in Nat /\ m \in State /\ Fine({}, {})
      /\ {"error", "completed"} \subseteq Results /\ "parent_command" \in Sources /\ "event" \in Causes
  BY MergedType, FS_EmptySet DEF RunInv, Results, Sources, Causes, Fine, TasksOf
<1>3. node \in SUBSET Nodes
  <2>1. Parents \in SUBSET Exec /\ Parents # {}
    BY DEF Parents, RunInv, MergeAndLeave
  <2>2. FirstOf(Parents) \in Exec
    BY <2>1, FirstOfType
  <2>3. FirstOf(Parents).task.node \in Nodes
    BY <2>2 DEF Exec, Task
  <2> QED BY <2>3, Zenon
<1> HIDE DEF m, node
<1>4. \/ Fail(runId, step + 1, m, {}, {}, node, "event")
      \/ /\ UNCHANGED store \/ Put(runId, step + 1, m, {}, {}, "parent_command")
         /\ Return("completed", m) \/ Return("error", EmptyState)
  BY Zenon DEF MergeAndLeave, PutThen, PutFails, m, node
<1>5. ASSUME Fail(runId, step + 1, m, {}, {}, node, "event")
      PROVE  StoreInv' /\ RunInv'
  BY <1>2, <1>3, <1>5, FailInv
<1>6. ASSUME UNCHANGED store \/ Put(runId, step + 1, m, {}, {}, "parent_command")
      PROVE  StoreInv'
  <2>1. CASE UNCHANGED store
    BY <2>1 DEF StoreInv, Fine
  <2>2. CASE Put(runId, step + 1, m, {}, {}, "parent_command")
    BY <1>2, <2>2, PutInv
  <2> QED BY <1>6, <2>1, <2>2
<1>7. ASSUME Return("completed", m) \/ Return("error", EmptyState)
      PROVE  RunInv'
  BY <1>2, <1>7, ReturnInv, EmptyStateType
<1> QED BY <1>1, <1>4, <1>5, <1>6, <1>7

(* A merge that ends in an interrupt keeps the inductive invariant, its checkpoint included. *)
LEMMA MergeAndPauseInv ==
  ASSUME IInv, MergeAndPause
  PROVE  IInv'
PROOF
<1> USE DEF IInv
<1> DEFINE paused == {e.task : e \in Interrupts}
           completed == {w \in writes : ~IsInterruptedWrite(w)}
           m == Merged(writes)
           state == [Merged(writes) EXCEPT !.intr = paused]
<1>1. CountInv'
  <2>1. Counted
    BY FaultCounted, Zenon DEF MergeAndPause, PutThen, PutFails
  <2>2. UNCHANGED <<ids, invokes>>
    BY DEF MergeAndPause
  <2> QED BY <2>1, <2>2 DEF CountInv, Counted
<1>2. paused \in SUBSET Task /\ IsFiniteSet(paused)
  <2> DEFINE f == [e \in Interrupts |-> e.task]
  <2>1. Interrupts \in SUBSET execs
    BY DEF Interrupts
  <2>2. IsFiniteSet(Interrupts)
    BY <2>1, FS_Subset DEF RunInv
  <2>3. f \in Surjection(Interrupts, paused)
    BY DEF Surjection
  <2>4. IsFiniteSet(paused)
    BY <2>2, <2>3, FS_Surjection
  <2> QED BY <2>1, <2>4 DEF RunInv, Exec
<1>3. /\ runId \in Nat /\ step + 1 \in Nat /\ m \in State
      /\ next \in SUBSET Task /\ Fine(next, {})
      /\ {"error", "paused"} \subseteq Results /\ "interrupt" \in Sources /\ {"event", "route"} \subseteq Causes
  BY MergedType, FS_EmptySet DEF RunInv, Results, Sources, Causes, Fine, TasksOf
<1>4. state \in State
  BY <1>2, <1>3 DEF State
<1>5. completed \in SUBSET Write /\ IsFiniteSet(completed)
  BY FS_Subset DEF RunInv
<1>6. \A goto \in Routings(completed) :
        LET nx == Listing(paused, Routed(goto)) IN nx \in SUBSET Task /\ Fine(nx, {})
  <2> SUFFICES ASSUME NEW goto \in Routings(completed)
               PROVE  LET nx == Listing(paused, Routed(goto)) IN nx \in SUBSET Task /\ Fine(nx, {})
    OBVIOUS
  <2>1. IsFiniteSet(Routed(goto)) /\ \A x \in Routed(goto) : x[3] \in Target
    BY <1>5, RoutedType
  <2>2. Listing(paused, Routed(goto)) \in SUBSET Task /\ IsFiniteSet(Listing(paused, Routed(goto)))
    BY <1>2, <2>1, ListingType, Zenon
  <2> QED BY <2>2, FS_EmptySet DEF Fine, TasksOf
<1>7. /\ \A w \in completed : {w.task.node} \in SUBSET Nodes
      /\ \A t \in paused : {t.node} \in SUBSET Nodes
  <2>1. \A w \in completed : w \in Write
    BY <1>5
  <2>2. \A t \in paused : t \in Task
    BY <1>2
  <2> HIDE DEF completed, paused
  <2> QED BY <2>1, <2>2 DEF Write, Task
<1> HIDE DEF m, state, paused, completed
<1>8. \/ \E w \in completed : Fail(runId, step + 1, m, next, {}, {w.task.node}, "route")
      \/ \E goto \in Routings(completed) :
           LET nx == Listing(paused, Routed(goto)) IN
           PutThen(runId, step + 1, state, nx, {}, "interrupt", TRUE,
                   \/ NoFault /\ Return("paused", state)
                   \/ /\ Fault("emitAsked")
                      /\ \E t \in paused : Failing(runId, step + 1, state, nx, {}, {t.node}, "event"))
  BY Zenon DEF MergeAndPause, m, state, paused, completed
<1>9. ASSUME NEW w \in completed, Fail(runId, step + 1, m, next, {}, {w.task.node}, "route")
      PROVE  IInv'
  <2>1. StoreInv' /\ RunInv'
    BY <1>3, <1>7, <1>9, FailInv
  <2> QED BY <1>1, <2>1
<1>10. ASSUME NEW nx \in SUBSET Task, Fine(nx, {}),
              PutThen(runId, step + 1, state, nx, {}, "interrupt", TRUE,
                      \/ NoFault /\ Return("paused", state)
                      \/ /\ Fault("emitAsked")
                         /\ \E t \in paused : Failing(runId, step + 1, state, nx, {}, {t.node}, "event"))
       PROVE  IInv'
  <2>1. /\ UNCHANGED store \/ Put(runId, step + 1, state, nx, {}, "interrupt")
        /\ \/ Return("paused", state) \/ Return("error", EmptyState)
           \/ \E t \in paused : Failing(runId, step + 1, state, nx, {}, {t.node}, "event")
    BY <1>10, Zenon DEF PutThen, PutFails
  <2>2. StoreInv'
    <3>1. CASE UNCHANGED store
      BY <3>1 DEF StoreInv, Fine
    <3>2. CASE Put(runId, step + 1, state, nx, {}, "interrupt")
      BY <1>3, <1>4, <1>10, <3>2, PutInv
    <3> QED BY <2>1, <3>1, <3>2
  <2>3. ASSUME NEW t \in paused, Failing(runId, step + 1, state, nx, {}, {t.node}, "event")
        PROVE  RunInv'
    BY <1>3, <1>4, <1>7, <1>10, <2>3, FailingInv
  <2>4. RunInv'
    BY <1>3, <1>4, <2>1, <2>3, ReturnInv, EmptyStateType
  <2> QED BY <1>1, <2>2, <2>4
<1> QED BY <1>6, <1>8, <1>9, <1>10, Zenon

(* A merge followed by routing keeps the inductive invariant: the routed tasks are new ones. *)
LEMMA MergeAndRouteInv ==
  ASSUME IInv, MergeAndRoute
  PROVE  IInv'
PROOF
<1> USE DEF IInv
<1> DEFINE m == Merged(writes)
           node == {First(next).node}
           Continue(nx) == /\ pc' = "loop"
                           /\ step' = step + 1 /\ st' = m /\ next' = nx
                           /\ pending' = {} /\ execs' = {} /\ writes' = {} /\ resumed' = {}
                           /\ UNCHANGED <<runId, used, cancelled, result, answer>>
<1>1. CountInv'
  <2>1. Counted
    BY FaultCounted, Zenon DEF MergeAndRoute, PutThen, PutFails
  <2>2. UNCHANGED <<ids, invokes>>
    BY DEF MergeAndRoute
  <2> QED BY <2>1, <2>2 DEF CountInv, Counted
<1>2. /\ runId \in Nat /\ step + 1 \in Nat /\ m \in State
      /\ next \in SUBSET Task /\ Fine(next, {}) /\ Fine({}, {})
      /\ {"error", "completed"} \subseteq Results /\ {"completion", "step"} \subseteq Sources
      /\ {"event", "route"} \subseteq Causes
      /\ writes \in SUBSET Write /\ IsFiniteSet(writes)
  <2>1. RunInv
    BY DEF IInv
  <2>2. m \in State
    BY <2>1, MergedType DEF RunInv
  <2>3. Fine({}, {})
    BY FS_EmptySet DEF Fine, TasksOf
  <2>4. /\ runId \in Nat /\ step + 1 \in Nat
        /\ next \in SUBSET Task /\ writes \in SUBSET Write /\ IsFiniteSet(writes)
    BY <2>1 DEF RunInv
  <2>5. Fine(next, {})
    BY <2>1, FS_EmptySet DEF RunInv, Fine, TasksOf
  <2>6. /\ {"error", "completed"} \subseteq Results /\ {"completion", "step"} \subseteq Sources
        /\ {"event", "route"} \subseteq Causes
    BY DEF Results, Sources, Causes
  <2> HIDE DEF m
  <2> QED BY <2>2, <2>3, <2>4, <2>5, <2>6
<1>3. node \in SUBSET Nodes /\ \A w \in writes : {w.task.node} \in SUBSET Nodes
  <2>1. next # {}
    BY DEF RunInv, MergeAndRoute, Merging
  <2>2. First(next) \in Task
    BY <1>2, <2>1, FirstInList
  <2>3. \A w \in writes : w \in Write
    BY <1>2
  <2> QED BY <2>2, <2>3 DEF Write, Task
<1>4. \A goto \in Routings(writes) :
        LET nx == Listing({}, Routed(goto)) IN nx \in SUBSET Task /\ Fine(nx, {})
  <2> SUFFICES ASSUME NEW goto \in Routings(writes)
               PROVE  LET nx == Listing({}, Routed(goto)) IN nx \in SUBSET Task /\ Fine(nx, {})
    OBVIOUS
  <2>1. IsFiniteSet(Routed(goto)) /\ \A x \in Routed(goto) : x[3] \in Target
    BY <1>2, RoutedType
  <2>2. Listing({}, Routed(goto)) \in SUBSET Task /\ IsFiniteSet(Listing({}, Routed(goto)))
    BY <2>1, ListingType, FS_EmptySet
  <2> QED BY <2>2, FS_EmptySet DEF Fine, TasksOf
<1> HIDE DEF m, node
<1>5. \/ \E w \in writes : Fail(runId, step + 1, m, next, {}, {w.task.node}, "route")
      \/ Fail(runId, step + 1, m, {}, {}, node, "event")
      \/ \E goto \in Routings(writes) :
           LET nx == Listing({}, Routed(goto)) IN
           \/ PutThen(runId, step + 1, m, nx, {}, "completion", TRUE, NoFault /\ Return("completed", m))
           \/ PutThen(runId, step + 1, m, nx, {}, "step", FALSE, NoFault /\ Continue(nx))
  BY Zenon DEF MergeAndRoute, m, node
<1> HIDE DEF Continue
<1>6. ASSUME NEW w \in writes, Fail(runId, step + 1, m, next, {}, {w.task.node}, "route")
      PROVE  IInv'
  <2>1. StoreInv' /\ RunInv'
    BY <1>2, <1>3, <1>6, FailInv
  <2> QED BY <1>1, <2>1
<1>7. CASE Fail(runId, step + 1, m, {}, {}, node, "event")
  <2>1. StoreInv' /\ RunInv'
    BY <1>2, <1>3, <1>7, FailInv
  <2> QED BY <1>1, <2>1
<1>8. ASSUME NEW nx \in SUBSET Task, Fine(nx, {}),
             \/ PutThen(runId, step + 1, m, nx, {}, "completion", TRUE, NoFault /\ Return("completed", m))
             \/ PutThen(runId, step + 1, m, nx, {}, "step", FALSE, NoFault /\ Continue(nx))
      PROVE  IInv'
  <2>1. /\ UNCHANGED store \/ \E source \in Sources : Put(runId, step + 1, m, nx, {}, source)
        /\ Continue(nx) \/ Return("completed", m) \/ Return("error", EmptyState)
    BY <1>2, <1>8, Zenon DEF PutThen, PutFails
  <2>2. StoreInv'
    <3>1. CASE UNCHANGED store
      BY <3>1 DEF StoreInv, Fine
    <3>2. ASSUME NEW source \in Sources, Put(runId, step + 1, m, nx, {}, source)
          PROVE  StoreInv'
      BY <1>2, <1>8, <3>2, PutInv
    <3> QED BY <2>1, <3>1, <3>2
  <2>3. ASSUME Continue(nx)
        PROVE  RunInv'
    BY <1>2, <1>8, <2>3, FS_EmptySet DEF Continue, RunInv, Fine, TasksOf, Executed
  <2>4. RunInv'
    BY <1>2, <2>1, <2>3, ReturnInv, EmptyStateType
  <2> QED BY <1>1, <2>2, <2>4
<1> QED BY <1>4, <1>5, <1>6, <1>7, <1>8, Zenon

(* A failure outside a super-step keeps the inductive invariant. *)
LEMMA FailRunInv ==
  ASSUME IInv, FailRun
  PROVE  IInv'
PROOF
<1> USE DEF IInv
<1>1. CountInv'
  <2>1. Counted
    BY FaultCounted DEF FailRun, PutFails
  <2>2. UNCHANGED <<ids, invokes>>
    BY DEF FailRun
  <2> QED BY <2>1, <2>2 DEF CountInv, Counted
<1>2. /\ runId \in Nat /\ step \in Nat /\ st \in State /\ Fine(next, pending)
      /\ next \in SUBSET Task /\ pending \in SUBSET Write /\ result \in Results
      /\ "error" \in Results /\ "failure" \in Sources
  BY DEF RunInv, Results, Sources
<1>3. /\ UNCHANGED store \/ Put(runId, step, st, next, pending, "failure")
      /\ Return(result, st) \/ Return("error", EmptyState)
  BY DEF FailRun, PutFails
<1>4. StoreInv'
  <2>1. CASE UNCHANGED store
    BY <2>1 DEF StoreInv, Fine
  <2>2. CASE Put(runId, step, st, next, pending, "failure")
    BY <1>2, <2>2, PutInv
  <2> QED BY <1>3, <2>1, <2>2
<1>5. RunInv'
  BY <1>2, <1>3, ReturnInv, EmptyStateType
<1> QED BY <1>1, <1>4, <1>5

(* Cancelling the run keeps the inductive invariant. *)
LEMMA CancelInv ==
  ASSUME IInv, Cancel
  PROVE  IInv'
PROOF
<1> USE DEF IInv
<1>1. CountInv' /\ UNCHANGED store
  BY DEF CountInv, Cancel, Fault
<1>2. RunInv'
  BY DEF Cancel, RunInv, Fine, TasksOf, Executed
<1> QED BY <1>1, <1>2 DEF StoreInv, Fine

(* A process restart keeps the inductive invariant: only checkpoints survive it. *)
LEMMA RestartInv ==
  ASSUME IInv, Restart
  PROVE  IInv'
PROOF
<1> USE DEF IInv
<1>1. CountInv' /\ UNCHANGED store
  BY DEF CountInv, Restart, Fault
<1>2. RunInv'
  BY ReturnInv, EmptyStateType DEF Restart, Results
<1> QED BY <1>1, <1>2 DEF StoreInv, Fine

-----------------------------------------------------------------------------
(* The theorems *)

(* The inductive invariant: every checkpoint and every run keeps the tasks *)
(* it will run apart from the writes it already holds, and a super-step    *)
(* executes each of its tasks at most once.                                *)
THEOREM Inductive == Spec => []IInv
PROOF
<1>1. Init => IInv
  <2> SUFFICES ASSUME Init PROVE IInv
    OBVIOUS
  <2>1. StoreInv
    BY DEF Init, StoreInv
  <2>2. CountInv
    BY DEF Init, CountInv
  <2>3. RunInv
    BY EmptyStateType, FS_EmptySet, Zenon DEF Init, RunInv, Fine, TasksOf, Executed, Results
  <2> QED BY <2>1, <2>2, <2>3 DEF IInv
<1>2. IInv /\ [Next]_vars => IInv'
  <2> SUFFICES ASSUME IInv, [Next]_vars PROVE IInv'
    OBVIOUS
  <2>1. CASE UNCHANGED vars
    <3>1. UNCHANGED <<store, ids, faults, invokes, pc, runId, step, st, next, pending, execs,
                      writes, used, cancelled, resumed, result, answer>>
      BY <2>1 DEF vars, thread, volatile
    <3>2. StoreInv' /\ CountInv'
      BY <3>1 DEF IInv, StoreInv, CountInv, Fine
    <3>3. RunInv'
      BY <3>1 DEF IInv, RunInv, Fine, TasksOf, Executed
    <3> QED BY <3>2, <3>3 DEF IInv
  <2>2. CASE RunStep
    BY <2>2, FinishInv, BeginStepInv, ExecuteTaskInv, FailStepInv, CompleteNodesInv, CollectWriteInv,
       MergeFailsInv, MergeAndLeaveInv, MergeAndPauseInv, MergeAndRouteInv, FailRunInv DEF RunStep
  <2> QED BY <2>1, <2>2, InvokeInv, ResumeInv, CancelInv, RestartInv DEF Next
<1> QED BY <1>1, <1>2, PTL DEF Spec

(* The variables of a run and the checkpoints it stores keep their types. *)
THEOREM TypeCorrect == Spec => []TypeOK
PROOF
<1>1. IInv => TypeOK
  BY DEF IInv, StoreInv, CountInv, RunInv, TypeOK, Results
<1> QED BY <1>1, Inductive, PTL

(* Whatever fails, is cancelled, restarted or resumed, and in whatever     *)
(* graph: no checkpoint, and no run, lists a task whose write it holds.    *)
THEOREM NoTaskRunsTwice == Spec => []FinishedTasksStayFinished
PROOF
<1>1. IInv => FinishedTasksStayFinished
  BY DEF IInv, StoreInv, RunInv, Fine, FinishedTasksStayFinished
<1> QED BY <1>1, Inductive, PTL
=============================================================================
