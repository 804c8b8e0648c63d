------------------------- MODULE GraphRunRefinement -------------------------
(***************************************************************************)
(* The thread a graph run leaves behind, read through its latest           *)
(* checkpoint, is the thread of SuperStep.tla: what getState shows is the  *)
(* merged super-steps, and the tasks of the one under way are those still  *)
(* listed together with those whose writes are pending.                    *)
(***************************************************************************)
EXTENDS GraphRun

Promised == INSTANCE SuperStep WITH
  started <- store # <<>>,
  log     <- Shown.state.log,
  active  <- Shown.next \cup TasksOf(Shown.pending),
  decided <- Shown.pending,
  asked   <- Shown.state.intr

(* Through its latest checkpoint a thread is a sequence of whole           *)
(* super-steps: failures, cancellations, restarts and resumes never lose a *)
(* finished task's write, merge it twice or merge half a super-step.       *)
RecoverySafe == Promised!Spec
=============================================================================
