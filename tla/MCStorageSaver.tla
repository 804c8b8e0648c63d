--------------------------- MODULE MCStorageSaver ---------------------------
(* Small storages for the model checker. *)
EXTENDS StorageSaver, TLC

CallerSymmetry == Permutations(Callers)

MCPlaces == {"t", "u"} \X {"root", "child"}

Root == <<"t", "root">>
Child == <<"t", "child">>
Thread == {Root, Child}
Target == {<<"u", "root">>, <<"u", "child">>}

(* The initial checkpoint of a run, of its super-step the task-level       *)
(* "run-step-1-writes-2" and the final "run-step-1", and a checkpoint of   *)
(* the next run.                                                           *)
Initial == [id |-> 1, parent |-> 0, run |-> "r", step |-> 0, ms |-> 1, pend |-> {}]
TaskWrites == [id |-> 3, parent |-> 1, run |-> "r", step |-> 1, ms |-> 2, pend |-> {"v", "w"}]
Merged == [id |-> 2, parent |-> 1, run |-> "r", step |-> 1, ms |-> 3, pend |-> {}]
Later == [id |-> 4, parent |-> 2, run |-> "s", step |-> 2, ms |-> 4, pend |-> {"v", "w"}]

(* The id of the task-level checkpoint, used again by another process *)
Rival == [TaskWrites EXCEPT !.ms = 5, !.pend = {}]

(* The final checkpoint, stored in the millisecond of the task-level one *)
MergedAtOnce == [Merged EXCEPT !.parent = 3, !.ms = 2]

WithPending(xs) == {[x EXCEPT !.pend = ws] : x \in xs, ws \in SUBSET Writes}

MCCheckpoints == WithPending({Initial, TaskWrites, Rival, Merged, Later})

QuickCheckpoints == WithPending({Initial, TaskWrites, MergedAtOnce})

(* A thread that has run before *)
MCFound == {[place |-> Root, cp |-> x] : x \in {TaskWrites, Merged}}

QuickFound == {[place |-> Root, cp |-> Initial]}

Puts(xs, ps) == {[op |-> "put", entry |-> [place |-> p, cp |-> x]] : x \in xs, p \in ps}

Gets(ps) == {[op |-> "getTuple", place |-> p] : p \in ps}

Prunes(keep) == {[op |-> "prune", place |-> Root, keep |-> k] : k \in keep}

Deletions == {[op |-> "deleteThread", places |-> Thread],
              [op |-> "deleteForRuns", places |-> Thread, run |-> "r"]}

Copies == {[op |-> "copyThread", from |-> Thread, places |-> Target, overwrite |-> o,
            to |-> [p \in MCPlaces |-> <<"u", p[2]>>]] : o \in BOOLEAN}

MCRequests ==
  Puts({Rival, Later}, {Root}) \cup Puts({Initial}, {Child}) \cup Gets({Root})
    \cup Prunes({1}) \cup Deletions \cup Copies

QuickRequests == Puts({TaskWrites, MergedAtOnce}, {Root}) \cup Gets({Root})
=============================================================================
