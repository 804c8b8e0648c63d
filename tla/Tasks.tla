------------------------------- MODULE Tasks -------------------------------
(***************************************************************************)
(* The data of a super-step: tasks, the writes their handlers produce and  *)
(* the lists that are stored in checkpoints.  A task list is the set of    *)
(* its tasks, each with its place pos in the list: dropping a task leaves  *)
(* the places of the others alone, since only their relative order is ever *)
(* used.  The merge order of a write is order, which a task is given once, *)
(* from its index, and keeps from then on.                                 *)
(***************************************************************************)
EXTENDS Integers, Sequences, FiniteSets, SequencesExt

CONSTANTS Nodes,      \* user node ids
          NoArg,      \* a plain task: its handler reads the shared snapshot
          Args,       \* branch-local states a Send may carry
          Vals,       \* what a handler may compute
          StartRoutes,\* what the edges or the router of START may return
          Routes      \* per node, what its edges or its router may return

Target == [node : Nodes, arg : Args \cup {NoArg}]

Task == [pos : Nat, order : Nat, node : Nodes, arg : Args \cup {NoArg}]

(* A node output may carry a Command: goto targets, or control for the     *)
(* parent graph.                                                           *)
NoCommand == [to |-> "none", goto |-> {}]

ToParent == [to |-> "parent", goto |-> {}]

Goto(ts) == [to |-> "goto", goto |-> ts]

Command == {NoCommand, ToParent} \cup {Goto(ts) : ts \in SUBSET Target}

Write == [task : Task, in : Nat, val : Vals, cmd : Command]

ASSUME TasksAssumption ==
  /\ IsFiniteSet(Nodes) /\ IsFiniteSet(Args)
  /\ NoArg \notin Args
  /\ Vals # {}
  /\ StartRoutes \subseteq SUBSET Target
  /\ Routes \in [Nodes -> SUBSET SUBSET Target]

(* The part of the state a plain task reads; a Send reads its own state. *)
Snapshot(t, log) == IF t.arg = NoArg THEN Len(log) ELSE 0

TasksOf(ws) == {w.task : w \in ws}

(* The tasks that come before t in the list ts. *)
Before(t, ts) == {u \in ts : u.pos < t.pos}

First(ts) == CHOOSE t \in ts : Before(t, ts) = {}

(* What routing after write w may return. *)
RouteChoices(w) ==
  CASE w.cmd = NoCommand -> Routes[w.task.node]
    [] w.cmd = ToParent  -> {{}}
    [] OTHER             -> {w.cmd.goto}

(* The routings of a set of writes. *)
Routings(ws) ==
  {goto \in [ws -> UNION {RouteChoices(w) : w \in ws}] : \A w \in ws : goto[w] \in RouteChoices(w)}

(* Whether x comes before y: each has the order and the place of the write *)
(* that names it in front.                                                 *)
Earlier(x, y) == x[1] < y[1] \/ (x[1] = y[1] /\ x[2] < y[2])

(* A plain target is listed once, for the first write that names it, a     *)
(* Send once per write that sends it.                                      *)
Routed(goto) ==
  LET named == UNION {{<<w.task.order, w.task.pos, t>> : t \in goto[w]} : w \in DOMAIN goto}
  IN  {x \in named : x[3].arg = NoArg => \A y \in named : y[3] = x[3] => ~Earlier(y, x)}

(* The kept tasks followed by the routed targets, in the order of the      *)
(* writes; a task that has no order yet takes its index in the list.       *)
Listing(kept, routed) ==
  LET s == SetToSeq(routed)
      n == Cardinality(kept)
      index(k) == n + Cardinality({j \in DOMAIN s : Earlier(s[j], s[k]) \/ (~Earlier(s[k], s[j]) /\ j < k)})
  IN  {[t EXCEPT !.pos = Cardinality(Before(t, kept)) + 1] : t \in kept} \cup
      {[pos |-> index(k) + 1, order |-> index(k), node |-> s[k][3].node, arg |-> s[k][3].arg] : k \in DOMAIN s}

StartLists == {Listing({}, {<<0, 0, t>> : t \in R}) : R \in StartRoutes}
=============================================================================
