----------------------------- MODULE SuperStep -----------------------------
(***************************************************************************)
(* What a persisted graph run promises, seen through its latest            *)
(* checkpoint: a thread is a log of merged super-steps, the tasks of the   *)
(* super-step under way, and the writes of that super-step that are        *)
(* already decided.  A decided write is never recomputed, lost or merged   *)
(* early; a super-step is merged once, as a whole, and every write of it   *)
(* was computed from the snapshot the super-step began with.  A task runs  *)
(* again after its super-step is merged only if it asked for an interrupt. *)
(***************************************************************************)
EXTENDS Tasks

VARIABLES started, log, active, decided, asked

vars == <<started, log, active, decided, asked>>

(* ws holds one write for each task of ts, computed from the snapshot. *)
Covers(ws, ts) ==
  /\ TasksOf(ws) = ts
  /\ \A v, w \in ws : v.task = w.task => v = w
  /\ \A w \in ws : w.in = Snapshot(w.task, log)

Init ==
  /\ started = FALSE
  /\ log = <<>>
  /\ active = {}
  /\ decided = {}
  /\ asked = {}

Start ==
  /\ ~started
  /\ started' = TRUE
  /\ active' \in StartLists
  /\ UNCHANGED <<log, decided, asked>>

(* Writes of some tasks become durable before the super-step is complete; *)
(* the interrupts that were asked for may have been answered.             *)
Decide ==
  /\ decided \subseteq decided'
  /\ TasksOf(decided') \subseteq active
  /\ active # {} => TasksOf(decided') # active
  /\ Covers(decided', TasksOf(decided'))
  /\ asked' \in {asked, {}}
  /\ UNCHANGED <<started, log, active>>

(* The super-step is merged as a whole. *)
MergeAll(ws) ==
  /\ active # {}
  /\ log' = Append(log, ws)
  /\ decided \subseteq ws
  /\ Covers(ws, active)
  /\ decided' = {}
  /\ UNCHANGED started

(* The tasks of paused asked for an interrupt: they are kept for the       *)
(* resume, in front of what the completed ones route to.                   *)
Advance(paused) ==
  \E ws \in {log'[Len(log')]} :
    /\ MergeAll(ws)
    /\ asked' = paused
    /\ \E goto \in Routings({w \in ws : w.task \notin paused}) :
         active' = Listing(paused, Routed(goto))

Commit == log' # <<>> /\ Advance({})

Pause ==
  /\ log' # <<>>
  /\ \E paused \in SUBSET (active \ TasksOf(decided)) : paused # {} /\ Advance(paused)

(* A subgraph hands control back to its parent. *)
Leave ==
  /\ log' # <<>>
  /\ \E ws \in {log'[Len(log')]} :
       /\ MergeAll(ws)
       /\ \E w \in ws : w.cmd = ToParent
       /\ active' = {}
       /\ asked' = {}

Next == Start \/ Decide \/ Commit \/ Pause \/ Leave

Spec == Init /\ [][Next]_vars
=============================================================================
