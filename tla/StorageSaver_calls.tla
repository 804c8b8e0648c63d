------------------------- MODULE StorageSaver_calls -------------------------
(***************************************************************************)
(* What a getTuple has seen and a deleteThread has removed, step by step,  *)
(* whatever the other calls do.                                            *)
(***************************************************************************)
EXTENDS StorageSaver_types

-----------------------------------------------------------------------------
(* The part of the inductive invariant about getTuple and deleteThread. *)

(* A getTuple has seen what it holds; after the scan nothing that stayed is newer. *)
Reading(c) ==
  Busy(c) /\ call[c].req.op = "getTuple" =>
    /\ call[c].cur # None => call[c].cur \in present[c]
    /\ call[c].pc \in {"scanWrites", "tuple"} =>
         \A e \in stayed[c] : ~checkpointIsOlder(call[c].cur.cp, e.cp)

ReadInv == \A c \in Callers : Reading(c)

(* A deleteThread still has before it whatever stayed. *)
Deleting(c) ==
  Busy(c) /\ call[c].req.op = "deleteThread" =>
    /\ stayed[c] \subseteq (IF call[c].pc = "remove" THEN call[c].todo ELSE {})
    /\ call[c].pc = "dropWrites" => lasting[c] \subseteq call[c].ws

DeleteInv == \A c \in Callers : Deleting(c)

-----------------------------------------------------------------------------
(* getTuple and deleteThread: what the history variables say. *)

(* A step moves one call. *)
LEMMA StepMoves ==
  ASSUME TypeInv, StageInv, NEW c \in Callers
  PROVE  /\ Step(c) => Moves(c, call[c].req)
         /\ Fail(c) => Moves(c, call[c].req) /\ call'[c].pc = "failed" /\ records' = records
         /\ \A r \in Requests : Begin(c, r) => Moves(c, r)
PROOF
<1>1. Step(c) => Moves(c, call[c].req)
  BY PutKeeps, GetKeeps, RemoveKeeps, EraseKeeps, CopyKeeps DEF Step, Continue
<1>2. ASSUME Fail(c)
      PROVE  Moves(c, call[c].req) /\ call'[c].pc = "failed" /\ records' = records
  <2> DEFINE j == [call[c] EXCEPT !.pc = "failed"]
  <2>1. call[c] \in CallRecord /\ call[c].req \in Requests /\ call \in [Callers -> CallRecord]
    BY <1>2 DEF Fail, Stop, TypeInv, StageInv
  <2>2. j \in CallRecord /\ j.req = call[c].req /\ j.pc = "failed"
    BY <2>1 DEF CallRecord, Pcs
  <2>3. Goto(c, j) /\ records' = records
    BY <1>2 DEF Fail, Stop, storage
  <2> HIDE DEF j
  <2> QED BY <2>1, <2>2, <2>3, GotoKeeps, GotoFacts
<1> QED BY <1>1, <1>2, BeginKeeps

(* A step of c seen from another call: what it may have seen grows, what   *)
(* stayed shrinks, and once it has returned nothing changes.               *)
LEMMA Bystander ==
  ASSUME TypeInv, StageInv, NEW c \in Callers, NEW d \in Callers \ {c},
         Call(c) \/ Step(c) \/ Fail(c)
  PROVE  /\ call'[d] = call[d]
         /\ Busy(d) => /\ present[d] \subseteq present'[d] /\ stayed'[d] \subseteq stayed[d]
                       /\ lasting'[d] \subseteq lasting[d]
         /\ ~Busy(d) => present'[d] = present[d] /\ stayed'[d] = stayed[d] /\ lasting'[d] = lasting[d]
PROOF
<1>1. call'[d] = call[d]
  BY StepMoves DEF Moves, Call
<1>2. Observe({c}) \/ Observe({})
  BY DEF Call, Step, Fail
<1>3. IF Busy(d) THEN present[d] \subseteq present'[d] ELSE present'[d] = present[d]
  BY <1>2, Zenon DEF Observe
<1>4. IF Busy(d) THEN stayed'[d] \subseteq stayed[d] ELSE stayed'[d] = stayed[d]
  BY <1>2, Zenon DEF Observe
<1>5. IF Busy(d) THEN lasting'[d] \subseteq lasting[d] ELSE lasting'[d] = lasting[d]
  BY <1>2, Zenon DEF Observe
<1> QED BY <1>1, <1>3, <1>4, <1>5

(* What a running call observes of its own step. *)
LEMMA Watching ==
  ASSUME NEW c \in Callers, Busy(c), Observe({})
  PROVE  /\ present'[c] = present[c] \cup {e \in records' : e.place \in Watched(call'[c].req)}
         /\ stayed'[c] = stayed[c] \cap {e \in records' : e.place \in Watched(call'[c].req)}
         /\ lasting'[c] = lasting[c] \cap {w \in written' : w.place \in Watched(call'[c].req)}
PROOF BY DEF Observe

LatestOf(c) ==
  Returned(c, "getTuple") =>
    IF call[c].cur = None
    THEN stayed[c] = {}
    ELSE /\ call[c].cur \in present[c]
         /\ \A e \in stayed[c] : ~checkpointIsOlder(call[c].cur.cp, e.cp)

(* A step of another call does not disturb a getTuple. *)
LEMMA ReadBystander ==
  ASSUME TypeInv, StageInv, NEW c \in Callers, NEW d \in Callers \ {c},
         Call(c) \/ Step(c) \/ Fail(c), Reading(d), LatestOf(d)
  PROVE  Reading(d)' /\ LatestOf(d)'
PROOF
<1>1. call'[d] = call[d]
  BY Bystander
<1>2. CASE Busy(d)
  <2>1. present[d] \subseteq present'[d] /\ stayed'[d] \subseteq stayed[d]
    BY <1>2, Bystander
  <2>2. Reading(d)'
    BY <1>1, <1>2, <2>1 DEF Reading, Busy
  <2>3. LatestOf(d)'
    BY <1>1, <1>2 DEF LatestOf, Returned, Busy
  <2> QED BY <2>2, <2>3
<1>3. CASE ~Busy(d)
  <2>1. present'[d] = present[d] /\ stayed'[d] = stayed[d]
    BY <1>3, Bystander
  <2> QED BY <1>1, <1>3, <2>1 DEF Reading, LatestOf, Returned, Busy
<1> QED BY <1>2, <1>3

(* A call that is not a getTuple, or has just failed, has nothing to show. *)
LEMMA NotReading ==
  ASSUME StageInv', NEW c \in Callers, NEW r, Moves(c, r),
         r.op # "getTuple" \/ call'[c].pc = "failed"
  PROVE  Reading(c)' /\ LatestOf(c)'
PROOF
<1>1. CASE call'[c].pc = "failed"
  BY <1>1 DEF Reading, LatestOf, Busy, Returned
<1>2. CASE r.op # "getTuple"
  <2>1. call'[c].req = r \/ call'[c].req = None
    BY DEF Moves
  <2>2. Busy(c)' => call'[c].req # None
    BY RequestFields DEF StageInv
  <2> QED BY <1>2, <2>1, <2>2 DEF Reading, LatestOf, Returned
<1> QED BY <1>1, <1>2

(* The steps of a getTuple: what it holds it has seen, and after the scan  *)
(* nothing that stayed is newer.                                           *)
LEMMA ReadOwnStep ==
  ASSUME TypeInv, StageInv, NEW c \in Callers, Reading(c), Step(c), call[c].req.op = "getTuple"
  PROVE  Reading(c)' /\ LatestOf(c)'
PROOF
<1> DEFINE k == call[c]
           es == At({k.at})
<1>1. Busy(c) /\ k \in CallRecord /\ k.req \in Requests /\ Stage(k)
  BY Running DEF Step
<1>2. k.at = k.req.place /\ k.req # None /\ k.req.op = "getTuple"
  BY <1>1, RequestFields DEF Stage
<1>3. GetCheckpoint(c) \/ ReadCheckpointWrites(c) \/ Scan(c) \/ ReadTupleWrites(c)
  BY <1>1, Guards DEF Step, Continue, Stage
<1>4. records' = records
  BY <1>3 DEF GetCheckpoint, ReadCheckpointWrites, Scan, ReadTupleWrites, storage
<1>5. es \in SUBSET Entry /\ IsFiniteSet(es) /\ es \subseteq records
  BY FS_Subset DEF At, TypeInv
<1>6. ASSUME call'[c].req = k.req
      PROVE  present'[c] = present[c] \cup es /\ stayed'[c] = stayed[c] \cap es
  <2>1. Watched(call'[c].req) = {k.at}
    BY <1>2, <1>6 DEF Watched
  <2> QED BY <1>1, <1>4, <2>1, Watching DEF Step, At
<1>7. k.cur # None => k.cur \in present[c]
  BY <1>1, <1>2 DEF Reading
<1>8. k.pc \in {"scanWrites", "tuple"} => \A e \in stayed[c] : ~checkpointIsOlder(k.cur.cp, e.cp)
  BY <1>1, <1>2 DEF Reading
<1>9. ASSUME NEW j \in CallRecord, Goto(c, j), j.req = k.req, j.pc # "failed",
             j.cur # None => j.cur \in present[c] \cup es,
             j.pc \in {"scanWrites", "tuple", "done"} =>
               IF j.cur = None THEN es = {}
               ELSE \A e \in stayed[c] \cap es : ~checkpointIsOlder(j.cur.cp, e.cp)
      PROVE  Reading(c)' /\ LatestOf(c)'
  <2>1. call'[c].pc = j.pc /\ call'[c].req = k.req /\ call'[c].cur = j.cur
    BY <1>1, <1>2, <1>9, GotoFacts DEF TypeInv
  <2>2. present'[c] = present[c] \cup es /\ stayed'[c] = stayed[c] \cap es
    BY <1>6, <2>1
  <2>3. Reading(c)'
    <3>1. call'[c].cur # None => call'[c].cur \in present'[c]
      BY <1>9, <2>1, <2>2
    <3>2. ASSUME call'[c].pc \in {"scanWrites", "tuple"}, NEW e \in stayed'[c]
          PROVE  ~checkpointIsOlder(call'[c].cur.cp, e.cp)
      BY <1>9, <2>1, <2>2, <3>2, Zenon
    <3> QED BY <3>1, <3>2 DEF Reading, checkpointIsOlder
  <2>4. LatestOf(c)'
    <3>1. ASSUME call'[c].pc = "done", call'[c].cur = None
          PROVE  stayed'[c] = {}
      BY <1>9, <2>1, <2>2, <3>1
    <3>2. ASSUME call'[c].pc = "done", call'[c].cur # None
          PROVE  call'[c].cur \in present'[c] /\ \A e \in stayed'[c] : ~checkpointIsOlder(call'[c].cur.cp, e.cp)
      BY <1>9, <2>1, <2>2, <3>2, Zenon
    <3> QED BY <3>1, <3>2 DEF LatestOf, Returned, checkpointIsOlder
  <2> QED BY <2>3, <2>4
<1> HIDE DEF k, es
<1>10. CASE GetCheckpoint(c)
  <2>1. \/ Goto(c, [k EXCEPT !.pc = "scan"])
        \/ \E e \in es : Goto(c, [k EXCEPT !.pc = "getWrites", !.cur = e])
    BY <1>10, Zenon DEF GetCheckpoint, k, es
  <2>2. ASSUME Goto(c, [k EXCEPT !.pc = "scan"])
        PROVE  Reading(c)' /\ LatestOf(c)'
    <3> DEFINE j == [k EXCEPT !.pc = "scan"]
    <3>1. j \in CallRecord /\ j.req = k.req /\ j.pc = "scan" /\ j.cur = k.cur /\ Goto(c, j)
      BY <1>1, <2>2 DEF CallRecord, Pcs
    <3> HIDE DEF j
    <3> QED BY <1>7, <1>9, <3>1
  <2>3. ASSUME NEW e \in es, Goto(c, [k EXCEPT !.pc = "getWrites", !.cur = e])
        PROVE  Reading(c)' /\ LatestOf(c)'
    <3> DEFINE j == [k EXCEPT !.pc = "getWrites", !.cur = e]
    <3>1. j \in CallRecord /\ j.req = k.req /\ j.pc = "getWrites" /\ j.cur = e /\ Goto(c, j)
      BY <1>1, <1>5, <2>3, Zenon DEF CallRecord, Pcs
    <3> HIDE DEF j
    <3> QED BY <1>9, <3>1
  <2> QED BY <2>1, <2>2, <2>3
<1>11. CASE ReadCheckpointWrites(c)
  <2> DEFINE pc == IF k.pc = "getWrites" THEN "scan" ELSE "tuple"
             ws == Adopted(k.cur.cp.pend, readWrites(k.cur))
             j == [k EXCEPT !.pc = pc, !.got = ws]
  <2>1. Goto(c, j)
    BY <1>11 DEF ReadCheckpointWrites, k
  <2>2. k.cur \in Entry /\ k.cur # None /\ k.pc \in {"getWrites", "scanWrites"}
    BY <1>1, <1>11, Guards, StorageSaverAssumption DEF CallRecord, Stage, k
  <2>3. k.cur.cp.pend \in SUBSET Writes
    BY <2>2, CheckpointFields DEF Entry
  <2>4. ws \in SUBSET Writes /\ pc \in {"scan", "tuple"} /\ (pc = "tuple" => k.pc = "scanWrites")
    BY <2>2, <2>3, WritesType DEF Adopted
  <2> HIDE DEF pc, ws
  <2>5. j \in CallRecord /\ j.req = k.req /\ j.pc = pc /\ j.cur = k.cur
    BY <1>1, <2>4, Zenon DEF CallRecord, Pcs
  <2> HIDE DEF j
  <2> QED BY <1>7, <1>8, <1>9, <2>1, <2>2, <2>4, <2>5
<1>12. CASE Scan(c)
  <2>1. \/ es = {} /\ Goto(c, [k EXCEPT !.pc = IF k.cur = None THEN "done" ELSE "tuple"])
        \/ /\ es # {} /\ k.cur # None /\ ~checkpointIsOlder(k.cur.cp, Newest(es).cp)
           /\ Goto(c, [k EXCEPT !.pc = "tuple"])
        \/ es # {} /\ Goto(c, [k EXCEPT !.pc = "scanWrites", !.cur = Newest(es)])
    BY <1>12, Zenon DEF Scan, k, es
  <2>2. ASSUME es = {}, Goto(c, [k EXCEPT !.pc = IF k.cur = None THEN "done" ELSE "tuple"])
        PROVE  Reading(c)' /\ LatestOf(c)'
    <3> DEFINE j == [k EXCEPT !.pc = IF k.cur = None THEN "done" ELSE "tuple"]
    <3>1. j \in CallRecord /\ j.req = k.req /\ j.pc \in {"done", "tuple"} /\ j.cur = k.cur /\ Goto(c, j)
      BY <1>1, <2>2 DEF CallRecord, Pcs
    <3> HIDE DEF j
    <3> QED BY <1>7, <1>9, <2>2, <3>1
  <2>3. es # {} => Newest(es) \in es /\ \A f \in es : ~checkpointIsOlder(Newest(es).cp, f.cp)
    BY <1>5, NewestInList
  <2>4. ASSUME es # {}, k.cur # None, ~checkpointIsOlder(k.cur.cp, Newest(es).cp), Goto(c, [k EXCEPT !.pc = "tuple"])
        PROVE  Reading(c)' /\ LatestOf(c)'
    <3> DEFINE j == [k EXCEPT !.pc = "tuple"]
    <3>1. j \in CallRecord /\ j.req = k.req /\ j.pc = "tuple" /\ j.cur = k.cur /\ Goto(c, j)
      BY <1>1, <2>4 DEF CallRecord, Pcs
    <3>2. \A f \in es : ~checkpointIsOlder(k.cur.cp, f.cp)
      <4>1. k.cur.cp \in Checkpoints /\ Newest(es).cp \in Checkpoints /\ \A f \in es : f.cp \in Checkpoints
        BY <1>1, <1>5, <2>3, <2>4 DEF CallRecord, Entry
      <4> QED BY <2>3, <2>4, <4>1, CheckpointFields DEF checkpointIsOlder
    <3> HIDE DEF j
    <3> QED BY <1>7, <1>9, <2>4, <3>1, <3>2
  <2>5. ASSUME es # {}, Goto(c, [k EXCEPT !.pc = "scanWrites", !.cur = Newest(es)])
        PROVE  Reading(c)' /\ LatestOf(c)'
    <3> DEFINE j == [k EXCEPT !.pc = "scanWrites", !.cur = Newest(es)]
    <3>1. Newest(es) \in Entry /\ Newest(es) # None
      BY <1>5, <2>3, <2>5, StorageSaverAssumption
    <3>2. j \in CallRecord /\ j.req = k.req /\ j.pc = "scanWrites" /\ j.cur = Newest(es) /\ Goto(c, j)
      BY <1>1, <2>5, <3>1, Zenon DEF CallRecord, Pcs
    <3> HIDE DEF j
    <3> QED BY <1>9, <2>3, <2>5, <3>1, <3>2
  <2> QED BY <2>1, <2>2, <2>4, <2>5
<1>13. CASE ReadTupleWrites(c)
  <2> DEFINE ws == TuplePending(k.got, readWrites(k.cur))
             j == [k EXCEPT !.pc = "done", !.got = ws]
  <2>1. Goto(c, j)
    BY <1>13 DEF ReadTupleWrites, k
  <2>2. k.cur \in Entry /\ k.cur # None /\ k.got \in SUBSET Writes /\ k.pc = "tuple"
    BY <1>1, <1>13, Guards, StorageSaverAssumption DEF CallRecord, Stage, k
  <2>3. ws \in SUBSET Writes
    BY <2>2, WritesType DEF TuplePending
  <2> HIDE DEF ws
  <2>4. j \in CallRecord /\ j.req = k.req /\ j.pc = "done" /\ j.cur = k.cur
    BY <1>1, <2>3, Zenon DEF CallRecord, Pcs
  <2> HIDE DEF j
  <2> QED BY <1>7, <1>8, <1>9, <2>1, <2>2, <2>4
<1> QED BY <1>3, <1>10, <1>11, <1>12, <1>13

(* Every step keeps what getTuple promises. *)
LEMMA ReadStep ==
  ASSUME TypeInv, StageInv, ReadInv, LatestIsCurrent, [Next]_vars
  PROVE  ReadInv' /\ LatestIsCurrent'
PROOF
<1>1. \A d \in Callers : Reading(d) /\ LatestOf(d)
  BY DEF ReadInv, LatestIsCurrent, LatestOf
<1>2. StageInv'
  BY TypeStep
<1>3. SUFFICES \A d \in Callers : Reading(d)' /\ LatestOf(d)'
  BY DEF ReadInv, LatestIsCurrent, LatestOf
<1>4. CASE UNCHANGED vars
  BY <1>1, <1>4 DEF vars, history, Reading, LatestOf, Returned, Busy
<1>5. ASSUME NEW c \in Callers, Call(c) \/ Step(c) \/ Fail(c), NEW d \in Callers
      PROVE  Reading(d)' /\ LatestOf(d)'
  <2>1. CASE d # c
    BY <1>1, <1>5, <2>1, ReadBystander
  <2>2. CASE d = c /\ Step(c) /\ call[c].req.op = "getTuple"
    BY <1>1, <2>2, ReadOwnStep
  <2>3. CASE d = c /\ Step(c) /\ call[c].req.op # "getTuple"
    BY <1>2, <2>3, StepMoves, NotReading
  <2>4. CASE d = c /\ Fail(c)
    BY <1>2, <2>4, StepMoves, NotReading
  <2>5. CASE d = c /\ Call(c)
    <3>1. PICK r \in Requests : Begin(c, r)
      BY <2>5 DEF Call
    <3>2. CASE r.op # "getTuple"
      BY <1>2, <2>5, <3>1, <3>2, StepMoves, NotReading
    <3>3. CASE r.op = "getTuple"
      <4> DEFINE n == NewCall(r)
                 j == [n EXCEPT !.at = r.place, !.id = pointer[r.place],
                                !.pc = IF pointer[r.place] = NoId THEN "scan" ELSE "get"]
      <4>1. Goto(c, j)
        BY <3>1, <3>3 DEF Begin, Put, GetTuple, Prune, DeleteForRuns, DeleteThread, CopyThread
      <4>2. n \in CallRecord /\ n.req = r
        BY NewCallType DEF NewCall
      <4>3. n.cur = None
        BY DEF NewCall
      <4> HIDE DEF n
      <4>4. r.place \in Places /\ pointer[r.place] \in Nat
        BY <3>3, RequestFields DEF TypeInv
      <4>5. j \in CallRecord /\ j.req = r /\ j.cur = n.cur /\ j.pc \in {"scan", "get"}
        BY <4>2, <4>4, Zenon DEF CallRecord, Pcs
      <4> HIDE DEF j
      <4>6. call'[c] = j
        <5>1. call \in [Callers -> CallRecord]
          BY DEF TypeInv
        <5> QED BY <4>1, <4>5, <5>1, GotoFacts
      <4> QED BY <2>5, <4>3, <4>5, <4>6 DEF Reading, LatestOf, Returned, Busy
    <3> QED BY <3>2, <3>3
  <2> QED BY <1>5, <2>1, <2>2, <2>3, <2>4, <2>5
<1> QED BY <1>4, <1>5 DEF Next

DeletedOf(c) == Returned(c, "deleteThread") => stayed[c] = {} /\ lasting[c] = {}

(* A step of another call does not disturb a deleteThread. *)
LEMMA DeleteBystander ==
  ASSUME TypeInv, StageInv, NEW c \in Callers, NEW d \in Callers \ {c},
         Call(c) \/ Step(c) \/ Fail(c), Deleting(d), DeletedOf(d)
  PROVE  Deleting(d)' /\ DeletedOf(d)'
PROOF
<1>1. call'[d] = call[d]
  BY Bystander
<1>2. CASE Busy(d)
  <2>1. stayed'[d] \subseteq stayed[d] /\ lasting'[d] \subseteq lasting[d]
    BY <1>2, Bystander
  <2>2. Deleting(d)'
    BY <1>1, <1>2, <2>1 DEF Deleting, Busy
  <2>3. DeletedOf(d)'
    BY <1>1, <1>2 DEF DeletedOf, Returned, Busy
  <2> QED BY <2>2, <2>3
<1>3. CASE ~Busy(d)
  <2>1. stayed'[d] = stayed[d] /\ lasting'[d] = lasting[d]
    BY <1>3, Bystander
  <2> QED BY <1>1, <1>3, <2>1 DEF Deleting, DeletedOf, Returned, Busy
<1> QED BY <1>2, <1>3

(* A call that is not a deleteThread, or has just failed, has nothing to show. *)
LEMMA NotDeleting ==
  ASSUME StageInv', NEW c \in Callers, NEW r, Moves(c, r),
         r.op # "deleteThread" \/ call'[c].pc = "failed"
  PROVE  Deleting(c)' /\ DeletedOf(c)'
PROOF
<1>1. CASE call'[c].pc = "failed"
  BY <1>1 DEF Deleting, DeletedOf, Busy, Returned
<1>2. CASE r.op # "deleteThread"
  <2>1. call'[c].req = r \/ call'[c].req = None
    BY DEF Moves
  <2>2. Busy(c)' => call'[c].req # None
    BY RequestFields DEF StageInv
  <2> QED BY <1>2, <2>1, <2>2 DEF Deleting, DeletedOf, Returned
<1> QED BY <1>1, <1>2

(* The steps of a deleteThread: what it has passed did not stay. *)
LEMMA DeleteOwnStep ==
  ASSUME TypeInv, StageInv, NEW c \in Callers, Deleting(c), Step(c), call[c].req.op = "deleteThread"
  PROVE  Deleting(c)' /\ DeletedOf(c)'
PROOF
<1> DEFINE k == call[c]
<1>1. Busy(c) /\ k \in CallRecord /\ k.req \in Requests /\ Stage(k)
  BY Running DEF Step
<1>2. k.req # None /\ k.req.op = "deleteThread" /\ k.req.places \in SUBSET Places /\ Erases(k.req)
  BY <1>1, RequestFields DEF Erases
<1>3. RemoveRecord(c) \/ FindPointers(c) \/ DropPointer(c) \/ FindThreadWrites(c) \/ DropWrite(c)
  BY <1>1, <1>2, Guards DEF Step, Continue, Stage
<1>4. stayed[c] \subseteq (IF k.pc = "remove" THEN k.todo ELSE {}) /\ (k.pc = "dropWrites" => lasting[c] \subseteq k.ws)
  BY <1>1, <1>2 DEF Deleting
<1>5. AfterErasure(k) = "done"
  BY <1>2 DEF AfterErasure
<1>6. ASSUME NEW j \in CallRecord, Goto(c, j), j.req = k.req, j.pc # "failed",
             stayed[c] \cap records' \subseteq (IF j.pc = "remove" THEN j.todo ELSE {}),
             j.pc = "dropWrites" => lasting[c] \cap {w \in written' : w.place \in k.req.places} \subseteq j.ws,
             j.pc = "done" => lasting[c] \cap {w \in written' : w.place \in k.req.places} = {}
      PROVE  Deleting(c)' /\ DeletedOf(c)'
  <2>1. call'[c].pc = j.pc /\ call'[c].req = k.req /\ (j.pc # "done" => call'[c] = j)
    <3>1. call \in [Callers -> CallRecord] /\ j.req \in Requests /\ j.req.op = "deleteThread"
      BY <1>1, <1>2, <1>6 DEF TypeInv
    <3>2. CASE j.pc = "done"
      BY <1>6, <3>1, <3>2, GotoFacts
    <3>3. CASE j.pc # "done"
      <4>1. call'[c] = j
        BY <1>6, <3>1, <3>3, GotoFacts
      <4> QED BY <1>6, <4>1
    <3> QED BY <3>2, <3>3
  <2>2. Watched(call'[c].req) = k.req.places
    BY <1>2, <2>1 DEF Watched
  <2>3. stayed'[c] \subseteq stayed[c] \cap records' /\ lasting'[c] = lasting[c] \cap {w \in written' : w.place \in k.req.places}
    BY <1>1, <2>2, Watching DEF Step
  <2>4. Deleting(c)'
    BY <1>6, <2>1, <2>3 DEF Deleting, Busy
  <2>5. DeletedOf(c)'
    BY <1>6, <2>1, <2>3 DEF DeletedOf, Returned
  <2> QED BY <2>4, <2>5
<1> HIDE DEF k
<1>7. CASE RemoveRecord(c)
  <2>1. PICK e \in k.todo :
          /\ records' = {f \in records : ~SameKey(e, f)}
          /\ Goto(c, IF Erases([k EXCEPT !.todo = @ \ {e}].req)
                     THEN [[k EXCEPT !.todo = @ \ {e}] EXCEPT !.pc = AfterRemoval([k EXCEPT !.todo = @ \ {e}])]
                     ELSE [[k EXCEPT !.todo = @ \ {e}] EXCEPT !.pc = "findWrites", !.cur = e])
    BY <1>7, Zenon DEF RemoveRecord, k
  <2> DEFINE i == [k EXCEPT !.todo = @ \ {e}]
  <2>2. i \in CallRecord /\ i.req = k.req /\ i.todo = k.todo \ {e}
    BY <1>1 DEF CallRecord
  <2>3. Goto(c, IF Erases(i.req) THEN [i EXCEPT !.pc = AfterRemoval(i)]
                                 ELSE [i EXCEPT !.pc = "findWrites", !.cur = e])
    BY <2>1
  <2> HIDE DEF i
  <2> DEFINE j == [i EXCEPT !.pc = AfterRemoval(i)]
  <2>4. Goto(c, j)
    BY <1>2, <2>2, <2>3
  <2>5. AfterRemoval(i) = IF i.todo # {} THEN "remove" ELSE "findPointers"
    BY <1>1, <1>2, <2>2, AfterRemovalPc
  <2>6. j \in CallRecord /\ j.req = k.req /\ j.pc = AfterRemoval(i) /\ j.todo = k.todo \ {e}
    BY <2>2, <2>5 DEF CallRecord, Pcs
  <2>7. e \notin records' /\ k.pc = "remove"
    BY <1>7, <2>1, Guards DEF SameKey, k
  <2> HIDE DEF j
  <2> QED BY <1>4, <1>6, <2>2, <2>4, <2>5, <2>6, <2>7
<1>8. CASE FindPointers(c)
  <2> DEFINE found == {p \in k.req.places : pointer[p] # NoId}
             j == [k EXCEPT !.fix = found, !.pc = IF found # {} THEN "dropPointers" ELSE "findThreadWrites"]
  <2>1. found \in SUBSET Places
    BY <1>2
  <2>2. Goto(c, j)
    BY <1>8, Zenon DEF FindPointers, k
  <2> HIDE DEF found
  <2>3. j \in CallRecord /\ j.req = k.req /\ j.pc \in {"dropPointers", "findThreadWrites"}
    BY <1>1, <2>1 DEF CallRecord, Pcs
  <2>4. stayed[c] = {}
    BY <1>4, <1>8, Guards DEF k
  <2> HIDE DEF j
  <2> QED BY <1>6, <2>2, <2>3, <2>4
<1>9. CASE DropPointer(c)
  <2>1. PICK p \in k.fix :
          Goto(c, [k EXCEPT !.fix = @ \ {p}, !.pc = IF k.fix = {p} THEN "findThreadWrites" ELSE @])
    BY <1>9, Zenon DEF DropPointer, k
  <2> DEFINE j == [k EXCEPT !.fix = @ \ {p}, !.pc = IF k.fix = {p} THEN "findThreadWrites" ELSE @]
  <2>2. k.pc = "dropPointers"
    BY <1>9, Guards DEF k
  <2>3. j \in CallRecord /\ j.req = k.req /\ j.pc \in {"dropPointers", "findThreadWrites"}
    BY <1>1, <2>2 DEF CallRecord, Pcs
  <2>4. stayed[c] = {} /\ Goto(c, j)
    BY <1>4, <2>1, <2>2
  <2> HIDE DEF j
  <2> QED BY <1>6, <2>3, <2>4
<1>10. CASE FindThreadWrites(c)
  <2> DEFINE found == WrittenAt(k.req.places)
             j == [k EXCEPT !.ws = found, !.pc = IF found # {} THEN "dropWrites" ELSE AfterErasure(k)]
  <2>1. found \in SUBSET Written /\ found = {w \in written' : w.place \in k.req.places}
    BY <1>10 DEF FindThreadWrites, storage, WrittenAt, TypeInv
  <2>2. Goto(c, j)
    BY <1>10, Zenon DEF FindThreadWrites, k
  <2> HIDE DEF found
  <2>3. j \in CallRecord /\ j.req = k.req /\ j.pc = (IF found # {} THEN "dropWrites" ELSE "done") /\ j.ws = found
    BY <1>1, <1>5, <2>1 DEF CallRecord, Pcs
  <2>4. stayed[c] = {}
    BY <1>4, <1>10, Guards DEF k
  <2> HIDE DEF j
  <2> QED BY <1>6, <2>1, <2>2, <2>3, <2>4
<1>11. CASE DropWrite(c)
  <2>1. PICK w \in k.ws :
          /\ written' = written \ {w}
          /\ Goto(c, [[k EXCEPT !.ws = @ \ {w}] EXCEPT !.pc =
                        IF [k EXCEPT !.ws = @ \ {w}].ws # {} THEN @
                        ELSE IF Erases([k EXCEPT !.ws = @ \ {w}].req) THEN AfterErasure([k EXCEPT !.ws = @ \ {w}])
                        ELSE AfterRemoval([k EXCEPT !.ws = @ \ {w}])])
    BY <1>11, Zenon DEF DropWrite, k
  <2> DEFINE i == [k EXCEPT !.ws = @ \ {w}]
             j == [i EXCEPT !.pc = IF i.ws # {} THEN @ ELSE IF Erases(i.req) THEN AfterErasure(i) ELSE AfterRemoval(i)]
  <2>2. i \in CallRecord /\ i.req = k.req /\ i.pc = "dropWrites" /\ i.ws = k.ws \ {w}
    BY <1>1, <1>11, Guards DEF CallRecord, k
  <2>3. Goto(c, j)
    BY <2>1
  <2> HIDE DEF i
  <2>4. Erases(i.req) /\ AfterErasure(i) = "done"
    BY <1>2, <2>2 DEF AfterErasure
  <2>5. j \in CallRecord /\ j.req = k.req /\ j.pc = (IF i.ws # {} THEN "dropWrites" ELSE "done") /\ j.ws = k.ws \ {w}
    BY <2>2, <2>4 DEF CallRecord, Pcs
  <2>6. stayed[c] = {} /\ lasting[c] \subseteq k.ws
    BY <1>4, <1>11, Guards DEF k
  <2> HIDE DEF j
  <2> QED BY <1>6, <2>1, <2>2, <2>3, <2>5, <2>6
<1> QED BY <1>3, <1>7, <1>8, <1>9, <1>10, <1>11

(* Every step keeps what deleteThread promises. *)
LEMMA DeleteStep ==
  ASSUME TypeInv, StageInv, DeleteInv, DeletionComplete, [Next]_vars
  PROVE  DeleteInv' /\ DeletionComplete'
PROOF
<1>1. \A d \in Callers : Deleting(d) /\ DeletedOf(d)
  BY DEF DeleteInv, DeletionComplete, DeletedOf
<1>2. StageInv'
  BY TypeStep
<1>3. SUFFICES \A d \in Callers : Deleting(d)' /\ DeletedOf(d)'
  BY DEF DeleteInv, DeletionComplete, DeletedOf
<1>4. CASE UNCHANGED vars
  BY <1>1, <1>4 DEF vars, history, Deleting, DeletedOf, Returned, Busy
<1>5. ASSUME NEW c \in Callers, Call(c) \/ Step(c) \/ Fail(c), NEW d \in Callers
      PROVE  Deleting(d)' /\ DeletedOf(d)'
  <2>1. CASE d # c
    BY <1>1, <1>5, <2>1, DeleteBystander
  <2>2. CASE d = c /\ Step(c) /\ call[c].req.op = "deleteThread"
    BY <1>1, <2>2, DeleteOwnStep
  <2>3. CASE d = c /\ Step(c) /\ call[c].req.op # "deleteThread"
    BY <1>2, <2>3, StepMoves, NotDeleting
  <2>4. CASE d = c /\ Fail(c)
    BY <1>2, <2>4, StepMoves, NotDeleting
  <2>5. CASE d = c /\ Call(c)
    <3>1. PICK r \in Requests : Begin(c, r)
      BY <2>5 DEF Call
    <3>2. CASE r.op # "deleteThread"
      BY <1>2, <2>5, <3>1, <3>2, StepMoves, NotDeleting
    <3>3. CASE r.op = "deleteThread"
      <4> DEFINE n == NewCall(r)
                 i == [n EXCEPT !.todo = At(r.places), !.fix = {}]
                 j == [i EXCEPT !.pc = AfterRemoval(i)]
      <4>1. Goto(c, j) /\ records' = records
        BY <3>1, <3>3 DEF Begin, Put, GetTuple, Prune, DeleteForRuns, DeleteThread, CopyThread, ListRemovals, storage
      <4>2. n \in CallRecord /\ n.req = r
        BY NewCallType DEF NewCall
      <4> HIDE DEF n
      <4>3. At(r.places) \in SUBSET Entry /\ At(r.places) = {e \in records : e.place \in r.places}
        BY DEF At, TypeInv
      <4>4. i \in CallRecord /\ i.req = r /\ i.todo = At(r.places)
        BY <4>2, <4>3 DEF CallRecord
      <4> HIDE DEF i
      <4>5. AfterRemoval(i) = IF i.todo # {} THEN "remove" ELSE "findPointers"
        BY <3>3, <4>4, AfterRemovalPc DEF Erases
      <4>6. j \in CallRecord /\ j.req = r /\ j.todo = i.todo /\ j.pc = AfterRemoval(i)
        BY <4>4, <4>5 DEF CallRecord, Pcs
      <4> HIDE DEF j
      <4>7. call'[c] = j
        BY <4>1, <4>5, <4>6, GotoFacts DEF TypeInv
      <4>8. stayed'[c] = At(r.places)
        <5>1. Watched(call'[c].req) = r.places
          BY <3>3, <4>6, <4>7, RequestFields DEF Watched
        <5>2. Observe({c})
          BY <2>5 DEF Call
        <5>3. stayed'[c] = {e \in records' : e.place \in Watched(call'[c].req)}
          BY <5>2 DEF Observe
        <5> QED BY <4>1, <4>3, <5>1, <5>3
      <4> QED BY <2>5, <4>4, <4>5, <4>6, <4>7, <4>8 DEF Deleting, DeletedOf, Returned, Busy
    <3> QED BY <3>2, <3>3
  <2> QED BY <1>5, <2>1, <2>2, <2>3, <2>4, <2>5
<1> QED BY <1>4, <1>5 DEF Next
=============================================================================
