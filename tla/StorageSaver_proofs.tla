------------------------ MODULE StorageSaver_proofs ------------------------
(***************************************************************************)
(* For every set of callers, places, checkpoints and requests: the latest  *)
(* checkpoint is found, what put has acknowledged stays, deletions are     *)
(* complete and prunes keep the newest of what they have listed.           *)
(***************************************************************************)
EXTENDS StorageSaver_calls

-----------------------------------------------------------------------------
(* The inductive invariant. *)

(* The storage has one value under a key (InsertRecord puts none over another). *)
OneCheckpointPerId == \A e, f \in records : SameKey(e, f) => e = f

(* What a put that was left intact has stored, and still has to store. *)
Storing(c) ==
  intact[c] =>
    /\ Busy(c) /\ call[c].req.op = "put" /\ call[c].cur \in records
    /\ WriteKeys(call[c].cur, call[c].cur.cp.pend) \subseteq written \cup call[c].ws

AckInv == intact \in [Callers -> BOOLEAN] /\ \A c \in Callers : Storing(c)

(* e is not the newest checkpoint of its place, or was not until one went  *)
(* beside the prunes under way.                                            *)
Covered(e) ==
  \E f \in records \cup erased : f.place = e.place /\ checkpointIsOlder(e.cp, f.cp)

PruneInv ==
  \A c \in Callers : Busy(c) /\ ~MayEraseNewest(call[c].req) =>
    \A e \in call[c].todo : Covered(e)

Inv ==
  /\ TypeInv /\ StageInv /\ ReadInv /\ DeleteInv /\ PruneInv /\ AckInv
  /\ LatestIsCurrent /\ OneCheckpointPerId /\ DeletionComplete /\ AcknowledgedPutsStay

-----------------------------------------------------------------------------
(* The records: one per id, and what prune leaves. *)

Grows == \E x : records' = records \cup {x} /\ \A e \in records : ~SameKey(e, x)

(* Only an insert adds to the records, and only RemoveRecord takes away. *)
LEMMA RecordsChange ==
  ASSUME NEW c \in Callers
  PROVE  /\ \A r \in Requests : Begin(c, r) => records' = records \/ Grows
         /\ Continue(c) => RemoveRecord(c) \/ records' = records \/ Grows
PROOF
<1>1. ASSUME NEW k, InsertRecord(c, k)
      PROVE  records' = records \/ Grows
  BY <1>1, Zenon DEF InsertRecord, Grows
<1>2. ASSUME NEW r \in Requests, Begin(c, r)
      PROVE  records' = records \/ Grows
  <2>1. Put(c, r) => records' = records \/ Grows
    BY <1>1, Zenon DEF Put
  <2>2. GetTuple(c, r) \/ Prune(c, r) \/ DeleteForRuns(c, r) \/ DeleteThread(c, r) \/ CopyThread(c, r) => records' = records
    BY Zenon DEF GetTuple, Prune, DeleteForRuns, DeleteThread, CopyThread, ListRemovals, ListSource, storage
  <2> QED BY <1>2, <2>1, <2>2 DEF Begin
<1>3. SetPointer(c) \/ PutWrite(c) => records' = records
  BY Zenon DEF SetPointer, PutWrite
<1>4. GetCheckpoint(c) \/ ReadCheckpointWrites(c) \/ Scan(c) \/ ReadTupleWrites(c) => records' = records
  BY Zenon DEF GetCheckpoint, ReadCheckpointWrites, Scan, ReadTupleWrites, storage
<1>5. FindWrites(c) \/ DropWrite(c) \/ Rescan(c) \/ RepairPointer(c) => records' = records
  BY Zenon DEF FindWrites, DropWrite, Rescan, RepairPointer, storage
<1>6. FindPointers(c) \/ DropPointer(c) \/ FindThreadWrites(c) => records' = records
  BY Zenon DEF FindPointers, DropPointer, FindThreadWrites, storage
<1>7. ListAfterErasure(c) \/ Gather(c) => records' = records
  BY Zenon DEF ListAfterErasure, ListSource, Gather, storage
<1>8. CopyRecord(c) => records' = records \/ Grows
  BY <1>1, Zenon DEF CopyRecord
<1> QED BY <1>2, <1>3, <1>4, <1>5, <1>6, <1>7, <1>8, Zenon DEF Continue

(* Ids stay unique. *)
LEMMA UniqueStep ==
  ASSUME TypeInv, StageInv, OneCheckpointPerId, [Next]_vars
  PROVE  OneCheckpointPerId'
PROOF
<1>1. records' \subseteq records \/ Grows
  <2>1. ASSUME NEW c \in Callers, RemoveRecord(c)
        PROVE  records' \subseteq records
    BY <2>1, Zenon DEF RemoveRecord
  <2>2. ASSUME NEW c \in Callers, Fail(c)
        PROVE  records' = records
    BY <2>2, StepMoves
  <2>3. UNCHANGED vars => records' = records
    BY DEF vars, storage
  <2> QED BY <2>1, <2>2, <2>3, RecordsChange, Zenon DEF Next, Call, Step
<1>2. CASE records' \subseteq records
  BY <1>2 DEF OneCheckpointPerId, SameKey
<1>3. CASE Grows
  <2>1. PICK x : records' = records \cup {x} /\ \A e \in records : ~SameKey(e, x)
    BY <1>3 DEF Grows
  <2>2. ASSUME NEW e \in records', NEW f \in records', SameKey(e, f)
        PROVE  e = f
    BY <2>1, <2>2 DEF OneCheckpointPerId, SameKey
  <2> QED BY <2>2 DEF OneCheckpointPerId, SameKey
<1> QED BY <1>1, <1>2, <1>3

(* A prune lists only checkpoints that have a newer one in their place. *)
LEMMA SurplusIsCovered ==
  ASSUME TypeInv, NEW p, NEW keep \in Nat, keep # 0, NEW e \in Surplus(At({p}), keep)
  PROVE  e \in Entry /\ Covered(e)
PROOF
<1> DEFINE newer == {f \in At({p}) : checkpointIsOlder(e.cp, f.cp)}
<1>1. e \in At({p}) /\ Cardinality(newer) >= keep
  BY DEF Surplus
<1>2. newer # {}
  <2>1. Cardinality({}) = 0
    BY FS_EmptySet
  <2> HIDE DEF newer
  <2> QED BY <1>1, <2>1
<1>3. PICK f \in At({p}) : checkpointIsOlder(e.cp, f.cp)
  BY <1>2
<1> QED BY <1>1, <1>3 DEF Covered, At, TypeInv

(* A running prune never lists more than it has listed at first. *)
LEMMA TodoShrinks ==
  ASSUME TypeInv, StageInv, NEW c \in Callers, Continue(c), call[c].req.op = "prune", Busy(c)'
  PROVE  call'[c].todo \subseteq call[c].todo
PROOF
<1> DEFINE k == call[c]
<1>1. k \in CallRecord /\ k.req \in Requests /\ Stage(k)
  BY Running
<1>2. RemoveRecord(c) \/ FindWrites(c) \/ DropWrite(c) \/ Rescan(c) \/ RepairPointer(c)
  BY <1>1, Guards DEF Continue, Stage
<1>3. ASSUME NEW j, Goto(c, j), j.todo \subseteq k.todo
      PROVE  call'[c].todo \subseteq k.todo
  <2>1. call'[c] = Settled(j)
    BY <1>3 DEF Goto, TypeInv
  <2>2. CASE j.pc \notin {"done", "failed"}
    BY <1>3, <2>1, <2>2 DEF Settled
  <2>3. CASE j.pc \in {"done", "failed"}
    <3>1. call'[c].pc \in {"done", "failed"}
      BY <2>1, <2>3 DEF Settled, NewCall
    <3> QED BY <3>1 DEF Busy
  <2> QED BY <2>2, <2>3
<1>4. \A j \in CallRecord : \A pc : [j EXCEPT !.pc = pc].todo = j.todo
  BY DEF CallRecord
<1> HIDE DEF k
<1>5. CASE RemoveRecord(c)
  <2>1. PICK e \in k.todo :
          Goto(c, IF Erases([k EXCEPT !.todo = @ \ {e}].req)
                  THEN [[k EXCEPT !.todo = @ \ {e}] EXCEPT !.pc = AfterRemoval([k EXCEPT !.todo = @ \ {e}])]
                  ELSE [[k EXCEPT !.todo = @ \ {e}] EXCEPT !.pc = "findWrites", !.cur = e])
    BY <1>5, Zenon DEF RemoveRecord, k
  <2> DEFINE i == [k EXCEPT !.todo = @ \ {e}]
  <2>2. i \in CallRecord /\ i.todo \subseteq k.todo
    BY <1>1 DEF CallRecord
  <2>3. Goto(c, [i EXCEPT !.pc = AfterRemoval(i)]) \/ Goto(c, [i EXCEPT !.pc = "findWrites", !.cur = e])
    BY <2>1
  <2> HIDE DEF i
  <2>4. [i EXCEPT !.pc = "findWrites", !.cur = e].todo = i.todo
    BY <2>2 DEF CallRecord
  <2> QED BY <1>3, <1>4, <2>2, <2>3, <2>4, Zenon DEF k
<1>6. CASE FindWrites(c)
  <2> DEFINE found == WriteKeys(k.cur, readWrites(k.cur))
             i == [k EXCEPT !.ws = found]
  <2>1. Goto(c, [i EXCEPT !.pc = IF found # {} THEN "dropWrites" ELSE AfterRemoval(i)])
    BY <1>6, Zenon DEF FindWrites, k
  <2>2. found \in SUBSET Written
    BY <1>1, <1>6, Guards, WritesType DEF CallRecord, Stage, k
  <2> HIDE DEF found
  <2>3. i \in CallRecord /\ i.todo = k.todo
    BY <1>1, <2>2 DEF CallRecord
  <2> HIDE DEF i
  <2> QED BY <1>3, <1>4, <2>1, <2>3, Zenon DEF k
<1>7. CASE DropWrite(c)
  <2>1. PICK w \in k.ws :
          Goto(c, [[k EXCEPT !.ws = @ \ {w}] EXCEPT !.pc =
                    IF [k EXCEPT !.ws = @ \ {w}].ws # {} THEN @
                    ELSE IF Erases([k EXCEPT !.ws = @ \ {w}].req) THEN AfterErasure([k EXCEPT !.ws = @ \ {w}])
                    ELSE AfterRemoval([k EXCEPT !.ws = @ \ {w}])])
    BY <1>7, Zenon DEF DropWrite, k
  <2> DEFINE i == [k EXCEPT !.ws = @ \ {w}]
             j == [i EXCEPT !.pc = IF i.ws # {} THEN @ ELSE IF Erases(i.req) THEN AfterErasure(i) ELSE AfterRemoval(i)]
  <2>2. i \in CallRecord /\ i.todo = k.todo
    BY <1>1 DEF CallRecord
  <2>3. Goto(c, j)
    BY <2>1
  <2> HIDE DEF i
  <2>4. j.todo = i.todo
    BY <2>2 DEF CallRecord
  <2> HIDE DEF j
  <2> QED BY <1>3, <2>2, <2>3, <2>4 DEF k
<1>8. CASE Rescan(c)
  <2>1. PICK p \in k.fix :
          Goto(c, [k EXCEPT !.pc = "repair", !.fix = @ \ {p}, !.at = p,
                            !.id = IF At({p}) = {} THEN NoId ELSE Newest(At({p})).cp.id])
    BY <1>8, Zenon DEF Rescan, k
  <2> DEFINE id == IF At({p}) = {} THEN NoId ELSE Newest(At({p})).cp.id
             j == [k EXCEPT !.pc = "repair", !.fix = @ \ {p}, !.at = p, !.id = id]
  <2>2. Goto(c, j)
    BY <2>1
  <2> HIDE DEF id
  <2>3. j.todo = k.todo
    BY <1>1 DEF CallRecord
  <2> HIDE DEF j
  <2> QED BY <1>3, <2>2, <2>3 DEF k
<1>9. CASE RepairPointer(c)
  <2>1. Goto(c, [k EXCEPT !.pc = AfterRemoval(k)])
    BY <1>9, Zenon DEF RepairPointer, k
  <2> QED BY <1>1, <1>3, <1>4, <2>1, Zenon DEF k
<1> QED BY <1>2, <1>5, <1>6, <1>7, <1>8, <1>9

(* A removal takes away what is under one key, and so one checkpoint. *)
LEMMA RemovesOne ==
  ASSUME OneCheckpointPerId, NEW c \in Callers, RemoveRecord(c),
         NEW x \in records \ records', NEW y \in records \ records'
  PROVE  x = y
PROOF
<1>1. PICK e \in call[c].todo : records' = {f \in records : ~SameKey(e, f)}
  BY Zenon DEF RemoveRecord
<1>2. SameKey(x, y)
  BY <1>1 DEF SameKey
<1> QED BY <1>2 DEF OneCheckpointPerId

(* What a step takes away while a prune is under way counts as erased,     *)
(* unless it is a checkpoint that the step's own prune has listed.         *)
LEMMA Removal ==
  ASSUME TypeInv, StageInv, NEW c \in Callers, Call(c) \/ Step(c) \/ Fail(c), PruneUnderWay',
         NEW x \in records \ records', x \notin erased'
  PROVE  /\ Step(c) /\ RemoveRecord(c) /\ Busy(c)
         /\ ~MayEraseNewest(call[c].req) /\ x \in call[c].todo
PROOF
<1>1. Step(c) /\ RemoveRecord(c)
  BY RecordsChange, StepMoves DEF Call, Step, Grows
<1>2. x \notin Unlisted(c)
  BY <1>1, Zenon DEF Step
<1>3. ~MayEraseNewest(call[c].req) /\ x \in call[c].todo
  BY <1>2, Zenon DEF Unlisted
<1>4. Busy(c)
  BY <1>1, Guards DEF Busy
<1> QED BY <1>1, <1>3, <1>4

(* A checkpoint that has a newer one in its place keeps having one while a *)
(* prune is under way: if a prune takes the newer one away, that one had a *)
(* newer one itself.                                                       *)
LEMMA CoverKept ==
  ASSUME TypeInv, StageInv, PruneInv, OneCheckpointPerId,
         NEW c \in Callers, Call(c) \/ Step(c) \/ Fail(c), PruneUnderWay',
         NEW x \in Entry, Covered(x)
  PROVE  Covered(x)'
PROOF
<1>1. PICK y \in records \cup erased : y.place = x.place /\ checkpointIsOlder(x.cp, y.cp)
  BY DEF Covered
<1>2. erased \subseteq erased'
  BY Zenon DEF Call, Step, Fail
<1>3. CASE y \in records' \cup erased'
  BY <1>1, <1>3 DEF Covered, checkpointIsOlder
<1>4. CASE y \notin records' \cup erased'
  <2>1. y \in records \ records' /\ y \notin erased'
    BY <1>1, <1>2, <1>4
  <2>2. RemoveRecord(c) /\ Busy(c) /\ ~MayEraseNewest(call[c].req) /\ y \in call[c].todo
    BY <2>1, Removal
  <2>3. PICK f \in records \cup erased : f.place = y.place /\ checkpointIsOlder(y.cp, f.cp)
    BY <2>2 DEF PruneInv, Covered
  <2>4. x.cp \in Checkpoints /\ y.cp \in Checkpoints /\ f.cp \in Checkpoints
    BY DEF Entry, TypeInv
  <2>5. f # y
    BY <2>3, <2>4, OlderIsStrict
  <2>6. f \in records' \cup erased'
    BY <1>2, <2>1, <2>2, <2>3, <2>5, RemovesOne
  <2>7. checkpointIsOlder(x.cp, f.cp) /\ f.place = x.place
    BY <1>1, <2>3, <2>4, OlderIsStrict
  <2> QED BY <2>6, <2>7 DEF Covered, checkpointIsOlder
<1> QED BY <1>3, <1>4

(* Every step keeps what the prunes have listed covered. *)
LEMMA PruneStep ==
  ASSUME TypeInv, StageInv, PruneInv, OneCheckpointPerId, [Next]_vars
  PROVE  PruneInv'
PROOF
<1>1. CASE UNCHANGED vars
  BY <1>1 DEF vars, storage, history, PruneInv, Busy, Covered
<1>2. ASSUME NEW c \in Callers, Call(c) \/ Step(c) \/ Fail(c), NEW d \in Callers, Busy(d)',
             ~MayEraseNewest(call'[d].req), NEW e \in call'[d].todo
      PROVE  Covered(e)'
  <2>1. SUFFICES e \in Entry /\ Covered(e)
    <3>1. PruneUnderWay'
      BY <1>2, Zenon DEF PruneUnderWay, MayEraseNewest
    <3> QED BY <1>2, <3>1, CoverKept
  <2>2. ASSUME Busy(d), ~MayEraseNewest(call[d].req), e \in call[d].todo
        PROVE  e \in Entry /\ Covered(e)
    BY <2>2 DEF PruneInv, TypeInv, CallRecord
  <2>3. CASE d # c
    <3>1. call'[d] = call[d]
      BY <1>2, <2>3, Bystander
    <3> QED BY <1>2, <2>2, <3>1 DEF Busy
  <2>4. CASE d = c /\ Fail(c)
    BY <1>2, <2>4, StepMoves DEF Busy
  <2>5. call'[d].req \in Requests
    BY <1>2, TypeStep DEF StageInv, Next
  <2>6. call'[d].req # None /\ call'[d].req.op = "prune" /\ call'[d].req.keep # 0 /\ call'[d].req.keep \in Nat
    BY <1>2, <2>5, RequestFields DEF MayEraseNewest
  <2>7. CASE d = c /\ Step(c)
    <3>1. call'[c].req = call[c].req
      BY <2>6, <2>7, StepMoves DEF Moves
    <3>2. Busy(c)
      BY <2>7, Running DEF Step
    <3>3. call'[c].todo \subseteq call[c].todo
      BY <1>2, <2>6, <2>7, <3>1, TodoShrinks DEF Step
    <3> QED BY <1>2, <2>2, <2>7, <3>1, <3>2, <3>3
  <2>8. CASE d = c /\ Call(c)
    <3>1. PICK r \in Requests : Begin(c, r)
      BY <2>8 DEF Call
    <3>2. r = call'[c].req
      BY <2>6, <2>8, <3>1, StepMoves DEF Moves
    <3> DEFINE n == NewCall(r)
               listed == Surplus(At({r.place}), r.keep)
               i == [n EXCEPT !.todo = listed, !.fix = {r.place}]
               j == [i EXCEPT !.pc = AfterRemoval(i)]
    <3>3. Goto(c, j)
      BY <2>6, <2>8, <3>1, <3>2 DEF Begin, Put, GetTuple, Prune, DeleteForRuns, DeleteThread, CopyThread, ListRemovals
    <3>4. n \in CallRecord /\ n.req = r
      BY NewCallType DEF NewCall
    <3>5. r.place \in Places /\ listed \in SUBSET Entry
      BY <2>6, <2>8, <3>2, RequestFields DEF Surplus, At, TypeInv
    <3> HIDE DEF n, listed
    <3>6. i \in CallRecord /\ i.todo = listed /\ i.req = r
      BY <3>4, <3>5, Zenon DEF CallRecord
    <3> HIDE DEF i
    <3>7. AfterRemoval(i) \in Pcs
      BY <3>6, AfterRemovalPc DEF Pcs
    <3>8. j \in CallRecord /\ j.todo = listed /\ j.req = r
      BY <3>6, <3>7 DEF CallRecord
    <3> HIDE DEF j
    <3>9. call'[c] = j
      <4>1. j.pc \in {"done", "failed"} => call'[c].pc = j.pc
        BY <3>3, <3>8, GotoFacts DEF TypeInv
      <4>2. j.pc \notin {"done", "failed"}
        BY <1>2, <2>8, <4>1 DEF Busy
      <4> QED BY <3>3, <3>8, <4>2, GotoFacts DEF TypeInv
    <3>10. e \in Surplus(At({r.place}), r.keep)
      BY <1>2, <2>8, <3>8, <3>9 DEF listed
    <3> QED BY <2>6, <2>8, <3>2, <3>10, SurplusIsCovered, Zenon
  <2> QED BY <1>2, <2>3, <2>4, <2>7, <2>8
<1> QED BY <1>1, <1>2 DEF Next, PruneInv

(* A prune that has removed a checkpoint goes on with its writes. *)
LEMMA RemovalGoesOn ==
  ASSUME TypeInv, StageInv, NEW c \in Callers, RemoveRecord(c), ~MayEraseNewest(call[c].req)
  PROVE  call'[c].pc = "findWrites" /\ call'[c].req = call[c].req
PROOF
<1> DEFINE k == call[c]
<1>1. k \in CallRecord /\ k.req \in Requests /\ ~Erases(k.req)
  BY Running DEF Continue, MayEraseNewest, Erases
<1> HIDE DEF k
<1>2. PICK e \in k.todo :
        Goto(c, IF Erases([k EXCEPT !.todo = @ \ {e}].req)
                THEN [[k EXCEPT !.todo = @ \ {e}] EXCEPT !.pc = AfterRemoval([k EXCEPT !.todo = @ \ {e}])]
                ELSE [[k EXCEPT !.todo = @ \ {e}] EXCEPT !.pc = "findWrites", !.cur = e])
  BY Zenon DEF RemoveRecord, k
<1> DEFINE i == [k EXCEPT !.todo = @ \ {e}]
           j == [i EXCEPT !.pc = "findWrites", !.cur = e]
<1>3. i \in CallRecord /\ i.req = k.req /\ e \in Entry
  BY <1>1 DEF CallRecord
<1>4. Goto(c, IF Erases(i.req) THEN [i EXCEPT !.pc = AfterRemoval(i)] ELSE j)
  BY <1>2
<1> HIDE DEF i
<1>5. j \in CallRecord /\ j.req = k.req /\ j.pc = "findWrites"
  BY <1>3, Zenon DEF CallRecord, Pcs
<1>6. Goto(c, j)
  BY <1>1, <1>3, <1>4
<1> HIDE DEF j
<1>7. call'[c] = j
  BY <1>1, <1>5, <1>6, GotoFacts DEF TypeInv
<1> QED BY <1>5, <1>7 DEF k

(* A prune that removes a checkpoint it has listed leaves a newer one. *)
LEMMA PruneLeaves ==
  ASSUME TypeInv, StageInv, PruneInv, OneCheckpointPerId, [Next]_vars, NEW c \in Callers,
         call[c].pc = "remove", ~MayEraseNewest(call[c].req), call'[c] # call[c],
         NEW e \in call[c].todo \cap (records \ records')
  PROVE  \E f \in records' \cup erased' : f.place = e.place /\ checkpointIsOlder(e.cp, f.cp)
PROOF
<1>1. Step(c) /\ RemoveRecord(c)
  <2>1. UNCHANGED vars => call' = call
    BY DEF vars
  <2>2. PICK d \in Callers : Call(d) \/ Step(d) \/ Fail(d)
    BY <2>1, Zenon DEF Next
  <2>3. d = c
    BY <2>2, Bystander
  <2> QED BY <2>2, <2>3, RecordsChange, StepMoves DEF Call, Step, Grows
<1>2. Busy(c)
  BY DEF Busy
<1>3. PICK f \in records \cup erased : f.place = e.place /\ checkpointIsOlder(e.cp, f.cp)
  BY <1>2 DEF PruneInv, Covered
<1>4. f # e
  <2>1. e.cp \in Checkpoints
    BY DEF Entry, TypeInv
  <2> QED BY <1>3, <2>1, OlderIsStrict
<1>5. CASE f \in records
  <2>1. f \in records'
    BY <1>1, <1>4, <1>5, RemovesOne
  <2> QED BY <1>3, <2>1
<1>6. CASE f \in erased
  <2>1. call'[c].pc = "findWrites" /\ call'[c].req = call[c].req
    BY <1>1, RemovalGoesOn
  <2>2. PruneUnderWay'
    BY <2>1, Zenon DEF PruneUnderWay, MayEraseNewest, Busy
  <2>3. f \in erased'
    BY <1>1, <1>6, <2>2, Zenon DEF Step
  <2> QED BY <1>3, <2>3
<1> QED BY <1>3, <1>5, <1>6

-----------------------------------------------------------------------------
(* What put has acknowledged. *)

(* Only DropWrite takes writes away, and no call begins with a write. *)
LEMMA WritesChange ==
  ASSUME NEW c \in Callers
  PROVE  /\ \A r \in Requests : Begin(c, r) => written' = written
         /\ Continue(c) => DropWrite(c) \/ written \subseteq written'
PROOF
<1>1. ASSUME NEW r \in Requests, Begin(c, r)
      PROVE  written' = written
  BY <1>1, Zenon DEF Begin, Put, InsertRecord, GetTuple, Prune, DeleteForRuns, DeleteThread, CopyThread,
                     ListRemovals, ListSource, storage
<1>2. SetPointer(c) \/ PutWrite(c) => written \subseteq written'
  BY Zenon DEF SetPointer, PutWrite
<1>3. GetCheckpoint(c) \/ ReadCheckpointWrites(c) \/ Scan(c) \/ ReadTupleWrites(c) => written' = written
  BY Zenon DEF GetCheckpoint, ReadCheckpointWrites, Scan, ReadTupleWrites, storage
<1>4. RemoveRecord(c) \/ FindWrites(c) \/ Rescan(c) \/ RepairPointer(c) => written' = written
  BY Zenon DEF RemoveRecord, FindWrites, Rescan, RepairPointer, storage
<1>5. FindPointers(c) \/ DropPointer(c) \/ FindThreadWrites(c) => written' = written
  BY Zenon DEF FindPointers, DropPointer, FindThreadWrites, storage
<1>6. ListAfterErasure(c) \/ Gather(c) \/ CopyRecord(c) => written' = written
  BY Zenon DEF ListAfterErasure, ListSource, Gather, CopyRecord, InsertRecord, storage
<1> QED BY <1>1, <1>2, <1>3, <1>4, <1>5, <1>6, Zenon DEF Continue

(* An entry and its writes stay in a step that takes nothing of them. *)
LEMMA KeptUnlessTaken ==
  ASSUME NEW c \in Callers, Continue(c), NEW e, ~Takes(c, e), NEW ws
  PROVE  /\ e \in records => e \in records'
         /\ \A S : WriteKeys(e, ws) \subseteq written \cup S => WriteKeys(e, ws) \subseteq written' \cup S
PROOF
<1>1. e \in records => e \in records'
  <2>1. CASE RemoveRecord(c)
    BY <2>1, Guards DEF Takes
  <2>2. CASE ~RemoveRecord(c)
    BY <2>2, RecordsChange, Zenon DEF Grows
  <2> QED BY <2>1, <2>2
<1>2. \A w \in written : w.place = e.place /\ w.id = e.cp.id => w \in written'
  <2>1. CASE DropWrite(c)
    BY <2>1, Guards DEF Takes
  <2>2. CASE ~DropWrite(c)
    BY <2>2, WritesChange, Zenon
  <2> QED BY <2>1, <2>2
<1>3. \A w \in WriteKeys(e, ws) : w.place = e.place /\ w.id = e.cp.id
  BY DEF WriteKeys
<1> QED BY <1>1, <1>2, <1>3, Zenon

(* A put that was not refused has stored its checkpoint. *)
LEMMA BeginStores ==
  ASSUME TypeInv, StageInv, NEW c \in Callers, NEW r \in Requests, Begin(c, r), call'[c].pc = "pointer"
  PROVE  /\ call'[c].req.op = "put" /\ call'[c].cur \in records'
         /\ WriteKeys(call'[c].cur, call'[c].cur.cp.pend) \subseteq call'[c].ws
PROOF
<1>1. Moves(c, r)
  BY StepMoves
<1>2. call'[c].req = r /\ r.op \in {"put", "copyThread"}
  <2>1. Busy(c)'
    BY DEF Busy
  <2>2. call'[c].req \in Requests /\ Stage(call'[c])
    BY <1>1, <2>1 DEF Moves, StageInv, Stage
  <2> QED BY <1>1, <2>2, RequestFields DEF Moves, Stage
<1>3. \A j \in CallRecord : j.req \in Requests /\ Goto(c, j) =>
        call'[c].pc = j.pc /\ (j.pc = "pointer" => call'[c] = j)
  <2> TAKE j \in CallRecord
  <2> HAVE j.req \in Requests /\ Goto(c, j)
  <2>1. CASE j.pc \in {"done", "failed"}
    BY <2>1, GotoFacts DEF TypeInv
  <2>2. CASE j.pc \notin {"done", "failed"}
    BY <2>2, GotoFacts DEF TypeInv
  <2> QED BY <2>1, <2>2
<1> DEFINE n == NewCall(r)
<1>4. n \in CallRecord /\ n.req = r
  BY NewCallType DEF NewCall
<1>5. Put(c, r)
  <2>1. CASE r.op = "put"
    BY <2>1 DEF Begin, GetTuple, Prune, DeleteForRuns, DeleteThread, CopyThread
  <2>2. ASSUME r.op = "copyThread", DeleteThread(c, r)
        PROVE  FALSE
    <3> DEFINE i == [n EXCEPT !.todo = At(r.places), !.fix = {}]
               j == [i EXCEPT !.pc = AfterRemoval(i)]
    <3>1. Goto(c, j)
      BY <2>2 DEF DeleteThread, ListRemovals
    <3>2. i \in CallRecord /\ i.req = r
      <4>1. At(r.places) \in SUBSET Entry
        BY Zenon DEF At, TypeInv
      <4> HIDE DEF n
      <4> QED BY <1>4, <4>1, Zenon DEF CallRecord
    <3> HIDE DEF i
    <3>3. AfterRemoval(i) \in Pcs /\ AfterRemoval(i) # "pointer"
      BY <3>2, AfterRemovalPc DEF Pcs
    <3>4. j \in CallRecord /\ j.req = r /\ j.pc # "pointer"
      BY <3>2, <3>3 DEF CallRecord
    <3> HIDE DEF j
    <3> QED BY <1>3, <3>1, <3>4
  <2>3. ASSUME r.op = "copyThread", CopyThread(c, r)
        PROVE  FALSE
    <3> DEFINE j == [n EXCEPT !.todo = At(r.from), !.pc = IF At(r.from) # {} THEN "gather" ELSE "done"]
    <3>1. Goto(c, j)
      BY <1>4, <2>3 DEF CopyThread, ListSource
    <3>2. At(r.from) \in SUBSET Entry
      BY DEF At, TypeInv
    <3>3. j \in CallRecord /\ j.req = r /\ j.pc # "pointer"
      <4> HIDE DEF n
      <4> QED BY <1>4, <3>2, Zenon DEF CallRecord, Pcs
    <3> HIDE DEF j
    <3> QED BY <1>3, <3>1, <3>3
  <2> QED BY <1>2, <2>1, <2>2, <2>3 DEF Begin, GetTuple, Prune, DeleteForRuns
<1>6. r.entry \in Entry /\ WriteKeys(r.entry, r.entry.cp.pend) \in SUBSET Written
  <2>1. r.entry \in Entry
    BY <1>5, RequestFields DEF Put
  <2>2. r.entry.cp.pend \in SUBSET Writes
    BY <2>1, CheckpointFields DEF Entry
  <2> QED BY <2>1, <2>2, WritesType
<1> HIDE DEF n
<1> DEFINE k == [n EXCEPT !.cur = r.entry, !.ws = WriteKeys(r.entry, r.entry.cp.pend)]
<1>7. k \in CallRecord /\ k.req = r /\ k.cur = r.entry /\ k.ws = WriteKeys(r.entry, r.entry.cp.pend)
  BY <1>4, <1>6, Zenon DEF CallRecord
<1>8. InsertRecord(c, k)
  BY <1>5, Zenon DEF Put, n
<1> HIDE DEF k
<1>9. ~Goto(c, [k EXCEPT !.pc = "failed"])
  <2>1. /\ [k EXCEPT !.pc = "failed"] \in CallRecord /\ [k EXCEPT !.pc = "failed"].req = r
        /\ [k EXCEPT !.pc = "failed"].pc = "failed"
    BY <1>7 DEF CallRecord, Pcs
  <2> QED BY <1>3, <2>1, Zenon
<1>10. k.cur \in records' /\ Goto(c, [k EXCEPT !.pc = "pointer"])
  BY <1>8, <1>9, Zenon DEF InsertRecord
<1>11. call'[c] = [k EXCEPT !.pc = "pointer"]
  <2>1. /\ [k EXCEPT !.pc = "pointer"] \in CallRecord /\ [k EXCEPT !.pc = "pointer"].req = r
        /\ [k EXCEPT !.pc = "pointer"].pc = "pointer"
    BY <1>7 DEF CallRecord, Pcs
  <2> QED BY <1>3, <1>10, <2>1, Zenon
<1>12. call'[c].cur = k.cur /\ call'[c].ws = k.ws
  BY <1>7, <1>11 DEF CallRecord
<1> QED BY <1>2, <1>5, <1>7, <1>10, <1>12 DEF Put

(* The next operation of a put: what is not stored yet is still to come,   *)
(* and nothing is when the put returns.                                    *)
LEMMA PutGoesOn ==
  ASSUME TypeInv, StageInv, NEW c \in Callers, Storing(c), intact[c], Continue(c)
  PROVE  /\ records' = records
         /\ Busy(c)' => /\ call'[c].req = call[c].req /\ call'[c].cur = call[c].cur
                        /\ WriteKeys(call[c].cur, call[c].cur.cp.pend) \subseteq written' \cup call'[c].ws
         /\ ~Busy(c)' => WriteKeys(call[c].cur, call[c].cur.cp.pend) \subseteq written'
PROOF
<1> DEFINE k == call[c]
           keys == WriteKeys(k.cur, k.cur.cp.pend)
<1>1. k \in CallRecord /\ k.req \in Requests /\ k.req.op = "put" /\ k.ready = {} /\ k.pc \in {"pointer", "write"}
  BY Running DEF Storing, Stage
<1>2. keys \subseteq written \cup k.ws
  BY DEF Storing
<1>3. SetPointer(c) \/ PutWrite(c)
  BY <1>1, Guards DEF Continue
<1> HIDE DEF keys
<1>4. ASSUME NEW i \in CallRecord, i.req = k.req, i.cur = k.cur, i.ready = {},
             Goto(c, [i EXCEPT !.pc = AfterPut(i)]), keys \subseteq written' \cup i.ws
      PROVE  /\ Busy(c)' => /\ call'[c].req = k.req /\ call'[c].cur = k.cur
                            /\ keys \subseteq written' \cup call'[c].ws
             /\ ~Busy(c)' => keys \subseteq written'
  <2> DEFINE j == [i EXCEPT !.pc = AfterPut(i)]
  <2>1. AfterPut(i) = IF i.ws # {} THEN "write" ELSE "done"
    BY <1>4 DEF AfterPut
  <2>2. j \in CallRecord /\ j.req = k.req /\ j.cur = k.cur /\ j.ws = i.ws /\ j.pc = AfterPut(i) /\ Goto(c, j)
    BY <1>4, <2>1 DEF CallRecord, Pcs
  <2> HIDE DEF j
  <2>3. CASE i.ws # {}
    <3>1. call'[c] = j
      BY <1>1, <2>1, <2>2, <2>3, GotoFacts DEF TypeInv
    <3> QED BY <1>4, <2>1, <2>2, <2>3, <3>1 DEF Busy
  <2>4. CASE i.ws = {}
    <3>1. call'[c].pc = "done"
      BY <1>1, <2>1, <2>2, <2>4, GotoFacts DEF TypeInv
    <3> QED BY <1>4, <2>4, <3>1 DEF Busy
  <2> QED BY <2>3, <2>4
<1> HIDE DEF k
<1>5. CASE SetPointer(c)
  <2>1. Goto(c, [k EXCEPT !.pc = AfterPut(k)]) /\ records' = records /\ written' = written
    BY <1>5, Zenon DEF SetPointer, k
  <2> QED BY <1>1, <1>2, <1>4, <2>1 DEF k, keys
<1>6. CASE PutWrite(c)
  <2>1. PICK w \in k.ws : /\ written' = written \cup {w}
                          /\ Goto(c, [[k EXCEPT !.ws = @ \ {w}] EXCEPT !.pc = AfterPut([k EXCEPT !.ws = @ \ {w}])])
    BY <1>6, Zenon DEF PutWrite, k
  <2> DEFINE i == [k EXCEPT !.ws = @ \ {w}]
  <2>2. i \in CallRecord /\ i.req = k.req /\ i.cur = k.cur /\ i.ready = {} /\ i.ws = k.ws \ {w}
    BY <1>1 DEF CallRecord
  <2>3. Goto(c, [i EXCEPT !.pc = AfterPut(i)])
    BY <2>1
  <2> HIDE DEF i
  <2>4. keys \subseteq written' \cup i.ws
    BY <1>2, <2>1, <2>2
  <2>5. records' = records
    BY <1>6 DEF PutWrite
  <2> QED BY <1>4, <2>2, <2>3, <2>4, <2>5 DEF k, keys
<1> QED BY <1>3, <1>5, <1>6

(* Every step keeps what put has acknowledged. *)
LEMMA AckStep ==
  ASSUME TypeInv, StageInv, AckInv, AcknowledgedPutsStay, [Next]_vars
  PROVE  AckInv' /\ AcknowledgedPutsStay'
PROOF
<1>1. CASE UNCHANGED vars
  BY <1>1 DEF vars, storage, history, AckInv, Storing, AcknowledgedPutsStay, Busy, WriteKeys
<1>2. ASSUME NEW c \in Callers, Call(c)
      PROVE  AckInv' /\ AcknowledgedPutsStay'
  <2>1. PICK r \in Requests : Begin(c, r)
    BY <1>2 DEF Call
  <2>2. records \subseteq records' /\ written' = written
    BY <2>1, RecordsChange, WritesChange, Zenon DEF Grows
  <2>3. intact' = [intact EXCEPT ![c] = call'[c].pc = "pointer"] /\ acked' = acked
    BY <1>2 DEF Call
  <2>4. ASSUME NEW d \in Callers \ {c}
        PROVE  Storing(d)'
    <3>1. call'[d] = call[d] /\ intact'[d] = intact[d] /\ Storing(d)
      BY <1>2, <2>3, <2>4, Bystander DEF AckInv
    <3> QED BY <2>2, <3>1 DEF Storing, Busy, WriteKeys
  <2>5. Storing(c)'
    <3>1. intact'[c] = (call'[c].pc = "pointer")
      BY <2>3 DEF AckInv
    <3>2. ASSUME call'[c].pc = "pointer"
          PROVE  /\ call'[c].req.op = "put" /\ call'[c].cur \in records'
                 /\ WriteKeys(call'[c].cur, call'[c].cur.cp.pend) \subseteq call'[c].ws
      BY <2>1, <3>2, BeginStores
    <3>3. Storing(c)' = (intact'[c] => /\ Busy(c)' /\ call'[c].req.op = "put" /\ call'[c].cur \in records'
                                       /\ WriteKeys(call'[c].cur, call'[c].cur.cp.pend) \subseteq written' \cup call'[c].ws)
      BY DEF Storing, WriteKeys
    <3> QED BY <3>1, <3>2, <3>3, Zenon DEF Busy
  <2>6. AckInv'
    BY <2>3, <2>4, <2>5 DEF AckInv
  <2>7. AcknowledgedPutsStay'
    BY <2>2, <2>3 DEF AcknowledgedPutsStay, WriteKeys
  <2> QED BY <2>6, <2>7
<1>3. ASSUME NEW c \in Callers, Step(c)
      PROVE  AckInv' /\ AcknowledgedPutsStay'
  <2>1. Continue(c) /\ acked' = {e \in acked \cup Acknowledged(c) : ~Takes(c, e)}
    BY <1>3, Zenon DEF Step
  <2>2. intact' = [d \in Callers |-> intact[d] /\ Busy(d)' /\ ~Takes(c, call[d].cur)]
    BY <1>3, Zenon DEF Step
  <2>3. intact' \in [Callers -> BOOLEAN] /\ \A d \in Callers : intact'[d] => intact[d] /\ Busy(d)' /\ ~Takes(c, call[d].cur)
    <3> DEFINE kept(d) == intact[d] /\ Busy(d)' /\ ~Takes(c, call[d].cur)
    <3>1. intact' = [d \in Callers |-> kept(d)] /\ \A d \in Callers : kept(d) \in BOOLEAN
      BY <2>2, Zenon
    <3> HIDE DEF kept
    <3>2. intact' \in [Callers -> BOOLEAN] /\ \A d \in Callers : intact'[d] = kept(d)
      BY <3>1, Zenon
    <3> QED BY <3>2, Zenon DEF kept
  <2>4. ASSUME NEW d \in Callers \ {c}
        PROVE  Storing(d)'
    <3> SUFFICES ASSUME intact'[d]
                 PROVE  Storing(d)'
      BY DEF Storing
    <3>1. call'[d] = call[d]
      BY <1>3, <2>4, Bystander
    <3>2. intact[d] /\ ~Takes(c, call[d].cur) /\ Storing(d) /\ Busy(d)'
      BY <2>3, <2>4 DEF AckInv
    <3> DEFINE e == call[d].cur
    <3>3. e \in records /\ WriteKeys(e, e.cp.pend) \subseteq written \cup call[d].ws
      BY <3>2, Zenon DEF Storing
    <3>4. e \in records' /\ WriteKeys(e, e.cp.pend) \subseteq written' \cup call[d].ws
      <4> HIDE DEF e
      <4>1. ~Takes(c, e)
        BY <3>2 DEF e
      <4> QED BY <2>1, <3>3, <4>1, KeptUnlessTaken
    <3> QED BY <3>1, <3>2, <3>4 DEF Storing, WriteKeys
  <2>5. intact[c] => /\ records' = records
                     /\ Busy(c)' => /\ call'[c].req = call[c].req /\ call'[c].cur = call[c].cur
                                    /\ WriteKeys(call[c].cur, call[c].cur.cp.pend) \subseteq written' \cup call'[c].ws
                     /\ ~Busy(c)' => WriteKeys(call[c].cur, call[c].cur.cp.pend) \subseteq written'
    BY <2>1, PutGoesOn, Zenon DEF AckInv
  <2>6. intact[c] => call[c].req.op = "put" /\ call[c].cur \in records
    BY DEF AckInv, Storing
  <2>7. Storing(c)'
    <3> SUFFICES ASSUME intact'[c]
                 PROVE  Storing(c)'
      BY DEF Storing
    <3>1. intact[c] /\ Busy(c)'
      BY <2>3
    <3> QED BY <2>5, <2>6, <3>1 DEF Storing, WriteKeys
  <2>8. AckInv'
    BY <2>3, <2>4, <2>7 DEF AckInv
  <2>9. ASSUME NEW e \in acked'
        PROVE  e \in records' /\ WriteKeys(e, e.cp.pend) \subseteq written'
    <3>1. CASE e \in acked
      <4>1. ~Takes(c, e) /\ e \in records /\ WriteKeys(e, e.cp.pend) \subseteq written \cup {}
        BY <2>1, <2>9, <3>1, Zenon DEF AcknowledgedPutsStay
      <4>2. e \in records' /\ WriteKeys(e, e.cp.pend) \subseteq written' \cup {}
        BY <2>1, <4>1, KeptUnlessTaken, Zenon
      <4> QED BY <4>2, Zenon
    <3>2. CASE e \in Acknowledged(c)
      <4>1. intact[c] /\ call'[c].pc = "done" /\ e = call[c].cur
        BY <3>2 DEF Acknowledged
      <4>2. ~Busy(c)'
        BY <4>1 DEF Busy
      <4> QED BY <2>5, <2>6, <4>1, <4>2
    <3> QED BY <2>1, <2>9, <3>1, <3>2
  <2>10. AcknowledgedPutsStay'
    BY <2>9 DEF AcknowledgedPutsStay, WriteKeys
  <2> QED BY <2>8, <2>10
<1>4. ASSUME NEW c \in Callers, Fail(c)
      PROVE  AckInv' /\ AcknowledgedPutsStay'
  <2>1. UNCHANGED <<records, written, acked>> /\ intact' = [intact EXCEPT ![c] = FALSE]
    BY <1>4 DEF Fail, Stop, storage
  <2>2. ASSUME NEW d \in Callers
        PROVE  Storing(d)'
    <3>1. CASE d = c
      BY <2>1, <3>1 DEF Storing, AckInv
    <3>2. CASE d # c
      <4>1. call'[d] = call[d] /\ intact'[d] = intact[d] /\ Storing(d)
        BY <1>4, <2>1, <3>2, Bystander DEF AckInv
      <4> QED BY <2>1, <4>1 DEF Storing, Busy, WriteKeys
    <3> QED BY <3>1, <3>2
  <2>3. AckInv'
    BY <2>1, <2>2 DEF AckInv
  <2>4. AcknowledgedPutsStay'
    BY <2>1 DEF AcknowledgedPutsStay, WriteKeys
  <2> QED BY <2>3, <2>4
<1> QED BY <1>1, <1>2, <1>3, <1>4 DEF Next

-----------------------------------------------------------------------------
(* The inductive invariant holds at first. *)
LEMMA InvInit == Init => Inv
PROOF
<1> SUFFICES ASSUME Init
             PROVE  Inv
  OBVIOUS
<1>1. \A c \in Callers : call[c].pc = "done" /\ call[c].req = None
  BY DEF Init, NewCall
<1>2. TypeInv /\ StageInv
  BY TypeInit
<1>3. ReadInv /\ DeleteInv /\ PruneInv
  BY <1>1 DEF ReadInv, Reading, DeleteInv, Deleting, PruneInv, Busy
<1>4. LatestIsCurrent /\ DeletionComplete
  BY <1>1 DEF LatestIsCurrent, DeletionComplete, Returned
<1>5. OneCheckpointPerId
  BY StorageSaverAssumption DEF Init, OneCheckpointPerId
<1>6. AckInv
  <2>1. intact = [c \in Callers |-> FALSE]
    BY DEF Init
  <2> QED BY <2>1 DEF AckInv, Storing
<1>7. AcknowledgedPutsStay
  <2>1. records = Found /\ acked = Found /\ written = UNION {WriteKeys(e, e.cp.pend) : e \in Found}
    BY DEF Init
  <2> QED BY <2>1, Zenon DEF AcknowledgedPutsStay
<1> QED BY <1>2, <1>3, <1>4, <1>5, <1>6, <1>7 DEF Inv

(* The inductive invariant holds always. *)
LEMMA Invariance == Spec => []Inv
PROOF
<1>1. Init => Inv
  BY InvInit
<1>2. Inv /\ [Next]_vars => Inv'
  BY TypeStep, ReadStep, DeleteStep, PruneStep, UniqueStep, AckStep DEF Inv
<1> QED BY <1>1, <1>2, PTL DEF Spec

(* getTuple finds the latest checkpoint, however the calls of any number   *)
(* of callers interleave and wherever they stop (getLatestCheckpoint with  *)
(* getLatestByScan).                                                       *)
THEOREM LatestCorrect == Spec => []LatestIsCurrent
PROOF
<1>1. Inv => LatestIsCurrent
  BY DEF Inv
<1> QED BY <1>1, Invariance, PTL

(* What put has acknowledged stays as it was put, with all its pending     *)
(* writes, until a prune or a deletion removes some of it, however many    *)
(* callers use the same ids and wherever calls stop (put, putWrites).      *)
THEOREM PutCorrect == Spec => []AcknowledgedPutsStay
PROOF
<1>1. Inv => AcknowledgedPutsStay
  BY DEF Inv
<1> QED BY <1>1, Invariance, PTL

(* A deleteThread that succeeds leaves nothing that stayed stored while it *)
(* ran (deleteThread, removeThreadWrites).                                 *)
THEOREM DeletionCorrect == Spec => []DeletionComplete
PROOF
<1>1. Inv => DeletionComplete
  BY DEF Inv
<1> QED BY <1>1, Invariance, PTL

(* However many prunes run side by side, each with a list of its own, a    *)
(* listed checkpoint goes only if a newer one of its place stays, or one   *)
(* went beside the prunes under way: by a deletion, or under an id that    *)
(* was put again since a prune listed it (prune).                          *)
THEOREM PruneCorrect == Spec => PruneKeepsNewest
PROOF
<1>1. Inv /\ [Next]_vars =>
        [\A c \in Callers :
           call[c].pc = "remove" /\ ~MayEraseNewest(call[c].req) /\ call'[c] # call[c] =>
             \A e \in call[c].todo \cap (records \ records') : \E f \in records' \cup erased' :
               f.place = e.place /\ checkpointIsOlder(e.cp, f.cp)]_vars
  BY PruneLeaves DEF Inv
<1> QED BY <1>1, Invariance, PTL DEF Spec, PruneKeepsNewest
=============================================================================
