------------------------ MODULE StorageSaver_types ------------------------
(***************************************************************************)
(* The order of checkpoints, and the types and stages of the calls: every  *)
(* step of StorageSaver keeps them.                                        *)
(***************************************************************************)
EXTENDS StorageSaver, TLAPS, FiniteSetTheorems

-----------------------------------------------------------------------------
(* The order of checkpoints. *)

(* What the assumptions say about one checkpoint. *)
LEMMA CheckpointFields ==
  ASSUME NEW x \in Checkpoints
  PROVE  /\ x.id \in Nat /\ x.id # NoId /\ x.step \in Nat /\ x.ms \in Nat /\ x.pend \in SUBSET Writes
         /\ \A ws \in SUBSET Writes : [x EXCEPT !.pend = ws] \in Checkpoints
PROOF BY StorageSaverAssumption

(* checkpointIsOlder is a strict order. *)
LEMMA OlderIsStrict ==
  ASSUME NEW x \in Checkpoints, NEW y \in Checkpoints, NEW z \in Checkpoints
  PROVE  /\ ~checkpointIsOlder(x, x)
         /\ checkpointIsOlder(x, y) /\ checkpointIsOlder(y, z) => checkpointIsOlder(x, z)
PROOF BY CheckpointFields DEF checkpointIsOlder

(* Every non-empty set of natural numbers has a least element. *)
LEMMA LeastNat ==
  ASSUME NEW S \in SUBSET Nat, S # {}
  PROVE  \E n \in S : \A m \in S : n <= m
PROOF
<1>1. PICK n \in S : \A m \in S : ~(<<m, n>> \in OpToRel(<, Nat))
  BY NatLessThanWellFounded, WFMin, Zenon
<1>2. \A m \in S : ~(m < n)
  BY <1>1, Zenon DEF OpToRel
<1> QED BY <1>2

(* A non-empty listing has an oldest checkpoint. *)
LEMMA OldestInList ==
  ASSUME NEW es, es # {}, \A e \in es : e.cp \in Checkpoints
  PROVE  Oldest(es) \in es
PROOF
<1> DEFINE steps == {e.cp.step : e \in es}
<1>1. PICK s \in steps : \A n \in steps : s <= n
  <2>1. steps \in SUBSET Nat /\ steps # {}
    BY CheckpointFields
  <2> QED BY <2>1, LeastNat, Zenon
<1> DEFINE fs == {e \in es : e.cp.step = s}
           times == {e.cp.ms : e \in fs}
<1>2. PICK t \in times : \A n \in times : t <= n
  <2>1. times \in SUBSET Nat /\ times # {}
    BY CheckpointFields
  <2> QED BY <2>1, LeastNat, Zenon
<1> DEFINE gs == {e \in fs : e.cp.ms = t}
           ids == {e.cp.id : e \in gs}
<1>3. PICK i \in ids : \A n \in ids : i <= n
  <2>1. ids \in SUBSET Nat /\ ids # {}
    BY CheckpointFields
  <2> QED BY <2>1, LeastNat, Zenon
<1>4. PICK e \in gs : e.cp.id = i
  OBVIOUS
<1>5. \A f \in es : ~checkpointIsOlder(f.cp, e.cp)
  <2> TAKE f \in es
  <2>1. f.cp \in Checkpoints /\ e.cp \in Checkpoints /\ e.cp.step = s /\ e.cp.ms = t /\ e.cp.id = i
    BY <1>4
  <2>2. s <= f.cp.step
    BY <1>1
  <2>3. f.cp.step = s => t <= f.cp.ms
    BY <1>2
  <2>4. f.cp.step = s /\ f.cp.ms = t => i <= f.cp.id
    BY <1>3
  <2> HIDE DEF steps, fs, times, gs, ids
  <2> QED BY <2>1, <2>2, <2>3, <2>4, CheckpointFields DEF checkpointIsOlder
<1>6. e \in es
  BY <1>4
<1> HIDE DEF steps, fs, times, gs, ids
<1> QED BY <1>5, <1>6 DEF Oldest

(* A finite non-empty listing has a newest checkpoint. *)
LEMMA NewestInList ==
  ASSUME NEW es \in SUBSET Entry, es # {}, IsFiniteSet(es)
  PROVE  /\ Newest(es) \in es
         /\ \A f \in es : ~checkpointIsOlder(Newest(es).cp, f.cp)
PROOF
<1> DEFINE newer(e) == {f \in es : checkpointIsOlder(e.cp, f.cp)}
           sizes == {Cardinality(newer(e)) : e \in es}
<1>1. \A e \in es : IsFiniteSet(newer(e)) /\ Cardinality(newer(e)) \in Nat
  BY FS_Subset, FS_CardinalityType
<1>2. PICK e \in es : \A f \in es : Cardinality(newer(e)) <= Cardinality(newer(f))
  <2>1. sizes \in SUBSET Nat /\ sizes # {}
    BY <1>1, Zenon
  <2>2. PICK n \in sizes : \A m \in sizes : n <= m
    BY <2>1, LeastNat, Zenon
  <2>3. PICK e \in es : Cardinality(newer(e)) = n
    BY <2>2
  <2>4. \A f \in es : Cardinality(newer(f)) \in sizes
    BY Zenon
  <2> HIDE DEF newer, sizes
  <2> QED BY <2>2, <2>3, <2>4
<1>3. ASSUME NEW f \in es, checkpointIsOlder(e.cp, f.cp)
      PROVE  FALSE
  <2>1. e.cp \in Checkpoints /\ f.cp \in Checkpoints /\ \A g \in es : g.cp \in Checkpoints
    BY DEF Entry
  <2>2. newer(f) \subseteq newer(e)
    BY <1>3, <2>1, OlderIsStrict
  <2>3. f \in newer(e) /\ f \notin newer(f)
    BY <1>3, <2>1, OlderIsStrict
  <2> HIDE DEF newer
  <2>4. Cardinality(newer(f)) < Cardinality(newer(e))
    BY <1>1, <2>2, <2>3, FS_Subset
  <2> QED BY <1>1, <1>2, <2>4
<1> HIDE DEF newer, sizes
<1> QED BY <1>3 DEF Newest

-----------------------------------------------------------------------------
(* The part of the inductive invariant that concerns single calls. *)

Item == [place : Places, cp : Checkpoints, pending : SUBSET Writes]

Pcs ==
  {"done", "failed", "pointer", "write", "get", "getWrites", "scan", "scanWrites", "tuple",
   "remove", "findWrites", "dropWrites", "rescan", "repair", "findPointers", "dropPointers",
   "findThreadWrites", "list", "gather", "copy"}

CallRecord ==
  [req : Requests \cup {None}, pc : Pcs, at : Places \cup {None}, id : Nat,
   cur : Entry \cup {None}, got : SUBSET Writes, todo : SUBSET Entry,
   ws : SUBSET Written, fix : SUBSET Places, ready : SUBSET Item]

TypeInv ==
  /\ records \in SUBSET Entry /\ IsFiniteSet(records)
  /\ pointer \in [Places -> Nat]
  /\ written \in SUBSET Written
  /\ call \in [Callers -> CallRecord]
  /\ erased \in SUBSET Entry

(* Where a running call can be, and which of its locals are set there. *)
Stage(k) ==
  /\ k.req.op = "put" => k.pc \in {"pointer", "write"} /\ k.ready = {}
  /\ k.req.op = "getTuple" =>
       k.pc \in {"get", "getWrites", "scan", "scanWrites", "tuple"} /\ k.at = k.req.place
  /\ k.req.op \in {"prune", "deleteForRuns"} =>
       k.pc \in {"remove", "findWrites", "dropWrites", "rescan", "repair"}
  /\ k.req.op = "deleteThread" =>
       k.pc \in {"remove", "findPointers", "dropPointers", "findThreadWrites", "dropWrites"}
  /\ k.req.op = "copyThread" =>
       k.pc \in {"remove", "findPointers", "dropPointers", "findThreadWrites", "dropWrites",
                 "list", "gather", "copy", "pointer", "write"}
  /\ k.pc \in {"pointer", "getWrites", "scanWrites", "tuple", "findWrites"} => k.cur # None
  /\ k.pc = "repair" => k.at # None
  /\ k.pc = "copy" => k.ready # {}

StageInv == \A c \in Callers : Busy(c) => call[c].req \in Requests /\ Stage(call[c])

-----------------------------------------------------------------------------
(* Types. *)

(* The fields that a request has. *)
LEMMA RequestFields ==
  ASSUME NEW r \in Requests
  PROVE  /\ r.op \in {"put", "getTuple", "prune", "deleteThread", "deleteForRuns", "copyThread"}
         /\ r.op = "put" => r.entry \in Entry
         /\ r.op = "getTuple" => r.place \in Places
         /\ r.op = "prune" => r.place \in Places /\ r.keep \in Nat
         /\ r.op \in {"deleteThread", "deleteForRuns", "copyThread"} => r.places \in SUBSET Places
         /\ r.op = "copyThread" => r.to \in [Places -> Places]
         /\ r # None
PROOF
<1>1. r \in Request /\ None \notin Request
  BY StorageSaverAssumption
<1> QED BY <1>1 DEF Request

(* A new call has the type of a call. *)
LEMMA NewCallType ==
  ASSUME NEW r \in Requests \cup {None}
  PROVE  NewCall(r) \in CallRecord
PROOF BY DEF NewCall, CallRecord, Pcs, NoId

(* What it means for the call of c to go on as k. *)
LEMMA GotoFacts ==
  ASSUME NEW c \in Callers, NEW k \in CallRecord, k.req \in Requests,
         call \in [Callers -> CallRecord], Goto(c, k)
  PROVE  /\ call' \in [Callers -> CallRecord]
         /\ \A d \in Callers \ {c} : call'[d] = call[d]
         /\ k.pc \notin {"done", "failed"} => call'[c] = k
         /\ k.pc \in {"done", "failed"} => call'[c].pc = k.pc
         /\ k.pc = "done" /\ k.req.op \in {"getTuple", "deleteThread"} =>
              call'[c].req = k.req /\ call'[c].cur = k.cur
         /\ k.pc = "failed" \/ (k.pc = "done" /\ k.req.op \notin {"getTuple", "deleteThread"}) =>
              call'[c].req = None
PROOF
<1>1. call' = [call EXCEPT ![c] = Settled(k)]
  BY DEF Goto
<1>2. call'[c] = Settled(k) /\ \A d \in Callers \ {c} : call'[d] = call[d]
  BY <1>1
<1>3. CASE k.pc \notin {"done", "failed"}
  BY <1>1, <1>2, <1>3 DEF Settled
<1>4. CASE k.pc = "done" /\ k.req.op \in {"getTuple", "deleteThread"}
  <2>1. Settled(k) = [NewCall(k.req) EXCEPT !.cur = k.cur, !.got = k.got]
    BY <1>4 DEF Settled
  <2>2. NewCall(k.req) \in CallRecord /\ NewCall(k.req).pc = "done" /\ NewCall(k.req).req = k.req
    BY NewCallType DEF NewCall
  <2>3. Settled(k) \in CallRecord /\ Settled(k).pc = "done" /\ Settled(k).req = k.req /\ Settled(k).cur = k.cur
    BY <2>1, <2>2, Zenon DEF CallRecord
  <2> QED BY <1>1, <1>2, <1>4, <2>3
<1>5. CASE k.pc = "failed" \/ (k.pc = "done" /\ k.req.op \notin {"getTuple", "deleteThread"})
  <2>1. Settled(k) = [NewCall(None) EXCEPT !.pc = k.pc]
    BY <1>5 DEF Settled
  <2>2. NewCall(None) \in CallRecord /\ NewCall(None).req = None
    BY NewCallType DEF NewCall
  <2>3. Settled(k) \in CallRecord /\ Settled(k).pc = k.pc /\ Settled(k).req = None
    BY <2>1, <2>2, Zenon DEF CallRecord
  <2> QED BY <1>1, <1>2, <1>5, <2>3
<1> QED BY <1>3, <1>4, <1>5

(* A step of c for the request r: the calls stay well formed, c goes on    *)
(* with r or has settled, and no other call moves.                         *)
Moves(c, r) ==
  /\ call' \in [Callers -> CallRecord] /\ StageInv'
  /\ call'[c].req \in {r, None}
  /\ \A d \in Callers \ {c} : call'[d] = call[d]

(* Going on as k keeps the types and stages of all calls. *)
LEMMA GotoKeeps ==
  ASSUME TypeInv, StageInv, NEW c \in Callers, NEW k \in CallRecord, k.req \in Requests,
         k.pc \notin {"done", "failed"} => Stage(k), Goto(c, k)
  PROVE  Moves(c, k.req)
PROOF
<1>1. call \in [Callers -> CallRecord]
  BY DEF TypeInv
<1>2. call' \in [Callers -> CallRecord] /\ \A d \in Callers \ {c} : call'[d] = call[d]
  BY <1>1, GotoFacts
<1>3. k.pc \notin {"done", "failed"} => call'[c] = k
  BY <1>1, GotoFacts
<1>4. k.pc \in {"done", "failed"} => call'[c].pc = k.pc
  BY <1>1, GotoFacts
<1>5. ASSUME NEW d \in Callers, Busy(d)'
      PROVE  call'[d].req \in Requests /\ Stage(call'[d])
  <2>1. CASE d = c
    BY <2>1, <1>3, <1>4, <1>5 DEF Busy
  <2>2. CASE d # c
    BY <2>2, <1>2, <1>5 DEF Busy, StageInv
  <2> QED BY <2>1, <2>2
<1>6. StageInv'
  BY <1>5 DEF StageInv, Stage
<1>7. call'[c].req \in {k.req, None}
  BY <1>1, <1>3, GotoFacts DEF CallRecord, Pcs
<1> QED BY <1>2, <1>6, <1>7 DEF Moves

(* The writes stored beside a checkpoint. *)
LEMMA WritesType ==
  ASSUME TypeInv, NEW e \in Entry
  PROVE  /\ readWrites(e) \in SUBSET Writes
         /\ \A ws \in SUBSET Writes : WriteKeys(e, ws) \in SUBSET Written
PROOF
<1>1. e.place \in Places /\ e.cp.id \in Nat
  BY CheckpointFields DEF Entry
<1> QED BY <1>1 DEF TypeInv, readWrites, WriteKeys, Written

StorageType ==
  /\ records \in SUBSET Entry /\ IsFiniteSet(records)
  /\ pointer \in [Places -> Nat]
  /\ written \in SUBSET Written

(* An insert keeps the types, whether it succeeds or is refused. *)
LEMMA InsertKeeps ==
  ASSUME TypeInv, StageInv, NEW c \in Callers, NEW k \in CallRecord, k.req \in Requests,
         Stage([k EXCEPT !.pc = "pointer"]), k.cur \in Entry, InsertRecord(c, k)
  PROVE  Moves(c, k.req) /\ StorageType'
PROOF
<1>1. StorageType'
  <2>1. IsFiniteSet(records \cup {k.cur})
    BY FS_AddElement DEF TypeInv
  <2> QED BY <2>1, Zenon DEF TypeInv, StorageType, InsertRecord
<1>2. CASE Goto(c, [k EXCEPT !.pc = "failed"])
  <2>1. [k EXCEPT !.pc = "failed"] \in CallRecord /\ [k EXCEPT !.pc = "failed"].pc = "failed"
          /\ [k EXCEPT !.pc = "failed"].req = k.req
    BY DEF CallRecord, Pcs
  <2> QED BY <1>1, <1>2, <2>1, GotoKeeps, Zenon
<1>3. CASE Goto(c, [k EXCEPT !.pc = "pointer"])
  <2>1. [k EXCEPT !.pc = "pointer"] \in CallRecord /\ [k EXCEPT !.pc = "pointer"].req = k.req
    BY DEF CallRecord, Pcs
  <2> QED BY <1>1, <1>3, <2>1, GotoKeeps, Zenon
<1> QED BY <1>2, <1>3 DEF InsertRecord

(* What follows a removal, by the call. *)
LEMMA AfterRemovalPc ==
  ASSUME NEW k \in CallRecord, k.req \in Requests
  PROVE  /\ k.todo # {} => AfterRemoval(k) = "remove"
         /\ k.todo = {} /\ Erases(k.req) => AfterRemoval(k) = "findPointers"
         /\ k.todo = {} /\ ~Erases(k.req) => AfterRemoval(k) \in {"rescan", "done"}
PROOF BY DEF AfterRemoval

(* A deletion that has listed its removals is at one of its stages. *)
LEMMA RemovalKeeps ==
  ASSUME TypeInv, StageInv, NEW c \in Callers, NEW k \in CallRecord, k.req \in Requests,
         k.req.op \in {"prune", "deleteForRuns", "deleteThread", "copyThread"},
         Goto(c, [k EXCEPT !.pc = AfterRemoval(k)])
  PROVE  Moves(c, k.req)
PROOF
<1> DEFINE j == [k EXCEPT !.pc = AfterRemoval(k)]
<1>1. /\ AfterRemoval(k) \in {"remove", "findPointers", "rescan", "done"}
      /\ AfterRemoval(k) = "findPointers" => Erases(k.req)
      /\ AfterRemoval(k) = "rescan" => ~Erases(k.req)
  BY AfterRemovalPc
<1>2. j \in CallRecord /\ j.req = k.req /\ j.pc = AfterRemoval(k)
  BY <1>1 DEF CallRecord, Pcs
<1>3. j.pc # "done" => Stage(j)
  <2> HIDE DEF j
  <2> QED BY <1>1, <1>2 DEF Stage, Erases
<1> HIDE DEF j
<1>4. Goto(c, j)
  BY DEF j
<1> QED BY <1>1, <1>2, <1>3, <1>4, GotoKeeps

(* The first operation of a call keeps the types. *)
LEMMA BeginKeeps ==
  ASSUME TypeInv, StageInv, NEW c \in Callers, NEW r \in Requests, Begin(c, r)
  PROVE  Moves(c, r) /\ StorageType'
PROOF
<1> DEFINE n == NewCall(r)
<1>1. n \in CallRecord /\ n.req = r /\ n.ready = {}
  BY NewCallType DEF NewCall
<1>2. UNCHANGED storage => StorageType'
  BY DEF storage, StorageType, TypeInv
<1> HIDE DEF n
<1>3. CASE Put(c, r)
  <2> DEFINE k == [n EXCEPT !.cur = r.entry, !.ws = WriteKeys(r.entry, r.entry.cp.pend)]
  <2>1. r.op = "put" /\ r.entry \in Entry /\ r.entry.cp.pend \in SUBSET Writes /\ r.entry # None
    <3>1. r.op = "put" /\ r.entry \in Entry
      BY <1>3, RequestFields DEF Put
    <3>2. r.entry.cp \in Checkpoints
      BY <3>1 DEF Entry
    <3> QED BY <3>1, <3>2, CheckpointFields, StorageSaverAssumption
  <2>2. k \in CallRecord /\ k.req = r /\ k.cur = r.entry /\ k.ready = {}
    BY <1>1, <2>1, WritesType, Zenon DEF CallRecord
  <2>3. InsertRecord(c, k)
    BY <1>3 DEF Put, n
  <2> HIDE DEF k
  <2>4. Stage([k EXCEPT !.pc = "pointer"])
    BY <2>1, <2>2 DEF Stage, CallRecord
  <2> QED BY <2>1, <2>2, <2>3, <2>4, InsertKeeps
<1>4. CASE GetTuple(c, r)
  <2> DEFINE k == [n EXCEPT !.at = r.place, !.id = pointer[r.place],
                            !.pc = IF pointer[r.place] = NoId THEN "scan" ELSE "get"]
  <2>1. r.op = "getTuple" /\ r.place \in Places /\ pointer[r.place] \in Nat
    BY <1>4, RequestFields DEF GetTuple, TypeInv
  <2>2. k \in CallRecord /\ k.req = r /\ k.at = r.place /\ k.pc \in {"scan", "get"}
    BY <1>1, <2>1, Zenon DEF CallRecord, Pcs
  <2>3. Goto(c, k) /\ UNCHANGED storage
    BY <1>4 DEF GetTuple, n
  <2> HIDE DEF k
  <2>4. Stage(k)
    BY <2>1, <2>2 DEF Stage
  <2> QED BY <1>2, <2>2, <2>3, <2>4, GotoKeeps
<1>5. ASSUME NEW doomed \in SUBSET Entry, NEW affected \in SUBSET Places,
             r.op \in {"prune", "deleteForRuns", "deleteThread", "copyThread"},
             ListRemovals(c, r, doomed, affected)
      PROVE  Moves(c, r) /\ StorageType'
  <2> DEFINE k == [n EXCEPT !.todo = doomed, !.fix = affected]
  <2>1. k \in CallRecord /\ k.req = r
    BY <1>1, Zenon DEF CallRecord
  <2>2. Goto(c, [k EXCEPT !.pc = AfterRemoval(k)]) /\ UNCHANGED storage
    BY <1>5 DEF ListRemovals, n
  <2> HIDE DEF k
  <2> QED BY <1>2, <1>5, <2>1, <2>2, RemovalKeeps
<1>6. \A ps : At(ps) \in SUBSET Entry /\ \A e \in At(ps) : e.place \in Places
  BY DEF At, TypeInv, Entry
<1>7. CASE Prune(c, r)
  <2>1. r.op = "prune" /\ r.place \in Places /\ Surplus(At({r.place}), r.keep) \in SUBSET Entry
    BY <1>6, <1>7, RequestFields DEF Prune, Surplus
  <2> QED BY <1>5, <1>7, <2>1 DEF Prune
<1>8. CASE DeleteForRuns(c, r)
  <2> DEFINE doomed == {e \in At(r.places) : e.cp.run = r.run}
  <2>1. doomed \in SUBSET Entry /\ {e.place : e \in doomed} \in SUBSET Places
    BY <1>6
  <2>2. r.op = "deleteForRuns" /\ ListRemovals(c, r, doomed, {e.place : e \in doomed})
    BY <1>8 DEF DeleteForRuns
  <2> HIDE DEF doomed
  <2> QED BY <1>5, <2>1, <2>2
<1>9. CASE DeleteThread(c, r)
  <2>1. r.op \in {"deleteThread", "copyThread"} /\ ListRemovals(c, r, At(r.places), {})
    BY <1>9 DEF DeleteThread
  <2> QED BY <1>5, <1>6, <2>1
<1>10. CASE CopyThread(c, r)
  <2> DEFINE k == [n EXCEPT !.todo = At(r.from), !.pc = IF At(r.from) # {} THEN "gather" ELSE "done"]
  <2>1. r.op = "copyThread"
    BY <1>10 DEF CopyThread
  <2>2. k \in CallRecord /\ k.req = r /\ k.pc \in {"gather", "done"}
    BY <1>1, <1>6 DEF CallRecord, Pcs
  <2>3. Goto(c, k) /\ UNCHANGED storage
    BY <1>10, <1>1 DEF CopyThread, ListSource, n
  <2> HIDE DEF k
  <2>4. k.pc # "done" => Stage(k)
    BY <2>1, <2>2 DEF Stage
  <2> QED BY <1>2, <2>2, <2>3, <2>4, GotoKeeps
<1> QED BY <1>3, <1>4, <1>7, <1>8, <1>9, <1>10 DEF Begin

(* Every operation belongs to one point of a call. *)
LEMMA Guards ==
  ASSUME NEW c \in Callers
  PROVE  /\ SetPointer(c) => call[c].pc = "pointer"
         /\ PutWrite(c) => call[c].pc = "write"
         /\ GetCheckpoint(c) => call[c].pc = "get"
         /\ ReadCheckpointWrites(c) => call[c].pc \in {"getWrites", "scanWrites"}
         /\ Scan(c) => call[c].pc = "scan"
         /\ ReadTupleWrites(c) => call[c].pc = "tuple"
         /\ RemoveRecord(c) => call[c].pc = "remove"
         /\ FindWrites(c) => call[c].pc = "findWrites"
         /\ DropWrite(c) => call[c].pc = "dropWrites"
         /\ Rescan(c) => call[c].pc = "rescan"
         /\ RepairPointer(c) => call[c].pc = "repair"
         /\ FindPointers(c) => call[c].pc = "findPointers"
         /\ DropPointer(c) => call[c].pc = "dropPointers"
         /\ FindThreadWrites(c) => call[c].pc = "findThreadWrites"
         /\ ListAfterErasure(c) => call[c].pc = "list"
         /\ Gather(c) => call[c].pc = "gather"
         /\ CopyRecord(c) => call[c].pc = "copy"
PROOF
<1>1. /\ SetPointer(c) => call[c].pc = "pointer"
      /\ PutWrite(c) => call[c].pc = "write"
      /\ GetCheckpoint(c) => call[c].pc = "get"
      /\ ReadCheckpointWrites(c) => call[c].pc \in {"getWrites", "scanWrites"}
  BY Zenon DEF SetPointer, PutWrite, GetCheckpoint, ReadCheckpointWrites
<1>2. /\ Scan(c) => call[c].pc = "scan"
      /\ ReadTupleWrites(c) => call[c].pc = "tuple"
      /\ RemoveRecord(c) => call[c].pc = "remove"
      /\ FindWrites(c) => call[c].pc = "findWrites"
  BY Zenon DEF Scan, ReadTupleWrites, RemoveRecord, FindWrites
<1>3. /\ DropWrite(c) => call[c].pc = "dropWrites"
      /\ Rescan(c) => call[c].pc = "rescan"
      /\ RepairPointer(c) => call[c].pc = "repair"
      /\ FindPointers(c) => call[c].pc = "findPointers"
      /\ DropPointer(c) => call[c].pc = "dropPointers"
  BY Zenon DEF DropWrite, Rescan, RepairPointer, FindPointers, DropPointer
<1>4. /\ FindThreadWrites(c) => call[c].pc = "findThreadWrites"
      /\ ListAfterErasure(c) => call[c].pc = "list"
      /\ Gather(c) => call[c].pc = "gather"
      /\ CopyRecord(c) => call[c].pc = "copy"
  BY Zenon DEF FindThreadWrites, ListAfterErasure, Gather, CopyRecord
<1> QED BY <1>1, <1>2, <1>3, <1>4

(* A call that goes on is running, and where its stage says. *)
LEMMA Running ==
  ASSUME TypeInv, StageInv, NEW c \in Callers, Continue(c)
  PROVE  Busy(c) /\ call[c] \in CallRecord /\ call[c].req \in Requests /\ Stage(call[c])
PROOF
<1>1. Busy(c)
  BY Guards DEF Continue, Busy
<1> QED BY <1>1 DEF TypeInv, StageInv

(* The operations of a put keep the types. *)
LEMMA PutKeeps ==
  ASSUME TypeInv, StageInv, NEW c \in Callers, SetPointer(c) \/ PutWrite(c)
  PROVE  Moves(c, call[c].req) /\ StorageType'
PROOF
<1> DEFINE k == call[c]
<1> SUFFICES Moves(c, k.req) /\ StorageType'
  OBVIOUS
<1>1. k \in CallRecord /\ k.req \in Requests /\ Stage(k)
  BY Running DEF Continue
<1>2. k.pc \in {"pointer", "write"} /\ k.req.op \in {"put", "copyThread"}
  BY <1>1, Guards, RequestFields DEF Stage
<1>3. \A j \in CallRecord : /\ AfterPut(j) \in {"write", "copy", "done"}
                            /\ AfterPut(j) = "copy" => j.ready # {}
  BY DEF AfterPut
<1>4. ASSUME NEW j \in CallRecord, j.req = k.req, j.ready = k.ready,
             Goto(c, [j EXCEPT !.pc = AfterPut(j)])
      PROVE  Moves(c, k.req)
  <2> DEFINE i == [j EXCEPT !.pc = AfterPut(j)]
  <2>1. i \in CallRecord /\ i.req = k.req /\ i.pc = AfterPut(j) /\ i.ready = k.ready
    BY <1>3, <1>4 DEF CallRecord, Pcs
  <2>2. i.pc # "done" => Stage(i)
    <3> HIDE DEF i
    <3> QED BY <1>1, <1>2, <1>3, <1>4, <2>1 DEF Stage
  <2> HIDE DEF i
  <2>3. Goto(c, i)
    BY <1>4 DEF i
  <2> QED BY <1>1, <1>3, <2>1, <2>2, <2>3, GotoKeeps
<1>5. CASE SetPointer(c)
  <2>1. k.cur \in Entry
    BY <1>1, <1>5, Guards DEF CallRecord, Stage
  <2>2. k.cur.place \in Places /\ k.cur.cp.id \in Nat
    BY <2>1, CheckpointFields DEF Entry
  <2>3. StorageType'
    BY <1>5, <2>2 DEF SetPointer, StorageType, TypeInv
  <2>4. Goto(c, [k EXCEPT !.pc = AfterPut(k)])
    BY <1>5 DEF SetPointer
  <2> QED BY <1>1, <1>4, <2>3, <2>4
<1>6. CASE PutWrite(c)
  <2>1. PICK w \in k.ws : /\ written' = written \cup {w}
                          /\ Goto(c, [[k EXCEPT !.ws = @ \ {w}] EXCEPT !.pc = AfterPut([k EXCEPT !.ws = @ \ {w}])])
    BY <1>6, Zenon DEF PutWrite
  <2> DEFINE j == [k EXCEPT !.ws = @ \ {w}]
  <2>2. w \in Written /\ j \in CallRecord /\ j.req = k.req /\ j.ready = k.ready
    BY <1>1 DEF CallRecord
  <2>3. StorageType'
    BY <1>6, <2>1, <2>2 DEF PutWrite, StorageType, TypeInv
  <2>4. Goto(c, [j EXCEPT !.pc = AfterPut(j)])
    BY <2>1
  <2> HIDE DEF j
  <2> QED BY <1>4, <2>2, <2>3, <2>4
<1> QED BY <1>5, <1>6

(* The operations of a getTuple keep the types. *)
LEMMA GetKeeps ==
  ASSUME TypeInv, StageInv, NEW c \in Callers,
         GetCheckpoint(c) \/ ReadCheckpointWrites(c) \/ Scan(c) \/ ReadTupleWrites(c)
  PROVE  Moves(c, call[c].req) /\ StorageType'
PROOF
<1> DEFINE k == call[c]
<1> SUFFICES Moves(c, k.req) /\ StorageType'
  OBVIOUS
<1>1. k \in CallRecord /\ k.req \in Requests /\ Stage(k)
  BY Running DEF Continue
<1>2. k.req.op = "getTuple"
  BY <1>1, Guards, RequestFields DEF Stage
<1>3. k.at = k.req.place /\ k.at \in Places /\ At({k.at}) \in SUBSET Entry /\ IsFiniteSet(At({k.at}))
  BY <1>1, <1>2, RequestFields, FS_Subset DEF Stage, At, TypeInv
<1>4. StorageType'
  BY DEF GetCheckpoint, ReadCheckpointWrites, Scan, ReadTupleWrites, storage, StorageType, TypeInv
<1>5. ASSUME NEW j \in CallRecord, j.req = k.req, j.at = k.at,
             j.pc \in {"scan", "getWrites", "scanWrites", "tuple", "done"},
             j.pc \in {"getWrites", "scanWrites", "tuple"} => j.cur # None, Goto(c, j)
      PROVE  Moves(c, k.req)
  <2>1. j.pc # "done" => Stage(j)
    BY <1>2, <1>3, <1>5 DEF Stage
  <2> QED BY <1>1, <1>5, <2>1, GotoKeeps
<1>6. ASSUME NEW pc \in {"scan", "tuple", "done"}, pc = "tuple" => k.cur # None,
             Goto(c, [k EXCEPT !.pc = pc])
      PROVE  Moves(c, k.req)
  <2> DEFINE j == [k EXCEPT !.pc = pc]
  <2>1. j \in CallRecord /\ j.req = k.req /\ j.at = k.at /\ j.pc = pc /\ j.cur = k.cur /\ Goto(c, j)
    BY <1>1, <1>6 DEF CallRecord, Pcs
  <2> HIDE DEF j
  <2> QED BY <1>5, <1>6, <2>1
<1>7. ASSUME NEW pc \in {"getWrites", "scanWrites"}, NEW e \in Entry,
             Goto(c, [k EXCEPT !.pc = pc, !.cur = e])
      PROVE  Moves(c, k.req)
  <2> DEFINE j == [k EXCEPT !.pc = pc, !.cur = e]
  <2>1. j \in CallRecord /\ j.req = k.req /\ j.at = k.at /\ j.pc = pc /\ j.cur = e /\ Goto(c, j)
    BY <1>1, <1>7, Zenon DEF CallRecord, Pcs
  <2>2. e # None
    BY StorageSaverAssumption
  <2> HIDE DEF j
  <2> QED BY <1>5, <2>1, <2>2
<1>8. ASSUME NEW pc \in {"scan", "tuple", "done"}, NEW ws \in SUBSET Writes, k.cur # None,
             Goto(c, [k EXCEPT !.pc = pc, !.got = ws])
      PROVE  Moves(c, k.req)
  <2> DEFINE j == [k EXCEPT !.pc = pc, !.got = ws]
  <2>1. j \in CallRecord /\ j.req = k.req /\ j.at = k.at /\ j.pc = pc /\ j.cur = k.cur /\ Goto(c, j)
    BY <1>1, <1>8, Zenon DEF CallRecord, Pcs
  <2> HIDE DEF j
  <2> QED BY <1>5, <1>8, <2>1
<1> HIDE DEF k
<1>9. CASE GetCheckpoint(c)
  <2>1. \/ Goto(c, [k EXCEPT !.pc = "scan"])
        \/ \E e \in At({k.at}) : Goto(c, [k EXCEPT !.pc = "getWrites", !.cur = e])
    BY <1>9, Zenon DEF GetCheckpoint, k
  <2>2. CASE Goto(c, [k EXCEPT !.pc = "scan"])
    BY <1>4, <1>6, <2>2
  <2>3. CASE \E e \in At({k.at}) : Goto(c, [k EXCEPT !.pc = "getWrites", !.cur = e])
    BY <1>3, <1>4, <1>7, <2>3
  <2> QED BY <2>1, <2>2, <2>3
<1>10. CASE ReadCheckpointWrites(c)
  <2> DEFINE pc == IF k.pc = "getWrites" THEN "scan" ELSE "tuple"
             ws == Adopted(k.cur.cp.pend, readWrites(k.cur))
  <2>1. k.cur \in Entry /\ k.cur # None
    BY <1>1, <1>10, Guards, StorageSaverAssumption DEF CallRecord, Stage, k
  <2>2. k.cur.cp.pend \in SUBSET Writes
    BY <2>1, CheckpointFields DEF Entry
  <2>3. ws \in SUBSET Writes
    BY <2>1, <2>2, WritesType DEF Adopted
  <2>4. Goto(c, [k EXCEPT !.pc = pc, !.got = ws]) /\ pc \in {"scan", "tuple", "done"}
    BY <1>10 DEF ReadCheckpointWrites, k
  <2> HIDE DEF pc, ws
  <2> QED BY <1>4, <1>8, <2>1, <2>3, <2>4
<1>11. CASE Scan(c)
  <2>1. \/ Goto(c, [k EXCEPT !.pc = IF k.cur = None THEN "done" ELSE "tuple"])
        \/ k.cur # None /\ Goto(c, [k EXCEPT !.pc = "tuple"])
        \/ At({k.at}) # {} /\ Goto(c, [k EXCEPT !.pc = "scanWrites", !.cur = Newest(At({k.at}))])
    BY <1>11, Zenon DEF Scan, k
  <2>2. CASE Goto(c, [k EXCEPT !.pc = IF k.cur = None THEN "done" ELSE "tuple"])
    <3> DEFINE pc == IF k.cur = None THEN "done" ELSE "tuple"
    <3>1. pc \in {"scan", "tuple", "done"} /\ (pc = "tuple" => k.cur # None) /\ Goto(c, [k EXCEPT !.pc = pc])
      BY <2>2
    <3> HIDE DEF pc
    <3> QED BY <1>4, <1>6, <3>1
  <2>3. CASE k.cur # None /\ Goto(c, [k EXCEPT !.pc = "tuple"])
    BY <1>4, <1>6, <2>3
  <2>4. CASE At({k.at}) # {} /\ Goto(c, [k EXCEPT !.pc = "scanWrites", !.cur = Newest(At({k.at}))])
    <3>1. Newest(At({k.at})) \in Entry
      BY <1>3, <2>4, NewestInList, Zenon
    <3> QED BY <1>4, <1>7, <2>4, <3>1
  <2> QED BY <2>1, <2>2, <2>3, <2>4
<1>12. CASE ReadTupleWrites(c)
  <2> DEFINE ws == TuplePending(k.got, readWrites(k.cur))
  <2>1. k.cur \in Entry /\ k.cur # None /\ k.got \in SUBSET Writes
    BY <1>1, <1>12, Guards, StorageSaverAssumption DEF CallRecord, Stage, k
  <2>2. ws \in SUBSET Writes
    BY <2>1, WritesType DEF TuplePending
  <2>3. Goto(c, [k EXCEPT !.pc = "done", !.got = ws])
    BY <1>12 DEF ReadTupleWrites, k
  <2> HIDE DEF ws
  <2> QED BY <1>4, <1>8, <2>1, <2>2, <2>3
<1> QED BY <1>9, <1>10, <1>11, <1>12

(* The operations of prune and deleteForRuns, and those they share with    *)
(* deleteThread, keep the types.                                           *)
LEMMA RemoveKeeps ==
  ASSUME TypeInv, StageInv, NEW c \in Callers,
         RemoveRecord(c) \/ FindWrites(c) \/ DropWrite(c) \/ Rescan(c) \/ RepairPointer(c)
  PROVE  Moves(c, call[c].req) /\ StorageType'
PROOF
<1> DEFINE k == call[c]
<1> SUFFICES Moves(c, k.req) /\ StorageType'
  OBVIOUS
<1>1. k \in CallRecord /\ k.req \in Requests /\ Stage(k)
  BY Running DEF Continue
<1>2. k.req.op \in {"prune", "deleteForRuns", "deleteThread", "copyThread"}
  BY <1>1, Guards, RequestFields DEF Stage
<1>3. k.pc \in {"findWrites", "rescan", "repair"} => ~Erases(k.req)
  BY <1>1, <1>2 DEF Stage, Erases
<1>4. ~Erases(k.req) => k.req.op \in {"prune", "deleteForRuns"}
  BY <1>2 DEF Erases
<1>5. ASSUME NEW j \in CallRecord, j.req = k.req, Goto(c, [j EXCEPT !.pc = AfterRemoval(j)])
      PROVE  Moves(c, k.req)
  BY <1>1, <1>2, <1>5, RemovalKeeps
<1>6. ASSUME NEW j \in CallRecord, j.req = k.req, Goto(c, j), ~Erases(k.req),
             j.pc \in {"findWrites", "dropWrites", "repair"},
             j.pc = "findWrites" => j.cur # None, j.pc = "repair" => j.at # None
      PROVE  Moves(c, k.req)
  <2>1. Stage(j)
    BY <1>4, <1>6 DEF Stage
  <2> QED BY <1>1, <1>6, <2>1, GotoKeeps
<1> HIDE DEF k
<1>7. CASE RemoveRecord(c)
  <2>1. PICK e \in k.todo :
          /\ records' = {f \in records : ~SameKey(e, f)}
          /\ Goto(c, IF Erases([k EXCEPT !.todo = @ \ {e}].req)
                     THEN [[k EXCEPT !.todo = @ \ {e}] EXCEPT !.pc = AfterRemoval([k EXCEPT !.todo = @ \ {e}])]
                     ELSE [[k EXCEPT !.todo = @ \ {e}] EXCEPT !.pc = "findWrites", !.cur = e])
    BY <1>7, Zenon DEF RemoveRecord, k
  <2> DEFINE j == [k EXCEPT !.todo = @ \ {e}]
  <2>2. e \in Entry /\ e # None /\ j \in CallRecord /\ j.req = k.req
    BY <1>1, StorageSaverAssumption DEF CallRecord
  <2>3. StorageType'
    <3>1. records' \subseteq records /\ UNCHANGED <<pointer, written>>
      BY <1>7, <2>1 DEF RemoveRecord
    <3>2. IsFiniteSet(records')
      BY <3>1, FS_Subset DEF TypeInv
    <3> QED BY <3>1, <3>2 DEF StorageType, TypeInv
  <2>4. Goto(c, IF Erases(j.req) THEN [j EXCEPT !.pc = AfterRemoval(j)]
                                 ELSE [j EXCEPT !.pc = "findWrites", !.cur = e])
    BY <2>1
  <2> HIDE DEF j
  <2>5. CASE Erases(j.req)
    <3>1. Goto(c, [j EXCEPT !.pc = AfterRemoval(j)])
      BY <2>4, <2>5
    <3> QED BY <1>5, <2>2, <2>3, <3>1
  <2>6. CASE ~Erases(j.req)
    <3> DEFINE i == [j EXCEPT !.pc = "findWrites", !.cur = e]
    <3>1. Goto(c, i)
      BY <2>4, <2>6
    <3>2. i \in CallRecord /\ i.req = k.req /\ i.pc = "findWrites" /\ i.cur = e
      BY <2>2, Zenon DEF CallRecord, Pcs
    <3> HIDE DEF i
    <3> QED BY <1>6, <2>2, <2>3, <2>6, <3>1, <3>2
  <2> QED BY <2>5, <2>6
<1>8. CASE FindWrites(c)
  <2> DEFINE found == WriteKeys(k.cur, readWrites(k.cur))
             j == [k EXCEPT !.ws = found]
  <2>1. k.pc = "findWrites" /\ k.cur \in Entry /\ ~Erases(k.req)
    BY <1>1, <1>3, <1>8, Guards DEF CallRecord, Stage, k
  <2>2. found \in SUBSET Written
    BY <2>1, WritesType
  <2>3. Goto(c, [j EXCEPT !.pc = IF found # {} THEN "dropWrites" ELSE AfterRemoval(j)]) /\ UNCHANGED storage
    BY <1>8, Zenon DEF FindWrites, k
  <2>4. StorageType'
    BY <2>3 DEF storage, StorageType, TypeInv
  <2> HIDE DEF found
  <2>5. j \in CallRecord /\ j.req = k.req
    BY <1>1, <2>2 DEF CallRecord
  <2> HIDE DEF j
  <2>6. CASE found # {}
    <3> DEFINE i == [j EXCEPT !.pc = "dropWrites"]
    <3>1. Goto(c, i)
      BY <2>3, <2>6
    <3>2. i \in CallRecord /\ i.req = k.req /\ i.pc = "dropWrites"
      BY <2>5 DEF CallRecord, Pcs
    <3> HIDE DEF i
    <3> QED BY <1>6, <2>1, <2>4, <3>1, <3>2
  <2>7. CASE found = {}
    <3>1. Goto(c, [j EXCEPT !.pc = AfterRemoval(j)])
      BY <2>3, <2>7
    <3> QED BY <1>5, <2>4, <2>5, <3>1
  <2> QED BY <2>6, <2>7
<1>9. CASE DropWrite(c)
  <2>1. PICK w \in k.ws :
          /\ written' = written \ {w}
          /\ Goto(c, [[k EXCEPT !.ws = @ \ {w}] EXCEPT !.pc =
                        IF [k EXCEPT !.ws = @ \ {w}].ws # {} THEN @
                        ELSE IF Erases([k EXCEPT !.ws = @ \ {w}].req) THEN AfterErasure([k EXCEPT !.ws = @ \ {w}])
                        ELSE AfterRemoval([k EXCEPT !.ws = @ \ {w}])])
    BY <1>9, Zenon DEF DropWrite, k
  <2> DEFINE j == [k EXCEPT !.ws = @ \ {w}]
  <2>2. j \in CallRecord /\ j.req = k.req /\ j.pc = "dropWrites" /\ j.ws = k.ws \ {w}
    BY <1>1, <1>9, Guards DEF CallRecord, k
  <2>3. StorageType'
    BY <1>9, <2>1 DEF DropWrite, StorageType, TypeInv
  <2>4. Goto(c, [j EXCEPT !.pc = IF j.ws # {} THEN @ ELSE IF Erases(j.req) THEN AfterErasure(j) ELSE AfterRemoval(j)])
    BY <2>1
  <2> HIDE DEF j
  <2>5. CASE j.ws # {}
    <3> DEFINE i == [j EXCEPT !.pc = @]
    <3>1. Goto(c, i)
      BY <2>4, <2>5
    <3>2. i \in CallRecord /\ i.req = k.req /\ i.pc = "dropWrites"
      BY <2>2 DEF CallRecord
    <3> HIDE DEF i
    <3>3. Stage(i)
      BY <1>2, <3>2 DEF Stage
    <3> QED BY <1>1, <2>3, <3>1, <3>2, <3>3, GotoKeeps
  <2>6. CASE j.ws = {} /\ Erases(j.req)
    <3> DEFINE i == [j EXCEPT !.pc = AfterErasure(j)]
    <3>1. Goto(c, i)
      BY <2>4, <2>6
    <3>2. i \in CallRecord /\ i.req = k.req /\ i.pc \in {"list", "done"} /\ (i.pc = "list" => k.req.op = "copyThread")
      BY <2>2 DEF CallRecord, Pcs, AfterErasure
    <3> HIDE DEF i
    <3>3. i.pc # "done" => Stage(i)
      BY <1>2, <3>2 DEF Stage
    <3> QED BY <1>1, <2>3, <3>1, <3>2, <3>3, GotoKeeps
  <2>7. CASE j.ws = {} /\ ~Erases(j.req)
    <3>1. Goto(c, [j EXCEPT !.pc = AfterRemoval(j)])
      BY <2>4, <2>7
    <3> QED BY <1>5, <2>2, <2>3, <3>1
  <2> QED BY <2>5, <2>6, <2>7
<1>10. CASE Rescan(c)
  <2>1. k.pc = "rescan" /\ ~Erases(k.req)
    BY <1>3, <1>10, Guards DEF k
  <2>2. PICK p \in k.fix :
          Goto(c, [k EXCEPT !.pc = "repair", !.fix = @ \ {p}, !.at = p,
                            !.id = IF At({p}) = {} THEN NoId ELSE Newest(At({p})).cp.id])
    BY <1>10, Zenon DEF Rescan, k
  <2> DEFINE id == IF At({p}) = {} THEN NoId ELSE Newest(At({p})).cp.id
             j == [k EXCEPT !.pc = "repair", !.fix = @ \ {p}, !.at = p, !.id = id]
  <2>3. id \in Nat
    <3>1. At({p}) \in SUBSET Entry /\ IsFiniteSet(At({p}))
      BY FS_Subset DEF At, TypeInv
    <3>2. At({p}) # {} => Newest(At({p})) \in Entry
      BY <3>1, NewestInList
    <3> QED BY <3>2, CheckpointFields DEF Entry, NoId
  <2>4. p \in Places /\ p # None
    BY <1>1, StorageSaverAssumption DEF CallRecord
  <2> HIDE DEF id
  <2>5. j \in CallRecord /\ j.req = k.req /\ j.pc = "repair" /\ j.at = p
    BY <1>1, <2>3, <2>4, Zenon DEF CallRecord, Pcs
  <2>6. Goto(c, j)
    BY <2>2 DEF id
  <2>7. StorageType'
    BY <1>10 DEF Rescan, storage, StorageType, TypeInv
  <2> HIDE DEF j
  <2> QED BY <1>6, <2>1, <2>4, <2>5, <2>6, <2>7
<1>11. CASE RepairPointer(c)
  <2>1. k.at \in Places /\ k.id \in Nat
    BY <1>1, <1>11, Guards DEF CallRecord, Stage, k
  <2>2. StorageType'
    BY <1>11, <2>1 DEF RepairPointer, StorageType, TypeInv, k
  <2>3. Goto(c, [k EXCEPT !.pc = AfterRemoval(k)])
    BY <1>11, Zenon DEF RepairPointer, k
  <2> QED BY <1>1, <1>5, <2>2, <2>3
<1> QED BY <1>7, <1>8, <1>9, <1>10, <1>11

(* The operations of deleteThread, also for a copy, keep the types. *)
LEMMA EraseKeeps ==
  ASSUME TypeInv, StageInv, NEW c \in Callers,
         FindPointers(c) \/ DropPointer(c) \/ FindThreadWrites(c)
  PROVE  Moves(c, call[c].req) /\ StorageType'
PROOF
<1> DEFINE k == call[c]
<1> SUFFICES Moves(c, k.req) /\ StorageType'
  OBVIOUS
<1>1. k \in CallRecord /\ k.req \in Requests /\ Stage(k)
  BY Running DEF Continue
<1>2. k.req.op \in {"deleteThread", "copyThread"} /\ k.req.places \in SUBSET Places
  BY <1>1, Guards, RequestFields DEF Stage
<1>3. ASSUME NEW j \in CallRecord, j.req = k.req, Goto(c, j),
             j.pc \in {"dropPointers", "findThreadWrites", "dropWrites", "list", "done"},
             j.pc = "list" => k.req.op = "copyThread"
      PROVE  Moves(c, k.req)
  <2>1. j.pc # "done" => Stage(j)
    BY <1>2, <1>3 DEF Stage
  <2> QED BY <1>1, <1>3, <2>1, GotoKeeps
<1> HIDE DEF k
<1>4. CASE FindPointers(c)
  <2> DEFINE found == {p \in k.req.places : pointer[p] # NoId}
             j == [k EXCEPT !.fix = found, !.pc = IF found # {} THEN "dropPointers" ELSE "findThreadWrites"]
  <2>1. found \in SUBSET Places
    BY <1>2
  <2>2. Goto(c, j)
    BY <1>4, Zenon DEF FindPointers, k
  <2>3. StorageType'
    BY <1>4 DEF FindPointers, storage, StorageType, TypeInv
  <2> HIDE DEF found
  <2>4. j \in CallRecord /\ j.req = k.req /\ j.pc \in {"dropPointers", "findThreadWrites"}
    BY <1>1, <2>1 DEF CallRecord, Pcs
  <2> HIDE DEF j
  <2> QED BY <1>3, <2>2, <2>3, <2>4
<1>5. CASE DropPointer(c)
  <2>1. PICK p \in k.fix :
          /\ pointer' = [pointer EXCEPT ![p] = NoId]
          /\ Goto(c, [k EXCEPT !.fix = @ \ {p}, !.pc = IF k.fix = {p} THEN "findThreadWrites" ELSE @])
    BY <1>5, Zenon DEF DropPointer, k
  <2> DEFINE j == [k EXCEPT !.fix = @ \ {p}, !.pc = IF k.fix = {p} THEN "findThreadWrites" ELSE @]
  <2>2. p \in Places /\ k.pc = "dropPointers"
    BY <1>1, <1>5, Guards DEF CallRecord, k
  <2>3. j \in CallRecord /\ j.req = k.req /\ j.pc \in {"dropPointers", "findThreadWrites"}
    BY <1>1, <2>2 DEF CallRecord, Pcs
  <2>4. StorageType'
    BY <1>5, <2>1, <2>2 DEF DropPointer, StorageType, TypeInv, NoId
  <2>5. Goto(c, j)
    BY <2>1
  <2> HIDE DEF j
  <2> QED BY <1>3, <2>3, <2>4, <2>5
<1>6. CASE FindThreadWrites(c)
  <2> DEFINE found == WrittenAt(k.req.places)
             j == [k EXCEPT !.ws = found, !.pc = IF found # {} THEN "dropWrites" ELSE AfterErasure(k)]
  <2>1. found \in SUBSET Written
    BY DEF WrittenAt, TypeInv
  <2>2. Goto(c, j)
    BY <1>6, Zenon DEF FindThreadWrites, k
  <2>3. StorageType'
    BY <1>6 DEF FindThreadWrites, storage, StorageType, TypeInv
  <2>4. AfterErasure(k) \in {"list", "done"} /\ (AfterErasure(k) = "list" => k.req.op = "copyThread")
    BY DEF AfterErasure
  <2> HIDE DEF found
  <2>5. j \in CallRecord /\ j.req = k.req /\ j.pc \in {"dropWrites", AfterErasure(k)}
    BY <1>1, <2>1, <2>4 DEF CallRecord, Pcs
  <2> HIDE DEF j
  <2> QED BY <1>3, <2>2, <2>3, <2>4, <2>5
<1> QED BY <1>4, <1>5, <1>6

(* The operations of a copy keep the types. *)
LEMMA CopyKeeps ==
  ASSUME TypeInv, StageInv, NEW c \in Callers,
         ListAfterErasure(c) \/ Gather(c) \/ CopyRecord(c)
  PROVE  Moves(c, call[c].req) /\ StorageType'
PROOF
<1> DEFINE k == call[c]
<1> SUFFICES Moves(c, k.req) /\ StorageType'
  OBVIOUS
<1>1. k \in CallRecord /\ k.req \in Requests /\ Stage(k)
  BY Running DEF Continue
<1>2. k.req.op = "copyThread" /\ k.req.to \in [Places -> Places]
  BY <1>1, Guards, RequestFields DEF Stage
<1>3. ASSUME NEW j \in CallRecord, j.req = k.req, Goto(c, j),
             j.pc \in {"gather", "copy", "done"}, j.pc = "copy" => j.ready # {}
      PROVE  Moves(c, k.req)
  <2>1. j.pc # "done" => Stage(j)
    BY <1>2, <1>3 DEF Stage
  <2> QED BY <1>1, <1>3, <2>1, GotoKeeps
<1> HIDE DEF k
<1>4. CASE ListAfterErasure(c)
  <2> DEFINE es == At(k.req.from)
             j == [k EXCEPT !.todo = es, !.pc = IF es # {} THEN "gather" ELSE "done"]
  <2>1. es \in SUBSET Entry
    BY DEF At, TypeInv
  <2>2. Goto(c, j)
    BY <1>4, Zenon DEF ListAfterErasure, ListSource, k
  <2>3. StorageType'
    BY <1>4 DEF ListAfterErasure, ListSource, storage, StorageType, TypeInv
  <2> HIDE DEF es
  <2>4. j \in CallRecord /\ j.req = k.req /\ j.pc \in {"gather", "done"}
    BY <1>1, <2>1 DEF CallRecord, Pcs
  <2> HIDE DEF j
  <2> QED BY <1>3, <2>2, <2>3, <2>4
<1>5. CASE Gather(c)
  <2> DEFINE itemOf(e) == [place |-> k.req.to[e.place],
                           cp |-> [e.cp EXCEPT !.pend = Adopted(e.cp.pend, readWrites(e))],
                           pending |-> TuplePending(e.cp.pend, readWrites(e))]
  <2>1. PICK e \in k.todo :
          Goto(c, [k EXCEPT !.todo = @ \ {e}, !.ready = @ \cup {itemOf(e)},
                            !.pc = IF k.todo = {e} THEN "copy" ELSE @])
    BY <1>5, Zenon DEF Gather, k
  <2>2. e \in Entry /\ k.pc = "gather"
    BY <1>1, <1>5, Guards DEF CallRecord, k
  <2>3. itemOf(e) \in Item
    <3>1. e.place \in Places /\ e.cp \in Checkpoints
      BY <2>2 DEF Entry
    <3>2. e.cp.pend \in SUBSET Writes /\ readWrites(e) \in SUBSET Writes
      BY <2>2, <3>1, CheckpointFields, WritesType
    <3>3. Adopted(e.cp.pend, readWrites(e)) \in SUBSET Writes /\ TuplePending(e.cp.pend, readWrites(e)) \in SUBSET Writes
      BY <3>2 DEF Adopted, TuplePending
    <3>4. [e.cp EXCEPT !.pend = Adopted(e.cp.pend, readWrites(e))] \in Checkpoints
      BY <3>1, <3>3, CheckpointFields, Zenon
    <3>5. k.req.to[e.place] \in Places
      BY <1>2, <3>1
    <3> QED BY <3>3, <3>4, <3>5, Zenon DEF Item
  <2> DEFINE item == itemOf(e)
             j == [k EXCEPT !.todo = @ \ {e}, !.ready = @ \cup {item},
                            !.pc = IF k.todo = {e} THEN "copy" ELSE @]
  <2>4. Goto(c, j) /\ item \in Item
    BY <2>1, <2>3, Zenon
  <2> HIDE DEF item
  <2>5. j \in CallRecord /\ j.req = k.req /\ j.pc \in {"gather", "copy"} /\ j.ready # {}
    BY <1>1, <2>2, <2>4 DEF CallRecord, Pcs
  <2>6. StorageType'
    BY <1>5 DEF Gather, storage, StorageType, TypeInv
  <2> HIDE DEF j
  <2> QED BY <1>3, <2>4, <2>5, <2>6
<1>6. CASE CopyRecord(c)
  <2> DEFINE item == Oldest(k.ready)
             e == [place |-> item.place, cp |-> item.cp]
             j == [k EXCEPT !.ready = @ \ {item}, !.cur = e, !.ws = WriteKeys(e, item.pending)]
  <2>1. k.ready \in SUBSET Item /\ k.ready # {} /\ \A i \in k.ready : i.cp \in Checkpoints
    BY <1>1, <1>6, Guards DEF CallRecord, Stage, Item, k
  <2>2. item \in Item
    BY <2>1, OldestInList
  <2>3. InsertRecord(c, j)
    BY <1>6, Zenon DEF CopyRecord, k
  <2> HIDE DEF item
  <2>4. e \in Entry /\ e # None
    BY <2>2, StorageSaverAssumption DEF Entry, Item
  <2>5. WriteKeys(e, item.pending) \in SUBSET Written
    BY <2>2, <2>4, WritesType DEF Item
  <2> HIDE DEF e
  <2>6. j \in CallRecord /\ j.req = k.req /\ j.cur = e
    BY <1>1, <2>4, <2>5, Zenon DEF CallRecord
  <2> HIDE DEF j
  <2>7. Stage([j EXCEPT !.pc = "pointer"])
    BY <1>2, <2>4, <2>6 DEF Stage, CallRecord
  <2> QED BY <1>1, <2>3, <2>4, <2>6, <2>7, InsertKeeps
<1> QED BY <1>4, <1>5, <1>6

(* The types and the stages hold at first. *)
LEMMA TypeInit ==
  ASSUME Init
  PROVE  TypeInv /\ StageInv
PROOF
<1>1. NewCall(None) \in CallRecord
  BY NewCallType
<1>2. call \in [Callers -> CallRecord] /\ StageInv
  BY <1>1 DEF Init, StageInv, Busy, NewCall
<1>3. records \in SUBSET Entry /\ IsFiniteSet(records)
  BY StorageSaverAssumption DEF Init
<1>4. pointer \in [Places -> Nat]
  <2>1. ASSUME NEW p \in Places, At({p}) # {}
        PROVE  Newest(At({p})).cp.id \in Nat
    <3>1. At({p}) \in SUBSET Entry /\ IsFiniteSet(At({p}))
      BY <1>3, FS_Subset DEF At
    <3>2. Newest(At({p})) \in Entry
      BY <2>1, <3>1, NewestInList
    <3> QED BY <3>2, CheckpointFields DEF Entry
  <2> QED BY <2>1 DEF Init, NoId
<1>5. written \in SUBSET Written
  <2>1. ASSUME NEW e \in Found
        PROVE  WriteKeys(e, e.cp.pend) \in SUBSET Written
    <3>1. e.place \in Places /\ e.cp \in Checkpoints
      BY StorageSaverAssumption DEF Entry
    <3>2. e.cp.id \in Nat /\ e.cp.pend \in SUBSET Writes
      BY <3>1, CheckpointFields
    <3> QED BY <3>1, <3>2 DEF WriteKeys, Written
  <2> QED BY <2>1, Zenon DEF Init
<1> QED BY <1>2, <1>3, <1>4, <1>5 DEF TypeInv, Init

(* Every step keeps the types and the stages. *)
LEMMA TypeStep ==
  ASSUME TypeInv, StageInv, [Next]_vars
  PROVE  TypeInv' /\ StageInv'
PROOF
<1>1. CASE UNCHANGED vars
  BY <1>1 DEF vars, storage, history, TypeInv, StageInv, Busy, Stage
<1>2. ASSUME NEW c \in Callers, Call(c)
      PROVE  TypeInv' /\ StageInv'
  <2>1. call' \in [Callers -> CallRecord] /\ StageInv' /\ StorageType'
    BY <1>2, BeginKeeps DEF Call, Moves
  <2>2. erased' = erased
    BY <1>2 DEF Call
  <2> QED BY <2>1, <2>2 DEF TypeInv, StorageType
<1>3. ASSUME NEW c \in Callers, Step(c)
      PROVE  TypeInv' /\ StageInv'
  <2>1. call' \in [Callers -> CallRecord] /\ StageInv' /\ StorageType'
    BY <1>3, PutKeeps, GetKeeps, RemoveKeeps, EraseKeeps, CopyKeeps DEF Step, Continue, Moves
  <2>2. erased' \subseteq erased \cup records
    BY <1>3, Zenon DEF Step, Unlisted
  <2> QED BY <2>1, <2>2 DEF TypeInv, StorageType
<1>4. ASSUME NEW c \in Callers, Fail(c)
      PROVE  TypeInv' /\ StageInv'
  <2> DEFINE j == [call[c] EXCEPT !.pc = "failed"]
  <2>1. call[c] \in CallRecord /\ call[c].req \in Requests
    BY <1>4 DEF Fail, Stop, TypeInv, StageInv
  <2>2. j \in CallRecord /\ j.req \in Requests /\ j.pc = "failed"
    BY <2>1 DEF CallRecord, Pcs
  <2>3. Goto(c, j) /\ UNCHANGED <<records, pointer, written>> /\ erased' \subseteq erased
    BY <1>4 DEF Fail, Stop, storage
  <2> HIDE DEF j
  <2>4. call' \in [Callers -> CallRecord] /\ StageInv'
    BY <2>2, <2>3, GotoKeeps DEF Moves
  <2> QED BY <2>3, <2>4 DEF TypeInv
<1> QED BY <1>1, <1>2, <1>3, <1>4 DEF Next
===========================================================================
