---------------------------- MODULE StorageSaver ----------------------------
(***************************************************************************)
(* The saver that keeps checkpoints in a key-value storage.  It has no     *)
(* lock: a call is a sequence of storage operations, each of them atomic,  *)
(* and calls of several threads and processes interleave.  A call may end  *)
(* between any two operations, because the storage refuses one or because  *)
(* the process ends.                                                       *)
(***************************************************************************)
EXTENDS Naturals, FiniteSets

CONSTANTS Callers,      \* threads and processes that share the storage
          Places,       \* pairs <<thread, namespace>>
          Checkpoints,  \* records with fields id, parent, run, step, ms and pend
          Writes,       \* pending writes
          Requests,     \* the calls that may be made
          Found,        \* what earlier processes have left in the storage
          None,         \* a model value
          MaxCalls,     \* bound: calls in one behaviour
          MaxStops      \* bound: calls that end early

(* Checkpoint ids are numbered in the order of the strings, 0 is no id; ms *)
(* is created_at_ms, the time of the put as the codec stores it, so that   *)
(* checkpoints put under one id may differ in it; pend are the pending     *)
(* writes inside the checkpoint.                                           *)
NoId == 0

Entry == [place : Places, cp : Checkpoints]

Written == [place : Places, id : Nat, write : Writes]

Request ==
  [op : {"put"}, entry : Entry]
    \cup [op : {"getTuple"}, place : Places]
    \cup [op : {"prune"}, place : Places, keep : Nat]
    \cup [op : {"deleteThread"}, places : SUBSET Places]
    \cup [op : {"deleteForRuns"}, places : SUBSET Places, run : {x.run : x \in Checkpoints}]
    \cup [op : {"copyThread"}, from : SUBSET Places, to : [Places -> Places],
          places : SUBSET Places, overwrite : BOOLEAN]

SameKey(e, f) == e.place = f.place /\ e.cp.id = f.cp.id

ASSUME StorageSaverAssumption ==
  /\ \A x \in Checkpoints :
       /\ x.id \in Nat \ {NoId} /\ x.step \in Nat /\ x.ms \in Nat /\ x.pend \subseteq Writes
       /\ \A ws \in SUBSET Writes : [x EXCEPT !.pend = ws] \in Checkpoints
  /\ Found \subseteq Entry /\ IsFiniteSet(Found)
  /\ \A e, f \in Found : SameKey(e, f) => e = f
  /\ Requests \subseteq Request
  /\ None \notin Entry \cup Places \cup Request
  /\ MaxCalls \in Nat
  /\ MaxStops \in Nat

VARIABLES
  records,  \* the stored checkpoints
  pointer,  \* per place the id under its latest-pointer key, or NoId
  written,  \* the pending writes stored under keys of their own
  call,     \* per caller the call it executes, or has finished
  calls,    \* calls so far
  stops,    \* calls ended early so far
  present,  \* history: the entries of its place that a getTuple could have seen
  stayed,   \* history: the entries that were stored all through a call
  lasting,  \* history: the writes that were stored all through a call
  calm,     \* history: no other call ran beside this one
  erased,   \* history: the entries that went beside the prunes under way
  known,    \* history: the ids that have been stored
  intact,   \* history: nothing of what this put has stored was removed since
  acked     \* history: the entries whose put returned, and of which nothing was removed

storage == <<records, pointer, written>>
history == <<present, stayed, lasting, calm, erased, known, intact, acked>>
vars == <<storage, call, calls, stops, history>>

checkpointIsOlder(a, b) ==
  \/ a.step < b.step
  \/ a.step = b.step /\ a.ms < b.ms
  \/ a.step = b.step /\ a.ms = b.ms /\ a.id < b.id

Oldest(es) == CHOOSE e \in es : \A f \in es : ~checkpointIsOlder(f.cp, e.cp)

Newest(es) == CHOOSE e \in es : \A f \in es : ~checkpointIsOlder(e.cp, f.cp)

At(ps) == {e \in records : e.place \in ps}

WrittenAt(ps) == {w \in written : w.place \in ps}

readWrites(e) == {w.write : w \in {v \in written : v.place = e.place /\ v.id = e.cp.id}}

(* checkpoint.pendingWrites_ once the writes stored beside it are known *)
Adopted(pend, ws) == IF pend = {} THEN ws ELSE pend

(* pendingWrites_ of a tuple: the writes stored separately come first *)
TuplePending(pend, ws) == IF ws = {} THEN pend ELSE ws

WriteKeys(e, ws) == {[place |-> e.place, id |-> e.cp.id, write |-> w] : w \in ws}

-----------------------------------------------------------------------------
(* A call: its request, the next storage operation, and its locals. *)

Busy(c) == call[c].pc \notin {"done", "failed"}

NewCall(r) ==
  [req |-> r, pc |-> "done", at |-> None, id |-> NoId, cur |-> None, got |-> {},
   todo |-> {}, ws |-> {}, fix |-> {}, ready |-> {}]

(* Of a call that has returned, its outcome and what getTuple found remain. *)
Settled(k) ==
  IF k.pc \notin {"done", "failed"} THEN k
  ELSE IF k.pc = "done" /\ k.req.op \in {"getTuple", "deleteThread"}
       THEN [NewCall(k.req) EXCEPT !.cur = k.cur, !.got = k.got]
       ELSE [NewCall(None) EXCEPT !.pc = k.pc]

(* The call of c goes on as k. *)
Goto(c, k) == call' = [call EXCEPT ![c] = Settled(k)]

UpsertRecord(c, k) ==
  /\ records' = {e \in records : ~SameKey(e, k.cur)} \cup {k.cur}
  /\ Goto(c, [k EXCEPT !.pc = "pointer"])
  /\ UNCHANGED <<pointer, written>>

(* put, and putWrites for the pending writes, as putCheckpoint and         *)
(* copyThreadWith call them.  k.cur is the checkpoint, k.ws its writes.    *)
InsertRecord(c, k) ==
  /\ UNCHANGED <<pointer, written>>
  /\ \/ /\ \E e \in records : SameKey(e, k.cur)
        /\ Goto(c, [k EXCEPT !.pc = "failed"])
        /\ UNCHANGED records
     \/ /\ ~\E e \in records : SameKey(e, k.cur)
        /\ records' = records \cup {k.cur}
        /\ Goto(c, [k EXCEPT !.pc = "pointer"])

AfterPut(k) ==
  IF k.ws # {} THEN "write" ELSE IF k.ready # {} THEN "copy" ELSE "done"

(* A run puts a checkpoint after the one it names as its parent. *)
Put(c, r) ==
  /\ r.op = "put"
  /\ r.entry.cp.parent = NoId \/ <<r.entry.place, r.entry.cp.parent>> \in known
  /\ InsertRecord(c, [NewCall(r) EXCEPT !.cur = r.entry, !.ws = WriteKeys(r.entry, r.entry.cp.pend)])

SetPointer(c) ==
  LET k == call[c] IN
  /\ k.pc = "pointer"
  /\ pointer' = [pointer EXCEPT ![k.cur.place] = k.cur.cp.id]
  /\ Goto(c, [k EXCEPT !.pc = AfterPut(k)])
  /\ UNCHANGED <<records, written>>

PutWrite(c) ==
  /\ call[c].pc = "write"
  /\ \E w \in call[c].ws :
       LET k == [call[c] EXCEPT !.ws = @ \ {w}] IN
       /\ written' = written \cup {w}
       /\ Goto(c, [k EXCEPT !.pc = AfterPut(k)])
  /\ UNCHANGED <<records, pointer>>

-----------------------------------------------------------------------------
(* getTuple for the latest checkpoint: getLatestCheckpoint, getCheckpoint, *)
(* getLatestByScan and the final readWrites.  k.cur is the checkpoint      *)
(* found so far, k.got its pending writes.                                 *)

GetTuple(c, r) ==
  /\ r.op = "getTuple"
  /\ Goto(c, [NewCall(r) EXCEPT !.at = r.place, !.id = pointer[r.place],
                                !.pc = IF pointer[r.place] = NoId THEN "scan" ELSE "get"])
  /\ UNCHANGED storage

GetCheckpoint(c) ==
  LET k == call[c]
      found == {e \in At({k.at}) : e.cp.id = k.id}
  IN /\ k.pc = "get"
     /\ \/ found = {} /\ Goto(c, [k EXCEPT !.pc = "scan"])
        \/ \E e \in found : Goto(c, [k EXCEPT !.pc = "getWrites", !.cur = e])
     /\ UNCHANGED storage

(* readWrites of getCheckpoint, or of list for the checkpoint it ends with *)
ReadCheckpointWrites(c) ==
  LET k == call[c] IN
  /\ k.pc \in {"getWrites", "scanWrites"}
  /\ Goto(c, [k EXCEPT !.pc = IF k.pc = "getWrites" THEN "scan" ELSE "tuple",
                       !.got = Adopted(k.cur.cp.pend, readWrites(k.cur))])
  /\ UNCHANGED storage

TrustPointer(c) ==
  LET k == call[c] IN
  /\ k.pc = "scan"
  /\ IF k.cur # None \/ At({k.at}) = {}
     THEN Goto(c, [k EXCEPT !.pc = IF k.cur = None THEN "done" ELSE "tuple"])
     ELSE Goto(c, [k EXCEPT !.pc = "scanWrites", !.cur = Newest(At({k.at}))])
  /\ UNCHANGED storage

Scan(c) ==
  LET k == call[c]
      es == At({k.at})
  IN /\ k.pc = "scan"
     /\ \/ es = {} /\ Goto(c, [k EXCEPT !.pc = IF k.cur = None THEN "done" ELSE "tuple"])
        \/ /\ es # {}
           /\ IF k.cur # None /\ ~checkpointIsOlder(k.cur.cp, Newest(es).cp)
              THEN Goto(c, [k EXCEPT !.pc = "tuple"])
              ELSE Goto(c, [k EXCEPT !.pc = "scanWrites", !.cur = Newest(es)])
     /\ UNCHANGED storage

ReadTupleWrites(c) ==
  LET k == call[c] IN
  /\ k.pc = "tuple"
  /\ Goto(c, [k EXCEPT !.pc = "done", !.got = TuplePending(k.got, readWrites(k.cur))])
  /\ UNCHANGED storage

-----------------------------------------------------------------------------
(* prune and deleteForRuns: the listed checkpoints k.todo go one by one,   *)
(* each with its writes; then the pointers of the places k.fix are set     *)
(* from another listing.  deleteThread, also for a copy that overwrites:   *)
(* all records, then all pointers, then all writes.                        *)

Erases(r) == r.op \in {"deleteThread", "copyThread"}

OneTooMany(es, keep) ==
  {e \in es : Cardinality({f \in es : checkpointIsOlder(e.cp, f.cp)}) + 1 >= keep}

(* All but the newest keep of the checkpoints of one place *)
Surplus(es, keep) == {e \in es : Cardinality({f \in es : checkpointIsOlder(e.cp, f.cp)}) >= keep}

AfterRemoval(k) ==
  CASE k.todo # {} -> "remove"
    [] k.todo = {} /\ Erases(k.req) -> "findPointers"
    [] k.todo = {} /\ ~Erases(k.req) /\ k.fix # {} -> "rescan"
    [] OTHER -> "done"

AfterErasure(k) == IF k.req.op = "copyThread" THEN "list" ELSE "done"

ListRemovals(c, r, doomed, affected) ==
  LET k == [NewCall(r) EXCEPT !.todo = doomed, !.fix = affected] IN
  /\ Goto(c, [k EXCEPT !.pc = AfterRemoval(k)])
  /\ UNCHANGED storage

Prune(c, r) ==
  /\ r.op = "prune"
  /\ ListRemovals(c, r, Surplus(At({r.place}), r.keep), {r.place})

DeleteForRuns(c, r) ==
  /\ r.op = "deleteForRuns"
  /\ LET doomed == {e \in At(r.places) : e.cp.run = r.run}
     IN ListRemovals(c, r, doomed, {e.place : e \in doomed})

DeleteThread(c, r) ==
  /\ r.op = "deleteThread" \/ (r.op = "copyThread" /\ r.overwrite)
  /\ ListRemovals(c, r, At(r.places), {})

(* Storage removes what is under the key, listed or put since. *)
RemoveRecord(c) ==
  /\ call[c].pc = "remove"
  /\ \E e \in call[c].todo :
       LET k == [call[c] EXCEPT !.todo = @ \ {e}] IN
       /\ Erases(k.req) \/ e = Oldest(call[c].todo)
       /\ records' = {f \in records : ~SameKey(e, f)}
       /\ Goto(c, IF Erases(k.req) THEN [k EXCEPT !.pc = AfterRemoval(k)]
                                   ELSE [k EXCEPT !.pc = "findWrites", !.cur = e])
  /\ UNCHANGED <<pointer, written>>

FindWrites(c) ==
  LET found == WriteKeys(call[c].cur, readWrites(call[c].cur))
      k == [call[c] EXCEPT !.ws = found]
  IN /\ call[c].pc = "findWrites"
     /\ Goto(c, [k EXCEPT !.pc = IF found # {} THEN "dropWrites" ELSE AfterRemoval(k)])
     /\ UNCHANGED storage

FindPointers(c) ==
  LET found == {p \in call[c].req.places : pointer[p] # NoId} IN
  /\ call[c].pc = "findPointers"
  /\ Goto(c, [call[c] EXCEPT !.fix = found, !.pc = IF found # {} THEN "dropPointers" ELSE "findThreadWrites"])
  /\ UNCHANGED storage

DropPointer(c) ==
  /\ call[c].pc = "dropPointers"
  /\ \E p \in call[c].fix :
       /\ pointer' = [pointer EXCEPT ![p] = NoId]
       /\ Goto(c, [call[c] EXCEPT !.fix = @ \ {p},
                                  !.pc = IF call[c].fix = {p} THEN "findThreadWrites" ELSE @])
  /\ UNCHANGED <<records, written>>

ForgetThreadWrites(c) ==
  /\ call[c].pc = "findThreadWrites"
  /\ Goto(c, [call[c] EXCEPT !.pc = AfterErasure(call[c])])
  /\ UNCHANGED storage

FindThreadWrites(c) ==
  LET k == call[c]
      found == WrittenAt(k.req.places)
  IN /\ k.pc = "findThreadWrites"
     /\ Goto(c, [k EXCEPT !.ws = found, !.pc = IF found # {} THEN "dropWrites" ELSE AfterErasure(k)])
     /\ UNCHANGED storage

DropWrite(c) ==
  /\ call[c].pc = "dropWrites"
  /\ \E w \in call[c].ws :
       LET k == [call[c] EXCEPT !.ws = @ \ {w}] IN
       /\ written' = written \ {w}
       /\ Goto(c, [k EXCEPT !.pc = IF k.ws # {} THEN @
                                   ELSE IF Erases(k.req) THEN AfterErasure(k) ELSE AfterRemoval(k)])
  /\ UNCHANGED <<records, pointer>>

(* repairLatestPointer: list, then set or remove the pointer *)
Rescan(c) ==
  /\ call[c].pc = "rescan"
  /\ \E p \in call[c].fix :
       Goto(c, [call[c] EXCEPT !.pc = "repair", !.fix = @ \ {p}, !.at = p,
                               !.id = IF At({p}) = {} THEN NoId ELSE Newest(At({p})).cp.id])
  /\ UNCHANGED storage

RepairPointer(c) ==
  LET k == call[c] IN
  /\ k.pc = "repair"
  /\ pointer' = [pointer EXCEPT ![k.at] = k.id]
  /\ Goto(c, [k EXCEPT !.pc = AfterRemoval(k)])
  /\ UNCHANGED <<records, written>>

-----------------------------------------------------------------------------
(* copyThread: list the source with its writes, then put every checkpoint, *)
(* oldest first, and its writes at the target.                             *)

ListSource(c, k) ==
  LET es == At(k.req.from) IN
  /\ Goto(c, [k EXCEPT !.todo = es, !.pc = IF es # {} THEN "gather" ELSE "done"])
  /\ UNCHANGED storage

CopyThread(c, r) ==
  /\ r.op = "copyThread" /\ ~r.overwrite
  /\ ListSource(c, NewCall(r))

ListAfterErasure(c) ==
  /\ call[c].pc = "list"
  /\ ListSource(c, call[c])

GatherOwnWrites(c) ==
  LET k == call[c] IN
  /\ k.pc = "gather"
  /\ \E e \in k.todo :
       Goto(c, [k EXCEPT !.todo = @ \ {e}, !.pc = IF k.todo = {e} THEN "copy" ELSE @,
                         !.ready = @ \cup {[place |-> k.req.to[e.place], cp |-> e.cp, pending |-> e.cp.pend]}])
  /\ UNCHANGED storage

(* readWrites of list for one checkpoint, and what copyThreadWith makes of it *)
Gather(c) ==
  LET k == call[c] IN
  /\ k.pc = "gather"
  /\ \E e \in k.todo :
       LET item == [place |-> k.req.to[e.place],
                    cp |-> [e.cp EXCEPT !.pend = Adopted(e.cp.pend, readWrites(e))],
                    pending |-> TuplePending(e.cp.pend, readWrites(e))]
       IN Goto(c, [k EXCEPT !.todo = @ \ {e}, !.ready = @ \cup {item},
                            !.pc = IF k.todo = {e} THEN "copy" ELSE @])
  /\ UNCHANGED storage

CopyRecord(c) ==
  LET k == call[c]
      item == Oldest(k.ready)
      e == [place |-> item.place, cp |-> item.cp]
  IN /\ k.pc = "copy"
     /\ InsertRecord(c, [k EXCEPT !.ready = @ \ {item}, !.cur = e, !.ws = WriteKeys(e, item.pending)])

-----------------------------------------------------------------------------
Begin(c, r) ==
  Put(c, r) \/ GetTuple(c, r) \/ Prune(c, r) \/ DeleteForRuns(c, r) \/ DeleteThread(c, r) \/ CopyThread(c, r)

Continue(c) ==
  \/ SetPointer(c) \/ PutWrite(c)
  \/ GetCheckpoint(c) \/ ReadCheckpointWrites(c) \/ Scan(c) \/ ReadTupleWrites(c)
  \/ RemoveRecord(c) \/ FindWrites(c) \/ DropWrite(c) \/ Rescan(c) \/ RepairPointer(c)
  \/ FindPointers(c) \/ DropPointer(c) \/ FindThreadWrites(c)
  \/ ListAfterErasure(c) \/ Gather(c) \/ CopyRecord(c)

(* The call ends early: the storage refuses its next operation, or the process ends. *)
Stop(c) ==
  /\ Busy(c) /\ stops < MaxStops
  /\ stops' = stops + 1
  /\ Goto(c, [call[c] EXCEPT !.pc = "failed"])
  /\ UNCHANGED <<storage, calls>>

(* The history variables, in a step in which the callers bs begin a call. *)

Watched(r) ==
  CASE r = None -> {}
    [] r # None /\ r.op = "getTuple" -> {r.place}
    [] r # None /\ r.op = "deleteThread" -> r.places
    [] OTHER -> {}

Observe(bs) ==
  LET Entries(c) == {e \in records' : e.place \in Watched(call'[c].req)}
      Ws(c) == {w \in written' : w.place \in Watched(call'[c].req)}
  IN /\ present' = [c \in Callers |-> IF c \in bs THEN Entries(c)
                      ELSE IF Busy(c) THEN present[c] \cup Entries(c) ELSE present[c]]
     /\ stayed' = [c \in Callers |-> IF c \in bs THEN Entries(c)
                     ELSE IF Busy(c) THEN stayed[c] \cap Entries(c) ELSE stayed[c]]
     /\ lasting' = [c \in Callers |-> IF c \in bs THEN Ws(c)
                      ELSE IF Busy(c) THEN lasting[c] \cap Ws(c) ELSE lasting[c]]
     /\ calm' = [c \in Callers |-> IF c \in bs THEN \A d \in Callers \ {c} : ~Busy(d)
                   ELSE Busy(c) /\ calm[c] /\ bs = {}]

Ids(es) == {<<e.place, e.cp.id>> : e \in es}

(* prune keeps the newest unless it is told to keep nothing. *)
MayEraseNewest(r) == r.op # "prune" \/ r.keep = 0

PruneUnderWay == \E c \in Callers : Busy(c) /\ call[c].req.op = "prune"

(* What a step of c removes otherwise than as a checkpoint that a prune    *)
(* listed: by a deletion, or put since under an id that a prune listed.    *)
Unlisted(c) ==
  (records \ records') \ (IF MayEraseNewest(call[c].req) THEN {} ELSE call[c].todo)

(* A step of c removes the entry e or one of its writes. *)
Takes(c, e) ==
  /\ call[c].pc \in {"remove", "dropWrites"}
  /\ e \notin records' \/ \E w \in written \ written' : w.place = e.place /\ w.id = e.cp.id

Acknowledged(c) == IF intact[c] /\ call'[c].pc = "done" THEN {call[c].cur} ELSE {}

Init ==
  /\ records = Found
  /\ written = UNION {WriteKeys(e, e.cp.pend) : e \in Found}
  /\ pointer = [p \in Places |-> IF At({p}) = {} THEN NoId ELSE Newest(At({p})).cp.id]
  /\ call = [c \in Callers |-> NewCall(None)]
  /\ calls = 0 /\ stops = 0
  /\ present = [c \in Callers |-> {}]
  /\ stayed = [c \in Callers |-> {}]
  /\ lasting = [c \in Callers |-> {}]
  /\ calm = [c \in Callers |-> FALSE]
  /\ erased = {}
  /\ known = Ids(Found) \cup {<<e.place, e.cp.parent>> : e \in Found}
  /\ intact = [c \in Callers |-> FALSE]
  /\ acked = Found

Call(c) ==
  /\ ~Busy(c) /\ calls < MaxCalls
  /\ \E r \in Requests : Begin(c, r)
  /\ calls' = calls + 1
  /\ Observe({c})
  /\ known' = known \cup Ids(records')
  /\ intact' = [intact EXCEPT ![c] = call'[c].pc = "pointer"]
  /\ UNCHANGED <<stops, erased, acked>>

Step(c) ==
  /\ Continue(c)
  /\ Observe({})
  /\ erased' = IF PruneUnderWay' THEN erased \cup Unlisted(c) ELSE {}
  /\ known' = known \cup Ids(records')
  /\ intact' = [d \in Callers |-> intact[d] /\ Busy(d)' /\ ~Takes(c, call[d].cur)]
  /\ acked' = {e \in acked \cup Acknowledged(c) : ~Takes(c, e)}
  /\ UNCHANGED <<calls, stops>>

Fail(c) ==
  /\ Stop(c)
  /\ Observe({})
  /\ erased' = IF PruneUnderWay' THEN erased ELSE {}
  /\ intact' = [intact EXCEPT ![c] = FALSE]
  /\ UNCHANGED <<known, acked>>

Next == \E c \in Callers : Call(c) \/ Step(c) \/ Fail(c)

Spec == Init /\ [][Next]_vars

-----------------------------------------------------------------------------
(* Caller c has returned from op with success. *)
Returned(c, op) == call[c].pc = "done" /\ call[c].req # None /\ call[c].req.op = op

(* What getTuple returns for the latest checkpoint was stored during the   *)
(* call and is not older than any checkpoint that was stored all through   *)
(* it, whatever the pointer says and whatever puts, prunes and deletions   *)
(* run beside it; it finds nothing only if nothing stayed stored           *)
(* (getLatestCheckpoint).                                                  *)
LatestIsCurrent ==
  \A c \in Callers : Returned(c, "getTuple") =>
    IF call[c].cur = None
    THEN stayed[c] = {}
    ELSE /\ call[c].cur \in present[c]
         /\ \A e \in stayed[c] : ~checkpointIsOlder(call[c].cur.cp, e.cp)

(* What put has acknowledged stays as it was put, with all its pending     *)
(* writes, until a prune or a deletion removes some of it: not the put of  *)
(* another process that uses the same id, not a copy, and not a call that  *)
(* stops half way can replace or damage it (put, putWrites).               *)
AcknowledgedPutsStay ==
  \A e \in acked : e \in records /\ WriteKeys(e, e.cp.pend) \subseteq written

(* A checkpoint that a prune listed and removes leaves a newer one of its  *)
(* place behind, whatever other prunes remove and whatever is put since    *)
(* the listing.  The newer one may be missing only if, since the oldest    *)
(* prune under way began, a deletion has removed it, or a prune has that   *)
(* had listed another checkpoint under its id (prune).                     *)
PruneKeepsNewest ==
  [][\A c \in Callers :
       call[c].pc = "remove" /\ ~MayEraseNewest(call[c].req) /\ call'[c] # call[c] =>
         \A e \in call[c].todo \cap (records \ records') : \E f \in records' \cup erased' :
           f.place = e.place /\ checkpointIsOlder(e.cp, f.cp)]_vars

(* A deleteThread that succeeds has removed every checkpoint and every     *)
(* write that was there when it began and that nobody else has removed or  *)
(* stored again, also after earlier ones stopped half way (deleteThread,   *)
(* removeThreadWrites).                                                    *)
DeletionComplete ==
  \A c \in Callers : Returned(c, "deleteThread") =>
    stayed[c] = {} /\ lasting[c] = {}

(* A copyThread that succeeds with no call beside it shows at the target   *)
(* what the source shows: the same checkpoints with the same pending       *)
(* writes, also if the source was left half written (copyThreadWith).      *)
CopyShowsSource ==
  [][\A c \in Callers :
       Busy(c) /\ call[c].req.op = "copyThread" /\ call'[c].pc = "done" /\ calm[c] =>
         \A e \in At(call[c].req.from) : \E f \in records' :
           /\ f.place = call[c].req.to[e.place]
           /\ f.cp.id = e.cp.id
           /\ TuplePending(f.cp.pend, readWrites(f)') = TuplePending(e.cp.pend, readWrites(e))]_vars

(* A tuple carries all the pending writes its checkpoint was stored with. *)
PendingWritesComplete ==
  \A c \in Callers : Returned(c, "getTuple") /\ call[c].cur # None =>
    call[c].cur.cp.pend \subseteq call[c].got

(* The checkpoint that getTuple shows as the latest one is not the parent  *)
(* of a checkpoint that was stored all through the call.                   *)
LatestIsNotSuperseded ==
  \A c \in Callers : Returned(c, "getTuple") /\ call[c].cur # None =>
    \A e \in stayed[c] : e.cp.parent # call[c].cur.cp.id
=============================================================================
