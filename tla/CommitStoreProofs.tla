-------------------------- MODULE CommitStoreProofs --------------------------
(* Theorems about CommitStore, for every set of documents, keys and          *)
(* requests and every size of the time windows.                              *)
EXTENDS CommitStore, TLAPS

-----------------------------------------------------------------------------
\* A request that has gone back to idle is a request.
LEMMA IdleType ==
    Idle \in Request /\ Idle.pc = "idle" /\ Idle.doc = NoDoc /\ Idle.cut = {}
  BY DEF Idle, Request, NoItem

\* The updates of a request that set several fields at once keep its type.
LEMMA InsertedType ==
    ASSUME NEW r \in Request, NEW b \in BOOLEAN
    PROVE  /\ [r EXCEPT !.pc = "logged", !.inserted = b] \in Request
           /\ [r EXCEPT !.pc = "logged", !.inserted = b].doc = r.doc
  BY Zenon DEF Request

\* A request that read the row it locked keeps its type.
LEMMA LockedType ==
    ASSUME NEW r \in Request, NEW v \in Docs \union {NoDoc, NoRow}
    PROVE  [r EXCEPT !.pc = "locked", !.row = v] \in Request
  BY DEF Request

\* Replacing one request by another keeps the type of them all.
LEMMA RequestStep ==
    ASSUME TypeOK, NEW p \in Procs, NEW r \in Request,
           r.pc # "idle" => r.doc \in Docs, req' = [req EXCEPT ![p] = r]
    PROVE  /\ req' \in [Procs -> Request]
           /\ \A q \in Procs : req'[q].pc # "idle" => req'[q].doc \in Docs
  BY DEF TypeOK

\* What Superseded and the items of a delete range over.
LEMMA SupersededType ==
    ASSUME NEW p \in Procs
    PROVE  Superseded(p) \in SUBSET Docs
  BY DEF Superseded

\* What a delete finds are items: a key, and a document that was read.
LEMMA TargetsType ==
    ASSUME TypeOK, NEW d \in Docs
    PROVE  Targets(d) \in SUBSET Item
<1>1. Doc[d] \in DocType
  BY DocAssumption
<1>2. ASSUME NEW t \in Docs
      PROVE  [key |-> Doc[t].key, doc |-> t, sweep |-> FALSE] \in Item
  <2>1. Doc[t].key \in Keys
    BY DocAssumption DEF DocType
  <2> QED
    BY <2>1, Zenon DEF Item
<1>3. ASSUME NEW k \in Doc[d].keys, keyRow[k] \in Docs
      PROVE  [key |-> k, doc |-> keyRow[k], sweep |-> FALSE] \in Item
  <2>1. k \in Keys
    BY <1>1 DEF DocType
  <2> QED
    BY <1>3, <2>1, Zenon DEF Item
<1>4. Doc[d].target # NoDoc => Doc[d].target \in Docs
  BY <1>1 DEF DocType
<1> QED
  BY <1>2, <1>3, <1>4, Zenon DEF Targets

\* The tables and the requests keep their types: Init and every statement of
\* the commit pipeline and of the collector.
THEOREM TypeCorrect == Spec => []TypeOK
<1>1. Init => TypeOK
  BY IdleType, TimeAssumption DEF Init, TypeOK
<1>2. TypeOK /\ [Next]_vars => TypeOK'
  <2> SUFFICES ASSUME TypeOK, [Next]_vars
               PROVE  TypeOK'
    OBVIOUS
  <2> USE DEF TypeOK
  <2>1. CASE Tick
    BY <2>1, TimeAssumption DEF Tick, db
  <2>2. ASSUME NEW p \in Procs, NEW d \in Docs, NEW x \in ExemptModes,
               Submit(p, d, x)
        PROVE  TypeOK'
    <3>1. [Idle EXCEPT !.pc = "received", !.doc = d, !.exempt = x] \in Request
      BY ModeAssumption DEF Idle, Request, NoItem
    <3> QED
      BY <2>2, <3>1 DEF Submit, db
  <2>3. ASSUME NEW p \in Procs, Abort(p)
        PROVE  TypeOK'
    BY <2>3, IdleType DEF Abort, Answer, db
  <2>4. ASSUME NEW p \in Procs, Step(p)
        PROVE  TypeOK'
    <3>1. CASE HasCommitLog(p)
      BY <3>1, IdleType DEF HasCommitLog, Answer, db, Request
    <3>2. CASE CheckCreatedAt(p)
      BY <3>2, IdleType DEF CheckCreatedAt, Answer, db, Request
    <3>3. CASE ReadTargets(p)
      <4> DEFINE d == req[p].doc
                 items == Targets(d)
                 sweeps == UNION {Doc[r].sweep : r \in Doc[d].refs}
      <4>1. d \in Docs /\ Doc[d] \in DocType /\ req[p] \in Request
        BY <3>3, DocAssumption DEF ReadTargets
      <4>2. items \in SUBSET Item
        BY <4>1, TargetsType
      <4>3. sweeps \in SUBSET Keys
        BY <4>1, DocAssumption DEF DocType
      <4>4. [req[p] EXCEPT !.pc = "targeted", !.todo = items] \in Request
        BY <4>1, <4>2 DEF Request
      <4>5. [req[p] EXCEPT !.pc = "targeted", !.dests = sweeps] \in Request
        BY <4>1, <4>3 DEF Request
      <4>6. \/ Answer(p)
            \/ req' = [req EXCEPT ![p] = [req[p] EXCEPT !.pc = "targeted",
                                                       !.todo = items]]
            \/ req' = [req EXCEPT ![p] = [req[p] EXCEPT !.pc = "targeted",
                                                       !.dests = sweeps]]
        BY <3>3 DEF ReadTargets
      <4> HIDE DEF items, sweeps
      <4> QED
        BY <3>3, <4>1, <4>4, <4>5, <4>6, IdleType
        DEF ReadTargets, Answer, db, Request
    <3>4. CASE CreateCommitLog(p)
      <4> DEFINE new == log[req[p].doc] = "none"
      <4>1. new \in BOOLEAN
        OBVIOUS
      <4>2. /\ [req[p] EXCEPT !.pc = "logged", !.inserted = new] \in Request
            /\ [req[p] EXCEPT !.pc = "logged", !.inserted = new].doc
               = req[p].doc
        BY <4>1, InsertedType
      <4>3. req' = [req EXCEPT ![p] = [req[p] EXCEPT !.pc = "logged",
                                                     !.inserted = new]]
        BY <3>4 DEF CreateCommitLog
      <4>4. req[p].doc \in Docs
        BY <3>4 DEF CreateCommitLog
      <4> HIDE DEF new
      <4> QED
        BY <3>4, <4>2, <4>3, <4>4, RequestStep DEF CreateCommitLog, db
    <3>5. CASE LockRecordKey(p)
      <4> DEFINE k == Doc[req[p].doc].key
      <4>1. req[p].doc \in Docs /\ k \in Keys
        BY <3>5, DocAssumption DEF LockRecordKey, DocType
      <4>2. [req[p] EXCEPT !.pc = "locked", !.row = keyRow[k]] \in Request
        BY <4>1, LockedType
      <4>3. \/ Answer(p)
            \/ req' = [req EXCEPT ![p] = [req[p] EXCEPT !.pc = "locked",
                                                       !.row = keyRow[k]]]
        BY <3>5 DEF LockRecordKey
      <4> HIDE DEF k
      <4> QED
        BY <3>5, <4>1, <4>2, <4>3, IdleType
        DEF LockRecordKey, Answer, db, Request
    <3>6. CASE UpsertRecordKey(p)
      BY <3>6, IdleType, SupersededType, DocAssumption
      DEF UpsertRecordKey, Answer, db, Request, DocType
    <3>7. CASE LoseUpsert(p)
      BY <3>7, IdleType DEF LoseUpsert, Answer, db
    <3>8. ASSUME NEW i \in req[p].todo, ResolveTarget(p, i)
          PROVE  TypeOK'
      BY <3>8, DocAssumption
      DEF ResolveTarget, db, Request, Item, DocType, Deleting, IsDelete
    <3>9. CASE DeleteTarget(p)
      <4> DEFINE i == req[p].cur
                 e == req[p].row
                 c == req[p].cut \union ({e} \intersect records)
                 f == IF Doc[i.doc].retain THEN req[p].flag
                      ELSE req[p].flag \union {i.doc}
                 b == req[p].kept \/ Doc[i.doc].retain
                 ds == IF i.sweep THEN req[p].dests
                       ELSE req[p].dests \union Doc[i.doc].sweep
                 r == [req[p] EXCEPT !.cur = NoItem, !.row = NoRow, !.cut = c,
                        !.flag = f, !.kept = b, !.any = TRUE, !.dests = ds]
      <4>1. req[p] \in Request /\ req[p].doc \in Docs
        BY <3>9 DEF DeleteTarget, Deleting
      <4>2. i \in Item
        BY <3>9, <4>1 DEF DeleteTarget, Request
      <4>3. i.doc \in Docs /\ Doc[i.doc] \in DocType
        BY <4>2, DocAssumption DEF Item
      <4>4. c \in SUBSET Docs /\ f \in SUBSET Docs /\ ds \in SUBSET Keys
        BY <4>1, <4>3 DEF Request, DocType
      <4>5. b \in BOOLEAN
        OBVIOUS
      <4>6. req' = [req EXCEPT ![p] = r]
        BY <3>9 DEF DeleteTarget
      <4> HIDE DEF c, f, b, ds
      <4>7. r \in Request /\ r.doc = req[p].doc
        <5> HIDE DEF i
        <5>1. req[p] \in Request
          BY <4>1
        <5> QED
          BY <5>1, <4>4, <4>5, Zenon DEF Request
      <4> HIDE DEF r
      <4> QED
        BY <3>9, <4>1, <4>6, <4>7, RequestStep DEF DeleteTarget, db
    <3>10. ASSUME NEW k \in req[p].dests, SweepDestination(p, k)
           PROVE  TypeOK'
      BY <3>10 DEF SweepDestination, db, Request, Item, Deleting
    <3>11. CASE CommitDelete(p)
      BY <3>11, IdleType DEF CommitDelete, Answer, db, Request, DeleteDone
    <3>12. CASE NoopDelete(p)
      BY <3>12, IdleType DEF NoopDelete, Answer, db
    <3> QED
      BY <2>4, <3>1, <3>2, <3>3, <3>4, <3>5, <3>6, <3>7, <3>8, <3>9, <3>10,
         <3>11, <3>12 DEF Step
  <2>5. CASE Gc
    BY <2>5 DEF Gc, GcNoBackup, GcCollect, GcDeleteBackedUp, GcUploadFails,
       DeleteLogs, Collectable, db
  <2>6. CASE UNCHANGED vars
    BY <2>6 DEF vars
  <2>7. ASSUME NEW o \in Owners, Unregister(o)
        PROVE  TypeOK'
    BY <2>7 DEF Unregister
  <2> QED
    BY <2>1, <2>2, <2>3, <2>4, <2>5, <2>6, <2>7 DEF Next
<1> QED
  BY <1>1, <1>2, PTL DEF Spec

-----------------------------------------------------------------------------
\* Only the upsert puts a document under a key, and its WHERE clause asks for
\* a strictly newer one than the key holds: accept-if-newer needs no lock.
THEOREM NewestWins == Spec => AcceptIfNewer
<1> DEFINE Newer ==
      \A k \in Keys :
            /\ keyRow[k] \in Docs /\ keyRow'[k] \in Docs
            /\ keyRow'[k] # keyRow[k]
            => Doc[keyRow[k]].recordAt < Doc[keyRow'[k]].recordAt
<1>1. TypeOK /\ [Next]_vars => [Newer]_vars
  <2> SUFFICES ASSUME TypeOK, Next
               PROVE  Newer
    OBVIOUS
  <2>1. CASE keyRow' = keyRow
    BY <2>1
  <2>2. ASSUME NEW p \in Procs, UpsertRecordKey(p)
        PROVE  Newer
    <3>1. req[p].doc \in Docs
      BY <2>2 DEF UpsertRecordKey, TypeOK
    <3>2. \A k \in Keys : keyRow'[k] \in Docs =>
            \/ keyRow'[k] = keyRow[k]
            \/ k = Doc[req[p].doc].key /\ keyRow'[k] = req[p].doc
      BY <2>2, NilAssumption DEF UpsertRecordKey, TypeOK
    <3>3. TakesKey(req[p].doc, Doc[req[p].doc].key)
      BY <2>2 DEF UpsertRecordKey
    <3> QED
      BY <3>2, <3>3 DEF TakesKey
  <2>3. ASSUME NEW p \in Procs, CommitDelete(p)
        PROVE  Newer
    BY <2>3, NilAssumption DEF CommitDelete, TypeOK
  <2>4. ASSUME NEW ids, DeleteLogs(ids)
        PROVE  Newer
    BY <2>4, NilAssumption DEF DeleteLogs, TypeOK
  <2>5. Tick \/ (\E o \in Owners : Unregister(o)) => keyRow' = keyRow
    BY DEF Tick, Unregister, db
  <2>6. \A p \in Procs, d \in Docs, x \in ExemptModes :
            Submit(p, d, x) => keyRow' = keyRow
    BY DEF Submit, db
  <2>7. \A p \in Procs : Abort(p) => keyRow' = keyRow
    BY DEF Abort, db
  <2>8. ASSUME NEW p \in Procs, Step(p)
        PROVE  keyRow' = keyRow \/ UpsertRecordKey(p) \/ CommitDelete(p)
    <3>1. \/ HasCommitLog(p) \/ CheckCreatedAt(p) \/ ReadTargets(p)
          \/ CreateCommitLog(p) \/ LockRecordKey(p) \/ LoseUpsert(p)
          => keyRow' = keyRow
      BY DEF HasCommitLog, CheckCreatedAt, ReadTargets, CreateCommitLog,
             LockRecordKey, LoseUpsert, db
    <3>2. \/ \E i \in req[p].todo : ResolveTarget(p, i)
          \/ DeleteTarget(p) \/ NoopDelete(p)
          \/ \E k \in req[p].dests : SweepDestination(p, k)
          => keyRow' = keyRow
      BY DEF ResolveTarget, DeleteTarget, SweepDestination, NoopDelete, db
    <3> QED
      BY <2>8, <3>1, <3>2 DEF Step
  <2>9. Gc => keyRow' = keyRow \/ \E ids : DeleteLogs(ids)
    BY DEF Gc, GcNoBackup, GcCollect, GcDeleteBackedUp, GcUploadFails, db
  <2> QED
    BY <2>1, <2>2, <2>3, <2>4, <2>5, <2>6, <2>7, <2>8, <2>9 DEF Next
<1> QED
  BY <1>1, TypeCorrect, PTL DEF Spec, AcceptIfNewer

-----------------------------------------------------------------------------
\* The foreign keys: a record row has its log, and the row of a key names a
\* stored record of that key.
RowsStored ==
    /\ \A d \in records : log[d] # "none"
    /\ \A k \in Keys : keyRow[k] \in Docs =>
            keyRow[k] \in records /\ Doc[keyRow[k]].key = k

\* The row locks: what a delete is about to remove is still there and nobody
\* else removes it; the row a record commit locked is still as it was read.
CutsHeld ==
    /\ \A p \in Procs : req[p].cut # {} =>
            req[p].pc = "logged" /\ IsDelete(req[p].doc)
    /\ \A p \in Procs : req[p].cut \subseteq records
    /\ \A p, q \in Procs : p # q => req[p].cut \intersect req[q].cut = {}

RowLocked(p) == req[p].pc = "locked" /\ req[p].row # NoRow

RowHeld(p) ==
    /\ keyRow[Doc[req[p].doc].key] = req[p].row
    /\ \A q \in Procs : req[p].row \notin req[q].cut
    /\ \A q \in Procs \ {p} :
            RowLocked(q) => Doc[req[q].doc].key # Doc[req[p].doc].key

RowsHeld == \A p \in Procs : RowLocked(p) => RowHeld(p)

Structure == TypeOK /\ RowsStored /\ CutsHeld /\ RowsHeld

\* A step of one request that neither writes the tables nor takes a lock.
Quiet(p) ==
    /\ UNCHANGED <<log, records, keyRow>>
    /\ \A q \in Procs \ {p} : req'[q] = req[q]
    /\ req'[p].pc # "locked"
    /\ \/ req'[p].cut = {}
       \/ /\ req'[p].cut = req[p].cut /\ req'[p].pc = req[p].pc
          /\ req'[p].doc = req[p].doc

\* A quiet step keeps the structure of the tables.
LEMMA QuietStep ==
    ASSUME Structure, NEW p \in Procs, Quiet(p)
    PROVE  RowsStored' /\ CutsHeld' /\ RowsHeld'
<1>1. RowsStored'
  BY DEF Structure, RowsStored, Quiet
<1>2. CutsHeld'
  BY DEF Structure, CutsHeld, Quiet, IsDelete
<1>3. RowsHeld'
  BY DEF Structure, RowsHeld, RowLocked, RowHeld, Quiet
<1> QED
  BY <1>1, <1>2, <1>3

\* Most steps of a request are quiet.
LEMMA QuietActions ==
    ASSUME Structure, NEW p \in Procs
    PROVE  /\ \A d \in Docs, x \in ExemptModes : Submit(p, d, x) => Quiet(p)
           /\ Abort(p) => Quiet(p)
           /\ HasCommitLog(p) => Quiet(p)
           /\ CheckCreatedAt(p) => Quiet(p)
           /\ ReadTargets(p) => Quiet(p)
           /\ CreateCommitLog(p) => Quiet(p)
           /\ LoseUpsert(p) => Quiet(p)
           /\ \A i \in req[p].todo : ResolveTarget(p, i) => Quiet(p)
           /\ \A k \in req[p].dests : SweepDestination(p, k) => Quiet(p)
           /\ NoopDelete(p) => Quiet(p)
<1> USE DEF Quiet, db, Answer
<1>0. req[p] \in Request /\ req \in [Procs -> Request]
  BY DEF Structure, TypeOK
<1>a. req[p].pc # "logged" => req[p].cut = {}
  BY DEF Structure, CutsHeld
<1>1. ASSUME NEW d \in Docs, NEW x \in ExemptModes, Submit(p, d, x)
      PROVE  Quiet(p)
  BY <1>0, <1>1 DEF Submit, Idle, Request
<1>2. ASSUME Abort(p) PROVE Quiet(p)
  BY <1>0, <1>2, IdleType DEF Abort
<1>3. ASSUME HasCommitLog(p) PROVE Quiet(p)
  BY <1>0, <1>a, <1>3, IdleType DEF HasCommitLog, Request
<1>4. ASSUME CheckCreatedAt(p) PROVE Quiet(p)
  BY <1>0, <1>a, <1>4, IdleType DEF CheckCreatedAt, Request
<1>5. ASSUME ReadTargets(p) PROVE Quiet(p)
  BY <1>0, <1>a, <1>5, IdleType DEF ReadTargets, Request
<1>6. ASSUME CreateCommitLog(p) PROVE Quiet(p)
  BY <1>0, <1>a, <1>6 DEF CreateCommitLog, Request
<1>7. ASSUME LoseUpsert(p) PROVE Quiet(p)
  BY <1>0, <1>7, IdleType DEF LoseUpsert
<1>8. ASSUME NEW i \in req[p].todo, ResolveTarget(p, i) PROVE Quiet(p)
  BY <1>0, <1>8 DEF ResolveTarget, Deleting, Request
<1>9. ASSUME NEW k \in req[p].dests, SweepDestination(p, k) PROVE Quiet(p)
  BY <1>0, <1>9 DEF SweepDestination, Deleting, Request
<1>10. ASSUME NoopDelete(p) PROVE Quiet(p)
  BY <1>0, <1>10, IdleType DEF NoopDelete
<1> QED
  BY <1>1, <1>2, <1>3, <1>4, <1>5, <1>6, <1>7, <1>8, <1>9, <1>10
     DEF Submit

-----------------------------------------------------------------------------
\* The locking read of a record commit: it waits for other holders, so the
\* row it returns is held by it alone from here on.
LEMMA LockStep ==
    ASSUME Structure, NEW p \in Procs, LockRecordKey(p)
    PROVE  RowsStored' /\ CutsHeld' /\ RowsHeld'
<1> DEFINE k == Doc[req[p].doc].key
<1>1. /\ req \in [Procs -> Request] /\ req[p] \in Request
      /\ req[p].doc \in Docs /\ k \in Keys /\ req[p].pc = "logged"
      /\ UNCHANGED <<log, records, keyRow>>
  BY DocAssumption DEF Structure, TypeOK, LockRecordKey, DocType, db
<1>2. CASE Answer(p)
  <2>1. Quiet(p)
    BY <1>1, <1>2, IdleType DEF Quiet, Answer
  <2> QED
    BY <2>1, QuietStep
<1>3. CASE req' = [req EXCEPT ![p].pc = "locked", ![p].row = keyRow[k]]
  <2>1. /\ req'[p].pc = "locked" /\ req'[p].row = keyRow[k]
        /\ req'[p].doc = req[p].doc /\ req'[p].cut = req[p].cut
        /\ \A q \in Procs \ {p} : req'[q] = req[q]
    BY <1>1, <1>3 DEF Request
  <2>2. req[p].cut = {}
    BY <1>1 DEF Structure, CutsHeld, LockRecordKey, IsRecord, IsDelete
  <2>3. \A q \in Procs \ {p} :
            /\ keyRow[k] \notin req[q].cut
            /\ ~(/\ req[q].pc = "locked" /\ req[q].row # NoRow
                 /\ Doc[req[q].doc].key = k)
    BY DEF LockRecordKey, LockedByOther, Holds
  <2>4. RowsStored'
    BY <1>1 DEF Structure, RowsStored
  <2>5. CutsHeld'
    BY <1>1, <2>1, <2>2 DEF Structure, CutsHeld, IsDelete
  <2> HIDE DEF k
  <2>6. k = Doc[req[p].doc].key
    BY DEF k
  <2>7. RowsHeld'
    BY <1>1, <2>1, <2>2, <2>3, <2>6
    DEF Structure, RowsHeld, RowLocked, RowHeld
  <2> QED
    BY <2>4, <2>5, <2>7
<1> QED
  BY <1>2, <1>3 DEF LockRecordKey

\* The delete statement: it waits for other holders, so the record it removes
\* is held by it alone until it commits.
LEMMA DeleteTargetStep ==
    ASSUME Structure, NEW p \in Procs, DeleteTarget(p)
    PROVE  RowsStored' /\ CutsHeld' /\ RowsHeld'
<1> DEFINE e == req[p].row
<1>1. /\ req \in [Procs -> Request] /\ req[p] \in Request
      /\ req[p].pc = "logged" /\ IsDelete(req[p].doc)
      /\ UNCHANGED <<log, records, keyRow>>
  BY DEF Structure, TypeOK, DeleteTarget, Deleting, db
<1>2. /\ req'[p].pc = "logged" /\ req'[p].doc = req[p].doc
      /\ req'[p].cut = req[p].cut \union ({e} \intersect records)
      /\ \A q \in Procs \ {p} : req'[q] = req[q]
  BY <1>1 DEF DeleteTarget, Request
<1>3. \A q \in Procs \ {p} : e \notin req[q].cut
  BY DEF DeleteTarget
<1>4. \A q \in Procs \ {p} : \A k \in Keys :
         ~(/\ keyRow[k] = e /\ req[q].pc = "locked" /\ req[q].row # NoRow
           /\ Doc[req[q].doc].key = k)
  BY DEF DeleteTarget, LockedByOther, Holds
<1> HIDE DEF e
<1>5. RowsStored'
  BY <1>1 DEF Structure, RowsStored
<1>6. CutsHeld'
  BY <1>1, <1>2, <1>3 DEF Structure, CutsHeld, IsDelete
<1>7. \A q \in Procs : req[q].pc = "locked" => Doc[req[q].doc].key \in Keys
  BY DocAssumption DEF Structure, TypeOK, DocType
<1>8. RowsHeld'
  BY <1>1, <1>2, <1>3, <1>4, <1>7
  DEF Structure, RowsHeld, RowLocked, RowHeld
<1> QED
  BY <1>5, <1>6, <1>8

\* The upsert and the commit of a record.
LEMMA UpsertStep ==
    ASSUME Structure, NEW p \in Procs, UpsertRecordKey(p)
    PROVE  RowsStored' /\ CutsHeld' /\ RowsHeld'
<1> DEFINE d == req[p].doc
           k == Doc[d].key
<1>1. /\ req \in [Procs -> Request] /\ req[p] \in Request /\ d \in Docs
      /\ k \in Keys /\ req[p].pc = "locked" /\ records \subseteq Docs
      /\ log \in [Docs -> {"none", "live", "gc"}]
      /\ keyRow \in [Keys -> Docs \union {NoDoc, NoRow}]
  BY DocAssumption DEF Structure, TypeOK, UpsertRecordKey, DocType
<1>2. /\ req'[p].pc = "idle" /\ req'[p].cut = {}
      /\ \A q \in Procs \ {p} : req'[q] = req[q]
  BY <1>1, IdleType DEF UpsertRecordKey, Answer
<1>3. \A q \in Procs \ {p} :
         /\ keyRow[k] \notin req[q].cut
         /\ ~(/\ req[q].pc = "locked" /\ req[q].row # NoRow
              /\ Doc[req[q].doc].key = k)
  BY DEF UpsertRecordKey, LockedByOther, Holds
<1>4. \A s \in Superseded(p) : s \in Docs /\ keyRow[k] = s /\ s # d
  BY <1>1, NilAssumption
  DEF Structure, RowsHeld, RowLocked, RowHeld, Superseded
<1>5. /\ records' = (records \union {d}) \ Superseded(p)
      /\ \A j \in Keys : keyRow'[j] = IF j = k THEN d
                         ELSE IF j \in Ancestors[k] /\ keyRow[j] = NoRow
                         THEN NoDoc ELSE keyRow[j]
      /\ \A x \in Docs : log'[x] = IF x \in Superseded(p) /\ log[x] # "none"
                                   THEN "gc"
                                   ELSE IF x = d /\ req[p].inserted
                                   THEN "live" ELSE log[x]
  BY DEF UpsertRecordKey
<1>6. req[p].inserted \/ log[d] # "none"
  BY DEF UpsertRecordKey, LogStored
<1>7. \A q \in Procs : req[q].pc = "locked" => Doc[req[q].doc].key \in Keys
  BY DocAssumption DEF Structure, TypeOK, DocType
<1> HIDE DEF d
<1>8. k = Doc[d].key
  OBVIOUS
<1> HIDE DEF k
<1>9. RowsStored'
  <2>1. \A x \in records' : log'[x] # "none"
    BY <1>1, <1>4, <1>5, <1>6 DEF Structure, RowsStored
  <2>2. \A j \in Keys : keyRow'[j] \in Docs =>
            keyRow'[j] \in records' /\ Doc[keyRow'[j]].key = j
    <3> SUFFICES ASSUME NEW j \in Keys, keyRow'[j] \in Docs
                 PROVE  keyRow'[j] \in records' /\ Doc[keyRow'[j]].key = j
      OBVIOUS
    <3>1. CASE j = k
      BY <1>1, <1>4, <1>5, <1>8, <3>1
    <3>2. CASE j # k
      <4>1. keyRow'[j] = keyRow[j]
        BY <1>5, <3>2, NilAssumption
      <4>2. keyRow[j] \in records /\ Doc[keyRow[j]].key = j
        BY <4>1 DEF Structure, RowsStored
      <4>3. keyRow[j] \notin Superseded(p)
        BY <1>1, <1>4, <3>2, <4>2 DEF Structure, RowsStored
      <4> QED
        BY <1>5, <4>1, <4>2, <4>3
    <3> QED
      BY <3>1, <3>2
  <2> QED
    BY <2>1, <2>2 DEF RowsStored
<1>10. CutsHeld'
  <2>1. \A q \in Procs \ {p} : req[q].cut \subseteq records'
    BY <1>3, <1>4, <1>5 DEF Structure, CutsHeld
  <2> QED
    BY <1>2, <2>1 DEF Structure, CutsHeld, IsDelete
<1>11. RowsHeld'
  BY <1>2, <1>3, <1>5, <1>7 DEF Structure, RowsHeld, RowLocked, RowHeld
<1> QED
  BY <1>9, <1>10, <1>11

\* The commit of a delete: the records it cut go, and with them their keys.
LEMMA CommitDeleteStep ==
    ASSUME Structure, NEW p \in Procs, CommitDelete(p)
    PROVE  RowsStored' /\ CutsHeld' /\ RowsHeld'
<1> DEFINE d == req[p].doc
           cut == req[p].cut
<1>1. /\ req \in [Procs -> Request] /\ req[p] \in Request /\ d \in Docs
      /\ records \subseteq Docs /\ log \in [Docs -> {"none", "live", "gc"}]
      /\ keyRow \in [Keys -> Docs \union {NoDoc, NoRow}]
  BY DEF Structure, TypeOK, CommitDelete, DeleteDone, Deleting
<1>2. /\ req'[p].pc = "idle" /\ req'[p].cut = {}
      /\ \A q \in Procs \ {p} : req'[q] = req[q]
  BY <1>1, IdleType DEF CommitDelete, Answer
<1>3. /\ records' = records \ cut
      /\ \A j \in Keys : keyRow'[j] = IF keyRow[j] \in cut THEN NoRow
                                      ELSE keyRow[j]
      /\ \A x \in Docs : log'[x] = "none" => log[x] = "none"
  BY DEF CommitDelete
<1> HIDE DEF d, cut
<1>4. RowsStored'
  BY <1>1, <1>3, NilAssumption DEF Structure, RowsStored
<1>5. CutsHeld'
  BY <1>2, <1>3 DEF Structure, CutsHeld, IsDelete, cut
<1>6. \A q \in Procs : req[q].pc = "locked" => Doc[req[q].doc].key \in Keys
  BY DocAssumption DEF Structure, TypeOK, DocType
<1>7. RowsHeld'
  BY <1>2, <1>3, <1>6 DEF Structure, RowsHeld, RowLocked, RowHeld, cut
<1> QED
  BY <1>4, <1>5, <1>7

\* The collector: logs, records and keys go together, locked rows stay.
LEMMA DeleteLogsStep ==
    ASSUME Structure, NEW ids, DeleteLogs(ids)
    PROVE  RowsStored' /\ CutsHeld' /\ RowsHeld'
<1>1. /\ records \subseteq Docs /\ log \in [Docs -> {"none", "live", "gc"}]
      /\ keyRow \in [Keys -> Docs \union {NoDoc, NoRow}] /\ req' = req
  BY DEF Structure, TypeOK, DeleteLogs
<1>2. /\ records' = records \ ids
      /\ \A j \in Keys : keyRow'[j] = IF keyRow[j] \in ids THEN NoRow
                                      ELSE keyRow[j]
      /\ \A x \in Docs : x \notin ids => log'[x] = log[x]
  BY DEF DeleteLogs
<1>3. RowsStored'
  BY <1>1, <1>2, NilAssumption DEF Structure, RowsStored
<1>4. CutsHeld'
  BY <1>1, <1>2 DEF Structure, CutsHeld, DeleteLogs, IsDelete
<1>5. \A q \in Procs : req[q].pc = "locked" => Doc[req[q].doc].key \in Keys
  BY DocAssumption DEF Structure, TypeOK, DocType
<1>6. \A q \in Procs : RowLocked(q) => keyRow[Doc[req[q].doc].key] \notin ids
  BY <1>5 DEF DeleteLogs, Holds, RowLocked
<1>7. RowsHeld'
  BY <1>1, <1>2, <1>5, <1>6 DEF Structure, RowsHeld, RowLocked, RowHeld
<1> QED
  BY <1>3, <1>4, <1>7

\* The empty database has the structure.
LEMMA StructureInit == Init => Structure
<1> SUFFICES ASSUME Init PROVE Structure
  OBVIOUS
<1>1. TypeOK
  BY IdleType, TimeAssumption DEF Init, TypeOK
<1>2. RowsStored /\ CutsHeld /\ RowsHeld
  BY IdleType, NilAssumption
  DEF Init, RowsStored, CutsHeld, RowsHeld, RowLocked
<1> QED
  BY <1>1, <1>2 DEF Structure

\* Every step keeps the structure.
LEMMA StructureNext ==
    ASSUME Structure, [Next]_vars, TypeOK'
    PROVE  Structure'
<1>1. CASE UNCHANGED <<log, records, keyRow, req>>
  BY <1>1 DEF Structure, RowsStored, CutsHeld, RowsHeld, RowLocked, RowHeld,
              IsDelete
<1>2. ASSUME NEW p \in Procs, Step(p)
      PROVE  RowsStored' /\ CutsHeld' /\ RowsHeld'
  BY <1>2, QuietStep, QuietActions, LockStep, DeleteTargetStep, UpsertStep,
     CommitDeleteStep DEF Step
<1>3. ASSUME NEW p \in Procs, Abort(p)
      PROVE  RowsStored' /\ CutsHeld' /\ RowsHeld'
  BY <1>3, QuietStep, QuietActions
<1>4. ASSUME NEW p \in Procs, NEW d \in Docs, NEW x \in ExemptModes,
             Submit(p, d, x)
      PROVE  RowsStored' /\ CutsHeld' /\ RowsHeld'
  BY <1>4, QuietStep, QuietActions
<1>5. CASE Gc
  <2>1. \/ UNCHANGED <<log, records, keyRow, req>>
        \/ \E ids : DeleteLogs(ids)
    BY <1>5 DEF Gc, GcNoBackup, GcCollect, GcDeleteBackedUp, GcUploadFails, db
  <2> QED
    BY <1>1, <2>1, DeleteLogsStep DEF Structure
<1>6. Tick => UNCHANGED <<log, records, keyRow, req>>
  BY DEF Tick, db
<1>7. UNCHANGED vars => UNCHANGED <<log, records, keyRow, req>>
  BY DEF vars
<1>8. ASSUME NEW o \in Owners, Unregister(o)
      PROVE  RowsStored' /\ CutsHeld' /\ RowsHeld'
  <2>1. /\ UNCHANGED <<records, keyRow, req>>
        /\ \A d \in Docs : log'[d] = "none" <=> log[d] = "none"
    BY <1>8 DEF Unregister
  <2> QED
    BY <2>1 DEF Structure, TypeOK, RowsStored, CutsHeld, RowsHeld, RowLocked,
                RowHeld, IsDelete
<1> QED
  BY <1>1, <1>2, <1>3, <1>4, <1>5, <1>6, <1>7, <1>8 DEF Next, Structure

-----------------------------------------------------------------------------
(* Deletions are permanent as long as no two copies of a document are in     *)
(* flight at once and nobody is exempt from the backdate window.             *)

Serial == ~ConcurrentDuplicates /\ ExemptModes \subseteq {FALSE}

\* The request has found its document unknown, and in the window.
Past(p) ==
    req[p].pc \in {"unseen", "verified", "targeted", "logged", "locked"}
Admitted(p) == req[p].pc \in {"verified", "targeted", "logged", "locked"}

TooOld(d) == Doc[d].createdAt < now - MaxBackdate

\* What a request has found out stays true until it is answered.
Fresh(p) ==
    /\ req[p].pc = "idle" => req[p].doc = NoDoc
    /\ req[p].exempt = FALSE
    /\ Past(p) => log[req[p].doc] = "none"
    /\ Admitted(p) => removedBy[req[p].doc] = NoDoc

OneCopy ==
    \A p, q \in Procs : p # q /\ req[p].pc # "idle" => req[q].doc # req[p].doc

Removed(d) ==
    removedBy[d] # NoDoc =>
        d \notin records /\ (log[d] # "none" \/ TooOld(d))

CollectedOld == \A d \in gcIds : Doc[d].createdAt < now - Retention

SerialInv ==
    /\ Structure
    /\ \A p \in Procs : Fresh(p)
    /\ OneCopy
    /\ \A d \in Docs : Removed(d)
    /\ CollectedOld

\* A step of one request that leaves the tables alone.
ReadOnly(p) ==
    /\ UNCHANGED <<now, log, records, removedBy, gcIds>>
    /\ \A q \in Procs \ {p} : req'[q] = req[q]
    /\ \/ req'[p] = Idle
       \/ /\ req[p].pc # "idle" /\ req'[p].pc # "idle"
          /\ req'[p].doc = req[p].doc /\ req'[p].exempt = req[p].exempt
          /\ Past(p)' => log[req[p].doc] = "none"
          /\ Admitted(p)' => removedBy[req[p].doc] = NoDoc

\* An idle process carries no document and no exemption.
LEMMA IdleFresh == Idle.pc = "idle" /\ Idle.doc = NoDoc /\ Idle.exempt = FALSE
  BY DEF Idle

\* A step that only reads, or rolls back, reopens no removed document.
LEMMA ReadOnlyStep ==
    ASSUME SerialInv, NEW p \in Procs, ReadOnly(p)
    PROVE  /\ \A q \in Procs : Fresh(q)'
           /\ OneCopy'
           /\ \A d \in Docs : Removed(d)'
           /\ CollectedOld'
<1>1. \A q \in Procs : Fresh(q)'
  BY IdleFresh DEF SerialInv, ReadOnly, Fresh, Past, Admitted
<1>2. OneCopy'
  BY IdleFresh, NilAssumption
  DEF SerialInv, ReadOnly, OneCopy, Structure, TypeOK
<1>3. (\A d \in Docs : Removed(d)') /\ CollectedOld'
  BY DEF SerialInv, ReadOnly, Removed, TooOld, CollectedOld
<1> QED
  BY <1>1, <1>2, <1>3

\* The steps of a request before its transaction commits.
LEMMA ReadOnlyActions ==
    ASSUME SerialInv, NEW p \in Procs
    PROVE  /\ Abort(p) => ReadOnly(p)
           /\ HasCommitLog(p) => ReadOnly(p)
           /\ CheckCreatedAt(p) => ReadOnly(p)
           /\ ReadTargets(p) => ReadOnly(p)
           /\ CreateCommitLog(p) => ReadOnly(p)
           /\ LockRecordKey(p) => ReadOnly(p)
           /\ LoseUpsert(p) => ReadOnly(p)
           /\ \A i \in req[p].todo : ResolveTarget(p, i) => ReadOnly(p)
           /\ DeleteTarget(p) => ReadOnly(p)
           /\ \A k \in req[p].dests : SweepDestination(p, k) => ReadOnly(p)
           /\ NoopDelete(p) => ReadOnly(p)
<1> USE DEF ReadOnly, db, Answer, Past, Admitted
<1>0. /\ req[p] \in Request /\ req \in [Procs -> Request]
      /\ req[p].pc # "idle" => req[p].doc \in Docs
      /\ Fresh(p)
  BY DEF SerialInv, Structure, TypeOK
<1>2. ASSUME Abort(p) PROVE ReadOnly(p)
  BY <1>0, <1>2 DEF Abort
<1>3. ASSUME HasCommitLog(p) PROVE ReadOnly(p)
  BY <1>0, <1>3 DEF HasCommitLog, Request
<1>4. ASSUME CheckCreatedAt(p) PROVE ReadOnly(p)
  <2>1. CASE Admissible(req[p].doc, req[p].exempt)
    <3>1. log[req[p].doc] = "none" /\ req[p].exempt = FALSE
      BY <1>0, <1>4 DEF CheckCreatedAt, Fresh
    <3>2. ~TooOld(req[p].doc)
      <4>1. req[p].doc \in Docs /\ Doc[req[p].doc].createdAt \in Int
        BY <1>0, <1>4, DocAssumption DEF CheckCreatedAt, DocType
      <4>2. now \in Int
        BY TimeAssumption DEF SerialInv, Structure, TypeOK
      <4> QED
        BY <2>1, <3>1, <4>1, <4>2, TimeAssumption DEF Admissible, TooOld
    <3>3. removedBy[req[p].doc] = NoDoc
      BY <1>0, <1>4, <3>1, <3>2 DEF SerialInv, Removed, CheckCreatedAt
    <3> QED
      BY <1>0, <1>4, <2>1, <3>1, <3>3 DEF CheckCreatedAt, Request
  <2>2. CASE ~Admissible(req[p].doc, req[p].exempt)
    BY <1>0, <1>4, <2>2 DEF CheckCreatedAt
  <2> QED
    BY <2>1, <2>2
<1>5. ASSUME ReadTargets(p) PROVE ReadOnly(p)
  BY <1>0, <1>5 DEF ReadTargets, Request, Fresh
<1>6. ASSUME CreateCommitLog(p) PROVE ReadOnly(p)
  BY <1>0, <1>6 DEF CreateCommitLog, Request, Fresh
<1>7. ASSUME LockRecordKey(p) PROVE ReadOnly(p)
  BY <1>0, <1>7 DEF LockRecordKey, Request, Fresh
<1>8. ASSUME LoseUpsert(p) PROVE ReadOnly(p)
  BY <1>0, <1>8 DEF LoseUpsert
<1>9. ASSUME NEW i \in req[p].todo, ResolveTarget(p, i) PROVE ReadOnly(p)
  BY <1>0, <1>9 DEF ResolveTarget, Deleting, Request, Fresh
<1>10. ASSUME DeleteTarget(p) PROVE ReadOnly(p)
  BY <1>0, <1>10 DEF DeleteTarget, Deleting, Request, Fresh
<1>11. ASSUME NEW k \in req[p].dests, SweepDestination(p, k) PROVE ReadOnly(p)
  BY <1>0, <1>11 DEF SweepDestination, Deleting, Request, Fresh
<1>12. ASSUME NoopDelete(p) PROVE ReadOnly(p)
  BY <1>0, <1>12 DEF NoopDelete
<1> QED
  BY <1>2, <1>3, <1>4, <1>5, <1>6, <1>7, <1>8, <1>9, <1>10, <1>11, <1>12

\* A commit that logs one document, p's own, and removes documents that had
\* a record: no other request can have found any of them unknown.
Writes(p, gone) ==
    /\ req[p].pc \in {"logged", "locked"}
    /\ req' = [req EXCEPT ![p] = Idle]
    /\ now' = now /\ gcIds' = gcIds
    /\ gone \subseteq records /\ req[p].doc \notin gone
    /\ records' \subseteq (records \union {req[p].doc}) \ gone
    /\ \A e \in Docs : log[e] # "none" => log'[e] # "none"
    /\ \A e \in Docs \ {req[p].doc} : log[e] = "none" => log'[e] = "none"
    /\ \A e \in Docs : removedBy'[e] = IF e \in gone THEN req[p].doc
                                       ELSE removedBy[e]

\* A committed transaction reopens no removed document: its own was fresh,
\* and those it removes leave their tombstones.
LEMMA WritesStep ==
    ASSUME SerialInv, NEW p \in Procs, NEW gone, Writes(p, gone)
    PROVE  /\ \A q \in Procs : Fresh(q)'
           /\ OneCopy'
           /\ \A d \in Docs : Removed(d)'
           /\ CollectedOld'
<1>1. /\ req \in [Procs -> Request] /\ records \subseteq Docs
      /\ \A q \in Procs : req[q].pc # "idle" => req[q].doc \in Docs
      /\ \A d \in records : log[d] # "none"
  BY DEF SerialInv, Structure, TypeOK, RowsStored
<1>2. req'[p] = Idle /\ \A q \in Procs \ {p} : req'[q] = req[q]
  BY <1>1 DEF Writes
<1>3. req[p].doc \in Docs /\ removedBy[req[p].doc] = NoDoc
  BY <1>1 DEF Writes, SerialInv, Fresh, Admitted
<1>4. \A q \in Procs : Fresh(q)'
  <2> SUFFICES ASSUME NEW q \in Procs, q # p
               PROVE  Fresh(q)'
    BY <1>2, IdleFresh DEF Fresh, Past, Admitted
  <2>1. req'[q] = req[q] /\ Fresh(q)
    BY <1>2 DEF SerialInv
  <2>2. Past(q) => log'[req[q].doc] = "none" /\ req[q].doc \notin gone
    <3> SUFFICES ASSUME Past(q)
                 PROVE  log'[req[q].doc] = "none" /\ req[q].doc \notin gone
      OBVIOUS
    <3>1. req[q].doc \in Docs /\ log[req[q].doc] = "none"
      BY <1>1, <2>1 DEF Fresh, Past
    <3>2. req[q].doc # req[p].doc
      BY DEF Writes, SerialInv, OneCopy
    <3> QED
      BY <1>1, <3>1, <3>2 DEF Writes
  <2>3. Admitted(q) => removedBy'[req[q].doc] = NoDoc
    BY <1>1, <2>1, <2>2 DEF Fresh, Past, Admitted, Writes
  <2> QED
    BY <2>1, <2>2, <2>3 DEF Fresh, Past, Admitted
<1>5. OneCopy'
  BY <1>1, <1>2, IdleFresh, NilAssumption DEF SerialInv, OneCopy
<1>6. \A d \in Docs : Removed(d)'
  BY <1>1, <1>3 DEF SerialInv, Removed, TooOld, Writes
<1>7. CollectedOld'
  BY DEF SerialInv, CollectedOld, Writes
<1> QED
  BY <1>4, <1>5, <1>6, <1>7

\* The two steps that commit a transaction.
LEMMA WritingActions ==
    ASSUME SerialInv, NEW p \in Procs
    PROVE  /\ UpsertRecordKey(p) => Writes(p, Superseded(p))
           /\ CommitDelete(p) => Writes(p, req[p].cut)
<1>1. ASSUME UpsertRecordKey(p)
      PROVE  Writes(p, Superseded(p))
  <2>1. /\ req[p].doc \in Docs /\ req[p].pc = "locked"
        /\ Doc[req[p].doc].key \in Keys
    BY <1>1, DocAssumption
    DEF SerialInv, Structure, TypeOK, UpsertRecordKey, DocType
  <2>2. Superseded(p) \subseteq records
    BY <2>1, NilAssumption
    DEF SerialInv, Structure, RowsHeld, RowLocked, RowHeld, RowsStored,
        Superseded
  <2>3. req[p].doc \notin Superseded(p)
    BY DEF Superseded
  <2>4. \A e \in Docs : e \in Superseded(p) => log[e] # "none"
    BY <2>2 DEF SerialInv, Structure, RowsStored
  <2>5. /\ \A e \in Docs : log[e] # "none" => log'[e] # "none"
        /\ \A e \in Docs \ {req[p].doc} : log[e] = "none" => log'[e] = "none"
        /\ \A e \in Docs : removedBy'[e] = IF e \in Superseded(p)
                                           THEN req[p].doc ELSE removedBy[e]
        /\ records' = (records \union {req[p].doc}) \ Superseded(p)
    BY <1>1 DEF UpsertRecordKey
  <2> QED
    BY <1>1, <2>1, <2>2, <2>3, <2>5 DEF Writes, UpsertRecordKey, Answer
<1>2. ASSUME CommitDelete(p)
      PROVE  Writes(p, req[p].cut)
  <2>1. req[p].doc \in Docs /\ req[p].pc = "logged"
    BY <1>2 DEF SerialInv, Structure, TypeOK, CommitDelete, DeleteDone,
                Deleting
  <2>2. req[p].cut \subseteq records
    BY DEF SerialInv, Structure, CutsHeld
  <2>3. req[p].doc \notin req[p].cut
    BY <2>1, <2>2
    DEF SerialInv, Structure, RowsStored, Fresh, Past
  <2>4. /\ \A e \in Docs : log[e] # "none" => log'[e] # "none"
        /\ \A e \in Docs \ {req[p].doc} : log[e] = "none" => log'[e] = "none"
        /\ \A e \in Docs : removedBy'[e] = IF e \in req[p].cut
                                           THEN req[p].doc ELSE removedBy[e]
        /\ records' = records \ req[p].cut
    BY <1>2 DEF CommitDelete
  <2> QED
    BY <1>2, <2>1, <2>2, <2>3, <2>4 DEF Writes, CommitDelete, Answer
<1> QED
  BY <1>1, <1>2

\* The collector only takes logs of documents too old to be admitted again.
LEMMA CollectStep ==
    ASSUME SerialInv, Gc
    PROVE  /\ \A q \in Procs : Fresh(q)'
           /\ OneCopy'
           /\ \A d \in Docs : Removed(d)'
           /\ CollectedOld'
<1>1. now' = now /\ removedBy' = removedBy /\ req' = req
  BY DEF Gc, GcNoBackup, GcCollect, GcDeleteBackedUp, GcUploadFails,
         DeleteLogs, db
<1>2. CollectedOld'
  BY <1>1 DEF SerialInv, CollectedOld, Gc, GcNoBackup, GcCollect,
         GcDeleteBackedUp, GcUploadFails, Collectable
<1>3. OneCopy'
  BY <1>1 DEF SerialInv, OneCopy
<1>4. ASSUME NEW ids, DeleteLogs(ids),
             \A d \in ids : Doc[d].createdAt < now - Retention
      PROVE  (\A q \in Procs : Fresh(q)') /\ (\A d \in Docs : Removed(d)')
  <2>1. \A d \in Docs : log'[d] = IF d \in ids THEN "none" ELSE log[d]
    BY <1>4 DEF DeleteLogs
  <2>2. records' \subseteq records
    BY <1>4 DEF DeleteLogs
  <2>3. \A q \in Procs : Past(q) => req[q].doc \in Docs
    BY DEF SerialInv, Structure, TypeOK, Past
  <2>4. \A q \in Procs : Fresh(q)'
    BY <1>1, <2>1, <2>3 DEF SerialInv, Fresh, Past, Admitted
  <2>5. \A d \in ids \intersect Docs : TooOld(d)
    <3> SUFFICES ASSUME NEW d \in ids \intersect Docs
                 PROVE  TooOld(d)
      OBVIOUS
    <3>1. Doc[d].createdAt \in Int /\ now \in Int
      BY DocAssumption, TimeAssumption
      DEF DocType, SerialInv, Structure, TypeOK
    <3> QED
      BY <1>4, <3>1, TimeAssumption, RetentionAssumption DEF TooOld
  <2>6. \A d \in Docs : Removed(d)'
    BY <1>1, <2>1, <2>2, <2>5 DEF SerialInv, Removed, TooOld
  <2> QED
    BY <2>4, <2>6
<1>5. CASE UNCHANGED db
  BY <1>1, <1>2, <1>3, <1>5
  DEF db, SerialInv, Fresh, Past, Admitted, Removed, TooOld
<1>6. \A d \in Collectable : Doc[d].createdAt < now - Retention
  BY DEF Collectable
<1> QED
  BY <1>2, <1>3, <1>4, <1>5, <1>6
  DEF Gc, GcNoBackup, GcCollect, GcDeleteBackedUp, GcUploadFails, SerialInv,
      CollectedOld

\* The passage of time only makes collected documents older.
LEMMA TickStep ==
    ASSUME SerialInv, Tick
    PROVE  /\ \A q \in Procs : Fresh(q)'
           /\ OneCopy'
           /\ \A d \in Docs : Removed(d)'
           /\ CollectedOld'
<1>1. now \in Int /\ now' = now + 1
      /\ UNCHANGED <<log, records, keyRow, req, gcIds, removedBy>>
  BY TimeAssumption DEF Tick, SerialInv, Structure, TypeOK, db
<1>2. \A d \in Docs : Doc[d].createdAt \in Int
  BY DocAssumption DEF DocType
<1>3. (\A q \in Procs : Fresh(q)') /\ OneCopy'
  BY <1>1 DEF SerialInv, Fresh, Past, Admitted, OneCopy
<1>4. \A d \in Docs : Removed(d)'
  BY <1>1, <1>2, TimeAssumption DEF SerialInv, Removed, TooOld
<1>5. CollectedOld'
  BY <1>1, <1>2, TimeAssumption
  DEF SerialInv, CollectedOld, Structure, TypeOK
<1> QED
  BY <1>3, <1>4, <1>5

\* An unregistration flags logs, and removes none.
LEMMA UnregisterStep ==
    ASSUME SerialInv, NEW o \in Owners, Unregister(o)
    PROVE  /\ \A q \in Procs : Fresh(q)'
           /\ OneCopy'
           /\ \A d \in Docs : Removed(d)'
           /\ CollectedOld'
<1>1. /\ UNCHANGED <<now, records, keyRow, req, gcIds, removedBy>>
      /\ \A d \in Docs : log'[d] = "none" <=> log[d] = "none"
  BY DEF Unregister
<1>2. \A q \in Procs : Past(q) => req[q].doc \in Docs
  BY DEF SerialInv, Structure, TypeOK, Past
<1>3. (\A q \in Procs : Fresh(q)') /\ OneCopy'
  BY <1>1, <1>2 DEF SerialInv, Fresh, Past, Admitted, OneCopy
<1>4. (\A d \in Docs : Removed(d)') /\ CollectedOld'
  BY <1>1 DEF SerialInv, Removed, TooOld, CollectedOld
<1> QED
  BY <1>3, <1>4

\* A request that arrives is the only copy of its document.
LEMMA SubmitStep ==
    ASSUME Serial, SerialInv, NEW p \in Procs, NEW d \in Docs,
           NEW x \in ExemptModes, Submit(p, d, x)
    PROVE  /\ \A q \in Procs : Fresh(q)'
           /\ OneCopy'
           /\ \A e \in Docs : Removed(e)'
           /\ CollectedOld'
<1>1. /\ UNCHANGED <<now, log, records, keyRow, removedBy, gcIds>>
      /\ req \in [Procs -> Request]
  BY DEF Submit, db, SerialInv, Structure, TypeOK
<1>2. /\ req'[p].pc = "received" /\ req'[p].doc = d /\ req'[p].exempt = FALSE
      /\ \A q \in Procs \ {p} : req'[q] = req[q]
  BY <1>1 DEF Submit, Idle, Serial
<1>3. \A q \in Procs : req[q].doc # d
  BY DEF Submit, Serial
<1>4. \A q \in Procs : Fresh(q)'
  BY <1>1, <1>2 DEF SerialInv, Fresh, Past, Admitted
<1>5. OneCopy'
  BY <1>2, <1>3 DEF SerialInv, OneCopy
<1>6. (\A e \in Docs : Removed(e)') /\ CollectedOld'
  BY <1>1 DEF SerialInv, Removed, TooOld, CollectedOld
<1> QED
  BY <1>4, <1>5, <1>6

\* Every reachable state of a serial instance satisfies the invariant.
LEMMA SerialInvariant ==
    ASSUME Serial
    PROVE  Spec => []SerialInv
<1>1. Init => SerialInv
  <2> SUFFICES ASSUME Init PROVE SerialInv
    OBVIOUS
  <2>1. Structure
    BY StructureInit
  <2>2. (\A p \in Procs : Fresh(p)) /\ OneCopy
    BY IdleFresh DEF Init, Fresh, Past, Admitted, OneCopy
  <2>3. (\A d \in Docs : Removed(d)) /\ CollectedOld
    BY DEF Init, Removed, CollectedOld
  <2> QED
    BY <2>1, <2>2, <2>3 DEF SerialInv
<1>2. SerialInv /\ TypeOK' /\ [Next]_vars => SerialInv'
  <2> SUFFICES ASSUME SerialInv, TypeOK', [Next]_vars
               PROVE  SerialInv'
    OBVIOUS
  <2> DEFINE Rest == /\ \A q \in Procs : Fresh(q)
                     /\ OneCopy
                     /\ \A d \in Docs : Removed(d)
                     /\ CollectedOld
  <2>1. Structure'
    BY StructureNext DEF SerialInv
  <2>2. ASSUME NEW p \in Procs, Step(p) PROVE Rest'
    BY <2>2, ReadOnlyActions, ReadOnlyStep, WritingActions, WritesStep
    DEF Step
  <2>3. ASSUME NEW p \in Procs, Abort(p) PROVE Rest'
    BY <2>3, ReadOnlyActions, ReadOnlyStep
  <2>4. ASSUME NEW p \in Procs, NEW d \in Docs, NEW x \in ExemptModes,
               Submit(p, d, x)
        PROVE  Rest'
    BY <2>4, SubmitStep
  <2>5. ASSUME UNCHANGED vars PROVE Rest'
    BY <2>5 DEF vars, SerialInv, Fresh, Past, Admitted, OneCopy, Removed,
                TooOld, CollectedOld
  <2>6. Rest'
    BY <2>2, <2>3, <2>4, <2>5, CollectStep, TickStep, UnregisterStep DEF Next
  <2> QED
    BY <2>1, <2>6 DEF SerialInv
<1> QED
  BY <1>1, <1>2, TypeCorrect, PTL DEF Spec

\* With at most one copy of a document in flight and the backdate window in
\* force, a removed document keeps its tombstone until it is too old, and its
\* record never returns: the promise of domain.MaxBackdate, for any number of
\* concurrent requests, overwrites, range deletes and collector runs.
THEOREM SerialDeletionPermanent ==
    ASSUME Serial
    PROVE  Spec => [](DeletionPermanent /\ TombstoneCoversWindow)
<1>1. SerialInv => DeletionPermanent /\ TombstoneCoversWindow
  BY DEF SerialInv, Removed, TooOld, DeletionPermanent, TombstoneCoversWindow
<1> QED
  BY <1>1, SerialInvariant, PTL

-----------------------------------------------------------------------------
(* The replay tombstone, whoever is exempt and whatever is in flight twice.  *)

WindowInv == Structure /\ TombstoneCoversWindow /\ CollectedOld

\* What a step does to logs and removals, as far as tombstones are concerned:
\* only documents with a record are removed, and only old logs disappear.
Keeps ==
    /\ now' \in Int /\ now =< now'
    /\ \A d \in Docs :
         /\ log[d] # "none" => log'[d] # "none" \/ TooOld(d)
         /\ removedBy'[d] # removedBy[d] => log[d] # "none"

\* Such a step keeps every tombstone that is still needed.
LEMMA KeepsTombstones ==
    ASSUME TypeOK, TombstoneCoversWindow, Keeps
    PROVE  TombstoneCoversWindow'
<1> SUFFICES ASSUME NEW d \in Docs, removedBy'[d] # NoDoc
             PROVE  log'[d] # "none" \/ Doc[d].createdAt < now' - MaxBackdate
  BY DEF TombstoneCoversWindow
<1>1. Doc[d].createdAt \in Int /\ now \in Int /\ now' \in Int /\ now =< now'
  BY DocAssumption, TimeAssumption DEF DocType, TypeOK, Keeps
<1>2. log[d] # "none" \/ TooOld(d)
  BY DEF Keeps, TombstoneCoversWindow, TooOld
<1>3. log'[d] # "none" \/ TooOld(d)
  <2>1. CASE log[d] # "none"
    BY <2>1 DEF Keeps
  <2>2. CASE log[d] = "none"
    BY <1>2, <2>2
  <2> QED
    BY <2>1, <2>2
<1> QED
  BY <1>1, <1>3, TimeAssumption DEF TooOld

\* A committed transaction removes only what had a record, hence a log.
LEMMA CommitsKeep ==
    ASSUME Structure, NEW p \in Procs, UpsertRecordKey(p) \/ CommitDelete(p)
    PROVE  Keeps /\ UNCHANGED <<now, gcIds>>
<1>1. now \in Int /\ now' = now /\ gcIds' = gcIds
  BY TimeAssumption DEF Structure, TypeOK, UpsertRecordKey, CommitDelete
<1>2. CASE UpsertRecordKey(p)
  <2>1. /\ req[p].doc \in Docs /\ req[p].pc = "locked"
        /\ Doc[req[p].doc].key \in Keys
    BY <1>2, DocAssumption DEF Structure, TypeOK, UpsertRecordKey, DocType
  <2>2. Superseded(p) \subseteq records
    BY <2>1, NilAssumption
    DEF Structure, RowsHeld, RowLocked, RowHeld, RowsStored, Superseded
  <2>3. \A e \in Docs : /\ log[e] # "none" => log'[e] # "none"
                        /\ e \notin Superseded(p) => removedBy'[e] = removedBy[e]
    BY <1>2 DEF UpsertRecordKey
  <2> QED
    BY <1>1, <2>2, <2>3 DEF Keeps, Structure, RowsStored
<1>3. CASE CommitDelete(p)
  <2>1. \A e \in Docs : /\ log[e] # "none" => log'[e] # "none"
                        /\ e \notin req[p].cut => removedBy'[e] = removedBy[e]
    BY <1>3 DEF CommitDelete
  <2> QED
    BY <1>1, <2>1 DEF Keeps, Structure, RowsStored, CutsHeld
<1> QED
  BY <1>2, <1>3

\* A document gc-commitlog may collect is too old to be admitted again.
LEMMA CollectableTooOld ==
    ASSUME TypeOK, NEW d \in Docs, Doc[d].createdAt < now - Retention
    PROVE  TooOld(d)
<1>1. Doc[d].createdAt \in Int /\ now \in Int
  BY DocAssumption, TimeAssumption DEF DocType, TypeOK
<1> QED
  BY <1>1, TimeAssumption, RetentionAssumption DEF TooOld

\* The collector takes only logs that the backdate window replaces.
LEMMA GcKeeps ==
    ASSUME Structure, CollectedOld, Gc
    PROVE  Keeps /\ CollectedOld' /\ now' = now /\ req' = req
<1>1. now \in Int /\ now' = now /\ removedBy' = removedBy /\ req' = req
  BY TimeAssumption
  DEF Gc, GcNoBackup, GcCollect, GcDeleteBackedUp, GcUploadFails,
      DeleteLogs, db, Structure, TypeOK
<1>2. CollectedOld'
  BY <1>1 DEF CollectedOld, Gc, GcNoBackup, GcCollect,
         GcDeleteBackedUp, GcUploadFails, Collectable
<1>3. \/ UNCHANGED log
      \/ \E ids : /\ DeleteLogs(ids)
                  /\ \A d \in ids : Doc[d].createdAt < now - Retention
  BY DEF Gc, GcNoBackup, GcCollect, GcDeleteBackedUp, GcUploadFails, db,
         CollectedOld, Collectable
<1>4. \A d \in Docs : log[d] # "none" => log'[d] # "none" \/ TooOld(d)
  <2>1. CASE UNCHANGED log
    BY <2>1
  <2>2. ASSUME NEW ids, DeleteLogs(ids),
               \A d \in ids : Doc[d].createdAt < now - Retention
        PROVE  \A d \in Docs : log[d] # "none" => log'[d] # "none" \/ TooOld(d)
    BY <2>2, CollectableTooOld DEF DeleteLogs, Structure
  <2> QED
    BY <1>3, <2>1, <2>2
<1> QED
  BY <1>1, <1>2, <1>4 DEF Keeps

\* Every step keeps the tombstones.
LEMMA NextKeeps ==
    ASSUME Structure, CollectedOld, [Next]_vars
    PROVE  Keeps /\ CollectedOld'
<1>0. TypeOK /\ Structure /\ CollectedOld /\ now \in Int
  BY TimeAssumption DEF Structure, TypeOK
<1>1. CASE UNCHANGED <<now, log, removedBy, gcIds>>
  BY <1>0, <1>1 DEF Keeps, CollectedOld
<1>2. ASSUME NEW p \in Procs, Step(p)
      PROVE  Keeps /\ CollectedOld'
  <2>1. CASE UpsertRecordKey(p) \/ CommitDelete(p)
    BY <1>0, <2>1, CommitsKeep DEF CollectedOld
  <2>2. CASE ~(UpsertRecordKey(p) \/ CommitDelete(p))
    BY <1>1, <1>2, <2>2
    DEF Step, HasCommitLog, CheckCreatedAt, ReadTargets, CreateCommitLog,
        LockRecordKey, LoseUpsert, ResolveTarget, DeleteTarget,
        SweepDestination, NoopDelete, db
  <2> QED
    BY <2>1, <2>2
<1>3. CASE Tick
  <2>1. now' = now + 1 /\ UNCHANGED <<log, removedBy, gcIds>>
    BY <1>3 DEF Tick, db
  <2>2. \A d \in Docs : Doc[d].createdAt \in Int
    BY DocAssumption DEF DocType
  <2>3. CollectedOld'
    BY <1>0, <2>1, <2>2, TimeAssumption DEF CollectedOld, TypeOK
  <2> QED
    BY <1>0, <2>1, <2>3 DEF Keeps
<1>4. CASE Gc
  BY <1>0, <1>4, GcKeeps
<1>5. \A p \in Procs : Abort(p) => UNCHANGED <<now, log, removedBy, gcIds>>
  BY DEF Abort, db
<1>6. \A p \in Procs, d \in Docs, x \in ExemptModes :
        Submit(p, d, x) => UNCHANGED <<now, log, removedBy, gcIds>>
  BY DEF Submit, db
<1>7. UNCHANGED vars => UNCHANGED <<now, log, removedBy, gcIds>>
  BY DEF vars
<1>8. ASSUME NEW o \in Owners, Unregister(o)
      PROVE  Keeps /\ CollectedOld'
  BY <1>0, <1>8 DEF Unregister, Keeps, CollectedOld
<1> QED
  BY <1>1, <1>2, <1>3, <1>4, <1>5, <1>6, <1>7, <1>8 DEF Next

\* Every step keeps the invariant.
LEMMA WindowNext ==
    ASSUME WindowInv, TypeOK', [Next]_vars
    PROVE  WindowInv'
<1>1. Structure' /\ Keeps /\ CollectedOld'
  BY StructureNext, NextKeeps DEF WindowInv
<1>2. TombstoneCoversWindow'
  BY <1>1, KeepsTombstones DEF WindowInv, Structure
<1> QED
  BY <1>1, <1>2 DEF WindowInv

\* gc-commitlog: a removed document keeps its log until the backdate window
\* alone rejects it, even when imports are exempt from that window and copies
\* of a document are in flight together, for every document, key and request.
THEOREM TombstonesLast == Spec => []TombstoneCoversWindow
<1>1. Init => WindowInv
  BY StructureInit DEF Init, WindowInv, TombstoneCoversWindow, CollectedOld
<1>2. WindowInv /\ TypeOK' /\ [Next]_vars => WindowInv'
  BY WindowNext
<1>3. WindowInv => TombstoneCoversWindow
  BY DEF WindowInv
<1> QED
  BY <1>1, <1>2, <1>3, TypeCorrect, PTL DEF Spec

-----------------------------------------------------------------------------
(* The collector spares what a key holds, in a serial instance.              *)

AtKey(d) == \E k \in Keys : keyRow[k] = d

\* No commit will bring the document back: it has a log, or nobody admits it.
Known(d) ==
    \/ log[d] # "none"
    \/ TooOld(d) /\ \A q \in Procs : Admitted(q) => req[q].doc # d

\* The document is erased with its owner's account, or no key holds it.
MayGo(d) == d \in departed \/ ~AtKey(d)

\* Logs that are flagged, or about to be deleted by id, belong to documents
\* that no key holds, or to documents of a departed user.
FlaggedOff ==
    /\ \A d \in Docs : log[d] = "gc" => MayGo(d)
    /\ \A d \in gcIds : Known(d) /\ MayGo(d)

\* Only records live at keys.
OnlyRecords ==
    /\ \A k \in Keys : keyRow[k] \in Docs => IsRecord(keyRow[k])
    /\ \A p \in Procs : req[p].pc = "locked" => IsRecord(req[p].doc)

\* What a delete still has to remove was committed; the document read before
\* the statement is the one the statement deletes, or has left its key.
TodoKnown(p) ==
    \A i \in req[p].todo :
        /\ Known(i.doc) /\ Doc[i.doc].key = i.key
        /\ Doc[req[p].doc].target # NoDoc /\ ~i.sweep =>
              i.doc = Doc[req[p].doc].target

CurKnown(p) ==
    req[p].cur # NoItem =>
        /\ Deleting(p) /\ Known(req[p].cur.doc)
        /\ req[p].row = req[p].cur.doc \/ ~AtKey(req[p].cur.doc)

FlagKnown(p) ==
    \A d \in req[p].flag : Known(d) /\ (d \in req[p].cut \/ ~AtKey(d))

Resolves(p) == TodoKnown(p) /\ CurKnown(p) /\ FlagKnown(p)

LiveInv == FlaggedOff /\ OnlyRecords /\ \A p \in Procs : Resolves(p)

\* The types of what a delete carries.
LEMMA ResolvesTyped ==
    ASSUME TypeOK, NEW p \in Procs
    PROVE  /\ req[p] \in Request
           /\ \A i \in req[p].todo : i \in Item /\ i.doc \in Docs /\ i.key \in Keys
           /\ req[p].cur # NoItem => req[p].cur \in Item /\ req[p].cur.doc \in Docs
           /\ req[p].flag \subseteq Docs /\ req[p].cut \subseteq Docs
<1>1. req[p] \in Request
  BY DEF TypeOK
<1> QED
  BY <1>1 DEF Request, Item

\* An idle request has nothing to remove.
LEMMA IdleResolves ==
    ASSUME NEW p \in Procs, req'[p] = Idle
    PROVE  Resolves(p)'
  BY DEF Idle, Resolves, TodoKnown, CurKnown, FlagKnown

\* CheckCreatedAt alone admits a document.
LEMMA AdmittedByCheck ==
    ASSUME TypeOK, [Next]_vars, NEW q \in Procs, Admitted(q)',
           ~(Admitted(q) /\ req'[q].doc = req[q].doc)
    PROVE  CheckCreatedAt(q)
<1>1. req \in [Procs -> Request] /\ req[q] \in Request /\ req'[q].pc # "idle"
  BY DEF TypeOK, Admitted
<1>2. req'[q] # req[q] /\ req'[q] # Idle
  BY <1>1, IdleFresh DEF Admitted
<1>3. \A p \in Procs : Answer(p) => req'[q] \in {req[q], Idle}
  BY <1>1 DEF Answer
<1>4. ASSUME NEW p \in Procs, Step(p)
      PROVE  CheckCreatedAt(q)
  <2>0. req[p] \in Request
    BY DEF TypeOK
  <2>1. \A r \in Procs \ {p} : req'[r] = req[r]
    BY <1>1, <1>4
    DEF Step, HasCommitLog, CheckCreatedAt, ReadTargets, CreateCommitLog,
        LockRecordKey, UpsertRecordKey, LoseUpsert, ResolveTarget, DeleteTarget,
        SweepDestination, CommitDelete, NoopDelete, Answer
  <2>2. HasCommitLog(p) => req'[p] = Idle \/ req'[p].pc = "unseen"
    BY <1>1, <2>0 DEF HasCommitLog, Answer, Request
  <2>3. ReadTargets(p) => req'[p] = Idle \/ (Admitted(p) /\ req'[p].doc = req[p].doc)
    BY <1>1, <2>0 DEF ReadTargets, Answer, Request, Admitted
  <2>4. CreateCommitLog(p) => Admitted(p) /\ req'[p].doc = req[p].doc
    BY <1>1, <2>0 DEF CreateCommitLog, Request, Admitted
  <2>5. LockRecordKey(p) => req'[p] = Idle \/ (Admitted(p) /\ req'[p].doc = req[p].doc)
    BY <1>1, <2>0 DEF LockRecordKey, Answer, Request, Admitted
  <2>6. \/ UpsertRecordKey(p) \/ LoseUpsert(p) \/ CommitDelete(p) \/ NoopDelete(p)
        => req'[p] = Idle
    BY <1>1 DEF UpsertRecordKey, LoseUpsert, CommitDelete, NoopDelete, Answer
  <2>7. \A i \in req[p].todo : ResolveTarget(p, i) =>
          Admitted(p) /\ req'[p].doc = req[p].doc
    BY <1>1, <2>0 DEF ResolveTarget, Deleting, Request, Admitted
  <2>8. ASSUME DeleteTarget(p) PROVE Admitted(p) /\ req'[p].doc = req[p].doc
    <3>1. Admitted(p)
      BY <2>8 DEF DeleteTarget, Deleting, Admitted
    <3>2. req'[p].doc = req[p].doc
      BY <1>1, <2>0, <2>8 DEF DeleteTarget, Request
    <3> QED
      BY <3>1, <3>2
  <2>9. \A k \in req[p].dests : SweepDestination(p, k) =>
          Admitted(p) /\ req'[p].doc = req[p].doc
    BY <1>1, <2>0 DEF SweepDestination, Deleting, Request, Admitted
  <2>10. req'[q].pc # "unseen"
    BY DEF Admitted
  <2> QED
    BY <1>2, <1>4, <2>1, <2>2, <2>3, <2>4, <2>5, <2>6, <2>7, <2>8, <2>9, <2>10
    DEF Step
<1>5. \A p \in Procs : Abort(p) => req'[q] \in {req[q], Idle}
  BY <1>3 DEF Abort
<1>6. \A p \in Procs, d \in Docs, x \in ExemptModes :
        Submit(p, d, x) => req'[q] = req[q] \/ req'[q].pc = "received"
  BY <1>1 DEF Submit, Idle
<1>7. Tick \/ Gc \/ (\E o \in Owners : Unregister(o)) \/ (UNCHANGED vars)
        => req' = req
  BY DEF Tick, Unregister, vars, Gc, GcNoBackup, GcCollect, GcDeleteBackedUp,
         GcUploadFails, DeleteLogs
<1>8. req'[q].pc # "received"
  BY DEF Admitted
<1> QED
  BY <1>2, <1>4, <1>5, <1>6, <1>7, <1>8 DEF Next

\* A known document stays known.
LEMMA KnownStays ==
    ASSUME SerialInv, SerialInv', [Next]_vars, Keeps, NEW d \in Docs, Known(d)
    PROVE  Known(d)'
<1>1. /\ Doc[d].createdAt \in Int /\ now \in Int /\ now' \in Int /\ now =< now'
      /\ req \in [Procs -> Request]
  BY DocAssumption, TimeAssumption
  DEF DocType, SerialInv, Structure, TypeOK, Keeps
<1>2. TooOld(d) => TooOld(d)'
  BY <1>1, TimeAssumption DEF TooOld
<1>3. SUFFICES ASSUME log'[d] = "none"
      PROVE  TooOld(d)' /\ \A q \in Procs : Admitted(q)' => req'[q].doc # d
  BY DEF Known
<1>4. TooOld(d)
  BY <1>3 DEF Known, Keeps
<1>5. \A q \in Procs : Admitted(q) => req[q].doc # d
  BY DEF Known, SerialInv, Fresh, Past, Admitted
<1>6. ASSUME NEW q \in Procs, Admitted(q)', req'[q].doc = d
      PROVE  FALSE
  <2>1. req'[q] # req[q] /\ ~(Admitted(q) /\ req'[q].doc = req[q].doc)
    BY <1>5, <1>6 DEF Admitted
  <2>2. CheckCreatedAt(q)
    BY <1>6, <2>1, AdmittedByCheck DEF SerialInv, Structure
  <2>3. Admissible(req[q].doc, req[q].exempt) /\ req[q].doc = d
    BY <1>1, <1>6, <2>2, IdleFresh DEF CheckCreatedAt, Answer, Admitted, Request
  <2>4. req[q].exempt = FALSE
    BY DEF SerialInv, Fresh
  <2> QED
    BY <1>1, <1>4, <2>3, <2>4, TimeAssumption DEF Admissible, TooOld
<1> QED
  BY <1>2, <1>4, <1>6

\* Whoever writes a key writes the document of its own request.
LEMMA KeyWriters ==
    ASSUME TypeOK, [Next]_vars
    PROVE  \/ \A k \in Keys : keyRow'[k] = keyRow[k] \/ keyRow'[k] = NoRow
           \/ \E p \in Procs :
                /\ UpsertRecordKey(p) /\ req[p].doc \in Docs
                /\ \A k \in Keys : keyRow'[k] \in {keyRow[k], NoDoc, req[p].doc}
<1>1. CASE UNCHANGED keyRow
  BY <1>1
<1>2. ASSUME NEW p \in Procs, UpsertRecordKey(p)
      PROVE  /\ req[p].doc \in Docs
             /\ \A k \in Keys : keyRow'[k] \in {keyRow[k], NoDoc, req[p].doc}
  BY <1>2 DEF UpsertRecordKey, TypeOK
<1>3. \A p \in Procs : CommitDelete(p) =>
        \A k \in Keys : keyRow'[k] = keyRow[k] \/ keyRow'[k] = NoRow
  BY DEF CommitDelete
<1>4. \A ids : DeleteLogs(ids) =>
        \A k \in Keys : keyRow'[k] = keyRow[k] \/ keyRow'[k] = NoRow
  BY DEF DeleteLogs
<1>5. ASSUME NEW p \in Procs, Step(p)
      PROVE  UNCHANGED keyRow \/ UpsertRecordKey(p) \/ CommitDelete(p)
  BY <1>5
  DEF Step, HasCommitLog, CheckCreatedAt, ReadTargets, CreateCommitLog,
      LockRecordKey, LoseUpsert, ResolveTarget, DeleteTarget,
      SweepDestination, NoopDelete, db
<1>6. Gc => UNCHANGED keyRow \/ \E ids : DeleteLogs(ids)
  BY DEF Gc, GcNoBackup, GcCollect, GcDeleteBackedUp, GcUploadFails, db
<1>7. Tick \/ (\E o \in Owners : Unregister(o)) \/ (UNCHANGED vars)
        => UNCHANGED keyRow
  BY DEF Tick, Unregister, vars, db
<1>8. \A p \in Procs : /\ Abort(p) => UNCHANGED keyRow
                       /\ \A d \in Docs, x \in ExemptModes :
                            Submit(p, d, x) => UNCHANGED keyRow
  BY DEF Abort, Submit, db
<1> QED
  BY <1>1, <1>2, <1>3, <1>4, <1>5, <1>6, <1>7, <1>8 DEF Next

\* A known document that no key holds stays away from the keys.
LEMMA OffStays ==
    ASSUME SerialInv, [Next]_vars, NEW d \in Docs, Known(d), ~AtKey(d)
    PROVE  ~AtKey(d)'
<1>1. TypeOK
  BY DEF SerialInv, Structure
<1>2. ASSUME NEW p \in Procs, UpsertRecordKey(p)
      PROVE  req[p].doc # d
  BY <1>2 DEF UpsertRecordKey, SerialInv, Fresh, Past, Admitted, Known
<1> QED
  BY <1>1, <1>2, KeyWriters, NilAssumption DEF AtKey

\* Nobody returns to the documents they had published before they left.
LEMMA DepartedGrows ==
    ASSUME [Next]_vars
    PROVE  departed \subseteq departed'
<1>1. \A o : Unregister(o) => departed \subseteq departed'
  BY DEF Unregister
<1>2. Tick \/ Gc \/ (UNCHANGED vars) => departed' = departed
  BY DEF Tick, vars, Gc, GcNoBackup, GcCollect, GcDeleteBackedUp,
         GcUploadFails, DeleteLogs, db
<1>3. \A p \in Procs : /\ Abort(p) => departed' = departed
                       /\ \A d \in Docs, x \in ExemptModes :
                            Submit(p, d, x) => departed' = departed
  BY DEF Abort, Submit, db
<1>4. ASSUME NEW p \in Procs, Step(p)
      PROVE  departed' = departed
  BY <1>4
  DEF Step, HasCommitLog, CheckCreatedAt, ReadTargets, CreateCommitLog,
      LockRecordKey, UpsertRecordKey, LoseUpsert, ResolveTarget,
      DeleteTarget, SweepDestination, CommitDelete, NoopDelete, db
<1> QED
  BY <1>1, <1>2, <1>3, <1>4 DEF Next

\* What may go may still go later.
LEMMA MayGoStays ==
    ASSUME SerialInv, [Next]_vars, NEW d \in Docs, Known(d), MayGo(d)
    PROVE  MayGo(d)'
  BY DepartedGrows, OffStays DEF MayGo

\* A request that does not move keeps what it knows.
LEMMA StillResolves ==
    ASSUME SerialInv, SerialInv', [Next]_vars, Keeps, NEW p \in Procs,
           Resolves(p), req'[p] = req[p]
    PROVE  Resolves(p)'
<1>1. TypeOK
  BY DEF SerialInv, Structure
<1>2. TodoKnown(p)'
  BY <1>1, ResolvesTyped, KnownStays DEF Resolves, TodoKnown
<1>3. CurKnown(p)'
  BY <1>1, ResolvesTyped, KnownStays, OffStays
  DEF Resolves, CurKnown, Deleting, IsDelete
<1>4. FlagKnown(p)'
  BY <1>1, ResolvesTyped, KnownStays, OffStays DEF Resolves, FlagKnown
<1> QED
  BY <1>2, <1>3, <1>4 DEF Resolves

\* What a key holds, or a log names, is known.
LEMMA StoredKnown ==
    ASSUME Structure, NEW d \in Docs, AtKey(d) \/ log[d] # "none"
    PROVE  Known(d)
  BY DEF Structure, RowsStored, AtKey, Known

\* A step of a request that leaves its items alone.
LEMMA SameItems ==
    ASSUME SerialInv, SerialInv', [Next]_vars, Keeps, NEW p \in Procs,
           Resolves(p), ~Deleting(p), req'[p].doc = req[p].doc,
           req'[p].todo = req[p].todo, req'[p].cur = req[p].cur,
           req'[p].flag = req[p].flag, req'[p].cut = req[p].cut
    PROVE  Resolves(p)'
<1>1. TypeOK
  BY DEF SerialInv, Structure
<1>2. TodoKnown(p)'
  BY <1>1, ResolvesTyped, KnownStays DEF Resolves, TodoKnown
<1>3. CurKnown(p)'
  BY DEF Resolves, CurKnown
<1>4. FlagKnown(p)'
  BY <1>1, ResolvesTyped, KnownStays, OffStays DEF Resolves, FlagKnown
<1> QED
  BY <1>2, <1>3, <1>4 DEF Resolves

\* What the address of a delete finds has been committed.
LEMMA TargetsKnown ==
    ASSUME Structure, NEW d \in Docs, NEW i \in Targets(d)
    PROVE  /\ i.doc \in Docs /\ Known(i.doc) /\ Doc[i.doc].key = i.key
           /\ Doc[d].target # NoDoc => i.doc = Doc[d].target
<1>1. Doc[d].target \in Docs \union {NoDoc} /\ Doc[d].keys \in SUBSET Keys
  BY DocAssumption DEF DocType
<1>2. CASE Doc[d].target # NoDoc
  BY <1>1, <1>2, StoredKnown DEF Targets
<1>3. CASE Doc[d].target = NoDoc
  <2>1. PICK k \in Keys : keyRow[k] \in Docs /\ i.doc = keyRow[k] /\ i.key = k
    BY <1>1, <1>3 DEF Targets
  <2> QED
    BY <1>3, <2>1, StoredKnown DEF Structure, RowsStored, AtKey
<1> QED
  BY <1>2, <1>3

\* ReadTargets.
LEMMA ReadTargetsResolves ==
    ASSUME SerialInv, SerialInv', [Next]_vars, Keeps, NEW p \in Procs,
           Resolves(p), ReadTargets(p)
    PROVE  Resolves(p)'
<1>1. /\ TypeOK /\ Structure /\ req \in [Procs -> Request] /\ req[p] \in Request
      /\ req[p].doc \in Docs /\ ~Deleting(p)
  BY DEF SerialInv, Structure, TypeOK, ReadTargets, Deleting
<1>2. CASE Answer(p)
  BY <1>1, <1>2, IdleResolves DEF Answer
<1>3. CASE req' = [req EXCEPT ![p].pc = "targeted",
                              ![p].todo = Targets(req[p].doc)]
  <2>1. /\ req'[p].doc = req[p].doc /\ req'[p].todo = Targets(req[p].doc)
        /\ req'[p].cur = req[p].cur /\ req'[p].flag = req[p].flag
        /\ req'[p].cut = req[p].cut
    BY <1>1, <1>3 DEF Request
  <2>2. TodoKnown(p)'
    BY <1>1, <2>1, TargetsKnown, KnownStays DEF TodoKnown
  <2>3. CurKnown(p)'
    BY <1>1, <2>1 DEF Resolves, CurKnown
  <2>4. FlagKnown(p)'
    BY <1>1, <2>1, ResolvesTyped, KnownStays, OffStays DEF Resolves, FlagKnown
  <2> QED
    BY <2>2, <2>3, <2>4 DEF Resolves
<1>4. CASE \E v : req' = [req EXCEPT ![p].pc = "targeted", ![p].dests = v]
  <2>1. /\ req'[p].doc = req[p].doc /\ req'[p].todo = req[p].todo
        /\ req'[p].cur = req[p].cur /\ req'[p].flag = req[p].flag
        /\ req'[p].cut = req[p].cut
    BY <1>1, <1>4 DEF Request
  <2> QED
    BY <1>1, <2>1, SameItems
<1> QED
  BY <1>2, <1>3, <1>4 DEF ReadTargets

\* The subquery: it names the document that was read, or that one has left
\* its key meanwhile.
LEMMA ResolveTargetResolves ==
    ASSUME SerialInv, SerialInv', [Next]_vars, Keeps, NEW p \in Procs,
           Resolves(p), NEW i \in req[p].todo, ResolveTarget(p, i)
    PROVE  Resolves(p)'
<1>1. /\ TypeOK /\ Structure /\ req \in [Procs -> Request] /\ req[p] \in Request
      /\ i \in Item /\ i.doc \in Docs /\ i.key \in Keys
  BY ResolvesTyped DEF SerialInv, Structure, TypeOK
<1>2. /\ Known(i.doc) /\ Doc[i.doc].key = i.key
      /\ Doc[req[p].doc].target # NoDoc /\ ~i.sweep =>
            i.doc = Doc[req[p].doc].target
  BY DEF Resolves, TodoKnown
<1>3. /\ req'[p].pc = req[p].pc /\ req'[p].doc = req[p].doc /\ req'[p].cur = i
      /\ req'[p].todo = req[p].todo \ {i}
      /\ req'[p].flag = req[p].flag /\ req'[p].cut = req[p].cut
      /\ req'[p].row = IF Doc[req[p].doc].target # NoDoc /\ ~i.sweep
                       THEN Doc[req[p].doc].target ELSE keyRow[i.key]
      /\ Deleting(p) /\ UNCHANGED keyRow
  BY <1>1 DEF ResolveTarget, Request, db
<1>4. TodoKnown(p)'
  BY <1>1, <1>3, ResolvesTyped, KnownStays DEF Resolves, TodoKnown
<1>5. CurKnown(p)'
  <2>1. Deleting(p)' /\ Known(i.doc)'
    BY <1>1, <1>2, <1>3, KnownStays DEF Deleting, IsDelete
  <2>2. req'[p].row = i.doc \/ ~AtKey(i.doc)'
    BY <1>1, <1>2, <1>3 DEF AtKey, Structure, RowsStored
  <2> QED
    BY <1>3, <2>1, <2>2 DEF CurKnown
<1>6. FlagKnown(p)'
  BY <1>1, <1>3, ResolvesTyped, KnownStays, OffStays DEF Resolves, FlagKnown
<1> QED
  BY <1>4, <1>5, <1>6 DEF Resolves

\* The delete statement and flagDeleted: a flagged document goes with the
\* transaction, or no key holds it.
LEMMA DeleteTargetResolves ==
    ASSUME SerialInv, SerialInv', [Next]_vars, Keeps, NEW p \in Procs,
           Resolves(p), DeleteTarget(p)
    PROVE  Resolves(p)'
<1>1. /\ TypeOK /\ Structure /\ req \in [Procs -> Request] /\ req[p] \in Request
      /\ req[p].cur # NoItem /\ req[p].cur.doc \in Docs
  BY ResolvesTyped DEF SerialInv, Structure, TypeOK, DeleteTarget
<1>2. /\ Known(req[p].cur.doc)
      /\ req[p].row = req[p].cur.doc \/ ~AtKey(req[p].cur.doc)
  BY <1>1 DEF Resolves, CurKnown
<1>3. /\ req'[p].doc = req[p].doc /\ req'[p].cur = NoItem
      /\ req'[p].todo = req[p].todo
      /\ req'[p].cut = req[p].cut \union ({req[p].row} \intersect records)
      /\ req'[p].flag \subseteq req[p].flag \union {req[p].cur.doc}
      /\ UNCHANGED <<keyRow, records>>
  BY <1>1 DEF DeleteTarget, Request, db
<1>4. TodoKnown(p)'
  BY <1>1, <1>3, ResolvesTyped, KnownStays DEF Resolves, TodoKnown
<1>5. CurKnown(p)'
  BY <1>3 DEF CurKnown
<1>6. ASSUME NEW d \in req'[p].flag
      PROVE  Known(d)' /\ (d \in req'[p].cut \/ ~AtKey(d)')
  <2>1. CASE d \in req[p].flag
    BY <1>1, <1>3, <2>1, ResolvesTyped, KnownStays, OffStays
    DEF Resolves, FlagKnown
  <2>2. CASE d = req[p].cur.doc
    <3>1. Known(d)'
      BY <1>1, <1>2, <2>2, KnownStays
    <3>2. CASE req[p].row = d
      <4>1. d \in records => d \in req'[p].cut
        BY <1>3, <3>2
      <4>2. d \notin records => ~AtKey(d)'
        BY <1>1, <1>3, <2>2 DEF AtKey, Structure, RowsStored
      <4> QED
        BY <3>1, <4>1, <4>2
    <3>3. CASE ~AtKey(d)
      BY <1>1, <1>2, <2>2, <3>1, <3>3, OffStays
    <3> QED
      BY <1>2, <2>2, <3>2, <3>3
  <2> QED
    BY <1>3, <2>1, <2>2
<1> QED
  BY <1>4, <1>5, <1>6 DEF Resolves, FlagKnown

\* The reference record at a destination.
LEMMA SweepResolves ==
    ASSUME SerialInv, SerialInv', [Next]_vars, Keeps, NEW p \in Procs,
           Resolves(p), NEW k \in req[p].dests, SweepDestination(p, k)
    PROVE  Resolves(p)'
<1>1. /\ TypeOK /\ Structure /\ req \in [Procs -> Request] /\ req[p] \in Request
      /\ k \in Keys /\ req[p].cur = NoItem
  BY DEF SerialInv, Structure, TypeOK, SweepDestination, Request
<1>2. /\ req'[p].doc = req[p].doc /\ req'[p].cur = NoItem
      /\ req'[p].flag = req[p].flag /\ req'[p].cut = req[p].cut
  BY <1>1 DEF SweepDestination, Request
<1>3. \/ req'[p].todo = req[p].todo
      \/ /\ keyRow[k] \in Docs
         /\ req'[p].todo = req[p].todo \union {[key |-> k, doc |-> keyRow[k],
                                                sweep |-> TRUE]}
  BY <1>1 DEF SweepDestination, Request
<1>4. \A i \in req'[p].todo :
        \/ i \in req[p].todo
        \/ keyRow[k] \in Docs /\ i.key = k /\ i.doc = keyRow[k] /\ i.sweep
  BY <1>3
<1>5. keyRow[k] \in Docs => Known(keyRow[k]) /\ Doc[keyRow[k]].key = k
  BY <1>1, StoredKnown DEF Structure, RowsStored, AtKey
<1>6. TodoKnown(p)'
  BY <1>1, <1>2, <1>4, <1>5, ResolvesTyped, KnownStays DEF Resolves, TodoKnown
<1>7. CurKnown(p)'
  BY <1>2 DEF CurKnown
<1>8. FlagKnown(p)'
  BY <1>1, <1>2, ResolvesTyped, KnownStays, OffStays DEF Resolves, FlagKnown
<1> QED
  BY <1>6, <1>7, <1>8 DEF Resolves

\* Every step of a request leaves what it still has to remove in order.
LEMMA StepResolves ==
    ASSUME SerialInv, SerialInv', [Next]_vars, Keeps, NEW p \in Procs,
           Resolves(p), Step(p)
    PROVE  Resolves(p)'
<1>1. req \in [Procs -> Request] /\ req[p] \in Request
  BY DEF SerialInv, Structure, TypeOK
<1>2. CASE Answer(p)
  BY <1>1, <1>2, IdleResolves DEF Answer
<1>3. ASSUME HasCommitLog(p) \/ CheckCreatedAt(p) \/ CreateCommitLog(p)
             \/ LockRecordKey(p), ~Answer(p)
      PROVE  Resolves(p)'
  <2>1. ~Deleting(p)
    BY <1>3 DEF HasCommitLog, CheckCreatedAt, CreateCommitLog, LockRecordKey,
                Deleting, IsDelete, IsRecord
  <2>2. \/ \E v : req' = [req EXCEPT ![p].pc = v]
        \/ \E u, v : req' = [req EXCEPT ![p].pc = u, ![p].inserted = v]
        \/ \E u, v : req' = [req EXCEPT ![p].pc = u, ![p].row = v]
    BY <1>3 DEF HasCommitLog, CheckCreatedAt, CreateCommitLog, LockRecordKey
  <2>3. /\ req'[p].doc = req[p].doc /\ req'[p].todo = req[p].todo
        /\ req'[p].cur = req[p].cur /\ req'[p].flag = req[p].flag
        /\ req'[p].cut = req[p].cut
    <3>1. CASE \E v : req' = [req EXCEPT ![p].pc = v]
      BY <1>1, <3>1 DEF Request
    <3>2. CASE \E u, v : req' = [req EXCEPT ![p].pc = u, ![p].inserted = v]
      BY <1>1, <3>2 DEF Request
    <3>3. CASE \E u, v : req' = [req EXCEPT ![p].pc = u, ![p].row = v]
      BY <1>1, <3>3 DEF Request
    <3> QED
      BY <2>2, <3>1, <3>2, <3>3
  <2> QED
    BY <2>1, <2>3, SameItems
<1>4. UpsertRecordKey(p) \/ LoseUpsert(p) \/ CommitDelete(p) \/ NoopDelete(p)
      => Answer(p)
  BY DEF UpsertRecordKey, LoseUpsert, CommitDelete, NoopDelete
<1> QED
  BY <1>2, <1>3, <1>4, ReadTargetsResolves, ResolveTargetResolves,
     DeleteTargetResolves, SweepResolves DEF Step

\* Only the locking read of a record commit leads to "locked".
LEMMA LockedByRead ==
    ASSUME TypeOK, [Next]_vars, NEW q \in Procs, req'[q].pc = "locked"
    PROVE  \/ Admitted(q) /\ req'[q].doc = req[q].doc /\ req[q].pc = "locked"
           \/ LockRecordKey(q)
<1>1. req \in [Procs -> Request] /\ req[q] \in Request /\ req'[q] # Idle
  BY IdleFresh DEF TypeOK
<1>2. CASE req'[q] = req[q]
  BY <1>2 DEF Admitted
<1>3. ASSUME NEW p \in Procs, Step(p), req'[q] # req[q]
      PROVE  LockRecordKey(q)
  <2>1. req[p] \in Request
    BY DEF TypeOK
  <2>2. p = q
    BY <1>1, <1>3
    DEF Step, HasCommitLog, CheckCreatedAt, ReadTargets, CreateCommitLog,
        LockRecordKey, UpsertRecordKey, LoseUpsert, ResolveTarget, DeleteTarget,
        SweepDestination, CommitDelete, NoopDelete, Answer
  <2>3. ~Answer(q)
    BY <1>1 DEF Answer
  <2>4. HasCommitLog(q) \/ CheckCreatedAt(q) \/ ReadTargets(q) \/ CreateCommitLog(q)
        => req'[q].pc # "locked"
    BY <1>1, <2>3
    DEF HasCommitLog, CheckCreatedAt, ReadTargets, CreateCommitLog, Request
  <2>5. UpsertRecordKey(q) \/ LoseUpsert(q) \/ CommitDelete(q) \/ NoopDelete(q)
        => Answer(q)
    BY DEF UpsertRecordKey, LoseUpsert, CommitDelete, NoopDelete
  <2>6. ASSUME Deleting(q), req'[q].pc = req[q].pc
        PROVE  FALSE
    BY <2>6 DEF Deleting
  <2>7. \A i \in req[q].todo : ResolveTarget(q, i) =>
          Deleting(q) /\ req'[q].pc = req[q].pc
    BY <1>1 DEF ResolveTarget, Request
  <2>8. \A k \in req[q].dests : SweepDestination(q, k) =>
          Deleting(q) /\ req'[q].pc = req[q].pc
    BY <1>1 DEF SweepDestination, Request
  <2>9. ASSUME DeleteTarget(q) PROVE Deleting(q) /\ req'[q].pc = req[q].pc
    <3>1. Deleting(q)
      BY <2>9 DEF DeleteTarget
    <3>2. req'[q].pc = req[q].pc
      BY <1>1, <2>9 DEF DeleteTarget, Request
    <3> QED
      BY <3>1, <3>2
  <2> QED
    BY <1>3, <2>2, <2>3, <2>4, <2>5, <2>6, <2>7, <2>8, <2>9 DEF Step
<1>4. \A p \in Procs : Abort(p) => req'[q] \in {req[q], Idle}
  BY <1>1 DEF Abort, Answer
<1>5. \A p \in Procs, d \in Docs, x \in ExemptModes :
        Submit(p, d, x) => req'[q] = req[q] \/ req'[q].pc = "received"
  BY <1>1 DEF Submit, Idle
<1>6. Tick \/ Gc \/ (\E o \in Owners : Unregister(o)) \/ (UNCHANGED vars)
        => req' = req
  BY DEF Tick, Unregister, vars, Gc, GcNoBackup, GcCollect, GcDeleteBackedUp,
         GcUploadFails, DeleteLogs
<1> QED
  BY <1>1, <1>2, <1>3, <1>4, <1>5, <1>6 DEF Next

\* Whoever moves, every request stays in order.
LEMMA AllResolve ==
    ASSUME SerialInv, SerialInv', LiveInv, [Next]_vars, Keeps, NEW q \in Procs
    PROVE  Resolves(q)'
<1>1. req \in [Procs -> Request] /\ Resolves(q)
  BY DEF SerialInv, Structure, TypeOK, LiveInv
<1>2. CASE req'[q] = req[q]
  BY <1>1, <1>2, StillResolves
<1>3. ASSUME NEW p \in Procs, Step(p)
      PROVE  Resolves(q)'
  <2>1. p # q => req'[q] = req[q]
    BY <1>1, <1>3
    DEF Step, HasCommitLog, CheckCreatedAt, ReadTargets, CreateCommitLog,
        LockRecordKey, UpsertRecordKey, LoseUpsert, ResolveTarget, DeleteTarget,
        SweepDestination, CommitDelete, NoopDelete, Answer
  <2> QED
    BY <1>1, <1>2, <1>3, <2>1, StepResolves
<1>4. ASSUME NEW p \in Procs, Abort(p)
      PROVE  Resolves(q)'
  <2>1. req'[q] = req[q] \/ req'[q] = Idle
    BY <1>1, <1>4 DEF Abort, Answer
  <2> QED
    BY <1>2, <2>1, IdleResolves
<1>5. ASSUME NEW p \in Procs, NEW d \in Docs, NEW x \in ExemptModes,
             Submit(p, d, x)
      PROVE  Resolves(q)'
  <2>1. CASE p # q
    BY <1>1, <1>2, <1>5, <2>1 DEF Submit
  <2>2. CASE p = q
    <3>1. req'[q].todo = {} /\ req'[q].cur = NoItem /\ req'[q].flag = {}
      BY <1>1, <1>5, <2>2 DEF Submit, Idle
    <3> QED
      BY <3>1 DEF Resolves, TodoKnown, CurKnown, FlagKnown
  <2> QED
    BY <2>1, <2>2
<1>6. Tick \/ Gc \/ (\E o \in Owners : Unregister(o)) \/ (UNCHANGED vars)
        => req' = req
  BY DEF Tick, Unregister, vars, Gc, GcNoBackup, GcCollect, GcDeleteBackedUp,
         GcUploadFails, DeleteLogs
<1> QED
  BY <1>2, <1>3, <1>4, <1>5, <1>6 DEF Next

\* What a step flags has left its key, or its owner has left the server.
LEMMA FlaggedStep ==
    ASSUME SerialInv, SerialInv', LiveInv, [Next]_vars, Keeps, NEW d \in Docs,
           log'[d] = "gc"
    PROVE  MayGo(d)'
<1>1. /\ TypeOK /\ Structure /\ log \in [Docs -> {"none", "live", "gc"}]
      /\ keyRow \in [Keys -> Docs \union {NoDoc, NoRow}]
  BY DEF SerialInv, Structure, TypeOK
<1>2. CASE log[d] = "gc"
  BY <1>2, MayGoStays DEF LiveInv, FlaggedOff, Known
<1>3. ASSUME NEW p \in Procs, UpsertRecordKey(p), log[d] # "gc"
      PROVE  ~AtKey(d)'
  <2>1. /\ req[p].doc \in Docs /\ req[p].pc = "locked"
        /\ Doc[req[p].doc].key \in Keys
    BY <1>1, <1>3, DocAssumption DEF TypeOK, UpsertRecordKey, DocType
  <2>2. d \in Superseded(p)
    BY <1>3 DEF UpsertRecordKey
  <2>3. d # req[p].doc /\ keyRow[Doc[req[p].doc].key] = d
    BY <1>1, <2>1, <2>2, NilAssumption
    DEF Structure, RowsHeld, RowLocked, RowHeld, Superseded
  <2>4. Doc[d].key = Doc[req[p].doc].key
    BY <1>1, <2>1, <2>3 DEF Structure, RowsStored
  <2>5. \A k \in Keys : keyRow'[k] = IF k = Doc[req[p].doc].key THEN req[p].doc
                        ELSE IF k \in Ancestors[Doc[req[p].doc].key]
                                /\ keyRow[k] = NoRow
                        THEN NoDoc ELSE keyRow[k]
    BY <1>3 DEF UpsertRecordKey
  <2> QED
    BY <1>1, <2>3, <2>4, <2>5, NilAssumption DEF AtKey, Structure, RowsStored
<1>4. ASSUME NEW p \in Procs, CommitDelete(p), log[d] # "gc"
      PROVE  ~AtKey(d)'
  <2>1. d = req[p].doc \/ d \in req[p].flag
    BY <1>4 DEF CommitDelete
  <2>2. /\ IsDelete(req[p].doc)
        /\ \A k \in Keys : keyRow'[k] = IF keyRow[k] \in req[p].cut THEN NoRow
                                        ELSE keyRow[k]
    BY <1>4 DEF CommitDelete, DeleteDone, Deleting
  <2>3. CASE d = req[p].doc
    BY <2>2, <2>3, NilAssumption
    DEF AtKey, LiveInv, OnlyRecords, IsRecord, IsDelete
  <2>4. CASE d \in req[p].flag
    <3>1. d \in req[p].cut \/ ~AtKey(d)
      BY <2>4 DEF LiveInv, Resolves, FlagKnown
    <3> QED
      BY <2>2, <3>1, NilAssumption DEF AtKey
  <2> QED
    BY <2>1, <2>3, <2>4
<1>5. ASSUME NEW p \in Procs, Step(p)
      PROVE  log' = log \/ UpsertRecordKey(p) \/ CommitDelete(p)
  BY <1>5
  DEF Step, HasCommitLog, CheckCreatedAt, ReadTargets, CreateCommitLog,
      LockRecordKey, LoseUpsert, ResolveTarget, DeleteTarget,
      SweepDestination, NoopDelete, db
<1>6. Gc => log'[d] = log[d] \/ log'[d] = "none"
  BY DEF Gc, GcNoBackup, GcCollect, GcDeleteBackedUp, GcUploadFails, DeleteLogs,
         db
<1>7. Tick \/ (UNCHANGED vars) => log' = log
  BY DEF Tick, vars, db
<1>8. \A p \in Procs : /\ Abort(p) => log' = log
                       /\ \A e \in Docs, x \in ExemptModes :
                            Submit(p, e, x) => log' = log
  BY DEF Abort, Submit, db
<1>9. ASSUME NEW o \in Owners, Unregister(o), log[d] # "gc"
      PROVE  d \in departed'
  BY <1>1, <1>9 DEF Unregister
<1> QED
  BY <1>2, <1>3, <1>4, <1>5, <1>6, <1>7, <1>8, <1>9 DEF Next, MayGo

\* Every step keeps the invariant.
LEMMA LiveNext ==
    ASSUME SerialInv, SerialInv', LiveInv, [Next]_vars
    PROVE  LiveInv'
<1>1. /\ TypeOK /\ Structure /\ Keeps /\ req \in [Procs -> Request]
      /\ gcIds \subseteq Docs
  BY NextKeeps DEF SerialInv, Structure, TypeOK
<1>2. FlaggedOff'
  <2>1. \A d \in gcIds' : d \in gcIds \/ d \in Collectable
    <3>1. Gc => gcIds' \subseteq gcIds \union Collectable
      BY DEF Gc, GcNoBackup, GcCollect, GcDeleteBackedUp, GcUploadFails
    <3>2. ASSUME NEW p \in Procs, Step(p) PROVE gcIds' = gcIds
      BY <3>2, Zenon
      DEF Step, HasCommitLog, CheckCreatedAt, ReadTargets, CreateCommitLog,
             LockRecordKey, UpsertRecordKey, LoseUpsert, ResolveTarget,
             DeleteTarget, SweepDestination, CommitDelete, NoopDelete
    <3>3. \A p \in Procs : /\ Abort(p) => gcIds' = gcIds
                           /\ \A d \in Docs, x \in ExemptModes :
                                Submit(p, d, x) => gcIds' = gcIds
      BY DEF Abort, Submit
    <3>4. Tick \/ (\E o \in Owners : Unregister(o)) \/ (UNCHANGED vars)
            => gcIds' = gcIds
      BY DEF Tick, Unregister, vars
    <3> QED
      BY <3>1, <3>2, <3>3, <3>4 DEF Next
  <2>2. \A d \in gcIds' : d \in Docs /\ Known(d) /\ MayGo(d)
    BY <1>1, <2>1 DEF LiveInv, FlaggedOff, Collectable, Known
  <2>3. \A d \in gcIds' : Known(d)' /\ MayGo(d)'
    BY <1>1, <2>2, KnownStays, MayGoStays
  <2> QED
    BY <1>1, <2>3, FlaggedStep DEF FlaggedOff
<1>3. OnlyRecords'
  <2>1. \A k \in Keys : keyRow'[k] \in Docs => IsRecord(keyRow'[k])
    BY <1>1, KeyWriters, NilAssumption
    DEF LiveInv, OnlyRecords, UpsertRecordKey
  <2>2. ASSUME NEW q \in Procs, req'[q].pc = "locked"
        PROVE  IsRecord(req'[q].doc)
    <3>1. CASE Admitted(q) /\ req'[q].doc = req[q].doc /\ req[q].pc = "locked"
      BY <3>1 DEF LiveInv, OnlyRecords
    <3>2. CASE LockRecordKey(q)
      BY <1>1, <2>2, <3>2, IdleFresh DEF LockRecordKey, Answer, Request
    <3> QED
      BY <2>2, <3>1, <3>2, <1>1, LockedByRead
  <2> QED
    BY <2>1, <2>2 DEF OnlyRecords, IsRecord
<1>4. \A q \in Procs : Resolves(q)'
  BY <1>1, AllResolve
<1> QED
  BY <1>2, <1>3, <1>4 DEF LiveInv

\* gc-commitlog: while no two copies of a document are in flight and nobody is
\* exempt from the backdate window, the collector, whose deletes cascade and,
\* after a backup, go by id alone, takes away the document a key holds only as
\* the erasure of an account: every flag that a commit sets, though on a document
\* read before the deleting statement, is on one that this transaction removes
\* or that has left its key for good; every other flag is an unregistration's.
THEOREM CollectorSparesLive ==
    ASSUME Serial
    PROVE  Spec => GcSparesLive
<1>1. Init => LiveInv
  <2> SUFFICES ASSUME Init PROVE LiveInv
    OBVIOUS
  <2>1. FlaggedOff /\ OnlyRecords
    BY IdleFresh, NilAssumption DEF Init, FlaggedOff, OnlyRecords, MayGo, AtKey
  <2>2. \A p \in Procs : Resolves(p)
    BY DEF Init, Idle, Resolves, TodoKnown, CurKnown, FlagKnown
  <2> QED
    BY <2>1, <2>2 DEF LiveInv
<1>2. SerialInv /\ SerialInv' /\ LiveInv /\ [Next]_vars => LiveInv'
  BY LiveNext
<1>3. SerialInv /\ LiveInv /\ [Next]_vars =>
        [\A d \in Docs : log[d] # "none" /\ log'[d] = "none" =>
            d \in departed \/ \A k \in Keys : keyRow[k] # d]_vars
  <2> SUFFICES ASSUME SerialInv, LiveInv, Next, NEW d \in Docs,
                      log[d] # "none", log'[d] = "none"
               PROVE  MayGo(d)
    BY DEF MayGo, AtKey
  <2>1. Gc
    <3>1. ASSUME NEW p \in Procs, Step(p)
          PROVE  log' = log \/ UpsertRecordKey(p) \/ CommitDelete(p)
      BY <3>1
      DEF Step, HasCommitLog, CheckCreatedAt, ReadTargets, CreateCommitLog,
          LockRecordKey, LoseUpsert, ResolveTarget, DeleteTarget,
          SweepDestination, NoopDelete, db
    <3>2. \A p \in Procs : ~UpsertRecordKey(p) /\ ~CommitDelete(p)
      BY DEF UpsertRecordKey, CommitDelete
    <3>3. \A p \in Procs : /\ Abort(p) => log' = log
                           /\ \A e \in Docs, x \in ExemptModes :
                                Submit(p, e, x) => log' = log
      BY DEF Abort, Submit, db
    <3>4. Tick => log' = log
      BY DEF Tick, db
    <3>5. ASSUME NEW o \in Owners, Unregister(o) PROVE FALSE
      BY <3>5 DEF Unregister, SerialInv, Structure, TypeOK
    <3> QED
      BY <3>1, <3>2, <3>3, <3>4, <3>5 DEF Next
  <2>2. d \in Collectable \/ d \in gcIds
    BY <2>1 DEF Gc, GcNoBackup, GcCollect, GcDeleteBackedUp, GcUploadFails,
                DeleteLogs, db
  <2> QED
    BY <2>2 DEF LiveInv, FlaggedOff, Collectable
<1> QED
  BY <1>1, <1>2, <1>3, SerialInvariant, PTL DEF Spec, GcSparesLive

=============================================================================
