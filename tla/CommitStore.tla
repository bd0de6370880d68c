----------------------------- MODULE CommitStore -----------------------------
(* The commit pipeline of one server: Usecase.Commit, the record and delete  *)
(* kinds it dispatches to, the Postgres statements they run, and the         *)
(* gc-commitlog command.  Requests run concurrently; a request is a sequence *)
(* of steps cut where the code leaves one SQL statement and starts another.  *)
(* The transaction runs under READ COMMITTED, so its writes appear at once   *)
(* when it commits; until then it only holds row locks.                      *)
EXTENDS Integers, FiniteSets

CONSTANTS
    Docs,                 \* documents that clients and peers may submit
    Keys,                 \* cckv keys
    Owners,               \* users: a commit log belongs to its namespace
    Procs,                \* concurrent requests
    NoDoc,                \* a nil record_id, or no document at all
    NoRow,                \* a record_keys row that does not exist
    Doc,                  \* what each document says, see DocType
    Ancestors,            \* the proper path prefixes of a key
    MaxBackdate,          \* domain.MaxBackdate
    MaxFutureSkew,        \* domain.MaxFutureSkew
    Retention,            \* gc-commitlog --retention
    ExemptModes,          \* may a request be exempt from the backdate window?
    ConcurrentDuplicates, \* may two copies of a document be in flight at once?
    MaxTime               \* bound on the clock

(* kind: "record" or "delete".  owner: whose namespace the commit belongs to. *)
(* createdAt: the author-signed time (it is the time prefix of the document  *)
(* id).  A record has a key, the time recordAt   *)
(* accept-if-newer compares (the referenced document's for a reference       *)
(* record), retain (onUpdate = "retain") and the keys on this server at      *)
(* which reference records of it live (sweep).  A delete has the keys it     *)
(* addresses (one, or a range), the document it addresses by ccfs URI if     *)
(* any (target), whether this server is authoritative for them (auth), and   *)
(* the documents carried as references (refs).                               *)
DocType ==
    [kind : {"record", "delete"}, owner : Owners, createdAt : Int,
     recordAt : Int, key : Keys, retain : BOOLEAN, sweep : SUBSET Keys,
     keys : SUBSET Keys, target : Docs \union {NoDoc}, auth : BOOLEAN,
     refs : SUBSET Docs]

ASSUME DocAssumption == Doc \in [Docs -> DocType]
ASSUME KeyAssumption == Ancestors \in [Keys -> SUBSET Keys]
ASSUME NilAssumption == NoDoc \notin Docs /\ NoRow \notin Docs /\ NoDoc # NoRow
ASSUME TimeAssumption ==
    /\ MaxBackdate \in Nat /\ MaxFutureSkew \in Nat
    /\ Retention \in Nat /\ MaxTime \in Nat
\* gc-commitlog refuses a retention shorter than the backdate window.
ASSUME RetentionAssumption == Retention >= MaxBackdate
ASSUME ModeAssumption ==
    ExemptModes \subseteq BOOLEAN /\ ConcurrentDuplicates \in BOOLEAN

VARIABLES
    now,        \* the server's clock
    log,        \* commit_logs: "none", "live", or "gc" (gc_candidate is set)
    records,    \* records: the documents that have a row
    keyRow,     \* record_keys: the document a key holds, NoDoc, or NoRow
    req,        \* the requests in flight
    gcIds,      \* ids gc-commitlog has backed up and is about to delete
    removedBy,  \* history: the document whose commit removed this one's row
    departed    \* history: the documents whose live log an unregistration
                \* flagged

db == <<log, records, keyRow, removedBy, departed>>
vars == <<now, log, records, keyRow, req, gcIds, removedBy, departed>>

-----------------------------------------------------------------------------
\* One document a delete is about to remove: read under key before the
\* statement that deletes; sweep marks a reference record.
Item == [key : Keys, doc : Docs, sweep : BOOLEAN]
NoItem == [key |-> NoRow, doc |-> NoDoc, sweep |-> FALSE]

Idle ==
    [pc |-> "idle", doc |-> NoDoc, exempt |-> FALSE, inserted |-> FALSE,
     row |-> NoRow, todo |-> {}, dests |-> {}, cur |-> NoItem, cut |-> {},
     flag |-> {}, kept |-> FALSE, any |-> FALSE]

\* row: the record_keys row read FOR UPDATE, or the record_id a delete's
\* subquery saw; todo, dests, cur: what a delete still has to remove; cut,
\* flag: the rows it deletes and the logs it flags when it commits; kept,
\* any: deleteRetained and deletedAny.
Request ==
    [pc : {"idle", "received", "unseen", "verified", "targeted", "logged",
           "locked"},
     doc : Docs \union {NoDoc}, exempt : BOOLEAN, inserted : BOOLEAN,
     row : Docs \union {NoDoc, NoRow}, todo : SUBSET Item,
     dests : SUBSET Keys, cur : Item \union {NoItem}, cut : SUBSET Docs,
     flag : SUBSET Docs, kept : BOOLEAN, any : BOOLEAN]

IsRecord(d) == Doc[d].kind = "record"
IsDelete(d) == Doc[d].kind = "delete"

\* The record_keys row p has locked: a record commit locks the row it found,
\* a delete the row that cascades away with the record.
Holds(p, k) ==
    \/ /\ req[p].pc = "locked"
       /\ req[p].row # NoRow
       /\ Doc[req[p].doc].key = k
    \/ keyRow[k] \in req[p].cut

LockedByOther(p, k) == \E q \in Procs \ {p} : Holds(q, k)

Answer(p) == req' = [req EXCEPT ![p] = Idle]

-----------------------------------------------------------------------------
Init ==
    /\ now = 0
    /\ log = [d \in Docs |-> "none"]
    /\ records = {}
    /\ keyRow = [k \in Keys |-> NoRow]
    /\ req = [p \in Procs |-> Idle]
    /\ gcIds = {}
    /\ removedBy = [d \in Docs |-> NoDoc]
    /\ departed = {}

Tick ==
    /\ now < MaxTime
    /\ now' = now + 1
    /\ UNCHANGED <<db, req, gcIds>>

\* A document reaches the commit endpoint: a first submission, a client's
\* retry, a redelivered job or a replay of a captured document.
Submit(p, d, x) ==
    /\ req[p].pc = "idle"
    /\ ConcurrentDuplicates \/ \A q \in Procs : req[q].doc # d
    /\ req' = [req EXCEPT ![p] = [Idle EXCEPT !.pc = "received", !.doc = d,
                                              !.exempt = x]]
    /\ UNCHANGED <<now, db, gcIds>>

\* The request fails (bad proof, unknown requester, a block, a denied policy,
\* a database error, a cancelled context, a crash): the transaction rolls back.
Abort(p) ==
    /\ req[p].pc # "idle"
    /\ Answer(p)
    /\ UNCHANGED <<now, db, gcIds>>

\* Mutant: a log flagged for collection no longer counts as known.
HasLiveCommitLog(p) ==
    /\ req[p].pc = "received"
    /\ IF log[req[p].doc] = "live"
       THEN Answer(p)
       ELSE req' = [req EXCEPT ![p].pc = "unseen"]
    /\ UNCHANGED <<now, db, gcIds>>

\* HasCommitLog runs outside the transaction; a known id is answered at once.
HasCommitLog(p) ==
    /\ req[p].pc = "received"
    /\ IF log[req[p].doc] # "none"
       THEN Answer(p)
       ELSE req' = [req EXCEPT ![p].pc = "unseen"]
    /\ UNCHANGED <<now, db, gcIds>>

Admissible(d, x) ==
    /\ Doc[d].createdAt =< now + MaxFutureSkew
    /\ x \/ Doc[d].createdAt >= now - MaxBackdate

CheckCreatedAt(p) ==
    /\ req[p].pc = "unseen"
    /\ IF Admissible(req[p].doc, req[p].exempt)
       THEN req' = [req EXCEPT ![p].pc = "verified"]
       ELSE Answer(p)
    /\ UNCHANGED <<now, db, gcIds>>

-----------------------------------------------------------------------------
\* Mutant: a key row without a record is not skipped.
TargetsUnchecked(d) ==
    {[key |-> k, doc |-> keyRow[k], sweep |-> FALSE] : k \in Doc[d].keys}

\* What the address of a delete finds: the committed document with the id of
\* a ccfs URI, if a key still holds it (its policies are found by that key), or
\* the documents that the addressed keys hold.
Targets(d) ==
    IF Doc[d].target # NoDoc
    THEN {[key |-> Doc[t].key, doc |-> t, sweep |-> FALSE] :
            t \in {u \in {Doc[d].target} :
                     /\ log[u] # "none" /\ IsRecord(u)
                     /\ \E k \in Keys : keyRow[k] = u}}
    ELSE {[key |-> k, doc |-> keyRow[k], sweep |-> FALSE] :
            k \in {j \in Doc[d].keys : keyRow[j] \in Docs}}

\* deleteRecord reads its targets outside the transaction where this server
\* is authoritative for them; elsewhere it takes the carried references, which
\* only lead to reference records to sweep.
ReadTargets(p) ==
    LET d == req[p].doc
    IN  /\ req[p].pc = "verified" /\ IsDelete(d)
        /\ IF Doc[d].auth
           THEN IF Targets(d) = {}
                THEN Answer(p)
                ELSE req' = [req EXCEPT ![p].pc = "targeted",
                                        ![p].todo = Targets(d)]
           ELSE IF Doc[d].refs = {}
                THEN Answer(p)
                ELSE req' = [req EXCEPT
                        ![p].pc = "targeted",
                        ![p].dests = UNION {Doc[r].sweep : r \in Doc[d].refs}]
        /\ UNCHANGED <<now, db, gcIds>>

\* INSERT INTO commit_logs ... ON CONFLICT DO NOTHING: waits for an
\* uncommitted insert of the same id, and does nothing when the id exists.
CreateCommitLog(p) ==
    LET d == req[p].doc
    IN  /\ \/ req[p].pc = "verified" /\ IsRecord(d)
           \/ req[p].pc = "targeted"
        /\ \A q \in Procs : ~(req[q].inserted /\ req[q].doc = d)
        /\ req' = [req EXCEPT ![p].pc = "logged",
                              ![p].inserted = (log[d] = "none")]
        /\ UNCHANGED <<now, db, gcIds>>

-----------------------------------------------------------------------------
\* CreateRecord, first statement: SELECT ... FOR UPDATE on the key's row.  A
\* row that holds a document as new or newer ends the commit as a no-op; a
\* row that does not exist cannot be locked.
LockRecordKey(p) ==
    LET d == req[p].doc
        k == Doc[d].key
    IN  /\ req[p].pc = "logged" /\ IsRecord(d)
        /\ ~LockedByOther(p, k)
        /\ IF keyRow[k] \in Docs /\ Doc[d].recordAt =< Doc[keyRow[k]].recordAt
           THEN Answer(p)
           ELSE req' = [req EXCEPT ![p].pc = "locked", ![p].row = keyRow[k]]
        /\ UNCHANGED <<now, db, gcIds>>

\* Mutant: an unconditional upsert.
TakesKeyAlways(d, k) == TRUE

\* The conditional upsert's WHERE clause.
TakesKey(d, k) ==
    keyRow[k] \in Docs => Doc[keyRow[k]].recordAt < Doc[d].recordAt

\* The records row needs its commit_logs row (a foreign key).
LogStored(p) == req[p].inserted \/ log[req[p].doc] # "none"

\* The row read FOR UPDATE names the document to clean up.
Superseded(p) ==
    {e \in {req[p].row} \intersect Docs : ~Doc[e].retain /\ e # req[p].doc}

\* CreateRecord, remaining statements, and the commit: insert the record row,
\* create missing parent rows, upsert the key, flag and remove the document
\* the locked row held.
UpsertRecordKey(p) ==
    LET d == req[p].doc
        k == Doc[d].key
    IN  /\ req[p].pc = "locked"
        /\ ~LockedByOther(p, k)
        /\ LogStored(p) /\ TakesKey(d, k)
        /\ log' = [e \in Docs |->
                     IF e \in Superseded(p) /\ log[e] # "none" THEN "gc"
                     ELSE IF e = d /\ req[p].inserted THEN "live"
                     ELSE log[e]]
        /\ records' = (records \union {d}) \ Superseded(p)
        /\ keyRow' = [j \in Keys |->
                        IF j = k THEN d
                        ELSE IF j \in Ancestors[k] /\ keyRow[j] = NoRow
                        THEN NoDoc
                        ELSE keyRow[j]]
        /\ removedBy' = [e \in Docs |-> IF e \in Superseded(p) THEN d
                                        ELSE removedBy[e]]
        /\ Answer(p)
        /\ UNCHANGED <<now, gcIds, departed>>

\* The upsert matches no row, or the foreign key fails: roll back.
LoseUpsert(p) ==
    /\ req[p].pc = "locked"
    /\ ~LockedByOther(p, Doc[req[p].doc].key)
    /\ ~(LogStored(p) /\ TakesKey(req[p].doc, Doc[req[p].doc].key))
    /\ Answer(p)
    /\ UNCHANGED <<now, db, gcIds>>

-----------------------------------------------------------------------------
Deleting(p) == req[p].pc = "logged" /\ IsDelete(req[p].doc)

\* DeleteRecordByKey, the subquery: which document does the key hold now?
\* A delete by document id names the document itself.
ResolveTarget(p, i) ==
    LET t == Doc[req[p].doc].target
    IN  /\ Deleting(p) /\ req[p].cur = NoItem
        /\ i \in req[p].todo
        /\ req' = [req EXCEPT
                ![p].cur = i,
                ![p].todo = @ \ {i},
                ![p].row = IF t # NoDoc /\ ~i.sweep THEN t ELSE keyRow[i.key]]
        /\ UNCHANGED <<now, db, gcIds>>

\* The delete statement itself, once no other transaction has the rows locked,
\* then flagDeleted on the document that was read.
DeleteTarget(p) ==
    LET i == req[p].cur
        e == req[p].row
    IN  /\ Deleting(p) /\ i # NoItem
        /\ \A k \in Keys : keyRow[k] = e => ~LockedByOther(p, k)
        /\ \A q \in Procs \ {p} : e \notin req[q].cut
        /\ req' = [req EXCEPT
                ![p].cur = NoItem,
                ![p].row = NoRow,
                ![p].cut = @ \union ({e} \intersect records),
                ![p].flag = IF Doc[i.doc].retain THEN @ ELSE @ \union {i.doc},
                ![p].kept = @ \/ Doc[i.doc].retain,
                ![p].any = TRUE,
                ![p].dests = IF i.sweep THEN @ ELSE @ \union Doc[i.doc].sweep]
        /\ UNCHANGED <<now, db, gcIds>>

\* The reference record at a distribution destination is read; it is skipped
\* when there is none or when the destination's policy denies the delete.
SweepDestination(p, k) ==
    /\ Deleting(p) /\ req[p].cur = NoItem
    /\ k \in req[p].dests
    /\ \/ req' = [req EXCEPT ![p].dests = @ \ {k}]
       \/ /\ keyRow[k] \in Docs
          /\ req' = [req EXCEPT
                ![p].dests = @ \ {k},
                ![p].todo = @ \union {[key |-> k, doc |-> keyRow[k],
                                       sweep |-> TRUE]}]
    /\ UNCHANGED <<now, db, gcIds>>

DeleteDone(p) ==
    /\ Deleting(p)
    /\ req[p].todo = {} /\ req[p].dests = {} /\ req[p].cur = NoItem

\* Something was deleted: commit, keeping the delete's own log out of the gc
\* only when a deleted document asked for its history.
CommitDelete(p) ==
    LET d == req[p].doc
        flagged == req[p].flag \union (IF req[p].kept THEN {} ELSE {d})
    IN  /\ DeleteDone(p) /\ req[p].any
        /\ log' = [e \in Docs |->
                     IF log[e] = "none" /\ ~(e = d /\ req[p].inserted)
                     THEN "none"
                     ELSE IF e \in flagged THEN "gc"
                     ELSE IF e = d /\ req[p].inserted THEN "live"
                     ELSE log[e]]
        /\ records' = records \ req[p].cut
        /\ keyRow' = [k \in Keys |-> IF keyRow[k] \in req[p].cut THEN NoRow
                                     ELSE keyRow[k]]
        /\ removedBy' = [e \in Docs |-> IF e \in req[p].cut THEN d
                                        ELSE removedBy[e]]
        /\ Answer(p)
        /\ UNCHANGED <<now, gcIds, departed>>

\* Nothing was deleted: roll back, so that the delete's id stays unknown.
NoopDelete(p) ==
    /\ DeleteDone(p) /\ ~req[p].any
    /\ Answer(p)
    /\ UNCHANGED <<now, db, gcIds>>

-----------------------------------------------------------------------------
\* Mutant: the erasure flags every user's logs.
UnregisterAnyone(o) ==
    /\ log' = [d \in Docs |-> IF log[d] = "live" THEN "gc" ELSE log[d]]
    /\ departed' = departed \union
                   {d \in Docs : log[d] = "live" /\ Doc[d].owner = o}
    /\ UNCHANGED <<now, records, keyRow, req, gcIds, removedBy>>

\* MarkCommitLogsGcCandidateByOwner, when a user unregisters: every committed
\* log of theirs is flagged, also those of documents that keys hold.
Unregister(o) ==
    LET owned == {d \in Docs : log[d] = "live" /\ Doc[d].owner = o}
    IN  /\ log' = [d \in Docs |-> IF d \in owned THEN "gc" ELSE log[d]]
        /\ departed' = departed \union owned
        /\ UNCHANGED <<now, records, keyRow, req, gcIds, removedBy>>

-----------------------------------------------------------------------------
\* Mutant: an inclusive cutoff.
CollectableAtCutoff ==
    {d \in Docs : log[d] = "gc" /\ Doc[d].createdAt =< now - Retention}

\* gc-commitlog.  An id is the document's createdAt followed by a hash, so
\* the id bound is a strict bound on createdAt.
Collectable ==
    {d \in Docs : log[d] = "gc" /\ Doc[d].createdAt < now - Retention}

\* DELETE FROM commit_logs WHERE id IN ids: cascades to the records row and
\* from there to the record_keys row; waits for rows others have locked.
DeleteLogs(ids) ==
    /\ \A p \in Procs : req[p].cut \intersect ids = {}
    /\ \A p \in Procs, k \in Keys : keyRow[k] \in ids => ~Holds(p, k)
    /\ log' = [d \in Docs |-> IF d \in ids THEN "none" ELSE log[d]]
    /\ records' = records \ ids
    /\ keyRow' = [k \in Keys |-> IF keyRow[k] \in ids THEN NoRow
                                 ELSE keyRow[k]]
    /\ UNCHANGED <<now, req, removedBy, departed>>

\* Deletes go in batches, and the cutoff dates from the start of the command:
\* each statement takes some of what is collectable now.
GcNoBackup ==
    /\ \E batch \in (SUBSET Collectable) \ {{}} : DeleteLogs(batch)
    /\ UNCHANGED gcIds

\* With --backup the ids are collected first and deleted, by id alone, once
\* the upload has succeeded.
GcCollect ==
    /\ gcIds = {}
    /\ gcIds' \in (SUBSET Collectable) \ {{}}
    /\ UNCHANGED <<now, db, req>>

GcDeleteBackedUp ==
    \E batch \in (SUBSET gcIds) \ {{}} :
        /\ DeleteLogs(batch)
        /\ gcIds' = gcIds \ batch

\* The upload, or a later batch, fails.
GcUploadFails ==
    /\ gcIds # {}
    /\ gcIds' = {}
    /\ UNCHANGED <<now, db, req>>

-----------------------------------------------------------------------------
\* The steps a request takes by itself once it has been submitted.
Step(p) ==
    \/ HasCommitLog(p) \/ CheckCreatedAt(p)
    \/ ReadTargets(p) \/ CreateCommitLog(p)
    \/ LockRecordKey(p) \/ UpsertRecordKey(p) \/ LoseUpsert(p)
    \/ \E i \in req[p].todo : ResolveTarget(p, i)
    \/ DeleteTarget(p)
    \/ \E k \in req[p].dests : SweepDestination(p, k)
    \/ CommitDelete(p) \/ NoopDelete(p)

Gc == GcNoBackup \/ GcCollect \/ GcDeleteBackedUp \/ GcUploadFails

Next ==
    \/ Tick
    \/ \E p \in Procs, d \in Docs, x \in ExemptModes : Submit(p, d, x)
    \/ \E p \in Procs : Abort(p)
    \/ \E p \in Procs : Step(p)
    \/ \E o \in Owners : Unregister(o)
    \/ Gc

Spec == Init /\ [][Next]_vars

-----------------------------------------------------------------------------
\* Every variable has its type (the shape of the tables and of a request).
TypeOK ==
    /\ now \in 0 .. MaxTime
    /\ log \in [Docs -> {"none", "live", "gc"}]
    /\ records \in SUBSET Docs
    /\ keyRow \in [Keys -> Docs \union {NoDoc, NoRow}]
    /\ req \in [Procs -> Request]
    /\ \A p \in Procs : req[p].pc # "idle" => req[p].doc \in Docs
    /\ gcIds \in SUBSET Docs
    /\ removedBy \in [Docs -> Docs \union {NoDoc}]
    /\ departed \in SUBSET Docs

\* domain/commit.go, MaxBackdate: a document that was deleted or overwritten
\* never comes back, however often and however late it is submitted again.
DeletionPermanent == \A d \in Docs : removedBy[d] # NoDoc => d \notin records

\* gc-commitlog: a removed document keeps its log, the replay tombstone, until
\* the backdate window alone rejects it.
TombstoneCoversWindow ==
    \A d \in Docs : removedBy[d] # NoDoc =>
        log[d] # "none" \/ Doc[d].createdAt < now - MaxBackdate

\* gc-commitlog: the collector, whose deletes cascade and, after a backup, go
\* by id alone, takes away the document a key currently holds only where that
\* is the erasure of an account: where the document's owner unregistered after
\* it was committed.  What they publish after that, and what others own, stays.
GcSparesLive ==
    [][\A d \in Docs : log[d] # "none" /\ log'[d] = "none" =>
            d \in departed \/ \A k \in Keys : keyRow[k] # d]_vars

\* CreateRecord, accept-if-newer: while a key holds a record, only a strictly
\* newer document replaces it, even when both commits found no row to lock.
AcceptIfNewer ==
    [][\A k \in Keys :
            /\ keyRow[k] \in Docs /\ keyRow'[k] \in Docs
            /\ keyRow'[k] # keyRow[k]
            => Doc[keyRow[k]].recordAt < Doc[keyRow'[k]].recordAt]_vars

=============================================================================
