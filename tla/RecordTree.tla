----------------------------- MODULE RecordTree -----------------------------
(* record_keys as a tree, and the listings clients page through.  A row has a *)
(* surrogate id; a child names its parent by that id, which no foreign key    *)
(* protects.  CreateRecord looks the parent up (and creates placeholders for  *)
(* missing ancestors) in one statement and writes the child in another;       *)
(* deletes, which cascade to the row, may come in between.  A reader fetches  *)
(* page after page, one request each, while the tree changes.                 *)
EXTENDS Integers, FiniteSets

CONSTANTS
    Keys,       \* cckv keys, numbered in key order
    Parent,     \* the path parent of a key, 0 for a key right below the owner
    Above,      \* the proper path prefixes of a key
    Docs,       \* record documents, numbered in the order of their ids
    Doc,        \* [key, at]: where a document goes and its created_at
    Assocs,     \* association documents
    Assoc,      \* [target, at, unique] of an association
    Denied,     \* documents the reader's access check refuses
    Queries,    \* the listings a reader may start, see Query
    Limit,      \* the page size
    Writers,    \* concurrent record commits
    MaxDeletes, \* bound on deletes
    NoRow       \* a record_keys row that does not exist

(* kind: "parent" and "prefix" list records by created_at, "keys" lists the   *)
(* children of a parent in key order, placeholders included, "associated"     *)
(* lists the associations of a key.  of: the key asked about.                 *)
Query ==
    [kind : {"parent", "prefix", "keys", "associated"}, of : Keys,
     desc : BOOLEAN]

\* A record_keys row: its id, the parent's id, and the record document (0: a
\* placeholder).
Row == [id : Keys \X Nat, parent : (Keys \union {0}) \X Nat, doc : Docs \union {0}]

\* The proper prefixes of a path are the parent and its prefixes; they sort
\* before the path, and a prefix of a prefix is a shorter one.
ASSUME PathAssumption ==
    /\ Keys \subseteq Nat \ {0} /\ IsFiniteSet(Keys)
    /\ Parent \in [Keys -> Keys \union {0}]
    /\ Above \in [Keys -> SUBSET Keys]
    /\ \A k \in Keys : Above[k] = IF Parent[k] = 0 THEN {}
                                  ELSE {Parent[k]} \union Above[Parent[k]]
    /\ \A k \in Keys : \A a \in Above[k] :
            a < k /\ Above[a] = {b \in Above[k] : b < a}

ASSUME DocAssumption ==
    /\ Docs \subseteq Nat \ {0}
    /\ Assocs \subseteq Nat \ {0} /\ IsFiniteSet(Assocs)
    /\ Doc \in [Docs -> [key : Keys, at : Nat]]
    /\ Assoc \in [Assocs -> [target : Keys, at : Nat, unique : Nat]]
    /\ Denied \subseteq Docs /\ Queries \subseteq Query
    /\ Limit \in Nat \ {0} /\ MaxDeletes \in Nat
    /\ NoRow \notin Row

VARIABLES
    rows,     \* record_keys: a Row or NoRow, by key
    committed,\* commit_logs: the record documents committed so far
    assocs,   \* associations: the target row id of each, NoId when not stored
    tx,       \* record commits in flight
    reader,   \* the reader's listing
    stayed,   \* history: what has been listed ever since the reader began
    lost,     \* history: keys whose parent row went away since they were written
    deletes   \* how many deletes there were

vars == <<rows, committed, assocs, tx, reader, stayed, lost, deletes>>

\* Row ids come from a sequence.  They are only compared: a key's rows are told
\* apart by the number of deletes before each.
NoId == <<0, 0>>
NewId(a) == <<a, deletes>>

\* held: the key's row was there to be locked; fresh: ancestors whose
\* placeholders are inserted but not committed; found: the id of the parent row
\* of the one key that has a row above it; stale (history): that row went away.
NoTx ==
    [doc |-> 0, held |-> FALSE, fresh |-> {}, found |-> [c \in {} |-> NoId],
     stale |-> {}]

\* Where a reader is in a listing: at its start, at the sort value of an entry
\* [sort, id], or at its end.
NoCursor == -1
Done == -2

-----------------------------------------------------------------------------
Stored(k) == rows[k] # NoRow

ChildRows(k) ==
    IF Stored(k)
    THEN {c \in Keys : Stored(c) /\ rows[c].parent = rows[k].id}
    ELSE {}

\* What a prefix matches: the key and its path descendants.
Below(k) == {c \in Keys : c = k \/ k \in Above[c]}

RecordEntries(ks) ==
    {[sort |-> Doc[rows[c].doc].at, id |-> rows[c].doc] :
        c \in {c \in ks : Stored(c) /\ rows[c].doc # 0}}

\* QueryByParent, QueryByPrefix, QueryByParentOrderByKey, GetAssociatedRecords.
Listing(q) ==
    CASE q.kind = "parent" -> RecordEntries(ChildRows(q.of))
      [] q.kind = "prefix" -> RecordEntries(Below(q.of))
      [] q.kind = "keys"   -> {[sort |-> c, id |-> c] : c \in ChildRows(q.of)}
      [] q.kind = "associated" ->
            {[sort |-> Assoc[a].at, id |-> a] :
                a \in {a \in Assocs : /\ Stored(q.of)
                                      /\ assocs[a] = rows[q.of].id}}

Idle == reader.query.kind = "none"
NoQuery == [kind |-> "none", of |-> 0, desc |-> FALSE]
NoReader == [query |-> NoQuery, cursor |-> NoCursor, seen |-> {}]

-----------------------------------------------------------------------------
Init ==
    /\ rows = [k \in Keys |-> NoRow]
    /\ committed = {}
    /\ assocs = [a \in Assocs |-> NoId]
    /\ tx = [w \in Writers |-> NoTx]
    /\ reader = NoReader
    /\ stayed = {}
    /\ lost = {}
    /\ deletes = 0

Pending(k) == \E w \in Writers : k \in tx[w].fresh
Locked(k) == \E w \in Writers : tx[w].held /\ Doc[tx[w].doc].key = k

\* Accept-if-newer, on a row that holds a record.
Newer(k, d) == Stored(k) /\ rows[k].doc # 0 => Doc[rows[k].doc].at < Doc[d].at

\* The ancestors getOrCreateParentRecordKey has to create: it goes up to the
\* first one that has a row.
Missing(k) ==
    {a \in Above[k] : \A b \in Above[k] : a =< b => ~Stored(b)}

\* CreateRecord up to its upsert: SELECT ... FOR UPDATE and accept-if-newer on
\* what it finds, then the parent's row, found or created.
FindParent(w, d) ==
    LET k == Doc[d].key
        below == {c \in Missing(k) \union {k} :
                    Parent[c] # 0 /\ Parent[c] \notin Missing(k)}
    IN  /\ tx[w].doc = 0
        /\ d \notin committed /\ \A v \in Writers : tx[v].doc # d
        /\ ~Locked(k) /\ \A a \in Missing(k) : ~Pending(a)
        /\ Newer(k, d)
        /\ tx' = [tx EXCEPT ![w] =
                [doc |-> d, held |-> Stored(k), fresh |-> Missing(k),
                 found |-> [c \in below |-> rows[Parent[c]].id], stale |-> {}]]
        /\ UNCHANGED <<rows, committed, assocs, lost, deletes>>

\* Mutant: the parent is not written again.
WrittenKeepsParent(k, d, pid) ==
    IF Stored(k) THEN [rows[k] EXCEPT !.doc = d]
    ELSE [id |-> NewId(k), parent |-> pid, doc |-> d]

\* INSERT ... ON CONFLICT (uri) DO UPDATE: an existing row keeps its id.
Written(k, d, pid) ==
    [id |-> IF Stored(k) THEN rows[k].id ELSE NewId(k), parent |-> pid, doc |-> d]

\* The parent id a row of the transaction names: a placeholder of its own, or
\* what it found, which may be gone.
ParentId(w, c) ==
    IF Parent[c] = 0 THEN NoId
    ELSE IF Parent[c] \in tx[w].fresh THEN NewId(Parent[c]) ELSE tx[w].found[c]

\* The conditional upsert of the key, and the commit.  It waits for a commit
\* that has inserted the key as a placeholder or has locked its row.
Upsert(w) ==
    LET d == tx[w].doc
        k == Doc[d].key
    IN  /\ tx[w].doc # 0
        /\ \A v \in Writers \ {w} :
                /\ k \notin tx[v].fresh
                /\ ~(tx[v].held /\ Doc[tx[v].doc].key = k)
        /\ Newer(k, d)
        /\ rows' = [a \in Keys |->
                IF a = k THEN Written(k, d, ParentId(w, k))
                ELSE IF a \in tx[w].fresh
                THEN [id |-> NewId(a), parent |-> ParentId(w, a), doc |-> 0]
                ELSE rows[a]]
        /\ committed' = committed \union {d}
        /\ lost' = (lost \ (tx[w].fresh \union {k})) \union tx[w].stale
        /\ tx' = [tx EXCEPT ![w] = NoTx]
        /\ UNCHANGED <<assocs, deletes>>

\* The conditional upsert finds a document as new, or the request fails.
Rollback(w) ==
    /\ tx[w].doc # 0
    /\ tx' = [tx EXCEPT ![w] = NoTx]
    /\ UNCHANGED <<rows, committed, assocs, lost, deletes>>

\* DeleteRecordByKey (or any removal of the record): the key row cascades
\* away, and with it the associations that point at it.
Delete(k) ==
    /\ deletes < MaxDeletes
    /\ Stored(k) /\ rows[k].doc # 0 /\ ~Locked(k)
    /\ rows' = [rows EXCEPT ![k] = NoRow]
    /\ assocs' = [a \in Assocs |->
                    IF assocs[a] = rows[k].id THEN NoId ELSE assocs[a]]
    /\ lost' = (lost \ {k}) \union {c \in Keys : Parent[c] = k /\ Stored(c)}
    /\ tx' = [w \in Writers |-> [tx[w] EXCEPT
                !.stale = @ \union {c \in DOMAIN tx[w].found : Parent[c] = k}]]
    /\ deletes' = deletes + 1
    /\ UNCHANGED committed

\* CreateAssociation: the target's row is needed; a second document for the
\* same logical association is dropped.
Associate(a) ==
    LET k == Assoc[a].target
    IN  /\ Stored(k)
        /\ \A b \in Assocs : assocs[b] # NoId => Assoc[b].unique # Assoc[a].unique
        /\ assocs' = [assocs EXCEPT ![a] = rows[k].id]
        /\ UNCHANGED <<rows, committed, tx, lost, deletes>>

-----------------------------------------------------------------------------
Before(q, e, f) ==
    LET less(x, y) == x.sort < y.sort \/ (x.sort = y.sort /\ x.id < y.id)
    IN  IF q.desc THEN less(f, e) ELSE less(e, f)

\* Mutant: the cursor row itself is skipped.
InRangeExclusive(q, c, e) ==
    c = NoCursor \/ (IF q.desc THEN e.sort < c ELSE e.sort > c)

\* since and until are inclusive bounds.
InRange(q, c, e) ==
    c = NoCursor \/ (IF q.desc THEN e.sort =< c ELSE e.sort >= c)

\* The rows a page request gets from the database, and their ranks.
Fetched(q, c) == {e \in Listing(q) : InRange(q, c, e)}
Rank(q, c, e) == Cardinality({f \in Fetched(q, c) : Before(q, f, e)})

\* Mutant: the cursor is the last row of the page.
NextCursorLast(q, c) ==
    IF Cardinality(Fetched(q, c)) > Limit
    THEN (CHOOSE e \in Fetched(q, c) : Rank(q, c, e) = Limit - 1).sort
    ELSE Done

\* paginateWindow: one row past the page is the next cursor, taken before the
\* access check drops rows.
NextCursor(q, c) ==
    IF Cardinality(Fetched(q, c)) > Limit
    THEN (CHOOSE e \in Fetched(q, c) : Rank(q, c, e) = Limit).sort
    ELSE Done

Readable(q, e) == q.kind \in {"parent", "prefix"} => e.id \notin Denied

BeginReading(q) ==
    /\ Idle
    /\ reader' = [query |-> q, cursor |-> NoCursor, seen |-> {}]
    /\ stayed' = Listing(q)
    /\ UNCHANGED <<rows, committed, assocs, tx, lost, deletes>>

ReadPage ==
    LET q == reader.query
        c == reader.cursor
    IN  /\ ~Idle /\ c # Done
        /\ reader' = [reader EXCEPT
                !.cursor = NextCursor(q, c),
                !.seen = @ \union {e \in Fetched(q, c) :
                                     Rank(q, c, e) < Limit /\ Readable(q, e)}]
        /\ UNCHANGED <<rows, committed, assocs, tx, stayed, lost, deletes>>

Write ==
    \/ \E w \in Writers, d \in Docs : FindParent(w, d)
    \/ \E w \in Writers : Upsert(w) \/ Rollback(w)
    \/ \E k \in Keys : Delete(k)
    \/ \E a \in Assocs : Associate(a)

Next ==
    \/ /\ Write
       /\ UNCHANGED reader
       /\ stayed' = IF Idle THEN {} ELSE stayed \intersect Listing(reader.query)'
    \/ \E q \in Queries : BeginReading(q)
    \/ ReadPage

Spec == Init /\ [][Next]_vars

\* A reader who follows next goes on asking.
ReaderGoesOn == WF_vars(ReadPage)

-----------------------------------------------------------------------------

\* CreateRecord and QueryByParent: a child is listed under its parent unless
\* the parent's row went away after the child was last written, and writing the
\* child again puts it back; overwriting a parent loses no child.
ChildrenListed ==
    \A c \in Keys :
        Stored(c) /\ Parent[c] # 0 /\ Stored(Parent[c])
            => (c \in ChildRows(Parent[c]) <=> c \notin lost)

\* paginateWindow: a reader who has followed next to the end has been given
\* every readable row that was listed all the time, whatever was inserted,
\* overwritten or deleted between its requests.
PagingComplete ==
    reader.cursor = Done =>
        {e \in stayed : Readable(reader.query, e)} \subseteq reader.seen

\* More rows than a page holds have one sort value: the cursor cannot pass.
Crowded ==
    ~Idle /\ \E e \in Listing(reader.query) :
        Cardinality({f \in Listing(reader.query) : f.sort = e.sort}) > Limit

\* paginateWindow: for a reader who goes on, following next comes to an end,
\* unless more rows than a page holds share a created_at.
PagingEnds ==
    ReaderGoesOn => (~Idle ~> reader.cursor = Done \/ Crowded)
=============================================================================
