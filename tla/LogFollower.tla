---------------------------- MODULE LogFollower ----------------------------
(* A follower of a server's commit log (Replicate): it asks again and again   *)
(* for the commits received since its cursor.  c_date is read from the clock  *)
(* when the row is inserted; the row appears when its transaction commits,    *)
(* later, so commits may appear behind the cursor.                            *)
EXTENDS Integers, FiniteSets

CONSTANTS
    Commits,    \* commits, numbered in the order of their ids
    Hidden,     \* those the follower may not read
    Limit,      \* the page size
    MaxClock    \* bound on the clock

VARIABLES
    clock,
    cdate,      \* commit_logs.c_date, 0 before the insert
    visible,    \* the commits whose transaction has committed
    cursor,     \* the follower's since, 0 at first
    seen,       \* the commits it was given
    overtaken   \* history: commits that appeared behind the cursor

vars == <<clock, cdate, visible, cursor, seen, overtaken>>

Init ==
    /\ clock = 1
    /\ cdate = [c \in Commits |-> 0]
    /\ visible = {}
    /\ cursor = 0
    /\ seen = {}
    /\ overtaken = {}

Tick ==
    /\ clock < MaxClock
    /\ clock' = clock + 1
    /\ UNCHANGED <<cdate, visible, cursor, seen, overtaken>>

\* CreateCommitLog: c_date DEFAULT clock_timestamp().  At most Limit commits
\* share an instant.
Insert(c) ==
    /\ cdate[c] = 0
    /\ Cardinality({d \in Commits : cdate[d] = clock}) < Limit
    /\ cdate' = [cdate EXCEPT ![c] = clock]
    /\ UNCHANGED <<clock, visible, cursor, seen, overtaken>>

\* The transaction commits (its log stays), or rolls back as if it never was.
TxCommits(c) ==
    /\ cdate[c] # 0 /\ c \notin visible
    /\ visible' = visible \union {c}
    /\ overtaken' = IF cdate[c] < cursor THEN overtaken \union {c} ELSE overtaken
    /\ UNCHANGED <<clock, cdate, cursor, seen>>

TxRollsBack(c) ==
    /\ cdate[c] # 0 /\ c \notin visible
    /\ cdate' = [cdate EXCEPT ![c] = 0]
    /\ UNCHANGED <<clock, visible, cursor, seen, overtaken>>

\* Mutant: an exclusive bound.
SinceExclusive(s) == {c \in visible : cdate[c] > s}

\* QueryCommitLogs: c_date >= since ORDER BY c_date, id.
Since(s) == {c \in visible : cdate[c] >= s}

Rank(s, c) ==
    Cardinality({d \in Since(s) :
        cdate[d] < cdate[c] \/ (cdate[d] = cdate[c] /\ d < c)})

\* Replicate: one page.  next is the first row past the page; on the last page
\* the follower can only resume from prev, the page's own head.  A page that fails
\* changes nothing here.
Poll ==
    LET rows == Since(cursor)
        page == {c \in rows : Rank(cursor, c) < Limit}
        at(n) == cdate[CHOOSE c \in rows : Rank(cursor, c) = n]
    IN  /\ seen' = seen \union (page \ Hidden)
        /\ cursor' = IF Cardinality(rows) > Limit THEN at(Limit)
                     ELSE IF rows # {} THEN at(0) ELSE cursor
        /\ UNCHANGED <<clock, cdate, visible, overtaken>>

Next ==
    \/ Tick \/ Poll
    \/ \E c \in Commits : Insert(c) \/ TxCommits(c) \/ TxRollsBack(c)

\* The follower keeps asking, and not every page fails.
Fairness == WF_vars(Poll)

Spec == Init /\ [][Next]_vars /\ Fairness

-----------------------------------------------------------------------------

\* Replicate: every readable commit is eventually given to a follower that
\* keeps asking, unless it appeared behind the cursor because a later insert
\* committed first.
FollowerCatchesUp ==
    \A c \in Commits \ Hidden :
        c \in visible ~> c \in seen \union overtaken
=============================================================================
