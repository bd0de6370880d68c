--------------------------- MODULE ChunklineProofs ---------------------------
(* ChunklineCache for any records, readers and chunks, and any timings with  *)
(* ViewTTL + FetchTime =< ReplayDelay; ChunklineQuery for any timelines,     *)
(* chunk sizes, body limits and queries.                                     *)
EXTENDS ChunklineCache, ChunklineQuery, FiniteSetTheorems,
        WellFoundedInduction, TLAPS

\* No record, and no closing purge, belongs to a chunk that has not begun.
PostedByNow == closedIn =< latest /\ \A r \in Records : posted[r] =< latest

\* A body that was fetched and not yet stored lacks only missed records.
GotAll ==
    \A r \in Reads : read[r].pc = "gotBody" =>
        Recs(read[r].chunk) \ missed \subseteq read[r].got

\* While the subscription is open, what the cached latest chunk lacks is on
\* its way to it: LatestComplete made inductive.
CompleteSoon ==
    sub = "open" /\ body[latest] # NoBody =>
        Recs(latest) \ (missed \union unheard)
          \subseteq body[latest] \union wire \union {applying}

\* The inductive invariant behind LatestComplete.
CompleteInv == TypeOK /\ PostedByNow /\ GotAll /\ CompleteSoon

\* The replay t of the last closing purge still has to run.  An answer the
\* leader gave before the close, and then the copy made of it, is younger than
\* the time since the close allows.
Timed(t) ==
    /\ t.chunk = closedIn
    /\ Asking /\ view.ans => view.left + (ReplayDelay - t.left) =< FetchTime
    /\ view.val => \/ view.age = ViewTTL
                   \/ ReplayDelay - t.left =< view.age + FetchTime

\* That replay has run: no young copy, and no answer on its way, still says
\* that the timeline is maintained.
SettledView ==
    /\ Asking => ~view.ans
    /\ view.val => view.age = ViewTTL
    /\ closedIn = latest => body[latest] = NoBody /\ itr[latest] = 0

\* ReplaySweeps made inductive.
ClosedEdge ==
    closedIn # 0 /\ ~expired =>
        /\ sub = "closed"
        /\ (\E t \in timers : Timed(t)) \/ SettledView

-----------------------------------------------------------------------------
\* An idle read is well-typed.
LEMMA IdleTyped == Idle \in Read /\ Idle.pc = "idle"
  BY ChunklineAssumption DEF Idle, Read, Chunks

\* What the assumptions say of each constant.
LEMMA Numbers ==
    /\ MaxChunk \in Nat \ {0} /\ MaxFaults \in Nat /\ MaxChanges \in Nat
    /\ ViewTTL \in Nat \ {0} /\ FetchTime \in Nat \ {0} /\ ReplayDelay \in Nat \ {0}
    /\ NoRecord \notin Records /\ NoRecord \notin Reads
    /\ ViewTTL + FetchTime =< ReplayDelay
  BY ChunklineAssumption, ReplayAssumption

\* The initial state is well-typed.
LEMMA InitType == Init => TypeOK
  <1> SUFFICES ASSUME Init PROVE TypeOK
    OBVIOUS
  <1> USE Numbers DEF Init
  <1>1. view \in View
    BY DEF View
  <1>2. read \in [Reads -> Read]
    BY IdleTyped
  <1>3. /\ latest \in Chunks /\ posted \in [Records -> 0 .. MaxChunk]
        /\ itr \in [Chunks -> 0 .. MaxChunk]
    BY DEF Chunks
  <1>4. body \in [Chunks -> (SUBSET Records) \union {NoBody}]
    OBVIOUS
  <1>5. /\ wanted \in BOOLEAN /\ expired \in BOOLEAN
    OBVIOUS
  <1>6. changes \in 0 .. MaxChanges /\ faults \in 0 .. MaxFaults /\ closedIn \in 0 .. MaxChunk
    OBVIOUS
  <1> QED
    BY <1>1, <1>2, <1>3, <1>4, <1>5, <1>6 DEF TypeOK

\* Every step keeps the types.
LEMMA NextType == TypeOK /\ [Next]_vars => TypeOK'
  <1> SUFFICES ASSUME TypeOK, [Next]_vars PROVE TypeOK'
    OBVIOUS
  <1> USE Numbers DEF demand, cache, hist, subscription
  <1>1. ASSUME NEW r \in Records, Post(r) PROVE TypeOK'
    BY <1>1 DEF Post, TypeOK, Chunks
  <1>2. CASE NewChunk
    BY <1>2 DEF NewChunk, TypeOK, Chunks
  <1>3. CASE Tick
    <2>1. timers' \subseteq [chunk : Chunks, left : 0 .. ReplayDelay]
      <3>1. ASSUME NEW t \in timers
            PROVE  [t EXCEPT !.left = @ - 1] \in [chunk : Chunks, left : 0 .. ReplayDelay]
        BY <1>3 DEF Tick, TypeOK
      <3> QED
        BY <1>3, <3>1 DEF Tick
    <2>2. view' \in View
      <3>1. PICK a, l : /\ a \in 0 .. ViewTTL /\ l \in 0 .. FetchTime
                        /\ view' = [view EXCEPT !.age = a, !.left = l]
        <4>1. /\ view.age \in 0 .. ViewTTL /\ view.left \in 0 .. FetchTime
          BY DEF TypeOK, View
        <4>2. /\ (IF view.age < ViewTTL THEN view.age + 1 ELSE view.age) \in 0 .. ViewTTL
              /\ (IF view.by # NoRecord THEN view.left - 1 ELSE 0) \in 0 .. FetchTime
          BY <4>1, <1>3 DEF Tick
        <4> QED
          BY <4>2, <1>3 DEF Tick
      <3>2. view \in View
        BY DEF TypeOK
      <3> QED
        BY <3>1, <3>2, Zenon DEF View
    <2> QED
      BY <1>3, <2>1, <2>2 DEF Tick, TypeOK
  <1>4. ASSUME NEW b \in BOOLEAN, Want(b) PROVE TypeOK'
    BY <1>4 DEF Want, TypeOK
  <1>5. CASE OpenSub
    <2>1. sub' \in {"closed", "installed", "listening", "open"} /\ fed' \in BOOLEAN
          /\ wanted' \in BOOLEAN /\ expired' \in BOOLEAN
      BY <1>5 DEF OpenSub, TypeOK
    <2>2. /\ latest' \in Chunks /\ posted' \in [Records -> 0 .. MaxChunk]
          /\ changes' \in 0 .. MaxChanges /\ faults' \in 0 .. MaxFaults
          /\ closedIn' \in 0 .. MaxChunk
      BY <1>5 DEF OpenSub, TypeOK
    <2>3. /\ purges' \subseteq {"close"} /\ wire' \subseteq Records
          /\ timers' \subseteq [chunk : Chunks, left : 0 .. ReplayDelay]
          /\ applying' \in Records \union {NoRecord}
          /\ missed' \subseteq Records /\ unheard' \subseteq Records
      BY <1>5 DEF OpenSub, TypeOK
    <2>4. /\ itr' \in [Chunks -> 0 .. MaxChunk] /\ read' \in [Reads -> Read]
          /\ body' \in [Chunks -> (SUBSET Records) \union {NoBody}] /\ view' \in View
      BY <1>5 DEF OpenSub, TypeOK
    <2> QED
      BY <2>1, <2>2, <2>3, <2>4 DEF TypeOK
  <1>6. CASE CloseSub
    BY <1>6 DEF CloseSub, Hangup, TypeOK
  <1>7. CASE Listen
    BY <1>7 DEF Listen, TypeOK
  <1>8. CASE PurgeOpen
    BY <1>8 DEF PurgeOpen, Deleted, TypeOK
  <1>9. CASE PurgeClose
    BY <1>9 DEF PurgeClose, Deleted, TypeOK, Chunks
  <1>10. ASSUME NEW t \in timers, Replay(t) PROVE TypeOK'
    BY <1>10 DEF Replay, Deleted, TypeOK
  <1>11. CASE BreakSub
    <2>1. sub' \in {"closed", "installed", "listening", "open"} /\ fed' \in BOOLEAN
          /\ wanted' \in BOOLEAN /\ expired' \in BOOLEAN
      BY <1>11 DEF BreakSub, Hangup, Spend, TypeOK
    <2>2. /\ latest' \in Chunks /\ posted' \in [Records -> 0 .. MaxChunk]
          /\ changes' \in 0 .. MaxChanges /\ faults' \in 0 .. MaxFaults
          /\ closedIn' \in 0 .. MaxChunk
      BY <1>11 DEF BreakSub, Hangup, Spend, TypeOK
    <2>3. /\ purges' \subseteq {"close"} /\ wire' \subseteq Records
          /\ timers' \subseteq [chunk : Chunks, left : 0 .. ReplayDelay]
          /\ applying' \in Records \union {NoRecord}
          /\ missed' \subseteq Records /\ unheard' \subseteq Records
      BY <1>11 DEF BreakSub, Hangup, Spend, TypeOK
    <2>4. /\ itr' \in [Chunks -> 0 .. MaxChunk] /\ read' \in [Reads -> Read]
          /\ body' \in [Chunks -> (SUBSET Records) \union {NoBody}] /\ view' \in View
      BY <1>11 DEF BreakSub, Hangup, Spend, TypeOK
    <2> QED
      BY <2>1, <2>2, <2>3, <2>4 DEF TypeOK
  <1>12. CASE Crash
    <2>1. sub' \in {"closed", "installed", "listening", "open"} /\ fed' \in BOOLEAN
          /\ wanted' \in BOOLEAN /\ expired' \in BOOLEAN
      BY <1>12 DEF Crash, Hangup, Spend, TypeOK
    <2>2. /\ latest' \in Chunks /\ posted' \in [Records -> 0 .. MaxChunk]
          /\ changes' \in 0 .. MaxChanges /\ faults' \in 0 .. MaxFaults
          /\ closedIn' \in 0 .. MaxChunk
      BY <1>12 DEF Crash, Hangup, Spend, TypeOK
    <2>3. /\ purges' \subseteq {"close"} /\ wire' \subseteq Records
          /\ timers' \subseteq [chunk : Chunks, left : 0 .. ReplayDelay]
          /\ applying' \in Records \union {NoRecord}
          /\ missed' \subseteq Records /\ unheard' \subseteq Records
      BY <1>12 DEF Crash, Hangup, Spend, TypeOK
    <2>4. /\ itr' \in [Chunks -> 0 .. MaxChunk] /\ read' \in [Reads -> Read]
          /\ body' \in [Chunks -> (SUBSET Records) \union {NoBody}] /\ view' \in View
      BY <1>12, IdleTyped DEF Crash, Hangup, Spend, TypeOK
    <2> QED
      BY <2>1, <2>2, <2>3, <2>4 DEF TypeOK
  <1>13. CASE Prepend
    BY <1>13 DEF Prepend, TypeOK
  <1>14. ASSUME NEW r \in Records, Repoint(r) PROVE TypeOK'
    BY <1>14 DEF Repoint, TypeOK, Chunks
  <1>15. ASSUME NEW c \in Chunks, Evict(c) PROVE TypeOK'
    BY <1>15 DEF Evict, Spend, TypeOK
  <1>16. ASSUME NEW r \in WorkerReads, Ask(r) PROVE TypeOK'
    <2>1. view' \in View
      <3>1. ASSUME NEW a \in BOOLEAN
            PROVE  [view EXCEPT !.by = r, !.ans = a, !.left = FetchTime] \in View
        <4>1. FetchTime \in 0 .. FetchTime /\ view \in View
          BY DEF TypeOK
        <4> QED
          BY <4>1, Zenon DEF View
      <3>2. Served \in BOOLEAN /\ FALSE \in BOOLEAN
        BY DEF Served
      <3> QED
        BY <1>16, <3>1, <3>2 DEF Ask
    <2> QED
      BY <1>16, <2>1 DEF Ask, Spend, TypeOK
  <1>17. CASE Answered
    <2>1. view' \in View
      <3>1. 0 \in 0 .. ViewTTL /\ 0 \in 0 .. FetchTime
        OBVIOUS
      <3>2. view.ans \in BOOLEAN
        BY Zenon DEF TypeOK, View
      <3> QED
        BY <1>17, <3>1, <3>2 DEF Answered, View
    <2> QED
      BY <1>17, <2>1 DEF Answered, TypeOK
  <1>18. ASSUME NEW r \in Reads, Lookup(r) PROVE TypeOK'
    <2>1. \A p \in {"gotItr", "load"}, k, d \in Chunks :
             [Idle EXCEPT !.pc = p, !.key = k, !.chunk = d] \in Read
      BY IdleTyped DEF Read
    <2>2. \A d \in Chunks : [Idle EXCEPT !.pc = "load", !.chunk = d] \in Read
      BY IdleTyped DEF Read
    <2>3. latest \in Chunks /\ (itr[latest] # 0 => itr[latest] \in Chunks)
          /\ \A d \in 1 .. latest : d \in Chunks
      BY DEF TypeOK, Chunks
    <2>4. read' \in [Reads -> Read]
      <3>1. CASE itr[latest] # 0
        BY <1>18, <2>2, <2>3, <3>1 DEF Lookup, TypeOK
      <3>2. CASE itr[latest] = 0
        <4>1. PICK d \in 1 .. latest :
                read' = [read EXCEPT ![r] = [Idle EXCEPT !.pc = "gotItr",
                                                         !.key = latest, !.chunk = d]]
          BY <1>18, <3>2 DEF Lookup
        <4>2. [Idle EXCEPT !.pc = "gotItr", !.key = latest, !.chunk = d] \in Read
          BY <2>1, <2>3
        <4> QED
          BY <4>1, <4>2 DEF TypeOK
      <3> QED
        BY <3>1, <3>2
    <2> QED
      BY <1>18, <2>4 DEF Lookup, TypeOK, readUnchanged
  <1>19. ASSUME NEW r \in Reads, StoreItr(r) PROVE TypeOK'
    <2>1. read[r].key \in Chunks /\ read[r].chunk \in 0 .. MaxChunk /\ 1 \in Chunks
      BY DEF TypeOK, Read, Chunks
    <2>2. itr' \in [Chunks -> 0 .. MaxChunk]
      BY <1>19, <2>1 DEF StoreItr, TypeOK
    <2>3. read' \in [Reads -> Read]
      BY <1>19, <2>1 DEF StoreItr, TypeOK, Read
    <2>4. expired' \in BOOLEAN
      BY <1>19 DEF StoreItr, NoteExpired
    <2> QED
      BY <1>19, <2>2, <2>3, <2>4 DEF StoreItr, TypeOK, readUnchanged
  <1>20. ASSUME NEW r \in Reads, Load(r) PROVE TypeOK'
    BY <1>20, IdleTyped DEF Load, TypeOK, readUnchanged, Read, Chunks, Recs
  <1>21. ASSUME NEW r \in Reads, StoreBody(r) PROVE TypeOK'
    <2>1. read[r].chunk \in Chunks /\ read[r].got \in SUBSET Records
          /\ read[r].chunk \in 0 .. MaxChunk
      BY DEF TypeOK, Read, Chunks
    <2>2. itr' \in [Chunks -> 0 .. MaxChunk] /\ read' \in [Reads -> Read]
      BY <1>21, <2>1, IdleTyped DEF StoreBody, TypeOK
    <2>3. body' \in [Chunks -> (SUBSET Records) \union {NoBody}]
      BY <1>21, <2>1 DEF StoreBody, Added, TypeOK
    <2>4. expired' \in BOOLEAN
      BY <1>21 DEF StoreBody, NoteExpired
    <2> QED
      BY <1>21, <2>2, <2>3, <2>4 DEF StoreBody, TypeOK, readUnchanged
  <1>22. CASE UNCHANGED vars
    BY <1>22 DEF vars, TypeOK
  <1>23. CASE Register
    BY <1>23 DEF Register, TypeOK
  <1>24. CASE PurgeFails
    <2>1. sub' \in {"closed", "installed", "listening", "open"} /\ fed' \in BOOLEAN
          /\ wanted' \in BOOLEAN /\ expired' \in BOOLEAN
      BY <1>24 DEF PurgeFails, Spend, TypeOK
    <2>2. /\ latest' \in Chunks /\ posted' \in [Records -> 0 .. MaxChunk]
          /\ changes' \in 0 .. MaxChanges /\ faults' \in 0 .. MaxFaults
          /\ closedIn' \in 0 .. MaxChunk
      BY <1>24 DEF PurgeFails, Spend, TypeOK
    <2>3. /\ purges' \subseteq {"close"} /\ wire' \subseteq Records
          /\ timers' \subseteq [chunk : Chunks, left : 0 .. ReplayDelay]
          /\ applying' \in Records \union {NoRecord}
          /\ missed' \subseteq Records /\ unheard' \subseteq Records
      BY <1>24 DEF PurgeFails, Spend, TypeOK
    <2>4. /\ itr' \in [Chunks -> 0 .. MaxChunk] /\ read' \in [Reads -> Read]
          /\ body' \in [Chunks -> (SUBSET Records) \union {NoBody}] /\ view' \in View
      BY <1>24 DEF PurgeFails, Spend, TypeOK
    <2> QED
      BY <2>1, <2>2, <2>3, <2>4 DEF TypeOK
  <1>25. CASE EventLost
    BY <1>25 DEF EventLost, Spend, TypeOK
  <1> QED
    BY <1>1, <1>2, <1>3, <1>4, <1>5, <1>6, <1>7, <1>8, <1>9, <1>10, <1>11, <1>12,
       <1>13, <1>14, <1>15, <1>16, <1>17, <1>18, <1>19, <1>20, <1>21, <1>22,
       <1>23, <1>24, <1>25 DEF Next, Keeper, Edges, Updater, Reading

\* Every reachable state is well-typed.
THEOREM TypeCorrect == Spec => []TypeOK
  BY InitType, NextType, PTL DEF Spec

-----------------------------------------------------------------------------
\* Records are posted in the chunk that is the latest then.
LEMMA NextPosted == TypeOK /\ PostedByNow /\ [Next]_vars => PostedByNow'
  <1> SUFFICES ASSUME TypeOK, PostedByNow, [Next]_vars PROVE PostedByNow'
    OBVIOUS
  <1> USE Numbers DEF demand, cache, hist, subscription, PostedByNow
  <1>1. ASSUME NEW r \in Records, Post(r) PROVE PostedByNow'
    BY <1>1 DEF Post, TypeOK, Chunks
  <1>2. CASE NewChunk
    BY <1>2 DEF NewChunk, TypeOK, Chunks
  <1>3. CASE OpenSub \/ PurgeClose \/ Crash
    BY <1>3 DEF OpenSub, PurgeClose, Crash, TypeOK, Chunks
  <1>4. CASE UNCHANGED <<latest, posted, closedIn>>
    BY <1>4
  <1> QED
    BY <1>1, <1>2, <1>3, <1>4
    DEF Next, Keeper, Edges, Updater, Reading, Tick, Want, CloseSub, Listen, PurgeOpen,
        Replay, BreakSub, Prepend, Repoint, Evict, Ask, Answered, Lookup, StoreItr, Load,
        StoreBody, readUnchanged, vars, Register, PurgeFails, EventLost

\* A fetched body is complete, or a record posted since is missed.
LEMMA NextGotAll == TypeOK /\ GotAll /\ [Next]_vars => GotAll'
  <1> SUFFICES ASSUME TypeOK, GotAll, [Next]_vars PROVE GotAll'
    OBVIOUS
  <1> USE DEF demand, cache, hist, subscription
  <1>1. ASSUME NEW r \in Records, Post(r) PROVE GotAll'
    BY <1>1 DEF Post, GotAll, Recs, Fetched, TypeOK
  <1>2. CASE Crash
    BY <1>2, IdleTyped DEF Crash, GotAll, Recs
  <1>3. ASSUME NEW r \in Reads, Lookup(r) PROVE GotAll'
    <2>1. read'[r].pc # "gotBody" /\ \A q \in Reads \ {r} : read'[q] = read[q]
      BY <1>3, IdleTyped DEF Lookup, TypeOK, Idle
    <2> QED
      BY <1>3, <2>1 DEF Lookup, GotAll, Recs, readUnchanged
  <1>4. ASSUME NEW r \in Reads, StoreItr(r) PROVE GotAll'
    <2>1. read'[r].pc # "gotBody" /\ \A q \in Reads \ {r} : read'[q] = read[q]
      BY <1>4 DEF StoreItr, TypeOK, Read
    <2> QED
      BY <1>4, <2>1 DEF StoreItr, GotAll, Recs, readUnchanged
  <1>5. ASSUME NEW r \in Reads, Load(r) PROVE GotAll'
    <2>1. /\ \A q \in Reads \ {r} : read'[q] = read[q]
          /\ read'[r].pc = "gotBody" => read'[r].got = Recs(read'[r].chunk)
      BY <1>5, IdleTyped DEF Load, TypeOK, Read
    <2> QED
      BY <1>5, <2>1 DEF Load, GotAll, Recs, readUnchanged
  <1>6. ASSUME NEW r \in Reads, StoreBody(r) PROVE GotAll'
    <2>1. read'[r].pc # "gotBody" /\ \A q \in Reads \ {r} : read'[q] = read[q]
      BY <1>6, IdleTyped DEF StoreBody, TypeOK
    <2> QED
      BY <1>6, <2>1 DEF StoreBody, GotAll, Recs, readUnchanged
  <1>7. CASE UNCHANGED <<posted, read, missed>>
    BY <1>7 DEF GotAll, Recs
  <1> QED
    BY <1>1, <1>2, <1>3, <1>4, <1>5, <1>6, <1>7
    DEF Next, Keeper, Edges, Updater, Reading, Tick, Want, CloseSub, Listen, PurgeOpen,
        Replay, BreakSub, Prepend, Repoint, Evict, Ask, Answered, NewChunk, OpenSub,
        PurgeClose, vars, Register, PurgeFails, EventLost

\* PurgeLatest at the opening, and the events from then on, keep the latest
\* chunk complete, whatever reads store meanwhile.
LEMMA NextCompleteSoon ==
    TypeOK /\ PostedByNow /\ GotAll /\ CompleteSoon /\ [Next]_vars => CompleteSoon'
  <1> SUFFICES ASSUME TypeOK, PostedByNow, GotAll, CompleteSoon, [Next]_vars,
                      sub' = "open", body'[latest'] # NoBody
               PROVE  (Recs(latest) \ (missed \union unheard)
                         \subseteq body[latest] \union wire \union {applying})'
    BY DEF CompleteSoon
  <1> DEFINE Goal == (Recs(latest) \ (missed \union unheard)
                        \subseteq body[latest] \union wire \union {applying})'
  <1> USE Numbers DEF demand, cache, hist, subscription
  <1>0. latest \in Chunks
    BY DEF TypeOK
  <1>1. ASSUME NEW r \in Records, Post(r) PROVE Goal
    BY <1>1 DEF Post, CompleteSoon, Recs, TypeOK
  <1>2. CASE NewChunk
    <2>1. Recs(latest)' = {}
      BY <1>2 DEF NewChunk, Recs, PostedByNow, TypeOK, Chunks
    <2> QED
      BY <2>1
  <1>3. CASE PurgeOpen
    BY <1>0, <1>3 DEF PurgeOpen, Deleted
  <1>4. CASE PurgeClose
    BY <1>0, <1>4 DEF PurgeClose, Deleted
  <1>5. ASSUME NEW t \in timers, Replay(t) PROVE Goal
    BY <1>0, <1>5 DEF Replay, Deleted, CompleteSoon, Recs
  <1>6. CASE Prepend
    BY <1>0, <1>6 DEF Prepend, CompleteSoon, Recs, TypeOK
  <1>7. ASSUME NEW r \in Records, Repoint(r) PROVE Goal
    BY <1>7 DEF Repoint, CompleteSoon, Recs
  <1>8. ASSUME NEW c \in Chunks, Evict(c) PROVE Goal
    BY <1>0, <1>8 DEF Evict, CompleteSoon, Recs, TypeOK
  <1>9. ASSUME NEW r \in Reads, StoreBody(r) PROVE Goal
    <2>1. UNCHANGED <<latest, posted, sub, wire, applying, missed, unheard>>
      BY <1>9 DEF StoreBody, readUnchanged
    <2>2. CASE body'[latest] = body[latest]
      BY <2>1, <2>2 DEF CompleteSoon, Recs
    <2>3. CASE body'[latest] # body[latest]
      <3>1. read[r].chunk = latest /\ body'[latest] = read[r].got
        BY <1>0, <1>9, <2>3 DEF StoreBody, Added, TypeOK
      <3>2. Recs(latest) \ missed \subseteq read[r].got
        BY <1>9, <3>1 DEF StoreBody, GotAll
      <3> QED
        BY <2>1, <3>1, <3>2 DEF Recs
    <2> QED
      BY <2>2, <2>3
  <1>10. CASE UNCHANGED <<latest, posted, sub, wire, applying, body, missed, unheard>>
    BY <1>10 DEF CompleteSoon, Recs
  <1>11. CASE sub' # "open"
    BY <1>11
  <1>12. CASE PurgeFails
    <2>1. CASE sub = "listening"
      <3>1. latest # 0
        BY <1>0 DEF Chunks
      <3>2. CASE unheard' = {r \in Records : posted[r] # 0}
        BY <1>12, <3>1, <3>2 DEF PurgeFails, Recs
      <3> QED
        BY <1>12, <2>1, <3>2 DEF PurgeFails
    <2>2. CASE sub # "listening"
      BY <1>12, <2>2 DEF PurgeFails, CompleteSoon, Recs
    <2> QED
      BY <2>1, <2>2
  <1>13. CASE EventLost
    BY <1>13 DEF EventLost, CompleteSoon, Recs
  <1> QED
    BY <1>1, <1>2, <1>3, <1>4, <1>5, <1>6, <1>7, <1>8, <1>9, <1>10, <1>11,
       <1>12, <1>13 DEF Next, Keeper, Edges, Updater, Reading, Tick, Want, CloseSub, Listen,
        BreakSub, Ask, Answered, OpenSub, Crash, Lookup, StoreItr, Load, readUnchanged, vars,
        Register

\* Every reachable state satisfies the invariant.
LEMMA CompleteInvariant == Spec => []CompleteInv
  <1>1. Init => CompleteInv
    <2> SUFFICES ASSUME Init PROVE CompleteInv
      OBVIOUS
    <2>1. TypeOK
      BY InitType
    <2>2. PostedByNow /\ CompleteSoon
      BY DEF Init, PostedByNow, CompleteSoon
    <2>3. GotAll
      BY IdleTyped DEF Init, GotAll
    <2> QED
      BY <2>1, <2>2, <2>3 DEF CompleteInv
  <1>2. CompleteInv /\ [Next]_vars => CompleteInv'
    BY NextType, NextPosted, NextGotAll, NextCompleteSoon DEF CompleteInv
  <1> QED
    BY <1>1, <1>2, PTL DEF Spec

\* PurgeLatest and applyEventToCache: while the subscription is open and no
\* event is on its way, a cached latest chunk lacks no record but those posted
\* between a read's fetch and its store, those posted after the opening purge
\* and before the origin registered the listen, and those whose event, or the
\* purge, failed; for any number of readers on leader and workers, chunks,
\* crashes, evictions, failures and changes of demand.
THEOREM MaintainedComplete == Spec => []LatestComplete
  <1>1. CompleteInv => LatestComplete
    BY Numbers DEF CompleteInv, CompleteSoon, LatestComplete, Quiet, Recs
  <1> QED
    BY <1>1, CompleteInvariant, PTL

-----------------------------------------------------------------------------
\* The inductive invariant behind ReplaySweeps.
SweepInv == TypeOK /\ PostedByNow /\ ClosedEdge

\* The numbers in the workers' view and in the timers.
LEMMA ViewTyped ==
    ASSUME TypeOK
    PROVE  /\ view.age \in 0 .. ViewTTL /\ view.left \in 0 .. FetchTime
           /\ \A t \in timers : t.chunk \in Chunks /\ t.left \in 0 .. ReplayDelay
  BY DEF TypeOK, View

\* A replay that runs ViewTTL + FetchTime or more after the close finds no
\* copy of the aggregate that is both young and from before the close.
LEMMA NextClosedEdge == SweepInv /\ TypeOK' /\ [Next]_vars => ClosedEdge'
  <1> SUFFICES ASSUME TypeOK, PostedByNow, ClosedEdge, TypeOK', [Next]_vars,
                      closedIn' # 0, ~expired'
               PROVE  (sub = "closed" /\ ((\E t \in timers : Timed(t)) \/ SettledView))'
    BY DEF ClosedEdge, SweepInv
  <1> DEFINE Goal == (sub = "closed" /\ ((\E t \in timers : Timed(t)) \/ SettledView))'
  <1> USE Numbers DEF demand, cache, hist, subscription
  <1>0. latest \in Chunks /\ closedIn \in 0 .. MaxChunk /\ closedIn =< latest
    BY DEF TypeOK, PostedByNow
  <1>1. closedIn # 0 /\ ~expired => sub = "closed" /\ ((\E t \in timers : Timed(t)) \/ SettledView)
    BY DEF ClosedEdge
  <1>2. CASE NewChunk
    BY <1>0, <1>1, <1>2 DEF NewChunk, Timed, SettledView, Asking, Chunks
  <1>3. CASE Tick
    <2>1. UNCHANGED <<latest, sub, itr, body, closedIn, expired>>
      BY <1>3 DEF Tick
    <2>2. /\ view'.val = view.val /\ view'.ans = view.ans /\ view'.by = view.by
          /\ view'.age = IF view.age < ViewTTL THEN view.age + 1 ELSE view.age
          /\ view'.left = IF view.by # NoRecord THEN view.left - 1 ELSE 0
          /\ view.by # NoRecord => view.left > 0
      BY <1>3 DEF Tick, TypeOK, View
    <2>3. ASSUME NEW t \in timers, Timed(t) PROVE \E u \in timers' : Timed(u)'
      <3>1. PICK u \in timers' : u = [t EXCEPT !.left = @ - 1]
        BY <1>3 DEF Tick
      <3>2. u.chunk = t.chunk /\ u.left = t.left - 1
        BY <3>1 DEF TypeOK
      <3>3. Timed(u)'
        BY <2>1, <2>2, <2>3, <3>2, ViewTyped DEF Timed, Asking
      <3> QED
        BY <3>3
    <2>4. SettledView => SettledView'
      BY <2>1, <2>2, ViewTyped DEF SettledView, Asking
    <2> QED
      BY <1>1, <2>1, <2>3, <2>4
  <1>4. CASE OpenSub \/ Crash
    BY <1>4 DEF OpenSub, Crash
  <1>5. CASE sub # "closed" /\ closedIn' = closedIn /\ expired' = expired
    BY <1>1, <1>5
  <1>6. CASE PurgeClose
    <2>1. closedIn' = latest /\ sub' = "closed"
      BY <1>6 DEF PurgeClose
    <2>2. PICK t \in timers' : t = [chunk |-> latest, left |-> ReplayDelay]
      BY <1>6 DEF PurgeClose
    <2>3. Timed(t)'
      BY <1>6, <2>1, <2>2, ViewTyped DEF PurgeClose, Timed, Asking
    <2> QED
      BY <2>1, <2>3
  <1>7. ASSUME NEW t \in timers, Replay(t) PROVE Goal
    <2>1. UNCHANGED <<latest, sub, view, closedIn, expired>>
      BY <1>7 DEF Replay
    <2>2. CASE SettledView
      <3>1. SettledView'
        BY <1>0, <1>7, <2>1, <2>2 DEF Replay, Deleted, SettledView, Asking
      <3> QED
        BY <1>1, <2>1, <3>1
    <2>3. ASSUME NEW u \in timers, Timed(u), u # t PROVE Goal
      <3>1. u \in timers' /\ Timed(u)'
        BY <1>7, <2>1, <2>3 DEF Replay, Timed, Asking
      <3> QED
        BY <1>1, <2>1, <3>1
    <2>4. CASE Timed(t)
      <3>1. (Asking => ~view.ans) /\ (view.val => view.age = ViewTTL)
        BY <1>7, <2>4, ViewTyped DEF Replay, Timed
      <3>2. closedIn = latest => body'[latest] = NoBody /\ itr'[latest] = 0
        BY <1>0, <1>7, <2>4 DEF Replay, Deleted, Timed
      <3>3. SettledView'
        BY <2>1, <3>1, <3>2 DEF SettledView, Asking
      <3> QED
        BY <1>1, <2>1, <3>3
    <2> QED
      BY <1>1, <2>1, <2>2, <2>3, <2>4
  <1>8. CASE Prepend
    BY <1>0, <1>1, <1>8 DEF Prepend, Timed, SettledView, Asking, TypeOK
  <1>9. ASSUME NEW r \in Records, Repoint(r) PROVE Goal
    BY <1>0, <1>1, <1>9 DEF Repoint, Timed, SettledView, Asking, TypeOK
  <1>10. ASSUME NEW c \in Chunks, Evict(c) PROVE Goal
    BY <1>0, <1>1, <1>10 DEF Evict, Timed, SettledView, Asking, TypeOK
  <1>11. ASSUME NEW r \in WorkerReads, Ask(r) PROVE Goal
    <2>1. UNCHANGED <<latest, sub, timers, itr, body, closedIn, expired>>
      BY <1>11 DEF Ask
    <2>2. sub = "closed"
      BY <1>1, <2>1
    <2>3. view'.val = view.val /\ view'.age = view.age /\ ~view'.ans
      <3>1. Served = FALSE
        BY <2>2 DEF Served
      <3>2. view' = [view EXCEPT !.by = r, !.ans = FALSE, !.left = FetchTime]
        BY <1>11, <3>1 DEF Ask
      <3>3. view \in View
        BY DEF TypeOK
      <3> QED
        BY <3>2, <3>3, Zenon DEF View
    <2> QED
      BY <1>1, <2>1, <2>3 DEF Timed, SettledView
  <1>12. CASE Answered
    <2>1. UNCHANGED <<latest, sub, timers, itr, body, closedIn, expired>>
      BY <1>12 DEF Answered
    <2>2. Asking /\ view'.val = view.ans /\ view'.age = 0 /\ ~Asking'
      BY <1>12 DEF Answered, Asking
    <2>3. ASSUME NEW t \in timers, Timed(t) PROVE Timed(t)'
      BY <2>1, <2>2, <2>3, ViewTyped DEF Timed
    <2>4. SettledView => SettledView'
      BY <2>1, <2>2 DEF SettledView
    <2> QED
      BY <1>1, <2>1, <2>3, <2>4
  <1>13. ASSUME NEW r \in Reads, StoreItr(r) \/ StoreBody(r) PROVE Goal
    <2>1. /\ UNCHANGED <<latest, sub, timers, view, closedIn>>
          /\ ~expired /\ ~(r \in WorkerReads /\ view.age = ViewTTL)
      BY <1>13 DEF StoreItr, StoreBody, readUnchanged, NoteExpired
    <2>2. ASSUME NEW t \in timers, Timed(t) PROVE Timed(t)'
      BY <2>1, <2>2 DEF Timed, Asking
    <2>3. CASE SettledView
      <3>1. sub = "closed"
        BY <1>1, <2>1
      <3>2. ~Told(r)
        BY <2>1, <2>3, <3>1 DEF Told, Served, SettledView, Reads
      <3>3. body'[latest] = body[latest] /\ itr'[latest] = itr[latest]
        BY <1>0, <1>13, <3>2 DEF StoreItr, StoreBody, Stores, TypeOK
      <3>4. SettledView'
        BY <2>1, <2>3, <3>3 DEF SettledView, Asking
      <3> QED
        BY <2>1, <3>1, <3>4
    <2> QED
      BY <1>1, <2>1, <2>2, <2>3
  <1>14. CASE UNCHANGED <<latest, sub, timers, view, itr, body, closedIn, expired>>
    BY <1>1, <1>14 DEF Timed, SettledView, Asking
  <1> QED
    BY <1>2, <1>3, <1>4, <1>5, <1>6, <1>7, <1>8, <1>9, <1>10, <1>11, <1>12, <1>13, <1>14
    DEF Next, Keeper, Edges, Updater, Reading, Post, Want, CloseSub, Listen, PurgeOpen,
        BreakSub, Lookup, Load, readUnchanged, vars, Register, PurgeFails, EventLost

\* PurgeLatest, "sweep again after the workers' view has expired": once the
\* replay has run, the chunk that was the latest at the close is not served
\* from the cache, as long as no read trusts a copy past its TTL, whenever
\* purgeReplayDelay is at least the TTL plus the HTTP timeout.
THEOREM ReplaySuffices == Spec => []ReplaySweeps
  <1>1. Init => SweepInv
    BY InitType DEF Init, SweepInv, PostedByNow, ClosedEdge
  <1>2. SweepInv /\ [Next]_vars => SweepInv'
    BY NextType, NextPosted, NextClosedEdge DEF SweepInv
  <1>3. SweepInv => ReplaySweeps
    BY DEF SweepInv, TypeOK, Chunks, ClosedEdge, ReplaySweeps, Swept, Timed, SettledView
  <1> QED
    BY <1>1, <1>2, <1>3, PTL DEF Spec

------------------------------------------------------------------------------
\* A set of naturals has a least element.
LEMMA LeastInstant ==
  ASSUME NEW T \in SUBSET Nat, T # {}
  PROVE  \E x \in T : \A y \in T : x =< y
  <1>1. PICK x \in T : \A y \in T : ~(<<y, x>> \in OpToRel(<, Nat))
    BY NatLessThanWellFounded, WFMin
  <1>2. \A y \in T : ~(y < x)
    BY <1>1 DEF OpToRel
  <1> QED
    BY <1>2

\* Min is the oldest of a set of instants.
LEMMA MinFacts ==
  ASSUME NEW S \in SUBSET Instants, S # {}
  PROVE  Min(S) \in S /\ \A y \in S : Min(S) =< y
  <1>1. S \in SUBSET Nat
    BY QueryAssumption
  <1>2. \E x \in S : \A y \in S : x =< y
    BY <1>1, LeastInstant
  <1> QED
    BY <1>2 DEF Min

\* How many instants of a set are newer.
LEMMA NewerCount ==
  ASSUME NEW S \in SUBSET Instants, NEW x \in S
  PROVE  /\ IsFiniteSet({u \in S : u > x})
         /\ Cardinality({u \in S : u > x}) \in Nat
         /\ \A y \in S : y > x =>
              Cardinality({u \in S : u > y}) < Cardinality({u \in S : u > x})
  <1>0. IsFiniteSet(S) /\ S \subseteq Nat
    BY QueryAssumption, FS_Subset
  <1> DEFINE N(y) == {u \in S : u > y}
  <1>1. \A y \in S : IsFiniteSet(N(y)) /\ Cardinality(N(y)) \in Nat
    <2> TAKE y \in S
    <2>1. N(y) \in SUBSET S
      OBVIOUS
    <2> QED
      BY <1>0, <2>1, FS_Subset, FS_CardinalityType
  <1>2. ASSUME NEW y \in S, y > x PROVE Cardinality(N(y)) < Cardinality(N(x))
    <2>0. x \in Nat /\ y \in Nat /\ \A u \in S : u \in Nat
      BY <1>0
    <2>1. N(y) \in SUBSET N(x) /\ y \in N(x) /\ y \notin N(y)
      <3>1. \A u \in S : u > y => u > x
        BY <1>2, <2>0
      <3>2. ~(y > y)
        BY <2>0
      <3> QED
        BY <1>2, <3>1, <3>2
    <2>2. N(y) # N(x)
      BY <2>1
    <2> HIDE DEF N
    <2>3. /\ Cardinality(N(y)) =< Cardinality(N(x))
          /\ Cardinality(N(x)) = Cardinality(N(y)) => N(x) = N(y)
      BY <1>1, <2>1, FS_Subset
    <2> QED
      BY <1>1, <2>2, <2>3
  <1> QED
    BY <1>1, <1>2

\* Max is the newest of a set of instants: the one with the fewest newer ones.
LEMMA MaxFacts ==
  ASSUME NEW S \in SUBSET Instants, S # {}
  PROVE  Max(S) \in S /\ \A y \in S : y =< Max(S)
  <1>0. S \subseteq Nat
    BY QueryAssumption
  <1> DEFINE N(y) == Cardinality({u \in S : u > y})
             T == {N(y) : y \in S}
  <1>1. \A y \in S : N(y) \in Nat /\ \A z \in S : z > y => N(z) < N(y)
    BY NewerCount
  <1> HIDE DEF N
  <1>2. T \in SUBSET Nat /\ T # {}
    BY <1>1
  <1>3. PICK n \in T : \A m \in T : n =< m
    BY <1>2, LeastInstant
  <1>4. PICK x \in S : n = N(x)
    BY <1>3
  <1>5. ASSUME NEW z \in S PROVE x >= z
    <2>1. N(x) =< N(z) /\ N(x) \in Nat /\ N(z) \in Nat
      BY <1>1, <1>3, <1>4
    <2>2. ~(z > x)
      BY <1>1, <2>1
    <2>3. x \in Nat /\ z \in Nat
      BY <1>0
    <2> QED
      BY <2>2, <2>3
  <1>6. Max(S) \in S /\ \A y \in S : Max(S) >= y
    BY <1>5 DEF Max
  <1>7. \A y \in S : y \in Nat
    BY <1>0
  <1> QED
    BY <1>6, <1>7

\* An instant lies in its chunk, and chunks are in the order of time.
LEMMA ChunkFacts ==
  /\ \A t \in Nat : /\ Time2Chunk(t) \in Nat /\ Time2Chunk(t) * ChunkSize =< t
                    /\ t < Cutoff(Time2Chunk(t))
  /\ \A c \in Int : c * ChunkSize \in Int /\ Cutoff(c) \in Int
                    /\ Cutoff(c - 1) = c * ChunkSize
                    /\ (c - 1) * ChunkSize < c * ChunkSize /\ c * ChunkSize < Cutoff(c)
  /\ \A c, d \in Int : c < d => Cutoff(c) =< d * ChunkSize
  /\ \A c, d \in Int : c =< d => c * ChunkSize =< d * ChunkSize
  <1>0. ChunkSize \in Nat \ {0}
    BY QueryAssumption
  <1>1. ASSUME NEW t \in Nat
        PROVE  /\ Time2Chunk(t) \in Nat /\ Time2Chunk(t) * ChunkSize =< t
               /\ t < Cutoff(Time2Chunk(t))
    BY <1>0 DEF Time2Chunk, Cutoff
  <1>2. ASSUME NEW c \in Int
        PROVE  /\ c * ChunkSize \in Int /\ Cutoff(c) \in Int
               /\ Cutoff(c - 1) = c * ChunkSize
               /\ (c - 1) * ChunkSize < c * ChunkSize /\ c * ChunkSize < Cutoff(c)
    BY <1>0 DEF Cutoff
  <1>3. ASSUME NEW c \in Int, NEW d \in Int, c < d
        PROVE  Cutoff(c) =< d * ChunkSize
    BY <1>0, <1>3 DEF Cutoff
  <1>4. ASSUME NEW c \in Int, NEW d \in Int, c =< d
        PROVE  c * ChunkSize =< d * ChunkSize
    BY <1>0, <1>4
  <1> QED
    BY <1>1, <1>2, <1>3, <1>4

------------------------------------------------------------------------------
\* A part of what a timeline has before the end of chunk c: the newest of it,
\* with all of c and of the chunk before c.
IsBody(tl, items, c) ==
    /\ items \subseteq Before(tl, Cutoff(c))
    /\ \A u \in items : \A v \in Before(tl, Cutoff(c)) : v > u => v \in items
    /\ \A v \in Before(tl, Cutoff(c)) : v >= (c - 1) * ChunkSize => v \in items

\* What a timeline has before an instant.
LEMMA BeforeTyped ==
  ASSUME NEW tl, NEW t
  PROVE  /\ Before(tl, t) \in SUBSET Instants
         /\ \A u \in Before(tl, t) : u \in Nat /\ u >= ChunkSize /\ u < t
  BY QueryAssumption DEF Before, Items

\* A page of the newest items leaves out nothing newer than what it has.
LEMMA TopClosed ==
  ASSUME NEW S \in SUBSET Instants, NEW n \in Nat
  PROVE  /\ Top(n, S) \subseteq S
         /\ \A u \in Top(n, S) : \A v \in S : v > u => v \in Top(n, S)
  <1>1. ASSUME NEW u \in Top(n, S), NEW v \in S, v > u PROVE v \in Top(n, S)
    <2>1. u \in S /\ Cardinality({x \in S : x > u}) < n
      BY DEF Top
    <2>2. Cardinality({x \in S : x > v}) < Cardinality({x \in S : x > u})
      BY <1>1, <2>1, NewerCount
    <2>3. Cardinality({x \in S : x > v}) \in Nat /\ Cardinality({x \in S : x > u}) \in Nat
      BY <2>1, NewerCount
    <2>4. Cardinality({x \in S : x > v}) < n
      BY <2>1, <2>2, <2>3
    <2> QED
      BY <2>4 DEF Top
  <1> QED
    BY <1>1 DEF Top

\* LoadLocalBody serves such a part.
LEMMA LoadBodyFacts ==
  ASSUME NEW tl, NEW c \in Int
  PROVE  IsBody(tl, LoadBody(tl, c), c)
  <1> DEFINE older == Before(tl, Cutoff(c))
             page == Top(BodyLimit, older)
             from == (c - 1) * ChunkSize
  <1>0. BodyLimit \in Nat /\ from \in Int
    BY QueryAssumption, ChunkFacts
  <1>1. older \in SUBSET Instants /\ \A u \in older : u \in Nat
    BY BeforeTyped
  <1>2. page \subseteq older /\ \A u \in page : \A v \in older : v > u => v \in page
    BY <1>0, <1>1, TopClosed
  <1>3. LoadBody(tl, c) = IF page = {} \/ Min(page) >= from
                          THEN {t \in older : t >= from} ELSE page
    BY DEF LoadBody
  <1> HIDE DEF older, page, from
  <1>4. CASE page = {} \/ Min(page) >= from
    <2>1. LoadBody(tl, c) = {t \in older : t >= from}
      BY <1>3, <1>4
    <2>2. \A u \in older, v \in older : u >= from /\ v > u => v >= from
      BY <1>0, <1>1
    <2> QED
      BY <2>1, <2>2 DEF IsBody, older, from
  <1>5. CASE ~(page = {} \/ Min(page) >= from)
    <2>1. LoadBody(tl, c) = page
      BY <1>3, <1>5
    <2>2. page \in SUBSET Instants /\ page # {}
      BY <1>1, <1>2, <1>5
    <2>3. Min(page) \in page /\ Min(page) \in Nat
      BY <1>1, <1>2, <2>2, MinFacts
    <2>4. Min(page) < from
      BY <1>0, <1>5, <2>3
    <2>5. ASSUME NEW v \in older, v >= from PROVE v \in page
      <3>1. v > Min(page)
        BY <1>0, <1>1, <2>3, <2>4, <2>5
      <3> QED
        BY <1>2, <2>3, <3>1
    <2> QED
      BY <1>2, <2>1, <2>5 DEF IsBody, older, from
  <1> QED
    BY <1>4, <1>5

\* LookupLocalItrs and LoadLocalBody: the chunk at or before c holds the newest
\* item before the end of c, if there is one.
LEMMA GetChunkFacts ==
  ASSUME NEW tl, NEW c \in Nat, NEW g, g = GetChunk(tl, c)
  PROVE  /\ g.id \in Nat /\ g.id =< c /\ g.items \in SUBSET Instants
         /\ IsBody(tl, g.items, g.id)
         /\ g.id = 0 <=> Before(tl, Cutoff(c)) = {}
         /\ g.id # 0 =>
              /\ Before(tl, Cutoff(g.id)) = Before(tl, Cutoff(c))
              /\ g.items # {}
         /\ g.id = 0 => g.items = {}
  <1> DEFINE older == Before(tl, Cutoff(c))
  <1>1. g.id = LookupItr(tl, c) /\ g.items = LoadBody(tl, g.id)
    BY DEF GetChunk
  <1>2. older \in SUBSET Instants
        /\ \A u \in older : u \in Nat /\ u >= ChunkSize /\ u < Cutoff(c)
    BY BeforeTyped
  <1>3. CASE older = {}
    <2>1. g.id = 0
      BY <1>1, <1>3 DEF LookupItr
    <2>2. IsBody(tl, g.items, 0)
      BY <1>1, <2>1, LoadBodyFacts
    <2>3. Before(tl, Cutoff(0)) = {}
      <3>1. \A u \in Before(tl, Cutoff(0)) : u \in Nat /\ u >= ChunkSize /\ u < Cutoff(0)
        BY BeforeTyped
      <3>2. Cutoff(0) = ChunkSize
        BY QueryAssumption DEF Cutoff
      <3>3. ChunkSize \in Nat
        BY QueryAssumption
      <3> QED
        BY <3>1, <3>2, <3>3
    <2>4. g.items = {}
      BY <2>2, <2>3 DEF IsBody
    <2> QED
      BY <1>3, <2>1, <2>2, <2>4
  <1>4. CASE older # {}
    <2> DEFINE m == Max(older)
    <2>1. m \in older /\ \A u \in older : u =< m
      BY <1>2, <1>4, MaxFacts
    <2>2. m \in Nat /\ m >= ChunkSize /\ m < Cutoff(c)
      BY <1>2, <2>1
    <2>3. g.id = Time2Chunk(m)
      BY <1>1, <1>4 DEF LookupItr
    <2> HIDE DEF m
    <2>4. g.id \in Nat /\ g.id * ChunkSize =< m /\ m < Cutoff(g.id)
      BY <2>2, <2>3, ChunkFacts
    <2>5. g.id # 0
      <3>1. Cutoff(0) = ChunkSize /\ ChunkSize \in Nat
        BY QueryAssumption DEF Cutoff
      <3> QED
        BY <2>2, <2>4, <3>1
    <2>6. g.id =< c
      <3>1. SUFFICES ASSUME c < g.id PROVE FALSE
        BY <2>4
      <3> DEFINE d == g.id
      <3>a. c \in Int /\ d \in Int /\ c < d
        BY <2>4, <3>1
      <3> HIDE DEF d
      <3>b. Cutoff(c) =< d * ChunkSize
        BY <3>a, ChunkFacts
      <3>2. Cutoff(c) =< g.id * ChunkSize
        BY <3>b DEF d
      <3>c. Cutoff(c) \in Int /\ d * ChunkSize \in Int
        BY <3>a, ChunkFacts
      <3>3. Cutoff(c) \in Int /\ g.id * ChunkSize \in Int
        BY <3>c DEF d
      <3> QED
        BY <2>2, <2>4, <3>2, <3>3
    <2>7. Before(tl, Cutoff(g.id)) = older
      <3>0. Cutoff(g.id) =< Cutoff(c) /\ Cutoff(c) \in Int /\ Cutoff(g.id) \in Int
        <4>1. g.id + 1 \in Int /\ c + 1 \in Int /\ g.id + 1 =< c + 1
          BY <2>4, <2>6
        <4> QED
          BY <2>4, <4>1, ChunkFacts DEF Cutoff
      <3>1. ASSUME NEW u \in older PROVE u \in Before(tl, Cutoff(g.id))
        <4>1. u \in Nat /\ u =< m
          BY <1>2, <2>1
        <4>2. u < Cutoff(g.id)
          BY <2>2, <2>4, <3>0, <4>1
        <4> QED
          BY <4>2 DEF Before
      <3>2. ASSUME NEW u \in Before(tl, Cutoff(g.id)) PROVE u \in older
        <4>1. u \in Nat /\ u < Cutoff(g.id) /\ u \in Items(tl)
          BY BeforeTyped DEF Before
        <4>2. u < Cutoff(c)
          BY <3>0, <4>1
        <4> QED
          BY <4>1, <4>2 DEF Before
      <3> QED
        BY <3>1, <3>2
    <2>8. IsBody(tl, g.items, g.id)
      BY <1>1, <2>4, LoadBodyFacts
    <2>9. m \in g.items
      <3>1. m >= (g.id - 1) * ChunkSize
        <4>1. (g.id - 1) * ChunkSize \in Int /\ g.id * ChunkSize \in Int
              /\ (g.id - 1) * ChunkSize < g.id * ChunkSize
          <5> DEFINE d == g.id
          <5>1. d \in Int /\ d - 1 \in Int
            BY <2>4
          <5> HIDE DEF d
          <5>2. (d - 1) * ChunkSize \in Int /\ d * ChunkSize \in Int
                /\ (d - 1) * ChunkSize < d * ChunkSize
            BY <5>1, ChunkFacts
          <5> QED
            BY <5>2 DEF d
        <4> QED
          BY <2>2, <2>4, <4>1
      <3> QED
        BY <2>1, <2>7, <2>8, <3>1 DEF IsBody
    <2>10. g.items \in SUBSET Instants
      BY <1>2, <2>7, <2>8 DEF IsBody
    <2> QED
      BY <1>4, <2>4, <2>5, <2>6, <2>7, <2>8, <2>9, <2>10
  <1> QED
    BY <1>3, <1>4

------------------------------------------------------------------------------
\* The types of the query's state.
QueryTyped ==
    /\ store \in [Timelines -> [Instants -> Hrefs \union {NoItem}]]
    /\ until \in Nat /\ limit \in Nat
    /\ chunk \in [Timelines -> [id : Nat, items : SUBSET Instants]]
    /\ queue \in [Timelines -> Nat]
    /\ started \in SUBSET Timelines
    /\ result \in Seq([time : Nat, href : Hrefs])
    /\ Len(result) =< limit

\* Nothing happens before BeginQuery; only timelines that entered have a head.
Entered ==
    /\ started = {} => result = <<>>
    /\ \A tl \in Timelines : queue[tl] # 0 => tl \in started

\* The head of a timeline is in the chunk that is read, and older than until.
InChunk(tl) ==
    /\ IsBody(tl, chunk[tl].items, chunk[tl].id)
    /\ chunk[tl].id * ChunkSize =< until
    /\ queue[tl] # 0 => queue[tl] \in chunk[tl].items /\ queue[tl] < until

\* An item is dealt with: listed, or removed.
Handled(tl, u) == store[tl][u] \in removed[tl] \/ Listed(store[tl][u])

\* Every item newer than its timeline's head, or than a listed item, is.
HeadsPassed ==
    \A tl \in started : \A u \in Before(tl, until) : u > queue[tl] => Handled(tl, u)
ListedPassed ==
    \A i \in 1 .. Len(result) : \A tl \in started : \A u \in Before(tl, until) :
        u > result[i].time => Handled(tl, u)

\* A listed item is one that was wanted, with its newest date.
Dated ==
    \A i \in 1 .. Len(result) : \A h \in Hrefs : result[i].href = h =>
        /\ h \in Expected /\ result[i].time \in Dates(h)
        /\ \A u \in Dates(h) : u =< result[i].time

\* The list is in order, and without repetition.
Descending ==
    \A i, j \in 1 .. Len(result) :
        j < i => result[j].time >= result[i].time /\ result[j].href # result[i].href

\* It has as many hrefs as entries.
ListedHrefs == {result[i].href : i \in 1 .. Len(result)}
Counted == Cardinality(ListedHrefs) = Len(result)

\* What ends a query.
EndsFor ==
    done => \/ Len(result) >= limit \/ pops = MaxPops
            \/ \A tl \in started : queue[tl] = 0

\* The inductive invariant behind QueryExact.
QueryInv ==
    /\ QueryTyped /\ Entered /\ \A tl \in started : InChunk(tl)
    /\ HeadsPassed /\ ListedPassed /\ Dated /\ Descending /\ Counted /\ EndsFor

\* What a timeline has before until, and what is wanted, does not change.
LEMMA SameQuery ==
  ASSUME UNCHANGED query
  PROVE  /\ \A tl, t : Before(tl, t)' = Before(tl, t)
         /\ \A tl : Found(tl)' = Found(tl)
         /\ \A tl, is, c : IsBody(tl, is, c)' <=> IsBody(tl, is, c)
  <1>1. store' = store /\ removed' = removed /\ until' = until
    BY DEF query
  <1>2. \A tl, t : Before(tl, t)' = Before(tl, t)
    BY <1>1 DEF Before, Items
  <1>3. \A tl : Found(tl)' = Found(tl)
    BY <1>1, <1>2 DEF Found
  <1>4. \A tl, is, c : IsBody(tl, is, c)' <=> IsBody(tl, is, c)
    BY <1>2 DEF IsBody
  <1> QED
    BY <1>2, <1>3, <1>4

\* Once the timelines have entered, nor does what a query should find.
LEMMA SameExpected ==
  ASSUME UNCHANGED query, started' = started
  PROVE  Expected' = Expected /\ \A h : Dates(h)' = Dates(h)
  <1>1. store' = store /\ \A tl : Found(tl)' = Found(tl)
    BY SameQuery DEF query
  <1>2. \A h : Dates(h)' = Dates(h)
    BY <1>1 DEF Dates
  <1> QED
    BY <1>2 DEF Expected

\* The newest of a set of instants, or 0.
LEMMA FirstFacts ==
  ASSUME NEW S \in SUBSET Instants
  PROVE  /\ First(S) \in Nat
         /\ First(S) = 0 <=> S = {}
         /\ First(S) # 0 => First(S) \in S /\ \A u \in S : u =< First(S)
  <1>1. CASE S = {}
    BY <1>1 DEF First
  <1>2. CASE S # {}
    <2>1. Max(S) \in S /\ \A y \in S : y =< Max(S)
      BY <1>2, MaxFacts
    <2>2. First(S) = Max(S)
      BY <1>2 DEF First
    <2>3. Max(S) \in Nat /\ Max(S) # 0
      <3>1. Max(S) \in Instants
        BY <2>1
      <3>2. Max(S) \in Nat /\ Max(S) >= ChunkSize
        BY <3>1, QueryAssumption
      <3>3. ChunkSize \in Nat \ {0}
        BY QueryAssumption
      <3> QED
        BY <3>2, <3>3
    <2> QED
      BY <1>2, <2>1, <2>2, <2>3
  <1> QED
    BY <1>1, <1>2

\* The first chunk of a timeline, and its head.
LEMMA BeginHead ==
  ASSUME NEW tl, NEW g, NEW n, until \in Nat,
         g = GetChunk(tl, Time2Chunk(until)),
         n = First({t \in g.items : t < until})
  PROVE  /\ g.id \in Nat /\ g.items \in SUBSET Instants /\ n \in Nat
         /\ IsBody(tl, g.items, g.id) /\ g.id * ChunkSize =< until
         /\ n # 0 => n \in g.items /\ n < until
         /\ n # 0 => \A u \in Before(tl, until) : ~(u > n)
  <1> DEFINE c == Time2Chunk(until)
  <1>1. c \in Nat /\ c * ChunkSize =< until /\ until < Cutoff(c)
    BY ChunkFacts
  <1>2. g = GetChunk(tl, c)
    OBVIOUS
  <1> HIDE DEF c
  <1>3. /\ g.id \in Nat /\ g.id =< c /\ g.items \in SUBSET Instants
        /\ IsBody(tl, g.items, g.id)
        /\ g.id # 0 => Before(tl, Cutoff(g.id)) = Before(tl, Cutoff(c))
        /\ g.id = 0 => g.items = {}
    BY <1>1, <1>2, GetChunkFacts
  <1>4. {t \in g.items : t < until} \in SUBSET Instants
    BY <1>3
  <1>5. /\ n \in Nat
        /\ n # 0 => /\ n \in {t \in g.items : t < until}
                    /\ \A u \in {t \in g.items : t < until} : u =< n
    BY <1>4, FirstFacts
  <1>6. g.id * ChunkSize =< until
    <2> DEFINE d == g.id
    <2>1. d \in Int /\ c \in Int /\ d =< c
      BY <1>1, <1>3
    <2> HIDE DEF d
    <2>2. d * ChunkSize =< c * ChunkSize /\ d * ChunkSize \in Int /\ c * ChunkSize \in Int
      BY <2>1, ChunkFacts
    <2>3. d * ChunkSize =< until
      BY <1>1, <2>2
    <2> QED
      BY <2>3 DEF d
  <1>7. ASSUME n # 0, NEW u \in Before(tl, until), u > n PROVE FALSE
    <2>1. u \in Nat /\ u < until /\ u \in Items(tl)
      BY BeforeTyped DEF Before
    <2>2. u < Cutoff(c) /\ Cutoff(c) \in Int
      BY <1>1, <2>1, ChunkFacts
    <2>3. u \in Before(tl, Cutoff(c))
      BY <2>1, <2>2 DEF Before
    <2>4. n \in g.items /\ g.id # 0
      BY <1>3, <1>5, <1>7
    <2>5. u \in g.items
      BY <1>3, <1>7, <2>3, <2>4 DEF IsBody
    <2>6. u =< n
      BY <1>5, <1>7, <2>1, <2>5
    <2> QED
      BY <1>5, <1>7, <2>1, <2>6
  <1> QED
    BY <1>3, <1>5, <1>6, <1>7

\* BeginQuery establishes the invariant of the loop.
LEMMA BeginStep ==
  ASSUME QueryInv, BeginQuery PROVE QueryInv'
  <1> DEFINE g(tl) == GetChunk(tl, Time2Chunk(until))
             n(tl) == First({t \in g(tl).items : t < until})
  <1>1. /\ started = {} /\ result' = result /\ UNCHANGED query
        /\ chunk' = [tl \in Timelines |-> g(tl)]
        /\ queue' = [tl \in Timelines |-> n(tl)]
        /\ started' = {tl \in Timelines : n(tl) # 0}
        /\ done' => \A tl \in Timelines : n(tl) = 0
    BY DEF BeginQuery
  <1>2. QueryTyped /\ result = <<>>
    BY <1>1 DEF QueryInv, Entered
  <1>3. ASSUME NEW tl \in Timelines
        PROVE  /\ g(tl).id \in Nat /\ g(tl).items \in SUBSET Instants /\ n(tl) \in Nat
               /\ IsBody(tl, g(tl).items, g(tl).id) /\ g(tl).id * ChunkSize =< until
               /\ n(tl) # 0 => n(tl) \in g(tl).items /\ n(tl) < until
               /\ n(tl) # 0 => \A u \in Before(tl, until) : ~(u > n(tl))
    <2>1. until \in Nat
      BY <1>2 DEF QueryTyped
    <2> QED
      BY <2>1, BeginHead
  <1>4. \A tl \in Timelines : g(tl) \in [id : Nat, items : SUBSET Instants]
    BY <1>3 DEF GetChunk
  <1> HIDE DEF g, n
  <1>5. QueryTyped'
    BY <1>1, <1>2, <1>3, <1>4 DEF QueryTyped, query
  <1>6. \A tl \in started' : tl \in Timelines /\ n(tl) # 0
                             /\ chunk'[tl] = g(tl) /\ queue'[tl] = n(tl)
    BY <1>1
  <1>7. until' = until /\ \A tl : Before(tl, until)' = Before(tl, until)
    BY <1>1, SameQuery DEF query
  <1>8. ASSUME NEW tl \in started' PROVE InChunk(tl)'
    <2>1. store' = store /\ until' = until
      BY <1>1 DEF query
    <2>2. chunk'[tl] = g(tl) /\ queue'[tl] = n(tl) /\ tl \in Timelines
      BY <1>6
    <2>3. IsBody(tl, chunk[tl].items, chunk[tl].id)'
      BY <1>3, <2>1, <2>2 DEF IsBody, Before, Items
    <2> QED
      BY <1>3, <2>1, <2>2, <2>3 DEF InChunk
  <1>9. HeadsPassed'
    BY <1>3, <1>6, <1>7 DEF HeadsPassed
  <1>10. Len(result') = 0 /\ result' = <<>>
    BY <1>1, <1>2
  <1>11. ListedPassed' /\ Dated' /\ Descending'
    BY <1>10 DEF ListedPassed, Dated, Descending
  <1>12. Counted'
    <2>1. ListedHrefs' = {}
      BY <1>10 DEF ListedHrefs
    <2> QED
      BY <1>10, <2>1, FS_EmptySet DEF Counted
  <1>13. Entered' /\ EndsFor'
    BY <1>1, <1>6, <1>10 DEF Entered, EndsFor
  <1> QED
    BY <1>5, <1>8, <1>9, <1>11, <1>12, <1>13 DEF QueryInv

\* The chunk and the head that a pop at t leaves.
Moves(tl, t, g, n) ==
    LET rest == {u \in chunk[tl].items : u < t}
        older == GetChunk(tl, Previous(tl, t))
    IN  /\ rest # {} => g = chunk[tl] /\ n = Max(rest)
        /\ rest = {} /\ older.id = 0 => g = chunk[tl] /\ n = 0
        /\ rest = {} /\ older.id # 0 => g = older /\ n = First(older.items)

\* The next head of a timeline whose head is at t: no item lies between them.
LEMMA NextHead ==
  ASSUME QueryInv, NEW tl \in started, NEW t, t = queue[tl], t # 0, NEW g, NEW n,
         Moves(tl, t, g, n)
  PROVE  /\ g \in [id : Nat, items : SUBSET Instants] /\ n \in Nat
         /\ IsBody(tl, g.items, g.id) /\ g.id * ChunkSize =< until
         /\ n # 0 => n \in g.items /\ n < until
         /\ \A u \in Before(tl, until) : u > n => u >= t
  <1> DEFINE b == chunk[tl]
             rest == {u \in b.items : u < t}
             older == GetChunk(tl, Previous(tl, t))
  <1>m. /\ rest # {} => g = b /\ n = Max(rest)
        /\ rest = {} /\ older.id = 0 => g = b /\ n = 0
        /\ rest = {} /\ older.id # 0 => g = older /\ n = First(older.items)
    BY DEF Moves
  <1>r. rest = {u \in b.items : u < t} /\ older = GetChunk(tl, Previous(tl, t))
    OBVIOUS
  <1> HIDE DEF rest, older
  <1>1. /\ tl \in Timelines /\ b \in [id : Nat, items : SUBSET Instants]
        /\ t \in Nat /\ until \in Nat
    BY DEF QueryInv, QueryTyped
  <1>2. /\ IsBody(tl, b.items, b.id) /\ b.id * ChunkSize =< until
        /\ t \in b.items /\ t < until
    BY DEF QueryInv, InChunk
  <1>3. b.id \in Int /\ b.id \in Nat /\ b.items \in SUBSET Instants
    BY <1>1
  <1>4. /\ t < Cutoff(b.id) /\ t >= ChunkSize /\ t \in Items(tl) /\ t \in Before(tl, Cutoff(b.id))
    BY <1>2, BeforeTyped DEF IsBody, Before
  <1>5. /\ Time2Chunk(t) \in Nat /\ Time2Chunk(t) * ChunkSize =< t
        /\ t < Cutoff(Time2Chunk(t)) /\ Cutoff(Time2Chunk(t)) \in Int
    <2>1. /\ Time2Chunk(t) \in Nat /\ Time2Chunk(t) * ChunkSize =< t
          /\ t < Cutoff(Time2Chunk(t))
      BY <1>1, ChunkFacts
    <2>2. Time2Chunk(t) \in Int
      BY <2>1
    <2> QED
      BY <2>1, <2>2, ChunkFacts
  <1>6. CASE rest # {}
    <2>1. g = b /\ n = Max(rest)
      BY <1>m, <1>6
    <2>2. rest \in SUBSET Instants
      BY <1>r, <1>3
    <2>3. n \in rest /\ \A u \in rest : u =< n
      BY <1>6, <2>1, <2>2, MaxFacts
    <2>4. n \in b.items /\ n < t /\ n \in Nat
      BY <1>r, <2>2, <2>3, QueryAssumption
    <2>5. ASSUME NEW u \in Before(tl, until), u > n, ~(u >= t) PROVE FALSE
      <3>1. u \in Nat /\ u \in Items(tl)
        BY BeforeTyped DEF Before
      <3>2. u < t /\ u < Cutoff(b.id)
        <4> DEFINE d == b.id
        <4>1. d \in Int /\ t < Cutoff(d)
          BY <1>3, <1>4
        <4> HIDE DEF d
        <4>2. Cutoff(d) \in Int
          BY <4>1, ChunkFacts
        <4>3. u < t /\ u < Cutoff(d)
          BY <1>1, <2>5, <3>1, <4>1, <4>2
        <4> QED
          BY <4>3 DEF d
      <3>3. u \in Before(tl, Cutoff(b.id))
        BY <3>1, <3>2 DEF Before
      <3>4. u \in b.items
        BY <1>2, <2>4, <2>5, <3>3 DEF IsBody
      <3>5. u =< n
        BY <1>r, <2>3, <3>2, <3>4
      <3> QED
        BY <2>4, <2>5, <3>1, <3>5
    <2>6. n < until
      BY <1>1, <1>2, <2>4
    <2> QED
      BY <1>1, <1>2, <2>1, <2>4, <2>5, <2>6
  <1>7. CASE rest = {}
    <2> DEFINE p == Previous(tl, t)
               ct == Time2Chunk(t)
               d == b.id
    <2>1. \A u \in b.items : ~(u < t)
      BY <1>r, <1>7
    <2>2. d \in Int /\ d \in Nat /\ t < Cutoff(d) /\ Cutoff(d) \in Int
          /\ d * ChunkSize \in Int /\ d * ChunkSize =< until
          /\ (d - 1) * ChunkSize < d * ChunkSize /\ (d - 1) * ChunkSize \in Int
          /\ Cutoff(d - 1) = d * ChunkSize
      <3>1. d \in Int /\ d \in Nat /\ t < Cutoff(d) /\ d * ChunkSize =< until /\ d - 1 \in Int
        BY <1>2, <1>3, <1>4
      <3> HIDE DEF d
      <3> QED
        BY <3>1, ChunkFacts
    <2>3. ct \in Nat /\ ct # 0 /\ ct - 1 \in Nat
      <3>1. ct \in Nat /\ t < Cutoff(ct)
        BY <1>5
      <3>2. Cutoff(0) = ChunkSize /\ ChunkSize \in Nat
        BY QueryAssumption DEF Cutoff
      <3>3. ct # 0
        BY <1>1, <1>4, <3>1, <3>2
      <3> HIDE DEF ct
      <3> QED
        BY <3>1, <3>3
    \* No item lies between the end of the chunk to be asked for and t.
    <2>4. /\ p \in Nat /\ Cutoff(p) =< until /\ Cutoff(p) \in Int
          /\ \A u \in Before(tl, until) : u < t => u \in Before(tl, Cutoff(p))
      <3>1. CASE ct = d
        <4>1. p = ct - 1
          BY <3>1 DEF Previous
        <4>2. p \in Nat
          BY <2>3, <4>1
        <4>3. Cutoff(p) = d * ChunkSize
          BY <2>2, <3>1, <4>1
        <4>4. ASSUME NEW u \in Before(tl, until), u < t
              PROVE  u \in Before(tl, Cutoff(p))
          <5>1. u \in Nat /\ u \in Items(tl)
            BY BeforeTyped DEF Before
          <5>2. u < Cutoff(d)
            BY <1>1, <2>2, <4>4, <5>1
          <5>3. u \in Before(tl, Cutoff(d))
            BY <5>1, <5>2 DEF Before
          <5>4. ~(u >= (d - 1) * ChunkSize)
            BY <1>2, <2>1, <4>4, <5>3 DEF IsBody
          <5>5. u < Cutoff(p)
            BY <2>2, <4>3, <5>1, <5>4
          <5> QED
            BY <5>1, <5>5 DEF Before
        <4> QED
          BY <2>2, <4>2, <4>3, <4>4
      <3>2. CASE ct # d
        <4>1. p = ct
          BY <3>2 DEF Previous
        <4>2. ct * ChunkSize =< t /\ t < Cutoff(ct) /\ Cutoff(ct) \in Int
          BY <1>5
        <4> HIDE DEF ct, d
        <4>3. ct < d
          <5>1. SUFFICES ASSUME d < ct PROVE FALSE
            BY <2>2, <2>3, <3>2
          <5>2. ct \in Int
            BY <2>3
          <5>3. Cutoff(d) =< ct * ChunkSize /\ ct * ChunkSize \in Int
            BY <2>2, <5>1, <5>2, ChunkFacts
          <5> QED
            BY <1>1, <2>2, <4>2, <5>3
        <4>4. Cutoff(ct) =< d * ChunkSize
          <5>1. ct \in Int
            BY <2>3
          <5> QED
            BY <2>2, <4>3, <5>1, ChunkFacts
        <4>5. Cutoff(ct) =< until
          BY <1>1, <2>2, <4>2, <4>4
        <4>6. ASSUME NEW u \in Before(tl, until), u < t
              PROVE  u \in Before(tl, Cutoff(ct))
          <5>1. u \in Nat /\ u \in Items(tl)
            BY BeforeTyped DEF Before
          <5>2. u < Cutoff(ct)
            BY <1>1, <4>2, <4>6, <5>1
          <5> QED
            BY <5>1, <5>2 DEF Before
        <4> QED
          BY <2>3, <4>1, <4>2, <4>5, <4>6
      <3> QED
        BY <3>1, <3>2
    <2> HIDE DEF p, ct
    <2>5. older = GetChunk(tl, p)
      BY <1>r DEF p
    <2>6. /\ older.id \in Nat /\ older.id =< p /\ older.items \in SUBSET Instants
          /\ IsBody(tl, older.items, older.id)
          /\ older.id = 0 <=> Before(tl, Cutoff(p)) = {}
          /\ older.id # 0 =>
               /\ Before(tl, Cutoff(older.id)) = Before(tl, Cutoff(p))
               /\ older.items # {}
      BY <2>4, <2>5, GetChunkFacts
    <2>7. CASE older.id = 0
      <3>1. g = b /\ n = 0
        BY <1>m, <1>7, <2>7
      <3>2. \A u \in Before(tl, until) : ~(u < t)
        BY <2>4, <2>6, <2>7
      <3>3. \A u \in Before(tl, until) : u >= t
        BY <1>1, <3>2, BeforeTyped
      <3> QED
        BY <1>1, <1>2, <3>1, <3>3
    <2>8. CASE older.id # 0
      <3>1. g = older /\ n = First(older.items)
        BY <1>m, <1>7, <2>8
      <3>2. n \in Nat /\ n # 0 /\ n \in older.items /\ \A u \in older.items : u =< n
        BY <2>6, <2>8, <3>1, FirstFacts
      <3>3. n \in Before(tl, Cutoff(p))
        BY <2>6, <2>8, <3>2 DEF IsBody
      <3>4. n < until
        <4>1. n < Cutoff(p)
          BY <3>3 DEF Before
        <4> QED
          BY <1>1, <2>4, <3>2, <4>1
      <3>5. ASSUME NEW u \in Before(tl, until), u > n, ~(u >= t) PROVE FALSE
        <4>1. u \in Nat
          BY BeforeTyped
        <4>2. u < t
          BY <1>1, <3>5, <4>1
        <4>3. u \in Before(tl, Cutoff(older.id))
          BY <2>4, <2>6, <2>8, <4>2
        <4>4. u \in older.items
          BY <2>6, <3>2, <3>5, <4>3 DEF IsBody
        <4> QED
          BY <3>2, <3>5, <4>1, <4>4
      <3>6. older.id * ChunkSize =< until
        <4> DEFINE x == older.id
        <4>1. x \in Int /\ p \in Int /\ x =< p
          BY <2>4, <2>6
        <4> HIDE DEF x
        <4>2. /\ x * ChunkSize =< p * ChunkSize /\ p * ChunkSize < Cutoff(p)
              /\ x * ChunkSize \in Int /\ p * ChunkSize \in Int
          BY <4>1, ChunkFacts
        <4>3. x * ChunkSize =< until
          BY <1>1, <2>4, <4>2
        <4> QED
          BY <4>3 DEF x
      <3>7. older \in [id : Nat, items : SUBSET Instants]
        BY <2>5, <2>6 DEF GetChunk
      <3> QED
        BY <2>6, <3>1, <3>2, <3>4, <3>5, <3>6, <3>7
    <2> QED
      BY <2>7, <2>8
  <1> QED
    BY <1>6, <1>7

\* The types of what is listed.
LEMMA ResultTyped ==
  ASSUME QueryTyped
  PROVE  /\ Len(result) \in Nat
         /\ \A i \in 1 .. Len(result) : result[i].time \in Nat /\ result[i].href \in Hrefs
  <1> DEFINE R == [time : Nat, href : Hrefs]
  <1>1. result \in Seq(R)
    BY DEF QueryTyped
  <1> HIDE DEF R
  <1>2. Len(result) \in Nat /\ \A i \in 1 .. Len(result) : result[i] \in R
    BY <1>1
  <1>3. \A i \in 1 .. Len(result) : result[i] \in [time : Nat, href : Hrefs]
    BY <1>2 DEF R
  <1> QED
    BY <1>2, <1>3

\* An item added to the result, whose href is listed by it alone.
LEMMA ResultGrows ==
  ASSUME QueryTyped, NEW e \in [time : Nat, href : Hrefs], result' = Append(result, e)
  PROVE  /\ result' \in Seq([time : Nat, href : Hrefs])
         /\ Len(result') = Len(result) + 1 /\ Len(result) \in Nat
         /\ \A i \in 1 .. Len(result) : result'[i] = result[i]
         /\ result'[Len(result) + 1] = e
         /\ \A i \in 1 .. Len(result') : i \in 1 .. Len(result) \/ i = Len(result) + 1
  BY DEF QueryTyped

\* An appended item is listed; what was listed still is.
LEMMA ListedGrows ==
  ASSUME QueryTyped, NEW e \in [time : Nat, href : Hrefs], result' = Append(result, e),
         NEW h, h = e.href
  PROVE  /\ \A x : Listed(x) => Listed(x)'
         /\ Listed(h)'
         /\ ListedHrefs' = ListedHrefs \union {h}
  <1>1. /\ Len(result') = Len(result) + 1 /\ Len(result) \in Nat
        /\ \A i \in 1 .. Len(result) : result'[i] = result[i]
        /\ result'[Len(result) + 1] = e
        /\ \A i \in 1 .. Len(result') : i \in 1 .. Len(result) \/ i = Len(result) + 1
    BY ResultGrows
  <1>2. \A i \in 1 .. Len(result) : i \in 1 .. Len(result')
    BY <1>1
  <1>3. Len(result) + 1 \in 1 .. Len(result')
    BY <1>1
  <1>4. \A x : Listed(x) => Listed(x)'
    BY <1>1, <1>2 DEF Listed
  <1>5. Listed(h)'
    BY <1>1, <1>3 DEF Listed
  <1>6. ASSUME NEW x \in ListedHrefs' PROVE x \in ListedHrefs \union {h}
    <2>1. PICK i \in 1 .. Len(result') : x = result'[i].href
      BY <1>6 DEF ListedHrefs
    <2> QED
      BY <1>1, <2>1 DEF ListedHrefs
  <1>7. ASSUME NEW x \in ListedHrefs \union {h} PROVE x \in ListedHrefs'
    BY <1>1, <1>2, <1>3 DEF ListedHrefs
  <1> QED
    BY <1>4, <1>5, <1>6, <1>7

\* A popped item that is kept is the newest of what is not dealt with yet.
LEMMA KeptItem ==
  ASSUME QueryInv, NEW tl \in started, NEW t, t = queue[tl], t # 0,
         \A o \in Timelines : queue[o] <= t, Keeps(tl, t),
         NEW h, h = store[tl][t]
  PROVE  /\ t \in Nat /\ h \in Hrefs /\ h \in Expected /\ t \in Dates(h)
         /\ \A u \in Dates(h) : u =< t
         /\ \A i \in 1 .. Len(result) : result[i].time >= t /\ result[i].href # h
         /\ \A o \in started : \A u \in Before(o, until) : u > t => Handled(o, u)
  <1>1. /\ tl \in Timelines /\ t \in Nat /\ started \subseteq Timelines
        /\ store \in [Timelines -> [Instants -> Hrefs \union {NoItem}]]
        /\ queue \in [Timelines -> Nat]
    BY DEF QueryInv, QueryTyped
  <1>2. t \in Before(tl, until) /\ h \in Hrefs
    <2>1. t \in chunk[tl].items /\ t < until /\ chunk[tl].items \subseteq Before(tl, Cutoff(chunk[tl].id))
      BY DEF QueryInv, InChunk, IsBody
    <2>2. t \in Instants /\ store[tl][t] # NoItem /\ t < until
      BY <2>1 DEF Before, Items
    <2> QED
      BY <1>1, <2>2 DEF Before, Items
  <1>3. t \in Found(tl) /\ ~Listed(h) /\ h \notin removed[tl]
    BY <1>2 DEF Found, Keeps
  <1>4. t \in Dates(h) /\ h \in Expected
    BY <1>2, <1>3 DEF Dates, Expected
  <1>5. ASSUME NEW o \in started, NEW u \in Before(o, until), u > t
        PROVE  Handled(o, u)
    <2>1. u \in Nat /\ queue[o] \in Nat /\ queue[o] =< t
      BY <1>1, BeforeTyped
    <2>2. u > queue[o]
      BY <1>1, <1>5, <2>1
    <2> QED
      BY <2>2 DEF QueryInv, HeadsPassed
  <1>6. ASSUME NEW u \in Dates(h) PROVE u =< t
    <2>1. PICK o \in started : u \in Found(o) /\ store[o][u] = h
      BY <1>6 DEF Dates
    <2>2. u \in Before(o, until) /\ h \notin removed[o]
      BY <2>1 DEF Found
    <2>3. ~(u > t)
      BY <1>3, <1>5, <2>1, <2>2 DEF Handled
    <2>4. u \in Nat
      BY <2>2, BeforeTyped
    <2> QED
      BY <1>1, <2>3, <2>4
  <1>7. ASSUME NEW i \in 1 .. Len(result)
        PROVE  result[i].time >= t /\ result[i].href # h
    <2>1. result[i].href # h
      BY <1>3 DEF Listed
    <2>2. ~(t > result[i].time)
      <3>1. ~Handled(tl, t)
        BY <1>3 DEF Handled
      <3> QED
        BY <1>2, <3>1 DEF QueryInv, ListedPassed
    <2>3. result[i].time \in Nat
      BY ResultTyped DEF QueryInv
    <2> QED
      BY <1>1, <2>1, <2>2, <2>3
  <1> QED
    BY <1>1, <1>2, <1>4, <1>5, <1>6, <1>7

\* The result after a pop.
LEMMA PopResult ==
  ASSUME QueryInv, NEW tl \in Timelines, Pop(tl),
         NEW t, t = queue[tl], NEW h, h = store[tl][t]
  PROVE  /\ result' \in Seq([time : Nat, href : Hrefs]) /\ Len(result') =< limit
         /\ \A x : Listed(x) => Listed(x)'
         /\ h \in removed[tl] \/ Listed(h)'
         /\ ListedPassed' /\ Dated' /\ Descending' /\ Counted'
  <1> DEFINE e == [time |-> t, href |-> h]
  <1>1. /\ Len(result) < limit /\ t # 0 /\ \A o \in Timelines : queue[o] <= t
        /\ result' = IF Keeps(tl, t) THEN Append(result, e) ELSE result
        /\ UNCHANGED query /\ started' = started
    BY DEF Pop
  <1>2. QueryTyped /\ tl \in started
    BY <1>1 DEF QueryInv, Entered
  <1>3. /\ Expected' = Expected /\ \A x : Dates(x)' = Dates(x)
        /\ \A o : Before(o, until)' = Before(o, until)
        /\ store' = store /\ removed' = removed
    BY <1>1, SameExpected, SameQuery DEF query
  <1> HIDE DEF e
  <1>4. CASE Keeps(tl, t)
    <2>1. result' = Append(result, e)
      BY <1>1, <1>4
    <2>2. /\ t \in Nat /\ h \in Hrefs /\ h \in Expected /\ t \in Dates(h)
          /\ \A u \in Dates(h) : u =< t
          /\ \A i \in 1 .. Len(result) : result[i].time >= t /\ result[i].href # h
          /\ \A o \in started : \A u \in Before(o, until) : u > t => Handled(o, u)
      BY <1>1, <1>2, <1>4, KeptItem
    <2>3. e \in [time : Nat, href : Hrefs] /\ e.time = t /\ e.href = h
      BY <2>2 DEF e
    <2>4. /\ result' \in Seq([time : Nat, href : Hrefs])
          /\ Len(result') = Len(result) + 1 /\ Len(result) \in Nat
          /\ \A i \in 1 .. Len(result) : result'[i] = result[i]
          /\ result'[Len(result) + 1] = e
          /\ \A i \in 1 .. Len(result') : i \in 1 .. Len(result) \/ i = Len(result) + 1
      BY <1>2, <2>1, <2>3, ResultGrows
    <2>5. /\ \A x : Listed(x) => Listed(x)'
          /\ Listed(h)' /\ ListedHrefs' = ListedHrefs \union {h}
      BY <1>2, <2>1, <2>3, ListedGrows
    <2>6. \A o, u : Handled(o, u) => Handled(o, u)'
      BY <1>3, <2>5 DEF Handled, Listed
    <2>7. ListedPassed'
      <3>1. ASSUME NEW i \in 1 .. Len(result'), NEW o \in started,
                   NEW u \in Before(o, until), u > result'[i].time
            PROVE  Handled(o, u)
        <4>1. CASE i \in 1 .. Len(result)
          BY <2>4, <3>1, <4>1 DEF QueryInv, ListedPassed
        <4>2. CASE i = Len(result) + 1
          BY <2>2, <2>3, <2>4, <3>1, <4>2
        <4> QED
          BY <2>4, <4>1, <4>2
      <3> QED
        BY <1>1, <1>3, <2>6, <3>1 DEF ListedPassed
    <2>8. Dated'
      <3>1. ASSUME NEW i \in 1 .. Len(result'), NEW x \in Hrefs, result'[i].href = x
            PROVE  /\ x \in Expected /\ result'[i].time \in Dates(x)
                   /\ \A u \in Dates(x) : u =< result'[i].time
        <4>1. CASE i \in 1 .. Len(result)
          <5>1. result'[i] = result[i]
            BY <2>4, <4>1
          <5> QED
            BY <3>1, <4>1, <5>1 DEF QueryInv, Dated
        <4>2. CASE i = Len(result) + 1
          BY <2>2, <2>3, <2>4, <3>1, <4>2
        <4> QED
          BY <2>4, <4>1, <4>2
      <3> QED
        BY <1>3, <3>1 DEF Dated
    <2>9. Descending'
      <3>1. ASSUME NEW i \in 1 .. Len(result'), NEW j \in 1 .. Len(result'), j < i
            PROVE  result'[j].time >= result'[i].time /\ result'[j].href # result'[i].href
        <4>1. j \in 1 .. Len(result)
          BY <2>4, <3>1
        <4>2. CASE i \in 1 .. Len(result)
          BY <2>4, <3>1, <4>1, <4>2 DEF QueryInv, Descending
        <4>3. CASE i = Len(result) + 1
          BY <2>2, <2>3, <2>4, <4>1, <4>3
        <4> QED
          BY <2>4, <4>2, <4>3
      <3> QED
        BY <3>1 DEF Descending
    <2>10. Counted'
      <3>1. ListedHrefs \in SUBSET Hrefs
        BY <1>2, ResultTyped DEF ListedHrefs
      <3>2. IsFiniteSet(ListedHrefs)
        BY <3>1, FS_Subset, QueryAssumption
      <3>3. h \notin ListedHrefs
        BY <2>2 DEF ListedHrefs
      <3>4. Cardinality(ListedHrefs \union {h}) = Cardinality(ListedHrefs) + 1
        BY <3>2, <3>3, FS_AddElement
      <3> QED
        BY <2>4, <2>5, <3>4 DEF QueryInv, Counted
    <2>11. Len(result') =< limit
      BY <1>1, <1>2, <2>4 DEF QueryTyped
    <2> QED
      BY <2>4, <2>5, <2>7, <2>8, <2>9, <2>10, <2>11
  <1>5. CASE ~Keeps(tl, t)
    <2>1. result' = result
      BY <1>1, <1>5
    <2>2. h \in removed[tl] \/ Listed(h)
      BY <1>5 DEF Keeps
    <2>3. \A x : Listed(x)' <=> Listed(x)
      BY <2>1 DEF Listed
    <2>4. ListedPassed'
      BY <1>1, <1>3, <2>1, <2>3 DEF QueryInv, ListedPassed, Handled
    <2>5. Dated'
      BY <1>1, <1>3, <2>1 DEF QueryInv, Dated
    <2>6. Descending' /\ Counted'
      BY <2>1 DEF QueryInv, Descending, Counted, ListedHrefs
    <2> QED
      BY <1>2, <2>1, <2>2, <2>3, <2>4, <2>5, <2>6 DEF QueryTyped
  <1> QED
    BY <1>4, <1>5

\* A pop lists or passes its item, and moves on to the next older one.
LEMMA PopStep ==
  ASSUME QueryInv, NEW tl \in Timelines, Pop(tl) PROVE QueryInv'
  <1>0. PICK t : t = queue[tl]
    OBVIOUS
  <1>h. PICK h : h = store[tl][t]
    OBVIOUS
  <1>1. /\ t # 0 /\ UNCHANGED query /\ started' = started /\ ~done /\ done' = done
    BY <1>0 DEF Pop
  <1>2. QueryTyped /\ tl \in started
    BY <1>0, <1>1 DEF QueryInv, Entered
  <1>3. /\ result' \in Seq([time : Nat, href : Hrefs]) /\ Len(result') =< limit
        /\ \A x : Listed(x) => Listed(x)'
        /\ h \in removed[tl] \/ Listed(h)'
        /\ ListedPassed' /\ Dated' /\ Descending' /\ Counted'
    BY <1>0, <1>h, PopResult
  <1> DEFINE rest == {u \in chunk[tl].items : u < t}
             older == GetChunk(tl, Previous(tl, t))
             g == IF rest # {} \/ older.id = 0 THEN chunk[tl] ELSE older
             n == IF rest # {} THEN Max(rest)
                  ELSE IF older.id = 0 THEN 0 ELSE First(older.items)
  <1>4. /\ queue' = [queue EXCEPT ![tl] = n]
        /\ chunk' = chunk \/ chunk' = [chunk EXCEPT ![tl] = g]
        /\ chunk' = chunk => g = chunk[tl] \/ chunk = [chunk EXCEPT ![tl] = g]
    BY <1>0 DEF Pop
  <1>5. /\ g \in [id : Nat, items : SUBSET Instants] /\ n \in Nat
        /\ IsBody(tl, g.items, g.id) /\ g.id * ChunkSize =< until
        /\ n # 0 => n \in g.items /\ n < until
        /\ \A u \in Before(tl, until) : u > n => u >= t
    <2>1. Moves(tl, t, g, n)
      BY DEF Moves
    <2> HIDE DEF rest, older, g, n
    <2> QED
      BY <1>0, <1>1, <1>2, <2>1, NextHead
  <1> HIDE DEF rest, older, g, n
  <1>6. /\ chunk \in [Timelines -> [id : Nat, items : SUBSET Instants]]
        /\ queue \in [Timelines -> Nat] /\ started \in SUBSET Timelines
        /\ t \in Nat /\ limit' = limit /\ until' = until /\ store' = store
        /\ removed' = removed
    BY <1>0, <1>1, <1>2 DEF QueryTyped, query
  <1>7. /\ chunk' = [chunk EXCEPT ![tl] = g]
        /\ \A o \in Timelines : chunk'[o] = IF o = tl THEN g ELSE chunk[o]
        /\ \A o \in Timelines : queue'[o] = IF o = tl THEN n ELSE queue[o]
    BY <1>4, <1>6
  <1>8. QueryTyped'
    BY <1>1, <1>2, <1>3, <1>4, <1>5, <1>6, <1>7 DEF QueryTyped
  <1>9. Entered'
    BY <1>1, <1>2, <1>6, <1>7 DEF QueryInv, Entered
  <1>10. ASSUME NEW o \in started PROVE InChunk(o)'
    <2>1. CASE o = tl
      <3>1. chunk'[o] = g /\ queue'[o] = n /\ o = tl
        BY <1>6, <1>7, <2>1
      <3>2. IsBody(o, chunk[o].items, chunk[o].id)'
        BY <1>5, <1>6, <3>1 DEF IsBody, Before, Items
      <3> QED
        BY <1>5, <1>6, <3>1, <3>2 DEF InChunk
    <2>2. CASE o # tl
      <3>1. chunk'[o] = chunk[o] /\ queue'[o] = queue[o]
        BY <1>6, <1>7, <2>2
      <3>2. InChunk(o)
        BY DEF QueryInv
      <3>3. IsBody(o, chunk[o].items, chunk[o].id)'
        BY <1>6, <3>1, <3>2 DEF InChunk, IsBody, Before, Items
      <3> QED
        BY <1>6, <3>1, <3>2, <3>3 DEF InChunk
    <2> QED
      BY <2>1, <2>2
  <1>11. \A o, u : Handled(o, u) => Handled(o, u)'
    <2> TAKE o, u
    <2>1. PICK x : x = store[o][u]
      OBVIOUS
    <2> QED
      BY <1>3, <1>6, <2>1 DEF Handled, Listed
  <1>12. Handled(tl, t)'
    BY <1>h, <1>3, <1>6 DEF Handled, Listed
  <1>13. HeadsPassed'
    <2>1. ASSUME NEW o \in started, NEW u \in Before(o, until), u > queue'[o]
          PROVE  Handled(o, u)'
      <3>1. CASE o # tl
        BY <1>6, <1>7, <1>11, <2>1, <3>1 DEF QueryInv, HeadsPassed
      <3>2. CASE o = tl
        <4>1. u >= t /\ u \in Nat
          BY <1>5, <1>6, <1>7, <2>1, <3>2, BeforeTyped
        <4>2. CASE u = t
          BY <1>12, <3>2, <4>2
        <4>3. CASE u > t
          <5>1. Handled(o, u)
            BY <1>0, <3>2, <4>3 DEF QueryInv, HeadsPassed
          <5> QED
            BY <1>11, <5>1
        <4> QED
          BY <1>6, <4>1, <4>2, <4>3
      <3> QED
        BY <3>1, <3>2
    <2>2. \A o : Before(o, until)' = Before(o, until)
      BY <1>1, SameQuery DEF query
    <2> QED
      BY <1>1, <2>1, <2>2 DEF HeadsPassed
  <1>14. EndsFor'
    BY <1>1 DEF EndsFor
  <1> QED
    BY <1>1, <1>3, <1>8, <1>9, <1>10, <1>13, <1>14 DEF QueryInv

\* What does not change the lists keeps all but EndsFor.
LEMMA SameLists ==
  ASSUME QueryInv, UNCHANGED <<query, chunk, queue, started, result>>, EndsFor'
  PROVE  QueryInv'
  <1>1. /\ store' = store /\ removed' = removed /\ until' = until /\ limit' = limit
        /\ UNCHANGED query /\ chunk' = chunk /\ queue' = queue
        /\ started' = started /\ result' = result
    BY DEF query
  <1>2. QueryTyped'
    BY <1>1 DEF QueryInv, QueryTyped
  <1>8. Entered' /\ Descending'
    BY <1>1 DEF QueryInv, Entered, Descending
  <1>9. Counted'
    BY <1>1 DEF QueryInv, Counted, ListedHrefs
  <1>3. \A o \in started' : InChunk(o)'
    BY <1>1 DEF QueryInv, InChunk, IsBody, Before, Items
  <1>4. /\ Expected' = Expected /\ \A h : Dates(h)' = Dates(h)
        /\ \A o : Before(o, until)' = Before(o, until)
    BY <1>1, SameExpected, SameQuery
  <1>5. Dated'
    BY <1>1, <1>4 DEF QueryInv, Dated
  <1>6. \A o, u : Handled(o, u)' <=> Handled(o, u)
    BY <1>1 DEF Handled, Listed
  <1>7. HeadsPassed' /\ ListedPassed'
    BY <1>1, <1>4, <1>6 DEF QueryInv, HeadsPassed, ListedPassed
  <1> QED
    BY <1>2, <1>3, <1>5, <1>7, <1>8, <1>9 DEF QueryInv

\* Every step keeps the invariant.
LEMMA QueryInvNext == QueryInv /\ [QueryNext]_queryVars => QueryInv'
  <1> SUFFICES ASSUME QueryInv, [QueryNext]_queryVars PROVE QueryInv'
    OBVIOUS
  <1>1. CASE BeginQuery
    BY <1>1, BeginStep
  <1>2. CASE End
    <2>1. UNCHANGED <<query, chunk, queue, started, result>> /\ EndsFor'
      BY <1>2 DEF End, EndsFor, QueryInv, QueryTyped, query
    <2> QED
      BY <2>1, SameLists
  <1>3. ASSUME NEW tl \in Timelines, Pop(tl) PROVE QueryInv'
    BY <1>3, PopStep
  <1>4. CASE UNCHANGED queryVars
    <2>1. UNCHANGED <<query, chunk, queue, started, result>> /\ EndsFor'
      BY <1>4 DEF queryVars, query, EndsFor, QueryInv
    <2> QED
      BY <2>1, SameLists
  <1> QED
    BY <1>1, <1>2, <1>3, <1>4 DEF QueryNext

\* It holds of a query that has not begun.
LEMMA QueryInvInit == QueryInit => QueryInv
  <1> SUFFICES ASSUME QueryInit PROVE QueryInv
    OBVIOUS
  <1>1. /\ started = {} /\ result = <<>> /\ done = FALSE /\ Len(result) = 0
        /\ queue = [tl \in Timelines |-> 0]
        /\ until \in Nat /\ limit \in Nat
    BY QueryAssumption DEF QueryInit
  <1>2. chunk \in [Timelines -> [id : Nat, items : SUBSET Instants]]
    BY DEF QueryInit
  <1>3. QueryTyped
    BY <1>1, <1>2 DEF QueryInit, QueryTyped
  <1>4. Counted
    <2>1. ListedHrefs = {}
      BY <1>1 DEF ListedHrefs
    <2> QED
      BY <1>1, <2>1, FS_EmptySet DEF Counted
  <1> QED
    BY <1>1, <1>3, <1>4
    DEF QueryInv, Entered, HeadsPassed, ListedPassed, Dated, Descending, EndsFor

\* The smaller of two numbers.
LEMMA MinOfTwo ==
  ASSUME NEW a \in Nat, NEW b \in Nat, a =< b
  PROVE  Min({a, b}) = a
  BY DEF Min

\* It says enough: nothing wanted is newer than a head, so nothing was skipped.
LEMMA QueryInvExact == QueryInv => QueryExact
  <1> SUFFICES ASSUME QueryInv PROVE QueryExact
    OBVIOUS
  <1>0. QueryTyped /\ Len(result) \in Nat /\ limit \in Nat /\ Len(result) =< limit
        /\ \A i \in 1 .. Len(result) : result[i].time \in Nat /\ result[i].href \in Hrefs
    BY ResultTyped DEF QueryInv, QueryTyped
  <1>1. \A h : Dates(h) \in SUBSET Instants
    BY DEF Dates, Found, Before, Items
  <1>2. ASSUME NEW i \in 1 .. Len(result), NEW h, h = result[i].href
        PROVE  /\ h \in Expected /\ result[i].time = Max(Dates(h))
    <2>1. /\ h \in Expected /\ result[i].time \in Dates(h)
          /\ \A u \in Dates(h) : u =< result[i].time
      BY <1>0, <1>2 DEF QueryInv, Dated
    <2>2. Max(Dates(h)) \in Dates(h) /\ \A y \in Dates(h) : y =< Max(Dates(h))
      BY <1>1, <2>1, MaxFacts
    <2>3. result[i].time \in Nat /\ Max(Dates(h)) \in Nat
          /\ result[i].time =< Max(Dates(h)) /\ Max(Dates(h)) =< result[i].time
      BY <1>0, <1>1, <2>1, <2>2, QueryAssumption
    <2> QED
      BY <2>1, <2>3
  <1>3. ASSUME NEW i \in 1 .. Len(result), NEW j \in 1 .. i - 1
        PROVE  result[j].time >= result[i].time /\ result[j].href # result[i].href
    <2>1. j \in 1 .. Len(result) /\ j < i
      BY <1>0
    <2> QED
      BY <2>1 DEF QueryInv, Descending
  <1>4. ASSUME NEW i \in 1 .. Len(result), NEW h \in Expected
        PROVE  \/ h \in {result[j].href : j \in 1 .. i}
               \/ Max(Dates(h)) =< result[i].time
    <2>1. SUFFICES ASSUME ~(Max(Dates(h)) =< result[i].time)
                   PROVE  h \in {result[j].href : j \in 1 .. i}
      OBVIOUS
    <2>2. Max(Dates(h)) \in Dates(h)
      BY <1>1, MaxFacts DEF Expected
    <2>3. PICK o \in started : Max(Dates(h)) \in Found(o) /\ store[o][Max(Dates(h))] = h
      BY <2>2 DEF Dates
    <2>4. /\ Max(Dates(h)) \in Nat /\ result[i].time \in Nat
          /\ Max(Dates(h)) > result[i].time
      <3>1. Max(Dates(h)) \in Nat
        BY <1>1, <2>2, QueryAssumption
      <3>2. result[i].time \in Nat
        BY <1>0
      <3> QED
        BY <2>1, <3>1, <3>2
    <2>5. Max(Dates(h)) \in Before(o, until) /\ h \notin removed[o]
      BY <2>3 DEF Found
    <2>6. Listed(h)
      BY <2>3, <2>4, <2>5 DEF QueryInv, ListedPassed, Handled
    <2>7. PICK j \in 1 .. Len(result) : result[j].href = h
      BY <2>6 DEF Listed
    <2>8. result[j].time > result[i].time
      BY <1>2, <2>4, <2>7
    <2>9. ~(i < j)
      <3>1. SUFFICES ASSUME i < j PROVE FALSE
        OBVIOUS
      <3>2. result[i].time >= result[j].time
        BY <3>1 DEF QueryInv, Descending
      <3>3. result[i].time \in Nat /\ result[j].time \in Nat
        BY <1>0
      <3> QED
        BY <2>8, <3>2, <3>3
    <2>10. j \in 1 .. i
      BY <1>0, <2>9
    <2> QED
      BY <2>7, <2>10
  <1>5. ASSUME done
        PROVE  \/ Len(result) = Min({limit, Cardinality(Expected)})
               \/ Len(result) < limit /\ pops = MaxPops
    <2>1. IsFiniteSet(Expected) /\ Cardinality(Expected) \in Nat
      BY QueryAssumption, FS_Subset, FS_CardinalityType DEF Expected
    <2>2. ListedHrefs \in SUBSET Expected
      BY <1>2 DEF ListedHrefs
    <2>3. Len(result) =< Cardinality(Expected)
      BY <2>1, <2>2, FS_Subset DEF QueryInv, Counted
    <2>4. CASE Len(result) >= limit
      <3>1. Len(result) = limit /\ limit =< Cardinality(Expected)
        BY <1>0, <2>1, <2>3, <2>4
      <3> QED
        BY <1>0, <2>1, <3>1, MinOfTwo
    <2>5. CASE \A tl \in started : queue[tl] = 0
      <3>1. ASSUME NEW h \in Expected PROVE h \in ListedHrefs
        <4>1. PICK u : u \in Dates(h)
          BY DEF Expected
        <4>2. PICK o \in started : u \in Found(o) /\ store[o][u] = h
          BY <4>1 DEF Dates
        <4>3. u \in Before(o, until) /\ h \notin removed[o]
          BY <4>2 DEF Found
        <4>4. u > queue[o]
          <5>1. u \in Nat /\ u >= ChunkSize /\ queue[o] = 0
            BY <2>5, <4>3, BeforeTyped
          <5>2. ChunkSize \in Nat \ {0}
            BY QueryAssumption
          <5> QED
            BY <5>1, <5>2
        <4>5. Listed(h)
          BY <4>2, <4>3, <4>4 DEF QueryInv, HeadsPassed, Handled
        <4> QED
          BY <4>5 DEF Listed, ListedHrefs
      <3>2. ListedHrefs = Expected
        BY <2>2, <3>1
      <3>3. Len(result) = Cardinality(Expected) /\ Cardinality(Expected) =< limit
        BY <1>0, <3>2 DEF QueryInv, Counted
      <3>4. {limit, Cardinality(Expected)} = {Cardinality(Expected), limit}
        OBVIOUS
      <3> QED
        BY <1>0, <2>1, <3>3, <3>4, MinOfTwo
    <2>6. CASE pops = MaxPops /\ ~(Len(result) >= limit)
      BY <1>0, <2>6
    <2> QED
      BY <1>5, <2>4, <2>5, <2>6 DEF QueryInv, EndsFor
  <1> QED
    BY <1>2, <1>3, <1>4, <1>5 DEF QueryExact

\* QueryDescending, for any timelines, chunk size, body limit and query: the
\* result is exact.
THEOREM AlwaysQueryExact == QuerySpec => []QueryExact
  <1>1. QueryInit => QueryInv
    BY QueryInvInit
  <1>2. QueryInv /\ [QueryNext]_queryVars => QueryInv'
    BY QueryInvNext
  <1>3. QueryInv => QueryExact
    BY QueryInvExact
  <1> QED
    BY <1>1, <1>2, <1>3, PTL DEF QuerySpec
==============================================================================
