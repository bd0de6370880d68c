--------------------------- MODULE ChunklineCache ---------------------------
(* The cached chunks of one remote timeline.  Records enter chunks at the    *)
(* origin; any replica may cache an iterator ("the newest non-empty chunk at *)
(* or before c") and a chunk body in the shared memcached.  The leader asks  *)
(* the origin to be sent events, purges the latest chunk right after, and    *)
(* again when the subscription closes; once the origin has registered the    *)
(* request, the leader applies its events to what is cached.                 *)
(* Memcached calls are atomic; memcached and the origin are external.        *)
EXTENDS Integers, FiniteSets

CONSTANTS
    Records,
    LeaderReads,  \* reads running on the leader
    WorkerReads,  \* reads running on a worker
    MaxChunk,     \* bound on the chunks that begin
    NoBody,       \* no cached body
    NoRecord,     \* no event, no read
    ViewTTL,      \* workerDemandCacheTTL
    FetchTime,    \* workerHTTPTimeout
    ReplayDelay,  \* purgeReplayDelay
    MaxChanges,   \* bound on changes of the demand
    MaxFaults     \* bound on crashes, evictions and failed requests

Reads == LeaderReads \union WorkerReads
Chunks == 1 .. MaxChunk

ASSUME ChunklineAssumption ==
    /\ LeaderReads \intersect WorkerReads = {}
    /\ MaxChunk \in Nat \ {0} /\ {MaxFaults, MaxChanges} \subseteq Nat
    /\ {ViewTTL, FetchTime, ReplayDelay} \subseteq Nat \ {0}
    /\ NoRecord \notin Records \union Reads

\* 8, 3 and 2 seconds in the code.
ASSUME ReplayAssumption == ViewTTL + FetchTime =< ReplayDelay

VARIABLES
    latest,   \* Time2Chunk(now)
    posted,   \* the chunk of every record, 0 before it is posted
    wanted,   \* some session of the cluster listens to the timeline
    changes,
    sub,      \* the leader's subscription
    fed,      \* the origin has registered the listen of this connection
    purges,   \* purges to run
    timers,   \* replays of a closing purge
    wire,     \* events on their way to the cache updater
    applying, \* the event whose iterator the updater has repointed
    itr,      \* chunkline_itr: per chunk, 0 when not cached
    body,     \* chunkline_body
    read,     \* LookupChunkItrs and LoadChunkBodies calls
    view,     \* the worker's copy of the leader's aggregate
    faults,
    missed,   \* history: records posted while a fetched body was not stored
    unheard,  \* history: records since the opening purge whose event was not
              \* sent or was lost, and those a failed opening purge left out
    closedIn, \* history: the chunk whose closing purge was the last edge
    expired   \* history: a read trusted a copy of the aggregate past its TTL

demand == <<wanted, changes>>
cache == <<itr, body>>
subscription == <<sub, fed>>
hist == <<missed, unheard, closedIn, expired>>
vars == <<latest, posted, wanted, changes, sub, fed, purges, timers, wire,
          applying, itr, body, read, view, faults, missed, unheard, closedIn,
          expired>>

-----------------------------------------------------------------------------
Recs(c) == {r \in Records : posted[r] = c}

\* What the origin answers for c: d is the newest non-empty chunk up to c.
Newest(d, c) == Recs(d) # {} /\ \A e \in (d + 1) .. c : Recs(e) = {}

\* LeaderSubscriber.CurrentSubscriptions: counts from the moment the
\* connection is installed.
Served == wanted /\ sub # "closed"

Idle == [pc |-> "idle", key |-> 1, chunk |-> 1, got |-> {}]
Read == [pc : {"idle", "gotItr", "load", "gotBody"}, key : Chunks,
         chunk : Chunks, got : SUBSET Records]

\* The copy, its age, the read that asks for a new one, the leader's answer on
\* its way and how long it may still take.
View == [val : BOOLEAN, age : 0 .. ViewTTL, by : WorkerReads \union {NoRecord},
         ans : BOOLEAN, left : 0 .. FetchTime]

\* Some read holds an answer of the origin that it has not stored yet.
Fetched == \E r \in Reads : read[r].pc = "gotBody"

Spend == faults > 0 /\ faults' = faults - 1

Init ==
    /\ latest = 1
    /\ posted = [r \in Records |-> 0]
    /\ wanted = FALSE /\ changes = MaxChanges
    /\ sub = "closed" /\ fed = FALSE
    /\ purges = {} /\ timers = {}
    /\ wire = {} /\ applying = NoRecord
    /\ itr = [c \in Chunks |-> 0]
    /\ body = [c \in Chunks |-> NoBody]
    /\ read = [r \in Reads |-> Idle]
    /\ view = [val |-> FALSE, age |-> ViewTTL, by |-> NoRecord, ans |-> FALSE,
               left |-> 0]
    /\ faults = MaxFaults
    /\ missed = {} /\ unheard = {} /\ closedIn = 0 /\ expired = FALSE

-----------------------------------------------------------------------------
\* The origin accepts a record; it sends an event to whom it has registered.
Post(r) ==
    /\ posted[r] = 0
    /\ posted' = [posted EXCEPT ![r] = latest]
    /\ wire' = IF fed THEN wire \union {r} ELSE wire
    /\ missed' = IF Fetched THEN missed \union {r} ELSE missed
    /\ unheard' = IF sub = "open" /\ ~fed THEN unheard \union {r} ELSE unheard
    /\ UNCHANGED <<latest, demand, subscription, purges, timers, applying,
                   cache, read, view, faults, closedIn, expired>>

NewChunk ==
    /\ latest < MaxChunk
    /\ latest' = latest + 1
    /\ UNCHANGED <<posted, demand, subscription, purges, timers, wire,
                   applying, cache, read, view, faults, hist>>

\* A second passes.  An answer is not older than the HTTP timeout, and timers
\* fire when they are due.
Tick ==
    /\ view.by # NoRecord => view.left > 0
    /\ \A t \in timers : t.left > 0
    /\ timers # {} \/ view.age < ViewTTL \/ view.by # NoRecord
    /\ timers' = {[t EXCEPT !.left = @ - 1] : t \in timers}
    /\ view' = [view EXCEPT !.age = IF @ < ViewTTL THEN @ + 1 ELSE @,
                            !.left = IF view.by # NoRecord THEN @ - 1 ELSE 0]
    /\ UNCHANGED <<latest, posted, demand, subscription, purges, wire,
                   applying, cache, read, faults, hist>>

-----------------------------------------------------------------------------
\* Sessions come and go.
Want(b) ==
    /\ wanted # b /\ changes > 0
    /\ wanted' = b /\ changes' = changes - 1
    /\ UNCHANGED <<latest, posted, subscription, purges, timers, wire,
                   applying, cache, read, view, faults, hist>>

\* resolver.CurrentSubscriptions: the cache lets go of an open subscription
\* when the latest chunk is not cached and, if the one before is, most of the
\* latest chunk has passed, which may be any time here.
LetsGo == body[latest] = NoBody

OpenSub ==
    /\ sub = "closed" /\ wanted
    /\ sub' = "installed" /\ fed' = FALSE
    /\ closedIn' = 0
    /\ UNCHANGED <<latest, posted, demand, purges, timers, wire, applying,
                   cache, read, view, faults, missed, unheard, expired>>

\* The listen request is written; the purge follows without waiting for the
\* origin to acknowledge it.
Listen ==
    /\ sub = "installed"
    /\ sub' = "listening"
    /\ UNCHANGED <<fed, latest, posted, demand, purges, timers, wire, applying,
                   cache, read, view, faults, hist>>

\* The origin handles the request, before or after the purge, or never.
Register ==
    /\ sub \in {"listening", "open"} /\ ~fed
    /\ fed' = TRUE
    /\ UNCHANGED <<latest, posted, demand, sub, purges, timers, wire, applying,
                   cache, read, view, faults, hist>>

\* PurgeLatest of these chunks.
Deleted(cs) ==
    /\ itr' = [c \in Chunks |-> IF c \in cs THEN 0 ELSE itr[c]]
    /\ body' = [c \in Chunks |-> IF c \in cs THEN NoBody ELSE body[c]]

\* Mutant: a subscription that opens trusts what it finds cached.
PurgeOpenNothing ==
    /\ sub = "listening"
    /\ sub' = "open"
    /\ UNCHANGED <<latest, posted, demand, fed, purges, timers, wire, applying,
                   cache, read, view, faults, hist>>

\* PurgeLatest, depth 2, after the listen.
PurgeOpen ==
    /\ sub = "listening"
    /\ sub' = "open"
    /\ Deleted({latest, latest - 1})
    /\ unheard' = {}
    /\ UNCHANGED <<latest, posted, demand, fed, purges, timers, wire, applying,
                   read, view, faults, missed, closedIn, expired>>

\* PurgeLatest cannot resolve the timeline and gives up.
PurgeFails ==
    /\ Spend
    /\ \/ /\ sub = "listening" /\ sub' = "open"
          /\ unheard' = {r \in Records : posted[r] # 0}
          /\ UNCHANGED purges
       \/ /\ "close" \in purges /\ purges' = purges \ {"close"}
          /\ UNCHANGED <<sub, unheard>>
    /\ UNCHANGED <<latest, posted, demand, fed, timers, wire, applying, cache,
                   read, view, missed, closedIn, expired>>

\* Events not yet relayed are lost with the connection.
Hangup == wire' \in SUBSET wire

\* The keeper closes what neither a session nor the cache wants.
CloseSub ==
    /\ sub # "closed" /\ ~wanted /\ LetsGo
    /\ sub' = "closed" /\ fed' = FALSE
    /\ purges' = purges \union {"close"}
    /\ Hangup
    /\ unheard' = {}
    /\ UNCHANGED <<latest, posted, demand, timers, applying, cache, read, view,
                   faults, missed, closedIn, expired>>

\* The connection breaks or the term ends.
BreakSub ==
    /\ sub # "closed"
    /\ Spend
    /\ sub' = "closed" /\ fed' = FALSE
    /\ purges' = purges \union {"close"}
    /\ Hangup
    /\ unheard' = {}
    /\ UNCHANGED <<latest, posted, demand, timers, applying, cache, read, view,
                   missed, closedIn, expired>>

\* Mutant: a closing purge is not replayed.
PurgeCloseOnce ==
    /\ "close" \in purges
    /\ purges' = purges \ {"close"}
    /\ Deleted({latest})
    /\ closedIn' = IF sub = "closed" THEN latest ELSE 0
    /\ UNCHANGED <<latest, posted, demand, subscription, timers, wire,
                   applying, read, view, faults, missed, unheard, expired>>

\* PurgeLatest, depth 1, and the timer that runs it again for the same keys.
PurgeClose ==
    /\ "close" \in purges
    /\ purges' = purges \ {"close"}
    /\ Deleted({latest})
    /\ timers' = timers \union {[chunk |-> latest, left |-> ReplayDelay]}
    /\ closedIn' = IF sub = "closed" THEN latest ELSE 0
    /\ UNCHANGED <<latest, posted, demand, subscription, wire, applying, read,
                   view, faults, missed, unheard, expired>>

Replay(t) ==
    /\ t \in timers /\ t.left = 0
    /\ timers' = timers \ {t}
    /\ Deleted({t.chunk})
    /\ UNCHANGED <<latest, posted, demand, subscription, purges, wire,
                   applying, read, view, faults, hist>>

\* The leader dies: no purge, no replay; another one leads.
Crash ==
    /\ sub # "closed" \/ timers # {} \/ purges # {}
    /\ Spend
    /\ sub' = "closed" /\ fed' = FALSE /\ purges' = {} /\ timers' = {}
    /\ applying' = NoRecord
    /\ Hangup
    /\ closedIn' = 0
    /\ read' = [r \in Reads |-> IF r \in LeaderReads THEN Idle ELSE read[r]]
    /\ unheard' = {}
    /\ UNCHANGED <<latest, posted, demand, cache, view, missed, expired>>

-----------------------------------------------------------------------------
\* applyEventToCache, first half: Replace the iterator, if one is cached.
Repoint(r) ==
    LET c == posted[r]
    IN  /\ applying = NoRecord /\ r \in wire
        /\ wire' = wire \ {r}
        /\ applying' = r
        /\ itr' = IF itr[c] # 0 THEN [itr EXCEPT ![c] = c] ELSE itr
        /\ UNCHANGED <<latest, posted, demand, subscription, purges, timers,
                       body, read, view, faults, hist>>

\* Second half: Prepend the record to the body, if one is cached.
Prepend ==
    LET c == posted[applying]
    IN  /\ applying # NoRecord
        /\ applying' = NoRecord
        /\ body' = IF body[c] # NoBody
                   THEN [body EXCEPT ![c] = @ \union {applying}] ELSE body
        /\ UNCHANGED <<latest, posted, demand, subscription, purges, timers,
                       wire, itr, read, view, faults, hist>>

\* The relayer fails to publish an event, the updater to resolve its timeline,
\* or the Prepend fails: it is logged, and the subscription stays open.
EventLost ==
    LET Missing(r) == IF sub = "open" THEN unheard \union {r} ELSE {}
    IN  /\ Spend
        /\ \/ \E r \in wire : /\ wire' = wire \ {r} /\ unheard' = Missing(r)
                              /\ UNCHANGED applying
           \/ /\ applying # NoRecord /\ applying' = NoRecord
              /\ unheard' = Missing(applying)
              /\ UNCHANGED wire
        /\ UNCHANGED <<latest, posted, demand, subscription, purges, timers,
                       cache, read, view, missed, closedIn, expired>>

\* An entry expires or is evicted.
Evict(c) ==
    /\ Spend
    /\ \/ itr[c] # 0 /\ itr' = [itr EXCEPT ![c] = 0] /\ UNCHANGED body
       \/ body[c] # NoBody /\ body' = [body EXCEPT ![c] = NoBody]
          /\ UNCHANGED itr
    /\ UNCHANGED <<latest, posted, demand, subscription, purges, timers, wire,
                   applying, read, view, hist>>

-----------------------------------------------------------------------------
\* WorkerSubscriber.CurrentSubscriptions: the copy is used while it is young;
\* when it is old, one caller asks the leader, and until it has the answer the
\* others go on with the old copy.
Asking == view.by # NoRecord
Fresh == view.age < ViewTTL

\* Is the timeline maintained?  Asked after the fetch and just before storing.
CanTell(r) == r \in WorkerReads => Fresh \/ (Asking /\ view.by # r)
Told(r) == IF r \in LeaderReads THEN Served ELSE view.val

\* The leader answers; a failure counts as "nothing".
Ask(r) ==
    /\ read[r].pc \in {"gotItr", "gotBody"}
    /\ ~Fresh /\ ~Asking
    /\ \/ view' = [view EXCEPT !.by = r, !.ans = Served, !.left = FetchTime]
          /\ UNCHANGED faults
       \/ view' = [view EXCEPT !.by = r, !.ans = FALSE, !.left = FetchTime]
          /\ Spend
    /\ UNCHANGED <<latest, posted, demand, subscription, purges, timers, wire,
                   applying, cache, read, hist>>

\* The answer arrives and is good for ViewTTL from now on.
Answered ==
    /\ Asking
    /\ view' = [val |-> view.ans, age |-> 0, by |-> NoRecord, ans |-> FALSE,
                left |-> 0]
    /\ UNCHANGED <<latest, posted, demand, subscription, purges, timers, wire,
                   applying, cache, read, faults, hist>>

readUnchanged == <<latest, posted, demand, subscription, purges, timers, wire,
                   applying, view, faults, missed, unheard, closedIn>>

NoteExpired(r) ==
    expired' = (expired \/ (r \in WorkerReads /\ view.age = ViewTTL))

\* Mutant: the "0" of an empty timeline is taken for an iterator.
LookupZero(r) ==
    /\ read[r].pc = "idle"
    /\ \E d \in 0 .. latest :
         /\ d # 0 => Recs(d) # {}
         /\ \A e \in (d + 1) .. latest : Recs(e) = {}
         /\ read' = [read EXCEPT ![r] = [Idle EXCEPT !.pc = "gotItr",
                                                     !.key = latest,
                                                     !.chunk = d]]
    /\ UNCHANGED cache
    /\ UNCHANGED readUnchanged /\ UNCHANGED expired

\* LookupChunkItrs: use the cached iterator of the latest chunk, or ask the
\* origin; an origin without any record has none, and its "0" is dropped.
Lookup(r) ==
    /\ read[r].pc = "idle"
    /\ \/ /\ itr[latest] # 0
          /\ read' = [read EXCEPT ![r] = [Idle EXCEPT !.pc = "load",
                                                      !.chunk = itr[latest]]]
       \/ /\ itr[latest] = 0
          /\ \E d \in 1 .. latest :
               /\ Newest(d, latest)
               /\ read' = [read EXCEPT ![r] = [Idle EXCEPT !.pc = "gotItr",
                                                           !.key = latest,
                                                           !.chunk = d]]
    /\ UNCHANGED cache
    /\ UNCHANGED readUnchanged /\ UNCHANGED expired

\* The iterator of the latest chunk is cached only when it is maintained.
StoreItr(r) ==
    /\ read[r].pc = "gotItr" /\ CanTell(r)
    /\ itr' = IF read[r].key = latest => Told(r)
              THEN [itr EXCEPT ![read[r].key] = read[r].chunk] ELSE itr
    /\ read' = [read EXCEPT ![r].pc = "load", ![r].key = 1]
    /\ NoteExpired(r)
    /\ UNCHANGED body
    /\ UNCHANGED readUnchanged

\* LoadChunkBodies: a cached body is served as it is; otherwise fetch.
Load(r) ==
    /\ read[r].pc = "load"
    /\ read' = [read EXCEPT ![r] =
                  IF body[read[r].chunk] # NoBody THEN Idle
                  ELSE [@ EXCEPT !.pc = "gotBody",
                                 !.got = Recs(read[r].chunk)]]
    /\ UNCHANGED cache
    /\ UNCHANGED readUnchanged /\ UNCHANGED expired

\* memcached Add: what is there stays.
Added(b, got) == IF b = NoBody THEN got ELSE b

\* A latest chunk is stored only when it is maintained.
Stores(r) == read[r].chunk = latest => Told(r)

\* Add a latest chunk, Set an older one; a latest chunk that was stored gets
\* its iterator too.
StoreBody(r) ==
    LET c == read[r].chunk
    IN  /\ read[r].pc = "gotBody" /\ CanTell(r)
        /\ read' = [read EXCEPT ![r] = Idle]
        /\ body' = IF ~Stores(r) THEN body
                   ELSE [body EXCEPT ![c] = IF c = latest
                                            THEN Added(@, read[r].got)
                                            ELSE read[r].got]
        /\ itr' = IF Stores(r) /\ c = latest THEN [itr EXCEPT ![c] = c] ELSE itr
        /\ NoteExpired(r)
        /\ UNCHANGED readUnchanged

-----------------------------------------------------------------------------
Keeper == OpenSub \/ CloseSub
Edges ==
    \/ Listen \/ Register \/ PurgeOpen \/ PurgeClose
    \/ \E t \in timers : Replay(t)
Updater == Prepend \/ \E r \in Records : Repoint(r)
Reading(r) == Lookup(r) \/ StoreItr(r) \/ Load(r) \/ StoreBody(r)

Next ==
    \/ \E r \in Records : Post(r)
    \/ NewChunk \/ Tick
    \/ \E b \in BOOLEAN : Want(b)
    \/ Keeper \/ Edges \/ BreakSub \/ Crash \/ PurgeFails
    \/ Updater \/ EventLost
    \/ \E c \in Chunks : Evict(c)
    \/ \E r \in WorkerReads : Ask(r)
    \/ Answered
    \/ \E r \in Reads : Reading(r)

Spec == Init /\ [][Next]_vars

-----------------------------------------------------------------------------
\* Every variable has its type.
TypeOK ==
    /\ latest \in Chunks
    /\ posted \in [Records -> 0 .. MaxChunk]
    /\ wanted \in BOOLEAN /\ changes \in 0 .. MaxChanges
    /\ sub \in {"closed", "installed", "listening", "open"}
    /\ fed \in BOOLEAN /\ purges \subseteq {"close"}
    /\ timers \subseteq [chunk : Chunks, left : 0 .. ReplayDelay]
    /\ wire \subseteq Records /\ applying \in Records \union {NoRecord}
    /\ itr \in [Chunks -> 0 .. MaxChunk]
    /\ body \in [Chunks -> (SUBSET Records) \union {NoBody}]
    /\ read \in [Reads -> Read]
    /\ view \in View
    /\ faults \in 0 .. MaxFaults
    /\ missed \subseteq Records /\ unheard \subseteq Records
    /\ closedIn \in 0 .. MaxChunk
    /\ expired \in BOOLEAN

Quiet == wire = {} /\ applying = NoRecord

\* PurgeLatest and applyEventToCache: while the subscription is open and no
\* event is on its way, what readers are served of the latest chunk lacks no
\* record, but for those posted between a read's fetch and its store, those
\* posted after the purge and before the origin registered the listen, and
\* those whose event, or the purge itself, failed.
LatestComplete ==
    sub = "open" /\ Quiet /\ body[latest] # NoBody =>
        Recs(latest) \ (missed \union unheard) \subseteq body[latest]

Swept ==
    closedIn = latest /\ (\A t \in timers : t.chunk # latest) =>
        body[latest] = NoBody /\ itr[latest] = 0

\* PurgeLatest, "sweep again after the workers' view has expired": once the
\* replay has run, the chunk that was the latest when the subscription closed
\* is not served from the cache as long as nobody maintains it, provided that
\* no read was told a copy of the aggregate that was past its TTL.
ReplaySweeps == ~expired => Swept

\* LeaderSubscriber.CurrentSubscriptions: "the depth-2 purge fired after the
\* listen wipes anything cached during that gap, so the early report is safe":
\* with the subscription open and no event on its way, a cached latest chunk
\* lacks no record of which the origin had to send no event or sent one that
\* arrived.
CachedLatestComplete ==
    sub = "open" /\ Quiet /\ body[latest] # NoBody =>
        Recs(latest) \ unheard \subseteq body[latest]
=============================================================================
