--------------------------- MODULE ChunklineQuery ---------------------------
(* QueryDescending: the newest items of several timelines, merged over the   *)
(* chunks their origins serve.  An origin keeps one item per instant here,   *)
(* so a chunk body is the set of its instants.                               *)
EXTENDS Integers, Sequences, FiniteSets, FiniteSetsExt

CONSTANTS
    Timelines,
    Hrefs,
    NoItem,
    Instants,     \* instants at which a timeline may have an item
    ChunkSize,    \* 600 seconds
    BodyLimit,    \* defaultChunkSize of an origin
    Untils,       \* queries
    Limits,
    Removals,     \* lists of removed items an origin may advertise
    MaxPops       \* itrlimit

\* No item is as old as the chunk with the number 0, which stands for none.
ASSUME QueryAssumption ==
    /\ ChunkSize \in Nat \ {0} /\ BodyLimit \in Nat /\ MaxPops \in Nat
    /\ Instants \subseteq Nat /\ IsFiniteSet(Instants)
    /\ \A t \in Instants : t >= ChunkSize
    /\ Untils \subseteq Nat /\ Limits \subseteq Nat
    /\ IsFiniteSet(Hrefs) /\ NoItem \notin Hrefs

VARIABLES
    store,    \* what the origins hold
    removed,  \* GetRemovedItems
    until, limit,
    chunk,    \* the chunk being read of every timeline
    queue,    \* the head of every timeline in the priority queue; 0 for none
    started,  \* timelines that entered the queue
    result, pops, done

query == <<store, removed, until, limit>>
queryVars == <<query, chunk, queue, started, result, pops, done>>

-----------------------------------------------------------------------------
Time2Chunk(t) == t \div ChunkSize
Items(tl) == {t \in Instants : store[tl][t] # NoItem}
Before(tl, t) == {u \in Items(tl) : u < t}

\* The end of a chunk.
Cutoff(c) == (c + 1) * ChunkSize

\* LookupLocalItrs: the chunk of the newest item at or before chunk c.
LookupItr(tl, c) ==
    LET older == Before(tl, Cutoff(c))
    IN  IF older = {} THEN 0 ELSE Time2Chunk(Max(older))

\* The n newest of a set of instants.
Top(n, ts) == {t \in ts : Cardinality({u \in ts : u > t}) < n}

\* LoadLocalBody: the newest items before the end of the chunk; when they do
\* not reach back past the chunk before it, all of the two chunks.
LoadBody(tl, c) ==
    LET older == Before(tl, Cutoff(c))
        page == Top(BodyLimit, older)
    IN  IF page = {} \/ Min(page) >= (c - 1) * ChunkSize
        THEN {t \in older : t >= (c - 1) * ChunkSize}
        ELSE page

\* getChunks for one timeline: the chunk at or before chunk c.
GetChunk(tl, c) == [id |-> LookupItr(tl, c), items |-> LoadBody(tl, LookupItr(tl, c))]

First(ts) == IF ts = {} THEN 0 ELSE Max(ts)

QueryInit ==
    /\ store \in [Timelines -> [Instants -> Hrefs \union {NoItem}]]
    /\ removed \in [Timelines -> Removals]
    /\ until \in Untils /\ limit \in Limits
    /\ chunk = [tl \in Timelines |-> [id |-> 0, items |-> {}]]
    /\ queue = [tl \in Timelines |-> 0]
    /\ started = {} /\ result = <<>> /\ pops = 0 /\ done = FALSE

\* The first chunks; a timeline whose first chunk has no item before until
\* stays out.
BeginQuery ==
    LET head(tl) == First({t \in GetChunk(tl, Time2Chunk(until)).items : t < until})
    IN  /\ started = {} /\ pops = 0 /\ ~done
        /\ chunk' = [tl \in Timelines |-> GetChunk(tl, Time2Chunk(until))]
        /\ queue' = [tl \in Timelines |-> head(tl)]
        /\ started' = {tl \in Timelines : head(tl) # 0}
        /\ done' = \A tl \in Timelines : head(tl) = 0
        /\ UNCHANGED <<query, result, pops>>

\* Mutant: the chunk before the last item's is taken, read or not.
PreviousAlways(tl, t) == Time2Chunk(t) - 1

\* Where to go on when a chunk is read to its end at t.
Previous(tl, t) ==
    IF Time2Chunk(t) = chunk[tl].id THEN Time2Chunk(t) - 1 ELSE Time2Chunk(t)

\* Neither listed already nor removed.
Listed(h) == \E i \in 1 .. Len(result) : result[i].href = h
Keeps(tl, t) == ~Listed(store[tl][t]) /\ store[tl][t] \notin removed[tl]

\* Pop the newest head (any, when several are), and push its successor.
Pop(tl) ==
    LET t == queue[tl]
        rest == {u \in chunk[tl].items : u < t}
        older == GetChunk(tl, Previous(tl, t))
    IN  /\ started # {} /\ ~done /\ Len(result) < limit /\ pops < MaxPops
        /\ t # 0 /\ \A o \in Timelines : queue[o] <= t
        /\ pops' = pops + 1
        /\ result' = IF Keeps(tl, t)
                     THEN Append(result, [time |-> t, href |-> store[tl][t]])
                     ELSE result
        /\ IF rest # {}
           THEN /\ queue' = [queue EXCEPT ![tl] = Max(rest)]
                /\ UNCHANGED chunk
           ELSE /\ queue' = [queue EXCEPT ![tl] = IF older.id = 0 THEN 0
                                                  ELSE First(older.items)]
                /\ chunk' = IF older.id = 0 THEN chunk
                            ELSE [chunk EXCEPT ![tl] = older]
        /\ UNCHANGED <<query, started, done>>

End ==
    /\ started # {} /\ ~done
    /\ Len(result) >= limit \/ pops = MaxPops
       \/ \A tl \in Timelines : queue[tl] = 0
    /\ done' = TRUE
    /\ UNCHANGED <<query, chunk, queue, started, result, pops>>

QueryNext == BeginQuery \/ End \/ \E tl \in Timelines : Pop(tl)

QuerySpec == QueryInit /\ [][QueryNext]_queryVars

-----------------------------------------------------------------------------
\* What a query should find: every href with its newest instant.
Found(tl) == {t \in Before(tl, until) : store[tl][t] \notin removed[tl]}
Dates(h) == UNION {{t \in Found(tl) : store[tl][t] = h} : tl \in started}
Expected == {h \in Hrefs : Dates(h) # {}}

\* QueryDescending against its meaning: of the timelines that entered the
\* queue it lists the newest distinct items before until, newest first, each
\* once, none removed, and none skipped, although the chunks overlap, are cut
\* at BodyLimit and may be read twice.  It lists as many as were asked for,
\* unless there are no more or itrlimit ends it.
QueryExact ==
    /\ done => \/ Len(result) = Min({limit, Cardinality(Expected)})
               \/ Len(result) < limit /\ pops = MaxPops
    /\ \A i \in 1 .. Len(result) :
        /\ result[i].href \in Expected
        /\ result[i].time = Max(Dates(result[i].href))
        /\ \A j \in 1 .. i - 1 : result[j].time >= result[i].time
                                 /\ result[j].href # result[i].href
        /\ \A h \in Expected :
            h \in {result[j].href : j \in 1 .. i}
            \/ Max(Dates(h)) <= result[i].time
=============================================================================
