--------------------------- MODULE OperationProofs ---------------------------
(* How long a replica can go on leading without its lease, for every number  *)
(* of replicas and every timer.  And what an import restores, for any commit *)
(* log and any number of runs.                                               *)
EXTENDS Elector, CommitLogTransfer, TLAPS

\* The stamps of a replica lie in the past, and no timer has run out by more
\* than the step that Tick waits for.
Timely(r) ==
    /\ renewed[r] =< now /\ poll[r].tick =< now
    /\ r \in leads => now =< renewed[r] + RenewDeadline
    /\ poll[r].pc = "wait" => now =< poll[r].tick + PollInterval
    /\ poll[r].pc = "fetch" => now =< poll[r].tick + FetchTimeout

\* How far what a replica believes can lag behind its lease.
Lag(r) ==
    /\ poll[r].ans = "leader" =>
         poll[r].tick =< renewed[r] + RenewDeadline
    /\ view[r] # NoView /\ view[r].ans = "leader" =>
         view[r].at =< renewed[r] + RenewDeadline + FetchTimeout

\* The workers run on the strength of a status that was fresh when the last
\* iteration of the loop ended.
Backed(r) ==
    r \in active =>
        /\ view[r] # NoView /\ view[r].ans = "leader"
        /\ poll[r].pc = "wait" => poll[r].tick =< view[r].at + FailureGrace
        /\ poll[r].pc = "fetch" =>
             poll[r].tick =< view[r].at + FailureGrace + PollInterval

TimingInv ==
    /\ TypeOK
    /\ \A r \in Replicas : Timely(r) /\ Lag(r) /\ Backed(r)

-----------------------------------------------------------------------------
\* Every reachable state is well-typed.
THEOREM TypeCorrect == ElectorSpec => []TypeOK
<1>1. ElectorInit => TypeOK
  BY TimerAssumption DEF ElectorInit, TypeOK, Time, Poll, Fetching
<1>2. TypeOK /\ [ElectorNext]_electorVars => TypeOK'
  <2> SUFFICES ASSUME TypeOK, [ElectorNext]_electorVars
               PROVE  TypeOK'
    OBVIOUS
  <2> USE TimerAssumption DEF TypeOK, Time, lease, sidecar, replica
  <2>1. CASE Tick
    BY <2>1 DEF Tick
  <2>2. ASSUME NEW r \in Replicas, Acquire(r) PROVE TypeOK'
    BY <2>2 DEF Acquire
  <2>3. ASSUME NEW r \in Replicas, Renew(r) PROVE TypeOK'
    BY <2>3 DEF Renew
  <2>4. ASSUME NEW r \in Replicas, GiveUp(r) PROVE TypeOK'
    BY <2>4 DEF GiveUp, Release
  <2>5. ASSUME NEW r \in Replicas, SidecarStops(r) PROVE TypeOK'
    BY <2>5 DEF SidecarStops, Release
  <2>6. ASSUME NEW r \in Replicas, SidecarStarts(r) PROVE TypeOK'
    BY <2>6 DEF SidecarStarts
  <2>7. ASSUME NEW r \in Replicas, PollTick(r) PROVE TypeOK'
    BY <2>7 DEF PollTick, Fetching, Poll
  <2>8. ASSUME NEW r \in Replicas, Status(r) PROVE TypeOK'
    BY <2>8 DEF Status, Poll
  <2>9. ASSUME NEW r \in Replicas, Fetched(r) PROVE TypeOK'
    BY <2>9 DEF Fetched, Poll, View, Decide
  <2>10. ASSUME NEW r \in Replicas, FetchFails(r) PROVE TypeOK'
    BY <2>10 DEF FetchFails, Poll, Decide
  <2>11. ASSUME NEW r \in Replicas, Restart(r) PROVE TypeOK'
    BY <2>11 DEF Restart, Fetching, Poll
  <2>12. CASE UNCHANGED electorVars
    BY <2>12 DEF electorVars
  <2>13. QED
    BY <2>1, <2>2, <2>3, <2>4, <2>5, <2>6, <2>7, <2>8, <2>9, <2>10, <2>11,
       <2>12 DEF ElectorNext
<1>3. QED
  BY <1>1, <1>2, PTL DEF ElectorSpec

-----------------------------------------------------------------------------
\* No step lets a belief outlive its lease for longer than the timers allow.
LEMMA TimingStep == TimingInv /\ TypeOK' /\ [ElectorNext]_electorVars => TimingInv'
<1> SUFFICES ASSUME TimingInv, TypeOK', [ElectorNext]_electorVars,
                    NEW q \in Replicas
             PROVE  (Timely(q) /\ Lag(q) /\ Backed(q))'
  BY DEF TimingInv
<1>0. TypeOK /\ Timely(q) /\ Lag(q) /\ Backed(q)
  BY DEF TimingInv
<1> USE <1>0, TimerAssumption, PollAssumption
    DEF TypeOK, Time, Timely, Lag, Backed, lease, sidecar, replica
<1>1. CASE Tick
  BY <1>1 DEF Tick, Due, Poll, View
<1>2. ASSUME NEW r \in Replicas, Acquire(r)
      PROVE  (Timely(q) /\ Lag(q) /\ Backed(q))'
  BY <1>2 DEF Acquire, Poll, View
<1>3. ASSUME NEW r \in Replicas, Renew(r)
      PROVE  (Timely(q) /\ Lag(q) /\ Backed(q))'
  BY <1>3 DEF Renew, Poll, View
<1>4. ASSUME NEW r \in Replicas, GiveUp(r)
      PROVE  (Timely(q) /\ Lag(q) /\ Backed(q))'
  BY <1>4 DEF GiveUp
<1>5. ASSUME NEW r \in Replicas, SidecarStops(r)
      PROVE  (Timely(q) /\ Lag(q) /\ Backed(q))'
  BY <1>5 DEF SidecarStops
<1>6. ASSUME NEW r \in Replicas, SidecarStarts(r)
      PROVE  (Timely(q) /\ Lag(q) /\ Backed(q))'
  BY <1>6 DEF SidecarStarts
<1>7. ASSUME NEW r \in Replicas, PollTick(r)
      PROVE  (Timely(q) /\ Lag(q) /\ Backed(q))'
  BY <1>7 DEF PollTick, Fetching, Poll, View
<1>8. ASSUME NEW r \in Replicas, Status(r)
      PROVE  (Timely(q) /\ Lag(q) /\ Backed(q))'
  BY <1>8 DEF Status, Poll, View
<1>9. ASSUME NEW r \in Replicas, Fetched(r)
      PROVE  (Timely(q) /\ Lag(q) /\ Backed(q))'
  BY <1>9, ViewAssumption DEF Fetched, Decide, IsLeader, Fresh, Poll, View
<1>10. ASSUME NEW r \in Replicas, FetchFails(r)
       PROVE  (Timely(q) /\ Lag(q) /\ Backed(q))'
  BY <1>10 DEF FetchFails, Decide, IsLeader, Fresh, Poll, View
<1>11. ASSUME NEW r \in Replicas, Restart(r)
       PROVE  (Timely(q) /\ Lag(q) /\ Backed(q))'
  BY <1>11 DEF Restart, Fetching, Poll, View
<1>12. CASE UNCHANGED electorVars
  BY <1>12 DEF electorVars
<1>13. QED
  BY <1>1, <1>2, <1>3, <1>4, <1>5, <1>6, <1>7, <1>8, <1>9, <1>10, <1>11,
     <1>12 DEF ElectorNext

\* Every reachable state satisfies the timing invariant.
LEMMA TimingInvariant == ElectorSpec => []TimingInv
<1>1. ElectorInit => TimingInv
  BY TimerAssumption
  DEF ElectorInit, TimingInv, TypeOK, Time, Poll, Fetching, Timely, Lag, Backed
<1>2. QED
  BY <1>1, TypeCorrect, TimingStep, PTL DEF ElectorSpec

\* What the timing facts say of a replica whose workers run.
LEMMA ActiveIsRecent == TimingInv => LeadershipBounded
<1> SUFFICES ASSUME TimingInv, NEW r \in active
             PROVE  now =< renewed[r] + StaleLimit
  BY DEF LeadershipBounded
<1>1. r \in Replicas /\ Timely(r) /\ Lag(r) /\ Backed(r)
  BY DEF TimingInv, TypeOK
<1>2. /\ now \in Int /\ renewed[r] \in Int
      /\ poll[r].tick \in Int /\ poll[r].pc \in {"wait", "fetch"}
      /\ view[r].at \in Int
  BY <1>1 DEF TimingInv, TypeOK, Time, Poll, View, Backed
<1>3. view[r].at =< renewed[r] + RenewDeadline + FetchTimeout
  BY <1>1 DEF Lag, Backed
<1>4. now =< view[r].at + FailureGrace + PollInterval + FetchTimeout
  BY <1>1, <1>2, TimerAssumption DEF Timely, Backed
<1>5. QED
  BY <1>2, <1>3, <1>4, TimerAssumption DEF StaleLimit

\* HTTPElector.Run: the singleton workers of a replica are stopped at most
\* StaleLimit after its sidecar last renewed the lease, whether the sidecar
\* crashes, is stopped, is cut off from the API server or from the replica.
THEOREM StaleLeadersStop == ElectorSpec => []LeadershipBounded
BY TimingInvariant, ActiveIsRecent, PTL

------------------------------------------------------------------------------
\* The states of a server.
Servers ==
    [log : SUBSET Ids, gc : SUBSET Ids, rec : [Keys -> Ids \union {0}],
     ent : [Owners -> Ids \union {0}], meta : SUBSET Owners]

\* The types of the commands' state.
TransferTyped ==
    /\ source \in Servers /\ dest \in Servers
    /\ dump \in [stage : {"idle", "paging", "done"}, cursor : Nat,
                 metas : SUBSET Owners, file : SUBSET Ids]
    /\ excluded \in SUBSET Owners
    /\ import \in [stage : {"idle", "entity", "other", "stopped", "done"},
                   pos : Nat, failed : SUBSET Ids, runs : Nat]
    /\ moved \in BOOLEAN /\ misdated \in BOOLEAN
    /\ collected \in SUBSET Ids /\ refused \in SUBSET Ids
    /\ lastDelete \in [Keys -> Ids \union {0}]

\* Documents are what the assumption says.
LEMMA DocFacts ==
    ASSUME NEW d \in Ids
    PROVE  /\ d \in Nat \ {0} /\ Doc[d].key \in Keys /\ Doc[d].author \in Owners
           /\ Doc[d].kind \in {"entity", "record", "delete"}
  BY TransferAssumption

\* An id, or none, is a number.
LEMMA IdPositive == \A x \in Ids : x \in Nat /\ x > 0
  BY TransferAssumption

\* So is an id, or 0 for none.
LEMMA IdNumber == \A x \in Ids \union {0} : x \in Nat
  BY TransferAssumption

\* What a commit that is neither rejected nor known does to the server.
LEMMA CommitUnchanged ==
    ASSUME NEW s, NEW d, Rejects(s, d) \/ Known(s, d)
    PROVE  Committed(s, d) = s
  BY DEF Committed

\* An accepted entity document becomes the owner's, unless a newer one is there.
LEMMA CommitEntityFacts ==
    ASSUME NEW s \in Servers, NEW d \in Ids, Doc[d].kind = "entity",
           ~Rejects(s, d), ~Known(s, d)
    PROVE  LET t == Committed(s, d)
               o == Doc[d].author
           IN  /\ t \in Servers
               /\ t.rec = s.rec /\ t.gc = s.gc /\ t.meta = s.meta
               /\ \/ t.log = s.log /\ t.ent = s.ent /\ s.ent[o] # 0
                  \/ /\ t.log = s.log \union {d}
                     /\ t.ent = [s.ent EXCEPT ![o] = d]
  <1>1. d \in Nat \ {0} /\ Doc[d].author \in Owners /\ Ids \subseteq Nat
    BY DocFacts, TransferAssumption
  <1>2. s.ent[Doc[d].author] \in Ids \union {0}
    BY <1>1 DEF Servers
  <1>3. CASE d > s.ent[Doc[d].author]
    <2>1. Committed(s, d) = [s EXCEPT !.ent[Doc[d].author] = d,
                                      !.log = @ \union {d}]
      BY <1>3 DEF Committed
    <2> DEFINE t == Committed(s, d)
    <2>2. /\ t.log = s.log \union {d} /\ t.gc = s.gc /\ t.meta = s.meta
          /\ t.rec = s.rec /\ t.ent = [s.ent EXCEPT ![Doc[d].author] = d]
      BY <2>1 DEF Servers
    <2>3. /\ s.log \in SUBSET Ids /\ s.ent \in [Owners -> Ids \union {0}]
      BY DEF Servers
    <2>4. t \in [log : {t.log}, gc : {s.gc}, rec : {s.rec}, ent : {t.ent}, meta : {s.meta}]
      BY <2>1, <2>2 DEF Servers
    <2>5. t \in Servers
      BY <1>1, <2>2, <2>3, <2>4 DEF Servers
    <2> QED
      BY <2>2, <2>5
  <1>4. CASE ~(d > s.ent[Doc[d].author])
    <2>1. Committed(s, d) = s
      BY <1>4 DEF Committed
    <2> QED
      BY <1>1, <1>2, <1>4, <2>1
  <1> QED
    BY <1>3, <1>4

\* An accepted record takes its key from an older one, which is flagged.
LEMMA CommitRecordFacts ==
    ASSUME NEW s \in Servers, NEW d \in Ids, Doc[d].kind = "record",
           ~Rejects(s, d), ~Known(s, d)
    PROVE  LET t == Committed(s, d)
               k == Doc[d].key
           IN  /\ t \in Servers
               /\ t.ent = s.ent /\ t.meta = s.meta /\ s.ent[Doc[d].author] # 0
               /\ \/ t = s /\ s.rec[k] # 0 /\ ~(d > s.rec[k])
                  \/ /\ d > s.rec[k]
                     /\ t.log = s.log \union {d}
                     /\ t.gc = s.gc \union ({s.rec[k]} \ {0})
                     /\ t.rec = [s.rec EXCEPT ![k] = d]
  <1>1. d \in Nat \ {0} /\ Doc[d].key \in Keys /\ Ids \subseteq Nat
    BY DocFacts, TransferAssumption
  <1>2. s.rec[Doc[d].key] \in Ids \union {0}
    BY <1>1 DEF Servers
  <1>5. s.ent[Doc[d].author] # 0
    BY DEF Rejects, Known
  <1>3. CASE d > s.rec[Doc[d].key]
    <2>1. Committed(s, d) = [s EXCEPT !.rec[Doc[d].key] = d,
                    !.log = @ \union {d},
                    !.gc = @ \union ({s.rec[Doc[d].key]} \ {0})]
      BY <1>3 DEF Committed
    <2> DEFINE t == Committed(s, d)
               k == Doc[d].key
    <2>2. /\ t.log = s.log \union {d} /\ t.meta = s.meta /\ t.ent = s.ent
          /\ t.gc = s.gc \union ({s.rec[k]} \ {0})
          /\ t.rec = [s.rec EXCEPT ![k] = d]
      BY <2>1 DEF Servers
    <2>3. /\ s.log \in SUBSET Ids /\ s.gc \in SUBSET Ids
          /\ s.rec \in [Keys -> Ids \union {0}]
      BY DEF Servers
    <2>4. t \in [log : {t.log}, gc : {t.gc}, rec : {t.rec}, ent : {s.ent},
                meta : {s.meta}]
      BY <2>1, <2>2 DEF Servers
    <2>5. t \in Servers
      BY <1>1, <1>2, <2>2, <2>3, <2>4 DEF Servers
    <2> QED
      BY <1>3, <1>5, <2>2, <2>5
  <1>4. CASE ~(d > s.rec[Doc[d].key])
    <2>1. Committed(s, d) = s
      BY <1>4 DEF Committed
    <2> QED
      BY <1>1, <1>2, <1>4, <1>5, <2>1
  <1> QED
    BY <1>3, <1>4

\* An accepted delete empties its key; it and the record are flagged.
LEMMA CommitDeleteFacts ==
    ASSUME NEW s \in Servers, NEW d \in Ids, Doc[d].kind = "delete",
           ~Rejects(s, d), ~Known(s, d)
    PROVE  LET t == Committed(s, d)
               k == Doc[d].key
           IN  /\ t \in Servers
               /\ t.ent = s.ent /\ t.meta = s.meta /\ s.ent[Doc[d].author] # 0
               /\ s.rec[k] # 0
               /\ t.log = s.log \union {d}
               /\ t.gc = s.gc \union {s.rec[k], d}
               /\ t.rec = [s.rec EXCEPT ![k] = 0]
  <1>1. d \in Nat \ {0} /\ Doc[d].key \in Keys /\ Ids \subseteq Nat
    BY DocFacts, TransferAssumption
  <1>2. s.rec[Doc[d].key] \in Ids \union {0}
    BY <1>1 DEF Servers
  <1>3. s.ent[Doc[d].author] # 0 /\ s.rec[Doc[d].key] # 0
    BY DEF Rejects, Known
  <1>4. Committed(s, d) = [s EXCEPT !.rec[Doc[d].key] = 0,
                    !.log = @ \union {d},
                    !.gc = @ \union {s.rec[Doc[d].key], d}]
    BY DEF Committed
  <1> DEFINE t == Committed(s, d)
             k == Doc[d].key
  <1>5. /\ t.log = s.log \union {d} /\ t.meta = s.meta /\ t.ent = s.ent
        /\ t.gc = s.gc \union {s.rec[k], d}
        /\ t.rec = [s.rec EXCEPT ![k] = 0]
    BY <1>4 DEF Servers
  <1>6. /\ s.log \in SUBSET Ids /\ s.gc \in SUBSET Ids
        /\ s.rec \in [Keys -> Ids \union {0}]
    BY DEF Servers
  <1>7. t \in [log : {t.log}, gc : {t.gc}, rec : {t.rec}, ent : {s.ent},
              meta : {s.meta}]
    BY <1>4, <1>5 DEF Servers
  <1>8. t \in Servers
    BY <1>1, <1>2, <1>3, <1>5, <1>6, <1>7 DEF Servers
  <1> QED
    BY <1>3, <1>5, <1>8
\* The ids of a key that were ever committed at the source.
Ever(k) ==
    {d \in source.log \union collected : Doc[d].key = k /\ Doc[d].kind # "entity"}

\* At the source a key holds a record; what is committed needs an entity, and
\* entity documents are never collected.
SourceKeeps ==
    /\ source.meta = Owners
    /\ source.gc \subseteq source.log /\ source.log \intersect collected = {}
    /\ \A d \in source.gc \union collected : Doc[d].kind # "entity"
    /\ \A k \in Keys : source.rec[k] # 0 =>
            /\ source.rec[k] \in source.log /\ source.rec[k] \notin source.gc
            /\ Doc[source.rec[k]].kind = "record" /\ Doc[source.rec[k]].key = k
    /\ \A o \in Owners : source.ent[o] # 0 =>
            /\ source.ent[o] \in source.log
            /\ Doc[source.ent[o]].kind = "entity" /\ Doc[source.ent[o]].author = o
    /\ \A d \in source.log : source.ent[Doc[d].author] # 0

\* The commits of a key in the order of their dates, if that is the order they
\* came in: the record held is the newest, or the last delete; the others are
\* flagged or collected, the oldest first; a delete follows a record.
Ordered(k) ==
    /\ source.rec[k] # 0 =>
        \A e \in Ever(k) : e =< source.rec[k]
    /\ source.rec[k] = 0 =>
        /\ \A e \in Ever(k) : e =< lastDelete[k]
        /\ Ever(k) # {} => /\ lastDelete[k] \in Ever(k)
                           /\ Doc[lastDelete[k]].kind = "delete"
    /\ \A e \in Ever(k) : e = source.rec[k] \/ e \in source.gc \/ e \in collected
    /\ \A d \in Ever(k) : Doc[d].kind = "delete" =>
        \E r \in Ever(k) : /\ Doc[r].kind = "record" /\ r < d
                           /\ \A e \in Ever(k) : e =< r \/ d =< e
    /\ \A c, e \in Ever(k) : c \in collected /\ e < c => e \in collected

\* The file is what the log held, up to the cursor.
DumpInv ==
    /\ dump.stage = "idle" => dump.file = {} /\ dump.cursor = 0 /\ ~moved
    /\ dump.stage # "done" => import.stage = "idle" /\ excluded = {}
    /\ dump.stage # "idle" => dump.metas = Owners
    /\ dump.stage = "paging" /\ ~moved =>
            dump.file = {d \in source.log : d =< dump.cursor}
    /\ dump.stage = "done" /\ ~moved =>
            dump.file = {d \in source.log : ~Concerns(excluded, d)}

\* The lines of a key that the importing server has committed.
Replayed(k) == Lines(k) \intersect dest.log

\* The importing server holds the entities of the lines it has read, and no
\* commit that is not in the file.
ImportKeeps ==
    /\ import.stage # "idle" => dest.meta = Owners /\ import.runs > 0
    /\ dest.log \subseteq dump.file
    /\ \A d \in dest.log : dest.ent[Doc[d].author] # 0
    /\ \A k \in Keys : dest.rec[k] # 0 => dest.rec[k] \in Lines(k)
    /\ import.stage \in {"entity", "other", "done"} =>
        \A d \in dump.file :
            Doc[d].kind = "entity" /\ (import.stage = "entity" => d =< import.pos)
                => dest.ent[Doc[d].author] # 0

\* Of a key's lines an initial part is committed, but for a delete whose record
\* is not there.
Resumed(k) ==
    /\ \A d \in Replayed(k) :
        /\ ~Orphan(k, d)
        /\ \A e \in Lines(k) : e < d => e \in Replayed(k) \/ Orphan(k, e)
    /\ dest.rec[k] # 0 =>
        /\ dest.rec[k] \in Replayed(k) /\ Doc[dest.rec[k]].kind = "record"
        /\ \A e \in Replayed(k) : e =< dest.rec[k]
    /\ dest.rec[k] = 0 =>
        \/ Replayed(k) = {}
        \/ \E m \in Replayed(k) : /\ Doc[m].kind = "delete"
                                  /\ \A e \in Replayed(k) : e =< m
    /\ import.stage \in {"other", "done"} =>
        \A e \in Lines(k) :
            \/ import.stage = "other" /\ e > import.pos
            \/ e \in Replayed(k) \/ Orphan(k, e)
    /\ Orphaned(k) =>
        /\ import.stage \in {"idle", "entity"} => Replayed(k) = {}
        /\ import.stage = "other" => \A e \in Replayed(k) : e =< import.pos

\* Nothing is imported before the first run.
IdleInv ==
    import.stage = "idle" =>
        /\ import = [stage |-> "idle", pos |-> 0, failed |-> {}, runs |-> 0]
        /\ dest = EmptyServer({})

\* Of the keys not excepted, rejections are for orphaned deletes only, and an
\* import, however often it was interrupted, goes on where it stopped; where
\* there are such deletes, if it has not been repeated.
ReplayInv ==
    /\ \A d \in import.failed :
        LET k == Doc[d].key IN Kept(k) /\ Permitted(k) => Orphaned(k)
    /\ \A k \in Keys :
        Kept(k) /\ Permitted(k) /\ (Orphaned(k) => import.runs =< 1) => Resumed(k)

\* The inductive invariant behind ImportRestores.
TransferInv ==
    /\ TransferTyped /\ SourceKeeps /\ DumpInv /\ IdleInv
    /\ ~misdated => \A k \in Keys : Ordered(k)
    /\ dump.stage = "done" /\ ~moved => ImportKeeps
    /\ dump.stage = "done" /\ ~moved /\ ~misdated => ReplayInv

\* Every step keeps the types.
LEMMA TypedStep == TransferTyped /\ [TransferNext]_transferVars => TransferTyped'
  <1> SUFFICES ASSUME TransferTyped, [TransferNext]_transferVars
               PROVE  TransferTyped'
    OBVIOUS
  <1>0. Ids \subseteq Nat /\ \A d \in Ids : Doc[d].key \in Keys
    BY TransferAssumption, DocFacts
  <1>c. \A s \in Servers, d \in Ids : Committed(s, d) \in Servers
    <2> TAKE s \in Servers, d \in Ids
    <2>1. CASE Rejects(s, d) \/ Known(s, d)
      BY <2>1, CommitUnchanged
    <2>2. CASE ~Rejects(s, d) /\ ~Known(s, d)
      <3>1. CASE Doc[d].kind = "entity"
        BY <2>2, <3>1, CommitEntityFacts
      <3>2. CASE Doc[d].kind = "record"
        BY <2>2, <3>2, CommitRecordFacts
      <3>3. CASE Doc[d].kind = "delete"
        BY <2>2, <3>3, CommitDeleteFacts
      <3> QED
        BY <3>1, <3>2, <3>3, DocFacts
    <2> QED
      BY <2>1, <2>2
  <1>1. ASSUME NEW d \in Ids, SourceCommits(d) PROVE TransferTyped'
    <2>1. source' \in Servers
      BY <1>1, <1>c DEF SourceCommits, TransferTyped
    <2>2. /\ misdated' \in BOOLEAN /\ moved' \in BOOLEAN
          /\ lastDelete' \in [Keys -> Ids \union {0}]
      <3>0. Doc[d].key \in Keys
        BY DocFacts
      <3>1. /\ Doc[d].kind = "entity" => UNCHANGED <<lastDelete, misdated>>
            /\ Doc[d].kind = "record" =>
                misdated' = (misdated \/ d < lastDelete[Doc[d].key])
                    /\ UNCHANGED lastDelete
            /\ Doc[d].kind = "delete" =>
                /\ misdated' = (misdated \/ d < source.rec[Doc[d].key])
                /\ lastDelete' = [lastDelete EXCEPT ![Doc[d].key] = d]
        BY <1>1, DocFacts DEF SourceCommits
      <3>2. moved' \in BOOLEAN
        BY <1>1 DEF SourceCommits
      <3>3. CASE Doc[d].kind = "entity"
        BY <3>1, <3>2, <3>3 DEF TransferTyped
      <3>4. CASE Doc[d].kind = "record"
        BY <3>1, <3>2, <3>4 DEF TransferTyped
      <3>5. CASE Doc[d].kind = "delete"
        BY <3>0, <3>1, <3>2, <3>5 DEF TransferTyped
      <3> QED
        BY <3>3, <3>4, <3>5, DocFacts
    <2> QED
      BY <1>1, <2>1, <2>2 DEF SourceCommits, TransferTyped
  <1>2. ASSUME NEW d \in Ids, SourceCollects(d) PROVE TransferTyped'
    <2>1. source' \in Servers
      BY <1>2 DEF SourceCollects, TransferTyped, Servers
    <2> QED
      BY <1>2, <2>1 DEF SourceCollects, TransferTyped
  <1>3. ASSUME NEW d \in Ids, DumpPage(d) PROVE TransferTyped'
    <2>1. After(dump.cursor) \subseteq Ids
      BY DEF After, TransferTyped, Servers
    <2> QED
      BY <1>0, <1>3, <2>1 DEF DumpPage, TransferTyped, history
  <1>4. ASSUME NEW d \in Ids, ImportLine(d) PROVE TransferTyped'
    <2>1. dest' \in Servers
      BY <1>4, <1>c DEF ImportLine, TransferTyped
    <2>2. Rejects(dest, d) \in BOOLEAN /\ Wanted(import.stage, d) \in BOOLEAN
      BY DocFacts DEF Rejects, Wanted
    <2> QED
      BY <1>0, <1>4, <2>1, <2>2 DEF ImportLine, TransferTyped, history
  <1>r. ASSUME NEW d \in Ids, ImportRefuses(d) PROVE TransferTyped'
    BY <1>0, <1>r DEF ImportRefuses, TransferTyped
  <1>5. CASE DumpMetas
    BY <1>5 DEF DumpMetas, TransferTyped, Servers, history
  <1>6. CASE DumpEnds
    BY <1>6 DEF DumpEnds, TransferTyped, history
  <1>7. ASSUME NEW o \in Owners, Filter(o) PROVE TransferTyped'
    BY <1>7 DEF Filter, TransferTyped, history
  <1>8. CASE ImportMetas
    <2>1. dest' \in Servers
      BY <1>8 DEF ImportMetas, TransferTyped, Servers
    <2> QED
      BY <1>8, <2>1 DEF ImportMetas, TransferTyped, history
  <1>9. CASE ImportPhaseEnds
    BY <1>9 DEF ImportPhaseEnds, TransferTyped, history
  <1>10. CASE ImportStops
    BY <1>10 DEF ImportStops, TransferTyped, history
  <1>11. CASE UNCHANGED transferVars
    BY <1>11 DEF transferVars, TransferTyped, history
  <1> QED
    BY <1>1, <1>2, <1>3, <1>4, <1>5, <1>6, <1>7, <1>8, <1>9, <1>10, <1>11,
       <1>r
    DEF TransferNext

\* A commit that changes the source: what it writes, by kind.
LEMMA SourceCommitFacts ==
    ASSUME TransferTyped, NEW d \in Ids, SourceCommits(d)
    PROVE  /\ d \notin source.log /\ d \notin collected
           /\ ~Rejects(source, d) /\ ~Known(source, d) /\ source \in Servers
           /\ source' = Committed(source, d) /\ source' # source
           /\ collected' = collected
  <1>1. /\ source' = Committed(source, d) /\ source' # source
        /\ d \notin collected /\ collected' = collected
    BY DEF SourceCommits
  <1>2. ~Rejects(source, d) /\ ~Known(source, d) /\ source \in Servers
    BY <1>1, CommitUnchanged DEF TransferTyped
  <1> QED
    BY <1>1, <1>2 DEF Known

\* An entity document committed at the source.
LEMMA SourceEntity ==
    ASSUME TransferTyped, NEW d \in Ids, SourceCommits(d), Doc[d].kind = "entity"
    PROVE  /\ source'.log = source.log \union {d} /\ source'.meta = source.meta
           /\ source'.rec = source.rec /\ source'.gc = source.gc
           /\ source'.ent = [source.ent EXCEPT ![Doc[d].author] = d]
           /\ lastDelete' = lastDelete /\ misdated' = misdated
  <1>1. lastDelete' = lastDelete /\ misdated' = misdated
    BY DEF SourceCommits
  <1>2. /\ source' \in Servers
        /\ source'.rec = source.rec /\ source'.gc = source.gc
        /\ source'.meta = source.meta
        /\ \/ source'.log = source.log /\ source'.ent = source.ent
           \/ /\ source'.log = source.log \union {d}
              /\ source'.ent = [source.ent EXCEPT ![Doc[d].author] = d]
    BY SourceCommitFacts, CommitEntityFacts
  <1>3. source'.log = source.log /\ source'.ent = source.ent => source' = source
    BY <1>2, SourceCommitFacts DEF Servers
  <1> QED
    BY <1>1, <1>2, <1>3, SourceCommitFacts

\* A record committed at the source.
LEMMA SourceRecord ==
    ASSUME TransferTyped, NEW d \in Ids, SourceCommits(d), Doc[d].kind = "record"
    PROVE  /\ source'.log = source.log \union {d} /\ source'.meta = source.meta
           /\ source'.ent = source.ent /\ source.ent[Doc[d].author] # 0
           /\ d > source.rec[Doc[d].key]
           /\ source'.gc = source.gc \union ({source.rec[Doc[d].key]} \ {0})
           /\ source'.rec = [source.rec EXCEPT ![Doc[d].key] = d]
           /\ lastDelete' = lastDelete
           /\ ~misdated' => ~misdated /\ ~(d < lastDelete[Doc[d].key])
  <1>1. /\ lastDelete' = lastDelete
        /\ ~misdated' => ~misdated /\ ~(d < lastDelete[Doc[d].key])
    BY DEF SourceCommits
  <1> QED
    BY <1>1, SourceCommitFacts, CommitRecordFacts

\* A delete committed at the source.
LEMMA SourceDelete ==
    ASSUME TransferTyped, NEW d \in Ids, SourceCommits(d), Doc[d].kind = "delete"
    PROVE  /\ source'.log = source.log \union {d} /\ source'.meta = source.meta
           /\ source'.ent = source.ent /\ source.ent[Doc[d].author] # 0
           /\ source.rec[Doc[d].key] # 0
           /\ source'.gc = source.gc \union {source.rec[Doc[d].key], d}
           /\ source'.rec = [source.rec EXCEPT ![Doc[d].key] = 0]
           /\ lastDelete' = [lastDelete EXCEPT ![Doc[d].key] = d]
           /\ ~misdated' => ~misdated /\ ~(d < source.rec[Doc[d].key])
  <1>1. /\ lastDelete' = [lastDelete EXCEPT ![Doc[d].key] = d]
        /\ ~misdated' => ~misdated /\ ~(d < source.rec[Doc[d].key])
    BY DEF SourceCommits
  <1> QED
    BY <1>1, SourceCommitFacts, CommitDeleteFacts

\* Every commit logs its document; only later ones differ.
LEMMA SourceLogs ==
    ASSUME TransferTyped, NEW d \in Ids, SourceCommits(d)
    PROVE  source'.log = source.log \union {d} /\ source'.meta = source.meta
  <1>1. CASE Doc[d].kind = "entity"
    BY <1>1, SourceEntity
  <1>2. CASE Doc[d].kind = "record"
    BY <1>2, SourceRecord
  <1>3. CASE Doc[d].kind = "delete"
    BY <1>3, SourceDelete
  <1> QED
    BY <1>1, <1>2, <1>3, DocFacts

\* A commit leaves the source's tables consistent.
LEMMA SourceCommitKeeps ==
    ASSUME TransferTyped, SourceKeeps, NEW d \in Ids, SourceCommits(d)
    PROVE  SourceKeeps'
  <1> DEFINE k == Doc[d].key
             o == Doc[d].author
  <1>0. /\ d \in Nat \ {0} /\ k \in Keys /\ o \in Owners
        /\ \A e \in Ids : Doc[e].author \in Owners
        /\ source.rec \in [Keys -> Ids \union {0}]
        /\ source.ent \in [Owners -> Ids \union {0}]
        /\ source.log \subseteq Ids
    BY DocFacts DEF TransferTyped, Servers
  <1>f. /\ d \notin source.log /\ d \notin source.gc /\ d \notin collected
        /\ source'.log = source.log \union {d}
        /\ source'.meta = source.meta /\ collected' = collected
    BY SourceCommitFacts, SourceLogs DEF SourceKeeps
  <1>m. source'.meta = Owners /\ source'.log \intersect collected' = {}
    BY <1>f DEF SourceKeeps
  <1>1. CASE Doc[d].kind = "entity"
    <2>1. /\ source'.rec = source.rec /\ source'.gc = source.gc
          /\ source'.ent = [source.ent EXCEPT ![o] = d]
      BY <1>1, SourceEntity
    <2>2. /\ source'.gc \subseteq source'.log
          /\ \A e \in source'.gc \union collected' : Doc[e].kind # "entity"
          /\ \A q \in Keys : source'.rec[q] # 0 =>
                /\ source'.rec[q] \in source'.log /\ source'.rec[q] \notin source'.gc
                /\ Doc[source'.rec[q]].kind = "record"
                /\ Doc[source'.rec[q]].key = q
      BY <1>f, <2>1 DEF SourceKeeps
    <2>3. \A p \in Owners : source'.ent[p] # 0 =>
            /\ source'.ent[p] \in source'.log
            /\ Doc[source'.ent[p]].kind = "entity"
            /\ Doc[source'.ent[p]].author = p
      BY <1>0, <1>1, <1>f, <2>1 DEF SourceKeeps
    <2>4. \A e \in source'.log : source'.ent[Doc[e].author] # 0
      BY <1>0, <1>f, <2>1 DEF SourceKeeps
    <2> QED
      BY <1>m, <2>2, <2>3, <2>4 DEF SourceKeeps
  <1>2. CASE Doc[d].kind # "entity"
    <2>0. source'.ent = source.ent /\ source.ent[o] # 0
      BY <1>2, SourceRecord, SourceDelete, DocFacts
    <2>1. /\ \A p \in Owners : source'.ent[p] # 0 =>
                /\ source'.ent[p] \in source'.log
                /\ Doc[source'.ent[p]].kind = "entity"
                /\ Doc[source'.ent[p]].author = p
          /\ \A e \in source'.log : source'.ent[Doc[e].author] # 0
      BY <1>0, <1>f, <2>0 DEF SourceKeeps
    <2>2. source.rec[k] # 0 =>
            /\ source.rec[k] \in source.log /\ Doc[source.rec[k]].kind = "record"
            /\ Doc[source.rec[k]].key = k
      BY <1>0 DEF SourceKeeps
    <2>3. /\ source'.gc \subseteq source'.log
          /\ \A e \in source'.gc \union collected' : Doc[e].kind # "entity"
      <3>1. source'.gc \subseteq source.gc \union ({source.rec[k]} \ {0}) \union {d}
        <4>1. CASE Doc[d].kind = "record"
          <5>1. source'.gc = source.gc \union ({source.rec[k]} \ {0})
            BY <4>1, SourceRecord
          <5> QED
            BY <5>1
        <4>2. CASE Doc[d].kind = "delete"
          <5>1. source'.gc = source.gc \union {source.rec[k], d} /\ source.rec[k] # 0
            BY <4>2, SourceDelete
          <5> QED
            BY <5>1
        <4> QED
          BY <1>2, <4>1, <4>2, DocFacts
      <3> QED
        BY <1>2, <1>f, <2>2, <3>1 DEF SourceKeeps
    <2>4. ASSUME NEW q \in Keys, source'.rec[q] # 0
          PROVE  /\ source'.rec[q] \in source'.log /\ source'.rec[q] \notin source'.gc
                 /\ Doc[source'.rec[q]].kind = "record"
                 /\ Doc[source'.rec[q]].key = q
      <3>1. CASE Doc[d].kind = "record"
        <4>1. /\ source'.gc = source.gc \union ({source.rec[k]} \ {0})
              /\ source'.rec = [source.rec EXCEPT ![k] = d]
          BY <3>1, SourceRecord
        <4>2. CASE q = k
          BY <1>0, <1>f, <2>2, <3>1, <4>1, <4>2
        <4>3. CASE q # k
          <5>1. source'.rec[q] = source.rec[q]
            BY <1>0, <4>1, <4>3
          <5> QED
            BY <1>f, <2>2, <2>4, <4>1, <4>3, <5>1 DEF SourceKeeps
        <4> QED
          BY <4>2, <4>3
      <3>2. CASE Doc[d].kind = "delete"
        <4>1. /\ source'.gc = source.gc \union {source.rec[k], d}
              /\ source'.rec = [source.rec EXCEPT ![k] = 0]
              /\ source.rec[k] # 0
          BY <3>2, SourceDelete
        <4>2. q # k /\ source'.rec[q] = source.rec[q]
          BY <1>0, <2>4, <4>1
        <4> QED
          BY <1>f, <2>2, <2>4, <4>1, <4>2 DEF SourceKeeps
      <3> QED
        BY <1>2, <3>1, <3>2, DocFacts
    <2> QED
      BY <1>m, <2>1, <2>3, <2>4 DEF SourceKeeps
  <1> QED
    BY <1>1, <1>2

\* The collector takes the oldest flagged log, and nothing else.
LEMMA SourceCollectFacts ==
    ASSUME TransferTyped, NEW d \in Ids, SourceCollects(d)
    PROVE  /\ d \in source.gc /\ \A e \in source.gc : d =< e
           /\ source'.log = source.log \ {d} /\ source'.gc = source.gc \ {d}
           /\ source'.rec = source.rec /\ source'.ent = source.ent
           /\ source'.meta = source.meta
           /\ collected' = collected \union {d}
           /\ lastDelete' = lastDelete /\ misdated' = misdated
  BY DEF SourceCollects, TransferTyped, Servers

\* It leaves the source's tables consistent, too.
LEMMA SourceCollectKeeps ==
    ASSUME TransferTyped, SourceKeeps, NEW d \in Ids, SourceCollects(d)
    PROVE  SourceKeeps'
  <1>0. /\ source.rec \in [Keys -> Ids \union {0}]
        /\ source.ent \in [Owners -> Ids \union {0}]
        /\ source.log \subseteq Ids
    BY DEF TransferTyped, Servers
  <1> QED
    BY <1>0, SourceCollectFacts, DocFacts DEF SourceKeeps

\* A commit that comes in the order of dates keeps that order.
LEMMA SourceCommitOrdered ==
    ASSUME TransferTyped, SourceKeeps, NEW d \in Ids, SourceCommits(d),
           ~misdated', ~misdated => \A k \in Keys : Ordered(k), NEW q \in Keys
    PROVE  Ordered(q)'
  <1> DEFINE k == Doc[d].key
             E == Ever(q)
  <1>0. /\ d \in Nat \ {0} /\ k \in Keys /\ Ids \subseteq Nat
        /\ source.rec \in [Keys -> Ids \union {0}]
        /\ lastDelete \in [Keys -> Ids \union {0}]
        /\ source.log \subseteq Ids /\ collected \subseteq Ids
        /\ source.rec[q] \in Nat /\ lastDelete[q] \in Nat
    <2>1. /\ source.rec \in [Keys -> Ids \union {0}]
          /\ lastDelete \in [Keys -> Ids \union {0}]
          /\ source.log \subseteq Ids /\ collected \subseteq Ids
      BY DEF TransferTyped, Servers
    <2>2. /\ d \in Nat \ {0} /\ k \in Keys /\ Ids \subseteq Nat
      BY DocFacts, TransferAssumption
    <2>3. source.rec[q] \in Ids \union {0} /\ lastDelete[q] \in Ids \union {0}
      BY <2>1
    <2>4. source.rec[q] \in Nat /\ lastDelete[q] \in Nat
      BY <2>3, IdNumber
    <2> QED
      BY <2>1, <2>2, <2>4
  <1>f. /\ d \notin source.log /\ d \notin source.gc /\ d \notin collected
        /\ source'.log = source.log \union {d} /\ collected' = collected
    BY SourceCommitFacts, SourceLogs DEF SourceKeeps
  <1>g. source'.gc \subseteq source'.log /\ source.gc \subseteq source'.gc
    <2>1. CASE Doc[d].kind = "entity"
      BY <2>1, SourceEntity, <1>f DEF SourceKeeps
    <2>2. CASE Doc[d].kind = "record"
      <3>1. source'.gc = source.gc \union ({source.rec[k]} \ {0})
        BY <2>2, SourceRecord
      <3>2. source'.gc \subseteq source'.log
        BY SourceCommitKeeps DEF SourceKeeps
      <3> QED
        BY <3>1, <3>2
    <2>3. CASE Doc[d].kind = "delete"
      <3>1. source'.gc = source.gc \union {source.rec[k], d}
        BY <2>3, SourceDelete
      <3>2. source'.gc \subseteq source'.log
        BY SourceCommitKeeps DEF SourceKeeps
      <3> QED
        BY <3>1, <3>2
    <2> QED
      BY <2>1, <2>2, <2>3, DocFacts
  <1>e. /\ E \subseteq Nat /\ d \notin E
        /\ \A e \in E : e \in Ids /\ Doc[e].key = q /\ Doc[e].kind # "entity"
    BY <1>0, <1>f DEF Ever
  <1>o. ~misdated /\ Ordered(q)
    <2>1. ~misdated
      <3>1. CASE Doc[d].kind = "entity"
        BY <3>1, SourceEntity
      <3>2. CASE Doc[d].kind = "record"
        BY <3>2, SourceRecord
      <3>3. CASE Doc[d].kind = "delete"
        BY <3>3, SourceDelete
      <3> QED
        BY <3>1, <3>2, <3>3, DocFacts
    <2> QED
      BY <2>1
  <1>1. CASE Doc[d].kind = "entity" \/ q # k
    <2>1. Ever(q)' = E
      BY <1>1, <1>f DEF Ever
    <2>2. source'.rec[q] = source.rec[q] /\ lastDelete'[q] = lastDelete[q]
      <3>1. CASE Doc[d].kind = "entity"
        BY <3>1, SourceEntity
      <3>2. CASE Doc[d].kind = "record"
        <4>1. /\ source'.rec = [source.rec EXCEPT ![k] = d]
              /\ lastDelete' = lastDelete /\ q # k
          BY <1>1, <3>2, SourceRecord
        <4> QED
          BY <1>0, <4>1
      <3>3. CASE Doc[d].kind = "delete"
        BY <1>0, <1>1, <3>3, SourceDelete
      <3> QED
        BY <3>1, <3>2, <3>3, DocFacts
    <2> QED
      BY <1>f, <1>g, <1>o, <2>1, <2>2 DEF Ordered
  <1>2. CASE Doc[d].kind = "record" /\ q = k
    <2>1. Ever(q)' = E \union {d}
      BY <1>2, <1>f DEF Ever
    <2>2. /\ d > source.rec[q] /\ ~(d < lastDelete[q])
          /\ source'.gc = source.gc \union ({source.rec[q]} \ {0})
          /\ source'.rec[q] = d
      <3>1. /\ d > source.rec[k] /\ ~(d < lastDelete[k])
            /\ source'.gc = source.gc \union ({source.rec[k]} \ {0})
            /\ source'.rec = [source.rec EXCEPT ![k] = d]
        BY <1>2, SourceRecord
      <3> QED
        BY <1>0, <1>2, <3>1
    <2>3. \A e \in E : e < d
      <3>1. CASE source.rec[q] # 0
        BY <1>0, <1>e, <1>o, <2>2, <3>1 DEF Ordered
      <3>2. CASE source.rec[q] = 0
        <4>1. \A e \in E : e =< lastDelete[q]
          BY <1>o, <3>2 DEF Ordered
        <4> QED
          BY <1>0, <1>e, <2>2, <4>1
      <3> QED
        BY <3>1, <3>2
    <2>4. \A e \in E \union {d} : e = d \/ e \in source'.gc \/ e \in collected'
      <3>1. \A e \in E : e = source.rec[q] \/ e \in source.gc \/ e \in collected
        BY <1>o DEF Ordered
      <3>2. 0 \notin E
        BY <1>e, TransferAssumption
      <3> QED
        BY <1>f, <2>2, <3>1, <3>2
    <2>5. ASSUME NEW e \in E \union {d}, Doc[e].kind = "delete"
          PROVE  \E r \in E \union {d} :
                    /\ Doc[r].kind = "record" /\ r < e
                    /\ \A x \in E \union {d} : x =< r \/ e =< x
      <3>1. e \in E
        BY <1>2, <2>5
      <3>2. PICK r \in E : /\ Doc[r].kind = "record" /\ r < e
                           /\ \A x \in E : x =< r \/ e =< x
        BY <1>o, <2>5, <3>1 DEF Ordered
      <3> QED
        BY <1>0, <1>e, <2>3, <3>1, <3>2
    <2>6. \A c, e \in E \union {d} : c \in collected' /\ e < c => e \in collected'
      <3>1. \A c, e \in E : c \in collected /\ e < c => e \in collected
        BY <1>o DEF Ordered
      <3> QED
        BY <1>0, <1>e, <1>f, <2>3, <3>1
    <2>7. source'.rec[q] # 0 /\ \A e \in E \union {d} : e =< source'.rec[q]
      BY <1>0, <1>e, <2>2, <2>3
    <2> QED
      BY <2>1, <2>2, <2>4, <2>5, <2>6, <2>7 DEF Ordered
  <1>3. CASE Doc[d].kind = "delete" /\ q = k
    <2>1. Ever(q)' = E \union {d}
      BY <1>3, <1>f DEF Ever
    <2>2. /\ source.rec[q] # 0 /\ ~(d < source.rec[q])
          /\ source'.gc = source.gc \union {source.rec[q], d}
          /\ source'.rec[q] = 0 /\ lastDelete'[q] = d
      BY <1>0, <1>3, <1>o, SourceDelete
    <2>r. /\ source.rec[q] \in E /\ Doc[source.rec[q]].kind = "record"
      BY <1>0, <2>2 DEF SourceKeeps, Ever
    <2>3. \A e \in E : e < d /\ e =< source.rec[q]
      BY <1>0, <1>e, <1>o, <2>2, <2>r DEF Ordered
    <2>4. \A e \in E \union {d} : e \in source'.gc \/ e \in collected'
      BY <1>0, <1>e, <1>f, <1>o, <2>2 DEF Ordered
    <2>5. ASSUME NEW e \in E \union {d}, Doc[e].kind = "delete"
          PROVE  \E r \in E \union {d} :
                    /\ Doc[r].kind = "record" /\ r < e
                    /\ \A x \in E \union {d} : x =< r \/ e =< x
      <3>1. CASE e \in E
        <4>2. PICK r \in E : /\ Doc[r].kind = "record" /\ r < e
                             /\ \A x \in E : x =< r \/ e =< x
          BY <1>o, <2>5, <3>1 DEF Ordered
        <4> QED
          BY <1>0, <1>e, <2>3, <3>1, <4>2
      <3>2. CASE e = d
        BY <1>0, <1>e, <2>r, <2>3, <3>2
      <3> QED
        BY <3>1, <3>2
    <2>6. \A c, e \in E \union {d} : c \in collected' /\ e < c => e \in collected'
      <3>1. \A c, e \in E : c \in collected /\ e < c => e \in collected
        BY <1>o DEF Ordered
      <3> QED
        BY <1>0, <1>e, <1>f, <2>3, <3>1
    <2>7. \A e \in E \union {d} : e =< d
      BY <1>0, <1>e, <2>3
    <2> QED
      BY <1>3, <2>1, <2>2, <2>4, <2>5, <2>6, <2>7 DEF Ordered
  <1> QED
    BY <1>1, <1>2, <1>3, DocFacts

\* The collector goes from the oldest on.
LEMMA SourceCollectOrdered ==
    ASSUME TransferTyped, SourceKeeps, NEW d \in Ids, SourceCollects(d),
           NEW q \in Keys, Ordered(q)
    PROVE  Ordered(q)'
  <1> DEFINE E == Ever(q)
  <1>0. /\ d \in Nat \ {0} /\ Ids \subseteq Nat
        /\ source.log \subseteq Ids /\ collected \subseteq Ids
        /\ source.rec[q] \in Nat /\ lastDelete[q] \in Nat
        /\ d \in source.log
    <2>1. /\ source.rec \in [Keys -> Ids \union {0}]
          /\ lastDelete \in [Keys -> Ids \union {0}]
          /\ source.log \subseteq Ids /\ collected \subseteq Ids
      BY DEF TransferTyped, Servers
    <2>2. /\ d \in Nat \ {0} /\ Ids \subseteq Nat
      BY DocFacts, TransferAssumption
    <2>3. d \in source.log
      BY SourceCollectFacts DEF SourceKeeps
    <2>4. source.rec[q] \in Ids \union {0} /\ lastDelete[q] \in Ids \union {0}
      BY <2>1
    <2>5. source.rec[q] \in Nat /\ lastDelete[q] \in Nat
      BY <2>4, IdNumber
    <2> QED
      BY <2>1, <2>2, <2>3, <2>5
  <1>1. Ever(q)' = E /\ E \subseteq Nat
    <2>1. source'.log \union collected' = source.log \union collected
      <3>1. source'.log = source.log \ {d} /\ collected' = collected \union {d}
        BY SourceCollectFacts
      <3> QED
        BY <1>0, <3>1
    <2>2. E \subseteq Nat
      BY <1>0 DEF Ever
    <2> QED
      BY <2>1, <2>2 DEF Ever
  <1>2. /\ source'.rec = source.rec /\ lastDelete' = lastDelete
        /\ source'.gc = source.gc \ {d} /\ collected' = collected \union {d}
        /\ \A e \in source.gc : d =< e
    BY SourceCollectFacts
  <1>3. ASSUME NEW c \in E, NEW e \in E, c \in collected', e < c
        PROVE  e \in collected'
    <2>1. CASE c \in collected
      BY <1>2, <1>3, <2>1 DEF Ordered
    <2>2. CASE c = d
      <3>1. e # source.rec[q]
        <4>1. source.rec[q] # 0 => \A x \in E : x =< source.rec[q]
          BY DEF Ordered
        <4> QED
          <5>1. c =< source.rec[q] \/ source.rec[q] = 0
            BY <4>1
          <5>2. e # 0 /\ e \in Nat /\ c \in Nat
            BY <1>0, <1>1, TransferAssumption DEF Ever
          <5> QED
            BY <1>0, <1>3, <5>1, <5>2
      <3>2. e \in source.gc \/ e \in collected
        BY <3>1 DEF Ordered
      <3> QED
        BY <1>0, <1>1, <1>2, <1>3, <2>2, <3>2
    <2> QED
      BY <1>2, <1>3, <2>1, <2>2
  <1>4. \A e \in E : e = source.rec[q] \/ e \in source'.gc \/ e \in collected'
    BY <1>2 DEF Ordered
  <1> QED
    BY <1>1, <1>2, <1>3, <1>4 DEF Ordered

\* Every step keeps the file what the log held.
LEMMA DumpStep ==
    ASSUME TransferTyped, SourceKeeps, DumpInv, [TransferNext]_transferVars
    PROVE  DumpInv'
  <1>0. Ids \subseteq Nat \ {0} /\ source.log \subseteq Ids /\ dump.cursor \in Nat
    BY TransferAssumption DEF TransferTyped, Servers
  <1>c. \A e : ~Concerns({}, e)
    BY DEF Concerns
  <1>1. ASSUME NEW d \in Ids, SourceCommits(d) PROVE DumpInv'
    BY <1>1 DEF SourceCommits, DumpInv
  <1>2. ASSUME NEW d \in Ids, SourceCollects(d) PROVE DumpInv'
    BY <1>2 DEF SourceCollects, DumpInv
  <1>3. ASSUME NEW d \in Ids, DumpPage(d) PROVE DumpInv'
    <2>1. /\ dump.stage = "paging" /\ dump'.stage = "paging"
          /\ dump'.metas = dump.metas /\ dump'.cursor = d
          /\ dump'.file = dump.file \union {e \in After(dump.cursor) : e =< d}
          /\ d \in After(dump.cursor)
          /\ UNCHANGED <<source, import, excluded, moved>>
      BY <1>3 DEF DumpPage, TransferTyped
    <2>2. ~moved => dump'.file = {e \in source.log : e =< d}
      <3>1. ~moved => dump.file = {e \in source.log : e =< dump.cursor}
        BY <2>1 DEF DumpInv
      <3>2. dump.cursor \in Nat /\ d \in Nat /\ d > dump.cursor
        BY <1>0, <2>1 DEF After
      <3>3. ASSUME NEW e \in source.log
            PROVE  e =< d <=> e =< dump.cursor \/ (e > dump.cursor /\ e =< d)
        <4>1. e \in Nat
          BY <1>0
        <4> QED
          BY <3>2, <4>1
      <3> QED
        BY <2>1, <3>1, <3>3 DEF After
    <2> QED
      BY <2>1, <2>2 DEF DumpInv
  <1>4. ASSUME NEW d \in Ids, ImportLine(d) PROVE DumpInv'
    BY <1>4 DEF ImportLine, Reading, DumpInv, TransferTyped
  <1>r. ASSUME NEW d \in Ids, ImportRefuses(d) PROVE DumpInv'
    BY <1>r DEF ImportRefuses, Reading, DumpInv, TransferTyped
  <1>5. CASE DumpMetas
    <2>1. /\ dump.stage = "idle" /\ dump'.stage = "paging"
          /\ dump'.metas = source.meta /\ dump'.cursor = dump.cursor
          /\ dump'.file = dump.file
          /\ UNCHANGED <<source, import, excluded, moved>>
      BY <1>5 DEF DumpMetas, TransferTyped
    <2>2. ASSUME NEW e \in source.log PROVE ~(e =< 0)
      <3>1. e \in Ids
        BY <1>0
      <3>2. e \in Nat /\ e > 0
        BY <3>1, IdPositive
      <3> QED
        BY <3>2
    <2>3. {e \in source.log : e =< 0} = {}
      BY <2>2
    <2>4. dump'.file = {} /\ dump'.cursor = 0
      BY <2>1 DEF DumpInv
    <2> QED
      BY <2>1, <2>3, <2>4 DEF DumpInv, SourceKeeps
  <1>6. CASE DumpEnds
    <2>1. /\ dump.stage = "paging" /\ dump'.stage = "done"
          /\ dump'.metas = dump.metas /\ dump'.file = dump.file
          /\ After(dump.cursor) = {}
          /\ UNCHANGED <<source, import, excluded, moved>>
      BY <1>6 DEF DumpEnds, TransferTyped
    <2>2. ASSUME NEW e \in source.log PROVE e =< dump.cursor
      <3>1. ~(e > dump.cursor)
        BY <2>1 DEF After
      <3>2. e \in Ids
        BY <1>0
      <3>3. e \in Nat
        BY <3>2, IdPositive
      <3>4. dump.cursor \in Nat
        BY <1>0
      <3> QED
        BY <3>1, <3>3, <3>4
    <2>3. {e \in source.log : e =< dump.cursor} = source.log
      BY <2>2
    <2> QED
      BY <1>c, <2>1, <2>3 DEF DumpInv
  <1>7. ASSUME NEW o \in Owners, Filter(o) PROVE DumpInv'
    <2>1. /\ dump.stage = "done" /\ dump'.stage = "done" /\ import.stage = "idle"
          /\ dump'.metas = dump.metas /\ excluded = {} /\ excluded' = {o}
          /\ dump'.file = {d \in dump.file : ~Concerns({o}, d)}
          /\ UNCHANGED <<source, import, moved>>
      BY <1>7 DEF Filter, TransferTyped
    <2>2. ~moved => dump.file = source.log
      BY <1>c, <2>1 DEF DumpInv
    <2>3. ~moved' => dump'.file = {e \in source'.log : ~Concerns(excluded', e)}
      BY <2>1, <2>2
    <2> QED
      BY <2>1, <2>3 DEF DumpInv, Concerns
  <1>8. CASE ImportMetas
    BY <1>8 DEF ImportMetas, DumpInv
  <1>9. CASE ImportPhaseEnds
    BY <1>9 DEF ImportPhaseEnds, DumpInv
  <1>10. CASE ImportStops
    BY <1>10 DEF ImportStops, DumpInv
  <1>11. CASE UNCHANGED transferVars
    BY <1>11 DEF transferVars, DumpInv
  <1> QED
    BY <1>1, <1>2, <1>3, <1>4, <1>5, <1>6, <1>7, <1>8, <1>9, <1>10, <1>11,
       <1>r
    DEF TransferNext

\* Only ImportMetas starts an import.
LEMMA IdleStep == TransferTyped /\ IdleInv /\ [TransferNext]_transferVars => IdleInv'
  <1> SUFFICES ASSUME TransferTyped, IdleInv, [TransferNext]_transferVars
               PROVE  IdleInv'
    OBVIOUS
  <1>1. CASE UNCHANGED <<import, dest>>
    BY <1>1 DEF IdleInv, EmptyServer
  <1>2. ASSUME NEW d \in Ids, ImportLine(d) PROVE IdleInv'
    BY <1>2 DEF ImportLine, Reading, IdleInv, TransferTyped
  <1>r. ASSUME NEW d \in Ids, ImportRefuses(d) PROVE IdleInv'
    BY <1>r DEF ImportRefuses, Reading, IdleInv, TransferTyped
  <1>3. CASE ImportMetas
    BY <1>3 DEF ImportMetas, IdleInv
  <1>4. CASE ImportPhaseEnds
    BY <1>4 DEF ImportPhaseEnds, IdleInv, TransferTyped
  <1>5. CASE ImportStops
    BY <1>5 DEF ImportStops, IdleInv, TransferTyped
  <1> QED
    BY <1>1, <1>2, <1>3, <1>4, <1>5, <1>r
    DEF TransferNext, transferVars, SourceCommits, SourceCollects, DumpPage,
        DumpMetas, DumpEnds, Filter

\* A delete of the file that is not an orphan follows the record it deleted.
LEMMA LineFacts ==
    ASSUME TransferTyped, SourceKeeps, DumpInv, dump.stage = "done", ~moved,
           NEW k \in Keys, Ordered(k), Kept(k), NEW d \in Lines(k),
           Doc[d].kind = "delete", ~Orphan(k, d)
    PROVE  \E r \in Lines(k) : /\ Doc[r].kind = "record" /\ r < d
                               /\ \A e \in Lines(k) : e =< r \/ d =< e
  <1>1. dump.file = {e \in source.log : ~Concerns(excluded, e)}
    BY DEF DumpInv
  <1>2. Lines(k) \subseteq Ever(k) /\ d \in Ever(k) /\ Ever(k) \subseteq Ids
    BY <1>1 DEF Lines, Ever, TransferTyped, Servers
  <1>3. PICK r \in Ever(k) : /\ Doc[r].kind = "record" /\ r < d
                             /\ \A e \in Ever(k) : e =< r \/ d =< e
    BY <1>2 DEF Ordered
  <1>4. CASE r \in source.log
    <2>1. Doc[r].key = k /\ Doc[r].kind # "entity" /\ r \in Ids
      BY <1>2 DEF Ever
    <2>2. r \in Lines(k)
      BY <1>1, <1>4, <2>1 DEF Lines, Kept
    <2> QED
      BY <1>2, <1>3, <2>2
  <1>5. CASE r \in collected
    <2>1. ASSUME NEW e \in Lines(k) PROVE d =< e
      <3>1. e \notin collected /\ e \in Ever(k)
        BY <1>1, <1>2 DEF SourceKeeps, Lines
      <3>2. ~(e < r) /\ e # r
        BY <1>3, <1>5, <3>1 DEF Ordered
      <3>3. e \in Nat /\ r \in Nat /\ d \in Nat
        BY <1>2, <3>1, TransferAssumption
      <3> QED
        BY <1>3, <3>1, <3>2, <3>3
    <2> QED
      BY <2>1 DEF Orphan
  <1> QED
    BY <1>3, <1>4, <1>5 DEF Ever

\* A commit never takes an entity away, and gives one to its owner.
LEMMA CommitGives ==
    ASSUME NEW s \in Servers, NEW d \in Ids, NEW t, t = Committed(s, d)
    PROVE  /\ t \in Servers /\ t.meta = s.meta
           /\ t.log \subseteq s.log \union {d} /\ s.log \subseteq t.log
           /\ \A o \in Owners : s.ent[o] # 0 => t.ent[o] # 0
           /\ d \in t.log /\ d \notin s.log => t.ent[Doc[d].author] # 0
           /\ Doc[d].kind = "entity" /\ ~Rejects(s, d) /\ d \notin s.log
                => t.ent[Doc[d].author] # 0
           /\ Doc[d].kind = "entity" => t.rec = s.rec
           /\ \A q \in Keys : t.rec[q] = s.rec[q] \/ t.rec[q] = 0
                              \/ (t.rec[q] = d /\ Doc[d].key = q
                                  /\ Doc[d].kind = "record" /\ d \in t.log)
           /\ \A q \in Keys : q # Doc[d].key => t.rec[q] = s.rec[q]
  <1>0. /\ d # 0 /\ Doc[d].author \in Owners /\ Doc[d].key \in Keys
        /\ s.ent \in [Owners -> Ids \union {0}] /\ s.rec \in [Keys -> Ids \union {0}]
    BY DocFacts DEF Servers
  <1>1. CASE Rejects(s, d) \/ Known(s, d)
    <2>1. t = s
      BY <1>1, CommitUnchanged
    <2> QED
      BY <1>1, <2>1 DEF Known
  <1>2. CASE ~Rejects(s, d) /\ ~Known(s, d)
    <2>1. CASE Doc[d].kind = "entity"
      <3>1. /\ t \in Servers /\ t.rec = s.rec /\ t.meta = s.meta
            /\ \/ t.log = s.log /\ t.ent = s.ent /\ s.ent[Doc[d].author] # 0
               \/ /\ t.log = s.log \union {d}
                  /\ t.ent = [s.ent EXCEPT ![Doc[d].author] = d]
        BY <1>2, <2>1, CommitEntityFacts
      <3>2. CASE t.log = s.log /\ t.ent = s.ent /\ s.ent[Doc[d].author] # 0
        BY <2>1, <3>1, <3>2
      <3>3. CASE /\ t.log = s.log \union {d}
                 /\ t.ent = [s.ent EXCEPT ![Doc[d].author] = d]
        <4>1. \A o \in Owners : t.ent[o] = IF o = Doc[d].author THEN d ELSE s.ent[o]
          BY <1>0, <3>3
        <4> QED
          BY <1>0, <2>1, <3>1, <3>3, <4>1
      <3> QED
        BY <3>1, <3>2, <3>3
    <2>2. CASE Doc[d].kind = "record"
      <3>1. /\ t \in Servers /\ t.ent = s.ent /\ t.meta = s.meta
            /\ s.ent[Doc[d].author] # 0
            /\ \/ t = s
               \/ /\ t.log = s.log \union {d}
                  /\ t.rec = [s.rec EXCEPT ![Doc[d].key] = d]
        BY <1>2, <2>2, CommitRecordFacts
      <3>2. CASE t = s
        BY <2>2, <3>1, <3>2
      <3>3. CASE /\ t.log = s.log \union {d}
                 /\ t.rec = [s.rec EXCEPT ![Doc[d].key] = d]
        <4>1. \A q \in Keys : t.rec[q] = IF q = Doc[d].key THEN d ELSE s.rec[q]
          BY <1>0, <3>3
        <4> QED
          BY <1>0, <2>2, <3>1, <3>3, <4>1
      <3> QED
        BY <3>1, <3>2, <3>3
    <2>3. CASE Doc[d].kind = "delete"
      <3>1. /\ t \in Servers /\ t.ent = s.ent /\ t.meta = s.meta
            /\ s.ent[Doc[d].author] # 0
            /\ t.log = s.log \union {d}
            /\ t.rec = [s.rec EXCEPT ![Doc[d].key] = 0]
        BY <1>2, <2>3, CommitDeleteFacts
      <3>2. \A q \in Keys : t.rec[q] = IF q = Doc[d].key THEN 0 ELSE s.rec[q]
        BY <1>0, <3>1
      <3> QED
        BY <1>0, <2>3, <3>1, <3>2
    <2> QED
      BY <2>1, <2>2, <2>3, DocFacts
  <1> QED
    BY <1>1, <1>2

\* The line that is read is the first after the last one.
LEMMA ReadingFacts ==
    ASSUME TransferTyped, NEW d \in Ids, Reading(d)
    PROVE  /\ import.stage \in {"entity", "other"}
           /\ d \in dump.file /\ d > import.pos
           /\ \A e \in dump.file : e =< d => e =< import.pos \/ e = d
  <1>1. d \in Unread /\ \A e \in Unread : d =< e
    BY DEF Reading
  <1>2. ASSUME NEW e \in dump.file, e =< d PROVE e =< import.pos \/ e = d
    <2>1. e \in Nat /\ d \in Nat /\ import.pos \in Nat
      BY TransferAssumption DEF TransferTyped
    <2>2. e > import.pos => d =< e
      BY <1>1 DEF Unread
    <2> QED
      BY <1>2, <2>1, <2>2
  <1> QED
    BY <1>1, <1>2 DEF Reading, Unread

\* What a line of the import does.
LEMMA LineStep ==
    ASSUME TransferTyped, NEW d \in Ids, ImportLine(d)
    PROVE  /\ Reading(d)
           /\ dest' = IF Wanted(import.stage, d) THEN Committed(dest, d) ELSE dest
           /\ import'.stage = import.stage /\ import'.pos = d
           /\ import'.runs = import.runs
           /\ \A e \in import'.failed :
                e \in import.failed
                \/ (e = d /\ Wanted(import.stage, d) /\ Rejects(dest, d))
           /\ UNCHANGED <<source, dump, excluded, moved, collected, lastDelete,
                          misdated, refused>>
  <1>1. /\ Reading(d)
        /\ dest' = IF Wanted(import.stage, d) THEN Committed(dest, d) ELSE dest
        /\ import'.stage = import.stage /\ import'.pos = d
        /\ import'.runs = import.runs
        /\ UNCHANGED <<source, dump, excluded, moved, collected, lastDelete,
                       misdated, refused>>
    BY DEF ImportLine, TransferTyped, history
  <1>2. \A e \in import'.failed :
            e \in import.failed
            \/ (e = d /\ Wanted(import.stage, d) /\ Rejects(dest, d))
    BY DEF ImportLine, TransferTyped
  <1> QED
    BY <1>1, <1>2

\* What a refused line does.
LEMMA RefusalStep ==
    ASSUME TransferTyped, NEW d \in Ids, ImportRefuses(d)
    PROVE  /\ Reading(d) /\ import.stage = "other" /\ Doc[d].kind # "entity"
           /\ import'.stage = import.stage /\ import'.pos = d
           /\ import'.runs = import.runs
           /\ import'.failed = import.failed \union {d}
           /\ refused' = refused \union {d}
           /\ UNCHANGED <<source, dest, dump, excluded, moved, collected,
                          lastDelete, misdated>>
  <1>1. import.stage = "other"
    BY DEF ImportRefuses, Reading, Wanted
  <1> QED
    BY <1>1 DEF ImportRefuses, TransferTyped

\* A line that is read keeps the importing server consistent.
LEMMA LineKeeps ==
    ASSUME TransferTyped, ImportKeeps, NEW d \in Ids, ImportLine(d)
    PROVE  ImportKeeps'
  <1>0. /\ dest \in Servers /\ dump.file \subseteq Ids
        /\ \A e \in Ids : Doc[e].author \in Owners
    BY DocFacts DEF TransferTyped
  <1>l. /\ import.stage \in {"entity", "other"}
        /\ d \in dump.file
        /\ \A e \in dump.file : e =< d => e =< import.pos \/ e = d
        /\ import'.stage = import.stage /\ import'.pos = d
        /\ import'.runs = import.runs /\ dump' = dump
    BY LineStep, ReadingFacts
  <1>p. \A e \in Keys : Lines(e)' = Lines(e)
    BY <1>l DEF Lines
  <1>1. CASE ~Wanted(import.stage, d)
    <2>1. dest' = dest
      BY <1>1, LineStep
    <2>2. import.stage = "entity" => Doc[d].kind # "entity"
      BY <1>1 DEF Wanted
    <2> QED
      BY <1>l, <1>p, <2>1, <2>2 DEF ImportKeeps
  <1>2. CASE Wanted(import.stage, d)
    <2>1. dest' = Committed(dest, d)
      BY <1>2, LineStep
    <2>2. /\ dest'.meta = dest.meta
          /\ dest'.log \subseteq dest.log \union {d}
          /\ \A o \in Owners : dest.ent[o] # 0 => dest'.ent[o] # 0
          /\ d \in dest'.log /\ d \notin dest.log => dest'.ent[Doc[d].author] # 0
          /\ Doc[d].kind = "entity" /\ ~Rejects(dest, d) /\ d \notin dest.log
                => dest'.ent[Doc[d].author] # 0
          /\ \A q \in Keys : dest'.rec[q] = dest.rec[q] \/ dest'.rec[q] = 0
                              \/ (dest'.rec[q] = d /\ Doc[d].key = q
                                  /\ Doc[d].kind = "record" /\ d \in dest'.log)
      BY <1>0, <2>1, CommitGives
    <2>3. Doc[d].kind = "entity" => dest'.ent[Doc[d].author] # 0
      <3>1. Doc[d].kind = "entity" => ~Rejects(dest, d)
        BY <1>0, <1>l DEF Rejects, ImportKeeps
      <3> QED
        BY <1>0, <2>2, <3>1 DEF ImportKeeps
    <2>4. \A e \in dest'.log : dest'.ent[Doc[e].author] # 0
      BY <1>0, <1>l, <2>2 DEF ImportKeeps
    <2>5. \A q \in Keys : dest'.rec[q] # 0 => dest'.rec[q] \in Lines(q)
      BY <1>l, <2>2 DEF ImportKeeps, Lines
    <2>6. ASSUME NEW e \in dump.file, Doc[e].kind = "entity",
                 import.stage = "entity" => e =< d
          PROVE  dest'.ent[Doc[e].author] # 0
      <3>1. e # d => dest.ent[Doc[e].author] # 0
        BY <1>l, <2>6 DEF ImportKeeps
      <3> QED
        BY <1>0, <2>2, <2>3, <2>6, <3>1
    <2>7. dest'.meta = Owners /\ import'.runs > 0 /\ dest'.log \subseteq dump.file
      BY <1>l, <2>2 DEF ImportKeeps
    <2> QED
      BY <1>l, <1>p, <2>4, <2>5, <2>6, <2>7 DEF ImportKeeps
  <1> QED
    BY <1>1, <1>2

\* ImportKeeps is kept.
LEMMA KeepsStep ==
    ASSUME TransferTyped, DumpInv, IdleInv, IdleInv', DumpInv',
           dump.stage = "done" /\ ~moved => ImportKeeps,
           [TransferNext]_transferVars, dump'.stage = "done", ~moved'
    PROVE  ImportKeeps'
  <1>1. CASE import'.stage = "idle"
    <2>1. /\ import' = [stage |-> "idle", pos |-> 0, failed |-> {}, runs |-> 0]
          /\ dest' = EmptyServer({})'
      BY <1>1 DEF IdleInv
    <2>2. /\ dest'.log = {} /\ dest'.rec = [k \in Keys |-> 0]
      BY <2>1 DEF EmptyServer
    <2> QED
      BY <1>1, <2>2 DEF ImportKeeps
  <1>2. CASE import'.stage # "idle"
    <2>1. ASSUME NEW d \in Ids, SourceCommits(d) PROVE FALSE
      BY <2>1, <1>2 DEF SourceCommits
    <2>2. ASSUME NEW d \in Ids, SourceCollects(d) PROVE FALSE
      BY <2>2 DEF SourceCollects, TransferTyped
    <2>3. ASSUME NEW d \in Ids, DumpPage(d) PROVE FALSE
      BY <2>3 DEF DumpPage, TransferTyped
    <2>4. CASE DumpMetas
      BY <2>4 DEF DumpMetas, TransferTyped
    <2>5. CASE DumpEnds
      BY <1>2, <2>5 DEF DumpEnds, DumpInv
    <2>6. ASSUME NEW o \in Owners, Filter(o) PROVE FALSE
      BY <1>2, <2>6 DEF Filter
    <2>7. ASSUME NEW d \in Ids, ImportLine(d) PROVE ImportKeeps'
      <3>1. ImportKeeps
        BY <2>7, LineStep
      <3> QED
        BY <2>7, <3>1, LineKeeps
    <2>r. ASSUME NEW d \in Ids, ImportRefuses(d) PROVE ImportKeeps'
      <3>1. /\ ImportKeeps /\ import.stage = "other" /\ import'.stage = "other"
            /\ import'.runs = import.runs /\ UNCHANGED <<dump, dest>>
        BY <2>r, RefusalStep
      <3>2. \A k \in Keys : Lines(k)' = Lines(k)
        BY <3>1 DEF Lines
      <3> QED
        BY <3>1, <3>2 DEF ImportKeeps
    <2>8. CASE ImportMetas
      <3>1. ImportKeeps /\ dump.metas = Owners
        BY <2>8 DEF ImportMetas, DumpInv
      <3>2. /\ dest'.meta = dest.meta \union dump.metas
            /\ dest'.log = dest.log /\ dest'.rec = dest.rec /\ dest'.ent = dest.ent
            /\ dest.meta \subseteq Owners
        BY <2>8 DEF ImportMetas, TransferTyped, Servers
      <3>3. /\ import'.stage = "entity" /\ import'.pos = 0
            /\ import'.runs = import.runs + 1 /\ import.runs \in Nat
            /\ dump' = dump
        BY <2>8 DEF ImportMetas, TransferTyped
      <3>4. \A k \in Keys : Lines(k)' = Lines(k)
        BY <3>3 DEF Lines
      <3>5. \A d \in dump.file : ~(d =< 0)
        BY TransferAssumption DEF TransferTyped
      <3> QED
        BY <3>1, <3>2, <3>3, <3>4, <3>5 DEF ImportKeeps
    <2>9. CASE ImportPhaseEnds
      <3>1. ImportKeeps
        BY <2>9 DEF ImportPhaseEnds
      <3>2. /\ import.stage \in {"entity", "other"} /\ Unread = {}
            /\ import'.stage = IF import.stage = "entity" THEN "other" ELSE "done"
            /\ import'.runs = import.runs /\ UNCHANGED <<dump, dest>>
        BY <2>9 DEF ImportPhaseEnds, TransferTyped
      <3>3. \A k \in Keys : Lines(k)' = Lines(k)
        BY <3>2 DEF Lines
      <3>4. ASSUME NEW d \in dump.file PROVE d =< import.pos
        <4>1. ~(d > import.pos)
          BY <3>2 DEF Unread
        <4>2. d \in Nat /\ import.pos \in Nat
          BY TransferAssumption DEF TransferTyped
        <4> QED
          BY <4>1, <4>2
      <3> QED
        BY <3>1, <3>2, <3>3, <3>4 DEF ImportKeeps
    <2>10. CASE ImportStops
      <3>1. /\ import.stage \in {"entity", "other"} /\ import'.stage = "stopped"
            /\ import'.runs = import.runs /\ UNCHANGED <<dump, dest, moved>>
        BY <2>10 DEF ImportStops, TransferTyped
      <3>2. \A k \in Keys : Lines(k)' = Lines(k)
        BY <3>1 DEF Lines
      <3> QED
        BY <3>1, <3>2 DEF ImportKeeps
    <2>11. CASE UNCHANGED transferVars
      BY <2>11 DEF transferVars, ImportKeeps, Lines
    <2> QED
      BY <2>1, <2>2, <2>3, <2>4, <2>5, <2>6, <2>7, <2>8, <2>9, <2>10, <2>11,
         <2>r
      DEF TransferNext
  <1> QED
    BY <1>1, <1>2

\* In the second phase the author of every line is there.
LEMMA AuthorThere ==
    ASSUME TransferTyped, SourceKeeps, DumpInv, dump.stage = "done", ~moved,
           ImportKeeps, import.stage = "other", NEW d \in dump.file
    PROVE  dest.ent[Doc[d].author] # 0
  <1>1. dump.file = {e \in source.log : ~Concerns(excluded, e)}
    BY DEF DumpInv
  <1>2. d \in source.log /\ d \in Ids /\ ~Concerns(excluded, d)
    BY <1>1 DEF TransferTyped
  <1>3. Doc[d].author \in Owners
    BY <1>2, DocFacts
  <1>4. source.ent[Doc[d].author] # 0
    BY <1>2 DEF SourceKeeps
  <1>5. PICK e \in source.log : Doc[e].kind = "entity" /\ Doc[e].author = Doc[d].author
    BY <1>3, <1>4 DEF SourceKeeps
  <1>6. e \in dump.file
    <2>1. Doc[e].owner = Doc[e].author
      BY <1>5, TransferAssumption DEF TransferTyped, Servers
    <2> QED
      BY <1>1, <1>2, <1>5, <2>1 DEF Concerns
  <1> QED
    BY <1>5, <1>6 DEF ImportKeeps

\* Lines are numbers, each of one key.
LEMMA LinesTyped ==
    ASSUME TransferTyped, NEW k \in Keys
    PROVE  /\ \A e \in Lines(k) : e \in Ids /\ e \in Nat /\ Doc[e].key = k
                                  /\ Doc[e].kind # "entity" /\ e \in dump.file
           /\ Replayed(k) \subseteq Lines(k)
           /\ dest.rec[k] \in Nat /\ import.pos \in Nat
  <1>1. ASSUME NEW e \in Lines(k)
        PROVE  e \in Ids /\ Doc[e].key = k /\ Doc[e].kind # "entity" /\ e \in dump.file
    BY DEF Lines, TransferTyped
  <1>2. \A e \in Lines(k) : e \in Nat
    BY <1>1, IdPositive
  <1>3. dest.rec[k] \in Ids \union {0}
    BY DEF TransferTyped, Servers
  <1>4. dest.rec[k] \in Nat
    BY <1>3, IdNumber
  <1> QED
    BY <1>1, <1>2, <1>4 DEF Replayed, TransferTyped

\* A line that does not touch a key leaves it as it was.
LEMMA LineOther ==
    ASSUME TransferTyped, NEW d \in Ids, Reading(d), NEW k \in Keys,
           import'.stage = import.stage, import'.pos = d, dump' = dump,
           d \notin Lines(k), Resumed(k),
           dest'.rec[k] = dest.rec[k], dest.log \subseteq dest'.log,
           dest'.log \subseteq dest.log \union {d}
    PROVE  Resumed(k)'
  <1>1. /\ import'.stage = import.stage /\ import'.pos = d /\ d > import.pos
        /\ \A e \in dump.file : e =< d => e =< import.pos \/ e = d
        /\ dump' = dump
    BY ReadingFacts
  <1>2. Lines(k)' = Lines(k) /\ \A e : Orphan(k, e)' <=> Orphan(k, e)
    BY <1>1 DEF Lines, Orphan
  <1>3. Orphaned(k)' <=> Orphaned(k)
    BY <1>2 DEF Orphaned
  <1>4. Replayed(k)' = Replayed(k)
    BY <1>2 DEF Replayed
  <1>5. d \in Nat /\ import.pos \in Nat /\ \A e \in Lines(k) : e \in Nat /\ e \in dump.file
    BY LinesTyped, IdPositive
  <1>6. Replayed(k) \subseteq Lines(k)
    BY DEF Replayed
  <1>7. \A e \in Lines(k) : e > import.pos => e > d
    BY <1>1, <1>5
  <1>8. import.stage = "other" /\ Orphaned(k) => \A e \in Replayed(k) : e =< d
    BY <1>1, <1>5, <1>6 DEF Resumed
  <1> QED
    BY <1>1, <1>2, <1>3, <1>4, <1>7, <1>8 DEF Resumed

\* A line of a key: a known one, an orphaned delete, which is rejected, or the
\* next commit of the key, which is accepted.
LEMMA LineOwn ==
    ASSUME TransferTyped, SourceKeeps, DumpInv, dump.stage = "done", ~moved,
           ImportKeeps, NEW d \in Ids, ImportLine(d), import.stage = "other",
           NEW k \in Keys, Ordered(k), Kept(k), d \in Lines(k), Resumed(k)
    PROVE  Resumed(k)' /\ (Rejects(dest, d) => Orphan(k, d))
  <1>1. /\ import'.stage = import.stage /\ import'.pos = d /\ d > import.pos
        /\ \A e \in dump.file : e =< d => e =< import.pos \/ e = d
        /\ dump' = dump /\ d \in dump.file
    BY LineStep, ReadingFacts
  <1>2. Lines(k)' = Lines(k) /\ \A e : Orphan(k, e)' <=> Orphan(k, e)
    BY <1>1 DEF Lines, Orphan
  <1>3. Orphaned(k)' <=> Orphaned(k)
    BY <1>2 DEF Orphaned
  <1>4. /\ d \in Nat /\ import.pos \in Nat /\ Doc[d].key = k
        /\ Doc[d].kind # "entity" /\ dest.rec[k] \in Nat
        /\ \A e \in Lines(k) : e \in Nat /\ e \in dump.file
    BY LinesTyped, IdPositive
  <1>5. Replayed(k) \subseteq Lines(k)
    BY DEF Replayed
  <1>6. dest' = Committed(dest, d)
    BY <1>4, LineStep DEF Wanted
  <1>7. ASSUME NEW e \in Lines(k) PROVE e =< d \/ e > d
    <2>1. e \in Nat /\ d \in Nat
      BY <1>4
    <2> QED
      BY <2>1
  <1>8. ASSUME NEW e \in Lines(k), e < d PROVE e =< import.pos
    <2>1. e \in Nat /\ d \in Nat /\ e \in dump.file
      BY <1>4
    <2>2. e =< d /\ e # d
      BY <1>8, <2>1
    <2> QED
      BY <1>1, <2>1, <2>2
  <1>9. ASSUME NEW e \in Lines(k), e =< import.pos PROVE e < d /\ e =< d
    <2>1. e \in Nat /\ d \in Nat /\ import.pos \in Nat /\ d > import.pos
      BY <1>1, <1>4
    <2> QED
      BY <1>9, <2>1
  <1>10. \A e \in Lines(k) : e < d => e \in Replayed(k) \/ Orphan(k, e)
    BY <1>8, <1>4, <1>9 DEF Resumed
  <1>11. CASE d \in dest.log
    <2>1. dest' = dest /\ ~Rejects(dest, d) /\ d \in Replayed(k)
      BY <1>6, <1>11, CommitUnchanged DEF Known, Rejects, Replayed
    <2>2. Replayed(k)' = Replayed(k)
      BY <1>2, <2>1 DEF Replayed
    <2>3. \A e \in Lines(k) : e > d \/ e \in Replayed(k) \/ Orphan(k, e)
      BY <1>4, <1>10, <2>1
    <2>4. Orphaned(k) => \A e \in Replayed(k) : e =< d
      BY <1>5, <1>9 DEF Resumed
    <2> QED
      BY <1>1, <1>2, <1>3, <2>1, <2>2, <2>3, <2>4 DEF Resumed
  <1>12. CASE d \notin dest.log /\ Orphan(k, d)
    <2>1. Replayed(k) = {}
      <3>1. ASSUME NEW e \in Replayed(k) PROVE FALSE
        <4>1. e =< import.pos
          BY <1>12, <3>1 DEF Resumed, Orphaned
        <4>2. d =< e /\ e < d
          BY <1>5, <1>9, <1>12, <3>1, <4>1 DEF Orphan
        <4>3. e \in Nat /\ d \in Nat
          BY <1>4, <1>5
        <4> QED
          BY <4>2, <4>3
      <3> QED
        BY <3>1
    <2>2. dest.rec[k] = 0
      BY <2>1 DEF Resumed
    <2>3. Rejects(dest, d)
      BY <1>4, <1>12, <2>2 DEF Rejects, Orphan
    <2>4. dest' = dest
      BY <1>6, <2>3, CommitUnchanged
    <2>5. Replayed(k)' = Replayed(k)
      BY <1>2, <2>4 DEF Replayed
    <2>6. \A e \in Lines(k) : e > d \/ e \in Replayed(k) \/ Orphan(k, e)
      BY <1>4, <1>10, <1>12
    <2> QED
      BY <1>1, <1>2, <1>3, <1>12, <2>1, <2>4, <2>5, <2>6 DEF Resumed
  <1>13. CASE d \notin dest.log /\ ~Orphan(k, d)
    <2>1. \A e \in Replayed(k) : e < d
      <3>1. ASSUME NEW e \in Replayed(k), d < e PROVE FALSE
        <4>1. d \in Replayed(k) \/ Orphan(k, d)
          BY <3>1 DEF Resumed
        <4> QED
          BY <1>13, <4>1 DEF Replayed
      <3>2. d \notin Replayed(k)
        BY <1>13 DEF Replayed
      <3> QED
        BY <1>4, <1>5, <3>1, <3>2
    <2>2. dest.ent[Doc[d].author] # 0 /\ dest \in Servers
      BY <1>1, AuthorThere DEF TransferTyped
    <2>3. dest.rec[k] # 0 => dest.rec[k] \in Replayed(k)
      BY DEF Resumed
    <2>4. /\ ~Rejects(dest, d) /\ dest'.log = dest.log \union {d}
          /\ \/ Doc[d].kind = "record" /\ dest'.rec[k] = d
             \/ Doc[d].kind = "delete" /\ dest'.rec[k] = 0
      <3>1. CASE Doc[d].kind = "record"
        <4>1. ~Rejects(dest, d) /\ ~Known(dest, d)
          BY <1>13, <2>2, <3>1 DEF Rejects, Known
        <4>2. d > dest.rec[k]
          <5>1. dest.rec[k] = 0 \/ dest.rec[k] < d
            BY <2>1, <2>3
          <5>2. d > 0
            BY IdPositive
          <5> QED
            BY <1>4, <5>1, <5>2
        <4>3. /\ dest'.log = dest.log \union {d}
              /\ dest'.rec = [dest.rec EXCEPT ![k] = d]
          BY <1>4, <1>6, <2>2, <3>1, <4>1, <4>2, CommitRecordFacts
        <4>4. dest.rec \in [Keys -> Ids \union {0}]
          BY <2>2 DEF Servers
        <4> QED
          BY <3>1, <4>1, <4>3, <4>4
      <3>2. CASE Doc[d].kind = "delete"
        <4>1. PICK r \in Lines(k) : /\ Doc[r].kind = "record" /\ r < d
                                    /\ \A e \in Lines(k) : e =< r \/ d =< e
          BY <1>13, <3>2, LineFacts
        <4>2. r \in Replayed(k)
          BY <1>10, <4>1 DEF Orphan
        <4>3. dest.rec[k] # 0
          <5>1. SUFFICES ASSUME dest.rec[k] = 0 PROVE FALSE
            OBVIOUS
          <5>2. PICK m \in Replayed(k) : Doc[m].kind = "delete"
                                         /\ \A e \in Replayed(k) : e =< m
            BY <4>2, <5>1 DEF Resumed
          <5>3. r =< m /\ m < d /\ (m =< r \/ d =< m)
            BY <1>5, <2>1, <4>1, <4>2, <5>2
          <5>4. r \in Nat /\ m \in Nat
            BY <1>4, <1>5
          <5>5. r = m
            BY <1>4, <5>3, <5>4
          <5> QED
            BY <4>1, <5>2, <5>5
        <4>4. ~Rejects(dest, d) /\ ~Known(dest, d)
          BY <1>4, <1>13, <2>2, <3>2, <4>3 DEF Rejects, Known
        <4>5. /\ dest'.log = dest.log \union {d}
              /\ dest'.rec = [dest.rec EXCEPT ![k] = 0]
          BY <1>4, <1>6, <2>2, <3>2, <4>4, CommitDeleteFacts
        <4>6. dest.rec \in [Keys -> Ids \union {0}]
          BY <2>2 DEF Servers
        <4> QED
          BY <3>2, <4>4, <4>5, <4>6
      <3> QED
        BY <1>4, <3>1, <3>2, DocFacts
    <2>5. Replayed(k)' = Replayed(k) \union {d}
      BY <1>2, <2>4 DEF Replayed
    <2>6. /\ \A e \in Replayed(k)' : e =< d
          /\ d \in Replayed(k)'
      <3>1. ASSUME NEW e \in Replayed(k) \union {d} PROVE e =< d
        <4>1. e \in Nat /\ d \in Nat /\ (e = d \/ e < d)
          BY <1>4, <1>5, <2>1
        <4> QED
          BY <4>1
      <3> QED
        BY <2>5, <3>1
    <2>7. ASSUME NEW x \in Replayed(k)'
          PROVE  /\ ~Orphan(k, x)
                 /\ \A e \in Lines(k) : e < x => e \in Replayed(k)' \/ Orphan(k, e)
      <3>1. CASE x = d
        BY <1>10, <1>13, <2>5, <3>1
      <3>2. CASE x \in Replayed(k)
        BY <2>5, <3>2 DEF Resumed
      <3> QED
        BY <2>5, <3>1, <3>2
    <2>8. \A e \in Lines(k) : e > d \/ e \in Replayed(k)' \/ Orphan(k, e)
      <3>1. ASSUME NEW e \in Lines(k) PROVE e < d \/ e = d \/ e > d
        <4>1. e \in Nat /\ d \in Nat
          BY <1>4
        <4> QED
          BY <4>1
      <3> QED
        BY <1>10, <2>5, <3>1
    <2>9. d # 0
      BY DocFacts
    <2> QED
      BY <1>1, <1>2, <1>3, <2>4, <2>6, <2>7, <2>8, <2>9 DEF Resumed
  <1> QED
    BY <1>11, <1>12, <1>13

\* The keys excepted stay the same.
LEMMA SameKeys ==
    ASSUME UNCHANGED <<excluded, refused>>
    PROVE  \A k : (Kept(k)' <=> Kept(k)) /\ (Permitted(k)' <=> Permitted(k))
  BY DEF Kept, Permitted, Concerns

\* A line of the import, of either phase.
LEMMA LineReplays ==
    ASSUME TransferTyped, SourceKeeps, DumpInv, dump.stage = "done", ~moved,
           ImportKeeps, ReplayInv, \A k \in Keys : Ordered(k),
           NEW d \in Ids, ImportLine(d)
    PROVE  ReplayInv'
  <1>1. /\ import.stage \in {"entity", "other"} /\ dump' = dump
        /\ import'.runs = import.runs /\ d \in dump.file
        /\ \A e \in import'.failed :
            e \in import.failed
            \/ (e = d /\ Wanted(import.stage, d) /\ Rejects(dest, d))
        /\ import'.stage = import.stage /\ import'.pos = d /\ Reading(d)
    BY LineStep, ReadingFacts
  <1>k. \A k : (Kept(k)' <=> Kept(k)) /\ (Permitted(k)' <=> Permitted(k))
    BY LineStep, SameKeys
  <1>t. import.failed \subseteq Ids
    BY DEF TransferTyped
  <1>2. \A k \in Keys : Lines(k)' = Lines(k) /\ (Orphaned(k)' <=> Orphaned(k))
    BY <1>1 DEF Lines, Orphaned, Orphan
  <1>3. Doc[d].key \in Keys /\ Doc[d].author \in Owners
    BY DocFacts
  <1>4. /\ dest.log \subseteq dest'.log /\ dest'.log \subseteq dest.log \union {d}
        /\ \A q \in Keys :
            q # Doc[d].key \/ Doc[d].kind = "entity" => dest'.rec[q] = dest.rec[q]
    <2>1. CASE Wanted(import.stage, d)
      <3>1. dest' = Committed(dest, d) /\ dest \in Servers
        BY <2>1, LineStep DEF TransferTyped
      <3> QED
        BY <3>1, CommitGives
    <2>2. CASE ~Wanted(import.stage, d)
      <3>1. dest' = dest
        BY <2>2, LineStep
      <3> QED
        BY <3>1
    <2> QED
      BY <2>1, <2>2
  <1>5. ASSUME NEW k \in Keys, d \notin Lines(k), Resumed(k)
        PROVE  Resumed(k)'
    <2>1. k # Doc[d].key \/ Doc[d].kind = "entity"
      BY <1>1, <1>5 DEF Lines
    <2> QED
      BY <1>1, <1>4, <1>5, <2>1, LineOther
  <1>6. CASE import.stage = "entity"
    <2>1. CASE Doc[d].kind = "entity"
      <3>1. ~Rejects(dest, d)
        BY <1>1, <1>3, <2>1 DEF Rejects, ImportKeeps
      <3>2. \A k \in Keys : d \notin Lines(k)
        BY <2>1 DEF Lines
      <3> QED
        BY <1>1, <1>2, <1>k, <1>t, <1>5, <3>1, <3>2, DocFacts DEF ReplayInv
    <2>2. CASE Doc[d].kind # "entity"
      <3>1. ~Wanted(import.stage, d)
        BY <1>6, <2>2 DEF Wanted
      <3>2. dest' = dest /\ import'.stage = import.stage
        BY <3>1, LineStep
      <3>3. \A k \in Keys : Replayed(k)' = Replayed(k)
        BY <1>2, <3>2 DEF Replayed
      <3>4. \A k \in Keys : \A e : Orphan(k, e)' <=> Orphan(k, e)
        BY <1>1 DEF Orphan, Lines
      <3>5. \A k \in Keys : Resumed(k) => Resumed(k)'
        BY <1>2, <1>6, <3>2, <3>3, <3>4 DEF Resumed
      <3> QED
        BY <1>1, <1>2, <1>k, <1>t, <3>1, <3>5, DocFacts DEF ReplayInv
    <2> QED
      BY <2>1, <2>2
  <1>7. CASE import.stage = "other"
    <2>1. CASE Doc[d].kind = "entity"
      <3>1. ~Wanted(import.stage, d)
        BY <1>7, <2>1 DEF Wanted
      <3>2. \A k \in Keys : d \notin Lines(k)
        BY <2>1 DEF Lines
      <3> QED
        BY <1>1, <1>2, <1>k, <1>t, <1>5, <3>1, <3>2, DocFacts DEF ReplayInv
    <2>2. CASE Doc[d].kind # "entity"
      <3>1. \A k \in Keys : d \in Lines(k) <=> k = Doc[d].key
        BY <1>1, <2>2 DEF Lines
      <3>2. ASSUME Resumed(Doc[d].key), Kept(Doc[d].key)
            PROVE  /\ Resumed(Doc[d].key)'
                   /\ Rejects(dest, d) => Orphaned(Doc[d].key)
        <4> DEFINE k == Doc[d].key
        <4>1. k \in Keys /\ d \in Lines(k) /\ Ordered(k)
          BY <1>3, <3>1
        <4> HIDE DEF k
        <4>2. Resumed(k) /\ Kept(k)
          BY <3>2 DEF k
        <4>3. Resumed(k)' /\ (Rejects(dest, d) => Orphan(k, d))
          BY <1>7, <4>1, <4>2, LineOwn
        <4> QED
          BY <4>3 DEF Orphaned, k
      <3>3. ASSUME NEW e \in import'.failed,
                   Kept(Doc[e].key)', Permitted(Doc[e].key)'
            PROVE  Orphaned(Doc[e].key)'
        <4>1. /\ e \in import.failed => e \in Ids
              /\ Kept(Doc[e].key) /\ Permitted(Doc[e].key)
          BY <1>k, <1>t, <3>3
        <4>2. CASE e \in import.failed
          <5>1. Orphaned(Doc[e].key) /\ Doc[e].key \in Keys
            BY <4>1, <4>2, DocFacts DEF ReplayInv
          <5> QED
            BY <1>2, <5>1
        <4>3. CASE e = d /\ Rejects(dest, d)
          <5>1. SUFFICES ASSUME ~Orphaned(Doc[d].key) PROVE FALSE
            BY <1>2, <1>3, <4>3
          <5>2. Resumed(Doc[d].key)
            BY <1>3, <4>1, <4>3, <5>1 DEF ReplayInv
          <5> QED
            BY <3>2, <4>1, <4>3, <5>1, <5>2
        <4> QED
          BY <1>1, <4>2, <4>3
      <3>4. ASSUME NEW k \in Keys, Resumed(k), Kept(k) PROVE Resumed(k)'
        <4>1. CASE k = Doc[d].key
          BY <3>2, <3>4, <4>1
        <4>2. CASE k # Doc[d].key
          BY <1>5, <3>1, <3>4, <4>2
        <4> QED
          BY <4>1, <4>2
      <3> QED
        BY <1>1, <1>2, <1>k, <3>3, <3>4 DEF ReplayInv
    <2> QED
      BY <2>1, <2>2
  <1> QED
    BY <1>1, <1>6, <1>7

\* A refused line excepts its key, and leaves the others as they were.
LEMMA RefusalReplays ==
    ASSUME TransferTyped, ReplayInv, NEW d \in Ids, ImportRefuses(d)
    PROVE  ReplayInv'
  <1>1. /\ Reading(d) /\ import.stage = "other" /\ Doc[d].kind # "entity"
        /\ import'.stage = import.stage /\ import'.pos = d
        /\ import'.runs = import.runs /\ import'.failed = import.failed \union {d}
        /\ refused' = refused \union {d} /\ UNCHANGED <<dest, dump, excluded>>
    BY RefusalStep
  <1>2. \A k \in Keys : Orphaned(k)' <=> Orphaned(k)
    BY <1>1 DEF Lines, Orphaned, Orphan
  <1>3. \A k : (Kept(k)' <=> Kept(k)) /\ (Permitted(k)' => Permitted(k))
    BY <1>1 DEF Kept, Permitted, Concerns
  <1>4. ~Permitted(Doc[d].key)'
    BY <1>1 DEF Permitted
  <1>5. import.failed \subseteq Ids
    BY DEF TransferTyped
  <1>6. ASSUME NEW e \in import'.failed,
               Kept(Doc[e].key)', Permitted(Doc[e].key)'
        PROVE  Orphaned(Doc[e].key)'
    <2>1. e \in import.failed /\ e \in Ids
      BY <1>1, <1>4, <1>5, <1>6
    <2> QED
      BY <1>2, <1>3, <1>6, <2>1, DocFacts DEF ReplayInv
  <1>7. ASSUME NEW k \in Keys, Kept(k)', Permitted(k)',
               Orphaned(k)' => import'.runs =< 1
        PROVE  Resumed(k)'
    <2>1. Resumed(k)
      BY <1>1, <1>2, <1>3, <1>7 DEF ReplayInv
    <2>2. d \notin Lines(k)
      BY <1>4, <1>7 DEF Lines
    <2> QED
      BY <1>1, <2>1, <2>2, LineOther
  <1> QED
    BY <1>6, <1>7 DEF ReplayInv

\* Nothing is imported before the first run.
LEMMA IdleReplays ==
    ASSUME IdleInv', import'.stage = "idle"
    PROVE  ReplayInv'
  <1>1. /\ import' = [stage |-> "idle", pos |-> 0, failed |-> {}, runs |-> 0]
        /\ dest' = EmptyServer({})'
    BY DEF IdleInv
  <1>2. dest'.log = {} /\ dest'.rec = [k \in Keys |-> 0] /\ import'.failed = {}
    BY <1>1 DEF EmptyServer
  <1>3. ASSUME NEW k \in Keys PROVE Resumed(k)'
    <2>1. Replayed(k)' = {} /\ dest'.rec[k] = 0
      BY <1>2 DEF Replayed
    <2> QED
      BY <2>1 DEF Resumed
  <1> QED
    BY <1>2, <1>3 DEF ReplayInv

\* ReplayInv is kept.
LEMMA ReplayStep ==
    ASSUME TransferTyped, SourceKeeps, DumpInv, IdleInv, IdleInv',
           dump.stage = "done" /\ ~moved => ImportKeeps,
           ~misdated => \A k \in Keys : Ordered(k),
           dump.stage = "done" /\ ~moved /\ ~misdated => ReplayInv,
           [TransferNext]_transferVars, dump'.stage = "done", ~moved', ~misdated'
    PROVE  ReplayInv'
  <1>1. CASE import'.stage = "idle"
    BY <1>1, IdleReplays
  <1>2. CASE import'.stage # "idle"
    <2>1. ASSUME NEW d \in Ids, SourceCommits(d) PROVE FALSE
      BY <2>1, <1>2 DEF SourceCommits
    <2>2. ASSUME NEW d \in Ids, SourceCollects(d) PROVE FALSE
      BY <2>2 DEF SourceCollects, TransferTyped
    <2>3. ASSUME NEW d \in Ids, DumpPage(d) PROVE FALSE
      BY <2>3 DEF DumpPage, TransferTyped
    <2>4. CASE DumpMetas
      BY <2>4 DEF DumpMetas, TransferTyped
    <2>5. CASE DumpEnds
      BY <1>2, <2>5 DEF DumpEnds, DumpInv
    <2>6. ASSUME NEW o \in Owners, Filter(o) PROVE FALSE
      BY <1>2, <2>6 DEF Filter
    <2>7. ASSUME NEW d \in Ids, ImportLine(d) PROVE ReplayInv'
      <3>1. UNCHANGED <<dump, moved, misdated>>
        BY <2>7, LineStep
      <3> QED
        BY <2>7, <3>1, LineReplays
    <2>r. ASSUME NEW d \in Ids, ImportRefuses(d) PROVE ReplayInv'
      <3>1. UNCHANGED <<dump, moved, misdated>>
        BY <2>r, RefusalStep
      <3> QED
        BY <2>r, <3>1, RefusalReplays
    <2>8. CASE ImportMetas
      <3>1. /\ UNCHANGED <<dump, moved, misdated>> /\ ReplayInv
            /\ import.stage \in {"idle", "stopped", "done"}
            /\ import'.stage = "entity" /\ import'.runs = import.runs + 1
            /\ import.runs \in Nat /\ import'.failed = {}
            /\ UNCHANGED <<excluded, refused>>
        BY <2>8 DEF ImportMetas, TransferTyped, history
      <3>2. dest'.log = dest.log /\ dest'.rec = dest.rec
        BY <2>8 DEF ImportMetas, TransferTyped, Servers
      <3>3. \A k \in Keys : /\ Lines(k)' = Lines(k) /\ (Orphaned(k)' <=> Orphaned(k))
                            /\ \A e : Orphan(k, e)' <=> Orphan(k, e)
        BY <3>1 DEF Lines, Orphan, Orphaned
      <3>4. \A k \in Keys : Replayed(k)' = Replayed(k)
        BY <3>2, <3>3 DEF Replayed
      <3>k. \A k : (Kept(k)' <=> Kept(k)) /\ (Permitted(k)' <=> Permitted(k))
        BY <3>1, SameKeys
      <3>5. ASSUME NEW k \in Keys, Kept(k), Permitted(k),
                   Orphaned(k) => import'.runs =< 1
            PROVE  Resumed(k)'
        <4>1. Orphaned(k) => import.runs =< 1 /\ import.runs = 0
          BY <3>1, <3>5
        <4>2. Resumed(k)
          BY <3>1, <3>5, <4>1 DEF ReplayInv
        <4>3. Orphaned(k) => import.stage = "idle"
          BY <3>1, <4>1 DEF ImportKeeps, DumpInv
        <4> QED
          BY <3>1, <3>2, <3>3, <3>4, <4>2, <4>3 DEF Resumed
      <3> QED
        BY <3>1, <3>3, <3>k, <3>5 DEF ReplayInv
    <2>9. CASE ImportPhaseEnds
      <3>1. /\ UNCHANGED <<dump, moved, misdated, dest>> /\ ReplayInv
            /\ import.stage \in {"entity", "other"} /\ Unread = {}
            /\ import'.stage = IF import.stage = "entity" THEN "other" ELSE "done"
            /\ import'.pos = 0
            /\ import'.runs = import.runs /\ import'.failed = import.failed
            /\ UNCHANGED <<excluded, refused>> /\ import.failed \subseteq Ids
        BY <2>9 DEF ImportPhaseEnds, TransferTyped, history
      <3>3. \A k \in Keys : /\ Lines(k)' = Lines(k) /\ (Orphaned(k)' <=> Orphaned(k))
                            /\ \A e : Orphan(k, e)' <=> Orphan(k, e)
        BY <3>1 DEF Lines, Orphan, Orphaned
      <3>4. \A k \in Keys : Replayed(k)' = Replayed(k)
        BY <3>1, <3>3 DEF Replayed
      <3>k. \A k : (Kept(k)' <=> Kept(k)) /\ (Permitted(k)' <=> Permitted(k))
        BY <3>1, SameKeys
      <3>5. ASSUME NEW k \in Keys, Resumed(k) PROVE Resumed(k)'
        <4>1. \A e \in Lines(k) : e \in Ids /\ e \in dump.file
          BY LinesTyped
        <4>2. \A e \in Lines(k) : e > 0
          BY <4>1, IdPositive
        <4>3. \A e \in Lines(k) : ~(e > import.pos)
          BY <3>1, <4>1 DEF Unread
        <4>4. CASE import.stage = "entity"
          BY <3>1, <3>3, <3>4, <3>5, <4>2, <4>4 DEF Resumed
        <4>5. CASE import.stage = "other"
          BY <3>1, <3>3, <3>4, <3>5, <4>3, <4>5 DEF Resumed
        <4> QED
          BY <3>1, <4>4, <4>5
      <3> QED
        BY <3>1, <3>3, <3>k, <3>5, DocFacts DEF ReplayInv
    <2>10. CASE ImportStops
      <3>1. /\ UNCHANGED <<dump, moved, misdated, dest>> /\ ReplayInv
            /\ import'.stage = "stopped"
            /\ import'.runs = import.runs /\ import'.failed = import.failed
            /\ UNCHANGED <<excluded, refused>> /\ import.failed \subseteq Ids
        BY <2>10 DEF ImportStops, TransferTyped, history
      <3>3. \A k \in Keys : /\ Lines(k)' = Lines(k) /\ (Orphaned(k)' <=> Orphaned(k))
                            /\ \A e : Orphan(k, e)' <=> Orphan(k, e)
        BY <3>1 DEF Lines, Orphan, Orphaned
      <3>4. \A k \in Keys : Replayed(k)' = Replayed(k)
        BY <3>1, <3>3 DEF Replayed
      <3>k. \A k : (Kept(k)' <=> Kept(k)) /\ (Permitted(k)' <=> Permitted(k))
        BY <3>1, SameKeys
      <3>5. \A k \in Keys : Resumed(k) => Resumed(k)'
        BY <3>1, <3>3, <3>4 DEF Resumed
      <3> QED
        BY <3>1, <3>3, <3>k, <3>5, DocFacts DEF ReplayInv
    <2>11. CASE UNCHANGED transferVars
      <3>1. /\ UNCHANGED <<dump, moved, misdated, dest, import>> /\ ReplayInv
            /\ UNCHANGED <<excluded, refused>> /\ import.failed \subseteq Ids
        BY <2>11 DEF transferVars, history, TransferTyped
      <3>k. \A k : (Kept(k)' <=> Kept(k)) /\ (Permitted(k)' <=> Permitted(k))
        BY <3>1, SameKeys
      <3>2. \A k \in Keys : /\ Lines(k)' = Lines(k) /\ (Orphaned(k)' <=> Orphaned(k))
                            /\ \A e : Orphan(k, e)' <=> Orphan(k, e)
        BY <3>1 DEF Lines, Orphan, Orphaned
      <3>3. \A k \in Keys : Replayed(k)' = Replayed(k)
        BY <3>1, <3>2 DEF Replayed
      <3>4. \A k \in Keys : Resumed(k) => Resumed(k)'
        BY <3>1, <3>2, <3>3 DEF Resumed
      <3> QED
        BY <3>1, <3>2, <3>k, <3>4, DocFacts DEF ReplayInv
    <2> QED
      BY <2>1, <2>2, <2>3, <2>4, <2>5, <2>6, <2>7, <2>8, <2>9, <2>10, <2>11,
         <2>r
      DEF TransferNext
  <1> QED
    BY <1>1, <1>2

\* SourceKeeps and Ordered are kept: only the source's own steps touch them.
LEMMA SourceStep ==
    ASSUME TransferTyped, SourceKeeps, ~misdated => \A k \in Keys : Ordered(k),
           [TransferNext]_transferVars
    PROVE  SourceKeeps' /\ (~misdated' => \A k \in Keys : Ordered(k)')
  <1>1. ASSUME NEW d \in Ids, SourceCommits(d)
        PROVE  SourceKeeps' /\ (~misdated' => \A k \in Keys : Ordered(k)')
    BY <1>1, SourceCommitKeeps, SourceCommitOrdered
  <1>2. ASSUME NEW d \in Ids, SourceCollects(d)
        PROVE  SourceKeeps' /\ (~misdated' => \A k \in Keys : Ordered(k)')
    <2>1. misdated' = misdated
      BY <1>2, SourceCollectFacts
    <2> QED
      BY <1>2, <2>1, SourceCollectKeeps, SourceCollectOrdered
  <1>3. CASE UNCHANGED <<source, collected, lastDelete, misdated>>
    <2>1. SourceKeeps'
      BY <1>3 DEF SourceKeeps
    <2>2. ASSUME NEW k \in Keys, Ordered(k) PROVE Ordered(k)'
      BY <1>3, <2>2 DEF Ordered, Ever
    <2> QED
      BY <1>3, <2>1, <2>2
  <1> QED
    BY <1>1, <1>2, <1>3
    DEF TransferNext, transferVars, history, DumpPage, ImportLine,
        ImportRefuses, DumpMetas, DumpEnds, Filter, ImportMetas, ImportPhaseEnds, ImportStops

\* Two empty servers satisfy the invariant.
LEMMA TransferInvInit == TransferInit => TransferInv
  <1> SUFFICES ASSUME TransferInit PROVE TransferInv
    OBVIOUS
  <1>1. /\ source = EmptyServer(Owners) /\ dest = EmptyServer({})
        /\ dump = [stage |-> "idle", cursor |-> 0, metas |-> {}, file |-> {}]
        /\ import = [stage |-> "idle", pos |-> 0, failed |-> {}, runs |-> 0]
        /\ excluded = {} /\ moved = FALSE /\ collected = {} /\ misdated = FALSE
        /\ refused = {}
        /\ lastDelete = [k \in Keys |-> 0]
    BY DEF TransferInit
  <1>2. EmptyServer(Owners) \in Servers /\ EmptyServer({}) \in Servers
    BY DEF EmptyServer, Servers
  <1>3. TransferTyped
    BY <1>1, <1>2 DEF TransferTyped
  <1>4. /\ source.log = {} /\ source.gc = {} /\ source.meta = Owners
        /\ \A k \in Keys : source.rec[k] = 0
        /\ \A o \in Owners : source.ent[o] = 0
    BY <1>1 DEF EmptyServer
  <1>5. SourceKeeps
    BY <1>1, <1>4 DEF SourceKeeps
  <1>6. ASSUME NEW k \in Keys PROVE Ordered(k)
    <2>1. Ever(k) = {}
      BY <1>1, <1>4 DEF Ever
    <2> QED
      BY <1>4, <2>1 DEF Ordered
  <1>7. DumpInv /\ IdleInv /\ dump.stage # "done"
    BY <1>1 DEF DumpInv, IdleInv
  <1> QED
    BY <1>3, <1>5, <1>6, <1>7 DEF TransferInv

\* Every step of either command keeps it.
LEMMA TransferInvNext == TransferInv /\ [TransferNext]_transferVars => TransferInv'
  <1> SUFFICES ASSUME TransferInv, [TransferNext]_transferVars PROVE TransferInv'
    OBVIOUS
  <1>1. /\ TransferTyped /\ SourceKeeps /\ DumpInv /\ IdleInv
        /\ ~misdated => \A k \in Keys : Ordered(k)
        /\ dump.stage = "done" /\ ~moved => ImportKeeps
        /\ dump.stage = "done" /\ ~moved /\ ~misdated => ReplayInv
    BY DEF TransferInv
  <1>2. TransferTyped'
    BY <1>1, TypedStep
  <1>3. SourceKeeps' /\ (~misdated' => \A k \in Keys : Ordered(k)')
    BY <1>1, SourceStep
  <1>4. DumpInv'
    BY <1>1, DumpStep
  <1>5. IdleInv'
    BY <1>1, IdleStep
  <1>6. dump'.stage = "done" /\ ~moved' => ImportKeeps'
    BY <1>1, <1>4, <1>5, KeepsStep
  <1>7. dump'.stage = "done" /\ ~moved' /\ ~misdated' => ReplayInv'
    BY <1>1, <1>5, ReplayStep
  <1> QED
    BY <1>2, <1>3, <1>4, <1>5, <1>6, <1>7 DEF TransferInv

\* At the end of an import that replayed the key, it holds what the source
\* holds: each holds the newest of the key's commits.
LEMMA RestoredKey ==
    ASSUME TransferTyped, SourceKeeps, DumpInv, dump.stage = "done", ~moved,
           NEW k \in Keys, Ordered(k), Resumed(k), Kept(k), import.stage = "done"
    PROVE  dest.rec[k] = source.rec[k]
  <1>1. dump.file = {e \in source.log : ~Concerns(excluded, e)}
    BY DEF DumpInv
  <1>2. /\ Lines(k) \subseteq Ever(k) /\ Lines(k) \intersect collected = {}
        /\ \A e \in Ever(k) : e \in source.log => e \in Lines(k)
        /\ Lines(k) \subseteq source.log
    BY <1>1 DEF Lines, Ever, Kept, SourceKeeps, TransferTyped, Servers
  <1>3. \A e \in Ever(k) : e \in Ids
    BY DEF Ever, TransferTyped, Servers
  <1>4. \A e \in Ever(k) : e \in Nat
    BY <1>3, IdPositive
  <1>5. Replayed(k) \subseteq Ever(k)
    BY <1>2 DEF Replayed
  <1>6. \A e \in Lines(k) : e \in Replayed(k) \/ Orphan(k, e)
    BY DEF Resumed
  <1>7. CASE source.rec[k] # 0
    <2> DEFINE R == source.rec[k]
    <2>1. /\ R \in Ever(k) /\ R \in source.log /\ Doc[R].kind = "record"
          /\ \A e \in Ever(k) : e =< R
      BY <1>7 DEF SourceKeeps, Ever, Ordered
    <2> HIDE DEF R
    <2>2. R \in Replayed(k)
      BY <1>2, <1>6, <2>1 DEF Orphan
    <2>3. PICK m \in Replayed(k) : /\ \A e \in Replayed(k) : e =< m
                                   /\ dest.rec[k] = 0 => Doc[m].kind = "delete"
                                   /\ dest.rec[k] # 0 => m = dest.rec[k]
      BY <2>2 DEF Resumed
    <2>4. R =< m /\ m =< R /\ R \in Nat /\ m \in Nat
      BY <1>4, <1>5, <2>1, <2>2, <2>3
    <2>5. R = m
      BY <2>4
    <2>6. dest.rec[k] = R
      BY <2>1, <2>3, <2>5
    <2> QED
      BY <2>6 DEF R
  <1>8. CASE source.rec[k] = 0
    <2> DEFINE D == dest.rec[k]
               L == lastDelete[k]
    <2>1. SUFFICES ASSUME D # 0 PROVE FALSE
      BY <1>8
    <2>2. /\ D \in Replayed(k) /\ Doc[D].kind = "record"
          /\ \A e \in Replayed(k) : e =< D
      BY <2>1 DEF Resumed
    <2>3. /\ L \in Ever(k) /\ Doc[L].kind = "delete" /\ D \in Ever(k)
          /\ \A e \in Ever(k) : e =< L
      BY <1>5, <1>8, <2>2 DEF Ordered
    <2>4. D \in Lines(k)
      BY <2>2 DEF Replayed
    <2> HIDE DEF D, L
    <2>5. D \in Nat /\ L \in Nat /\ D =< L /\ D # L
      BY <1>4, <2>2, <2>3
    <2>6. D < L
      BY <2>5
    <2>7. L \notin collected
      BY <1>2, <2>3, <2>4, <2>6 DEF Ordered
    <2>8. L \in Lines(k)
      BY <1>2, <2>3, <2>7 DEF Ever
    <2>9. L =< D
      BY <1>6, <2>2, <2>4, <2>8 DEF Orphan
    <2> QED
      BY <2>5, <2>9
  <1> QED
    BY <1>7, <1>8

\* It says enough: every line is replayed, and the last one decides, as at the
\* source.
LEMMA TransferInvRestores == TransferInv => ImportRestores
  <1> SUFFICES ASSUME TransferInv, Settled
               PROVE  /\ \A d \in import.failed :
                            LET k == Doc[d].key
                            IN  Kept(k) /\ Permitted(k) => Orphaned(k)
                      /\ \A k \in Keys :
                            Kept(k) /\ Permitted(k)
                            /\ (Orphaned(k) => import.runs = 1)
                                => dest.rec[k] = source.rec[k]
    BY DEF ImportRestores
  <1>1. import.stage = "done" /\ ~moved /\ ~misdated
    BY DEF Settled
  <1>2. TransferTyped /\ SourceKeeps /\ DumpInv
    BY DEF TransferInv
  <1>3. dump.stage = "done"
    BY <1>1, <1>2 DEF DumpInv
  <1>4. ReplayInv /\ \A k \in Keys : Ordered(k)
    BY <1>1, <1>3 DEF TransferInv
  <1>5. ASSUME NEW k \in Keys, Kept(k), Permitted(k),
               Orphaned(k) => import.runs = 1
        PROVE  dest.rec[k] = source.rec[k]
    <2>1. Resumed(k)
      BY <1>4, <1>5 DEF ReplayInv
    <2> QED
      BY <1>1, <1>2, <1>3, <1>4, <1>5, <2>1, RestoredKey
  <1> QED
    BY <1>4, <1>5 DEF ReplayInv

\* dump-commitlog, filter-commitlog and import-commitlog, for any documents, any
\* page size, any refusals by policies and blocks and any number of interrupted
\* runs: an import that has run to its end left every key of which no document
\* was filtered out or refused as it was at the source (keys whose first line is
\* a delete only if it ran once), and of those keys rejected lines only where
\* there is such a delete.
THEOREM AlwaysImportRestores == TransferSpec => []ImportRestores
  <1>1. TransferInit => TransferInv
    BY TransferInvInit
  <1>2. TransferInv /\ [TransferNext]_transferVars => TransferInv'
    BY TransferInvNext
  <1>3. TransferInv => ImportRestores
    BY TransferInvRestores
  <1> QED
    BY <1>1, <1>2, <1>3, PTL DEF TransferSpec
==============================================================================
