------------------------------ MODULE JobQueue ------------------------------
(* RedisJobQueue: consumers drain a stream through a consumer group, failed  *)
(* jobs wait in a retry set until a mover puts them back on the stream, jobs *)
(* out of attempts land in the dead-letter stream, and reclaimers take over  *)
(* what a crashed or stopped worker left pending.  Redis itself is external: *)
(* its commands are atomic, but any of them may fail.  Backoff delays are    *)
(* abstracted to "some time later".                                          *)
EXTENDS Integers, Sequences, FiniteSets

CONSTANTS
    Jobs,          \* jobs producers enqueue
    Garbled,       \* those whose stored payload does not parse
    Consumers,     \* consumeLoop goroutines, over all replicas
    Reclaimers,    \* reclaimLoop goroutines, one per replica
    Movers,        \* moverLoop goroutines, one per replica
    MsgIds,        \* names for stream entries (reused once forgotten)
    NoCopy,        \* a stream entry that does not exist
    MaxAttempts,   \* maxAttempts
    StreamMaxLen,  \* streamMaxLen
    MaxMishaps     \* bound on failing Redis writes, crashes and shutdowns of
                   \* a loop, and operator reinjections, together

Workers == Consumers \union Reclaimers
Copy == [job : Jobs, attempt : 0 .. MaxAttempts]
Msg == [id : MsgIds, copy : Copy]

ASSUME JobAssumption == Garbled \subseteq Jobs /\ MaxAttempts \in Nat \ {0}
ASSUME NoCopyAssumption == NoCopy \notin Copy
ASSUME BoundAssumption ==
    StreamMaxLen \in Nat \ {0} /\ MaxMishaps \in Nat

VARIABLES
    entry,     \* the stream: what is stored under each id
    backlog,   \* ids the group has not delivered yet, oldest first
    pending,   \* ids delivered and not acknowledged
    work,      \* per worker: messages claimed and not started, and the current
    moving,    \* per mover: retries read and not yet handled
    retry,     \* jobqueue:retry, a sorted set of serialized jobs
    dlq,       \* jobqueue:dlq
    inject,    \* ReinjectDLQ: entries read and not yet handled
    enqueued, handled, purged, fails,  \* history
    dropped,   \* history: jobs of which Redis or a failed write lost a copy
    budget     \* mishaps still allowed

stream == <<entry, backlog, pending>>
letters == <<dlq, inject>>
history == <<enqueued, handled, purged, fails, dropped>>
vars == <<entry, backlog, pending, work, moving, retry, dlq, inject,
          enqueued, handled, purged, fails, dropped, budget>>

-----------------------------------------------------------------------------
Nothing == [pc |-> "free", msgs |-> {}]
Step == {"run", "retry", "dead", "ack"}

\* A worker is free, or works on one message (pc says what comes next) with
\* others of the same claim waiting behind it.
Work ==
    [pc : {"free"}, msgs : SUBSET Msg]
    \union [pc : Step, msgs : SUBSET Msg, cur : Msg]

Idle(w) == work[w].pc = "free"
RunBy(w, m) == ~Idle(w) /\ work[w].cur.id = m
Stored == {m \in MsgIds : entry[m] # NoCopy}
Undelivered == {backlog[i] : i \in DOMAIN backlog}

\* An entry that was acknowledged but not deleted is of no use to anyone: its
\* id may be used again.
InUse(m) ==
    \/ m \in pending \union Undelivered
    \/ \E w \in Workers : RunBy(w, m) \/ \E x \in work[w].msgs : x.id = m

\* Delivered entries are older than the backlog.
Oldest ==
    IF Stored \ Undelivered # {} THEN Stored \ Undelivered
    ELSE IF backlog # <<>> THEN {Head(backlog)} ELSE {}

\* XADD with an approximate MAXLEN: adds an entry, and may drop the oldest
\* when the stream is full, delivered or not.
XAdd(c) ==
    \E m \in MsgIds :
        /\ ~InUse(m)
        /\ \E drop \in {{}} \union (IF Cardinality(Stored) < StreamMaxLen
                                    THEN {} ELSE {{v} : v \in Oldest}) :
             /\ entry' = [i \in MsgIds |-> IF i = m THEN c
                                           ELSE IF i \in drop THEN NoCopy
                                           ELSE entry[i]]
             /\ backlog' = Append(IF Undelivered \intersect drop = {} THEN backlog
                                  ELSE Tail(backlog), m)
             /\ dropped' = dropped \union
                  {entry[i].job : i \in drop \intersect (pending \union Undelivered)}

\* A bounded event: a failing Redis write, a crash or shutdown of a loop, an
\* operator's reinjection.
Mishap == budget > 0 /\ budget' = budget - 1

-----------------------------------------------------------------------------
Init ==
    /\ entry = [m \in MsgIds |-> NoCopy]
    /\ backlog = <<>>
    /\ pending = {}
    /\ work = [w \in Workers |-> Nothing]
    /\ moving = [v \in Movers |-> {}]
    /\ retry = {}
    /\ dlq = {}
    /\ inject = {}
    /\ enqueued = {} /\ handled = {} /\ purged = {} /\ dropped = {}
    /\ fails = [j \in Jobs |-> 0]
    /\ budget = MaxMishaps

\* A failed XADD is reported to the producer: the job was never enqueued.
Enqueue(j) ==
    /\ j \notin enqueued
    /\ XAdd([job |-> j, attempt |-> 0])
    /\ enqueued' = enqueued \union {j}
    /\ UNCHANGED <<pending, work, moving, retry, letters, handled, purged,
                   fails, budget>>

\* consumeLoop: XREADGROUP > COUNT 1, then process.
Read(c) ==
    LET m == Head(backlog)
    IN  /\ Idle(c) /\ backlog # <<>>
        /\ backlog' = Tail(backlog)
        /\ pending' = pending \union {m}
        /\ work' = [work EXCEPT ![c] =
                     [pc |-> "run", msgs |-> {},
                      cur |-> [id |-> m, copy |-> entry[m]]]]
        /\ UNCHANGED <<entry, moving, retry, letters, history, budget>>

\* reclaimLoop: XAUTOCLAIM takes every pending message idle for claimMinIdle.
\* That is longer than a handler may run, so what a consumer processes is not
\* idle; but idle time counts from the delivery, so another reclaimer's batch
\* of up to 100 messages can become idle while it waits, or even runs.
\* Entries no longer in the stream are dropped from the pending list.
Claim(r) ==
    LET idle == {m \in pending : ~\E c \in Consumers : RunBy(c, m)}
    IN  /\ Idle(r) /\ work[r].msgs = {}
        /\ idle # {}
        /\ work' = [work EXCEPT ![r].msgs =
                     {[id |-> m, copy |-> entry[m]] :
                        m \in idle \intersect Stored}]
        /\ pending' = pending \ (idle \ Stored)
        /\ UNCHANGED <<entry, backlog, moving, retry, letters, history,
                       budget>>

\* The next message of the claimed batch.
TakeClaimed(r, x) ==
    /\ Idle(r) /\ x \in work[r].msgs
    /\ work' = [work EXCEPT ![r] = [pc |-> "run", cur |-> x,
                                    msgs |-> work[r].msgs \ {x}]]
    /\ UNCHANGED <<stream, moving, retry, letters, history, budget>>

-----------------------------------------------------------------------------
\* process: an envelope that does not parse goes to the dead letters as it is.
Unparseable(w) ==
    /\ work[w].pc = "run" /\ work[w].cur.copy.job \in Garbled
    /\ work' = [work EXCEPT ![w].pc = "dead"]
    /\ UNCHANGED <<stream, moving, retry, letters, history, budget>>

HandlerSucceeds(w) ==
    /\ work[w].pc = "run" /\ work[w].cur.copy.job \notin Garbled
    /\ handled' = handled \union {work[w].cur.copy.job}
    /\ work' = [work EXCEPT ![w].pc = "ack"]
    /\ UNCHANGED <<stream, moving, retry, letters, enqueued, purged, fails,
                   dropped, budget>>

\* Mutants: the last attempt is not recognised; the attempt is not written back
\* to the envelope.
HandlerFailsPastLimit(w) ==
    LET a == work[w].cur.copy.attempt + 1
    IN  /\ work[w].pc = "run" /\ work[w].cur.copy.job \notin Garbled
        /\ work' = [work EXCEPT
                     ![w].pc = IF a > MaxAttempts THEN "dead" ELSE "retry",
                     ![w].cur.copy.attempt = a]
        /\ UNCHANGED <<stream, moving, retry, letters, history, budget>>

HandlerFailsUncounted(w) ==
    LET a == work[w].cur.copy.attempt + 1
    IN  /\ work[w].pc = "run" /\ work[w].cur.copy.job \notin Garbled
        /\ work' = [work EXCEPT
                     ![w].pc = IF a >= MaxAttempts THEN "dead" ELSE "retry"]
        /\ UNCHANGED <<stream, moving, retry, letters, history, budget>>

\* The handler fails, times out, or the type has no handler here: the attempt
\* counts.  (fails saturates at MaxAttempts.)
HandlerFails(w) ==
    LET j == work[w].cur.copy.job
        a == work[w].cur.copy.attempt + 1
    IN  /\ work[w].pc = "run" /\ j \notin Garbled
        /\ fails' = [fails EXCEPT ![j] = IF @ < MaxAttempts THEN @ + 1 ELSE @]
        /\ work' = [work EXCEPT
                     ![w].pc = IF a >= MaxAttempts THEN "dead" ELSE "retry",
                     ![w].cur.copy.attempt = a]
        /\ UNCHANGED <<stream, moving, retry, letters, enqueued, handled,
                       purged, dropped, budget>>

\* Mutant: a shutdown is taken for a failure of the handler.
StopCountsAttempt(w) ==
    LET a == work[w].cur.copy.attempt + 1
    IN  /\ work[w].pc = "run"
        /\ Mishap
        /\ work' = [work EXCEPT
                     ![w].pc = IF a >= MaxAttempts THEN "dead" ELSE "retry",
                     ![w].cur.copy.attempt = a]
        /\ UNCHANGED <<stream, moving, retry, letters, history>>

\* The process crashes, or its context is cancelled while the handler runs:
\* the messages stay pending and no attempt is counted.
Stop(w) ==
    /\ ~Idle(w) \/ work[w].msgs # {}
    /\ Mishap
    /\ work' = [work EXCEPT ![w] = Nothing]
    /\ UNCHANGED <<stream, moving, retry, letters, history>>

\* A mover has re-added this very member and not yet removed it: its ZREM will
\* take a member that is scheduled meanwhile.
Doomed(c) == \E v \in Movers : [copy |-> c, added |-> TRUE] \in moving[v]

\* scheduleRetry: a failed ZADD is logged, nothing else.
ScheduleRetry(w) ==
    LET c == work[w].cur.copy
    IN  /\ work[w].pc = "retry"
        /\ work' = [work EXCEPT ![w].pc = "ack"]
        /\ \/ /\ retry' = retry \union {c}
              /\ dropped' = IF Doomed(c) THEN dropped \union {c.job} ELSE dropped
              /\ UNCHANGED budget
           \/ /\ Mishap
              /\ dropped' = dropped \union {c.job}
              /\ UNCHANGED retry
        /\ UNCHANGED <<stream, moving, letters, enqueued, handled, purged,
                       fails>>

\* deadLetterRaw: XADD with the same MAXLEN, which may drop an older entry; a
\* failure is logged, nothing else.
DeadLetter(w) ==
    /\ work[w].pc = "dead"
    /\ work' = [work EXCEPT ![w].pc = "ack"]
    /\ \/ /\ \E drop \in {{}} \union (IF Cardinality(dlq) < StreamMaxLen
                                     THEN {} ELSE {{c} : c \in dlq}) :
               /\ dlq' = (dlq \ drop) \union {work[w].cur.copy}
               /\ dropped' = dropped \union {c.job : c \in drop}
          /\ UNCHANGED budget
       \/ /\ Mishap
          /\ dropped' = dropped \union {work[w].cur.copy.job}
          /\ UNCHANGED dlq
    /\ UNCHANGED <<stream, moving, retry, inject, enqueued, handled, purged,
                   fails>>

\* ackAndDel: XACK, then XDEL, whether or not the XACK succeeded.
AckAndDel(w) ==
    LET m == work[w].cur.id
        acked == pending \ {m}
        deleted == [entry EXCEPT ![m] = NoCopy]
    IN  /\ work[w].pc = "ack"
        /\ work' = [work EXCEPT ![w] = [pc |-> "free", msgs |-> @.msgs]]
        /\ \/ pending' = acked /\ entry' = deleted /\ UNCHANGED budget
           \/ pending' = acked /\ entry' = entry /\ Mishap
           \/ pending' = pending /\ entry' = deleted /\ Mishap
           \/ pending' = pending /\ entry' = entry /\ Mishap
        /\ UNCHANGED <<backlog, moving, retry, letters, history>>

-----------------------------------------------------------------------------
\* Mutant: the due members are popped from the set, then added.
PopDue(v) ==
    /\ moving[v] = {} /\ retry # {}
    /\ moving' = [moving EXCEPT ![v] = {[copy |-> c, added |-> FALSE] :
                                            c \in retry}]
    /\ retry' = {}
    /\ UNCHANGED <<stream, work, letters, history, budget>>

\* moveDueRetries: read the due members, then XADD and ZREM each; a failed
\* XADD skips the member, a crash or a failed ZREM leaves it in the set.
ReadDue(v) ==
    /\ moving[v] = {} /\ retry # {}
    /\ \E due \in (SUBSET retry) \ {{}} :
         moving' = [moving EXCEPT ![v] = {[copy |-> c, added |-> FALSE] :
                                            c \in due}]
    /\ UNCHANGED <<stream, work, retry, letters, history, budget>>

AddDue(v, x) ==
    /\ x \in moving[v] /\ \A y \in moving[v] : ~y.added
    /\ \/ /\ XAdd(x.copy)
          /\ moving' = [moving EXCEPT ![v] =
                (@ \ {x}) \union {[x EXCEPT !.added = TRUE]}]
          /\ UNCHANGED budget
       \/ /\ Mishap
          /\ moving' = [moving EXCEPT ![v] = @ \ {x}]
          /\ UNCHANGED <<entry, backlog, dropped>>
    /\ UNCHANGED <<pending, work, retry, letters, enqueued, handled, purged,
                   fails>>

RemoveDue(v, x) ==
    /\ x \in moving[v] /\ x.added
    /\ moving' = [moving EXCEPT ![v] = @ \ {x}]
    /\ \/ /\ retry' = retry \ {x.copy}
          /\ UNCHANGED budget
       \/ /\ Mishap
          /\ UNCHANGED retry
    /\ UNCHANGED <<stream, work, letters, history>>

MoverStops(v) ==
    /\ moving[v] # {}
    /\ Mishap
    /\ moving' = [moving EXCEPT ![v] = {}]
    /\ UNCHANGED <<stream, work, retry, letters, history>>

-----------------------------------------------------------------------------
\* ReinjectDLQ reads the whole dead-letter stream.
ReinjectRead ==
    /\ inject = {} /\ dlq # {}
    /\ Mishap
    /\ inject' = dlq
    /\ UNCHANGED <<stream, work, moving, retry, dlq, history>>

\* One entry: an unparseable one is skipped, any other is enqueued with its
\* attempts reset and then deleted; a failed delete leaves it behind.
ReinjectEntry(c) ==
    /\ c \in inject
    /\ inject' = inject \ {c}
    /\ \/ /\ c.job \in Garbled
          /\ UNCHANGED <<entry, backlog, dlq, dropped, budget>>
       \/ /\ c.job \notin Garbled
          /\ XAdd([c EXCEPT !.attempt = 0])
          /\ \/ dlq' = dlq \ {c} /\ UNCHANGED budget
             \/ dlq' = dlq /\ Mishap
    /\ UNCHANGED <<pending, work, moving, retry, enqueued, handled, purged,
                   fails>>

\* The enqueue fails, or the command is interrupted: the rest stays.
ReinjectStops ==
    /\ inject # {}
    /\ inject' = {}
    /\ UNCHANGED <<stream, work, moving, retry, dlq, history, budget>>

\* PurgeDLQ drops the entries older than the operator asks for.
PurgeDLQ(old) ==
    /\ old # {} /\ old \subseteq dlq
    /\ dlq' = dlq \ old
    /\ purged' = purged \union {c.job : c \in old}
    /\ UNCHANGED <<stream, work, moving, retry, inject, enqueued, handled,
                   fails, dropped, budget>>

-----------------------------------------------------------------------------
\* What a worker does by itself once it has a message.
Process(w) ==
    \/ Unparseable(w) \/ HandlerSucceeds(w) \/ HandlerFails(w)
    \/ ScheduleRetry(w) \/ DeadLetter(w) \/ AckAndDel(w)

Reclaim(r) == Claim(r) \/ \E x \in work[r].msgs : TakeClaimed(r, x)

Move(v) ==
    \/ ReadDue(v)
    \/ \E x \in moving[v] : AddDue(v, x) \/ RemoveDue(v, x)

Next ==
    \/ \E j \in Jobs : Enqueue(j)
    \/ \E c \in Consumers : Read(c)
    \/ \E r \in Reclaimers : Reclaim(r)
    \/ \E w \in Workers : Process(w)
    \/ \E v \in Movers : Move(v)
    \/ \E w \in Workers : Stop(w)
    \/ \E v \in Movers : MoverStops(v)
    \/ ReinjectRead \/ ReinjectStops
    \/ \E c \in inject : ReinjectEntry(c)
    \/ \E old \in SUBSET dlq : PurgeDLQ(old)

Spec == Init /\ [][Next]_vars

\* The loops keep running: consumers read, workers finish what they started,
\* movers and reclaimers tick.  Nothing is assumed of producers or operators.
Fairness ==
    /\ \A c \in Consumers : WF_vars(Read(c))
    /\ \A r \in Reclaimers : WF_vars(Reclaim(r))
    /\ \A w \in Workers : WF_vars(Process(w))
    /\ \A v \in Movers : WF_vars(Move(v))

FairSpec == Spec /\ Fairness

-----------------------------------------------------------------------------
\* Every variable has its type.
TypeOK ==
    /\ entry \in [MsgIds -> Copy \union {NoCopy}]
    /\ backlog \in Seq(MsgIds)
    /\ pending \in SUBSET MsgIds
    /\ work \in [Workers -> Work]
    /\ moving \in [Movers -> SUBSET [copy : Copy, added : BOOLEAN]]
    /\ retry \in SUBSET Copy
    /\ dlq \in SUBSET Copy
    /\ inject \in SUBSET Copy
    /\ enqueued \in SUBSET Jobs
    /\ handled \in SUBSET Jobs
    /\ purged \in SUBSET Jobs /\ dropped \in SUBSET Jobs
    /\ fails \in [Jobs -> 0 .. MaxAttempts]
    /\ budget \in 0 .. MaxMishaps

\* A worker or a mover will still find a copy of the job.
Due(j) ==
    \/ \E m \in Stored : /\ entry[m].job = j
                         /\ m \in pending \union Undelivered
    \/ \E c \in retry : c.job = j

Service == INSTANCE JobService WITH
    accepted <- enqueued, due <- {j \in Jobs : Due(j)},
    parked <- {c.job : c \in dlq}, succeeded <- handled,
    discarded <- purged, forfeited <- dropped

\* redis.go, package comment, "at-least-once": the queue implements the job
\* service.  Whichever loops crash or run twice, a job stops being due only
\* when it succeeded, is among the dead letters, was purged, or Redis trimmed
\* or refused a copy of it.
AtLeastOnce == Service!Spec

\* process: every attempt charged to a copy of a job was a genuine failure of
\* its handler; crashes, shutdowns and duplicate copies spend no retries, so
\* only a job that failed maxAttempts times is dead-lettered.
BudgetSpentOnFailures ==
    /\ \A m \in Stored : entry[m].attempt =< fails[entry[m].job]
    /\ \A c \in retry : c.attempt =< fails[c.job]
    /\ \A c \in dlq : c.job \in Garbled \/ fails[c.job] = MaxAttempts

\* Run, "drains the stream": retries end.  Whatever the handlers do and
\* whichever loops crash on the way, every copy, duplicates included, leaves
\* the stream and the retry set, and every job was handled or dead-lettered.
EventuallyDrained ==
    <>[](/\ backlog = <<>> /\ pending = {} /\ retry = {}
         /\ \A w \in Workers : work[w] = Nothing
         /\ \A j \in enqueued : \/ j \in handled \union purged \union dropped
                               \/ \E c \in dlq : c.job = j)

=============================================================================
