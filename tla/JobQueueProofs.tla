--------------------------- MODULE JobQueueProofs ---------------------------
(* JobQueue for any sets of jobs, workers, movers and reclaimers: attempts   *)
(* are charged for failures only, and the queue implements JobService.       *)
EXTENDS JobQueue, TLAPS

\* The group's backlog holds each id once, only ids whose entry exists, and
\* none that was delivered.
Queued ==
    /\ \A i, k \in DOMAIN backlog : backlog[i] = backlog[k] => i = k
    /\ Undelivered \subseteq Stored
    /\ pending \intersect Undelivered = {}

\* A message a worker holds was delivered, and its id still stands for a copy
\* of the same job (or for nothing): an id is not reused while it is in use.
Match(x) ==
    /\ x.id \notin Undelivered
    /\ entry[x.id] # NoCopy => entry[x.id].job = x.copy.job

\* What holds of the messages of one worker.
HeldBy(w) ==
    /\ \A x \in work[w].msgs : Match(x)
    /\ ~Idle(w) => Match(work[w].cur)

Held == \A w \in Workers : HeldBy(w)

\* A copy that may be run: its job was accepted, attempts are left, and every
\* attempt it carries was a failure of the handler.
Good(c) ==
    /\ c.job \in enqueued
    /\ c.attempt < MaxAttempts
    /\ c.attempt =< fails[c.job]

\* A copy that may be parked: garbled, or out of attempts by genuine failures.
Spent(c) ==
    /\ c.job \in enqueued
    /\ c.job \in Garbled \/ fails[c.job] = MaxAttempts

\* The copies a worker holds are good until it parks or finishes them.
OneCharged(w) ==
    /\ \A x \in work[w].msgs : Good(x.copy)
    /\ work[w].pc \in {"run", "retry"} => Good(work[w].cur.copy)
    /\ work[w].pc = "dead" => Spent(work[w].cur.copy)
    /\ work[w].pc = "ack" => work[w].cur.copy.job \in enqueued

WorkCharged == \A w \in Workers : OneCharged(w)

\* Wherever a copy is (stream, worker, retry set, mover, dead letters) its
\* attempts are accounted for; this is BudgetSpentOnFailures made inductive.
Charged ==
    /\ \A m \in Stored : Good(entry[m])
    /\ WorkCharged
    /\ \A c \in retry : Good(c)
    /\ \A v \in Movers : \A x \in moving[v] : Good(x.copy)
    /\ \A c \in dlq : Spent(c)
    /\ \A c \in inject : c.job \in enqueued

\* A worker is about to acknowledge and delete the entry.
Finishing(m) == \E w \in Workers : work[w].pc = "ack" /\ work[w].cur.id = m

\* The service owes the job nothing more.
Settled(j) ==
    \/ j \in handled \union purged \union dropped
    \/ \E c \in dlq : c.job = j

\* A stream entry of the job that nobody is about to delete.
InStream(j) ==
    \E m \in Stored : /\ entry[m].job = j
                      /\ m \in pending \union Undelivered
                      /\ ~Finishing(m)

\* A retry of the job that no mover's ZREM is about to take.
InRetry(j) == \E c \in retry : c.job = j /\ ~Doomed(c)

\* An accepted job is settled or has a copy that survives every step under
\* way: AtLeastOnce made inductive.
NoneForgotten == \A j \in enqueued : Settled(j) \/ InStream(j) \/ InRetry(j)

\* The inductive invariant.
IInv == TypeOK /\ Queued /\ Held /\ Charged /\ NoneForgotten

-----------------------------------------------------------------------------
\* The elements of a sequence, and that none occurs twice.
Elems(s) == {s[i] : i \in DOMAIN s}
Distinct(s) == \A i, k \in DOMAIN s : s[i] = s[k] => i = k

\* Appending a new element to a sequence without repetitions.
LEMMA AppendElems ==
    ASSUME NEW S, NEW s \in Seq(S), NEW m \in S, m \notin Elems(s), Distinct(s)
    PROVE  /\ Append(s, m) \in Seq(S)
           /\ Elems(Append(s, m)) = Elems(s) \union {m}
           /\ Distinct(Append(s, m))
  <1>1. /\ Append(s, m) \in Seq(S) /\ DOMAIN s = 1 .. Len(s) /\ Len(s) \in Nat
        /\ DOMAIN Append(s, m) = 1 .. (Len(s) + 1)
        /\ Append(s, m)[Len(s) + 1] = m
        /\ \A i \in 1 .. Len(s) : Append(s, m)[i] = s[i]
    OBVIOUS
  <1>2. Elems(Append(s, m)) = Elems(s) \union {m}
    <2>1. \A e \in Elems(Append(s, m)) : e \in Elems(s) \union {m}
      BY <1>1 DEF Elems
    <2>2. \A e \in Elems(s) \union {m} : e \in Elems(Append(s, m))
      BY <1>1 DEF Elems
    <2> QED
      BY <2>1, <2>2
  <1>3. Distinct(Append(s, m))
    BY <1>1 DEF Distinct, Elems
  <1> QED
    BY <1>1, <1>2, <1>3

\* Removing the head of a sequence without repetitions.
LEMMA TailElems ==
    ASSUME NEW S, NEW s \in Seq(S), s # <<>>, Distinct(s)
    PROVE  /\ Tail(s) \in Seq(S) /\ Head(s) \in S /\ Head(s) \in Elems(s)
           /\ Elems(Tail(s)) = Elems(s) \ {Head(s)}
           /\ Distinct(Tail(s))
  <1>1. /\ Tail(s) \in Seq(S) /\ DOMAIN s = 1 .. Len(s) /\ Len(s) \in Nat \ {0}
        /\ DOMAIN Tail(s) = 1 .. (Len(s) - 1)
        /\ Head(s) = s[1] /\ Head(s) \in S
        /\ \A i \in 1 .. (Len(s) - 1) : Tail(s)[i] = s[i + 1]
    OBVIOUS
  <1>2. Elems(Tail(s)) = Elems(s) \ {Head(s)}
    <2>1. \A e \in Elems(Tail(s)) : e \in Elems(s) \ {Head(s)}
      BY <1>1 DEF Elems, Distinct
    <2>2. ASSUME NEW e \in Elems(s), e # Head(s) PROVE e \in Elems(Tail(s))
      <3>1. PICK i \in 1 .. Len(s) : e = s[i]
        BY <1>1, <2>2 DEF Elems
      <3>2. i - 1 \in 1 .. (Len(s) - 1) /\ Tail(s)[i - 1] = s[i]
        BY <3>1, <2>2, <1>1
      <3> QED
        BY <3>1, <3>2, <1>1 DEF Elems
    <2> QED
      BY <2>1, <2>2
  <1>3. Distinct(Tail(s))
    BY <1>1 DEF Distinct
  <1>4. Head(s) \in Elems(s)
    BY <1>1 DEF Elems
  <1> QED
    BY <1>1, <1>2, <1>3, <1>4

\* What XADD does to the stream: copy c appears under the free id m, entries
\* drop make room.
Adds(c, m, drop) ==
    /\ ~InUse(m)
    /\ entry' = [i \in MsgIds |-> IF i = m THEN c
                                  ELSE IF i \in drop THEN NoCopy
                                  ELSE entry[i]]
    /\ backlog' \in Seq(MsgIds)
    /\ Undelivered' = (Undelivered \ drop) \union {m}
    /\ \A i, k \in DOMAIN backlog' : backlog'[i] = backlog'[k] => i = k
    /\ dropped' = dropped \union
          {entry[i].job : i \in drop \intersect (pending \union Undelivered)}
    /\ drop \subseteq Stored

\* Every XADD of the model is such a step: a trimmed entry that was still in
\* the backlog was its head.
LEMMA XAddFacts ==
    ASSUME TypeOK, Queued, NEW c, XAdd(c)
    PROVE  \E m \in MsgIds, drop \in SUBSET MsgIds : Adds(c, m, drop)
  <1>1. PICK m \in MsgIds,
             drop \in {{}} \union (IF Cardinality(Stored) < StreamMaxLen
                                   THEN {} ELSE {{v} : v \in Oldest}) :
          /\ ~InUse(m)
          /\ entry' = [i \in MsgIds |-> IF i = m THEN c
                                        ELSE IF i \in drop THEN NoCopy
                                        ELSE entry[i]]
          /\ backlog' = Append(IF Undelivered \intersect drop = {} THEN backlog
                               ELSE Tail(backlog), m)
          /\ dropped' = dropped \union
                {entry[i].job : i \in drop \intersect (pending \union Undelivered)}
    BY DEF XAdd
  <1>2. backlog \in Seq(MsgIds) /\ Distinct(backlog) /\ Elems(backlog) = Undelivered
    BY DEF TypeOK, Queued, Distinct, Elems, Undelivered
  <1>3. m \notin Elems(backlog)
    BY <1>1, <1>2 DEF InUse
  <1>4. drop \subseteq Stored
        /\ (Undelivered \intersect drop # {} => backlog # <<>> /\ drop = {Head(backlog)})
    <2>1. CASE drop = {}
      BY <2>1
    <2>2. CASE drop # {}
      <3>1. PICK v \in Oldest : drop = {v}
        BY <1>1, <2>2
      <3>2. CASE Stored \ Undelivered # {}
        BY <3>1, <3>2 DEF Oldest
      <3>3. CASE Stored \ Undelivered = {}
        <4>1. backlog # <<>> /\ v = Head(backlog)
          BY <3>1, <3>3 DEF Oldest
        <4>2. Head(backlog) \in Undelivered
          BY <4>1, <1>2, TailElems
        <4> QED
          BY <4>1, <4>2, <3>1 DEF Queued
      <3> QED
        BY <3>2, <3>3
    <2> QED
      BY <2>1, <2>2
  <1>5. /\ backlog' \in Seq(MsgIds) /\ Distinct(backlog')
        /\ Elems(backlog') = (Undelivered \ drop) \union {m}
    <2>1. CASE Undelivered \intersect drop = {}
      <3>1. backlog' = Append(backlog, m)
        BY <2>1, <1>1
      <3> QED
        BY <3>1, <2>1, <1>2, <1>3, AppendElems
    <2>2. CASE Undelivered \intersect drop # {}
      <3>1. backlog' = Append(Tail(backlog), m)
        BY <2>2, <1>1
      <3>2. /\ Tail(backlog) \in Seq(MsgIds) /\ Distinct(Tail(backlog))
            /\ Elems(Tail(backlog)) = Undelivered \ drop
        BY <2>2, <1>4, <1>2, TailElems
      <3>3. m \notin Elems(Tail(backlog))
        BY <3>2, <1>2, <1>3
      <3>4. /\ Append(Tail(backlog), m) \in Seq(MsgIds)
            /\ Elems(Append(Tail(backlog), m)) = Elems(Tail(backlog)) \union {m}
            /\ Distinct(Append(Tail(backlog), m))
        BY <3>2, <3>3, AppendElems
      <3> QED
        BY <3>1, <3>2, <3>4
    <2> QED
      BY <2>1, <2>2
  <1>6. Undelivered' = Elems(backlog')
    BY DEF Undelivered, Elems
  <1>7. drop \in SUBSET MsgIds
    BY <1>4 DEF Stored
  <1>8. Adds(c, m, drop)
    BY <1>1, <1>4, <1>5, <1>6 DEF Adds, Distinct
  <1> QED
    BY <1>7, <1>8

-----------------------------------------------------------------------------
\* XADD of a good copy preserves the invariant's facts about the stream, and
\* only a job it counts as dropped loses its place there.
LEMMA AddsKeeps ==
    ASSUME IInv, NEW c \in Copy, NEW m \in MsgIds, NEW drop \in SUBSET MsgIds,
           Adds(c, m, drop), Good(c)', UNCHANGED <<pending, work>>,
           enqueued \subseteq enqueued', UNCHANGED fails
    PROVE  /\ entry' \in [MsgIds -> Copy \union {NoCopy}]
           /\ dropped' \in SUBSET Jobs /\ dropped \subseteq dropped'
           /\ Queued' /\ Held'
           /\ (\A i \in Stored : Good(entry[i]))'
           /\ InStream(c.job)'
           /\ \A j \in Jobs : InStream(j) => InStream(j)' \/ j \in dropped'
  <1>1. entry' \in [MsgIds -> Copy \union {NoCopy}]
    BY DEF Adds, IInv, TypeOK
  <1>2. dropped' \in SUBSET Jobs /\ dropped \subseteq dropped'
    BY DEF Adds, IInv, TypeOK, Stored, Copy
  <1>3. c # NoCopy
    BY NoCopyAssumption
  <1>4. /\ m \in Stored' /\ m \in Undelivered' /\ entry'[m] = c
        /\ \A i \in Stored : i # m /\ i \notin drop => i \in Stored' /\ entry'[i] = entry[i]
        /\ \A i \in Stored' : i = m \/ (i \in Stored /\ i \notin drop /\ entry'[i] = entry[i])
    BY <1>3 DEF Adds, Stored
  <1>5. Queued'
    <2>1. (Undelivered \subseteq Stored)'
      BY <1>4 DEF Adds, IInv, Queued
    <2>2. (pending \intersect Undelivered = {})'
      BY DEF Adds, IInv, Queued, InUse
    <2> QED
      BY <2>1, <2>2 DEF Queued, Adds
  <1>6. Held'
    <2>1. ASSUME NEW x \in Msg, x.id # m, Match(x) PROVE Match(x)'
      BY <2>1 DEF Match, Adds, Msg
    <2>2. ASSUME NEW w \in Workers PROVE /\ \A x \in work[w].msgs : x.id # m
                                         /\ ~Idle(w) => work[w].cur.id # m
      BY DEF Adds, InUse, RunBy
    <2>3. \A w \in Workers : /\ work[w].msgs \in SUBSET Msg
                             /\ ~Idle(w) => work[w].cur \in Msg
      BY DEF IInv, TypeOK, Work, Idle
    <2> QED
      BY <2>1, <2>2, <2>3 DEF IInv, Held, HeldBy, Idle
  <1>7. (\A i \in Stored : Good(entry[i]))'
    <2>1. \A i \in Stored : Good(entry[i])
      BY DEF IInv, Charged
    <2> QED
      BY <2>1, <1>4 DEF Good
  <1>8. \A i \in MsgIds : Finishing(i)' <=> Finishing(i)
    BY DEF Finishing
  <1>9. ~Finishing(m)
    BY DEF Finishing, Adds, InUse, RunBy, Idle
  <1>10. InStream(c.job)'
    BY <1>4, <1>8, <1>9 DEF InStream
  <1>11. ASSUME NEW j \in Jobs, InStream(j) PROVE InStream(j)' \/ j \in dropped'
    <2>1. PICK i \in Stored : /\ entry[i].job = j
                              /\ i \in pending \union Undelivered
                              /\ ~Finishing(i)
      BY <1>11 DEF InStream
    <2>2. i # m
      BY <2>1 DEF Adds, InUse
    <2>3. CASE i \in drop
      BY <2>1, <2>3 DEF Adds
    <2>4. CASE i \notin drop
      BY <2>1, <2>2, <2>4, <1>4, <1>8 DEF InStream, Adds, Stored
    <2> QED
      BY <2>3, <2>4
  <1> QED
    BY <1>1, <1>2, <1>5, <1>6, <1>7, <1>10, <1>11

-----------------------------------------------------------------------------
\* What TypeOK says of one worker.
LEMMA WorkTyped ==
    ASSUME TypeOK, NEW w \in Workers
    PROVE  /\ work[w] \in Work
           /\ work[w].msgs \in SUBSET Msg
           /\ work[w].pc \in Step \union {"free"}
           /\ Idle(w) => work[w] = [pc |-> "free", msgs |-> work[w].msgs]
           /\ ~Idle(w) => /\ work[w].pc \in Step
                          /\ work[w] = [pc |-> work[w].pc, msgs |-> work[w].msgs,
                                        cur |-> work[w].cur]
                          /\ work[w].cur \in Msg
                          /\ work[w].cur = [id |-> work[w].cur.id,
                                            copy |-> work[w].cur.copy]
                          /\ work[w].cur.id \in MsgIds
                          /\ work[w].cur.copy \in Copy
                          /\ work[w].cur.copy.job \in Jobs
                          /\ work[w].cur.copy.attempt \in 0 .. MaxAttempts
           /\ \A x \in Msg : x.id \in MsgIds /\ x.copy \in Copy
  <1>1. work[w] \in Work
    BY DEF TypeOK
  <1>2. CASE work[w] \in [pc : {"free"}, msgs : SUBSET Msg]
    BY <1>1, <1>2 DEF Idle, Msg
  <1>3. CASE work[w] \in [pc : Step, msgs : SUBSET Msg, cur : Msg]
    <2>1. /\ work[w].msgs \in SUBSET Msg /\ work[w].pc \in Step /\ work[w].cur \in Msg
          /\ work[w] = [pc |-> work[w].pc, msgs |-> work[w].msgs, cur |-> work[w].cur]
      BY <1>3
    <2>2. /\ work[w].cur = [id |-> work[w].cur.id, copy |-> work[w].cur.copy]
          /\ work[w].cur.id \in MsgIds /\ work[w].cur.copy \in Copy
      BY <2>1 DEF Msg
    <2>3. /\ work[w].cur.copy.job \in Jobs
          /\ work[w].cur.copy.attempt \in 0 .. MaxAttempts
      BY <2>2 DEF Copy
    <2> QED
      BY <1>1, <2>1, <2>2, <2>3 DEF Msg, Idle, Step
  <1> QED
    BY <1>1, <1>2, <1>3 DEF Work

\* A busy worker moves on to its next step with the message it has.
LEMMA Turns ==
    ASSUME TypeOK, NEW w \in Workers, NEW p \in Step, ~Idle(w),
           work' = [work EXCEPT ![w].pc = p]
    PROVE  /\ work' \in [Workers -> Work]
           /\ \A u \in Workers \ {w} : work'[u] = work[u]
           /\ work'[w].pc = p /\ work'[w].msgs = work[w].msgs
           /\ work'[w].cur = work[w].cur
           /\ ~Idle(w)'
  <1>1. /\ work[w].pc \in Step /\ work[w].msgs \in SUBSET Msg /\ work[w].cur \in Msg
        /\ work[w] = [pc |-> work[w].pc, msgs |-> work[w].msgs, cur |-> work[w].cur]
    BY WorkTyped
  <1>2. work'[w] = [pc |-> p, msgs |-> work[w].msgs, cur |-> work[w].cur]
    BY <1>1 DEF TypeOK
  <1>3. work'[w] \in Work
    BY <1>1, <1>2 DEF Work
  <1>4. /\ work' \in [Workers -> Work] /\ \A u \in Workers \ {w} : work'[u] = work[u]
    BY <1>3 DEF TypeOK
  <1> QED
    BY <1>2, <1>4 DEF Step, Idle

\* Deliveries and deletions leave a held message matching its entry.
LEMMA MatchKept ==
    ASSUME NEW x \in Msg, Match(x), Undelivered' \subseteq Undelivered,
           \A i \in MsgIds : entry'[i] \in {entry[i], NoCopy}
    PROVE  Match(x)'
  BY DEF Match, Msg

\* A good copy stays good: jobs stay accepted and failures only add up.
LEMMA GoodKept ==
    ASSUME NEW c \in Copy, Good(c), enqueued \subseteq enqueued',
           fails \in [Jobs -> 0 .. MaxAttempts],
           fails' \in [Jobs -> 0 .. MaxAttempts],
           \A j \in Jobs : fails[j] =< fails'[j]
    PROVE  Good(c)'
  BY JobAssumption DEF Good, Copy

\* A worker that does not move stays charged.
LEMMA OneChargedKept ==
    ASSUME TypeOK, NEW w \in Workers, OneCharged(w), work'[w] = work[w],
           enqueued \subseteq enqueued',
           \A x \in Copy : Good(x) => Good(x)',
           \A x \in Copy : Spent(x) => Spent(x)'
    PROVE  OneCharged(w)'
  <1>1. \A x \in work[w].msgs : x.copy \in Copy
    BY WorkTyped
  <1>2. CASE Idle(w)
    BY <1>1, <1>2 DEF OneCharged, Idle
  <1>3. CASE ~Idle(w)
    <2>1. work[w].cur.copy \in Copy
      BY <1>3, WorkTyped
    <2> QED
      BY <1>1, <2>1 DEF OneCharged
  <1> QED
    BY <1>2, <1>3

\* Nor does a step of another loop affect the workers.
LEMMA WorkChargedKept ==
    ASSUME TypeOK, WorkCharged, UNCHANGED work,
           enqueued \subseteq enqueued',
           \A x \in Copy : Good(x) => Good(x)',
           \A x \in Copy : Spent(x) => Spent(x)'
    PROVE  WorkCharged'
  BY OneChargedKept DEF WorkCharged

\* The empty queue satisfies the invariant.
LEMMA InitIInv == Init => IInv
  <1> SUFFICES ASSUME Init PROVE IInv
    OBVIOUS
  <1> USE DEF Init
  <1>0. Stored = {} /\ Undelivered = {}
    BY DEF Stored, Undelivered
  <1>1. TypeOK
    <2>1. Nothing \in Work
      BY DEF Nothing, Work
    <2> QED
      BY <2>1, JobAssumption, BoundAssumption DEF TypeOK
  <1>2. Queued
    BY <1>0 DEF Queued
  <1>3. Held
    BY DEF Held, HeldBy, Idle, Nothing
  <1>4. Charged
    BY <1>0 DEF Charged, WorkCharged, OneCharged, Nothing
  <1>5. NoneForgotten
    BY DEF NoneForgotten
  <1> QED
    BY <1>1, <1>2, <1>3, <1>4, <1>5 DEF IInv

-----------------------------------------------------------------------------
\* Enqueue: the accepted job is in the stream.
LEMMA EnqueueIInv ==
    ASSUME IInv, NEW j \in Jobs, Enqueue(j)
    PROVE  IInv'
  <1> DEFINE c == [job |-> j, attempt |-> 0]
  <1>0. c \in Copy /\ Good(c)'
    BY JobAssumption DEF Enqueue, Good, Copy, IInv, TypeOK
  <1>1. PICK m \in MsgIds, drop \in SUBSET MsgIds : Adds(c, m, drop)
    BY XAddFacts DEF IInv, Enqueue
  <1>2. /\ entry' \in [MsgIds -> Copy \union {NoCopy}]
        /\ dropped' \in SUBSET Jobs /\ dropped \subseteq dropped'
        /\ Queued' /\ Held'
        /\ (\A i \in Stored : Good(entry[i]))'
        /\ InStream(c.job)'
        /\ \A k \in Jobs : InStream(k) => InStream(k)' \/ k \in dropped'
    BY <1>0, <1>1, AddsKeeps DEF Enqueue
  <1>3. TypeOK'
    BY <1>1, <1>2 DEF Enqueue, letters, IInv, TypeOK, Adds
  <1>4. Charged'
    <2>1. \A x \in Copy : Good(x) => Good(x)'
      BY DEF Enqueue, Good
    <2>2. \A x \in Copy : Spent(x) => Spent(x)'
      BY DEF Enqueue, Spent
    <2>3. WorkCharged'
      BY <2>1, <2>2, WorkChargedKept DEF Enqueue, IInv, Charged
    <2>4. /\ (\A x \in retry : Good(x))' /\ (\A x \in dlq : Spent(x))'
          /\ (\A x \in inject : x.job \in enqueued)'
      BY <2>1, <2>2 DEF Enqueue, IInv, Charged, TypeOK, letters
    <2>5. (\A v \in Movers : \A x \in moving[v] : Good(x.copy))'
      BY <2>1 DEF Enqueue, IInv, Charged, TypeOK
    <2> QED
      BY <1>2, <2>3, <2>4, <2>5 DEF Charged
  <1>5. NoneForgotten'
    <2>1. ASSUME NEW k \in enqueued PROVE (Settled(k) \/ InStream(k) \/ InRetry(k))'
      BY <1>2 DEF IInv, TypeOK, NoneForgotten, Settled, InRetry, Doomed, Enqueue, letters
    <2> QED
      BY <1>2, <2>1 DEF NoneForgotten, Enqueue
  <1> QED
    BY <1>2, <1>3, <1>4, <1>5 DEF IInv

\* A step of one worker that removes no copy and finishes none.
LEMMA QuietIInv ==
    ASSUME IInv, NEW w \in Workers,
           entry' = entry, backlog' \in Seq(MsgIds), pending' \in SUBSET MsgIds,
           budget' \in 0 .. MaxMishaps,
           work' \in [Workers -> Work],
           \A u \in Workers \ {w} : work'[u] = work[u],
           UNCHANGED <<moving, retry, dlq, inject, enqueued, handled, purged, dropped>>,
           fails' \in [Jobs -> 0 .. MaxAttempts],
           \A j \in Jobs : fails[j] =< fails'[j],
           Queued', HeldBy(w)', OneCharged(w)',
           Undelivered' \subseteq Undelivered,
           Stored \intersect (pending \union Undelivered)
                \subseteq pending' \union Undelivered',
           work'[w].pc # "ack"
    PROVE  IInv'
  <1>1. TypeOK'
    BY DEF IInv, TypeOK
  <1>2. /\ \A x \in Copy : Good(x) => Good(x)'
        /\ \A x \in Copy : Spent(x) => Spent(x)'
    <2>1. \A x \in Copy : Good(x) => Good(x)'
      BY GoodKept DEF IInv, TypeOK
    <2>2. \A x \in Copy : Spent(x) => Spent(x)'
      BY JobAssumption DEF IInv, TypeOK, Spent, Copy
    <2> QED
      BY <2>1, <2>2
  <1>3. Held'
    <2>1. ASSUME NEW u \in Workers \ {w} PROVE HeldBy(u)'
      <3>1. \A x \in Msg : Match(x) => Match(x)'
        BY MatchKept DEF IInv, TypeOK
      <3>2. HeldBy(u) /\ work[u].msgs \subseteq Msg /\ (~Idle(u) => work[u].cur \in Msg)
        BY WorkTyped DEF IInv, Held
      <3> QED
        BY <3>1, <3>2 DEF HeldBy, Idle
    <2> QED
      BY <2>1 DEF Held
  <1>4. Charged'
    <2>1. WorkCharged'
      BY <1>2, OneChargedKept DEF IInv, Charged, WorkCharged
    <2>2. /\ (\A x \in retry : Good(x))' /\ (\A x \in dlq : Spent(x))'
          /\ (\A x \in inject : x.job \in enqueued)'
      BY <1>2 DEF IInv, Charged, TypeOK
    <2>3. (\A v \in Movers : \A x \in moving[v] : Good(x.copy))'
      BY <1>2 DEF IInv, Charged, TypeOK
    <2>4. (\A m \in Stored : Good(entry[m]))'
      BY <1>2 DEF IInv, Charged, TypeOK, Stored
    <2> QED
      BY <2>1, <2>2, <2>3, <2>4 DEF Charged
  <1>5. NoneForgotten'
    <2>1. \A m \in MsgIds : Finishing(m)' => Finishing(m)
      BY DEF Finishing
    <2>2. Stored' = Stored
      BY DEF Stored
    <2>3. \A j \in Jobs : InStream(j) => InStream(j)'
      BY <2>1, <2>2 DEF InStream, Stored
    <2> QED
      BY <2>3 DEF IInv, TypeOK, NoneForgotten, Settled, InRetry, Doomed
  <1> QED
    BY <1>1, <1>3, <1>4, <1>5 DEF IInv

\* XREADGROUP moves the head of the backlog to the pending list.
LEMMA ReadIInv ==
    ASSUME IInv, NEW w \in Consumers, Read(w)
    PROVE  IInv'
  <1>0. w \in Workers
    BY DEF Workers
  <1>1. /\ backlog \in Seq(MsgIds) /\ backlog # <<>> /\ Distinct(backlog)
        /\ Elems(backlog) = Undelivered /\ backlog' = Tail(backlog)
        /\ Elems(backlog') = Undelivered'
    BY DEF IInv, TypeOK, Queued, Distinct, Elems, Undelivered, Read
  <1>2. PICK m \in MsgIds :
             /\ m = Head(backlog)
             /\ backlog' \in Seq(MsgIds) /\ Undelivered' = Undelivered \ {m}
             /\ m \in Undelivered /\ Distinct(backlog')
    BY <1>1, TailElems
  <1>3. PICK x \in Msg : x = [id |-> m, copy |-> entry[m]] /\ Good(x.copy)
    <2>1. m \in Stored
      BY <1>2 DEF IInv, Queued
    <2>2. entry[m] \in Copy /\ Good(entry[m])
      BY <2>1 DEF IInv, Stored, TypeOK, Charged
    <2>3. [id |-> m, copy |-> entry[m]] \in Msg
      BY <2>2 DEF Msg
    <2> QED
      BY <2>2, <2>3
  <1>4. work'[w] = [pc |-> "run", msgs |-> {}, cur |-> x]
    BY <1>0, <1>2, <1>3 DEF Read, IInv, TypeOK
  <1>5. work'[w] \in Work /\ work' \in [Workers -> Work]
    <2>1. work'[w] \in Work
      BY <1>3, <1>4 DEF Work, Step
    <2> QED
      BY <2>1, <1>0 DEF Read, IInv, TypeOK
  <1>6. Queued'
    BY <1>2 DEF Queued, IInv, Read, Stored, Distinct
  <1>7. HeldBy(w)'
    BY <1>2, <1>3, <1>4 DEF HeldBy, Match, Read
  <1>8. OneCharged(w)'
    <2>1. Good(x.copy)'
      BY <1>3 DEF Read, history, Good
    <2> QED
      BY <1>4, <2>1 DEF OneCharged
  <1>9. \A u \in Workers \ {w} : work'[u] = work[u]
    BY DEF Read, IInv, TypeOK
  <1>10. pending' = pending \union {m} /\ UNCHANGED <<entry, moving, retry, dlq, inject, enqueued,
               handled, purged, dropped, fails, budget>>
    BY <1>2 DEF Read, letters, history
  <1>11. \A j \in Jobs : fails[j] =< fails'[j]
    BY <1>10, JobAssumption DEF IInv, TypeOK
  <1>12. pending' \in SUBSET MsgIds /\ fails' \in [Jobs -> 0 .. MaxAttempts] /\ budget' \in 0 .. MaxMishaps
    BY <1>2, <1>10 DEF IInv, TypeOK
  <1> QED
    BY <1>0, <1>2, <1>4, <1>5, <1>6, <1>7, <1>8, <1>9, <1>10, <1>11, <1>12, QuietIInv

\* XAUTOCLAIM hands out pending messages whose entry exists.
LEMMA ClaimIInv ==
    ASSUME IInv, NEW w \in Reclaimers, Claim(w)
    PROVE  IInv'
  <1>0. w \in Workers
    BY DEF Workers
  <1>1. PICK idle \in SUBSET pending :
             /\ work' = [work EXCEPT ![w].msgs =
                            {[id |-> m, copy |-> entry[m]] : m \in idle \intersect Stored}]
             /\ pending' = pending \ (idle \ Stored)
             /\ work[w].pc = "free"
             /\ UNCHANGED <<entry, backlog, moving, retry, dlq, inject, enqueued,
                            handled, purged, dropped, fails, budget>>
    BY DEF Claim, letters, history, Idle
  <1>2. PICK batch : batch = {[id |-> m, copy |-> entry[m]] : m \in idle \intersect Stored}
    OBVIOUS
  <1>3. \A x \in batch : x \in Msg /\ Match(x)' /\ Good(x.copy)'
    <2>1. ASSUME NEW m \in idle \intersect Stored
          PROVE  /\ [id |-> m, copy |-> entry[m]] \in Msg
                 /\ Match([id |-> m, copy |-> entry[m]])
                 /\ Good(entry[m])
      <3>1. m \in MsgIds /\ entry[m] \in Copy /\ Good(entry[m])
        BY DEF IInv, TypeOK, Stored, Charged
      <3>2. m \notin Undelivered
        BY DEF IInv, Queued
      <3> QED
        BY <3>1, <3>2 DEF Msg, Match
    <2>2. \A x \in batch : x \in Msg /\ Match(x) /\ Good(x.copy)
      BY <2>1, <1>2
    <2> QED
      BY <2>2, <1>1 DEF Match, Good, Undelivered
  <1>4. work'[w] = [pc |-> "free", msgs |-> batch]
    <2>1. work[w] = [pc |-> "free", msgs |-> work[w].msgs]
      BY <1>0, <1>1, WorkTyped DEF IInv, Idle
    <2>2. work'[w] = [work[w] EXCEPT !.msgs = batch]
      BY <1>0, <1>1, <1>2 DEF IInv, TypeOK
    <2> QED
      BY <2>1, <2>2
  <1>5. /\ work' \in [Workers -> Work]
        /\ \A u \in Workers \ {w} : work'[u] = work[u]
    <2>1. work'[w] \in Work
      BY <1>3, <1>4 DEF Work
    <2> QED
      BY <2>1, <1>0, <1>1 DEF IInv, TypeOK
  <1>6. Queued' /\ Undelivered' = Undelivered /\ Stored' = Stored
    BY <1>1 DEF Queued, IInv, Undelivered, Stored
  <1>7. HeldBy(w)' /\ OneCharged(w)'
    BY <1>3, <1>4 DEF HeldBy, OneCharged, Idle
  <1>8. pending' \in SUBSET MsgIds /\ fails' \in [Jobs -> 0 .. MaxAttempts]
        /\ budget' \in 0 .. MaxMishaps /\ backlog' \in Seq(MsgIds)
        /\ \A j \in Jobs : fails[j] =< fails'[j]
    BY <1>1, JobAssumption DEF IInv, TypeOK
  <1>9. Stored \intersect (pending \union Undelivered) \subseteq pending' \union Undelivered'
    BY <1>1, <1>6
  <1> QED
    BY <1>0, <1>1, <1>4, <1>5, <1>6, <1>7, <1>8, <1>9, QuietIInv

\* The next message of a claimed batch.
LEMMA TakeClaimedIInv ==
    ASSUME IInv, NEW w \in Reclaimers, NEW x \in work[w].msgs, TakeClaimed(w, x)
    PROVE  IInv'
  <1>0. w \in Workers
    BY DEF Workers
  <1>1. /\ UNCHANGED <<entry, backlog, pending, moving, retry, dlq, inject,
                       enqueued, handled, purged, dropped, fails, budget>>
        /\ work'[w] = [pc |-> "run", cur |-> x, msgs |-> work[w].msgs \ {x}]
        /\ \A u \in Workers \ {w} : work'[u] = work[u]
        /\ work' = [work EXCEPT ![w] = work'[w]]
    BY <1>0 DEF TakeClaimed, stream, letters, history, IInv, TypeOK
  <1>2. work[w].msgs \in SUBSET Msg /\ HeldBy(w) /\ OneCharged(w)
    BY <1>0, WorkTyped DEF IInv, Held, Charged, WorkCharged
  <1>3. work' \in [Workers -> Work]
    <2>1. work'[w] \in Work
      BY <1>1, <1>2 DEF Work, Step
    <2> QED
      BY <2>1, <1>0, <1>1 DEF IInv, TypeOK
  <1>4. Queued' /\ Undelivered' = Undelivered /\ Stored' = Stored
    BY <1>1 DEF Queued, IInv, Undelivered, Stored
  <1>5. HeldBy(w)'
    BY <1>1, <1>2, <1>4 DEF HeldBy, Match
  <1>6. OneCharged(w)'
    BY <1>1, <1>2 DEF OneCharged, Good
  <1>7. pending' \in SUBSET MsgIds /\ fails' \in [Jobs -> 0 .. MaxAttempts]
        /\ budget' \in 0 .. MaxMishaps /\ backlog' \in Seq(MsgIds)
        /\ \A j \in Jobs : fails[j] =< fails'[j]
    BY <1>1, JobAssumption DEF IInv, TypeOK
  <1>8. Stored \intersect (pending \union Undelivered) \subseteq pending' \union Undelivered'
    BY <1>1, <1>4
  <1> QED
    BY <1>0, <1>1, <1>3, <1>4, <1>5, <1>6, <1>7, <1>8, QuietIInv

\* A garbled envelope is on its way to the dead letters.
LEMMA UnparseableIInv ==
    ASSUME IInv, NEW w \in Workers, Unparseable(w)
    PROVE  IInv'
  <1>0. work[w].pc = "run" /\ ~Idle(w) /\ "dead" \in Step
    BY DEF Unparseable, Idle, Step
  <1>1. UNCHANGED <<entry, backlog, pending, moving, retry, dlq, inject,
                    enqueued, handled, purged, dropped, fails, budget>>
    BY DEF Unparseable, stream, letters, history
  <1>2. /\ work' \in [Workers -> Work]
        /\ \A u \in Workers \ {w} : work'[u] = work[u]
        /\ work'[w].pc = "dead" /\ work'[w].msgs = work[w].msgs
        /\ work'[w].cur = work[w].cur /\ ~Idle(w)'
    BY <1>0, Turns DEF Unparseable, IInv
  <1>3. Queued' /\ Undelivered' = Undelivered /\ Stored' = Stored
    BY <1>1 DEF Queued, IInv, Undelivered, Stored
  <1>4. HeldBy(w) /\ OneCharged(w)
    BY DEF IInv, Held, Charged, WorkCharged
  <1>5. HeldBy(w)'
    BY <1>0, <1>1, <1>2, <1>3, <1>4 DEF HeldBy, Match
  <1>6. OneCharged(w)'
    BY <1>0, <1>1, <1>2, <1>4 DEF OneCharged, Good, Spent, Unparseable
  <1>7. pending' \in SUBSET MsgIds /\ fails' \in [Jobs -> 0 .. MaxAttempts]
        /\ budget' \in 0 .. MaxMishaps /\ backlog' \in Seq(MsgIds)
        /\ \A j \in Jobs : fails[j] =< fails'[j]
    BY <1>1, JobAssumption DEF IInv, TypeOK
  <1>8. Stored \intersect (pending \union Undelivered) \subseteq pending' \union Undelivered'
    BY <1>1, <1>3
  <1> QED
    BY <1>1, <1>2, <1>3, <1>5, <1>6, <1>7, <1>8, QuietIInv

\* A failure is charged to the copy and to the job's history alike, so a copy
\* out of attempts belongs to a job that failed maxAttempts times.
LEMMA HandlerFailsIInv ==
    ASSUME IInv, NEW w \in Workers, HandlerFails(w)
    PROVE  IInv'
  <1>0. work[w].pc = "run" /\ ~Idle(w)
    BY DEF HandlerFails, Idle
  <1>1. UNCHANGED <<entry, backlog, pending, moving, retry, dlq, inject,
                    enqueued, handled, purged, dropped, budget>>
    BY DEF HandlerFails, stream, letters
  <1>2. PICK x \in Msg :
          /\ x = work[w].cur /\ x.id \in MsgIds /\ x.copy \in Copy
          /\ x.copy.job \in Jobs /\ x.copy.attempt \in 0 .. MaxAttempts
          /\ x = [id |-> x.id, copy |-> x.copy]
          /\ x.copy = [job |-> x.copy.job, attempt |-> x.copy.attempt]
          /\ work[w] = [pc |-> "run", msgs |-> work[w].msgs, cur |-> x]
          /\ work[w].msgs \in SUBSET Msg
    <2>1. work[w].cur.copy = [job |-> work[w].cur.copy.job,
                              attempt |-> work[w].cur.copy.attempt]
      BY <1>0, WorkTyped DEF IInv, Copy
    <2> QED
      BY <2>1, <1>0, WorkTyped DEF IInv
  <1>3. HeldBy(w) /\ OneCharged(w) /\ Match(x) /\ Good(x.copy)
        /\ \A y \in work[w].msgs : Match(y) /\ Good(y.copy)
    BY <1>0, <1>2 DEF IInv, Held, Charged, WorkCharged, HeldBy, OneCharged
  <1>4. PICK a \in 1 .. MaxAttempts : a = x.copy.attempt + 1
    BY <1>2, <1>3, JobAssumption DEF Good
  <1>5. PICK p \in Step : p = IF a >= MaxAttempts THEN "dead" ELSE "retry"
    BY DEF Step
  <1>6. PICK y \in Msg : /\ y = [id |-> x.id, copy |-> [job |-> x.copy.job, attempt |-> a]]
                         /\ y.id = x.id /\ y.copy.job = x.copy.job /\ y.copy.attempt = a
    <2>1. [job |-> x.copy.job, attempt |-> a] \in Copy
      BY <1>2, <1>4, JobAssumption DEF Copy
    <2>2. [id |-> x.id, copy |-> [job |-> x.copy.job, attempt |-> a]] \in Msg
      BY <2>1, <1>2 DEF Msg
    <2> QED
      BY <2>2
  <1>7. work'[w] = [pc |-> p, msgs |-> work[w].msgs, cur |-> y]
        /\ \A u \in Workers \ {w} : work'[u] = work[u]
    <2>1. work' = [work EXCEPT ![w].pc = p, ![w].cur.copy.attempt = a]
      BY <1>2, <1>4, <1>5 DEF HandlerFails
    <2>2. work'[w] = [[work[w] EXCEPT !.pc = p] EXCEPT !.cur.copy.attempt = a]
          /\ \A u \in Workers \ {w} : work'[u] = work[u]
      BY <2>1 DEF IInv, TypeOK
    <2>3. [x.copy EXCEPT !.attempt = a] = [job |-> x.copy.job, attempt |-> a]
      BY <1>2
    <2>4. [x EXCEPT !.copy.attempt = a] = y
      BY <1>2, <1>6, <2>3
    <2> QED
      BY <1>2, <2>2, <2>4
  <1>8. work' \in [Workers -> Work]
    <2>1. work'[w] \in Work
      BY <1>2, <1>7 DEF Work
    <2> QED
      BY <2>1, <1>7 DEF IInv, TypeOK, HandlerFails
  <1>9. Queued' /\ Undelivered' = Undelivered /\ Stored' = Stored
    BY <1>1 DEF Queued, IInv, Undelivered, Stored
  <1>10. HeldBy(w)'
    BY <1>1, <1>3, <1>6, <1>7, <1>9 DEF HeldBy, Match
  <1>11. /\ fails' \in [Jobs -> 0 .. MaxAttempts]
         /\ \A j \in Jobs : fails[j] =< fails'[j]
         /\ fails'[x.copy.job] = MaxAttempts \/ fails'[x.copy.job] = fails[x.copy.job] + 1
    BY <1>2, JobAssumption DEF IInv, TypeOK, HandlerFails
  <1>12. OneCharged(w)'
    <2>1. \A c \in Copy : Good(c) => Good(c)'
      BY <1>1, <1>11, GoodKept DEF IInv, TypeOK
    <2>2. \A z \in work'[w].msgs : Good(z.copy)'
      <3>1. \A z \in Msg : z.copy \in Copy
        BY DEF Msg
      <3> QED
        BY <2>1, <3>1, <1>2, <1>3, <1>7
    <2>3. work'[w].pc \in {"dead", "retry"} /\ (work'[w].pc = "dead" <=> a >= MaxAttempts)
      BY <1>5, <1>7
    <2>4. fails'[y.copy.job] \in 0 .. MaxAttempts /\ a =< fails'[y.copy.job] /\ y.copy.job \in enqueued'
      BY <1>1, <1>2, <1>3, <1>4, <1>6, <1>11, JobAssumption DEF Good, IInv, TypeOK
    <2>5. a < MaxAttempts => Good(y.copy)'
      BY <2>4, <1>6 DEF Good
    <2>6. a >= MaxAttempts => Spent(y.copy)'
      BY <2>4, <1>4, <1>6, JobAssumption DEF Spent
    <2> QED
      BY <2>2, <2>3, <2>5, <2>6, <1>4, <1>7, JobAssumption DEF OneCharged
  <1>13. pending' \in SUBSET MsgIds /\ budget' \in 0 .. MaxMishaps /\ backlog' \in Seq(MsgIds)
    BY <1>1 DEF IInv, TypeOK
  <1>14. Stored \intersect (pending \union Undelivered) \subseteq pending' \union Undelivered'
    BY <1>1, <1>9
  <1>15. work'[w].pc # "ack"
    BY <1>5, <1>7
  <1> QED
    BY <1>1, <1>7, <1>8, <1>9, <1>10, <1>11, <1>12, <1>13, <1>14, <1>15, QuietIInv

\* A crash or shutdown leaves the copies pending and charges nothing.
LEMMA StopIInv ==
    ASSUME IInv, NEW w \in Workers, Stop(w)
    PROVE  IInv'
  <1>1. /\ UNCHANGED <<entry, backlog, pending, moving, retry, dlq, inject,
                       enqueued, handled, purged, dropped, fails>>
        /\ budget' \in 0 .. MaxMishaps
    BY BoundAssumption DEF Stop, stream, letters, history, Mishap, IInv, TypeOK
  <1>2. work'[w] = Nothing /\ \A u \in Workers \ {w} : work'[u] = work[u]
    BY DEF Stop, IInv, TypeOK
  <1>3. work' \in [Workers -> Work]
    <2>1. Nothing \in Work
      BY DEF Nothing, Work
    <2> QED
      BY <2>1, <1>2 DEF Stop, IInv, TypeOK
  <1>4. Queued' /\ Undelivered' = Undelivered /\ Stored' = Stored
    BY <1>1 DEF Queued, IInv, Undelivered, Stored
  <1>5. HeldBy(w)' /\ OneCharged(w)' /\ work'[w].pc # "ack"
    BY <1>2 DEF HeldBy, OneCharged, Nothing, Idle
  <1>6. pending' \in SUBSET MsgIds /\ fails' \in [Jobs -> 0 .. MaxAttempts]
        /\ backlog' \in Seq(MsgIds)
        /\ \A j \in Jobs : fails[j] =< fails'[j]
    BY <1>1, JobAssumption DEF IInv, TypeOK
  <1>7. Stored \intersect (pending \union Undelivered) \subseteq pending' \union Undelivered'
    BY <1>1, <1>4
  <1> QED
    BY <1>1, <1>2, <1>3, <1>4, <1>5, <1>6, <1>7, QuietIInv

\* A worker may turn to its acknowledgement once the job of its message is
\* settled or safely in the retry set.
LEMMA SettlesIInv ==
    ASSUME IInv, NEW w \in Workers, ~Idle(w), work[w].cur.copy.job \in enqueued,
           work' = [work EXCEPT ![w].pc = "ack"],
           UNCHANGED <<entry, backlog, pending, moving, inject, enqueued, purged, fails>>,
           budget' \in 0 .. MaxMishaps,
           retry \subseteq retry', retry' \in SUBSET Copy, (\A c \in retry : Good(c))',
           dlq' \in SUBSET Copy, (\A c \in dlq : Spent(c))',
           \A c \in dlq : c \in dlq' \/ c.job \in dropped',
           handled \subseteq handled', handled' \in SUBSET Jobs,
           dropped \subseteq dropped', dropped' \in SUBSET Jobs,
           Settled(work[w].cur.copy.job)' \/ InRetry(work[w].cur.copy.job)'
    PROVE  IInv'
  <1>1. /\ work' \in [Workers -> Work]
        /\ \A u \in Workers \ {w} : work'[u] = work[u]
        /\ work'[w].pc = "ack" /\ work'[w].msgs = work[w].msgs
        /\ work'[w].cur = work[w].cur /\ ~Idle(w)'
    <2>1. "ack" \in Step
      BY DEF Step
    <2> QED
      BY <2>1, Turns DEF IInv
  <1>2. TypeOK'
    BY <1>1 DEF IInv, TypeOK
  <1>3. Queued' /\ Undelivered' = Undelivered /\ Stored' = Stored
    BY DEF Queued, IInv, Undelivered, Stored
  <1>4. Held'
    BY <1>1, <1>3 DEF IInv, Held, HeldBy, Match, Idle
  <1>5. Charged'
    <2>1. \A c : Good(c) <=> Good(c)'
      BY DEF Good
    <2>2. \A c : Spent(c) <=> Spent(c)'
      BY DEF Spent
    <2>3. WorkCharged'
      <3>1. ASSUME NEW u \in Workers \ {w} PROVE OneCharged(u)'
        BY <1>1, <2>1, <2>2, OneChargedKept DEF IInv, Charged, WorkCharged
      <3>2. OneCharged(w)'
        <4>1. \A x \in work[w].msgs : Good(x.copy)
          BY DEF IInv, Charged, WorkCharged, OneCharged
        <4> QED
          BY <4>1, <1>1, <2>1 DEF OneCharged
      <3> QED
        BY <3>1, <3>2 DEF WorkCharged
    <2>4. (\A v \in Movers : \A x \in moving[v] : Good(x.copy))'
      BY <2>1 DEF IInv, Charged
    <2>5. (\A m \in Stored : Good(entry[m]))' /\ (\A c \in inject : c.job \in enqueued)'
      BY <2>1, <1>3 DEF IInv, Charged
    <2> QED
      BY <2>3, <2>4, <2>5 DEF Charged
  <1>6. NoneForgotten'
    <2>1. PICK i \in MsgIds : i = work[w].cur.id
      BY WorkTyped DEF IInv
    <2>2. \A m \in MsgIds : Finishing(m)' => Finishing(m) \/ m = i
      BY <1>1, <2>1 DEF Finishing
    <2>3. i \in Stored => entry[i].job = work[w].cur.copy.job
      BY <2>1 DEF IInv, Held, HeldBy, Match, Stored
    <2>4. ASSUME NEW j \in Jobs, InStream(j) PROVE InStream(j)' \/ j = work[w].cur.copy.job
      BY <1>3, <2>2, <2>3, <2>4 DEF InStream, Stored
    <2>5. \A j : Settled(j) => Settled(j)'
      BY DEF Settled
    <2>6. \A j : InRetry(j) => InRetry(j)'
      BY DEF InRetry, Doomed
    <2> QED
      BY <2>4, <2>5, <2>6 DEF IInv, TypeOK, NoneForgotten
  <1> QED
    BY <1>2, <1>3, <1>4, <1>5, <1>6 DEF IInv

\* Success settles the job.
LEMMA HandlerSucceedsIInv ==
    ASSUME IInv, NEW w \in Workers, HandlerSucceeds(w)
    PROVE  IInv'
  <1>1. ~Idle(w) /\ work[w].pc = "run"
    BY DEF HandlerSucceeds, Idle
  <1>2. work[w].cur.copy.job \in enqueued /\ work[w].cur.copy.job \in Jobs
    BY <1>1, WorkTyped DEF IInv, Charged, WorkCharged, OneCharged, Good
  <1>3. /\ UNCHANGED <<entry, backlog, pending, moving, retry, dlq, inject, enqueued,
                       purged, fails, dropped, budget>>
        /\ work' = [work EXCEPT ![w].pc = "ack"]
        /\ handled' = handled \union {work[w].cur.copy.job}
    BY DEF HandlerSucceeds, stream, letters
  <1>4. /\ (\A c \in retry : Good(c))' /\ (\A c \in dlq : Spent(c))'
        /\ retry' \in SUBSET Copy /\ dlq' \in SUBSET Copy
        /\ dropped' \in SUBSET Jobs /\ handled' \in SUBSET Jobs /\ budget' \in 0 .. MaxMishaps
    BY <1>2, <1>3 DEF IInv, Charged, TypeOK, Good, Spent
  <1>5. Settled(work[w].cur.copy.job)'
    <2>1. PICK j : j = work[w].cur.copy.job
      OBVIOUS
    <2>2. work'[w].cur = work[w].cur
      <3>1. "ack" \in Step
        BY DEF Step
      <3> QED
        BY <3>1, <1>1, <1>3, Turns DEF IInv
    <2> QED
      BY <1>3, <2>1, <2>2 DEF Settled
  <1> QED
    BY <1>1, <1>2, <1>3, <1>4, <1>5, SettlesIInv

\* ZADD puts the copy in the retry set, unless it fails or a mover's ZREM is
\* about to take that very member.
LEMMA ScheduleRetryIInv ==
    ASSUME IInv, NEW w \in Workers, ScheduleRetry(w)
    PROVE  IInv'
  <1>1. ~Idle(w) /\ work[w].pc = "retry" /\ work' = [work EXCEPT ![w].pc = "ack"]
    BY DEF ScheduleRetry, Idle
  <1>2. PICK c \in Copy : c = work[w].cur.copy /\ c.job \in Jobs /\ Good(c)
    BY <1>1, WorkTyped DEF IInv, Charged, WorkCharged, OneCharged
  <1>3. UNCHANGED <<entry, backlog, pending, moving, dlq, inject, enqueued, handled,
                    purged, fails>>
    BY DEF ScheduleRetry, stream, letters
  <1>4. \/ /\ retry' = retry \union {c} /\ budget' = budget
           /\ dropped' = IF Doomed(c) THEN dropped \union {c.job} ELSE dropped
        \/ /\ Mishap /\ retry' = retry /\ dropped' = dropped \union {c.job}
    BY <1>2 DEF ScheduleRetry
  <1>5. /\ retry \subseteq retry' /\ retry' \in SUBSET Copy
        /\ dropped \subseteq dropped' /\ dropped' \in SUBSET Jobs
        /\ budget' \in 0 .. MaxMishaps
    BY <1>2, <1>4, BoundAssumption DEF Mishap, IInv, TypeOK
  <1>6. (\A x \in retry : Good(x))'
    BY <1>2, <1>3, <1>4 DEF IInv, Charged, Good
  <1>7. /\ (\A x \in dlq : Spent(x))' /\ dlq' \in SUBSET Copy /\ handled' \in SUBSET Jobs
    BY <1>3 DEF IInv, Charged, TypeOK, Spent
  <1>8. work'[w].cur = work[w].cur
    <2>1. "ack" \in Step
      BY DEF Step
    <2> QED
      BY <2>1, <1>1, Turns DEF IInv
  <1>9. Settled(c.job)' \/ InRetry(c.job)'
    <2>1. Doomed(c)' <=> Doomed(c)
      BY <1>3 DEF Doomed
    <2> QED
      BY <2>1, <1>4 DEF Settled, InRetry
  <1>10. Settled(work[w].cur.copy.job)' \/ InRetry(work[w].cur.copy.job)'
    BY <1>2, <1>8, <1>9
  <1>11. work[w].cur.copy.job \in enqueued
    BY <1>2 DEF Good
  <1> QED
    BY <1>1, <1>3, <1>5, <1>6, <1>7, <1>10, <1>11, SettlesIInv

\* The copy is parked; a dead letter it trims is counted as dropped.
LEMMA DeadLetterIInv ==
    ASSUME IInv, NEW w \in Workers, DeadLetter(w)
    PROVE  IInv'
  <1>1. ~Idle(w) /\ work[w].pc = "dead" /\ work' = [work EXCEPT ![w].pc = "ack"]
    BY DEF DeadLetter, Idle
  <1>2. PICK c \in Copy : c = work[w].cur.copy /\ c.job \in Jobs /\ Spent(c)
    BY <1>1, WorkTyped DEF IInv, Charged, WorkCharged, OneCharged
  <1>3. UNCHANGED <<entry, backlog, pending, moving, retry, inject, enqueued, handled,
                    purged, fails>>
    BY DEF DeadLetter, stream
  <1>4. \/ \E drop \in SUBSET dlq :
             /\ dlq' = (dlq \ drop) \union {c} /\ budget' = budget
             /\ dropped' = dropped \union {d.job : d \in drop}
        \/ Mishap /\ dlq' = dlq /\ dropped' = dropped \union {c.job}
    BY <1>2 DEF DeadLetter
  <1>5. /\ dlq' \in SUBSET Copy /\ budget' \in 0 .. MaxMishaps
        /\ dropped \subseteq dropped' /\ dropped' \in SUBSET Jobs
        /\ \A d \in dlq : d \in dlq' \/ d.job \in dropped'
    BY <1>2, <1>4, BoundAssumption DEF Mishap, IInv, TypeOK, Copy
  <1>6. (\A x \in dlq : Spent(x))'
    BY <1>2, <1>3, <1>4 DEF IInv, Charged, Spent
  <1>7. /\ (\A x \in retry : Good(x))' /\ retry' \in SUBSET Copy /\ handled' \in SUBSET Jobs
    BY <1>3 DEF IInv, Charged, TypeOK, Good
  <1>8. work'[w].cur = work[w].cur
    <2>1. "ack" \in Step
      BY DEF Step
    <2> QED
      BY <2>1, <1>1, Turns DEF IInv
  <1>9. Settled(c.job)'
    BY <1>4 DEF Settled
  <1>10. Settled(work[w].cur.copy.job)'
    BY <1>2, <1>8, <1>9
  <1>11. work[w].cur.copy.job \in enqueued
    BY <1>2 DEF Spent
  <1> QED
    BY <1>1, <1>3, <1>5, <1>6, <1>7, <1>10, <1>11, SettlesIInv

\* XACK and XDEL, either of which may fail, touch an entry whose job was
\* settled before.
LEMMA AckAndDelIInv ==
    ASSUME IInv, NEW w \in Workers, AckAndDel(w)
    PROVE  IInv'
  <1>1. ~Idle(w) /\ work[w].pc = "ack"
    BY DEF AckAndDel, Idle
  <1>2. PICK m \in MsgIds : m = work[w].cur.id
    BY <1>1, WorkTyped DEF IInv
  <1>3. /\ UNCHANGED <<backlog, moving, retry, dlq, inject, enqueued, handled, purged,
                       fails, dropped>>
        /\ pending' \in {pending, pending \ {m}}
        /\ entry' \in {entry, [entry EXCEPT ![m] = NoCopy]}
        /\ budget' \in 0 .. MaxMishaps
    BY <1>2, BoundAssumption DEF AckAndDel, letters, history, Mishap, IInv, TypeOK
  <1>4. /\ work'[w] = [pc |-> "free", msgs |-> work[w].msgs]
        /\ \A u \in Workers \ {w} : work'[u] = work[u]
        /\ work' \in [Workers -> Work]
    <2>1. /\ work'[w] = [pc |-> "free", msgs |-> work[w].msgs]
          /\ \A u \in Workers \ {w} : work'[u] = work[u]
      BY DEF AckAndDel, IInv, TypeOK
    <2>2. work'[w] \in Work
      <3>1. work[w].msgs \in SUBSET Msg
        BY WorkTyped DEF IInv
      <3> QED
        BY <2>1, <3>1 DEF Work
    <2> QED
      BY <2>1, <2>2 DEF AckAndDel, IInv, TypeOK
  <1>5. TypeOK'
    BY <1>3, <1>4 DEF IInv, TypeOK
  <1>6. /\ Undelivered' = Undelivered /\ m \notin Undelivered
        /\ Stored' \subseteq Stored
        /\ \A i \in Stored : i # m => i \in Stored'
        /\ \A i \in MsgIds : i # m => entry'[i] = entry[i]
        /\ \A i \in MsgIds : entry'[i] \in {entry[i], NoCopy}
        /\ \A i \in Stored' : entry'[i] = entry[i]
    BY <1>1, <1>2, <1>3 DEF Undelivered, Stored, IInv, TypeOK, Held, HeldBy, Match
  <1>7. Queued'
    BY <1>3, <1>6 DEF Queued, IInv
  <1>8. Held'
    <2>1. \A x \in Msg : Match(x) => Match(x)'
      BY <1>6, MatchKept
    <2>2. ASSUME NEW u \in Workers PROVE HeldBy(u)'
      <3>1. HeldBy(u) /\ work[u].msgs \subseteq Msg /\ (~Idle(u) => work[u].cur \in Msg)
        BY WorkTyped DEF IInv, Held
      <3>2. CASE u = w
        BY <2>1, <3>1, <3>2, <1>4 DEF HeldBy, Idle
      <3>3. CASE u # w
        BY <2>1, <3>1, <3>3, <1>4 DEF HeldBy, Idle
      <3> QED
        BY <3>2, <3>3
    <2> QED
      BY <2>2 DEF Held
  <1>9. Charged'
    <2>1. (\A c : Good(c) <=> Good(c)') /\ (\A c : Spent(c) <=> Spent(c)')
      BY <1>3 DEF Good, Spent
    <2>2. WorkCharged'
      <3>1. ASSUME NEW u \in Workers \ {w} PROVE OneCharged(u)'
        BY <1>3, <1>4, <2>1, OneChargedKept DEF IInv, Charged, WorkCharged
      <3>2. OneCharged(w)'
        <4>1. \A x \in work[w].msgs : Good(x.copy)
          BY DEF IInv, Charged, WorkCharged, OneCharged
        <4> QED
          BY <4>1, <1>4, <2>1 DEF OneCharged
      <3> QED
        BY <3>1, <3>2 DEF WorkCharged
    <2>3. (\A v \in Movers : \A x \in moving[v] : Good(x.copy))'
      BY <1>3, <2>1 DEF IInv, Charged
    <2>4. (\A i \in Stored : Good(entry[i]))'
      BY <1>6, <2>1 DEF IInv, Charged
    <2>5. /\ (\A c \in retry : Good(c))' /\ (\A c \in dlq : Spent(c))'
          /\ (\A c \in inject : c.job \in enqueued)'
      BY <1>3, <2>1 DEF IInv, Charged
    <2> QED
      BY <2>2, <2>3, <2>4, <2>5 DEF Charged
  <1>10. NoneForgotten'
    <2>1. /\ Finishing(m) /\ \A i \in MsgIds : Finishing(i)' => Finishing(i)
      BY <1>1, <1>2, <1>4 DEF Finishing
    <2>2. ASSUME NEW j \in Jobs, InStream(j) PROVE InStream(j)'
      <3>1. PICK i \in Stored : /\ entry[i].job = j /\ i \in pending \union Undelivered
                                /\ ~Finishing(i)
        BY <2>2 DEF InStream
      <3>2. i # m /\ i \in MsgIds
        BY <2>1, <3>1 DEF Stored
      <3>3. i \in Stored' /\ entry'[i].job = j /\ i \in pending' \union Undelivered'
            /\ ~Finishing(i)'
        BY <3>1, <3>2, <2>1, <1>3, <1>6
      <3> QED
        BY <3>3 DEF InStream
    <2> QED
      BY <2>2, <1>3 DEF IInv, TypeOK, NoneForgotten, Settled, InRetry, Doomed
  <1> QED
    BY <1>5, <1>7, <1>8, <1>9, <1>10 DEF IInv

\* A mover's step that adds nothing to the stream, and takes no member of the
\* retry set but the ones it had re-added.
LEMMA MovesIInv ==
    ASSUME IInv,
           UNCHANGED <<entry, backlog, pending, work, dlq, inject, enqueued, handled,
                       purged, fails, dropped>>,
           budget' \in 0 .. MaxMishaps,
           moving' \in [Movers -> SUBSET [copy : Copy, added : BOOLEAN]],
           \A v \in Movers : \A x \in moving'[v] : Good(x.copy),
           retry' \subseteq retry,
           \A c \in retry : ~Doomed(c) => c \in retry' /\ ~Doomed(c)'
    PROVE  IInv'
  <1>1. TypeOK'
    BY DEF IInv, TypeOK
  <1>2. Queued' /\ Undelivered' = Undelivered /\ Stored' = Stored
    BY DEF IInv, Queued, Undelivered, Stored
  <1>3. Held'
    BY <1>2 DEF IInv, Held, HeldBy, Match, Idle
  <1>4. Charged'
    BY <1>2 DEF IInv, Charged, WorkCharged, OneCharged, Good, Spent
  <1>5. NoneForgotten'
    <2>1. \A j : (Settled(j) => Settled(j)') /\ (InStream(j) => InStream(j)')
      BY <1>2 DEF Settled, InStream, Finishing
    <2>2. \A j : InRetry(j) => InRetry(j)'
      BY DEF InRetry
    <2> QED
      BY <2>1, <2>2 DEF IInv, NoneForgotten
  <1> QED
    BY <1>1, <1>2, <1>3, <1>4, <1>5 DEF IInv

\* Reading the due members changes nothing in Redis.
LEMMA ReadDueIInv ==
    ASSUME IInv, NEW v \in Movers, ReadDue(v)
    PROVE  IInv'
  <1>1. /\ UNCHANGED <<entry, backlog, pending, work, retry, dlq, inject, enqueued,
                       handled, purged, fails, dropped, budget>>
        /\ budget' \in 0 .. MaxMishaps
    BY DEF ReadDue, stream, letters, history, IInv, TypeOK
  <1>2. PICK due \in SUBSET retry :
          moving' = [moving EXCEPT ![v] = {[copy |-> c, added |-> FALSE] : c \in due}]
    BY DEF ReadDue
  <1>3. /\ \A u \in Movers \ {v} : moving'[u] = moving[u]
        /\ moving'[v] = {[copy |-> c, added |-> FALSE] : c \in due}
    BY <1>2 DEF IInv, TypeOK
  <1>4. moving'[v] \in SUBSET [copy : Copy, added : BOOLEAN]
    <2>1. \A c \in due : [copy |-> c, added |-> FALSE] \in [copy : Copy, added : BOOLEAN]
      BY DEF IInv, TypeOK
    <2> QED
      BY <1>3, <2>1
  <1>5. moving' \in [Movers -> SUBSET [copy : Copy, added : BOOLEAN]]
    BY <1>2, <1>3, <1>4 DEF IInv, TypeOK
  <1>6. \A x \in moving'[v] : x.copy \in retry /\ ~x.added
    BY <1>3
  <1>7. \A u \in Movers : \A x \in moving'[u] : Good(x.copy)
    BY <1>3, <1>6 DEF IInv, Charged
  <1>8. \A c \in retry : ~Doomed(c) => ~Doomed(c)'
    <2>1. \A c : [copy |-> c, added |-> TRUE] \notin moving'[v]
      BY <1>6
    <2> QED
      BY <1>3, <2>1 DEF Doomed
  <1> QED
    BY <1>1, <1>5, <1>7, <1>8, MovesIInv

\* A mover that stops takes nothing with it.
LEMMA MoverStopsIInv ==
    ASSUME IInv, NEW v \in Movers, MoverStops(v)
    PROVE  IInv'
  <1>1. /\ UNCHANGED <<entry, backlog, pending, work, retry, dlq, inject, enqueued,
                       handled, purged, fails, dropped>>
        /\ budget' \in 0 .. MaxMishaps
        /\ moving' = [moving EXCEPT ![v] = {}]
    BY BoundAssumption DEF MoverStops, Mishap, stream, letters, history, IInv, TypeOK
  <1>2. /\ moving' \in [Movers -> SUBSET [copy : Copy, added : BOOLEAN]]
        /\ \A u \in Movers : moving'[u] \subseteq moving[u]
    BY <1>1 DEF IInv, TypeOK
  <1>3. \A u \in Movers : \A x \in moving'[u] : Good(x.copy)
    BY <1>2 DEF IInv, Charged
  <1>4. \A c \in retry : ~Doomed(c) => ~Doomed(c)'
    BY <1>2 DEF Doomed
  <1> QED
    BY <1>1, <1>2, <1>3, <1>4, MovesIInv

\* ZREM takes a member whose copy is back on the stream.
LEMMA RemoveDueIInv ==
    ASSUME IInv, NEW v \in Movers, NEW x \in moving[v], RemoveDue(v, x)
    PROVE  IInv'
  <1>1. /\ UNCHANGED <<entry, backlog, pending, work, dlq, inject, enqueued,
                       handled, purged, fails, dropped>>
        /\ budget' \in 0 .. MaxMishaps
        /\ moving' = [moving EXCEPT ![v] = @ \ {x}]
        /\ retry' \in {retry, retry \ {x.copy}}
        /\ x.added
    BY BoundAssumption DEF RemoveDue, Mishap, stream, letters, history, IInv, TypeOK
  <1>2. /\ moving' \in [Movers -> SUBSET [copy : Copy, added : BOOLEAN]]
        /\ \A u \in Movers : moving'[u] \subseteq moving[u]
    BY <1>1 DEF IInv, TypeOK
  <1>3. \A u \in Movers : \A y \in moving'[u] : Good(y.copy)
    BY <1>2 DEF IInv, Charged
  <1>4. Doomed(x.copy)
    <2>1. x \in [copy : Copy, added : BOOLEAN]
      BY DEF IInv, TypeOK
    <2>2. x = [copy |-> x.copy, added |-> TRUE]
      BY <1>1, <2>1
    <2> QED
      BY <2>2 DEF Doomed
  <1>5. \A c \in retry : ~Doomed(c) => c \in retry' /\ ~Doomed(c)'
    BY <1>1, <1>2, <1>4 DEF Doomed
  <1> QED
    BY <1>1, <1>2, <1>3, <1>5, MovesIInv

\* A step on the dead letters alone, every letter it removes being purged.
LEMMA LettersIInv ==
    ASSUME IInv,
           UNCHANGED <<entry, backlog, pending, work, moving, retry, enqueued, handled,
                       fails, dropped>>,
           budget' \in 0 .. MaxMishaps,
           dlq' \subseteq dlq, inject' \subseteq inject \union dlq,
           purged \subseteq purged', purged' \in SUBSET Jobs,
           \A c \in dlq : c \in dlq' \/ c.job \in purged'
    PROVE  IInv'
  <1>1. TypeOK'
    BY DEF IInv, TypeOK
  <1>2. Queued' /\ Undelivered' = Undelivered /\ Stored' = Stored
    BY DEF IInv, Queued, Undelivered, Stored
  <1>3. Held'
    BY <1>2 DEF IInv, Held, HeldBy, Match, Idle
  <1>4. Charged'
    BY <1>2 DEF IInv, Charged, WorkCharged, OneCharged, Good, Spent
  <1>5. NoneForgotten'
    <2>1. \A j : (InRetry(j) => InRetry(j)') /\ (InStream(j) => InStream(j)')
      BY <1>2 DEF InRetry, Doomed, InStream, Finishing
    <2>2. \A j : Settled(j) => Settled(j)'
      BY DEF Settled
    <2> QED
      BY <2>1, <2>2 DEF IInv, NoneForgotten
  <1> QED
    BY <1>1, <1>2, <1>3, <1>4, <1>5 DEF IInv

\* The operator reads the dead letters.
LEMMA ReinjectReadIInv ==
    ASSUME IInv, ReinjectRead
    PROVE  IInv'
  BY LettersIInv, BoundAssumption
     DEF ReinjectRead, Mishap, stream, history, IInv, TypeOK

\* The reinjection is interrupted.
LEMMA ReinjectStopsIInv ==
    ASSUME IInv, ReinjectStops
    PROVE  IInv'
  BY LettersIInv DEF ReinjectStops, stream, history, IInv, TypeOK

\* Purged letters are in the history.
LEMMA PurgeDLQIInv ==
    ASSUME IInv, NEW old \in SUBSET dlq, PurgeDLQ(old)
    PROVE  IInv'
  <1>1. purged' \in SUBSET Jobs /\ purged \subseteq purged'
        /\ \A c \in old : c.job \in purged'
    BY DEF PurgeDLQ, IInv, TypeOK, Copy
  <1> QED
    BY <1>1, LettersIInv DEF PurgeDLQ, stream, IInv, TypeOK

\* A copy is put back on the stream, by a mover or from the dead letters.
LEMMA RequeueIInv ==
    ASSUME IInv, NEW c \in Copy, Good(c), XAdd(c),
           UNCHANGED <<pending, work, retry, enqueued, handled, purged, fails>>,
           budget' \in 0 .. MaxMishaps,
           moving' \in [Movers -> SUBSET [copy : Copy, added : BOOLEAN]],
           \A v \in Movers : \A x \in moving'[v] : Good(x.copy),
           \A d \in retry : ~Doomed(d) => ~Doomed(d)' \/ d.job = c.job,
           dlq' \subseteq dlq, inject' \subseteq inject,
           \A d \in dlq : d \in dlq' \/ d.job = c.job
    PROVE  IInv'
  <1>1. PICK m \in MsgIds, drop \in SUBSET MsgIds : Adds(c, m, drop)
    BY XAddFacts DEF IInv
  <1>2. /\ entry' \in [MsgIds -> Copy \union {NoCopy}]
        /\ dropped' \in SUBSET Jobs /\ dropped \subseteq dropped'
        /\ Queued' /\ Held'
        /\ (\A i \in Stored : Good(entry[i]))'
        /\ InStream(c.job)'
        /\ \A k \in Jobs : InStream(k) => InStream(k)' \/ k \in dropped'
    <2>1. Good(c)'
      BY DEF Good
    <2> QED
      BY <2>1, <1>1, AddsKeeps
  <1>3. TypeOK'
    BY <1>1, <1>2 DEF IInv, TypeOK, Adds
  <1>4. Charged'
    <2>1. WorkCharged'
      BY DEF IInv, Charged, WorkCharged, OneCharged, Good, Spent
    <2> QED
      BY <2>1, <1>2 DEF IInv, Charged, Good, Spent
  <1>5. NoneForgotten'
    <2>1. \A j : Settled(j) => Settled(j)' \/ j = c.job
      BY <1>2 DEF Settled
    <2>2. \A j : InRetry(j) => InRetry(j)' \/ j = c.job
      BY DEF InRetry
    <2>3. \A j \in Jobs : InStream(j) => InStream(j)' \/ Settled(j)'
      BY <1>2 DEF Settled
    <2> QED
      BY <1>2, <2>1, <2>2, <2>3 DEF IInv, TypeOK, NoneForgotten
  <1> QED
    BY <1>2, <1>3, <1>4, <1>5 DEF IInv

\* XADD of a due retry makes its member a doomed one, but the job is back in
\* the stream; a failed XADD leaves the member in the set.
LEMMA AddDueIInv ==
    ASSUME IInv, NEW v \in Movers, NEW x \in moving[v], AddDue(v, x)
    PROVE  IInv'
  <1>1. /\ x \in [copy : Copy, added : BOOLEAN] /\ x.copy \in Copy /\ Good(x.copy)
        /\ x = [copy |-> x.copy, added |-> x.added]
    BY DEF IInv, TypeOK, Charged
  <1>2. UNCHANGED <<pending, work, retry, dlq, inject, enqueued, handled, purged, fails>>
    BY DEF AddDue, letters
  <1>3. CASE /\ XAdd(x.copy)
             /\ moving' = [moving EXCEPT ![v] =
                    (@ \ {x}) \union {[x EXCEPT !.added = TRUE]}]
             /\ UNCHANGED budget
    <2>1. PICK y \in [copy : Copy, added : BOOLEAN] :
             y = [x EXCEPT !.added = TRUE] /\ y.copy = x.copy
      <3>1. [x EXCEPT !.added = TRUE] \in [copy : Copy, added : BOOLEAN]
        BY <1>1, Zenon
      <3>2. [x EXCEPT !.added = TRUE].copy = x.copy
        BY <1>1
      <3> QED
        BY <3>1, <3>2
    <2>2. /\ \A u \in Movers \ {v} : moving'[u] = moving[u]
          /\ moving'[v] = (moving[v] \ {x}) \union {y}
      BY <1>3, <2>1 DEF IInv, TypeOK
    <2>3. moving' \in [Movers -> SUBSET [copy : Copy, added : BOOLEAN]]
      BY <1>3, <2>1, <2>2 DEF IInv, TypeOK
    <2>4. \A u \in Movers : \A z \in moving'[u] : Good(z.copy)
      BY <1>1, <2>1, <2>2 DEF IInv, Charged
    <2>5. \A d \in retry : ~Doomed(d) => ~Doomed(d)' \/ d.job = x.copy.job
      <3>1. ASSUME NEW d \in retry, ~Doomed(d), Doomed(d)' PROVE d = x.copy
        <4>1. PICK u \in Movers : [copy |-> d, added |-> TRUE] \in moving'[u]
          BY <3>1 DEF Doomed
        <4>2. [copy |-> d, added |-> TRUE] = y
          BY <4>1, <3>1, <2>2 DEF Doomed
        <4> QED
          BY <4>2, <2>1
      <3> QED
        BY <3>1
    <2>6. budget' \in 0 .. MaxMishaps
      BY <1>3 DEF IInv, TypeOK
    <2> QED
      BY <1>1, <1>2, <1>3, <2>3, <2>4, <2>5, <2>6, RequeueIInv
  <1>4. CASE /\ Mishap
             /\ moving' = [moving EXCEPT ![v] = @ \ {x}]
             /\ UNCHANGED <<entry, backlog, dropped>>
    <2>1. /\ moving' \in [Movers -> SUBSET [copy : Copy, added : BOOLEAN]]
          /\ \A u \in Movers : moving'[u] \subseteq moving[u]
      BY <1>4 DEF IInv, TypeOK
    <2>2. \A u \in Movers : \A y \in moving'[u] : Good(y.copy)
      BY <2>1 DEF IInv, Charged
    <2>3. \A c \in retry : ~Doomed(c) => c \in retry' /\ ~Doomed(c)'
      BY <1>2, <2>1 DEF Doomed
    <2>4. budget' \in 0 .. MaxMishaps
      BY <1>4, BoundAssumption DEF IInv, TypeOK, Mishap
    <2> QED
      BY <1>2, <1>4, <2>1, <2>2, <2>3, <2>4, MovesIInv
  <1> QED
    BY <1>3, <1>4 DEF AddDue

\* Reinjection enqueues before it deletes.
LEMMA ReinjectEntryIInv ==
    ASSUME IInv, NEW c \in inject, ReinjectEntry(c)
    PROVE  IInv'
  <1>1. /\ UNCHANGED <<pending, work, moving, retry, enqueued, handled, purged, fails>>
        /\ inject' = inject \ {c}
    BY DEF ReinjectEntry
  <1>2. CASE c.job \in Garbled /\ UNCHANGED <<entry, backlog, dlq, dropped, budget>>
    BY <1>1, <1>2, LettersIInv DEF IInv, TypeOK
  <1>3. CASE /\ c.job \notin Garbled
             /\ XAdd([c EXCEPT !.attempt = 0])
             /\ \/ dlq' = dlq \ {c} /\ UNCHANGED budget
                \/ dlq' = dlq /\ Mishap
    <2>1. PICK d : d = [c EXCEPT !.attempt = 0]
      OBVIOUS
    <2>2. /\ c \in Copy /\ c.job \in Jobs /\ c.job \in enqueued
          /\ c = [job |-> c.job, attempt |-> c.attempt]
      BY DEF IInv, TypeOK, Copy, Charged
    <2>3. d = [job |-> c.job, attempt |-> 0]
      BY <2>1, <2>2
    <2>4. d \in Copy /\ Good(d) /\ d.job = c.job
      BY <2>2, <2>3, JobAssumption DEF Copy, Good, IInv, TypeOK
    <2>5. budget' \in 0 .. MaxMishaps
      BY <1>3, BoundAssumption DEF Mishap, IInv, TypeOK
    <2>6. /\ moving' \in [Movers -> SUBSET [copy : Copy, added : BOOLEAN]]
          /\ \A v \in Movers : \A x \in moving'[v] : Good(x.copy)
          /\ \A x \in retry : ~Doomed(x) => ~Doomed(x)' \/ x.job = d.job
      BY <1>1 DEF IInv, TypeOK, Charged, Doomed
    <2>7. \A x \in dlq : x \in dlq' \/ x.job = d.job
      BY <1>3, <2>4
    <2> QED
      BY <1>1, <1>3, <2>1, <2>4, <2>5, <2>6, <2>7, RequeueIInv
  <1> QED
    BY <1>2, <1>3 DEF ReinjectEntry

-----------------------------------------------------------------------------
\* Every step preserves the invariant.
LEMMA NextIInv == IInv /\ [Next]_vars => IInv'
  <1> SUFFICES ASSUME IInv, [Next]_vars PROVE IInv'
    OBVIOUS
  <1>1. ASSUME NEW j \in Jobs, Enqueue(j) PROVE IInv'
    BY <1>1, EnqueueIInv
  <1>2. ASSUME NEW c \in Consumers, Read(c) PROVE IInv'
    BY <1>2, ReadIInv
  <1>3. ASSUME NEW r \in Reclaimers, Reclaim(r) PROVE IInv'
    BY <1>3, ClaimIInv, TakeClaimedIInv DEF Reclaim
  <1>4. ASSUME NEW w \in Workers, Process(w) PROVE IInv'
    BY <1>4, UnparseableIInv, HandlerSucceedsIInv, HandlerFailsIInv,
       ScheduleRetryIInv, DeadLetterIInv, AckAndDelIInv DEF Process
  <1>5. ASSUME NEW v \in Movers, Move(v) PROVE IInv'
    BY <1>5, ReadDueIInv, AddDueIInv, RemoveDueIInv DEF Move
  <1>6. ASSUME NEW w \in Workers, Stop(w) PROVE IInv'
    BY <1>6, StopIInv
  <1>7. ASSUME NEW v \in Movers, MoverStops(v) PROVE IInv'
    BY <1>7, MoverStopsIInv
  <1>8. CASE ReinjectRead \/ ReinjectStops
    BY <1>8, ReinjectReadIInv, ReinjectStopsIInv
  <1>9. ASSUME NEW c \in inject, ReinjectEntry(c) PROVE IInv'
    BY <1>9, ReinjectEntryIInv
  <1>10. ASSUME NEW old \in SUBSET dlq, PurgeDLQ(old) PROVE IInv'
    BY <1>10, PurgeDLQIInv
  <1>11. CASE UNCHANGED vars
    <2>1. UNCHANGED <<entry, backlog, pending, work, dlq, inject, enqueued, handled,
                      purged, fails, dropped, moving, retry, budget>>
      BY <1>11 DEF vars
    <2> QED
      BY <2>1, LettersIInv DEF IInv, TypeOK
  <1> QED
    BY <1>1, <1>2, <1>3, <1>4, <1>5, <1>6, <1>7, <1>8, <1>9, <1>10, <1>11 DEF Next

\* Every reachable state satisfies the inductive invariant, for any jobs,
\* workers, movers, attempts, stream length and number of mishaps.
THEOREM Safe == Spec => []IInv
  BY InitIInv, NextIInv, PTL DEF Spec

\* Every reachable state is well-typed.
THEOREM TypeCorrect == Spec => []TypeOK
  BY Safe, PTL DEF IInv

\* process: every attempt charged to a copy is a genuine failure of its
\* handler, whichever loops crash, stop or run a duplicate, so only a job that
\* failed maxAttempts times (or a garbled one) is dead-lettered.
THEOREM BudgetKept == Spec => []BudgetSpentOnFailures
  <1>1. IInv => BudgetSpentOnFailures
    BY DEF IInv, Charged, Good, Spent, BudgetSpentOnFailures
  <1> QED
    BY <1>1, Safe, PTL

-----------------------------------------------------------------------------
\* The abstract service's due and parked jobs.
DueJobs == {j \in Jobs : Due(j)}
Parked == {c.job : c \in dlq}

\* When a set gained one member and lost only some of lost.
LEMMA JoinsIf ==
    ASSUME NEW S, NEW T, NEW j, NEW lost,
           T \subseteq S \union {j}, S \ lost \subseteq T, j \in T
    PROVE  T \in Service!Joins(j, S, lost)
  <1>1. S \ T \in SUBSET lost
    OBVIOUS
  <1>2. T = (S \ (S \ T)) \union {j}
    OBVIOUS
  <1> QED
    BY <1>1, <1>2 DEF Service!Joins

\* XADD makes the job due; the jobs it drops are forfeited.
LEMMA AddsDue ==
    ASSUME IInv, NEW c \in Copy, c.job \in Jobs, NEW m \in MsgIds,
           NEW drop \in SUBSET MsgIds, Adds(c, m, drop),
           UNCHANGED <<pending, retry>>
    PROVE  \E lost \in SUBSET enqueued :
             /\ dropped' = dropped \union lost
             /\ DueJobs' \in Service!Joins(c.job, DueJobs, lost)
  <1>1. PICK lost : lost = {entry[i].job : i \in drop \intersect (pending \union Undelivered)}
    OBVIOUS
  <1>2. lost \in SUBSET enqueued /\ dropped' = dropped \union lost
    BY <1>1 DEF Adds, IInv, Charged, Good
  <1>3. c # NoCopy
    BY NoCopyAssumption
  <1>4. /\ m \in Stored' /\ m \in Undelivered' /\ entry'[m] = c
        /\ m \notin pending \union Undelivered
        /\ \A i \in Stored : i # m /\ i \notin drop => i \in Stored' /\ entry'[i] = entry[i]
        /\ \A i \in Stored' : i = m \/ (i \in Stored /\ i \notin drop /\ entry'[i] = entry[i])
        /\ Undelivered' = (Undelivered \ drop) \union {m}
    BY <1>3 DEF Adds, Stored, InUse
  <1>5. c.job \in DueJobs'
    BY <1>4 DEF DueJobs, Due
  <1>6. DueJobs' \subseteq DueJobs \union {c.job}
    BY <1>4 DEF DueJobs, Due
  <1>7. DueJobs \ lost \subseteq DueJobs'
    <2>1. ASSUME NEW j \in Jobs, Due(j), j \notin lost PROVE Due(j)'
      <3>1. CASE \E x \in retry : x.job = j
        BY <3>1 DEF Due
      <3>2. CASE \E i \in Stored : entry[i].job = j /\ i \in pending \union Undelivered
        <4>1. PICK i \in Stored : entry[i].job = j /\ i \in pending \union Undelivered
          BY <3>2
        <4>2. i # m /\ i \notin drop
          BY <4>1, <2>1, <1>1, <1>4
        <4>3. i \in Stored' /\ entry'[i].job = j /\ i \in pending' \union Undelivered'
          BY <4>1, <4>2, <1>4
        <4> QED
          BY <4>3 DEF Due
      <3> QED
        BY <2>1, <3>1, <3>2 DEF Due
    <2> QED
      BY <2>1 DEF DueJobs
  <1>8. DueJobs' \in Service!Joins(c.job, DueJobs, lost)
    BY <1>5, <1>6, <1>7, JoinsIf
  <1> QED
    BY <1>2, <1>8

\* A step that the abstract service does not see.
Stays == UNCHANGED <<enqueued, DueJobs, Parked, handled, purged, dropped>>

\* Such a step leaves the abstract variables alone.
LEMMA StutterIf == Stays => UNCHANGED Service!vars
  BY DEF Stays, DueJobs, Parked, Service!vars

\* Moving ids between backlog and pending list changes no job's being due.
LEMMA DueKept ==
    ASSUME Stored' = Stored, entry' = entry, UNCHANGED retry,
           Stored \intersect (pending \union Undelivered)
             = Stored \intersect (pending' \union Undelivered')
    PROVE  DueJobs' = DueJobs
  BY DEF DueJobs, Due

\* Nor does a step that leaves stream and retry set alone.
LEMMA DueSame ==
    ASSUME UNCHANGED <<entry, backlog, pending, retry>>
    PROVE  DueJobs' = DueJobs
  BY DEF DueJobs, Due, Stored, Undelivered

\* The parked jobs are those of the dead letters.
LEMMA ParkedSame ==
    ASSUME UNCHANGED dlq
    PROVE  Parked' = Parked
  BY DEF Parked

\* A job whose last due copy went away is settled: NoneForgotten after the
\* step leaves no other possibility.
LEMMA LastCopySettled ==
    ASSUME IInv', UNCHANGED <<dlq, enqueued, handled, purged, dropped>>,
           NEW j \in enqueued, j \in Jobs, j \notin DueJobs'
    PROVE  j \in handled \union Parked \union purged \union dropped
  <1>1. Settled(j)' \/ InStream(j)' \/ InRetry(j)'
    BY DEF IInv, NoneForgotten
  <1>2. ~InStream(j)' /\ ~InRetry(j)'
    BY DEF DueJobs, Due, InStream, InRetry
  <1> QED
    BY <1>1, <1>2 DEF Settled, Parked

\* A step that can only end one job's being due is Finish, or invisible.
LEMMA FinishIf ==
    ASSUME IInv, IInv', UNCHANGED <<dlq, enqueued, handled, purged, dropped>>,
           NEW j \in enqueued, DueJobs' \subseteq DueJobs, DueJobs \ {j} \subseteq DueJobs'
    PROVE  Service!Next \/ UNCHANGED Service!vars
  <1>1. j \in Jobs /\ Parked' = Parked
    BY ParkedSame DEF IInv, TypeOK
  <1>2. CASE j \in DueJobs'
    <2>1. DueJobs' = DueJobs
      BY <1>2
    <2> QED
      BY <1>1, <2>1, StutterIf DEF Stays
  <1>3. CASE j \notin DueJobs'
    <2>1. j \in handled \union Parked \union purged \union dropped
      BY <1>1, <1>3, LastCopySettled
    <2>2. DueJobs' = DueJobs \ {j}
      BY <1>3
    <2>3. Service!Finish(j)
      BY <1>1, <2>1, <2>2 DEF Service!Finish, DueJobs, Parked
    <2> QED
      BY <1>1, <2>3 DEF Service!Next
  <1> QED
    BY <1>2, <1>3

\* Enqueue is Accept.
LEMMA EnqueueRefines ==
    ASSUME IInv, NEW j \in Jobs, Enqueue(j)
    PROVE  Service!Next
  <1>1. PICK c \in Copy : c = [job |-> j, attempt |-> 0] /\ c.job = j
    <2>1. [job |-> j, attempt |-> 0] \in Copy
      BY JobAssumption DEF Copy
    <2> QED
      BY <2>1
  <1>2. PICK m \in MsgIds, drop \in SUBSET MsgIds : Adds(c, m, drop)
    BY <1>1, XAddFacts DEF IInv, Enqueue
  <1>3. PICK lost \in SUBSET enqueued :
             /\ dropped' = dropped \union lost
             /\ DueJobs' \in Service!Joins(j, DueJobs, lost)
    BY <1>1, <1>2, AddsDue DEF Enqueue
  <1>4. Service!Accept(j, lost)
    BY <1>3, ParkedSame DEF Enqueue, letters, Service!Accept, DueJobs, Parked
  <1> QED
    BY <1>4 DEF Service!Next

\* Adding another copy of an accepted job is Requeue.
LEMMA RequeueRefines ==
    ASSUME IInv, NEW c \in Copy, Good(c), XAdd(c),
           UNCHANGED <<pending, retry, enqueued, handled, purged>>,
           Parked' \in {Parked, Parked \ {c.job}}
    PROVE  Service!Next
  <1>1. c.job \in Jobs /\ c.job \in enqueued
    BY DEF Good, Copy
  <1>2. PICK m \in MsgIds, drop \in SUBSET MsgIds : Adds(c, m, drop)
    BY XAddFacts DEF IInv
  <1>3. PICK lost \in SUBSET enqueued :
             /\ dropped' = dropped \union lost
             /\ DueJobs' \in Service!Joins(c.job, DueJobs, lost)
    BY <1>1, <1>2, AddsDue
  <1>4. Service!Requeue(c.job, lost)
    BY <1>1, <1>3 DEF Service!Requeue, DueJobs, Parked
  <1> QED
    BY <1>1, <1>4 DEF Service!Next

\* HandlerSucceeds is Succeed.
LEMMA HandlerSucceedsRefines ==
    ASSUME IInv, NEW w \in Workers, HandlerSucceeds(w)
    PROVE  Service!Next
  <1>1. ~Idle(w) /\ work[w].pc = "run"
    BY DEF HandlerSucceeds, Idle
  <1>2. work[w].cur.copy.job \in enqueued /\ work[w].cur.copy.job \in Jobs
    BY <1>1, WorkTyped DEF IInv, Charged, WorkCharged, OneCharged, Good
  <1>3. Service!Succeed(work[w].cur.copy.job)
    <2>1. UNCHANGED <<enqueued, DueJobs, Parked, purged, dropped>>
      BY DueSame, ParkedSame DEF HandlerSucceeds, stream, letters
    <2> QED
      BY <1>2, <2>1 DEF HandlerSucceeds, Service!Succeed, DueJobs, Parked
  <1> QED
    BY <1>2, <1>3 DEF Service!Next

\* ScheduleRetry is Requeue, or Lose when the ZADD fails.
LEMMA ScheduleRetryRefines ==
    ASSUME IInv, NEW w \in Workers, ScheduleRetry(w)
    PROVE  Service!Next
  <1>1. ~Idle(w) /\ work[w].pc = "retry"
    BY DEF ScheduleRetry, Idle
  <1>2. PICK c \in Copy : c = work[w].cur.copy /\ c.job \in Jobs /\ c.job \in enqueued
    BY <1>1, WorkTyped DEF IInv, Charged, WorkCharged, OneCharged, Good
  <1>3. /\ UNCHANGED <<entry, backlog, pending, dlq, enqueued, handled, purged>>
        /\ Parked' = Parked
    BY ParkedSame DEF ScheduleRetry, stream, letters
  <1>4. CASE retry' = retry /\ dropped' = dropped \union {c.job}
    <2>1. DueJobs' = DueJobs
      BY <1>3, <1>4, DueSame
    <2>2. Service!Lose(c.job)
      BY <1>2, <1>3, <1>4, <2>1 DEF Service!Lose, DueJobs, Parked
    <2> QED
      BY <2>2, <1>2 DEF Service!Next
  <1>5. CASE /\ retry' = retry \union {c}
             /\ dropped' = IF Doomed(c) THEN dropped \union {c.job} ELSE dropped
    <2>1. PICK lost \in SUBSET enqueued : dropped' = dropped \union lost
      <3>1. CASE Doomed(c)
        <4>1. {c.job} \in SUBSET enqueued /\ dropped' = dropped \union {c.job}
          BY <1>2, <1>5, <3>1
        <4> QED
          BY <4>1
      <3>2. CASE ~Doomed(c)
        <4>1. {} \in SUBSET enqueued /\ dropped' = dropped \union {}
          BY <1>5, <3>2
        <4> QED
          BY <4>1
      <3> QED
        BY <3>1, <3>2
    <2>2. DueJobs' = DueJobs \union {c.job}
      BY <1>2, <1>3, <1>5 DEF DueJobs, Due, Stored, Undelivered
    <2>3. DueJobs' \in Service!Joins(c.job, DueJobs, lost)
      BY <2>2, JoinsIf
    <2>4. Service!Requeue(c.job, lost)
      BY <1>2, <1>3, <2>1, <2>3 DEF Service!Requeue, DueJobs, Parked
    <2> QED
      BY <2>4, <1>2 DEF Service!Next
  <1> QED
    BY <1>2, <1>4, <1>5 DEF ScheduleRetry

\* DeadLetter is Park, or Lose when the XADD fails.
LEMMA DeadLetterRefines ==
    ASSUME IInv, NEW w \in Workers, DeadLetter(w)
    PROVE  Service!Next
  <1>1. ~Idle(w) /\ work[w].pc = "dead"
    BY DEF DeadLetter, Idle
  <1>2. PICK c \in Copy : c = work[w].cur.copy /\ c.job \in Jobs /\ c.job \in enqueued
    BY <1>1, WorkTyped DEF IInv, Charged, WorkCharged, OneCharged, Spent
  <1>3. /\ UNCHANGED <<entry, backlog, pending, retry, enqueued, handled, purged>>
        /\ DueJobs' = DueJobs
    BY DueSame DEF DeadLetter, stream
  <1>4. CASE dlq' = dlq /\ dropped' = dropped \union {c.job}
    <2>1. Service!Lose(c.job)
      BY <1>2, <1>3, <1>4, ParkedSame DEF Service!Lose, DueJobs, Parked
    <2> QED
      BY <2>1, <1>2 DEF Service!Next
  <1>5. CASE \E drop \in SUBSET dlq :
                /\ dlq' = (dlq \ drop) \union {c}
                /\ dropped' = dropped \union {d.job : d \in drop}
    <2>1. PICK drop \in SUBSET dlq :
                /\ dlq' = (dlq \ drop) \union {c}
                /\ dropped' = dropped \union {d.job : d \in drop}
      BY <1>5
    <2>2. PICK lost \in SUBSET enqueued : lost = {d.job : d \in drop}
      <3>1. \A d \in drop : d.job \in enqueued
        BY DEF IInv, Charged, Spent
      <3> QED
        BY <3>1
    <2>3. Parked' \in Service!Joins(c.job, Parked, lost)
      <3>1. /\ Parked' \subseteq Parked \union {c.job} /\ c.job \in Parked'
            /\ Parked \ lost \subseteq Parked'
        BY <2>1, <2>2 DEF Parked
      <3> QED
        BY <3>1, JoinsIf
    <2>4. Service!Park(c.job, lost)
      BY <1>2, <1>3, <2>1, <2>2, <2>3 DEF Service!Park, DueJobs, Parked
    <2> QED
      BY <2>4, <1>2 DEF Service!Next
  <1> QED
    BY <1>2, <1>4, <1>5 DEF DeadLetter

\* AckAndDel is Finish, or invisible while another copy is due.
LEMMA AckAndDelRefines ==
    ASSUME IInv, IInv', NEW w \in Workers, AckAndDel(w)
    PROVE  Service!Next \/ UNCHANGED Service!vars
  <1>1. ~Idle(w) /\ work[w].pc = "ack"
    BY DEF AckAndDel, Idle
  <1>2. PICK m \in MsgIds : m = work[w].cur.id
    BY <1>1, WorkTyped DEF IInv
  <1>3. PICK j \in enqueued : /\ j = work[w].cur.copy.job
                              /\ entry[m] # NoCopy => entry[m].job = j
    BY <1>1, <1>2 DEF IInv, Held, HeldBy, Match, Charged, WorkCharged, OneCharged
  <1>4. /\ UNCHANGED <<backlog, retry, dlq, enqueued, handled, purged, dropped>>
        /\ pending' \in {pending, pending \ {m}}
        /\ entry' \in {entry, [entry EXCEPT ![m] = NoCopy]}
    BY <1>2 DEF AckAndDel, letters, history
  <1>5. /\ Undelivered' = Undelivered
        /\ Stored' \subseteq Stored
        /\ \A i \in Stored : i # m => i \in Stored'
        /\ \A i \in Stored : i # m => entry'[i] = entry[i]
        /\ \A i \in Stored' : entry'[i] = entry[i]
    BY <1>4 DEF Undelivered, Stored, IInv, TypeOK
  <1>6. DueJobs' \subseteq DueJobs
    BY <1>4, <1>5 DEF DueJobs, Due
  <1>7. DueJobs \ {j} \subseteq DueJobs'
    <2>1. ASSUME NEW k \in Jobs, Due(k), k # j PROVE Due(k)'
      <3>1. CASE \E x \in retry : x.job = k
        BY <3>1, <1>4 DEF Due
      <3>2. CASE \E i \in Stored : entry[i].job = k /\ i \in pending \union Undelivered
        <4>1. PICK i \in Stored : entry[i].job = k /\ i \in pending \union Undelivered
          BY <3>2
        <4>2. i # m
          BY <4>1, <2>1, <1>3 DEF Stored
        <4>3. i \in Stored' /\ entry'[i].job = k /\ i \in pending' \union Undelivered'
          BY <4>1, <4>2, <1>4, <1>5
        <4> QED
          BY <4>3 DEF Due
      <3> QED
        BY <2>1, <3>1, <3>2 DEF Due
    <2> QED
      BY <2>1 DEF DueJobs
  <1> QED
    BY <1>4, <1>6, <1>7, FinishIf

\* So is RemoveDue.
LEMMA RemoveDueRefines ==
    ASSUME IInv, IInv', NEW v \in Movers, NEW x \in moving[v], RemoveDue(v, x)
    PROVE  Service!Next \/ UNCHANGED Service!vars
  <1>1. /\ UNCHANGED <<entry, backlog, pending, dlq, enqueued, handled, purged, dropped>>
        /\ retry' \in {retry, retry \ {x.copy}}
    BY DEF RemoveDue, stream, letters, history
  <1>2. PICK j \in enqueued : j = x.copy.job
    BY DEF IInv, Charged, Good
  <1>3. DueJobs' \subseteq DueJobs /\ DueJobs \ {j} \subseteq DueJobs'
    BY <1>1, <1>2 DEF DueJobs, Due, Stored, Undelivered
  <1> QED
    BY <1>1, <1>3, FinishIf

\* AddDue is Requeue, or invisible when the XADD fails.
LEMMA AddDueRefines ==
    ASSUME IInv, NEW v \in Movers, NEW x \in moving[v], AddDue(v, x)
    PROVE  Service!Next \/ UNCHANGED Service!vars
  <1>1. x.copy \in Copy /\ Good(x.copy)
    BY DEF IInv, TypeOK, Charged
  <1>2. UNCHANGED <<pending, retry, dlq, enqueued, handled, purged>>
    BY DEF AddDue, letters
  <1>3. CASE XAdd(x.copy)
    BY <1>1, <1>2, <1>3, ParkedSame, RequeueRefines
  <1>4. CASE UNCHANGED <<entry, backlog, dropped>>
    BY <1>2, <1>4, DueSame, ParkedSame, StutterIf DEF Stays
  <1> QED
    BY <1>3, <1>4 DEF AddDue

\* ReinjectEntry is Requeue, or invisible when the letter is garbled.
LEMMA ReinjectEntryRefines ==
    ASSUME IInv, NEW c \in inject, ReinjectEntry(c)
    PROVE  Service!Next \/ UNCHANGED Service!vars
  <1>1. UNCHANGED <<pending, retry, enqueued, handled, purged>>
    BY DEF ReinjectEntry
  <1>2. CASE UNCHANGED <<entry, backlog, dlq, dropped, budget>>
    BY <1>1, <1>2, DueSame, ParkedSame, StutterIf DEF Stays
  <1>3. CASE XAdd([c EXCEPT !.attempt = 0]) /\ dlq' \in {dlq, dlq \ {c}}
    <2>1. PICK d : d = [c EXCEPT !.attempt = 0]
      OBVIOUS
    <2>2. /\ c \in Copy /\ c.job \in Jobs /\ c.job \in enqueued
          /\ c = [job |-> c.job, attempt |-> c.attempt]
      BY DEF IInv, TypeOK, Copy, Charged
    <2>3. d = [job |-> c.job, attempt |-> 0]
      BY <2>1, <2>2
    <2>4. d \in Copy /\ Good(d) /\ d.job = c.job
      BY <2>2, <2>3, JobAssumption DEF Copy, Good, IInv, TypeOK
    <2>5. Parked' \in {Parked, Parked \ {d.job}}
      BY <1>3, <2>4 DEF Parked
    <2> QED
      BY <1>1, <1>3, <2>1, <2>4, <2>5, RequeueRefines
  <1> QED
    BY <1>2, <1>3 DEF ReinjectEntry

\* PurgeDLQ is Discard.
LEMMA PurgeDLQRefines ==
    ASSUME IInv, NEW old \in SUBSET dlq, PurgeDLQ(old)
    PROVE  Service!Next
  <1>1. PICK js \in SUBSET Jobs : js = {c.job : c \in old}
    <2>1. \A c \in old : c.job \in Jobs
      BY DEF IInv, TypeOK, Copy
    <2> QED
      BY <2>1
  <1>2. /\ UNCHANGED <<enqueued, DueJobs, handled, dropped>>
        /\ purged' = purged \union js /\ dlq' = dlq \ old
    BY <1>1, DueSame DEF PurgeDLQ, stream
  <1>3. js \subseteq Parked
    BY <1>1 DEF Parked
  <1>4. \E gone \in SUBSET js : Parked' = Parked \ gone
    <2>1. Parked \ Parked' \in SUBSET js
      BY <1>1, <1>2 DEF Parked
    <2>2. Parked' = Parked \ (Parked \ Parked')
      BY <1>2 DEF Parked
    <2> QED
      BY <2>1, <2>2
  <1>5. Service!Discard(js)
    BY <1>2, <1>3, <1>4 DEF Service!Discard, DueJobs, Parked
  <1> QED
    BY <1>5 DEF Service!Next

\* Read is invisible.
LEMMA ReadRefines ==
    ASSUME IInv, NEW c \in Consumers, Read(c)
    PROVE  UNCHANGED Service!vars
  <1>1. /\ backlog \in Seq(MsgIds) /\ backlog # <<>> /\ Distinct(backlog)
        /\ Elems(backlog) = Undelivered /\ backlog' = Tail(backlog)
        /\ Elems(backlog') = Undelivered'
        /\ pending' = pending \union {Head(backlog)}
        /\ UNCHANGED <<entry, retry, dlq, enqueued, handled, purged, dropped>>
    BY DEF IInv, TypeOK, Queued, Distinct, Elems, Undelivered, Read, letters, history
  <1>2. /\ Undelivered' = Undelivered \ {Head(backlog)} /\ Head(backlog) \in Undelivered
    BY <1>1, TailElems
  <1>3. Stored' = Stored
    BY <1>1 DEF Stored
  <1>4. DueJobs' = DueJobs
    BY <1>1, <1>2, <1>3, DueKept
  <1> QED
    BY <1>1, <1>4, ParkedSame, StutterIf DEF Stays

\* So is Claim.
LEMMA ClaimRefines ==
    ASSUME NEW r \in Reclaimers, Claim(r)
    PROVE  UNCHANGED Service!vars
  <1>1. PICK idle : pending' = pending \ (idle \ Stored)
    BY DEF Claim
  <1>2. UNCHANGED <<entry, backlog, retry, dlq, enqueued, handled, purged, dropped>>
    BY DEF Claim, letters, history
  <1>3. Stored' = Stored /\ Undelivered' = Undelivered
    BY <1>2 DEF Stored, Undelivered
  <1>4. DueJobs' = DueJobs
    BY <1>1, <1>2, <1>3, DueKept
  <1> QED
    BY <1>2, <1>4, ParkedSame, StutterIf DEF Stays

\* So is every step that leaves Redis and the history alone.
LEMMA QuietRefines ==
    ASSUME UNCHANGED <<entry, backlog, pending, retry, dlq, enqueued, handled, purged,
                       dropped>>
    PROVE  UNCHANGED Service!vars
  BY DueSame, ParkedSame, StutterIf DEF Stays

\* Every step of the queue is a step of the service or invisible to it.
LEMMA NextRefines == IInv /\ IInv' /\ [Next]_vars => [Service!Next]_(Service!vars)
  <1> SUFFICES ASSUME IInv, IInv', [Next]_vars
               PROVE  Service!Next \/ UNCHANGED Service!vars
    OBVIOUS
  <1> DEFINE Abstract == Service!Next \/ UNCHANGED Service!vars
  <1>1. ASSUME NEW j \in Jobs, Enqueue(j) PROVE Abstract
    BY <1>1, EnqueueRefines
  <1>2. ASSUME NEW c \in Consumers, Read(c) PROVE Abstract
    BY <1>2, ReadRefines
  <1>3. ASSUME NEW r \in Reclaimers, Reclaim(r) PROVE Abstract
    <2>1. CASE Claim(r)
      BY <2>1, ClaimRefines
    <2>2. ASSUME NEW x \in work[r].msgs, TakeClaimed(r, x) PROVE Abstract
      BY <2>2, QuietRefines DEF TakeClaimed, stream, letters, history
    <2> QED
      BY <1>3, <2>1, <2>2 DEF Reclaim
  <1>4. ASSUME NEW w \in Workers, Process(w) PROVE Abstract
    <2>1. CASE Unparseable(w)
      BY <2>1, QuietRefines DEF Unparseable, stream, letters, history
    <2>2. CASE HandlerFails(w)
      BY <2>2, QuietRefines DEF HandlerFails, stream, letters
    <2> QED
      BY <1>4, <2>1, <2>2, HandlerSucceedsRefines, ScheduleRetryRefines,
         DeadLetterRefines, AckAndDelRefines DEF Process
  <1>5. ASSUME NEW v \in Movers, Move(v) PROVE Abstract
    <2>1. CASE ReadDue(v)
      BY <2>1, QuietRefines DEF ReadDue, stream, letters, history
    <2> QED
      BY <1>5, <2>1, AddDueRefines, RemoveDueRefines DEF Move
  <1>6. ASSUME NEW w \in Workers, Stop(w) PROVE Abstract
    BY <1>6, QuietRefines DEF Stop, stream, letters, history
  <1>7. ASSUME NEW v \in Movers, MoverStops(v) PROVE Abstract
    BY <1>7, QuietRefines DEF MoverStops, stream, letters, history
  <1>8. CASE ReinjectRead \/ ReinjectStops
    BY <1>8, QuietRefines DEF ReinjectRead, ReinjectStops, stream, history
  <1>9. ASSUME NEW c \in inject, ReinjectEntry(c) PROVE Abstract
    BY <1>9, ReinjectEntryRefines
  <1>10. ASSUME NEW old \in SUBSET dlq, PurgeDLQ(old) PROVE Abstract
    BY <1>10, PurgeDLQRefines
  <1>11. CASE UNCHANGED vars
    BY <1>11, QuietRefines DEF vars
  <1> QED
    BY <1>1, <1>2, <1>3, <1>4, <1>5, <1>6, <1>7, <1>8, <1>9, <1>10, <1>11 DEF Next

\* The empty queue is the empty service.
LEMMA InitRefines == Init => Service!Init
  <1> SUFFICES ASSUME Init PROVE Service!Init
    OBVIOUS
  <1>1. DueJobs = {} /\ Parked = {}
    BY DEF Init, DueJobs, Parked, Due, Stored
  <1> QED
    BY <1>1 DEF Init, Service!Init, DueJobs, Parked

\* redis.go, package comment, "at-least-once": the queue implements the job
\* service, for any number of jobs, workers, movers and reclaimers, any stream
\* length and any pattern of failing writes, crashes and reinjections.  A job
\* stops being due only once it succeeded, was parked or purged, or Redis lost
\* a copy of it.
THEOREM Implementation == Spec => AtLeastOnce
  BY Safe, InitRefines, NextRefines, PTL DEF Spec, AtLeastOnce, Service!Spec
=============================================================================
