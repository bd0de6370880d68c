---------------------------- MODULE AckFederation ----------------------------
(* Acknowledgements between servers.  An acker commits ack and unack         *)
(* documents on its home server; each accepted one is derived into an acked  *)
(* document, delivered by a job to the server the target lives on and        *)
(* committed there.  Both tables keep the newest document per (acker,        *)
(* target, schema), so one such key is modelled, and an ack stands for the   *)
(* document derived from it too.  Entity documents say on which server a     *)
(* user lives; every server has its own, possibly outdated copy of them.  A  *)
(* commit reads them first and is applied later, in one transaction; one     *)
(* that fails is one that is never applied.                                  *)
EXTENDS Integers, FiniteSets

CONSTANTS
    Servers,
    Acks,         \* ack and unack documents of the acker about the target
    Entities,     \* entity documents of the two
    NoDoc,        \* no row
    NoServer,     \* a job that is not resolved, a commit no job sent
    CreatedAt,    \* createdAt of each ack
    Entity,       \* what each entity document says, see EntityType
    MaxAttempts,  \* maxAttempts of the job queue
    MaxInFlight   \* bound on the commits in flight

Users == {"from", "to"}
Modes == {"execute", "local"}
EntityType == [user : Users, domain : Servers, createdAt : Nat]

ASSUME AckAssumption == CreatedAt \in [Acks -> Nat]
ASSUME EntityAssumption == Entity \in [Entities -> EntityType]
ASSUME NilAssumption ==
    NoDoc \notin Acks /\ NoDoc \notin Entities /\ NoServer \notin Servers
ASSUME BoundAssumption ==
    MaxAttempts \in Nat \ {0} /\ MaxInFlight \in Nat

VARIABLES
    entity,        \* entities, per server: the document held for each user
    past,          \* replaced documents of the target, in caches
    acks,          \* acks, per server: the newest ack or unack of the acker
    ackeds,        \* ackeds, per server: the newest acked or unacked
    ackLog,        \* commit logs of ack and unack documents
    ackedLog,      \* commit logs of acked and unacked documents
    ackCommits,    \* commits of acks in flight, past their reads
    ackedCommits,  \* commits of derived documents in flight
    outbox,        \* post-processes of a commit that have not run yet
    jobs,          \* delivery jobs, per server
    undelivered    \* history: newest acks whose delivery fell short

homes == <<entity, past>>
ackTable == <<acks, ackLog>>
ackedTable == <<ackeds, ackedLog>>
ackVars == <<homes, ackTable, ackedTable, ackCommits, ackedCommits, outbox,
             jobs, undelivered>>

-----------------------------------------------------------------------------
Attempt == 0 .. MaxAttempts - 1
Host == Servers \union {NoServer}
Job == [ack : Acks, attempt : Attempt, host : Host]
AckCommit == [ack : Acks, mode : Modes, local : BOOLEAN]
AckedCommit == [ack : Acks, sender : Host, attempt : Attempt, local : BOOLEAN]

\* IsLocalEntity, by what s knows.
IsLocal(s, u) == entity[s][u] # NoDoc /\ Entity[entity[s][u]].domain = s

\* Bound: another commit may begin.
Room ==
    Cardinality(UNION {ackCommits[s] : s \in Servers}) +
    Cardinality(UNION {ackedCommits[s] : s \in Servers}) < MaxInFlight

\* The delivery of d ended short of the target.
GivenUp(d) == undelivered \union ({d} \intersect {acks[s] : s \in Servers})

\* Mutant: ties are accepted.
NewerOrEqual(d, row) == row # NoDoc => CreatedAt[row] =< CreatedAt[d]

\* The WHERE clause of both upserts: strictly newer, by createdAt alone.
Newer(d, row) == row # NoDoc => CreatedAt[row] < CreatedAt[d]

AckInit ==
    /\ entity = [s \in Servers |-> [u \in Users |-> NoDoc]]
    /\ past = [s \in Servers |-> {}]
    /\ acks = [s \in Servers |-> NoDoc]
    /\ ackeds = [s \in Servers |-> NoDoc]
    /\ ackLog = [s \in Servers |-> {}]
    /\ ackedLog = [s \in Servers |-> {}]
    /\ ackCommits = [s \in Servers |-> {}]
    /\ ackedCommits = [s \in Servers |-> {}]
    /\ outbox = [s \in Servers |-> {}]
    /\ jobs = [s \in Servers |-> {}]
    /\ undelivered = {}

-----------------------------------------------------------------------------
\* An entity document reaches s: a registration or a move, a document inlined
\* with a commit or a delivery (whose failure does not fail the commit), or
\* one fetched from a hinted server.  Only a strictly newer one is stored.
\* The client caches of the server's replicas may go on serving the old one;
\* how long is left open.
SaveEntity(s, e) ==
    LET u == Entity[e].user
        row == entity[s][u]
    IN  /\ row # NoDoc => Entity[row].createdAt < Entity[e].createdAt
        /\ entity' = [entity EXCEPT ![s][u] = e]
        /\ past' = IF row # NoDoc /\ u = "to"
                   THEN [past EXCEPT ![s] = @ \union {row}] ELSE past
        /\ UNCHANGED <<ackTable, ackedTable, ackCommits, ackedCommits, outbox,
                       jobs, undelivered>>

\* An ack or unack arrives at s, which must know both users.
BeginAck(s, d, mode) ==
    /\ d \notin ackLog[s] /\ Room
    /\ entity[s]["from"] # NoDoc /\ entity[s]["to"] # NoDoc
    /\ ackCommits' = [ackCommits EXCEPT ![s] = @ \union
         {[ack |-> d, mode |-> mode, local |-> IsLocal(s, "from")]}]
    /\ UNCHANGED <<homes, ackTable, ackedTable, ackedCommits, outbox, jobs,
                   undelivered>>

\* processAck and the end of Commit: the ack only takes effect where the acker
\* is local, and only an executing commit, as opposed to the replay of a dump,
\* ships the derived document.  The loser of the upsert is rolled back.
CommitAck(s, c) ==
    LET d == c.ack
        wins == c.local /\ Newer(d, acks[s])
    IN  /\ c \in ackCommits[s]
        /\ ackCommits' = [ackCommits EXCEPT ![s] = @ \ {c}]
        /\ acks' = IF wins THEN [acks EXCEPT ![s] = d] ELSE acks
        /\ ackLog' = IF wins THEN [ackLog EXCEPT ![s] = @ \union {d}]
                             ELSE ackLog
        /\ outbox' = IF wins /\ c.mode = "execute"
                     THEN [outbox EXCEPT ![s] = @ \union {d}] ELSE outbox
        /\ undelivered' = IF wins
                          THEN (undelivered \ {acks[s]}) \union
                               {x \in {d} : c.mode = "local"}
                          ELSE undelivered
        /\ UNCHANGED <<homes, ackedTable, ackedCommits, jobs>>

\* The post-process of the commit enqueues the delivery.
PostProcess(s, d) ==
    /\ d \in outbox[s]
    /\ outbox' = [outbox EXCEPT ![s] = @ \ {d}]
    /\ jobs' = [jobs EXCEPT ![s] =
                 @ \union {[ack |-> d, attempt |-> 0, host |-> NoServer]}]
    /\ UNCHANGED <<homes, ackTable, ackedTable, ackCommits, ackedCommits,
                   undelivered>>

\* The enqueue fails, which is only logged, or the process dies before it.
PostProcessFails(s, d) ==
    /\ d \in outbox[s]
    /\ outbox' = [outbox EXCEPT ![s] = @ \ {d}]
    /\ undelivered' = GivenUp(d)
    /\ UNCHANGED <<homes, ackTable, ackedTable, ackCommits, ackedCommits,
                   jobs>>

-----------------------------------------------------------------------------
\* Deliver, first part: the target's server, by the row or by a cached copy.
Resolve(s, j, e) ==
    /\ j \in jobs[s] /\ j.host = NoServer
    /\ e # NoDoc /\ (e = entity[s]["to"] \/ e \in past[s])
    /\ jobs' = [jobs EXCEPT ![s] =
                 (@ \ {j}) \union {[j EXCEPT !.host = Entity[e].domain]}]
    /\ UNCHANGED <<homes, ackTable, ackedTable, ackCommits, ackedCommits,
                   outbox, undelivered>>

\* Mutant: the derived document is taken for the ack it was derived from.
KnownAsAck(h, d) == d \in ackLog[h] \union ackedLog[h]

\* HasCommitLog, of the derived document.
Known(h, d) == d \in ackedLog[h]

\* The commit of a derived document begins on h, which must know the target;
\* unlike the acker, whom it may not.
BeginAcked(h, d, sender, attempt) ==
    /\ entity[h]["to"] # NoDoc /\ Room
    /\ ackedCommits' = [ackedCommits EXCEPT ![h] = @ \union
         {[ack |-> d, sender |-> sender, attempt |-> attempt,
           local |-> IsLocal(h, "to")]}]

Sent(s, j, c) == c.sender = s /\ c.ack = j.ack /\ c.attempt = j.attempt

\* Deliver, second part: the derived document is sent to the host.  One the
\* host knows already is answered with success.
Deliver(s, j) ==
    LET h == j.host
    IN  /\ j \in jobs[s] /\ h # NoServer
        /\ ~\E c \in ackedCommits[h] : Sent(s, j, c)
        /\ \/ /\ Known(h, j.ack)
              /\ jobs' = [jobs EXCEPT ![s] = @ \ {j}]
              /\ UNCHANGED ackedCommits
           \/ /\ ~Known(h, j.ack)
              /\ BeginAcked(h, j.ack, s, j.attempt)
              /\ UNCHANGED jobs
        /\ UNCHANGED <<homes, ackTable, ackedTable, ackCommits, outbox,
                       undelivered>>

\* processAck on the host and the end of Commit.  The answer, which ends the
\* job if it is still waiting for it, is a success even when the target does
\* not live there or the document lost.
CommitAcked(h, c) ==
    LET d == c.ack
        wins == c.local /\ Newer(d, ackeds[h])
        Waits(s, j) == j.host = h /\ Sent(s, j, c)
    IN  /\ c \in ackedCommits[h]
        /\ ackedCommits' = [ackedCommits EXCEPT ![h] = @ \ {c}]
        /\ ackeds' = IF wins THEN [ackeds EXCEPT ![h] = d] ELSE ackeds
        /\ ackedLog' = IF wins THEN [ackedLog EXCEPT ![h] = @ \union {d}]
                               ELSE ackedLog
        /\ jobs' = [s \in Servers |->
                     {j \in jobs[s] : ~Waits(s, j)}]
        /\ undelivered' = IF ~c.local /\ \E s \in Servers : \E j \in jobs[s] :
                                            Waits(s, j)
                          THEN GivenUp(d) ELSE undelivered
        /\ UNCHANGED <<homes, ackTable, ackCommits, outbox>>

\* Mutant: the last attempt is not recognised.
DeliverFailsPastLimit(s, j) ==
    /\ j \in jobs[s]
    /\ jobs' = [jobs EXCEPT ![s] =
                 (@ \ {j}) \union {[ack |-> j.ack, attempt |-> j.attempt + 1,
                                    host |-> NoServer]}]
    /\ UNCHANGED <<homes, ackTable, ackedTable, ackCommits, ackedCommits,
                   outbox, undelivered>>

\* Resolution or the request fails or times out, perhaps with its commit still
\* in flight: the job is retried, or dead-lettered with its last attempt.
DeliverFails(s, j) ==
    /\ j \in jobs[s]
    /\ \/ /\ j.attempt + 1 < MaxAttempts
          /\ jobs' = [jobs EXCEPT ![s] =
               (@ \ {j}) \union {[ack |-> j.ack, attempt |-> j.attempt + 1,
                                  host |-> NoServer]}]
          /\ UNCHANGED undelivered
       \/ /\ j.attempt + 1 = MaxAttempts
          /\ jobs' = [jobs EXCEPT ![s] = @ \ {j}]
          /\ undelivered' = GivenUp(j.ack)
    /\ UNCHANGED <<homes, ackTable, ackedTable, ackCommits, ackedCommits,
                   outbox>>

\* The worker stops and another one takes the job over from the start.
Rerun(s, j) ==
    /\ j \in jobs[s] /\ j.host # NoServer
    /\ jobs' = [jobs EXCEPT ![s] =
                 (@ \ {j}) \union {[j EXCEPT !.host = NoServer]}]
    /\ UNCHANGED <<homes, ackTable, ackedTable, ackCommits, ackedCommits,
                   outbox, undelivered>>

\* The target imports its own dump on h: acked documents some server holds.
ReplayAcked(h, d) ==
    /\ \E s \in Servers : d \in ackedLog[s]
    /\ ~Known(h, d)
    /\ BeginAcked(h, d, NoServer, 0)
    /\ UNCHANGED <<homes, ackTable, ackedTable, ackCommits, outbox, jobs,
                   undelivered>>

-----------------------------------------------------------------------------
AckNext ==
    \/ \E s \in Servers, e \in Entities : SaveEntity(s, e)
    \/ \E s \in Servers, d \in Acks, mode \in Modes : BeginAck(s, d, mode)
    \/ \E s \in Servers : \E c \in ackCommits[s] : CommitAck(s, c)
    \/ \E s \in Servers : \E d \in outbox[s] :
          PostProcess(s, d) \/ PostProcessFails(s, d)
    \/ \E s \in Servers : \E j \in jobs[s], e \in Entities : Resolve(s, j, e)
    \/ \E s \in Servers : \E j \in jobs[s] :
          Deliver(s, j) \/ DeliverFails(s, j) \/ Rerun(s, j)
    \/ \E h \in Servers : \E c \in ackedCommits[h] : CommitAcked(h, c)
    \/ \E h \in Servers, d \in Acks : ReplayAcked(h, d)

AckSpec == AckInit /\ [][AckNext]_ackVars

-----------------------------------------------------------------------------
\* Every variable has its type.
AckTypeOK ==
    /\ entity \in [Servers -> [Users -> Entities \union {NoDoc}]]
    /\ past \in [Servers -> SUBSET Entities]
    /\ acks \in [Servers -> Acks \union {NoDoc}]
    /\ ackeds \in [Servers -> Acks \union {NoDoc}]
    /\ ackLog \in [Servers -> SUBSET Acks]
    /\ ackedLog \in [Servers -> SUBSET Acks]
    /\ ackCommits \in [Servers -> SUBSET AckCommit]
    /\ ackedCommits \in [Servers -> SUBSET AckedCommit]
    /\ outbox \in [Servers -> SUBSET Acks]
    /\ jobs \in [Servers -> SUBSET Job]
    /\ undelivered \in SUBSET Acks

\* record.go, processAck and processAcked, "reach the same decision": what a
\* target's server holds is exactly what the acker's server holds, or older.
\* It never holds the loser of a tie, however deliveries are reordered,
\* repeated or replayed and wherever the target moves.
AckedFollows ==
    \A h \in Servers : ackeds[h] # NoDoc =>
        \E s \in Servers :
            /\ acks[s] # NoDoc
            /\ \/ acks[s] = ackeds[h]
               \/ CreatedAt[ackeds[h]] < CreatedAt[acks[s]]

\* deliver.go and ack.go: the newest ack is on its way, or a server the target
\* lived on holds it, unless its delivery was given up: lost before the
\* enqueue, dead-lettered, sent where the target no longer lives, or never
\* sent by a local-only replay.  No reordering, late answer or second run
\* adds to these.
NewestReaches ==
    \A s \in Servers : acks[s] # NoDoc =>
        \/ acks[s] \in outbox[s] \union undelivered
        \/ \E j \in jobs[s] : j.ack = acks[s]
        \/ \E h \in Servers : ackeds[h] = acks[s]

=============================================================================
