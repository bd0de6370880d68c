------------------------ MODULE AckFederationProofs -------------------------
(* AckFederation for any servers, documents, moves of the target, number of  *)
(* attempts and commits in flight, when the acker stays on one server.       *)
EXTENDS AckFederation, TLAPS

\* The acker does not move: two homes could each accept one of two acks of the
\* same createdAt, and both tables keep the first they see.
AckerStays ==
    \A e, f \in Entities :
        Entity[e].user = "from" /\ Entity[f].user = "from" =>
        Entity[e].domain = Entity[f].domain

AckerHome(s) ==
    \E e \in Entities : Entity[e].user = "from" /\ Entity[e].domain = s

\* Documents are kept for the user they are about.
OwnEntities ==
    \A s \in Servers, u \in Users :
        entity[s][u] # NoDoc => Entity[entity[s][u]].user = u

\* Acks are only held, or about to be accepted, where the acker lives.
AcksAtHome ==
    \A s \in Servers :
        /\ acks[s] # NoDoc => AckerHome(s)
        /\ \A c \in ackCommits[s] : c.local => AckerHome(s)

\* The row is the newest logged ack, and no other has its createdAt.
RowIsNewest ==
    \A s \in Servers :
        /\ acks[s] # NoDoc => acks[s] \in ackLog[s]
        /\ \A d \in ackLog[s] :
              /\ acks[s] # NoDoc
              /\ d = acks[s] \/ CreatedAt[d] < CreatedAt[acks[s]]

\* Whatever is derived, sent or held was accepted by some server.
Accepted(d) == \E s \in Servers : d \in ackLog[s]
DerivedFromAccepted ==
    \A s \in Servers :
        /\ \A d \in outbox[s] \union ackedLog[s] : Accepted(d)
        /\ \A j \in jobs[s] : Accepted(j.ack)
        /\ \A c \in ackedCommits[s] : Accepted(c.ack)
        /\ ackeds[s] # NoDoc => Accepted(ackeds[s])

\* The held document is as new as any the log has.
HeldIsNewest ==
    \A h \in Servers : \A d \in ackedLog[h] :
        ackeds[h] # NoDoc /\ CreatedAt[d] =< CreatedAt[ackeds[h]]

FollowInv ==
    /\ AckTypeOK /\ OwnEntities /\ AcksAtHome /\ RowIsNewest
    /\ DerivedFromAccepted /\ HeldIsNewest /\ NewestReaches

-----------------------------------------------------------------------------
\* Every step keeps every variable in its type.
LEMMA TypeStep == AckTypeOK /\ [AckNext]_ackVars => AckTypeOK'
<1> SUFFICES ASSUME AckTypeOK, [AckNext]_ackVars PROVE AckTypeOK'
  OBVIOUS
<1> USE AckAssumption, EntityAssumption, NilAssumption, BoundAssumption
<1> USE DEF AckTypeOK, homes, ackTable, ackedTable
<1>1. ASSUME NEW s \in Servers, NEW e \in Entities, SaveEntity(s, e)
      PROVE AckTypeOK'
  <2>1. Entity[e].user \in Users
    BY DEF EntityType
  <2> QED
    BY <1>1, <2>1 DEF SaveEntity
<1>2. ASSUME NEW s \in Servers, NEW d \in Acks, NEW mode \in Modes,
             BeginAck(s, d, mode)
      PROVE AckTypeOK'
  <2>1. [ack |-> d, mode |-> mode, local |-> IsLocal(s, "from")] \in AckCommit
    BY DEF AckCommit, IsLocal
  <2> QED
    BY <1>2, <2>1 DEF BeginAck
<1>3. ASSUME NEW s \in Servers, NEW c \in ackCommits[s], CommitAck(s, c)
      PROVE AckTypeOK'
  <2>1. c.ack \in Acks
    BY DEF AckCommit
  <2> QED
    BY <1>3, <2>1 DEF CommitAck
<1>4. ASSUME NEW s \in Servers, NEW d \in outbox[s], PostProcess(s, d)
      PROVE AckTypeOK'
  <2>1. [ack |-> d, attempt |-> 0, host |-> NoServer] \in Job
    BY DEF Job, Attempt, Host
  <2> QED
    BY <1>4, <2>1 DEF PostProcess
<1>5. ASSUME NEW s \in Servers, NEW d \in outbox[s], PostProcessFails(s, d)
      PROVE AckTypeOK'
  BY <1>5 DEF PostProcessFails, GivenUp
<1>6. ASSUME NEW s \in Servers, NEW j \in jobs[s], NEW e \in Entities,
             Resolve(s, j, e)
      PROVE AckTypeOK'
  <2>0. j \in Job /\ Entity[e].domain \in Host
    BY DEF Host, EntityType
  <2>1. [j EXCEPT !.host = Entity[e].domain] \in Job
    BY <2>0 DEF Job
  <2> QED
    BY <1>6, <2>1 DEF Resolve
<1>7. ASSUME NEW s \in Servers, NEW j \in jobs[s], Deliver(s, j)
      PROVE AckTypeOK'
  <2>1. j \in Job /\ j.host \in Servers
    BY <1>7 DEF Job, Host, Deliver
  <2>2. [ack |-> j.ack, sender |-> s, attempt |-> j.attempt,
         local |-> IsLocal(j.host, "to")] \in AckedCommit
    BY <2>1 DEF AckedCommit, Job, Host, IsLocal
  <2>3. jobs' \in [Servers -> SUBSET Job]
    BY <1>7 DEF Deliver
  <2>4. ackedCommits' \in [Servers -> SUBSET AckedCommit]
    <3>1. CASE UNCHANGED ackedCommits
      BY <3>1
    <3>2. CASE BeginAcked(j.host, j.ack, s, j.attempt)
      BY <2>1, <2>2, <3>2 DEF BeginAcked
    <3> QED
      BY <1>7, <3>1, <3>2 DEF Deliver
  <2> QED
    BY <1>7, <2>3, <2>4 DEF Deliver
<1>8. ASSUME NEW s \in Servers, NEW j \in jobs[s], DeliverFails(s, j)
      PROVE AckTypeOK'
  <2>1. j \in Job
    OBVIOUS
  <2>2. CASE j.attempt + 1 < MaxAttempts
    <3>1. [ack |-> j.ack, attempt |-> j.attempt + 1, host |-> NoServer] \in Job
      BY <2>1, <2>2 DEF Job, Attempt, Host
    <3>2. /\ jobs' = [jobs EXCEPT ![s] = (@ \ {j}) \union
               {[ack |-> j.ack, attempt |-> j.attempt + 1, host |-> NoServer]}]
          /\ UNCHANGED undelivered
      BY <1>8, <2>1, <2>2 DEF DeliverFails, Job, Attempt
    <3> QED
      BY <1>8, <3>1, <3>2 DEF DeliverFails
  <2>3. CASE j.attempt + 1 = MaxAttempts
    BY <1>8, <2>1, <2>3 DEF DeliverFails, GivenUp, Job
  <2> QED
    BY <1>8, <2>2, <2>3 DEF DeliverFails
<1>9. ASSUME NEW s \in Servers, NEW j \in jobs[s], Rerun(s, j)
      PROVE AckTypeOK'
  <2>0. j \in Job /\ NoServer \in Host
    BY DEF Host
  <2>1. [j EXCEPT !.host = NoServer] \in Job
    BY <2>0 DEF Job
  <2> QED
    BY <1>9, <2>1 DEF Rerun
<1>10. ASSUME NEW h \in Servers, NEW c \in ackedCommits[h], CommitAcked(h, c)
       PROVE AckTypeOK'
  <2>1. c.ack \in Acks
    BY DEF AckedCommit
  <2>2. jobs' \in [Servers -> SUBSET Job]
    BY <1>10 DEF CommitAcked
  <2> QED
    BY <1>10, <2>1, <2>2 DEF CommitAcked, GivenUp
<1>11. ASSUME NEW h \in Servers, NEW d \in Acks, ReplayAcked(h, d)
       PROVE AckTypeOK'
  <2>1. [ack |-> d, sender |-> NoServer, attempt |-> 0,
         local |-> IsLocal(h, "to")] \in AckedCommit
    BY DEF AckedCommit, Attempt, Host, IsLocal
  <2> QED
    BY <1>11, <2>1 DEF ReplayAcked, BeginAcked
<1>12. ASSUME UNCHANGED ackVars PROVE AckTypeOK'
  BY <1>12 DEF ackVars
<1> QED
  BY <1>1, <1>2, <1>3, <1>4, <1>5, <1>6, <1>7, <1>8, <1>9, <1>10, <1>11,
     <1>12 DEF AckNext

\* ack.go, deliver.go: every reachable state is well-typed; in particular no
\* delivery is attempted more often than the queue allows.
THEOREM TypeCorrect == AckSpec => []AckTypeOK
<1>1. AckInit => AckTypeOK
  BY BoundAssumption DEF AckInit, AckTypeOK
<1> QED
  BY <1>1, TypeStep, PTL DEF AckSpec

-----------------------------------------------------------------------------
\* Acks are held on at most one server.
LEMMA OneHome ==
    ASSUME AckerStays, AcksAtHome,
           NEW s \in Servers, NEW t \in Servers,
           acks[s] # NoDoc \/ \E c \in ackCommits[s] : c.local,
           acks[t] # NoDoc
    PROVE  s = t
<1>1. AckerHome(s) /\ AckerHome(t)
  BY DEF AcksAtHome
<1> QED
  BY <1>1 DEF AckerHome, AckerStays

\* Any other accepted document is older than the row.
LEMMA RowLeads ==
    ASSUME AckerStays, AcksAtHome, RowIsNewest,
           NEW s \in Servers, acks[s] # NoDoc, NEW d, Accepted(d)
    PROVE  d = acks[s] \/ CreatedAt[d] < CreatedAt[acks[s]]
<1>1. PICK t \in Servers : d \in ackLog[t]
  BY DEF Accepted
<1>2. acks[t] # NoDoc
  BY <1>1 DEF RowIsNewest
<1>3. s = t
  BY <1>2, OneHome
<1> QED
  BY <1>1, <1>3 DEF RowIsNewest

\* A server that holds something as new as the row holds the row.
LEMMA HoldsRow ==
    ASSUME AckerStays, FollowInv, NEW s \in Servers, NEW h \in Servers,
           acks[s] # NoDoc, ackeds[h] # NoDoc,
           CreatedAt[acks[s]] =< CreatedAt[ackeds[h]]
    PROVE  ackeds[h] = acks[s]
<1>1. Accepted(ackeds[h])
  BY DEF FollowInv, DerivedFromAccepted
<1>2. ackeds[h] = acks[s] \/ CreatedAt[ackeds[h]] < CreatedAt[acks[s]]
  BY <1>1, RowLeads DEF FollowInv
<1>3. CreatedAt[ackeds[h]] \in Nat /\ CreatedAt[acks[s]] \in Nat
  BY AckAssumption DEF FollowInv, AckTypeOK
<1> QED
  BY <1>2, <1>3

-----------------------------------------------------------------------------
\* An entity document that arrives keeps the invariant: no table reads it.
LEMMA SaveEntityStep ==
    ASSUME FollowInv, AckTypeOK', NEW s \in Servers, NEW e \in Entities,
           SaveEntity(s, e)
    PROVE  FollowInv'
<1> USE DEF FollowInv, SaveEntity, ackTable, ackedTable
<1>1. OwnEntities'
  BY EntityAssumption DEF OwnEntities, AckTypeOK, EntityType
<1>2. AcksAtHome' /\ RowIsNewest' /\ HeldIsNewest' /\ NewestReaches'
  BY DEF AcksAtHome, AckerHome, RowIsNewest, HeldIsNewest, NewestReaches
<1>3. DerivedFromAccepted'
  BY DEF DerivedFromAccepted, Accepted
<1> QED
  BY <1>1, <1>2, <1>3

\* A commit that begins keeps the invariant: it is local only at a home.
LEMMA BeginAckStep ==
    ASSUME FollowInv, AckTypeOK', NEW s \in Servers, NEW d \in Acks,
           NEW mode \in Modes, BeginAck(s, d, mode)
    PROVE  FollowInv'
<1> USE DEF FollowInv, BeginAck, homes, ackTable, ackedTable
<1>1. IsLocal(s, "from") => AckerHome(s)
  BY DEF IsLocal, AckerHome, OwnEntities, AckTypeOK, Users
<1>2. AcksAtHome'
  BY <1>1 DEF AcksAtHome, AckerHome, AckTypeOK
<1>3. OwnEntities' /\ RowIsNewest' /\ HeldIsNewest' /\ NewestReaches'
  BY DEF OwnEntities, RowIsNewest, HeldIsNewest, NewestReaches
<1>4. DerivedFromAccepted'
  BY DEF DerivedFromAccepted, Accepted
<1> QED
  BY <1>2, <1>3, <1>4

\* An ack that is accepted is the newest, and its delivery is owed.
LEMMA CommitAckStep ==
    ASSUME AckerStays, FollowInv, AckTypeOK', NEW s \in Servers,
           NEW c \in ackCommits[s], CommitAck(s, c)
    PROVE  FollowInv'
<1> USE DEF FollowInv, homes, ackedTable
<1>0. c.ack \in Acks /\ c.mode \in Modes /\ CreatedAt[c.ack] \in Nat
  BY AckAssumption DEF AckTypeOK, AckCommit
<1>1. OwnEntities' /\ HeldIsNewest'
  BY DEF CommitAck, OwnEntities, HeldIsNewest
<1>2. AcksAtHome'
  BY DEF CommitAck, AcksAtHome, AckerHome, AckTypeOK
<1>3. RowIsNewest'
  BY <1>0, AckAssumption, NilAssumption
  DEF CommitAck, RowIsNewest, Newer, AckTypeOK
<1>4. DerivedFromAccepted'
  <2>1. \A d : Accepted(d) => Accepted(d)'
    BY DEF CommitAck, Accepted, AckTypeOK
  <2>2. \A t \in Servers : \A d \in outbox'[t] :
            d \in outbox[t] \/ (d = c.ack /\ Accepted(c.ack)')
    BY DEF CommitAck, Accepted, AckTypeOK
  <2> QED
    BY <2>1, <2>2 DEF CommitAck, DerivedFromAccepted
<1>5. NewestReaches'
  <2>1. CASE c.local /\ Newer(c.ack, acks[s])
    <3>1. \A t \in Servers : acks'[t] # NoDoc => t = s
      BY <2>1, OneHome DEF CommitAck, AckTypeOK
    <3>2. acks'[s] = c.ack /\ c.ack \in outbox'[s] \union undelivered'
      BY <1>0, <2>1 DEF CommitAck, AckTypeOK, Modes
    <3> QED
      BY <3>1, <3>2 DEF NewestReaches
  <2>2. CASE ~(c.local /\ Newer(c.ack, acks[s]))
    BY <2>2 DEF CommitAck, NewestReaches
  <2> QED
    BY <2>1, <2>2
<1> QED
  BY <1>1, <1>2, <1>3, <1>4, <1>5

\* The enqueued job takes over from the post-process.
LEMMA PostProcessStep ==
    ASSUME FollowInv, AckTypeOK', NEW s \in Servers, NEW d \in outbox[s],
           PostProcess(s, d)
    PROVE  FollowInv'
<1> USE DEF FollowInv, homes, ackTable, ackedTable
<1>1. OwnEntities' /\ AcksAtHome' /\ RowIsNewest' /\ HeldIsNewest'
  BY DEF PostProcess, OwnEntities, AcksAtHome, AckerHome, RowIsNewest,
         HeldIsNewest
<1>2. \A t \in Servers : \A j \in jobs'[t] : j \in jobs[t] \/ j.ack = d
  BY DEF PostProcess, AckTypeOK
<1>3. DerivedFromAccepted'
  <2>1. \A x : Accepted(x) => Accepted(x)'
    BY DEF PostProcess, Accepted
  <2>2. Accepted(d)
    BY DEF DerivedFromAccepted
  <2>3. \A t \in Servers : outbox'[t] \subseteq outbox[t]
    BY DEF PostProcess, AckTypeOK
  <2> QED
    BY <1>2, <2>1, <2>2, <2>3 DEF PostProcess, DerivedFromAccepted
<1>4. NewestReaches'
  <2>1. \A t \in Servers : jobs[t] \subseteq jobs'[t]
    BY DEF PostProcess, AckTypeOK
  <2>2. \A t \in Servers : \A x \in outbox[t] :
            x \in outbox'[t] \/ \E j \in jobs'[t] : j.ack = x
    <3> DEFINE k == [ack |-> d, attempt |-> 0, host |-> NoServer]
    <3>1. k \in jobs'[s] /\ k.ack = d
      BY DEF PostProcess, AckTypeOK
    <3>2. \A t \in Servers : \A x \in outbox[t] :
              x \in outbox'[t] \/ (t = s /\ x = d)
      BY DEF PostProcess, AckTypeOK
    <3> QED
      BY <3>1, <3>2
  <2> QED
    BY <2>1, <2>2 DEF PostProcess, NewestReaches
<1> QED
  BY <1>1, <1>3, <1>4

\* A post-process that fails gives the delivery up.
LEMMA PostProcessFailsStep ==
    ASSUME FollowInv, AckTypeOK', NEW s \in Servers, NEW d \in outbox[s],
           PostProcessFails(s, d)
    PROVE  FollowInv'
<1> USE DEF FollowInv, PostProcessFails, homes, ackTable, ackedTable
<1>1. OwnEntities' /\ AcksAtHome' /\ RowIsNewest' /\ HeldIsNewest'
  BY DEF OwnEntities, AcksAtHome, AckerHome, RowIsNewest, HeldIsNewest
<1>2. DerivedFromAccepted'
  <2>1. \A x : Accepted(x) => Accepted(x)'
    BY DEF Accepted
  <2> QED
    BY <2>1 DEF DerivedFromAccepted, AckTypeOK
<1>3. NewestReaches'
  BY DEF NewestReaches, GivenUp, AckTypeOK
<1> QED
  BY <1>1, <1>2, <1>3

\* Steps that replace a job by one for the same ack.
LEMMA RequeueStep ==
    ASSUME FollowInv, AckTypeOK', NEW s \in Servers, NEW j \in jobs[s],
           NEW k \in Job, k.ack = j.ack,
           jobs' = [jobs EXCEPT ![s] = (@ \ {j}) \union {k}],
           UNCHANGED <<homes, ackTable, ackedTable, ackCommits, ackedCommits,
                       outbox, undelivered>>
    PROVE  FollowInv'
<1> USE DEF FollowInv, homes, ackTable, ackedTable
<1>1. OwnEntities' /\ AcksAtHome' /\ RowIsNewest' /\ HeldIsNewest'
  BY DEF OwnEntities, AcksAtHome, AckerHome, RowIsNewest, HeldIsNewest
<1>2. DerivedFromAccepted'
  <2>1. \A x : Accepted(x) => Accepted(x)'
    BY DEF Accepted
  <2> QED
    BY <2>1 DEF DerivedFromAccepted, AckTypeOK
<1>3. NewestReaches'
  BY DEF NewestReaches, AckTypeOK
<1> QED
  BY <1>1, <1>2, <1>3

\* Resolving, failing and taking over a job keep it, or give it up.
LEMMA JobStep ==
    ASSUME FollowInv, AckTypeOK', NEW s \in Servers, NEW j \in jobs[s],
           \/ \E e \in Entities : Resolve(s, j, e)
           \/ DeliverFails(s, j) \/ Rerun(s, j)
    PROVE  FollowInv'
<1> USE DEF FollowInv
<1>0. j \in Job
  BY DEF AckTypeOK
<1>1. ASSUME NEW e \in Entities, Resolve(s, j, e) PROVE FollowInv'
  <2>1. [j EXCEPT !.host = Entity[e].domain] \in Job
    <3>1. Entity[e].domain \in Host
      BY EntityAssumption DEF Host, EntityType
    <3> QED
      BY <1>0, <3>1 DEF Job
  <2>2. [j EXCEPT !.host = Entity[e].domain].ack = j.ack
    BY <1>0 DEF Job
  <2> HIDE DEF FollowInv
  <2> QED
    BY <1>1, <2>1, <2>2, RequeueStep DEF Resolve
<1>2. CASE Rerun(s, j)
  <2>1. /\ [j EXCEPT !.host = NoServer] \in Job
        /\ [j EXCEPT !.host = NoServer].ack = j.ack
    BY <1>0 DEF Job, Host
  <2> HIDE DEF FollowInv
  <2> QED
    BY <1>2, <2>1, RequeueStep DEF Rerun
<1>3. CASE DeliverFails(s, j) /\ j.attempt + 1 < MaxAttempts
  <2> DEFINE k == [ack |-> j.ack, attempt |-> j.attempt + 1, host |-> NoServer]
  <2>1. k \in Job /\ k.ack = j.ack
    BY <1>0, <1>3, BoundAssumption DEF Job, Attempt, Host
  <2>2. /\ jobs' = [jobs EXCEPT ![s] = (@ \ {j}) \union {k}]
        /\ UNCHANGED undelivered
    BY <1>0, <1>3, BoundAssumption DEF DeliverFails, Job, Attempt
  <2> HIDE DEF FollowInv, k
  <2> QED
    BY <1>3, <2>1, <2>2, RequeueStep DEF DeliverFails
<1>4. CASE DeliverFails(s, j) /\ j.attempt + 1 = MaxAttempts
  <2>0. /\ jobs' = [jobs EXCEPT ![s] = @ \ {j}]
        /\ undelivered' = GivenUp(j.ack)
        /\ UNCHANGED <<homes, ackTable, ackedTable, ackCommits, ackedCommits,
                       outbox>>
    BY <1>0, <1>4, BoundAssumption DEF DeliverFails, Job, Attempt
  <2> USE DEF homes, ackTable, ackedTable
  <2>1. OwnEntities' /\ AcksAtHome' /\ RowIsNewest' /\ HeldIsNewest'
    BY <2>0 DEF OwnEntities, AcksAtHome, AckerHome, RowIsNewest, HeldIsNewest
  <2>2. DerivedFromAccepted'
    <3>1. \A x : Accepted(x) => Accepted(x)'
      BY <2>0 DEF Accepted
    <3> QED
      BY <2>0, <3>1 DEF DerivedFromAccepted, AckTypeOK
  <2>3. NewestReaches'
    BY <2>0 DEF NewestReaches, GivenUp, AckTypeOK
  <2> QED
    BY <2>1, <2>2, <2>3
<1> QED
  BY <1>1, <1>2, <1>3, <1>4 DEF DeliverFails

\* A job ends at once only where its ack, or a newer one, is held.
LEMMA DeliverStep ==
    ASSUME AckerStays, FollowInv, AckTypeOK', NEW s \in Servers,
           NEW j \in jobs[s], Deliver(s, j)
    PROVE  FollowInv'
<1> USE DEF homes, ackTable, ackedTable
<1>0. j.ack \in Acks /\ j.host \in Servers /\ Accepted(j.ack)
  BY DEF FollowInv, DerivedFromAccepted, AckTypeOK, Job, Host, Deliver
<1>1. OwnEntities' /\ AcksAtHome' /\ RowIsNewest' /\ HeldIsNewest'
  BY DEF FollowInv, Deliver, OwnEntities, AcksAtHome, AckerHome, RowIsNewest,
         HeldIsNewest
<1>2. DerivedFromAccepted'
  <2>1. \A x : Accepted(x) => Accepted(x)'
    BY DEF Deliver, Accepted
  <2>2. \A t \in Servers : \A c \in ackedCommits'[t] :
            c \in ackedCommits[t] \/ c.ack = j.ack
    BY DEF FollowInv, Deliver, BeginAcked, AckTypeOK
  <2>3. \A t \in Servers : jobs'[t] \subseteq jobs[t]
    BY DEF FollowInv, Deliver, AckTypeOK
  <2> QED
    BY <1>0, <2>1, <2>2, <2>3 DEF FollowInv, Deliver, DerivedFromAccepted
<1>3. NewestReaches'
  <2>1. CASE Known(j.host, j.ack)
    <3>1. /\ ackeds[j.host] # NoDoc
          /\ CreatedAt[j.ack] =< CreatedAt[ackeds[j.host]]
      BY <1>0, <2>1 DEF FollowInv, HeldIsNewest, Known
    <3>2. \A t \in Servers : acks[t] = j.ack => ackeds[j.host] = acks[t]
      BY <1>0, <3>1, NilAssumption, HoldsRow
    <3>3. \A t \in Servers : \A k \in jobs[t] : k \in jobs'[t] \/ k = j
      BY DEF FollowInv, Deliver, AckTypeOK
    <3> QED
      BY <1>0, <3>2, <3>3 DEF FollowInv, Deliver, NewestReaches
  <2>2. CASE ~Known(j.host, j.ack)
    BY <2>2 DEF FollowInv, Deliver, NewestReaches
  <2> QED
    BY <2>1, <2>2
<1> QED
  BY <1>1, <1>2, <1>3 DEF FollowInv

\* The answer to a delivery ends the job once the ack is held or given up.
LEMMA CommitAckedStep ==
    ASSUME AckerStays, FollowInv, AckTypeOK', NEW h \in Servers,
           NEW c \in ackedCommits[h], CommitAcked(h, c)
    PROVE  FollowInv'
<1> USE DEF homes, ackTable
<1>0. /\ c.ack \in Acks /\ Accepted(c.ack)
      /\ CreatedAt[c.ack] \in Nat
  BY AckAssumption DEF FollowInv, DerivedFromAccepted, AckTypeOK, AckedCommit
<1>1. OwnEntities' /\ AcksAtHome' /\ RowIsNewest'
  BY DEF FollowInv, CommitAcked, OwnEntities, AcksAtHome, AckerHome,
         RowIsNewest
<1>2. HeldIsNewest'
  BY <1>0, AckAssumption, NilAssumption
  DEF FollowInv, CommitAcked, HeldIsNewest, Newer, AckTypeOK
<1>3. DerivedFromAccepted'
  <2>1. \A x : Accepted(x) => Accepted(x)'
    BY DEF CommitAcked, Accepted
  <2>2. \A t \in Servers : /\ jobs'[t] \subseteq jobs[t]
                           /\ ackedCommits'[t] \subseteq ackedCommits[t]
                           /\ ackedLog'[t] \subseteq ackedLog[t] \union {c.ack}
                           /\ ackeds'[t] \in {ackeds[t], c.ack}
    BY DEF FollowInv, CommitAcked, AckTypeOK
  <2> QED
    BY <1>0, <2>1, <2>2 DEF FollowInv, CommitAcked, DerivedFromAccepted
<1>4. NewestReaches'
  <2> SUFFICES ASSUME NEW s \in Servers, acks[s] # NoDoc
               PROVE  \/ acks[s] \in outbox[s] \union undelivered'
                      \/ \E j \in jobs'[s] : j.ack = acks[s]
                      \/ \E g \in Servers : ackeds'[g] = acks[s]
    BY DEF CommitAcked, NewestReaches
  <2>1. CASE acks[s] = c.ack
    <3>1. CASE ~c.local
      <4> DEFINE Ends == \E t \in Servers : \E j \in jobs[t] :
                             j.host = h /\ Sent(t, j, c)
      <4>1. CASE Ends
        BY <2>1, <3>1, <4>1 DEF CommitAcked, GivenUp
      <4>2. CASE ~Ends
        <5>1. jobs[s] \subseteq jobs'[s] /\ undelivered' = undelivered
          BY <3>1, <4>2 DEF CommitAcked
        <5>2. ackeds' = ackeds
          BY <3>1 DEF CommitAcked
        <5> QED
          BY <5>1, <5>2 DEF FollowInv, NewestReaches
      <4> QED
        BY <4>1, <4>2
    <3>2. CASE c.local /\ Newer(c.ack, ackeds[h])
      BY <2>1, <3>2 DEF FollowInv, CommitAcked, AckTypeOK
    <3>3. CASE c.local /\ ~Newer(c.ack, ackeds[h])
      <4>1. /\ ackeds[h] # NoDoc /\ CreatedAt[ackeds[h]] \in Nat
            /\ ~(CreatedAt[ackeds[h]] < CreatedAt[c.ack])
        BY <3>3, AckAssumption DEF FollowInv, AckTypeOK, Newer
      <4>2. ackeds[h] = acks[s]
        BY <1>0, <2>1, <4>1, HoldsRow
      <4> QED
        BY <3>3, <4>2 DEF CommitAcked
    <3> QED
      BY <3>1, <3>2, <3>3
  <2>2. CASE acks[s] # c.ack
    <3>1. \A j \in jobs[s] : j.ack = acks[s] => j \in jobs'[s]
      BY <2>2 DEF CommitAcked, Sent
    <3>2. undelivered \subseteq undelivered'
      BY DEF CommitAcked, GivenUp
    <3>3. \A g \in Servers : ackeds[g] = acks[s] => ackeds'[g] = acks[s]
      <4>1. CreatedAt[c.ack] < CreatedAt[acks[s]]
        BY <1>0, <2>2, RowLeads DEF FollowInv
      <4>2. CreatedAt[acks[s]] \in Nat
        BY AckAssumption DEF FollowInv, AckTypeOK
      <4>3. ackeds[h] = acks[s] => ~Newer(c.ack, ackeds[h])
        BY <1>0, <4>1, <4>2 DEF Newer
      <4> QED
        BY <4>3 DEF FollowInv, CommitAcked, AckTypeOK
    <3> QED
      BY <3>1, <3>2, <3>3 DEF FollowInv, NewestReaches
  <2> QED
    BY <2>1, <2>2
<1> QED
  BY <1>1, <1>2, <1>3, <1>4 DEF FollowInv

\* A replayed document was accepted once.
LEMMA ReplayStep ==
    ASSUME FollowInv, AckTypeOK', NEW h \in Servers, NEW d \in Acks,
           ReplayAcked(h, d)
    PROVE  FollowInv'
<1> USE DEF FollowInv, ReplayAcked, homes, ackTable, ackedTable
<1>1. OwnEntities' /\ AcksAtHome' /\ RowIsNewest' /\ HeldIsNewest'
      /\ NewestReaches'
  BY DEF OwnEntities, AcksAtHome, AckerHome, RowIsNewest, HeldIsNewest,
         NewestReaches
<1>2. DerivedFromAccepted'
  <2>1. \A x : Accepted(x) => Accepted(x)'
    BY DEF Accepted
  <2>2. Accepted(d)
    BY DEF DerivedFromAccepted
  <2>3. \A t \in Servers : \A c \in ackedCommits'[t] :
            c \in ackedCommits[t] \/ c.ack = d
    BY DEF BeginAcked, AckTypeOK
  <2> QED
    BY <2>1, <2>2, <2>3 DEF DerivedFromAccepted
<1> QED
  BY <1>1, <1>2

-----------------------------------------------------------------------------
\* Every reachable state satisfies the invariant while the acker stays.
LEMMA FollowInvariant ==
    ASSUME AckerStays
    PROVE  AckSpec => []FollowInv
<1>1. AckInit => FollowInv
  <2>1. AckInit => AckTypeOK
    BY BoundAssumption DEF AckInit, AckTypeOK
  <2> QED
    BY <2>1 DEF AckInit, FollowInv, OwnEntities, AcksAtHome, RowIsNewest,
                DerivedFromAccepted, HeldIsNewest, NewestReaches
<1>2. FollowInv /\ [AckNext]_ackVars => FollowInv'
  <2> SUFFICES ASSUME FollowInv, [AckNext]_ackVars PROVE FollowInv'
    OBVIOUS
  <2>1. AckTypeOK'
    BY TypeStep DEF FollowInv
  <2>2. CASE UNCHANGED ackVars
    BY <2>2 DEF FollowInv, ackVars, homes, ackTable, ackedTable, AckTypeOK,
                OwnEntities, AcksAtHome, AckerHome, RowIsNewest, Accepted,
                DerivedFromAccepted, HeldIsNewest, NewestReaches
  <2> QED
    BY <2>1, <2>2, SaveEntityStep, BeginAckStep, CommitAckStep,
       PostProcessStep, PostProcessFailsStep, JobStep, DeliverStep,
       CommitAckedStep, ReplayStep DEF AckNext
<1> QED
  BY <1>1, <1>2, PTL DEF AckSpec

\* ack.go, deliver.go, record.go (processAck, processAcked): while the acker
\* stays on one server, a target's server never holds anything but the newest
\* ack or an older one, through any retries, late commits, replays and moves of
\* the target.
THEOREM AckedConverges ==
    ASSUME AckerStays
    PROVE  AckSpec => []AckedFollows
<1>1. FollowInv => AckedFollows
  <2> SUFFICES ASSUME FollowInv, NEW h \in Servers, ackeds[h] # NoDoc
               PROVE  \E s \in Servers :
                        /\ acks[s] # NoDoc
                        /\ \/ acks[s] = ackeds[h]
                           \/ CreatedAt[ackeds[h]] < CreatedAt[acks[s]]
    BY DEF AckedFollows
  <2>1. PICK s \in Servers : ackeds[h] \in ackLog[s]
    BY DEF FollowInv, DerivedFromAccepted, Accepted
  <2> QED
    BY <2>1 DEF FollowInv, RowIsNewest
<1> QED
  BY <1>1, FollowInvariant, PTL

\* deliver.go and ack.go: under the same assumption the newest ack is held, on
\* its way, or was given up in one of the ways the code knows of; no retry, late
\* commit, replay or move of the target loses it in silence.
THEOREM NewestArrives ==
    ASSUME AckerStays
    PROVE  AckSpec => []NewestReaches
<1>1. FollowInv => NewestReaches
  BY DEF FollowInv
<1> QED
  BY <1>1, FollowInvariant, PTL

=============================================================================
