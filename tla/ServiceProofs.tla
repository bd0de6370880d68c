---------------------------- MODULE ServiceProofs ----------------------------
(* The components without common state.  The operator's commands:             *)
(* registration, the collector and delete-user for any documents of a user,   *)
(* and what repair-anchored-acks promises for every set of acks and every way *)
(* of being cut short and repeated.  The federation client's record cache,    *)
(* for any readers, versions and forged answers.  Push notifications, for any *)
(* replicas that believe they lead.  Proof chains, for any documents.  The    *)
(* policy engine, for any policies: its loops run over lists of any length.   *)
EXTENDS Residence, AckRepair, RecordCache, Notifications, ProofChain,
        PolicyEngine, WellFoundedInduction, TLAPS

------------------------------------------------------------------------------
\* The ids a backed-up deletion goes through are the ones it has uploaded.
BatchesSaved ==
    /\ op.name = "delete" /\ op.stage = "batches" => op.ids \subseteq saved
    /\ \/ op = None
       \/ op \in [name : {"register"}, doc : Entities]
       \/ op \in [name : {"unregister"}]
       \/ op \in [name : {"delete"}, stage : {"backup", "batches", "purge", "meta"},
                  ids : SUBSET Docs]
    /\ log \in [Docs -> {"absent", "live", "flagged"}]

\* Initially no command runs.
LEMMA InitBatchesSaved == Init => BatchesSaved
  BY DEF Init, BatchesSaved, None

\* Only Backup fills ids, with what it saves; batches leave ids; nothing else
\* touches saved while a deletion runs.
LEMMA NextBatchesSaved == BatchesSaved /\ [Next]_vars => BatchesSaved'
  <1> SUFFICES ASSUME BatchesSaved, [Next]_vars PROVE BatchesSaved'
    OBVIOUS
  <1> USE DEF BatchesSaved, None
  <1>1. ASSUME NEW e \in Entities, RegisterBegins(e) PROVE BatchesSaved'
    BY <1>1 DEF RegisterBegins
  <1>2. ASSUME NEW e \in Entities, CommitEntity(e) PROVE BatchesSaved'
    BY <1>2 DEF CommitEntity, EntityCommitted, Docs
  <1>3. CASE RegisterCommits
    BY <1>3 DEF RegisterCommits, EntityCommitted
  <1>4. CASE RegisterRefused
    BY <1>4 DEF RegisterRefused
  <1>5. ASSUME NEW d \in Records, CommitRecord(d) PROVE BatchesSaved'
    BY <1>5 DEF CommitRecord
  <1>6. ASSUME NEW d \in Docs, Collect(d) PROVE BatchesSaved'
    BY <1>6 DEF Collect
  <1>7. CASE Subscribe
    BY <1>7 DEF Subscribe
  <1>8. CASE UnregisterFlags
    BY <1>8 DEF UnregisterFlags, Flagged
  <1>9. CASE UnregisterMeta
    BY <1>9 DEF UnregisterMeta
  <1>10. ASSUME NEW backup \in BOOLEAN, DeleteUserBegins(backup) PROVE BatchesSaved'
    BY <1>10 DEF DeleteUserBegins
  <1>11. CASE Backup
    BY <1>11 DEF Backup, Present
  <1>12. ASSUME NEW batch \in SUBSET Docs, DeleteBackedUp(batch) PROVE BatchesSaved'
    BY <1>12 DEF DeleteBackedUp, Erase
  <1>13. ASSUME NEW batch \in SUBSET Docs, DeleteByOwner(batch) PROVE BatchesSaved'
    BY <1>13 DEF DeleteByOwner, Erase
  <1>14. CASE DeleteSubscriptions
    BY <1>14 DEF DeleteSubscriptions
  <1>15. CASE DeleteMeta
    BY <1>15 DEF DeleteMeta
  <1>16. CASE Abort
    BY <1>16 DEF Abort
  <1>17. CASE UNCHANGED vars
    BY <1>17 DEF vars
  <1> QED
    BY <1>1, <1>2, <1>3, <1>4, <1>5, <1>6, <1>7, <1>8, <1>9, <1>10, <1>11,
       <1>12, <1>13, <1>14, <1>15, <1>16, <1>17 DEF Next

-----------------------------------------------------------------------------
\* delete-user: a deletion with a backup deletes no live commit that was not
\* uploaded, whatever commits and interruptions come in between.
THEOREM BackupCoversDeletion == Spec => DeletedIsSaved
  <1>1. ASSUME BatchesSaved, [Next]_vars PROVE [OnlySavedDeleted]_vars
    <2> SUFFICES ASSUME Next, op.name = "delete", op.stage = "batches",
                        NEW d \in Docs, log[d] = "live", log'[d] = "absent"
                 PROVE  d \in saved
      BY <1>1 DEF vars, OnlySavedDeleted
    <2>1. PICK batch \in SUBSET Docs : DeleteBackedUp(batch)
      BY <1>1 DEF Next, BatchesSaved, None, RegisterBegins, CommitEntity,
         EntityCommitted, RegisterCommits, RegisterRefused, CommitRecord, Collect,
         Subscribe, UnregisterFlags, UnregisterMeta, DeleteUserBegins, Backup,
         DeleteByOwner, DeleteSubscriptions, DeleteMeta, Abort
    <2>2. d \in batch
      BY <2>1 DEF DeleteBackedUp, Erase
    <2> QED
      BY <1>1, <2>1, <2>2 DEF DeleteBackedUp, BatchOf, BatchesSaved
  <1> QED
    BY <1>1, InitBatchesSaved, NextBatchesSaved, PTL DEF Spec, DeletedIsSaved

-----------------------------------------------------------------------------
\* Only an entity document is ever the document of the entities row.
EntityKnown ==
    /\ entity \in Entities \union {0}
    /\ meta \in BOOLEAN /\ excused \in BOOLEAN
    /\ BatchesSaved

LifeInv == EntityKnown /\ RegisteredLives

\* Committing an entity document leaves a live one, or is excused.
LEMMA CommittedLives ==
    ASSUME EntityKnown, NEW e \in Entities, EntityCommitted(e)
    PROVE  /\ excused' \/ Lives'
           /\ entity' \in Entities \union {0} /\ excused' \in BOOLEAN
  <1> USE DEF EntityKnown, BatchesSaved
  <1>1. CASE log[e] # "absent" \/ (entity # 0 /\ e <= entity)
    BY <1>1 DEF EntityCommitted, Lives
  <1>2. CASE ~(log[e] # "absent" \/ (entity # 0 /\ e <= entity))
    <2>1. log' = [log EXCEPT ![e] = "live"] /\ entity' = e /\ excused' = FALSE
      BY <1>2 DEF EntityCommitted
    <2> QED
      BY <2>1 DEF Lives, Docs
  <1> QED
    BY <1>1, <1>2

\* A registration that is not excused keeps a live entity through every step:
\* the collector takes flagged documents only, and whoever flags a document or
\* deletes it takes the registration away next or is interrupted.
LEMMA NextLifeInv == LifeInv /\ [Next]_vars => LifeInv'
  <1> SUFFICES ASSUME LifeInv, [Next]_vars PROVE LifeInv'
    OBVIOUS
  <1>0. BatchesSaved'
    BY NextBatchesSaved DEF LifeInv, EntityKnown
  <1> USE <1>0 DEF LifeInv, EntityKnown, RegisteredLives
  <1>1. ASSUME NEW e \in Entities, RegisterBegins(e) PROVE LifeInv'
    BY <1>1 DEF RegisterBegins, None
  <1>2. ASSUME NEW e \in Entities, CommitEntity(e) PROVE LifeInv'
    BY <1>2, CommittedLives DEF CommitEntity
  <1>3. CASE RegisterCommits
    BY <1>3, CommittedLives DEF RegisterCommits, BatchesSaved, None
  <1>4. CASE RegisterRefused
    BY <1>4 DEF RegisterRefused, Lives
  <1>5. ASSUME NEW d \in Records, CommitRecord(d) PROVE LifeInv'
    BY <1>5 DEF CommitRecord, Lives, Docs, BatchesSaved
  <1>6. ASSUME NEW d \in Docs, Collect(d) PROVE LifeInv'
    BY <1>6 DEF Collect, Lives, BatchesSaved
  <1>7. CASE Subscribe
    BY <1>7 DEF Subscribe, Lives
  <1>8. CASE UnregisterFlags
    BY <1>8 DEF UnregisterFlags, None
  <1>9. CASE UnregisterMeta
    BY <1>9 DEF UnregisterMeta
  <1>10. ASSUME NEW backup \in BOOLEAN, DeleteUserBegins(backup) PROVE LifeInv'
    BY <1>10 DEF DeleteUserBegins, None
  <1>11. CASE Backup
    BY <1>11 DEF Backup, None, BatchesSaved
  <1>12. ASSUME NEW batch \in SUBSET Docs, DeleteBackedUp(batch) PROVE LifeInv'
    BY <1>12 DEF DeleteBackedUp, Erase, None, BatchesSaved
  <1>13. ASSUME NEW batch \in SUBSET Docs, DeleteByOwner(batch) PROVE LifeInv'
    BY <1>13 DEF DeleteByOwner, Erase, None
  <1>14. CASE DeleteSubscriptions
    BY <1>14 DEF DeleteSubscriptions, None, BatchesSaved
  <1>15. CASE DeleteMeta
    BY <1>15 DEF DeleteMeta
  <1>16. CASE Abort
    BY <1>16 DEF Abort, Lives
  <1>17. CASE UNCHANGED vars
    BY <1>17 DEF vars, Lives
  <1> QED
    BY <1>1, <1>2, <1>3, <1>4, <1>5, <1>6, <1>7, <1>8, <1>9, <1>10, <1>11,
       <1>12, <1>13, <1>14, <1>15, <1>16, <1>17 DEF Next

\* Register, Unregister, delete-user and the collector: a registered user with
\* no command under way has a live entity, unless a replayed or refused
\* document or an interrupted command is to blame.
THEOREM RegistrationLives == Spec => []RegisteredLives
  <1>1. Init => LifeInv
    BY InitBatchesSaved DEF Init, LifeInv, EntityKnown, RegisteredLives
  <1>2. LifeInv => RegisteredLives
    BY DEF LifeInv
  <1> QED
    BY <1>1, <1>2, NextLifeInv, PTL DEF Spec

------------------------------------------------------------------------------
Local == [from : BOOLEAN, to : BOOLEAN]

\* The types the proofs need.
Typed ==
    /\ local \in [Acks -> Local]
    /\ had \subseteq Acks
    /\ ack \subseteq Acks
    /\ todo \subseteq Acks
    /\ anchors \in BOOLEAN /\ fk \in BOOLEAN
    /\ cmd \in [name : {"none", "anchored", "single"},
               stage : {"idle", "split", "sweep", "holdings"}]

\* The anchors go between the two stages and never return; the new foreign key
\* comes later still.
Staged ==
    /\ cmd.stage = "split" => anchors
    /\ cmd.stage = "sweep" => ~anchors
    /\ fk => ~anchors

\* Every row the loop has visited has its commit, and all have it in the end.
Visited ==
    /\ cmd.stage = "split" => ack \ todo \subseteq ackLog
    /\ ~anchors => ack \subseteq ackLog

\* One ack is held where it is wanted.
Held(a) ==
    /\ local[a].to => a \in acked /\ a \in ackedLog
    /\ local[a].from => a \in ack /\ a \in ackLog

\* Until the foreign key is in place an ack that could be found is held, or its
\* row and its original are still there for the loop to come by.
Recoverable ==
    /\ acked \subseteq ackedLog
    /\ ~fk => \A a \in had : \/ Held(a)
                             \/ anchors /\ a \in ack /\ Original(a)
    /\ cmd.stage = "split" => \A a \in had \ todo : Held(a)

IInv == Typed /\ Staged /\ Visited /\ Recoverable

-----------------------------------------------------------------------------
\* The beta database satisfies the invariant: no row has been visited.
LEMMA InitIInv == RepairInit => IInv
  <1> SUFFICES ASSUME RepairInit PROVE IInv
    OBVIOUS
  <1>1. Typed
    BY DEF RepairInit, Typed, Local, Idle
  <1>2. Staged /\ Visited
    BY DEF RepairInit, Staged, Visited, Idle
  <1>3. Recoverable
    BY DEF RepairInit, Recoverable, Original, Idle
  <1> QED
    BY <1>1, <1>2, <1>3 DEF IInv

\* One row of the loop: the ack that is visited is held afterwards, and no
\* other one is disturbed.
LEMMA SplitRowIInv ==
    ASSUME IInv, NEW b \in Acks, SplitRow(b)
    PROVE  IInv'
  <1>1. Typed'
    BY DEF IInv, Typed, SplitRow
  <1>2. Staged'
    BY DEF IInv, Staged, SplitRow
  <1>3. Visited'
    BY DEF IInv, Staged, Visited, SplitRow, Restored
  <1>4. acked' \subseteq ackedLog'
    BY DEF IInv, Recoverable, SplitRow
  <1>5. ASSUME NEW a \in had, a # b
        PROVE  /\ Held(a) => Held(a)'
               /\ Original(a) => Original(a)'
               /\ a \in ack => a \in ack'
    BY <1>5 DEF SplitRow, Held, Original, Restored
  <1>6. b \in had => Held(b)'
    <2> SUFFICES ASSUME b \in had PROVE Held(b)'
      OBVIOUS
    <2>1. CASE Original(b) /\ b \in ack
      <3>1. local' = local /\ acked \subseteq ackedLog
        BY DEF SplitRow, IInv, Recoverable
      <3>2. local[b].to => b \in acked' /\ b \in ackedLog'
        BY <2>1, <3>1 DEF SplitRow
      <3>3. local[b].from => b \in ack' /\ b \in ackLog'
        BY <2>1 DEF SplitRow, Restored
      <3> QED
        BY <3>1, <3>2, <3>3 DEF Held
    <2>2. CASE ~(Original(b) /\ b \in ack)
      <3>1. ~fk
        BY DEF IInv, Staged, SplitRow
      <3>2. Held(b)
        BY <2>2, <3>1 DEF IInv, Recoverable
      <3>3. CASE Original(b)
        BY <3>2, <3>3 DEF Held, SplitRow, Restored
      <3>4. CASE ~Original(b)
        <4>1. ~local[b].from
          BY <3>2, <3>4 DEF Held, Original
        <4> QED
          BY <3>2, <3>4, <4>1 DEF Held, SplitRow
      <3> QED
        BY <3>3, <3>4
    <2> QED
      BY <2>1, <2>2
  <1>7. had' = had /\ todo' = todo \ {b} /\ anchors' = anchors /\ fk' = fk
        /\ cmd' = cmd
    BY DEF SplitRow
  <1>8. Recoverable'
    <2>1. (~fk)' => \A a \in had' : \/ Held(a)'
                                    \/ anchors' /\ a \in ack' /\ Original(a)'
      BY <1>5, <1>6, <1>7 DEF IInv, Recoverable
    <2>2. (cmd.stage = "split")' => \A a \in had' \ todo' : Held(a)'
      BY <1>5, <1>6, <1>7 DEF IInv, Recoverable
    <2> QED
      BY <1>4, <2>1, <2>2 DEF Recoverable
  <1> QED
    BY <1>1, <1>2, <1>3, <1>8 DEF IInv

\* Every step of either command, an interruption and a move keep the invariant.
LEMMA NextIInv == IInv /\ [RepairNext]_repairVars => IInv'
  <1> SUFFICES ASSUME IInv, [RepairNext]_repairVars PROVE IInv'
    OBVIOUS
  <1> USE DEF IInv, Typed, Staged, Visited, Recoverable, Held, Original, db
  <1>1. CASE StartAnchored
    BY <1>1 DEF StartAnchored, Idle
  <1>2. CASE Crash
    BY <1>2 DEF Crash, Idle
  <1>3. CASE DropAnchors
    BY <1>3 DEF DropAnchors
  <1>4. CASE Migrate
    BY <1>4 DEF Migrate, Idle
  <1>5. ASSUME NEW a \in Acks, SplitRow(a) PROVE IInv'
    BY <1>5, SplitRowIInv
  <1>6. ASSUME NEW batch \in SUBSET Acks, SweepMirrors(batch) PROVE IInv'
    BY <1>6 DEF SweepMirrors
  <1>7. ASSUME NEW batch \in SUBSET Acks, SingleOwnerBatch(batch) PROVE IInv'
    BY <1>7 DEF SingleOwnerBatch
  <1>8. CASE StartSingleOwner
    BY <1>8 DEF StartSingleOwner, Idle
  <1>9. CASE SingleOwnerEnds
    BY <1>9 DEF SingleOwnerEnds, Idle
  <1>10. ASSUME NEW a \in Acks, NEW l \in [from : BOOLEAN, to : BOOLEAN], Move(a, l)
         PROVE IInv'
    BY <1>10 DEF Move, Idle, Local
  <1>11. CASE UNCHANGED repairVars
    BY <1>11 DEF repairVars
  <1> QED
    BY <1>1, <1>2, <1>3, <1>4, <1>5, <1>6, <1>7, <1>8, <1>9, <1>10, <1>11
       DEF RepairNext

-----------------------------------------------------------------------------
\* repair-anchored-acks: whatever interrupts it and however often it is
\* repeated, once the anchors are gone every acks row has the commit that the
\* new foreign key asks for.
THEOREM MigrationNeverBlocked == RepairSpec => []MigrationPossible
  <1>1. IInv => MigrationPossible
    BY DEF IInv, Visited, MigrationPossible
  <1> QED
    BY <1>1, InitIInv, NextIInv, PTL DEF RepairSpec

\* repair-anchored-acks: when the new foreign key is put in place, every ack
\* whose original could be found at first is held by each side that is local.
THEOREM RepairLosesNoAck == RepairSpec => NoAckLost
  <1>1. ASSUME IInv, [RepairNext]_repairVars PROVE [fk' /\ ~fk => Preserved]_repairVars
    <2> SUFFICES ASSUME RepairNext, fk', ~fk PROVE Preserved
      BY <1>1 DEF repairVars
    <2>1. Migrate
      BY DEF RepairNext, StartAnchored, Crash, DropAnchors, SplitRow, SweepMirrors,
             SingleOwnerBatch, StartSingleOwner, SingleOwnerEnds, Move, db
    <2>2. \A a \in had : Held(a)
      BY <2>1, <1>1 DEF Migrate, IInv, Staged, Recoverable
    <2> QED
      BY <2>1, <2>2 DEF Migrate, Held, Preserved
  <1> QED
    BY <1>1, InitIInv, NextIInv, PTL DEF RepairSpec, NoAckLost

------------------------------------------------------------------------------
\* A reader's call.
Calls ==
    [mode : Modes \union {"none"},
     stage : {"idle", "asking", "answered", "have", "done"},
     doc : Documents \union {0}, since : Nat]

\* The version an entry must have while nothing raced the invalidation: the
\* origin's, or the one before until the entry is dropped.
Bound == IF dropping = "resource" THEN origin - 1 ELSE origin

\* The types, and how far the invalidation of the current version has come.
CacheTyped ==
    /\ origin \in Versions /\ floor \in Nat /\ raced \in BOOLEAN
    /\ resource \in Documents \union {0} /\ batched \in Documents \union {0}
    /\ verified \in Versions \union {0}
    /\ dropping \in {"none", "resource", "verified"}
    /\ reader \in [Readers -> Calls]
    /\ floor = IF dropping = "none" THEN origin ELSE origin - 1

\* What a call has been given is as new as the invalidation before it.
Current(c) ==
    c.stage \in {"have", "done"} /\ c.mode # "batch" =>
        (c.doc \in Versions => c.doc >= c.since)

\* A call that verifies ends with a document that does.
Vouched(c) ==
    c.stage = "done" /\ Verifies(c.mode) =>
        c.doc \notin Bogus /\ (c.mode = "auth" => c.doc \in DirectProof)

\* No call is younger than the last invalidation; unless an answer raced it,
\* what is cached or about to be is as new as the entry must be.
CacheFresh ==
    /\ \A r \in Readers : reader[r].since =< floor
    /\ ~raced => (resource \in Versions => resource >= Bound)
    /\ \A r \in Readers : ~raced /\ reader[r].stage = "answered" =>
            (reader[r].doc \in Versions => reader[r].doc >= Bound)
    /\ \A r \in Readers : ~raced => Current(reader[r])

CacheInv == CacheTyped /\ CacheFresh /\ VerifiedGiven

\* An empty cache is fresh.
LEMMA CacheInvInit == CacheInit => CacheInv
<1>. SUFFICES ASSUME CacheInit PROVE CacheInv
  OBVIOUS
<1>1. NoCall \in Calls
  BY DEF NoCall, Calls, Modes
<1>2. CacheTyped
  <2>1. raced \in BOOLEAN
    BY Zenon DEF CacheInit
  <2>2. origin \in Versions /\ floor \in Nat /\ floor = origin
    BY CacheAssumption DEF CacheInit, Versions
  <2>. QED  BY <1>1, <2>1, <2>2 DEF CacheInit, CacheTyped
<1>3. CacheFresh
  BY CacheAssumption DEF CacheInit, CacheFresh, NoCall, Versions, Current
<1>4. VerifiedGiven
  BY DEF CacheInit, VerifiedGiven, NoCall
<1>. QED  BY <1>2, <1>3, <1>4 DEF CacheInv

\* The step of one call r to the call c, that leaves the others alone.
LEMMA CallStep ==
    ASSUME CacheInv, NEW r \in Readers, NEW c \in Calls,
           reader' = [reader EXCEPT ![r] = c],
           UNCHANGED <<origin, dropping, floor, raced>>,
           resource' \in Documents \union {0}, batched' \in Documents \union {0},
           verified' \in Versions \union {0},
           c.since =< floor,
           ~raced => (resource' \in Versions => resource' >= Bound),
           ~raced /\ c.stage = "answered" => (c.doc \in Versions => c.doc >= Bound),
           ~raced => Current(c),
           Vouched(c)
    PROVE  CacheInv'
<1>1. reader'[r] = c /\ \A s \in Readers \ {r} : reader'[s] = reader[s]
  BY DEF CacheInv, CacheTyped
<1>2. CacheTyped'
  BY DEF CacheInv, CacheTyped
<1>3. Bound' = Bound
  BY DEF Bound
<1>4. ASSUME NEW s \in Readers
      PROVE  /\ reader'[s].since =< floor'
             /\ ~raced' /\ reader'[s].stage = "answered" =>
                    (reader'[s].doc \in Versions => reader'[s].doc >= Bound')
             /\ ~raced' => Current(reader'[s])
             /\ Vouched(reader'[s])
  <2>1. CASE s = r
    BY <2>1, <1>1, <1>3
  <2>2. CASE s # r
    <3>1. Vouched(reader[s])
      BY DEF CacheInv, VerifiedGiven, Vouched
    <3>. QED  BY <2>2, <3>1, <1>1, <1>3 DEF CacheInv, CacheFresh
  <2>. QED  BY <2>1, <2>2
<1>5. CacheFresh'
  <2>1. ~raced' => (resource' \in Versions => resource' >= Bound')
    BY <1>3
  <2>. QED  BY <1>4, <2>1 DEF CacheFresh
<1>6. VerifiedGiven'
  BY <1>4 DEF VerifiedGiven, Vouched
<1>. QED  BY <1>2, <1>5, <1>6 DEF CacheInv

\* Reads, fills, expiry and invalidation keep the cache fresh and the verified
\* calls sound.
LEMMA CacheInvNext == CacheInv /\ [CacheNext]_cacheVars => CacheInv'
<1>. SUFFICES ASSUME CacheInv, [CacheNext]_cacheVars PROVE CacheInv'
  OBVIOUS
<1>a. /\ Versions \subseteq Nat \ {0} /\ Versions \intersect Bogus = {}
      /\ 0 \notin Bogus /\ origin \in Nat /\ floor \in Nat /\ floor =< Bound
      /\ Bound \in Nat
  BY CacheAssumption DEF CacheInv, CacheTyped, Versions, Bound
<1>b. \A r \in Readers : /\ reader[r] \in Calls /\ reader[r].since \in Nat
                         /\ reader[r].doc \in Documents \union {0}
  BY DEF CacheInv, CacheTyped, Calls
<1>c. /\ resource \in Documents \union {0} /\ batched \in Documents \union {0}
      /\ verified \in Versions \union {0}
      /\ ~raced => (resource \in Versions => resource >= Bound)
      /\ \A r \in Readers : reader[r].since =< floor
  BY DEF CacheInv, CacheTyped, CacheFresh
<1>d. /\ NoCall \in Calls /\ NoCall.stage = "idle" /\ NoCall.since =< floor
      /\ Current(NoCall) /\ Vouched(NoCall)
  BY <1>a DEF NoCall, Calls, Current, Vouched
<1>1. ASSUME NEW r \in Readers, NEW m \in Modes, Begin(r, m) PROVE CacheInv'
  <2>. DEFINE c == [mode |-> m, doc |-> Cached(m), since |-> floor,
                    stage |-> IF Cached(m) # 0 THEN "have" ELSE "asking"]
  <2>1. /\ reader' = [reader EXCEPT ![r] = c]
        /\ UNCHANGED <<origin, resource, batched, verified, dropping, floor, raced>>
    BY <1>1 DEF Begin
  <2>2. Cached(m) \in Documents \union {0}
    BY <1>c DEF Cached
  <2>3. c \in Calls
    BY <2>2, <1>a DEF Calls
  <2>4. ASSUME ~raced PROVE Current(c)
    <3>1. CASE m \in {"batch", "moving"}
      BY <3>1, <1>a DEF Current, Cached
    <3>2. CASE m \notin {"batch", "moving"}
      <4>1. Cached(m) = resource
        BY <3>2 DEF Cached
      <4>2. resource \in Versions => resource >= Bound /\ resource \in Nat
        BY <2>4, <1>a, <1>c
      <4>3. Cached(m) \in Versions => Cached(m) >= floor
        BY <4>1, <4>2, <1>a
      <4>. QED  BY <4>3 DEF Current
    <3>. QED  BY <3>1, <3>2
  <2>5. c.since = floor /\ c.stage # "answered" /\ Vouched(c) /\ floor =< floor
    BY <1>a DEF Vouched
  <2>. HIDE DEF c
  <2>. QED  BY <2>1, <2>3, <2>4, <2>5, <1>c, CallStep
<1>2. ASSUME NEW r \in Readers, NEW doc \in Documents, Ask(r, doc) PROVE CacheInv'
  <2>. DEFINE c == [reader[r] EXCEPT !.doc = doc, !.stage = "answered"]
  <2>1. /\ reader' = [reader EXCEPT ![r] = c]
        /\ UNCHANGED <<origin, resource, batched, verified, dropping, floor, raced>>
    BY <1>2 DEF Ask, CacheInv, CacheTyped
  <2>2. /\ c \in Calls /\ c.stage = "answered" /\ c.doc = doc
        /\ c.since = reader[r].since
    BY <1>b DEF Calls
  <2>3. doc \in Versions => doc >= Bound
    BY <1>a, <1>2 DEF Ask, Bound
  <2>. HIDE DEF c
  <2>4. Current(c) /\ Vouched(c)
    BY <2>2 DEF Current, Vouched
  <2>. QED  BY <2>1, <2>2, <2>3, <2>4, <1>c, CallStep
<1>3. ASSUME NEW r \in Readers, Fails(r) PROVE CacheInv'
  <2>1. /\ reader' = [reader EXCEPT ![r] = NoCall]
        /\ UNCHANGED <<origin, resource, batched, verified, dropping, floor, raced>>
    BY <1>3 DEF Fails
  <2>. QED  BY <2>1, <1>c, <1>d, CallStep
<1>4. ASSUME NEW r \in Readers, Fill(r) PROVE CacheInv'
  <2>. DEFINE c == [reader[r] EXCEPT !.stage = "have"]
  <2>1. /\ reader' = [reader EXCEPT ![r] = c] /\ reader[r].stage = "answered"
        /\ UNCHANGED <<origin, verified, dropping, floor, raced>>
    BY <1>4 DEF Fill, CacheInv, CacheTyped
  <2>2. /\ c \in Calls /\ c.stage = "have" /\ c.doc = reader[r].doc
        /\ c.since = reader[r].since
    BY <1>b DEF Calls
  <2>3. ~raced => (reader[r].doc \in Versions => reader[r].doc >= Bound)
    BY <2>1 DEF CacheInv, CacheFresh
  <2>. HIDE DEF c
  <2>a. ASSUME ~raced, reader[r].doc \in Versions
        PROVE  reader[r].doc >= reader[r].since
    <3>1. reader[r].doc >= Bound /\ reader[r].doc \in Nat
      BY <2>3, <2>a, <1>a
    <3>. QED  BY <3>1, <1>a, <1>b, <1>c
  <2>4. (~raced => Current(c)) /\ Vouched(c)
    BY <2>2, <2>a DEF Current, Vouched
  <2>5. /\ resource' = resource \/ resource' = reader[r].doc
        /\ batched' = batched \/ batched' = reader[r].doc
    BY <1>4 DEF Fill
  <2>6. /\ resource' \in Documents \union {0} /\ batched' \in Documents \union {0}
        /\ ~raced => (resource' \in Versions => resource' >= Bound)
    BY <2>3, <2>5, <1>b, <1>c
  <2>. QED  BY <2>1, <2>2, <2>4, <2>6, <1>c, CallStep
<1>5. ASSUME NEW r \in Readers, Check(r) PROVE CacheInv'
  <2>. DEFINE c == reader[r]
              d == [c EXCEPT !.stage = "done"]
              allowed == c.mode = "auth" => c.doc \in DirectProof
              known == UsesCache(c.mode) /\ Remembered(c.doc)
              good == ~Verifies(c.mode) \/ (allowed /\ (known \/ c.doc \notin Bogus))
  <2>1. /\ c.stage = "have"
        /\ UNCHANGED <<origin, resource, batched, dropping, floor, raced>>
        /\ reader' = [reader EXCEPT ![r] = IF good THEN d ELSE NoCall]
        /\ verified' = IF good /\ Verifies(c.mode) /\ UsesCache(c.mode) /\ ~known
                       THEN c.doc ELSE verified
    BY <1>5 DEF Check
  <2>2. known => c.doc \notin Bogus
    BY <1>a, <1>c DEF Remembered
  <2>3. verified' \in Versions \union {0}
    <3>1. CASE good /\ Verifies(c.mode) /\ UsesCache(c.mode) /\ ~known
      BY <3>1, <2>1, <1>b DEF Documents
    <3>2. CASE ~(good /\ Verifies(c.mode) /\ UsesCache(c.mode) /\ ~known)
      BY <3>2, <2>1, <1>c
    <3>. QED  BY <3>1, <3>2
  <2>4. CASE good
    <3>1. /\ d \in Calls /\ d.stage = "done" /\ d.doc = c.doc /\ d.mode = c.mode
          /\ d.since = c.since
      BY <1>b DEF Calls
    <3>2. Vouched(d)
      BY <2>2, <2>4, <3>1 DEF Vouched
    <3>3. ~raced => Current(d)
      <4>1. ~raced => Current(c)
        BY DEF CacheInv, CacheFresh
      <4>. QED  BY <4>1, <2>1, <3>1 DEF Current
    <3>4. reader' = [reader EXCEPT ![r] = d] /\ d.since =< floor
      BY <2>1, <2>4, <3>1, <1>c
    <3>. HIDE DEF c, d, allowed, known, good
    <3>. QED  BY <2>1, <2>3, <3>1, <3>2, <3>3, <3>4, <1>c, CallStep
  <2>5. CASE ~good
    <3>1. reader' = [reader EXCEPT ![r] = NoCall]
      BY <2>1, <2>5
    <3>. HIDE DEF c, d, allowed, known, good
    <3>. QED  BY <2>1, <2>3, <3>1, <1>c, <1>d, CallStep
  <2>. QED  BY <2>4, <2>5
<1>6. ASSUME NEW entry \in {"resource", "batch", "verified"}, Expire(entry)
      PROVE  CacheInv'
  <2>1. /\ UNCHANGED <<origin, dropping, floor, raced, reader>>
        /\ resource' \in {resource, 0} /\ batched' \in {batched, 0}
        /\ verified' \in {verified, 0}
    BY <1>6 DEF Expire
  <2>2. CacheTyped'
    BY <2>1 DEF CacheInv, CacheTyped
  <2>3. CacheFresh'
    BY <2>1, <1>a DEF CacheInv, CacheFresh, Bound
  <2>4. VerifiedGiven'
    BY <2>1 DEF CacheInv, VerifiedGiven
  <2>. QED  BY <2>2, <2>3, <2>4 DEF CacheInv
<1>7. CASE Commit
  <2>1. CacheTyped'
    BY <1>7, <1>a, CacheAssumption DEF Commit, CacheInv, CacheTyped, Versions
  <2>2. Bound' = Bound
    BY <1>7, <1>a DEF Commit, Bound
  <2>3. CacheFresh' /\ VerifiedGiven'
    BY <1>7, <2>2 DEF Commit, CacheInv, CacheFresh, VerifiedGiven
  <2>. QED  BY <2>1, <2>3 DEF CacheInv
<1>8. CASE DropResource
  <2>1. CacheTyped'
    BY <1>8 DEF DropResource, CacheInv, CacheTyped
  <2>2. Bound' = origin
    BY <1>8 DEF DropResource, Bound
  <2>3. ASSUME NEW r \in Readers, ~raced', reader[r].stage = "answered",
               reader[r].doc \in Versions
        PROVE  reader[r].doc >= origin
    <3>1. ~(raced \/ \E q \in Readers : /\ reader[q].stage = "answered"
                                         /\ reader[q].doc \in 1 .. origin - 1)
      BY <1>8, <2>3 DEF DropResource
    <3>2. reader[r].doc \notin 1 .. origin - 1
      BY <3>1, <2>3
    <3>. QED  BY <3>2, <1>a, <2>3 DEF Versions
  <2>4. CacheFresh'
    BY <1>8, <1>a, <2>2, <2>3 DEF DropResource, CacheInv, CacheFresh
  <2>5. VerifiedGiven'
    BY <1>8 DEF DropResource, CacheInv, VerifiedGiven
  <2>. QED  BY <2>1, <2>4, <2>5 DEF CacheInv
<1>9. CASE DropVerified
  <2>1. CacheTyped'
    BY <1>9, <1>a DEF DropVerified, CacheInv, CacheTyped
  <2>2. Bound' = Bound
    BY <1>9 DEF DropVerified, Bound
  <2>3. floor' \in Nat /\ floor =< floor'
    BY <1>9, <1>a DEF DropVerified, CacheInv, CacheTyped
  <2>4. \A r \in Readers : reader[r].since =< floor'
    BY <2>3, <1>a, <1>b DEF CacheInv, CacheFresh
  <2>5. CacheFresh'
    BY <1>9, <2>2, <2>4 DEF DropVerified, CacheInv, CacheFresh
  <2>6. VerifiedGiven'
    BY <1>9 DEF DropVerified, CacheInv, VerifiedGiven
  <2>. QED  BY <2>1, <2>5, <2>6 DEF CacheInv
<1>10. CASE UNCHANGED cacheVars
  BY <1>10 DEF cacheVars, CacheInv, CacheTyped, CacheFresh, Bound, VerifiedGiven
<1>. QED
  BY <1>1, <1>2, <1>3, <1>4, <1>5, <1>6, <1>7, <1>8, <1>9, <1>10 DEF CacheNext

\* So in every reachable state.
LEMMA CacheInvariant == CacheSpec => []CacheInv
  BY CacheInvInit, CacheInvNext, PTL DEF CacheSpec

\* GetRecord: for any readers, versions and forged answers, a caller that asked for
\* a verified document is given one that verifies, and the auth middleware one
\* signed with the master key.
THEOREM VerifiedForWhoAsks == CacheSpec => []VerifiedGiven
<1>1. CacheInv => VerifiedGiven
  BY DEF CacheInv
<1>. QED  BY <1>1, CacheInvariant, PTL

\* InvalidateResource: for any readers and versions, a call begun after an
\* invalidation is given an older version only if an answer was under way when the
\* cache was emptied.
THEOREM InvalidationHolds == CacheSpec => []StaleOnlyByRace
<1>1. CacheInv => StaleOnlyByRace
  <2>. SUFFICES ASSUME CacheInv, NEW r \in Readers, Stale(r), reader[r].mode # "batch",
                       ~raced
                PROVE  FALSE
    BY DEF StaleOnlyByRace
  <2>1. reader[r].doc >= reader[r].since /\ reader[r].doc < reader[r].since
    BY DEF CacheInv, CacheFresh, Current, Stale
  <2>2. reader[r].doc \in Nat /\ reader[r].since \in Nat
    BY CacheAssumption DEF Stale, Versions, CacheInv, CacheTyped, Calls
  <2>. QED  BY <2>1, <2>2
<1>. QED  BY <1>1, CacheInvariant, PTL

-----------------------------------------------------------------------------
\* A push under way, from the claim to its end.
Pushing ==
    [stage : {"count", "send", "failed", "stuck"}, event : Events, claimed : BOOLEAN,
     badge : Nat]

\* The types of what the pushes and the badge are made of.
PushTyped ==
    /\ doing \in [Replicas -> Pushing \union {Nothing}]
    /\ inbox \in [Replicas -> SUBSET Events]
    /\ pushes \in [Events -> Nat]
    /\ counter \in Nat /\ badge \in Nat /\ resetting \in Nat /\ crossed \in BOOLEAN

\* Whether replica p is at a push of event e.
Doing(p, e) == doing[p] # Nothing /\ doing[p].event = e

\* BadgeClears made inductive: what is shown, or about to be shown, is not more
\* than the counter, or a reset push is still to come.
BadgeInv ==
    crossed \/ /\ badge =< counter \/ resetting > 0
               /\ \A p \in Replicas :
                    doing[p].stage = "send" => doing[p].badge =< counter

\* An event whose claim was neither given back nor lost: at most one replica is
\* at it and holds its claim, and it is pushed at the end of that only.
ClaimedOnce(e) ==
    /\ pushes[e] =< 1
    /\ pushes[e] > 0 \/ (\E p \in Replicas : Doing(p, e)) => Key(e) \in claims
    /\ \A p, q \in Replicas : Doing(p, e) /\ Doing(q, e) => p = q
    /\ \A p \in Replicas :
            Doing(p, e) /\ doing[p].stage \in {"count", "send"} => pushes[e] = 0

\* notificationDedupKey and runWorker: a subscriber's device gets no event
\* twice, unless a claim failed, expired or was given back.
PushedOnce == \A e \in Events : pushes[e] > 1 => e \in pardon

\* PushedOnce made inductive.
ClaimInv == \A e \in Events \ pardon : ClaimedOnce(e)

\* Nothing is no push.
LEMMA NothingFacts ==
    /\ Nothing \notin Pushing /\ Nothing.stage = "none"
    /\ \A d \in Pushing :
            d.stage \in {"count", "send", "failed", "stuck"} /\ d # Nothing
BY DEF Nothing, Pushing

\* A replica that is at some stage is at a push.
LEMMA AtPush ==
    ASSUME PushTyped, NEW p \in Replicas, doing[p].stage # "none"
    PROVE  doing[p] \in Pushing
BY NothingFacts DEF PushTyped

\* Initially nothing is under way.
LEMMA PushInitInv == PushInit => PushTyped /\ BadgeInv /\ ClaimInv
<1>. SUFFICES ASSUME PushInit PROVE PushTyped /\ BadgeInv /\ ClaimInv
  OBVIOUS
<1>1. PushTyped
  BY DEF PushInit, PushTyped
<1>2. BadgeInv
  BY NothingFacts DEF PushInit, BadgeInv
<1>3. ClaimInv
  BY DEF PushInit, ClaimInv, ClaimedOnce, Doing
<1>. QED  BY <1>1, <1>2, <1>3

\* A step that touches neither pushes nor counter.
LEMMA ElsewhereInv ==
    ASSUME PushTyped, BadgeInv, ClaimInv, inbox' \in [Replicas -> SUBSET Events],
           UNCHANGED <<doing, claims, counter, badge, resetting, pushes, pardon, crossed>>
    PROVE  PushTyped' /\ BadgeInv' /\ ClaimInv'
<1>1. PushTyped' /\ BadgeInv'
  BY DEF PushTyped, BadgeInv
<1>2. ClaimInv'
  BY DEF ClaimInv, ClaimedOnce, Doing, Key
<1>. QED  BY <1>1, <1>2

\* What becomes of the others when replica p's push becomes d.
LEMMA DoingStep ==
    ASSUME PushTyped, NEW p \in Replicas, NEW d \in Pushing \union {Nothing},
           doing' = [doing EXCEPT ![p] = d]
    PROVE  /\ doing' \in [Replicas -> Pushing \union {Nothing}]
           /\ doing'[p] = d
           /\ \A q \in Replicas : q # p => doing'[q] = doing[q]
BY DEF PushTyped

\* A claim is taken by one replica only, or the event is pardoned.
LEMMA ClaimStepInv ==
    ASSUME PushTyped, BadgeInv, ClaimInv, NEW p \in Replicas, NEW e \in Events,
           NEW err \in BOOLEAN, Claim(p, e, err)
    PROVE  PushTyped' /\ BadgeInv' /\ ClaimInv'
<1>. DEFINE d == [stage |-> "count", event |-> e, claimed |-> ~err, badge |-> 0]
<1>1. /\ doing[p] = Nothing /\ e \in inbox[p]
      /\ inbox' = [inbox EXCEPT ![p] = @ \ {e}]
      /\ doing' = IF err \/ Free(e) THEN [doing EXCEPT ![p] = d] ELSE doing
      /\ claims' = IF err THEN claims ELSE claims \union {Key(e)}
      /\ pardon' = IF err THEN pardon \union {e} ELSE pardon
      /\ UNCHANGED <<counter, badge, resetting, pushes, crossed>>
  BY DEF Claim
<1>2. d \in Pushing /\ d.stage = "count" /\ d.event = e /\ d # Nothing
  BY DEF Pushing, Nothing
<1>3. inbox' \in [Replicas -> SUBSET Events]
  BY <1>1 DEF PushTyped
<1>. HIDE DEF d
<1>4. CASE err \/ Free(e)
  <2>1. /\ doing' \in [Replicas -> Pushing \union {Nothing}] /\ doing'[p] = d
        /\ \A q \in Replicas : q # p => doing'[q] = doing[q]
    BY <1>1, <1>2, <1>4, DoingStep
  <2>2. PushTyped' /\ BadgeInv'
    BY <1>1, <1>2, <1>3, <2>1 DEF PushTyped, BadgeInv
  <2>3. ASSUME NEW f \in Events \ pardon' PROVE ClaimedOnce(f)'
    <3>1. f \in Events \ pardon /\ ClaimedOnce(f)
      BY <1>1, <2>3 DEF ClaimInv
    <3>2. CASE f # e
      <4>1. \A q \in Replicas : Doing(q, f)' => Doing(q, f) /\ doing'[q] = doing[q]
        BY <1>2, <2>1, <3>2 DEF Doing
      <4>. QED  BY <1>1, <3>1, <4>1 DEF ClaimedOnce, Key
    <3>3. CASE f = e
      <4>1. ~err /\ Key(e) \notin claims
        BY <1>1, <1>4, <2>3, <3>3 DEF Free
      <4>2. pushes[e] = 0 /\ \A q \in Replicas : ~Doing(q, e)
        BY <3>1, <3>3, <4>1 DEF ClaimedOnce, PushTyped
      <4>3. \A q \in Replicas : Doing(q, e)' => q = p
        BY <2>1, <4>2 DEF Doing
      <4>. QED  BY <1>1, <3>3, <4>1, <4>2, <4>3 DEF ClaimedOnce, Key
    <3>. QED  BY <3>2, <3>3
  <2>. QED  BY <2>2, <2>3 DEF ClaimInv
<1>5. CASE ~(err \/ Free(e))
  <2>1. UNCHANGED <<doing, claims, counter, badge, resetting, pushes, pardon, crossed>>
    BY <1>1, <1>5 DEF Free
  <2>. QED  BY <1>3, <2>1, ElsewhereInv
<1>. QED  BY <1>4, <1>5

\* IncrementCounter: the push shows the counter of that moment.
LEMMA CountStepInv ==
    ASSUME PushTyped, BadgeInv, ClaimInv, NEW p \in Replicas, NEW err \in BOOLEAN,
           Count(p, err)
    PROVE  PushTyped' /\ BadgeInv' /\ ClaimInv'
<1>1. /\ doing[p].stage = "count"
      /\ counter' = IF err THEN counter ELSE counter + 1
      /\ UNCHANGED <<inbox, claims, badge, resetting, pushes, pardon, crossed>>
  BY DEF Count
<1>2. doing[p] \in Pushing
  BY <1>1, AtPush
<1>. DEFINE n == IF err THEN 0 ELSE counter + 1
            d == [doing[p] EXCEPT !.stage = "send", !.badge = n]
<1>3. n \in Nat /\ n =< counter' /\ counter' \in Nat /\ counter =< counter'
  BY <1>1 DEF PushTyped
<1>4. d \in Pushing /\ d.stage = "send" /\ d.badge = n /\ d.event = doing[p].event
  BY <1>2, <1>3 DEF Pushing
<1>5. doing' = [doing EXCEPT ![p] = d]
  BY DEF Count
<1>. HIDE DEF n, d
<1>6. /\ doing' \in [Replicas -> Pushing \union {Nothing}] /\ doing'[p] = d
      /\ \A q \in Replicas : q # p => doing'[q] = doing[q]
  BY <1>4, <1>5, DoingStep
<1>7. PushTyped'
  BY <1>1, <1>3, <1>6 DEF PushTyped
<1>8. BadgeInv'
  <2>1. \A q \in Replicas : doing[q].stage = "send" => doing[q].badge \in Nat
    BY AtPush DEF Pushing
  <2>. QED  BY <1>1, <1>3, <1>4, <1>6, <2>1 DEF BadgeInv, PushTyped
<1>9. ASSUME NEW f \in Events \ pardon PROVE ClaimedOnce(f)'
  <2>1. ClaimedOnce(f)
    BY <1>9 DEF ClaimInv
  <2>2. \A q \in Replicas : Doing(q, f)' => Doing(q, f)
    BY <1>2, <1>4, <1>6, NothingFacts DEF Doing
  <2>3. \A q \in Replicas : Doing(q, f)' /\ doing'[q].stage \in {"count", "send"}
                                => doing[q].stage \in {"count", "send"}
    BY <1>1, <1>6
  <2>. QED  BY <1>1, <2>1, <2>2, <2>3 DEF ClaimedOnce, Key
<1>. QED  BY <1>1, <1>7, <1>8, <1>9 DEF ClaimInv

\* The end of a push: it is done, failed, hanging, or given up.
LEMMA EndsStepInv ==
    ASSUME PushTyped, ClaimInv, NEW p \in Replicas, doing[p] \in Pushing,
           NEW d \in Pushing \union {Nothing}, doing' = [doing EXCEPT ![p] = d],
           d = Nothing \/ (d.event = doing[p].event /\ d.stage \in {"failed", "stuck"}),
           \/ UNCHANGED pushes
           \/ /\ doing[p].stage = "send"
              /\ pushes' = [pushes EXCEPT ![doing[p].event] = @ + 1],
           claims \subseteq claims', UNCHANGED pardon
    PROVE  /\ doing' \in [Replicas -> Pushing \union {Nothing}]
           /\ pushes' \in [Events -> Nat] /\ ClaimInv'
<1>1. /\ doing' \in [Replicas -> Pushing \union {Nothing}] /\ doing'[p] = d
      /\ \A q \in Replicas : q # p => doing'[q] = doing[q]
  BY DoingStep
<1>2. doing[p].event \in Events /\ doing[p] # Nothing
  BY NothingFacts DEF Pushing
<1>3. pushes' \in [Events -> Nat]
  BY <1>2 DEF PushTyped
<1>4. ASSUME NEW f \in Events \ pardon PROVE ClaimedOnce(f)'
  <2>1. ClaimedOnce(f) /\ pushes[f] \in Nat
    BY <1>4 DEF ClaimInv, PushTyped
  <2>2. \A q \in Replicas : Doing(q, f)' => Doing(q, f)
    BY <1>1, <1>2 DEF Doing
  <2>3. \A q \in Replicas :
            Doing(q, f)' /\ doing'[q].stage \in {"count", "send"} => q # p
    BY <1>1 DEF Doing
  <2>4. CASE pushes'[f] = pushes[f]
    <3>1. Key(f) \in claims => Key(f)' \in claims'
      BY DEF Key
    <3>. QED  BY <1>1, <2>1, <2>2, <2>3, <2>4, <3>1 DEF ClaimedOnce
  <2>5. CASE pushes'[f] # pushes[f]
    <3>1. Doing(p, f) /\ doing[p].stage = "send" /\ pushes'[f] = pushes[f] + 1
      BY <1>2, <2>5 DEF Doing, PushTyped
    <3>2. pushes[f] = 0 /\ Key(f) \in claims
      BY <2>1, <3>1 DEF ClaimedOnce
    <3>3. \A q \in Replicas : Doing(q, f)' => q = p
      BY <2>1, <2>2, <3>1 DEF ClaimedOnce
    <3>4. Key(f)' \in claims' /\ pushes'[f] = 1
      BY <3>1, <3>2 DEF Key
    <3>. QED  BY <2>3, <3>3, <3>4 DEF ClaimedOnce
  <2>. QED  BY <2>4, <2>5
<1>. QED  BY <1>1, <1>3, <1>4 DEF ClaimInv

\* A badge that may land is bounded, and a push that ends leaves the others be.
LEMMA PushStepInv ==
    ASSUME PushTyped, BadgeInv, ClaimInv, NEW p \in Replicas,
           \/ (\E learned \in BOOLEAN : Push(p, learned)) \/ PushFails(p)
           \/ (\E landed \in BOOLEAN : PushHangs(p, landed))
    PROVE  PushTyped' /\ BadgeInv' /\ ClaimInv'
<1>1. /\ doing[p].stage = "send"
      /\ UNCHANGED <<inbox, claims, counter, resetting, pardon, crossed>>
  BY DEF Push, PushFails, PushHangs
<1>2. doing[p] \in Pushing
  BY <1>1, AtPush
<1>3. PICK d \in Pushing \union {Nothing} :
          /\ doing' = [doing EXCEPT ![p] = d]
          /\ d = Nothing \/ (d.event = doing[p].event /\ d.stage \in {"failed", "stuck"})
  <2>1. \A st \in {"failed", "stuck"} :
            /\ [doing[p] EXCEPT !.stage = st] \in Pushing
            /\ [doing[p] EXCEPT !.stage = st].event = doing[p].event
            /\ [doing[p] EXCEPT !.stage = st].stage = st
    BY <1>2 DEF Pushing
  <2>2. \/ doing' = [doing EXCEPT ![p] = Nothing]
        \/ doing' = [doing EXCEPT ![p] = [doing[p] EXCEPT !.stage = "failed"]]
        \/ doing' = [doing EXCEPT ![p] = [doing[p] EXCEPT !.stage = "stuck"]]
    BY DEF Push, PushFails, PushHangs
  <2>. QED  BY <2>1, <2>2
<1>4. /\ \/ UNCHANGED pushes
         \/ pushes' = [pushes EXCEPT ![doing[p].event] = @ + 1]
      /\ badge' = badge \/ badge' = doing[p].badge
  BY DEF Push, PushFails, PushHangs
<1>5. /\ doing' \in [Replicas -> Pushing \union {Nothing}]
      /\ pushes' \in [Events -> Nat] /\ ClaimInv'
  BY <1>1, <1>2, <1>3, <1>4, EndsStepInv
<1>6. doing[p].badge \in Nat
  BY <1>2 DEF Pushing
<1>7. PushTyped'
  BY <1>1, <1>4, <1>5, <1>6 DEF PushTyped
<1>8. \A q \in Replicas : doing'[q].stage = "send" => doing'[q] = doing[q]
  <2>1. /\ doing'[p] = d /\ d.stage # "send"
        /\ \A q \in Replicas : q # p => doing'[q] = doing[q]
    BY <1>3, DoingStep, NothingFacts
  <2>. QED  BY <2>1
<1>9. BadgeInv'
  BY <1>1, <1>4, <1>8 DEF BadgeInv
<1>. QED  BY <1>5, <1>7, <1>9

\* A push is left behind, with its claim.
LEMMA LeftInv ==
    ASSUME PushTyped, BadgeInv, ClaimInv, NEW p \in Replicas,
           inbox' \in [Replicas -> SUBSET Events],
           doing' = [doing EXCEPT ![p] = Nothing],
           UNCHANGED <<claims, counter, badge, resetting, pushes, pardon, crossed>>
    PROVE  PushTyped' /\ BadgeInv' /\ ClaimInv'
<1>1. /\ doing' \in [Replicas -> Pushing \union {Nothing}] /\ doing'[p] = Nothing
      /\ \A q \in Replicas : q # p => doing'[q] = doing[q]
  BY DoingStep
<1>2. PushTyped' /\ BadgeInv'
  BY <1>1, NothingFacts DEF PushTyped, BadgeInv
<1>3. \A q \in Replicas, f \in Events :
          Doing(q, f)' => Doing(q, f) /\ doing'[q] = doing[q]
  BY <1>1 DEF Doing
<1>4. ClaimInv'
  BY <1>3 DEF ClaimInv, ClaimedOnce, Key
<1>. QED  BY <1>2, <1>4

\* A failed send whose claim is given back pardons its event.
LEMMA GivenBackInv ==
    ASSUME PushTyped, BadgeInv, ClaimInv, NEW p \in Replicas, Release(p, TRUE)
    PROVE  PushTyped' /\ BadgeInv' /\ ClaimInv'
<1>1. /\ doing[p].stage = "failed" /\ doing' = [doing EXCEPT ![p] = Nothing]
      /\ claims' = claims \/ claims' = claims \ {Key(doing[p].event)}
      /\ pardon' = pardon \union {doing[p].event}
      /\ UNCHANGED <<inbox, counter, badge, resetting, pushes, crossed>>
  BY DEF Release
<1>2. /\ doing' \in [Replicas -> Pushing \union {Nothing}] /\ doing'[p] = Nothing
      /\ \A q \in Replicas : q # p => doing'[q] = doing[q]
  BY <1>1, DoingStep
<1>3. PushTyped' /\ BadgeInv'
  BY <1>1, <1>2, NothingFacts DEF PushTyped, BadgeInv
<1>4. ASSUME NEW f \in Events \ pardon' PROVE ClaimedOnce(f)'
  <2>1. ClaimedOnce(f) /\ f # doing[p].event
    BY <1>1, <1>4 DEF ClaimInv
  <2>2. \A q \in Replicas : Doing(q, f)' => Doing(q, f) /\ doing'[q] = doing[q]
    BY <1>2 DEF Doing
  <2>3. Key(f) \in claims => Key(f)' \in claims'
    BY <1>1, <2>1 DEF Key
  <2>. QED  BY <1>1, <2>1, <2>2, <2>3 DEF ClaimedOnce
<1>. QED  BY <1>3, <1>4 DEF ClaimInv

\* The end of a failed send.
LEMMA ReleaseInv ==
    ASSUME PushTyped, BadgeInv, ClaimInv, NEW p \in Replicas, NEW given \in BOOLEAN,
           Release(p, given)
    PROVE  PushTyped' /\ BadgeInv' /\ ClaimInv'
<1>1. CASE given
  BY <1>1, GivenBackInv
<1>2. CASE ~given
  <2>1. /\ doing' = [doing EXCEPT ![p] = Nothing] /\ UNCHANGED inbox
        /\ UNCHANGED <<claims, counter, badge, resetting, pushes, pardon, crossed>>
    BY <1>2 DEF Release
  <2>. QED  BY <2>1, LeftInv DEF PushTyped
<1>. QED  BY <1>1, <1>2

\* What happens to the row, the counter, a claim or a whole replica.
LEMMA OutsideInv ==
    ASSUME PushTyped, BadgeInv, ClaimInv,
           \/ Unsubscribe \/ ResetCounter \/ (\E lost \in BOOLEAN : ResetPush(lost))
           \/ (\E e \in Events : ClaimExpires(e))
           \/ (\E p \in Replicas : ReplicaStops(p))
    PROVE  PushTyped' /\ BadgeInv' /\ ClaimInv'
<1>1. CASE Unsubscribe \/ ResetCounter \/ \E lost \in BOOLEAN : ResetPush(lost)
  <2>1. UNCHANGED <<inbox, doing, claims, pushes, pardon>>
    BY <1>1 DEF Unsubscribe, ResetCounter, ResetPush
  <2>2. ClaimInv'
    BY <2>1 DEF ClaimInv, ClaimedOnce, Doing, Key
  <2>3. CASE Unsubscribe
    BY <2>1, <2>2, <2>3 DEF Unsubscribe, PushTyped, BadgeInv
  <2>4. CASE ResetCounter
    <3>1. /\ counter' = 0 /\ resetting' = resetting + 1 /\ badge' = badge
          /\ crossed' = (crossed \/ \E p \in Replicas : doing[p].stage = "send")
      BY <2>4 DEF ResetCounter
    <3>2. /\ crossed' \in BOOLEAN
          /\ crossed' \/ (~crossed /\ \A p \in Replicas : doing[p].stage # "send")
      BY <3>1, Zenon DEF PushTyped
    <3>3. PushTyped'
      BY <2>1, <3>1, <3>2 DEF PushTyped
    <3>4. resetting' > 0
      BY <3>1 DEF PushTyped
    <3>5. BadgeInv'
      BY <2>1, <3>2, <3>4, Zenon DEF BadgeInv
    <3>. QED  BY <2>2, <3>3, <3>5
  <2>5. ASSUME NEW lost \in BOOLEAN, ResetPush(lost)
        PROVE  PushTyped' /\ BadgeInv'
    <3>1. /\ resetting > 0 /\ resetting' = resetting - 1 /\ counter' = counter
          /\ badge' = IF lost THEN badge ELSE 0
          /\ crossed' = (crossed \/ lost)
      BY <2>5 DEF ResetPush
    <3>. QED  BY <2>1, <3>1 DEF PushTyped, BadgeInv
  <2>. QED  BY <1>1, <2>2, <2>3, <2>4, <2>5
<1>2. ASSUME NEW e \in Events, ClaimExpires(e) PROVE PushTyped' /\ BadgeInv' /\ ClaimInv'
  <2>1. /\ claims' = claims \ {Key(e)} /\ pardon' = pardon \union {e}
        /\ UNCHANGED <<inbox, doing, counter, badge, resetting, pushes, crossed>>
    BY <1>2 DEF ClaimExpires
  <2>2. PushTyped' /\ BadgeInv'
    BY <2>1 DEF PushTyped, BadgeInv
  <2>3. ClaimInv'
    BY <2>1 DEF ClaimInv, ClaimedOnce, Doing, Key
  <2>. QED  BY <2>2, <2>3
<1>3. ASSUME NEW p \in Replicas, ReplicaStops(p) PROVE PushTyped' /\ BadgeInv' /\ ClaimInv'
  <2>1. /\ inbox' = [inbox EXCEPT ![p] = {}] /\ doing' = [doing EXCEPT ![p] = Nothing]
        /\ UNCHANGED <<claims, counter, badge, resetting, pushes, pardon, crossed>>
    BY <1>3 DEF ReplicaStops
  <2>. QED  BY <2>1, LeftInv DEF PushTyped
<1>. QED  BY <1>1, <1>2, <1>3

\* Every step keeps both invariants.
LEMMA PushNextInv ==
    PushTyped /\ BadgeInv /\ ClaimInv /\ [PushNext]_pushVars
        => PushTyped' /\ BadgeInv' /\ ClaimInv'
<1>. SUFFICES ASSUME PushTyped, BadgeInv, ClaimInv, [PushNext]_pushVars
              PROVE  PushTyped' /\ BadgeInv' /\ ClaimInv'
  OBVIOUS
<1>1. CASE SubscribePush \/ UNCHANGED pushVars
  BY <1>1, ElsewhereInv DEF SubscribePush, pushVars, PushTyped
<1>2. ASSUME NEW p \in Replicas, Sync(p) PROVE PushTyped' /\ BadgeInv' /\ ClaimInv'
  <2>1. inbox' \in [Replicas -> SUBSET Events]
    BY <1>2 DEF Sync, PushTyped
  <2>2. \/ UNCHANGED doing
        \/ doing' = [doing EXCEPT ![p] = Nothing]
    BY <1>2 DEF Sync
  <2>3. UNCHANGED <<claims, counter, badge, resetting, pushes, pardon, crossed>>
    BY <1>2 DEF Sync
  <2>. QED  BY <2>1, <2>2, <2>3, ElsewhereInv, LeftInv
<1>3. ASSUME NEW e \in Events, NEW to \in SUBSET Replicas, Publish(e, to)
      PROVE  PushTyped' /\ BadgeInv' /\ ClaimInv'
  <2>1. inbox' \in [Replicas -> SUBSET Events]
    BY <1>3 DEF Publish, PushTyped
  <2>. QED  BY <1>3, <2>1, ElsewhereInv DEF Publish
<1>4. ASSUME NEW p \in Replicas, Work(p) PROVE PushTyped' /\ BadgeInv' /\ ClaimInv'
  BY <1>4, ClaimStepInv, CountStepInv, PushStepInv, ReleaseInv DEF Work
<1>5. ASSUME NEW p \in Replicas, NEW landed \in BOOLEAN, PushHangs(p, landed)
      PROVE  PushTyped' /\ BadgeInv' /\ ClaimInv'
  BY <1>5, PushStepInv
<1>. QED  BY <1>1, <1>2, <1>3, <1>4, <1>5, OutsideInv DEF PushNext

\* CounterStore and ResetCounter: for any replicas, events, resets and faults,
\* a badge does not outlive the unread counter.
THEOREM BadgeFollowsCounter == PushSpec => []BadgeClears
<1>1. PushTyped /\ BadgeInv /\ ClaimInv => BadgeClears
  BY DEF PushTyped, BadgeInv, BadgeClears, Stuck
<1>. QED  BY <1>1, PushInitInv, PushNextInv, PTL DEF PushSpec

\* notificationDedupKey, runWorker and releaseClaim: for any replicas that
\* believe they lead, a device gets an event once, unless a claim failed,
\* expired or was given back.
THEOREM PushesAreUnique == PushSpec => []PushedOnce
<1>1. PushTyped /\ BadgeInv /\ ClaimInv => PushedOnce
  BY DEF PushTyped, ClaimInv, ClaimedOnce, PushedOnce
<1>. QED  BY <1>1, PushInitInv, PushNextInv, PTL DEF PushSpec

------------------------------------------------------------------------------
\* Whoever follows a document in a chain is of the same author.
LEMMA FollowsAuthor ==
  ASSUME NEW d, NEW e, Follows(d, e) PROVE SD[e].author = SD[d].author
  BY DEF Follows, Bears, IsDerivation

\* Nonempty chains of documents that all are of the first one's author.
OneAuthor(chains) ==
    \A chain \in chains :
        /\ chain \in Seq(Signed) /\ Len(chain) > 0
        /\ SD[Leaf(chain)].author = SD[chain[1]].author

\* A step of verify stays with the author.
LEMMA ExtendedAuthor ==
  ASSUME NEW chains, OneAuthor(chains) PROVE OneAuthor(Extended(chains))
  <1> SUFFICES ASSUME NEW longer \in Extended(chains)
               PROVE  /\ longer \in Seq(Signed) /\ Len(longer) > 0
                      /\ SD[Leaf(longer)].author = SD[longer[1]].author
    BY DEF OneAuthor
  <1>0. PICK chain \in chains, e \in Signed :
             Follows(Leaf(chain), e) /\ longer = Append(chain, e)
    BY DEF Extended
  <1>1. /\ chain \in Seq(Signed) /\ Len(chain) > 0
        /\ SD[Leaf(chain)].author = SD[chain[1]].author
    BY DEF OneAuthor
  <1>2. SD[e].author = SD[Leaf(chain)].author
    BY <1>0, FollowsAuthor
  <1>3. /\ longer \in Seq(Signed) /\ Len(longer) = Len(chain) + 1
        /\ longer[1] = chain[1] /\ longer[Len(chain) + 1] = e
    BY <1>0, <1>1
  <1> QED
    BY <1>1, <1>2, <1>3 DEF Leaf

\* Every chain that verify may go through is of one author.
LEMMA ChainAuthor ==
  ASSUME NEW chain \in Chains
  PROVE  /\ chain[1] \in Signed /\ Leaf(chain) \in Signed
         /\ SD[Leaf(chain)].author = SD[chain[1]].author
  <1>1. OneAuthor(Submitted)
    BY DEF OneAuthor, Submitted, Leaf
  <1>2. OneAuthor(Extended(Submitted))
    BY <1>1, ExtendedAuthor
  <1>3. OneAuthor(Extended(Extended(Submitted)))
    BY <1>2, ExtendedAuthor
  <1>4. OneAuthor(Extended(Extended(Extended(Submitted))))
    BY <1>3, ExtendedAuthor
  <1>5. /\ chain \in Seq(Signed) /\ Len(chain) > 0
        /\ SD[Leaf(chain)].author = SD[chain[1]].author
    BY <1>1, <1>2, <1>3, <1>4 DEF Chains, OneAuthor
  <1> QED
    BY <1>5 DEF Leaf

\* A key that a master-signed enactment of the author names is the author's.
LEMMA EnactedEmpowered ==
  ASSUME NEW e, MasterSigned(e), SD[e].schema = "subkey"
  PROVE  SD[e].value \in Empowered(SD[e].author)
  BY DEF MasterSigned, Empowered

\* What ends a chain bears a signature by a key its author stands behind.
LEMMA SignatureEmpowered ==
  ASSUME NEW d, Signature(d)
  PROVE  /\ Type(d) \in {"ecrecover", "subkey"}
         /\ SD[d].proof.signer \in Empowered(SD[d].author)
  <1>1. CASE MasterSigned(d)
    BY <1>1 DEF MasterSigned, Direct, Empowered
  <1>2. CASE ~MasterSigned(d)
    <2> DEFINE k == resolved[SD[d].proof.link]
               e == EnactmentOf(k)
    <2>1. /\ Type(d) = "subkey" /\ Enacted(SD[d].author, k)
          /\ MasterSigned(e) /\ InPeriod(d, k)
      BY <1>2 DEF Signature
    <2>2. SD[e].schema = "subkey" /\ SD[e].author = SD[d].author
      BY <2>1 DEF Enacted
    <2>3. SD[d].proof.signer = SD[e].value
      BY <2>1 DEF InPeriod
    <2> QED
      BY <2>1, <2>2, <2>3, EnactedEmpowered
  <1> QED
    BY <1>1, <1>2

\* Verify and IdentifyIdentity, for any documents, honest and forged, and anything
\* a resolver may answer at any time: whoever a document or a session is
\* attributed to has signed for it.
THEOREM AlwaysAuthorConsents == ChainSpec => []AuthorConsents
  <1>1. ChainInit => AuthorConsents
    BY DEF ChainInit, AuthorConsents
  <1>2. AuthorConsents /\ [ChainNext]_chainVars => AuthorConsents'
    <2> SUFFICES ASSUME AuthorConsents, [ChainNext]_chainVars
                 PROVE  AuthorConsents'
      OBVIOUS
    <2>1. ASSUME UNCHANGED accepted PROVE AuthorConsents'
      BY <2>1 DEF AuthorConsents, Empowered, Leaf, Type, Direct
    <2>2. ASSUME NEW chain \in Chains, Verify(chain) PROVE AuthorConsents'
      <3>1. /\ accepted'.kind = "document" /\ accepted'.chain = chain
            /\ Signature(Leaf(chain))
        BY <2>2 DEF Verify
      <3>2. /\ Type(Leaf(chain)) \in {"ecrecover", "subkey"}
            /\ SD[Leaf(chain)].proof.signer \in Empowered(SD[chain[1]].author)
        BY <3>1, SignatureEmpowered, ChainAuthor
      <3> QED
        BY <3>1, <3>2 DEF AuthorConsents
    <2>3. ASSUME NEW a \in Authors, NEW s \in Signers, LoginRaw(a, s)
          PROVE  AuthorConsents'
      BY <2>3 DEF LoginRaw, AuthorConsents, Empowered
    <2>4. ASSUME NEW a \in Authors, NEW s \in Signers, NEW u \in SubkeyURIs,
                 LoginSubkey(a, u, s)
          PROVE  AuthorConsents'
      <3>1. s \in Empowered(a)
        BY <2>4, EnactedEmpowered DEF LoginSubkey, KeyOf
      <3> QED
        BY <2>4, <3>1 DEF LoginSubkey, AuthorConsents
    <2> QED
      BY <2>1, <2>2, <2>3, <2>4 DEF ChainNext, chainVars, Resolve
  <1> QED
    BY <1>1, <1>2, PTL DEF ChainSpec

------------------------------------------------------------------------------
\* A nonempty set of naturals has a least element.
LEMMA LeastNat ==
  ASSUME NEW T \in SUBSET Nat, T # {}
  PROVE  \E x \in T : \A y \in T : x <= y
  <1>1. PICK x \in T : \A y \in T : ~(<<y, x>> \in OpToRel(<, Nat))
    BY NatLessThanWellFounded, WFMin
  <1>2. \A y \in T : ~(y < x)
    BY <1>1 DEF OpToRel
  <1> QED
    BY <1>2

\* Induction, for a set of naturals.
LEMMA InductiveSet ==
  ASSUME NEW T \in SUBSET Nat, 0 \in T, \A n \in T : n + 1 \in T
  PROVE  T = Nat
  <1> SUFFICES ASSUME Nat \ T # {} PROVE FALSE
    OBVIOUS
  <1>1. PICK x \in Nat \ T : \A y \in Nat \ T : x <= y
    BY LeastNat
  <1>2. x # 0 /\ x - 1 \in Nat
    BY <1>1
  <1>3. x - 1 \in T
    BY <1>1, <1>2
  <1> QED
    BY <1>1, <1>2, <1>3

\* What one pass of a loop over 1 .. n makes of a value in A, and the values
\* that n passes go through.
Passes(A, n) == [A \X (1 .. n) -> A]
Loops(A, a, n, F) ==
    {f \in [0 .. n -> A] :
        f[0] = a /\ \A i \in 1 .. n : f[i] = F[<<f[i - 1], i>>]}

\* Every loop over 1 .. n runs to its end.
LEMMA LoopExists ==
  ASSUME NEW A, NEW a \in A, NEW n \in Nat, NEW F \in Passes(A, n)
  PROVE  Loops(A, a, n, F) # {}
  <1> USE DEF Passes
  <1> DEFINE Reached(m) == \E f \in [0 .. m -> A] :
                              /\ f[0] = a
                              /\ \A i \in 1 .. m : f[i] = F[<<f[i - 1], i>>]
             T == {m \in Nat : m <= n => Reached(m)}
  <1>1. 0 \in T
    <2> DEFINE f == [i \in 0 .. 0 |-> a]
    <2>1. f \in [0 .. 0 -> A] /\ f[0] = a /\ \A i \in 1 .. 0 : FALSE
      OBVIOUS
    <2>2. Reached(0)
      BY <2>1
    <2> QED
      BY <2>2
  <1>2. ASSUME NEW m \in T PROVE m + 1 \in T
    <2> SUFFICES ASSUME m + 1 <= n PROVE Reached(m + 1)
      OBVIOUS
    <2>1. m \in Nat /\ m + 1 \in 1 .. n
      OBVIOUS
    <2>2. PICK f \in [0 .. m -> A] :
             f[0] = a /\ \A i \in 1 .. m : f[i] = F[<<f[i - 1], i>>]
      BY <2>1
    <2> DEFINE g == [i \in 0 .. m + 1 |->
                       IF i = m + 1 THEN F[<<f[m], m + 1>>] ELSE f[i]]
    <2>3. g \in [0 .. m + 1 -> A]
      BY <2>1, <2>2
    <2>4. g[0] = a
      BY <2>1, <2>2
    <2>5. ASSUME NEW i \in 1 .. m + 1 PROVE g[i] = F[<<g[i - 1], i>>]
      <3>1. CASE i = m + 1
        <4>1. g[m + 1] = F[<<f[m], m + 1>>] /\ g[m] = f[m] /\ i - 1 = m
          BY <3>1, <2>1, <2>2
        <4> QED
          BY <3>1, <4>1
      <3>2. CASE i # m + 1
        BY <3>2, <2>1, <2>2
      <3> QED
        BY <3>1, <3>2
    <2> QED
      BY <2>3, <2>4, <2>5
  <1> HIDE DEF Reached
  <1>3. T = Nat
    BY <1>1, <1>2, InductiveSet
  <1>4. Reached(n)
    BY <1>3
  <1> QED
    BY <1>4 DEF Reached, Loops

\* Or stays within the conclusions.
LEMMA OrConcludes ==
  ASSUME NEW c \in Conclusions, NEW d \in Conclusions
  PROVE  Or(c, d) \in Conclusions
  BY DEF Or, Conclusions

\* EvaluatePolicy's loop, statement by statement.
LEMMA StatementsUnfold ==
  ASSUME NEW statements, Len(statements) \in Nat, NEW own,
         \A i \in 1 .. Len(statements) : statements[i].emit \in Conclusions
  PROVE  LET f == StatementsConclude(statements, own)
         IN  /\ f \in [0 .. Len(statements) -> Conclusions]
             /\ f[0] = "unset"
             /\ \A i \in 1 .. Len(statements) :
                   f[i] = Emitted(f[i - 1], statements[i], own)
  <1> DEFINE n == Len(statements)
             Pass(c, i) == Emitted(c, statements[i], own)
             Loop(g) == [i \in 0 .. n |-> IF i = 0 THEN "unset" ELSE Pass(g[i - 1], i)]
             F == [x \in Conclusions \X (1 .. n) |-> Pass(x[1], x[2])]
             f == StatementsConclude(statements, own)
  <1>1. ASSUME NEW c \in Conclusions, NEW i \in 1 .. n PROVE Pass(c, i) \in Conclusions
    BY <1>1, OrConcludes DEF Emitted
  <1> HIDE DEF Pass
  <1>2. F \in Passes(Conclusions, n)
    BY <1>1 DEF Passes
  <1>3. "unset" \in Conclusions
    BY DEF Conclusions
  <1>4. PICK h : h \in Loops(Conclusions, "unset", n, F)
    <2>1. n \in Nat
      OBVIOUS
    <2> HIDE DEF F, n
    <2> QED
      BY <1>2, <1>3, <2>1, LoopExists
  <1>5. ASSUME NEW i \in 1 .. n PROVE h[i] = Pass(h[i - 1], i)
    <2>1. h \in [0 .. n -> Conclusions] /\ h[i] = F[<<h[i - 1], i>>]
      <3> HIDE DEF F, n
      <3> QED
        BY <1>4 DEF Loops
    <2>2. i - 1 \in 0 .. n
      OBVIOUS
    <2>3. <<h[i - 1], i>> \in Conclusions \X (1 .. n)
      <3> HIDE DEF n
      <3> QED
        BY <2>1, <2>2
    <2> QED
      BY <2>1, <2>3
  <1>6. h = Loop(h)
    <2>1. h \in [0 .. n -> Conclusions] /\ h[0] = "unset"
      BY <1>4 DEF Loops
    <2>2. \A i \in 0 .. n : h[i] = Loop(h)[i]
      BY <1>5, <2>1
    <2> QED
      BY <2>1, <2>2
  <1>7. f = Loop(f)
    <2> HIDE DEF n
    <2>1. f = CHOOSE g : g = Loop(g)
      BY DEF StatementsConclude, n, Pass
    <2> HIDE DEF Loop, f
    <2> QED
      BY <1>6, <2>1, Zenon
  <1>8. f[0] = "unset" /\ \A i \in 1 .. n : f[i] = Pass(f[i - 1], i)
    <2> HIDE DEF f
    <2> QED
      BY <1>7
  <1>9. \A i \in Nat : i <= n => f[i] \in Conclusions
    <2> DEFINE T == {i \in Nat : i <= n => f[i] \in Conclusions}
    <2> HIDE DEF f
    <2>1. 0 \in T
      BY <1>3, <1>8
    <2>2. ASSUME NEW i \in T PROVE i + 1 \in T
      <3> SUFFICES ASSUME i + 1 <= n PROVE f[i + 1] \in Conclusions
        OBVIOUS
      <3>1. i + 1 \in 1 .. n /\ f[i] \in Conclusions /\ (i + 1) - 1 = i
        OBVIOUS
      <3> QED
        BY <1>1, <1>8, <3>1
    <2>3. T = Nat
      <3> HIDE DEF T
      <3> QED
        BY <2>1, <2>2, InductiveSet DEF T
    <2> QED
      BY <2>3
  <1> QED
    <2> HIDE DEF f
    <2>1. f = [i \in 0 .. n |-> f[i]]
      BY <1>7
    <2>2. f \in [0 .. n -> Conclusions]
      BY <1>9, <2>1
    <2> QED
      BY <1>8, <2>2 DEF f, Pass

\* EvaluateStack's inner loop, set by set.
LEMMA SetsUnfold ==
  ASSUME NEW sets, Len(sets) \in Nat,
         \A i \in 1 .. Len(sets) : Concluded(sets[i]) \in Conclusions
  PROVE  LET f == SetsConclude(sets)
         IN  /\ f \in [0 .. Len(sets) -> Conclusions]
             /\ f[0] = "unset"
             /\ \A i \in 1 .. Len(sets) :
                   f[i] = Or(f[i - 1], Concluded(sets[i]))
  <1> DEFINE n == Len(sets)
             Pass(c, i) == Or(c, Concluded(sets[i]))
             Loop(g) == [i \in 0 .. n |-> IF i = 0 THEN "unset" ELSE Pass(g[i - 1], i)]
             F == [x \in Conclusions \X (1 .. n) |-> Pass(x[1], x[2])]
             f == SetsConclude(sets)
  <1>1. ASSUME NEW c \in Conclusions, NEW i \in 1 .. n PROVE Pass(c, i) \in Conclusions
    BY <1>1, OrConcludes
  <1> HIDE DEF Pass
  <1>2. F \in Passes(Conclusions, n)
    BY <1>1 DEF Passes
  <1>3. "unset" \in Conclusions
    BY DEF Conclusions
  <1>4. PICK h : h \in Loops(Conclusions, "unset", n, F)
    <2>1. n \in Nat
      OBVIOUS
    <2> HIDE DEF F, n
    <2> QED
      BY <1>2, <1>3, <2>1, LoopExists
  <1>5. ASSUME NEW i \in 1 .. n PROVE h[i] = Pass(h[i - 1], i)
    <2>1. h \in [0 .. n -> Conclusions] /\ h[i] = F[<<h[i - 1], i>>]
      <3> HIDE DEF F, n
      <3> QED
        BY <1>4 DEF Loops
    <2>2. i - 1 \in 0 .. n
      OBVIOUS
    <2>3. <<h[i - 1], i>> \in Conclusions \X (1 .. n)
      <3> HIDE DEF n
      <3> QED
        BY <2>1, <2>2
    <2> QED
      BY <2>1, <2>3
  <1>6. h = Loop(h)
    <2>1. h \in [0 .. n -> Conclusions] /\ h[0] = "unset"
      BY <1>4 DEF Loops
    <2>2. \A i \in 0 .. n : h[i] = Loop(h)[i]
      BY <1>5, <2>1
    <2> QED
      BY <2>1, <2>2
  <1>7. f = Loop(f)
    <2> HIDE DEF n
    <2>1. f = CHOOSE g : g = Loop(g)
      BY DEF SetsConclude, n, Pass
    <2> HIDE DEF Loop, f
    <2> QED
      BY <1>6, <2>1, Zenon
  <1>8. f[0] = "unset" /\ \A i \in 1 .. n : f[i] = Pass(f[i - 1], i)
    <2> HIDE DEF f
    <2> QED
      BY <1>7
  <1>9. \A i \in Nat : i <= n => f[i] \in Conclusions
    <2> DEFINE T == {i \in Nat : i <= n => f[i] \in Conclusions}
    <2> HIDE DEF f
    <2>1. 0 \in T
      BY <1>3, <1>8
    <2>2. ASSUME NEW i \in T PROVE i + 1 \in T
      <3> SUFFICES ASSUME i + 1 <= n PROVE f[i + 1] \in Conclusions
        OBVIOUS
      <3>1. i + 1 \in 1 .. n /\ f[i] \in Conclusions /\ (i + 1) - 1 = i
        OBVIOUS
      <3> QED
        BY <1>1, <1>8, <3>1
    <2>3. T = Nat
      <3> HIDE DEF T
      <3> QED
        BY <2>1, <2>2, InductiveSet DEF T
    <2> QED
      BY <2>3
  <1> QED
    <2> HIDE DEF f
    <2>1. f = [i \in 0 .. n |-> f[i]]
      BY <1>7
    <2>2. f \in [0 .. n -> Conclusions]
      BY <1>9, <2>1
    <2> QED
      BY <1>8, <2>2 DEF f, Pass

\* resolvePolicyStack's loop over the virtual parents.
LEMMA InheritedUnfold ==
  ASSUME NEW A, NEW virtual, Len(virtual) \in Nat, NEW down, NEW unread,
         \A i \in 1 .. Len(virtual) : ParentSets(i, virtual, down, unread) \in Seq(A)
  PROVE  LET f == Inherited(virtual, down, unread)
         IN  /\ f \in [0 .. Len(virtual) -> Seq(A)]
             /\ f[0] = <<>>
             /\ \A i \in 1 .. Len(virtual) :
                   f[i] = f[i - 1] \o ParentSets(i, virtual, down, unread)
  <1> DEFINE Lists == Seq(A)
             empty == <<>>
             n == Len(virtual)
             Pass(c, i) == c \o ParentSets(i, virtual, down, unread)
             Loop(g) == [i \in 0 .. n |-> IF i = 0 THEN empty ELSE Pass(g[i - 1], i)]
             F == [x \in Lists \X (1 .. n) |-> Pass(x[1], x[2])]
             f == Inherited(virtual, down, unread)
  <1>1. ASSUME NEW c \in Lists, NEW i \in 1 .. n PROVE Pass(c, i) \in Lists
    BY <1>1
  <1>3. empty \in Lists
    OBVIOUS
  <1> HIDE DEF Pass, Lists, empty
  <1>2. F \in Passes(Lists, n)
    BY <1>1 DEF Passes
  <1>4. PICK h : h \in Loops(Lists, empty, n, F)
    <2>1. n \in Nat
      OBVIOUS
    <2> HIDE DEF F, n
    <2> QED
      BY <1>2, <1>3, <2>1, LoopExists
  <1>5. ASSUME NEW i \in 1 .. n PROVE h[i] = Pass(h[i - 1], i)
    <2>1. h \in [0 .. n -> Lists] /\ h[i] = F[<<h[i - 1], i>>]
      <3> HIDE DEF F, n
      <3> QED
        BY <1>4 DEF Loops
    <2>2. i - 1 \in 0 .. n
      OBVIOUS
    <2>3. <<h[i - 1], i>> \in Lists \X (1 .. n)
      <3> HIDE DEF n
      <3> QED
        BY <2>1, <2>2
    <2> QED
      BY <2>1, <2>3
  <1>6. h = Loop(h)
    <2>1. h \in [0 .. n -> Lists] /\ h[0] = empty
      BY <1>4 DEF Loops
    <2>2. \A i \in 0 .. n : h[i] = Loop(h)[i]
      BY <1>5, <2>1
    <2> QED
      BY <2>1, <2>2
  <1>7. f = Loop(f)
    <2> HIDE DEF n
    <2>1. f = CHOOSE g : g = Loop(g)
      BY DEF Inherited, n, Pass, empty
    <2> HIDE DEF Loop, f
    <2> QED
      BY <1>6, <2>1, Zenon
  <1>8. f[0] = empty /\ \A i \in 1 .. n : f[i] = Pass(f[i - 1], i)
    <2> HIDE DEF f
    <2> QED
      BY <1>7
  <1>9. \A i \in Nat : i <= n => f[i] \in Lists
    <2> DEFINE T == {i \in Nat : i <= n => f[i] \in Lists}
    <2> HIDE DEF f
    <2>1. 0 \in T
      BY <1>3, <1>8
    <2>2. ASSUME NEW i \in T PROVE i + 1 \in T
      <3> SUFFICES ASSUME i + 1 <= n PROVE f[i + 1] \in Lists
        OBVIOUS
      <3>1. i + 1 \in 1 .. n /\ f[i] \in Lists /\ (i + 1) - 1 = i
        OBVIOUS
      <3> QED
        BY <1>1, <1>8, <3>1
    <2>3. T = Nat
      <3> HIDE DEF T
      <3> QED
        BY <2>1, <2>2, InductiveSet DEF T
    <2> QED
      BY <2>3
  <1> QED
    <2> HIDE DEF f
    <2>1. f = [i \in 0 .. n |-> f[i]]
      BY <1>7
    <2>2. f \in [0 .. n -> Lists]
      BY <1>9, <2>1
    <2> QED
      BY <1>8, <2>2 DEF f, Pass, Lists, empty

\* The conclusions that permit.
Granting == {"allow", "ok"}

\* Or grants only what one of its sides grants.
LEMMA OrGrants ==
  ASSUME NEW c \in Conclusions, NEW d \in Conclusions, Or(c, d) \in Granting
  PROVE  c \in Granting \/ d \in Granting
  BY DEF Or, Conclusions, Granting

\* A statement that speaks for the request.
SpeaksFor(s, own) ==
    /\ s.action = request.action /\ Covers(s, own)
    /\ s.emit \in Granting /\ Eval(request, s.condition) = "true"

\* The statements of a policy grant only what one of them grants.
LEMMA StatementsGrant ==
  ASSUME NEW statements, Len(statements) \in Nat, NEW own,
         \A i \in 1 .. Len(statements) : statements[i].emit \in Conclusions,
         StatementsConclude(statements, own)[Len(statements)] \in Granting
  PROVE  \E i \in 1 .. Len(statements) : SpeaksFor(statements[i], own)
  <1> DEFINE n == Len(statements)
             f == StatementsConclude(statements, own)
             Spoken(m) == \E j \in 1 .. m : SpeaksFor(statements[j], own)
             T == {m \in Nat : m <= n => (f[m] \in Granting => Spoken(m))}
  <1>1. /\ f \in [0 .. n -> Conclusions] /\ f[0] = "unset"
        /\ \A i \in 1 .. n : f[i] = Emitted(f[i - 1], statements[i], own)
    BY StatementsUnfold
  <1> HIDE DEF f
  <1>2. 0 \in T
    BY <1>1 DEF Granting
  <1>3. ASSUME NEW m \in T PROVE m + 1 \in T
    <2> SUFFICES ASSUME m + 1 <= n, f[m + 1] \in Granting PROVE Spoken(m + 1)
      OBVIOUS
    <2> DEFINE s == statements[m + 1]
    <2>1. /\ m + 1 \in 1 .. n /\ m \in 0 .. n /\ (m + 1) - 1 = m
          /\ f[m] \in Conclusions /\ s.emit \in Conclusions
      BY <1>1
    <2>2. f[m + 1] = Emitted(f[m], s, own)
      BY <1>1, <2>1
    <2>3. CASE f[m] \in Granting
      BY <2>1, <2>3
    <2>4. CASE f[m] \notin Granting
      <3>1. SpeaksFor(s, own)
        BY <2>1, <2>2, <2>4, OrGrants DEF Emitted, SpeaksFor
      <3> QED
        BY <2>1, <3>1
    <2> QED
      BY <2>3, <2>4
  <1>4. T = Nat
    <2> HIDE DEF T
    <2> QED
      BY <1>2, <1>3, InductiveSet DEF T
  <1>5. f[n] \in Granting => Spoken(n)
    BY <1>4
  <1> QED
    BY <1>5 DEF f

\* The evaluation sets that resolvePolicyStack makes.
EvalSets == [errored : BOOLEAN, own : BOOLEAN, policy : Policies]
SetLists == Seq(EvalSets)

\* A policy concludes something, and a set that grants speaks for the request.
LEMMA SetGrants ==
  ASSUME NEW set \in EvalSets
  PROVE  /\ Concluded(set) \in Conclusions
         /\ Concluded(set) \in Granting => Grants(set)
  <1> DEFINE p == set.policy
             n == Len(p.statements)
             f == StatementsConclude(p.statements, set.own)
  <1>1. p.statements \in Seq(Statements) /\ p.default \in Conclusions /\ n \in Nat
    BY DEF EvalSets, Policies
  <1>2. \A i \in 1 .. n : p.statements[i].emit \in Conclusions
    BY <1>1, PolicyAssumption
  <1>3. f[n] \in Conclusions
    <2>1. f \in [0 .. n -> Conclusions]
      BY <1>1, <1>2, StatementsUnfold
    <2> QED
      BY <1>1, <2>1
  <1>4. ASSUME f[n] \in Granting PROVE Grants(set)
    <2>1. \E i \in 1 .. n : SpeaksFor(p.statements[i], set.own)
      BY <1>1, <1>2, <1>4, StatementsGrant
    <2>2. DOMAIN p.statements = 1 .. n
      BY <1>1
    <2> QED
      BY <2>1, <2>2 DEF SpeaksFor, Grants, Granting
  <1>5. p.default \in Granting => Grants(set)
    BY DEF Grants, Granting
  <1> HIDE DEF f
  <1>6. Concluded(set) \in {p.default, f[n]}
    BY DEF Concluded, EvaluatePolicy, f
  <1> QED
    BY <1>1, <1>3, <1>4, <1>5, <1>6

\* A layer grants only what one of its sets grants.
LEMMA SetsGrant ==
  ASSUME NEW sets \in Seq(EvalSets),
         SetsConclude(sets)[Len(sets)] \in Granting
  PROVE  \E j \in DOMAIN sets : Grants(sets[j])
  <1> DEFINE n == Len(sets)
             f == SetsConclude(sets)
             Spoken(m) == \E j \in 1 .. m : Grants(sets[j])
             T == {m \in Nat : m <= n => (f[m] \in Granting => Spoken(m))}
  <1>0. n \in Nat /\ DOMAIN sets = 1 .. n
    OBVIOUS
  <1>1. ASSUME NEW i \in 1 .. n
        PROVE  /\ Concluded(sets[i]) \in Conclusions
               /\ Concluded(sets[i]) \in Granting => Grants(sets[i])
    BY SetGrants
  <1>2. /\ f \in [0 .. n -> Conclusions] /\ f[0] = "unset"
        /\ \A i \in 1 .. n : f[i] = Or(f[i - 1], Concluded(sets[i]))
    BY <1>0, <1>1, SetsUnfold
  <1> HIDE DEF f
  <1>3. 0 \in T
    BY <1>2 DEF Granting
  <1>4. ASSUME NEW m \in T PROVE m + 1 \in T
    <2> SUFFICES ASSUME m + 1 <= n, f[m + 1] \in Granting PROVE Spoken(m + 1)
      OBVIOUS
    <2>1. m + 1 \in 1 .. n /\ m \in 0 .. n /\ (m + 1) - 1 = m
      BY <1>0
    <2>2. f[m] \in Conclusions /\ f[m + 1] = Or(f[m], Concluded(sets[m + 1]))
      BY <1>2, <2>1
    <2>3. CASE f[m] \in Granting
      BY <2>1, <2>3
    <2>4. CASE f[m] \notin Granting
      <3>1. Grants(sets[m + 1])
        BY <1>1, <2>1, <2>2, <2>4, OrGrants
      <3> QED
        BY <2>1, <3>1
    <2> QED
      BY <2>3, <2>4
  <1>5. T = Nat
    <2> HIDE DEF T
    <2> QED
      BY <1>3, <1>4, InductiveSet DEF T
  <1>6. f[n] \in Granting => Spoken(n)
    BY <1>0, <1>5
  <1> QED
    BY <1>0, <1>6 DEF f

\* The values of the global policy's conditions.
LEMMA LoadValue ==
  ASSUME NEW r, NEW path PROVE Eval0(r, Load(path)) = Loaded(r, path)
                            /\ Eval1(r, Load(path)) = Loaded(r, path)
                            /\ Eval2(r, Load(path)) = Loaded(r, path)
  BY DEF Load, Eval0, Eval1, Eval2, EvalWith

\* The owner of a URI that parses.
OwnerOf(r) == IF r.owner = "" THEN "error" ELSE r.owner

\* CCUriOwner of a path of the request.
LEMMA OwnerValue ==
  ASSUME NEW r \in Requests, NEW path \in {"self.key", "self.associate"}
  PROVE  LET e == Apply("CCUriOwner", <<Load(path)>>)
         IN  Eval1(r, e) = OwnerOf(r) /\ Eval2(r, e) = OwnerOf(r)
  <1>1. Loaded(r, path) = r.owner /\ r.owner # "error"
    BY PolicyAssumption DEF Loaded
  <1> DEFINE e == Apply("CCUriOwner", <<Load(path)>>)
  <1>2. e.op = "CCUriOwner" /\ e.args = <<Load(path)>> /\ DOMAIN e.args = {1}
    BY DEF Apply
  <1>3. Applied("CCUriOwner", [i \in {1} |-> r.owner]) = OwnerOf(r)
    BY <1>1 DEF Applied, OwnerOf
  <1> HIDE DEF e
  <1>4. /\ [i \in DOMAIN e.args |-> Eval0(r, e.args[i])] = [i \in {1} |-> r.owner]
        /\ [i \in DOMAIN e.args |-> Eval1(r, e.args[i])] = [i \in {1} |-> r.owner]
    BY <1>1, <1>2, LoadValue
  <1>5. Eval1(r, e) = OwnerOf(r) /\ Eval2(r, e) = OwnerOf(r)
    BY <1>2, <1>3, <1>4 DEF Eval1, Eval2, EvalWith
  <1> QED
    BY <1>5 DEF e

\* Eq, And and Or of two values.
LEMMA AppliedPair ==
  ASSUME NEW x, NEW y
  PROVE  LET pair == [i \in {1, 2} |-> IF i = 1 THEN x ELSE y]
             erroneous == x = "error" \/ y = "error"
         IN  /\ erroneous => \A f \in {"Eq", "And", "Or"} :
                               Applied(f, pair) = "error"
             /\ ~erroneous =>
                  /\ Applied("Eq", pair) = Truth(x = y)
                  /\ Applied("And", pair) = Truth(x # "false" /\ y # "false")
                  /\ Applied("Or", pair) = Truth(x = "true" \/ y = "true")
  <1> DEFINE pair == [i \in {1, 2} |-> IF i = 1 THEN x ELSE y]
  <1>0. DOMAIN pair = {1, 2} /\ pair[1] = x /\ pair[2] = y
    OBVIOUS
  <1> HIDE DEF pair
  <1>1. \A v : (\E i \in DOMAIN pair : pair[i] = v) <=> (x = v \/ y = v)
    BY <1>0
  <1>3. CASE x = "error" \/ y = "error"
    <2>1. \E i \in DOMAIN pair : pair[i] = "error"
      BY <1>1, <1>3
    <2>2. \A f : Applied(f, pair) = "error"
      BY <2>1 DEF Applied
    <2> QED
      BY <1>3, <2>2 DEF pair
  <1>4. CASE ~(x = "error" \/ y = "error")
    <2>1. ~\E i \in DOMAIN pair : pair[i] = "error"
      BY <1>1, <1>4
    <2>2. Applied("Eq", pair) = Truth(x = y)
      BY <1>0, <2>1 DEF Applied
    <2>3. Applied("And", pair) = Truth(x # "false" /\ y # "false")
      BY <1>1, <2>1 DEF Applied, Truth
    <2>4. Applied("Or", pair) = Truth(x = "true" \/ y = "true")
      BY <1>1, <2>1 DEF Applied, Truth
    <2> QED
      BY <1>4, <2>2, <2>3, <2>4 DEF pair
  <1> QED
    BY <1>3, <1>4

\* The values of two arguments.
Pair(x, y) == [i \in {1, 2} |-> IF i = 1 THEN x ELSE y]

\* An operator of two arguments is applied to their values.
LEMMA EvalPair ==
  ASSUME NEW r, NEW f \in {"Eq", "And", "Or"}, NEW e1, NEW e2
  PROVE  LET e == Apply(f, <<e1, e2>>)
         IN  /\ Eval2(r, e) = Applied(f, Pair(Eval1(r, e1), Eval1(r, e2)))
             /\ Eval(r, e) = Applied(f, Pair(Eval2(r, e1), Eval2(r, e2)))
  <1> DEFINE e == Apply(f, <<e1, e2>>)
  <1>1. /\ e.op = f /\ f \notin {"Const", "Load"}
        /\ DOMAIN e.args = {1, 2} /\ e.args[1] = e1 /\ e.args[2] = e2
    BY DEF Apply
  <1> HIDE DEF e
  <1>2. [i \in DOMAIN e.args |-> Eval1(r, e.args[i])] = Pair(Eval1(r, e1), Eval1(r, e2))
    BY <1>1 DEF Pair
  <1>3. [i \in DOMAIN e.args |-> Eval2(r, e.args[i])] = Pair(Eval2(r, e1), Eval2(r, e2))
    BY <1>1 DEF Pair
  <1>4. Eval2(r, e) = Applied(f, Pair(Eval1(r, e1), Eval1(r, e2)))
    BY <1>1, <1>2 DEF Eval2, EvalWith
  <1>5. Eval(r, e) = Applied(f, Pair(Eval2(r, e1), Eval2(r, e2)))
    BY <1>1, <1>3 DEF Eval, EvalWith
  <1> QED
    BY <1>4, <1>5 DEF e

\* The values of the conditions' parts.
LEMMA PartValues ==
  ASSUME NEW r \in Requests
  PROVE  /\ Eval2(r, LocalRequester) = Truth(r.domain = Fqdn)
         /\ Eval2(r, OwnDocument) = Truth(r.requester = r.author)
         /\ Eval2(r, ServerNamespace) =
              IF r.owner = "" THEN "error" ELSE Truth(r.owner = Fqdn)
         /\ \A path \in {"self.key", "self.associate"} :
              /\ Eval2(r, OwnNamespace(path)) =
                   IF r.owner = "" THEN "error" ELSE Truth(r.requester = r.owner)
              /\ Eval(r, OwnNamespace(path)) =
                   IF r.owner = "" THEN "error" ELSE Truth(r.requester = r.owner)
  <1> DEFINE Value(path) == Loaded(r, path)
             owner(path) == Apply("CCUriOwner", <<Load(path)>>)
  <1>1. "error" \notin {r.requester, r.domain, r.owner, r.author, Fqdn}
    BY PolicyAssumption
  <1>2. /\ Value("requester.domain") = r.domain /\ Value("globals.fqdn") = Fqdn
        /\ Value("requester.ccid") = r.requester /\ Value("self.author") = r.author
    BY DEF Loaded
  <1>3. \A path \in {"self.key", "self.associate"} :
           Eval1(r, owner(path)) = OwnerOf(r) /\ Eval2(r, owner(path)) = OwnerOf(r)
    BY OwnerValue
  <1>4. \A path : Eval1(r, Load(path)) = Value(path) /\ Eval2(r, Load(path)) = Value(path)
    BY LoadValue
  <1>5. ASSUME NEW x, NEW y
        PROVE  Applied("Eq", Pair(x, y)) =
                 IF x = "error" \/ y = "error" THEN "error" ELSE Truth(x = y)
    BY AppliedPair DEF Pair
  <1> HIDE DEF Value, owner
  <1>6. Eval2(r, LocalRequester) = Truth(r.domain = Fqdn)
    <2>1. Eval2(r, LocalRequester) = Applied("Eq", Pair(r.domain, Fqdn))
      BY <1>2, <1>4, EvalPair DEF LocalRequester
    <2> QED
      BY <1>1, <1>5, <2>1
  <1>7. Eval2(r, OwnDocument) = Truth(r.requester = r.author)
    <2>1. Eval2(r, OwnDocument) = Applied("Eq", Pair(r.requester, r.author))
      BY <1>2, <1>4, EvalPair DEF OwnDocument
    <2> QED
      BY <1>1, <1>5, <2>1
  <1>8. Eval2(r, ServerNamespace) =
           IF r.owner = "" THEN "error" ELSE Truth(r.owner = Fqdn)
    <2>1. Eval2(r, ServerNamespace) = Applied("Eq", Pair(OwnerOf(r), Fqdn))
      BY <1>2, <1>3, <1>4, EvalPair DEF ServerNamespace, owner
    <2>2. Eval2(r, ServerNamespace) =
             IF OwnerOf(r) = "error" \/ Fqdn = "error" THEN "error"
             ELSE Truth(OwnerOf(r) = Fqdn)
      BY <1>5, <2>1
    <2> QED
      BY <1>1, <2>2 DEF OwnerOf, Truth
  <1>9. ASSUME NEW path \in {"self.key", "self.associate"}
        PROVE  /\ Eval2(r, OwnNamespace(path)) =
                    IF r.owner = "" THEN "error" ELSE Truth(r.requester = r.owner)
               /\ Eval(r, OwnNamespace(path)) =
                    IF r.owner = "" THEN "error" ELSE Truth(r.requester = r.owner)
    <2>1. Eval2(r, OwnNamespace(path)) = Applied("Eq", Pair(r.requester, OwnerOf(r)))
      BY <1>2, <1>3, <1>4, EvalPair DEF OwnNamespace, owner
    <2>2. Eval(r, OwnNamespace(path)) = Applied("Eq", Pair(r.requester, OwnerOf(r)))
      BY <1>2, <1>3, <1>4, EvalPair DEF OwnNamespace, owner
    <2>3. Applied("Eq", Pair(r.requester, OwnerOf(r))) =
             IF r.requester = "error" \/ OwnerOf(r) = "error" THEN "error"
             ELSE Truth(r.requester = OwnerOf(r))
      BY <1>5
    <2> QED
      BY <1>1, <2>1, <2>2, <2>3 DEF OwnerOf, Truth
  <1> QED
    BY <1>6, <1>7, <1>8, <1>9

\* When each statement of the global policy speaks.
LEMMA GlobalValues ==
  ASSUME NEW r \in Requests
  PROVE  LET holds(i) == Eval(r, GlobalStatements[i].condition) = "true"
             known == r.owner # ""
         IN  /\ holds(1) <=> known /\ r.domain = Fqdn /\ r.requester = r.owner
             /\ holds(2) <=> known /\ r.domain = Fqdn /\ r.owner = Fqdn
             /\ holds(3) <=> known /\ r.requester = r.owner
             /\ \A i \in 4 .. 6 :
                  holds(i) <=> known /\ r.requester \in {r.author, r.owner}
  <1> DEFINE Cond(i) == GlobalStatements[i].condition
             known == r.owner # ""
  <1>1. /\ Cond(1) = Apply("And", <<LocalRequester, OwnNamespace("self.key")>>)
        /\ Cond(2) = Apply("And", <<LocalRequester, ServerNamespace>>)
        /\ Cond(3) = OwnNamespace("self.key")
        /\ Cond(4) = Apply("Or", <<OwnDocument, OwnNamespace("self.key")>>)
        /\ Cond(5) = Apply("Or", <<OwnDocument, OwnNamespace("self.key")>>)
        /\ Cond(6) = Apply("Or", <<OwnDocument, OwnNamespace("self.associate")>>)
    BY DEF GlobalStatements, Statement
  <1> HIDE DEF Cond
  <1>2. ASSUME NEW x, NEW y
        PROVE
          /\ Applied("And", Pair(x, y)) =
               IF x = "error" \/ y = "error" THEN "error"
               ELSE Truth(x # "false" /\ y # "false")
          /\ Applied("Or", Pair(x, y)) =
               IF x = "error" \/ y = "error" THEN "error"
               ELSE Truth(x = "true" \/ y = "true")
    BY AppliedPair DEF Pair
  <1>3. (Eval(r, Cond(1)) = "true") <=> (known /\ r.domain = Fqdn /\ r.requester = r.owner)
    <2>1. Eval(r, Cond(1)) = Applied("And", Pair(Eval2(r, LocalRequester),
                                                 Eval2(r, OwnNamespace("self.key"))))
      BY <1>1, EvalPair
    <2> DEFINE x == Eval2(r, LocalRequester)
               y == Eval2(r, OwnNamespace("self.key"))
    <2>2. Applied("And", Pair(x, y)) =
             IF x = "error" \/ y = "error" THEN "error" ELSE Truth(x # "false" /\ y # "false")
      BY <1>2
    <2>3. x \in {"true", "false", "error"} /\ y \in {"true", "false", "error"}
      BY PartValues DEF Truth
    <2>4. Applied("And", Pair(x, y)) = "true" <=> (x = "true" /\ y = "true")
      <3> HIDE DEF x, y
      <3> QED
        BY <2>2, <2>3 DEF Truth
    <2> QED
      BY <2>1, <2>4, PartValues DEF Truth
  <1>4. (Eval(r, Cond(2)) = "true") <=> (known /\ r.domain = Fqdn /\ r.owner = Fqdn)
    <2>1. Eval(r, Cond(2)) = Applied("And", Pair(Eval2(r, LocalRequester),
                                                 Eval2(r, ServerNamespace)))
      BY <1>1, EvalPair
    <2> DEFINE x == Eval2(r, LocalRequester)
               y == Eval2(r, ServerNamespace)
    <2>2. Applied("And", Pair(x, y)) =
             IF x = "error" \/ y = "error" THEN "error" ELSE Truth(x # "false" /\ y # "false")
      BY <1>2
    <2>3. x \in {"true", "false", "error"} /\ y \in {"true", "false", "error"}
      BY PartValues DEF Truth
    <2>4. Applied("And", Pair(x, y)) = "true" <=> (x = "true" /\ y = "true")
      <3> HIDE DEF x, y
      <3> QED
        BY <2>2, <2>3 DEF Truth
    <2> QED
      BY <2>1, <2>4, PartValues DEF Truth
  <1>5. (Eval(r, Cond(3)) = "true") <=> (known /\ r.requester = r.owner)
    BY <1>1, PartValues DEF Truth
  <1>6. ASSUME NEW path \in {"self.key", "self.associate"}
        PROVE  (Eval(r, Apply("Or", <<OwnDocument, OwnNamespace(path)>>)) = "true")
                 <=> (known /\ r.requester \in {r.author, r.owner})
    <2>1. Eval(r, Apply("Or", <<OwnDocument, OwnNamespace(path)>>)) =
             Applied("Or", Pair(Eval2(r, OwnDocument), Eval2(r, OwnNamespace(path))))
      BY EvalPair
    <2> DEFINE x == Eval2(r, OwnDocument)
               y == Eval2(r, OwnNamespace(path))
    <2>2. Applied("Or", Pair(x, y)) =
             IF x = "error" \/ y = "error" THEN "error" ELSE Truth(x = "true" \/ y = "true")
      BY <1>2
    <2>3. x \in {"true", "false", "error"} /\ y \in {"true", "false", "error"}
      BY PartValues DEF Truth
    <2>4. Applied("Or", Pair(x, y)) = "true" <=> 
             (x # "error" /\ y # "error" /\ (x = "true" \/ y = "true"))
      <3> HIDE DEF x, y
      <3> QED
        BY <2>2, <2>3 DEF Truth
    <2> QED
      BY <2>1, <2>4, PartValues DEF Truth
  <1>7. \A i \in 4 .. 6 : (Eval(r, Cond(i)) = "true")
                            <=> (known /\ r.requester \in {r.author, r.owner})
    <2>1. \A i \in 4 .. 6 : i = 4 \/ i = 5 \/ i = 6
      OBVIOUS
    <2> QED
      BY <1>1, <1>6, <2>1
  <1> QED
    BY <1>3, <1>4, <1>5, <1>7 DEF Cond

\* Who a conclusion may not be granted to by the global policy alone.
Refused(r) ==
    /\ ~Entitled(r) /\ r.action \in RefusedByDefault
    /\ ~(r.action = "record:create" /\ r.domain = Fqdn /\ r.owner = Fqdn)

\* Whom it names, in a namespace whose URI parses.
Named(r) == Entitled(r) /\ r.owner # ""

\* The global policy allows the entitled at once, and grants nothing to others
\* that it refuses by default.
LEMMA GlobalConclusion ==
  ASSUME request \in Requests
  PROVE  LET c == EvaluatePolicy(GlobalPolicy(request.action), FALSE)
         IN  /\ c \in Conclusions
             /\ Named(request) => c = "allow"
             /\ Refused(request) => c = "ng"
  <1> DEFINE r == request
             c == EvaluatePolicy(GlobalPolicy(r.action), FALSE)
             f == StatementsConclude(GlobalStatements, FALSE)
             holds(i) == Eval(r, GlobalStatements[i].condition) = "true"
             says(i) == r.action = GlobalStatements[i].action /\ holds(i)
  <1>1. Len(GlobalStatements) = 6
    BY DEF GlobalStatements
  <1>2. /\ GlobalStatements[1].action = "record:create" /\ GlobalStatements[1].emit = "allow"
        /\ GlobalStatements[2].action = "record:create" /\ GlobalStatements[2].emit = "ok"
        /\ GlobalStatements[3].action = "record:read" /\ GlobalStatements[3].emit = "allow"
        /\ GlobalStatements[4].action = "record:update" /\ GlobalStatements[4].emit = "allow"
        /\ GlobalStatements[5].action = "record:delete" /\ GlobalStatements[5].emit = "allow"
        /\ GlobalStatements[6].action = "association:delete"
        /\ GlobalStatements[6].emit = "allow"
    BY DEF GlobalStatements, Statement
  <1>3. \A i \in 1 .. 6 : GlobalStatements[i].key = "*"
    BY DEF GlobalStatements, Statement
  <1>4. \A i \in 1 .. 6 : i = 1 \/ i = 2 \/ i = 3 \/ i = 4 \/ i = 5 \/ i = 6
    OBVIOUS
  <1>5. \A i \in 1 .. 6 : GlobalStatements[i].emit \in Conclusions
    BY <1>2, <1>4 DEF Conclusions
  <1>6. /\ f \in [0 .. 6 -> Conclusions] /\ f[0] = "unset"
        /\ \A i \in 1 .. 6 : f[i] = Emitted(f[i - 1], GlobalStatements[i], FALSE)
    <2> DEFINE n == Len(GlobalStatements)
    <2>0. 6 \in Nat
      OBVIOUS
    <2>1. n \in Nat /\ \A i \in 1 .. n : GlobalStatements[i].emit \in Conclusions
      BY <1>1, <1>5, <2>0, Zenon
    <2>2. /\ f \in [0 .. n -> Conclusions] /\ f[0] = "unset"
          /\ \A i \in 1 .. n : f[i] = Emitted(f[i - 1], GlobalStatements[i], FALSE)
      <3> DEFINE no == FALSE
                 g == StatementsConclude(GlobalStatements, no)
      <3> HIDE DEF no
      <3>1. /\ g \in [0 .. n -> Conclusions] /\ g[0] = "unset"
            /\ \A i \in 1 .. n : g[i] = Emitted(g[i - 1], GlobalStatements[i], no)
        BY <2>1, StatementsUnfold
      <3> QED
        BY <3>1, Zenon DEF no
    <2> QED
      BY <1>1, <2>2, Zenon
  <1> HIDE DEF f
  <1>7. ASSUME NEW i \in 1 .. 6
        PROVE  f[i] = IF says(i) THEN Or(f[i - 1], GlobalStatements[i].emit)
                      ELSE f[i - 1]
    BY <1>3, <1>6 DEF Emitted, Covers
  <1> HIDE DEF says
  <1>8. /\ f[1] = IF says(1) THEN Or(f[0], "allow") ELSE f[0]
        /\ f[2] = IF says(2) THEN Or(f[1], "ok") ELSE f[1]
        /\ f[3] = IF says(3) THEN Or(f[2], "allow") ELSE f[2]
        /\ f[4] = IF says(4) THEN Or(f[3], "allow") ELSE f[3]
        /\ f[5] = IF says(5) THEN Or(f[4], "allow") ELSE f[4]
        /\ f[6] = IF says(6) THEN Or(f[5], "allow") ELSE f[5]
    <2>1. /\ f[1] = IF says(1) THEN Or(f[0], "allow") ELSE f[0]
          /\ f[2] = IF says(2) THEN Or(f[1], "ok") ELSE f[1]
      BY <1>2, <1>7
    <2>2. /\ f[3] = IF says(3) THEN Or(f[2], "allow") ELSE f[2]
          /\ f[4] = IF says(4) THEN Or(f[3], "allow") ELSE f[3]
      BY <1>2, <1>7
    <2>3. /\ f[5] = IF says(5) THEN Or(f[4], "allow") ELSE f[4]
          /\ f[6] = IF says(6) THEN Or(f[5], "allow") ELSE f[5]
      BY <1>2, <1>7
    <2> QED
      BY <2>1, <2>2, <2>3
  <1>9. /\ Or("unset", "allow") = "allow" /\ Or("unset", "ok") = "ok"
        /\ Or("allow", "ok") = "allow" /\ Or("allow", "allow") = "allow"
        /\ Or("ok", "allow") = "allow"
    BY DEF Or
  <1>10. f[6] \in {"unset", "ok", "allow"}
    BY <1>6, <1>8, <1>9
  <1>11. (says(1) \/ says(3) \/ says(4) \/ says(5) \/ says(6)) => f[6] = "allow"
    BY <1>6, <1>8, <1>9
  <1>12. ~(says(1) \/ says(2) \/ says(3) \/ says(4) \/ says(5) \/ says(6))
           => f[6] = "unset"
    BY <1>6, <1>8
  <1>13. c = IF f[6] = "unset" THEN GlobalPolicy(r.action).default ELSE f[6]
    BY <1>1 DEF EvaluatePolicy, GlobalPolicy, f
  <1>14. /\ says(1) <=> (r.action = "record:create" /\ r.owner # "" /\ r.domain = Fqdn
                           /\ r.requester = r.owner)
         /\ says(2) <=> (r.action = "record:create" /\ r.owner # "" /\ r.domain = Fqdn
                           /\ r.owner = Fqdn)
         /\ says(3) <=> (r.action = "record:read" /\ r.owner # ""
                           /\ r.requester = r.owner)
         /\ says(4) <=> (r.action = "record:update" /\ r.owner # ""
                           /\ r.requester \in {r.author, r.owner})
         /\ says(5) <=> (r.action = "record:delete" /\ r.owner # ""
                           /\ r.requester \in {r.author, r.owner})
         /\ says(6) <=> (r.action = "association:delete" /\ r.owner # ""
                           /\ r.requester \in {r.author, r.owner})
    <2>1. /\ holds(1) <=> (r.owner # "" /\ r.domain = Fqdn /\ r.requester = r.owner)
          /\ holds(2) <=> (r.owner # "" /\ r.domain = Fqdn /\ r.owner = Fqdn)
          /\ holds(3) <=> (r.owner # "" /\ r.requester = r.owner)
          /\ \A i \in 4 .. 6 :
               holds(i) <=> (r.owner # "" /\ r.requester \in {r.author, r.owner})
      BY GlobalValues
    <2>0. \A i \in {4, 5, 6} : i \in 4 .. 6
      OBVIOUS
    <2>2. \A i \in {4, 5, 6} :
             holds(i) <=> (r.owner # "" /\ r.requester \in {r.author, r.owner})
      BY <2>0, <2>1, Zenon
    <2> HIDE DEF holds
    <2>3. /\ says(1) <=> (r.action = "record:create" /\ holds(1))
          /\ says(2) <=> (r.action = "record:create" /\ holds(2))
          /\ says(3) <=> (r.action = "record:read" /\ holds(3))
          /\ says(4) <=> (r.action = "record:update" /\ holds(4))
          /\ says(5) <=> (r.action = "record:delete" /\ holds(5))
          /\ says(6) <=> (r.action = "association:delete" /\ holds(6))
      BY <1>2, Zenon DEF says
    <2>4. /\ holds(4) <=> (r.owner # "" /\ r.requester \in {r.author, r.owner})
          /\ holds(5) <=> (r.owner # "" /\ r.requester \in {r.author, r.owner})
          /\ holds(6) <=> (r.owner # "" /\ r.requester \in {r.author, r.owner})
      BY <2>2, Zenon
    <2> QED
      BY <2>1, <2>3, <2>4, Zenon
  <1>15. r.action \in Actions
    BY PolicyAssumption
  <1> HIDE DEF c
  <1>16. ASSUME Named(r) PROVE c = "allow"
    <2>1. says(1) \/ says(3) \/ says(4) \/ says(5) \/ says(6)
      BY <1>14, <1>15, <1>16 DEF Named, Entitled, Actions
    <2> QED
      BY <1>11, <1>13, <2>1
  <1>17. ASSUME Refused(r) PROVE c = "ng"
    <2>1. ~(says(1) \/ says(2) \/ says(3) \/ says(4) \/ says(5) \/ says(6))
      BY <1>14, <1>17 DEF Entitled, Refused, RefusedByDefault
    <2>2. GlobalPolicy(r.action).default = "ng"
      BY <1>17 DEF GlobalPolicy, Refused
    <2> QED
      BY <1>12, <1>13, <2>1, <2>2
  <1>18. c \in Conclusions
    BY <1>10, <1>13 DEF GlobalPolicy, Conclusions
  <1> QED
    BY <1>16, <1>17, <1>18 DEF c

\* resolvePolicyStack makes evaluation sets.
LEMMA ResolvedSets ==
  ASSUME NEW es \in EntryLists, NEW own \in BOOLEAN, NEW down
  PROVE  Resolved(es, own, down) \in SetLists
  <1>1. ASSUME NEW j \in 1 .. Len(es)
        PROVE  /\ ErroredSet(es[j].default) \in EvalSets
               /\ FetchedSet(es[j], own) \in EvalSets
    <2>1. es[j] \in [policy : Policies, default : Conclusions]
      BY PolicyAssumption DEF EntryLists
    <2>2. ErroredSet(es[j].default) \in EvalSets
      BY <2>1 DEF ErroredSet, EvalSets, Policies
    <2>3. FetchedSet(es[j], own) \in EvalSets
      BY <2>1 DEF FetchedSet, EvalSets, Policies
    <2> QED
      BY <2>2, <2>3
  <1> QED
    BY <1>1 DEF Resolved, SetLists, EntryLists

\* A stack is a sequence of layers.
LEMMA StackLayers ==
  ASSUME NEW s \in Stacks PROVE s \in Seq(Layers) /\ Len(s) \in Nat
  <1>1. s \in Seq(Layers)
    BY PolicyAssumption, Zenon
  <1> QED
    BY <1>1

\* What has been evaluated so far: the layers are resolved first, the global
\* policy settles the request of the entitled, and what grants a refused one
\* is a layer.
PolicyInv ==
    /\ request \in Requests /\ stack \in Stacks /\ layers \in Seq(SetLists)
    /\ next \in Nat \ {0} /\ at \in Nat
    /\ at # 0 => next > Len(stack)
    /\ at = 0 => conclusion = "unset" /\ verdict = "none"
    /\ at # 0 /\ Named(request) =>
         conclusion = "allow" /\ at > Len(layers)
    /\ conclusion \in Granting /\ Refused(request) =>
         \E i \in DOMAIN layers : \E j \in DOMAIN layers[i] : Grants(layers[i][j])
    /\ verdict # "none" => at > Len(layers)
    /\ verdict = "permitted" => conclusion \in Granting
    /\ verdict = "denied" => conclusion \notin Granting

\* Nothing has been evaluated at first.
LEMMA InitPolicyInv == PolicyInit => PolicyInv
  BY DEF PolicyInit, PolicyInv, Granting

\* Resolving a layer appends its sets, before anything is evaluated.
LEMMA ResolvePolicyInv ==
  ASSUME PolicyInv, next <= Len(stack), NEW down, NEW unread,
         ResolveLayer(down, unread)
  PROVE  PolicyInv'
  <1> DEFINE layer == stack[next]
             virtual == Inherited(layer.virtual, down, unread)[Len(layer.virtual)]
             self == Resolved(layer.entries, layer.own, down)
  <1>d. stack \in Stacks /\ stack \in Seq(Layers) /\ Len(stack) \in Nat
    BY StackLayers DEF PolicyInv
  <1>e. next \in Nat \ {0} /\ at \in Nat /\ (at # 0 => next > Len(stack))
    BY DEF PolicyInv
  <1>f. at = 0
    BY <1>d, <1>e
  <1>0. /\ request \in Requests /\ layers \in Seq(SetLists)
        /\ verdict = "none" /\ conclusion = "unset"
    BY <1>f DEF PolicyInv
  <1>a. UNCHANGED <<request, stack, conclusion, at, verdict>> /\ next' = next + 1
    BY DEF ResolveLayer
  <1>b. layers' \in {Append(layers, self), Append(Append(layers, virtual), self)}
    BY DEF ResolveLayer
  <1>1. layer \in Layers
    BY <1>d, <1>e
  <1>2. self \in SetLists
    BY <1>1, ResolvedSets DEF Layers
  <1>3. Len(layer.virtual) \in Nat
    BY <1>1 DEF Layers
  <1>4. ASSUME NEW i \in 1 .. Len(layer.virtual)
        PROVE  ParentSets(i, layer.virtual, down, unread) \in Seq(EvalSets)
    <2>1. layer.virtual[i] \in EntryLists
      BY <1>1 DEF Layers
    <2>2. Resolved(layer.virtual[i], FALSE, down) \in SetLists
      BY <2>1, ResolvedSets
    <2>3. ErroredSet("unset") \in EvalSets
      BY DEF ErroredSet, EvalSets, Policies, Conclusions
    <2> HIDE DEF layer
    <2>4. <<ErroredSet("unset")>> \in Seq(EvalSets)
      BY <2>3
    <2> QED
      BY <2>2, <2>4 DEF ParentSets, SetLists
  <1>5. virtual \in SetLists
    <2>1. Inherited(layer.virtual, down, unread)
             \in [0 .. Len(layer.virtual) -> Seq(EvalSets)]
      BY <1>3, <1>4, InheritedUnfold
    <2> QED
      BY <1>3, <2>1 DEF SetLists
  <1> HIDE DEF self, virtual
  <1>6. layers' \in Seq(SetLists)
    BY <1>0, <1>b, <1>2, <1>5
  <1> QED
    BY <1>0, <1>a, <1>d, <1>e, <1>f, <1>6 DEF PolicyInv, Granting

\* A layer's conclusion either leaves the one before it, or stands for a set.
LEMMA EvaluatePolicyInv ==
  ASSUME PolicyInv, EvaluateLayer PROVE PolicyInv'
  <1> DEFINE c == LayerConclusion(at)
  <1>0. PolicyInv
    OBVIOUS
  <1>1. /\ next > Len(stack) /\ at <= Len(layers)
        /\ conclusion' = IF c = "unset" THEN conclusion ELSE c
        /\ at' = IF Final(c) THEN Len(layers) + 1 ELSE at + 1
        /\ UNCHANGED <<request, stack, layers, next, verdict>>
    BY DEF EvaluateLayer
  <1>a. /\ at \in Nat /\ layers \in Seq(SetLists) /\ request \in Requests
        /\ next \in Nat \ {0} /\ stack \in Stacks
        /\ verdict # "none" => at > Len(layers)
        /\ at # 0 /\ Named(request) => at > Len(layers)
    BY DEF PolicyInv
  <1>b. Len(layers) \in Nat /\ DOMAIN layers = 1 .. Len(layers)
    BY <1>a
  <1>2. verdict = "none"
    BY <1>1, <1>a, <1>b
  <1>3. CASE at = 0
    <2>1. c = EvaluatePolicy(GlobalPolicy(request.action), FALSE)
      BY <1>3 DEF LayerConclusion
    <2> HIDE DEF c
    <2>2. /\ Named(request) => c = "allow"
          /\ Refused(request) => c = "ng"
      BY <1>a, <2>1, GlobalConclusion
    <2>3. conclusion = "unset"
      BY <1>3 DEF PolicyInv
    <2>4. /\ Named(request) =>
               conclusion' = "allow" /\ at' = Len(layers) + 1
          /\ Refused(request) => conclusion' \notin Granting
      BY <1>1, <2>2, <2>3 DEF Granting, Final
    <2>5. at' \in Nat \ {0}
      BY <1>1, <1>a, <1>b
    <2>6. Named(request)' = Named(request) /\ Refused(request)' = Refused(request)
      BY <1>1 DEF Refused, Entitled, Named
    <2> QED
      BY <1>0, <1>1, <1>2, <1>a, <1>b, <2>4, <2>5, <2>6 DEF PolicyInv
  <1>4. CASE at # 0
    <2>1. c = SetsConclude(layers[at])[Len(layers[at])]
      BY <1>4 DEF LayerConclusion
    <2>2. layers[at] \in Seq(EvalSets) /\ at \in DOMAIN layers
      <3>1. at \in DOMAIN layers
        BY <1>1, <1>a, <1>b, <1>4
      <3> QED
        BY <1>a, <3>1 DEF SetLists
    <2> HIDE DEF c
    <2>3. c \in Granting => \E j \in DOMAIN layers[at] : Grants(layers[at][j])
      BY <2>1, <2>2, SetsGrant
    <2>4. ~Named(request)
      BY <1>1, <1>a, <1>b, <1>4
    <2>5. conclusion' \in Granting /\ Refused(request) =>
             \E i \in DOMAIN layers : \E j \in DOMAIN layers[i] : Grants(layers[i][j])
      BY <1>0, <1>1, <2>2, <2>3 DEF PolicyInv
    <2>6. at' \in Nat \ {0}
      BY <1>1, <1>a, <1>b
    <2>7. /\ Named(request)' = Named(request) /\ Refused(request)' = Refused(request)
          /\ \A set : Grants(set)' = Grants(set)
      BY <1>1 DEF Refused, Entitled, Named, Grants
    <2> QED
      BY <1>0, <1>1, <1>2, <1>a, <1>b, <2>4, <2>5, <2>6, <2>7 DEF PolicyInv
  <1> QED
    BY <1>3, <1>4

\* Resolving, evaluating and concluding keep the invariant.
LEMMA NextPolicyInv == PolicyInv /\ [PolicyNext]_policyVars => PolicyInv'
  <1> SUFFICES ASSUME PolicyInv, [PolicyNext]_policyVars PROVE PolicyInv'
    OBVIOUS
  <1>1. ASSUME next <= Len(stack), NEW down \in SUBSET Entries,
               NEW unread \in SUBSET DOMAIN stack[next].virtual,
               ResolveLayer(down, unread)
        PROVE  PolicyInv'
    BY <1>1, ResolvePolicyInv
  <1>2. CASE EvaluateLayer
    BY <1>2, EvaluatePolicyInv
  <1>3. CASE Conclude
    <2>1. /\ at > Len(layers) /\ verdict = "none"
          /\ verdict' = IF conclusion \in Granting THEN "permitted" ELSE "denied"
          /\ UNCHANGED <<request, stack, layers, next, conclusion, at>>
      BY <1>3 DEF Conclude, Granting
    <2>2. at \in Nat /\ layers \in Seq(SetLists)
      BY DEF PolicyInv
    <2>3. at # 0
      BY <2>1, <2>2
    <2>4. /\ Named(request)' = Named(request) /\ Refused(request)' = Refused(request)
          /\ \A set : Grants(set)' = Grants(set)
      BY <2>1 DEF Named, Refused, Entitled, Grants
    <2> QED
      BY <2>1, <2>3, <2>4 DEF PolicyInv
  <1>4. CASE UNCHANGED policyVars
    <2>1. /\ Named(request)' = Named(request) /\ Refused(request)' = Refused(request)
          /\ \A set : Grants(set)' = Grants(set)
      BY <1>4 DEF policyVars, Named, Refused, Entitled, Grants
    <2> QED
      BY <1>4, <2>1 DEF policyVars, PolicyInv
  <1> QED
    BY <1>1, <1>2, <1>3, <1>4 DEF PolicyNext

\* The global policy: whoever it names is never locked out, whatever policies
\* are attached below and whichever of them cannot be fetched.
THEOREM AlwaysEntitledPermitted == PolicySpec => []EntitledPermitted
  <1>1. PolicyInv => EntitledPermitted
    <2> SUFFICES ASSUME PolicyInv, verdict = "denied", Named(request) PROVE FALSE
      BY DEF EntitledPermitted, Named
    <2>1. at # 0
      BY DEF PolicyInv
    <2>2. conclusion = "allow" /\ conclusion \notin Granting
      BY <2>1 DEF PolicyInv
    <2> QED
      BY <2>2 DEF Granting
  <1> QED
    BY <1>1, InitPolicyInv, NextPolicyInv, PTL DEF PolicySpec

\* EvaluateStack: what the global policy refuses by default is permitted only
\* by a layer below with a policy that speaks for the requester.
THEOREM AlwaysGrantedBelow == PolicySpec => []GrantedBelow
  <1>1. PolicyInv => GrantedBelow
    <2> SUFFICES ASSUME PolicyInv, verdict = "permitted", Refused(request)
                 PROVE  \E i \in DOMAIN layers :
                          \E j \in DOMAIN layers[i] : Grants(layers[i][j])
      BY DEF GrantedBelow, Refused
    <2> QED
      BY DEF PolicyInv
  <1> QED
    BY <1>1, InitPolicyInv, NextPolicyInv, PTL DEF PolicySpec
==============================================================================
