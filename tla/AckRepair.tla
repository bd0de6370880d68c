----------------------------- MODULE AckRepair -----------------------------
(* conctl op repair-anchored-acks, then repair-single-owner: the migration of *)
(* ack rows to one holding per side.  Each row is one transaction; the        *)
(* operator may be interrupted anywhere and repeats the command.  A document   *)
(* that cannot be parsed or derived from ends a run as an interruption does.   *)
EXTENDS FiniteSets

CONSTANTS Acks        \* the (from, to, schema) triples that have an acks row

VARIABLES
    local,     \* who is local: [Acks -> [from, to : BOOLEAN]]
    sameId,    \* acks whose beta mirror hashes to the derived document's id
    had,       \* history: the acks whose original could be found at first
    ack,       \* the acks rows
    ackLog,    \* commit_logs of the acks themselves
    mirror,    \* commit_logs with the legacy ack-reference proof
    ackedLog,  \* commit_logs of the derived acked documents
    acked,     \* the ackeds rows
    flagged,   \* ack logs disowned and flagged for collection
    anchors,   \* do the anchor columns exist?
    fk,        \* is the acks foreign key in place?
    cmd,       \* the running command: [name, stage]
    todo       \* the rows its batch loop has still to visit

db == <<ack, ackLog, mirror, ackedLog, acked, flagged, anchors, fk>>
repairVars == <<local, sameId, had, db, cmd, todo>>

Idle == [name |-> "none", stage |-> "idle"]

\* A beta database: every row has its ack commit, a mirror, both or neither.
RepairInit ==
    /\ local \in [Acks -> [from : BOOLEAN, to : BOOLEAN]]
    /\ sameId \in SUBSET Acks
    /\ ack = Acks
    /\ ackLog \in SUBSET Acks
    /\ mirror \in SUBSET Acks
    /\ had = ackLog \union mirror
    /\ ackedLog = {} /\ acked = {} /\ flagged = {}
    /\ anchors = TRUE /\ fk = FALSE
    /\ cmd = Idle /\ todo = {}

StartAnchored ==
    /\ cmd = Idle
    /\ cmd' = [name |-> "anchored",
               stage |-> IF anchors THEN "split" ELSE "sweep"]
    /\ todo' = IF anchors THEN ack ELSE {}
    /\ UNCHANGED <<local, sameId, had, db>>

Crash ==
    /\ cmd # Idle
    /\ cmd' = Idle /\ todo' = {}
    /\ UNCHANGED <<local, sameId, had, db>>

\* Mutant: the mirror's embedded copy is not consulted.
OriginalInLog(a) == a \in ackLog

\* The ack itself: its commit, else the copy the mirror's proof embeds.
Original(a) == a \in ackLog \union mirror

\* Mutant: the ack commit is not restored from the mirror.
RestoredNever(a) == {}

\* An acker-side commit that is missing is restored from the mirror.
Restored(a) == IF local[a].from /\ a \notin ackLog THEN {a} ELSE {}

\* Step 1, one row: the ackeds holding where the target is local and has none,
\* the ack commit where the author is local; elsewhere the row goes.  A mirror
\* with the derived document's id is rewritten in place.
SplitRow(a) ==
    LET holds == local[a].to /\ a \notin acked
    IN  /\ cmd.stage = "split" /\ a \in todo
        /\ todo' = todo \ {a}
        /\ IF ~Original(a)
           THEN /\ ack' = ack \ {a}
                /\ UNCHANGED <<ackLog, mirror, ackedLog, acked>>
           ELSE /\ acked' = IF holds THEN acked \union {a} ELSE acked
                /\ ackedLog' = IF holds THEN ackedLog \union {a} ELSE ackedLog
                /\ mirror' = IF holds /\ a \in sameId THEN mirror \ {a}
                             ELSE mirror
                /\ ackLog' = ackLog \union Restored(a)
                /\ ack' = IF local[a].from THEN ack ELSE ack \ {a}
        /\ UNCHANGED <<local, sameId, had, flagged, anchors, fk, cmd>>

\* Step 2.
DropAnchors ==
    /\ cmd.stage = "split" /\ todo = {}
    /\ anchors' = FALSE
    /\ cmd' = [cmd EXCEPT !.stage = "sweep"]
    /\ UNCHANGED <<local, sameId, had, ack, ackLog, mirror, ackedLog, acked,
                   flagged, fk, todo>>

\* Step 3, in batches: what still has the legacy proof is deleted.
SweepMirrors(batch) ==
    /\ cmd.stage = "sweep" /\ batch # {} /\ batch \subseteq mirror
    /\ mirror' = mirror \ batch
    /\ UNCHANGED <<local, sameId, had, ack, ackLog, ackedLog, acked, flagged,
                   anchors, fk, cmd, todo>>

\* Steps 4 and 5: the schema is brought up to date; the new foreign key needs a
\* commit for every acks row.
Migrate ==
    /\ cmd.stage = "sweep" /\ mirror = {}
    /\ ack \subseteq ackLog
    /\ fk' = TRUE
    /\ cmd' = Idle
    /\ UNCHANGED <<local, sameId, had, ack, ackLog, mirror, ackedLog, acked,
                   flagged, anchors, todo>>

\* repair-single-owner, started under the new build.
StartSingleOwner ==
    /\ cmd = Idle /\ fk
    /\ cmd' = [name |-> "single", stage |-> "holdings"]
    /\ todo' = ack
    /\ UNCHANGED <<local, sameId, had, db>>

\* Steps 3 and 4, one batch: holdings first, then the receiving-side copies are
\* disowned.
SingleOwnerBatch(batch) ==
    LET holds == {a \in batch : local[a].to /\ a \notin acked}
        away == {a \in batch : ~local[a].from}
    IN  /\ cmd.stage = "holdings"
        /\ batch # {} /\ batch \subseteq todo
        /\ acked' = acked \union holds
        /\ ackedLog' = ackedLog \union holds
        /\ ack' = ack \ away
        /\ flagged' = flagged \union (away \intersect ackLog)
        /\ todo' = todo \ batch
        /\ UNCHANGED <<local, sameId, had, ackLog, mirror, anchors, fk, cmd>>

SingleOwnerEnds ==
    /\ cmd.stage = "holdings" /\ todo = {}
    /\ cmd' = Idle
    /\ UNCHANGED <<local, sameId, had, db, todo>>

\* Meanwhile a local entity may move: its documents are no longer local, or
\* those of a newcomer are.
Move(a, l) ==
    /\ cmd = Idle /\ fk /\ l # local[a]
    /\ local' = [local EXCEPT ![a] = l]
    /\ UNCHANGED <<sameId, had, db, cmd, todo>>

RepairNext ==
    \/ StartAnchored \/ Crash \/ DropAnchors \/ Migrate
    \/ \E a \in Acks : SplitRow(a)
    \/ \E batch \in SUBSET Acks : SweepMirrors(batch) \/ SingleOwnerBatch(batch)
    \/ StartSingleOwner \/ SingleOwnerEnds
    \/ \E a \in Acks, l \in [from : BOOLEAN, to : BOOLEAN] : Move(a, l)

RepairSpec == RepairInit /\ [][RepairNext]_repairVars

-----------------------------------------------------------------------------

\* repair-anchored-acks: whatever interrupted it, the migration at its end
\* cannot fail on the foreign key, because every acks row has its commit.
MigrationPossible == ~anchors => ack \subseteq ackLog

\* Every ack whose original existed is held where it is wanted after the step.
Preserved ==
    \A a \in had :
        /\ local[a].to => a \in acked' /\ a \in ackedLog'
        /\ local[a].from => a \in ack' /\ a \in ackLog'

\* repair-anchored-acks.go: "Each step is idempotent, so a partial run can
\* simply be repeated": no ack whose original existed is lost to a side that is
\* local when the first run ends, though the mirrors it came from are deleted.
NoAckLost == [][fk' /\ ~fk => Preserved]_repairVars
=============================================================================
