----------------------------- MODULE Residence -----------------------------
(* One user's residence on a server: registration, unregistration, the        *)
(* collector, and conctl op delete-user with its backup.  The commands are    *)
(* several statements each; the user's commits go on in between, and a        *)
(* command may fail half way and be run again.                                *)
EXTENDS Integers

CONSTANTS
    Entities,   \* the user's entity documents, numbered by createdAt
    Records     \* other documents the user owns, disjoint from Entities

VARIABLES
    meta,       \* is there an entity_metas row?
    log,        \* the user's commit_logs: "absent", "live" or "flagged"
    entity,     \* the document of the entities row, 0 without one
    subs,       \* notification subscriptions the user has
    op,         \* the command under way on behalf of the user
    saved,      \* what delete-user has uploaded
    excused     \* history: a replayed or refused entity document left the
                \* registration without a live one

vars == <<meta, log, entity, subs, op, saved, excused>>

Docs == Entities \union Records
None == [name |-> "none"]
Lives == entity \in Entities /\ log[entity] = "live"
Present == {d \in Docs : log[d] # "absent"}

Init ==
    /\ meta = FALSE /\ entity = 0 /\ subs = 0
    /\ log = [d \in Docs |-> "absent"]
    /\ op = None /\ saved = {} /\ excused = FALSE

-----------------------------------------------------------------------------
\* Register: an older entity document is refused; the meta is saved first.
RegisterBegins(e) ==
    /\ op = None
    /\ entity # 0 => e >= entity
    /\ meta' = TRUE
    /\ op' = [name |-> "register", doc |-> e]
    /\ UNCHANGED <<log, entity, subs, saved, excused>>

\* Commit of an entity document: refused without a registration; a known
\* document is answered from the log; the newer one wins.
EntityCommitted(e) ==
    IF log[e] # "absent" \/ (entity # 0 /\ e <= entity)
    THEN /\ UNCHANGED <<log, entity>>
         /\ excused' = (excused \/ ~Lives)
    ELSE /\ log' = [log EXCEPT ![e] = "live"]
         /\ entity' = e
         /\ excused' = FALSE

RegisterCommits ==
    /\ op.name = "register"
    /\ EntityCommitted(op.doc)
    /\ op' = None
    /\ UNCHANGED <<meta, subs, saved>>

\* ... or the commit is refused (layer, alias, blocked): the meta stays.
RegisterRefused ==
    /\ op.name = "register"
    /\ excused' = (excused \/ ~Lives)
    /\ op' = None
    /\ UNCHANGED <<meta, log, entity, subs, saved>>

\* The user publishes an entity document or a record; the latter needs the
\* entities row.
CommitEntity(e) ==
    /\ meta
    /\ EntityCommitted(e)
    /\ UNCHANGED <<meta, subs, op, saved>>

CommitRecord(d) ==
    /\ entity # 0 /\ log[d] = "absent"
    /\ log' = [log EXCEPT ![d] = "live"]
    /\ UNCHANGED <<meta, entity, subs, op, saved, excused>>

Subscribe ==
    /\ entity # 0 /\ subs = 0
    /\ subs' = 1
    /\ UNCHANGED <<meta, log, entity, op, saved, excused>>

\* Mutant: the collector does not look at the flag.
CollectAny(d) ==
    /\ log[d] # "absent"
    /\ log' = [log EXCEPT ![d] = "absent"]
    /\ entity' = IF entity = d THEN 0 ELSE entity
    /\ UNCHANGED <<meta, subs, op, saved, excused>>

\* conctl op gc-commitlog: a flagged log goes, and its rows with it.
Collect(d) ==
    /\ log[d] = "flagged"
    /\ log' = [log EXCEPT ![d] = "absent"]
    /\ entity' = IF entity = d THEN 0 ELSE entity
    /\ UNCHANGED <<meta, subs, op, saved, excused>>

-----------------------------------------------------------------------------
\* Unregister: every log the user owns is flagged, then the meta goes.
Flagged == [d \in Docs |-> IF log[d] = "live" THEN "flagged" ELSE log[d]]

UnregisterFlags ==
    /\ op = None /\ entity # 0
    /\ log' = Flagged
    /\ op' = [name |-> "unregister"]
    /\ UNCHANGED <<meta, entity, subs, saved, excused>>

UnregisterMeta ==
    /\ op.name = "unregister"
    /\ meta' = FALSE
    /\ op' = None
    /\ excused' = FALSE
    /\ UNCHANGED <<log, entity, subs, saved>>

\* delete-user: what the server holds is read first.
DeleteUserBegins(backup) ==
    /\ op = None
    /\ meta \/ Present # {} \/ subs > 0
    /\ op' = [name |-> "delete", stage |-> IF backup THEN "backup" ELSE "purge",
              ids |-> {}]
    /\ saved' = {}
    /\ UNCHANGED <<meta, log, entity, subs, excused>>

\* The pages of the backup, and the uploads: nothing goes before their end.
Backup ==
    /\ op.name = "delete" /\ op.stage = "backup"
    /\ op' = [op EXCEPT !.stage = "batches", !.ids = Present]
    /\ saved' = Present
    /\ UNCHANGED <<meta, log, entity, subs, excused>>

Erase(batch) ==
    /\ log' = [d \in Docs |-> IF d \in batch THEN "absent" ELSE log[d]]
    /\ entity' = IF entity \in batch THEN 0 ELSE entity

\* Mutant: the backed-up run deletes by owner too.
BatchByOwner(batch) == batch \subseteq Present

\* Exactly the backed-up ids, in batches.
BatchOf(batch) == batch \subseteq op.ids

DeleteBackedUp(batch) ==
    /\ op.name = "delete" /\ op.stage = "batches"
    /\ batch # {} /\ BatchOf(batch)
    /\ Erase(batch)
    /\ op' = [op EXCEPT !.ids = op.ids \ batch]
    /\ UNCHANGED <<meta, subs, saved, excused>>

\* Without a backup: by owner, until a statement deletes nothing.
DeleteByOwner(batch) ==
    /\ op.name = "delete" /\ op.stage = "purge"
    /\ batch # {} /\ batch \subseteq Present
    /\ Erase(batch)
    /\ UNCHANGED <<meta, subs, op, saved, excused>>

DeleteSubscriptions ==
    /\ op.name = "delete"
    /\ \/ op.stage = "purge" /\ Present = {}
       \/ op.stage = "batches" /\ op.ids = {}
    /\ subs' = 0
    /\ op' = [op EXCEPT !.stage = "meta"]
    /\ UNCHANGED <<meta, log, entity, saved, excused>>

DeleteMeta ==
    /\ op.name = "delete" /\ op.stage = "meta"
    /\ meta' = FALSE
    /\ op' = None
    /\ excused' = FALSE
    /\ UNCHANGED <<log, entity, subs, saved>>

\* A command fails or is interrupted.
Abort ==
    /\ op # None
    /\ op' = None
    /\ excused' = (excused \/ ~Lives)
    /\ UNCHANGED <<meta, log, entity, subs, saved>>

Next ==
    \/ \E e \in Entities : RegisterBegins(e) \/ CommitEntity(e)
    \/ RegisterCommits \/ RegisterRefused
    \/ \E d \in Records : CommitRecord(d)
    \/ \E d \in Docs : Collect(d)
    \/ Subscribe
    \/ UnregisterFlags \/ UnregisterMeta
    \/ \E backup \in BOOLEAN : DeleteUserBegins(backup)
    \/ Backup
    \/ \E batch \in SUBSET Docs : DeleteBackedUp(batch) \/ DeleteByOwner(batch)
    \/ DeleteSubscriptions \/ DeleteMeta \/ Abort

Spec == Init /\ [][Next]_vars

-----------------------------------------------------------------------------

\* The step of a backed-up deletion takes no live commit that is not saved.
OnlySavedDeleted ==
    op.name = "delete" /\ op.stage = "batches" =>
        \A d \in Docs : log[d] = "live" /\ log'[d] = "absent" => d \in saved

\* deleteUser: with a backup, no commit is deleted that is not in it, though
\* commits arrive while it is taken and batches are deleted later.
DeletedIsSaved == [][OnlySavedDeleted]_vars

\* Register: a registered user has an entity that the collector will not take
\* away, except when the registration replayed a document an unregistration
\* had flagged, its commit was refused, or another command stopped half way.
RegisteredLives ==
    meta /\ op = None /\ ~excused => Lives
=============================================================================
