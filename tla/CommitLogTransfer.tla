------------------------- MODULE CommitLogTransfer -------------------------
(* Moving a server's repository: dump-commitlog pages through the commit log *)
(* by id, filter-commitlog drops lines, import-commitlog replays the file    *)
(* against another server, entity metas first, then entity commits, then the *)
(* rest.  Either side may be interrupted; the import is then run again.       *)
(* Every commit, on either server, is the same function of the server and    *)
(* the document, but for the policies and the blocks, which depend on more   *)
(* than the documents of the key (versions gc-commitlog took, other servers) *)
(* and may refuse, of the lines of an import, any record or delete.  A file  *)
(* lists its lines in the order of their ids, so it is the set of them.      *)
(* The date of a reference record is its own, and an author who is on        *)
(* neither server and cannot be resolved counts as a refusal.                *)
EXTENDS Integers, FiniteSets

CONSTANTS
    Ids,        \* of documents, in the order of their createdAt
    Doc,        \* [kind, author, owner (of the key), key] of a document
    Keys,       \* cckv keys
    Owners,     \* the entities whose documents these are
    PageSize,   \* dumpCommitlogPageSize
    MaxRuns     \* bound on the runs of import-commitlog

\* An entity document is its author's own.
ASSUME TransferAssumption ==
    /\ Ids \subseteq Nat \ {0}
    /\ Doc \in [Ids -> [kind : {"entity", "record", "delete"},
                        author : Owners, owner : Owners, key : Keys]]
    /\ \A d \in Ids : Doc[d].kind = "entity" => Doc[d].owner = Doc[d].author

VARIABLES
    source,    \* the exporting server
    dest,      \* the importing server
    dump,      \* dump-commitlog: [stage, cursor, metas, file]
    excluded,  \* filter-commitlog --exclude-owner
    import,    \* import-commitlog: [stage, pos: the last line read, failed: the
               \* lines rejected in this run, runs]
    moved,     \* history: the source changed after the dump began
    collected, \* history: ids gc-commitlog removed, which are too old to return
    lastDelete,\* history: the last delete applied to each key
    misdated,  \* history: a delete and a record of its key came against their dates
    refused    \* history: lines a policy or a block refused in some run

history == <<collected, lastDelete, misdated, refused>>
transferVars == <<source, dest, dump, excluded, import, moved, history>>

\* An empty server.  log: commit_logs; gc: those flagged; rec: the document at
\* each key, 0 for none; ent: the entity document of each owner; meta:
\* entity_metas.
EmptyServer(metas) ==
    [log |-> {}, gc |-> {}, rec |-> [k \in Keys |-> 0],
     ent |-> [o \in Owners |-> 0], meta |-> metas]

-----------------------------------------------------------------------------
\* An entity commit needs the registration, any other the author's entity, and
\* a delete the record it deletes.
Rejects(s, d) ==
    /\ d \notin s.log
    /\ CASE Doc[d].kind = "entity" -> Doc[d].author \notin s.meta
         [] Doc[d].kind = "record" -> s.ent[Doc[d].author] = 0
         [] Doc[d].kind = "delete" ->
                s.ent[Doc[d].author] = 0 \/ s.rec[Doc[d].key] = 0

\* A known id is answered at once.
Known(s, d) == d \in s.log

\* Commit: accept-if-newer for entities and records (a loser leaves no log), a
\* delete of whatever the key holds.
Committed(s, d) ==
    LET k == Doc[d].key
        o == Doc[d].author
        old == s.rec[k]
    IN  IF Rejects(s, d) \/ Known(s, d) THEN s
        ELSE CASE Doc[d].kind = "entity" ->
                    IF d > s.ent[o]
                    THEN [s EXCEPT !.ent[o] = d, !.log = @ \union {d}] ELSE s
               [] Doc[d].kind = "record" ->
                    IF d > old
                    THEN [s EXCEPT !.rec[k] = d, !.log = @ \union {d},
                                   !.gc = @ \union ({old} \ {0})]
                    ELSE s
               [] Doc[d].kind = "delete" ->
                    [s EXCEPT !.rec[k] = 0, !.log = @ \union {d},
                              !.gc = @ \union {old, d}]

-----------------------------------------------------------------------------
TransferInit ==
    /\ source = EmptyServer(Owners)
    /\ dest = EmptyServer({})
    /\ dump = [stage |-> "idle", cursor |-> 0, metas |-> {}, file |-> {}]
    /\ excluded = {}
    /\ import = [stage |-> "idle", pos |-> 0, failed |-> {}, runs |-> 0]
    /\ moved = FALSE
    /\ collected = {}
    /\ lastDelete = [k \in Keys |-> 0]
    /\ misdated = FALSE
    /\ refused = {}

\* Documents reach the source in any order, late ones included.
SourceCommits(d) ==
    LET k == Doc[d].key
    IN  /\ import.stage = "idle" /\ d \notin collected
        /\ source' = Committed(source, d)
        /\ source' # source
        /\ CASE Doc[d].kind = "entity" -> UNCHANGED <<lastDelete, misdated>>
             [] Doc[d].kind = "record" ->
                    /\ misdated' = (misdated \/ d < lastDelete[k])
                    /\ UNCHANGED lastDelete
             [] Doc[d].kind = "delete" ->
                    /\ misdated' = (misdated \/ d < source.rec[k])
                    /\ lastDelete' = [lastDelete EXCEPT ![k] = d]
        /\ moved' = (dump.stage # "idle")
        /\ UNCHANGED <<dest, dump, excluded, import, collected, refused>>

\* gc-commitlog --backup deletes in the order of ids and may stop at any batch.
SourceCollects(d) ==
    /\ dump.stage = "idle"
    /\ d \in source.gc /\ \A e \in source.gc : d =< e
    /\ source' = [source EXCEPT !.log = @ \ {d}, !.gc = @ \ {d}]
    /\ collected' = collected \union {d}
    /\ UNCHANGED <<dest, dump, excluded, import, moved, lastDelete, misdated,
                   refused>>

DumpMetas ==
    /\ dump.stage = "idle"
    /\ dump' = [dump EXCEPT !.stage = "paging", !.metas = source.meta]
    /\ UNCHANGED <<source, dest, excluded, import, moved, history>>

\* The rows of the next page: the ids after the cursor.
After(c) == {d \in source.log : d > c}

\* A page of rows whose last is row: a full one, or all that is left.
DumpPage(row) ==
    LET page == {d \in After(dump.cursor) : d =< row}
    IN  /\ dump.stage = "paging"
        /\ row \in page
        /\ \/ Cardinality(page) = PageSize
           \/ page = After(dump.cursor) /\ Cardinality(page) < PageSize
        /\ dump' = [dump EXCEPT !.cursor = row, !.file = @ \union page]
        /\ UNCHANGED <<source, dest, excluded, import, moved, history>>

\* An empty page ends the dump.
DumpEnds ==
    /\ dump.stage = "paging" /\ After(dump.cursor) = {}
    /\ dump' = [dump EXCEPT !.stage = "done"]
    /\ UNCHANGED <<source, dest, excluded, import, moved, history>>

\* A document by one of the owners, or in the namespace of one.
Concerns(os, d) == Doc[d].author \in os \/ Doc[d].owner \in os

\* filter-commitlog --exclude-owner.
Filter(o) ==
    /\ dump.stage = "done" /\ import.stage = "idle" /\ excluded = {}
    /\ excluded' = {o}
    /\ dump' = [dump EXCEPT !.file = {d \in @ : ~Concerns({o}, d)}]
    /\ UNCHANGED <<source, dest, import, moved, history>>

-----------------------------------------------------------------------------
\* import-commitlog starts, or starts again, by restoring the metas.
ImportMetas ==
    /\ dump.stage = "done"
    /\ import.stage \in {"idle", "stopped", "done"} /\ import.runs < MaxRuns
    /\ dest' = [dest EXCEPT !.meta = @ \union dump.metas]
    /\ import' = [stage |-> "entity", pos |-> 0, failed |-> {},
                  runs |-> import.runs + 1]
    /\ UNCHANGED <<source, dump, excluded, moved, history>>

\* Mutant: one phase for all lines.
WantedAll(stage, d) == stage = "entity"

\* commitPhase(true) takes the entity lines, commitPhase(false) the others.
Wanted(stage, d) == (Doc[d].kind = "entity") = (stage = "entity")

\* The lines of the file that are still to be read.
Unread == {d \in dump.file : d > import.pos}

\* d is the next line of the file.
Reading(d) ==
    /\ import.stage \in {"entity", "other"}
    /\ d \in Unread /\ \A e \in Unread : d =< e

ImportLine(d) ==
    /\ Reading(d)
    /\ dest' = IF Wanted(import.stage, d) THEN Committed(dest, d) ELSE dest
    /\ import' = [import EXCEPT
            !.pos = d,
            !.failed = IF Wanted(import.stage, d) /\ Rejects(dest, d)
                       THEN @ \union {d} ELSE @]
    /\ UNCHANGED <<source, dump, excluded, moved, history>>

\* A policy or a block refuses the line; neither is asked about an entity
\* document or one whose id is known.
ImportRefuses(d) ==
    /\ Reading(d) /\ Wanted(import.stage, d)
    /\ Doc[d].kind # "entity" /\ ~Known(dest, d)
    /\ import' = [import EXCEPT !.pos = d, !.failed = @ \union {d}]
    /\ refused' = refused \union {d}
    /\ UNCHANGED <<source, dest, dump, excluded, moved, collected, lastDelete,
                   misdated>>

ImportPhaseEnds ==
    /\ import.stage \in {"entity", "other"} /\ Unread = {}
    /\ import' = [import EXCEPT
            !.pos = 0,
            !.stage = IF @ = "entity" THEN "other" ELSE "done"]
    /\ UNCHANGED <<source, dest, dump, excluded, moved, history>>

\* A POST fails, with any part of its batch applied: the command ends.
ImportStops ==
    /\ import.stage \in {"entity", "other"}
    /\ import.runs < MaxRuns
    /\ import' = [import EXCEPT !.stage = "stopped"]
    /\ UNCHANGED <<source, dest, dump, excluded, moved, history>>

TransferNext ==
    \/ \E d \in Ids :
        \/ SourceCommits(d) \/ SourceCollects(d) \/ DumpPage(d)
        \/ ImportLine(d) \/ ImportRefuses(d)
    \/ DumpMetas \/ DumpEnds \/ \E o \in Owners : Filter(o)
    \/ ImportMetas \/ ImportPhaseEnds \/ ImportStops

TransferSpec == TransferInit /\ [][TransferNext]_transferVars

-----------------------------------------------------------------------------
\* The lines of a key.
Lines(k) ==
    {d \in dump.file : Doc[d].key = k /\ Doc[d].kind # "entity"}

\* No document of the key was filtered out.
Kept(k) ==
    \A d \in Ids : Doc[d].key = k /\ Doc[d].kind # "entity"
                     => ~Concerns(excluded, d)

\* No policy or block refused a document of the key.
Permitted(k) == \A d \in refused : Doc[d].key # k

\* A delete that comes first in the file: gc-commitlog took the record it
\* deleted and left the delete, which was not old enough.
Orphan(k, d) ==
    /\ d \in Lines(k) /\ Doc[d].kind = "delete"
    /\ \A e \in Lines(k) : d =< e

Orphaned(k) == \E d \in Ids : Orphan(k, d)

Settled == import.stage = "done" /\ ~moved /\ ~misdated

\* dump-commitlog and import-commitlog: once an import has run to its end, every
\* key of which no document was filtered out, or refused by a policy or a block,
\* holds what it held at the source, collected logs and deletes included; and a
\* line of such a key is rejected only if a delete comes first there, whose
\* record is not in the file.  The import may have been interrupted and
\* repeated, except for the keys of such deletes.  (Provided that deletes and
\* records of one key came in the order of their dates, in which the dump lists
\* them.)
ImportRestores ==
    Settled =>
        /\ \A d \in import.failed :
              LET k == Doc[d].key IN Kept(k) /\ Permitted(k) => Orphaned(k)
        /\ \A k \in Keys :
              Kept(k) /\ Permitted(k) /\ (Orphaned(k) => import.runs = 1)
                => dest.rec[k] = source.rec[k]

\* import-commitlog, "Import is idempotent [...] so re-running is safe": however
\* often it was run, an import that has run to its end has restored every key
\* of which no document was refused.
RerunSafe ==
    Settled => \A k \in Keys :
                   Kept(k) /\ Permitted(k) => dest.rec[k] = source.rec[k]

=============================================================================
