# Concrnt: a TLA+ model of the server

Concrnt is a federated microblogging server. Users sign documents; a server
accepts ("commits") them into Postgres, derives further documents from them and
ships those to other servers through a Redis job queue. A deployment may run
several replicas behind one database, of which one leads and runs the singleton
workers.

This directory models the parts of the server where order, concurrency, failure
and time decide whether it is right, checks them with TLC on small instances and
proves the most important facts with TLAPS for every instance. `PROJECT.json`
lists the components, the runs, which source lines each definition models, the
hazards of the code and the theorems.

## 1. Inventory

| Component | State | Operations | What makes it correct |
|---|---|---|---|
| Commit pipeline (`usecase/record/commit.go`) | none of its own; one Postgres transaction per commit | deduplicate by commit log, bound `createdAt`, verify, resolve author and target, dispatch by kind, commit or roll back, invalidate caches, run post-processes | a document is applied at most once; a no-op leaves no trace; what is derived is delivered |
| Records and keys (`record.go`, `postgres/record.go`) | `commit_logs`, `records`, `record_keys` | accept-if-newer upsert of a key, clean-up of what it supersedes | the newest document wins for every arrival order; no row is orphaned |
| Deletes (`delete.go`) | the same | single, range, by-id and forwarded deletes, sweep of reference records | a deletion is permanent against replay |
| Commit-log collection (`cmd/conctl/gc-commitlog.go`) | `gc_candidate` flags | collect old flagged logs, with or without a backup | tombstones outlive the backdate window; live documents are spared, but those of a user who left |
| Job queue (`infra/jobqueue/redis.go`) | stream, consumer group, retry set, dead-letter stream | enqueue, consume, reclaim, retry, move, dead-letter, reinject, purge | at-least-once; attempts are charged to genuine failures; the queue drains |
| Delivery (`deliver.go`) | delivery jobs | resolve, publish or commit locally, commit remotely | every derived document reaches the server its target lives on |
| Acks (`ack.go`) | `acks`, `ackeds` | ack, unack, acked, unacked | both servers converge on the newest |
| Entities (`entity.go`) | `entities` | accept-if-newer of affiliations, inlined documents, rechecks by hint | outdated copies are replaced and never win |
| Leader election (`infra/cluster/elector.go`, `cmd/k8s-elector`) | polled status, leadership context | poll, start and cancel workers; acquire, renew, release a lease | no two leaders; stale leadership is bounded |
| Realtime subscriptions (`worker/LeaderSubscriber.go`, `WorkerSubscriber.go`, `SubscriberManager.go`) | demand per replica, sockets, listen sets | aggregate, dial, listen, purge, reconnect | what some replica wants is listened to in the end, and nothing else for ever |
| Chunkline reads and cache (`gateway/chunkline_gateway.go`) | memcached iterators and bodies | load, fill, prepend on events, invalidate | a cached chunk neither misses nor repeats a record |
| Associations (`association.go`) | `associations` | create once per unique key, deliver | one association per owner, author and variant |
| Residence (`usecase/residence`, `delete-user.go`) | `entity_metas`, the user's commit logs, notification subscriptions | register, unregister; delete a user with or without a backup | a registered user has a live entity document; nothing unsaved is deleted |
| Export and import (`commitlog.go`, `replication.go`, `dump-`/`import-commitlog.go`) | a file or a page cursor | dump, page, replay | an import reproduces the exporter's tables |
| Queries (`query.go`, `read.go`) | none | page by time or key | no row is skipped or repeated between pages |
| Policy engine (`policy/`, `service/policy.go`) | none | resolve the layers, evaluate the global policy and each layer, conclude | the entitled are never locked out; failures grant nothing |
| Proof verification (`verify.go`, `crypto.go`, the login of the auth middleware) | none | follow the proof types; open a session for a raw key or a subkey | every accepted document and session leads back to its author's key |
| Notifications (`NotificationReactor.go`) | subscriptions, workers, claims, unread counter | claim, count, push, give a claim back, reset | an event handed to a worker is pushed; the badge does not outlive the counter |
| Federation client (`client/`) | caches, online state | resolve, fetch, commit, batch, probe | a verified read is given a verified document; a host that answers again comes online |
| Ack repair (`repair-anchored-acks.go`, `repair-single-owner.go`) | the ack tables of a beta database | split rows, restore originals, sweep mirrors, migrate | interruptions lose no ack and do not block the migration |
| REST layer, health watchdog, identifiers, migrations | - | parsing, formatting, deadlines, one-off tools | - |

How they interact. A REST handler calls `Commit`; `Commit` calls the kind's use
case inside a transaction, and afterwards runs its post-processes, which enqueue
delivery jobs. The queue's workers call `Deliver`, which resolves the target's
server from this server's own copy of the entity document (through the client's
cache) and calls `Commit` there, directly or over HTTP. Commits publish realtime
events that the subscription workers of the leading replica forward and the
chunkline cache applies. `gc-commitlog` and `import-commitlog` work on the same
tables from the outside.

Where it is hard. `Commit` reads (commit log, entities, targets of a delete)
before its transaction and uses what it read inside it; replicas share only
Postgres, Redis and memcached; a crash separates the transaction from its
deliveries; deliveries are retried, duplicated and reordered; tombstones, the
backdate window and the collector form a protocol over time; leadership is a
cached answer about a lease. `PROJECT.json` lists each of these under `hazards`
at the line where it bites.

## 2. Modules

| Module | Models | Instances / proofs |
|---|---|---|
| `CommitStore` | `Commit` for records and deletes, their SQL, `gc-commitlog` | `MCCommitStore`; `CommitStoreProofs` |
| `RecordTree` | `record_keys` as a tree, associations, paging of the listings | `MCProgress`; `RecordTreeProofs` |
| `JobQueue` | `RedisJobQueue`; implements the abstract `JobService` | `queue.cfg`; `JobQueueProofs` |
| `AckFederation` | entity documents, acks and their deliveries between servers | `MCFederation`; `AckFederationProofs` |
| `Elector` | `HTTPElector` and the Kubernetes sidecar | `MCServices`, `v_overlap.cfg`; `OperationProofs` |
| `Subscriber` | `LeaderSubscriber` with the demand of managers and workers | `MCSubscriber`; `SubscriberProofs` |
| `ChunklineCache` | the cached chunks of a remote timeline, purges, events, the workers' view | `MCFederation`, `v_chunk.cfg`; `ChunklineProofs` |
| `ChunklineQuery` | `QueryDescending` over the origins' chunks | `MCServices`; `ChunklineProofs` |
| `CommitLogTransfer` | `dump-`, `filter-` and `import-commitlog` | `MCTransfer`, `MCServices`; `OperationProofs` |
| `LogFollower` | the replication endpoint and who follows it | `MCProgress` |
| `AckRepair` | `repair-anchored-acks`, `repair-single-owner` | `MCServices`; `ServiceProofs` |
| `Residence` | `Register`, `Unregister`, `delete-user`, against commits and collector | `MCServices`; `ServiceProofs` |
| `RecordCache` | the client's caches of resources and verifications | `MCServices`; `ServiceProofs` |
| `PeerStatus` | the client's online state and its keeper | `MCProgress` |
| `ProofChain` | `SignedDocument.Verify` and the login | `MCServices`; `ServiceProofs` |
| `PolicyEngine` | the policy service and the default policy | `MCServices`; `ServiceProofs` |
| `Notifications` | the notification reactor, its claims, counter and badge | `MCProgress`; `ServiceProofs` |

Composition. `AckFederation` composes commits, queue and client of several
servers for acks; `Subscriber` composes the leader with the managers, sessions
and workers that feed it; `ChunklineCache` composes readers on leader and workers
with the purges `Subscriber` triggers. `MCServices`, `MCProgress` and `MCFederation`
hold components that share no state: a behaviour chooses one of them (`which`) and
takes only its steps. Every component has its own variables, the ones its theorems
are about; where several are extended by one module, the names of the specification
carry the component's (`RepairInit`, `CacheNext`, `AckTypeOK`, `electorVars`).

### CommitStore

State: the three tables (`log`, `records`, `keyRow`), the requests in flight
(`req`), the clock, the ids a running collection has backed up (`gcIds`) and two
history variables, `removedBy` and `departed`. A request is one action per statement:
`Submit`, `HasCommitLog`, `CheckCreatedAt`, then for a record `CreateCommitLog`,
`LockRecordKey` (`SELECT ... FOR UPDATE`, which locks nothing when there is no
row), `UpsertRecordKey` or `LoseUpsert`; for a delete `ReadTargets` (outside the
transaction), `CreateCommitLog`, `ResolveTarget` / `DeleteTarget` /
`SweepDestination` for every target, `CommitDelete` or `NoopDelete`. The
transaction's writes appear when it commits (READ COMMITTED); until then it
holds row locks, which other requests wait for. `Abort` is every rejection and
every crash. The collector is `GcNoBackup`, or `GcCollect` followed by
`GcDeleteBackedUp` or `GcUploadFails`. `Unregister` is the statement a departing user's
logs are flagged with (`MarkCommitLogsGcCandidateByOwner`): all of them, also those
of documents that keys hold, which the collector then takes with their rows;
`departed` remembers which documents that concerns. The other statements of
`Unregister` and of `delete-user` are in `Residence`.

Documents are abstract: `Doc` says of each its kind, times, key, whether it asks
for history (`onUpdate=retain`), where its reference records live and what a
delete addresses. Proofs, requester resolution, blocks and policies are a
rejection that may or may not happen; a delete by `ccfs` id of a document that nobody
holds is refused when its policies are looked up (`postgres/record.go:422`), which is
one of these. `parent_id` and associations are in
`RecordTree`; the post-processes of acks in `AckFederation`.

### RecordTree

State: the `record_keys` rows with their surrogate ids and `parent_id`, the
associations, the record commits in flight (`tx`), deletes left, and a reader with
its listing, cursor and what it was given. Ids come from a sequence and are only
ever compared, so the model names a row by its key and the number of deletes before
it (`NewId`). `FindParent` goes up from the key to the first ancestor that has a row
(`found` keeps its id, as the code does in a variable) and inserts placeholders for
the ancestors in between (`fresh`, which other commits wait for); `Upsert` writes
the key and commits (a row that another commit has locked or inserted is waited
for); `Rollback` is any failure; `Delete` cascades to the row, and to the
associations of the target, while children, and commits in flight, keep the id of a
parent that is gone. `BeginReading` and `ReadPage` are requests for a page: by
parent or by prefix in `created_at` order, by key, or of associations; the cursor is
the sort value of the last row, and `paginateWindow`'s inclusive bound and its way
out of a full page of one instant are `InRange` and `NextCursor`. `lost` (with
`stale` of a commit in flight) and `stayed` are histories: children whose parent row
went away after it was looked up, rows listed during the whole reading.

### JobQueue and JobService

State: the stream (`entry`, `backlog`, `pending`), what each consumer, reclaimer
and mover has in hand, the retry set, the dead letters, history variables. An
action is one Redis command with the decision that leads to it; loops of several
replicas interleave at every command. `Stop` and `MoverStops` are a crash or a
shutdown; any Redis write may fail; an operator may reinject: these mishaps share
one bound, `MaxMishaps`. `MAXLEN` may drop the oldest entries. Backoff is "some
time later"; a reclaimer may claim every pending message that no consumer is
running, since a handler's limit is shorter than `claimMinIdle`; it may take over
what another reclaimer still has in hand, since the idle time counts from
delivery and a message waits behind a batch.

`JobService` is what a producer is promised: an accepted job is `due`, `parked`
or settled (`succeeded`, `discarded` by an operator, or `forfeited` because the
store trimmed or refused a copy), and a job leaves `due` only for one of these.
The refinement mapping takes `due` to "there is a copy in stream, hands or retry
set", so a crash between any two commands has to keep one; `AtLeastOnce ==
Service!Spec` is checked by TLC.

### AckFederation

State: per server its copy of the two users' entity documents, the `acks` and
`ackeds` rows with their commit logs, commits that have read who is local and
are not applied yet, post-processes still to run (`outbox`) and delivery jobs;
one (acker, target, schema) key, because the tables are keyed by it. `BeginAck`
and `CommitAck` are `Commit` and `processAck` on the acker's server,
`PostProcess` enqueues, `Resolve` and `Deliver` are the two halves of `Deliver`,
`CommitAcked` is `processAck` on the target's server together with its answer,
`DeliverFails` a failure or a timeout (the commit may still be in flight),
`Rerun` a worker that stopped, `ReplayAcked` an import of the target's own dump.
`past` are replaced entity documents that a client cache may still serve.
`undelivered` records the newest acks whose delivery was given up.

### Elector

One clock in whole seconds; a timer that is due stops the clock until its step
is taken, so processes are assumed to be scheduled on time. `PollTick`,
`Status`, `Fetched` and `FetchFails` are one iteration of `HTTPElector.Run`,
`SidecarStops`/`SidecarStarts` the sidecar's life, `Restart` the replica's.
`Acquire`, `Renew` and `GiveUp` are client-go's elector, external, modelled from
the configuration `k8s-elector` passes to it: a renewal deadline counted from the
last renewal, and a release when the context is cancelled (`ReleaseOnCancel`, which the
code sets). All instances have the deployed times. A fetch times out no
later than the next tick.

### Subscriber

State: the sessions of every replica, the leader's map `subs` (per host the prefixes,
the connection's id, whether it is up or being dialled), connections with the listen
set their server has, listen messages being written (`out`), the steps of each
`EnsureSubscriptions` and of each term's keeper (`job`), marks that spare freshly asked
prefixes. A lock section is one action; dials, writes, HTTP to the workers and closes
are outside the lock and are actions of their own: `KeeperTick`, `PollApply`,
`EnsureRequest`, `EnsureMerge`, `DialDone`, `DialFails`, `WriteListen`, `ConnBreaks`,
`ConnCleanup`, `Repair`, `Prune`, `KeeperEnds`. `WriteListen` is the moment a request
reaches the remote, which replaces its whole set (`conn.listen`) by the one the request
was built with (`ListenSet`); requests of several calls for one socket may be written
in any order, and `conn.crossed` remembers the sockets on which two were ever under way
at once. `DemandServed` asks for both sides: the prefix is tracked over an open socket,
and the remote was last told a set that holds it. `Start` and `Demote` are the
elector's callbacks; a later term may begin while the loops of the one before still
end.

### ChunklineCache and ChunklineQuery

`ChunklineCache` follows one remote timeline: `latest` chunk, the origin's
records, the cached iterator and body of each chunk, the leader's subscription,
purges and the replayed purge as timers, events on the wire, the workers' cached
view of the cluster's demand with its age, and the reads. A read is `Lookup`,
`StoreItr`, `Load` and `StoreBody`, one memcached call or fetch each; an event is
`Repoint` (iterator) and `Prepend` (body). A subscription opens in four steps: the
socket is installed (`OpenSub`), the listen request is written (`Listen`), the leader
purges at once (`PurgeOpen`), without waiting for an answer, and the origin handles
the request, before or after the purge or never (`Register`, `fed`). A post makes an
event only while the origin has the registration. `EventLost` is an event that the
relayer cannot publish or the updater cannot resolve or prepend, `PurgeFails` a purge
that cannot resolve its timeline; neither closes the subscription. `unheard` are the
records of whose existence the cache is not told in one of these ways. Time only
drives the age of that view and the timers of the replayed purge.

`ChunklineQuery` is the merge loop on top of it, over chunks served as the origins
compute them: `LookupItr` and `LoadBody` are the two SQL queries, `Begin` loads the
first chunks, `Pop` takes the newest head of the priority queue and reloads an older
chunk when its own is used up, `End` is any of the loop's three exits, among them
`itrlimit` (`MaxPops`). Bodies overlap: one reaches back over the chunk before its
own, or as far as `BodyLimit` items go. `QueryExact` compares the list with its
meaning, for the timelines that entered the queue; which those are is part of the
code (see the end of section 3).

### CommitLogTransfer and LogFollower

`CommitLogTransfer` has two servers with the same `Committed` function (a known id
is answered from the log, a delete of a key that holds nothing is rejected and
leaves no log), the dump's cursor and file, the filter and the import's phases
(metas, entity commits, the rest), each of which goes over the file again;
`ImportStops` interrupts a run, which is then repeated. The file lists its lines in
the order of ids, so it is the set of them, and `ImportLine` takes the least line
not read yet. Sources go on committing and collecting while they are dumped
(`moved`); the property speaks of sources that did not. A delete and a record of the
same key that arrived against their dates (`misdated`) are excluded: the dump orders
them by date, so the destination may end up with the other one. The collector
removes flagged logs oldest first and may stop between a deleted record and its
delete: such an `Orphan` delete is rejected at the destination, and only a single run
is sure to restore its key (`v_import`). `ImportRefuses`: the importer commits line by
line as anybody does, so policies and blocks are asked again, at the destination and
at that moment, and may refuse a line the source had accepted (a child by another
author whose parent's policy was overwritten since, a new block); entity documents
and known ids are not asked about. Which lines are refused is left open: any may be,
in every run anew. A document has an author and the owner of its key, who may differ,
and the filter drops it for either (`Concerns`). `ImportRestores` speaks of the keys of
which no line was filtered out (`Kept`) or refused (`Permitted`); a refusal must not
reach further than its key. Left out: the dump has no `References`, so a reference
record is dated by itself at the destination, which matters only where another
document of its key is dated between the two.

`LogFollower`: `c_date` is set by `Insert`, the row appears with `TxCommits`; the
follower asks for `c_date >= since`, at most `Limit` rows. Rows that appear behind
its cursor are `overtaken`. A page of which one document cannot be read for another
reason than a denial fails whole and is asked for again, which changes nothing.

### AckRepair and Residence

`AckRepair` starts in every beta database (each row with or without its commit,
its mirror, and with local or remote sides) and runs the two commands row by row or batch by
batch, with a crash anywhere and any number of repetitions; users may move between
runs. `Residence` has one user's meta row, entity row, commit logs and
subscriptions; `Register`, `Unregister` and `delete-user` are several statements
each, with the user's commits and the collector in between, and `Abort` ends a
command half way. Rows whose documents `repair-anchored-acks` cannot parse or derive
from are kept and reported by it, and are left out.

### RecordCache and PeerStatus

`RecordCache`: one record, its two cache entries and the remembered verification.
A call is `Begin` (cache), `Ask` (the peer answers with the version it holds, or
with a document that does not verify), `Fill`, `Check`; a commit invalidates entry after
entry. `PeerStatus`: a host is a server, a plain web host, broken or silent and may
change; callers and the keeper's probe are two steps each, so verdicts cross. A
timeout marks the host for every kind of request, a batch included; a web socket that
cannot be dialled marks it whatever the reason.

### ProofChain and PolicyEngine

`ProofChain`: `Verify` for each proof type over a universe of honest and forged
documents, along chains of at most four (`MaxVerifyDepth`); a peer may answer with
any document for a subkey URI, and a reference's target may be inlined by the
submitter. Signatures are perfect: who signed is a
field. `PolicyEngine` resolves layer after layer (any of whose policies may be
down) and evaluates them; its conclusions are those of `Conclusion.Or`, and the loops
over statements, policies and virtual parents are recursive functions of the number
of elements done. `Entitled` is whom the default policy names: nobody for creating
and reading associations, which it leaves to its default.

### Notifications

State: the subscription row and each replica's worker with the row version it was
started for, inboxes, the push under way, claims in Redis, the counter and what the
device shows. `Sync` starts and stops workers, `Claim`, `Count`, `Push`, `PushFails`,
`Release` are the steps of one event, `ResetCounter` and `ResetPush` of a reset.
`PushHangs`: the push has neither a context nor a time limit, so it may never return,
whether it reached the device or not; its worker is stuck and its claim stays (`hung`).
`Sync` may take the subscription away from a stuck worker and start another. The claim
may also fail to be given back. Two replicas may both believe that they lead.

## 3. Runs

| Run | Instance | Shows |
|---|---|---|
| `commit_overwrite` | an older record, a newer one that asks for history and a delete, one key, a record of another user, either of whom may unregister, three requests, clock to 3 with windows of 1 | `TypeOK`, `DeletionPermanent`, `GcSparesLive`, `AcceptIfNewer` |
| `commit_import` | a post, its reference record, and a range, a by-id, a forwarded and a stray delete; two requests (symmetric), imports exempt from the window | `TombstoneCoversWindow` |
| `queue` | a job and an unparseable one, one consumer, two reclaimers, one mover, a stream of length 1, two attempts, one mishap; fairness | `TypeOK`, `BudgetSpentOnFailures`, `AtLeastOnce` (refinement of `JobService`), `EventuallyDrained` |
| `realtime` | one remote host; either two terms and one prefix, or one term and two prefixes; the leader and a worker replica whose sessions come and go, one request besides the keepers, two sockets, one fault, one change of demand; fairness | `NoLeakedConnection`, `EnsuredStays`, `DemotionCloses`, `DemandServed` |
| `federation` | see below | `TypeOK`, `LatestComplete`, `ReplaySweeps`; `AckTypeOK`, `AckedFollows`, `NewestReaches` |
| `services` | see below | `ImportRestores`; `MigrationPossible`, `NoAckLost`; `DeletedIsSaved`, `RegisteredLives`; `VerifiedGiven`, `StaleOnlyByRace`; `AuthorConsents`; `EntitledPermitted`, `GrantedBelow`; `TypeOK`, `LeadershipBounded`; `QueryExact` |
| `progress` | two hosts and a caller; four commits, pages of 2, one hidden; two events of one record on two replicas with a fault, an edit and a reset; a parent with two children and a grandchild, five documents, an association, pages of 2, two writers, one delete, a document the reader may not see | `OnlineAgain`; `FollowerCatchesUp`; `EventPushed`, `BadgeClears`; `ChildrenListed`, `PagingComplete`, `PagingEnds` |
| `v_replay` | as `commit_overwrite`, two copies of one document in flight | `DeletionPermanent` is violated |
| `v_chunk` | `ChunklineCache` with a read on the leader | `CachedLatestComplete` is violated |
| `v_import` | `MCTransfer`, as in `services` | `RerunSafe` is violated |
| `v_overlap` | `Elector` with two replicas, deployed timers and early release, a clock to 30 | `NoOverlap` is violated |
| `v_listen` | `MCSubscriber` with the leader alone, one term, two prefixes and no faults; fairness | `DemandListened` is violated |

`services` instantiates: a transfer of seven documents of two owners in pages of
two, with two runs of the import; two acks to repair; a user with two entity
documents and two others; two readers of a record with two versions and one bogus
answer; thirteen documents, honest and forged, of two authors; requests of a user on
stacks of policies that agree, conflict and cannot be evaluated; one replica with its
sidecar under the times of the code (lease 15, renewal deadline 10, polls every 2,
fetches of at most 2, grace 10, early release) and a clock to 28, past `StaleLimit` (26
with these); and a query over two timelines with the instants 2, 3, 5 and 7, chunks of
two and bodies of two items, two items that may be at several instants, an item that
may be removed, `until` 7 and limits 1 and 3. `MaxPops` is 5: some queries end because
of it, and most do not.

`federation` instantiates: a chunk cache with two records, two chunks, a worker's
reads, two changes of demand and one crash, eviction, lost event, failing purge or
broken socket, TTL and fetch time 1 and a replay after 2; and two servers with a target
that moves, an ack with a simultaneous and a later unack, two attempts and two commits
in flight. Records, and the two simultaneous documents, are symmetric.

Distinct states: `federation` 1.8 million (cache 0.9, acks 0.8), `services` 2.1
million, `commit_import` 1.2 million, `realtime` 588 thousand, `commit_overwrite` 469
thousand, `progress` 370 thousand (trees 185, pushes 152, hosts 25, follower 9).

Why the bounds suffice. The commit store decides per key and per document, so two
keys (one below the other), a pair of competing records and one delete of each
form meet every branch; three requests are a record, a rival and a delete at
once. Windows of one second separate "inside", "at the edge" and "outside", and a
clock that runs to 3 passes all of them. In the queue one job with two attempts
takes every path from enqueue to dead letter, a stream of length 1 makes `MAXLEN`
bite at once, and the second job is the one it drops. In the federation two
servers are enough for every pair of acker's and target's home, including the same
one, and two commits in flight for a late one to be overtaken. The election's
property is about one replica at a time, whose clock passes the end of its lease and
`StaleLimit`; what two do to each other is `v_overlap`. In `realtime` two terms and two
sockets let an old term's dial finish in a new one, and one change of demand
covers a prefix that goes or comes while the keeper works; two prefixes of one host
make its listen set change while a request is being written; the two together are not
checked (the theorems about sockets and pruning have no such bound). Prefixes of this
server itself (`Local`) are not exercised, nor is the number of prefixes at which the
remote cuts a set. In the chunk cache two chunks are the latest and the one
before it, which is all the purges address (the query's four instants lie in three
chunks, so that bodies are cut, overlap and skip a chunk). In the
tree of keys three levels make a commit create two placeholders at once, the rows of a
subtree in pages of two force a second page, and three rows of one `created_at` more
than a full page of one instant. The cache's timers satisfy `ReplayAssumption`
(TTL plus fetch time at most the replay's delay) with nothing to spare; 3 s, 2 s and
8 s in the code leave some.

What the properties exclude is named in them. `GcSparesLive` is checked, and proved,
where one collection runs at a time, commits respect the window and no two copies of a
document are in flight; it excludes documents whose owner unregistered after they were
committed, whose erasure is what the flag is for. `DemandServed` excludes, in its
second half, sockets on which two listen requests were under way at once (`v_listen`
shows why). `EnsuredStays` excludes polls and forwards that were lost (`budget.lost`),
demand a call is only about to ensure and a keeper whose term is over. `LatestComplete`
excludes records posted between a read's fetch and its store (`v_chunk` shows why) and
those the cache was never told of (`unheard`), `ImportRestores` keys with a filtered or
refused line, `ReplaySweeps` reads that were told an aggregate past its TTL,
`StaleOnlyByRace` an answer under way at an invalidation, `FollowerCatchesUp` commits
that appear behind the cursor, `PagingEnds` more rows of one `created_at` than a page
holds, `EventPushed` events of which a push failed or hung, a claim was lost or a
worker stopped, and those in the inbox of a worker that is stuck itself,
`RegisteredLives` replayed and refused documents and commands that stopped. Most
exclusions are a history variable set by the step that causes it, so what remains is
still checked for every interleaving; each is also something the code really does, and
is listed in the next section or among the hazards.

Fairness. `queue`: weak fairness of reading, reclaiming, processing and moving, because
`Run` keeps these loops going until it is told to stop, handlers run under a time
limit, and a replica that crashed is started again. `realtime`: the keeper's loop,
ensures under way, listen writes, the end of a dial (dials have a timeout) and the read
loop's clean-up. `progress`, where each property names its own: a reader that keeps
following `next`; for hosts, that backoffs and verdicts run out, the keeper's ticker
ticks and its probe ends; for the follower, that it keeps polling; for notifications,
that a worker which is not stuck goes on with its events, and not that a push returns
(the properties are stated for one of two interchangeable events and replicas).
Producers, operators, sessions, crashes and faults are never forced. Deadlock is not
checked: a behaviour may end because documents, faults, changes or time are used up.

### What the code does that its comments do not say

With a run of its own:

* `v_replay`: `HasCommitLog` is asked before the transaction and
  `CreateCommitLog` ignores a conflict. Two copies of a document both find it
  unknown; one commits, the document is deleted, and the other commits then.
  `domain/commit.go:19` says that the tombstone "makes a deletion permanent
  against replay". With one copy in flight at a time this is proved.
* `v_chunk`: `LoadChunkBodies` adds what it fetched if the key is free. A body
  fetched before a record was posted may be added after the record's event found
  nothing to prepend to; the purge after the listen does not help when it comes
  before the add. `chunkline_gateway.go:925`: "a racing origin fetch at worst
  duplicates the record".
* `v_import`: a delete that is rejected leaves no commit log, so a second run of
  `import-commitlog` sends it again. When the collector had taken the deleted record
  but not yet the delete, the first run rejects the delete and restores the newer
  record of the key; the second run's delete then removes that record, and the
  record's own line is answered from the log. `import-commitlog.go:51`: "re-running
  is safe". `ImportRestores` holds for all other keys, and for these after one run.
* `v_overlap`: `k8s-elector/main.go:155` sets `ReleaseOnCancel`. A sidecar that stops
  gives the lease away at once; its replica trusts the last status for the failure
  grace, and another replica acquires the lease, is told so and starts its workers.
  `elector.go:66` says that the grace "prevents two leaders from overlapping". Without
  the release the deployed timers allow an overlap as well: a replica that is cut off
  stops up to 26 s after its last renewal (`LeadershipBounded`), its lease lasts 15 s.
* `v_listen`: a listen request is built under the lock and written after it is
  released. Two for one socket may be written in the other order; the remote then
  serves the older set, while the entry tracks the prefix, `CurrentSubscriptions`
  reports it and nothing sends the set again until another prefix joins it or the
  socket is replaced. `LeaderSubscriber.go:546`: "EnsureSubscriptions makes
  sure a peer subscription exists for every given prefix".

Without one, met while modelling:

* Two commits to a key without a row lock nothing; the newer one overwrites the
  older one through the upsert, but the clean-up only looks at the row read
  before, so the older document keeps its record and an unflagged log.
  `gc-commitlog.go:30` says it "is kept with gc_candidate set".
* A retry or a dead letter that Redis refuses is only logged, and the message is
  acknowledged, where the package comment says "at-least-once" (`forfeited` in
  `JobService`).
* `LeaderSubscriber.go:260` says that the purge after the listen "wipes anything cached
  during that gap". It runs as soon as the request is written; the origin's answer is
  read and ignored (line 879). What is posted, read and cached after the purge and
  before the origin has registered the listen sends no event and is not wiped. Neither
  is what a lost event would have brought (lines 887-895, `chunkline_gateway.go:937`,
  `976`).
* `import-commitlog` is refused lines that the source had accepted, by policies and
  blocks as they are at the destination, and counts them as failures; a dump does not
  say under which policies a document was accepted.
* The push of a notification has no time limit (`NotificationReactor.go:195`), where the
  one of a reset has 10 s: a push service that never answers ends the notifications of
  one subscriber until the subscription changes or the replica restarts.
* `WorkerSubscriber.go:59` reuses an aggregate past its TTL while a refresh is in
  flight; `chunkline_gateway.go:34` derives `purgeReplayDelay` from the TTL.
* `commit.go:267` drops the cached resource after a commit; an answer that was
  under way puts the older one back (`client.go:655`), and the batch entries are
  not dropped at all.
* Paging by `created_at` does not advance when more rows than a page share one
  instant.
* `chunkline/client.go:82` leaves a timeline out when its first body has no item
  before `until`. That body ends with `until`'s chunk: when at least a body's worth
  of items lies between `until` and the chunk's end, and none in the two chunks
  before `until`, older items of the timeline are not listed.
* Registering again with the entity document of before an unregistration is
  answered from the commit log; the document stays flagged and is collected.

## 4. Proofs

All theorems hold for every value of the constants that satisfies the modules'
assumptions: any number of documents, keys, users, servers, replicas and loops, any
bounds on faults. Every inductive invariant below was model-checked before it was
proved, and every safety property of every passing run is a theorem, some under the
assumption the table names.

| Module | Theorem | Property |
|---|---|---|
| `CommitStoreProofs` | `TypeCorrect` | `TypeOK` |
| | `NewestWins` | `AcceptIfNewer` |
| | `TombstonesLast` | `TombstoneCoversWindow` |
| | `SerialDeletionPermanent` (assumes `Serial`) | `DeletionPermanent` |
| | `CollectorSparesLive` (assumes `Serial`) | `GcSparesLive` |
| `RecordTreeProofs` | `ChildrenStayListed` | `ChildrenListed` |
| | `PagesComplete` | `PagingComplete` |
| `JobQueueProofs` | `TypeCorrect` | `TypeOK` |
| | `BudgetKept` | `BudgetSpentOnFailures` |
| | `Implementation` | `AtLeastOnce` |
| `AckFederationProofs` | `TypeCorrect` | `AckTypeOK` |
| | `AckedConverges` (assumes `AckerStays`) | `AckedFollows` |
| | `NewestArrives` (assumes `AckerStays`) | `NewestReaches` |
| `OperationProofs` | `TypeCorrect` | `TypeOK` |
| | `StaleLeadersStop` | `LeadershipBounded` |
| | `AlwaysImportRestores` | `ImportRestores` |
| `SubscriberProofs` | `NoConnectionLeaks` | `NoLeakedConnection` |
| | `WantedStays` | `EnsuredStays` |
| | `EntriesMatch` | (`EntriesHonest`) |
| `ChunklineProofs` | `TypeCorrect` | `TypeOK` |
| | `MaintainedComplete` | `LatestComplete` |
| | `ReplaySuffices` | `ReplaySweeps` |
| | `AlwaysQueryExact` | `QueryExact` |
| `ServiceProofs` | `BackupCoversDeletion`, `RegistrationLives` | `DeletedIsSaved`, `RegisteredLives` |
| | `MigrationNeverBlocked`, `RepairLosesNoAck` | `MigrationPossible`, `NoAckLost` |
| | `VerifiedForWhoAsks`, `InvalidationHolds` | `VerifiedGiven`, `StaleOnlyByRace` |
| | `BadgeFollowsCounter` | `BadgeClears` |
| | `PushesAreUnique` | (`PushedOnce`) |
| | `AlwaysAuthorConsents` | `AuthorConsents` |
| | `AlwaysEntitledPermitted`, `AlwaysGrantedBelow` | `EntitledPermitted`, `GrantedBelow` |

**Commit store.** `NewestWins` needs `Structure`: rows point to stored records, what a
delete has cut is still stored and locked, and a row read under a lock does not change;
the upsert's condition then decides for racing inserts. `TombstonesLast` is
unconditional: `WindowInv` adds to `Structure` that collected ids are older than the
retention (`CollectedOld`), and `Retention >= MaxBackdate`, which the command enforces,
links the collector to the window. `SerialDeletionPermanent` assumes `Serial` (one copy
of a document in flight, no exempt commits); `v_replay` shows that the first is needed.
Its invariant `SerialInv` says that an admitted request is `Fresh` (its document has
not been removed) and that a removed document is tombstoned or older than the window.
`CollectorSparesLive` uses `SerialInv` and adds `LiveInv`: what is flagged, or
collected by id, is at no key or belongs to a user who left since (`MayGo`), and will
not be admitted again (`Known`); what a delete in flight is about to flag is what it
removes, or has left its key since it was read (`Resolves`). Without `Serial` a
document may be committed again after its flag was set, which is the case `v_replay`
shows.

**Record tree.** `TreeInv` follows row ids: a stored child names the row of its
parent, or one that is dead (older than any row the parent has or will have) exactly
if the child is `lost`; a commit in flight names rows in the same way, will insert
placeholders only for ancestors that have no row, and no two commits insert the same
one. Names of dead rows must be known not to come back, which is why ids are compared
by age. `PagesComplete` is an invariant of the reader (`PageInv`: a row that stayed
has been given or is in range of the cursor) and a counting argument (`RankTaken`):
among the entries in range, those a page leaves out have at least `Limit` entries
before them, so the cursor, the sort value of the page's last entry, does not pass
them. `PathAssumption` says that `Above` is the chain of parents; keys are numbered
with parents first.

**Job queue.** `IInv` consists of `Queued` (the backlog has no duplicates and names
existing entries), `Held` (an id in a worker's hand is delivered and not reused for
another job), `Charged` (every copy, wherever it is, carries at most as many attempts
as its handler failed, and parked ones have used them all) and `NoneForgotten` (an
accepted job is settled, or has a copy that no step under way deletes).
`Implementation` shows step by step that a step of the queue is a step of
`JobService` or a stutter; `NoneForgotten` is what makes the acknowledgement, the
mover's `ZREM` and `MAXLEN` harmless.

**Ack federation.** `FollowInv`, with the acker on one server: acks are only held at
the acker's home, the row there is the newest logged and unique in its `createdAt`,
whatever is derived, sent or held was accepted there, `ackeds` holds the newest of
its log, and the newest is on its way. If the acker moves, two homes may accept
different documents of one `createdAt`, and the two tables may then keep different
ones.

**Elector.** `TimingInv` bounds, along the chain from renewal to answer to stored
status to running workers, how old each may be; the sum is `StaleLimit =
RenewDeadline + 2*FetchTimeout + FailureGrace + PollInterval`, for any number of
replicas, any times and either release. That two leaders do not overlap does not follow
from it under the deployed times, and is not so (`v_overlap`). `PollAssumption` (a
fetch times out within a poll interval) is the code's own setting.

**Subscriber.** `ConnInv` is `NoLeakedConnection` with `EntriesHonest`: an entry that
counts as connected names an opened socket to its own host, one that counts as
dialing a dial in flight. A finished dial compares identities under the lock; that
the entry it finds is its own follows from the second part only. `KeepInv` adds
`WantedCovered`: while a live keeper is between its polls and its prune, a wanted
prefix is in the demand the keeper knows of, or was stamped since the tick began, or
is not tracked, or a call for it is about to begin. The step that needs it all is the
second lock section of a concurrent `EnsureSubscriptions`, which makes an untracked
prefix tracked and must stamp it at once. Failing dials, sockets, writes and lookups
and stopping peers are covered.

**Chunk cache.** `LatestComplete` is inductive once what the cached chunk lacks may
also be on its way (`CompleteSoon`) and fetched bodies that are not stored yet are
included (`GotAll`); what sends no event, or whose event is lost, joins `unheard` in
the same step; closing forgets it and the opening purge empties it, because it
empties the cache.
`ReplaySuffices` is a timing argument: after a close, either the replay is still to
come and every answer or copy that says "subscribed" is younger than the time since the
close allows (`Timed`), or it has run and nothing young says so any more
(`SettledView`). `ReplayAssumption` (TTL plus request timeout at most the delay) holds
for the code's constants, 3 s + 2 s against 8 s; the comment there only asks for more
than the TTL.

**Services.** `BatchesSaved`: the ids a deletion works off are those of its backup,
whatever the user commits meanwhile; `LifeInv` is `RegisteredLives` with the shape of
the running command. `IInv` of the repairs: in which stages the anchor columns and
the foreign key exist (`Staged`), a row already visited has its commit (`Visited`),
and an ack whose original existed is held where it is wanted, or its row and its
original are still there (`Recoverable`): that mirrors are swept only after every row
was visited makes it inductive across interruptions. `CacheInv` of the record cache:
the remembered verification is of a document that verifies, and, while no answer
raced an invalidation, the cached resource and the answers about to be cached are as
new as the origin, or one version older while the invalidation is still to come
(`Bound`). `CacheAssumption` says that documents that do not verify are not versions
of the record. `BadgeInv` of the notifications: unless a reset was crossed, the badge
shown, and the one of every push about to be sent, is at most the counter, or a reset
push is still to come; a push that hangs has landed or not, and no more is known of it.
`ClaimInv`: an event whose claim was neither lost nor given
back is held by at most one replica, which has the claim and has not pushed it yet;
`PushedOnce`, that no device gets an event twice otherwise, follows for any number of
replicas that believe they lead.

**Import.** `TransferInv` follows a key from the source to the destination.
`SourceKeeps` and `Ordered`: unless something came against its dates, a key holds its
newest commit, every other one is flagged or collected, the collected ones are the
oldest, and a delete comes right after the record it deleted. `DumpInv`: the file is
the log up to the cursor, whatever the pages. `ImportKeeps`: the entities of the lines
read are there, which is why the entity phase comes first. `ReplayInv`: of a key's
lines an initial part is committed, without orphaned deletes (`Resumed`), and the key
holds the last of them, unless one of its lines was filtered out or ever refused; so a
run that stopped anywhere is taken up by the next. In an orphaned key a rejected delete
is not known to the second run, `Resumed` is lost there, and that is `v_import`.

**Timeline query.** `QueryInv`: the head of each timeline is in the body being read
(`InChunk`); every item newer than its timeline's head, and every item newer than a
listed one, is listed or removed (`HeadsPassed`, `ListedPassed`); a listed item has
its newest date (`Dated`), and the list descends without repetition. The step that
takes work is a reload (`NextHead`): the body at or before `Previous` must contain the
newest item below the old head, for every way a body is cut, which `IsBody` states as
"whatever is newer than one of the body's items, or in the chunk or the one before it,
is in it". Maxima of finite sets exist by counting the newer elements (`MaxFacts`).

**Proof chains.** A step of `verify` stays with the author (`FollowsAuthor`), so every
chain is of one author from the submitted document to its signature (`OneAuthor`),
and the signature is by the author's master key or by one that it enacted
(`SignatureEmpowered`). No assumption is made on documents or
answers.

**Policies.** The loops are recursive functions, and what they come to for lists of
any length is proved by a least counterexample: the numbers at which a claim fails
form a set of naturals, which has a least element (`LeastNat`, from the
well-foundedness of `<`), and `InductiveSet` concludes for all. `LoopExists` gives
the functions their recursion equations. `StatementsGrant` and `SetsGrant` then say
that a loop grants only if one of its elements does; `GlobalConclusion` computes the
default policy's conclusion for each kind of request. `PolicyInv`: the entitled are
settled by the global policy with a final `allow`, before any layer is evaluated, and
a granting conclusion of a refused request comes from a layer.

Only model-checked:

* Liveness under fairness (`EventuallyDrained`, `DemotionCloses`, `DemandServed`,
  `PagingEnds`, `OnlineAgain`, `FollowerCatchesUp`, `EventPushed`), which is out of
  the prover's reach.

## 5. Not modelled, and what is left

* The REST layer (parsing and formatting around the use cases), the health watchdog
  (a table of deadlines behind a readiness page), identifiers (a hash with a time
  stamp, present as the order of ids), cryptography, logging and metrics, the
  migration tools of the previous protocol version and the legacy client.
* `Distribution`: a forwarded delete that overtakes the reference record it should
  sweep needs two commit stores with their deliveries; `CommitStore` has the
  forwarded delete on one server.
* Chunkline manifests and the cached list of removed items; deliveries and deletes of
  associations; the block list, whose cache lets a freshly blocked author through for
  minutes (part of the nondeterministic rejection); filters of the listings, which page
  in the same way.
* Proofs worth doing next: that `ChunklineQuery` over a cache that `ChunklineCache`
  maintains lists what the origins hold, which needs the two composed; and the steps
  of `Register` and `delete-user` against a commit store with several users.
