----------------------------- MODULE Subscriber -----------------------------
(* LeaderSubscriber: the replica that leads keeps one websocket per remote   *)
(* host open and asks it to "listen" to the prefixes anybody in the cluster  *)
(* wants.  Demand comes from the sessions of this replica, from polling the  *)
(* other replicas, from requests they forward, and from the chunk cache.     *)
(* Lock sections are atomic; dials, writes and purges happen outside the     *)
(* lock.  Peer servers, HTTP between replicas and memcached are external.    *)
EXTENDS Integers, FiniteSets

CONSTANTS
    Prefixes,     \* timelines
    Local,        \* those this server hosts itself
    Hosts,        \* remote hosts
    HostOf,       \* the host of every remote prefix
    Peers,        \* the other replicas
    Me,           \* this replica
    Users,        \* replicas that have realtime sessions
    Terms,        \* lead terms of this replica: 1 .. n
    Requests,     \* EnsureSubscriptions calls other than the keeper's
    MaxConns,     \* bound on dials and connections to a host at a time
    NoSub,        \* no entry for a host
    LocalTicks,   \* how many keeper ticks a localSeen mark lasts
    MaxFaults,    \* bound on failing dials, writes, polls, ... and crashes
    MaxChanges    \* bound on changes of a session's prefixes

Replicas == Peers \union {Me}
Remote == Prefixes \ Local
Callers == Terms \union Requests
\* Names for dials and the connections they become; they are reused.
Conns == Hosts \X (1 .. MaxConns)

ASSUME SubscriberAssumption ==
    /\ Local \subseteq Prefixes /\ HostOf \in [Remote -> Hosts]
    /\ Me \notin Peers /\ Users \subseteq Replicas
    /\ Terms = 1 .. Cardinality(Terms)
    /\ Terms \intersect Requests = {}
    /\ LocalTicks \in Nat \ {0} /\ MaxConns \in Nat \ {0}
    /\ MaxFaults \in Nat /\ MaxChanges \in Nat

Sub == [prefixes : SUBSET Remote, id : Conns, up : BOOLEAN, dialing : BOOLEAN]

ASSUME NoSubAssumption == NoSub \notin Sub

VARIABLES
    term,       \* runCtx: the last lead term, 0 before the first
    lead,       \* its context is not cancelled
    subs,       \* Subscriptions; id names the entry's last dial
    conn,       \* per dial: where it is, its term, and what the remote listens
                \* to; crossed: two listen requests of it were under way at once
    out,        \* listen requests not yet written: [by, conn, prefixes, purge],
                \* by the caller that waits, or NoSub for a connection's own
    sessions,   \* what the sessions of each replica want
    alive,      \* peers the discovery lists
    peerDemand, \* the last known demand of each peer
    localSeen,  \* ticks left for each local prefix
    job,        \* callers of EnsureSubscriptions; a keeper per term
    spared,     \* per keeper: prefixes ensured since its tick began
    budget      \* faults and changes left; lost: the leader missed some demand

leadVars == <<term, lead>>
demandVars == <<sessions, alive, peerDemand>>
vars == <<term, lead, subs, conn, out, sessions, alive, peerDemand,
          localSeen, job, spared, budget>>

-----------------------------------------------------------------------------
\* A caller that is at pc.  want: prefixes to ensure, new: those no entry
\* tracks; demand: a keeper's snapshot; polled, heard: the answers of the peers.
Quiet(pc) ==
    [pc |-> pc, want |-> {}, new |-> {}, demand |-> {}, polled |-> [p \in Peers |-> {}],
     heard |-> {}]

\* st: "none", "dialing", "open" or "closed".
Unused == [st |-> "none", term |-> 0, listen |-> {}, crossed |-> FALSE]

Live(t) == t = term /\ lead
Leading == term > 0 /\ Live(term)

Tracked == UNION {subs[h].prefixes : h \in {g \in Hosts : subs[g] # NoSub}}

\* OpenPrefixes
Open == UNION {subs[h].prefixes :
                h \in {g \in Hosts : subs[g] # NoSub /\ subs[g].up}}

\* CurrentSubscriptions: session demand that is open or local; keep-alive
\* demand never counts.
Served ==
    (sessions[Me] \union UNION {peerDemand[p] : p \in Peers})
    \intersect (Open \union {p \in Local : localSeen[p] > 0})

Holds(c, h) == subs[h] # NoSub /\ subs[h].id = c

InUse(c) ==
    \/ conn[c].st # "none"
    \/ \E w \in out : w.conn = c
    \/ Holds(c, c[1])

Free(h) == {c \in {h} \X (1 .. MaxConns) : ~InUse(c)}

Spend == budget.fault > 0 /\ budget' = [budget EXCEPT !.fault = @ - 1]

\* A fault by which the leader misses demand.
Miss == budget.fault > 0 /\ budget' = [budget EXCEPT !.fault = @ - 1, !.lost = TRUE]

\* Nothing of caller c is on its way.
Written(c) == \A w \in out : w.by # c

Init ==
    /\ term = 0 /\ lead = FALSE
    /\ subs = [h \in Hosts |-> NoSub]
    /\ conn = [c \in Conns |-> Unused]
    /\ out = {}
    /\ sessions \in [Replicas -> SUBSET Prefixes]
    /\ \A r \in Replicas \ Users : sessions[r] = {}
    /\ alive = Peers
    /\ peerDemand = [p \in Peers |-> {}]
    /\ localSeen = [p \in Local |-> 0]
    /\ job = [c \in Callers |-> Quiet(IF c \in Terms THEN "off" ELSE "idle")]
    /\ spared = [t \in Terms |-> {}]
    /\ budget = [fault |-> MaxFaults, change |-> MaxChanges, lost |-> FALSE]

-----------------------------------------------------------------------------
\* The elector starts the workers with a fresh context, and cancels it.
Start ==
    /\ ~lead /\ term + 1 \in Terms
    /\ term' = term + 1 /\ lead' = TRUE
    /\ job' = [job EXCEPT ![term + 1].pc = "wait"]
    /\ UNCHANGED <<subs, conn, out, demandVars, localSeen, spared,
                   budget>>

Demote ==
    /\ lead
    /\ lead' = FALSE
    /\ UNCHANGED <<term, subs, conn, out, demandVars, localSeen, job,
                   spared, budget>>

\* A call of LeaderSubscriber.EnsureSubscriptions begins.
BeginEnsure(ps) ==
    \E q \in Requests :
        /\ job[q].pc = "idle" /\ Written(q)
        /\ job' = [job EXCEPT ![q] = [Quiet("ensure") EXCEPT !.want = ps]]

\* handleEnsure: a replica that does not lead rejects the request.
HandleEnsure(ps) == IF Leading THEN BeginEnsure(ps) ELSE UNCHANGED job

\* SubscriberManager.EnsureSubscriptions on replica r, which calls the leader
\* itself or, in WorkerSubscriber, forwards to it.
ManagerEnsure(r, ps) ==
    IF ps = {} THEN UNCHANGED job ELSE HandleEnsure(ps)

\* A worker that knows no leader, a lost request and a rejection are only logged.
ForwardLost(r, ps) == r # Me /\ ps # {} /\ UNCHANGED job

\* Realtime: a websocket session of replica r asks for other prefixes (an
\* identical list is ignored) or ends.  Its demand is recorded first, then
\* ensured.
Session(r, ps) ==
    /\ r \in alive \union {Me} /\ ps # sessions[r]
    /\ budget.change > 0
    /\ sessions' = [sessions EXCEPT ![r] = ps]
    /\ \/ /\ ManagerEnsure(r, ps)
          /\ budget' = [budget EXCEPT !.change = @ - 1]
       \/ /\ ForwardLost(r, ps)
          /\ budget' = [budget EXCEPT !.change = @ - 1, !.lost = @ \/ Leading]
    /\ UNCHANGED <<leadVars, subs, conn, out, alive, peerDemand,
                   localSeen, spared>>

PeerStops(p) ==
    /\ p \in alive
    /\ Spend
    /\ alive' = alive \ {p}
    /\ sessions' = [sessions EXCEPT ![p] = {}]
    /\ UNCHANGED <<leadVars, subs, conn, out, peerDemand, localSeen,
                   job, spared>>

-----------------------------------------------------------------------------
\* handleDemand on every peer that answers.
Answers(ps) == [p \in Peers |-> IF p \in ps THEN sessions[p] ELSE {}]

\* keeperRoutine, start of a tick: age the local marks, ask the session
\* clients and the cache's keep-alive client, which keeps what is open and
\* cached, and poll the peers (pollPeerDemand; some may fail).
KeeperTick(t) ==
    /\ job[t].pc = "wait" /\ Live(t) /\ Written(t)
    /\ \E keep \in SUBSET Open, failed \in SUBSET alive :
         /\ IF failed = {} THEN UNCHANGED budget ELSE Miss
         /\ job' = [job EXCEPT ![t] = [Quiet("apply") EXCEPT
                                        !.demand = sessions[Me] \union keep,
                                        !.heard = alive \ failed,
                                        !.polled = Answers(alive \ failed)]]
    /\ localSeen' = [p \in Local |-> IF localSeen[p] > 0
                                     THEN localSeen[p] - 1 ELSE 0]
    /\ UNCHANGED <<leadVars, subs, conn, out, demandVars, spared>>

-----------------------------------------------------------------------------
\* Stamps in ensuredAt: later than the beginning of every tick under way.
Ticking(t) == job[t].pc \notin {"off", "wait"}
Stamp(ps) == spared' = [t \in Terms |-> IF Ticking(t) THEN spared[t] \union ps
                                        ELSE {}]

\* EnsureSubscriptions, first lock section: prefixes that an entry tracks
\* already are stamped and need nothing else.
EnsureTracked(c, ps, demand) ==
    /\ Stamp(ps \intersect Tracked)
    /\ job' = [job EXCEPT ![c] = [Quiet("merge") EXCEPT
                                   !.want = ps, !.new = ps \ Tracked,
                                   !.demand = demand]]

\* A session's or a worker's call.
EnsureRequest(q) ==
    /\ job[q].pc = "ensure"
    /\ EnsureTracked(q, job[q].want, {})
    /\ UNCHANGED <<leadVars, subs, conn, out, demandVars, localSeen, budget>>

\* pollPeerDemand applies the answers under the lock: a peer that failed to
\* answer keeps its last entry, one that is no longer listed loses it; then
\* the keeper ensures the whole demand.
PollApply(t) ==
    LET known == [p \in Peers |-> IF p \in job[t].heard THEN job[t].polled[p]
                                  ELSE IF p \in alive THEN peerDemand[p]
                                  ELSE {}]
        all == job[t].demand \union UNION {known[p] : p \in Peers}
    IN  /\ job[t].pc = "apply"
        /\ peerDemand' = known
        /\ EnsureTracked(t, all, all)
        /\ UNCHANGED <<leadVars, subs, conn, out, sessions, alive, localSeen,
                       budget>>

\* Discovery failed: the last known demand is frozen.
DiscoveryFails(t) ==
    LET all == job[t].demand \union UNION {peerDemand[p] : p \in Peers}
    IN  /\ job[t].pc = "apply"
        /\ Miss
        /\ EnsureTracked(t, all, all)
        /\ UNCHANGED <<leadVars, subs, conn, out, demandVars, localSeen>>

\* Where a caller goes on after EnsureSubscriptions.
AfterEnsure(c) ==
    IF c \in Requests THEN Quiet("idle")
    ELSE [Quiet("repair") EXCEPT !.demand = job[c].demand]

\* Dials that begin for these hosts: a fresh name, bound to the current term.
BeginDials(hs) ==
    /\ \A h \in hs : Free(h) # {}
    /\ conn' = [c \in Conns |->
                  IF c[1] \in hs /\ c = CHOOSE x \in Free(c[1]) : TRUE
                  THEN [Unused EXCEPT !.st = "dialing", !.term = term]
                  ELSE conn[c]]

Redialled(sub, h) ==
    [sub EXCEPT !.id = CHOOSE x \in Free(h) : TRUE, !.dialing = TRUE]

\* Neither a connection nor a dial in flight.
Broken(h) == subs[h] # NoSub /\ ~subs[h].up /\ ~subs[h].dialing

\* An entry for host h that wants ps as well: a new one is dialled, a broken
\* one too; a dial in flight picks the prefixes up by itself.
Merged(h, ps) ==
    IF ps = {} THEN subs[h]
    ELSE IF subs[h] = NoSub
    THEN [prefixes |-> ps, id |-> CHOOSE x \in Free(h) : TRUE, up |-> FALSE,
          dialing |-> TRUE]
    ELSE LET more == [subs[h] EXCEPT !.prefixes = @ \union ps]
         IN  IF Broken(h) THEN Redialled(more, h) ELSE more

\* Mutant: a grown entry's request names only what is new to it.
ListenNew(h, ps) == ps

\* A listen request replaces the whole set at the remote, so it names all.
ListenSet(h, ps) == subs[h].prefixes \union ps

\* Second part: resolve the hosts (some may fail), mark local prefixes, and
\* under the lock, unless the replica does not lead, merge the rest into the
\* entries.  A connected entry that gained prefixes has a listen to send.
EnsureMerge(c) ==
    \E failed \in SUBSET job[c].new :
      LET ps(h) == {p \in (job[c].new \ failed) \intersect Remote :
                        HostOf[p] = h}
          dials == {h \in Hosts : ps(h) # {} /\ (subs[h] = NoSub \/ Broken(h))}
          grown == {h \in Hosts : /\ subs[h] # NoSub /\ subs[h].up
                                  /\ ps(h) \ subs[h].prefixes # {}}
      IN  /\ job[c].pc = "merge"
          /\ IF failed = {} THEN UNCHANGED budget ELSE Spend
          /\ localSeen' = [p \in Local |-> IF p \in job[c].new \ failed
                                           THEN LocalTicks
                                           ELSE localSeen[p]]
          /\ IF Leading
             THEN /\ Stamp(UNION {ps(h) : h \in Hosts})
                  /\ BeginDials(dials)
                  /\ subs' = [h \in Hosts |-> Merged(h, ps(h))]
                  /\ out' = out \union
                        {[by |-> c, conn |-> subs[h].id,
                          prefixes |-> ListenSet(h, ps(h)),
                          purge |-> ps(h) \ subs[h].prefixes] : h \in grown}
             ELSE UNCHANGED <<subs, conn, out, spared>>
          /\ job' = [job EXCEPT ![c] = AfterEnsure(c)]
          /\ UNCHANGED <<leadVars, demandVars>>

-----------------------------------------------------------------------------
\* Close: the goroutines of an open connection notice and clean up.
Close(cs) == [x \in Conns |-> IF x \in cs /\ conn[x].st = "open"
                              THEN [conn[x] EXCEPT !.st = "closed", !.listen = {}]
                              ELSE conn[x]]

\* A listen request is written; the remote replaces what it listened to.
\* Requests are built under the lock and written outside it, so a later one
\* may be written first, and the older set then stays.  Prefixes that this
\* request opened are purged afterwards.  A failed write closes the connection.
WriteListen(w) ==
    /\ w \in out
    /\ out' = out \ {w}
    /\ \/ /\ conn[w.conn].st = "open"
          /\ conn' = [conn EXCEPT ![w.conn].listen = w.prefixes,
                                  ![w.conn].crossed =
                                    @ \/ \E u \in out \ {w} : u.conn = w.conn]
          /\ UNCHANGED budget
       \/ /\ conn[w.conn].st = "open"
          /\ Spend
          /\ conn' = Close({w.conn})
       \/ /\ conn[w.conn].st # "open"
          /\ UNCHANGED <<conn, budget>>
    /\ UNCHANGED <<leadVars, subs, demandVars, localSeen, job, spared>>

\* dialAndRun, the dial failed: drop the entry if it is still this one; the
\* keeper makes a new one.
DialFails(x) ==
    LET h == x[1]
    IN  /\ conn[x].st = "dialing"
        /\ Spend
        /\ conn' = [conn EXCEPT ![x] = Unused]
        /\ subs' = IF Holds(x, h) THEN [subs EXCEPT ![h] = NoSub] ELSE subs
        /\ UNCHANGED <<leadVars, out, demandVars, localSeen, job,
                       spared>>

\* Mutant: a late connection is installed whatever became of its entry.
DialDoneUnchecked(x) ==
    LET h == x[1]
    IN  /\ conn[x].st = "dialing"
        /\ IF subs[h] # NoSub
           THEN /\ conn' = [conn EXCEPT ![x].st = "open"]
                /\ subs' = [subs EXCEPT ![h].dialing = FALSE, ![h].up = TRUE]
                /\ out' = out \union {[by |-> NoSub, conn |-> x,
                                       prefixes |-> subs[h].prefixes,
                                       purge |-> subs[h].prefixes]}
           ELSE /\ conn' = [conn EXCEPT ![x] = Unused]
                /\ UNCHANGED <<subs, out>>
        /\ UNCHANGED <<leadVars, demandVars, localSeen, job, spared, budget>>

\* The dial succeeded: install the connection and send the first listen, or
\* back out when the entry was replaced or the term ended meanwhile.
DialDone(x) ==
    LET h == x[1]
    IN  /\ conn[x].st = "dialing"
        /\ IF Live(conn[x].term) /\ Holds(x, h)
           THEN /\ conn' = [conn EXCEPT ![x].st = "open"]
                /\ subs' = [subs EXCEPT ![h].dialing = FALSE, ![h].up = TRUE]
                /\ out' = out \union {[by |-> NoSub, conn |-> x,
                                       prefixes |-> subs[h].prefixes,
                                       purge |-> subs[h].prefixes]}
           ELSE /\ conn' = [conn EXCEPT ![x] = Unused]
                /\ subs' = IF Holds(x, h)
                           THEN [subs EXCEPT ![h].dialing = FALSE] ELSE subs
                /\ UNCHANGED out
        /\ UNCHANGED <<leadVars, demandVars, localSeen, job, spared, budget>>

\* The remote hangs up, a read or ping fails, or no pong came in time.
ConnBreaks(x) ==
    /\ conn[x].st = "open"
    /\ Spend
    /\ conn' = Close({x})
    /\ UNCHANGED <<leadVars, subs, out, demandVars, localSeen, job,
                   spared>>

\* The relayer of a connection whose term has ended closes it.
ContextDone(x) ==
    /\ conn[x].st = "open" /\ ~Live(conn[x].term)
    /\ conn' = Close({x})
    /\ UNCHANGED <<leadVars, subs, out, demandVars, localSeen, job,
                   spared, budget>>

\* runListener and runRelayer end: the first to find its own connection in
\* the map drops the entry and purges what it maintained.
ConnCleanup(x) ==
    LET h == x[1]
        mine == Holds(x, h) /\ subs[h].up
    IN  /\ conn[x].st = "closed"
        /\ conn' = [conn EXCEPT ![x] = Unused]
        /\ subs' = IF mine THEN [subs EXCEPT ![h] = NoSub] ELSE subs
        /\ UNCHANGED <<leadVars, out, demandVars, localSeen, job, spared,
                       budget>>

-----------------------------------------------------------------------------
\* repairBrokenSubscriptions: dial entries that have neither connection nor
\* dial, left behind by a dial that ended with its term.
Repair(t) ==
    LET broken == {h \in Hosts : Leading /\ Broken(h)}
    IN  /\ job[t].pc = "repair" /\ Written(t)
        /\ BeginDials(broken)
        /\ subs' = [h \in Hosts |-> IF h \in broken
                                    THEN Redialled(subs[h], h) ELSE subs[h]]
        /\ job' = [job EXCEPT ![t].pc = "prune"]
        /\ UNCHANGED <<leadVars, out, demandVars, localSeen, spared, budget>>

\* Mutant: prefixes ensured after the snapshot are not spared.
KeptOfSnapshot(t, h) == subs[h].prefixes \intersect job[t].demand

\* What a prune keeps: the keeper's snapshot, and what was ensured since.
KeptOf(t, h) == subs[h].prefixes \intersect (job[t].demand \union spared[t])

\* deleteExcessSubscriptions: drop what nobody wants, close the connection of
\* an entry left empty, tell the others what is left, and purge the rest.
Prune(t) ==
    LET have == {h \in Hosts : subs[h] # NoSub}
        empty == {h \in have : KeptOf(t, h) = {}}
        shrunk == {h \in have \ empty : KeptOf(t, h) # subs[h].prefixes
                                        /\ subs[h].up}
    IN  /\ job[t].pc = "prune"
        /\ subs' = [h \in Hosts |->
                      IF h \in empty THEN NoSub
                      ELSE IF h \in have
                      THEN [subs[h] EXCEPT !.prefixes = KeptOf(t, h)]
                      ELSE NoSub]
        /\ conn' = Close({subs[h].id : h \in {g \in empty : subs[g].up}})
        /\ out' = out \union
              {[by |-> t, conn |-> subs[h].id, prefixes |-> KeptOf(t, h),
                purge |-> {}] : h \in shrunk}
        /\ job' = [job EXCEPT ![t] = Quiet("wait")]
        /\ spared' = [spared EXCEPT ![t] = {}]
        /\ UNCHANGED <<leadVars, demandVars, localSeen, budget>>

\* Mutant: the keeper of a term that ended leaves everything as it is.
KeeperEndsEarly(t) ==
    /\ job[t].pc = "wait" /\ ~Live(t) /\ Written(t)
    /\ job' = [job EXCEPT ![t] = Quiet("off")]
    /\ UNCHANGED <<leadVars, subs, conn, out, demandVars, localSeen,
                   spared, budget>>

\* closeAllSubscriptions, at the end of the term: skipped when a newer term
\* has started, whose connections must survive.
KeeperEnds(t) ==
    LET have == {h \in Hosts : subs[h] # NoSub}
    IN  /\ job[t].pc = "wait" /\ ~Live(t) /\ Written(t)
        /\ job' = [job EXCEPT ![t] = Quiet("off")]
        /\ IF t = term
           THEN /\ subs' = [h \in Hosts |-> NoSub]
                /\ conn' = Close({subs[h].id : h \in {g \in have :
                                                        subs[g].up}})
           ELSE UNCHANGED <<subs, conn>>
        /\ UNCHANGED <<leadVars, out, demandVars, localSeen, spared, budget>>

-----------------------------------------------------------------------------
Keeper(t) ==
    \/ KeeperTick(t) \/ PollApply(t) \/ DiscoveryFails(t)
    \/ Repair(t) \/ Prune(t) \/ KeeperEnds(t)

Ensure(c) == EnsureRequest(c) \/ EnsureMerge(c)

Network(x) ==
    \/ DialFails(x) \/ DialDone(x) \/ ConnBreaks(x)
    \/ ContextDone(x) \/ ConnCleanup(x)

Next ==
    \/ Start \/ Demote
    \/ \E r \in Users, ps \in SUBSET Prefixes : Session(r, ps)
    \/ \E p \in Peers : PeerStops(p)
    \/ \E t \in Terms : Keeper(t)
    \/ \E c \in Callers : Ensure(c)
    \/ \E w \in out : WriteListen(w)
    \/ \E x \in Conns : Network(x)

Spec == Init /\ [][Next]_vars

\* Goroutines run: keepers tick, calls, dials, writes, purges and clean-ups
\* end.  Nothing is assumed of the elector, of the sessions or of the faults.
Fairness ==
    /\ \A t \in Terms : WF_vars(Keeper(t))
    /\ \A c \in Callers : WF_vars(Ensure(c))
    /\ WF_vars(\E w \in out : WriteListen(w))
    /\ \A x \in Conns :
        WF_vars(DialDone(x) \/ ContextDone(x) \/ ConnCleanup(x))

FairSpec == Spec /\ Fairness

-----------------------------------------------------------------------------
\* dialAndRun and the identity-checked defers: however dials, prunes, demotions
\* and new terms interleave, no open websocket is left behind: each one is the
\* connection its host's entry knows, and can therefore be closed.
NoLeakedConnection ==
    \A x \in Conns : conn[x].st = "open" =>
        Holds(x, x[1]) /\ subs[x[1]].up

\* closeAllSubscriptions and ConnectionCounts ("Both are 0 while not leading"):
\* once the replica has lost the lead for good, it closes every peer
\* connection, whichever term opened it, and tracks no host any more.
DemotionCloses ==
    <>[]~lead => <>[](/\ \A x \in Conns : conn[x].st \notin {"open", "dialing"}
                      /\ \A h \in Hosts : subs[h] = NoSub)

\* What the sessions of the replicas want.
Wanted == sessions[Me] \union UNION {sessions[r] : r \in alive}

\* The remote hosts of ps have been told, over connections that stand, to send
\* their events; of the connections in exempt nothing is asked.
Listened(ps, exempt) ==
    \A p \in ps \ Local :
        LET h == HostOf[p]
        IN  /\ subs[h] # NoSub /\ subs[h].up
            /\ p \in conn[subs[h].id].listen \/ subs[h].id \in exempt

\* EnsureSubscriptions and the keeper: when the lead is kept and demand and
\* network settle, what the sessions of any replica want is served, over an
\* open connection or as local, and the host it comes from was last sent a
\* set that holds it.  Excepted in the last part are connections of which two
\* listen requests were ever under way at once (H25).
DemandServed ==
    <>[]lead => <>[](/\ Wanted \subseteq Served
                     /\ Listened(Wanted, {x \in Conns : conn[x].crossed}))

\* EnsureSubscriptions: "makes sure a peer subscription exists for every given
\* prefix", with nothing excepted.
DemandListened ==
    <>[]lead => <>[](Wanted \subseteq Served /\ Listened(Wanted, {}))

\* deleteExcessSubscriptions and ensuredAt: a keeper that took its snapshot
\* before a session or a worker asked for a prefix does not tear down what is
\* wanted, whatever dials, sockets, lookups and peers fail meanwhile.  Excepted
\* are demand that a call is only about to ensure, polls and forwards that were
\* lost, and a keeper whose term is over.
EnsuredStays ==
    [][\A t \in Terms, p \in Tracked :
        /\ ~budget.lost /\ Live(t)
        /\ job[t].pc = "prune" /\ job'[t].pc = "wait"
        /\ p \in Wanted
        /\ ~\E q \in Requests : job[q].pc = "ensure" /\ p \in job[q].want
        => p \in Tracked']_vars

=============================================================================
