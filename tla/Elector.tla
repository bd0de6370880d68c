------------------------------- MODULE Elector -------------------------------
(* Leader election: HTTPElector polls the elector sidecar beside its replica *)
(* and starts or cancels the singleton workers; the sidecars compete for one *)
(* Kubernetes lease.  Time is one global clock in whole seconds; a timer     *)
(* that has run out stops the clock until its step is taken (processes are   *)
(* assumed to be scheduled on time).  The lease and the client-go elector    *)
(* that keeps it are external, modelled from the configuration the sidecar   *)
(* gives them.                                                               *)
EXTENDS Integers

CONSTANTS
    Replicas,
    Nobody,           \* no lease holder
    NoView,           \* no status polled yet
    LeaseDuration, RenewDeadline,              \* k8s-elector
    PollInterval, FailureGrace, FetchTimeout,  \* HTTPElector
    ReleaseOnCancel,  \* does a stopping sidecar give the lease back?
    MaxTime           \* bound on the clock

ASSUME TimerAssumption ==
    /\ LeaseDuration \in Nat /\ RenewDeadline \in Nat
    /\ PollInterval \in Nat /\ FailureGrace \in Nat
    /\ FetchTimeout \in Nat /\ MaxTime \in Nat
ASSUME PollAssumption == FetchTimeout =< PollInterval
ASSUME NobodyAssumption == Nobody \notin Replicas
ASSUME ReleaseAssumption == ReleaseOnCancel \in BOOLEAN

Time == 0 .. MaxTime
View == [ans : {"leader", "other"}, at : Time]
ASSUME ViewAssumption == NoView \notin View

VARIABLES
    now,
    holder, renewedAt,  \* the lease
    up,         \* sidecars that run
    leads,      \* sidecars whose le.IsLeader() answers TRUE
    renewed,    \* when a sidecar last renewed or acquired the lease
    poll,       \* the poll loop of each replica
    view,       \* httpElectorState: the last status fetched
    active      \* leadState: replicas whose singleton workers run

lease == <<holder, renewedAt>>
sidecar == <<up, leads, renewed>>
replica == <<poll, view, active>>
electorVars == <<now, lease, sidecar, replica>>

-----------------------------------------------------------------------------
\* A poll loop waits for its ticker or has a request out; ans is what the
\* sidecar has answered, tick when the request was sent.
Poll ==
    [pc : {"wait", "fetch"}, tick : Time, ans : {"none", "leader", "other"}]

Fetching == [pc |-> "fetch", tick |-> now, ans |-> "none"]

ElectorInit ==
    /\ now = 0
    /\ holder = Nobody /\ renewedAt = 0
    /\ up = Replicas /\ leads = {}
    /\ renewed = [r \in Replicas |-> 0]
    /\ poll = [r \in Replicas |-> Fetching]
    /\ view = [r \in Replicas |-> NoView]
    /\ active = {}

\* A timer of r that has run out.
Due(r) ==
    \/ r \in leads /\ now >= renewed[r] + RenewDeadline
    \/ poll[r].pc = "wait" /\ now >= poll[r].tick + PollInterval
    \/ poll[r].pc = "fetch" /\ now >= poll[r].tick + FetchTimeout

Tick ==
    /\ now < MaxTime
    /\ \A r \in Replicas : ~Due(r)
    /\ now' = now + 1
    /\ UNCHANGED <<lease, sidecar, replica>>

-----------------------------------------------------------------------------
\* Mutant: the expiry is stored where the time of renewal belongs.
AcquireUntil(r) ==
    /\ r \in up /\ r \notin leads
    /\ holder = Nobody \/ now >= renewedAt + LeaseDuration
    /\ holder' = r /\ renewedAt' = now + LeaseDuration
    /\ leads' = leads \union {r}
    /\ renewed' = [renewed EXCEPT ![r] = now]
    /\ UNCHANGED <<now, up, replica>>

\* A candidate takes a lease that is free or that nobody renewed for
\* LeaseDuration.
Acquire(r) ==
    /\ r \in up /\ r \notin leads
    /\ holder = Nobody \/ now >= renewedAt + LeaseDuration
    /\ holder' = r /\ renewedAt' = now
    /\ leads' = leads \union {r}
    /\ renewed' = [renewed EXCEPT ![r] = now]
    /\ UNCHANGED <<now, up, replica>>

Renew(r) ==
    /\ r \in leads /\ holder = r
    /\ renewedAt' = now
    /\ renewed' = [renewed EXCEPT ![r] = now]
    /\ UNCHANGED <<now, holder, up, leads, replica>>

\* What ReleaseOnCancel does when the API server can be reached.
Release(r) ==
    \/ UNCHANGED lease
    \/ /\ ReleaseOnCancel /\ holder = r
       /\ holder' = Nobody
       /\ UNCHANGED renewedAt

\* Renewals have failed for RenewDeadline: le.Run returns, and the sidecar
\* candidates again with a fresh elector that has observed nothing.
GiveUp(r) ==
    /\ r \in leads /\ now >= renewed[r] + RenewDeadline
    /\ leads' = leads \ {r}
    /\ Release(r)
    /\ UNCHANGED <<now, up, renewed, replica>>

\* The sidecar crashes, or shuts down and waits for the release.
SidecarStops(r) ==
    /\ r \in up
    /\ up' = up \ {r}
    /\ leads' = leads \ {r}
    /\ Release(r)
    /\ UNCHANGED <<now, renewed, replica>>

SidecarStarts(r) ==
    /\ r \notin up
    /\ up' = up \union {r}
    /\ UNCHANGED <<now, lease, leads, renewed, replica>>

-----------------------------------------------------------------------------
\* current: a status older than the failure grace is void.
Fresh(v) == v # NoView /\ now - v.at =< FailureGrace

IsLeader(v) == Fresh(v) /\ v.ans = "leader"

\* The end of an iteration of Run: start or cancel the workers.
Decide(r, v) == IF IsLeader(v) THEN active \union {r} ELSE active \ {r}

\* The ticker fires: send GET /status.
PollTick(r) ==
    /\ poll[r].pc = "wait" /\ now >= poll[r].tick + PollInterval
    /\ poll' = [poll EXCEPT ![r] = Fetching]
    /\ UNCHANGED <<now, lease, sidecar, view, active>>

\* The sidecar's handler reads who leads, and only then resolves the peers,
\* which takes time and may fail the request.
Status(r) ==
    /\ poll[r].pc = "fetch" /\ poll[r].ans = "none"
    /\ r \in up
    /\ poll' = [poll EXCEPT ![r].ans =
                 IF r \in leads THEN "leader" ELSE "other"]
    /\ UNCHANGED <<now, lease, sidecar, view, active>>

\* The answer arrives: store it, then start or cancel the workers.
Fetched(r) ==
    LET v == [ans |-> poll[r].ans, at |-> now]
    IN  /\ poll[r].pc = "fetch" /\ poll[r].ans # "none"
        /\ view' = [view EXCEPT ![r] = v]
        /\ active' = Decide(r, v)
        /\ poll' = [poll EXCEPT ![r].pc = "wait", ![r].ans = "none"]
        /\ UNCHANGED <<now, lease, sidecar>>

\* Mutant: a failed poll skips the rest of the iteration.
FetchFailsSkips(r) ==
    /\ poll[r].pc = "fetch"
    /\ poll' = [poll EXCEPT ![r].pc = "wait", ![r].ans = "none"]
    /\ UNCHANGED <<now, lease, sidecar, view, active>>

\* The request fails or times out: the old status decides, while it is fresh.
FetchFails(r) ==
    /\ poll[r].pc = "fetch"
    /\ active' = Decide(r, view[r])
    /\ poll' = [poll EXCEPT ![r].pc = "wait", ![r].ans = "none"]
    /\ UNCHANGED <<now, lease, sidecar, view>>

\* The replica restarts: its workers end, and its loop polls at once.
Restart(r) ==
    /\ poll' = [poll EXCEPT ![r] = Fetching]
    /\ view' = [view EXCEPT ![r] = NoView]
    /\ active' = active \ {r}
    /\ UNCHANGED <<now, lease, sidecar>>

-----------------------------------------------------------------------------
ElectorNext ==
    \/ Tick
    \/ \E r \in Replicas :
        \/ Acquire(r) \/ Renew(r) \/ GiveUp(r)
        \/ SidecarStops(r) \/ SidecarStarts(r)
        \/ PollTick(r) \/ Status(r) \/ Fetched(r) \/ FetchFails(r)
        \/ Restart(r)

ElectorSpec == ElectorInit /\ [][ElectorNext]_electorVars

-----------------------------------------------------------------------------
\* Every variable has its type.
TypeOK ==
    /\ now \in Time
    /\ holder \in Replicas \union {Nobody} /\ renewedAt \in Time
    /\ up \in SUBSET Replicas /\ leads \in SUBSET Replicas
    /\ renewed \in [Replicas -> Time]
    /\ poll \in [Replicas -> Poll]
    /\ view \in [Replicas -> View \union {NoView}]
    /\ active \in SUBSET Replicas

\* elector.go, electorFailureGrace, "prevents two leaders from overlapping":
\* the singleton workers of two replicas never run at the same time.  The code
\* does not keep this, see v_overlap.cfg.
NoOverlap == \A r, s \in active : r = s

\* HTTPElector.Run, "a dead elector demotes us": whatever fails, the workers
\* of a replica stop this long after its sidecar last renewed the lease.
StaleLimit == RenewDeadline + 2 * FetchTimeout + FailureGrace + PollInterval

LeadershipBounded ==
    \A r \in active : now =< renewed[r] + StaleLimit
=============================================================================
