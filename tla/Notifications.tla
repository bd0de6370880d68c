--------------------------- MODULE Notifications ---------------------------
(* Push notifications of one subscriber: the reactor of each replica that     *)
(* believes it leads runs a worker for the subscription, workers claim an     *)
(* event before they push it, the unread counter becomes the device's badge.  *)
EXTENDS Integers, FiniteSets

CONSTANTS
    Replicas,
    Events,      \* events that match the subscription's schemas
    SameURI,     \* events that differ in their association URI only
    MaxEdits,    \* bound on changes of the subscription
    MaxResets,   \* bound on counter resets
    MaxFaults    \* bound on errors, lost answers, expiries and crashes

VARIABLES
    sub,         \* mdate of the subscription row, 0 without one
    edits,
    worker,      \* per replica: mdate of its worker, 0 without one
    inbox,       \* per replica: events its worker was handed
    doing,       \* per replica: the push under way
    happened,    \* events that were published
    claims,      \* dedup keys held in redis
    counter,     \* notification_counter
    badge,       \* what the device shows
    resetting,   \* counter-reset pushes not yet on the device
    resets,
    pushes,      \* per event: pushes the device got
    faults,
    pardon,      \* history: a claim failed, expired or was given back
    dropped,     \* history: events a worker gave up, or was stopped with
    hung,        \* history: events whose push never returned
    crossed      \* history: a push was under way during a counter reset, a
                 \* reset push was lost, or the subscription deleted

pushVars ==
    <<sub, edits, worker, inbox, doing, happened, claims, counter, badge,
      resetting, resets, pushes, faults, pardon, dropped, hung,
      crossed>>

\* Something goes wrong, or not.
Fault(bad) ==
    /\ bad => faults < MaxFaults
    /\ faults' = IF bad THEN faults + 1 ELSE faults

Nothing == [stage |-> "none"]

PushInit ==
    /\ sub = 0 /\ edits = 0
    /\ worker = [p \in Replicas |-> 0]
    /\ inbox = [p \in Replicas |-> {}]
    /\ doing = [p \in Replicas |-> Nothing]
    /\ happened = {} /\ claims = {}
    /\ counter = 0 /\ badge = 0 /\ resetting = 0 /\ resets = 0
    /\ pushes = [e \in Events |-> 0]
    /\ faults = 0 /\ pardon = {} /\ dropped = {} /\ hung = {}
    /\ crossed = FALSE

\* Mutant: the association is not part of the key.
KeyWithoutAssociation(e) == IF e \in SameURI THEN SameURI ELSE {e}

\* notificationDedupKey: the event, association included, for this subscriber.
Key(e) == {e}

\* SETNX succeeds.
Free(e) == Key(e) \notin claims

-----------------------------------------------------------------------------
SubscribePush ==
    /\ edits < MaxEdits
    /\ edits' = edits + 1 /\ sub' = edits + 1
    /\ UNCHANGED <<faults, worker, inbox, doing, happened, claims, counter, badge,
                   resetting, resets, pushes, pardon, dropped, crossed, hung>>

\* Delete: the row, and the counter.
Unsubscribe ==
    /\ sub # 0
    /\ sub' = 0 /\ counter' = 0 /\ crossed' = TRUE
    /\ UNCHANGED <<faults, edits, worker, inbox, doing, happened, claims, badge,
                   resetting, resets, pushes, pardon, dropped, hung>>

\* syncWorkers: a worker is replaced when the row changed, stopped when it is
\* gone.  The one replaced still finishes the push it is at; at a push that
\* hangs it is left behind, with its claim.
Sync(p) ==
    /\ worker[p] # sub
    /\ worker' = [worker EXCEPT ![p] = sub]
    /\ dropped' = dropped \union inbox[p]
    /\ inbox' = [inbox EXCEPT ![p] = {}]
    /\ doing' = IF doing[p].stage = "stuck" THEN [doing EXCEPT ![p] = Nothing]
                ELSE doing
    /\ UNCHANGED <<faults, sub, edits, happened, claims, counter, badge, resetting,
                   resets, pushes, pardon, crossed, hung>>

\* An event reaches the workers listening then, on every replica that leads.
Publish(e, to) ==
    /\ e \notin happened
    /\ to \subseteq {p \in Replicas : worker[p] # 0}
    /\ happened' = happened \union {e}
    /\ inbox' = [p \in Replicas |-> IF p \in to THEN inbox[p] \union {e}
                                   ELSE inbox[p]]
    /\ UNCHANGED <<faults, sub, edits, worker, doing, claims, counter, badge, resetting,
                   resets, pushes, pardon, dropped, crossed, hung>>

\* runWorker takes an event and claims it: held by another, it is skipped; on a
\* redis error it goes on ("prefer a duplicate push over a lost one").
Claim(p, e, err) ==
    /\ Fault(err)
    /\ doing[p] = Nothing /\ e \in inbox[p]
    /\ inbox' = [inbox EXCEPT ![p] = @ \ {e}]
    /\ doing' = IF err \/ Free(e)
                THEN [doing EXCEPT ![p] = [stage |-> "count", event |-> e,
                                           claimed |-> ~err, badge |-> 0]]
                ELSE doing
    /\ claims' = IF err THEN claims ELSE claims \union {Key(e)}
    /\ pardon' = IF err THEN pardon \union {e} ELSE pardon
    /\ UNCHANGED <<sub, edits, worker, happened, counter, badge, resetting,
                   resets, pushes, dropped, crossed, hung>>

\* IncrementCounter, the number the push will show; an error leaves it out.
Count(p, err) ==
    /\ Fault(err)
    /\ doing[p].stage = "count"
    /\ counter' = IF err THEN counter ELSE counter + 1
    /\ doing' = [doing EXCEPT ![p].stage = "send",
                              ![p].badge = IF err THEN 0 ELSE counter + 1]
    /\ UNCHANGED <<sub, edits, worker, inbox, happened, claims, badge, resetting,
                   resets, pushes, pardon, dropped, crossed, hung>>

\* The push lands; the sender may not learn of it.
Push(p, learned) ==
    /\ Fault(~learned)
    /\ doing[p].stage = "send"
    /\ pushes' = [pushes EXCEPT ![doing[p].event] = @ + 1]
    /\ badge' = doing[p].badge
    /\ doing' = [doing EXCEPT ![p] = IF learned THEN Nothing
                                     ELSE [@ EXCEPT !.stage = "failed"]]
    /\ UNCHANGED <<sub, edits, worker, inbox, happened, claims, counter,
                   resetting, resets, pardon, dropped, crossed, hung>>

PushFails(p) ==
    /\ Fault(TRUE)
    /\ doing[p].stage = "send"
    /\ doing' = [doing EXCEPT ![p].stage = "failed"]
    /\ UNCHANGED <<sub, edits, worker, inbox, happened, claims, counter, badge,
                   resetting, resets, pushes, pardon, dropped, crossed, hung>>

\* SendNotification has neither a context nor a time limit: the push may never
\* return, whether it landed or not.
PushHangs(p, landed) ==
    LET e == doing[p].event
    IN  /\ Fault(TRUE)
        /\ doing[p].stage = "send"
        /\ doing' = [doing EXCEPT ![p].stage = "stuck"]
        /\ pushes' = IF landed THEN [pushes EXCEPT ![e] = @ + 1] ELSE pushes
        /\ badge' = IF landed THEN doing[p].badge ELSE badge
        /\ hung' = hung \union {e}
        /\ UNCHANGED <<sub, edits, worker, inbox, happened, claims, counter,
                       resetting, resets, pardon, dropped, crossed>>

\* releaseClaim after a failed send, its own claim only; redis may refuse, or the
\* worker's context be cancelled.
Release(p, given) ==
    LET e == doing[p].event
    IN  /\ doing[p].stage = "failed"
        /\ claims' = IF given /\ doing[p].claimed THEN claims \ {Key(e)} ELSE claims
        /\ pardon' = IF given THEN pardon \union {e} ELSE pardon
        /\ dropped' = dropped \union {e}
        /\ doing' = [doing EXCEPT ![p] = Nothing]
        /\ UNCHANGED <<faults, sub, edits, worker, inbox, happened, counter, badge,
                       resetting, resets, pushes, crossed, hung>>

ClaimExpires(e) ==
    /\ Fault(TRUE)
    /\ Key(e) \in claims
    /\ claims' = claims \ {Key(e)}
    /\ pardon' = pardon \union {e}
    /\ UNCHANGED <<sub, edits, worker, inbox, doing, happened, counter, badge,
                   resetting, resets, pushes, dropped, crossed, hung>>

\* Mutant: the device is not told.
ResetCounterSilent ==
    /\ sub # 0 /\ resets < MaxResets
    /\ resets' = resets + 1
    /\ counter' = 0
    /\ crossed' = (crossed \/ \E p \in Replicas : doing[p].stage = "send")
    /\ UNCHANGED <<faults, sub, edits, worker, inbox, doing, happened, claims,
                   badge, resetting, pushes, pardon, dropped, hung>>

\* ResetCounter: the counter, then a push of its own to the device.
ResetCounter ==
    /\ sub # 0 /\ resets < MaxResets
    /\ resets' = resets + 1
    /\ counter' = 0
    /\ resetting' = resetting + 1
    /\ crossed' = (crossed \/ \E p \in Replicas : doing[p].stage = "send")
    /\ UNCHANGED <<faults, sub, edits, worker, inbox, doing, happened, claims, badge,
                   pushes, pardon, dropped, hung>>

ResetPush(lost) ==
    /\ Fault(lost)
    /\ resetting > 0
    /\ resetting' = resetting - 1
    /\ badge' = IF lost THEN badge ELSE 0
    /\ crossed' = (crossed \/ lost)
    /\ UNCHANGED <<sub, edits, worker, inbox, doing, happened, claims, counter,
                   resets, pushes, pardon, dropped, hung>>

\* A replica stops: what it was at is gone, its claim stays.
ReplicaStops(p) ==
    /\ Fault(TRUE)
    /\ worker[p] # 0 \/ doing[p] # Nothing
    /\ dropped' = dropped \union inbox[p]
                  \union (IF doing[p] = Nothing THEN {} ELSE {doing[p].event})
    /\ worker' = [worker EXCEPT ![p] = 0]
    /\ inbox' = [inbox EXCEPT ![p] = {}]
    /\ doing' = [doing EXCEPT ![p] = Nothing]
    /\ UNCHANGED <<sub, edits, happened, claims, counter, badge, resetting,
                   resets, pushes, pardon, crossed, hung>>

Work(p) ==
    \/ \E err \in BOOLEAN : (\E e \in Events : Claim(p, e, err)) \/ Count(p, err)
    \/ \E learned \in BOOLEAN : Push(p, learned)
    \/ PushFails(p)
    \/ \E given \in BOOLEAN : Release(p, given)

PushNext ==
    \/ SubscribePush \/ Unsubscribe \/ ResetCounter
    \/ \E p \in Replicas : Sync(p) \/ Work(p) \/ ReplicaStops(p)
    \/ \E p \in Replicas, landed \in BOOLEAN : PushHangs(p, landed)
    \/ \E e \in Events, to \in SUBSET Replicas : Publish(e, to)
    \/ \E e \in Events : ClaimExpires(e)
    \/ \E lost \in BOOLEAN : ResetPush(lost)

\* A worker goes on, unless its push hangs: no promise that a push returns.
Fairness == \A p \in Replicas : WF_pushVars(Work(p))

PushSpec == PushInit /\ [][PushNext]_pushVars

-----------------------------------------------------------------------------

\* The worker waits for a push that never returns.
Stuck(p) == doing[p].stage = "stuck"

\* runWorker: an event replica p's worker was handed is pushed, by it or by the one
\* whose claim it found, unless that one failed, hung or stopped, or the worker
\* waits itself for a push that never returns.
HandedIsPushed(e, p) ==
    Fairness =>
        (e \in inbox[p] ~> \/ pushes[e] > 0
                           \/ e \in dropped \union pardon \union hung
                           \/ Stuck(p))

\* CounterStore: "a badge can never linger after the user has looked": at rest
\* the device shows no more than the unread counter, unless a push was under
\* way when the counter was reset, a reset push was lost, or the subscription
\* was deleted.
BadgeClears ==
    /\ resetting = 0 /\ \A p \in Replicas : doing[p] = Nothing \/ Stuck(p)
    => badge <= counter \/ crossed
=============================================================================
