----------------------------- MODULE PeerStatus -----------------------------
(* Which peers the federation client thinks are online: the offline set fed   *)
(* by failed calls, the plain-host verdicts, and the keeper that probes what  *)
(* is offline.  Every request is two steps, so verdicts cross.                *)
EXTENDS FiniteSets

CONSTANTS Hosts, Callers, Keeper

VARIABLES
    kind,        \* what a host does now: a concrnt server, a plain web host,
                 \* one that answers 5xx, one that lets requests time out
    lastFailed,  \* the hosts with a lastFailed entry
    due,         \* those whose backoff has run out
    plainHosts,  \* hosts with an unexpired plain verdict
    known,       \* hosts whose well-known is cached
    pass,        \* the keeper's copy of lastFailed, what it has still to visit
    call         \* per caller (and the keeper's probe): the request under way

vars == <<kind, lastFailed, due, plainHosts, known, pass, call>>

Kinds == {"server", "plain", "broken", "silent"}
None == [op |-> "none"]
Request(op, stage, h) == [op |-> op, stage |-> stage, host |-> h]

Init ==
    /\ kind \in [Hosts -> Kinds]
    /\ lastFailed = {} /\ due = {} /\ plainHosts = {} /\ known = {}
    /\ pass = {}
    /\ call = [c \in Callers \union {Keeper} |-> None]

IsOnline(h) == h \in plainHosts \/ h \notin lastFailed

\* markOffline: plain hosts are never tracked.
MarkOffline(h) ==
    /\ lastFailed' = IF h \in plainHosts THEN lastFailed
                     ELSE lastFailed \union {h}
    /\ due' = IF h \in plainHosts THEN due ELSE due \ {h}
    /\ UNCHANGED <<plainHosts, known>>

\* markPlainHost.
MarkPlainHost(h) ==
    /\ plainHosts' = plainHosts \union {h}
    /\ lastFailed' = lastFailed \ {h}
    /\ due' = due \ {h}
    /\ UNCHANGED known

Changes(h, k) ==
    /\ kind[h] # k
    /\ kind' = [kind EXCEPT ![h] = k]
    /\ UNCHANGED <<lastFailed, due, plainHosts, known, pass, call>>

\* Time passes: a backoff, a plain verdict, a cached well-known.
BackoffEnds(h) ==
    /\ h \in lastFailed \ due
    /\ due' = due \union {h}
    /\ UNCHANGED <<kind, lastFailed, plainHosts, known, pass, call>>

PlainExpires(h) ==
    /\ h \in plainHosts
    /\ plainHosts' = plainHosts \ {h}
    /\ UNCHANGED <<kind, lastFailed, due, known, pass, call>>

KnownExpires(h) ==
    /\ h \in known
    /\ known' = known \ {h}
    /\ UNCHANGED <<kind, lastFailed, due, plainHosts, pass, call>>

-----------------------------------------------------------------------------
\* A call begins: Query, Call and GetResource reach a server found through
\* GetServer, Realtime dials it, BatchGet looks whether it is online first.
Begin(c, op, h) ==
    /\ call[c] = None
    /\ op = "batch" => IsOnline(h)
    /\ IF h \in known
       THEN call' = [call EXCEPT ![c] = Request(op, "resolved", h)]
       ELSE /\ h \in plainHosts => op = "batch"
            /\ IsOnline(h)
            /\ call' = [call EXCEPT ![c] = Request(op,
                    IF h \in plainHosts THEN "get" ELSE "wellknown", h)]
    /\ UNCHANGED <<kind, lastFailed, due, plainHosts, known, pass>>

\* GetServer's answer: a server is remembered, a 4xx is a plain host, which
\* only BatchGet goes on with; anything else marks it offline.
WellKnown(c) ==
    LET r == call[c]
        h == r.host
        goesOn == kind[h] = "server" \/ (kind[h] = "plain" /\ r.op = "batch")
        next == IF kind[h] = "server" THEN "resolved" ELSE "get"
    IN  /\ r # None /\ r.stage = "wellknown"
        /\ call' = [call EXCEPT ![c] = IF goesOn THEN [r EXCEPT !.stage = next]
                                       ELSE None]
        /\ CASE kind[h] = "server" ->
                  /\ known' = known \union {h}
                  /\ UNCHANGED <<lastFailed, due, plainHosts>>
             [] kind[h] = "plain" -> MarkPlainHost(h)
             [] OTHER -> MarkOffline(h)
        /\ UNCHANGED <<kind, pass>>

\* The server is known: the request is sent if the host is online by now
\* (BatchGet asked before).
Send(c) ==
    LET r == call[c]
    IN  /\ r # None /\ r.stage = "resolved"
        /\ call' = [call EXCEPT ![c] =
                IF r.op = "batch" \/ IsOnline(r.host)
                THEN [r EXCEPT !.stage = "request"] ELSE None]
        /\ UNCHANGED <<kind, lastFailed, due, plainHosts, known, pass>>

\* Its end: a dial that fails in any way and a timeout of the others, BatchGet's
\* multipart request among them, mark the host.
Failed(c, dialFails) ==
    IF call[c].op = "realtime" THEN dialFails \/ kind[call[c].host] # "server"
    ELSE kind[call[c].host] = "silent"

Answer(c, dialFails) ==
    /\ call[c] # None /\ call[c].stage \in {"request", "get"}
    /\ dialFails => call[c].op = "realtime"
    /\ IF Failed(c, dialFails) THEN MarkOffline(call[c].host)
       ELSE UNCHANGED <<lastFailed, due, plainHosts, known>>
    /\ call' = [call EXCEPT ![c] = None]
    /\ UNCHANGED <<kind, pass>>

-----------------------------------------------------------------------------
\* UpKeeper: a tick copies the offline hosts, which are visited in turn.
KeeperTick ==
    /\ pass = {} /\ call[Keeper] = None /\ lastFailed # {}
    /\ pass' = lastFailed
    /\ UNCHANGED <<kind, lastFailed, due, plainHosts, known, call>>

\* The backoff has not run out.
KeeperSkips(h) ==
    /\ h \in pass \ due /\ call[Keeper] = None
    /\ pass' = pass \ {h}
    /\ UNCHANGED <<kind, lastFailed, due, plainHosts, known, call>>

KeeperProbes(h) ==
    /\ h \in pass \intersect due /\ call[Keeper] = None
    /\ pass' = pass \ {h}
    /\ call' = [call EXCEPT ![Keeper] = Request("probe", "probe", h)]
    /\ UNCHANGED <<kind, lastFailed, due, plainHosts, known>>

\* Mutant: the probe asks for a 200.
HealthyOnly200(h) == kind[h] = "server"

\* healthCheckDomain: a 4xx is a reachable host too.
Healthy(h) == kind[h] \in {"server", "plain"}

\* The outcome is applied whatever happened to the host meanwhile.
KeeperAnswer ==
    LET h == call[Keeper].host
    IN  /\ call[Keeper] # None
        /\ call' = [call EXCEPT ![Keeper] = None]
        /\ IF Healthy(h)
           THEN /\ lastFailed' = lastFailed \ {h}
                /\ due' = due \ {h}
                /\ plainHosts' = IF kind[h] = "plain" THEN plainHosts \union {h}
                                 ELSE plainHosts
           ELSE /\ lastFailed' = lastFailed \union {h}
                /\ due' = due \ {h}
                /\ UNCHANGED plainHosts
        /\ UNCHANGED <<kind, known, pass>>

Next ==
    \/ \E h \in Hosts : \/ \E k \in Kinds : Changes(h, k)
                        \/ BackoffEnds(h) \/ PlainExpires(h) \/ KnownExpires(h)
                        \/ KeeperSkips(h) \/ KeeperProbes(h)
    \/ KeeperTick \/ KeeperAnswer
    \/ \E c \in Callers :
         \/ \E op \in {"call", "realtime", "batch"}, h \in Hosts : Begin(c, op, h)
         \/ WellKnown(c) \/ Send(c)
         \/ \E dialFails \in BOOLEAN : Answer(c, dialFails)

\* Time passes, requests end (a 3 s timeout at the latest), the keeper ticks.
Fairness ==
    /\ \A h \in Hosts : WF_vars(BackoffEnds(h)) /\ WF_vars(PlainExpires(h))
                        /\ WF_vars(KnownExpires(h))
    /\ WF_vars(KeeperTick)
    /\ WF_vars(\E h \in Hosts : KeeperSkips(h) \/ KeeperProbes(h))
    /\ WF_vars(KeeperAnswer)

Spec == Init /\ [][Next]_vars /\ Fairness

-----------------------------------------------------------------------------

\* UpKeeper, healthCheckDomain: a host that answers again, server or plain, is
\* not treated as offline for ever ("Requiring a 200 here would keep such a
\* host offline forever").
OnlineAgain ==
    \A h \in Hosts :
        <>[](kind[h] \in {"server", "plain"}) => []<>IsOnline(h)

=============================================================================
