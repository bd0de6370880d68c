----------------------------- MODULE MCProgress -----------------------------
(* Instances of the components whose promise is that something eventually     *)
(* happens, one per behaviour: its first state chooses the component (which), *)
(* the variables of the others keep their initial values.                     *)
(*   RecordTree: a parent with two children and a grandchild below one of     *)
(* them, so that a commit may have to create two placeholders; that child is  *)
(* written again, there is one association, and a document the reader may not *)
(* see.  As many rows share a created_at as a page holds, or one more.        *)
EXTENDS RecordTree, Notifications

VARIABLES
    which,
    kind, lastFailed, due, plainHosts, known, pass, call,     \* PeerStatus
    clock, cdate, visible, cursor, seen, overtaken            \* LogFollower

peerVars == <<kind, lastFailed, due, plainHosts, known, pass, call>>
followerVars == <<clock, cdate, visible, cursor, seen, overtaken>>
mcVars == <<which, peerVars, followerVars, pushVars, vars>>

MCParent == <<0, 1, 2, 1>>
MCAbove == <<{}, {1}, {1, 2}, {1}>>
MCDoc ==
    <<[key |-> 1, at |-> 1], [key |-> 2, at |-> 2], [key |-> 3, at |-> 2],
      [key |-> 4, at |-> 2], [key |-> 2, at |-> 3]>>
MCAssoc == <<[target |-> 1, at |-> 1, unique |-> 1]>>

Ask(what, desc) == [kind |-> what, of |-> 1, desc |-> desc]
MCQueries ==
    {Ask("parent", TRUE), Ask("keys", FALSE), Ask("prefix", FALSE),
     Ask("associated", FALSE)}

Peers ==
    INSTANCE PeerStatus WITH Hosts <- {"h1", "h2"}, Callers <- {"c1"},
                             Keeper <- "keeper"

\* Two commits may share an instant; the second commit is not the follower's.
Follower ==
    INSTANCE LogFollower WITH Commits <- 1 .. 4, Hidden <- {2}, Limit <- 2,
                              MaxClock <- 3

MCInit ==
    /\ which \in {"peers", "follower", "push", "records"}
    /\ Peers!Init /\ Follower!Init /\ PushInit /\ Init
    /\ which # "peers" => kind = [h \in {"h1", "h2"} |-> "server"]

PeersStep ==
    /\ which = "peers" /\ Peers!Next
    /\ UNCHANGED <<which, followerVars, pushVars, vars>>
FollowerStep ==
    /\ which = "follower" /\ Follower!Next
    /\ UNCHANGED <<which, peerVars, pushVars, vars>>
PushStep ==
    /\ which = "push" /\ PushNext
    /\ UNCHANGED <<which, peerVars, followerVars, vars>>
RecordsStep ==
    /\ which = "records" /\ Next
    /\ UNCHANGED <<which, peerVars, followerVars, pushVars>>

MCNext == PeersStep \/ FollowerStep \/ PushStep \/ RecordsStep

\* Each property names the fairness it needs.
MCSpec == MCInit /\ [][MCNext]_mcVars

-----------------------------------------------------------------------------
\* UpKeeper and healthCheckDomain: a host that answers again is not treated as
\* offline for ever.
OnlineAgain == Peers!Fairness => Peers!OnlineAgain

\* Replicate: a follower that keeps asking is given every commit that did not
\* appear behind its cursor.
FollowerCatchesUp == Follower!Fairness => Follower!FollowerCatchesUp

\* runWorker: an event handed to a worker is pushed, also when another replica's
\* worker was handed it too; events and replicas are interchangeable here, so
\* one of each stands for all.
EventPushed == HandedIsPushed("e1", "p1")
=============================================================================
