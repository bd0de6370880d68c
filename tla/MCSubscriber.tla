---------------------------- MODULE MCSubscriber ----------------------------
(* Instances of Subscriber: timelines of one remote host.                    *)
EXTENDS Subscriber

CONSTANTS
    Single        \* the only timeline anybody asks for across lead terms

VARIABLE
    scope         \* what the run varies: lead terms, or the timelines

mcVars == <<vars, scope>>

MCHostOf == [p \in Remote |-> "h"]

\* Several terms with one timeline, or one term with all of them.
InScope ==
    \/ scope = "terms" /\ \A r \in Replicas : sessions[r] \subseteq {Single}
    \/ scope = "timelines" /\ term <= 1

MCInit == Init /\ scope \in {"terms", "timelines"} /\ InScope

\* Only Start and Session, of which no fairness is assumed, are cut.
MCNext == Next /\ UNCHANGED scope /\ InScope'

MCSpec == MCInit /\ [][MCNext]_mcVars /\ Fairness

=============================================================================
