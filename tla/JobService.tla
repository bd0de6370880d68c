----------------------------- MODULE JobService -----------------------------
(* What the job queue promises its producers and operators: at-least-once    *)
(* processing.  A job that was accepted stays due until it succeeded, was    *)
(* parked among the dead letters or was thrown away by an operator.  Copies  *)
(* make a success neither unique nor prompt, and the store has finite room:  *)
(* a job of which it lost a copy is forfeited and promised nothing more.     *)
CONSTANT Jobs

VARIABLES
    accepted,   \* jobs a producer was told are enqueued
    due,        \* those with a copy that a worker will still pick up
    parked,     \* those with a copy among the dead letters
    succeeded,  \* those whose handler returned without an error
    discarded,  \* those an operator purged
    forfeited   \* those of which the store lost a copy

vars == <<accepted, due, parked, succeeded, discarded, forfeited>>

Init ==
    /\ accepted = {} /\ due = {} /\ parked = {}
    /\ succeeded = {} /\ discarded = {} /\ forfeited = {}

\* A job joins a set; the store may make room by dropping copies of others,
\* which may have been their last ones there.
Joins(j, set, lost) == {(set \ gone) \union {j} : gone \in SUBSET lost}

Accept(j, lost) ==
    /\ j \notin accepted
    /\ accepted' = accepted \union {j}
    /\ due' \in Joins(j, due, lost)
    /\ forfeited' = forfeited \union lost
    /\ UNCHANGED <<parked, succeeded, discarded>>

\* A worker may hold a stale copy, so even a settled job can succeed.
Succeed(j) ==
    /\ j \in accepted
    /\ succeeded' = succeeded \union {j}
    /\ UNCHANGED <<accepted, due, parked, discarded, forfeited>>

Park(j, lost) ==
    /\ j \in accepted
    /\ parked' \in Joins(j, parked, lost)
    /\ forfeited' = forfeited \union lost
    /\ UNCHANGED <<accepted, due, succeeded, discarded>>

\* A copy is put back: a retry, or a reinjection, which may unpark the job.
Requeue(j, lost) ==
    /\ j \in accepted
    /\ due' \in Joins(j, due, lost)
    /\ parked' \in {parked, parked \ {j}}
    /\ forfeited' = forfeited \union lost
    /\ UNCHANGED <<accepted, succeeded, discarded>>

\* The last copy that was due is acknowledged: never before the job is settled.
Finish(j) ==
    /\ j \in succeeded \union parked \union discarded \union forfeited
    /\ due' = due \ {j}
    /\ UNCHANGED <<accepted, parked, succeeded, discarded, forfeited>>

Discard(js) ==
    /\ js \subseteq parked
    /\ discarded' = discarded \union js
    /\ \E gone \in SUBSET js : parked' = parked \ gone
    /\ UNCHANGED <<accepted, due, succeeded, forfeited>>

\* A copy that should have been written was not.
Lose(j) ==
    /\ j \in accepted
    /\ forfeited' = forfeited \union {j}
    /\ UNCHANGED <<accepted, due, parked, succeeded, discarded>>

Next ==
    \/ \E j \in Jobs, lost \in SUBSET accepted :
          Accept(j, lost) \/ Park(j, lost) \/ Requeue(j, lost)
    \/ \E j \in Jobs : Succeed(j) \/ Finish(j) \/ Lose(j)
    \/ \E js \in SUBSET Jobs : Discard(js)

Spec == Init /\ [][Next]_vars
=============================================================================
