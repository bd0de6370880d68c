---------------------------- MODULE MCFederation ----------------------------
(* Instances of two components that follow what other servers send, one per  *)
(* behaviour: its first state chooses the component (which), and the other   *)
(* stays as it is.  In AckFederation the acker stays on server a, the target *)
(* moves from b to a, and an ack competes with a simultaneous and a later    *)
(* unack.                                                                    *)
EXTENDS ChunklineCache, AckFederation, TLC

CONSTANTS ack1, unack1, unack2

VARIABLE which

mcVars == <<which, vars, ackVars>>

MCAcks == {ack1, unack1, unack2}
MCCreatedAt == [d \in MCAcks |-> IF d = unack2 THEN 2 ELSE 1]

MCEntities == {"from_a", "to_b", "to_a"}
MCEntity == [from_a |-> [user |-> "from", domain |-> "a", createdAt |-> 0],
             to_b   |-> [user |-> "to", domain |-> "b", createdAt |-> 0],
             to_a   |-> [user |-> "to", domain |-> "a", createdAt |-> 1]]

\* ack1 and unack1 are of one instant.
Symmetry == Permutations(Records) \union Permutations({ack1, unack1})

MCInit == which \in {"cache", "acks"} /\ Init /\ AckInit

CacheStep == which = "cache" /\ Next /\ UNCHANGED <<which, ackVars>>
AckStep == which = "acks" /\ AckNext /\ UNCHANGED <<which, vars>>

MCNext == CacheStep \/ AckStep

MCSpec == MCInit /\ [][MCNext]_mcVars
=============================================================================
