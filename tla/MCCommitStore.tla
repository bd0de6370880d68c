---------------------------- MODULE MCCommitStore ----------------------------
(* Instances of CommitStore: two keys of one user, one below the other, a     *)
(* key of another user, and a handful of documents that compete for them.    *)
EXTENDS CommitStore, TLC

Blank ==
    [kind |-> "record", owner |-> "A", createdAt |-> 0, recordAt |-> 0,
     key |-> "tl", retain |-> FALSE, sweep |-> {}, keys |-> {},
     target |-> NoDoc, auth |-> TRUE, refs |-> {}]

Rec(k, t) == [Blank EXCEPT !.key = k, !.createdAt = t, !.recordAt = t]
Del(ks, t) == [Blank EXCEPT !.kind = "delete", !.keys = ks, !.createdAt = t]

Catalogue ==
    [old    |-> Rec("tl", 0),
     new    |-> [Rec("tl", 1) EXCEPT !.retain = TRUE],
     other  |-> [Rec("tl2", 0) EXCEPT !.owner = "B"],
     post   |-> [Rec("tl", 0) EXCEPT !.sweep = {"tl/x"}],
     ref    |-> [Rec("tl/x", 1) EXCEPT !.recordAt = 0],
     del    |-> Del({"tl"}, 1),
     range  |-> Del({"tl", "tl/x"}, 1),
     byId   |-> [Del({}, 1) EXCEPT !.target = "post"],
     remote |-> [Del({}, 1) EXCEPT !.auth = FALSE, !.refs = {"post"}],
     stray  |-> [Del({}, 1) EXCEPT !.auth = FALSE]]

MCKeys == {"tl", "tl/x", "tl2"}
MCOwners == {"A", "B"}
MCAncestors == [k \in MCKeys |-> IF k = "tl/x" THEN {"tl"} ELSE {}]
MCDoc == [d \in Docs |-> Catalogue[d]]

\* requests are interchangeable
ProcSymmetry == Permutations(Procs)

\* overwrite against overwrite against delete, on one key, next to a document
\* of a user who stays while the other unregisters
OverwriteDocs == {"old", "new", "del", "other"}
\* a post and the reference record it distributed below it, removed by a
\* range, a by-id and a forwarded delete; one delete concerns nothing here
TreeDocs == {"post", "ref", "range", "byId", "remote", "stray"}
=============================================================================
