----------------------------- MODULE MCTransfer -----------------------------
(* An instance of CommitLogTransfer.                                         *)
EXTENDS CommitLogTransfer

\* A record and its delete by the owner of a key, dated in this order but
\* committed in any, then another owner's record there, a record of the other
\* key, and entity documents that come before and after.
TransferDoc ==
    LET D(kind, author, owner, key) ==
            [kind |-> kind, author |-> author, owner |-> owner, key |-> key]
    IN  [d \in 1 .. 7 |->
            CASE d = 1 -> D("record", "A", "A", "a")
              [] d = 2 -> D("entity", "A", "A", "a")
              [] d = 3 -> D("delete", "A", "A", "a")
              [] d = 4 -> D("record", "B", "A", "a")
              [] d = 5 -> D("entity", "B", "B", "b")
              [] d = 6 -> D("record", "B", "B", "b")
              [] d = 7 -> D("entity", "A", "A", "a")]
=============================================================================
