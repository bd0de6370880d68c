-------------------------- MODULE RecordTreeProofs --------------------------
(* For any keys, documents, writers and page size: children are listed under  *)
(* their parent unless its row went away after they were written, and a       *)
(* reader who pages to the end has been given every row that stayed.          *)
EXTENDS RecordTree, FiniteSetTheorems, FunctionTheorems, TLAPS

\* The key a commit writes.
KeyOf(w) == Doc[tx[w].doc].key

Txs ==
    [doc : Docs \union {0}, held : BOOLEAN, fresh : SUBSET Keys,
     found : UNION {[S -> Keys \X Nat] : S \in SUBSET Keys}, stale : SUBSET Keys]

Typed ==
    /\ rows \in [Keys -> Row \union {NoRow}]
    /\ tx \in [Writers -> Txs]
    /\ lost \subseteq Keys
    /\ deletes \in Nat

\* The id of a row that is gone: older than any row its key has or will have.
Dead(r, p) == r[2] < deletes /\ (Stored(p) => r[2] < rows[p].id[2])

\* The row id r names the row of p, or a dead one when gone says so.
Names(r, p, gone) ==
    IF gone THEN Dead(r, p) ELSE Stored(p) /\ r = rows[p].id

\* A stored child names its parent's row, unless it is lost.
RowsLinked ==
    \A c \in Keys : Stored(c) =>
        /\ rows[c].id[2] =< deletes
        /\ Parent[c] # 0 => Names(rows[c].parent, Parent[c], c \in lost)

\* A commit in flight writes its key and placeholders of ancestors that nobody
\* has; what it found above them is there or known to be stale.
TxLinked(w) ==
    LET k == KeyOf(w)
    IN  /\ tx[w].doc \in Docs
        /\ tx[w].fresh \subseteq Above[k]
        /\ \A a \in tx[w].fresh : ~Stored(a)
        /\ tx[w].stale \subseteq DOMAIN tx[w].found
        /\ DOMAIN tx[w].found = {c \in tx[w].fresh \union {k} :
                            Parent[c] # 0 /\ Parent[c] \notin tx[w].fresh}
        /\ \A c \in DOMAIN tx[w].found :
                Names(tx[w].found[c], Parent[c], c \in tx[w].stale)

TxsLinked ==
    \A w \in Writers : tx[w] = NoTx \/ (tx[w].doc # 0 /\ TxLinked(w))

\* No two commits insert a placeholder for one key.
FreshApart ==
    \A v, w \in Writers : v # w => tx[v].fresh \intersect tx[w].fresh = {}

TreeInv == Typed /\ RowsLinked /\ TxsLinked /\ FreshApart

-----------------------------------------------------------------------------
\* getOrCreateParentRecordKey goes up to the first ancestor that has a row: the
\* parent of a key it writes is either written too or has a row.
LEMMA FirstStored ==
    ASSUME NEW k \in Keys, NEW c \in Missing(k) \union {k},
           Parent[c] # 0, Parent[c] \notin Missing(k)
    PROVE  Parent[c] \in Keys /\ Stored(Parent[c])
<1>1. c \in Keys /\ Parent[c] \in Keys /\ c \in Nat /\ Parent[c] \in Nat
  BY PathAssumption DEF Missing
<1>2. Parent[c] \in Above[c] /\ Above[c] = {Parent[c]} \union Above[Parent[c]]
  BY <1>1, PathAssumption
<1>3. Above[c] \subseteq Above[k]
  BY <1>1, PathAssumption DEF Missing
<1>4. PICK b \in Above[k] : Parent[c] =< b /\ Stored(b)
  BY <1>2, <1>3 DEF Missing
<1>5. b \in Nat /\ b \in Keys
  BY <1>4, PathAssumption
<1>6. b \in Above[c]
  <2>1. CASE c = k
    BY <2>1
  <2>2. CASE c # k
    <3>1. c \in Missing(k) /\ c \in Above[k]
      BY <2>2 DEF Missing
    <3>2. ~(c =< b)
      BY <3>1, <1>4 DEF Missing
    <3>3. b < c
      BY <3>2, <1>1, <1>5
    <3>. QED  BY <3>1, <3>3, PathAssumption
  <2>. QED  BY <2>1, <2>2
<1>7. b = Parent[c]
  <2>1. CASE b \in Above[Parent[c]]
    <3>1. b < Parent[c]
      BY <2>1, <1>1, PathAssumption
    <3>. QED  BY <3>1, <1>4, <1>5, <1>1
  <2>. QED  BY <1>2, <1>6, <2>1
<1>. QED  BY <1>1, <1>4, <1>7

\* A writer without a commit is well-typed.
LEMMA IdleTyped == NoTx \in Txs
<1>1. [c \in {} |-> NoId] \in [{} -> Keys \X Nat]
  OBVIOUS
<1>2. [c \in {} |-> NoId] \in UNION {[S -> Keys \X Nat] : S \in SUBSET Keys}
  BY <1>1
<1>. QED  BY <1>2 DEF NoTx, Txs

\* An empty table is linked.
LEMMA TreeInit == Init => TreeInv
<1>. SUFFICES ASSUME Init PROVE TreeInv
  OBVIOUS
<1>2. Typed
  BY IdleTyped DEF Init, Typed
<1>3. RowsLinked
  BY DEF Init, RowsLinked, Stored
<1>4. TxsLinked /\ FreshApart
  BY DEF Init, TxsLinked, FreshApart, NoTx
<1>. QED  BY <1>2, <1>3, <1>4 DEF TreeInv

\* What the reader and associations do leaves the tree alone.
LEMMA TreeStutter ==
    TreeInv /\ UNCHANGED <<rows, tx, lost, deletes>> => TreeInv'
<1>. SUFFICES ASSUME TreeInv, UNCHANGED <<rows, tx, lost, deletes>>
              PROVE  TreeInv'
  OBVIOUS
<1>. USE DEF Stored, Dead, Names, KeyOf
<1>1. Typed' /\ FreshApart'
  BY DEF TreeInv, Typed, FreshApart
<1>2. RowsLinked'
  BY DEF TreeInv, RowsLinked
<1>3. ASSUME NEW w \in Writers
      PROVE  (tx[w] = NoTx \/ (tx[w].doc # 0 /\ TxLinked(w)))'
  BY <1>3 DEF TreeInv, TxsLinked, TxLinked
<1>. QED  BY <1>1, <1>2, <1>3 DEF TreeInv, TxsLinked

\* SELECT ... FOR UPDATE and getOrCreateParentRecordKey: what is found has a row,
\* what is created has none and nobody else is creating it.
LEMMA TreeFindParent ==
    ASSUME TreeInv, NEW w \in Writers, NEW d \in Docs, FindParent(w, d)
    PROVE  TreeInv'
<1>. DEFINE k == Doc[d].key
            below == {c \in Missing(k) \union {k} :
                        Parent[c] # 0 /\ Parent[c] \notin Missing(k)}
            found == [c \in below |-> rows[Parent[c]].id]
            t == [doc |-> d, held |-> Stored(k), fresh |-> Missing(k),
                  found |-> found, stale |-> {}]
<1>1. /\ tx' = [tx EXCEPT ![w] = t]
      /\ UNCHANGED <<rows, lost, deletes>>
      /\ \A a \in Missing(k) : ~Pending(a)
  BY DEF FindParent
<1>2. k \in Keys /\ d # 0
  BY DocAssumption
<1>3. Missing(k) \subseteq Above[k] /\ Missing(k) \subseteq Keys
  BY <1>2, PathAssumption DEF Missing
<1>4. \A a \in Missing(k) : ~Stored(a)
  <2>. TAKE a \in Missing(k)
  <2>0. a \in Keys /\ Keys \subseteq Nat
    BY <1>3, PathAssumption
  <2>1. a \in Above[k] /\ a =< a
    BY <1>3, <2>0
  <2>. QED  BY <2>1 DEF Missing, Stored
<1>5. \A c \in below : /\ c \in Keys /\ Parent[c] \in Keys
                       /\ Stored(Parent[c]) /\ rows[Parent[c]].id \in Keys \X Nat
  <2>. TAKE c \in below
  <2>1. c \in Keys /\ Parent[c] \in Keys /\ Stored(Parent[c])
    BY <1>2, <1>3, FirstStored
  <2>2. rows[Parent[c]] \in Row
    BY <2>1 DEF TreeInv, Typed, Stored
  <2>. QED  BY <2>1, <2>2 DEF Row
<1>6. found \in [below -> Keys \X Nat] /\ below \in SUBSET Keys
  BY <1>5
<1>. HIDE DEF found, below
<1>7. t \in Txs
  <2>1. found \in UNION {[S -> Keys \X Nat] : S \in SUBSET Keys}
    BY <1>6
  <2>2. Stored(k) \in BOOLEAN
    BY DEF Stored
  <2>. QED  BY <1>3, <2>1, <2>2 DEF Txs
<1>8. Typed'
  BY <1>1, <1>7 DEF TreeInv, Typed
<1>9. RowsLinked'
  BY <1>1 DEF TreeInv, RowsLinked, Names, Dead, Stored
<1>10. tx'[w] = t /\ \A v \in Writers \ {w} : tx'[v] = tx[v]
  BY <1>1 DEF TreeInv, Typed
<1>11. FreshApart'
  <2>1. \A v \in Writers : Missing(k) \intersect tx[v].fresh = {}
    BY <1>1 DEF Pending
  <2>. QED  BY <2>1, <1>10 DEF TreeInv, FreshApart
<1>12. TxLinked(w)'
  <2>1. tx'[w].doc = d /\ KeyOf(w)' = k
    BY <1>10 DEF KeyOf
  <2>2. tx'[w].fresh = Missing(k) /\ tx'[w].stale = {} /\ tx'[w].found = found
    BY <1>10
  <2>3. DOMAIN found = below
    BY <1>6
  <2>4. \A c \in below : Stored(Parent[c])' /\ found[c] = rows'[Parent[c]].id
    BY <1>1, <1>5 DEF Stored, found
  <2>5. \A a \in Missing(k) : ~Stored(a)'
    BY <1>1, <1>4 DEF Stored
  <2>6. \A c \in DOMAIN tx'[w].found :
            Names(tx[w].found[c], Parent[c], c \in tx[w].stale)'
    BY <2>2, <2>3, <2>4 DEF Names
  <2>7. below = {c \in tx'[w].fresh \union {k} :
                    Parent[c] # 0 /\ Parent[c] \notin tx'[w].fresh}
    BY <2>2 DEF below
  <2>. QED  BY <2>1, <2>2, <2>3, <2>5, <2>6, <2>7, <1>3 DEF TxLinked
<1>13. ASSUME NEW v \in Writers
       PROVE  (tx[v] = NoTx \/ (tx[v].doc # 0 /\ TxLinked(v)))'
  <2>1. CASE v = w
    BY <2>1, <1>2, <1>10, <1>12
  <2>2. CASE v # w
    BY <2>2, <1>1, <1>10
       DEF TreeInv, TxsLinked, TxLinked, KeyOf, Names, Dead, Stored
  <2>. QED  BY <2>1, <2>2
<1>. QED  BY <1>8, <1>9, <1>11, <1>13 DEF TreeInv, TxsLinked

\* A commit that is given up takes its placeholders with it.
LEMMA TreeRollback ==
    ASSUME TreeInv, NEW w \in Writers, Rollback(w)
    PROVE  TreeInv'
<1>1. tx' = [tx EXCEPT ![w] = NoTx] /\ UNCHANGED <<rows, lost, deletes>>
  BY DEF Rollback
<1>2. tx'[w] = NoTx /\ \A v \in Writers \ {w} : tx'[v] = tx[v]
  BY <1>1 DEF TreeInv, Typed
<1>3. Typed'
  BY <1>1, IdleTyped DEF TreeInv, Typed
<1>4. RowsLinked'
  BY <1>1 DEF TreeInv, RowsLinked, Names, Dead, Stored
<1>5. FreshApart'
  BY <1>2 DEF TreeInv, FreshApart, NoTx
<1>6. ASSUME NEW v \in Writers
      PROVE  (tx[v] = NoTx \/ (tx[v].doc # 0 /\ TxLinked(v)))'
  BY <1>1, <1>2 DEF TreeInv, TxsLinked, TxLinked, KeyOf, Names, Dead, Stored
<1>. QED  BY <1>3, <1>4, <1>5, <1>6 DEF TreeInv, TxsLinked

\* The upsert keeps the id of a row it overwrites, so whoever names a row still
\* does; what it writes names its own placeholders or what the lookup found.
LEMMA TreeUpsert ==
    ASSUME TreeInv, NEW w \in Writers, Upsert(w)
    PROVE  TreeInv'
<1>. DEFINE d == tx[w].doc
            k == KeyOf(w)
            new == tx[w].fresh \union {k}
<1>1. /\ d # 0 /\ UNCHANGED deletes
      /\ \A v \in Writers \ {w} : k \notin tx[v].fresh
      /\ rows' = [a \in Keys |->
                    IF a = k THEN Written(k, d, ParentId(w, k))
                    ELSE IF a \in tx[w].fresh
                    THEN [id |-> NewId(a), parent |-> ParentId(w, a), doc |-> 0]
                    ELSE rows[a]]
      /\ lost' = (lost \ new) \union tx[w].stale
      /\ tx' = [tx EXCEPT ![w] = NoTx]
  BY DEF Upsert, KeyOf
<1>2. TxLinked(w) /\ d \in Docs /\ k \in Keys
  <2>1. tx[w] # NoTx
    BY <1>1 DEF NoTx
  <2>2. TxLinked(w) /\ d \in Docs
    BY <2>1 DEF TreeInv, TxsLinked, TxLinked
  <2>. QED  BY <2>2, DocAssumption DEF KeyOf
<1>3. /\ new \subseteq Keys
      /\ \A c \in new : Parent[c] # 0 =>
             /\ Parent[c] \in Keys /\ Parent[c] # k
             /\ Parent[c] \notin tx[w].fresh => c \in DOMAIN tx[w].found
  <2>1. new \subseteq Keys
    BY <1>2, PathAssumption DEF TxLinked
  <2>2. ASSUME NEW c \in new, Parent[c] # 0 PROVE Parent[c] \in Keys /\ Parent[c] # k
    <3>1. c \in Keys /\ c \in Nat /\ k \in Nat /\ Parent[c] \in Keys /\ Parent[c] \in Nat
      BY <2>1, <2>2, <1>2, PathAssumption
    <3>2. Parent[c] < c
      BY <3>1, <2>2, PathAssumption
    <3>3. c = k \/ c < k
      BY <1>2, PathAssumption DEF TxLinked
    <3>. QED  BY <3>1, <3>2, <3>3
  <2>3. ASSUME NEW c \in new, Parent[c] # 0, Parent[c] \notin tx[w].fresh
        PROVE  c \in DOMAIN tx[w].found
    BY <2>3, <1>2 DEF TxLinked
  <2>. QED  BY <2>1, <2>2, <2>3
<1>4. tx[w] \in Txs /\ tx[w].fresh \subseteq Keys /\ deletes \in Nat
  BY DEF TreeInv, Typed, Txs
<1>5. \A c \in DOMAIN tx[w].found : tx[w].found[c] \in Keys \X Nat
  BY <1>4 DEF Txs
<1>6. \A c \in new : ParentId(w, c) \in (Keys \union {0}) \X Nat
  <2>. TAKE c \in new
  <2>1. CASE Parent[c] = 0
    BY <2>1 DEF ParentId, NoId
  <2>2. CASE Parent[c] # 0
    BY <2>2, <1>3, <1>4, <1>5 DEF ParentId, NewId
  <2>. QED  BY <2>1, <2>2
<1>7. ASSUME NEW a \in Keys, Stored(a)
      PROVE  rows[a] \in Row /\ rows[a].id \in Keys \X Nat
  BY <1>7 DEF TreeInv, Typed, Stored, Row
<1>8. \A a \in Keys \ new : rows'[a] = rows[a]
  BY <1>1
<1>9. \A a \in new : /\ rows'[a] \in Row
                     /\ rows'[a].parent = ParentId(w, a)
                     /\ rows'[a].id = IF Stored(a) THEN rows[a].id ELSE NewId(a)
  <2>1. rows'[k] = Written(k, d, ParentId(w, k))
    BY <1>1, <1>2
  <2>2. \A a \in tx[w].fresh \ {k} :
            rows'[a] = [id |-> NewId(a), parent |-> ParentId(w, a), doc |-> 0]
    BY <1>1, <1>3
  <2>3. \A a \in tx[w].fresh : ~Stored(a)
    BY <1>2 DEF TxLinked
  <2>4. ASSUME NEW a \in new PROVE NewId(a) \in Keys \X Nat
    BY <1>3, <1>4 DEF NewId
  <2>5. ASSUME NEW a \in new, a = k
        PROVE  /\ rows'[a] \in Row
               /\ rows'[a].parent = ParentId(w, a)
               /\ rows'[a].id = IF Stored(a) THEN rows[a].id ELSE NewId(a)
    <3>1. IF Stored(k) THEN rows[k].id \in Keys \X Nat ELSE NewId(k) \in Keys \X Nat
      BY <2>4, <2>5, <1>2, <1>7
    <3>2. ParentId(w, k) \in (Keys \union {0}) \X Nat
      BY <1>6
    <3>. QED  BY <2>1, <2>5, <3>1, <3>2, <1>2 DEF Written, Row
  <2>6. ASSUME NEW a \in new, a # k
        PROVE  /\ rows'[a] \in Row
               /\ rows'[a].parent = ParentId(w, a)
               /\ rows'[a].id = IF Stored(a) THEN rows[a].id ELSE NewId(a)
    <3>1. a \in tx[w].fresh \ {k} /\ ~Stored(a)
      BY <2>3, <2>6
    <3>2. rows'[a] = [id |-> NewId(a), parent |-> ParentId(w, a), doc |-> 0]
      BY <2>2, <3>1
    <3>3. NewId(a) \in Keys \X Nat /\ ParentId(w, a) \in (Keys \union {0}) \X Nat
      BY <2>4, <1>6
    <3>4. rows'[a] \in Row /\ rows'[a].parent = ParentId(w, a) /\ rows'[a].id = NewId(a)
      BY <3>2, <3>3 DEF Row
    <3>. QED  BY <3>1, <3>4
  <2>. QED  BY <2>5, <2>6
<1>10. NoRow \notin Row
  BY DocAssumption
<1>11. Typed'
  <2>1. rows' \in [Keys -> Row \union {NoRow}]
    <3>1. \A a \in Keys : rows'[a] \in Row \union {NoRow}
      BY <1>8, <1>9 DEF TreeInv, Typed
    <3>. QED  BY <1>1, <3>1
  <2>2. tx' \in [Writers -> Txs]
    BY <1>1, IdleTyped DEF TreeInv, Typed
  <2>3. tx[w].stale \subseteq Keys
    BY <1>4 DEF Txs
  <2>. QED  BY <2>1, <2>2, <2>3, <1>1 DEF TreeInv, Typed
<1>12. \A a \in new : Stored(a)'
  BY <1>9, <1>10 DEF Stored
<1>13. \A a \in Keys : Stored(a) => Stored(a)' /\ rows'[a].id = rows[a].id
  BY <1>8, <1>9, <1>12 DEF Stored
<1>14. \A a \in Keys : Stored(a)' /\ ~Stored(a) => a \in new /\ rows'[a].id[2] = deletes
  <2>. SUFFICES ASSUME NEW a \in Keys, Stored(a)', ~Stored(a)
                PROVE  a \in new /\ rows'[a].id[2] = deletes
    OBVIOUS
  <2>1. a \in new
    BY <1>8 DEF Stored
  <2>2. rows'[a].id = IF Stored(a) THEN rows[a].id ELSE NewId(a)
    BY <2>1, <1>9
  <2>3. rows'[a].id = <<a, deletes>>
    BY <2>2 DEF NewId, Stored
  <2>. QED  BY <2>1, <2>3
<1>15. ASSUME NEW p \in Keys, NEW n \in Nat,
              n < deletes, Stored(p) => n < rows[p].id[2]
       PROVE  Stored(p)' => n < rows'[p].id[2]
  BY <1>13, <1>14, <1>15
<1>16. ASSUME NEW c \in Keys, Stored(c)'
       PROVE  /\ rows'[c].id[2] =< deletes'
              /\ Parent[c] # 0 => Names(rows[c].parent, Parent[c], c \in lost)'
  <2>1. rows'[c].id[2] =< deletes'
    BY <1>1, <1>4, <1>13, <1>14, <1>16 DEF TreeInv, RowsLinked
  <2>2. CASE c \notin new
    <3>1. Stored(c) /\ rows'[c] = rows[c] /\ rows[c] \in Row
      BY <2>2, <1>7, <1>8, <1>16 DEF Stored
    <3>2. c \in lost' <=> c \in lost
      BY <2>2, <1>1, <1>2 DEF TxLinked
    <3>3. ASSUME Parent[c] # 0
          PROVE  Parent[c] \in Keys /\ Names(rows[c].parent, Parent[c], c \in lost)
      BY <3>1, <3>3, PathAssumption DEF TreeInv, RowsLinked
    <3>4. rows[c].parent[2] \in Nat
      BY <3>1 DEF Row
    <3>. QED  BY <2>1, <3>1, <3>2, <3>3, <3>4, <1>1, <1>13, <1>15 DEF Names, Dead
  <2>3. CASE c \in new
    <3>1. ASSUME Parent[c] # 0, Parent[c] \in tx[w].fresh
          PROVE  Names(rows[c].parent, Parent[c], c \in lost)'
      <4>1. rows'[c].parent = NewId(Parent[c])
        BY <2>3, <3>1, <1>9 DEF ParentId
      <4>2. Stored(Parent[c])' /\ rows'[Parent[c]].id = NewId(Parent[c])
        BY <3>1, <1>2, <1>9, <1>12 DEF TxLinked
      <4>3. c \notin lost'
        BY <2>3, <3>1, <1>1, <1>2 DEF TxLinked
      <4>. QED  BY <4>1, <4>2, <4>3 DEF Names
    <3>2. ASSUME Parent[c] # 0, Parent[c] \notin tx[w].fresh
          PROVE  Names(rows[c].parent, Parent[c], c \in lost)'
      <4>1. c \in DOMAIN tx[w].found /\ Parent[c] \in Keys
        BY <2>3, <3>2, <1>3
      <4>2. Names(tx[w].found[c], Parent[c], c \in tx[w].stale)
        BY <4>1, <1>2 DEF TxLinked
      <4>3. rows'[c].parent = tx[w].found[c] /\ tx[w].found[c][2] \in Nat
        BY <4>1, <2>3, <3>2, <1>5, <1>9 DEF ParentId
      <4>4. c \in lost' <=> c \in tx[w].stale
        BY <2>3, <1>1
      <4>. QED  BY <4>1, <4>2, <4>3, <4>4, <1>1, <1>13, <1>15 DEF Names, Dead
    <3>. QED  BY <2>1, <3>1, <3>2
  <2>. QED  BY <2>2, <2>3
<1>17. RowsLinked'
  BY <1>16 DEF RowsLinked
<1>18. tx'[w] = NoTx /\ \A v \in Writers \ {w} : tx'[v] = tx[v]
  BY <1>1 DEF TreeInv, Typed
<1>19. FreshApart'
  BY <1>18 DEF TreeInv, FreshApart, NoTx
<1>20. ASSUME NEW v \in Writers, v # w, tx[v] # NoTx
       PROVE  tx'[v].doc # 0 /\ TxLinked(v)'
  <2>1. tx[v].doc # 0 /\ TxLinked(v) /\ tx'[v] = tx[v] /\ tx[v] \in Txs
    BY <1>18, <1>20 DEF TreeInv, TxsLinked, Typed
  <2>2. KeyOf(v)' = KeyOf(v)
    BY <2>1 DEF KeyOf
  <2>3. tx[v].fresh \subseteq Keys /\ DOMAIN tx[v].found \subseteq Keys
    BY <2>1 DEF Txs
  <2>4. \A a \in tx[v].fresh : ~Stored(a)'
    <3>1. tx[v].fresh \intersect new = {}
      BY <1>1, <1>20 DEF TreeInv, FreshApart
    <3>. QED  BY <3>1, <2>1, <2>3, <1>8 DEF TxLinked, Stored
  <2>5. ASSUME NEW c \in DOMAIN tx[v].found
        PROVE  Names(tx[v].found[c], Parent[c], c \in tx[v].stale)'
    <3>1. Parent[c] \in Keys
      BY <2>1, <2>3, PathAssumption DEF TxLinked
    <3>2. Names(tx[v].found[c], Parent[c], c \in tx[v].stale)
      BY <2>1 DEF TxLinked
    <3>3. tx[v].found[c] \in Keys \X Nat
      BY <2>1 DEF Txs
    <3>4. tx[v].found[c][2] \in Nat
      BY <3>3
    <3>. QED  BY <2>1, <3>1, <3>2, <3>4, <1>1, <1>13, <1>15 DEF Names, Dead
  <2>6. /\ tx'[v].doc \in Docs /\ tx'[v].fresh \subseteq Above[KeyOf(v)']
        /\ tx'[v].stale \subseteq DOMAIN tx'[v].found
        /\ DOMAIN tx'[v].found = {c \in tx'[v].fresh \union {KeyOf(v)'} :
                            Parent[c] # 0 /\ Parent[c] \notin tx'[v].fresh}
    BY <2>1, <2>2 DEF TxLinked
  <2>. QED  BY <2>1, <2>4, <2>5, <2>6 DEF TxLinked
<1>. QED  BY <1>11, <1>17, <1>18, <1>19, <1>20 DEF TreeInv, TxsLinked

\* A delete makes the ids that name the row dead, in children and in commits.
LEMMA TreeDelete ==
    ASSUME TreeInv, NEW k \in Keys, Delete(k)
    PROVE  TreeInv'
<1>. DEFINE orphans(w) == {c \in DOMAIN tx[w].found : Parent[c] = k}
<1>1. /\ Stored(k) /\ deletes' = deletes + 1
      /\ rows' = [rows EXCEPT ![k] = NoRow]
      /\ lost' = (lost \ {k}) \union {c \in Keys : Parent[c] = k /\ Stored(c)}
      /\ tx' = [w \in Writers |->
                  [tx[w] EXCEPT !.stale = tx[w].stale \union orphans(w)]]
  BY DEF Delete
<1>2. deletes \in Nat
  BY DEF TreeInv, Typed
<1>3. rows'[k] = NoRow /\ \A a \in Keys \ {k} : rows'[a] = rows[a]
  BY <1>1 DEF TreeInv, Typed
<1>4. ~Stored(k)' /\ \A a \in Keys \ {k} : Stored(a)' <=> Stored(a)
  BY <1>3 DEF Stored
<1>5. ASSUME NEW w \in Writers
      PROVE  /\ tx[w] \in Txs /\ tx'[w] \in Txs
             /\ tx'[w].doc = tx[w].doc /\ tx'[w].fresh = tx[w].fresh
             /\ tx'[w].found = tx[w].found
             /\ tx'[w].stale = tx[w].stale \union orphans(w)
             /\ DOMAIN tx[w].found \subseteq Keys
             /\ \A c \in DOMAIN tx[w].found : tx[w].found[c] \in Keys \X Nat
  <2>1. tx[w] \in Txs
    BY DEF TreeInv, Typed
  <2>2. /\ DOMAIN tx[w].found \subseteq Keys
        /\ \A c \in DOMAIN tx[w].found : tx[w].found[c] \in Keys \X Nat
    BY <2>1 DEF Txs
  <2>3. tx'[w] = [tx[w] EXCEPT !.stale = tx[w].stale \union orphans(w)]
    BY <1>1
  <2>4. tx[w].stale \union orphans(w) \subseteq Keys
    BY <2>1, <2>2 DEF Txs
  <2>5. tx'[w] \in Txs
    BY <2>1, <2>3, <2>4 DEF Txs
  <2>6. /\ tx'[w].doc = tx[w].doc /\ tx'[w].fresh = tx[w].fresh
        /\ tx'[w].found = tx[w].found
        /\ tx'[w].stale = tx[w].stale \union orphans(w)
    BY <2>1, <2>3 DEF Txs
  <2>. QED  BY <2>1, <2>2, <2>5, <2>6
<1>6. Typed'
  <2>1. tx' \in [Writers -> Txs]
    BY <1>1, <1>5
  <2>. QED  BY <1>1, <1>2, <2>1 DEF TreeInv, Typed
\* An id that named the row of k is dead now; the others name what they did.
<1>7. ASSUME NEW p \in Keys, NEW n \in Nat, n < deletes, Stored(p) => n < rows[p].id[2]
      PROVE  n < deletes' /\ (Stored(p)' => n < rows'[p].id[2])
  BY <1>1, <1>2, <1>3, <1>4, <1>7
<1>8. rows[k].id \in Keys \X Nat /\ rows[k].id[2] < deletes'
  <2>1. rows[k] \in Row
    BY <1>1 DEF TreeInv, Typed, Stored
  <2>2. rows[k].id[2] \in Nat /\ rows[k].id \in Keys \X Nat
    BY <2>1 DEF Row
  <2>3. rows[k].id[2] =< deletes
    BY <1>1 DEF TreeInv, RowsLinked
  <2>. QED  BY <1>1, <1>2, <2>2, <2>3
<1>9. ASSUME NEW c \in Keys, Stored(c)'
      PROVE  /\ rows'[c].id[2] =< deletes'
             /\ Parent[c] # 0 => Names(rows[c].parent, Parent[c], c \in lost)'
  <2>1. c # k /\ Stored(c) /\ rows'[c] = rows[c]
    BY <1>3, <1>4, <1>9
  <2>2. rows[c] \in Row
    BY <2>1 DEF TreeInv, Typed, Stored
  <2>3. rows[c].id[2] \in Nat /\ rows[c].parent[2] \in Nat
    BY <2>2 DEF Row
  <2>4. rows[c].id[2] =< deletes'
    BY <2>1, <2>3, <1>1, <1>2 DEF TreeInv, RowsLinked
  <2>5. ASSUME Parent[c] # 0
        PROVE  Names(rows[c].parent, Parent[c], c \in lost)'
    <3>1. Parent[c] \in Keys /\ Names(rows[c].parent, Parent[c], c \in lost)
      BY <2>1, <2>5, PathAssumption DEF TreeInv, RowsLinked
    <3>2. CASE c \in lost
      <4>1. c \in lost'
        BY <3>2, <2>1, <1>1
      <4>. QED  BY <4>1, <3>1, <3>2, <2>1, <2>3, <1>7 DEF Names, Dead
    <3>3. CASE c \notin lost /\ Parent[c] = k
      <4>1. c \in lost'
        BY <3>3, <2>1, <1>1
      <4>2. rows'[c].parent = rows[k].id
        BY <3>1, <3>3, <2>1 DEF Names
      <4>. QED  BY <4>1, <4>2, <3>3, <1>4, <1>8 DEF Names, Dead
    <3>4. CASE c \notin lost /\ Parent[c] # k
      <4>1. c \notin lost'
        BY <3>4, <1>1
      <4>. QED  BY <4>1, <3>1, <3>4, <2>1, <1>3, <1>4 DEF Names
    <3>. QED  BY <3>2, <3>3, <3>4
  <2>. QED  BY <2>1, <2>4, <2>5
<1>10. RowsLinked'
  BY <1>9 DEF RowsLinked
<1>11. FreshApart'
  BY <1>5 DEF TreeInv, FreshApart
<1>12. ASSUME NEW w \in Writers, tx[w] # NoTx
       PROVE  tx'[w].doc # 0 /\ TxLinked(w)'
  <2>1. tx[w].doc # 0 /\ TxLinked(w)
    BY <1>12 DEF TreeInv, TxsLinked
  <2>2. KeyOf(w)' = KeyOf(w)
    BY <1>5 DEF KeyOf
  <2>3. \A a \in tx[w].fresh : ~Stored(a)'
    BY <2>1, <1>4, <1>5 DEF TxLinked, Txs
  <2>4. ASSUME NEW c \in DOMAIN tx[w].found
        PROVE  Names(tx[w].found[c], Parent[c], c \in tx[w].stale)'
    <3>0. c \in Keys /\ Parent[c] # 0
      BY <2>1, <1>5 DEF TxLinked
    <3>1. Parent[c] \in Keys
      BY <3>0, PathAssumption
    <3>2. Names(tx[w].found[c], Parent[c], c \in tx[w].stale)
      BY <2>1 DEF TxLinked
    <3>3. tx'[w].found[c] = tx[w].found[c] /\ tx[w].found[c][2] \in Nat
      BY <1>5
    <3>4. CASE c \in tx[w].stale
      <4>1. c \in tx'[w].stale
        BY <3>4, <1>5
      <4>. QED  BY <4>1, <3>1, <3>2, <3>3, <3>4, <1>7 DEF Names, Dead
    <3>5. CASE c \notin tx[w].stale /\ Parent[c] = k
      <4>1. c \in tx'[w].stale
        BY <3>5, <1>5
      <4>. QED  BY <4>1, <3>2, <3>3, <3>5, <1>4, <1>8 DEF Names, Dead
    <3>6. CASE c \notin tx[w].stale /\ Parent[c] # k
      <4>1. c \notin tx'[w].stale
        BY <3>6, <1>5
      <4>. QED  BY <4>1, <3>1, <3>2, <3>3, <3>6, <1>3, <1>4 DEF Names
    <3>. QED  BY <3>4, <3>5, <3>6
  <2>5. tx'[w].stale \subseteq DOMAIN tx'[w].found
    BY <2>1, <1>5 DEF TxLinked
  <2>6. /\ tx'[w].doc \in Docs /\ tx'[w].fresh \subseteq Above[KeyOf(w)']
        /\ DOMAIN tx'[w].found = {c \in tx'[w].fresh \union {KeyOf(w)'} :
                            Parent[c] # 0 /\ Parent[c] \notin tx'[w].fresh}
    BY <2>1, <2>2, <1>5 DEF TxLinked
  <2>. QED  BY <2>1, <2>3, <2>4, <2>5, <2>6, <1>5 DEF TxLinked
<1>13. ASSUME NEW w \in Writers, tx[w] = NoTx
       PROVE  tx'[w] = NoTx
  <2>1. tx[w].stale = {} /\ orphans(w) = {}
    BY <1>13 DEF NoTx
  <2>. QED  BY <2>1, <1>1, <1>13 DEF NoTx
<1>. QED  BY <1>6, <1>10, <1>11, <1>12, <1>13 DEF TreeInv, TxsLinked

\* The links are never broken unnoticed.
LEMMA TreeInvariant == Spec => []TreeInv
<1>1. Init => TreeInv
  BY TreeInit
<1>2. TreeInv /\ [Next]_vars => TreeInv'
  <2>. SUFFICES ASSUME TreeInv, [Next]_vars PROVE TreeInv'
    OBVIOUS
  <2>1. ASSUME NEW w \in Writers, NEW d \in Docs, FindParent(w, d) PROVE TreeInv'
    BY <2>1, TreeFindParent
  <2>2. ASSUME NEW w \in Writers, Upsert(w) PROVE TreeInv'
    BY <2>2, TreeUpsert
  <2>3. ASSUME NEW w \in Writers, Rollback(w) PROVE TreeInv'
    BY <2>3, TreeRollback
  <2>4. ASSUME NEW k \in Keys, Delete(k) PROVE TreeInv'
    BY <2>4, TreeDelete
  <2>5. ASSUME NEW a \in Assocs, Associate(a) PROVE TreeInv'
    BY <2>5, TreeStutter DEF Associate
  <2>6. CASE (\E q \in Queries : BeginReading(q)) \/ ReadPage \/ UNCHANGED vars
    BY <2>6, TreeStutter DEF BeginReading, ReadPage, vars
  <2>. QED  BY <2>1, <2>2, <2>3, <2>4, <2>5, <2>6 DEF Next, Write
<1>. QED  BY <1>1, <1>2, PTL DEF Spec

\* CreateRecord, DeleteRecordByKey and QueryByParent: for any tree, any documents
\* and any number of concurrent commits and deletes, a child is listed under its
\* parent exactly when the parent's row has not gone away since the child was last
\* written.
THEOREM ChildrenStayListed == Spec => []ChildrenListed
<1>1. TreeInv => ChildrenListed
  <2>. SUFFICES ASSUME TreeInv, NEW c \in Keys,
                       Stored(c), Parent[c] # 0, Stored(Parent[c])
                PROVE  c \in ChildRows(Parent[c]) <=> c \notin lost
    BY DEF ChildrenListed
  <2>1. Names(rows[c].parent, Parent[c], c \in lost) /\ Parent[c] \in Keys
    BY PathAssumption DEF TreeInv, RowsLinked
  <2>2. rows[c] \in Row /\ rows[Parent[c]] \in Row
    BY <2>1 DEF TreeInv, Typed, Stored
  <2>3. rows[c].parent[2] \in Nat /\ rows[Parent[c]].id[2] \in Nat
    BY <2>2 DEF Row
  <2>4. rows[c].parent = rows[Parent[c]].id <=> c \notin lost
    BY <2>1, <2>3 DEF Names, Dead
  <2>. QED  BY <2>4 DEF ChildRows
<1>. QED  BY <1>1, TreeInvariant, PTL

-----------------------------------------------------------------------------
\* What a listing lists: a row's sort value and its id.
Entry == [sort : Nat, id : Nat]

\* The entries of a page request that come before e.
Ahead(q, S, e) == {f \in S : Before(q, f, e)}

\* A row that stayed and may be read has been given out or is in range of the
\* cursor.
PageInv ==
    /\ reader \in [query : Query \union {NoQuery},
                   cursor : Nat \union {NoCursor, Done}, seen : SUBSET Entry]
    /\ Idle => stayed = {} /\ reader.cursor = NoCursor
    /\ ~Idle =>
        /\ stayed \subseteq Listing(reader.query)
        /\ \A e \in stayed : Readable(reader.query, e) =>
                \/ e \in reader.seen
                \/ reader.cursor # Done /\ InRange(reader.query, reader.cursor, e)

\* The image of a finite set is finite.
LEMMA FiniteImage ==
    ASSUME NEW S, IsFiniteSet(S), NEW f
    PROVE  IsFiniteSet({f[x] : x \in S})
<1>. DEFINE T == {f[x] : x \in S}
            g == [x \in S |-> f[x]]
<1>1. g \in Surjection(S, T)
  BY DEF Surjection
<1>. QED  BY <1>1, FS_Surjection

\* The sort order of a listing is strict and total.
LEMMA BeforeOrders ==
    ASSUME NEW q, NEW e \in Entry, NEW f \in Entry, NEW g \in Entry
    PROVE  /\ ~Before(q, e, e)
           /\ Before(q, e, f) /\ Before(q, f, g) => Before(q, e, g)
           /\ e = f \/ Before(q, e, f) \/ Before(q, f, e)
  BY DEF Before, Entry

\* What comes before has the smaller rank.
LEMMA RankStrict ==
    ASSUME NEW q, NEW S, IsFiniteSet(S), S \subseteq Entry,
           NEW e \in S, NEW f \in S, Before(q, e, f)
    PROVE  Cardinality(Ahead(q, S, e)) < Cardinality(Ahead(q, S, f))
<1>1. Ahead(q, S, f) \subseteq S /\ Ahead(q, S, e) \subseteq Ahead(q, S, f)
  BY BeforeOrders DEF Ahead
<1>2. e \in Ahead(q, S, f) /\ e \notin Ahead(q, S, e)
  BY BeforeOrders DEF Ahead
<1>3. IsFiniteSet(Ahead(q, S, f)) /\ IsFiniteSet(Ahead(q, S, e))
  BY <1>1, FS_Subset
<1>4. /\ Cardinality(Ahead(q, S, e)) =< Cardinality(Ahead(q, S, f))
      /\ Cardinality(Ahead(q, S, e)) # Cardinality(Ahead(q, S, f))
  BY <1>1, <1>2, <1>3, FS_Subset
<1>. QED  BY <1>3, <1>4, FS_CardinalityType

\* A rank is less than the number of entries.
LEMMA RankBounded ==
    ASSUME NEW q, NEW S, IsFiniteSet(S), S \subseteq Entry, NEW e \in S
    PROVE  /\ Cardinality(Ahead(q, S, e)) \in Nat
           /\ Cardinality(Ahead(q, S, e)) < Cardinality(S)
<1>1. Ahead(q, S, e) \subseteq S /\ e \notin Ahead(q, S, e)
  BY BeforeOrders DEF Ahead
<1>2. IsFiniteSet(Ahead(q, S, e))
  BY <1>1, FS_Subset
<1>3. /\ Cardinality(Ahead(q, S, e)) =< Cardinality(S)
      /\ Cardinality(Ahead(q, S, e)) # Cardinality(S)
  BY <1>1, FS_Subset
<1>. QED  BY <1>2, <1>3, FS_CardinalityType

\* Every rank below the number of entries is taken: ranks are an injection into
\* as many numbers as there are entries.
LEMMA RankTaken ==
    ASSUME NEW q, NEW S, IsFiniteSet(S), S \subseteq Entry,
           NEW n \in Nat, n < Cardinality(S)
    PROVE  \E x \in S : Cardinality(Ahead(q, S, x)) = n
<1>. DEFINE N == Cardinality(S)
            rank == [x \in S |-> Cardinality(Ahead(q, S, x))]
<1>1. N \in Nat
  BY FS_CardinalityType
<1>2. rank \in [S -> 0 .. (N - 1)]
  <2>1. \A x \in S : Cardinality(Ahead(q, S, x)) \in 0 .. (N - 1)
    BY <1>1, RankBounded
  <2>. QED  BY <2>1
<1>3. ASSUME NEW e \in S, NEW f \in S, rank[e] = rank[f] PROVE e = f
  <2>1. Cardinality(Ahead(q, S, e)) = Cardinality(Ahead(q, S, f))
    BY <1>3
  <2>2. Cardinality(Ahead(q, S, e)) \in Nat
    BY RankBounded
  <2>3. ~Before(q, e, f) /\ ~Before(q, f, e)
    BY <2>1, <2>2, RankStrict
  <2>. QED  BY <2>3, BeforeOrders
<1>. HIDE DEF rank
<1>4. rank \in Injection(S, 0 .. (N - 1))
  BY <1>2, <1>3 DEF Injection, IsInjective
<1>5. IsFiniteSet(0 .. (N - 1)) /\ Cardinality(0 .. (N - 1)) = N
  <2>. HIDE DEF N
  <2>1. 0 \in Int /\ N - 1 \in Int
    BY <1>1
  <2>. QED  BY <1>1, <2>1, FS_Interval
<1>6. rank \in Surjection(S, 0 .. (N - 1))
  BY <1>4, <1>5, FS_Injection
<1>7. n \in 0 .. (N - 1)
  BY <1>1
<1>8. \E x \in S : rank[x] = n
  BY <1>6, <1>7 DEF Surjection
<1>. QED  BY <1>8 DEF rank

\* A listing is a finite set of entries.
LEMMA ListingEntries ==
    ASSUME Typed, NEW q \in Query
    PROVE  Listing(q) \subseteq Entry /\ IsFiniteSet(Listing(q))
<1>1. ASSUME NEW ks \in SUBSET Keys
      PROVE  RecordEntries(ks) \subseteq Entry /\ IsFiniteSet(RecordEntries(ks))
  <2>. DEFINE A == {c \in ks : Stored(c) /\ rows[c].doc # 0}
              f == [c \in A |-> [sort |-> Doc[rows[c].doc].at, id |-> rows[c].doc]]
  <2>1. IsFiniteSet(A)
    BY PathAssumption, FS_Subset
  <2>2. IsFiniteSet({f[c] : c \in A})
    BY <2>1, FiniteImage
  <2>3. {f[c] : c \in A} = RecordEntries(ks)
    BY DEF RecordEntries
  <2>4. \A c \in A : rows[c].doc \in Docs
    BY DEF Typed, Stored, Row
  <2>5. \A c \in A : rows[c].doc \in Nat /\ Doc[rows[c].doc].at \in Nat
    BY <2>4, DocAssumption
  <2>6. RecordEntries(ks) \subseteq Entry
    BY <2>5 DEF RecordEntries, Entry
  <2>. QED  BY <2>2, <2>3, <2>6
<1>2. ChildRows(q.of) \subseteq Keys /\ Below(q.of) \subseteq Keys
  BY DEF ChildRows, Below
<1>3. CASE q.kind = "parent"
  BY <1>1, <1>2, <1>3 DEF Listing
<1>4. CASE q.kind = "prefix"
  BY <1>1, <1>2, <1>4 DEF Listing
<1>5. CASE q.kind = "keys"
  <2>. DEFINE f == [c \in Keys |-> [sort |-> c, id |-> c]]
  <2>1. IsFiniteSet(ChildRows(q.of))
    BY <1>2, PathAssumption, FS_Subset
  <2>2. IsFiniteSet({f[c] : c \in ChildRows(q.of)})
    BY <2>1, FiniteImage
  <2>3. Listing(q) = {[sort |-> c, id |-> c] : c \in ChildRows(q.of)}
    BY <1>5 DEF Listing
  <2>4. Listing(q) = {f[c] : c \in ChildRows(q.of)}
    BY <2>3, <1>2
  <2>5. Listing(q) \subseteq Entry
    <3>1. Keys \subseteq Nat
      BY PathAssumption
    <3>2. \A c \in ChildRows(q.of) : [sort |-> c, id |-> c] \in Entry
      BY <3>1, <1>2 DEF Entry
    <3>. QED  BY <2>3, <3>2
  <2>. QED  BY <2>2, <2>4, <2>5
<1>6. CASE q.kind = "associated"
  <2>. DEFINE A == {a \in Assocs : Stored(q.of) /\ assocs[a] = rows[q.of].id}
              f == [a \in Assocs |-> [sort |-> Assoc[a].at, id |-> a]]
  <2>1. IsFiniteSet(A)
    BY DocAssumption, FS_Subset
  <2>2. IsFiniteSet({f[a] : a \in A})
    <3>. HIDE DEF A, f
    <3>. QED  BY <2>1, FiniteImage
  <2>3. Listing(q) = {[sort |-> Assoc[a].at, id |-> a] : a \in A}
    BY <1>6 DEF Listing
  <2>4. Listing(q) = {f[a] : a \in A}
    BY <2>3
  <2>5. Listing(q) \subseteq Entry
    BY <2>3, DocAssumption DEF Entry
  <2>. QED  BY <2>2, <2>4, <2>5
<1>. QED  BY <1>3, <1>4, <1>5, <1>6 DEF Query

\* What a page request gets from the database is returned or stays in range of
\* the next cursor.
LEMMA PageSplits ==
    ASSUME Typed, NEW q \in Query, NEW c, NEW e \in Fetched(q, c),
           ~(Rank(q, c, e) < Limit)
    PROVE  /\ NextCursor(q, c) \in Nat
           /\ InRange(q, NextCursor(q, c), e)
<1>. DEFINE S == Fetched(q, c)
<1>1. IsFiniteSet(S) /\ S \subseteq Entry
  BY ListingEntries, FS_Subset DEF Fetched
<1>2. \A x \in S : Rank(q, c, x) = Cardinality(Ahead(q, S, x))
  BY DEF Rank, Ahead
<1>3. Limit \in Nat /\ Cardinality(S) \in Nat
  BY <1>1, DocAssumption, FS_CardinalityType
<1>4. Rank(q, c, e) \in Nat /\ Rank(q, c, e) < Cardinality(S)
  BY <1>1, <1>2, RankBounded
<1>5. Cardinality(S) > Limit
  BY <1>3, <1>4
<1>6. \E x \in S : Rank(q, c, x) = Limit
  <2>. HIDE DEF S
  <2>1. \E x \in S : Cardinality(Ahead(q, S, x)) = Limit
    BY <1>1, <1>3, <1>5, RankTaken
  <2>. QED  BY <1>2, <2>1
<1>. DEFINE x == CHOOSE x \in S : Rank(q, c, x) = Limit
<1>7. x \in S /\ Rank(q, c, x) = Limit
  BY <1>6
<1>8. NextCursor(q, c) = x.sort
  BY <1>5 DEF NextCursor
<1>. HIDE DEF x
<1>9. x.sort \in Nat /\ e \in Entry /\ x \in Entry
  BY <1>1, <1>7 DEF Entry
<1>10. ~Before(q, e, x)
  BY <1>1, <1>2, <1>3, <1>4, <1>7, RankStrict
<1>11. InRange(q, x.sort, e)
  BY <1>9, <1>10 DEF InRange, Before, Entry
<1>. QED  BY <1>8, <1>9, <1>11

\* Every row that stayed is given out or still ahead of the cursor, whatever is
\* written, and a page moves rows from the one to the other.
LEMMA PageNext == Typed /\ PageInv /\ [Next]_vars => PageInv'
<1>. SUFFICES ASSUME Typed, PageInv, [Next]_vars PROVE PageInv'
  OBVIOUS
<1>1. CASE /\ Write /\ UNCHANGED reader
           /\ stayed' = IF Idle THEN {} ELSE stayed \intersect Listing(reader.query)'
  BY <1>1 DEF PageInv, Idle
<1>2. CASE UNCHANGED vars
  BY <1>2 DEF PageInv, Idle, vars, Listing, RecordEntries, ChildRows, Below, Stored
<1>3. ASSUME NEW q \in Queries, BeginReading(q) PROVE PageInv'
  <2>1. /\ reader' = [query |-> q, cursor |-> NoCursor, seen |-> {}]
        /\ stayed' = Listing(q) /\ UNCHANGED <<rows, assocs>>
    BY <1>3 DEF BeginReading
  <2>2. q \in Query
    BY DocAssumption
  <2>3. Listing(reader.query)' = Listing(q)
    BY <2>1 DEF Listing, RecordEntries, ChildRows, Below, Stored
  <2>4. ~Idle'
    BY <2>1, <2>2 DEF Idle, Query
  <2>. QED  BY <2>1, <2>2, <2>3, <2>4 DEF PageInv, InRange, NoCursor, Done
<1>4. CASE ReadPage
  <2>. DEFINE q == reader.query
              c == reader.cursor
              page == {e \in Fetched(q, c) : Rank(q, c, e) < Limit /\ Readable(q, e)}
  <2>1. /\ ~Idle /\ c # Done
        /\ reader' = [reader EXCEPT !.cursor = NextCursor(q, c),
                                   !.seen = reader.seen \union page]
        /\ UNCHANGED <<rows, assocs, stayed>>
    BY <1>4 DEF ReadPage
  <2>2. q \in Query
    BY <2>1 DEF PageInv, Idle, NoQuery
  <2>3. IsFiniteSet(Fetched(q, c)) /\ Fetched(q, c) \subseteq Entry
    BY <2>2, ListingEntries, FS_Subset DEF Fetched
  <2>4. NextCursor(q, c) \in Nat \union {NoCursor, Done}
    <3>1. CASE Cardinality(Fetched(q, c)) > Limit
      <4>1. \E x \in Fetched(q, c) : Rank(q, c, x) = Limit
        <5>1. Limit \in Nat /\ Limit < Cardinality(Fetched(q, c))
          BY <2>3, <3>1, DocAssumption, FS_CardinalityType
        <5>2. \A x \in Fetched(q, c) :
                Rank(q, c, x) = Cardinality(Ahead(q, Fetched(q, c), x))
          BY DEF Rank, Ahead
        <5>3. \E x \in Fetched(q, c) :
                Cardinality(Ahead(q, Fetched(q, c), x)) = Limit
          BY <2>3, <5>1, RankTaken
        <5>. QED  BY <5>2, <5>3
      <4>2. (CHOOSE x \in Fetched(q, c) : Rank(q, c, x) = Limit) \in Entry
        BY <4>1, <2>3
      <4>. QED  BY <4>2, <3>1 DEF NextCursor, Entry
    <3>2. CASE ~(Cardinality(Fetched(q, c)) > Limit)
      BY <3>2 DEF NextCursor
    <3>. QED  BY <3>1, <3>2
  <2>5. /\ reader'.query = q /\ reader'.cursor = NextCursor(q, c)
        /\ reader'.seen = reader.seen \union page
        /\ reader' \in [query : Query \union {NoQuery},
                       cursor : Nat \union {NoCursor, Done}, seen : SUBSET Entry]
    <3>1. reader.seen \union page \in SUBSET Entry
      BY <2>3 DEF PageInv
    <3>. HIDE DEF page
    <3>. QED  BY <2>1, <2>4, <3>1 DEF PageInv
  <2>6. ~Idle' /\ Listing(reader.query)' = Listing(q)
    BY <2>1, <2>5 DEF Idle, Listing, RecordEntries, ChildRows, Below, Stored
  <2>7. ASSUME NEW e \in stayed, Readable(q, e), e \notin reader'.seen
        PROVE  NextCursor(q, c) # Done /\ InRange(q, NextCursor(q, c), e)
    <3>1. e \in Listing(q) /\ InRange(q, c, e)
      BY <2>1, <2>5, <2>7 DEF PageInv
    <3>2. e \in Fetched(q, c)
      BY <3>1 DEF Fetched
    <3>3. ~(Rank(q, c, e) < Limit)
      BY <3>2, <2>5, <2>7
    <3>. QED  BY <3>2, <3>3, <2>2, PageSplits DEF Done
  <2>. QED  BY <2>1, <2>5, <2>6, <2>7 DEF PageInv, Readable
<1>. QED  BY <1>1, <1>2, <1>3, <1>4 DEF Next

\* paginateWindow: for any page size, listing and concurrent writes, a reader who
\* has followed next to the end was given every readable row that was there all
\* the time.
THEOREM PagesComplete == Spec => []PagingComplete
<1>1. Init => PageInv
  BY DEF Init, PageInv, NoReader, NoQuery, Idle, NoCursor
<1>2. TreeInv /\ PageInv /\ [Next]_vars => PageInv'
  BY PageNext DEF TreeInv
<1>3. PageInv => PagingComplete
  BY DEF PageInv, PagingComplete, NoCursor, Done
<1>. QED  BY <1>1, <1>2, <1>3, TreeInvariant, PTL DEF Spec
=============================================================================
