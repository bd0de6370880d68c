-------------------------- MODULE SubscriberProofs --------------------------
(* Subscriber for any hosts, prefixes, replicas, callers and lead terms.     *)
EXTENDS Subscriber, TLAPS

\* A dial, or the connection it became.
Conn == [st : {"none", "dialing", "open", "closed"}, term : Terms \union {0},
         listen : SUBSET Remote, crossed : BOOLEAN]

\* A listen request on its way.
Listens == [by : Callers \union {NoSub}, conn : Conns, prefixes : SUBSET Remote,
            purge : SUBSET Remote]

\* The types of what concerns connections.
Typed ==
    /\ term \in Terms \union {0}
    /\ subs \in [Hosts -> Sub \union {NoSub}]
    /\ conn \in [Conns -> Conn]
    /\ out \in SUBSET Listens

\* An entry names a dial of its own host; what it calls a connection was
\* opened, and what it calls a dial in flight is one.
Honest(h) ==
    /\ subs[h].id[1] = h
    /\ subs[h].up => conn[subs[h].id].st \in {"open", "closed"}
    /\ subs[h].dialing => conn[subs[h].id].st = "dialing"

\* The map never says of a host what its connection is not.
EntriesHonest == \A h \in Hosts : subs[h] # NoSub => Honest(h)

\* The inductive invariant behind NoLeakedConnection: an installed dial is the
\* one its entry waits for, which is only known of honest entries.
ConnInv == Typed /\ EntriesHonest /\ NoLeakedConnection

-----------------------------------------------------------------------------
\* The name BeginDials gives a dial of host h.
Fresh(h) == CHOOSE x \in Free(h) : TRUE

\* A connection's first component is its host.
LEMMA ConnsPairs ==
    \A x \in Conns : x[1] \in Hosts
  BY DEF Conns

\* The fields of an entry.
LEMMA SubTyped ==
    ASSUME Typed, NEW h \in Hosts, subs[h] # NoSub
    PROVE  /\ subs[h] \in Sub /\ subs[h].id \in Conns
           /\ subs[h].prefixes \in SUBSET Remote
           /\ subs[h].up \in BOOLEAN /\ subs[h].dialing \in BOOLEAN
  <1>1. subs[h] \in Sub
    BY DEF Typed
  <1> QED
    BY <1>1, Zenon DEF Sub

\* Close opens nothing, ends no dial, and leaves none of cs open.
LEMMA CloseKeeps ==
    ASSUME Typed, NEW cs
    PROVE  /\ Close(cs) \in [Conns -> Conn]
           /\ \A x \in Conns :
                /\ Close(cs)[x].st = "open" => conn[x].st = "open" /\ x \notin cs
                /\ conn[x].st = "dialing" => Close(cs)[x].st = "dialing"
                /\ conn[x].st \in {"open", "closed"} =>
                      Close(cs)[x].st \in {"open", "closed"}
  <1>1. ASSUME NEW x \in Conns
        PROVE  /\ [conn[x] EXCEPT !.st = "closed", !.listen = {}] \in Conn
               /\ [conn[x] EXCEPT !.st = "closed", !.listen = {}].st = "closed"
               /\ conn[x] \in Conn
    BY DEF Typed, Conn
  <1> QED
    BY <1>1 DEF Close

\* BeginDials takes one unused name per host and touches nothing else.
LEMMA DialsFacts ==
    ASSUME Typed, EntriesHonest, NEW hs \in SUBSET Hosts, BeginDials(hs)
    PROVE  /\ conn' \in [Conns -> Conn]
           /\ \A h \in hs : /\ Fresh(h) \in Conns /\ Fresh(h)[1] = h
                            /\ conn'[Fresh(h)].st = "dialing"
           /\ \A c \in Conns : conn'[c].st = "open" => conn[c].st = "open"
           /\ \A c \in Conns : c[1] \notin hs => conn'[c] = conn[c]
           /\ \A h \in hs, c \in Conns : InUse(c) => conn'[c] = conn[c]
  <1>1. \A h \in hs : Fresh(h) \in Free(h)
    BY DEF BeginDials, Fresh
  <1>2. \A h \in hs : Fresh(h) \in Conns /\ Fresh(h)[1] = h /\ ~InUse(Fresh(h))
    BY <1>1 DEF Free, Conns
  <1>3. conn' = [c \in Conns |->
                  IF c[1] \in hs /\ c = Fresh(c[1])
                  THEN [Unused EXCEPT !.st = "dialing", !.term = term]
                  ELSE conn[c]]
    BY DEF BeginDials, Fresh
  <1>4. /\ [Unused EXCEPT !.st = "dialing", !.term = term] \in Conn
        /\ [Unused EXCEPT !.st = "dialing", !.term = term].st = "dialing"
    BY DEF Typed, Conn, Unused
  <1>5. conn' \in [Conns -> Conn]
    BY <1>3, <1>4 DEF Typed
  <1> QED
    BY <1>2, <1>3, <1>5

\* Steps that touch neither the map nor the connections.
LEMMA SameConn ==
    ASSUME ConnInv, UNCHANGED <<subs, conn>>, term' \in Terms \union {0},
           out' \in SUBSET Listens
    PROVE  ConnInv'
  BY DEF ConnInv, Typed, EntriesHonest, Honest, NoLeakedConnection, Holds

\* Closing connections whose entries stay for the clean-up.
LEMMA CloseInv ==
    ASSUME ConnInv, NEW cs, conn' = Close(cs), UNCHANGED <<subs, term>>,
           out' \in SUBSET Listens
    PROVE  ConnInv'
  <1>1. Typed'
    BY CloseKeeps DEF ConnInv, Typed
  <1>2. EntriesHonest'
    BY CloseKeeps, SubTyped DEF ConnInv, EntriesHonest, Honest
  <1>3. NoLeakedConnection'
    BY CloseKeeps DEF ConnInv, NoLeakedConnection, Holds
  <1> QED
    BY <1>1, <1>2, <1>3 DEF ConnInv

\* The initial state satisfies the invariant.
LEMMA InitInv == Init => ConnInv
  <1> SUFFICES ASSUME Init PROVE ConnInv
    OBVIOUS
  <1>1. Unused \in Conn /\ Unused.st = "none"
    BY DEF Unused, Conn
  <1>2. Typed
    BY <1>1 DEF Init, Typed
  <1>3. EntriesHonest /\ NoLeakedConnection
    BY <1>1 DEF Init, EntriesHonest, NoLeakedConnection
  <1> QED
    BY <1>2, <1>3 DEF ConnInv

\* A failed dial takes its own entry with it, and no other.
LEMMA DialFailsInv ==
    ASSUME ConnInv, NEW x \in Conns, DialFails(x)
    PROVE  ConnInv'
  <1>1. PICK h \in Hosts : h = x[1]
    BY ConnsPairs
  <1>2. /\ conn[x].st = "dialing" /\ conn' = [conn EXCEPT ![x] = Unused]
        /\ subs' = IF Holds(x, h) THEN [subs EXCEPT ![h] = NoSub] ELSE subs
        /\ UNCHANGED <<term, out>>
    BY <1>1 DEF DialFails, leadVars
  <1>3. Unused \in Conn /\ Unused.st = "none"
    BY DEF Unused, Conn
  <1>4. Typed'
    BY <1>2, <1>3 DEF ConnInv, Typed
  <1>5. \A g \in Hosts : subs'[g] # NoSub => subs'[g] = subs[g] /\ subs[g].id # x
    BY <1>1, <1>2 DEF ConnInv, Typed, EntriesHonest, Honest, Holds
  <1>6. EntriesHonest'
    BY <1>2, <1>5, SubTyped DEF ConnInv, Typed, EntriesHonest, Honest
  <1>7. NoLeakedConnection'
    BY <1>1, <1>2, <1>3, ConnsPairs DEF ConnInv, Typed, NoLeakedConnection, Holds
  <1> QED
    BY <1>4, <1>6, <1>7 DEF ConnInv

\* A closed connection takes its own entry with it, and no other.
LEMMA ConnCleanupInv ==
    ASSUME ConnInv, NEW x \in Conns, ConnCleanup(x)
    PROVE  ConnInv'
  <1>1. PICK h \in Hosts : h = x[1]
    BY ConnsPairs
  <1>2. /\ conn[x].st = "closed" /\ conn' = [conn EXCEPT ![x] = Unused]
        /\ subs' = IF Holds(x, h) /\ subs[h].up THEN [subs EXCEPT ![h] = NoSub] ELSE subs
        /\ UNCHANGED <<term, out>>
    BY <1>1 DEF ConnCleanup, leadVars
  <1>3. Unused \in Conn /\ Unused.st = "none"
    BY DEF Unused, Conn
  <1>4. Typed'
    BY <1>2, <1>3 DEF ConnInv, Typed
  <1>5. \A g \in Hosts : subs'[g] # NoSub =>
            /\ subs'[g] = subs[g]
            /\ subs[g].id = x => ~subs[g].up
    BY <1>1, <1>2 DEF ConnInv, Typed, EntriesHonest, Honest, Holds
  <1>6. EntriesHonest'
    BY <1>2, <1>5, SubTyped DEF ConnInv, Typed, EntriesHonest, Honest
  <1>7. NoLeakedConnection'
    BY <1>1, <1>2, <1>3, ConnsPairs DEF ConnInv, Typed, NoLeakedConnection, Holds
  <1> QED
    BY <1>4, <1>6, <1>7 DEF ConnInv

\* A dial that succeeds is installed only in the entry that waits for it;
\* otherwise it is discarded, not left open.
LEMMA DialDoneInv ==
    ASSUME ConnInv, NEW x \in Conns, DialDone(x)
    PROVE  ConnInv'
  <1>1. PICK h \in Hosts : h = x[1]
    BY ConnsPairs
  <1>2. conn[x].st = "dialing" /\ conn[x] \in Conn /\ UNCHANGED term
    BY DEF DialDone, leadVars, ConnInv, Typed
  <1>3. CASE Live(conn[x].term) /\ Holds(x, h)
    <2>1. /\ conn' = [conn EXCEPT ![x].st = "open"]
          /\ subs' = [subs EXCEPT ![h].dialing = FALSE, ![h].up = TRUE]
          /\ out' = out \union {[by |-> NoSub, conn |-> x, prefixes |-> subs[h].prefixes,
                                 purge |-> subs[h].prefixes]}
      BY <1>1, <1>3 DEF DialDone
    <2>2. subs[h] # NoSub /\ subs[h] \in Sub /\ subs[h].id = x
          /\ subs[h].prefixes \in SUBSET Remote
      BY <1>3, SubTyped DEF Holds, ConnInv
    <2>3. [conn[x] EXCEPT !.st = "open"] \in Conn
          /\ [conn[x] EXCEPT !.st = "open"].st = "open"
      BY <1>2 DEF Conn
    <2>4. PICK s \in Sub : /\ s = [[subs[h] EXCEPT !.dialing = FALSE] EXCEPT !.up = TRUE]
                           /\ s.id = x /\ s.up /\ ~s.dialing
      <3>1. [[subs[h] EXCEPT !.dialing = FALSE] EXCEPT !.up = TRUE] \in Sub
        BY <2>2, Zenon DEF Sub
      <3>2. /\ [[subs[h] EXCEPT !.dialing = FALSE] EXCEPT !.up = TRUE].id = x
            /\ [[subs[h] EXCEPT !.dialing = FALSE] EXCEPT !.up = TRUE].up
            /\ ~[[subs[h] EXCEPT !.dialing = FALSE] EXCEPT !.up = TRUE].dialing
        BY <2>2 DEF Sub
      <3> QED
        BY <3>1, <3>2
    <2>5. /\ subs'[h] = s /\ \A g \in Hosts \ {h} : subs'[g] = subs[g]
          /\ subs' \in [Hosts -> Sub \union {NoSub}]
      BY <2>1, <2>4 DEF ConnInv, Typed
    <2>6. /\ conn'[x].st = "open" /\ \A y \in Conns \ {x} : conn'[y] = conn[y]
          /\ conn' \in [Conns -> Conn]
      BY <2>1, <2>3 DEF ConnInv, Typed
    <2>7. out' \in SUBSET Listens
      BY <2>1, <2>2 DEF ConnInv, Typed, Listens
    <2>8. Typed'
      BY <1>2, <2>5, <2>6, <2>7 DEF ConnInv, Typed
    <2>9. EntriesHonest'
      <3>1. ASSUME NEW g \in Hosts \ {h}, subs[g] # NoSub
            PROVE  subs[g].id # x /\ subs[g].id \in Conns /\ Honest(g)
        BY <3>1, <1>1, SubTyped DEF ConnInv, EntriesHonest, Honest
      <3>2. ASSUME NEW g \in Hosts \ {h}, subs'[g] # NoSub PROVE Honest(g)'
        BY <2>5, <2>6, <3>1, <3>2 DEF Honest
      <3>3. subs'[h].id = x /\ ~subs'[h].dialing
        BY <2>4, <2>5
      <3>4. Honest(h)'
        BY <1>1, <2>6, <3>3 DEF Honest
      <3> QED
        BY <3>2, <3>4 DEF EntriesHonest
    <2>10. NoLeakedConnection'
      <3>1. ASSUME NEW y \in Conns \ {x}, conn[y].st = "open" PROVE y[1] \in Hosts \ {h}
        BY <3>1, <2>2, ConnsPairs DEF ConnInv, NoLeakedConnection, Holds
      <3>2. s # NoSub
        BY NoSubAssumption
      <3>3. Holds(x, x[1])' /\ subs'[h].up
        BY <1>1, <2>4, <2>5, <3>2 DEF Holds
      <3>4. ASSUME NEW y \in Conns \ {x}, conn'[y].st = "open"
            PROVE  Holds(y, y[1])' /\ subs'[y[1]].up
        BY <2>5, <2>6, <3>1, <3>4 DEF ConnInv, NoLeakedConnection, Holds
      <3> QED
        BY <1>1, <3>3, <3>4 DEF NoLeakedConnection
    <2> QED
      BY <2>8, <2>9, <2>10 DEF ConnInv
  <1>4. CASE ~(Live(conn[x].term) /\ Holds(x, h))
    <2>1. /\ conn' = [conn EXCEPT ![x] = Unused] /\ UNCHANGED out
          /\ subs' = IF Holds(x, h) THEN [subs EXCEPT ![h].dialing = FALSE] ELSE subs
      BY <1>1, <1>4 DEF DialDone
    <2>2. Unused \in Conn /\ Unused.st = "none"
      BY DEF Unused, Conn
    <2>3. /\ subs' \in [Hosts -> Sub \union {NoSub}]
          /\ \A g \in Hosts : subs'[g] # NoSub =>
               /\ subs[g] # NoSub
               /\ subs'[g].id = subs[g].id /\ (subs'[g].up <=> subs[g].up)
               /\ (subs'[g].dialing => subs[g].dialing /\ (g # h \/ ~Holds(x, h)))
          /\ \A g \in Hosts : subs[g] # NoSub => subs'[g] # NoSub
      <3>1. CASE Holds(x, h)
        <4>1. subs[h] # NoSub /\ subs[h] \in Sub
          BY <3>1, SubTyped DEF Holds, ConnInv
        <4>2. [subs[h] EXCEPT !.dialing = FALSE] \in Sub
          BY <4>1, Zenon DEF Sub
        <4>3. /\ [subs[h] EXCEPT !.dialing = FALSE].id = subs[h].id
              /\ [subs[h] EXCEPT !.dialing = FALSE].up = subs[h].up
              /\ ~[subs[h] EXCEPT !.dialing = FALSE].dialing
          BY <4>1 DEF Sub
        <4>4. /\ subs'[h] = [subs[h] EXCEPT !.dialing = FALSE]
              /\ \A g \in Hosts \ {h} : subs'[g] = subs[g]
              /\ subs' \in [Hosts -> Sub \union {NoSub}]
          BY <2>1, <3>1, <4>2 DEF ConnInv, Typed
        <4> QED
          BY <4>1, <4>2, <4>3, <4>4, NoSubAssumption
      <3>2. CASE ~Holds(x, h)
        BY <2>1, <3>2 DEF ConnInv, Typed
      <3> QED
        BY <3>1, <3>2
    <2>4. Typed'
      BY <1>2, <2>1, <2>2, <2>3 DEF ConnInv, Typed
    <2>5. /\ conn'[x].st = "none" /\ \A y \in Conns \ {x} : conn'[y] = conn[y]
      BY <2>1, <2>2 DEF ConnInv, Typed
    <2>6. EntriesHonest'
      <3>1. ASSUME NEW g \in Hosts, subs'[g] # NoSub PROVE Honest(g)'
        <4>1. Honest(g) /\ subs[g] # NoSub /\ subs[g].id \in Conns
          BY <2>3, <3>1, SubTyped DEF ConnInv, EntriesHonest
        <4>2. CASE subs[g].id = x
          BY <1>1, <1>2, <2>3, <3>1, <4>1, <4>2 DEF Honest, Holds
        <4>3. CASE subs[g].id # x
          BY <2>3, <2>5, <3>1, <4>1, <4>3 DEF Honest
        <4> QED
          BY <4>2, <4>3
      <3> QED
        BY <3>1 DEF EntriesHonest
    <2>7. NoLeakedConnection'
      BY <2>3, <2>5, ConnsPairs DEF ConnInv, NoLeakedConnection, Holds
    <2> QED
      BY <2>4, <2>6, <2>7 DEF ConnInv
  <1> QED
    BY <1>3, <1>4

\* Dialling hosts that have no connection, while the other entries stay.
LEMMA DialsInv ==
    ASSUME ConnInv, NEW hs \in SUBSET Hosts, BeginDials(hs),
           subs' \in [Hosts -> Sub \union {NoSub}],
           \A h \in hs : /\ subs[h] # NoSub => ~subs[h].up
                         /\ subs'[h] \in Sub /\ subs'[h].id = Fresh(h)
                         /\ ~subs'[h].up,
           \A h \in Hosts \ hs :
             /\ (subs'[h] = NoSub) <=> (subs[h] = NoSub)
             /\ subs[h] # NoSub => /\ subs'[h].id = subs[h].id
                                   /\ subs'[h].up = subs[h].up
                                   /\ subs'[h].dialing = subs[h].dialing,
           UNCHANGED term, out' \in SUBSET Listens
    PROVE  ConnInv'
  <1>1. Typed /\ EntriesHonest /\ NoLeakedConnection
    BY DEF ConnInv
  <1>2. /\ conn' \in [Conns -> Conn]
        /\ \A h \in hs : /\ Fresh(h) \in Conns /\ Fresh(h)[1] = h
                         /\ conn'[Fresh(h)].st = "dialing"
        /\ \A c \in Conns : conn'[c].st = "open" => conn[c].st = "open"
        /\ \A c \in Conns : c[1] \notin hs => conn'[c] = conn[c]
    BY <1>1, DialsFacts
  <1>3. Typed'
    BY <1>1, <1>2 DEF Typed
  <1>4. ASSUME NEW h \in Hosts, subs'[h] # NoSub PROVE Honest(h)'
    <2>1. CASE h \in hs
      <3>1. subs'[h].id = Fresh(h) /\ ~subs'[h].up
        BY <2>1
      <3> QED
        BY <1>2, <2>1, <3>1 DEF Honest
    <2>2. CASE h \notin hs
      <3>1. /\ subs[h] # NoSub /\ subs'[h].id = subs[h].id
            /\ subs'[h].up = subs[h].up /\ subs'[h].dialing = subs[h].dialing
        BY <1>4, <2>2
      <3>2. Honest(h) /\ subs[h].id \in Conns
        BY <1>1, <3>1, SubTyped DEF EntriesHonest
      <3>3. conn'[subs[h].id] = conn[subs[h].id]
        BY <1>2, <2>2, <3>2 DEF Honest
      <3> QED
        BY <3>1, <3>2, <3>3 DEF Honest
    <2> QED
      BY <2>1, <2>2
  <1>5. ASSUME NEW x \in Conns, conn'[x].st = "open"
        PROVE  Holds(x, x[1])' /\ subs'[x[1]].up
    <2>1. Holds(x, x[1]) /\ subs[x[1]].up /\ x[1] \in Hosts
      BY <1>1, <1>2, <1>5, ConnsPairs DEF NoLeakedConnection
    <2>2. x[1] \in Hosts \ hs
      BY <2>1 DEF Holds
    <2> QED
      BY <2>1, <2>2 DEF Holds
  <1> QED
    BY <1>3, <1>4, <1>5 DEF ConnInv, EntriesHonest, NoLeakedConnection

\* An entry without a connection is dialled again.
LEMMA RedialledFacts ==
    ASSUME NEW s \in Sub, NEW h \in Hosts, Fresh(h) \in Conns, ~s.up
    PROVE  /\ Redialled(s, h) \in Sub /\ Redialled(s, h).id = Fresh(h)
           /\ ~Redialled(s, h).up
  <1>1. [[s EXCEPT !.id = Fresh(h)] EXCEPT !.dialing = TRUE] \in Sub
    BY Zenon DEF Sub
  <1>2. /\ [[s EXCEPT !.id = Fresh(h)] EXCEPT !.dialing = TRUE].id = Fresh(h)
        /\ ~[[s EXCEPT !.id = Fresh(h)] EXCEPT !.dialing = TRUE].up
    BY DEF Sub
  <1>3. Redialled(s, h) = [[s EXCEPT !.id = Fresh(h)] EXCEPT !.dialing = TRUE]
    BY DEF Redialled, Fresh
  <1> QED
    BY <1>1, <1>2, <1>3

\* Changing an entry's prefixes leaves its connection alone.
LEMMA RestrictedFacts ==
    ASSUME NEW s \in Sub, NEW ps \in SUBSET Remote
    PROVE  /\ [s EXCEPT !.prefixes = ps] \in Sub
           /\ [s EXCEPT !.prefixes = ps].id = s.id
           /\ [s EXCEPT !.prefixes = ps].up = s.up
           /\ [s EXCEPT !.prefixes = ps].dialing = s.dialing
  <1>1. [s EXCEPT !.prefixes = ps] \in Sub
    BY Zenon DEF Sub
  <1> QED
    BY <1>1 DEF Sub

\* repairBrokenSubscriptions.
LEMMA RepairInv ==
    ASSUME ConnInv, NEW t \in Terms, Repair(t)
    PROVE  ConnInv'
  <1>1. PICK hs \in SUBSET Hosts : hs = {h \in Hosts : Leading /\ Broken(h)}
    OBVIOUS
  <1>2. /\ BeginDials(hs)
        /\ subs' = [h \in Hosts |-> IF h \in hs THEN Redialled(subs[h], h)
                                    ELSE subs[h]]
        /\ UNCHANGED <<term, out>>
    BY <1>1 DEF Repair, leadVars
  <1>3. Typed /\ EntriesHonest /\ out' \in SUBSET Listens
    BY <1>2 DEF ConnInv, Typed
  <1>4. \A h \in hs : Fresh(h) \in Conns
    BY <1>2, <1>3, DialsFacts
  <1>5. ASSUME NEW h \in hs
        PROVE  /\ subs[h] # NoSub /\ ~subs[h].up
               /\ subs'[h] \in Sub /\ subs'[h].id = Fresh(h) /\ ~subs'[h].up
    <2>1. subs[h] # NoSub /\ ~subs[h].up
      BY <1>1 DEF Broken
    <2>2. subs[h] \in Sub
      BY <1>3, <2>1, SubTyped
    <2> QED
      BY <1>2, <1>4, <2>1, <2>2, RedialledFacts
  <1>6. \A h \in Hosts \ hs : subs'[h] = subs[h]
    BY <1>2
  <1>7. subs' \in [Hosts -> Sub \union {NoSub}]
    <2>1. \A h \in Hosts : subs'[h] \in Sub \union {NoSub}
      BY <1>3, <1>5, <1>6 DEF Typed
    <2> QED
      BY <1>2, <2>1
  <1> QED
    BY <1>2, <1>3, <1>5, <1>6, <1>7, DialsInv

\* What EnsureSubscriptions makes of one host's entry.
LEMMA MergedFacts ==
    ASSUME Typed, NEW h \in Hosts, NEW ps \in SUBSET Remote,
           ps # {} /\ (subs[h] = NoSub \/ Broken(h)) => Fresh(h) \in Conns
    PROVE  /\ Merged(h, ps) \in Sub \union {NoSub}
           /\ ps # {} /\ (subs[h] = NoSub \/ Broken(h)) =>
                /\ Merged(h, ps) \in Sub /\ Merged(h, ps).id = Fresh(h)
                /\ ~Merged(h, ps).up
           /\ ~(ps # {} /\ (subs[h] = NoSub \/ Broken(h))) =>
                /\ (Merged(h, ps) = NoSub) <=> (subs[h] = NoSub)
                /\ subs[h] # NoSub => /\ Merged(h, ps).id = subs[h].id
                                      /\ Merged(h, ps).up = subs[h].up
                                      /\ Merged(h, ps).dialing = subs[h].dialing
  <1>1. CASE ps = {}
    BY <1>1 DEF Merged, Typed
  <1>2. CASE ps # {} /\ subs[h] = NoSub
    <2>1. Merged(h, ps) = [prefixes |-> ps, id |-> Fresh(h), up |-> FALSE,
                           dialing |-> TRUE]
      BY <1>2 DEF Merged, Fresh
    <2>2. Fresh(h) \in Conns
      BY <1>2
    <2>3. [prefixes |-> ps, id |-> Fresh(h), up |-> FALSE, dialing |-> TRUE] \in Sub
      BY <2>2, Zenon DEF Sub
    <2>4. Merged(h, ps).id = Fresh(h) /\ ~Merged(h, ps).up
      BY <2>1
    <2> QED
      BY <1>2, <2>1, <2>3, <2>4
  <1>3. CASE ps # {} /\ subs[h] # NoSub
    <2>1. /\ subs[h] \in Sub /\ subs[h].prefixes \union ps \in SUBSET Remote
      BY <1>3, SubTyped
    <2>2. PICK s \in Sub : s = [subs[h] EXCEPT !.prefixes = @ \union ps]
      BY <2>1, RestrictedFacts
    <2>3. s.id = subs[h].id /\ s.up = subs[h].up /\ s.dialing = subs[h].dialing
      BY <2>1, <2>2, RestrictedFacts
    <2>4. Merged(h, ps) = IF Broken(h) THEN Redialled(s, h) ELSE s
      BY <1>3, <2>2 DEF Merged
    <2>5. CASE Broken(h)
      <3>1. ~s.up /\ Fresh(h) \in Conns
        BY <1>3, <2>3, <2>5 DEF Broken
      <3> QED
        BY <1>3, <2>4, <2>5, <3>1, RedialledFacts
    <2>6. CASE ~Broken(h)
      BY <1>3, <2>2, <2>3, <2>4, <2>6, NoSubAssumption
    <2> QED
      BY <2>5, <2>6
  <1> QED
    BY <1>1, <1>2, <1>3

\* EnsureSubscriptions, second lock section.
LEMMA EnsureMergeInv ==
    ASSUME ConnInv, NEW c \in Callers, EnsureMerge(c)
    PROVE  ConnInv'
  <1>1. Typed /\ EntriesHonest /\ UNCHANGED term
    BY DEF ConnInv, EnsureMerge, leadVars
  <1>2. CASE UNCHANGED <<subs, conn, out>>
    BY <1>1, <1>2, SameConn DEF Typed
  <1>3. CASE ~UNCHANGED <<subs, conn, out>>
    <2>1. PICK failed \in SUBSET job[c].new :
            LET ps(h) == {p \in (job[c].new \ failed) \intersect Remote :
                              HostOf[p] = h}
                dials == {h \in Hosts : ps(h) # {} /\ (subs[h] = NoSub \/ Broken(h))}
                grown == {h \in Hosts : /\ subs[h] # NoSub /\ subs[h].up
                                        /\ ps(h) \ subs[h].prefixes # {}}
            IN  /\ BeginDials(dials)
                /\ subs' = [h \in Hosts |-> Merged(h, ps(h))]
                /\ out' = out \union
                      {[by |-> c, conn |-> subs[h].id,
                        prefixes |-> subs[h].prefixes \union ps(h),
                        purge |-> ps(h) \ subs[h].prefixes] : h \in grown}
      BY <1>3 DEF EnsureMerge, ListenSet
    <2>2. PICK ps \in [Hosts -> SUBSET Remote] :
            ps = [h \in Hosts |-> {p \in (job[c].new \ failed) \intersect Remote :
                                      HostOf[p] = h}]
      OBVIOUS
    <2>3. PICK hs \in SUBSET Hosts :
            hs = {h \in Hosts : ps[h] # {} /\ (subs[h] = NoSub \/ Broken(h))}
      OBVIOUS
    <2>4. hs = {h \in Hosts : {p \in (job[c].new \ failed) \intersect Remote :
                                  HostOf[p] = h} # {}
                              /\ (subs[h] = NoSub \/ Broken(h))}
      BY <2>2, <2>3
    <2>5. BeginDials(hs)
      BY <2>1, <2>4
    <2>6. subs' = [h \in Hosts |-> Merged(h, ps[h])]
      BY <2>1, <2>2
    <2>7. \A w \in out' : \/ w \in out
                          \/ \E h \in Hosts :
                               /\ subs[h] # NoSub
                               /\ w = [by |-> c, conn |-> subs[h].id,
                                       prefixes |-> subs[h].prefixes \union ps[h],
                                       purge |-> ps[h] \ subs[h].prefixes]
      BY <2>1, <2>2
    <2>8. out' \in SUBSET Listens
      <3>1. ASSUME NEW h \in Hosts, subs[h] # NoSub
            PROVE  [by |-> c, conn |-> subs[h].id,
                    prefixes |-> subs[h].prefixes \union ps[h],
                    purge |-> ps[h] \ subs[h].prefixes] \in Listens
        BY <1>1, <3>1, SubTyped DEF Listens
      <3> QED
        BY <1>1, <2>7, <3>1 DEF Typed
    <2>9. \A h \in hs : Fresh(h) \in Conns
      BY <1>1, <2>5, DialsFacts
    <2>10. ASSUME NEW h \in Hosts
           PROVE  /\ subs'[h] \in Sub \union {NoSub}
                  /\ h \in hs => /\ subs[h] # NoSub => ~subs[h].up
                                 /\ subs'[h] \in Sub /\ subs'[h].id = Fresh(h)
                                 /\ ~subs'[h].up
                  /\ h \notin hs =>
                       /\ (subs'[h] = NoSub) <=> (subs[h] = NoSub)
                       /\ subs[h] # NoSub => /\ subs'[h].id = subs[h].id
                                             /\ subs'[h].up = subs[h].up
                                             /\ subs'[h].dialing = subs[h].dialing
      <3>1. subs'[h] = Merged(h, ps[h]) /\ ps[h] \in SUBSET Remote
        BY <2>2, <2>6
      <3>2. h \in hs <=> ps[h] # {} /\ (subs[h] = NoSub \/ Broken(h))
        BY <2>3
      <3>3. h \in hs /\ subs[h] # NoSub => ~subs[h].up
        BY <3>2 DEF Broken
      <3> QED
        BY <1>1, <2>9, <3>1, <3>2, <3>3, MergedFacts
    <2>11. subs' \in [Hosts -> Sub \union {NoSub}]
      BY <2>6, <2>10
    <2> QED
      BY <1>1, <2>5, <2>8, <2>10, <2>11, DialsInv
  <1> QED
    BY <1>2, <1>3

\* Dropping entries together with their connections.
LEMMA DropInv ==
    ASSUME ConnInv, NEW cs, conn' = Close(cs), UNCHANGED term,
           out' \in SUBSET Listens,
           subs' \in [Hosts -> Sub \union {NoSub}],
           \A h \in Hosts :
             /\ subs'[h] # NoSub =>
                  /\ subs[h] # NoSub /\ subs'[h].id = subs[h].id
                  /\ subs'[h].up = subs[h].up /\ subs'[h].dialing = subs[h].dialing
             /\ subs'[h] = NoSub /\ subs[h] # NoSub /\ subs[h].up => subs[h].id \in cs
    PROVE  ConnInv'
  <1>1. Typed /\ EntriesHonest /\ NoLeakedConnection
    BY DEF ConnInv
  <1>2. Typed'
    BY <1>1, CloseKeeps DEF Typed
  <1>3. ASSUME NEW h \in Hosts, subs'[h] # NoSub PROVE Honest(h)'
    <2>1. /\ Honest(h) /\ subs[h] # NoSub /\ subs[h].id \in Conns
          /\ subs[h].up \in BOOLEAN /\ subs[h].dialing \in BOOLEAN
      BY <1>1, <1>3, SubTyped DEF EntriesHonest
    <2>2. /\ subs'[h].id = subs[h].id /\ subs'[h].up = subs[h].up
          /\ subs'[h].dialing = subs[h].dialing
      BY <1>3
    <2> QED
      BY <1>1, <2>1, <2>2, CloseKeeps DEF Honest
  <1>4. ASSUME NEW x \in Conns, conn'[x].st = "open"
        PROVE  Holds(x, x[1])' /\ subs'[x[1]].up
    <2>1. conn[x].st = "open" /\ x \notin cs
      BY <1>1, <1>4, CloseKeeps
    <2>2. x[1] \in Hosts /\ Holds(x, x[1]) /\ subs[x[1]].up
      BY <1>1, <2>1, ConnsPairs DEF NoLeakedConnection
    <2>3. subs'[x[1]] # NoSub
      BY <2>1, <2>2 DEF Holds
    <2> QED
      BY <2>2, <2>3 DEF Holds
  <1> QED
    BY <1>2, <1>3, <1>4 DEF ConnInv, EntriesHonest, NoLeakedConnection

\* deleteExcessSubscriptions closes the connection of every entry it drops.
LEMMA PruneInv ==
    ASSUME ConnInv, NEW t \in Terms, Prune(t)
    PROVE  ConnInv'
  <1>1. Typed
    BY DEF ConnInv
  <1>2. PICK gone \in SUBSET Hosts :
          gone = {h \in Hosts : subs[h] # NoSub /\ KeptOf(t, h) = {}}
    OBVIOUS
  <1>3. PICK cs : cs = {subs[h].id : h \in {g \in gone : subs[g].up}}
    OBVIOUS
  <1>4. gone = {h \in {g \in Hosts : subs[g] # NoSub} : KeptOf(t, h) = {}}
    BY <1>2
  <1>5. /\ conn' = Close(cs) /\ UNCHANGED term
        /\ subs' = [h \in Hosts |->
                      IF h \in gone THEN NoSub
                      ELSE IF subs[h] # NoSub
                      THEN [subs[h] EXCEPT !.prefixes = KeptOf(t, h)]
                      ELSE NoSub]
        /\ \A w \in out' : \/ w \in out
                           \/ \E h \in Hosts : /\ subs[h] # NoSub
                                               /\ w = [by |-> t, conn |-> subs[h].id,
                                                       prefixes |-> KeptOf(t, h),
                                                       purge |-> {}]
    BY <1>3, <1>4 DEF Prune, leadVars
  <1>6. ASSUME NEW h \in Hosts, subs[h] # NoSub
        PROVE  subs[h] \in Sub /\ subs[h].id \in Conns /\ KeptOf(t, h) \in SUBSET Remote
    BY <1>1, <1>6, SubTyped DEF KeptOf
  <1>7. out' \in SUBSET Listens
    <2>1. ASSUME NEW h \in Hosts, subs[h] # NoSub
          PROVE  [by |-> t, conn |-> subs[h].id, prefixes |-> KeptOf(t, h),
                  purge |-> {}] \in Listens
      BY <1>6, <2>1 DEF Listens, Callers
    <2> QED
      BY <1>1, <1>5, <2>1 DEF Typed
  <1>8. ASSUME NEW h \in Hosts
        PROVE  /\ subs'[h] \in Sub \union {NoSub}
               /\ subs'[h] # NoSub =>
                    /\ subs[h] # NoSub /\ subs'[h].id = subs[h].id
                    /\ subs'[h].up = subs[h].up
                    /\ subs'[h].dialing = subs[h].dialing
               /\ subs'[h] = NoSub /\ subs[h] # NoSub /\ subs[h].up =>
                    subs[h].id \in cs
    <2>1. CASE h \in gone \/ subs[h] = NoSub
      BY <1>3, <1>5, <2>1
    <2>2. CASE h \notin gone /\ subs[h] # NoSub
      <3>1. subs'[h] = [subs[h] EXCEPT !.prefixes = KeptOf(t, h)]
        BY <1>5, <2>2
      <3>2. subs[h] \in Sub /\ KeptOf(t, h) \in SUBSET Remote
        BY <1>6, <2>2
      <3>3. /\ subs'[h] \in Sub /\ subs'[h].id = subs[h].id
            /\ subs'[h].up = subs[h].up /\ subs'[h].dialing = subs[h].dialing
        BY <3>1, <3>2, RestrictedFacts
      <3> QED
        BY <2>2, <3>3, NoSubAssumption
    <2> QED
      BY <2>1, <2>2
  <1>9. subs' \in [Hosts -> Sub \union {NoSub}]
    BY <1>5, <1>8
  <1> QED
    BY <1>5, <1>7, <1>8, <1>9, DropInv

\* closeAllSubscriptions closes every connection, or leaves all to a new term.
LEMMA KeeperEndsInv ==
    ASSUME ConnInv, NEW t \in Terms, KeeperEnds(t)
    PROVE  ConnInv'
  <1>1. UNCHANGED term /\ out' \in SUBSET Listens
    BY DEF KeeperEnds, leadVars, ConnInv, Typed
  <1>2. CASE t = term
    <2>1. PICK cs : cs = {subs[h].id : h \in {g \in Hosts : subs[g] # NoSub /\ subs[g].up}}
      OBVIOUS
    <2>2. cs = {subs[h].id : h \in {g \in {f \in Hosts : subs[f] # NoSub} : subs[g].up}}
      BY <2>1
    <2>3. conn' = Close(cs) /\ subs' = [h \in Hosts |-> NoSub]
      BY <1>2, <2>2 DEF KeeperEnds
    <2> QED
      BY <1>1, <2>1, <2>3, DropInv
  <1>3. CASE t # term
    BY <1>1, <1>3, SameConn DEF KeeperEnds, ConnInv, Typed
  <1> QED
    BY <1>2, <1>3

\* A listen is written, or its connection closed.
LEMMA WriteListenInv ==
    ASSUME ConnInv, NEW w \in out, WriteListen(w)
    PROVE  ConnInv'
  <1>1. /\ Typed /\ UNCHANGED <<subs, term>> /\ out' \in SUBSET Listens
        /\ w.conn \in Conns /\ w.prefixes \in SUBSET Remote
    BY DEF WriteListen, leadVars, ConnInv, Typed, Listens
  <1>2. CASE conn' = Close({w.conn})
    BY <1>1, <1>2, CloseInv
  <1>3. CASE UNCHANGED conn
    BY <1>1, <1>3, SameConn DEF Typed
  <1> DEFINE Crosses == conn[w.conn].crossed \/ \E u \in out \ {w} : u.conn = w.conn
  <1>4. CASE conn' = [conn EXCEPT ![w.conn] =
                         [conn[w.conn] EXCEPT !.listen = w.prefixes,
                                              !.crossed = Crosses]]
    <2>0. conn[w.conn] \in Conn /\ conn[w.conn].crossed \in BOOLEAN
      BY <1>1 DEF Typed, Conn
    <2>1. PICK b \in BOOLEAN : b = Crosses
      BY <2>0, Zenon
    <2>2. PICK r \in Conn : /\ r = [conn[w.conn] EXCEPT !.listen = w.prefixes,
                                                       !.crossed = b]
                            /\ r.st = conn[w.conn].st
      <3>1. [conn[w.conn] EXCEPT !.listen = w.prefixes, !.crossed = b] \in Conn
        BY <1>1, <2>0, Zenon DEF Conn
      <3>2. [conn[w.conn] EXCEPT !.listen = w.prefixes, !.crossed = b].st
              = conn[w.conn].st
        BY <2>0 DEF Conn
      <3> QED
        BY <3>1, <3>2
    <2>6. conn' \in [Conns -> Conn] /\ \A x \in Conns : conn'[x].st = conn[x].st
      <3>1. conn' = [conn EXCEPT ![w.conn] = r]
        BY <1>4, <2>1, <2>2, Zenon
      <3> QED
        BY <1>1, <2>2, <3>1 DEF Typed
    <2>3. Typed'
      BY <1>1, <2>6 DEF Typed
    <2>4. EntriesHonest'
      BY <1>1, <2>6, SubTyped DEF ConnInv, EntriesHonest, Honest
    <2>5. NoLeakedConnection'
      BY <1>1, <2>6 DEF ConnInv, NoLeakedConnection, Holds
    <2> QED
      BY <2>3, <2>4, <2>5 DEF ConnInv
  <1>5. \/ conn' = Close({w.conn}) \/ UNCHANGED conn
        \/ conn' = [conn EXCEPT ![w.conn] =
                       [conn[w.conn] EXCEPT !.listen = w.prefixes,
                                            !.crossed = Crosses]]
    BY DEF WriteListen
  <1> QED
    BY <1>2, <1>3, <1>4, <1>5

\* Every step keeps the invariant.
LEMMA NextInv == ConnInv /\ [Next]_vars => ConnInv'
  <1> SUFFICES ASSUME ConnInv, [Next]_vars PROVE ConnInv'
    OBVIOUS
  <1>1. term \in Terms \union {0} /\ out \in SUBSET Listens
    BY DEF ConnInv, Typed
  <1>2. CASE Start
    BY <1>1, <1>2, SameConn DEF Start
  <1>3. CASE Demote
    BY <1>1, <1>3, SameConn DEF Demote
  <1>4. ASSUME NEW r \in Users, NEW ps \in SUBSET Prefixes, Session(r, ps)
        PROVE  ConnInv'
    BY <1>1, <1>4, SameConn DEF Session, leadVars
  <1>5. ASSUME NEW p \in Peers, PeerStops(p) PROVE ConnInv'
    BY <1>1, <1>5, SameConn DEF PeerStops, leadVars
  <1>6. ASSUME NEW t \in Terms, Keeper(t) PROVE ConnInv'
    <2>1. CASE KeeperTick(t)
      BY <1>1, <2>1, SameConn DEF KeeperTick, leadVars
    <2>2. CASE PollApply(t)
      BY <1>1, <2>2, SameConn DEF PollApply, leadVars
    <2>3. CASE DiscoveryFails(t)
      BY <1>1, <2>3, SameConn DEF DiscoveryFails, leadVars
    <2> QED
      BY <1>6, <2>1, <2>2, <2>3, RepairInv, PruneInv, KeeperEndsInv DEF Keeper
  <1>7. ASSUME NEW c \in Callers, Ensure(c) PROVE ConnInv'
    <2>1. CASE EnsureRequest(c)
      BY <1>1, <2>1, SameConn DEF EnsureRequest, leadVars
    <2> QED
      BY <1>7, <2>1, EnsureMergeInv DEF Ensure
  <1>8. ASSUME NEW w \in out, WriteListen(w) PROVE ConnInv'
    BY <1>8, WriteListenInv
  <1>9. ASSUME NEW x \in Conns, Network(x) PROVE ConnInv'
    <2>1. CASE ConnBreaks(x) \/ ContextDone(x)
      BY <1>1, <2>1, CloseInv DEF ConnBreaks, ContextDone, leadVars
    <2> QED
      BY <1>9, <2>1, DialFailsInv, DialDoneInv, ConnCleanupInv DEF Network
  <1>10. CASE UNCHANGED vars
    BY <1>1, <1>10, SameConn DEF vars
  <1> QED
    BY <1>2, <1>3, <1>4, <1>5, <1>6, <1>7, <1>8, <1>9, <1>10 DEF Next

\* dialAndRun and the identity-checked defers: no open websocket is ever left
\* without the entry that can close it, for any hosts, prefixes, replicas and
\* lead terms and any number of faults and dials.
THEOREM NoConnectionLeaks == Spec => []NoLeakedConnection
  <1>1. ConnInv => NoLeakedConnection
    BY DEF ConnInv
  <1> QED
    BY <1>1, InitInv, NextInv, PTL DEF Spec

\* LeaderSubscriber's map: an entry with a connection names one of its own host
\* that is open or being cleaned up, never one of another host or a dial that
\* has been discarded; an entry that waits for a dial has one in flight.
THEOREM EntriesMatch == Spec => []EntriesHonest
  <1>1. ConnInv => EntriesHonest
    BY DEF ConnInv
  <1> QED
    BY <1>1, InitInv, NextInv, PTL DEF Spec

-----------------------------------------------------------------------------
\* Where a caller of EnsureSubscriptions, or a keeper, can be.
Pcs == {"off", "wait", "apply", "merge", "repair", "prune", "idle", "ensure"}

\* What it has in hand.
Jobs == [pc : Pcs, want : SUBSET Prefixes, new : SUBSET Prefixes,
         demand : SUBSET Prefixes, polled : [Peers -> SUBSET Prefixes],
         heard : SUBSET Peers]

\* The types of what concerns demand; a keeper ensures what it polled itself.
DemandTyped ==
    /\ \A t \in Terms : job[t].pc # "ensure"
    /\ job \in [Callers -> Jobs] /\ spared \in [Terms -> SUBSET Prefixes]
    /\ sessions \in [Replicas -> SUBSET Prefixes] /\ alive \in SUBSET Peers
    /\ peerDemand \in [Peers -> SUBSET Prefixes]
    /\ budget \in [fault : 0 .. MaxFaults, change : Int, lost : BOOLEAN]

\* The leader has missed no demand so far.
Calm == ~budget.lost

\* A call for the prefix is about to begin.
Asked(p) == \E q \in Requests : job[q].pc = "ensure" /\ p \in job[q].want

\* The demand a keeper knows of in its tick.
Snapshot(t) ==
    IF job[t].pc = "apply"
    THEN job[t].demand \union UNION {job[t].polled[p] : p \in job[t].heard}
    ELSE job[t].demand

\* The keeper's tick will not drop the prefix, or there is nothing to drop.
Covered(t, p) ==
    p \in Snapshot(t) \/ p \in spared[t] \/ p \notin Tracked \/ Asked(p)

\* So for every wanted prefix, during a live keeper's tick.
AllCovered(t) == Live(t) /\ Ticking(t) => \A p \in Wanted : Covered(t, p)

\* EnsuredStays made inductive.
WantedCovered == Calm => \A t \in Terms : AllCovered(t)

\* The inductive invariant behind EnsuredStays.
KeepInv == ConnInv /\ DemandTyped /\ WantedCovered

-----------------------------------------------------------------------------
\* A caller that holds nothing.
LEMMA QuietTyped ==
    ASSUME NEW pc \in Pcs
    PROVE  /\ Quiet(pc) \in Jobs /\ Quiet(pc).pc = pc /\ Quiet(pc).want = {}
           /\ Quiet(pc).demand = {}
BY DEF Quiet, Jobs

\* What a caller holds before its second lock section, and a keeper after its
\* polls.
MergeOf(ps, fresh, demand) ==
    [Quiet("merge") EXCEPT !.want = ps, !.new = fresh, !.demand = demand]
TickOf(ps, hs, ans) ==
    [Quiet("apply") EXCEPT !.demand = ps, !.heard = hs, !.polled = ans]

\* The former is well-typed.
LEMMA MergeJob ==
    ASSUME NEW ps \in SUBSET Prefixes, NEW fresh \in SUBSET Prefixes,
           NEW demand \in SUBSET Prefixes
    PROVE  /\ MergeOf(ps, fresh, demand) \in Jobs
           /\ MergeOf(ps, fresh, demand).pc = "merge"
           /\ MergeOf(ps, fresh, demand).want = ps
           /\ MergeOf(ps, fresh, demand).demand = demand
<1>0. Quiet("merge") \in Jobs /\ Quiet("merge").pc = "merge"
  <2>1. "merge" \in Pcs
    BY DEF Pcs
  <2>. QED  BY <2>1, QuietTyped, Zenon
<1>1. PICK q \in Jobs : q = Quiet("merge") /\ q.pc = "merge"
  BY <1>0
<1>2. PICK a \in Jobs : a = [q EXCEPT !.want = ps] /\ a.pc = "merge" /\ a.want = ps
  <2>1. [q EXCEPT !.want = ps] \in Jobs
    BY Zenon DEF Jobs
  <2>. QED  BY <1>1, <2>1 DEF Jobs
<1>3. PICK b \in Jobs : b = [a EXCEPT !.new = fresh] /\ b.pc = "merge" /\ b.want = ps
  <2>1. [a EXCEPT !.new = fresh] \in Jobs
    BY Zenon DEF Jobs
  <2>. QED  BY <1>2, <2>1 DEF Jobs
<1>4. PICK c \in Jobs : /\ c = [b EXCEPT !.demand = demand] /\ c.pc = "merge"
                        /\ c.want = ps /\ c.demand = demand
  <2>1. [b EXCEPT !.demand = demand] \in Jobs
    BY Zenon DEF Jobs
  <2>. QED  BY <1>3, <2>1 DEF Jobs
<1>5. c = MergeOf(ps, fresh, demand)
  BY <1>1, <1>2, <1>3, <1>4, Zenon DEF MergeOf
<1>. QED  BY <1>4, <1>5

\* So is what a keeper polled.
LEMMA TickJob ==
    ASSUME NEW ps \in SUBSET Prefixes, NEW hs \in SUBSET Peers,
           NEW ans \in [Peers -> SUBSET Prefixes]
    PROVE  /\ TickOf(ps, hs, ans) \in Jobs /\ TickOf(ps, hs, ans).pc = "apply"
           /\ TickOf(ps, hs, ans).demand = ps /\ TickOf(ps, hs, ans).heard = hs
           /\ TickOf(ps, hs, ans).polled = ans
<1>0. Quiet("apply") \in Jobs /\ Quiet("apply").pc = "apply"
  <2>1. "apply" \in Pcs
    BY DEF Pcs
  <2>. QED  BY <2>1, QuietTyped, Zenon
<1>1. PICK q \in Jobs : q = Quiet("apply") /\ q.pc = "apply"
  BY <1>0
<1>2. PICK a \in Jobs : a = [q EXCEPT !.demand = ps] /\ a.pc = "apply" /\ a.demand = ps
  <2>1. [q EXCEPT !.demand = ps] \in Jobs
    BY Zenon DEF Jobs
  <2>. QED  BY <1>1, <2>1 DEF Jobs
<1>3. PICK b \in Jobs : /\ b = [a EXCEPT !.heard = hs] /\ b.pc = "apply"
                        /\ b.demand = ps /\ b.heard = hs
  <2>1. [a EXCEPT !.heard = hs] \in Jobs
    BY Zenon DEF Jobs
  <2>. QED  BY <1>2, <2>1 DEF Jobs
<1>4. PICK c \in Jobs : /\ c = [b EXCEPT !.polled = ans] /\ c.pc = "apply"
                        /\ c.demand = ps /\ c.heard = hs /\ c.polled = ans
  <2>1. [b EXCEPT !.polled = ans] \in Jobs
    BY Zenon DEF Jobs
  <2>. QED  BY <1>3, <2>1 DEF Jobs
<1>5. c = TickOf(ps, hs, ans)
  BY <1>1, <1>2, <1>3, <1>4, Zenon DEF TickOf
<1>. QED  BY <1>4, <1>5

\* Everything that is tracked is a prefix.
LEMMA TrackedTyped ==
    ASSUME Typed
    PROVE  Tracked \subseteq Prefixes /\ Open \subseteq Prefixes
<1>1. \A h \in Hosts : subs[h] # NoSub => subs[h].prefixes \subseteq Prefixes
  BY SubTyped DEF Remote
<1>. QED  BY <1>1 DEF Tracked, Open

\* A step that changes connections only, drops entries or shrinks them.
LEMMA QuietStep ==
    ASSUME DemandTyped, WantedCovered, Tracked' \subseteq Tracked,
           UNCHANGED <<term, lead, sessions, alive, peerDemand, job, spared>>,
           budget' \in [fault : 0 .. MaxFaults, change : Int, lost : BOOLEAN],
           budget'.lost = budget.lost
    PROVE  DemandTyped' /\ WantedCovered'
<1>1. DemandTyped'
  BY DEF DemandTyped
<1>2. Calm' => Calm
  BY DEF Calm
<1>3. /\ Wanted' = Wanted /\ \A p : Asked(p)' = Asked(p)
      /\ \A t \in Terms : Snapshot(t)' = Snapshot(t)
      /\ \A t \in Terms : Live(t)' = Live(t) /\ Ticking(t)' = Ticking(t)
  BY DEF Wanted, Asked, Snapshot, Live, Ticking
<1>. QED  BY <1>1, <1>2, <1>3 DEF WantedCovered, AllCovered, Covered

\* A mishap leaves one less.
LEMMA SpendFacts ==
    ASSUME DemandTyped, Spend
    PROVE  /\ budget' \in [fault : 0 .. MaxFaults, change : Int, lost : BOOLEAN]
           /\ budget'.lost = budget.lost
<1>1. budget.fault \in 0 .. MaxFaults /\ MaxFaults \in Nat
  BY SubscriberAssumption DEF DemandTyped
<1>2. budget' = [budget EXCEPT !.fault = @ - 1] /\ budget.fault > 0
  BY DEF Spend
<1>3. /\ budget'.fault = budget.fault - 1 /\ budget'.lost = budget.lost
      /\ budget' \in [fault : 0 .. MaxFaults, change : Int, lost : BOOLEAN]
  BY <1>1, <1>2 DEF DemandTyped
<1>. QED  BY <1>3

\* One by which demand is missed is remembered.
LEMMA MissFacts ==
    ASSUME DemandTyped, Miss
    PROVE  /\ budget' \in [fault : 0 .. MaxFaults, change : Int, lost : BOOLEAN]
           /\ ~Calm'
<1>1. budget.fault \in 0 .. MaxFaults /\ MaxFaults \in Nat
  BY SubscriberAssumption DEF DemandTyped
<1>2. /\ budget' = [[budget EXCEPT !.fault = @ - 1] EXCEPT !.lost = TRUE]
      /\ budget.fault > 0
  BY DEF Miss
<1>3. PICK b \in [fault : 0 .. MaxFaults, change : Int, lost : BOOLEAN] :
        b = [budget EXCEPT !.fault = @ - 1]
  <2>1. [budget EXCEPT !.fault = @ - 1] \in
            [fault : 0 .. MaxFaults, change : Int, lost : BOOLEAN]
    BY <1>1, <1>2 DEF DemandTyped
  <2>. QED  BY <2>1, Zenon
<1>4. budget' = [b EXCEPT !.lost = TRUE]
  BY <1>2, <1>3
<1>5. budget' \in [fault : 0 .. MaxFaults, change : Int, lost : BOOLEAN]
  BY <1>4, Zenon
<1>6. budget'.lost = TRUE
  BY <1>4
<1>. QED  BY <1>5, <1>6 DEF Calm

\* An entry that is dropped, or keeps its prefixes, tracks nothing new.
LEMMA TracksLess ==
    ASSUME \A h \in Hosts : \/ subs'[h] = NoSub
                            \/ /\ subs[h] # NoSub
                               /\ subs'[h].prefixes \subseteq subs[h].prefixes
    PROVE  Tracked' \subseteq Tracked
BY DEF Tracked

\* Dials, listens, breaks and clean-ups.
LEMMA NetworkKeeps ==
    ASSUME KeepInv, NEW x \in Conns, Network(x)
    PROVE  DemandTyped' /\ WantedCovered'
<1>1. /\ UNCHANGED <<term, lead, sessions, alive, peerDemand, job, spared>>
      /\ Spend \/ UNCHANGED budget
  BY DEF Network, DialFails, DialDone, ConnBreaks, ContextDone, ConnCleanup,
         leadVars, demandVars
<1>2. ASSUME NEW h \in Hosts
      PROVE  \/ subs'[h] = NoSub
             \/ subs[h] # NoSub /\ subs'[h].prefixes \subseteq subs[h].prefixes
  <2>1. CASE subs' = subs
    BY <2>1
  <2>2. x[1] \in Hosts /\ subs \in [Hosts -> Sub \union {NoSub}]
    BY ConnsPairs DEF KeepInv, ConnInv, Typed
  <2>3. CASE subs' = [subs EXCEPT ![x[1]] = NoSub]
    BY <2>2, <2>3
  <2>4. ASSUME NEW up \in BOOLEAN, Holds(x, x[1]),
               \/ subs' = [subs EXCEPT ![x[1]].dialing = FALSE, ![x[1]].up = TRUE]
               \/ subs' = [subs EXCEPT ![x[1]].dialing = FALSE]
        PROVE  \/ subs[h] = NoSub /\ subs'[h] = NoSub
               \/ subs[h] # NoSub /\ subs'[h].prefixes = subs[h].prefixes
    <3>1. subs[x[1]] \in Sub
      BY <2>2, <2>4 DEF Holds
    <3>2. CASE h # x[1]
      BY <2>2, <2>4, <3>2
    <3>3. CASE h = x[1]
      <4>1. /\ [subs[h] EXCEPT !.dialing = FALSE].prefixes = subs[h].prefixes
            /\ [[subs[h] EXCEPT !.dialing = FALSE] EXCEPT !.up = TRUE].prefixes
                    = subs[h].prefixes
        BY <3>1, <3>3 DEF Sub
      <4>. QED  BY <2>2, <2>4, <3>1, <3>3, <4>1, NoSubAssumption
    <3>. QED  BY <3>2, <3>3
  <2>. QED
    BY <2>1, <2>3, <2>4 DEF Network, DialFails, DialDone, ConnBreaks, ContextDone,
         ConnCleanup
<1>3. Tracked' \subseteq Tracked
  BY <1>2, TracksLess
<1>4. /\ budget' \in [fault : 0 .. MaxFaults, change : Int, lost : BOOLEAN]
      /\ budget'.lost = budget.lost
  BY <1>1, SpendFacts DEF KeepInv, DemandTyped
<1>. QED  BY <1>1, <1>3, <1>4, QuietStep DEF KeepInv

\* A listen request is written or fails.
LEMMA WriteKeeps ==
    ASSUME KeepInv, NEW w \in out, WriteListen(w)
    PROVE  DemandTyped' /\ WantedCovered'
<1>1. /\ UNCHANGED <<term, lead, sessions, alive, peerDemand, job, spared, subs>>
      /\ Spend \/ UNCHANGED budget
  BY DEF WriteListen, leadVars, demandVars
<1>2. Tracked' \subseteq Tracked
  BY <1>1 DEF Tracked
<1>3. /\ budget' \in [fault : 0 .. MaxFaults, change : Int, lost : BOOLEAN]
      /\ budget'.lost = budget.lost
  BY <1>1, SpendFacts DEF KeepInv, DemandTyped
<1>. QED  BY <1>1, <1>2, <1>3, QuietStep DEF KeepInv

\* A step of caller c that other callers do not notice.
LEMMA JobStep ==
    ASSUME DemandTyped, NEW c \in Callers, NEW j \in Jobs,
           job' = [job EXCEPT ![c] = j]
    PROVE  /\ job' \in [Callers -> Jobs] /\ job'[c] = j
           /\ \A b \in Callers \ {c} : job'[b] = job[b]
BY DEF DemandTyped

\* What a keeper's step, between its snapshot and its prune, must do for the
\* wanted prefixes to stay covered.
LEMMA KeeperStep ==
    ASSUME KeepInv, NEW t \in Terms, NEW j \in Jobs,
           job' = [job EXCEPT ![t] = j], j.pc # "ensure",
           UNCHANGED <<term, lead, sessions, alive>>,
           peerDemand' \in [Peers -> SUBSET Prefixes],
           spared' \in [Terms -> SUBSET Prefixes],
           budget' \in [fault : 0 .. MaxFaults, change : Int, lost : BOOLEAN],
           Calm' => Calm,
           Tracked' \subseteq Tracked,
           \A u \in Terms : Ticking(u)' => u = t \/ spared[u] \subseteq spared'[u],
           Calm' => \/ ~Ticking(t)' \/ Wanted \subseteq Snapshot(t)'
                    \/ /\ Ticking(t) /\ Snapshot(t) \subseteq Snapshot(t)'
                       /\ spared[t] \subseteq spared'[t]
    PROVE  DemandTyped' /\ WantedCovered'
<1>1. t \in Callers /\ \A q \in Requests : q \in Callers /\ q # t
  BY SubscriberAssumption DEF Callers
<1>2. /\ job' \in [Callers -> Jobs] /\ job'[t] = j
      /\ \A b \in Callers \ {t} : job'[b] = job[b]
  BY <1>1, JobStep DEF KeepInv
<1>3. DemandTyped'
  BY <1>2 DEF KeepInv, DemandTyped, Callers
<1>4. Wanted' = Wanted /\ \A p : Asked(p)' = Asked(p)
  BY <1>1, <1>2 DEF Wanted, Asked
<1>5. ASSUME Calm', NEW u \in Terms, Live(u)', Ticking(u)', NEW p \in Wanted
      PROVE  Covered(u, p)'
  <2>1. Live(u)
    BY <1>5 DEF Live
  <2>2. CASE u # t
    <3>1. job'[u] = job[u] /\ Ticking(u) /\ Snapshot(u)' = Snapshot(u)
      BY <1>2, <1>5, <2>2 DEF Callers, Ticking, Snapshot
    <3>2. Covered(u, p)
      BY <1>5, <2>1, <3>1 DEF KeepInv, WantedCovered, AllCovered
    <3>. QED  BY <1>4, <1>5, <2>2, <3>1, <3>2 DEF Covered
  <2>3. CASE u = t /\ Wanted \subseteq Snapshot(t)'
    BY <1>5, <2>3 DEF Covered
  <2>4. CASE /\ u = t /\ Ticking(t) /\ Snapshot(t) \subseteq Snapshot(t)'
             /\ spared[t] \subseteq spared'[t]
    <3>1. Covered(t, p)
      BY <1>5, <2>1, <2>4 DEF KeepInv, WantedCovered, AllCovered
    <3>. QED  BY <1>4, <2>4, <3>1 DEF Covered
  <2>. QED  BY <1>5, <2>2, <2>3, <2>4
<1>. QED  BY <1>3, <1>4, <1>5 DEF WantedCovered, AllCovered

\* The snapshot of a tick holds what is wanted when no poll fails.
LEMMA KeeperTickKeeps ==
    ASSUME KeepInv, NEW t \in Terms, KeeperTick(t)
    PROVE  DemandTyped' /\ WantedCovered'
<1>1. PICK keep \in SUBSET Open, failed \in SUBSET alive :
         /\ IF failed = {} THEN UNCHANGED budget ELSE Miss
         /\ job' = [job EXCEPT ![t] = [Quiet("apply") EXCEPT
                                        !.demand = sessions[Me] \union keep,
                                        !.heard = alive \ failed,
                                        !.polled = Answers(alive \ failed)]]
  BY DEF KeeperTick
<1>2. UNCHANGED <<term, lead, sessions, alive, peerDemand, spared, subs>>
  BY DEF KeeperTick, leadVars, demandVars
<1>3. /\ sessions[Me] \in SUBSET Prefixes /\ keep \in SUBSET Prefixes
      /\ alive \in SUBSET Peers
      /\ sessions[Me] \union keep \in SUBSET Prefixes
      /\ alive \ failed \in SUBSET Peers
      /\ Answers(alive \ failed) \in [Peers -> SUBSET Prefixes]
  <2>1. keep \in SUBSET Prefixes
    BY TrackedTyped DEF KeepInv, ConnInv
  <2>. QED  BY <2>1 DEF KeepInv, DemandTyped, Answers, Replicas
<1>12. PICK ps \in SUBSET Prefixes, hs \in SUBSET Peers,
            ans \in [Peers -> SUBSET Prefixes] :
          /\ ps = sessions[Me] \union keep
          /\ hs = alive \ failed /\ ans = Answers(alive \ failed)
  BY <1>3
<1>. DEFINE j == TickOf(ps, hs, ans)
<1>4. /\ j \in Jobs /\ j.pc = "apply" /\ j.demand = sessions[Me] \union keep
      /\ j.heard = alive \ failed /\ j.polled = Answers(alive \ failed)
  <2>1. j \in Jobs /\ j.pc = "apply" /\ j.demand = ps /\ j.heard = hs /\ j.polled = ans
    BY TickJob
  <2>. QED  BY <1>12, <2>1
<1>10. job' = [job EXCEPT ![t] = j]
  BY <1>1, <1>12 DEF TickOf
<1>. HIDE DEF j
<1>5. job'[t] = j
  BY <1>10, <1>4, JobStep DEF KeepInv, Callers
<1>6. failed # {} => ~Calm'
  BY <1>1, MissFacts DEF KeepInv
<1>7. ASSUME failed = {} PROVE Wanted \subseteq Snapshot(t)'
  <2>1. \A p \in alive : j.polled[p] = sessions[p]
    BY <1>3, <1>4, <1>7 DEF Answers
  <2>. QED  BY <1>4, <1>5, <1>7, <2>1 DEF Wanted, Snapshot
<1>8. /\ budget' \in [fault : 0 .. MaxFaults, change : Int, lost : BOOLEAN]
      /\ Calm' => Calm
  BY <1>1, <1>6, MissFacts DEF KeepInv, DemandTyped, Calm
<1>9. Tracked' = Tracked
  BY <1>2 DEF Tracked
<1>11. /\ peerDemand' \in [Peers -> SUBSET Prefixes]
       /\ spared' \in [Terms -> SUBSET Prefixes]
  BY <1>2 DEF KeepInv, DemandTyped
<1>. QED
  BY <1>2, <1>4, <1>6, <1>7, <1>8, <1>9, <1>10, <1>11, KeeperStep

\* Stamps only grow for a keeper that is in its tick.
LEMMA StampFacts ==
    ASSUME DemandTyped, NEW ps \in SUBSET Prefixes, Stamp(ps)
    PROVE  /\ spared' \in [Terms -> SUBSET Prefixes]
           /\ \A t \in Terms : Ticking(t) => spared'[t] = spared[t] \union ps
BY DEF DemandTyped, Stamp

\* The first lock section of the keeper's own call.
LEMMA EnsuredBy ==
    ASSUME KeepInv, NEW t \in Terms, NEW all \in SUBSET Prefixes,
           job[t].pc = "apply", EnsureTracked(t, all, all),
           Snapshot(t) \subseteq all,
           UNCHANGED <<term, lead, sessions, alive, subs>>,
           peerDemand' \in [Peers -> SUBSET Prefixes],
           budget' \in [fault : 0 .. MaxFaults, change : Int, lost : BOOLEAN],
           Calm' => Calm
    PROVE  DemandTyped' /\ WantedCovered'
<1>. DEFINE j == MergeOf(all, all \ Tracked, all)
<1>1. j \in Jobs /\ j.pc = "merge" /\ j.demand = all
  BY MergeJob
<1>2. job' = [job EXCEPT ![t] = j] /\ Stamp(all \intersect Tracked)
  BY DEF EnsureTracked, MergeOf
<1>. HIDE DEF j
<1>3. job'[t] = j /\ \A b \in Callers \ {t} : job'[b] = job[b]
  BY <1>1, <1>2, JobStep DEF KeepInv, Callers
<1>4. /\ spared' \in [Terms -> SUBSET Prefixes]
      /\ \A u \in Terms : Ticking(u) =>
            spared'[u] = spared[u] \union (all \intersect Tracked)
  BY <1>2, StampFacts DEF KeepInv
<1>5. Ticking(t) /\ Snapshot(t)' = all
  BY <1>1, <1>3 DEF Ticking, Snapshot
<1>6. \A u \in Terms : Ticking(u)' => u = t \/ spared[u] \subseteq spared'[u]
  BY <1>3, <1>4 DEF Ticking, Callers
<1>7. Tracked' = Tracked
  BY DEF Tracked
<1>8. spared[t] \subseteq spared'[t]
  BY <1>4, <1>5
<1>. QED
  BY <1>1, <1>2, <1>4, <1>5, <1>6, <1>7, <1>8, KeeperStep

\* The peers' answers are recorded and join the keeper's demand.
LEMMA ApplyKeeps ==
    ASSUME KeepInv, NEW t \in Terms, PollApply(t) \/ DiscoveryFails(t)
    PROVE  DemandTyped' /\ WantedCovered'
<1>1. /\ job[t].pc = "apply" /\ UNCHANGED <<term, lead, sessions, alive, subs>>
      /\ job[t] \in Jobs
  BY DEF PollApply, DiscoveryFails, leadVars, demandVars, KeepInv, DemandTyped, Callers
<1>2. /\ job[t].demand \in SUBSET Prefixes /\ job[t].heard \in SUBSET Peers
      /\ job[t].polled \in [Peers -> SUBSET Prefixes]
      /\ peerDemand \in [Peers -> SUBSET Prefixes]
      /\ budget \in [fault : 0 .. MaxFaults, change : Int, lost : BOOLEAN]
  BY <1>1 DEF Jobs, KeepInv, DemandTyped
<1>3. CASE PollApply(t)
  <2>. DEFINE known == [p \in Peers |-> IF p \in job[t].heard THEN job[t].polled[p]
                                  ELSE IF p \in alive THEN peerDemand[p]
                                  ELSE {}]
              all == job[t].demand \union UNION {known[p] : p \in Peers}
  <2>1. /\ peerDemand' = known /\ EnsureTracked(t, all, all) /\ UNCHANGED budget
    BY <1>3 DEF PollApply
  <2>2. known \in [Peers -> SUBSET Prefixes] /\ all \in SUBSET Prefixes
    BY <1>2
  <2>3. \A p \in job[t].heard : job[t].polled[p] = known[p]
    BY <1>2
  <2>4. Snapshot(t) \subseteq all
    <3>. HIDE DEF known
    <3>. QED  BY <1>1, <1>2, <2>3 DEF Snapshot
  <2>. HIDE DEF known, all
  <2>. QED  BY <1>1, <1>2, <2>1, <2>2, <2>4, EnsuredBy DEF Calm
<1>4. CASE DiscoveryFails(t)
  <2>. DEFINE all == job[t].demand \union UNION {peerDemand[p] : p \in Peers}
              j == MergeOf(all, all \ Tracked, all)
  <2>1. /\ Miss /\ EnsureTracked(t, all, all) /\ UNCHANGED peerDemand
    BY <1>4 DEF DiscoveryFails, demandVars
  <2>2. all \in SUBSET Prefixes
    BY <1>2
  <2>3. j \in Jobs /\ j.pc = "merge"
    BY <2>2, MergeJob
  <2>4. job' = [job EXCEPT ![t] = j] /\ Stamp(all \intersect Tracked)
    BY <2>1 DEF EnsureTracked, MergeOf
  <2>. HIDE DEF j
  <2>5. /\ job' \in [Callers -> Jobs] /\ job'[t] = j
        /\ \A b \in Callers \ {t} : job'[b] = job[b]
    BY <2>3, <2>4, JobStep DEF KeepInv, Callers
  <2>6. spared' \in [Terms -> SUBSET Prefixes]
    BY <2>2, <2>4, StampFacts DEF KeepInv
  <2>7. /\ budget' \in [fault : 0 .. MaxFaults, change : Int, lost : BOOLEAN]
        /\ ~Calm'
    BY <2>1, MissFacts DEF KeepInv
  <2>. QED
    BY <1>1, <2>1, <2>3, <2>5, <2>6, <2>7 DEF KeepInv, DemandTyped, WantedCovered, Callers
<1>. QED  BY <1>3, <1>4

\* Re-dialling changes no prefixes.
LEMMA RepairKeeps ==
    ASSUME KeepInv, NEW t \in Terms, Repair(t)
    PROVE  DemandTyped' /\ WantedCovered'
<1>1. /\ job[t].pc = "repair" /\ job' = [job EXCEPT ![t].pc = "prune"]
      /\ UNCHANGED <<term, lead, sessions, alive, peerDemand, spared, budget>>
      /\ \A h \in Hosts : \/ subs'[h] = subs[h]
                          \/ Broken(h) /\ subs'[h] = Redialled(subs[h], h)
  BY DEF Repair, leadVars, demandVars
<1>2. job[t] \in Jobs /\ t \in Callers
  BY DEF KeepInv, DemandTyped, Callers
<1>3. PICK j \in Jobs : /\ j = [job[t] EXCEPT !.pc = "prune"] /\ j.pc = "prune"
                        /\ j.demand = job[t].demand
  <2>1. "prune" \in Pcs
    BY DEF Pcs
  <2>2. [job[t] EXCEPT !.pc = "prune"] \in Jobs
    BY <1>2, <2>1, Zenon DEF Jobs
  <2>. QED  BY <1>2, <2>2 DEF Jobs
<1>4. job' = [job EXCEPT ![t] = j]
  BY <1>1, <1>2, <1>3 DEF KeepInv, DemandTyped
<1>5. job'[t] = j
  BY <1>2, <1>4, JobStep DEF KeepInv
<1>6. ASSUME NEW h \in Hosts
      PROVE  \/ subs'[h] = NoSub
             \/ subs[h] # NoSub /\ subs'[h].prefixes \subseteq subs[h].prefixes
  <2>1. CASE subs'[h] = subs[h]
    BY <2>1
  <2>2. CASE Broken(h) /\ subs'[h] = Redialled(subs[h], h)
    <3>1. subs[h] # NoSub /\ subs[h] \in Sub
      BY <2>2 DEF Broken, KeepInv, ConnInv, Typed
    <3>2. [[subs[h] EXCEPT !.id = Fresh(h)] EXCEPT !.dialing = TRUE].prefixes
             = subs[h].prefixes
      BY <3>1 DEF Sub
    <3>. QED  BY <2>2, <3>1, <3>2 DEF Redialled, Fresh
  <2>. QED  BY <1>1, <2>1, <2>2
<1>7. Tracked' \subseteq Tracked
  BY <1>6, TracksLess
<1>8. Ticking(t) /\ Snapshot(t) = Snapshot(t)'
  BY <1>1, <1>3, <1>5 DEF Ticking, Snapshot
<1>9. /\ peerDemand' \in [Peers -> SUBSET Prefixes]
      /\ spared' \in [Terms -> SUBSET Prefixes]
      /\ budget' \in [fault : 0 .. MaxFaults, change : Int, lost : BOOLEAN]
      /\ Calm' => Calm
  BY <1>1 DEF KeepInv, DemandTyped, Calm
<1>. QED  BY <1>1, <1>3, <1>4, <1>7, <1>8, <1>9, KeeperStep

\* A keeper that ends its tick, or its term, tracks nothing new.
LEMMA EndKeeps ==
    ASSUME KeepInv, NEW t \in Terms, Prune(t) \/ KeeperEnds(t)
    PROVE  DemandTyped' /\ WantedCovered'
<1>1. /\ UNCHANGED <<term, lead, sessions, alive, peerDemand, budget>>
      /\ spared' = [spared EXCEPT ![t] = {}] \/ spared' = spared
      /\ \/ job' = [job EXCEPT ![t] = Quiet("wait")]
         \/ job' = [job EXCEPT ![t] = Quiet("off")]
  BY DEF Prune, KeeperEnds, leadVars, demandVars
<1>2. PICK j \in Jobs : job' = [job EXCEPT ![t] = j] /\ j.pc \in {"wait", "off"}
  <2>1. "wait" \in Pcs /\ "off" \in Pcs
    BY DEF Pcs
  <2>2. /\ Quiet("wait") \in Jobs /\ Quiet("wait").pc = "wait"
        /\ Quiet("off") \in Jobs /\ Quiet("off").pc = "off"
    BY <2>1, QuietTyped, Zenon
  <2>. QED  BY <1>1, <2>2
<1>3. ~Ticking(t)'
  BY <1>2, JobStep DEF KeepInv, Ticking, Callers
<1>4. /\ spared' \in [Terms -> SUBSET Prefixes]
      /\ \A u \in Terms : u = t \/ spared[u] \subseteq spared'[u]
  BY <1>1 DEF KeepInv, DemandTyped
<1>5. ASSUME NEW h \in Hosts
      PROVE  \/ subs'[h] = NoSub
             \/ subs[h] # NoSub /\ subs'[h].prefixes \subseteq subs[h].prefixes
  <2>1. CASE KeeperEnds(t)
    BY <2>1 DEF KeeperEnds
  <2>2. CASE Prune(t)
    <3>1. \/ subs'[h] = NoSub
          \/ subs[h] # NoSub /\ subs'[h] = [subs[h] EXCEPT !.prefixes = KeptOf(t, h)]
      BY <2>2 DEF Prune
    <3>2. ASSUME subs[h] # NoSub
          PROVE  [subs[h] EXCEPT !.prefixes = KeptOf(t, h)].prefixes
                    \subseteq subs[h].prefixes
      <4>1. subs[h] \in Sub
        BY <3>2 DEF KeepInv, ConnInv, Typed
      <4>. QED  BY <4>1 DEF Sub, KeptOf
    <3>. QED  BY <3>1, <3>2
  <2>. QED  BY <2>1, <2>2
<1>6. Tracked' \subseteq Tracked
  BY <1>5, TracksLess
<1>7. /\ peerDemand' \in [Peers -> SUBSET Prefixes]
      /\ budget' \in [fault : 0 .. MaxFaults, change : Int, lost : BOOLEAN]
      /\ Calm' => Calm
  BY <1>1 DEF KeepInv, DemandTyped, Calm
<1>. QED  BY <1>1, <1>2, <1>3, <1>4, <1>6, <1>7, KeeperStep

\* What a call asked for is stamped once it has read the map.
LEMMA EnsureRequestKeeps ==
    ASSUME KeepInv, NEW q \in Callers, EnsureRequest(q)
    PROVE  DemandTyped' /\ WantedCovered'
<1>. DEFINE ps == job[q].want
            j == MergeOf(ps, ps \ Tracked, {})
<1>1. /\ job[q].pc = "ensure" /\ job' = [job EXCEPT ![q] = j]
      /\ Stamp(ps \intersect Tracked)
      /\ UNCHANGED <<term, lead, sessions, alive, peerDemand, subs, budget>>
  BY DEF EnsureRequest, EnsureTracked, MergeOf, leadVars, demandVars
<1>2. ps \in SUBSET Prefixes
  BY DEF KeepInv, DemandTyped, Jobs
<1>3. j \in Jobs /\ j.pc = "merge" /\ j.demand = {}
  <2>. HIDE DEF ps
  <2>1. {} \in SUBSET Prefixes /\ ps \ Tracked \in SUBSET Prefixes
    BY <1>2
  <2>. QED  BY <1>2, <2>1, MergeJob
<1>. HIDE DEF j
<1>4. /\ job' \in [Callers -> Jobs] /\ job'[q] = j
      /\ \A b \in Callers \ {q} : job'[b] = job[b]
  BY <1>1, <1>3, JobStep DEF KeepInv
<1>5. /\ spared' \in [Terms -> SUBSET Prefixes]
      /\ \A t \in Terms : Ticking(t) =>
            spared'[t] = spared[t] \union (ps \intersect Tracked)
  <2>. HIDE DEF ps
  <2>. QED  BY <1>1, <1>2, StampFacts DEF KeepInv
<1>6. DemandTyped'
  BY <1>1, <1>3, <1>4, <1>5 DEF KeepInv, DemandTyped, Callers
<1>7. /\ Wanted' = Wanted /\ Tracked' = Tracked /\ Calm' = Calm
      /\ \A t : Live(t)' = Live(t)
  BY <1>1 DEF Wanted, Tracked, Calm, Live
<1>8. ASSUME Calm, NEW t \in Terms, Live(t), Ticking(t)', NEW p \in Wanted
      PROVE  Covered(t, p)'
  <2>1. Ticking(t) /\ Snapshot(t) \subseteq Snapshot(t)'
    <3>1. CASE t # q
      <4>1. job'[t] = job[t]
        BY <1>4, <3>1 DEF Callers
      <4>. QED  BY <1>8, <4>1 DEF Ticking, Snapshot
    <3>2. CASE t = q
      BY <1>1, <3>2 DEF KeepInv, DemandTyped
    <3>. QED  BY <3>1, <3>2
  <2>2. Covered(t, p)
    BY <1>8, <2>1 DEF KeepInv, WantedCovered, AllCovered
  <2>3. ASSUME Asked(p), ~Asked(p)' PROVE p \in ps
    <3>1. PICK r \in Requests : job[r].pc = "ensure" /\ p \in job[r].want
      BY <2>3 DEF Asked
    <3>2. r = q
      BY <1>4, <2>3, <3>1 DEF Asked, Callers
    <3>. QED  BY <3>1, <3>2
  <2>. QED  BY <1>5, <1>7, <2>1, <2>2, <2>3 DEF Covered
<1>. QED  BY <1>6, <1>7, <1>8 DEF WantedCovered, AllCovered

\* An entry that a merge leaves tracks what it tracked, and the new prefixes.
LEMMA MergedTracks ==
    ASSUME Typed, NEW h \in Hosts, NEW ps \in SUBSET Remote, Merged(h, ps) # NoSub
    PROVE  \/ Merged(h, ps).prefixes = ps
           \/ subs[h] # NoSub /\ Merged(h, ps).prefixes \subseteq subs[h].prefixes \union ps
<1>1. CASE ps = {}
  BY <1>1 DEF Merged
<1>2. CASE ps # {} /\ subs[h] = NoSub
  BY <1>2 DEF Merged
<1>3. CASE ps # {} /\ subs[h] # NoSub
  <2>1. subs[h] \in Sub
    BY <1>3 DEF Typed
  <2>2. PICK more \in Sub : /\ more = [subs[h] EXCEPT !.prefixes = @ \union ps]
                            /\ more.prefixes = subs[h].prefixes \union ps
    <3>1. subs[h].prefixes \union ps \in SUBSET Remote
      BY <2>1 DEF Sub
    <3>2. [subs[h] EXCEPT !.prefixes = subs[h].prefixes \union ps] \in Sub
      BY <2>1, <3>1, Zenon DEF Sub
    <3>. QED  BY <2>1, <3>2 DEF Sub
  <2>3. [[more EXCEPT !.id = Fresh(h)] EXCEPT !.dialing = TRUE].prefixes = more.prefixes
    BY DEF Sub
  <2>4. Merged(h, ps) = more \/ Merged(h, ps) = Redialled(more, h)
    BY <1>3, <2>2 DEF Merged
  <2>. QED  BY <1>3, <2>2, <2>3, <2>4 DEF Redialled, Fresh
<1>. QED  BY <1>1, <1>2, <1>3

\* What a merge adds to the map is stamped for every tick under way.
LEMMA EnsureMergeKeeps ==
    ASSUME KeepInv, NEW c \in Callers, EnsureMerge(c)
    PROVE  DemandTyped' /\ WantedCovered'
<1>1. PICK failed \in SUBSET job[c].new :
        /\ job[c].pc = "merge"
        /\ IF failed = {} THEN UNCHANGED budget ELSE Spend
        /\ job' = [job EXCEPT ![c] = AfterEnsure(c)]
        /\ UNCHANGED <<term, lead, sessions, alive, peerDemand>>
        /\ \/ UNCHANGED <<subs, spared>>
           \/ LET ps(h) == {p \in (job[c].new \ failed) \intersect Remote :
                                HostOf[p] = h}
              IN  /\ Stamp(UNION {ps(h) : h \in Hosts})
                  /\ subs' = [h \in Hosts |-> Merged(h, ps(h))]
  BY DEF EnsureMerge, leadVars, demandVars
<1>. DEFINE ps(h) == {p \in (job[c].new \ failed) \intersect Remote : HostOf[p] = h}
            added == UNION {ps(h) : h \in Hosts}
<1>2. added \in SUBSET Prefixes /\ \A h \in Hosts : ps(h) \in SUBSET Remote
  BY DEF Remote
<1>3. /\ spared' \in [Terms -> SUBSET Prefixes]
      /\ \A t \in Terms : Ticking(t) => spared[t] \subseteq spared'[t]
      /\ \A p \in Tracked' : p \in Tracked
            \/ \A t \in Terms : Ticking(t) => p \in spared'[t]
  <2>1. CASE UNCHANGED <<subs, spared>>
    BY <2>1 DEF KeepInv, DemandTyped, Tracked
  <2>2. CASE Stamp(added) /\ subs' = [h \in Hosts |-> Merged(h, ps(h))]
    <3>1. /\ spared' \in [Terms -> SUBSET Prefixes]
          /\ \A t \in Terms : Ticking(t) => spared'[t] = spared[t] \union added
      <4>. HIDE DEF added
      <4>. QED  BY <1>2, <2>2, StampFacts DEF KeepInv
    <3>2. ASSUME NEW p \in Tracked' PROVE p \in Tracked \/ p \in added
      <4>1. PICK h \in Hosts : subs'[h] # NoSub /\ p \in subs'[h].prefixes
        BY DEF Tracked
      <4>2. PICK qs \in SUBSET Remote : qs = ps(h) /\ qs \subseteq added
        <5>1. ps(h) \in SUBSET Remote
          BY <1>2
        <5>2. ps(h) \subseteq added
          OBVIOUS
        <5>. HIDE DEF ps, added
        <5>. QED  BY <5>1, <5>2
      <4>3. Merged(h, qs) # NoSub /\ p \in Merged(h, qs).prefixes
        BY <2>2, <4>1, <4>2
      <4>. HIDE DEF ps, added
      <4>4. p \in qs \/ (subs[h] # NoSub /\ p \in subs[h].prefixes)
        BY <4>3, MergedTracks DEF KeepInv, ConnInv
      <4>. QED  BY <4>2, <4>4 DEF Tracked
    <3>. HIDE DEF added
    <3>. QED  BY <3>1, <3>2
  <2>. QED  BY <1>1, <2>1, <2>2
<1>. HIDE DEF ps, added
<1>4. job[c] \in Jobs /\ job[c].demand \in SUBSET Prefixes
  BY DEF KeepInv, DemandTyped, Jobs
<1>5. PICK j \in Jobs :
        /\ j = AfterEnsure(c) /\ j.pc # "ensure"
        /\ c \in Terms => j.pc = "repair" /\ j.demand = job[c].demand
  <2>1. CASE c \in Requests
    <3>1. Quiet("idle") \in Jobs /\ Quiet("idle").pc = "idle"
      <4>1. "idle" \in Pcs
        BY DEF Pcs
      <4>. QED  BY <4>1, QuietTyped, Zenon
    <3>. QED  BY <2>1, <3>1, SubscriberAssumption DEF AfterEnsure
  <2>2. CASE c \notin Requests
    <3>1. PICK k \in Jobs : k = Quiet("repair") /\ k.pc = "repair"
      <4>1. "repair" \in Pcs
        BY DEF Pcs
      <4>2. Quiet("repair") \in Jobs /\ Quiet("repair").pc = "repair"
        BY <4>1, QuietTyped, Zenon
      <4>. QED  BY <4>2
    <3>2. [k EXCEPT !.demand = job[c].demand] \in Jobs
      BY <1>4, Zenon DEF Jobs
    <3>3. /\ [k EXCEPT !.demand = job[c].demand].pc = "repair"
          /\ [k EXCEPT !.demand = job[c].demand].demand = job[c].demand
      BY <3>1 DEF Jobs
    <3>. QED  BY <2>2, <3>1, <3>2, <3>3 DEF AfterEnsure
  <2>. QED  BY <2>1, <2>2
<1>6. /\ job' \in [Callers -> Jobs] /\ job'[c] = j
      /\ \A b \in Callers \ {c} : job'[b] = job[b]
  BY <1>1, <1>5, JobStep DEF KeepInv
<1>7. /\ budget' \in [fault : 0 .. MaxFaults, change : Int, lost : BOOLEAN]
      /\ Calm' => Calm
  BY <1>1, SpendFacts DEF KeepInv, DemandTyped, Calm
<1>8. DemandTyped'
  BY <1>1, <1>3, <1>5, <1>6, <1>7 DEF KeepInv, DemandTyped, Callers
<1>9. /\ Wanted' = Wanted /\ \A t : Live(t)' = Live(t)
      /\ \A p : Asked(p) => Asked(p)'
  BY <1>1, <1>6 DEF Wanted, Live, Asked, Callers
<1>10. ASSUME Calm, NEW t \in Terms, Live(t), Ticking(t)', NEW p \in Wanted
       PROVE  Covered(t, p)'
  <2>1. Ticking(t) /\ Snapshot(t) \subseteq Snapshot(t)'
    <3>1. CASE t # c
      <4>1. job'[t] = job[t]
        BY <1>6, <3>1 DEF Callers
      <4>. QED  BY <1>10, <4>1 DEF Ticking, Snapshot
    <3>2. CASE t = c
      BY <1>1, <1>5, <1>6, <3>2 DEF Ticking, Snapshot
    <3>. QED  BY <3>1, <3>2
  <2>2. Covered(t, p)
    BY <1>10, <2>1 DEF KeepInv, WantedCovered, AllCovered
  <2>. QED  BY <1>3, <1>9, <2>1, <2>2 DEF Covered
<1>. QED  BY <1>7, <1>8, <1>9, <1>10 DEF WantedCovered, AllCovered

\* Demand is recorded and asked for in one go, unless the request is lost.
LEMMA SessionKeeps ==
    ASSUME KeepInv, NEW r \in Users, NEW ps \in SUBSET Prefixes, Session(r, ps)
    PROVE  DemandTyped' /\ WantedCovered'
<1>1. /\ UNCHANGED <<term, lead, alive, peerDemand, subs, spared>>
      /\ r \in alive \union {Me} /\ sessions' = [sessions EXCEPT ![r] = ps]
      /\ budget' \in [fault : 0 .. MaxFaults, change : Int, lost : BOOLEAN]
      /\ Calm' => Calm
  <2>1. /\ UNCHANGED <<term, lead, alive, peerDemand, subs, spared>>
        /\ r \in alive \union {Me} /\ sessions' = [sessions EXCEPT ![r] = ps]
        /\ \/ budget' = [budget EXCEPT !.change = @ - 1]
           \/ budget' = [budget EXCEPT !.change = @ - 1, !.lost = @ \/ Leading]
    BY DEF Session, leadVars
  <2>2. /\ budget \in [fault : 0 .. MaxFaults, change : Int, lost : BOOLEAN]
        /\ (budget.lost \/ Leading) \in BOOLEAN
    BY DEF KeepInv, DemandTyped
  <2>3. ASSUME NEW lost \in BOOLEAN, budget.lost => lost,
               \/ budget' = [budget EXCEPT !.change = @ - 1]
               \/ budget' = [budget EXCEPT !.change = @ - 1, !.lost = lost]
        PROVE  /\ budget' \in [fault : 0 .. MaxFaults, change : Int, lost : BOOLEAN]
               /\ budget'.fault = budget.fault /\ (budget.lost => budget'.lost)
    <3>1. CASE budget' = [budget EXCEPT !.change = @ - 1]
      BY <2>2, <3>1
    <3>2. CASE budget' = [[budget EXCEPT !.change = @ - 1] EXCEPT !.lost = lost]
      <4>1. PICK b \in [fault : 0 .. MaxFaults, change : Int, lost : BOOLEAN] :
              b = [budget EXCEPT !.change = @ - 1] /\ b.fault = budget.fault
        <5>1. /\ [budget EXCEPT !.change = @ - 1] \in
                    [fault : 0 .. MaxFaults, change : Int, lost : BOOLEAN]
              /\ [budget EXCEPT !.change = @ - 1].fault = budget.fault
          BY <2>2
        <5>. QED  BY <5>1, Zenon
      <4>2. budget' = [b EXCEPT !.lost = lost]
        BY <3>2, <4>1
      <4>3. budget' \in [fault : 0 .. MaxFaults, change : Int, lost : BOOLEAN]
        BY <4>2, Zenon
      <4>4. budget'.fault = b.fault /\ budget'.lost = lost
        BY <4>2
      <4>. QED  BY <2>3, <4>1, <4>3, <4>4
    <3>. QED  BY <2>3, <3>1, <3>2, Zenon
  <2>4. /\ budget' \in [fault : 0 .. MaxFaults, change : Int, lost : BOOLEAN]
        /\ budget'.fault = budget.fault /\ (budget.lost => budget'.lost)
    BY <2>1, <2>2, <2>3, Zenon
  <2>. QED  BY <2>1, <2>4 DEF Calm
<1>2. /\ r \in Replicas /\ sessions' \in [Replicas -> SUBSET Prefixes]
      /\ Wanted' \subseteq Wanted \union ps
  BY <1>1 DEF KeepInv, DemandTyped, Replicas, Wanted
<1>3. CASE UNCHANGED job
  <2>1. DemandTyped'
    BY <1>1, <1>2, <1>3 DEF KeepInv, DemandTyped
  <2>2. /\ \A t \in Terms : Live(t)' = Live(t) /\ Ticking(t)' = Ticking(t)
        /\ \A t \in Terms : Snapshot(t)' = Snapshot(t)
        /\ Tracked' = Tracked /\ \A p : Asked(p)' = Asked(p)
    BY <1>1, <1>3 DEF Live, Ticking, Snapshot, Tracked, Asked
  <2>3. CASE ps = {} \/ ~Leading
    <3>1. ASSUME ~Leading PROVE \A t \in Terms : ~Live(t)
      <4>1. PICK n : Terms = 1 .. n
        BY SubscriberAssumption
      <4>. QED  BY <3>1, <4>1 DEF Leading, Live
    <3>. QED  BY <1>1, <1>2, <2>1, <2>2, <2>3, <3>1
              DEF KeepInv, WantedCovered, AllCovered, Covered
  <2>4. CASE ps # {} /\ Leading
    <3>1. ASSUME ManagerEnsure(r, ps) PROVE FALSE
      <4>1. PICK q \in Requests : /\ job[q].pc = "idle"
               /\ job' = [job EXCEPT ![q] = [Quiet("ensure") EXCEPT !.want = ps]]
        BY <2>4, <3>1 DEF ManagerEnsure, HandleEnsure, BeginEnsure
      <4>2. "ensure" \in Pcs
        BY DEF Pcs
      <4>3. PICK k \in Jobs : k = Quiet("ensure") /\ k.pc = "ensure"
        <5>1. Quiet("ensure") \in Jobs /\ Quiet("ensure").pc = "ensure"
          BY <4>2, QuietTyped, Zenon
        <5>. QED  BY <5>1
      <4>4. [k EXCEPT !.want = ps].pc = "ensure" /\ job[q].pc = "ensure"
        BY <1>3, <4>1, <4>3 DEF Jobs, KeepInv, DemandTyped, Callers
      <4>. QED  BY <4>1, <4>4
    <3>2. budget'.lost
      BY <2>4, <3>1 DEF Session, KeepInv, DemandTyped
    <3>. QED  BY <2>1, <3>2 DEF WantedCovered, Calm
  <2>. QED  BY <2>3, <2>4
<1>4. CASE ~UNCHANGED job
  <2>1. PICK q \in Requests :
          /\ job[q].pc = "idle"
          /\ job' = [job EXCEPT ![q] = [Quiet("ensure") EXCEPT !.want = ps]]
    BY <1>4 DEF Session, ManagerEnsure, HandleEnsure, BeginEnsure, ForwardLost
  <2>2. PICK k \in Jobs : k = Quiet("ensure") /\ k.pc = "ensure"
    <3>1. "ensure" \in Pcs
      BY DEF Pcs
    <3>2. Quiet("ensure") \in Jobs /\ Quiet("ensure").pc = "ensure"
      BY <3>1, QuietTyped, Zenon
    <3>. QED  BY <3>2
  <2>3. PICK j \in Jobs : j = [k EXCEPT !.want = ps] /\ j.pc = "ensure" /\ j.want = ps
    <3>1. [k EXCEPT !.want = ps] \in Jobs
      BY Zenon DEF Jobs
    <3>. QED  BY <2>2, <3>1 DEF Jobs
  <2>4. /\ job' \in [Callers -> Jobs] /\ job'[q] = j
        /\ \A b \in Callers \ {q} : job'[b] = job[b]
    BY <2>1, <2>2, <2>3, JobStep DEF KeepInv, Callers
  <2>5. \A t \in Terms : job'[t] = job[t]
    BY <2>4, SubscriberAssumption DEF Callers
  <2>6. DemandTyped'
    BY <1>1, <1>2, <2>4, <2>5 DEF KeepInv, DemandTyped
  <2>7. /\ \A t \in Terms : Live(t)' = Live(t) /\ Ticking(t)' = Ticking(t)
        /\ \A t \in Terms : Snapshot(t)' = Snapshot(t)
        /\ Tracked' = Tracked
    <3>1. ASSUME NEW t \in Terms
          PROVE  Ticking(t)' = Ticking(t) /\ Snapshot(t)' = Snapshot(t)
      <4>1. job'[t] = job[t]
        BY <2>5
      <4>. QED  BY <4>1 DEF Ticking, Snapshot
    <3>2. Tracked' = Tracked /\ \A t \in Terms : Live(t)' = Live(t)
      BY <1>1 DEF Tracked, Live
    <3>. QED  BY <3>1, <3>2
  <2>8. /\ \A p \in ps : Asked(p)'
        /\ \A p : Asked(p) => Asked(p)'
    <3>1. \A p \in ps : Asked(p)'
      BY <2>3, <2>4 DEF Asked
    <3>2. ASSUME NEW p, Asked(p) PROVE Asked(p)'
      <4>1. PICK s \in Requests : job[s].pc = "ensure" /\ p \in job[s].want
        BY <3>2 DEF Asked
      <4>2. job'[s] = job[s]
        BY <2>1, <2>4, <4>1 DEF Callers
      <4>. QED  BY <4>1, <4>2 DEF Asked
    <3>. QED  BY <3>1, <3>2
  <2>. QED  BY <1>1, <1>2, <2>6, <2>7, <2>8
            DEF KeepInv, WantedCovered, AllCovered, Covered
<1>. QED  BY <1>3, <1>4

\* At the start no keeper is in its tick.
LEMMA KeepInit == Init => KeepInv
<1>. SUFFICES ASSUME Init PROVE KeepInv
  OBVIOUS
<1>1. \A pc \in Pcs : Quiet(pc) \in Jobs /\ Quiet(pc).pc = pc
  BY QuietTyped
<1>2. "off" \in Pcs /\ "idle" \in Pcs
  BY DEF Pcs
<1>3. /\ job = [c \in Callers |-> Quiet(IF c \in Terms THEN "off" ELSE "idle")]
      /\ job \in [Callers -> Jobs] /\ \A t \in Terms : job[t].pc = "off"
  <2>1. /\ Quiet("off") \in Jobs /\ Quiet("off").pc = "off" /\ Quiet("idle") \in Jobs
    BY <1>1, <1>2, Zenon
  <2>. QED  BY <2>1 DEF Init, Callers
<1>4. DemandTyped
  <2>1. budget \in [fault : 0 .. MaxFaults, change : Int, lost : BOOLEAN]
    BY SubscriberAssumption DEF Init
  <2>. QED  BY <1>3, <2>1 DEF Init, DemandTyped
<1>5. WantedCovered
  BY <1>3 DEF WantedCovered, AllCovered, Ticking
<1>. QED  BY <1>4, <1>5, InitInv DEF KeepInv

\* The elector's part, and a peer that stops.
LEMMA OthersKeep ==
    ASSUME KeepInv, Start \/ Demote \/ (\E p \in Peers : PeerStops(p)) \/ UNCHANGED vars
    PROVE  DemandTyped' /\ WantedCovered'
<1>1. CASE Start
  <2>1. /\ term + 1 \in Terms /\ term' = term + 1 /\ lead' = TRUE
        /\ job' = [job EXCEPT ![term + 1].pc = "wait"]
        /\ UNCHANGED <<sessions, alive, peerDemand, spared, budget>>
    BY <1>1 DEF Start, demandVars
  <2>2. PICK t \in Terms : t = term + 1 /\ t \in Callers /\ job[t] \in Jobs
    BY <2>1 DEF KeepInv, DemandTyped, Callers
  <2>3. PICK j \in Jobs : j = [job[t] EXCEPT !.pc = "wait"] /\ j.pc = "wait"
    <3>1. "wait" \in Pcs
      BY DEF Pcs
    <3>2. [job[t] EXCEPT !.pc = "wait"] \in Jobs
      BY <2>2, <3>1, Zenon DEF Jobs
    <3>. QED  BY <2>2, <3>2 DEF Jobs
  <2>4. job' = [job EXCEPT ![t] = j]
    BY <2>1, <2>2, <2>3
  <2>5. /\ job' \in [Callers -> Jobs] /\ job'[t] = j
        /\ \A b \in Callers \ {t} : job'[b] = job[b]
    BY <2>2, <2>4, JobStep DEF KeepInv
  <2>6. DemandTyped'
    BY <2>1, <2>3, <2>5 DEF KeepInv, DemandTyped, Callers
  <2>7. \A u \in Terms : Live(u)' => ~Ticking(u)'
    BY <2>1, <2>2, <2>3, <2>5 DEF Live, Ticking
  <2>. QED  BY <2>6, <2>7 DEF WantedCovered, AllCovered
<1>2. CASE Demote
  <2>1. DemandTyped' /\ \A t \in Terms : ~Live(t)'
    BY <1>2 DEF Demote, demandVars, KeepInv, DemandTyped, Live
  <2>. QED  BY <2>1 DEF WantedCovered, AllCovered
<1>3. ASSUME NEW p \in Peers, PeerStops(p) PROVE DemandTyped' /\ WantedCovered'
  <2>1. /\ budget' \in [fault : 0 .. MaxFaults, change : Int, lost : BOOLEAN]
        /\ Calm' => Calm
    BY <1>3, SpendFacts DEF PeerStops, KeepInv, Calm
  <2>2. /\ UNCHANGED <<term, lead, subs, peerDemand, job, spared>>
        /\ alive' = alive \ {p} /\ sessions' = [sessions EXCEPT ![p] = {}]
    BY <1>3 DEF PeerStops, leadVars
  <2>3. DemandTyped'
    BY <2>1, <2>2 DEF KeepInv, DemandTyped, Replicas
  <2>4. Wanted' \subseteq Wanted /\ Tracked' = Tracked
    BY <2>2, SubscriberAssumption DEF KeepInv, DemandTyped, Replicas, Wanted, Tracked
  <2>5. /\ \A q : Asked(q)' = Asked(q)
        /\ \A t \in Terms : Snapshot(t)' = Snapshot(t)
        /\ \A t \in Terms : Live(t)' = Live(t) /\ Ticking(t)' = Ticking(t)
    BY <2>2 DEF Asked, Snapshot, Live, Ticking
  <2>6. WantedCovered'
    BY <2>1, <2>2, <2>4, <2>5 DEF KeepInv, WantedCovered, AllCovered, Covered
  <2>. QED  BY <2>3, <2>6
<1>4. CASE UNCHANGED vars
  <2>1. Tracked' = Tracked
    BY <1>4 DEF vars, Tracked
  <2>2. budget \in [fault : 0 .. MaxFaults, change : Int, lost : BOOLEAN]
    BY DEF KeepInv, DemandTyped
  <2>. QED  BY <1>4, <2>1, <2>2, QuietStep DEF vars, KeepInv
<1>. QED  BY <1>1, <1>2, <1>3, <1>4

\* KeepInv is inductive: one lemma per step above.
LEMMA KeepNext == KeepInv /\ [Next]_vars => KeepInv'
<1>. SUFFICES ASSUME KeepInv, [Next]_vars PROVE KeepInv'
  OBVIOUS
<1>1. ConnInv'
  BY NextInv DEF KeepInv
<1>2. DemandTyped' /\ WantedCovered'
  <2>1. ASSUME NEW t \in Terms, Keeper(t) PROVE DemandTyped' /\ WantedCovered'
    BY <2>1, KeeperTickKeeps, ApplyKeeps, RepairKeeps, EndKeeps DEF Keeper
  <2>2. ASSUME NEW c \in Callers, Ensure(c) PROVE DemandTyped' /\ WantedCovered'
    BY <2>2, EnsureRequestKeeps, EnsureMergeKeeps DEF Ensure
  <2>. QED  BY <2>1, <2>2, SessionKeeps, WriteKeeps, NetworkKeeps, OthersKeep DEF Next
<1>. QED  BY <1>1, <1>2 DEF KeepInv

\* The only step that ends a live keeper's tick is its own prune.
LEMMA OnlyPrune ==
    ASSUME KeepInv, [Next]_vars, NEW t \in Terms, Live(t),
           job[t].pc = "prune", job'[t].pc = "wait"
    PROVE  Prune(t)
<1>1. t \in Callers /\ job \in [Callers -> Jobs] /\ job'[t] # job[t]
  BY DEF KeepInv, DemandTyped, Callers
<1>2. ASSUME Start PROVE FALSE
  <2>1. term + 1 # t
    BY SubscriberAssumption, <1>2 DEF Live, Start
  <2>. QED  BY <1>1, <1>2, <2>1 DEF Start
<1>3. ASSUME NEW r \in Users, NEW ps \in SUBSET Prefixes, Session(r, ps) PROVE FALSE
  <2>1. PICK q \in Requests : \E j : job' = [job EXCEPT ![q] = j]
    BY <1>1, <1>3 DEF Session, ManagerEnsure, HandleEnsure, BeginEnsure, ForwardLost
  <2>. QED  BY <1>1, <2>1, SubscriberAssumption
<1>4. ASSUME NEW u \in Terms, Keeper(u) PROVE Prune(t)
  <2>1. u = t
    <3>1. \/ \E j : job' = [job EXCEPT ![u] = j]
          \/ job' = [job EXCEPT ![u].pc = "prune"]
      BY <1>4 DEF Keeper, KeeperTick, PollApply, DiscoveryFails, EnsureTracked, Repair,
                  Prune, KeeperEnds
    <3>. QED  BY <1>1, <3>1
  <2>. QED
    BY <1>4, <2>1 DEF Keeper, KeeperTick, PollApply, DiscoveryFails, Repair, KeeperEnds
<1>5. ASSUME NEW c \in Callers, Ensure(c) PROVE FALSE
  <2>1. /\ job[c].pc \in {"ensure", "merge"}
        /\ \E j : job' = [job EXCEPT ![c] = j]
    BY <1>5 DEF Ensure, EnsureRequest, EnsureTracked, EnsureMerge
  <2>. QED  BY <1>1, <2>1
<1>6. ASSUME \/ Demote \/ (\E p \in Peers : PeerStops(p)) \/ UNCHANGED vars
             \/ (\E w \in out : WriteListen(w)) \/ (\E x \in Conns : Network(x))
      PROVE  FALSE
  BY <1>1, <1>6 DEF Demote, PeerStops, vars, WriteListen, Network, DialFails, DialDone,
                    ConnBreaks, ContextDone, ConnCleanup
<1>. QED  BY <1>2, <1>3, <1>4, <1>5, <1>6 DEF Next

\* deleteExcessSubscriptions and ensuredAt: for any hosts, prefixes, replicas,
\* calls and changes of demand, a tick never tears down what is wanted, though
\* its snapshot may be older than the demand.
THEOREM WantedStays == Spec => EnsuredStays
<1>. DEFINE Stays ==
      \A t \in Terms, p \in Tracked :
        /\ ~budget.lost /\ Live(t)
        /\ job[t].pc = "prune" /\ job'[t].pc = "wait"
        /\ p \in Wanted
        /\ ~\E q \in Requests : job[q].pc = "ensure" /\ p \in job[q].want
        => p \in Tracked'
<1>1. ASSUME KeepInv, [Next]_vars PROVE [Stays]_vars
  <2>. SUFFICES ASSUME NEW t \in Terms, NEW p \in Tracked,
                       Calm, Live(t), job[t].pc = "prune", job'[t].pc = "wait",
                       p \in Wanted, ~Asked(p)
                PROVE  p \in Tracked'
    BY DEF Calm, Asked
  <2>1. Prune(t)
    BY <1>1, OnlyPrune
  <2>2. Ticking(t) /\ Snapshot(t) = job[t].demand
    BY DEF Ticking, Snapshot
  <2>3. p \in job[t].demand \union spared[t]
    BY <1>1, <2>2 DEF KeepInv, WantedCovered, AllCovered, Covered
  <2>4. PICK h \in Hosts : subs[h] # NoSub /\ p \in subs[h].prefixes
    BY DEF Tracked
  <2>5. subs[h] \in Sub /\ p \in KeptOf(t, h) /\ KeptOf(t, h) \in SUBSET Remote
    BY <1>1, <2>3, <2>4, SubTyped DEF KeptOf, KeepInv, ConnInv
  <2>6. subs'[h] = [subs[h] EXCEPT !.prefixes = KeptOf(t, h)]
    BY <2>1, <2>4, <2>5 DEF Prune
  <2>7. subs'[h] \in Sub /\ subs'[h].prefixes = KeptOf(t, h)
    <3>1. [subs[h] EXCEPT !.prefixes = KeptOf(t, h)] \in Sub
      BY <2>5, RestrictedFacts
    <3>. QED  BY <2>5, <2>6, <3>1 DEF Sub
  <2>. QED  BY <2>5, <2>7, NoSubAssumption DEF Tracked
<1>2. Spec => []KeepInv
  BY KeepInit, KeepNext, PTL DEF Spec
<1>3. KeepInv /\ [Next]_vars => [Stays]_vars
  BY <1>1
<1>. QED  BY <1>2, <1>3, PTL DEF Spec, EnsuredStays
=============================================================================
