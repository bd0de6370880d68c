----------------------------- MODULE MCServices -----------------------------
(* Instances of the components that have no state in common, one per          *)
(* behaviour: its first state chooses the component (which), and the others   *)
(* stay as they are.                                                          *)
EXTENDS Integers, Sequences, FiniteSets, Residence, AckRepair, RecordCache,
        ProofChain, PolicyEngine, MCTransfer, Elector, ChunklineQuery

VARIABLE which

mcVars == <<which, vars, repairVars, cacheVars, chainVars, policyVars,
            transferVars, electorVars, queryVars>>

-----------------------------------------------------------------------------
\* Honest documents of A and B, and forgeries that borrow the other's subkey,
\* signature or target.
SignedDoc(author, kind, schema, date, value, uris, type, signer, link) ==
    [author |-> author, kind |-> kind, schema |-> schema, at |-> date,
     value |-> value, uris |-> uris,
     proof |-> [type |-> type, signer |-> signer, link |-> link]]

SignedDocs ==
    <<SignedDoc("A", "record", "subkey", 1, "ka", {"A/k"}, "ecrecover", "A", 0),
      SignedDoc("A", "record", "revoked", 3, 1, {"A/k"}, "ecrecover", "A", 0),
      SignedDoc("B", "record", "subkey", 1, "kb", {"B/k"}, "ecrecover", "B", 0),
      SignedDoc("A", "record", "subkey", 1, "kb", {"A/k"}, "subkey", "kb", "B/k"),
      SignedDoc("A", "ack", "post", 2, "x", {"A/p"}, "subkey", "ka", "A/k"),
      SignedDoc("A", "ack", "post", 4, "x", {"A/p"}, "subkey", "kb", "B/k"),
      SignedDoc("A", "acked", "post", 2, "x", {}, "direct", "", 5),
      SignedDoc("A", "record", "reference", 5, "A/p", {"A/r"}, "reference", "", "A/p"),
      SignedDoc("A", "record", "post", 4, "y", {"A/p"}, "ecrecover", "B", 0),
      SignedDoc("B", "record", "reference", 5, "A/p", {"B/r"}, "reference", "", "A/p"),
      SignedDoc("B", "record", "revoked", 3, 1, {"B/k"}, "ecrecover", "B", 0),
      SignedDoc("A", "record", "reference", 5, "A/r", {"A/r"}, "reference", "", "A/r"),
      SignedDoc("A", "record", "post", 5, "y", {"A/p"}, "none", "", 0)>>

SubkeyOwner == [u \in SubkeyURIs |-> IF u = "A/k" THEN "A" ELSE "B"]

\* Policies that agree, conflict, or cannot be evaluated.
PolicyRequests ==
    [action : {"record:create", "record:read", "record:delete",
               "association:delete", "association:read"},
     requester : {"A"}, domain : {"here", "there"},
     owner : {"A", "B", "here", ""}, author : {"A", "B"}]

Says(action, key, emit, value) ==
    Statement(action, key, emit, Const(value))

Lenient ==
    [statements |-> <<Says("record:create", "*", "ok", "true"),
                      Says("record:read", ".", "ng", "true"),
                      Says("record:delete", "*", "allow", "error")>>,
     default |-> "unset"]
Divided ==
    [statements |-> <<Says("record:create", "*", "allow", "true"),
                      Says("record:create", "./*", "deny", "true"),
                      Says("record:read", "*", "deny", "true"),
                      Says("record:delete", "*", "ok", "error")>>,
     default |-> "ng"]
Strict ==
    [statements |-> <<Says("record:create", "*", "deny", "true"),
                      Says("record:read", "*", "allow", "true"),
                      Says("record:delete", "*", "ng", "true")>>,
     default |-> "ok"]

PolicyStatements ==
    UNION {{p.statements[i] : i \in DOMAIN p.statements} :
               p \in {Lenient, Divided, Strict}}

PolicyEntries ==
    [policy : {Lenient, Divided, Strict}, default : {"unset"}]
    \union {[policy |-> Lenient, default |-> "deny"],
            [policy |-> Divided, default |-> "ok"]}

Layer(es, virtual, own) == [entries |-> es, virtual |-> virtual, own |-> own]

PolicyStacks ==
    {<<>>}
    \union {<<Layer(<<x>>, <<>>, FALSE), Layer(<<y>>, <<>>, TRUE)>> :
                x, y \in PolicyEntries}
    \union {<<Layer(<<x, y>>, <<>>, FALSE)>> : x, y \in PolicyEntries}
    \union {<<Layer(<<x>>, <<<<y>>, <<>>>>, TRUE)>> : x, y \in PolicyEntries}

-----------------------------------------------------------------------------
\* What the origins of the timelines may advertise as removed.
QueryRemovals == {{}, {"x"}}

\* While another component runs: an acks table with nothing to repair, a
\* resolver without an answer, a request without policies, timelines without an
\* item.
NoRepair ==
    /\ local = [a \in Acks |-> [from |-> TRUE, to |-> TRUE]] /\ sameId = {}
    /\ ackLog = Acks /\ mirror = {}
    /\ RepairInit
NoChain == resolved = [u \in SubkeyURIs |-> NoDoc] /\ ChainInit
NoPolicy ==
    request = (CHOOSE r \in Requests : TRUE) /\ stack = <<>> /\ PolicyInit
NoQuery ==
    /\ store = [tl \in Timelines |-> [t \in Instants |-> NoItem]]
    /\ removed = [tl \in Timelines |-> {}]
    /\ until = Min(Untils) /\ limit = Min(Limits)
    /\ QueryInit

MCInit ==
    /\ which \in {"users", "repair", "cache", "proofs", "policies", "transfer",
                  "elector", "query"}
    /\ Init /\ CacheInit /\ TransferInit /\ ElectorInit
    /\ IF which = "repair" THEN RepairInit ELSE NoRepair
    /\ IF which = "proofs" THEN ChainInit ELSE NoChain
    /\ IF which = "policies" THEN PolicyInit ELSE NoPolicy
    /\ IF which = "query" THEN QueryInit ELSE NoQuery

UsersStep ==
    /\ which = "users" /\ Next
    /\ UNCHANGED <<which, repairVars, cacheVars, chainVars, policyVars,
                   transferVars, electorVars, queryVars>>
RepairStep ==
    /\ which = "repair" /\ RepairNext
    /\ UNCHANGED <<which, vars, cacheVars, chainVars, policyVars, transferVars,
                   electorVars, queryVars>>
CacheStep ==
    /\ which = "cache" /\ CacheNext
    /\ UNCHANGED <<which, vars, repairVars, chainVars, policyVars, transferVars,
                   electorVars, queryVars>>
ProofsStep ==
    /\ which = "proofs" /\ ChainNext
    /\ UNCHANGED <<which, vars, repairVars, cacheVars, policyVars, transferVars,
                   electorVars, queryVars>>
PoliciesStep ==
    /\ which = "policies" /\ PolicyNext
    /\ UNCHANGED <<which, vars, repairVars, cacheVars, chainVars, transferVars,
                   electorVars, queryVars>>
TransferStep ==
    /\ which = "transfer" /\ TransferNext
    /\ UNCHANGED <<which, vars, repairVars, cacheVars, chainVars, policyVars,
                   electorVars, queryVars>>
ElectorStep ==
    /\ which = "elector" /\ ElectorNext
    /\ UNCHANGED <<which, vars, repairVars, cacheVars, chainVars, policyVars,
                   transferVars, queryVars>>
QueryStep ==
    /\ which = "query" /\ QueryNext
    /\ UNCHANGED <<which, vars, repairVars, cacheVars, chainVars, policyVars,
                   transferVars, electorVars>>

MCNext ==
    \/ UsersStep \/ RepairStep \/ CacheStep \/ ProofsStep \/ PoliciesStep
    \/ TransferStep \/ ElectorStep \/ QueryStep

MCSpec == MCInit /\ [][MCNext]_mcVars
=============================================================================
