---------------------------- MODULE PolicyEngine ----------------------------
(* The evaluation of one request by the policy service: the global policy,    *)
(* then the layers of policies attached to the key and its ancestors, whose   *)
(* documents are fetched by URL and may be unavailable.                       *)
EXTENDS Integers, Sequences

CONSTANTS
    Requests,    \* [action, requester, domain, owner, author]: owner of the
                 \* key's namespace ("" when the URI does not parse)
    Statements,  \* the statements policies are made of, see Statement
    Entries,     \* the entries layers are made of: [policy, default], where
                 \* policy = [statements, default] is what the URL serves
    Stacks,      \* sequences of layers [entries, virtual, own]: virtual holds
                 \* the entries of each virtual parent, own tells whether the
                 \* layer's source is the evaluated key itself
    Fqdn         \* this server

Conclusions == {"unset", "ok", "ng", "allow", "deny"}
Actions ==
    {"record:create", "record:read", "record:update", "record:delete",
     "association:create", "association:read", "association:delete"}
Policies == [statements : Seq(Statements), default : Conclusions]
EntryLists == Seq(Entries)
Layers == [entries : EntryLists, virtual : Seq(EntryLists), own : BOOLEAN]

ASSUME PolicyAssumption ==
    /\ \A r \in Requests :
        /\ r.action \in Actions
        /\ "error" \notin {r.requester, r.domain, r.owner, r.author, Fqdn}
    /\ \A s \in Statements : s.emit \in Conclusions
    /\ Entries \subseteq [policy : Policies, default : Conclusions]
    /\ Stacks \subseteq Seq(Layers)

VARIABLES
    request, stack,  \* what is evaluated
    layers,          \* the layers resolved so far
    next,            \* the next layer of the stack to resolve
    conclusion,      \* of the layers evaluated so far
    at,              \* the next layer to evaluate; 0 is the global policy
    verdict          \* "none", "permitted" or "denied"

policyVars == <<request, stack, layers, next, conclusion, at, verdict>>

\* Conclusion.Or: opposites cancel out, a final conclusion beats a default one.
Or(c, d) ==
    LET said == {c, d} \ {"unset"}
    IN  CASE {"deny", "allow"} \subseteq said -> "unset"
          [] "deny" \in said /\ "allow" \notin said -> "deny"
          [] "allow" \in said /\ "deny" \notin said -> "allow"
          [] said = {"ok"} -> "ok"
          [] said = {"ng"} -> "ng"
          [] OTHER -> "unset"

-----------------------------------------------------------------------------
\* Expressions of a condition.
Const(v) == [op |-> "Const", const |-> v]
Load(path) == [op |-> "Load", const |-> path]
Apply(op, args) == [op |-> op, args |-> args]

\* opLoad: a path of the request context.
Loaded(r, path) ==
    CASE path = "requester.domain" -> r.domain
      [] path = "requester.ccid" -> r.requester
      [] path \in {"self.key", "self.associate"} -> r.owner
      [] path = "self.author" -> r.author
      [] path = "globals.fqdn" -> Fqdn

Truth(b) == IF b THEN "true" ELSE "false"

\* An operator applied to the values of its arguments, all of which are
\* evaluated before, so that an error anywhere is an error of the whole.
Applied(op, arg) ==
    LET Some(v) == \E i \in DOMAIN arg : arg[i] = v
    IN  IF Some("error") THEN "error"
        ELSE CASE op = "And" -> Truth(~Some("false"))
               [] op = "Or" -> Truth(Some("true"))
               [] op = "Eq" -> Truth(arg[1] = arg[2])
               [] op = "CCUriOwner" -> IF arg[1] = "" THEN "error" ELSE arg[1]

\* Eval, of expressions that nest at most three operators.
Eval0(r, e) == IF e.op = "Const" THEN e.const ELSE Loaded(r, e.const)
EvalWith(Below(_, _), r, e) ==
    IF e.op \in {"Const", "Load"} THEN Eval0(r, e)
    ELSE Applied(e.op, [i \in DOMAIN e.args |-> Below(r, e.args[i])])
Eval1(r, e) == EvalWith(Eval0, r, e)
Eval2(r, e) == EvalWith(Eval1, r, e)
Eval(r, e) == EvalWith(Eval2, r, e)

OwnNamespace(path) ==
    Apply("Eq", <<Load("requester.ccid"), Apply("CCUriOwner", <<Load(path)>>)>>)
LocalRequester == Apply("Eq", <<Load("requester.domain"), Load("globals.fqdn")>>)
ServerNamespace ==
    Apply("Eq", <<Apply("CCUriOwner", <<Load("self.key")>>), Load("globals.fqdn")>>)
OwnDocument == Apply("Eq", <<Load("requester.ccid"), Load("self.author")>>)

\* key: "." the declaring key only, "./*" its descendants only, "*" both.
Statement(action, key, emit, condition) ==
    [action |-> action, key |-> key, emit |-> emit, condition |-> condition]

\* defaultPolicy.go: the statements of the global policy and its defaults.
GlobalStatements ==
    <<Statement("record:create", "*", "allow",
                Apply("And", <<LocalRequester, OwnNamespace("self.key")>>)),
      Statement("record:create", "*", "ok",
                Apply("And", <<LocalRequester, ServerNamespace>>)),
      Statement("record:read", "*", "allow", OwnNamespace("self.key")),
      Statement("record:update", "*", "allow",
                Apply("Or", <<OwnDocument, OwnNamespace("self.key")>>)),
      Statement("record:delete", "*", "allow",
                Apply("Or", <<OwnDocument, OwnNamespace("self.key")>>)),
      Statement("association:delete", "*", "allow",
                Apply("Or", <<OwnDocument, OwnNamespace("self.associate")>>))>>

RefusedByDefault ==
    {"record:create", "record:update", "record:delete", "association:delete"}

GlobalPolicy(action) ==
    [statements |-> GlobalStatements,
     default |-> IF action \in RefusedByDefault THEN "ng" ELSE "ok"]

\* The key of a statement, rewritten to the layer's source, against the
\* evaluated key.
Covers(s, own) == s.key = "*" \/ (s.key = "." /\ own) \/ (s.key = "./*" /\ ~own)

\* EvaluatePolicy's loop body: a statement about something else, or with a
\* condition that is false or fails to evaluate, is skipped.
Emitted(c, s, own) ==
    IF /\ s.action = request.action /\ Covers(s, own)
       /\ Eval(request, s.condition) = "true"
    THEN Or(c, s.emit) ELSE c

\* What the first i statements come to.
StatementsConclude(statements, own) ==
    LET sofar[i \in 0 .. Len(statements)] ==
            IF i = 0 THEN "unset" ELSE Emitted(sofar[i - 1], statements[i], own)
    IN  sofar

\* EvaluatePolicy: the default stands in for an undecided policy.
EvaluatePolicy(policy, own) ==
    LET c == StatementsConclude(policy.statements, own)[Len(policy.statements)]
    IN  IF c = "unset" THEN policy.default ELSE c

-----------------------------------------------------------------------------
\* An evaluation set: a fetched policy, where the entry's default goes before
\* the policy's own, or an errored one, which has the entry's default only.
FetchedSet(entry, own) ==
    [errored |-> FALSE, own |-> own,
     policy |-> [entry.policy EXCEPT !.default =
                    IF entry.default # "unset" THEN entry.default ELSE @]]

ErroredSet(default) ==
    [errored |-> TRUE, own |-> FALSE,
     policy |-> [statements |-> <<>>, default |-> default]]

\* Mutant: every policy that cannot be fetched falls back to ok.
ConcludedOpen(set) ==
    IF set.errored THEN "ok" ELSE EvaluatePolicy(set.policy, set.own)

Concluded(set) ==
    IF set.errored THEN set.policy.default
    ELSE EvaluatePolicy(set.policy, set.own)

\* What the first i sets of a layer come to.
SetsConclude(sets) ==
    LET sofar[i \in 0 .. Len(sets)] ==
            IF i = 0 THEN "unset" ELSE Or(sofar[i - 1], Concluded(sets[i]))
    IN  sofar

\* EvaluateStack's inner loop.
LayerConclusion(i) ==
    IF i = 0 THEN EvaluatePolicy(GlobalPolicy(request.action), FALSE)
    ELSE SetsConclude(layers[i])[Len(layers[i])]

PolicyInit ==
    /\ request \in Requests /\ stack \in Stacks
    /\ layers = <<>> /\ next = 1
    /\ conclusion = "unset" /\ at = 0 /\ verdict = "none"

\* The sets of a list of entries: one that cannot be fetched (down) is kept as
\* errored.
Resolved(entries, own, down) ==
    [j \in 1 .. Len(entries) |->
        IF entries[j] \in down THEN ErroredSet(entries[j].default)
        ELSE FetchedSet(entries[j], own)]

\* A virtual parent that cannot be read (unread) counts as an errored entry
\* without a default.
ParentSets(i, virtual, down, unread) ==
    IF i \in unread THEN <<ErroredSet("unset")>> ELSE Resolved(virtual[i], FALSE, down)

\* The sets of the first i virtual parents.
Inherited(virtual, down, unread) ==
    LET sofar[i \in 0 .. Len(virtual)] ==
            IF i = 0 THEN <<>>
            ELSE sofar[i - 1] \o ParentSets(i, virtual, down, unread)
    IN  sofar

\* resolvePolicyStack: virtual parents form a layer of their own right before
\* the layer that declares it.
ResolveLayer(down, unread) ==
    LET layer == stack[next]
        virtual == Inherited(layer.virtual, down, unread)[Len(layer.virtual)]
        self == Resolved(layer.entries, layer.own, down)
    IN  /\ layers' = IF virtual = <<>> THEN Append(layers, self)
                     ELSE Append(Append(layers, virtual), self)
        /\ next' = next + 1
        /\ UNCHANGED <<request, stack, conclusion, at, verdict>>

\* Mutant: only a refusal ends the evaluation.
FinalDenyOnly(c) == c = "deny"

Final(c) == c \in {"allow", "deny"}

\* EvaluateStack: the global policy comes first; a final conclusion ends it,
\* ok and ng stand until a later layer concludes otherwise.
EvaluateLayer ==
    LET c == LayerConclusion(at)
    IN  /\ next > Len(stack) /\ at <= Len(layers)
        /\ conclusion' = IF c = "unset" THEN conclusion ELSE c
        /\ at' = IF Final(c) THEN Len(layers) + 1 ELSE at + 1
        /\ UNCHANGED <<request, stack, layers, next, verdict>>

\* Eval's answer to its caller.
Conclude ==
    /\ next > Len(stack) /\ verdict = "none" /\ at > Len(layers)
    /\ verdict' = IF conclusion \in {"allow", "ok"} THEN "permitted" ELSE "denied"
    /\ UNCHANGED <<request, stack, layers, next, conclusion, at>>

PolicyNext ==
    \/ /\ next <= Len(stack)
       /\ \E down \in SUBSET Entries, unread \in SUBSET DOMAIN stack[next].virtual :
            ResolveLayer(down, unread)
    \/ EvaluateLayer
    \/ Conclude

PolicySpec == PolicyInit /\ [][PolicyNext]_policyVars

-----------------------------------------------------------------------------

\* Whoever the global policy names: a local author in their own namespace may
\* create, the namespace's owner may read, and the owner and the author of a
\* document may update and delete it.  It names nobody for associations but
\* for their removal.
Entitled(r) ==
    CASE r.action = "record:create" -> r.domain = Fqdn /\ r.requester = r.owner
      [] r.action = "record:read" -> r.requester = r.owner
      [] r.action \in {"association:create", "association:read"} -> FALSE
      [] OTHER -> r.requester \in {r.owner, r.author}

\* The entitled are never locked out, whatever policies are attached below and
\* whichever of them cannot be fetched.
EntitledPermitted ==
    verdict = "denied" /\ request.owner # "" => ~Entitled(request)

\* A statement of a fetched policy, or a default that its entry or its policy
\* declares, that speaks for the request.
Grants(set) ==
    \/ set.policy.default \in {"allow", "ok"}
    \/ \E i \in DOMAIN set.policy.statements :
          LET s == set.policy.statements[i]
          IN  /\ s.action = request.action /\ Covers(s, set.own)
              /\ s.emit \in {"allow", "ok"} /\ Eval(request, s.condition) = "true"

\* Anyone else is permitted what the global policy refuses by default only if
\* a policy below really speaks for them: an unreachable policy or a condition
\* that fails to evaluate grants nothing.
GrantedBelow ==
    verdict = "permitted" /\ ~Entitled(request)
        /\ request.action \in RefusedByDefault
        /\ ~(request.action = "record:create" /\ request.domain = Fqdn
             /\ request.owner = Fqdn)
    => \E i \in DOMAIN layers : \E j \in DOMAIN layers[i] : Grants(layers[i][j])

=============================================================================
