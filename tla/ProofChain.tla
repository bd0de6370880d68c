----------------------------- MODULE ProofChain -----------------------------
(* SignedDocument.Verify and the login by raw key or subkey.  Documents are a *)
(* fixed universe, honest and forged; a resolver holds one document per       *)
(* subkey URI and changes over time (enact, revocation, anything a peer may   *)
(* answer).  A reference's target may be inlined by whoever submits it.       *)
EXTENDS Integers, Sequences

CONSTANTS
    Signed,     \* identities of signed documents
    SD,         \* their content and proof, see below
    SubkeyURIs, \* URIs proofs name as their key
    Answers,    \* the documents a resolver may answer with for them
    KeyOwner,   \* the owner part of those URIs
    NoDoc

\* SD[d] == [author, kind, schema, at, value, uris, proof]: value is the ckid
\* of an enactment, the embedded enactment of a revocation, or the href of a
\* reference; uris are those it can be referred by.  proof == [type, signer,
\* link]: link is the key URI, the href, or the embedded document.

VARIABLES
    resolved,   \* what the resolver answers for a subkey URI
    accepted    \* the document verified last, or the session opened last

chainVars == <<resolved, accepted>>

ChainInit ==
    /\ resolved \in [SubkeyURIs -> Answers \union {NoDoc}]
    /\ accepted = [kind |-> "nothing"]

Type(d) == SD[d].proof.type
Direct(d) == Type(d) = "ecrecover"

\* The enactment behind a subkey URI's document: itself, or what a revocation
\* by the same author embeds.
EnactmentOf(k) == IF SD[k].schema = "revoked" THEN SD[k].value ELSE k

\* Mutant: the enactment's author is not compared.
EnactedAnyone(author, k) ==
    /\ SD[k].schema \in {"subkey", "revoked"}
    /\ SD[EnactmentOf(k)].schema = "subkey"

\* Both are the author's own.
Enacted(author, k) ==
    /\ SD[k].schema \in {"subkey", "revoked"}
    /\ SD[k].schema = "revoked" => SD[k].author = author
    /\ SD[EnactmentOf(k)].schema = "subkey"
    /\ SD[EnactmentOf(k)].author = author

\* The document lies in the key's period of validity and is signed with it.
InPeriod(d, k) ==
    /\ SD[EnactmentOf(k)].at <= SD[d].at
    /\ SD[k].schema = "revoked" => SD[d].at <= SD[k].at
    /\ SD[d].proof.signer = SD[EnactmentOf(k)].value

\* The target of a reference, whoever supplied it, is of the same author and
\* really bears the href.
Bears(target, d) ==
    /\ SD[d].schema = "reference" /\ SD[d].value = SD[d].proof.link
    /\ SD[target].author = SD[d].author
    /\ SD[d].proof.link \in SD[target].uris

\* DeriveAcked: an acked document is its ack's derivation, field by field.
IsDerivation(d, e) ==
    /\ SD[e].kind \in {"ack", "unack"}
    /\ SD[d].kind = (IF SD[e].kind = "ack" THEN "acked" ELSE "unacked")
    /\ \A f \in {"author", "at", "value", "schema"} : SD[d][f] = SD[e][f]

\* verify goes on with another document: a reference with its target, which
\* the submitter may have inlined at any level, an acked document with its ack.
Follows(d, e) ==
    \/ Type(d) = "reference" /\ Bears(e, d)
    \/ /\ Type(d) = "direct" /\ e = SD[d].proof.link
       /\ Type(e) \in {"ecrecover", "subkey"} /\ IsDerivation(d, e)

MasterSigned(d) ==
    d \in Signed /\ Direct(d) /\ SD[d].proof.signer = SD[d].author

\* verify where it ends, with a signature: by the author's master key, or by a
\* subkey whose enactment (and revocation) the resolver has and that key signed.
Signature(d) ==
    \/ MasterSigned(d)
    \/ /\ Type(d) = "subkey"
       /\ LET k == resolved[SD[d].proof.link]
          IN  /\ MasterSigned(k) /\ Enacted(SD[d].author, k)
              /\ MasterSigned(EnactmentOf(k)) /\ InPeriod(d, k)

MaxVerifyDepth == 4

Leaf(chain) == chain[Len(chain)]

\* The documents one call of verify may go through, each from the one before,
\* as far as MaxVerifyDepth allows.
Extended(chains) ==
    UNION {{Append(chain, e) : e \in {e \in Signed : Follows(Leaf(chain), e)}} :
               chain \in chains}
Submitted == {<<d>> : d \in Signed}
Chains ==
    LET two == Extended(Submitted)
        three == Extended(two)
    IN  Submitted \union two \union three \union Extended(three)

\* A subkey's enactment counts for the depth, too.
WithinDepth(chain) == Type(Leaf(chain)) = "subkey" => Len(chain) < MaxVerifyDepth

-----------------------------------------------------------------------------
\* The resolver's answer changes: an enactment, a revocation, anything.
Resolve(u, d) ==
    /\ resolved' = [resolved EXCEPT ![u] = d]
    /\ UNCHANGED accepted

\* Verify: the first document of the chain is the one submitted.
Verify(chain) ==
    /\ WithinDepth(chain) /\ Signature(Leaf(chain))
    /\ accepted' = [kind |-> "document", chain |-> chain]
    /\ UNCHANGED resolved

\* IdentifyIdentity: the key named by the token belongs to the issuer; a raw key
\* signs for itself.
LoginRaw(issuer, signer) ==
    /\ signer = issuer
    /\ accepted' = [kind |-> "session", issuer |-> issuer, signer |-> signer]
    /\ UNCHANGED resolved

KeyOf(u, issuer) == KeyOwner[u] = issuer

\* ... or a subkey that resolves to an enactment, not a revocation.
LoginSubkey(issuer, u, signer) ==
    LET k == resolved[u]
    IN  /\ KeyOf(u, issuer)
        /\ MasterSigned(k)
        /\ SD[k].schema = "subkey" /\ SD[k].author = KeyOwner[u]
        /\ signer = SD[k].value
        /\ accepted' = [kind |-> "session", issuer |-> issuer, signer |-> signer]
        /\ UNCHANGED resolved

Authors == {SD[d].author : d \in Signed}
Signers == Authors \union {SD[d].proof.signer : d \in Signed}

ChainNext ==
    \/ \E u \in SubkeyURIs, d \in Answers \union {NoDoc} : Resolve(u, d)
    \/ \E chain \in Chains : Verify(chain)
    \/ \E a \in Authors, s \in Signers :
         \/ LoginRaw(a, s)
         \/ \E u \in SubkeyURIs : LoginSubkey(a, u, s)

ChainSpec == ChainInit /\ [][ChainNext]_chainVars

-----------------------------------------------------------------------------

\* Keys an author stands behind: the master key, and those that a document
\* signed with the master key enacts.
Empowered(author) ==
    {author} \union
    {SD[e].value : e \in {d \in Signed : /\ SD[d].author = author
                                        /\ SD[d].schema = "subkey"
                                        /\ Direct(d)
                                        /\ SD[d].proof.signer = author}}

\* Verify and IdentifyIdentity: nothing is attributed to someone who signed
\* nothing, however subkeys, references, inlined copies and embedded documents
\* are combined; nor is a session opened for them.
AuthorConsents ==
    /\ accepted.kind = "document" =>
         LET first == accepted.chain[1]
             leaf == Leaf(accepted.chain)
         IN  /\ Type(leaf) \in {"ecrecover", "subkey"}
             /\ SD[leaf].proof.signer \in Empowered(SD[first].author)
    /\ accepted.kind = "session" =>
         accepted.signer \in Empowered(accepted.issuer)
=============================================================================
