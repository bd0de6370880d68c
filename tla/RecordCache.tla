---------------------------- MODULE RecordCache ----------------------------
(* The federation client's cache of one record: the fetched document, the     *)
(* batch copy, the remembered verification, and the invalidation a commit to  *)
(* this server's own store performs.  Reading the cache, the request, and     *)
(* filling the cache are separate steps of concurrent readers.                *)
EXTENDS Integers

CONSTANTS
    Readers,
    LastVersion,  \* versions 1 .. LastVersion are committed one after another
    Bogus,        \* documents a peer may answer with that do not verify
    DirectProof   \* documents signed with the master key itself

ASSUME CacheAssumption ==
    LastVersion \in Nat \ {0} /\ Bogus \intersect (0 .. LastVersion) = {}

VARIABLES
    origin,     \* the version the origin holds
    resource,   \* cache "resource:"+uri+":application/json", 0 if absent
    batched,    \* cache "resource:"+uri, filled by GetResourceBatch
    verified,   \* cache "verified:"+uri: the document whose hash is remembered
    dropping,   \* the committer: "none", or the entry it deletes next
    floor,      \* history: the version the last finished invalidation was for
    raced,      \* history: an older answer was under way at an invalidation
    reader      \* the call of each reader

cacheVars ==
    <<origin, resource, batched, verified, dropping, floor, raced, reader>>

Versions == 1 .. LastVersion
Documents == Versions \union Bogus

\* Options of GetRecord and GetResource by caller: the auth middleware, a plain
\* verified read, routing and policy reads (SkipVerify), an entity's move
\* (NoCache), and the batch read.
Modes == {"auth", "record", "routing", "moving", "batch"}
UsesCache(m) == m # "moving"
Verifies(m) == m \in {"auth", "record", "moving"}

NoCall == [mode |-> "none", stage |-> "idle", doc |-> 0, since |-> 0]

CacheInit ==
    /\ origin = 1
    /\ resource = 0 /\ batched = 0 /\ verified = 0
    /\ dropping = "none" /\ floor = 1 /\ raced = FALSE
    /\ reader = [r \in Readers |-> NoCall]

Cached(m) ==
    CASE m = "batch" -> batched
      [] m = "moving" -> 0
      [] OTHER -> resource

\* The cache check: a hit is the answer.
Begin(r, m) ==
    /\ reader[r].stage \in {"idle", "done"}
    /\ reader' = [reader EXCEPT ![r] =
            [mode |-> m, doc |-> Cached(m), since |-> floor,
             stage |-> IF Cached(m) # 0 THEN "have" ELSE "asking"]]
    /\ UNCHANGED <<origin, resource, batched, verified, dropping, floor, raced>>

\* The origin answers with what it holds, or a peer with something that does
\* not verify; or the request fails.
Ask(r, doc) ==
    /\ reader[r].stage = "asking" /\ doc \in {origin} \union Bogus
    /\ reader' = [reader EXCEPT ![r].doc = doc, ![r].stage = "answered"]
    /\ UNCHANGED <<origin, resource, batched, verified, dropping, floor, raced>>

Fails(r) ==
    /\ reader[r].stage = "asking"
    /\ reader' = [reader EXCEPT ![r] = NoCall]
    /\ UNCHANGED <<origin, resource, batched, verified, dropping, floor, raced>>

\* The answer is cached, unverified.
Fill(r) ==
    LET c == reader[r]
    IN  /\ c.stage = "answered"
        /\ resource' = IF c.mode \in {"batch", "moving"} THEN resource ELSE c.doc
        /\ batched' = IF c.mode = "batch" THEN c.doc ELSE batched
        /\ reader' = [reader EXCEPT ![r].stage = "have"]
        /\ UNCHANGED <<origin, verified, dropping, floor, raced>>

\* Mutant: any remembered verification will do.
RememberedAny(doc) == verified # 0

\* A remembered verification counts for the very document it was of.
Remembered(doc) == verified = doc

\* GetRecord: the proof type, the remembered verification, else Verify, whose
\* success is remembered.
Check(r) ==
    LET c == reader[r]
        allowed == c.mode = "auth" => c.doc \in DirectProof
        known == UsesCache(c.mode) /\ Remembered(c.doc)
        good == ~Verifies(c.mode)
                \/ (allowed /\ (known \/ c.doc \notin Bogus))
    IN  /\ c.stage = "have"
        /\ reader' = [reader EXCEPT ![r] =
                IF good THEN [c EXCEPT !.stage = "done"] ELSE NoCall]
        /\ verified' = IF good /\ Verifies(c.mode) /\ UsesCache(c.mode) /\ ~known
                       THEN c.doc ELSE verified
        /\ UNCHANGED <<origin, resource, batched, dropping, floor, raced>>

-----------------------------------------------------------------------------
\* An entry outlives its ten minutes no longer.
Expire(entry) ==
    /\ entry = "resource" => resource # 0
    /\ entry = "batch" => batched # 0
    /\ entry = "verified" => verified # 0
    /\ resource' = IF entry = "resource" THEN 0 ELSE resource
    /\ batched' = IF entry = "batch" THEN 0 ELSE batched
    /\ verified' = IF entry = "verified" THEN 0 ELSE verified
    /\ UNCHANGED <<origin, dropping, floor, raced, reader>>

\* A commit to the key, then InvalidateResource, entry by entry.
Commit ==
    /\ dropping = "none" /\ origin < LastVersion
    /\ origin' = origin + 1
    /\ dropping' = "resource"
    /\ UNCHANGED <<resource, batched, verified, floor, raced, reader>>

\* Mutant: only the verification is forgotten.
DropResourceKept ==
    /\ dropping = "resource"
    /\ dropping' = "verified"
    /\ UNCHANGED <<origin, resource, batched, verified, floor, raced, reader>>

DropResource ==
    /\ dropping = "resource"
    /\ resource' = 0
    /\ raced' = (raced \/ \E r \in Readers : reader[r].stage = "answered"
                                              /\ reader[r].doc \in 1 .. origin - 1)
    /\ dropping' = "verified"
    /\ UNCHANGED <<origin, batched, verified, floor, reader>>

DropVerified ==
    /\ dropping = "verified"
    /\ verified' = 0
    /\ dropping' = "none"
    /\ floor' = origin
    /\ UNCHANGED <<origin, resource, batched, raced, reader>>

CacheNext ==
    \/ \E r \in Readers :
         \/ \E m \in Modes : Begin(r, m)
         \/ \E doc \in Documents : Ask(r, doc)
         \/ Fails(r) \/ Fill(r) \/ Check(r)
    \/ \E entry \in {"resource", "batch", "verified"} : Expire(entry)
    \/ Commit \/ DropResource \/ DropVerified

CacheSpec == CacheInit /\ [][CacheNext]_cacheVars

-----------------------------------------------------------------------------

\* GetRecord: a caller that asked for a verified document is given one that
\* verifies, though the cache also holds what unverifying callers fetched, and
\* the auth middleware one signed with the master key itself.
VerifiedGiven ==
    \A r \in Readers :
        reader[r].stage = "done" /\ Verifies(reader[r].mode) =>
            /\ reader[r].doc \notin Bogus
            /\ reader[r].mode = "auth" => reader[r].doc \in DirectProof

\* A call that began after an invalidation and is given an older version.
Stale(r) ==
    /\ reader[r].stage = "done"
    /\ reader[r].doc \in Versions /\ reader[r].doc < reader[r].since

\* Commit then InvalidateResource: only an answer that was already under way
\* when the cache was emptied can bring an older version back.
StaleOnlyByRace ==
    \A r \in Readers : Stale(r) /\ reader[r].mode # "batch" => raced

=============================================================================
