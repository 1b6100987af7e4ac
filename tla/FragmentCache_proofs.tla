------------------------- MODULE FragmentCache_proofs -------------------------
(***************************************************************************)
(* Proofs about the fragment cache.  Wherever a chunk is kept - in the     *)
(* cache, in a set() under way, or as what a worker found - it is filed    *)
(* under its own blob and is not newer than the storage.  That is stable,  *)
(* since versions only grow, and makes the comparison of ETags decisive.   *)
(***************************************************************************)
EXTENDS FragmentCache, TLAPS

CacheGenuine ==
    \A b \in Blobs : cache[b] # None =>
        cache[b].blob = b /\ cache[b].version <= version[b]

SetsGenuine == \A c \in sets : c.version <= version[c.blob]

FetchGenuine ==
    \A w \in Workers : pc[w] = "download" =>
        /\ since[w] <= version[blob[w]]
        /\ cached[w] # None =>
              cached[w].blob = blob[w] /\ cached[w].version <= version[blob[w]]

OutcomeHasBlob == \A w \in Workers : outcome[w] # "none" => blob[w] \in Blobs

IInv ==
    /\ TypeOK
    /\ CacheGenuine /\ SetsGenuine /\ FetchGenuine
    /\ OutcomeHasBlob
    /\ NeverStale /\ ExpiredMeansReplaced

USE MaxVersionAssumption, NoneAssumption DEF Chunk

LEMMA InitIInv == Init => IInv
BY DEF Init, IInv, TypeOK, CacheGenuine, SetsGenuine, FetchGenuine,
       OutcomeHasBlob, NeverStale, ExpiredMeansReplaced

LEMMA WriteIInv ==
    ASSUME IInv, NEW b \in Blobs, Write(b)
    PROVE  IInv'
<1>1. TypeOK'
    BY DEF Write, worker, IInv, TypeOK
<1>2. \A x \in Blobs : version[x] \in Nat /\ version'[x] \in Nat /\ version[x] <= version'[x]
    BY DEF Write, IInv, TypeOK
<1>3. CacheGenuine'
    <2>1. \A x \in Blobs : cache[x] # None => cache[x].version \in Nat
        BY DEF IInv, TypeOK
    <2> QED BY <1>2, <2>1 DEF Write, IInv, CacheGenuine
<1>4. SetsGenuine'
    <2>1. \A c \in sets : c.version \in Nat /\ c.blob \in Blobs
        BY DEF IInv, TypeOK
    <2> QED BY <1>2, <2>1 DEF Write, IInv, SetsGenuine
<1>5. FetchGenuine'
    <2>1. \A w \in Workers : since[w] \in Nat /\ (cached[w] # None => cached[w].version \in Nat)
        <3>1. since \in [Workers -> 0 .. MaxVersion] /\ cached \in [Workers -> Chunk \cup {None}]
            BY DEF IInv, TypeOK
        <3>2. \A c \in Chunk : c.version \in Nat
            OBVIOUS
        <3> HIDE DEF Chunk
        <3> QED BY <3>1, <3>2
    <2>2. \A w \in Workers : pc[w] = "download" => blob[w] \in Blobs
        BY DEF IInv, TypeOK
    <2> QED BY <1>2, <2>1, <2>2 DEF Write, worker, IInv, FetchGenuine
<1>6. OutcomeHasBlob'
    BY DEF Write, worker, IInv, OutcomeHasBlob
<1>7. NeverStale'
    <2> SUFFICES ASSUME NEW w \in Workers, outcome[w] = "ok"
                 PROVE  /\ reply[w].blob = blob[w]
                        /\ reply[w].version \in since[w] .. version'[blob[w]]
        BY DEF Write, worker, NeverStale
    <2>1. reply[w].blob = blob[w] /\ reply[w].version \in since[w] .. version[blob[w]]
        BY DEF IInv, NeverStale
    <2>2. blob[w] \in Blobs
        BY DEF IInv, OutcomeHasBlob
    <2>3. since[w] \in Nat
        BY DEF IInv, TypeOK
    <2> QED BY <1>2, <2>1, <2>2, <2>3
<1>8. ExpiredMeansReplaced'
    BY <1>2 DEF Write, worker, IInv, OutcomeHasBlob, ExpiredMeansReplaced
<1> QED BY <1>1, <1>3, <1>4, <1>5, <1>6, <1>7, <1>8 DEF IInv

LEMMA CacheIInv ==
    ASSUME IInv, SetTakesEffect \/ (\E b \in Blobs : Evict(b))
    PROVE  IInv'
<1>1. CASE SetTakesEffect
    <2> PICK c \in sets : /\ \/ cache' = [cache EXCEPT ![c.blob] = c]
                             \/ UNCHANGED cache
                          /\ sets' = sets \ {c}
        BY <1>1 DEF SetTakesEffect
    <2>1. c \in Chunk /\ c.version <= version[c.blob]
        BY DEF IInv, TypeOK, SetsGenuine
    <2>2. UNCHANGED <<version, worker>>
        BY <1>1 DEF SetTakesEffect
    <2>3. TypeOK'
        BY <2>1, <2>2 DEF worker, IInv, TypeOK
    <2>4. CacheGenuine'
        BY <2>1, <2>2 DEF IInv, TypeOK, CacheGenuine
    <2> QED BY <2>2, <2>3, <2>4 DEF worker, IInv, SetsGenuine, FetchGenuine,
                OutcomeHasBlob, NeverStale, ExpiredMeansReplaced
<1>2. CASE \E b \in Blobs : Evict(b)
    <2> PICK b \in Blobs : Evict(b)
        BY <1>2
    <2>1. TypeOK'
        BY DEF Evict, worker, IInv, TypeOK
    <2>2. CacheGenuine'
        BY DEF Evict, IInv, TypeOK, CacheGenuine
    <2> QED BY <2>1, <2>2 DEF Evict, worker, IInv, SetsGenuine, FetchGenuine,
                OutcomeHasBlob, NeverStale, ExpiredMeansReplaced
<1> QED BY <1>1, <1>2

LEMMA LookupIInv ==
    ASSUME IInv, NEW w \in Workers, Lookup(w)
    PROVE  IInv'
<1> PICK b \in Blobs : /\ blob' = [blob EXCEPT ![w] = b]
                       /\ cached' = [cached EXCEPT ![w] = cache[b]]
                       /\ since' = [since EXCEPT ![w] = version[b]]
    BY DEF Lookup
<1>1. TypeOK'
    BY DEF Lookup, store, IInv, TypeOK
<1>2. FetchGenuine'
    <2>1. version[b] \in Nat
        BY DEF IInv, TypeOK
    <2>2. cache[b] # None => cache[b].blob = b /\ cache[b].version <= version[b]
        BY DEF IInv, CacheGenuine
    <2> QED BY <2>1, <2>2 DEF Lookup, store, IInv, TypeOK, FetchGenuine
<1>3. OutcomeHasBlob' /\ NeverStale' /\ ExpiredMeansReplaced'
    BY DEF Lookup, store, IInv, TypeOK, OutcomeHasBlob, NeverStale, ExpiredMeansReplaced
<1>4. CacheGenuine' /\ SetsGenuine'
    BY DEF Lookup, store, IInv, CacheGenuine, SetsGenuine
<1> QED BY <1>1, <1>2, <1>3, <1>4 DEF IInv

LEMMA ReturnIInv ==
    ASSUME IInv, NEW w \in Workers,
           NotModified(w) \/ Clean(w) \/ Expired(w) \/ Fails(w)
    PROVE  IInv'
<1> DEFINE b == blob[w]
<1>1. pc[w] = "download" /\ b \in Blobs /\ version[b] \in 0 .. MaxVersion
    BY DEF NotModified, Clean, Expired, Fails, IInv, TypeOK
<1>2. since[w] \in Nat /\ since[w] <= version[b]
    BY <1>1 DEF IInv, TypeOK, FetchGenuine
<1>3. PICK how \in {"ok", "expired", "failed"}, chunk \in Chunk \cup {None} : Return(w, how, chunk)
    BY <1>1 DEF NotModified, Clean, Expired, Fails, Current, IInv, TypeOK
<1>4. sets' = sets \/ (sets' = sets \cup {Current(b)} /\ Current(b) \in Chunk)
    BY <1>1 DEF NotModified, Clean, Expired, Fails, Current
<1>5. how = "ok" => chunk = Current(b)
    BY <1>3 DEF NotModified, Clean, Expired, Fails, Return, IInv, TypeOK
<1>6. how = "expired" => version[b] > 1
    <2> SUFFICES ASSUME how = "expired" PROVE version[b] > 1
        OBVIOUS
    <2>1. Expired(w)
        BY <1>3 DEF NotModified, Clean, Expired, Fails, Return, IInv, TypeOK
    <2>2. cached[w] \in Chunk /\ cached[w].blob = b /\ cached[w].version <= version[b]
        BY <1>1, <2>1 DEF Expired, IInv, TypeOK, FetchGenuine
    <2>3. cached[w].version # version[b]
        BY <2>1, <2>2 DEF Expired, Current
    <2> QED BY <1>1, <2>2, <2>3
<1>7. UNCHANGED <<version, cache, blob, cached, since>>
    BY <1>3 DEF Return
<1>8. TypeOK'
    BY <1>3, <1>4, <1>7 DEF Return, IInv, TypeOK
<1>9. SetsGenuine'
    BY <1>1, <1>4, <1>7 DEF Current, IInv, SetsGenuine
<1>10. CacheGenuine' /\ FetchGenuine'
    BY <1>3, <1>7 DEF Return, IInv, TypeOK, CacheGenuine, FetchGenuine
<1>11. OutcomeHasBlob' /\ ExpiredMeansReplaced'
    BY <1>1, <1>3, <1>6, <1>7 DEF Return, IInv, TypeOK, OutcomeHasBlob, ExpiredMeansReplaced
<1>12. NeverStale'
    <2> SUFFICES ASSUME NEW x \in Workers, outcome'[x] = "ok"
                 PROVE  /\ reply'[x].blob = blob[x]
                        /\ reply'[x].version \in since[x] .. version[blob[x]]
        BY <1>7 DEF NeverStale
    <2>1. CASE x = w
        <3>1. reply'[w] = Current(b)
            BY <1>3, <1>5, <2>1 DEF Return, IInv, TypeOK
        <3> QED BY <1>1, <1>2, <2>1, <3>1 DEF Current
    <2>2. CASE x # w
        BY <1>3, <2>2 DEF Return, IInv, TypeOK, NeverStale
    <2> QED BY <2>1, <2>2
<1> QED BY <1>8, <1>9, <1>10, <1>11, <1>12 DEF IInv

LEMMA NextIInv == IInv /\ [Next]_vars => IInv'
<1> SUFFICES ASSUME IInv, [Next]_vars PROVE IInv'
    OBVIOUS
<1>1. CASE Next
    BY <1>1, WriteIInv, CacheIInv, LookupIInv, ReturnIInv DEF Next
<1>2. CASE UNCHANGED vars
    BY <1>2 DEF vars, store, worker, IInv, TypeOK, CacheGenuine, SetsGenuine,
       FetchGenuine, OutcomeHasBlob, NeverStale, ExpiredMeansReplaced
<1> QED BY <1>1, <1>2

\* The invariant of the cache, for any number of workers, fragments and versions.
THEOREM Invariance == Spec => []IInv
BY InitIInv, NextIInv, PTL DEF Spec

\* The variables of the cache and of the workers have their types: cached and returned
\* chunks are of fragments and versions that exist (pipeline.go 190-236).
THEOREM TypeCorrect == Spec => []TypeOK
<1>1. IInv => TypeOK
    BY DEF IInv
<1> QED BY <1>1, Invariance, PTL

\* A fetch that succeeds returns a version of the blob that was asked for which the
\* storage had during the fetch (fetchblob, pipeline.go 190-236).
THEOREM FetchesAreNotStale == Spec => []NeverStale
<1>1. IInv => NeverStale
    BY DEF IInv
<1> QED BY <1>1, Invariance, PTL

\* An expired ETag is reported only of a fragment that was replaced
\* (pipeline.go 212-223).
THEOREM ExpiredOnlyIfReplaced == Spec => []ExpiredMeansReplaced
<1>1. IInv => ExpiredMeansReplaced
    BY DEF IInv
<1> QED BY <1>1, Invariance, PTL
=============================================================================
