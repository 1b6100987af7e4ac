---------------------------- MODULE FragmentCache ----------------------------
(***************************************************************************)
(* fetchblob() (api/cmd/fetch/pipeline.go): the download workers of a      *)
(* fetch node share a cache of fragments.  A cached fragment is never used *)
(* on trust: every fetch asks the storage, and sends the ETag of the       *)
(* cached fragment along, so that the storage answers "not modified"       *)
(* instead of the bytes.                                                   *)
(*                                                                         *)
(* A chunk is told by its blob and version, and so is an ETag.  The cache  *)
(* is a library (ristretto): it forgets entries as it likes, and a set()   *)
(* takes effect late or not at all.  Blobs are not replaced in a healthy   *)
(* system, but the storage does not forbid it.                             *)
(***************************************************************************)
EXTENDS Integers

CONSTANTS
    Workers,
    Blobs,       \* the paths of the fragments, which are the keys of the cache
    MaxVersion,  \* bound on how often a blob is written
    None         \* no entry, no chunk

ASSUME MaxVersionAssumption == MaxVersion \in Nat \ {0}

Chunk == [blob : Blobs, version : 1 .. MaxVersion]
ASSUME NoneAssumption == None \notin Chunk

VARIABLES
    version,  \* the version of each blob in the storage, 0 before its upload
    cache,    \* the cache
    sets,     \* calls of cache.set that have no effect yet
    pc,       \* "idle", or "download" after the lookup in the cache
    blob,     \* the blob each worker was asked for
    cached,   \* what its lookup found
    outcome,  \* how its last fetch ended: "ok", "expired" or "failed"
    reply,    \* the chunk it returned
    since     \* the version of the blob when the fetch began

store  == <<version, cache, sets>>
worker == <<pc, blob, cached, outcome, reply, since>>
vars   == <<store, worker>>

TypeOK ==
    /\ version \in [Blobs -> 0 .. MaxVersion]
    /\ cache \in [Blobs -> Chunk \cup {None}]
    /\ sets \subseteq Chunk
    /\ pc \in [Workers -> {"idle", "download"}]
    /\ blob \in [Workers -> Blobs \cup {None}]
    /\ \A w \in Workers : pc[w] = "download" => blob[w] \in Blobs
    /\ cached \in [Workers -> Chunk \cup {None}]
    /\ outcome \in [Workers -> {"none", "ok", "expired", "failed"}]
    /\ reply \in [Workers -> Chunk \cup {None}]
    /\ since \in [Workers -> 0 .. MaxVersion]

Init ==
    /\ version = [b \in Blobs |-> 0]
    /\ cache = [b \in Blobs |-> None] /\ sets = {}
    /\ pc = [w \in Workers |-> "idle"]
    /\ blob = [w \in Workers |-> None]
    /\ cached = [w \in Workers |-> None]
    /\ outcome = [w \in Workers |-> "none"]
    /\ reply = [w \in Workers |-> None]
    /\ since = [w \in Workers |-> 0]

Current(b) == [blob |-> b, version |-> version[b]]
-----------------------------------------------------------------------------
\* The storage: a blob is uploaded, or replaced by a newer version.
Write(b) ==
    /\ version[b] < MaxVersion
    /\ version' = [version EXCEPT ![b] = @ + 1]
    /\ UNCHANGED <<cache, sets, worker>>

\* Mutant: the entry is stored under the key of another fragment.
SetTakesEffectElsewhere ==
    /\ \E c \in sets, b \in Blobs :
          /\ cache' = [cache EXCEPT ![b] = c]
          /\ sets' = sets \ {c}
    /\ UNCHANGED <<version, worker>>

\* cache.set(), in a goroutine of its own; the library may ignore it.
SetTakesEffect ==
    /\ \E c \in sets :
          /\ \/ cache' = [cache EXCEPT ![c.blob] = c]
             \/ UNCHANGED cache
          /\ sets' = sets \ {c}
    /\ UNCHANGED <<version, worker>>

Evict(b) ==
    /\ cache[b] # None
    /\ cache' = [cache EXCEPT ![b] = None]
    /\ UNCHANGED <<version, sets, worker>>
-----------------------------------------------------------------------------
\* fetchblob() up to the request: look the path up, which may miss.
Lookup(w) ==
    /\ pc[w] = "idle"
    /\ \E b \in Blobs :
          /\ blob' = [blob EXCEPT ![w] = b]
          /\ cached' = [cached EXCEPT ![w] = cache[b]]
          /\ since' = [since EXCEPT ![w] = version[b]]
    /\ outcome' = [outcome EXCEPT ![w] = "none"]
    /\ reply' = [reply EXCEPT ![w] = None]
    /\ pc' = [pc EXCEPT ![w] = "download"]
    /\ UNCHANGED store

Return(w, how, chunk) ==
    /\ pc' = [pc EXCEPT ![w] = "idle"]
    /\ outcome' = [outcome EXCEPT ![w] = how]
    /\ reply' = [reply EXCEPT ![w] = chunk]
    /\ UNCHANGED <<version, cache, blob, cached, since>>

\* Mutant: whatever is in the cache is used.
NotModifiedUnchecked(w) ==
    /\ pc[w] = "download"
    /\ cached[w] # None
    /\ Return(w, "ok", cached[w]) /\ UNCHANGED sets

\* 304: the storage has the version whose ETag was sent.
NotModified(w) ==
    /\ pc[w] = "download"
    /\ cached[w] # None /\ cached[w] = Current(blob[w])
    /\ Return(w, "ok", cached[w]) /\ UNCHANGED sets

\* 200 on a miss: use the chunk, and set it in the background.
Clean(w) ==
    /\ pc[w] = "download"
    /\ cached[w] = None /\ version[blob[w]] > 0
    /\ Return(w, "ok", Current(blob[w]))
    /\ sets' = sets \cup {Current(blob[w])}

\* 200 on a hit: "ETag expired, investigate immediately", and an error.  The new
\* chunk is thrown away, and the entry stays in the cache.
Expired(w) ==
    /\ pc[w] = "download"
    /\ cached[w] # None /\ version[blob[w]] > 0
    /\ cached[w] # Current(blob[w])
    /\ Return(w, "expired", None) /\ UNCHANGED sets

\* Mutant: a fragment that is not found is cached as an empty one.
FailsCached(w) ==
    /\ pc[w] = "download"
    /\ Return(w, "failed", None) /\ sets' = sets \cup {Current(blob[w])}

\* No such blob, a failed request, a cancelled context, or a body cut short.
Fails(w) ==
    /\ pc[w] = "download"
    /\ Return(w, "failed", None) /\ UNCHANGED sets

Next ==
    \/ \E b \in Blobs : Write(b) \/ Evict(b)
    \/ SetTakesEffect
    \/ \E w \in Workers : Lookup(w) \/ NotModified(w) \/ Clean(w) \/ Expired(w) \/ Fails(w)

Spec == Init /\ [][Next]_vars
-----------------------------------------------------------------------------
\* A fetch that succeeds returns the blob that was asked for, in a version that the
\* storage had while the fetch was under way: a cache filled late, by another worker
\* or before a replacement never shows (fetchblob, pipeline.go 190-236).
NeverStale ==
    \A w \in Workers :
        outcome[w] = "ok" =>
            /\ reply[w].blob = blob[w]
            /\ reply[w].version \in since[w] .. version[blob[w]]

\* "This should not happen in a healthy system" (pipeline.go 214-217): a fetch finds
\* its ETag expired only if the blob was replaced, whatever the order in which sets
\* take effect and entries are evicted.
ExpiredMeansReplaced ==
    \A w \in Workers : outcome[w] = "expired" => version[blob[w]] > 1
=============================================================================
