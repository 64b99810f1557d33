------------------------------ MODULE KeyCache ------------------------------
(***************************************************************************)
(* LRUAPIKeyCache: what each of its critical sections does to the cache.   *)
(*   pos    cached key -> entry; an entry that is past its TTL, fresh =    *)
(*          FALSE, misses and is removed later by the LRU's own goroutine  *)
(*   neg    tokens known to be bad                                         *)
(*   index  pairs <<installation, key>>, the map byInstallation            *)
(*   gen    installation -> invalidationGen                                *)
(* The LRU calls are atomic; each runs outside the cache's own mutex, and  *)
(* calls back into it for every entry it drops.                            *)
(***************************************************************************)
EXTENDS Functions, FiniteSets

\* A cached result: the key, its installation as read, its provider keys and
\* whether the per-cluster lists were read ("slim": never looked at).
Get(cache, hash) ==
    IF hash \in DOMAIN cache.pos /\ cache.pos[hash].fresh THEN "hit"
    ELSE IF hash \in cache.neg THEN "negative" ELSE "miss"

SetNegative(cache, hash) == [cache EXCEPT !.neg = @ \union {hash}]

\* Set, first section: the index learns the key.  The caller keeps gen[inst].
SetIndex(cache, inst, hash) == [cache EXCEPT !.index = @ \union {<<inst, hash>>}]

\* The eviction callback, with the entry that is dropped.
onPositiveEvict(cache, hash) ==
    [cache EXCEPT !.index = @ \ {<<cache.pos[hash].inst, hash>>}]

Remove(cache, hash) ==
    IF hash \in DOMAIN cache.pos
    THEN [onPositiveEvict(cache, hash) EXCEPT !.pos = Restrict(@, DOMAIN @ \ {hash})]
    ELSE cache

Victims(cache, hash, capacity) ==
    IF hash \in DOMAIN cache.pos \/ Cardinality(DOMAIN cache.pos) < capacity
    THEN {} ELSE DOMAIN cache.pos

\* The LRU's Add: an entry of the same key is replaced without a callback.
Add(cache, hash, entry) ==
    [cache EXCEPT !.pos = [h \in DOMAIN @ \union {hash} |-> IF h = hash THEN entry ELSE @[h]]]

OrphanedMutant(cache, inst, pregen) == FALSE

\* Set, second section: an invalidation came in between, so undo the index.
Orphaned(cache, inst, pregen) == cache.gen[inst] # pregen

Unindex(cache, inst, hash) == [cache EXCEPT !.index = @ \ {<<inst, hash>>}]

Tracked(cache, inst) == { p[2] : p \in { x \in cache.index : x[1] = inst } }

\* InvalidateInstallation under the mutex; the drained keys are removed after.
Drain(cache, inst) ==
    [cache EXCEPT !.index = { p \in @ : p[1] # inst }, !.gen[inst] = @ + 1]

\* Time: an entry passes its TTL; a negative one is simply gone.
Expire(cache, hash) == [cache EXCEPT !.pos[hash].fresh = FALSE]
ExpireNegative(cache, hash) == [cache EXCEPT !.neg = @ \ {hash}]
=============================================================================
