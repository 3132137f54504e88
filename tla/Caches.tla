------------------------------- MODULE Caches -------------------------------
(***************************************************************************)
(* Values kept in memory beside the storage: the MemoryCache and the lazy  *)
(* batches of memory_optimization.rs, and the LazyField of                 *)
(* lazy_loading_optimization.rs, which a call fills on its first read.     *)
(* A text is reduced to whether it is empty.  lib.rs declares neither      *)
(* module, and evict_cache_entry passes a reference where cache_remove     *)
(* takes the cache itself; the model is of what its text says.             *)
(***************************************************************************)
EXTENDS Loops

CONSTANTS
  CacheKeys,    \* keys of cache entries
  EntrySizes,   \* size_bytes of entries, the refused zero included
  MaxCacheSize, \* MAX_CACHE_SIZE, 1024 in the code
  LazyItems,    \* the size of a lazy batch
  CachedValues, \* values the storage entry behind a LazyField may have
  MaxPuts       \* bound on the lookups and insertions of a behaviour

ASSUME CachesAssumption ==
  0 \in CachedValues /\ EntrySizes \subseteq Nat /\ {MaxCacheSize, LazyItems, MaxPuts} \subseteq Nat

\* struct CacheEntry; access_count and last_access stay 0 in every entry.
CacheEntry == [key : CacheKeys, size : EntrySizes]

VARIABLES
  cache,    \* MemoryCache: its entries, the size it tracks, its counters
  puts,     \* history: how many calls the cache has had
  doubled,  \* history: some key was put while it was in the cache
  batch,    \* LazyLoadBatch: loaded and pending counts, and the items
  stored,   \* the storage entry a LazyField stands for
  lazy,     \* LazyField.cached: the empty or one-element sequence
  seen      \* history: the values stored has had since the field was created
cachesVars == <<cache, puts, doubled, batch, stored, lazy, seen>>

\* MemoryCache::new, and cache_clear
EmptyCache == [entries |-> <<>>, total |-> 0, hits |-> 0, misses |-> 0, evictions |-> 0]

\* LazyLoadBatch::new, by create_lazy_batch
NewLazyBatch == [loaded |-> 0, pending |-> LazyItems, items |-> 0]

CachesInit ==
  /\ cache = EmptyCache /\ puts = 0 /\ doubled = FALSE
  /\ batch = NewLazyBatch
  /\ stored = 0 /\ lazy = <<>> /\ seen = {0}
-----------------------------------------------------------------------------
Copies(c, k) == {i \in DOMAIN c.entries : c.entries[i].key = k}
InCache(c, k) == Copies(c, k) # {}
Less(x, y) == IF x > y THEN x - y ELSE 0

\* cache_remove: all copies go, the size of the first is taken off.
Removed(c, k) ==
  [c EXCEPT !.entries = WithoutAll(@, {e \in CacheEntry : e.key = k}),
            !.total = IF InCache(c, k) THEN Less(@, c.entries[First(Copies(c, k))].size) ELSE @]

\* evict_cache_entry: last_access is the same everywhere, so the first entry
\* goes; its size is taken off by cache_remove and once more.
Evicted(c) ==
  IF c.entries = <<>> THEN c
  ELSE [Removed(c, c.entries[1].key) EXCEPT
          !.evictions = @ + 1, !.total = Less(@, c.entries[1].size)]

\* Mutant: the entry is counted with the size of the cache before it.
CachePutUncounted(e) ==
  LET room == IF cache.total >= MaxCacheSize THEN Evicted(cache) ELSE cache IN
  /\ puts < MaxPuts
  /\ e.size > 0
  /\ cache' = [room EXCEPT !.entries = Append(@, e)]
  /\ doubled' = (doubled \/ InCache(room, e.key))
  /\ puts' = puts + 1
  /\ UNCHANGED <<batch, stored, lazy, seen>>

\* cache_put of an entry that validate accepts; another one is dropped.
CachePut(e) ==
  LET room == IF cache.total >= MaxCacheSize THEN Evicted(cache) ELSE cache IN
  /\ puts < MaxPuts
  /\ e.size > 0
  /\ cache' = [room EXCEPT !.entries = Append(@, e), !.total = @ + e.size]
  /\ doubled' = (doubled \/ InCache(room, e.key))
  /\ puts' = puts + 1
  /\ UNCHANGED <<batch, stored, lazy, seen>>

\* cache_get returns the first copy and counts.
CacheGet(k) ==
  /\ puts < MaxPuts
  /\ cache' = IF InCache(cache, k) THEN [cache EXCEPT !.hits = @ + 1]
              ELSE [cache EXCEPT !.misses = @ + 1]
  /\ puts' = puts + 1
  /\ UNCHANGED <<doubled, batch, stored, lazy, seen>>

CacheRemove(k) ==
  /\ cache' = Removed(cache, k)
  /\ UNCHANGED <<puts, doubled, batch, stored, lazy, seen>>

CacheClear ==
  /\ cache' = EmptyCache /\ doubled' = FALSE
  /\ UNCHANGED <<puts, batch, stored, lazy, seen>>

\* load_batch_items: more than what is pending is not loaded at all.
LoadBatchItems(n) ==
  /\ n <= batch.pending
  /\ batch' = [loaded |-> batch.loaded + n, pending |-> batch.pending - n,
               items |-> batch.items + n]
  /\ UNCHANGED <<cache, puts, doubled, stored, lazy, seen>>

\* get_or_load_instance, get_or_load_persistent and get_or_default_instance:
\* what is cached is returned, whatever storage holds by then.
LazyGet ==
  /\ lazy' = IF lazy = <<>> THEN <<stored>> ELSE lazy
  /\ UNCHANGED <<cache, puts, doubled, batch, stored, seen>>

\* A call ends, and a field of the next one starts empty.
LazyNew ==
  /\ lazy' = <<>> /\ seen' = {stored}
  /\ UNCHANGED <<cache, puts, doubled, batch, stored>>

\* The call writes the entry behind the field.
StoreBehind(v) ==
  /\ stored' = v /\ seen' = seen \cup {v}
  /\ UNCHANGED <<cache, puts, doubled, batch, lazy>>

CachesNext ==
  \/ \E e \in CacheEntry : CachePut(e)
  \/ \E k \in CacheKeys : CacheGet(k) \/ CacheRemove(k)
  \/ CacheClear
  \/ \E n \in 1..LazyItems : LoadBatchItems(n)
  \/ LazyGet \/ LazyNew
  \/ \E v \in CachedValues : StoreBehind(v)

CachesSpec == CachesInit /\ [][CachesNext]_cachesVars
-----------------------------------------------------------------------------
CachesTypeOK ==
  /\ cache.entries \in Seq(CacheEntry) /\ cache.total \in Nat
  /\ \A i \in DOMAIN cache.entries : cache.entries[i].size > 0
  /\ batch.loaded + batch.pending = LazyItems /\ batch.items = batch.loaded
  /\ Len(lazy) <= 1 /\ stored \in CachedValues

RealSize(c) ==
  LET n == Len(c.entries) IN PrefixSums([i \in 1..n |-> c.entries[i].size], n)[n]

\* As long as no key is put twice, the cache never tracks more than it holds,
\* and exactly that until it evicts for the first time; from then on it holds
\* more than it tracks, because the size of an evicted entry is taken off
\* twice.  A lazy field shows a value that storage had during the call.
CachesSound ==
  /\ ~doubled => cache.total <= RealSize(cache)
  /\ ~doubled /\ cache.evictions = 0 => cache.total = RealSize(cache)
  /\ lazy # <<>> => lazy[1] \in seen
=============================================================================
