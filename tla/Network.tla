------------------------------ MODULE Network ------------------------------
(***************************************************************************)
(* network_optimization.rs: a writer that holds writes back and coalesces  *)
(* them, a filter for repeated events, and a cache of four values, all in  *)
(* the memory of one transaction, with the counters they share.            *)
(***************************************************************************)
EXTENDS Ledger, Loops

CONSTANTS
  MaxBatchSize,     \* MAX_BATCH_SIZE, 16 in the code
  MaxDedupEntries,  \* MAX_DEDUP_ENTRIES, 32 in the code
  WriteValues,      \* values written
  TopicHeads,       \* the first 32 bytes of a topic
  TopicTails,       \* what follows them
  MaxOptimised      \* bound on the calls of a transaction

ASSUME NetworkAssumption ==
  /\ MaxBatchSize \in Nat \ {0} /\ {MaxDedupEntries, MaxOptimised} \subseteq Nat
  /\ WriteValues \subseteq Nat /\ IsFiniteSet(WriteValues)
  /\ IsFiniteSet(TopicHeads) /\ IsFiniteSet(TopicTails)

\* The keys that preload reads.
NetworkKeys == {"Goal", "TotalRaised", "Deadline", "MinContribution"}

\* struct GasMetrics
NoGas == [reads |-> 0, writes |-> 0, emitted |-> 0, suppressed |-> 0, coalesced |-> 0]

\* struct PendingWrite
PendingWrite == [key : NetworkKeys, value : WriteValues]

VARIABLES
  entries,  \* the instance storage the writer writes to, None when absent
  pending,  \* BatchWriter's queue
  fingerprints,     \* EventDeduplicator's fingerprints
  cached,   \* the NetworkCache last loaded
  gas,      \* the GasMetrics every call is given
  wanted,   \* history: the value queued last for each key
  sent      \* history: how often each event was let through
networkVars == <<entries, pending, fingerprints, cached, gas, wanted, sent>>

NothingStored == [k \in NetworkKeys |-> None]
Events == TopicHeads \X TopicTails \X WriteValues

\* BatchWriter::new, EventDeduplicator::new, NetworkCache::new, GasMetrics::new
NetworkInit ==
  /\ entries = NothingStored /\ wanted = NothingStored /\ cached = NothingStored
  /\ pending = <<>>
  /\ fingerprints = {}
  /\ gas = NoGas
  /\ sent = [e \in Events |-> 0]
-----------------------------------------------------------------------------
\* The storage after the writes of list, in their order.
Written(list) ==
  [k \in NetworkKeys |->
     LET at == {i \in DOMAIN list : list[i].key = k}
     IN IF at = {} THEN entries[k]
        ELSE list[CHOOSE i \in at : \A j \in at : j <= i].value]

\* The writes that wait for k.
Waiting(k) == {i \in DOMAIN pending : pending[i].key = k}

\* BatchWriter::queue: of a key that is waiting only the newest value is kept;
\* a full queue is flushed first.
Queue(k, v) ==
  LET at == Waiting(k)
      full == Len(pending) >= MaxBatchSize
      write == [key |-> k, value |-> v]
  IN /\ IF at # {}
        THEN /\ pending' = [pending EXCEPT ![First(at)] = write]
             /\ gas' = [gas EXCEPT !.coalesced = @ + 1]
             /\ UNCHANGED entries
        ELSE /\ pending' = Append(IF full THEN <<>> ELSE pending, write)
             /\ entries' = IF full THEN Written(pending) ELSE entries
             /\ gas' = [gas EXCEPT !.writes = @ + (IF full THEN Len(pending) ELSE 0)]
     /\ wanted' = [wanted EXCEPT ![k] = v]
     /\ UNCHANGED <<fingerprints, cached, sent>>

\* BatchWriter::flush
Flush ==
  /\ entries' = Written(pending)
  /\ pending' = <<>>
  /\ gas' = [gas EXCEPT !.writes = @ + Len(pending)]
  /\ UNCHANGED <<fingerprints, cached, wanted, sent>>

\* fingerprint reads no more than 32 bytes of the topic; as a hash of what it
\* reads it is taken to be free of collisions.
Fingerprint(e) == <<e[1], e[3]>>
Fingerprints == TopicHeads \X WriteValues

\* EventDeduplicator::should_emit; a full table remembers nothing new.
ShouldEmit(e) ==
  /\ IF Fingerprint(e) \in fingerprints
     THEN /\ gas' = [gas EXCEPT !.suppressed = @ + 1]
          /\ UNCHANGED <<fingerprints, sent>>
     ELSE /\ fingerprints' = IF Cardinality(fingerprints) < MaxDedupEntries
                     THEN fingerprints \cup {Fingerprint(e)} ELSE fingerprints
          /\ gas' = [gas EXCEPT !.emitted = @ + 1]
          /\ sent' = [sent EXCEPT ![e] = @ + 1]
  /\ UNCHANGED <<entries, pending, cached, wanted>>

\* NetworkCache::preload reads storage, not what is pending.
Preload ==
  /\ cached' = entries
  /\ gas' = [gas EXCEPT !.reads = @ + 4]
  /\ UNCHANGED <<entries, pending, fingerprints, wanted, sent>>

Queued == gas.writes + gas.coalesced + Len(pending)
Offered == gas.emitted + gas.suppressed

NetworkNext ==
  /\ Unsigned
  /\ Queued + Offered < MaxOptimised
  /\ \/ \E k \in NetworkKeys, v \in WriteValues : Queue(k, v)
     \/ Flush
     \/ \E e \in Events : ShouldEmit(e)
     \/ cached # entries /\ Preload
-----------------------------------------------------------------------------
\* event_efficiency_pct
EventEfficiency == IF Offered = 0 THEN 100 ELSE (gas.emitted * 100) \div Offered

\* total_storage_ops
TotalStorageOps == gas.reads + gas.writes

\* goal_or, total_raised_or, deadline_or, min_contribution_or
CachedOr(k, default) == IF cached[k] = None THEN default ELSE cached[k]

\* is_fully_loaded, of has_goal, has_total_raised, ...
IsFullyLoaded == \A k \in NetworkKeys : cached[k] # None

NetworkTypeOK ==
  /\ entries \in [NetworkKeys -> WriteValues \cup {None}]
  /\ pending \in Seq(PendingWrite) /\ Len(pending) <= MaxBatchSize
  /\ fingerprints \subseteq Fingerprints /\ Cardinality(fingerprints) <= MaxDedupEntries
  /\ DOMAIN gas = DOMAIN NoGas /\ \A f \in DOMAIN gas : gas[f] \in Nat

\* How many events that look like f were let through.
LetThrough == [f \in Fingerprints |-> Sum(sent, {e \in Events : Fingerprint(e) = f})]

\* No write is lost, doubled or applied over a later one: what was queued last
\* for a key is the one write waiting for it or, with none waiting, stored.
\* An event is let through once, unless the table filled up before it came;
\* what is suppressed is a repetition of one let through or shares the first
\* 32 bytes of its topic with one.
NetworkExact ==
  /\ \A k \in NetworkKeys :
       /\ Cardinality(Waiting(k)) <= 1
       /\ Waiting(k) = {} => entries[k] = wanted[k]
       /\ \A i \in Waiting(k) : pending[i].value = wanted[k]
  /\ \A f \in fingerprints : LetThrough[f] = 1
  /\ \A e \in Events : sent[e] > 0 /\ Fingerprint(e) \notin fingerprints =>
       Cardinality(fingerprints) = MaxDedupEntries
  /\ Sum(LetThrough, Fingerprints) = gas.emitted
  /\ EventEfficiency \in 0..100 /\ (EventEfficiency = 100 <=> gas.suppressed = 0)
  /\ IsFullyLoaded => \A k \in NetworkKeys : CachedOr(k, None) # None /\ wanted[k] # None
=============================================================================
