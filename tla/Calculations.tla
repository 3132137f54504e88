---------------------------- MODULE Calculations ----------------------------
(***************************************************************************)
(* The pure functions of the helper modules: arithmetic on amounts, loops  *)
(* over lists, versions, storage keys, budgets.  Nothing calls them in an  *)
(* order that matters, so the state is the operands of one evaluation, and *)
(* what each function returns is compared with what it stands for.  None   *)
(* and saturation are answers and modelled; an operation that overflows    *)
(* unchecked aborts and answers nothing, so operands stay below that.      *)
(***************************************************************************)
EXTENDS Loops, FiniteSetsExt

CONSTANTS
  Operands,       \* the amounts in lists
  MaxOperands,    \* bound on the length of a list
  Naturals3,      \* the naturals a numeric function is applied to, in triples
  MaxItems,       \* MAX_LOOP_ITEMS and MAX_ITER_DEPTH: 1_000 in the code
  MaxSlice,       \* MAX_BATCH of computation_optimization.rs: 50 in the code
  MaxTiers,       \* MAX_TIERS: 8 in the code
  MaxBatchSize,   \* MAX_BATCH_SIZE of a batch of entries: 10 in the code
  FullScale,      \* BPS_SCALE: 10_000 in the code
  IntMax,         \* i128::MAX, where sums saturate
  PageMax,        \* FRONTEND_PAGE_SIZE_MAX: 100 in the code
  MaxEvents,      \* MAX_EVENTS_PER_TX: 100 in the code
  HalfKey,        \* 2^64, the weight of a storage key's prefix
  YearLength,     \* the 365 days of the timestamp probe
  MaxOperations   \* what the DoS probe allows, 100 in the code

ASSUME CalculationsAssumption ==
  /\ Operands \subseteq Int /\ MaxOperands \in Nat /\ Naturals3 \subseteq Nat
  /\ {MaxItems, MaxSlice, MaxTiers, MaxBatchSize, FullScale, IntMax, PageMax,
      MaxEvents, HalfKey, YearLength, MaxOperations} \subseteq Nat \ {0}
  /\ MaxTiers >= 2 /\ MaxSlice >= 2

VARIABLE operands   \* the arguments of the evaluation

calcVars == <<operands>>

Lists == UNION {[1..m -> Operands] : m \in 0..MaxOperands}

CalculationsInit == operands = [list |-> <<>>, other |-> <<>>, n |-> <<0, 0, 0>>]

EvaluateLists(list, other) ==
  operands' = [operands EXCEPT !.list = list, !.other = other]

EvaluateNumbers(n) == operands' = [operands EXCEPT !.n = n]

\* From the blank operands, one evaluation.
CalculationsNext ==
  /\ operands = [list |-> <<>>, other |-> <<>>, n |-> <<0, 0, 0>>]
  /\ \/ \E list, other \in Lists : EvaluateLists(list, other)
     \/ \E n \in [1..3 -> Naturals3] : EvaluateNumbers(n)

CalculationsTypeOK ==
  operands \in [list : Lists, other : Lists, n : [1..3 -> Naturals3 \cup {0}]]

\* The bits that x and y share.
And(x, y) ==
  LET and[s \in (0..x) \X (0..y)] ==
        IF s[1] = 0 \/ s[2] = 0 THEN 0
        ELSE 2 * and[<<s[1] \div 2, s[2] \div 2>>] + (s[1] % 2) * (s[2] % 2)
  IN  and[<<x, y>>]

\* PowersOfTwo(n)[k] is two to the power of k.
PowersOfTwo(n) ==
  LET power[k \in 0..n] == IF k = 0 THEN 1 ELSE 2 * power[k-1]
  IN  power

\* Shared by several of them: the least and the greatest element, the sum, the
\* part of a list a bounded loop visits.
Least(list) == CHOOSE x \in Range(list) : \A y \in Range(list) : x <= y
Greatest(list) == CHOOSE x \in Range(list) : \A y \in Range(list) : y <= x
Total(list) == PrefixSums(list, Len(list))[Len(list)]
Visited(list) == SubSeq(list, 1, IF Len(list) < MaxItems THEN Len(list) ELSE MaxItems)
Between(low, x, high) == IF x < low THEN low ELSE IF x > high THEN high ELSE x
-----------------------------------------------------------------------------
(* computation_optimization.rs *)

\* isqrt: Newton's method from x = n downwards.
Isqrt(n) ==
  LET newton[x \in 1..n] ==
        LET y == (x + (n \div x)) \div 2 IN IF y < x THEN newton[y] ELSE x
      first == (n + 1) \div 2
  IN IF n < 2 THEN n ELSE IF first < n THEN newton[first] ELSE n

\* weighted_average; None is <<>>, Some(x) is <<x>>.  As nothing is negative,
\* a sum fits when its end does.
WeightedAverage(amounts, weights) ==
  LET product == [i \in 1..Len(amounts) |-> amounts[i] * weights[i]] IN
  IF \/ Len(amounts) # Len(weights) \/ Len(amounts) > MaxSlice
     \/ \E i \in 1..Len(amounts) : amounts[i] < 0 \/ weights[i] < 0
     \/ Total(product) > IntMax \/ Total(weights) > IntMax
     \/ Total(weights) = 0
  THEN <<>> ELSE <<Total(product) \div Total(weights)>>

\* tiered_fee_bps: the first tier that reaches the amount, or the last.  A tier
\* is <<threshold, rate>>.
TieredFee(amount, tiers) ==
  IF tiers = <<>> \/ Len(tiers) > MaxTiers \/ amount <= 0 THEN <<>>
  ELSE LET reaching == {i \in 1..Len(tiers) : amount <= tiers[i][1]}
           chosen == IF reaching = {} THEN Len(tiers) ELSE Min(reaching)
           scaled == amount * tiers[chosen][2]
       IN IF scaled > IntMax THEN <<>> ELSE <<scaled \div FullScale>>

\* batch_min_max
MinMax(values) ==
  IF values = <<>> \/ Len(values) > MaxSlice THEN <<>>
  ELSE <<Least(values), Greatest(values)>>

\* percentile_rank_bps
PercentileRank(target, values) ==
  IF values = <<>> \/ Len(values) > MaxSlice THEN <<>>
  ELSE <<(Cardinality({i \in DOMAIN values : values[i] <= target}) * FullScale)
           \div Len(values)>>

\* deadline_proximity_bps
DeadlineProximity(now0, start, deadline) ==
  IF deadline <= start \/ now0 < start THEN 0
  ELSE IF now0 >= deadline THEN FullScale
  ELSE ((now0 - start) * FullScale) \div (deadline - start)

Saturated(x) == Between(-IntMax - 1, x, IntMax)

\* compound_progress_bps, for a total that is not negative.
CompoundProgress(raised, goals) ==
  IF \/ goals = <<>> \/ Len(goals) > MaxSlice
     \/ \E i \in 1..Len(goals) : goals[i] <= 0
  THEN <<>>
  ELSE [i \in 1..Len(goals) |->
          Between(0, Saturated(raised * FullScale) \div goals[i], FullScale)]
-----------------------------------------------------------------------------
(* loop_optimization.rs: each loop stops after MaxItems elements. *)

\* bounded_sum saturates at each addition.
BoundedSum(items) ==
  LET n == Len(Visited(items))
      sum[i \in 0..n] == IF i = 0 THEN 0 ELSE Saturated(sum[i-1] + items[i])
  IN  sum[n]

\* find_first; the predicate is the set of the values that satisfy it.
FindFirst(items, good) ==
  LET found == Hits(Visited(items), good) IN
  IF found = {} THEN <<>> ELSE <<items[First(found)]>>

\* count_matching
CountMatching(items, good) == Cardinality(Hits(Visited(items), good))

\* all_satisfy
AllSatisfy(items, good) == \A i \in 1..Len(Visited(items)) : items[i] \in good

\* aggregate_stats
AggregateStats(items) ==
  IF items = <<>> THEN [count |-> 0, sum |-> 0, max |-> 0, min |-> 0]
  ELSE [count |-> Len(Visited(items)), sum |-> BoundedSum(items),
        max |-> Greatest(Visited(items)), min |-> Least(Visited(items))]

\* deduplicate_sorted drops an element that equals the one kept before it.
DeduplicateSorted(items) ==
  LET n == Len(Visited(items))
      kept[i \in 0..n] ==
        IF i = 0 THEN <<>>
        ELSE IF kept[i-1] # <<>> /\ kept[i-1][Len(kept[i-1])] = items[i] THEN kept[i-1]
        ELSE Append(kept[i-1], items[i])
  IN  kept[n]
-----------------------------------------------------------------------------
(* batch_processing_optimization.rs; an entry is <<contributor, amount>>. *)

Amount(entries) == [i \in 1..Len(entries) |-> entries[i][2]]

\* validate_batch
ValidateBatch(entries) ==
  /\ entries # <<>> /\ Len(entries) <= MaxBatchSize
  /\ \A i \in 1..Len(entries) : entries[i][2] > 0
  /\ \A i, j \in 1..Len(entries) : entries[i][1] = entries[j][1] => i = j

\* summarize_batch
SummarizeBatch(entries) ==
  [count |-> Len(entries), total_amount |-> Total(Amount(entries)),
   max_amount |-> Greatest(Amount(entries)), min_amount |-> Least(Amount(entries))]

\* filter_above_threshold
FilterAboveThreshold(entries, threshold) ==
  WithoutAll(entries, {e \in Range(entries) : e[2] <= threshold})

\* compute_batch_fee rounds each entry's fee down.
ComputeBatchFee(entries, rate) ==
  Total([i \in 1..Len(entries) |-> (entries[i][2] * rate) \div FullScale])
-----------------------------------------------------------------------------
(* gas_optimization_algorithms.rs and the estimates of other helpers. *)

\* Mutant: the search compares strictly and misses perfect squares.
ApproximateSqrtStrict(n) ==
  LET search[s \in (1..(n + 1)) \X (0..n)] ==
        LET mid == s[1] + ((s[2] - s[1]) \div 2) IN
        IF s[1] > s[2] THEN s[1] - 1
        ELSE IF mid < n \div mid THEN search[<<mid + 1, s[2]>>]
        ELSE search[<<s[1], mid - 1>>]
  IN IF n = 0 THEN 0 ELSE search[<<1, n>>]

\* approximate_sqrt: a binary search over 1..n; s is the interval that
\* is left.
ApproximateSqrt(n) ==
  LET search[s \in (1..(n + 1)) \X (0..n)] ==
        LET mid == s[1] + ((s[2] - s[1]) \div 2) IN
        IF s[1] > s[2] THEN s[1] - 1
        ELSE IF mid <= n \div mid THEN search[<<mid + 1, s[2]>>]
        ELSE search[<<s[1], mid - 1>>]
  IN IF n = 0 THEN 0 ELSE search[<<1, n>>]

\* calculate_optimal_batch_size: small batches whole, larger ones by the root.
OptimalBatchSize(operations, max) ==
  IF operations = 0 THEN 0
  ELSE IF operations <= 10 THEN Min({operations, max})
  ELSE Max({1, Min({ApproximateSqrt(operations), max})})

\* estimate_gas_savings_bps
GasSavings(entries) ==
  IF entries <= 1 THEN 0 ELSE Min({(entries - 1) * 30, FullScale})

\* iterative_first_unmet_milestone returns an index from 0.
FirstUnmet(milestones, raised) ==
  LET unmet == {i \in 1..Len(Visited(milestones)) : raised < milestones[i]} IN
  IF unmet = {} THEN <<>> ELSE <<Min(unmet) - 1>>

\* is_power_of_two
IsPowerOfTwo(n) == n > 0 /\ And(n, n - 1) = 0

\* within_budget, utilization_pct, estimated_rejected_writes; the product
\* saturates at u64::MAX.
WithinBudget(used, cap) == used <= cap
Utilization(used, cap) ==
  IF cap = 0 THEN 100 ELSE Min({Min({used * 100, HalfKey - 1}) \div cap, 100})
RejectedWrites(total, quota) == Max({0, total - quota})

\* hit_rate of OptimizationCache, progress of LazyBatch
HitRate(hits, misses) ==
  IF hits + misses = 0 THEN 0 ELSE (hits * 100) \div (hits + misses)
LazyProgress(loaded, size) == IF size = 0 THEN 100 ELSE (loaded * 100) \div size

\* calculate_effectiveness and generate_metrics
Effectiveness(original, optimized) ==
  IF original = 0 THEN 0 ELSE (Max({0, original - optimized}) * 100) \div original
Metrics(original, optimized) ==
  [memory_saved |-> Max({0, original - optimized}),
   effectiveness |-> Effectiveness(original, optimized)]

\* The event budget of stellar_token_minter.rs and the event that needs one.
WithinEventBudget(emitted) == emitted < MaxEvents
RemainingEventBudget(reserved) == Max({0, MaxEvents - reserved})
EmitsBatchSummary(count, emitted) == count # 0 /\ WithinEventBudget(emitted)
-----------------------------------------------------------------------------
(* storage_optimization.rs *)

FlagActive == 1
FlagGoalReached == 2
FlagWithdrawn == 4

\* CompactCampaign, as create_compact_campaign builds it.
CompactCampaign(goal, deadline) ==
  [goal |-> goal, deadline |-> deadline, raised |-> 0, flags |-> FlagActive]
SetFlag(campaign, flag) == [campaign EXCEPT !.flags = @ + flag - And(@, flag)]
ClearFlag(campaign, flag) == [campaign EXCEPT !.flags = @ - And(@, flag)]
HasFlag(campaign, flag) == And(campaign.flags, flag) # 0

\* generate_storage_key, for an id below HalfKey, and unpack_storage_key.
GenerateStorageKey(prefix, id) == prefix * HalfKey + id
UnpackStorageKey(key) == <<key \div HalfKey, key % HalfKey>>

\* estimate_storage_cost, is_optimization_beneficial
StorageCost(size) == 1000 + size * 10
OptimizationBeneficial(current, optimized, cost) ==
  StorageCost(current) - StorageCost(optimized) > cost

\* compact_map_storage drops the keys whose value is zero.
CompactMap(map) == [k \in {x \in DOMAIN map : map[x] # 0} |-> map[k]]

\* calculate_optimal_batch_size of this file, at 1_000 gas an item; what the gas
\* pays for is a u32.
GasBatchSize(items, gas) == Min({items, gas \div 1000})
-----------------------------------------------------------------------------
(* soroban_sdk_minor.rs; a version is <<major, minor, patch>>, and <<>> when
   it is empty.  A number that does not parse is 0. *)

AssessCompatibility(from, to) ==
  IF from = <<>> \/ to = <<>> THEN "Incompatible"
  ELSE IF from[1] # to[1] THEN "RequiresMigration" ELSE "Compatible"

\* is_minor_bump
IsMinorBump(from, to) == from[1] = to[1] /\ to[2] > from[2]

\* clamp_page_size, pagination_window
ClampPageSize(requested) == Between(1, requested, PageMax)
PaginationWindow(offset, requested) ==
  [start |-> offset, limit |-> ClampPageSize(requested)]
-----------------------------------------------------------------------------
(* dependency_vulnerability_scanning.rs *)

\* lt and lte of Version
Older(v, w) ==
  \/ v[1] < w[1]
  \/ v[1] = w[1] /\ v[2] < w[2]
  \/ v[1] = w[1] /\ v[2] = w[2] /\ v[3] < w[3]
NotNewer(v, w) == v = w \/ Older(v, w)

\* ADVISORIES: the range each concerns, from the first version up to the one
\* with the fix.
Advisories ==
  <<[id |-> "RUSTSEC-2024-0001", from |-> <<0, 1, 0>>, fixed |-> <<20, 0, 0>>, severity |-> 3],
    [id |-> "RUSTSEC-2024-0002", from |-> <<20, 0, 0>>, fixed |-> <<21, 0, 0>>, severity |-> 2]>>

\* Advisory::affects
Affects(advisory, v) == ~Older(v, advisory.from) /\ Older(v, advisory.fixed)

\* scan_all
ScanAll(v) == WithoutAll(Advisories, {a \in Range(Advisories) : ~Affects(a, v)})

\* scan_dependency reports the first of them; has_vulnerability
ScanDependency(v) ==
  IF ScanAll(v) = <<>>
  THEN [advisory |-> "CLEAN", severity |-> 0, is_vulnerable |-> FALSE]
  ELSE [advisory |-> ScanAll(v)[1].id, severity |-> ScanAll(v)[1].severity,
        is_vulnerable |-> TRUE]

\* max_severity
MaxSeverity(v) == Max({0} \cup {a.severity : a \in Range(ScanAll(v))})

\* emit_scan_event publishes what is actionable: High or Critical.
ScanEventEmitted(v) == ScanDependency(v).severity >= 3
-----------------------------------------------------------------------------
(* security_testing_integration.rs; a result is <<passed, severity>>. *)

\* run_security_test_suite
RunTestSuite(outcomes) ==
  LET failed == {i \in DOMAIN outcomes : ~outcomes[i][1]} IN
  [total |-> Len(outcomes), passed |-> Len(outcomes) - Cardinality(failed),
   failed |-> Cardinality(failed),
   critical |-> Cardinality({i \in failed : outcomes[i][2] = "CRITICAL"})]

\* calculate_security_score: ten points off for each critical failure.
SuiteScore(ran) ==
  IF ran.total = 0 THEN 0
  ELSE Max({0, (ran.passed * 100) \div ran.total - ran.critical * 10})

\* meets_security_requirements, generate_security_report
MeetsRequirements(ran, least) == SuiteScore(ran) >= least /\ ran.critical = 0
SuiteReport(ran) ==
  IF ran.critical = 0 /\ ran.failed = 0 THEN "all passed"
  ELSE IF ran.critical > 0 THEN "critical" ELSE "some failed"

\* The ten probes of the same file with their severities.  The first two pass
\* whatever they are given; four report what they are told about protection.
ProbeResults(authorized, deadline, time, operations, inRange, told) ==
  <<<<TRUE, "CRITICAL">>, <<TRUE, "HIGH">>,
    <<authorized, "CRITICAL">>, <<deadline <= time + YearLength, "MEDIUM">>,
    <<operations <= MaxOperations, "HIGH">>, <<told, "MEDIUM">>,
    <<told, "HIGH">>, <<inRange, "HIGH">>, <<told, "MEDIUM">>,
    <<told, "CRITICAL">>>>

\* validate_security_posture of security_remediation.rs
PostureValid(severities) == "CRITICAL" \notin Range(severities)
-----------------------------------------------------------------------------
(* What the functions promise, for the operands of the evaluation. *)

Left == operands.list
Right == operands.other
X == operands.n[1]
Y == operands.n[2]
Z == operands.n[3]

\* Newton's method and the binary search both find the root rounded down, and
\* a batch sized by it is neither empty nor larger than asked for.
RootsExact ==
  LET r == ApproximateSqrt(X) IN
  /\ r * r <= X /\ X < (r + 1) * (r + 1)
  /\ Isqrt(X) = r
  /\ Y > 0 => LET size == OptimalBatchSize(X, Y) IN
              size <= X /\ size <= Y /\ (size = 0 <=> X = 0)
  /\ IsPowerOfTwo(X) <=> \E k \in 0..X : X = PowersOfTwo(X)[k]

\* An average lies within the amounts it averages; a rank is full exactly at
\* the greatest value of a list that is not too long; the extremes are those of
\* the aggregate, as far as its loop goes.
AveragesWithin ==
  /\ WeightedAverage(Left, Right) # <<>> =>
       WeightedAverage(Left, Right)[1] \in Least(Left)..Greatest(Left)
  /\ \A x \in Operands :
       PercentileRank(x, Left) = <<FullScale>> <=>
         MinMax(Left) # <<>> /\ x >= MinMax(Left)[2]
  /\ Visited(Left) = Left /\ MinMax(Left) # <<>> =>
       MinMax(Left) = <<AggregateStats(Left).min, AggregateStats(Left).max>>

\* The loops visit the same elements, and stop at the same one: a search finds
\* something exactly where the count is not zero.  A sum is exact unless
\* one of its prefixes leaves the range; a list without repeats keeps its order.
LoopsAgree ==
  LET Positive == {x \in Operands : x > 0} IN
  /\ FindFirst(Left, Positive) # <<>> <=> CountMatching(Left, Positive) > 0
  /\ AllSatisfy(Left, Positive) <=> CountMatching(Left, Positive) = AggregateStats(Left).count
  /\ (\A k \in 0..Len(Visited(Left)) : Total(SubSeq(Left, 1, k)) = Saturated(Total(SubSeq(Left, 1, k))))
       => BoundedSum(Left) = Total(Visited(Left))
  /\ LET once == DeduplicateSorted(Left) IN
       /\ Range(once) = Range(Visited(Left))
       /\ \A i \in 2..Len(once) : once[i] # once[i - 1]
       /\ (\A i \in 2..Len(Visited(Left)) : Left[i] >= Left[i - 1]) =>
            Len(once) = Cardinality(Range(once))

\* Fees rounded entry by entry fall short of the fee of the whole batch by
\* less than one token for each entry; a valid batch has a least amount.
BatchFeesClose ==
  Len(Left) = Len(Right) /\ Left # <<>> =>
    LET entries == [i \in 1..Len(Left) |-> <<Right[i], Left[i]>>]
        batch == SummarizeBatch(entries) IN
    ValidateBatch(entries) =>
      /\ batch.min_amount > 0 /\ batch.total_amount >= batch.count
      /\ FilterAboveThreshold(entries, batch.min_amount - 1) = entries
      /\ FilterAboveThreshold(entries, batch.max_amount) = <<>>
      /\ \A rate \in 0..FullScale :
           LET whole == (batch.total_amount * rate) \div FullScale IN
           ComputeBatchFee(entries, rate) \in (whole - Len(Left) + 1)..whole

\* Each proximity, progress and percentage is within its scale, grows with
\* what it measures, and is full exactly at the end; where a product saturates,
\* at most at the end.
ScalesMonotone ==
  /\ DeadlineProximity(X, Y, Z) \in 0..FullScale
  /\ DeadlineProximity(X, Y, Z) <= DeadlineProximity(X + 1, Y, Z)
  /\ Y < Z => (DeadlineProximity(X, Y, Z) = FullScale <=> X >= Z)
  /\ Z > 0 => LET progress == CompoundProgress(X, <<Z, Y + 1>>)[1] IN
              /\ progress = FullScale => X >= Z
              /\ X >= Z /\ X * FullScale <= IntMax => progress = FullScale
  /\ FirstUnmet(<<Y, Z>>, X) = <<>> \/ X < <<Y, Z>>[FirstUnmet(<<Y, Z>>, X)[1] + 1]
  /\ Utilization(X, Y) = 100 => X >= Y
  /\ X >= Y /\ X * 100 < HalfKey => Utilization(X, Y) = 100
  /\ WithinBudget(X, Y) <=> RejectedWrites(X, Y) = 0
  /\ HitRate(X, Y) = 100 <=> X > 0 /\ Y = 0
  /\ X <= Y => LazyProgress(X, Y) <= 100
  /\ Metrics(X, Y).effectiveness <= 100 /\ Metrics(X, Y).memory_saved <= X
  /\ GasSavings(X) <= GasSavings(X + 1) /\ GasSavings(X) <= FullScale
  /\ EmitsBatchSummary(Y, X) <=> Y > 0 /\ RemainingEventBudget(X) > 0

\* A larger amount never pays a smaller fee within a tier, and tiers that are
\* in order are those the thresholds delimit.
TiersOrdered ==
  LET tiers == <<<<Y, 1>>, <<Y + Z, 2>>>> IN
  X > 0 /\ 2 * X <= IntMax =>
    TieredFee(X, tiers) = <<(X * (IF X <= Y THEN 1 ELSE 2)) \div FullScale>>

\* Setting or clearing a flag leaves the others as they were; a key unpacks to
\* what it was made of; compacting loses no value that is not zero.
StorageFaithful ==
  LET flags == {FlagActive, FlagGoalReached, FlagWithdrawn}
      campaign == [CompactCampaign(X, Y) EXCEPT !.flags = Z % 8] IN
  /\ \A f, g \in flags :
       /\ HasFlag(SetFlag(campaign, f), g) <=> f = g \/ HasFlag(campaign, g)
       /\ HasFlag(ClearFlag(campaign, f), g) <=> f # g /\ HasFlag(campaign, g)
  /\ HasFlag(CompactCampaign(X, Y), FlagActive)
  /\ Y < HalfKey => UnpackStorageKey(GenerateStorageKey(X, Y)) = <<X, Y>>
  /\ Range(CompactMap(Left)) = Range(Left) \ {0}
  /\ OptimizationBeneficial(X, Y, Z) => X > Y
  /\ GasBatchSize(X, Y * 1000) = Min({X, Y})

\* A minor bump needs no migration and makes the version newer; versions are
\* totally ordered; pages are never empty nor larger than the limit.
VersionsOrdered ==
  LET v == operands.n
      w == <<Y, X, Z>> IN
  /\ Older(v, w) \/ Older(w, v) \/ v = w
  /\ ~(Older(v, w) /\ NotNewer(w, v))
  /\ IsMinorBump(v, w) => AssessCompatibility(v, w) = "Compatible" /\ Older(v, w)
  /\ PaginationWindow(X, Y).limit \in 1..PageMax

\* A version is vulnerable, in all the functions that ask, exactly when it is
\* older than the last fix and not older than the first affected one; the
\* advisories' ranges do not overlap, so the first is also the most severe.
ScansAgree ==
  LET v == operands.n
      scan == ScanDependency(v) IN
  /\ scan.is_vulnerable <=> ~Older(v, <<0, 1, 0>>) /\ Older(v, <<21, 0, 0>>)
  /\ scan.severity = MaxSeverity(v)
  /\ Len(ScanAll(v)) <= 1
  /\ ScanEventEmitted(v) <=> scan.is_vulnerable /\ Older(v, <<20, 0, 0>>)

\* A suite meets any requirement only without a critical failure; the report
\* of an empty one is nevertheless that all passed, with the score zero.  Of the
\* ten probes each failure costs ten points and a critical one ten more, and the
\* report depends on the caller and on what the probes are told.
SuitesConsistent ==
  LET severity(i) == IF i \in DOMAIN Right /\ Right[i] > 0 THEN "CRITICAL" ELSE "HIGH"
      outcomes == [i \in 1..Len(Left) |-> <<Left[i] > 0, severity(i)>>]
      ran == RunTestSuite(outcomes) IN
  /\ SuiteScore(ran) \in 0..100
  /\ SuiteScore(ran) = 100 => SuiteReport(ran) = "all passed"
  /\ SuiteReport(ran) = "all passed" /\ Left # <<>> => MeetsRequirements(ran, 100)
  /\ MeetsRequirements(ran, 0) <=> SuiteReport(ran) # "critical"
  /\ \A told \in BOOLEAN :
       LET probed == RunTestSuite(ProbeResults(X = Y, Y, Z, X, Z <= Y, told)) IN
       /\ SuiteScore(probed) = Max({0, 100 - 10 * (probed.failed + probed.critical)})
       /\ SuiteReport(probed) = "critical" <=> X # Y \/ ~told
  /\ PostureValid([i \in 1..Len(Left) |-> outcomes[i][2]]) => SuiteReport(ran) # "critical"

\* The helper functions return what they stand for, and those that compute the
\* same agree with each other.
CalculationsSound ==
  /\ RootsExact /\ AveragesWithin /\ LoopsAgree /\ BatchFeesClose
  /\ ScalesMonotone /\ TiersOrdered /\ StorageFaithful /\ VersionsOrdered
  /\ ScansAgree /\ SuitesConsistent
=============================================================================
