------------------------------ MODULE Limiters ------------------------------
(***************************************************************************)
(* The limits a caller can put on its own work: ResourceBudget,            *)
(* RateLimiter and StorageQuota of resource_management.rs, and the stored  *)
(* configuration of rate_limiting.rs.  The ledger's sequence number is the *)
(* clock of the rate limiter.                                              *)
(***************************************************************************)
EXTENDS Ledger, Loops

CONSTANTS
  CpuCap,        \* ResourceBudget.cpu_cap
  MemoryCap,     \* ResourceBudget.memory_cap
  Works,         \* what one operation may consume
  MaxWork,       \* u64::MAX, where the sums saturate
  RateLimit,     \* RateLimiter.limit
  WindowLen,     \* RateLimiter.window_ledgers
  Quota,         \* StorageQuota.quota
  RateSettings,  \* what set_rate_limit is called with, for either number
  MaxSetting     \* MAX_MAX_REQUESTS and MAX_WINDOW_SECONDS in the code

ASSUME LimitersAssumption ==
  /\ {CpuCap, MemoryCap, MaxWork, RateLimit, WindowLen, Quota, MaxSetting} \subseteq Nat
  /\ Works \subseteq Nat /\ RateSettings \subseteq Nat

VARIABLES
  budget,      \* ResourceBudget: what was used of either resource
  limiter,     \* RateLimiter: the start of its window and the calls in it
  quotaUsed,   \* StorageQuota.used
  rateConfig,  \* the "config" entry of rate_limiting.rs
  admitted,    \* history: the ledger of every call the limiter let through
  busted       \* history: the budget was exceeded once
limiterVars == <<budget, limiter, quotaUsed, rateConfig, admitted, busted>>

LimitersInit ==
  /\ budget = [cpu |-> 0, memory |-> 0]
  /\ limiter = [start |-> now, count |-> 0]
  /\ quotaUsed = 0
  /\ rateConfig = None
  /\ admitted = <<>> /\ busted = FALSE
-----------------------------------------------------------------------------
Saturated(x, max) == IF x > max THEN max ELSE x

\* ResourceBudget::check
WithinBudget(b) == b.cpu <= CpuCap /\ b.memory <= MemoryCap

\* cpu_utilization_pct and memory_utilization_pct
UtilizationPct(used, cap) ==
  IF cap = 0 THEN 100 ELSE Saturated(Saturated(used * 100, MaxWork) \div cap, 100)

\* cpu_remaining and memory_remaining
Remaining(used, cap) == IF used > cap THEN 0 ELSE cap - used

\* RateLimiter::is_exhausted, which does not look at the window.
LimiterExhausted == limiter.count >= RateLimit

\* StorageQuota::is_exhausted
QuotaExhausted == quotaUsed >= Quota
-----------------------------------------------------------------------------
\* ResourceBudget::consume: what exceeds the cap is an error and stays counted.
Consume(cpu, memory) ==
  /\ budget' = [cpu    |-> Saturated(budget.cpu + cpu, MaxWork),
                memory |-> Saturated(budget.memory + memory, MaxWork)]
  /\ busted' = (busted \/ ~WithinBudget(budget'))
  /\ Unsigned /\ UNCHANGED <<limiter, quotaUsed, rateConfig, admitted>>

\* Mutant: the window moves and its count stays.
RecordCallSameCount ==
  LET over == now >= limiter.start + WindowLen
      start == IF over THEN now ELSE limiter.start IN
  /\ IF limiter.count < RateLimit \/ (over /\ limiter.count = RateLimit)
     THEN /\ limiter' = [start |-> start, count |-> limiter.count + 1]
          /\ admitted' = Append(admitted, now)
     ELSE /\ limiter' = [start |-> start, count |-> limiter.count]
          /\ UNCHANGED admitted
  /\ Unsigned /\ UNCHANGED <<budget, quotaUsed, rateConfig, busted>>

\* RateLimiter::record: a call after the window opens the next one; one too
\* many is an error.
RecordCall ==
  LET over == now >= limiter.start + WindowLen
      start == IF over THEN now ELSE limiter.start
      count == IF over THEN 0 ELSE limiter.count IN
  /\ IF count < RateLimit
     THEN /\ limiter' = [start |-> start, count |-> count + 1]
          /\ admitted' = Append(admitted, now)
     ELSE /\ limiter' = [start |-> start, count |-> count]
          /\ UNCHANGED admitted
  /\ Unsigned /\ UNCHANGED <<budget, quotaUsed, rateConfig, busted>>

\* StorageQuota::record_write; the error leaves the count alone.
RecordWrite ==
  /\ ~QuotaExhausted
  /\ quotaUsed' = quotaUsed + 1
  /\ Unsigned /\ UNCHANGED <<budget, limiter, rateConfig, admitted, busted>>

\* init and set_rate_limit of rate_limiting.rs; anybody may call it.
SetRateLimit(requests, window) ==
  /\ {requests, window} \subseteq 1..MaxSetting
  /\ rateConfig' = [requests |-> requests, window |-> window]
  /\ Unsigned /\ UNCHANGED <<budget, limiter, quotaUsed, admitted, busted>>

LimitersNext ==
  \/ \E cpu, memory \in Works : Consume(cpu, memory)
  \/ RecordCall
  \/ RecordWrite
  \/ \E r, w \in RateSettings : SetRateLimit(r, w)
  \/ Tick /\ UNCHANGED limiterVars

LimitersSpec == LedgerInit /\ LimitersInit /\ [][LimitersNext]_<<ledgerVars, limiterVars>>
-----------------------------------------------------------------------------
LimitersTypeOK ==
  /\ budget \in [cpu : 0..MaxWork, memory : 0..MaxWork]
  /\ limiter \in [start : 0..now, count : 0..RateLimit]
  /\ quotaUsed \in 0..Quota
  /\ rateConfig = None \/ {rateConfig.requests, rateConfig.window} \subseteq 1..MaxSetting

\* The calls let through in the ledgers from..from + WindowLen - 1.
AdmittedIn(from) ==
  Cardinality(Hits(admitted, from..from + WindowLen - 1))

\* The limiter lets exactly `limit` calls through from the start of its window
\* on, and at a window's end twice as many within the length of one, never
\* more (a window of no ledgers counts nothing); a budget that was exceeded
\* once rejects everything after it, although it goes on counting, and reports
\* nothing left of what was exceeded.
LimitersBound ==
  /\ WindowLen > 0 =>
       /\ AdmittedIn(limiter.start) = limiter.count
       /\ LimiterExhausted => AdmittedIn(limiter.start) = RateLimit
  /\ \A from \in 0..MaxTime : AdmittedIn(from) <= 2 * RateLimit
  /\ busted <=> ~WithinBudget(budget)
  /\ WithinBudget(budget) =>
       /\ Remaining(budget.cpu, CpuCap) + budget.cpu = CpuCap
       /\ UtilizationPct(budget.memory, MemoryCap) = 100 => budget.memory = MemoryCap
=============================================================================
