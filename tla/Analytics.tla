------------------------------ MODULE Analytics ------------------------------
(***************************************************************************)
(* security_analytics.rs: a bounded log of threats, a bounded pattern of   *)
(* accesses for each address, metrics, and what is computed from them.     *)
(* The log and the patterns drop their oldest entries.  Its detectors end  *)
(* in a report whose description is built as a Symbol from a sentence;     *)
(* Symbol::new rejects a blank, so none of them returns.                   *)
(***************************************************************************)
EXTENDS Ledger, Loops

CONSTANTS
  MaxPattern,     \* MAX_ACCESS_PATTERN_ENTRIES, 500 in the code
  MaxThreatLog,   \* MAX_THREAT_LOG_SIZE, 1000 in the code
  AccessActions,  \* actions recorded, "CONTRIBUTE" and "WITHDRAW" among them
  ThreatLevels,   \* severities logged, a subset of Severity
  MetricMax,      \* u32::MAX, where the metrics stay
  Hour,           \* the detectors' hour, in units of the clock
  RapidCount,     \* 5 contributions in an hour, 3 withdrawals in half of it
  MaxObserved     \* bound on the calls of a behaviour

ASSUME AnalyticsAssumption ==
  /\ {MaxPattern, MaxThreatLog, MetricMax, Hour, RapidCount, MaxObserved} \subseteq Nat
  /\ {"CONTRIBUTE", "WITHDRAW"} \subseteq AccessActions
  /\ ThreatLevels \subseteq 1..4

\* ThreatSeverity::priority
Severity == [Low |-> 1, Medium |-> 2, High |-> 3, Critical |-> 4]

\* ThreatSeverity::is_critical
IsCritical(level) == level >= Severity.High

\* struct ThreatRecord; the details are left out.
ThreatRecord ==
  [at : 0..MaxTime, level : 1..4, who : Addresses \cup {None}, acknowledged : {FALSE}]

\* struct AccessPatternEntry; the value is stored and never read.
AccessPatternEntry == [at : 0..MaxTime, action : AccessActions, success : BOOLEAN]

VARIABLES
  pattern,    \* DataKey::AccessPattern of each address
  threats,    \* DataKey::ThreatLog
  metrics,    \* the metrics of each address, and the global ones under None
  accesses,   \* history: every access of each address
  logged,     \* history: every threat
  lastIndex   \* the index that log_threat returned last
analyticsVars == <<pattern, threats, metrics, accesses, logged, lastIndex>>

\* enum MetricType, as far as the module reads it.
MetricType == {"Contributions", "Withdrawals", "Refunds", "Failed",
               "AuthFailures", "RateLimitTriggers"}

AnalyticsInit ==
  /\ pattern = [a \in Addresses |-> <<>>] /\ accesses = pattern
  /\ threats = <<>> /\ logged = <<>> /\ lastIndex = None
  /\ metrics = [a \in Addresses \cup {None} |-> [k \in MetricType |-> 0]]
-----------------------------------------------------------------------------
\* The n latest entries of s.
Latest(s, n) == IF Len(s) > n THEN SubSeq(s, Len(s) - n + 1, Len(s)) ELSE s

Sooner(t, span) == IF t > span THEN t - span ELSE 0

CallsObserved ==
  Len(logged) + Sum([a \in Addresses |-> Len(accesses[a])], Addresses)
    + metrics[None].Contributions + metrics[None].Failed

\* record_access_pattern
RecordAccess(a, action, success) ==
  LET entry == [at |-> now, action |-> action, success |-> success] IN
  /\ CallsObserved < MaxObserved
  /\ pattern' = [pattern EXCEPT ![a] = Latest(Append(@, entry), MaxPattern)]
  /\ accesses' = [accesses EXCEPT ![a] = Append(@, entry)]
  /\ UNCHANGED <<threats, metrics, logged, lastIndex>>

\* log_threat returns the length before the record, also when it drops one.
LogThreat(level, who) ==
  LET record == [at |-> now, level |-> level, who |-> who, acknowledged |-> FALSE] IN
  /\ CallsObserved < MaxObserved
  /\ threats' = Latest(Append(threats, record), MaxThreatLog)
  /\ logged' = Append(logged, record)
  /\ lastIndex' = Len(threats)

\* increment_metric stays at the maximum.
Incremented(who, kind, delta) ==
  metrics' = [metrics EXCEPT ![who][kind] =
                IF @ + delta > MetricMax THEN MetricMax ELSE @ + delta]

\* record_rate_limit_violation
RecordViolation(a) ==
  /\ LogThreat(Severity.Medium, a)
  /\ Incremented(a, "RateLimitTriggers", 1)
  /\ UNCHANGED <<pattern, accesses>>

\* log_threat and increment_metric, called alone
LogOnly(level, who) ==
  LogThreat(level, who) /\ UNCHANGED <<pattern, metrics, accesses>>
IncrementMetric(kind, delta) ==
  /\ CallsObserved < MaxObserved
  /\ Incremented(None, kind, delta)
  /\ UNCHANGED <<pattern, threats, accesses, logged, lastIndex>>

AnalyticsNext ==
  \/ /\ \/ \E a \in Addresses :
             \/ \E action \in AccessActions, ok \in BOOLEAN : RecordAccess(a, action, ok)
             \/ RecordViolation(a)
        \/ \E level \in ThreatLevels, who \in Addresses \cup {None} : LogOnly(level, who)
        \/ \E kind \in {"Contributions", "Failed"} : IncrementMetric(kind, 1)
     /\ Unsigned
  \/ Tick /\ UNCHANGED analyticsVars

AnalyticsSpec == LedgerInit /\ AnalyticsInit /\ [][AnalyticsNext]_<<ledgerVars, analyticsVars>>
-----------------------------------------------------------------------------
\* get_threat_log
GetThreatLog(limit) == Latest(threats, limit)

\* acknowledge_threat: whether the index is in the log; no record changes.
AcknowledgeThreat(index) == index < Len(threats)

\* analyze_access_pattern: accesses, their success in basis points, the last
AnalyzeAccess(a) ==
  LET all == pattern[a] IN
  IF all = <<>> THEN [total |-> 0, successBps |-> 0, last |-> 0]
  ELSE [total |-> Len(all), last |-> all[Len(all)].at,
        successBps |-> (10000 * Cardinality({i \in DOMAIN all : all[i].success})) \div Len(all)]

\* check_rate_limit: what it counts in the window
RecentAccesses(a, action, window) ==
  Cardinality({i \in DOMAIN pattern[a] : /\ pattern[a][i].action = action
                                         /\ pattern[a][i].at >= Sooner(now, window)})

\* analyze_threat_trends
ThreatTrends(window) ==
  LET recent == {i \in DOMAIN threats : threats[i].at >= Sooner(now, window)}
      levels == {1} \cup {threats[i].level : i \in recent}
  IN [count   |-> Cardinality(recent),
      highest |-> CHOOSE n \in levels : \A m \in levels : m <= n]

\* get_blocked_addresses, each one once
BlockedAddresses(level) ==
  {threats[i].who : i \in {j \in DOMAIN threats : threats[j].level >= level}} \ {None}

\* calculate_security_score
Least(x, y) == IF x < y THEN x ELSE y
Beyond(x, y) == IF x > y THEN x - y ELSE 0
SecurityScore(failureBps, authFailures, criticals, transactions) ==
  Beyond(100, Least(Beyond(failureBps, 100) \div 10, 30)
               + Least(Beyond(authFailures, 5), 20)
               + Least(criticals, 20) + Beyond(10, transactions))

\* get_security_summary.  It reads the contributors from instance storage,
\* where the campaign does not keep them.
SecuritySummary ==
  LET g == metrics[None]
      all == g.Contributions + g.Withdrawals + g.Refunds
      failureBps == IF all = 0 THEN 0 ELSE (g.Failed * 10000) \div all
      criticals == Cardinality({i \in DOMAIN threats : IsCritical(threats[i].level)})
  IN [threatCount |-> Len(threats), criticals |-> criticals,
      transactions |-> all, failureBps |-> failureBps, unique |-> 0,
      score |-> SecurityScore(failureBps, g.AuthFailures, criticals, all)]

\* get_risk_level
RiskLevel(score, criticals) ==
  IF score >= 80 /\ criticals = 0 THEN "LOW"
  ELSE IF score >= 60 /\ criticals < 3 THEN "MEDIUM"
  ELSE IF score >= 40 \/ criticals < 10 THEN "HIGH"
  ELSE "CRITICAL"
-----------------------------------------------------------------------------
\* The reports the detectors build, with the number of words of the
\* description; the time limit is exclusive here.
Since(a, actions, span) ==
  Cardinality({i \in DOMAIN pattern[a] : /\ pattern[a][i].action \in actions
                                         /\ pattern[a][i].at > Sooner(now, span)})

NoAnomaly == [kind |-> "NONE", words |-> 3]

DetectContribution(a, large) ==
  IF large THEN [kind |-> "LARGE_CONTRIB", words |-> 4]
  ELSE IF Since(a, {"CONTRIBUTE"}, Hour) >= RapidCount
  THEN [kind |-> "RAPID_CONTRIB", words |-> 4]
  ELSE NoAnomaly

DetectWithdrawal(a, large) ==
  IF large THEN [kind |-> "LARGE_WITHDRAW", words |-> 3]
  ELSE IF Since(a, {"WITHDRAW"}, Hour \div 2) > RapidCount
  THEN [kind |-> "RAPID_WITHDRAW", words |-> 4]
  ELSE NoAnomaly

DetectAuth(a, isAdmin) ==
  IF metrics[a].AuthFailures > 10 THEN [kind |-> "AUTH_FAILURES", words |-> 4]
  ELSE IF isAdmin /\ Since(a, AccessActions, Hour \div 12) > RapidCount
  THEN [kind |-> "ADMIN_BURST", words |-> 4]
  ELSE NoAnomaly

\* A detector returns when its description is a Symbol.
Returns(report) == report.words = 1
-----------------------------------------------------------------------------
AnalyticsTypeOK ==
  /\ \A a \in Addresses : pattern[a] \in Seq(AccessPatternEntry)
  /\ threats \in Seq(ThreatRecord)
  /\ metrics \in [Addresses \cup {None} -> [MetricType -> 0..MetricMax]]

\* The accesses of a within the window, whether still in the pattern or not.
TrueAccesses(a, actions, window) ==
  Cardinality({i \in DOMAIN accesses[a] : /\ accesses[a][i].action \in actions
                                          /\ accesses[a][i].at >= Sooner(now, window)})

\* The log and the patterns are the latest records.  The rate limit never
\* counts a call that was not made, and misses none as long as the window
\* holds no more accesses of any kind than the pattern: beyond that, calls of
\* one action hide those of another.  The index a caller was given names its
\* record until the log is full, and then no record at all; nothing is ever
\* acknowledged.  Fewer criticals are blocked than addresses of any level, a
\* low risk has no critical threat, and no detector returns.
AnalyticsExact ==
  /\ threats = Latest(logged, MaxThreatLog)
  /\ \A a \in Addresses, window \in 0..MaxTime :
       \A action \in AccessActions :
         LET seen == RecentAccesses(a, action, window)
             made == TrueAccesses(a, {action}, window)
         IN /\ seen <= made
            /\ TrueAccesses(a, AccessActions, window) <= MaxPattern => seen = made
  /\ lastIndex # None =>
       (AcknowledgeThreat(lastIndex) <=> Len(logged) <= MaxThreatLog)
  /\ lastIndex # None /\ AcknowledgeThreat(lastIndex) =>
       threats[lastIndex + 1] = logged[Len(logged)]
  /\ BlockedAddresses(4) \subseteq BlockedAddresses(2)
  /\ ThreatTrends(MaxTime).count = SecuritySummary.threatCount
  /\ RiskLevel(SecuritySummary.score, SecuritySummary.criticals) = "LOW" =>
       ThreatTrends(MaxTime).highest < Severity.High
  /\ \A a \in Addresses, b \in BOOLEAN :
       /\ AnalyzeAccess(a).total <= MaxPattern /\ AnalyzeAccess(a).successBps <= 10000
       /\ ~Returns(DetectContribution(a, b)) /\ ~Returns(DetectWithdrawal(a, b))
       /\ ~Returns(DetectAuth(a, b))
=============================================================================
