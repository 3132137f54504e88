------------------------------- MODULE Alarms -------------------------------
(***************************************************************************)
(* The counters and records that stand beside the campaign and recommend   *)
(* something to whoever reads them: security_monitoring.rs,                *)
(* security_incident_response.rs and the crate's security_alerting_system  *)
(* .rs.  Nobody has to sign; they only write their own keys.               *)
(***************************************************************************)
EXTENDS Ledger, Loops

CONSTANTS
  BurstThreshold,      \* BURST_THRESHOLD, 5 in the code
  FailureThreshold,    \* FAILURE_THRESHOLD, 3 in the code
  AutoPauseThreshold,  \* AUTO_PAUSE_THRESHOLD, 3 in the code
  CountMax,            \* u32::MAX, where the counters stay
  WhaleAmounts,        \* contributions and goals check_whale_contribution compares
  WhaleShare,          \* WHALE_THRESHOLD_BPS, half of the goal: 5_000 in the code
  WhaleScale,          \* what it is a share of: 10_000 in the code
  AmountMax,           \* i128::MAX, what a product is that overflows
  MaxAlarms            \* bound on the calls of a behaviour

ASSUME AlarmsAssumption ==
  /\ {BurstThreshold, FailureThreshold, AutoPauseThreshold, CountMax, WhaleShare,
      WhaleScale, AmountMax, MaxAlarms} \subseteq Nat
  /\ WhaleAmounts \subseteq Int
  /\ FailureThreshold > 0 /\ AutoPauseThreshold <= CountMax

VARIABLES
  burst,       \* DataKey::BurstCount of each address
  failures,    \* DataKey::FailureCount of each address
  alertCount,  \* DataKey::SecurityAlertCount
  incidents,   \* "inc_count"
  alerts,      \* the alerts of the alerting system, the n-th under "n"
  reported,    \* history: which calls returned a threat, in order
  since,       \* history: the incidents since the last reset
  calls        \* history: how many calls were made, up to MaxAlarms
alarmVars == <<burst, failures, alertCount, incidents, alerts, reported, since, calls>>

AlarmsInit ==
  /\ burst = [a \in Addresses |-> 0] /\ failures = [a \in Addresses |-> 0]
  /\ alertCount = 0 /\ incidents = 0
  /\ alerts = <<>> /\ reported = <<>> /\ since = 0 /\ calls = 0
-----------------------------------------------------------------------------
Severities == 1..4   \* low, medium, high, critical

Bump(n) == IF n < CountMax THEN n + 1 ELSE n

\* What a detected threat writes and returns.
Raise(detected, threat) ==
  /\ alertCount' = IF detected THEN Bump(alertCount) ELSE alertCount
  /\ reported' = IF detected THEN Append(reported, threat) ELSE reported

\* record_contribution_attempt: every attempt past the threshold alarms.
RecordAttempt(a) ==
  /\ burst' = [burst EXCEPT ![a] = Bump(@)]
  /\ Raise(burst'[a] > BurstThreshold, [who |-> a, kind |-> "burst"])
  /\ UNCHANGED <<failures, incidents, alerts, since>>

\* record_failed_operation; from the threshold on.
RecordFailure(a) ==
  /\ failures' = [failures EXCEPT ![a] = Bump(@)]
  /\ Raise(failures'[a] >= FailureThreshold, [who |-> a, kind |-> "failure"])
  /\ UNCHANGED <<burst, incidents, alerts, since>>

\* check_unauthorized_access_attempt counts in the same entry.
CheckUnauthorized(a) ==
  /\ failures' = [failures EXCEPT ![a] = Bump(@)]
  /\ Raise(failures'[a] >= FailureThreshold, [who |-> a, kind |-> "unauthorized"])
  /\ UNCHANGED <<burst, incidents, alerts, since>>

\* check_whale_contribution: above half of a positive goal, in products that
\* are the largest amount where they overflow.
Checked(x) == IF x \in (-AmountMax - 1)..AmountMax THEN x ELSE AmountMax
IsWhale(amount, goal) ==
  goal > 0 /\ Checked(amount * WhaleScale) > Checked(goal * WhaleShare)
CheckWhale(a, amount, goal) ==
  /\ Raise(IsWhale(amount, goal), [who |-> a, kind |-> "whale"])
  /\ UNCHANGED <<burst, failures, incidents, alerts, since>>

ResetBurst(a) ==
  /\ burst' = [burst EXCEPT ![a] = 0]
  /\ UNCHANGED <<failures, alertCount, incidents, alerts, reported, since>>

ResetFailure(a) ==
  /\ failures' = [failures EXCEPT ![a] = 0]
  /\ UNCHANGED <<burst, alertCount, incidents, alerts, reported, since>>
-----------------------------------------------------------------------------
\* check_auto_pause
AutoPause == incidents >= AutoPauseThreshold

\* record_incident; severity and reporter are returned and not stored.
RecordIncident ==
  /\ incidents' = Bump(incidents)
  /\ since' = since + 1
  /\ UNCHANGED <<burst, failures, alertCount, alerts, reported>>

ResetIncidents ==
  /\ incidents' = 0 /\ since' = 0
  /\ UNCHANGED <<burst, failures, alertCount, alerts, reported>>
-----------------------------------------------------------------------------
\* create_alert; the counter of the alerting system is the number of alerts.
CreateAlert(severity) ==
  /\ severity \in Severities
  /\ alerts' = Append(alerts, [severity |-> severity, resolved |-> FALSE])
  /\ UNCHANGED <<burst, failures, alertCount, incidents, reported, since>>

\* resolve_alert, of an alert that exists; for any other id it returns false.
ResolveAlert(id) ==
  /\ id \in DOMAIN alerts
  /\ alerts' = [alerts EXCEPT ![id].resolved = TRUE]
  /\ UNCHANGED <<burst, failures, alertCount, incidents, reported, since>>

\* get_critical_alerts_count and has_critical_alerts
CriticalAlerts ==
  Cardinality({i \in DOMAIN alerts : alerts[i].severity = 4 /\ ~alerts[i].resolved})
HasCritical == CriticalAlerts > 0

AlarmsNext ==
  /\ \/ \E a \in Addresses :
          \/ RecordAttempt(a) \/ RecordFailure(a) \/ CheckUnauthorized(a)
          \/ ResetBurst(a) \/ ResetFailure(a)
          \/ \E amount, goal \in WhaleAmounts : CheckWhale(a, amount, goal)
     \/ RecordIncident \/ ResetIncidents
     \/ \E severity \in Severities \cup {0, 5} : CreateAlert(severity)
     \/ \E id \in 0..MaxAlarms : ResolveAlert(id)
  /\ calls < MaxAlarms /\ calls' = calls + 1
  /\ Unsigned

AlarmsSpec == LedgerInit /\ AlarmsInit /\ [][AlarmsNext]_<<ledgerVars, alarmVars>>
-----------------------------------------------------------------------------
AlarmsTypeOK ==
  /\ burst \in [Addresses -> 0..CountMax] /\ failures \in [Addresses -> 0..CountMax]
  /\ alertCount \in 0..CountMax /\ incidents \in 0..CountMax
  /\ alerts \in Seq([severity : Severities, resolved : BOOLEAN])

\* The number of threats of one kind that were reported for address a.
Reported(a, kind) == Cardinality(Hits(reported, {[who |-> a, kind |-> kind]}))

Excess(n, m) == IF n > m THEN n - m ELSE 0

\* The alert count is the number of threats reported, until it is full.  What
\* an address's counter shows beyond its threshold has been reported, every
\* time: an address is not silenced by the alarms of others, and failures and
\* unauthorised attempts add up.  A pause is recommended exactly while enough
\* incidents are on record since the reset.
AlarmsAgree ==
  /\ alertCount = IF Len(reported) > CountMax THEN CountMax ELSE Len(reported)
  /\ \A a \in Addresses :
       /\ Reported(a, "burst") >= Excess(burst[a], BurstThreshold)
       /\ Reported(a, "failure") + Reported(a, "unauthorized")
            >= Excess(failures[a], FailureThreshold - 1)
  /\ AutoPause <=> since >= AutoPauseThreshold
  /\ HasCritical => \E i \in DOMAIN alerts : ~alerts[i].resolved
=============================================================================
