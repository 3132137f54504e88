--------------------------- MODULE CampaignAudits ---------------------------
(***************************************************************************)
(* The scanners that look at a campaign's storage and report on it:        *)
(* security_compliance_automation.rs, security_compliance_validation.rs,   *)
(* security_compliance_monitoring.rs, security_baseline_scanning.rs,       *)
(* security_compliance_testing.rs, security_vulnerability_assessment.rs,   *)
(* security_testing_automation.rs and security_monitoring_dashboard.rs.    *)
(* They were written apart and check overlapping conditions with different *)
(* comparisons.  Each is a state function over Campaign: a function from   *)
(* the names of its checks to their results.                               *)
(***************************************************************************)
EXTENDS CampaignViews

CONSTANTS
  FeeCap,            \* MAX_ALLOWED_FEE_BPS, 1_000 in the code: a tenth
  OverflowMark,      \* nine tenths of i128::MAX
  MaxRoadmapItems    \* MAX_ROADMAP_ITEMS, 32 in the code

ASSUME AuditsAssumption == {FeeCap, OverflowMark, MaxRoadmapItems} \subseteq Nat

\* What the scanners read and Campaign does not keep: whether the Paused key
\* was ever written, whether the admin is the creator, and the length of the
\* roadmap, which add_roadmap_item keeps within its limit (CampaignContent).
Elsewhere == [flag : IF paused THEN {TRUE} ELSE BOOLEAN, owned : BOOLEAN,
              roadmap : 0..MaxRoadmapItems]

\* The names of the checks that fail.
Failing(checks) == {n \in DOMAIN checks : ~checks[n]}

\* initialize writes Admin, Creator, Token, Goal, MinContribution, Deadline,
\* TotalRaised and Status in one call.
Present == config # None

\* An absent PlatformConfig is compliant.
FeeWithin(cap) == Present /\ config.feeBps # None => config.feeBps <= cap

NoEntryNegative == \A c \in Listed(contributors) : contribution[c] >= 0
-----------------------------------------------------------------------------
\* Mutant: the deadline itself still counts as the future.
AutomationChecksAtDeadline(e) ==
  [admin_initialized |-> Present, creator_set |-> Present,
   token_set |-> Present, status_valid |-> Present,
   goal_positive |-> Present /\ config.goal >= 1,
   min_contribution_positive |-> Present /\ config.min >= 1,
   deadline_in_future |-> Present /\ config.deadline >= now,
   total_raised_non_negative |-> totalRaised >= 0,
   platform_fee_within_limit |-> FeeWithin(FeeCap),
   paused_flag_present |-> e.flag]

\* The ten checks of security_compliance_automation.rs.
AutomationChecks(e) ==
  [admin_initialized |-> Present, creator_set |-> Present,
   token_set |-> Present, status_valid |-> Present,
   goal_positive |-> Present /\ config.goal >= 1,
   min_contribution_positive |-> Present /\ config.min >= 1,
   deadline_in_future |-> Present /\ config.deadline > now,
   total_raised_non_negative |-> totalRaised >= 0,
   platform_fee_within_limit |-> FeeWithin(FeeCap),
   paused_flag_present |-> e.flag]

\* audit_all_checks
AuditAllChecks(e) ==
  LET failed == Cardinality(Failing(AutomationChecks(e))) IN
  [passed |-> 10 - failed, failed |-> failed, all_passed |-> failed = 0]

\* audit_initialization
AuditInitialization(e) ==
  Failing(AutomationChecks(e)) \cap
    {"admin_initialized", "creator_set", "token_set", "status_valid",
     "goal_positive", "min_contribution_positive"} = {}

\* audit_financial_integrity
AuditFinancialIntegrity(e) ==
  Failing(AutomationChecks(e)) \cap
    {"goal_positive", "total_raised_non_negative",
     "platform_fee_within_limit"} = {}

\* The six checks of security_compliance_validation.rs; the deadline matters
\* while the campaign is active.
ValidationChecks ==
  [admin |-> Present, status |-> Present,
   goal |-> Present /\ config.goal >= 1,
   min |-> Present /\ config.min >= 1,
   deadline |-> status = "Active" => config.deadline > now,
   fee |-> FeeWithin(FeeCap)]

\* run_baseline_scan stops at the first error; a minimum of zero is accepted.
BaselineScan ==
  IF ~Present THEN "AdminNotSet"
  ELSE IF config.goal <= 0 THEN "GoalInvalid"
  ELSE IF config.deadline <= now THEN "DeadlineInvalid"
  ELSE IF config.min < 0 THEN "MinContributionInvalid"
  ELSE IF totalRaised < 0 THEN "TotalRaisedNegative"
  ELSE IF ~NoEntryNegative THEN "ContributionNegative"
  ELSE "Ok"

\* run_full_audit aborts on a campaign that is not initialized, and where the
\* double of the goal overflows: check_arithmetic_safety multiplies unchecked.
MonitoringRuns == Present /\ 2 * config.goal <= MaxAmount

\* Its five checks.  Reading the first 50 entries is reading all that matter
\* here.
MonitoringChecks(e) ==
  [auth |-> e.owned,
   bounds |-> Len(contributors) <= MaxContributors /\ e.roadmap <= MaxRoadmapItems,
   arithmetic |-> totalRaised <= 2 * config.goal /\ NoEntryNegative,
   status |-> ~(status = "Active" /\ now > config.deadline),
   fee |-> FeeWithin(BpsScale)]

\* run_all_tests of security_compliance_testing.rs, over the campaign's own
\* parameters; the deadline needs its buffer at any time, and a doubled goal
\* that overflows counts as the largest amount.
ComplianceTests ==
  [goal_minimum       |-> config.goal >= 1,
   contribution_floor |-> config.min >= 1,
   platform_fee       |-> FeeWithin(FeeCap),
   deadline_buffer    |-> config.deadline >= now + MinDeadlineOffset,
   arithmetic_bounds  |-> totalRaised <= Min({2 * config.goal, MaxAmount}),
   contributor_limit  |-> Len(contributors) <= MaxContributors]

\* run_security_audit of security_testing_automation.rs over the listed
\* contributors' entries; its sixth check passes whatever the status.
SecurityAudit ==
  [total_raised_equals_sum   |-> Sum(contribution, Contributors) = totalRaised,
   total_raised_non_negative |-> totalRaised >= 0,
   no_negative_contributions |-> NoEntryNegative,
   goal_positive             |-> config.goal >= 1,
   min_contribution_positive |-> config.min >= 1,
   status_not_expired_to_active |-> TRUE]

\* The probes of the same file for one call each.
ProbeContributionAmount(amount) == amount > 0
ContributionWithinDeadline == now <= config.deadline
WithdrawRequiresSucceeded == status = "Succeeded"
RefundRequiresExpired == status = "Expired"
ValidStatusTransition(from, to) ==
  from = "Active" /\ to \in {"Succeeded", "Expired", "Cancelled"}
-----------------------------------------------------------------------------
\* The probes of security_vulnerability_assessment.rs, and the risk of each.
Probes ==
  [overflow_risk |-> totalRaised < OverflowMark,
   zero_goal |-> config.goal > 0,
   zero_min_contribution |-> config.min > 0,
   deadline_passed |-> now < config.deadline,
   over_funded |-> totalRaised <= config.goal,
   missing_admin |-> Present,
   cancelled_status |-> status # "Cancelled"]

Risk == [overflow_risk |-> 4, zero_goal |-> 3, zero_min_contribution |-> 1,
         deadline_passed |-> 2, over_funded |-> 3, missing_admin |-> 4,
         cancelled_status |-> 2]

\* run_assessment
RunAssessment ==
  [failed |-> Cardinality(Failing(Probes)),
   max_risk |-> Max({0} \cup {Risk[n] : n \in Failing(Probes)})]

Grade(alarm, level) == IF alarm THEN level ELSE "ok"

\* check_overcontribution: a product that overflows counts as the maximum.
Overcontributed ==
  /\ status = "Active"
  /\ \/ totalRaised * BpsScale > ProductMax
     \/ (totalRaised * BpsScale) \div config.goal > 2 * BpsScale

\* The seven checks of the dashboard.
Dashboard(e) ==
  IF ~Present
  THEN [fee |-> "warning", total |-> "warning", goal |-> "warning",
        deadline |-> "warning", over |-> "ok", admin |-> "critical",
        paused |-> Grade(~e.flag, "warning")]
  ELSE [fee |-> IF config.feeBps = None THEN "warning"
                ELSE Grade(config.feeBps > FeeCap, "critical"),
        total |-> Grade(totalRaised < 0, "critical"),
        goal |-> Grade(config.goal <= 0, "critical"),
        deadline |-> Grade(status = "Active" /\ now > config.deadline, "warning"),
        over |-> Grade(Overcontributed, "critical"),
        admin |-> "ok",
        paused |-> Grade(~e.flag, "warning")]

\* generate_report calls a campaign healthy when nothing is critical.
Healthy(e) ==
  LET checks == Dashboard(e) IN \A n \in DOMAIN checks : checks[n] # "critical"

-----------------------------------------------------------------------------
\* A campaign that still takes contributions and whose deadline is ahead gets
\* the same verdict from all scanners, apart from what each of them alone
\* objects to: the fee above a tenth, the Paused key that nobody has written
\* yet, an admin other than the creator, a total above the goal or its double.
\* Where the full audit aborts instead, no total reaches the double.
OpenCampaignClean ==
  status = "Active" /\ now < config.deadline =>
    LET feeOk == FeeWithin(FeeCap)
        overDouble == totalRaised > 2 * config.goal
    IN
      /\ \A e \in Elsewhere :
           /\ AuditAllChecks(e).all_passed <=> feeOk /\ e.flag
           /\ AuditInitialization(e)
           /\ AuditFinancialIntegrity(e) <=> feeOk
           /\ IF MonitoringRuns
              THEN Failing(MonitoringChecks(e)) = {} <=> e.owned /\ ~overDouble
              ELSE ~overDouble
           /\ LET healthy == Healthy(e) IN
              /\ healthy => feeOk
              /\ feeOk /\ ~overDouble /\ totalRaised * BpsScale <= ProductMax
                   => healthy
      /\ Failing(ValidationChecks) = {} <=> feeOk
      /\ BaselineScan = "Ok"
      /\ Failing(ComplianceTests) = {} <=>
           /\ feeOk /\ ~overDouble
           /\ config.deadline >= now + MinDeadlineOffset
      /\ RunAssessment.failed = 0 <=>
           totalRaised <= config.goal /\ totalRaised < OverflowMark

\* Every scanner that runs notices that nobody has called finalize; at the
\* second of the deadline, when contributions are still accepted, four of them
\* already do.
OverdueReported ==
  status = "Active" /\ now >= config.deadline =>
    LET overdue == now > config.deadline IN
    /\ "deadline" \in Failing(ValidationChecks)
    /\ BaselineScan = "DeadlineInvalid"
    /\ "deadline_passed" \in Failing(Probes)
    /\ \A e \in Elsewhere :
         /\ "deadline_in_future" \in Failing(AutomationChecks(e))
         /\ Dashboard(e).deadline = "warning" <=> overdue
         /\ MonitoringRuns => ("status" \in Failing(MonitoringChecks(e)) <=> overdue)

\* No scanner that runs ever finds a trace of corruption, in any status: amounts
\* are not negative and the lists keep their bounds.
NoCorruptionFound ==
  Present =>
    /\ BaselineScan \in {"Ok", "DeadlineInvalid"}
    /\ \A e \in Elsewhere :
         /\ {"total_raised_non_negative", "goal_positive",
             "min_contribution_positive"} \cap Failing(AutomationChecks(e)) = {}
         /\ MonitoringRuns =>
              {"bounds", "fee"} \cap Failing(MonitoringChecks(e)) = {}

\* The security audit objects to nothing but the sum of the entries: never
\* while contributions are taken, nor in an expired campaign or one that was
\* cancelled, and always in one whose withdraw has minted rewards, although
\* nothing is wrong with it.  The comment on the sum check has it hold after
\* withdraw too; withdraw sets the total to zero and keeps the entries.
SecurityAuditMeans ==
  Present =>
    LET failing == Failing(SecurityAudit) IN
    /\ failing \subseteq {"total_raised_equals_sum"}
    /\ \/ status = "Active" /\ ~DeadlinePassed
       \/ status = "Expired"
       \/ status = "Cancelled" /\ ~stopped
       => failing = {}
    /\ status = "Succeeded" /\ (\E c \in Contributors : minted[c] = 1)
       => failing # {}

\* A call the contract accepts passes the probe written for it, and the
\* status it leads to is one the audit allows; the emergency stop, which may
\* leave Succeeded and Expired too, is not among these calls.
AcceptedCallsPassProbes ==
  /\ WithdrawOpen => WithdrawRequiresSucceeded
  /\ RefundOpen => RefundRequiresExpired
  /\ status = "Active" =>
       /\ \A c \in Contributors, amount \in Amounts :
            ContributeOpen(c, amount) =>
              ProbeContributionAmount(amount) /\ ContributionWithinDeadline
       /\ \A to \in {Outcome, "Cancelled"} : ValidStatusTransition(status, to)

\* The scanners agree with each other and with the books they scan.
AuditsAgree ==
  /\ OpenCampaignClean /\ OverdueReported /\ NoCorruptionFound
  /\ SecurityAuditMeans /\ AcceptedCallsPassProbes
=============================================================================
