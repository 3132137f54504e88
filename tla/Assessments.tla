---------------------------- MODULE Assessments ----------------------------
(***************************************************************************)
(* Lists that are assessed entry by entry: the suites of                   *)
(* security_compliance_checks.rs, the reports of                           *)
(* security_compliance_reporting.rs, and the regression runs of            *)
(* security_regression.rs.  A suite and a report are values that their     *)
(* caller holds on to; the regression results are in storage.  A text is   *)
(* reduced to whether it is empty.                                         *)
(***************************************************************************)
EXTENDS Ledger, Loops

CONSTANTS
  MaxEntries,   \* bound on the entries of a list
  VulnIds,      \* ids of vulnerabilities, which nothing keeps unique
  CaseIds,      \* ids of regression cases
  Incidences,   \* the incidents counted in a regression case
  MaxCases,     \* MAX_CASES_PER_RUN, 64 in the code
  MaxRuns       \* bound on the regression runs

ASSUME AssessmentsAssumption ==
  /\ {MaxEntries, MaxCases, MaxRuns} \subseteq Nat
  /\ Incidences \subseteq [auth : Nat, withdrawals : Nat, pauses : Nat, reentrancy : Nat]

\* enum CheckStatus: 0 passed, 1 failed, 2 skipped, 3 error; a check's field
\* takes any number.
CheckStatus == 0..3

\* struct ComplianceCheck; 4 stands for the numbers that are no status.
ComplianceCheck == [named : BOOLEAN, status : CheckStatus \cup {4}, at : 0..MaxTime]

\* struct Vulnerability; 5 stands for the numbers that are no severity.
Vulnerability == [id : VulnIds, named : BOOLEAN, severity : 0..5, open : BOOLEAN]

VARIABLES
  suite,      \* a ComplianceCheckSuite
  report,     \* a ComplianceReport
  results,    \* RegressionKey::CaseResult of each id, None when absent
  runCounter, \* RegressionKey::RunCounter
  lastRun,    \* what run_regression_batch returned last, with its cases
  raw,        \* history: the list the suite was built from had an invalid check
  best        \* history: the lowest score the report has had
suiteVars == <<suite, raw>>
reportVars == <<report, best>>
regressionVars == <<results, runCounter, lastRun>>
-----------------------------------------------------------------------------
\* count_by_status and count_by_severity
CountByStatus(checks, status) ==
  Cardinality({i \in DOMAIN checks : checks[i].status = status})
CountBySeverity(vulns, severity) ==
  Cardinality({i \in DOMAIN vulns : vulns[i].severity = severity})

\* calculate_pass_rate
PassRate(passed, total) == IF total = 0 THEN 100 ELSE (passed * 100) \div total

\* Lists of up to two entries, as callers build them.
ListsOf(S) == UNION {[1..n -> S] : n \in 0..2}

\* ComplianceCheckSuite::new
Suite(checks, at) ==
  LET passed == CountByStatus(checks, 0) IN
  [checks |-> checks, at |-> at, total |-> Len(checks), passed |-> passed,
   failed  |-> CountByStatus(checks, 1),
   skipped |-> CountByStatus(checks, 2),
   errors  |-> CountByStatus(checks, 3),
   rate    |-> PassRate(passed, Len(checks))]

\* ComplianceCheck::validate
ValidCheck(c) == c.named /\ c.status \in CheckStatus /\ c.at > 0

\* ComplianceCheckSuite::validate, all_passed
ValidSuite(s) ==
  s.total > 0 /\ s.rate <= 100 /\ \A i \in DOMAIN s.checks : ValidCheck(s.checks[i])
AllPassed(s) == s.failed = 0 /\ s.errors = 0

\* calculate_score: 50 for each critical one, 5 for any other, down to 0
Penalty(total, critical) == critical * 50 + (total - critical) * 5
Score(total, critical) ==
  IF total = 0 THEN 100
  ELSE IF Penalty(total, critical) >= 100 THEN 0 ELSE 100 - Penalty(total, critical)

\* ComplianceReport::new; a severity of 0 is counted in the total alone.
Report(vulns, at, status) ==
  LET critical == CountBySeverity(vulns, 4) IN
  [vulns |-> vulns, at |-> at, status |-> status, total |-> Len(vulns),
   critical |-> critical,
   high   |-> CountBySeverity(vulns, 3),
   medium |-> CountBySeverity(vulns, 2),
   low    |-> CountBySeverity(vulns, 1),
   score  |-> Score(Len(vulns), critical)]

\* Vulnerability::validate
ValidVulnerability(v) == v.named /\ v.severity \in 0..4

\* ComplianceReport::validate
ValidReport(r) ==
  r.at > 0 /\ r.score <= 100 /\ \A i \in DOMAIN r.vulns : ValidVulnerability(r.vulns[i])

\* evaluate_case
EvaluateCase(c) ==
  LET deductions == 4 * c.auth + 3 * c.withdrawals + 2 * c.pauses + 10 * c.reentrancy
      score == IF deductions > 100 THEN 0 ELSE 100 - deductions
  IN [score |-> score, passed |-> score >= 80,
      findings |-> c.auth + c.withdrawals + c.pauses + c.reentrancy]
-----------------------------------------------------------------------------
SuitesInit == suite = Suite(<<>>, now) /\ raw = FALSE
ReportsInit == report = Report(<<>>, now, "Compliant") /\ best = 100
RegressionInit ==
  /\ results = [id \in CaseIds |-> None]
  /\ runCounter = 0 /\ lastRun = None
AssessmentsInit == SuitesInit /\ ReportsInit /\ RegressionInit

\* build_check_suite, of checks that nobody has validated
BuildCheckSuite(checks) ==
  /\ suite' = Suite(checks, now)
  /\ raw' = \E i \in DOMAIN checks : ~ValidCheck(checks[i])

\* add_check_to_suite drops an invalid check; the time of the suite stays.
AddCheck(check) ==
  /\ Len(suite.checks) < MaxEntries
  /\ suite' = IF ValidCheck(check) THEN Suite(Append(suite.checks, check), suite.at)
              ELSE suite
  /\ UNCHANGED raw

\* check_access_control, check_state_invariant, check_input_validation,
\* check_reentrancy_guard, check_timestamp_validity and check_balance each
\* make one of a condition.
CheckOf(condition) ==
  [named |-> TRUE, status |-> IF condition THEN 0 ELSE 1, at |-> now]

SuitesNext ==
  \/ /\ \/ \E checks \in ListsOf([named : {TRUE}, status : {0, 2, 4}, at : {now}]) :
             BuildCheckSuite(checks)
        \/ \E condition \in BOOLEAN : AddCheck(CheckOf(condition))
        \/ \E named \in BOOLEAN, status \in {2, 3, 4} :
             AddCheck([named |-> named, status |-> status, at |-> now])
     /\ Unsigned
  \/ Tick /\ UNCHANGED suiteVars
-----------------------------------------------------------------------------
\* generate_report
GenerateReport(vulns) ==
  /\ report' = Report(vulns, now, IF vulns = <<>> THEN "Compliant" ELSE "PartialCompliant")
  /\ best' = report'.score

\* add_vulnerability drops an invalid one; status and time stay.
AddVulnerability(v) ==
  /\ Len(report.vulns) < MaxEntries
  /\ report' = IF ValidVulnerability(v)
               THEN Report(Append(report.vulns, v), report.at, report.status)
               ELSE report
  /\ best' = IF report'.score < best THEN report'.score ELSE best

\* resolve_vulnerability: the first of that id; counts and score stay.
ResolveVulnerability(id) ==
  LET of == {i \in DOMAIN report.vulns : report.vulns[i].id = id} IN
  /\ report' = IF of = {} THEN report
               ELSE [report EXCEPT !.vulns[First(of)].open = FALSE]
  /\ UNCHANGED best

ReportsNext ==
  \/ /\ \/ \E vulns \in ListsOf([id : VulnIds, named : {TRUE}, severity : {4}, open : {TRUE}]) :
             GenerateReport(vulns)
        \/ \E id \in VulnIds, named \in BOOLEAN, severity \in {0, 1, 4, 5} :
             AddVulnerability([id |-> id, named |-> named, severity |-> severity,
                               open |-> TRUE])
        \/ \E id \in VulnIds : ResolveVulnerability(id)
     /\ Unsigned
  \/ Tick /\ UNCHANGED reportVars
-----------------------------------------------------------------------------
\* run_regression_batch, and record_case_result for each case in turn
RunRegressionBatch(runner, cases) ==
  LET of(i) == EvaluateCase(cases[i].counts)
      passed == Cardinality({i \in DOMAIN cases : of(i).passed})
      all(id) == {i \in DOMAIN cases : cases[i].id = id}
      latest(id) == CHOOSE i \in all(id) : \A j \in all(id) : j <= i
  IN
  /\ Len(cases) \in 1..MaxCases
  /\ runCounter < MaxRuns
  /\ runCounter' = runCounter + 1
  /\ results' = [id \in CaseIds |->
                   IF all(id) = {} THEN results[id] ELSE of(latest(id))]
  /\ lastRun' = [ids |-> {cases[i].id : i \in DOMAIN cases}, at |-> now,
                 run |-> runCounter', total |-> Len(cases), passed |-> passed,
                 failed |-> Len(cases) - passed,
                 worst |-> First({100} \cup {of(i).score : i \in DOMAIN cases})]
  /\ SignedBy(runner)

Cases == [id : CaseIds, counts : Incidences]

RegressionNext ==
  \/ \E runner \in Addresses, cases \in ListsOf(Cases) \cup [1..3 -> Cases] :
       RunRegressionBatch(runner, cases)
  \/ Tick /\ UNCHANGED regressionVars

AssessmentsNext ==
  \/ SuitesNext /\ UNCHANGED <<reportVars, regressionVars>>
  \/ ReportsNext /\ UNCHANGED <<suiteVars, regressionVars>>
  \/ RegressionNext /\ UNCHANGED <<suiteVars, reportVars>>

AssessmentsSpec ==
  LedgerInit /\ AssessmentsInit
  /\ [][AssessmentsNext]_<<ledgerVars, suiteVars, reportVars, regressionVars>>
-----------------------------------------------------------------------------
\* calculate_statistics
Statistics(r) ==
  LET resolved == Cardinality({i \in DOMAIN r.vulns : ~r.vulns[i].open}) IN
  [total |-> r.total, open |-> r.total - resolved, resolved |-> resolved]

AssessmentsTypeOK ==
  /\ suite.checks \in Seq(ComplianceCheck) /\ report.vulns \in Seq(Vulnerability)
  /\ runCounter \in 0..MaxRuns

\* A suite is valid once it has a check, unless it was built from an invalid
\* one: the calls that add to it let none in, and what carries the ledger's
\* first second counts as invalid.  Its counts cover its checks.  A report's
\* score never improves, resolved or not; its statistics are of its list.  A
\* run of cases passes as a whole when its worst case does, and an id that
\* occurs twice in a run keeps the later result, so that fewer failures may
\* be stored than counted, never more.
AssessmentsSound ==
  /\ ValidSuite(suite) <=> suite.checks # <<>> /\ ~raw
  /\ ~raw => suite.passed + suite.failed + suite.skipped + suite.errors = suite.total
  /\ ~raw /\ AllPassed(suite) => (suite.rate = 100 <=> suite.skipped = 0)
  /\ report.score = best
  /\ report.critical + report.high + report.medium + report.low <= report.total
  /\ Statistics(report).open =
       Cardinality({i \in DOMAIN report.vulns : report.vulns[i].open})
  /\ ValidReport(report) <=> report.at > 0
  /\ lastRun # None =>
       /\ lastRun.run = runCounter /\ lastRun.passed + lastRun.failed = lastRun.total
       /\ lastRun.failed = 0 <=> lastRun.worst >= 80
       /\ Cardinality({id \in lastRun.ids : ~results[id].passed}) <= lastRun.failed
=============================================================================
