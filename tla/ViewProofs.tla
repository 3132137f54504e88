----------------------------- MODULE ViewProofs -----------------------------
(***************************************************************************)
(* What callers read of a campaign, what the scanners report on it and     *)
(* what the helpers compute again, proved from the campaign's inductive    *)
(* invariant, for any contributors, parameters and bounds.                 *)
(***************************************************************************)
EXTENDS CampaignViews, CampaignAudits, CampaignHelpers, CampaignProofs

-----------------------------------------------------------------------------
(* Maxima, minima and quotients.                                           *)

\* The largest member of a set that has one.
LEMMA MaxIs ==
  ASSUME NEW S, NEW x \in S, \A y \in S : y <= x, \A y \in S : y \in Int
  PROVE  Max(S) = x
<1>1. Max(S) \in S /\ \A y \in S : Max(S) >= y
  BY DEF Max
<1> QED  BY <1>1

\* The smaller of two numbers.
LEMMA MinOfTwo ==
  ASSUME NEW x \in Int, NEW y \in Int
  PROVE  Min({x, y}) = IF x <= y THEN x ELSE y
<1>1. Min({x, y}) \in {x, y} /\ \A z \in {x, y} : Min({x, y}) <= z
  BY DEF Min
<1> QED  BY <1>1

\* A quotient, rounded down, reaches m exactly when the number is m times the
\* divisor.
LEMMA QuotientReaches ==
  ASSUME NEW a \in Nat, NEW b \in Nat, b > 0, NEW m \in Nat
  PROVE  a \div b \in Nat /\ (a \div b >= m <=> a >= m * b)
<1>1. a \div b \in Nat /\ b * (a \div b) <= a /\ a < b * (a \div b) + b
  OBVIOUS
<1> DEFINE q == a \div b
<1> HIDE DEF q
<1>2. q \in Nat /\ b * q <= a /\ a < b * q + b
  BY <1>1 DEF q
<1>3. ASSUME q >= m PROVE a >= m * b
  <2>1. b * q >= b * m  BY <1>2, <1>3
  <2> QED  BY <1>2, <2>1
<1>4. ASSUME ~(q >= m) PROVE ~(a >= m * b)
  <2>1. q + 1 <= m  BY <1>2, <1>4
  <2>2. b * (q + 1) <= b * m  BY <1>2, <2>1
  <2>3. b * (q + 1) = b * q + b  BY <1>2
  <2> QED  BY <1>2, <2>2, <2>3
<1> QED  BY <1>2, <1>3, <1>4 DEF q

-----------------------------------------------------------------------------
(* The configuration.                                                      *)

\* What initialize accepted stays what it accepted: a positive goal, a bonus
\* goal above it, and a fee that is at most the whole.
ConfigAccepted ==
  config # None =>
    /\ config.goal >= 1
    /\ config.bonus # None => config.bonus > config.goal
    /\ config.feeBps # None => config.feeBps <= BpsScale

LEMMA ConfigStart == Init => ConfigAccepted
BY DEF Init, ConfigAccepted

LEMMA ConfigStep == ConfigAccepted /\ [Next]_vars => ConfigAccepted'
<1> SUFFICES ASSUME ConfigAccepted, [Next]_vars PROVE ConfigAccepted'
  OBVIOUS
<1>1. CASE \E k \in Configs : Initialize(k)
  BY <1>1 DEF Initialize, ValidConfig, ConfigAccepted
<1>2. ASSUME UNCHANGED config PROVE ConfigAccepted'
  BY <1>2 DEF ConfigAccepted
<1> QED
  BY <1>1, <1>2
     DEF Next, vars, ProvisionRoles, Contribute, Pledge, CollectPledges, Finalize,
         Withdraw, RefundSingle, Cancel, SetNftContract, Pause, Unpause,
         EmergencyStop, Tick

\* The parameters of an initialized campaign are always ones that initialize
\* accepts.
THEOREM AcceptedConfigs == Spec => []ConfigAccepted
BY ConfigStart, ConfigStep, PTL DEF Spec

-----------------------------------------------------------------------------
(* compute_progress_bps.                                                   *)

\* It shows 100% for what has reached a goal it can show, and for nothing
\* else; never more.
LEMMA ProgressIs ==
  ASSUME NEW raised \in Nat, NEW goal \in Nat, goal >= 1
  PROVE  /\ Progress(raised, goal) \in 0..BpsScale
         /\ Progress(raised, goal) = BpsScale <=> raised >= goal /\ Showable(goal)
<1>1. BpsScale \in Nat /\ BpsScale > 0 /\ ProductMax \in Nat
  BY BoundFacts, ViewsAssumption
<1>2. CASE raised <= 0
  <2>1. Progress(raised, goal) = 0  BY <1>2 DEF Progress
  <2> QED  BY <1>1, <1>2, <2>1
<1>3. CASE raised > 0
  <2> DEFINE scaled == raised * BpsScale
             needed == goal * BpsScale
             product == Min({scaled, ProductMax})
             shown == product \div goal
  <2>1. scaled \in Nat /\ needed \in Nat
    BY <1>1
  <2>2. raised >= goal => scaled >= needed
    BY <1>1
  <2>3. raised < goal => scaled < needed
    <3> SUFFICES ASSUME raised < goal PROVE scaled < needed
      OBVIOUS
    <3>1. (raised + 1) * BpsScale <= needed  BY <1>1
    <3>2. (raised + 1) * BpsScale = scaled + BpsScale  BY <1>1
    <3> QED  BY <1>1, <2>1, <3>1, <3>2
  <2>4. product = IF scaled <= ProductMax THEN scaled ELSE ProductMax
    <3> HIDE DEF scaled
    <3> QED  BY <1>1, <2>1, MinOfTwo
  <2>5. Showable(goal) <=> needed <= ProductMax
    BY DEF Showable
  <2>6. Progress(raised, goal) = Min({BpsScale, shown})
    BY <1>3 DEF Progress
  <2>7. needed = BpsScale * goal
    BY <1>1
  <2> HIDE DEF scaled, needed, product
  <2>8. product \in Nat
    BY <1>1, <2>1, <2>4
  <2>9. shown \in Nat /\ (shown >= BpsScale <=> product >= needed)
    BY <1>1, <2>7, <2>8, QuotientReaches
  <2> HIDE DEF shown
  <2>10. Progress(raised, goal) = IF BpsScale <= shown THEN BpsScale ELSE shown
    BY <1>1, <2>6, <2>9, MinOfTwo
  <2>11. product >= needed <=> raised >= goal /\ needed <= ProductMax
    BY <1>1, <2>1, <2>2, <2>3, <2>4
  <2> QED  BY <1>1, <2>5, <2>9, <2>10, <2>11
<1> QED  BY <1>2, <1>3

-----------------------------------------------------------------------------
(* collect_contribution_stats.                                             *)

\* The largest entry the scan returns bounds every entry, and is one of them
\* or nothing.
LEMMA LargestIs ==
  ASSUME IndInv
  PROVE  LET largest == ContributionStats.largest IN
         /\ largest \in Nat
         /\ \A c \in Contributors : contribution[c] <= largest
         /\ largest = 0 \/ \E c \in Contributors : largest = contribution[c]
<1> DEFINE S == {0} \cup {contribution[c] : c \in Listed(contributors)}
<1>1. /\ contribution \in [Contributors -> 0..MaxAmount] /\ MaxAmount \in Nat
      /\ contributors \in Seq(Contributors)
      /\ \A c \in Contributors : contribution[c] > 0 => c \in Listed(contributors)
  BY BoundFacts DEF IndInv, TypeOK, ListsComplete
<1>2. Listed(contributors) \subseteq Contributors
  BY <1>1 DEF Listed
<1>3. S \subseteq Nat /\ S # {} /\ \A x \in S : x <= MaxAmount
  BY <1>1, <1>2
<1>4. ContributionStats.largest = Max(S)
  BY DEF ContributionStats
<1>5. \A c \in Contributors : contribution[c] \in S
  BY <1>1
<1>6. \A x \in S : x = 0 \/ \E c \in Contributors : x = contribution[c]
  BY <1>2
<1> HIDE DEF S
<1>7. PICK x \in S : \A y \in S : y <= x
  BY <1>1, <1>3, LargestExists
<1>8. Max(S) = x
  <2>1. \A y \in S : y \in Int  BY <1>3
  <2> QED  BY <1>7, <2>1, MaxIs
<1> QED  BY <1>3, <1>4, <1>5, <1>6, <1>7, <1>8

\* The entries add up to no more than their number times the largest.
LEMMA SumWithinLargest ==
  ASSUME IndInv
  PROVE  Sum(contribution, Contributors)
           <= ContributionStats.largest * Len(contributors)
<1> DEFINE L == Listed(contributors)
           g == [c \in Contributors |-> IF c \in L THEN 1 ELSE 0]
           largest == ContributionStats.largest
<1>1. /\ contribution \in [Contributors -> 0..MaxAmount] /\ MaxAmount \in Nat
      /\ contributors \in Seq(Contributors)
      /\ \A i, j \in 1..Len(contributors) : contributors[i] = contributors[j] => i = j
      /\ \A c \in Contributors : contribution[c] > 0 => c \in L
  BY BoundFacts DEF IndInv, TypeOK, ListsComplete
<1>2. L \subseteq Contributors /\ IsFiniteSet(Contributors)
  BY <1>1, AccountFacts DEF Listed
<1>3. largest \in Nat /\ \A c \in Contributors : contribution[c] <= largest
  BY LargestIs
<1>4. Cardinality(L) = Len(contributors)
  BY <1>1, LengthIsSize DEF Listed
<1>5. Sum(g, Contributors) = Cardinality(L)
  <2>1. \A x \in Contributors : g[x] = IF x \in L THEN 1 ELSE 0  OBVIOUS
  <2> HIDE DEF g, L
  <2> QED  BY <1>2, <2>1, SumCounts
<1>6. \A x \in Contributors :
         contribution[x] \in Int /\ g[x] \in Int /\ contribution[x] <= largest * g[x]
  <2> SUFFICES ASSUME NEW x \in Contributors
               PROVE  /\ contribution[x] \in Int /\ g[x] \in Int
                      /\ contribution[x] <= largest * g[x]
    OBVIOUS
  <2>1. contribution[x] \in Nat  BY <1>1
  <2>2. CASE x \in L
    <3>1. g[x] = 1 /\ largest * 1 = largest  BY <1>3, <2>2
    <3> QED  BY <1>3, <2>1, <3>1
  <2>3. CASE x \notin L
    <3>1. g[x] = 0 /\ largest * 0 = 0 /\ contribution[x] = 0
      BY <1>1, <1>3, <2>1, <2>3
    <3> QED  BY <3>1
  <2> QED  BY <2>2, <2>3
<1> HIDE DEF g, L, largest
<1>7. Sum(contribution, Contributors) <= largest * Sum(g, Contributors)
  BY <1>2, <1>3, <1>6, SumScale
<1> QED  BY <1>4, <1>5, <1>7 DEF largest

\* While the total is the sum of the entries, the statistics fit it.
LEMMA StatsFit ==
  ASSUME IndInv, Sum(contribution, Contributors) = totalRaised
  PROVE  LET stats == ContributionStats IN
         /\ stats.average <= stats.largest
         /\ stats.largest <= totalRaised
         /\ stats.count * stats.average <= totalRaised
<1> DEFINE stats == ContributionStats
           n == Len(contributors)
<1>1. /\ contribution \in [Contributors -> 0..MaxAmount] /\ MaxAmount \in Nat
      /\ totalRaised \in Nat /\ contributors \in Seq(Contributors) /\ n \in Nat
      /\ IsFiniteSet(Contributors)
  BY BoundFacts, AccountFacts DEF IndInv, TypeOK
<1>2. /\ stats.count = n
      /\ stats.average = IF contributors = <<>> THEN 0 ELSE totalRaised \div n
  BY DEF ContributionStats
<1>3. /\ stats.largest \in Nat
      /\ stats.largest = 0 \/ \E c \in Contributors : stats.largest = contribution[c]
  BY LargestIs
<1>4. totalRaised <= stats.largest * n
  BY SumWithinLargest
<1> HIDE DEF stats
<1>5. stats.largest <= totalRaised
  <2>1. \A c \in Contributors : contribution[c] <= totalRaised
    <3>1. \A c \in Contributors : contribution[c] \in Nat  BY <1>1
    <3> QED  BY <1>1, <3>1, SumBoundsEntry
  <2> QED  BY <1>1, <1>3, <2>1
<1>6. CASE contributors = <<>>
  <2>1. n * 0 = 0  BY <1>1
  <2> QED  BY <1>1, <1>2, <1>3, <1>5, <1>6, <2>1 DEF stats
<1>7. CASE contributors # <<>>
  <2>1. n > 0
    BY <1>1, <1>7
  <2> HIDE DEF n
  <2> DEFINE average == totalRaised \div n
             one == stats.largest + 1
  <2>2. average \in Nat /\ average * n <= totalRaised
    BY <1>1, <2>1, QuotientReaches
  <2>3. average >= one <=> totalRaised >= one * n
    <3>1. one \in Nat  BY <1>3
    <3> HIDE DEF one
    <3> QED  BY <1>1, <2>1, <3>1, QuotientReaches
  <2>4. one * n = stats.largest * n + n /\ stats.largest * n \in Nat
    BY <1>1, <1>3
  <2>5. stats.average = average
    BY <1>2, <1>7
  <2>6. n * average = average * n
    BY <1>1, <2>2
  <2> HIDE DEF average
  <2>7. average <= stats.largest
    BY <1>1, <1>3, <1>4, <2>1, <2>2, <2>3, <2>4
  <2> QED  BY <1>2, <1>5, <2>2, <2>5, <2>6, <2>7 DEF stats
<1> QED  BY <1>6, <1>7

-----------------------------------------------------------------------------
(* get_stats and the single views.                                         *)

LEMMA ViewsFollow == IndInv /\ ConfigAccepted => ViewsConsistent
<1> SUFFICES ASSUME IndInv, ConfigAccepted, config # None
             PROVE  ViewsConsistent
  BY DEF ViewsConsistent
<1> DEFINE stats == GetStats
<1>1. /\ stats.total_raised = totalRaised
      /\ stats.progress = Progress(totalRaised, config.goal)
      /\ stats.count = ContributionStats.count
      /\ stats.average = ContributionStats.average
      /\ stats.largest = ContributionStats.largest
  BY DEF GetStats, StoredViews
<1>2. /\ config \in Configs /\ totalRaised \in Nat
      /\ contribution \in [Contributors -> 0..MaxAmount] /\ MaxAmount \in Nat
      /\ now \in Nat /\ IsFiniteSet(Contributors)
  BY BoundFacts, AccountFacts DEF IndInv, TypeOK
<1>3. /\ config.goal \in Nat /\ config.goal >= 1 /\ config.deadline \in Nat
      /\ config.bonus # None => config.bonus \in Nat /\ config.bonus > config.goal
  BY <1>2, ConfigFacts DEF ConfigAccepted
<1>4. BpsScale \in Nat /\ ProductMax \in Nat
  BY BoundFacts, ViewsAssumption
<1>5. /\ stats.progress \in 0..BpsScale
      /\ stats.progress = BpsScale <=> totalRaised >= config.goal /\ Showable(config.goal)
  BY <1>1, <1>2, <1>3, ProgressIs
<1>6. ASSUME (status = "Active" /\ ~DeadlinePassed) \/ status = "Expired"
      PROVE  Sum(contribution, Contributors) = totalRaised
  BY <1>6 DEF IndInv, OwedOrFunded
<1>7. ASSUME (status = "Active" /\ ~DeadlinePassed) \/ status = "Expired"
      PROVE  /\ stats.average <= stats.largest
             /\ stats.largest <= stats.total_raised
             /\ stats.count * stats.average <= stats.total_raised
  <2> HIDE DEF stats
  <2> QED  BY <1>1, <1>6, <1>7, StatsFit
<1>8. ASSUME status = "Expired"
      PROVE  /\ stats.progress < BpsScale
             /\ Sum([c \in Contributors |-> RefundAvailable(c)], Contributors) = totalRaised
  <2>1. totalRaised < config.goal
    BY <1>8 DEF IndInv, OutcomeMatchesGoal
  <2>2. stats.progress < BpsScale
    <3> HIDE DEF stats
    <3> QED  BY <1>2, <1>3, <1>4, <1>5, <2>1
  <2> DEFINE offered == [c \in Contributors |-> RefundAvailable(c)]
  <2>3. \A c \in Contributors : offered[c] = contribution[c]
    BY <1>8 DEF RefundAvailable, RefundOpen
  <2> HIDE DEF offered
  <2>4. Sum(offered, Contributors) = Sum(contribution, Contributors)
    BY <1>2, <2>3, SumEqual
  <2>5. Sum(contribution, Contributors) = totalRaised
    BY <1>6, <1>8
  <2> QED  BY <2>2, <2>4, <2>5 DEF offered
<1>9. ASSUME BonusReached, Showable(config.bonus)
      PROVE  BonusProgress = BpsScale /\ stats.progress = BpsScale
  <2>1. /\ config.bonus \in Nat /\ config.bonus > config.goal
        /\ totalRaised >= config.bonus /\ config.bonus # None
    BY <1>3, <1>9 DEF BonusReached
  <2>2. BonusProgress = BpsScale
    BY <1>2, <1>3, <1>9, <2>1, ProgressIs DEF BonusProgress
  <2>3. config.goal * BpsScale <= config.bonus * BpsScale
    BY <1>3, <1>4, <2>1
  <2>4. Showable(config.goal)
    BY <1>3, <1>4, <1>9, <2>1, <2>3 DEF Showable
  <2>5. totalRaised >= config.goal
    BY <1>2, <1>3, <2>1
  <2> QED  BY <1>5, <2>2, <2>4, <2>5
<1> HIDE DEF stats
<1> QED  BY <1>5, <1>7, <1>8, <1>9 DEF ViewsConsistent, stats

\* What get_stats, the bonus views and refund_available show at one moment
\* fits together, in every reachable state.
THEOREM ViewsAlwaysConsistent == Spec => []ViewsConsistent
BY Invariance, AcceptedConfigs, ViewsFollow, PTL
-----------------------------------------------------------------------------
(* The scanners.                                                           *)

\* What the scanners read of an initialized campaign.
LEMMA BooksRead ==
  ASSUME IndInv, ConfigAccepted, config # None
  PROVE  /\ config.goal \in Nat /\ config.goal >= 1
         /\ config.min \in Nat /\ config.min >= 1
         /\ config.deadline \in Nat
         /\ config.feeBps # None => config.feeBps \in Nat /\ config.feeBps <= BpsScale
         /\ config.bonus # None => config.bonus \in Nat /\ config.bonus > config.goal
         /\ now \in Nat /\ totalRaised \in Nat /\ totalRaised <= MaxAmount
         /\ status \in StatusValues \ {"Unset"}
         /\ contributors \in Seq(Contributors) /\ Len(contributors) <= MaxContributors
         /\ \A c \in Contributors : contribution[c] \in Nat /\ contribution[c] <= MaxAmount
         /\ NoEntryNegative
<1>1. /\ config \in Configs /\ now \in Nat /\ totalRaised \in 0..MaxAmount
      /\ contribution \in [Contributors -> 0..MaxAmount] /\ status \in StatusValues
      /\ contributors \in Seq(Contributors) /\ Len(contributors) <= MaxContributors
  BY DEF IndInv, TypeOK
<1>2. status # "Unset" /\ config.min >= 1
  BY DEF IndInv, BlankUntilInitialized
<1>3. Listed(contributors) \subseteq Contributors
  BY <1>1 DEF Listed
<1>4. NoEntryNegative
  BY <1>1, <1>3, BoundFacts DEF NoEntryNegative
<1> QED  BY <1>1, <1>2, <1>4, BoundFacts, ConfigFacts DEF ConfigAccepted

\* No name of a few is missing exactly when none are counted.
LEMMA CountNone ==
  ASSUME NEW S, IsFiniteSet(S)
  PROVE  Cardinality(S) = 0 <=> S = {}
BY FS_EmptySet

\* The names of a record's checks are finitely many.
LEMMA FewNames ==
  ASSUME NEW a, NEW b, NEW c, NEW d, NEW e
  PROVE  IsFiniteSet({a, b, c, d, e})
<1>1. IsFiniteSet({}) 
  BY FS_EmptySet
<1>2. IsFiniteSet({} \cup {a})
  BY <1>1, FS_AddElement
<1>3. IsFiniteSet(({} \cup {a}) \cup {b})
  BY <1>2, FS_AddElement
<1>4. IsFiniteSet((({} \cup {a}) \cup {b}) \cup {c})
  BY <1>3, FS_AddElement
<1>5. IsFiniteSet(((({} \cup {a}) \cup {b}) \cup {c}) \cup {d})
  BY <1>4, FS_AddElement
<1>6. IsFiniteSet((((({} \cup {a}) \cup {b}) \cup {c}) \cup {d}) \cup {e})
  BY <1>5, FS_AddElement
<1>7. (((({} \cup {a}) \cup {b}) \cup {c}) \cup {d}) \cup {e} = {a, b, c, d, e}
  OBVIOUS
<1> QED  BY <1>6, <1>7

\* The ten checks of the automation: which of them fail.
LEMMA AutomationFails ==
  ASSUME NEW e
  PROVE  LET failing == Failing(AutomationChecks(e)) IN
         /\ "admin_initialized" \in failing <=> ~Present
         /\ "creator_set" \in failing <=> ~Present
         /\ "token_set" \in failing <=> ~Present
         /\ "status_valid" \in failing <=> ~Present
         /\ "goal_positive" \in failing <=> ~(Present /\ config.goal >= 1)
         /\ "min_contribution_positive" \in failing <=> ~(Present /\ config.min >= 1)
         /\ "deadline_in_future" \in failing <=> ~(Present /\ config.deadline > now)
         /\ "total_raised_non_negative" \in failing <=> ~(totalRaised >= 0)
         /\ "platform_fee_within_limit" \in failing <=> ~FeeWithin(FeeCap)
         /\ "paused_flag_present" \in failing <=> ~e.flag
         /\ failing \subseteq {"admin_initialized", "creator_set", "token_set",
              "status_valid", "goal_positive"} \cup {"min_contribution_positive",
              "deadline_in_future", "total_raised_non_negative",
              "platform_fee_within_limit", "paused_flag_present"}
BY DEF Failing, AutomationChecks

\* Which of the other scanners' checks fail.
LEMMA ValidationFails ==
  LET failing == Failing(ValidationChecks) IN
  /\ "deadline" \in failing <=> ~(status = "Active" => config.deadline > now)
  /\ failing = {} <=>
       /\ Present /\ config.goal >= 1 /\ config.min >= 1
       /\ status = "Active" => config.deadline > now
       /\ FeeWithin(FeeCap)
<1> DEFINE failing == Failing(ValidationChecks)
<1>1. /\ "admin" \in failing <=> ~Present
      /\ "status" \in failing <=> ~Present
      /\ "goal" \in failing <=> ~(Present /\ config.goal >= 1)
      /\ "min" \in failing <=> ~(Present /\ config.min >= 1)
      /\ "deadline" \in failing <=> ~(status = "Active" => config.deadline > now)
      /\ "fee" \in failing <=> ~FeeWithin(FeeCap)
      /\ failing \subseteq {"admin", "status", "goal", "min", "deadline", "fee"}
  BY DEF Failing, ValidationChecks
<1> HIDE DEF failing
<1>2. failing = {} <=> /\ "admin" \notin failing /\ "status" \notin failing
                       /\ "goal" \notin failing /\ "min" \notin failing
                       /\ "deadline" \notin failing /\ "fee" \notin failing
  BY <1>1
<1> QED  BY <1>1, <1>2 DEF failing

LEMMA MonitoringFails ==
  ASSUME NEW e
  PROVE  LET failing == Failing(MonitoringChecks(e)) IN
         /\ "bounds" \in failing <=>
              ~(Len(contributors) <= MaxContributors /\ e.roadmap <= MaxRoadmapItems)
         /\ "fee" \in failing <=> ~FeeWithin(BpsScale)
         /\ "status" \in failing <=> status = "Active" /\ now > config.deadline
         /\ failing = {} <=>
              /\ e.owned
              /\ Len(contributors) <= MaxContributors /\ e.roadmap <= MaxRoadmapItems
              /\ totalRaised <= 2 * config.goal /\ NoEntryNegative
              /\ ~(status = "Active" /\ now > config.deadline)
              /\ FeeWithin(BpsScale)
<1> DEFINE failing == Failing(MonitoringChecks(e))
<1>1. /\ "auth" \in failing <=> ~e.owned
      /\ "bounds" \in failing <=>
           ~(Len(contributors) <= MaxContributors /\ e.roadmap <= MaxRoadmapItems)
      /\ "arithmetic" \in failing <=> ~(totalRaised <= 2 * config.goal /\ NoEntryNegative)
      /\ "status" \in failing <=> status = "Active" /\ now > config.deadline
      /\ "fee" \in failing <=> ~FeeWithin(BpsScale)
      /\ failing \subseteq {"auth", "bounds", "arithmetic", "status", "fee"}
  BY DEF Failing, MonitoringChecks
<1> HIDE DEF failing
<1>2. failing = {} <=> /\ "auth" \notin failing /\ "bounds" \notin failing
                       /\ "arithmetic" \notin failing /\ "status" \notin failing
                       /\ "fee" \notin failing
  BY <1>1
<1> QED  BY <1>1, <1>2 DEF failing

LEMMA ComplianceFails ==
  Failing(ComplianceTests) = {} <=>
    /\ config.goal >= 1 /\ config.min >= 1 /\ FeeWithin(FeeCap)
    /\ config.deadline >= now + MinDeadlineOffset
    /\ totalRaised <= Min({2 * config.goal, MaxAmount})
    /\ Len(contributors) <= MaxContributors
<1> DEFINE failing == Failing(ComplianceTests)
<1>1. /\ "goal_minimum" \in failing <=> ~(config.goal >= 1)
      /\ "contribution_floor" \in failing <=> ~(config.min >= 1)
      /\ "platform_fee" \in failing <=> ~FeeWithin(FeeCap)
      /\ "deadline_buffer" \in failing <=> ~(config.deadline >= now + MinDeadlineOffset)
      /\ "arithmetic_bounds" \in failing <=>
           ~(totalRaised <= Min({2 * config.goal, MaxAmount}))
      /\ "contributor_limit" \in failing <=> ~(Len(contributors) <= MaxContributors)
      /\ failing \subseteq {"goal_minimum", "contribution_floor", "platform_fee",
                            "deadline_buffer", "arithmetic_bounds", "contributor_limit"}
  BY DEF Failing, ComplianceTests
<1> HIDE DEF failing
<1>2. failing = {} <=> /\ "goal_minimum" \notin failing
                       /\ "contribution_floor" \notin failing
                       /\ "platform_fee" \notin failing
                       /\ "deadline_buffer" \notin failing
                       /\ "arithmetic_bounds" \notin failing
                       /\ "contributor_limit" \notin failing
  BY <1>1
<1> QED  BY <1>1, <1>2 DEF failing

LEMMA ProbesFail ==
  LET failing == Failing(Probes) IN
  /\ IsFiniteSet(failing)
  /\ "deadline_passed" \in failing <=> ~(now < config.deadline)
  /\ failing = {} <=>
       /\ totalRaised < OverflowMark /\ config.goal > 0 /\ config.min > 0
       /\ now < config.deadline /\ totalRaised <= config.goal
       /\ Present /\ status # "Cancelled"
<1> DEFINE failing == Failing(Probes)
           first == {"overflow_risk", "zero_goal", "zero_min_contribution",
                     "deadline_passed", "over_funded"}
           rest == {"missing_admin", "cancelled_status"}
<1>1. /\ "overflow_risk" \in failing <=> ~(totalRaised < OverflowMark)
      /\ "zero_goal" \in failing <=> ~(config.goal > 0)
      /\ "zero_min_contribution" \in failing <=> ~(config.min > 0)
      /\ "deadline_passed" \in failing <=> ~(now < config.deadline)
      /\ "over_funded" \in failing <=> ~(totalRaised <= config.goal)
      /\ "missing_admin" \in failing <=> ~Present
      /\ "cancelled_status" \in failing <=> status = "Cancelled"
      /\ failing \subseteq first \cup rest
  BY DEF Failing, Probes
<1>2. IsFiniteSet(first \cup rest)
  <2>1. IsFiniteSet(first)  BY FewNames
  <2>2. IsFiniteSet(rest)
    <3>1. rest = {"missing_admin", "cancelled_status", "missing_admin",
                  "missing_admin", "missing_admin"}
      OBVIOUS
    <3> HIDE DEF rest
    <3> QED  BY <3>1, FewNames
  <2> HIDE DEF first, rest
  <2> QED  BY <2>1, <2>2, FS_Union
<1> HIDE DEF failing
<1>3. failing = {} <=> /\ "overflow_risk" \notin failing /\ "zero_goal" \notin failing
                       /\ "zero_min_contribution" \notin failing
                       /\ "deadline_passed" \notin failing
                       /\ "over_funded" \notin failing
                       /\ "missing_admin" \notin failing
                       /\ "cancelled_status" \notin failing
  BY <1>1
<1>4. IsFiniteSet(failing)
  <2> HIDE DEF first, rest
  <2> QED  BY <1>1, <1>2, FS_Subset
<1> QED  BY <1>1, <1>3, <1>4 DEF failing

\* The dashboard counts a total as too high only beyond the double of the goal,
\* unless the scaled total overflows.
LEMMA OverfundedIs ==
  ASSUME NEW raised \in Nat, NEW goal \in Nat, goal >= 1, raised <= 2 * goal
  PROVE  ~((raised * BpsScale) \div goal > 2 * BpsScale)
<1> DEFINE scaled == raised * BpsScale
           limit == 2 * BpsScale + 1
<1>1. BpsScale \in Nat /\ BpsScale > 0
  BY BoundFacts
<1>2. scaled \in Nat /\ limit \in Nat
  BY <1>1
<1>3. scaled <= (2 * goal) * BpsScale
  BY <1>1
<1>4. limit * goal = (2 * goal) * BpsScale + goal
  BY <1>1
<1>5. scaled < limit * goal
  <2>1. (2 * goal) * BpsScale \in Nat  BY <1>1
  <2> HIDE DEF scaled, limit
  <2> QED  BY <1>2, <1>3, <1>4, <2>1
<1>6. scaled \div goal \in Nat /\ ~(scaled \div goal >= limit)
  <2>1. limit * goal \in Nat  BY <1>2
  <2> HIDE DEF scaled, limit
  <2> QED  BY <1>2, <1>5, <2>1, QuotientReaches
<1> HIDE DEF scaled
<1> QED  BY <1>1, <1>6 DEF scaled

\* The roadmap is no longer than the contract lets it grow.
LEMMA RoadmapWithin ==
  ASSUME NEW e \in Elsewhere
  PROVE  e.roadmap <= MaxRoadmapItems
BY AuditsAssumption DEF Elsewhere

\* Before the deadline of a campaign that takes contributions the scanners
\* object to nothing but what only one of them limits.
LEMMA OpenClean == IndInv /\ ConfigAccepted => OpenCampaignClean
<1> SUFFICES ASSUME IndInv, ConfigAccepted, status = "Active", now < config.deadline
             PROVE  OpenCampaignClean
  BY DEF OpenCampaignClean
<1> DEFINE feeOk == FeeWithin(FeeCap)
           overDouble == totalRaised > 2 * config.goal
<1>1. config # None
  BY DEF IndInv, BlankUntilInitialized
<1>2. Present
  BY <1>1 DEF Present
<1>3. /\ config.goal \in Nat /\ config.goal >= 1 /\ config.min \in Nat /\ config.min >= 1
      /\ config.deadline \in Nat /\ now \in Nat /\ totalRaised \in Nat
      /\ totalRaised <= MaxAmount /\ MaxAmount \in Nat
      /\ config.feeBps # None => config.feeBps \in Nat /\ config.feeBps <= BpsScale
      /\ Len(contributors) <= MaxContributors /\ NoEntryNegative
  BY <1>1, BooksRead, BoundFacts
<1>4. FeeWithin(BpsScale)
  BY <1>3 DEF FeeWithin
<1>5. ASSUME NEW e \in Elsewhere
      PROVE  /\ AuditAllChecks(e).all_passed <=> feeOk /\ e.flag
             /\ AuditInitialization(e)
             /\ AuditFinancialIntegrity(e) <=> feeOk
  <2> DEFINE failing == Failing(AutomationChecks(e))
             first == {"admin_initialized", "creator_set", "token_set", "status_valid",
                       "goal_positive"}
             rest == {"min_contribution_positive", "deadline_in_future",
                      "total_raised_non_negative", "platform_fee_within_limit",
                      "paused_flag_present"}
  <2>1. /\ failing \subseteq {"platform_fee_within_limit", "paused_flag_present"}
        /\ "platform_fee_within_limit" \in failing <=> ~feeOk
        /\ "paused_flag_present" \in failing <=> ~e.flag
    <3>1. /\ "admin_initialized" \notin failing /\ "creator_set" \notin failing
          /\ "token_set" \notin failing /\ "status_valid" \notin failing
          /\ "goal_positive" \notin failing
          /\ "min_contribution_positive" \notin failing
          /\ "deadline_in_future" \notin failing
          /\ "total_raised_non_negative" \notin failing
      BY <1>2, <1>3, AutomationFails
    <3>2. /\ failing \subseteq first \cup rest
          /\ "platform_fee_within_limit" \in failing <=> ~feeOk
          /\ "paused_flag_present" \in failing <=> ~e.flag
      BY AutomationFails
    <3> HIDE DEF failing
    <3> QED  BY <3>1, <3>2
  <2>2. IsFiniteSet(failing)
    <3>1. IsFiniteSet({"platform_fee_within_limit", "paused_flag_present",
                       "paused_flag_present", "paused_flag_present", "paused_flag_present"})
      BY FewNames
    <3> HIDE DEF failing
    <3>2. failing \subseteq {"platform_fee_within_limit", "paused_flag_present",
                       "paused_flag_present", "paused_flag_present", "paused_flag_present"}
      BY <2>1
    <3> QED  BY <3>1, <3>2, FS_Subset
  <2>3. AuditAllChecks(e).all_passed <=> failing = {}
    <3>1. AuditAllChecks(e).all_passed <=> Cardinality(failing) = 0
      BY DEF AuditAllChecks
    <3> HIDE DEF failing
    <3> QED  BY <2>2, <3>1, CountNone
  <2>4. AuditInitialization(e)
    <3> HIDE DEF failing
    <3>1. failing \cap {"admin_initialized", "creator_set", "token_set", "status_valid",
                        "goal_positive", "min_contribution_positive"} = {}
      BY <2>1
    <3> QED  BY <3>1 DEF AuditInitialization, failing
  <2>5. AuditFinancialIntegrity(e) <=> feeOk
    <3> HIDE DEF failing
    <3>1. failing \cap {"goal_positive", "total_raised_non_negative",
                        "platform_fee_within_limit"} = {} <=> feeOk
      <4>1. CASE feeOk
        BY <2>1, <4>1
      <4>2. CASE ~feeOk
        <5>1. "platform_fee_within_limit" \in failing
          BY <2>1, <4>2
        <5> QED  BY <4>2, <5>1
      <4> QED  BY <4>1, <4>2
    <3> QED  BY <3>1 DEF AuditFinancialIntegrity, failing
  <2> HIDE DEF failing
  <2> QED  BY <2>1, <2>3, <2>4, <2>5
<1>6. ASSUME NEW e \in Elsewhere
      PROVE  IF MonitoringRuns
             THEN Failing(MonitoringChecks(e)) = {} <=> e.owned /\ ~overDouble
             ELSE ~overDouble
  <2>1. Failing(MonitoringChecks(e)) = {} <=>
          /\ e.owned
          /\ Len(contributors) <= MaxContributors /\ e.roadmap <= MaxRoadmapItems
          /\ totalRaised <= 2 * config.goal /\ NoEntryNegative
          /\ ~(status = "Active" /\ now > config.deadline)
          /\ FeeWithin(BpsScale)
    BY MonitoringFails
  <2>2. totalRaised <= 2 * config.goal <=> ~overDouble
    BY <1>3
  <2>3. ~(now > config.deadline)
    BY <1>3
  <2>4. e.roadmap <= MaxRoadmapItems
    BY RoadmapWithin
  <2>5. ~MonitoringRuns => ~overDouble
    BY <1>2, <1>3 DEF MonitoringRuns
  <2> HIDE DEF overDouble
  <2> QED  BY <1>3, <1>4, <2>1, <2>2, <2>3, <2>4, <2>5, Zenon
<1>7. ASSUME NEW e \in Elsewhere
      PROVE  /\ Healthy(e) => feeOk
             /\ feeOk /\ ~overDouble /\ totalRaised * BpsScale <= ProductMax => Healthy(e)
  <2> DEFINE checks == Dashboard(e)
  <2>1. /\ checks.fee = "critical" <=> ~feeOk
        /\ checks.total # "critical" /\ checks.goal # "critical"
        /\ checks.deadline # "critical"
        /\ checks.over = "critical" <=> Overcontributed
        /\ checks.admin # "critical" /\ checks.paused # "critical"
    BY <1>2, <1>3, AuditsAssumption DEF Dashboard, Grade, FeeWithin
  <2>2. DOMAIN checks = {"fee", "total", "goal", "deadline", "over", "admin", "paused"}
    BY <1>2 DEF Dashboard
  <2>3. Healthy(e) <=> \A n \in DOMAIN checks : checks[n] # "critical"
    BY DEF Healthy
  <2>4. ~overDouble /\ totalRaised * BpsScale <= ProductMax => ~Overcontributed
    <3> SUFFICES ASSUME ~overDouble, totalRaised * BpsScale <= ProductMax
                 PROVE  ~Overcontributed
      OBVIOUS
    <3>1. totalRaised <= 2 * config.goal
      BY <1>3
    <3>2. ~((totalRaised * BpsScale) \div config.goal > 2 * BpsScale)
      BY <1>3, <3>1, OverfundedIs
    <3>3. ~(totalRaised * BpsScale > ProductMax)
      <4>1. totalRaised * BpsScale \in Nat /\ ProductMax \in Nat
        BY <1>3, BoundFacts, ViewsAssumption
      <4> QED  BY <4>1
    <3> QED  BY <3>2, <3>3 DEF Overcontributed
  <2> HIDE DEF checks
  <2> QED  BY <2>1, <2>2, <2>3, <2>4
<1>8. Failing(ValidationChecks) = {} <=> feeOk
  BY <1>2, <1>3, ValidationFails
<1>9. BaselineScan = "Ok"
  BY <1>2, <1>3 DEF BaselineScan
<1>10. Failing(ComplianceTests) = {} <=>
         feeOk /\ ~overDouble /\ config.deadline >= now + MinDeadlineOffset
  <2>1. totalRaised <= Min({2 * config.goal, MaxAmount}) <=> ~overDouble
    <3>1. 2 * config.goal \in Nat
      BY <1>3
    <3>2. Min({2 * config.goal, MaxAmount}) =
            IF 2 * config.goal <= MaxAmount THEN 2 * config.goal ELSE MaxAmount
      BY <1>3, <3>1, MinOfTwo
    <3> QED  BY <1>3, <3>1, <3>2
  <2> HIDE DEF overDouble
  <2> QED  BY <1>3, <2>1, ComplianceFails
<1>11. RunAssessment.failed = 0 <=>
         totalRaised <= config.goal /\ totalRaised < OverflowMark
  <2>1. RunAssessment.failed = Cardinality(Failing(Probes))
    BY DEF RunAssessment
  <2>2. RunAssessment.failed = 0 <=> Failing(Probes) = {}
    BY <2>1, ProbesFail, CountNone
  <2> QED  BY <1>2, <1>3, <2>2, ProbesFail
<1> QED
  BY <1>5, <1>6, <1>7, <1>8, <1>9, <1>10, <1>11 DEF OpenCampaignClean

\* A campaign whose deadline has come is reported by every scanner.
LEMMA OverdueSeen == IndInv /\ ConfigAccepted => OverdueReported
<1> SUFFICES ASSUME IndInv, ConfigAccepted, status = "Active", now >= config.deadline
             PROVE  OverdueReported
  BY DEF OverdueReported
<1>1. config # None
  BY DEF IndInv, BlankUntilInitialized
<1>2. Present
  BY <1>1 DEF Present
<1>3. /\ config.goal \in Nat /\ config.goal >= 1 /\ config.deadline \in Nat /\ now \in Nat
  BY <1>1, BooksRead
<1>4. "deadline" \in Failing(ValidationChecks)
  BY <1>3, ValidationFails
<1>5. BaselineScan = "DeadlineInvalid"
  BY <1>2, <1>3 DEF BaselineScan
<1>6. "deadline_passed" \in Failing(Probes)
  BY <1>3, ProbesFail
<1>7. ASSUME NEW e \in Elsewhere
      PROVE  /\ "deadline_in_future" \in Failing(AutomationChecks(e))
             /\ Dashboard(e).deadline = "warning" <=> now > config.deadline
             /\ MonitoringRuns =>
                  ("status" \in Failing(MonitoringChecks(e)) <=> now > config.deadline)
  <2>1. "deadline_in_future" \in Failing(AutomationChecks(e))
    BY <1>3, AutomationFails
  <2>2. Dashboard(e).deadline = "warning" <=> now > config.deadline
    BY <1>2 DEF Dashboard, Grade
  <2>3. "status" \in Failing(MonitoringChecks(e)) <=> now > config.deadline
    BY MonitoringFails
  <2> QED  BY <2>1, <2>2, <2>3
<1> QED  BY <1>4, <1>5, <1>6, <1>7 DEF OverdueReported

\* The books never look corrupt.
LEMMA NothingCorrupt == IndInv /\ ConfigAccepted => NoCorruptionFound
<1> SUFFICES ASSUME IndInv, ConfigAccepted, Present
             PROVE  NoCorruptionFound
  BY DEF NoCorruptionFound
<1>1. /\ config.goal \in Nat /\ config.goal >= 1 /\ config.min \in Nat /\ config.min >= 1
      /\ config.deadline \in Nat /\ now \in Nat /\ totalRaised \in Nat
      /\ config.feeBps # None => config.feeBps \in Nat /\ config.feeBps <= BpsScale
      /\ Len(contributors) <= MaxContributors /\ NoEntryNegative
  BY BooksRead DEF Present
<1>2. BaselineScan \in {"Ok", "DeadlineInvalid"}
  BY <1>1 DEF BaselineScan
<1>3. ASSUME NEW e \in Elsewhere
      PROVE  /\ {"total_raised_non_negative", "goal_positive",
                 "min_contribution_positive"} \cap Failing(AutomationChecks(e)) = {}
             /\ MonitoringRuns => {"bounds", "fee"} \cap Failing(MonitoringChecks(e)) = {}
  <2>1. /\ "total_raised_non_negative" \notin Failing(AutomationChecks(e))
        /\ "goal_positive" \notin Failing(AutomationChecks(e))
        /\ "min_contribution_positive" \notin Failing(AutomationChecks(e))
    BY <1>1, AutomationFails
  <2>2. /\ "bounds" \notin Failing(MonitoringChecks(e))
        /\ "fee" \notin Failing(MonitoringChecks(e))
    <3>1. FeeWithin(BpsScale)
      BY <1>1 DEF FeeWithin
    <3> QED  BY <1>1, <3>1, RoadmapWithin, MonitoringFails
  <2> QED  BY <2>1, <2>2
<1> QED  BY <1>2, <1>3 DEF NoCorruptionFound

\* cancel leaves no total behind; only the emergency stop cancels a campaign
\* that still has one.
CancelledEmpty == status = "Cancelled" /\ ~stopped => totalRaised = 0

LEMMA CancelledStart == Init => CancelledEmpty
BY DEF Init, CancelledEmpty

LEMMA CancelledStep == CancelledEmpty /\ [Next]_vars => CancelledEmpty'
<1> SUFFICES ASSUME CancelledEmpty, [Next]_vars PROVE CancelledEmpty'
  OBVIOUS
<1>1. ASSUME UNCHANGED <<status, stopped, totalRaised>> PROVE CancelledEmpty'
  BY <1>1 DEF CancelledEmpty
<1>2. ASSUME status' # "Cancelled" PROVE CancelledEmpty'
  BY <1>2 DEF CancelledEmpty
<1>3. CASE \E k \in Configs : Initialize(k)
  BY <1>2, <1>3 DEF Initialize
<1>4. CASE \E c \in Contributors, amount \in Amounts : Contribute(c, amount)
  BY <1>2, <1>4 DEF Contribute, ContributeOpen
<1>5. CASE CollectPledges
  BY <1>2, <1>5 DEF CollectPledges
<1>6. CASE Finalize
  BY <1>2, <1>6 DEF Finalize, Outcome
<1>7. CASE Withdraw
  BY <1>2, <1>7 DEF Withdraw, WithdrawOpen
<1>8. CASE \E c \in Contributors : RefundSingle(c)
  BY <1>2, <1>8 DEF RefundSingle, RefundOpen
<1>9. CASE Cancel
  BY <1>9 DEF Cancel, CancelledEmpty
<1>10. CASE EmergencyStop
  BY <1>10 DEF EmergencyStop, CancelledEmpty
<1> QED
  BY <1>1, <1>3, <1>4, <1>5, <1>6, <1>7, <1>8, <1>9, <1>10
     DEF Next, vars, ProvisionRoles, Pledge, SetNftContract, Pause, Unpause, Tick,
         ledgerVars, switchVars

\* A cancelled campaign that was not stopped owes nobody anything and counts
\* nothing as raised.
THEOREM CancelledAlwaysEmpty == Spec => []CancelledEmpty
BY CancelledStart, CancelledStep, PTL DEF Spec

\* The security audit compares the total with the sum of the entries.
LEMMA AuditMeans == IndInv /\ ConfigAccepted /\ CancelledEmpty => SecurityAuditMeans
<1> SUFFICES ASSUME IndInv, ConfigAccepted, CancelledEmpty, Present
             PROVE  SecurityAuditMeans
  BY DEF SecurityAuditMeans
<1> DEFINE failing == Failing(SecurityAudit)
           sum == Sum(contribution, Contributors)
<1>1. /\ config.goal \in Nat /\ config.goal >= 1 /\ config.min \in Nat /\ config.min >= 1
      /\ totalRaised \in Nat /\ NoEntryNegative /\ IsFiniteSet(Contributors)
      /\ \A c \in Contributors : contribution[c] \in Nat
  BY BooksRead, AccountFacts DEF Present
<1>2. /\ failing \subseteq {"total_raised_equals_sum"}
      /\ "total_raised_equals_sum" \in failing <=> sum # totalRaised
  <2>1. /\ "total_raised_equals_sum" \in failing <=> ~(sum = totalRaised)
        /\ "total_raised_non_negative" \in failing <=> ~(totalRaised >= 0)
        /\ "no_negative_contributions" \in failing <=> ~NoEntryNegative
        /\ "goal_positive" \in failing <=> ~(config.goal >= 1)
        /\ "min_contribution_positive" \in failing <=> ~(config.min >= 1)
        /\ "status_not_expired_to_active" \notin failing
        /\ failing \subseteq {"total_raised_equals_sum", "total_raised_non_negative",
             "no_negative_contributions", "goal_positive", "min_contribution_positive",
             "status_not_expired_to_active"}
    BY DEF Failing, SecurityAudit
  <2> HIDE DEF failing, sum
  <2> QED  BY <1>1, <2>1
<1>3. (status = "Active" /\ ~DeadlinePassed) \/ status = "Expired" => sum = totalRaised
  BY DEF IndInv, OwedOrFunded
<1>4. status = "Cancelled" /\ ~stopped => sum = totalRaised
  <2> SUFFICES ASSUME status = "Cancelled", ~stopped PROVE sum = totalRaised
    OBVIOUS
  <2>1. \A c \in Contributors : contribution[c] = 0
    BY DEF IndInv, CancelRefundsAll
  <2> QED  BY <1>1, <2>1, SumZero DEF CancelledEmpty
<1>5. ASSUME NEW c \in Contributors, minted[c] = 1 PROVE sum # totalRaised
  <2>1. contribution[c] > 0 /\ totalRaised = 0
    BY <1>5 DEF IndInv, MintedAtMostOnce
  <2>2. contribution[c] <= sum
    BY <1>1, SumBoundsEntry
  <2>3. sum \in Int
    BY <1>1, SumType
  <2> HIDE DEF sum
  <2> QED  BY <1>1, <2>1, <2>2, <2>3
<1> HIDE DEF failing, sum
<1>6. failing = {} <=> sum = totalRaised
  BY <1>2
<1> QED  BY <1>2, <1>3, <1>4, <1>5, <1>6 DEF SecurityAuditMeans, failing

\* What the contract accepts, the probes let pass.
LEMMA ProbesPass == IndInv /\ ConfigAccepted => AcceptedCallsPassProbes
<1> SUFFICES ASSUME IndInv, ConfigAccepted PROVE AcceptedCallsPassProbes
  OBVIOUS
<1>1. WithdrawOpen => WithdrawRequiresSucceeded
  BY DEF WithdrawOpen, WithdrawRequiresSucceeded
<1>2. RefundOpen => RefundRequiresExpired
  BY DEF RefundOpen, RefundRequiresExpired
<1>3. ASSUME status = "Active", NEW c \in Contributors, NEW amount \in Amounts,
             ContributeOpen(c, amount)
      PROVE  ProbeContributionAmount(amount) /\ ContributionWithinDeadline
  <2>1. config.deadline \in Nat /\ now \in Nat
    <3>1. config # None
      BY <1>3 DEF IndInv, BlankUntilInitialized
    <3> QED  BY <3>1, BooksRead
  <2> QED  BY <1>3, <2>1 DEF ContributeOpen, ProbeContributionAmount,
                             ContributionWithinDeadline, DeadlinePassed
<1>4. ASSUME status = "Active", NEW to \in {Outcome, "Cancelled"}
      PROVE  ValidStatusTransition(status, to)
  BY <1>4 DEF Outcome, ValidStatusTransition
<1> QED  BY <1>1, <1>2, <1>3, <1>4 DEF AcceptedCallsPassProbes

\* The scanners agree with each other and with the books, in every reachable
\* state, whatever they find elsewhere.
THEOREM AuditsAlwaysAgree == Spec => []AuditsAgree
<1>1. IndInv /\ ConfigAccepted /\ CancelledEmpty => AuditsAgree
  BY OpenClean, OverdueSeen, NothingCorrupt, AuditMeans, ProbesPass DEF AuditsAgree
<1> QED  BY <1>1, Invariance, AcceptedConfigs, CancelledAlwaysEmpty, PTL
-----------------------------------------------------------------------------
(* The helpers that compute a campaign's figures again.                    *)

\* The larger of two numbers.
LEMMA MaxOfTwo ==
  ASSUME NEW x \in Int, NEW y \in Int
  PROVE  Max({x, y}) = IF x >= y THEN x ELSE y
<1>1. Max({x, y}) \in {x, y} /\ \A z \in {x, y} : Max({x, y}) >= z
  BY DEF Max
<1> QED  BY <1>1

\* What saturates stays a number no larger than the limit.
LEMMA SaturatedIs ==
  ASSUME NEW x \in Nat
  PROVE  Saturated(x) = (IF x <= ProductMax THEN x ELSE ProductMax) /\ Saturated(x) \in Nat
<1>1. ProductMax \in Nat
  BY ViewsAssumption
<1> QED  BY <1>1, MinOfTwo DEF Saturated

\* All copies of the progress compute one number.
LEMMA CopiesFollow ==
  ASSUME IndInv, ConfigAccepted, config # None
  PROVE  ProgressCopiesAgree
<1> DEFINE raised == totalRaised
           goal == config.goal
           scaled == raised * BpsScale
           q == Saturated(scaled) \div goal
           shown == Progress(raised, goal)
           exact == scaled <= ProductMax
           s == CampaignSnapshot
<1>1. /\ raised \in Nat /\ goal \in Nat /\ goal >= 1 /\ BpsScale \in Nat /\ BpsScale > 0
      /\ config.deadline \in Nat /\ now \in Nat /\ ProductMax \in Nat
  BY BooksRead, BoundFacts, ViewsAssumption
<1>2. scaled \in Nat /\ (raised = 0 => scaled = 0)
  BY <1>1
<1>3. s.goal = goal /\ s.total_raised = raised /\ s.deadline = config.deadline
  BY DEF CampaignSnapshot
<1>4. Saturated(scaled) = (IF exact THEN scaled ELSE ProductMax) /\ Saturated(scaled) \in Nat
  <2> HIDE DEF scaled
  <2> QED  BY <1>2, SaturatedIs
<1>5. q \in Nat
  <2>1. \A x \in Nat : x \div goal \in Nat
    BY <1>1, QuotientReaches
  <2> HIDE DEF scaled, goal
  <2> QED  BY <1>4, <2>1
<1>6. raised = 0 => q = 0
  <2> SUFFICES ASSUME raised = 0 PROVE q = 0
    OBVIOUS
  <2>1. Saturated(scaled) = 0
    <3> HIDE DEF scaled
    <3> QED  BY <1>1, <1>2, <1>4
  <2>2. 0 \div goal = 0
    BY <1>1
  <2> QED  BY <2>1, <2>2
<1>7. shown = IF raised <= 0 THEN 0 ELSE IF BpsScale <= q THEN BpsScale ELSE q
  <2>1. shown = IF raised <= 0 \/ goal <= 0 THEN 0 ELSE Min({BpsScale, q})
    BY DEF Progress, Saturated
  <2> HIDE DEF q, shown, goal
  <2> QED  BY <1>1, <1>5, <2>1, MinOfTwo
<1>8. Clamp(q, 0, BpsScale) = IF BpsScale <= q THEN BpsScale ELSE q
  <2> HIDE DEF q
  <2> QED  BY <1>1, <1>5 DEF Clamp
<1>9. AlgorithmProgress(raised, goal) = shown
  <2>1. AlgorithmProgress(raised, goal) =
          IF raised <= 0 \/ goal <= 0 THEN 0 ELSE Clamp(q, 0, BpsScale)
    BY DEF AlgorithmProgress
  <2> HIDE DEF q, shown, goal
  <2> QED  BY <1>1, <1>7, <1>8, <2>1
<1>10. GoalMinimumProgress(raised, goal) = shown
  <2>1. GoalMinimumProgress(raised, goal) =
          IF raised <= 0 \/ goal <= 0 THEN 0 ELSE IF q >= BpsScale THEN BpsScale ELSE q
    BY DEF GoalMinimumProgress
  <2> HIDE DEF q, shown, goal
  <2> QED  BY <1>1, <1>5, <1>7, <2>1
<1>11. BoundaryProgress(raised, goal) = shown /\ SnapshotProgress(s) = shown
  <2>1. BoundaryProgress(raised, goal) = IF goal <= 0 THEN 0 ELSE Clamp(q, 0, BpsScale)
    BY DEF BoundaryProgress
  <2>2. SnapshotProgress(s) = IF goal <= 0 THEN 0 ELSE Clamp(q, 0, BpsScale)
    BY <1>3 DEF SnapshotProgress
  <2> HIDE DEF q, shown, goal
  <2> QED  BY <1>1, <1>5, <1>6, <1>7, <1>8, <2>1, <2>2
<1>12. NetworkProgress(raised, goal) = shown
  <2>1. NetworkProgress(raised, goal) = IF goal <= 0 THEN 0 ELSE Min({q, BpsScale})
    BY DEF NetworkProgress
  <2> HIDE DEF q, shown, goal
  <2> QED  BY <1>1, <1>5, <1>6, <1>7, <2>1, MinOfTwo
<1>13. exact => q = scaled \div goal
  BY <1>4
<1>14. exact \/ scaled > ProductMax
  <2> HIDE DEF scaled
  <2> QED  BY <1>1, <1>2
<1>15. RecursiveProgress(raised, goal) = IF exact THEN shown ELSE None
  <2>1. RecursiveProgress(raised, goal) =
          IF raised <= 0 \/ goal <= 0 THEN 0
          ELSE IF scaled > ProductMax THEN None ELSE Min({scaled \div goal, BpsScale})
    BY DEF RecursiveProgress
  <2>2. raised = 0 => exact
    <3> HIDE DEF scaled
    <3> QED  BY <1>1, <1>2
  <2>3. exact => ~(scaled > ProductMax)
    <3> HIDE DEF scaled
    <3> QED  BY <1>1, <1>2
  <2>4. exact /\ ~(raised <= 0) => Min({q, BpsScale}) = shown
    <3> HIDE DEF q, shown, goal
    <3> QED  BY <1>1, <1>5, <1>7, MinOfTwo
  <2> HIDE DEF q, shown, goal, scaled, exact
  <2> QED  BY <1>1, <1>7, <1>13, <1>14, <2>1, <2>2, <2>3, <2>4 DEF q
<1>16. LET f == Fraction(raised, goal, BpsScale) IN
       IF exact THEN shown = Min({f, BpsScale}) ELSE f = None
  <2>1. Fraction(raised, goal, BpsScale) =
          IF goal <= 0 \/ BpsScale <= 0 \/ scaled > ProductMax THEN None
          ELSE scaled \div goal
    BY DEF Fraction
  <2>2. exact => ~(scaled > ProductMax)
    <3> HIDE DEF scaled
    <3> QED  BY <1>1, <1>2
  <2>3. exact => Fraction(raised, goal, BpsScale) = q
    <3> HIDE DEF q, goal, scaled, exact
    <3> QED  BY <1>1, <1>13, <2>1, <2>2
  <2>4. ~exact => Fraction(raised, goal, BpsScale) = None
    <3> HIDE DEF q, goal, scaled, exact
    <3> QED  BY <1>14, <2>1
  <2>5. shown = Min({q, BpsScale})
    <3> HIDE DEF q, shown, goal
    <3> QED  BY <1>1, <1>5, <1>6, <1>7, MinOfTwo
  <2> HIDE DEF q, shown, goal, exact
  <2> QED  BY <2>3, <2>4, <2>5
<1>17. GoalMet(raised, goal) <=> SnapshotGoalMet(s)
  BY <1>1, <1>3 DEF GoalMet, SnapshotGoalMet
<1>18. SnapshotExpired(s) <=> DeadlinePassed
  BY <1>3 DEF SnapshotExpired, DeadlinePassed
<1> HIDE DEF shown, exact
<1> QED
  BY <1>9, <1>10, <1>11, <1>12, <1>15, <1>16, <1>17, <1>18
  DEF ProgressCopiesAgree, shown, exact

\* The amounts that a look-up over the contributors' list returns.
LEMMA LookupIs ==
  ASSUME IndInv
  PROVE  LET a == BatchLookup(contributors)
             n == Len(contributors) IN
         /\ n \in Nat /\ a = [i \in 1..n |-> contribution[contributors[i]]]
         /\ \A i \in 1..n : /\ contributors[i] \in Contributors
                            /\ a[i] \in Nat /\ a[i] = contribution[contributors[i]]
         /\ PrefixSums(a, n)[n] = Sum(contribution, Contributors)
<1> DEFINE list == contributors
           a == BatchLookup(list)
           n == Len(list)
<1>1. /\ list \in Seq(Contributors) /\ contribution \in [Contributors -> 0..MaxAmount]
      /\ MaxAmount \in Nat /\ IsFiniteSet(Contributors)
      /\ \A i, j \in 1..Len(list) : list[i] = list[j] => i = j
      /\ \A c \in Contributors : contribution[c] > 0 => c \in Listed(list)
  BY BoundFacts, AccountFacts DEF IndInv, TypeOK, ListsComplete
<1>2. n \in Nat /\ DOMAIN list = 1..n /\ \A i \in 1..n : list[i] \in Contributors
  BY <1>1
<1>3. a = [i \in 1..n |-> contribution[list[i]]]
  BY <1>2 DEF BatchLookup
<1>4. \A c \in Contributors : contribution[c] \in Int
  BY <1>1
<1>5. \A c \in Contributors : contribution[c] # 0 => \E i \in 1..Len(list) : list[i] = c
  <2> SUFFICES ASSUME NEW c \in Contributors, contribution[c] # 0
               PROVE  \E i \in 1..Len(list) : list[i] = c
    OBVIOUS
  <2>1. contribution[c] > 0
    BY <1>1
  <2> QED  BY <1>1, <2>1 DEF Listed
<1>6. PrefixSums([i \in 1..Len(list) |-> contribution[list[i]]], Len(list))[Len(list)]
        = Sum(contribution, Contributors)
  <2> HIDE DEF list
  <2> QED  BY ONLY <1>1, <1>4, <1>5, SumOverList
<1> QED  BY <1>1, <1>2, <1>3, <1>6

\* The saturating sum is the exact one wherever that fits.
LEMMA SaturatingSum ==
  ASSUME IndInv
  PROVE  LET sum == Sum(contribution, Contributors) IN
         SumContributions(contributors) = IF sum <= MaxAmount THEN sum ELSE MaxAmount
<1> DEFINE n == Len(contributors)
           a == BatchLookup(contributors)
           exact == PrefixSums(a, n)
           least(x) == IF x <= MaxAmount THEN x ELSE MaxAmount
           Eq(g) == g = [i \in 0..n |-> IF i = 0 THEN 0 ELSE Min({g[i-1] + a[i], MaxAmount})]
           p == CHOOSE g : Eq(g)
           h == [i \in 0..n |-> least(exact[i])]
<1>1. n \in Nat /\ MaxAmount \in Nat /\ \A i \in 1..n : a[i] \in Nat
  BY LookupIs, BoundFacts
<1>2. a \in [1..n -> Int]
  <2>1. a = [i \in 1..n |-> contribution[contributors[i]]]
    BY LookupIs
  <2> HIDE DEF a
  <2> QED  BY <1>1, <2>1
<1>3. /\ exact[0] = 0 /\ \A i \in 1..n : exact[i] = exact[i-1] + a[i]
      /\ \A i \in 0..n : exact[i] \in Nat
  <2>1. /\ exact \in [0..n -> Int]
        /\ exact[0] = 0 /\ \A i \in 1..n : exact[i] = exact[i-1] + a[i]
    <3> HIDE DEF a, n
    <3> QED  BY <1>1, <1>2, PrefixSumsStep
  <2>2. \A i \in 0..n : exact[i] >= 0
    <3>1. \A i \in 1..n : a[i] >= 0
      BY <1>1
    <3> HIDE DEF a, n
    <3> QED  BY <1>1, <1>2, <3>1, PrefixSumsNonneg
  <2> QED  BY <2>1, <2>2
<1>4. SumContributions(contributors) = p[n]
  BY DEF SumContributions
<1>5. exact[n] = Sum(contribution, Contributors)
  BY LookupIs
<1> HIDE DEF exact, a, n
<1>6. \A i \in 0..n : h[i] = least(exact[i])
  OBVIOUS
<1>7. ASSUME NEW i \in 1..n
      PROVE  least(exact[i]) = Min({least(exact[i-1]) + a[i], MaxAmount})
  <2>1. i - 1 \in 0..n /\ i \in 0..n
    BY <1>1
  <2>2. exact[i] = exact[i-1] + a[i] /\ exact[i-1] \in Nat /\ a[i] \in Nat
    BY <1>1, <1>3, <2>1
  <2>3. least(exact[i-1]) + a[i] \in Nat
    BY <1>1, <2>2
  <2> DEFINE next == least(exact[i-1]) + a[i]
  <2>4. Min({next, MaxAmount}) = IF next <= MaxAmount THEN next ELSE MaxAmount
    <3> HIDE DEF next
    <3> QED  BY <1>1, <2>3, MinOfTwo DEF next
  <2> QED  BY <1>1, <2>2, <2>4
<1>8. Eq(h)
  <2>1. \A i \in 0..n : h[i] = IF i = 0 THEN 0 ELSE Min({h[i-1] + a[i], MaxAmount})
    <3> SUFFICES ASSUME NEW i \in 0..n
                 PROVE  h[i] = IF i = 0 THEN 0 ELSE Min({h[i-1] + a[i], MaxAmount})
      OBVIOUS
    <3>1. CASE i = 0
      BY <1>1, <1>3, <3>1
    <3>2. CASE i \in 1..n
      <4>1. i - 1 \in 0..n
        BY <1>1, <3>2
      <4>2. h[i-1] = least(exact[i-1]) /\ h[i] = least(exact[i])
        BY <1>6, <4>1
      <4> HIDE DEF h, least
      <4> QED  BY <1>1, <1>7, <3>2, <4>2
    <3> QED  BY <1>1, <3>1, <3>2
  <2>2. h = [i \in 0..n |-> h[i]]
    OBVIOUS
  <2> HIDE DEF h
  <2> QED  BY <2>1, <2>2
<1>9. Eq(p)
  <2> HIDE DEF Eq, h
  <2> QED  BY <1>8
<1> HIDE DEF p
<1>10. p[0] = 0 /\ \A i \in 1..n : p[i] = Min({p[i-1] + a[i], MaxAmount})
  <2>1. \A i \in 0..n : p[i] = IF i = 0 THEN 0 ELSE Min({p[i-1] + a[i], MaxAmount})
    BY <1>9, Zenon
  <2>2. 0 \in 0..n /\ \A i \in 1..n : i \in 0..n /\ i # 0
    BY <1>1
  <2> QED  BY <2>1, <2>2, Zenon
<1> DEFINE T == {i \in 0..n : p[i] = least(exact[i])}
<1>11. 0 \in T
  BY <1>1, <1>3, <1>10
<1>12. ASSUME NEW i \in 1..n, i - 1 \in T PROVE i \in T
  <2>1. i \in 0..n /\ p[i-1] = least(exact[i-1])
    BY <1>1, <1>12
  <2> HIDE DEF least
  <2> QED  BY <1>7, <1>10, <2>1
<1>13. \A i \in 0..n : i \in T
  <2> HIDE DEF T
  <2> QED  BY <1>1, <1>11, <1>12, RangeInduction
<1>14. p[n] = least(exact[n])
  <2>1. n \in 0..n
    BY <1>1
  <2>2. n \in T
    <3> HIDE DEF T
    <3> QED  BY <1>13, <2>1
  <2> QED  BY <2>2
<1> QED  BY <1>4, <1>5, <1>14

\* The maximum taken in the loop is the one that get_stats shows.
LEMMA LoopMaximum ==
  ASSUME IndInv
  PROVE  IterativeMax(contributors) = ContributionStats.largest
<1> DEFINE n == Len(contributors)
           a == BatchLookup(contributors)
           Eq(g) == g = [i \in 0..n |-> IF i = 0 THEN 0 ELSE Max({g[i-1], a[i]})]
           p == CHOOSE g : Eq(g)
           turn == [q \in Nat \X (1..n) |-> IF q[1] >= a[q[2]] THEN q[1] ELSE a[q[2]]]
<1>1. /\ n \in Nat
      /\ \A i \in 1..n : /\ contributors[i] \in Contributors
                         /\ a[i] \in Nat /\ a[i] = contribution[contributors[i]]
  BY LookupIs
<1>2. IterativeMax(contributors) = p[n]
  BY DEF IterativeMax
<1> HIDE DEF a, n
<1>3. \E g \in [0..n -> Nat] : Eq(g)
  <2>1. turn \in [Nat \X (1..n) -> Nat]
    BY <1>1
  <2>2. \A v \in Nat, i \in 1..n : turn[<<v, i>>] = IF v >= a[i] THEN v ELSE a[i]
    OBVIOUS
  <2> HIDE DEF turn
  <2>3. PICK g \in [0..n -> Nat] :
          g[0] = 0 /\ \A i \in 1..n : g[i] = turn[<<g[i-1], i>>]
    <3>1. 0 \in Nat
      OBVIOUS
    <3>2. n \in Nat
      BY <1>1
    <3> QED  BY <2>1, <3>1, <3>2, RunExists, ZenonT(40)
  <2>4. \A i \in 0..n : g[i] = IF i = 0 THEN 0 ELSE Max({g[i-1], a[i]})
    <3> SUFFICES ASSUME NEW i \in 0..n
                 PROVE  g[i] = IF i = 0 THEN 0 ELSE Max({g[i-1], a[i]})
      OBVIOUS
    <3>1. CASE i = 0
      BY <2>3, <3>1
    <3>2. CASE i \in 1..n
      <4>1. g[i] = turn[<<g[i-1], i>>] /\ g[i-1] \in Nat /\ a[i] \in Nat
        BY <1>1, <2>3, <3>2
      <4>2. g[i] = IF g[i-1] >= a[i] THEN g[i-1] ELSE a[i]
        BY <2>2, <3>2, <4>1
      <4> QED  BY <3>2, <4>1, <4>2, MaxOfTwo
    <3> QED  BY <1>1, <3>1, <3>2
  <2> QED  BY <2>4
<1>4. Eq(p)
  <2> HIDE DEF Eq
  <2> QED  BY <1>3
<1> HIDE DEF p
<1>5. p[0] = 0 /\ \A i \in 1..n : p[i] = Max({p[i-1], a[i]})
  <2>1. \A i \in 0..n : p[i] = IF i = 0 THEN 0 ELSE Max({p[i-1], a[i]})
    BY <1>4, Zenon
  <2>2. 0 \in 0..n /\ \A i \in 1..n : i \in 0..n /\ i # 0
    BY <1>1
  <2> QED  BY <2>1, <2>2, Zenon
<1> DEFINE Bounds(i) ==
             /\ p[i] \in Nat /\ \A j \in 1..i : a[j] <= p[i]
             /\ p[i] = 0 \/ \E j \in 1..i : p[i] = a[j]
           T == {i \in 0..n : Bounds(i)}
<1>6. 0 \in T
  BY <1>1, <1>5
<1>7. ASSUME NEW i \in 1..n, i - 1 \in T PROVE i \in T
  <2>1. Bounds(i-1) /\ i \in 0..n /\ a[i] \in Nat
    BY <1>1, <1>7
  <2>2. p[i] = IF p[i-1] >= a[i] THEN p[i-1] ELSE a[i]
    <3> DEFINE u == p[i-1]  v == a[i]
    <3>1. u \in Int /\ v \in Int /\ p[i] = Max({u, v})
      BY <1>5, <2>1
    <3> HIDE DEF u, v
    <3>2. p[i] = IF u >= v THEN u ELSE v
      BY <3>1, MaxOfTwo
    <3> QED  BY <3>2 DEF u, v
  <2>3. \A j \in 1..i : j = i \/ j \in 1..(i-1)
    OBVIOUS
  <2>4. \A j \in 1..i : a[j] \in Nat
    BY <1>1
  <2>5. \A j \in 1..i : a[j] <= p[i]
    BY <2>1, <2>2, <2>3, <2>4
  <2>6. p[i] = 0 \/ \E j \in 1..i : p[i] = a[j]
    <3>1. CASE p[i] = a[i]
      BY <3>1
    <3>2. CASE p[i] = p[i-1]
      <4>1. \A j \in 1..(i-1) : j \in 1..i
        OBVIOUS
      <4> QED  BY <2>1, <3>2, <4>1
    <3> QED  BY <2>2, <3>1, <3>2
  <2> QED  BY <2>1, <2>2, <2>5, <2>6
<1>8. Bounds(n)
  <2>1. \A i \in 0..n : i \in T
    <3> HIDE DEF T
    <3> QED  BY <1>1, <1>6, <1>7, RangeInduction
  <2>2. n \in 0..n
    BY <1>1
  <2> QED  BY <2>1, <2>2
<1>9. LET largest == ContributionStats.largest IN
      /\ largest \in Nat
      /\ \A c \in Contributors : contribution[c] <= largest
      /\ largest = 0 \/ \E c \in Contributors : largest = contribution[c]
  BY LargestIs
<1> DEFINE largest == ContributionStats.largest
<1> HIDE DEF largest
<1>10. largest \in Nat /\ \A c \in Contributors : contribution[c] <= largest
  BY <1>9 DEF largest
<1>11. p[n] <= largest
  BY <1>1, <1>8, <1>10
<1>12. largest <= p[n]
  <2>1. CASE largest = 0
    BY <1>8, <2>1
  <2>2. ASSUME NEW c \in Contributors, largest = contribution[c], largest # 0
        PROVE  largest <= p[n]
    <3>1. contribution[c] > 0
      BY <1>10, <2>2
    <3>2. c \in Listed(contributors)
      BY <3>1 DEF IndInv, ListsComplete
    <3>3. PICK i \in 1..n : contributors[i] = c
      BY <3>2 DEF Listed, n
    <3> QED  BY <1>1, <1>8, <2>2, <3>3
  <2> QED  BY <1>9, <2>1, <2>2 DEF largest
<1>13. p[n] = largest
  BY <1>8, <1>10, <1>11, <1>12
<1> QED  BY <1>2, <1>13 DEF largest

\* What the look-ups return is what the contract keeps.
LEMMA LookupsFollow ==
  ASSUME IndInv, config # None
  PROVE  LookupsAgree
<1> DEFINE sum == SumContributions(contributors)
           total == Sum(contribution, Contributors)
           largest == ContributionStats.largest
           n == Len(contributors)
<1>1. /\ totalRaised \in Nat /\ totalRaised <= MaxAmount /\ MaxAmount \in Nat
      /\ contributors \in Seq(Contributors) /\ n \in Nat /\ n <= MaxContributors
      /\ MaxContributors \in Nat
  BY BoundFacts DEF IndInv, TypeOK
<1>2. sum = IF total <= MaxAmount THEN total ELSE MaxAmount
  BY SaturatingSum
<1>3. (status = "Active" /\ ~DeadlinePassed) \/ status = "Expired" => sum = totalRaised
  <2>1. (status = "Active" /\ ~DeadlinePassed) \/ status = "Expired" => total = totalRaised
    BY DEF IndInv, OwedOrFunded
  <2> HIDE DEF sum, total
  <2> QED  BY <1>1, <1>2, <2>1
<1>4. IterativeSum(contributors) \in {sum, None}
  <2>1. PrefixSums(BatchLookup(contributors), n)[n] = total
    BY LookupIs
  <2>2. IterativeSum(contributors) = IF total > MaxAmount THEN None ELSE total
    BY <2>1 DEF IterativeSum
  <2>3. total \in Int
    <3>1. \A c \in Contributors : contribution[c] \in Int
      BY BoundFacts DEF IndInv, TypeOK
    <3> QED  BY <3>1, AccountFacts, SumType
  <2> HIDE DEF sum, total
  <2> QED  BY <1>1, <1>2, <2>2, <2>3
<1>5. IterativeMax(contributors) = largest
  BY LoopMaximum
<1>6. ASSUME NEW t \in Amounts, t >= 0
      PROVE  FirstAbove(contributors, t) = None <=> largest <= t
  <2> DEFINE above == {i \in DOMAIN contributors : contribution[contributors[i]] > t}
  <2>1. t \in Int
    BY CampaignAssumption
  <2>2. DOMAIN contributors = 1..n /\ \A i \in 1..n : contributors[i] \in Contributors
    BY <1>1
  <2>3. \A c \in Contributors : contribution[c] \in Nat
    BY BoundFacts DEF IndInv, TypeOK
  <2>4. /\ largest \in Nat /\ \A c \in Contributors : contribution[c] <= largest
        /\ largest = 0 \/ \E c \in Contributors : largest = contribution[c]
    BY LargestIs
  <2>5. FirstAbove(contributors, t) = IF above = {} THEN None ELSE contributors[First(above)]
    BY DEF FirstAbove
  <2>6. above # {} => contributors[First(above)] \in Contributors
    <3> SUFFICES ASSUME above # {} PROVE contributors[First(above)] \in Contributors
      OBVIOUS
    <3>1. above \in SUBSET Nat /\ above \subseteq 1..n
      BY <1>1, <2>2
    <3> HIDE DEF above
    <3>2. First(above) \in above
      BY <3>1, FirstExists
    <3> QED  BY <2>2, <3>1, <3>2
  <2>7. above = {} => largest <= t
    <3> SUFFICES ASSUME above = {}, ~(largest <= t) PROVE FALSE
      OBVIOUS
    <3>1. CASE largest # 0
      <4>1. PICK c \in Contributors : largest = contribution[c]
        BY <2>4, <3>1
      <4>2. contribution[c] > 0
        BY <2>4, <3>1, <4>1
      <4>3. PICK i \in 1..n : contributors[i] = c
        BY <4>2 DEF IndInv, ListsComplete, Listed
      <4>4. contribution[c] > t
        BY <2>1, <2>4, <4>1
      <4>5. i \in above
        BY <2>2, <4>3, <4>4
      <4> QED  BY <4>5
    <3>2. CASE largest = 0
      BY <1>6, <2>1, <3>2
    <3> QED  BY <3>1, <3>2
  <2>8. largest <= t => above = {}
    BY <2>1, <2>2, <2>3, <2>4
  <2> QED  BY <2>5, <2>6, <2>7, <2>8, HelpersAssumption
<1>7. CountUnique = ContributionStats.count
  <2>1. ContributionStats.count = n
    BY DEF ContributionStats
  <2>2. CountUnique = n
    <3> HIDE DEF n
    <3>1. CountUnique = Min({n, MaxContributors})
      BY DEF CountUnique, n
    <3> QED  BY <1>1, <3>1, MinOfTwo
  <2> QED  BY <2>1, <2>2
<1> HIDE DEF sum, largest
<1> QED  BY <1>3, <1>4, <1>5, <1>6, <1>7 DEF LookupsAgree, sum, largest

\* finalize acts after the deadline, and nothing moves the deadline.
EndedLate == status \in {"Succeeded", "Expired"} => DeadlinePassed

LEMMA EndedStart == Init => EndedLate
BY DEF Init, EndedLate

LEMMA EndedStep == IndInv /\ EndedLate /\ [Next]_vars => EndedLate'
<1> SUFFICES ASSUME IndInv, EndedLate, [Next]_vars PROVE EndedLate'
  OBVIOUS
<1>1. now \in Nat /\ config \in Configs \cup {None}
  BY DEF IndInv, TypeOK
<1>2. ASSUME UNCHANGED <<status, config, now>> PROVE EndedLate'
  BY <1>2 DEF EndedLate, DeadlinePassed
<1>3. ASSUME status' \notin {"Succeeded", "Expired"} PROVE EndedLate'
  BY <1>3 DEF EndedLate
<1>4. CASE \E k \in Configs : Initialize(k)
  BY <1>3, <1>4 DEF Initialize
<1>5. CASE Finalize
  BY <1>5 DEF Finalize, EndedLate, DeadlinePassed
<1>6. CASE Cancel
  BY <1>3, <1>6 DEF Cancel
<1>7. CASE EmergencyStop
  BY <1>3, <1>7 DEF EmergencyStop
<1>8. CASE Tick
  <2> SUFFICES ASSUME status' \in {"Succeeded", "Expired"} PROVE DeadlinePassed'
    BY DEF EndedLate
  <2>1. status' = status /\ config' = config /\ now' = now + 1
    BY <1>8 DEF Tick
  <2>2. now > config.deadline
    BY <2>1 DEF EndedLate, DeadlinePassed
  <2>3. config # None
    BY <2>1 DEF IndInv, BlankUntilInitialized
  <2>4. config.deadline \in Nat
    BY <1>1, <2>3, ConfigFacts
  <2> QED  BY <1>1, <2>1, <2>2, <2>4 DEF DeadlinePassed
<1> QED
  BY <1>2, <1>4, <1>5, <1>6, <1>7, <1>8
     DEF Next, vars, ProvisionRoles, Contribute, ContributeOpen, Pledge, CollectPledges,
         Withdraw, RefundSingle, SetNftContract, Pause, Unpause

\* A campaign has an outcome only after its deadline.
THEOREM OutcomeAfterDeadline == Spec => []EndedLate
BY Invariance, EndedStart, EndedStep, PTL DEF Spec

\* The previews are what withdraw and refund_single pay.
LEMMA PreviewsFollow ==
  ASSUME IndInv, ConfigAccepted, CancelledEmpty, EndedLate, config # None
  PROVE  PreviewsAgree
<1>1. /\ totalRaised \in Nat /\ MaxAmount \in Nat /\ BpsScale \in Nat /\ BpsScale > 0
      /\ config.goal \in Nat /\ config.goal >= 1 /\ config.deadline \in Nat /\ now \in Nat
      /\ status \in StatusValues \ {"Unset"}
      /\ \A c \in Contributors : contribution[c] \in Nat
  BY BooksRead, BoundFacts
<1>2. ASSUME WithdrawOpen, config.feeBps # None
      PROVE  LET net == NetPayout(totalRaised, config.feeBps) IN
             /\ net = None <=> totalRaised * config.feeBps > MaxAmount
             /\ net # None =>
                  /\ FeeAmount(totalRaised, config.feeBps) = Fee(totalRaised)
                  /\ net + FeeAmount(totalRaised, config.feeBps) = totalRaised
  <2> DEFINE fee == config.feeBps
             share == totalRaised * fee
             net == NetPayout(totalRaised, fee)
             cut == share \div BpsScale
  <2>1. fee \in Nat /\ fee <= BpsScale
    BY <1>2, BooksRead
  <2>2. share \in Nat /\ (totalRaised = 0 => share = 0) /\ (fee = 0 => share = 0)
    BY <1>1, <2>1
  <2>3. cut \in Nat /\ (share = 0 => cut = 0)
    <3>1. cut \in Nat
      <4> HIDE DEF share
      <4> QED  BY <1>1, <2>2, QuotientReaches
    <3>2. 0 \div BpsScale = 0
      BY <1>1
    <3> QED  BY <3>1, <3>2
  <2>4. net = IF fee > BpsScale THEN None
              ELSE IF totalRaised <= 0 THEN 0
              ELSE IF share > MaxAmount THEN None ELSE totalRaised - cut
    BY DEF NetPayout
  <2>5. FeeAmount(totalRaised, fee) =
          IF totalRaised <= 0 \/ fee = 0 THEN 0 ELSE Min({share, MaxAmount}) \div BpsScale
    BY DEF FeeAmount
  <2>6. Fee(totalRaised) = cut
    BY <1>2 DEF Fee
  <2>7. None \notin Int
    BY CampaignAssumption
  <2> HIDE DEF net, cut, share, fee
  <2>8. net = None <=> share > MaxAmount
    BY <1>1, <2>1, <2>2, <2>3, <2>4, <2>7
  <2>9. ASSUME net # None
        PROVE  /\ FeeAmount(totalRaised, fee) = Fee(totalRaised)
               /\ net + FeeAmount(totalRaised, fee) = totalRaised
    <3>1. share <= MaxAmount
      BY <1>1, <2>2, <2>8, <2>9
    <3>2. Min({share, MaxAmount}) = share
      BY <1>1, <2>2, <3>1, MinOfTwo
    <3>3. FeeAmount(totalRaised, fee) = cut
      BY <1>1, <2>1, <2>2, <2>3, <2>5, <3>2 DEF cut
    <3>4. net = IF totalRaised <= 0 THEN 0 ELSE totalRaised - cut
      BY <1>1, <2>1, <2>2, <2>4, <3>1
    <3> QED  BY <1>1, <2>2, <2>3, <2>6, <3>3, <3>4
  <2> QED  BY <2>8, <2>9 DEF net, share, fee
<1>3. ASSUME NEW c \in Contributors, RefundOpen
      PROVE  RefundEligible(c) <=> RefundAvailable(c) > 0
  <2>1. totalRaised < config.goal
    BY <1>3 DEF RefundOpen, IndInv, OutcomeMatchesGoal
  <2>2. now > config.deadline
    BY <1>3 DEF RefundOpen, EndedLate, DeadlinePassed
  <2> QED  BY <1>3, <2>1, <2>2 DEF RefundEligible, RefundAvailable
<1>4. ASSUME NEW c \in Contributors, RefundEligible(c)
      PROVE  \/ RefundOpen
             \/ status = "Active" /\ DeadlinePassed
             \/ status = "Cancelled" /\ stopped
             \/ status = "Succeeded" /\ totalRaised = 0
  <2>1. now > config.deadline /\ totalRaised < config.goal /\ contribution[c] > 0
    BY <1>4 DEF RefundEligible
  <2>2. CASE status = "Active"
    BY <2>1, <2>2 DEF DeadlinePassed
  <2>3. CASE status = "Expired"
    BY <2>3 DEF RefundOpen
  <2>4. CASE status = "Cancelled"
    BY <1>1, <2>1, <2>4 DEF IndInv, CancelRefundsAll
  <2>5. CASE status = "Succeeded"
    <3>1. totalRaised >= config.goal \/ token[Self] = 0
      BY <2>5 DEF IndInv, OutcomeMatchesGoal
    <3>2. token[Self] = totalRaised
      BY <2>5 DEF IndInv, BooksBalance
    <3> QED  BY <1>1, <2>1, <2>5, <3>1, <3>2
  <2> QED  BY <1>1, <2>2, <2>3, <2>4, <2>5 DEF StatusValues
<1>5. ASSUME WithdrawOpen, totalRaised > 0
      PROVE  ValidWithdrawal(TRUE, totalRaised >= config.goal, DeadlinePassed)
  <2>1. totalRaised >= config.goal \/ token[Self] = 0
    BY <1>5 DEF WithdrawOpen, IndInv, OutcomeMatchesGoal
  <2>2. token[Self] = totalRaised
    BY <1>5 DEF WithdrawOpen, IndInv, BooksBalance
  <2>3. totalRaised >= config.goal
    BY <1>1, <1>5, <2>1, <2>2
  <2> QED  BY <2>3 DEF ValidWithdrawal
<1>6. ASSUME RefundOpen
      PROVE  ValidWithdrawal(FALSE, totalRaised >= config.goal, DeadlinePassed)
  <2>1. totalRaised < config.goal
    BY <1>6 DEF RefundOpen, IndInv, OutcomeMatchesGoal
  <2>2. DeadlinePassed
    BY <1>6 DEF RefundOpen, EndedLate
  <2>3. ~(totalRaised >= config.goal)
    BY <1>1, <2>1
  <2> QED  BY <2>2, <2>3 DEF ValidWithdrawal
<1> QED  BY <1>2, <1>3, <1>4, <1>5, <1>6 DEF PreviewsAgree

\* Beyond the goal nothing more is shown.
LEMMA ProgressBeyond ==
  ASSUME NEW raised \in Nat, NEW goal \in Nat, goal >= 1, raised >= goal
  PROVE  Progress(raised, goal) = Progress(goal, goal)
<1>1. BpsScale \in Nat /\ BpsScale > 0 /\ ProductMax \in Nat
  BY BoundFacts, ViewsAssumption
<1>2. CASE Showable(goal)
  <2>1. Progress(raised, goal) = BpsScale
    BY <1>2, ProgressIs
  <2>2. Progress(goal, goal) = BpsScale
    BY <1>2, ProgressIs
  <2> QED  BY <2>1, <2>2
<1>3. CASE ~Showable(goal)
  <2> DEFINE needed == goal * BpsScale
             scaled == raised * BpsScale
  <2>1. needed \in Nat /\ scaled \in Nat /\ needed <= scaled
    BY <1>1
  <2>2. ~(needed <= ProductMax)
    BY <1>3 DEF Showable
  <2>3. Min({needed, ProductMax}) = ProductMax /\ Min({scaled, ProductMax}) = ProductMax
    <3> HIDE DEF needed, scaled
    <3>1. Min({needed, ProductMax}) = ProductMax
      BY <1>1, <2>1, <2>2, MinOfTwo
    <3>2. ~(scaled <= ProductMax)
      BY <1>1, <2>1, <2>2
    <3>3. Min({scaled, ProductMax}) = ProductMax
      BY <1>1, <2>1, <3>2, MinOfTwo
    <3> QED  BY <3>1, <3>3
  <2>4. ~(raised <= 0 \/ goal <= 0)
    OBVIOUS
  <2>5. Progress(raised, goal) = Min({BpsScale, ProductMax \div goal})
    BY <2>3, <2>4, Zenon DEF Progress
  <2>6. Progress(goal, goal) = Min({BpsScale, ProductMax \div goal})
    BY <2>3, <2>4, Zenon DEF Progress
  <2> QED  BY <2>5, <2>6
<1> QED  BY <1>2, <1>3

\* A campaign's figures, made fit to be shown.
LEMMA SanitizedFollows ==
  ASSUME IndInv, ConfigAccepted, config # None
  PROVE  SanitizedAgrees
<1> DEFINE progress == Progress(totalRaised, config.goal)
           n == Len(contributors)
           raisedPart == SanitizeBounded(totalRaised, Max({config.goal, 0}))
           deadlinePart == SanitizeDeadline(config.deadline)
           out == SanitizedCampaign(totalRaised, config.goal, progress, config.deadline,
                                    GetStats.count)
<1>1. /\ totalRaised \in Nat /\ config.goal \in Nat /\ config.goal >= 1
      /\ config.deadline \in Nat /\ now \in Nat /\ BpsScale \in Nat
      /\ n \in Nat /\ n <= MaxContributors /\ MaxContributors \in Nat
  BY BooksRead, BoundFacts
<1>2. progress \in 0..BpsScale
  BY <1>1, ProgressIs
<1>3. GetStats.count = n
  BY DEF GetStats, ContributionStats
<1>4. Max({config.goal, 0}) = config.goal
  BY <1>1, MaxOfTwo
<1>5. raisedPart = IF totalRaised > config.goal THEN Changed(config.goal) ELSE Clean(totalRaised)
  BY <1>1, <1>4 DEF SanitizeBounded
<1>6. SanitizeAmount(config.goal) = Clean(config.goal)
  BY <1>1 DEF SanitizeAmount
<1>7. SanitizeUpTo(progress, BpsScale) = Clean(progress)
  <2> HIDE DEF progress
  <2> QED  BY <1>1, <1>2 DEF SanitizeUpTo
<1>8. SanitizeUpTo(n, MaxContributors) = Clean(n)
  BY <1>1 DEF SanitizeUpTo
<1>9. deadlinePart = IF config.deadline >= now THEN Clean(config.deadline) ELSE Changed(now)
  BY DEF SanitizeDeadline
<1> HIDE DEF raisedPart, deadlinePart, progress
<1>10. /\ out.total_raised = raisedPart.value /\ out.goal = config.goal
       /\ out.progress_bps = progress /\ out.deadline = deadlinePart.value
       /\ out.contributor_count = n
  BY <1>3, <1>6, <1>7, <1>8 DEF SanitizedCampaign, Clean, raisedPart, deadlinePart
<1>11. out.was_modified <=> raisedPart.modified \/ deadlinePart.modified
  BY <1>3, <1>6, <1>7, <1>8 DEF SanitizedCampaign, Clean, raisedPart, deadlinePart
<1>12. out.was_modified <=> totalRaised > config.goal \/ now > config.deadline
  BY <1>1, <1>5, <1>9, <1>11 DEF Clean, Changed
<1>13. out.progress_bps = Progress(out.total_raised, out.goal)
  <2>1. CASE totalRaised > config.goal
    <3>1. raisedPart.value = config.goal
      BY <1>5, <2>1 DEF Changed
    <3>2. progress = Progress(config.goal, config.goal)
      BY <1>1, <2>1, ProgressBeyond DEF progress
    <3> QED  BY <1>10, <3>1, <3>2
  <2>2. CASE ~(totalRaised > config.goal)
    <3>1. raisedPart.value = totalRaised
      BY <1>5, <2>2 DEF Clean
    <3> QED  BY <1>10, <3>1 DEF progress
  <2> QED  BY <2>1, <2>2
<1>14. out.deadline >= now
  BY <1>1, <1>9, <1>10 DEF Clean, Changed
<1> HIDE DEF out
<1> QED  BY <1>10, <1>12, <1>13, <1>14 DEF SanitizedAgrees, out, progress

\* The first test that fails decides.
LEMMA FirstErrorIs ==
  ASSUME NEW n \in Nat, NEW tests, DOMAIN tests = 1..n
  PROVE  /\ (\A i \in 1..n : ~tests[i][1]) => FirstError(tests) = None
         /\ \A i \in 1..n : tests[i][1] /\ (\A j \in 1..(i-1) : ~tests[j][1])
              => FirstError(tests) = tests[i][2]
<1> DEFINE failing == {i \in 1..n : tests[i][1]}
<1>1. FirstError(tests) = IF failing = {} THEN None ELSE tests[First(failing)][2]
  BY DEF FirstError
<1>2. ASSUME \A i \in 1..n : ~tests[i][1] PROVE FirstError(tests) = None
  <2>1. failing = {}
    BY <1>2
  <2> HIDE DEF failing
  <2> QED  BY <1>1, <2>1
<1>3. ASSUME NEW i \in 1..n, tests[i][1], \A j \in 1..(i-1) : ~tests[j][1]
      PROVE  FirstError(tests) = tests[i][2]
  <2>1. i \in failing
    BY <1>3
  <2>2. failing \in SUBSET Nat
    OBVIOUS
  <2>3. \A j \in failing : j \in 1..n /\ j \notin 1..(i-1)
    BY <1>3
  <2> HIDE DEF failing
  <2>4. First(failing) \in failing /\ First(failing) <= i
    BY <2>1, <2>2, FirstExists
  <2>5. First(failing) = i
    BY <2>3, <2>4
  <2>6. failing # {}
    BY <2>1
  <2> QED  BY <1>1, <2>5, <2>6
<1> QED  BY <1>2, <1>3

\* The code of the first parameter that initialize would reject.
LEMMA InitErrorIs ==
  ASSUME config = None, NEW k \in Configs, now \in Nat
  PROVE  /\ InitError(k) = None <=> ValidConfig(k)
         /\ InitRetryable(InitError(k)) <=> ~ValidConfig(k)
<1> DEFINE t2 == k.goal < 1
           t3 == k.min < 1
           t4 == k.deadline < now + MinDeadlineOffset
           t5 == k.feeBps # None /\ k.feeBps > BpsScale
           t6 == k.bonus # None /\ k.bonus <= k.goal
           t1 == config # None
           tests == <<<<t1, 1>>, <<t2, 8>>, <<t3, 9>>, <<t4, 10>>, <<t5, 11>>, <<t6, 12>>>>
<1>1. ~t1
  OBVIOUS
<1>2. InitError(k) = FirstError(tests)
  BY DEF InitError
<1>3. ValidConfig(k) <=> ~t2 /\ ~t3 /\ ~t4 /\ ~t5 /\ ~t6
  <2>1. /\ k.goal \in Int /\ k.deadline \in Nat /\ k.min \in Int
        /\ k.feeBps # None => k.feeBps \in Nat
        /\ k.bonus # None => k.bonus \in Int
        /\ BpsScale \in Nat /\ MinDeadlineOffset \in Nat
    BY ConfigFacts, BoundFacts
  <2> QED  BY <2>1 DEF ValidConfig
<1> HIDE DEF t1, t2, t3, t4, t5, t6
<1>4. DOMAIN tests = 1..6
  OBVIOUS
<1>5. /\ tests[1][1] <=> t1
      /\ tests[2][1] <=> t2
      /\ tests[3][1] <=> t3
      /\ tests[4][1] <=> t4
      /\ tests[5][1] <=> t5
      /\ tests[6][1] <=> t6
  OBVIOUS
<1>6. /\ tests[2][2] = 8 /\ tests[3][2] = 9 /\ tests[4][2] = 10
      /\ tests[5][2] = 11 /\ tests[6][2] = 12
  OBVIOUS
<1> HIDE DEF tests
<1>7. /\ (\A i \in 1..6 : ~tests[i][1]) => FirstError(tests) = None
      /\ \A i \in 1..6 : tests[i][1] /\ (\A j \in 1..(i-1) : ~tests[j][1])
           => FirstError(tests) = tests[i][2]
  <2>1. 6 \in Nat
    OBVIOUS
  <2> QED  BY <1>4, <2>1, FirstErrorIs
<1>8. CASE ValidConfig(k)
  <2>1. \A i \in 1..6 : ~tests[i][1]
    BY <1>1, <1>3, <1>5, <1>8
  <2>2. InitError(k) = None
    BY <1>2, <1>7, <2>1
  <2>3. None \notin 8..12
    BY CampaignAssumption
  <2> QED  BY <1>8, <2>2, <2>3 DEF InitRetryable
<1>9. CASE ~ValidConfig(k)
  <2>1. FirstError(tests) \in 8..12
    <3>1. CASE t2
      BY <1>1, <1>5, <1>6, <1>7, <3>1
    <3>2. CASE ~t2 /\ t3
      BY <1>1, <1>5, <1>6, <1>7, <3>2
    <3>3. CASE ~t2 /\ ~t3 /\ t4
      BY <1>1, <1>5, <1>6, <1>7, <3>3
    <3>4. CASE ~t2 /\ ~t3 /\ ~t4 /\ t5
      BY <1>1, <1>5, <1>6, <1>7, <3>4
    <3>5. CASE ~t2 /\ ~t3 /\ ~t4 /\ ~t5 /\ t6
      BY <1>1, <1>5, <1>6, <1>7, <3>5
    <3> QED  BY <1>3, <1>9, <3>1, <3>2, <3>3, <3>4, <3>5
  <2>2. None \notin 8..12
    BY CampaignAssumption
  <2>3. InitError(k) # None /\ InitError(k) \in 8..12
    BY <1>2, <2>1, <2>2
  <2> QED  BY <1>9, <2>3 DEF InitRetryable
<1> QED  BY <1>8, <1>9

\* What contribute answers, read as a decision.
LEMMA ContributeErrorIs ==
  ASSUME NEW c, NEW amount
  PROVE  ContributeError(c, amount) =
           IF stopped \/ paused THEN "Abort"
           ELSE IF status # "Active" THEN "CampaignNotActive"
           ELSE IF amount < 0 THEN "NegativeAmount"
           ELSE IF amount = 0 THEN "ZeroAmount"
           ELSE IF amount < config.min THEN "BelowMinimum"
           ELSE IF DeadlinePassed THEN "CampaignEnded"
           ELSE IF ~HasRoom(contributors, c) \/ token[c] < amount THEN "Abort"
           ELSE IF contribution[c] + amount > MaxAmount THEN "Overflow"
           ELSE IF totalRaised + amount > MaxAmount THEN "Overflow"
           ELSE None
<1> DEFINE t1 == stopped \/ paused
           t2 == status # "Active"
           t3 == amount < 0
           t4 == amount = 0
           t5 == amount < config.min
           t6 == DeadlinePassed
           t7 == ~HasRoom(contributors, c) \/ token[c] < amount
           t8 == contribution[c] + amount > MaxAmount
           t9 == totalRaised + amount > MaxAmount
           tests == <<<<t1, "Abort">>, <<t2, "CampaignNotActive">>,
                      <<t3, "NegativeAmount">>, <<t4, "ZeroAmount">>,
                      <<t5, "BelowMinimum">>, <<t6, "CampaignEnded">>, <<t7, "Abort">>,
                      <<t8, "Overflow">>, <<t9, "Overflow">>>>
<1>1. ContributeError(c, amount) = FirstError(tests)
  BY DEF ContributeError
<1> HIDE DEF t1, t2, t3, t4, t5, t6, t7, t8, t9
<1>2. DOMAIN tests = 1..9
  OBVIOUS
<1>3. /\ tests[1][1] <=> t1
      /\ tests[2][1] <=> t2
      /\ tests[3][1] <=> t3
      /\ tests[4][1] <=> t4
      /\ tests[5][1] <=> t5
      /\ tests[6][1] <=> t6
      /\ tests[7][1] <=> t7
      /\ tests[8][1] <=> t8
      /\ tests[9][1] <=> t9
  OBVIOUS
<1>4. /\ tests[1][2] = "Abort" /\ tests[2][2] = "CampaignNotActive"
      /\ tests[3][2] = "NegativeAmount" /\ tests[4][2] = "ZeroAmount"
      /\ tests[5][2] = "BelowMinimum" /\ tests[6][2] = "CampaignEnded"
      /\ tests[7][2] = "Abort" /\ tests[8][2] = "Overflow" /\ tests[9][2] = "Overflow"
  OBVIOUS
<1> HIDE DEF tests
<1>5. /\ (\A i \in 1..9 : ~tests[i][1]) => FirstError(tests) = None
      /\ \A i \in 1..9 : tests[i][1] /\ (\A j \in 1..(i-1) : ~tests[j][1])
           => FirstError(tests) = tests[i][2]
  <2>1. 9 \in Nat
    OBVIOUS
  <2> QED  BY <1>2, <2>1, FirstErrorIs
<1> DEFINE answer == FirstError(tests)
<1>6. /\ t1 => answer = "Abort"
      /\ ~t1 /\ t2 => answer = "CampaignNotActive"
      /\ ~t1 /\ ~t2 /\ t3 => answer = "NegativeAmount"
      /\ ~t1 /\ ~t2 /\ ~t3 /\ t4 => answer = "ZeroAmount"
      /\ ~t1 /\ ~t2 /\ ~t3 /\ ~t4 /\ t5 => answer = "BelowMinimum"
  BY <1>3, <1>4, <1>5
<1>7. /\ ~t1 /\ ~t2 /\ ~t3 /\ ~t4 /\ ~t5 /\ t6 => answer = "CampaignEnded"
      /\ ~t1 /\ ~t2 /\ ~t3 /\ ~t4 /\ ~t5 /\ ~t6 /\ t7 => answer = "Abort"
  BY <1>3, <1>4, <1>5
<1>8. /\ ~t1 /\ ~t2 /\ ~t3 /\ ~t4 /\ ~t5 /\ ~t6 /\ ~t7 /\ t8 => answer = "Overflow"
      /\ ~t1 /\ ~t2 /\ ~t3 /\ ~t4 /\ ~t5 /\ ~t6 /\ ~t7 /\ ~t8 /\ t9 => answer = "Overflow"
  BY <1>3, <1>4, <1>5
<1>9. ~t1 /\ ~t2 /\ ~t3 /\ ~t4 /\ ~t5 /\ ~t6 /\ ~t7 /\ ~t8 /\ ~t9 => answer = None
  <2> SUFFICES ASSUME ~t1, ~t2, ~t3, ~t4, ~t5, ~t6, ~t7, ~t8, ~t9 PROVE answer = None
    OBVIOUS
  <2>1. \A i \in 1..9 : ~tests[i][1]
    BY <1>3
  <2> QED  BY <1>5, <2>1
<1> HIDE DEF answer
<1>10. ContributeError(c, amount) =
         IF t1 THEN "Abort" ELSE IF t2 THEN "CampaignNotActive"
         ELSE IF t3 THEN "NegativeAmount" ELSE IF t4 THEN "ZeroAmount"
         ELSE IF t5 THEN "BelowMinimum" ELSE IF t6 THEN "CampaignEnded"
         ELSE IF t7 THEN "Abort" ELSE IF t8 THEN "Overflow"
         ELSE IF t9 THEN "Overflow" ELSE None
  BY <1>1, <1>6, <1>7, <1>8, <1>9 DEF answer
<1> QED  BY <1>10 DEF t1, t2, t3, t4, t5, t6, t7, t8, t9

\* contribute answers no error exactly where it goes on.
LEMMA ContributeAnswers ==
  ASSUME IndInv, config # None, NEW c \in Contributors, NEW amount \in Amounts,
         status = "Active"
  PROVE  ContributeError(c, amount) = None <=> ContributeOpen(c, amount)
<1>1. /\ amount \in Int /\ config.min \in Int /\ config.min >= 1
      /\ totalRaised \in Nat /\ MaxAmount \in Nat
      /\ contribution[c] \in Nat /\ token[c] \in Nat
  <2>1. config \in Configs
    BY DEF IndInv, TypeOK
  <2> QED
    BY <2>1, BoundFacts, AccountFacts, CampaignAssumption
       DEF IndInv, TypeOK, BlankUntilInitialized
<1>2. /\ None # "Abort" /\ None # "NegativeAmount" /\ None # "ZeroAmount"
      /\ None # "BelowMinimum" /\ None # "CampaignEnded" /\ None # "Overflow"
      /\ None # "CampaignNotActive"
  BY HelpersAssumption DEF ContributeErrors
<1> DEFINE room == HasRoom(contributors, c)
           entry == contribution[c] + amount
           total == totalRaised + amount
<1>3. /\ entry \in Int /\ total \in Int
  BY <1>1
<1>4. ContributeOpen(c, amount) <=>
        /\ ~(stopped \/ paused) /\ ~(amount < 0) /\ ~(amount = 0)
        /\ ~(amount < config.min) /\ ~DeadlinePassed /\ room /\ ~(token[c] < amount)
        /\ ~(entry > MaxAmount) /\ ~(total > MaxAmount)
  BY <1>1 DEF ContributeOpen, NotStopped, NotPaused
<1>5. ContributeError(c, amount) = None <=>
        /\ ~(stopped \/ paused) /\ ~(amount < 0) /\ ~(amount = 0)
        /\ ~(amount < config.min) /\ ~DeadlinePassed /\ room /\ ~(token[c] < amount)
        /\ ~(entry > MaxAmount) /\ ~(total > MaxAmount)
  <2> HIDE DEF room, entry, total
  <2>1. ContributeError(c, amount) =
           IF stopped \/ paused THEN "Abort"
           ELSE IF status # "Active" THEN "CampaignNotActive"
           ELSE IF amount < 0 THEN "NegativeAmount"
           ELSE IF amount = 0 THEN "ZeroAmount"
           ELSE IF amount < config.min THEN "BelowMinimum"
           ELSE IF DeadlinePassed THEN "CampaignEnded"
           ELSE IF ~room \/ token[c] < amount THEN "Abort"
           ELSE IF entry > MaxAmount THEN "Overflow"
           ELSE IF total > MaxAmount THEN "Overflow"
           ELSE None
    BY ContributeErrorIs DEF room, entry, total
  <2> QED  BY <1>2, <2>1
<1> QED  BY <1>4, <1>5

\* An amount that is refused for itself is cured by the minimum, unless the
\* deadline has passed; after the deadline nothing is.
LEMMA RetryCures ==
  ASSUME IndInv, config # None, NEW c \in Contributors, NEW amount \in Amounts,
         status = "Active"
  PROVE  LET error == ContributeError(c, amount)
             cured == ContributeError(c, config.min)
         IN /\ ContributeRetryable(error) =>
                 /\ cured \in {None, "Abort", "Overflow", "CampaignEnded"}
                 /\ cured = "CampaignEnded" <=> DeadlinePassed
            /\ error = "CampaignEnded" =>
                 \A other \in Amounts : ContributeError(c, other) # None
<1>1. config.min \in Int /\ config.min >= 1
  <2>1. config \in Configs
    BY DEF IndInv, TypeOK
  <2> QED  BY <2>1, ConfigFacts DEF IndInv, BlankUntilInitialized
<1>2. /\ None # "Abort" /\ None # "NegativeAmount" /\ None # "ZeroAmount"
      /\ None # "BelowMinimum" /\ None # "CampaignEnded" /\ None # "Overflow"
      /\ None # "CampaignNotActive"
  BY HelpersAssumption DEF ContributeErrors
<1>3. ASSUME ContributeRetryable(ContributeError(c, amount))
      PROVE  ~(stopped \/ paused)
  BY <1>3, ContributeErrorIs DEF ContributeRetryable
<1>4. ASSUME ~(stopped \/ paused)
      PROVE  /\ ContributeError(c, config.min)
                  \in {None, "Abort", "Overflow", "CampaignEnded"}
             /\ ContributeError(c, config.min) = "CampaignEnded" <=> DeadlinePassed
  <2> DEFINE min == config.min
             refused == ~HasRoom(contributors, c) \/ token[c] < min
             entry == contribution[c] + min > MaxAmount
             total == totalRaised + min > MaxAmount
  <2>1. ContributeError(c, min) =
           IF stopped \/ paused THEN "Abort"
           ELSE IF status # "Active" THEN "CampaignNotActive"
           ELSE IF min < 0 THEN "NegativeAmount"
           ELSE IF min = 0 THEN "ZeroAmount"
           ELSE IF min < config.min THEN "BelowMinimum"
           ELSE IF DeadlinePassed THEN "CampaignEnded"
           ELSE IF refused THEN "Abort"
           ELSE IF entry THEN "Overflow"
           ELSE IF total THEN "Overflow"
           ELSE None
    BY ContributeErrorIs
  <2>2. ~(min < 0) /\ ~(min = 0) /\ ~(min < config.min)
    BY <1>1
  <2> HIDE DEF refused, entry, total, min
  <2>3. ContributeError(c, min) =
           IF DeadlinePassed THEN "CampaignEnded"
           ELSE IF refused THEN "Abort"
           ELSE IF entry \/ total THEN "Overflow" ELSE None
    BY <1>4, <2>1, <2>2
  <2>4. /\ ContributeError(c, min) \in {None, "Abort", "Overflow", "CampaignEnded"}
        /\ ContributeError(c, min) = "CampaignEnded" <=> DeadlinePassed
    BY <1>2, <2>3
  <2> QED  BY <2>4 DEF min
<1>5. ASSUME ContributeError(c, amount) = "CampaignEnded", NEW other \in Amounts
      PROVE  ContributeError(c, other) # None
  <2>1. DeadlinePassed
    BY <1>2, <1>5, ContributeErrorIs
  <2>2. ~ContributeOpen(c, other)
    BY <2>1 DEF ContributeOpen
  <2> QED  BY <2>2, ContributeAnswers
<1> QED  BY <1>3, <1>4, <1>5

LEMMA ValidatorsFollow == IndInv /\ ConfigAccepted => ValidatorsAgree
<1> SUFFICES ASSUME IndInv, ConfigAccepted PROVE ValidatorsAgree
  OBVIOUS
<1>1. now \in Nat /\ BpsScale \in Nat /\ MinDeadlineOffset \in Nat
  BY BoundFacts DEF IndInv, TypeOK
<1>2. ASSUME config = None, NEW k \in Configs
      PROVE  /\ InitError(k) = None <=> ValidConfig(k)
             /\ InitRetryable(InitError(k)) <=> ~ValidConfig(k)
             /\ ValidConfig(k) => (ValidCreation(k) <=>
                  k.goal <= MaxCampaignGoal /\ k.deadline <= now + MaxDuration)
             /\ Generated(k) /\ (k.bonus # None => k.bonus > k.goal) => ValidConfig(k)
  <2>1. /\ k.goal \in Int /\ k.deadline \in Nat /\ k.min \in Int
        /\ k.feeBps # None => k.feeBps \in Nat
    BY ConfigFacts
  <2>2. /\ InitError(k) = None <=> ValidConfig(k)
        /\ InitRetryable(InitError(k)) <=> ~ValidConfig(k)
    BY <1>1, <1>2, InitErrorIs
  <2>3. ValidConfig(k) => k.goal > 0 /\ k.deadline > now
    BY <1>1, <2>1, HelpersAssumption DEF ValidConfig
  <2>4. ValidConfig(k) => (ValidCreation(k) <=>
          k.goal <= MaxCampaignGoal /\ k.deadline <= now + MaxDuration)
    BY <2>3 DEF ValidCreation
  <2>5. ASSUME Generated(k), k.bonus # None => k.bonus > k.goal PROVE ValidConfig(k)
    <3>1. k.deadline - now >= MinDeadlineOffset /\ k.goal >= 1
      BY <2>5, HelpersAssumption DEF Generated
    <3>2. k.deadline >= now + MinDeadlineOffset
      BY <1>1, <2>1, <3>1
    <3> QED  BY <2>5, <3>1, <3>2 DEF Generated, ValidConfig
  <2> QED  BY <2>2, <2>4, <2>5
<1>3. ASSUME status = "Active"
      PROVE  /\ \A c \in Contributors :
                  LET errors == [amount \in Amounts |-> ContributeError(c, amount)]
                      cured  == ContributeError(c, config.min)
                  IN \A amount \in Amounts :
                       /\ errors[amount] = None <=> ContributeOpen(c, amount)
                       /\ ContributeRetryable(errors[amount]) =>
                            /\ cured \in {None, "Abort", "Overflow", "CampaignEnded"}
                            /\ cured = "CampaignEnded" <=> DeadlinePassed
                       /\ errors[amount] = "CampaignEnded" =>
                            \A other \in Amounts : errors[other] # None
             /\ LET shown == DeadlineUiState(Max({0, config.deadline - now})) IN
                shown = "Expired" <=> now = config.deadline \/ DeadlinePassed
  <2>1. config # None
    BY <1>3 DEF IndInv, BlankUntilInitialized
  <2>2. ASSUME NEW c \in Contributors
        PROVE  LET errors == [amount \in Amounts |-> ContributeError(c, amount)]
                   cured  == ContributeError(c, config.min)
               IN \A amount \in Amounts :
                    /\ errors[amount] = None <=> ContributeOpen(c, amount)
                    /\ ContributeRetryable(errors[amount]) =>
                         /\ cured \in {None, "Abort", "Overflow", "CampaignEnded"}
                         /\ cured = "CampaignEnded" <=> DeadlinePassed
                    /\ errors[amount] = "CampaignEnded" =>
                         \A other \in Amounts : errors[other] # None
    <3> DEFINE errors == [amount \in Amounts |-> ContributeError(c, amount)]
    <3>1. \A amount \in Amounts : errors[amount] = ContributeError(c, amount)
      OBVIOUS
    <3> HIDE DEF errors
    <3>2. \A amount \in Amounts :
             /\ errors[amount] = None <=> ContributeOpen(c, amount)
             /\ ContributeRetryable(errors[amount]) =>
                  /\ ContributeError(c, config.min)
                       \in {None, "Abort", "Overflow", "CampaignEnded"}
                  /\ ContributeError(c, config.min) = "CampaignEnded" <=> DeadlinePassed
             /\ errors[amount] = "CampaignEnded" =>
                  \A other \in Amounts : errors[other] # None
      BY <1>3, <2>1, <3>1, ContributeAnswers, RetryCures
    <3> QED  BY <3>2 DEF errors
  <2>3. LET shown == DeadlineUiState(Max({0, config.deadline - now})) IN
        shown = "Expired" <=> now = config.deadline \/ DeadlinePassed
    <3> DEFINE left == config.deadline - now
               remaining == Max({0, left})
    <3>1. config.deadline \in Nat
      BY <2>1, BooksRead
    <3>2. left \in Int /\ 0 \in Int
      BY <1>1, <3>1
    <3>3. remaining = IF 0 >= left THEN 0 ELSE left
      <4> HIDE DEF left
      <4> QED  BY <3>2, MaxOfTwo
    <3>4. DeadlineUiState(remaining) = "Expired" <=> remaining = 0
      <4> HIDE DEF remaining
      <4> QED  BY DEF DeadlineUiState
    <3>5. remaining = 0 <=> now >= config.deadline
      <4> HIDE DEF remaining
      <4> QED  BY <1>1, <3>1, <3>3
    <3> HIDE DEF remaining
    <3> QED  BY <1>1, <3>1, <3>4, <3>5 DEF DeadlinePassed, remaining
  <2> QED  BY <2>2, <2>3
<1> QED  BY <1>2, <1>3 DEF ValidatorsAgree

\* Whatever a helper computes again is what the contract computes, in every
\* reachable state.
THEOREM HelpersAlwaysAgree == Spec => []HelpersAgree
<1>1. IndInv /\ ConfigAccepted /\ CancelledEmpty /\ EndedLate => HelpersAgree
  BY ValidatorsFollow, CopiesFollow, LookupsFollow, PreviewsFollow, SanitizedFollows
     DEF HelpersAgree
<1> QED
  BY <1>1, Invariance, AcceptedConfigs, CancelledAlwaysEmpty, OutcomeAfterDeadline, PTL
=============================================================================
