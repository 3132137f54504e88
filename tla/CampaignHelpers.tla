--------------------------- MODULE CampaignHelpers ---------------------------
(***************************************************************************)
(* The helpers that compute again what the entry points of a campaign      *)
(* compute: copies of the progress and of the fee, previews of a refund or *)
(* a withdrawal, validators of parameters, and what is shown of a campaign *)
(* (algorithm_optimization.rs, recursive_optimization.rs,                  *)
(* state_compression.rs, lazy_loading_optimization.rs,                     *)
(* network_optimization.rs, data_structure_optimization.rs,                *)
(* gas_optimization_algorithms.rs, campaign_goal_minimum.rs,               *)
(* proptest_generator_boundary.rs, input_validation.rs,                    *)
(* contribute_error_handling.rs, crowdfund_initialize_function.rs and      *)
(* output_sanitization.rs).  Nothing makes them agree with the contract,   *)
(* or with each other, but that they were written alike.                   *)
(***************************************************************************)
EXTENDS CampaignViews

CONSTANTS
  LookupBatch,      \* MAX_BATCH_SIZE of algorithm_optimization.rs, 50 in the code
  OffsetRange,      \* DEADLINE_OFFSET_MIN..DEADLINE_OFFSET_MAX, 1_000..1_000_000
  GoalRange,        \* GOAL_MIN..GOAL_MAX, 1_000..100_000_000 in the code
  EndingSoon,       \* DEADLINE_ENDING_SOON_THRESHOLD, 3_600 in the code
  MaxCampaignGoal,  \* the largest goal of input_validation.rs, 10^15 in the code
  MaxDuration       \* its longest campaign, a year in the code

\* ContractError, as contribute returns it; the host aborts without one.
ContributeErrors ==
  {"Abort", "CampaignNotActive", "NegativeAmount", "ZeroAmount", "BelowMinimum",
   "CampaignEnded", "Overflow"}

ASSUME HelpersAssumption ==
  /\ {LookupBatch, EndingSoon, MaxCampaignGoal, MaxDuration} \subseteq Nat
  /\ \A o \in OffsetRange : o >= MinDeadlineOffset
  /\ \A g \in GoalRange : g >= 1
  /\ MinDeadlineOffset >= 1
  /\ None \notin Contributors /\ None \notin ContributeErrors

Clamp(x, low, high) == IF x < low THEN low ELSE IF x > high THEN high ELSE x

\* i128::saturating_mul of what is never negative here.
Saturated(x) == Min({x, ProductMax})
-----------------------------------------------------------------------------
(* Copies of the progress; amounts are not negative. *)

\* algorithm_optimization::progress_bps
AlgorithmProgress(raised, goal) ==
  IF raised <= 0 \/ goal <= 0 THEN 0
  ELSE Clamp(Saturated(raised * BpsScale) \div goal, 0, BpsScale)

\* campaign_goal_minimum::compute_progress_bps
GoalMinimumProgress(raised, goal) ==
  LET raw == Saturated(raised * BpsScale) \div goal IN
  IF raised <= 0 \/ goal <= 0 THEN 0 ELSE IF raw >= BpsScale THEN BpsScale ELSE raw

\* proptest_generator_boundary: clamp_progress_bps of the raw quotient
BoundaryProgress(raised, goal) ==
  IF goal <= 0 THEN 0 ELSE Clamp(Saturated(raised * BpsScale) \div goal, 0, BpsScale)

\* CampaignSnapshot::progress_bps
SnapshotProgress(s) ==
  IF s.goal <= 0 THEN 0
  ELSE Clamp(Saturated(s.total_raised * BpsScale) \div s.goal, 0, BpsScale)

\* network_optimization::progress_bps
NetworkProgress(raised, goal) ==
  IF goal <= 0 THEN 0 ELSE Min({Saturated(raised * BpsScale) \div goal, BpsScale})

\* iterative_progress_bps multiplies unchecked and aborts on overflow.
RecursiveProgress(raised, goal) ==
  IF raised <= 0 \/ goal <= 0 THEN 0
  ELSE IF raised * BpsScale > ProductMax THEN None
  ELSE Min({(raised * BpsScale) \div goal, BpsScale})

\* safe_fraction_bps, uncapped: nothing on overflow.
Fraction(numerator, denominator, scale) ==
  IF denominator <= 0 \/ scale <= 0 \/ numerator * scale > ProductMax THEN None
  ELSE (numerator * scale) \div denominator

\* network_optimization::goal_met
GoalMet(raised, goal) == goal > 0 /\ raised >= goal

\* CampaignSnapshot::load, and the struct
CampaignSnapshot ==
  [goal |-> config.goal, total_raised |-> totalRaised,
   deadline |-> config.deadline, min_contribution |-> config.min]

\* CampaignSnapshot::is_expired and goal_met
SnapshotExpired(s) == now > s.deadline
SnapshotGoalMet(s) == s.total_raised >= s.goal

\* As long as nothing overflows, the copies show one progress; beyond that one
\* saturates with the contract, one has no answer, one aborts.
ProgressCopiesAgree ==
  LET shown == Progress(totalRaised, config.goal)
      exact == totalRaised * BpsScale <= ProductMax
  IN /\ {AlgorithmProgress(totalRaised, config.goal),
         GoalMinimumProgress(totalRaised, config.goal),
         BoundaryProgress(totalRaised, config.goal),
         NetworkProgress(totalRaised, config.goal),
         SnapshotProgress(CampaignSnapshot)} = {shown}
     /\ RecursiveProgress(totalRaised, config.goal) = IF exact THEN shown ELSE None
     /\ LET f == Fraction(totalRaised, config.goal, BpsScale) IN
        IF exact THEN shown = Min({f, BpsScale}) ELSE f = None
     /\ GoalMet(totalRaised, config.goal) <=> SnapshotGoalMet(CampaignSnapshot)
     /\ SnapshotExpired(CampaignSnapshot) <=> DeadlinePassed
-----------------------------------------------------------------------------
(* Look-ups over a list of addresses. *)

\* batch_contribution_lookup, and batch_read_contributions without the bound
BatchLookup(list) == [i \in DOMAIN list |-> contribution[list[i]]]

\* sum_contributions
SumContributions(list) ==
  LET sum[i \in 0..Len(list)] ==
        IF i = 0 THEN 0 ELSE Min({sum[i-1] + BatchLookup(list)[i], MaxAmount})
  IN  sum[Len(list)]

\* iterative_sum: nothing on overflow
IterativeSum(list) ==
  LET sum == PrefixSums(BatchLookup(list), Len(list))[Len(list)]
  IN  IF sum > MaxAmount THEN None ELSE sum

\* iterative_max_contribution
IterativeMax(list) ==
  LET largest[i \in 0..Len(list)] ==
        IF i = 0 THEN 0 ELSE Max({largest[i-1], BatchLookup(list)[i]})
  IN  largest[Len(list)]

\* find_first_above_threshold
FirstAbove(list, threshold) ==
  LET above == {i \in DOMAIN list : contribution[list[i]] > threshold}
  IN  IF above = {} THEN None ELSE list[First(above)]

\* count_unique_contributors
CountUnique == Min({Len(contributors), MaxContributors})

\* What is summed up over the list is what the contract keeps as a total, as
\* long as the total is of the entries: until it is paid out or collected.
LookupsAgree ==
  Len(contributors) <= LookupBatch =>
    LET stats == ContributionStats
        sum   == SumContributions(contributors)
    IN
    /\ (status = "Active" /\ ~DeadlinePassed) \/ status = "Expired" =>
         sum = totalRaised
    /\ IterativeSum(contributors) \in {sum, None}
    /\ IterativeMax(contributors) = stats.largest
    /\ \A t \in Amounts : t >= 0 =>
         (FirstAbove(contributors, t) = None <=> stats.largest <= t)
    /\ CountUnique = stats.count
-----------------------------------------------------------------------------
(* Previews of the money paid out. *)

\* compute_fee_amount
FeeAmount(amount, feeBps) ==
  IF amount <= 0 \/ feeBps = 0 THEN 0 ELSE Min({amount * feeBps, MaxAmount}) \div BpsScale

\* compute_net_payout
NetPayout(total, feeBps) ==
  IF feeBps > BpsScale THEN None
  ELSE IF total <= 0 THEN 0
  ELSE IF total * feeBps > MaxAmount THEN None
  ELSE total - ((total * feeBps) \div BpsScale)

\* Mutant: the deadline itself counts as passed.
RefundEligibleAtDeadline(c) ==
  now >= config.deadline /\ totalRaised < config.goal /\ contribution[c] > 0

\* is_refund_eligible, called with the stored deadline, total and goal
RefundEligible(c) ==
  now > config.deadline /\ totalRaised < config.goal /\ contribution[c] > 0

\* validate_withdrawal
ValidWithdrawal(isCreator, goalReached, deadlinePassed) ==
  IF isCreator THEN goalReached ELSE ~goalReached /\ deadlinePassed

\* The previews of a payout are the payout, and neither exists when withdraw
\* aborts; whoever can be refunded is told so.  Told so though nothing can be
\* refunded (yet) are the contributors of a campaign nobody has finalized, of
\* one that was stopped, and of one whose total withdraw has set to zero.
PreviewsAgree ==
  /\ WithdrawOpen /\ config.feeBps # None =>
       LET net == NetPayout(totalRaised, config.feeBps) IN
       /\ net = None <=> totalRaised * config.feeBps > MaxAmount
       /\ net # None =>
            /\ FeeAmount(totalRaised, config.feeBps) = Fee(totalRaised)
            /\ net + FeeAmount(totalRaised, config.feeBps) = totalRaised
  /\ \A c \in Contributors :
       /\ RefundOpen => (RefundEligible(c) <=> RefundAvailable(c) > 0)
       /\ RefundEligible(c) =>
            \/ RefundOpen
            \/ status = "Active" /\ DeadlinePassed
            \/ status = "Cancelled" /\ stopped
            \/ status = "Succeeded" /\ totalRaised = 0
  /\ WithdrawOpen /\ totalRaised > 0 =>
       ValidWithdrawal(TRUE, totalRaised >= config.goal, DeadlinePassed)
  /\ RefundOpen => ValidWithdrawal(FALSE, totalRaised >= config.goal, DeadlinePassed)
-----------------------------------------------------------------------------
(* Validators, and the errors of the entry points. *)

\* The error of the first test that fails, None when all pass.
FirstError(tests) ==
  LET failing == {i \in DOMAIN tests : tests[i][1]}
  IN  IF failing = {} THEN None ELSE tests[First(failing)][2]

\* The validators of campaign_goal_minimum.rs, and the errors that
\* validate_init_params makes of them; 1 is AlreadyInitialized.
InitError(k) ==
  FirstError(<<<<config # None, 1>>,
               <<k.goal < 1, 8>>,
               <<k.min < 1, 9>>,
               <<k.deadline < now + MinDeadlineOffset, 10>>,
               <<k.feeBps # None /\ k.feeBps > BpsScale, 11>>,
               <<k.bonus # None /\ k.bonus <= k.goal, 12>>>>)

\* is_init_error_retryable
InitRetryable(code) == code \in 8..12

\* What contribute answers, and "Abort" where it does not get to an answer.
ContributeError(c, amount) ==
  FirstError(<<<<stopped \/ paused, "Abort">>,
               <<status # "Active", "CampaignNotActive">>,
               <<amount < 0, "NegativeAmount">>,
               <<amount = 0, "ZeroAmount">>,
               <<amount < config.min, "BelowMinimum">>,
               <<DeadlinePassed, "CampaignEnded">>,
               <<~HasRoom(contributors, c) \/ token[c] < amount, "Abort">>,
               <<contribution[c] + amount > MaxAmount, "Overflow">>,
               <<totalRaised + amount > MaxAmount, "Overflow">>>>)

\* contribute_error_handling::is_retryable
ContributeRetryable(error) == error \in {"ZeroAmount", "BelowMinimum", "NegativeAmount"}

\* validate_campaign_creation, for a title that fits
ValidCreation(k) ==
  /\ k.goal > 0 /\ k.goal <= MaxCampaignGoal
  /\ k.deadline > now /\ k.deadline <= now + MaxDuration

\* is_valid_goal, is_valid_min_contribution, is_valid_deadline_offset and
\* is_valid_fee_bps, which the test generators draw from
Generated(k) ==
  /\ k.deadline - now \in OffsetRange
  /\ k.goal \in GoalRange
  /\ k.min >= 1 /\ k.min <= k.goal
  /\ k.feeBps # None => k.feeBps <= BpsScale

\* deadline_ui_state of the seconds that remain
DeadlineUiState(remaining) ==
  IF remaining = 0 THEN "Expired"
  ELSE IF remaining <= EndingSoon THEN "EndingSoon" ELSE "Active"

\* Every validator lets through what initialize accepts, except what only one
\* of them limits, and contribute answers no error exactly where it goes on.  An error called retryable is one another amount or other
\* parameters cure, unless the deadline has passed as well; one that is not
\* retryable, no amount cures.  At the second of the deadline the campaign is
\* shown as over and still takes contributions.
ValidatorsAgree ==
  /\ config = None =>
       \A k \in Configs :
         /\ InitError(k) = None <=> ValidConfig(k)
         /\ InitRetryable(InitError(k)) <=> ~ValidConfig(k)
         /\ ValidConfig(k) => (ValidCreation(k) <=>
              k.goal <= MaxCampaignGoal /\ k.deadline <= now + MaxDuration)
         /\ Generated(k) /\ (k.bonus # None => k.bonus > k.goal) => ValidConfig(k)
  /\ status = "Active" =>
       /\ \A c \in Contributors :
            LET errors == [amount \in Amounts |-> ContributeError(c, amount)]
                cured  == ContributeError(c, config.min)
            IN \A amount \in Amounts :
                 /\ errors[amount] = None <=> ContributeOpen(c, amount)
                 /\ ContributeRetryable(errors[amount]) =>
                      /\ cured \in {None, "Abort", "Overflow", "CampaignEnded"}
                      /\ cured = "CampaignEnded" <=> DeadlinePassed
                 /\ errors[amount] = "CampaignEnded" =>
                      \A other \in Amounts : errors[other] # None
       /\ LET shown == DeadlineUiState(Max({0, config.deadline - now})) IN
          shown = "Expired" <=> now = config.deadline \/ DeadlinePassed
-----------------------------------------------------------------------------
(* output_sanitization.rs: a value and whether it was changed. *)

\* enum SanitizedOutput: value and was_modified
Clean(v) == [value |-> v, modified |-> FALSE]
Changed(v) == [value |-> v, modified |-> TRUE]

\* sanitize_amount
SanitizeAmount(amount) == IF amount >= 0 THEN Clean(amount) ELSE Changed(0)

\* sanitize_amount_bounded; a negative bound is none.
SanitizeBounded(amount, max) ==
  IF amount < 0 THEN Changed(0)
  ELSE IF max >= 0 /\ amount > max THEN Changed(max) ELSE Clean(amount)

\* sanitize_bps and sanitize_contributor_count
SanitizeUpTo(n, max) == IF n <= max THEN Clean(n) ELSE Changed(max)

\* sanitize_deadline
SanitizeDeadline(deadline) == IF deadline >= now THEN Clean(deadline) ELSE Changed(now)

\* sanitize_campaign_output
SanitizedCampaign(raised, goal, progress, deadline, count) ==
  LET total  == SanitizeBounded(raised, Max({goal, 0}))
      target == SanitizeAmount(goal)
      shown  == SanitizeUpTo(progress, BpsScale)
      until  == SanitizeDeadline(deadline)
      listed == SanitizeUpTo(count, MaxContributors)
  IN [total_raised |-> total.value, goal |-> target.value,
      progress_bps |-> shown.value, deadline |-> until.value,
      contributor_count |-> listed.value,
      was_modified |-> \/ total.modified \/ target.modified \/ shown.modified
                       \/ until.modified \/ listed.modified]

\* Of a campaign's own figures, sanitizing changes a total above the goal and
\* a deadline that has passed, and the figures still fit each other.
SanitizedAgrees ==
  LET out == SanitizedCampaign(totalRaised, config.goal,
               Progress(totalRaised, config.goal), config.deadline, GetStats.count)
  IN /\ out.was_modified <=> totalRaised > config.goal \/ now > config.deadline
     /\ out.goal = config.goal /\ out.contributor_count = Len(contributors)
     /\ out.progress_bps = Progress(out.total_raised, out.goal)
     /\ out.deadline >= now
-----------------------------------------------------------------------------
\* The helpers agree with the contract wherever a campaign can get to.
HelpersAgree ==
  /\ ValidatorsAgree
  /\ config # None =>
       ProgressCopiesAgree /\ LookupsAgree /\ PreviewsAgree /\ SanitizedAgrees
=============================================================================
