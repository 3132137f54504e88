---------------------------- MODULE CampaignViews ----------------------------
(***************************************************************************)
(* What callers read of a campaign: the read-only entry points of lib.rs   *)
(* and the scan of stream_processing_optimization.rs behind get_stats.     *)
(* They write nothing, so they are state functions over Campaign.          *)
(***************************************************************************)
EXTENDS Campaign, FiniteSetsExt, TLC

CONSTANT ProductMax   \* i128::MAX again, where an amount is scaled to basis
                      \* points: apart from MaxAmount, so that an instance can
                      \* overflow its sums and still tell percentages apart

ASSUME ViewsAssumption == ProductMax \in Nat /\ ProductMax > 2 * BpsScale

\* Mutant: the cap of 100% is left out.
ProgressUncapped(raised, goal) ==
  IF raised <= 0 \/ goal <= 0 THEN 0 ELSE (raised * BpsScale) \div goal

\* compute_progress_bps: saturating product, rounded down, at most 100%.
Progress(raised, goal) ==
  IF raised <= 0 \/ goal <= 0 THEN 0
  ELSE Min({BpsScale, Min({raised * BpsScale, ProductMax}) \div goal})

\* bonus_goal_progress_bps
BonusProgress ==
  IF config.bonus = None THEN 0 ELSE Progress(totalRaised, config.bonus)

\* bonus_goal_reached
BonusReached == config.bonus # None /\ totalRaised >= config.bonus

\* The entry points that return one stored entry.
StoredViews ==
  [total_raised |-> totalRaised, goal |-> config.goal,
   bonus_goal |-> config.bonus, deadline |-> config.deadline,
   contribution |-> contribution, min_contribution |-> config.min,
   max_individual_contribution |-> config.max]

\* collect_contribution_stats
ContributionStats ==
  [count   |-> Len(contributors),
   average |-> IF contributors = <<>> THEN 0
               ELSE totalRaised \div Len(contributors),
   largest |-> Max({0} \cup {contribution[c] : c \in Listed(contributors)})]

\* get_stats
GetStats ==
  LET scanned == ContributionStats IN
  [total_raised |-> StoredViews.total_raised, goal |-> StoredViews.goal,
   progress |-> Progress(totalRaised, config.goal),
   count |-> scanned.count, average |-> scanned.average,
   largest |-> scanned.largest]

\* refund_available: what refund_single would pay, 0 where it is an error.
RefundAvailable(c) ==
  IF config # None /\ RefundOpen THEN contribution[c] ELSE 0
-----------------------------------------------------------------------------
\* Whether 100% of a goal can be shown: scaled, it stays below the saturation.
Showable(goal) == goal * BpsScale <= ProductMax

\* get_stats mixes the stored total with entries read one by one.  While a
\* campaign takes contributions, or has expired, they describe one set of
\* books: nobody's contribution exceeds the total, the average is none of
\* more than the largest, every refund offered adds up to the total, and 100%
\* progress is shown for nothing but a campaign that finalize would call, or
\* has called, a success: for every one of them, unless its goal is so large
\* that the saturated product can never show it reached.
ViewsConsistent ==
  config # None =>
    LET stats == GetStats IN
    /\ (status = "Active" /\ ~DeadlinePassed) \/ status = "Expired" =>
         /\ stats.average <= stats.largest
         /\ stats.largest <= stats.total_raised
         /\ stats.count * stats.average <= stats.total_raised
    /\ status = "Expired" =>
         /\ stats.progress < BpsScale
         /\ Sum([c \in Contributors |-> RefundAvailable(c)], Contributors) = totalRaised
    /\ stats.progress = BpsScale <=>
         totalRaised >= config.goal /\ Showable(config.goal)
    /\ BonusReached /\ Showable(config.bonus) =>
         BonusProgress = BpsScale /\ stats.progress = BpsScale
=============================================================================
