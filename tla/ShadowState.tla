---------------------------- MODULE ShadowState ----------------------------
(***************************************************************************)
(* The second copies of a campaign's books that state_compression.rs and   *)
(* data_structure_optimization.rs keep in storage of their own: a packed   *)
(* state that contributions and refunds are applied to, a packed record    *)
(* that is only stored and loaded, and a contribution entry that is        *)
(* removed when it is set to nothing.                                      *)
(***************************************************************************)
EXTENDS Ledger, FiniteSets

CONSTANTS
  ShadowGoals,    \* goals of the packed states that are stored
  ShadowAmounts,  \* amounts applied to them; nothing rejects a negative one
  ShadowMax,      \* i128::MAX
  ShadowScale,    \* 10_000 basis points in the code
  MaxApplied      \* bound on the calls of a behaviour

ASSUME ShadowAssumption ==
  /\ {ShadowMax, MaxApplied} \subseteq Nat /\ ShadowScale \in Nat \ {0}
  /\ ShadowGoals \subseteq 0..ShadowMax
  /\ ShadowAmounts \subseteq -ShadowMax..ShadowMax
  /\ None \notin [goal : Nat, deadline : Nat, total_raised : Int]

ShadowRange == -(ShadowMax + 1)..ShadowMax

\* struct CompressedState and struct PackedCampaignMeta, without the minimum
CompressedState ==
  [goal : ShadowGoals \cup {0}, deadline : 0..MaxTime, total_raised : ShadowRange]

\* What load_or_init starts from when nothing was stored.
Uninitialised == [goal |-> 0, deadline |-> 0, total_raised |-> 0]

VARIABLES
  compressed,  \* CompressedKey::State, None when absent
  packedMeta,  \* DataKey::PackedMeta, None when absent
  entry,       \* a DataKey::Contribution written by store_contribution
  booked,      \* history: what the packed total should be
  unopened,    \* history: the packed state was never stored, only applied to
  applied      \* history: how many calls were made
shadowVars == <<compressed, packedMeta, entry, booked, unopened, applied>>

ShadowInit ==
  /\ compressed = None /\ packedMeta = None /\ entry = None
  /\ booked = 0 /\ unopened = TRUE /\ applied = 0
-----------------------------------------------------------------------------
\* load_or_init
LoadOrInit == IF compressed = None THEN Uninitialised ELSE compressed

\* state_compression::store
StoreCompressed(s) ==
  /\ compressed' = s
  /\ booked' = s.total_raised /\ unopened' = FALSE
  /\ UNCHANGED <<packedMeta, entry>>

\* apply_contribution; on overflow nothing is stored.
ApplyContribution(amount) ==
  LET total == LoadOrInit.total_raised + amount IN
  /\ total \in ShadowRange
  /\ compressed' = [LoadOrInit EXCEPT !.total_raised = total]
  /\ booked' = booked + amount
  /\ UNCHANGED <<packedMeta, entry, unopened>>

\* apply_refund; a total below zero is refused.
ApplyRefund(amount) ==
  LET total == LoadOrInit.total_raised - amount IN
  /\ total \in ShadowRange /\ total >= 0
  /\ compressed' = [LoadOrInit EXCEPT !.total_raised = total]
  /\ booked' = booked - amount
  /\ UNCHANGED <<packedMeta, entry, unopened>>

\* store_packed_meta, of what the packed state says at the moment
StorePackedMeta ==
  /\ packedMeta' = LoadOrInit
  /\ UNCHANGED <<compressed, entry, booked, unopened>>

\* store_contribution removes the entry of nothing.
StoreContribution(amount) ==
  /\ entry' = IF amount > 0 THEN amount ELSE None
  /\ UNCHANGED <<compressed, packedMeta, booked, unopened>>

ShadowNext ==
  \/ /\ \/ \E goal \in ShadowGoals, deadline \in 0..MaxTime :
             StoreCompressed([goal |-> goal, deadline |-> deadline, total_raised |-> 0])
        \/ \E amount \in ShadowAmounts :
             ApplyContribution(amount) \/ ApplyRefund(amount) \/ StoreContribution(amount)
        \/ StorePackedMeta
     /\ applied < MaxApplied /\ applied' = applied + 1
     /\ Unsigned
  \/ Tick /\ UNCHANGED shadowVars
-----------------------------------------------------------------------------
\* state_compression::is_goal_reached
ShadowGoalReached == compressed # None /\ compressed.total_raised >= compressed.goal

\* state_compression::is_expired
ShadowExpired == compressed # None /\ now > compressed.deadline

\* state_compression::progress_bps: a product that overflows shows nothing; a
\* negative quotient is shown as the unsigned number with the same bits, -1
\* here.
ShadowProgress ==
  IF compressed = None \/ compressed.goal <= 0 THEN 0
  ELSE LET product == compressed.total_raised * ShadowScale IN
       IF product \notin ShadowRange THEN 0
       ELSE IF product <= -compressed.goal THEN -1
       ELSE IF product < 0 THEN 0
       ELSE IF product \div compressed.goal > ShadowScale THEN ShadowScale
       ELSE product \div compressed.goal

\* load_contribution and contributor_exists
LoadContribution == IF entry = None THEN 0 ELSE entry
ContributorExists == entry # None

ShadowTypeOK ==
  /\ compressed \in CompressedState \cup {None}
  /\ packedMeta \in CompressedState \cup {None}
  /\ entry \in (ShadowAmounts \cap 1..ShadowMax) \cup {None}

\* The packed total is what was applied to it.  A state that nobody stored has
\* reached its goal of nothing at the first contribution, is over as soon as
\* the clock moves, and still shows no progress; one whose product overflows
\* shows none although its goal is reached; and full progress means the goal.
ShadowSound ==
  /\ compressed # None => compressed.total_raised = booked
  /\ unopened /\ compressed # None =>
       /\ ShadowProgress = 0 /\ ShadowExpired = (now > 0)
       /\ ShadowGoalReached <=> booked >= 0
  /\ ShadowProgress = ShadowScale => ShadowGoalReached
  /\ ShadowGoalReached /\ compressed.goal > 0 /\ ShadowProgress # ShadowScale =>
       ShadowProgress = 0 /\ compressed.total_raised * ShadowScale > ShadowMax
  /\ ShadowProgress < 0 => booked < 0
  /\ ContributorExists <=> LoadContribution > 0
=============================================================================
