-------------------------- MODULE CampaignContent ---------------------------
(***************************************************************************)
(* What the creator writes about a campaign: update_metadata, the roadmap  *)
(* and the stretch goals of lib.rs, within the limits of                   *)
(* contract_state_size.rs, and current_milestone, which reads the goals    *)
(* against the total.  A text is its length.  Status and total are         *)
(* Campaign's; here they move by themselves.                               *)
(***************************************************************************)
EXTENDS Ledger, Loops

CONSTANTS
  PrimaryGoal,   \* DataKey::Goal
  Milestones,    \* stretch goals that are offered
  MaxStretch,    \* MAX_STRETCH_GOALS, 32 in the code
  MaxRoadmap,    \* MAX_ROADMAP_ITEMS, 32 in the code
  MaxTextLen,    \* MAX_STRING_LEN, 256 in the code
  MaxRaised      \* bound on the total

ASSUME ContentAssumption ==
  /\ Milestones \subseteq Int
  /\ {PrimaryGoal, MaxStretch, MaxRoadmap, MaxTextLen, MaxRaised} \subseteq Nat

Fields == {"title", "description", "socials"}
TextLens == 0..(MaxTextLen + 1)

VARIABLES
  author,    \* DataKey::Creator, written once by initialize
  text,      \* the length of each metadata field, None before it is set
  roadmap,   \* DataKey::Roadmap: the dates of its items
  stretch,   \* DataKey::StretchGoals
  raised,    \* DataKey::TotalRaised
  taking     \* DataKey::Status is Active
contentVars == <<author, text, roadmap, stretch, raised, taking>>

ContentInit ==
  /\ author = None
  /\ text = [f \in Fields |-> None]
  /\ roadmap = <<>> /\ stretch = <<>>
  /\ raised = 0 /\ taking = TRUE
-----------------------------------------------------------------------------
\* check_string_len, behind validate_title, validate_description,
\* validate_social_links and validate_roadmap_description.
Fits(len) == len <= MaxTextLen

\* validate_metadata_total_length
FitTogether(lens) ==
  LET size(f) == IF lens[f] = None THEN 0 ELSE lens[f]
  IN  size("title") + size("description") + size("socials") <= 3 * MaxTextLen

\* validate_stretch_goal_capacity, which check_stretch_goal_limit repeats
RoomForGoal == Len(stretch) < MaxStretch

\* validate_roadmap_capacity, which check_roadmap_limit repeats
RoomForItem == Len(roadmap) < MaxRoadmap

\* Mutant: a goal that is exactly reached still counts as unmet.
NextUnmetLate(total, goals) ==
  LET unmet == {i \in 1..Len(goals) : total <= goals[i]} IN
  IF unmet = {} THEN 0 ELSE goals[First(unmet)]

\* next_unmet_milestone: the first in the order in which they were added.
NextUnmet(total, goals) ==
  LET unmet == {i \in 1..Len(goals) : total < goals[i]} IN
  IF unmet = {} THEN 0 ELSE goals[First(unmet)]

\* current_milestone
CurrentMilestone == NextUnmet(raised, stretch)
-----------------------------------------------------------------------------
\* initialize stores the creator.
ProvisionAuthor(a) ==
  /\ author = None
  /\ author' = a
  /\ SignedBy(a) /\ UNCHANGED <<text, roadmap, stretch, raised, taking>>

\* update_metadata: the fields that are given are replaced, all or none; the
\* aggregate is checked over the given ones and what the others hold.
UpdateMetadata(c, given) ==
  /\ taking
  /\ c = author
  /\ text' = [f \in Fields |-> IF given[f] = None THEN text[f] ELSE given[f]]
  /\ FitTogether(text')
  /\ \A f \in Fields : given[f] # None => Fits(given[f])
  /\ SignedBy(c)
  /\ UNCHANGED <<author, roadmap, stretch, raised, taking>>

\* add_roadmap_item; the status is not asked.
AddRoadmapItem(date, len) ==
  /\ author # None
  /\ date > now
  /\ len > 0 /\ Fits(len)
  /\ RoomForItem
  /\ roadmap' = Append(roadmap, date)
  /\ SignedBy(author)
  /\ UNCHANGED <<author, text, stretch, raised, taking>>

\* add_stretch_goal; neither the status nor the order is asked.
AddStretchGoal(m) ==
  /\ author # None
  /\ m > PrimaryGoal
  /\ RoomForGoal
  /\ stretch' = Append(stretch, m)
  /\ SignedBy(author)
  /\ UNCHANGED <<author, text, roadmap, raised, taking>>

\* Contributions and refunds, and the end of the campaign, as Campaign has them.
CampaignMoves ==
  /\ author # None
  /\ \/ /\ raised' \in {x \in {raised - 1, raised + 1} : x \in 0..MaxRaised}
        /\ UNCHANGED taking
     \/ taking /\ taking' = FALSE /\ UNCHANGED raised
  /\ Unsigned
  /\ UNCHANGED <<author, text, roadmap, stretch>>

ContentNext ==
  \/ \E a \in Addresses : ProvisionAuthor(a)
  \/ \E c \in Addresses, given \in [Fields -> TextLens \cup {None}] :
       UpdateMetadata(c, given)
  \/ \E date \in 0..MaxTime + 1, len \in TextLens : AddRoadmapItem(date, len)
  \/ \E m \in Milestones : AddStretchGoal(m)
  \/ CampaignMoves
  \/ Tick /\ UNCHANGED contentVars

ContentSpec == LedgerInit /\ ContentInit /\ [][ContentNext]_<<ledgerVars, contentVars>>
-----------------------------------------------------------------------------
\* Every stored text and list is within its limit, and the roadmap was ahead
\* of the clock when it was written.
ContentTypeOK ==
  /\ author \in Addresses \cup {None}
  /\ text \in [Fields -> 0..MaxTextLen \cup {None}]
  /\ Len(roadmap) <= MaxRoadmap /\ Len(stretch) <= MaxStretch
  /\ \A i \in DOMAIN roadmap : roadmap[i] > 0
  /\ raised \in 0..MaxRaised /\ taking \in BOOLEAN

\* current_milestone is a goal that is not reached, above the primary one, and
\* 0 exactly when no goal is open; when the creator listed the goals in
\* ascending order it is the nearest one, at every total.
MilestoneSound ==
  LET open == {i \in 1..Len(stretch) : raised < stretch[i]} IN
  /\ CurrentMilestone = 0 <=> open = {}
  /\ open # {} =>
       /\ \E i \in open : CurrentMilestone = stretch[i]
       /\ CurrentMilestone > PrimaryGoal
       /\ (\A i, j \in 1..Len(stretch) : i < j => stretch[i] <= stretch[j])
            => \A i \in open : CurrentMilestone <= stretch[i]
=============================================================================
