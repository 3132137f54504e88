----------------------------- MODULE MCCampaign -----------------------------
(***************************************************************************)
(* Small instances of Campaign.  Basis points are counted out of 4 and     *)
(* i128::MAX is 5 or 8, so that rounding a fee to zero, a fee that takes   *)
(* the whole total and an overflowing total are all a few tokens away.     *)
(***************************************************************************)
EXTENDS Campaign, TLC

CONSTANTS c1, c2, c3

\* Contributors are interchangeable: no action or property tells them apart.
Symmetry == Permutations(Contributors)

Config(goal, min, max, feeBps, bonus) ==
  [goal |-> goal, deadline |-> 1, min |-> min, max |-> max, feeBps |-> feeBps,
   bonus |-> bonus]

\* A quarter as fee with a bonus goal, so that a total that just meets either
\* goal rounds the fee to zero; no fee; a fee of 100%; and four that initialize
\* must reject.
SafetyConfigs == {Config(2, 1, None, 1, 3), Config(4, 2, None, None, None),
                  Config(3, 2, None, 4, None), Config(0, 1, None, None, None),
                  Config(2, 1, None, 5, None), Config(2, 0, None, None, None),
                  Config(3, 1, None, None, 3)}

\* Campaigns whose fee is positive and below the whole at every total that
\* meets the goal: the ones for which withdraw cannot abort for ever.
LiveConfigs == {Config(2, 1, None, None, None), Config(2, 1, None, 1, None)}
=============================================================================
