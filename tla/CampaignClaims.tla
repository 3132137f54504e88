--------------------------- MODULE CampaignClaims ---------------------------
(***************************************************************************)
(* Sentences of the repository's documentation about the campaign contract *)
(* that its code does not keep.  Each is stated as a property of Campaign; *)
(* TLC finds a run of the contract that violates it.                       *)
(***************************************************************************)
EXTENDS MCCampaign

\* A campaign with a bonus goal, one whose fee can round down to nothing, one
\* with a cap on individual contributions.
ClaimConfigs  == {Config(2, 1, None, None, 3)}
SmallFee      == {Config(3, 1, None, 1, None)}
CappedConfigs == {Config(2, 1, 1, None, None)}

-----------------------------------------------------------------------------
\* emergency_stop.rs:30: "After stop, `refund_single` remains callable so
\* contributors are not permanently locked out of their funds".
RefundableAfterStop ==
  \A c \in Contributors :
    stopped /\ contribution[c] > 0 => ENABLED RefundSingle(c)

\* README.md:9: "If the goal is met, the creator withdraws the funds"; so a
\* succeeded, unpaid campaign that nobody paused or stopped can be withdrawn.
CreatorCanWithdraw ==
  status = "Succeeded" /\ token[Self] > 0 /\ ~paused => ENABLED Withdraw

\* lib.rs:869: "Cancel the campaign and refund all contributors"; so after
\* cancel everyone has back what they brought, collected pledges included.
CancelRefundsEveryone ==
  status = "Cancelled" /\ ~stopped =>
    \A c \in Contributors : token[c] = InitialWallet

\* lib.rs:285: MaxIndividualContribution is a "cap on the amount a single
\* contributor may contribute".
IndividualCapHolds ==
  config # None =>
    (config.max # None => \A c \in Contributors : contribution[c] <= config.max)
=============================================================================
