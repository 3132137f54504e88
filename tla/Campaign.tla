------------------------------ MODULE Campaign ------------------------------
(***************************************************************************)
(* One crowdfunding campaign contract (contracts/crowdfund/src/lib.rs) and *)
(* the token contract that holds its money.                                *)
(*                                                                         *)
(* A Soroban call is a transaction: a panic or a returned error undoes     *)
(* every write and every token transfer of the call, and the host forbids  *)
(* re-entry.  So each entry point is one action, its guard is the          *)
(* conjunction of everything that must not fail, and a rejected call is a  *)
(* stuttering step.  The actors are the signers: contributors, pledgers,   *)
(* the creator, the role holders, and anyone for the permissionless calls; *)
(* Next interleaves their transactions in any order.                       *)
(***************************************************************************)
EXTENDS Integers, Sequences, FiniteSets, Loops

CONSTANTS
  Contributors,       \* addresses that may contribute or pledge
  Creator,            \* the campaign creator
  Platform,           \* the fee recipient
  Self,               \* the address of the campaign contract itself
  Configs,            \* the parameter records initialize is called with
  Amounts,            \* the amounts contribute and pledge are called with
  InitialWallet,      \* tokens every contributor owns at the start
  MinDeadlineOffset,  \* MIN_DEADLINE_OFFSET: 60 seconds in the code
  BpsScale,           \* MAX_PLATFORM_FEE_BPS: 10_000 in the code
  MaxContributors,    \* MAX_CONTRIBUTORS: 128 in the code
  MaxNftMintBatch,    \* MAX_NFT_MINT_BATCH: 50 in the code
  MaxAmount,          \* i128::MAX: beyond it checked arithmetic aborts
  MaxTime,            \* bound on the ledger clock
  None                \* an absent Option

Accounts == Contributors \cup {Creator, Platform, Self}

RoleNames == {"DefaultAdmin", "Pauser"}

ASSUME CampaignAssumption ==
  /\ IsFiniteSet(Contributors)
  /\ Self \notin Contributors \cup {Creator, Platform}
  /\ Amounts \subseteq Int
  /\ InitialWallet \in Nat /\ MinDeadlineOffset \in Nat
  /\ BpsScale \in Nat \ {0} /\ MaxContributors \in Nat
  /\ MaxNftMintBatch \in Nat /\ MaxAmount \in Nat /\ MaxTime \in Nat
  /\ None \notin Int
  \* A configuration as initialize receives it; validation is Initialize's.
  /\ None \notin Configs
  /\ \A k \in Configs :
       /\ DOMAIN k = {"goal", "deadline", "min", "max", "feeBps", "bonus"}
       /\ k.goal \in Int /\ k.deadline \in Nat /\ k.min \in Int
       /\ k.max = None \/ k.max \in Int
       /\ k.feeBps = None \/ k.feeBps \in Nat
       /\ k.bonus = None \/ k.bonus \in Int

VARIABLES
  now,           \* the ledger timestamp
  config,        \* the parameters initialize stored; None before it
  status,        \* DataKey::Status; "Unset" before initialize
  contribution,  \* DataKey::Contribution(address)
  contributors,  \* DataKey::Contributors, in order of first contribution
  pledge,        \* DataKey::Pledge(address)
  pledgers,      \* DataKey::Pledgers
  totalRaised,   \* DataKey::TotalRaised
  totalPledged,  \* DataKey::TotalPledged
  bonusEmitted,  \* DataKey::BonusGoalReachedEmitted
  nftSet,        \* whether DataKey::NFTContract is set
  minted,        \* reward NFTs the NFT contract minted, per address
  paused,        \* DataKey::Paused
  stopped,       \* DataKey::EmergencyStopped
  roles,         \* which of the role keys hold an address
  token          \* balances kept by the token contract

ledgerVars == <<contribution, contributors, pledge, pledgers, totalRaised,
                totalPledged, bonusEmitted>>
switchVars == <<paused, stopped, roles>>
nftVars    == <<nftSet, minted>>
vars == <<now, config, status, ledgerVars, nftVars, switchVars, token>>

-----------------------------------------------------------------------------
(* Helpers shared by the entry points. *)

\* token::Client::transfer, once its balance check has passed.
Transfer(t, from, to, amount) ==
  [t EXCEPT ![from] = @ - amount, ![to] = @ + amount]

\* The addresses in a stored list.
Listed(list) == {list[i] : i \in 1..Len(list)}

\* Mutant: the capacity check lets the list grow one past the limit.
HasRoomOffByOne(list, c) == c \in Listed(list) \/ Len(list) <= MaxContributors

\* The capacity check made before a new address is appended.
HasRoom(list, c) == c \in Listed(list) \/ Len(list) < MaxContributors

\* Mutant: the address is appended though it is listed.
AppendAlways(list, c) == Append(list, c)

\* persist_address_stream_if_missing.
AppendIfMissing(list, c) == IF c \in Listed(list) THEN list ELSE Append(list, c)

\* validate_init_params, in its order of checks.
ValidConfig(k) ==
  /\ k.goal >= 1
  /\ k.min >= 1
  /\ k.deadline >= now + MinDeadlineOffset
  /\ k.feeBps # None => k.feeBps <= BpsScale
  /\ k.bonus # None => k.bonus > k.goal

\* Mutant: the total has to exceed the bonus goal.
CrossesBonusLate(before, after) ==
  config.bonus # None /\ before < config.bonus /\ after > config.bonus

\* Does raising the total from before to after cross the bonus goal?
CrossesBonus(before, after) ==
  config.bonus # None /\ before < config.bonus /\ after >= config.bonus

\* Mutant: the rate is divided before it is applied.
FeeDividedFirst(total) ==
  IF config.feeBps = None THEN 0 ELSE total * (config.feeBps \div BpsScale)

\* The platform's share of the total, rounded down.
Fee(total) ==
  IF config.feeBps = None THEN 0 ELSE (total * config.feeBps) \div BpsScale

\* Mutant: a pledger who cannot pay is skipped.
DuePledgesAffordable ==
  [c \in Contributors |->
     IF c \in Listed(pledgers) /\ token[c] >= pledge[c] THEN pledge[c] ELSE 0]

\* What the loop of collect_pledges takes from each address.
DuePledges ==
  [c \in Contributors |-> IF c \in Listed(pledgers) THEN pledge[c] ELSE 0]

\* What the loop of cancel pays back to each address.
DueRefunds ==
  [c \in Contributors |->
     IF c \in Listed(contributors) THEN contribution[c] ELSE 0]

\* mint_nfts_in_batch: the first MaxNftMintBatch listed addresses that still
\* have a contribution on record.
MintBatch ==
  IF ~nftSet THEN {}
  ELSE {contributors[i] : i \in
          {j \in 1..Len(contributors) :
             /\ contribution[contributors[j]] > 0
             /\ Cardinality({k \in 1..(j-1) : contribution[contributors[k]] > 0})
                  < MaxNftMintBatch}}

-----------------------------------------------------------------------------
(* Guards that several entry points start with. *)

NotStopped == ~stopped
NotPaused  == ~paused
DeadlinePassed == now > config.deadline

\* Mutants: refunds whenever the campaign is over; only once it is cancelled.
RefundOpenWhenOver == status # "Active"
RefundOpenWhenCancelled == status = "Cancelled"

\* validate_refund_preconditions looks at the status alone.
RefundOpen == status = "Expired"

\* Mutant: the creator need not wait for finalize.
WithdrawOpenEarly == status \in {"Active", "Succeeded"}

WithdrawOpen == status = "Succeeded"

-----------------------------------------------------------------------------
Init ==
  /\ now = 0
  /\ config = None /\ status = "Unset"
  /\ contribution = [c \in Contributors |-> 0] /\ contributors = <<>>
  /\ pledge = [c \in Contributors |-> 0] /\ pledgers = <<>>
  /\ totalRaised = 0 /\ totalPledged = 0 /\ bonusEmitted = FALSE
  /\ nftSet = FALSE /\ minted = [c \in Contributors |-> 0]
  /\ paused = FALSE /\ stopped = FALSE /\ roles = {}
  /\ token = [a \in Accounts |->
                IF a \in Contributors THEN InitialWallet ELSE 0]

\* initialize: once, with validated parameters.
Initialize(k) ==
  /\ config = None
  /\ ValidConfig(k)
  /\ config' = k
  /\ status' = "Active"
  /\ totalRaised' = 0 /\ bonusEmitted' = FALSE /\ contributors' = <<>>
  /\ UNCHANGED <<now, contribution, pledge, pledgers, totalPledged, nftVars,
                 switchVars, token>>

\* The role keys are written outside the contract's entry points (initialize
\* sets none of them; the repository's tests write the keys directly).
ProvisionRoles(R) ==
  /\ config # None /\ roles = {}
  /\ roles' = R
  /\ UNCHANGED <<now, config, status, ledgerVars, nftVars, paused, stopped,
                 token>>

\* What contribute demands, in the order in which it finds out.
ContributeOpen(c, amount) ==
  /\ NotStopped /\ NotPaused
  /\ status = "Active"
  /\ amount > 0 /\ amount >= config.min
  /\ ~DeadlinePassed
  /\ HasRoom(contributors, c)
  /\ token[c] >= amount
  /\ contribution[c] + amount <= MaxAmount
  /\ totalRaised + amount <= MaxAmount

\* contribute, signed by c.
Contribute(c, amount) ==
  /\ ContributeOpen(c, amount)
  /\ token' = Transfer(token, c, Self, amount)
  /\ contribution' = [contribution EXCEPT ![c] = @ + amount]
  /\ totalRaised' = totalRaised + amount
  /\ bonusEmitted' =
       (bonusEmitted \/ CrossesBonus(totalRaised, totalRaised + amount))
  /\ contributors' = AppendIfMissing(contributors, c)
  /\ UNCHANGED <<now, config, status, pledge, pledgers, totalPledged, nftVars,
                 switchVars>>

\* pledge, signed by c: a promise, no tokens move and the status is not read.
Pledge(c, amount) ==
  /\ config # None
  /\ amount >= config.min
  /\ ~DeadlinePassed
  /\ HasRoom(pledgers, c)
  /\ pledge[c] + amount <= MaxAmount
  /\ totalPledged + amount <= MaxAmount
  /\ pledge' = [pledge EXCEPT ![c] = @ + amount]
  /\ totalPledged' = totalPledged + amount
  /\ pledgers' = AppendIfMissing(pledgers, c)
  /\ UNCHANGED <<now, config, status, contribution, contributors, totalRaised,
                 bonusEmitted, nftVars, switchVars, token>>

\* collect_pledges: anyone, with the pledgers' signatures; one transfer that
\* fails undoes all of them.
CollectPledges ==
  LET due == DuePledges IN
  /\ status = "Active"
  /\ DeadlinePassed
  /\ totalRaised + totalPledged <= MaxAmount
  /\ totalRaised + totalPledged >= config.goal
  /\ \A c \in Contributors : token[c] >= due[c]
  /\ token' = [a \in Accounts |->
                 IF a = Self THEN token[a] + Sum(due, Contributors)
                 ELSE IF a \in Contributors THEN token[a] - due[a]
                 ELSE token[a]]
  /\ pledge' = [c \in Contributors |-> pledge[c] - due[c]]
  /\ totalRaised' = totalRaised + totalPledged
  /\ totalPledged' = 0
  /\ UNCHANGED <<now, config, status, contribution, contributors, pledgers,
                 bonusEmitted, nftVars, switchVars>>

\* How finalize decides.
Outcome == IF totalRaised >= config.goal THEN "Succeeded" ELSE "Expired"

\* Mutants: any status is finalized; a missed goal is an error.
FinalizeAnyStatus ==
  /\ config # None
  /\ DeadlinePassed
  /\ status' = Outcome
  /\ UNCHANGED <<now, config, ledgerVars, nftVars, switchVars, token>>
FinalizeOnGoal ==
  /\ status = "Active"
  /\ DeadlinePassed
  /\ totalRaised >= config.goal
  /\ status' = "Succeeded"
  /\ UNCHANGED <<now, config, ledgerVars, nftVars, switchVars, token>>

\* finalize: anyone, once the deadline has passed.
Finalize ==
  /\ status = "Active"
  /\ DeadlinePassed
  /\ status' = Outcome
  /\ UNCHANGED <<now, config, ledgerVars, nftVars, switchVars, token>>

\* withdraw, signed by the creator.  The two event helpers assert that a
\* configured fee and the payout are positive, and abort the call otherwise.
Withdraw ==
  LET fee    == Fee(totalRaised)
      payout == totalRaised - fee
      batch  == MintBatch
  IN
  /\ NotStopped /\ NotPaused
  /\ WithdrawOpen
  /\ config.feeBps # None => totalRaised * config.feeBps <= MaxAmount /\ fee > 0
  /\ payout > 0
  /\ token[Self] >= totalRaised
  /\ token' = Transfer(Transfer(token, Self, Platform, fee),
                       Self, Creator, payout)
  /\ minted' = [c \in Contributors |-> minted[c] + IF c \in batch THEN 1 ELSE 0]
  /\ totalRaised' = 0
  /\ UNCHANGED <<now, config, status, contribution, contributors, pledge,
                 pledgers, totalPledged, bonusEmitted, nftSet, switchVars>>

\* Mutant: the entry is not zeroed.
RefundSingleKeepsEntry(c) ==
  /\ RefundOpen
  /\ contribution[c] # 0
  /\ token[Self] >= contribution[c]
  /\ totalRaised' = totalRaised - contribution[c]
  /\ token' = Transfer(token, Self, c, contribution[c])
  /\ UNCHANGED <<now, config, status, contribution, contributors, pledge, pledgers,
                 totalPledged, bonusEmitted, nftVars, switchVars>>

\* refund_single, signed by c: the pull refund of an expired campaign.
RefundSingle(c) ==
  /\ RefundOpen
  /\ contribution[c] # 0
  /\ token[Self] >= contribution[c]
  /\ contribution' = [contribution EXCEPT ![c] = 0]
  /\ totalRaised' = totalRaised - contribution[c]
  /\ token' = Transfer(token, Self, c, contribution[c])
  /\ UNCHANGED <<now, config, status, contributors, pledge, pledgers,
                 totalPledged, bonusEmitted, nftVars, switchVars>>

\* cancel, signed by the creator: pushes a refund to every listed contributor.
Cancel ==
  LET due == DueRefunds IN
  /\ status = "Active"
  /\ token[Self] >= Sum(due, Contributors)
  /\ token' = [a \in Accounts |->
                 IF a = Self THEN token[a] - Sum(due, Contributors)
                 ELSE IF a \in Contributors THEN token[a] + due[a]
                 ELSE token[a]]
  /\ contribution' = [c \in Contributors |-> contribution[c] - due[c]]
  /\ totalRaised' = 0
  /\ status' = "Cancelled"
  /\ UNCHANGED <<now, config, contributors, pledge, pledgers, totalPledged,
                 bonusEmitted, nftVars, switchVars>>

\* set_nft_contract, signed by the creator, in any status.
SetNftContract ==
  /\ config # None
  /\ nftSet' = TRUE
  /\ UNCHANGED <<now, config, status, ledgerVars, minted, switchVars, token>>

\* pause, signed by the pauser or the default admin; both keys are read.
Pause ==
  /\ roles = RoleNames
  /\ paused' = TRUE
  /\ UNCHANGED <<now, config, status, ledgerVars, nftVars, stopped, roles,
                 token>>

\* unpause, signed by the default admin.
Unpause ==
  /\ "DefaultAdmin" \in roles
  /\ paused' = FALSE
  /\ UNCHANGED <<now, config, status, ledgerVars, nftVars, stopped, roles,
                 token>>

\* emergency_stop, signed by the default admin, from any status, once.
EmergencyStop ==
  /\ "DefaultAdmin" \in roles
  /\ ~stopped
  /\ stopped' = TRUE
  /\ status' = "Cancelled"
  /\ UNCHANGED <<now, config, ledgerVars, nftVars, paused, roles, token>>

\* The ledger clock advances.
Tick ==
  /\ now < MaxTime
  /\ now' = now + 1
  /\ UNCHANGED <<config, status, ledgerVars, nftVars, switchVars, token>>

Next ==
  \/ \E k \in Configs : Initialize(k)
  \/ \E R \in SUBSET RoleNames : ProvisionRoles(R)
  \/ \E c \in Contributors, amount \in Amounts : Contribute(c, amount)
  \/ \E c \in Contributors, amount \in Amounts : Pledge(c, amount)
  \/ CollectPledges
  \/ Finalize
  \/ Withdraw
  \/ \E c \in Contributors : RefundSingle(c)
  \/ Cancel
  \/ SetNftContract
  \/ Pause
  \/ Unpause
  \/ EmergencyStop
  \/ Tick

Spec == Init /\ [][Next]_vars

(***************************************************************************)
(* Fairness.  The contract has no scheduler: a step happens when somebody  *)
(* submits the transaction.  FairSpec supposes an interested party who     *)
(* keeps trying: time passes, someone calls the permissionless finalize    *)
(* after the deadline, a contributor who is owed money calls               *)
(* refund_single, and the creator of a funded campaign calls withdraw.     *)
(* Nothing is assumed of pledgers' signatures, cancel or the role holders. *)
(***************************************************************************)
FairSpec ==
  /\ Spec
  /\ WF_vars(Tick)
  /\ WF_vars(Finalize)
  /\ WF_vars(Withdraw)
  /\ \A c \in Contributors : WF_vars(RefundSingle(c))

-----------------------------------------------------------------------------
(* State invariants. *)

StatusValues == {"Unset", "Active", "Succeeded", "Expired", "Cancelled"}

\* The type of every stored entry: amounts stay natural numbers no larger
\* than i128::MAX, and the two address lists stay within MAX_CONTRIBUTORS.
TypeOK ==
  /\ now \in Nat
  /\ config \in Configs \cup {None}
  /\ status \in StatusValues
  /\ contribution \in [Contributors -> 0..MaxAmount]
  /\ contributors \in Seq(Contributors) /\ Len(contributors) <= MaxContributors
  /\ pledge \in [Contributors -> 0..MaxAmount]
  /\ pledgers \in Seq(Contributors) /\ Len(pledgers) <= MaxContributors
  /\ totalRaised \in 0..MaxAmount /\ totalPledged \in 0..MaxAmount
  /\ bonusEmitted \in BOOLEAN /\ nftSet \in BOOLEAN
  /\ minted \in [Contributors -> Nat]
  /\ paused \in BOOLEAN /\ stopped \in BOOLEAN /\ roles \subseteq RoleNames
  /\ token \in [Accounts -> Nat]

\* Until a campaign is cancelled, TotalRaised is exactly the contract's token
\* balance: contribute, collect_pledges, withdraw and refund_single, each of
\* which updates the two separately, never let them drift apart.
BooksBalance == status # "Cancelled" => token[Self] = totalRaised

\* TotalPledged is the sum of the pledges on record, so collect_pledges adds
\* to TotalRaised exactly what its transfers bring in.
PledgeBooks == totalPledged = Sum(pledge, Contributors)

\* In an expired campaign what contributors can still claim by refund_single
\* is exactly what the contract holds: every claim can be paid, in any order.
RefundsCovered ==
  status = "Expired" => Sum(contribution, Contributors) = token[Self]

\* The loops of cancel, collect_pledges and withdraw visit stored lists: each
\* address is listed once, and everyone with an entry is listed.
ListsComplete ==
  /\ \A i, j \in 1..Len(contributors) : contributors[i] = contributors[j] => i = j
  /\ \A i, j \in 1..Len(pledgers) : pledgers[i] = pledgers[j] => i = j
  /\ \A c \in Contributors :
       /\ contribution[c] > 0 => c \in Listed(contributors)
       /\ pledge[c] > 0 => c \in Listed(pledgers)

\* cancel leaves no contribution on record behind (unless the emergency stop
\* set the status).
CancelRefundsAll ==
  status = "Cancelled" /\ ~stopped => \A c \in Contributors : contribution[c] = 0

\* Nobody is refunded twice or refunded out of another's money: what an
\* address holds and may still claim never exceeds what it brought; and in an
\* expired campaign it is exactly that, so no pledge was ever collected.
WalletsWhole ==
  \A c \in Contributors \ {Creator, Platform} :
    /\ token[c] + contribution[c] <= InitialWallet
    /\ status = "Expired" => token[c] + contribution[c] = InitialWallet

\* The outcome finalize recorded stays consistent with the books: a succeeded
\* campaign holds at least its goal or has been paid out in full, an expired
\* one is below its goal.
OutcomeMatchesGoal ==
  /\ status = "Succeeded" => totalRaised >= config.goal \/ token[Self] = 0
  /\ status = "Expired" => totalRaised < config.goal

\* No address is minted two reward NFTs, and rewards exist only once the
\* creator has been paid (the only thing that stops a second withdraw is the
\* assertion that its payout is positive).
MintedAtMostOnce ==
  \A c \in Contributors :
    /\ minted[c] <= 1
    /\ minted[c] = 1 => contribution[c] > 0 /\ totalRaised = 0

\* Until the deadline the bonus event has been emitted exactly when the total
\* has reached the bonus goal.
BonusEventExact ==
  status = "Active" /\ ~DeadlinePassed /\ config.bonus # None =>
    (bonusEmitted <=> totalRaised >= config.bonus)

-----------------------------------------------------------------------------
(* What makes the invariants above inductive. *)

\* Before initialize nothing is stored; afterwards the status is set, and so is
\* a positive minimum for contributions and pledges.
BlankUntilInitialized ==
  IF config = None
  THEN /\ status = "Unset" /\ roles = {} /\ ~stopped
       /\ totalRaised = 0 /\ totalPledged = 0
       /\ \A c \in Contributors : contribution[c] = 0
  ELSE status # "Unset" /\ config.min >= 1

\* As long as refunds are possible or may become so, either nothing but the
\* contributions on record ever came in, or collect_pledges has funded the
\* campaign, in which case finalize can no longer declare it expired.
OwedOrFunded ==
  status \in {"Unset", "Active", "Expired"} =>
    \/ /\ Sum(contribution, Contributors) = totalRaised
       /\ \A c \in Contributors \ {Creator, Platform} :
            token[c] + contribution[c] = InitialWallet
    \/ status = "Active" /\ DeadlinePassed /\ totalRaised >= config.goal

\* No call leads out of Cancelled once the contract is stopped.
StopIsFinal == stopped => status = "Cancelled"

\* Rewards exist only where no contribution can change any more.
RewardsAfterOutcome ==
  \A c \in Contributors : minted[c] > 0 => status \in {"Succeeded", "Cancelled"}

\* The inductive invariant.
IndInv ==
  /\ TypeOK
  /\ BlankUntilInitialized
  /\ BooksBalance
  /\ PledgeBooks
  /\ ListsComplete
  /\ OwedOrFunded
  /\ StopIsFinal
  /\ CancelRefundsAll
  /\ WalletsWhole
  /\ OutcomeMatchesGoal
  /\ RewardsAfterOutcome
  /\ MintedAtMostOnce
  /\ BonusEventExact

-----------------------------------------------------------------------------
(* Action properties. *)

\* The status follows the edges documented at enum Status, the emergency stop
\* being the only other way to Cancelled; finalize acts after the deadline.
StatusEdges ==
  status' # status =>
    \/ status = "Unset" /\ status' = "Active"
    \/ status = "Active" /\ status' \in {"Succeeded", "Expired"} /\ DeadlinePassed
    \/ status = "Active" /\ status' = "Cancelled"
    \/ stopped' /\ ~stopped /\ status' = "Cancelled"
StatusTransitions == [][StatusEdges]_vars

\* After the emergency stop no call moves a token again, in or out: the stop
\* flag alone guards only contribute and withdraw, the status does the rest.
StoppedFreezesTokens == [][stopped => token' = token]_vars

\* collect_pledges takes every pledge in full or none, and the contract
\* receives exactly what was pledged.
CollectsAll ==
  totalPledged' < totalPledged =>
    /\ \A c \in Contributors : pledge'[c] = 0 /\ token'[c] = token[c] - pledge[c]
    /\ token'[Self] = token[Self] + totalPledged
CollectAllOrNothing == [][CollectsAll]_vars

\* Tokens leave the contract in two ways only: a succeeded campaign pays its
\* whole total to creator and platform, the platform getting no more than its
\* basis points; or a contributor gets back exactly what it had on record,
\* from a campaign that is cancelled before payout or has expired.
Gains(a) == token'[a] - token[a]
PaidOut ==
  /\ status = "Succeeded"
  /\ token'[Self] = token[Self] - totalRaised
  /\ \A c \in Accounts \ {Self, Creator, Platform} : Gains(c) = 0
  /\ Platform # Creator => Gains(Platform) * BpsScale
                             <= totalRaised * (IF config.feeBps = None THEN 0 ELSE config.feeBps)
Refunded ==
  /\ status \in {"Active", "Expired"} /\ status' \in {"Cancelled", "Expired"}
  /\ \A a \in Accounts \ {Self} :
       Gains(a) # 0 => /\ a \in Contributors
                       /\ Gains(a) = contribution[a] /\ contribution'[a] = 0
OutflowsAuthorised == [][token'[Self] < token[Self] => PaidOut \/ Refunded]_vars

-----------------------------------------------------------------------------
(* Liveness, under FairSpec. *)

\* An initialized campaign does not stay Active for ever.
EventuallyDecided == (config # None) ~> (status # "Active")

\* A contributor of an expired campaign who keeps asking gets the money back;
\* only the emergency stop can prevent it.
RefundsArrive ==
  \A c \in Contributors :
    (status = "Expired") ~> (contribution[c] = 0 \/ stopped)

\* The creator of a succeeded campaign is eventually paid, unless the role
\* holders pause or stop the contract.
CreatorPaid ==
  (status = "Succeeded") ~> (token[Self] = 0 \/ paused \/ stopped)
-----------------------------------------------------------------------------
(* The promise the campaign keeps: Escrow, with the status as the phase, the *)
(* contract's token balance as the vault and the entries as the claims.      *)

EscrowPhase ==
  CASE status \in {"Unset", "Active"} -> "open"
    [] status = "Succeeded" -> "paying"
    [] status = "Expired" -> "refunding"
    [] status = "Cancelled" -> "closed"

E == INSTANCE Escrow WITH Depositors <- Contributors, Limit <- MaxAmount,
                          phase <- EscrowPhase, vault <- token[Self],
                          claim <- contribution

\* Every step of the contract is a step of the escrow or changes nothing of it.
KeepsEscrow == E!Spec
=============================================================================
