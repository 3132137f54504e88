--------------------------- MODULE CampaignProofs ---------------------------
(***************************************************************************)
(* Proofs about Campaign, for any number of contributors, any parameters   *)
(* and any bounds that satisfy CampaignAssumption.  One inductive          *)
(* invariant, IndInv, carries all of the state invariants; the lemma of    *)
(* each action shows that the action keeps it.                             *)
(***************************************************************************)
EXTENDS Campaign, LoopProofs

-----------------------------------------------------------------------------
(* The helpers. *)

\* A transfer moves the amount between two distinct accounts, touches no
\* other, and leaves natural balances if the sender can afford it.
LEMMA TransferType ==
  ASSUME NEW t \in [Accounts -> Nat], NEW from \in Accounts, NEW to \in Accounts,
         NEW amount \in Nat, from # to, t[from] >= amount
  PROVE  /\ Transfer(t, from, to, amount) \in [Accounts -> Nat]
         /\ \A a \in Accounts : Transfer(t, from, to, amount)[a] =
              IF a = from THEN t[a] - amount
              ELSE IF a = to THEN t[a] + amount ELSE t[a]
BY DEF Transfer

\* Appending an address that is missing keeps the list free of duplicates and
\* within the capacity that was checked, and lists exactly one address more.
LEMMA AppendIfMissingType ==
  ASSUME NEW list \in Seq(Contributors), NEW c \in Contributors,
         HasRoom(list, c), Len(list) <= MaxContributors,
         \A i, j \in 1..Len(list) : list[i] = list[j] => i = j
  PROVE  LET new == AppendIfMissing(list, c) IN
         /\ new \in Seq(Contributors) /\ Len(new) <= MaxContributors
         /\ \A i, j \in 1..Len(new) : new[i] = new[j] => i = j
         /\ Listed(new) = Listed(list) \cup {c}
<1>1. CASE c \in Listed(list)
  BY <1>1 DEF AppendIfMissing, Listed
<1>2. CASE c \notin Listed(list)
  <2>1. /\ AppendIfMissing(list, c) = Append(list, c)
        /\ Len(Append(list, c)) = Len(list) + 1
        /\ \A i \in 1..Len(list) : Append(list, c)[i] = list[i]
        /\ Append(list, c)[Len(list) + 1] = c
        /\ Append(list, c) \in Seq(Contributors)
    BY <1>2 DEF AppendIfMissing
  <2>2. \A i \in 1..Len(list) : list[i] # c
    BY <1>2 DEF Listed
  <2>3. Len(list) + 1 <= MaxContributors
    BY <1>2, CampaignAssumption DEF HasRoom
  <2>4. Listed(Append(list, c)) = Listed(list) \cup {c}
    BY <2>1 DEF Listed
  <2> QED
    BY <2>1, <2>2, <2>3, <2>4
<1> QED
  BY <1>1, <1>2

\* The contract, the creator and the platform are accounts, and the contract
\* is none of the parties it pays.
LEMMA AccountFacts ==
  /\ Self \in Accounts /\ Creator \in Accounts /\ Platform \in Accounts
  /\ Contributors \subseteq Accounts
  /\ Self \notin Contributors /\ Self # Creator /\ Self # Platform
  /\ IsFiniteSet(Contributors)
BY CampaignAssumption DEF Accounts

\* The numeric bounds are natural numbers.
LEMMA BoundFacts ==
  /\ InitialWallet \in Nat /\ MaxContributors \in Nat /\ MaxAmount \in Nat
  /\ MaxTime \in Nat /\ MaxNftMintBatch \in Nat
  /\ BpsScale \in Nat /\ BpsScale > 0 /\ MinDeadlineOffset \in Nat
BY CampaignAssumption

\* What an initialized configuration holds.
LEMMA ConfigFacts ==
  ASSUME NEW k \in Configs
  PROVE  /\ k # None
         /\ k.goal \in Int /\ k.deadline \in Nat /\ k.min \in Int
         /\ k.feeBps # None => k.feeBps \in Nat
         /\ k.bonus # None => k.bonus \in Int
BY CampaignAssumption

-----------------------------------------------------------------------------
(* The initial state. *)

\* Everything is zero, so every invariant holds.
LEMMA InitIndInv == Init => IndInv
<1> SUFFICES ASSUME Init PROVE IndInv
  OBVIOUS
<1> USE DEF Init
<1>1. TypeOK
  <2>1. token \in [Accounts -> Nat]
    BY BoundFacts
  <2>2. /\ contribution \in [Contributors -> 0..MaxAmount]
        /\ pledge \in [Contributors -> 0..MaxAmount]
        /\ minted \in [Contributors -> Nat]
    BY BoundFacts
  <2>3. /\ contributors \in Seq(Contributors) /\ Len(contributors) <= MaxContributors
        /\ pledgers \in Seq(Contributors) /\ Len(pledgers) <= MaxContributors
    BY BoundFacts
  <2>4. totalRaised \in 0..MaxAmount /\ totalPledged \in 0..MaxAmount /\ now \in Nat
    BY BoundFacts
  <2>5. /\ config \in Configs \cup {None} /\ status \in StatusValues
        /\ bonusEmitted \in BOOLEAN /\ nftSet \in BOOLEAN
        /\ paused \in BOOLEAN /\ stopped \in BOOLEAN /\ roles \subseteq RoleNames
    BY DEF StatusValues
  <2> QED
    BY <2>1, <2>2, <2>3, <2>4, <2>5, Zenon DEF TypeOK
<1>2. Sum(contribution, Contributors) = 0 /\ Sum(pledge, Contributors) = 0
  BY SumZero, AccountFacts
<1>3. token[Self] = 0 /\ \A c \in Contributors : token[c] = InitialWallet
  BY AccountFacts
<1>4. /\ BlankUntilInitialized /\ BooksBalance /\ PledgeBooks /\ OwedOrFunded
      /\ StopIsFinal /\ CancelRefundsAll
  BY <1>2, <1>3, CampaignAssumption
     DEF BlankUntilInitialized, BooksBalance, PledgeBooks, OwedOrFunded,
         StopIsFinal, CancelRefundsAll
<1>5. ListsComplete
  BY DEF ListsComplete
<1>6. WalletsWhole /\ OutcomeMatchesGoal /\ RewardsAfterOutcome /\ BonusEventExact
  BY <1>3, CampaignAssumption
     DEF WalletsWhole, OutcomeMatchesGoal, RewardsAfterOutcome, BonusEventExact
<1>7. MintedAtMostOnce
  BY DEF MintedAtMostOnce
<1> QED
  BY <1>1, <1>4, <1>5, <1>6, <1>7 DEF IndInv

-----------------------------------------------------------------------------
(* The actions. *)

\* The transfer contribute makes.
LEMMA ContributeEffect ==
  ASSUME IndInv, NEW c \in Contributors, NEW amount \in Amounts, Contribute(c, amount)
  PROVE  /\ token' \in [Accounts -> Nat]
         /\ \A a \in Accounts : token'[a] =
              IF a = c THEN token[a] - amount
              ELSE IF a = Self THEN token[a] + amount ELSE token[a]
<1>1. /\ token \in [Accounts -> Nat] /\ token[c] >= amount
      /\ c \in Accounts /\ Self \in Accounts /\ c # Self
      /\ token' = Transfer(token, c, Self, amount)
  BY AccountFacts DEF Contribute, ContributeOpen, IndInv, TypeOK
<1>2. amount \in Nat
  BY CampaignAssumption DEF Contribute, ContributeOpen
<1> QED
  BY <1>1, <1>2, TransferType

\* contribute moves the same amount into the balance, the contributor's entry
\* and the total.
LEMMA ContributeKeeps ==
  ASSUME IndInv, NEW c \in Contributors, NEW amount \in Amounts, Contribute(c, amount)
  PROVE  IndInv'
<1>1. /\ amount \in Nat /\ amount > 0
      /\ status = "Active" /\ status' = "Active" /\ now' = now /\ config' = config
      /\ config \in Configs /\ ~stopped /\ stopped' = stopped
      /\ now \in Nat /\ now <= config.deadline /\ ~DeadlinePassed /\ ~DeadlinePassed'
  <2>1. amount \in Int /\ amount > 0
    BY CampaignAssumption DEF Contribute, ContributeOpen
  <2>2. config \in Configs /\ now \in Nat
    BY DEF IndInv, TypeOK, BlankUntilInitialized, Contribute, ContributeOpen
  <2> QED
    BY <2>1, <2>2, ConfigFacts DEF Contribute, ContributeOpen, NotStopped, DeadlinePassed, switchVars
<1>2. /\ token' \in [Accounts -> Nat]
      /\ \A a \in Accounts : token'[a] =
           IF a = c THEN token[a] - amount
           ELSE IF a = Self THEN token[a] + amount ELSE token[a]
  BY ContributeEffect
<1>3. /\ contribution' \in [Contributors -> 0..MaxAmount]
      /\ contribution'[c] = contribution[c] + amount
      /\ \A d \in Contributors : d # c => contribution'[d] = contribution[d]
  BY <1>1, BoundFacts DEF Contribute, ContributeOpen, IndInv, TypeOK
<1>4. Sum(contribution', Contributors) = Sum(contribution, Contributors) + amount
  <2>1. \A d \in Contributors : /\ contribution[d] \in Int /\ contribution'[d] \in Int
                                /\ d # c => contribution'[d] = contribution[d]
    BY <1>3 DEF IndInv, TypeOK
  <2>2. Sum(contribution', Contributors)
          = Sum(contribution, Contributors) + contribution'[c] - contribution[c]
    BY <2>1, SumUpdate, AccountFacts
  <2>3. Sum(contribution, Contributors) \in Int
    BY <2>1, SumType, AccountFacts
  <2> QED
    BY <1>1, <1>3, <2>1, <2>2, <2>3
<1>5. /\ totalRaised' = totalRaised + amount /\ totalRaised' \in 0..MaxAmount
      /\ totalRaised \in 0..MaxAmount
  BY <1>1, BoundFacts DEF Contribute, ContributeOpen, IndInv, TypeOK
<1>6. /\ contributors' \in Seq(Contributors) /\ Len(contributors') <= MaxContributors
      /\ \A i, j \in 1..Len(contributors') : contributors'[i] = contributors'[j] => i = j
      /\ Listed(contributors') = Listed(contributors) \cup {c}
  BY AppendIfMissingType DEF Contribute, ContributeOpen, IndInv, TypeOK, ListsComplete
<1>7. TypeOK'
  <2>1. bonusEmitted' \in BOOLEAN
    BY DEF Contribute, ContributeOpen
  <2> QED
    BY <1>1, <1>2, <1>3, <1>5, <1>6, <2>1
       DEF Contribute, ContributeOpen, IndInv, TypeOK, switchVars, nftVars, StatusValues
<1>8. BlankUntilInitialized'
  BY <1>1, ConfigFacts DEF IndInv, BlankUntilInitialized
<1>9. BooksBalance'
  BY <1>1, <1>2, <1>5, AccountFacts DEF BooksBalance, IndInv, TypeOK
<1>10. PledgeBooks' /\ StopIsFinal' /\ CancelRefundsAll'
  BY <1>1 DEF PledgeBooks, StopIsFinal, CancelRefundsAll, IndInv, Contribute, ContributeOpen
<1>11. ListsComplete'
  BY <1>3, <1>6 DEF ListsComplete, IndInv, Contribute, ContributeOpen
<1>12. OwedOrFunded' /\ WalletsWhole'
  <2>1. \A d \in Contributors : token'[d] + contribution'[d] = token[d] + contribution[d]
    <3>1. \A d \in Contributors : token[d] \in Nat /\ contribution[d] \in Nat
      BY AccountFacts, BoundFacts DEF IndInv, TypeOK
    <3>2. \A d \in Contributors : token'[d] = IF d = c THEN token[d] - amount ELSE token[d]
      BY <1>2, AccountFacts
    <3> QED
      BY <1>1, <1>3, <3>1, <3>2
  <2>2. /\ Sum(contribution, Contributors) = totalRaised
        /\ \A d \in Contributors \ {Creator, Platform} :
             token[d] + contribution[d] = InitialWallet
    BY <1>1 DEF IndInv, OwedOrFunded
  <2> QED
    BY <1>1, <1>4, <1>5, <2>1, <2>2 DEF IndInv, OwedOrFunded, WalletsWhole
<1>13. OutcomeMatchesGoal' /\ RewardsAfterOutcome' /\ MintedAtMostOnce'
  <2>1. \A d \in Contributors : minted'[d] = minted[d] /\ minted[d] \in Nat /\ ~(minted[d] > 0)
    BY <1>1 DEF IndInv, TypeOK, RewardsAfterOutcome, Contribute, ContributeOpen, nftVars
  <2> QED
    BY <1>1, <2>1 DEF OutcomeMatchesGoal, RewardsAfterOutcome, MintedAtMostOnce
<1>14. BonusEventExact'
  <2>1. config.bonus # None => config.bonus \in Int
    BY <1>1, ConfigFacts
  <2>2. bonusEmitted' = (bonusEmitted \/ CrossesBonus(totalRaised, totalRaised'))
    BY <1>5 DEF Contribute, ContributeOpen
  <2>3. config.bonus # None => (bonusEmitted <=> totalRaised >= config.bonus)
    BY <1>1 DEF IndInv, BonusEventExact
  <2>4. config.bonus # None =>
          (CrossesBonus(totalRaised, totalRaised')
             <=> totalRaised < config.bonus /\ totalRaised' >= config.bonus)
    BY DEF CrossesBonus
  <2>5. config.bonus # None => (bonusEmitted' <=> totalRaised' >= config.bonus)
    <3>1. config.bonus # None =>
            /\ totalRaised >= config.bonus => totalRaised' >= config.bonus
            /\ ~(totalRaised < config.bonus) => totalRaised >= config.bonus
      BY <1>1, <1>5, <2>1, BoundFacts
    <3> QED
      BY <2>2, <2>3, <2>4, <3>1, Zenon
  <2> QED
    BY <1>1, <2>5 DEF BonusEventExact
<1> QED
  BY <1>7, <1>8, <1>9, <1>10, <1>11, <1>12, <1>13, <1>14 DEF IndInv

\* Calls that leave the ledgers, the tokens and the status alone, and the
\* passing of time, keep the invariant.
LEMMA QuietKeeps ==
  ASSUME IndInv, TypeOK',
         UNCHANGED <<config, status, ledgerVars, minted, stopped, token>>,
         now' >= now, roles' = roles \/ config # None
  PROVE  IndInv'
<1>1. /\ config' = config /\ status' = status /\ contribution' = contribution
      /\ contributors' = contributors /\ pledge' = pledge /\ pledgers' = pledgers
      /\ totalRaised' = totalRaised /\ totalPledged' = totalPledged
      /\ minted' = minted /\ token' = token
      /\ stopped' = stopped /\ bonusEmitted' = bonusEmitted
  BY DEF ledgerVars
<1>2. status # "Unset" /\ DeadlinePassed => DeadlinePassed'
  BY <1>1, ConfigFacts DEF IndInv, TypeOK, BlankUntilInitialized, DeadlinePassed
<1>3. BlankUntilInitialized'
  BY <1>1 DEF IndInv, BlankUntilInitialized
<1>4. OwedOrFunded'
  BY <1>1, <1>2 DEF IndInv, OwedOrFunded
<1>5. BonusEventExact'
  BY <1>1, <1>2 DEF IndInv, BonusEventExact
<1>6. ListsComplete' /\ PledgeBooks'
  BY <1>1 DEF IndInv, ListsComplete, PledgeBooks
<1>7. BooksBalance' /\ StopIsFinal' /\ CancelRefundsAll' /\ WalletsWhole'
  BY <1>1 DEF IndInv, BooksBalance, StopIsFinal, CancelRefundsAll, WalletsWhole
<1>8. OutcomeMatchesGoal' /\ RewardsAfterOutcome' /\ MintedAtMostOnce'
  BY <1>1 DEF IndInv, OutcomeMatchesGoal, RewardsAfterOutcome, MintedAtMostOnce
<1> QED
  BY <1>3, <1>4, <1>5, <1>6, <1>7, <1>8 DEF IndInv

\* The role keys, the pause switch, the NFT contract, the clock, and a step
\* that changes nothing.
LEMMA QuietActionsKeep ==
  ASSUME IndInv,
         \/ \E R \in SUBSET RoleNames : ProvisionRoles(R)
         \/ SetNftContract \/ Pause \/ Unpause \/ Tick \/ UNCHANGED vars
  PROVE  IndInv'
<1>1. UNCHANGED <<config, status, ledgerVars, minted, stopped, token>>
  BY DEF ProvisionRoles, SetNftContract, Pause, Unpause, Tick, vars, nftVars, switchVars
<1>2. now \in Nat /\ now' \in Nat /\ now' >= now
  BY DEF ProvisionRoles, SetNftContract, Pause, Unpause, Tick, vars, IndInv, TypeOK
<1>3. (roles' = roles \/ config # None) /\ roles' \subseteq RoleNames
  BY DEF ProvisionRoles, SetNftContract, Pause, Unpause, Tick, vars, switchVars,
         IndInv, TypeOK
<1>4. nftSet' \in BOOLEAN /\ paused' \in BOOLEAN
  BY Zenon DEF ProvisionRoles, SetNftContract, Pause, Unpause, Tick, vars, switchVars,
         nftVars, IndInv, TypeOK
<1>5. TypeOK'
  BY <1>1, <1>2, <1>3, <1>4 DEF IndInv, TypeOK, ledgerVars
<1> QED
  BY <1>1, <1>2, <1>3, <1>5, QuietKeeps

\* The emergency stop closes every status for good.
LEMMA EmergencyStopKeeps ==
  ASSUME IndInv, EmergencyStop
  PROVE  IndInv'
<1>1. /\ config' = config /\ contribution' = contribution /\ now' = now
      /\ contributors' = contributors /\ pledge' = pledge /\ pledgers' = pledgers
      /\ totalRaised' = totalRaised /\ totalPledged' = totalPledged
      /\ minted' = minted /\ nftSet' = nftSet /\ token' = token /\ roles' = roles
      /\ paused' = paused /\ bonusEmitted' = bonusEmitted
      /\ status' = "Cancelled" /\ stopped' = TRUE
  BY DEF EmergencyStop, ledgerVars, nftVars
<1>2. TypeOK'
  BY <1>1 DEF IndInv, TypeOK, StatusValues
<1>3. config # None
  BY DEF IndInv, BlankUntilInitialized, EmergencyStop
<1>4. /\ BlankUntilInitialized' /\ BooksBalance' /\ OwedOrFunded' /\ StopIsFinal'
      /\ CancelRefundsAll' /\ OutcomeMatchesGoal' /\ RewardsAfterOutcome' /\ BonusEventExact'
  BY <1>1, <1>3
     DEF IndInv, BlankUntilInitialized, BooksBalance, OwedOrFunded, StopIsFinal, CancelRefundsAll,
         OutcomeMatchesGoal, RewardsAfterOutcome, BonusEventExact
<1>5. PledgeBooks' /\ ListsComplete' /\ WalletsWhole' /\ MintedAtMostOnce'
  BY <1>1 DEF IndInv, PledgeBooks, ListsComplete, WalletsWhole, MintedAtMostOnce
<1> QED
  BY <1>2, <1>4, <1>5 DEF IndInv

\* initialize turns a blank contract into an active campaign without money.
LEMMA InitializeKeeps ==
  ASSUME IndInv, NEW k \in Configs, Initialize(k)
  PROVE  IndInv'
<1>1. /\ config = None /\ config' = k /\ status' = "Active" /\ now' = now
      /\ totalRaised' = 0 /\ contributors' = <<>> /\ bonusEmitted' = FALSE
      /\ contribution' = contribution /\ pledge' = pledge /\ pledgers' = pledgers
      /\ totalPledged' = totalPledged /\ token' = token /\ minted' = minted
      /\ nftSet' = nftSet /\ stopped' = stopped /\ roles' = roles /\ paused' = paused
  BY DEF Initialize, nftVars, switchVars
<1>2. /\ ~stopped /\ totalRaised = 0 /\ status = "Unset"
      /\ \A c \in Contributors : contribution[c] = 0
  BY <1>1 DEF IndInv, BlankUntilInitialized
<1>3. /\ Sum(contribution, Contributors) = 0 /\ token[Self] = 0
      /\ \A c \in Contributors \ {Creator, Platform} :
           token[c] + contribution[c] = InitialWallet
  BY <1>2 DEF IndInv, OwedOrFunded, BooksBalance
<1>4. TypeOK'
  <2>1. contributors' \in Seq(Contributors) /\ Len(contributors') <= MaxContributors
    BY <1>1, BoundFacts
  <2>2. totalRaised' \in 0..MaxAmount /\ status' \in StatusValues
    BY <1>1, BoundFacts DEF StatusValues
  <2> QED
    BY <1>1, <2>1, <2>2 DEF IndInv, TypeOK
<1>5. BlankUntilInitialized'
  BY <1>1, ConfigFacts DEF BlankUntilInitialized, Initialize, ValidConfig
<1>6. BooksBalance' /\ PledgeBooks' /\ OwedOrFunded' /\ StopIsFinal' /\ CancelRefundsAll'
  BY <1>1, <1>2, <1>3
     DEF IndInv, BooksBalance, PledgeBooks, OwedOrFunded, StopIsFinal, CancelRefundsAll
<1>7. ListsComplete'
  BY <1>1, <1>2 DEF IndInv, ListsComplete
<1>8. WalletsWhole' /\ OutcomeMatchesGoal' /\ RewardsAfterOutcome' /\ MintedAtMostOnce'
  BY <1>1, <1>2
     DEF IndInv, WalletsWhole, OutcomeMatchesGoal, RewardsAfterOutcome, MintedAtMostOnce
<1>9. BonusEventExact'
  <2>1. k.bonus # None => k.bonus \in Int /\ k.bonus > k.goal /\ k.goal >= 1 /\ k.goal \in Int
    BY ConfigFacts DEF Initialize, ValidConfig
  <2>2. k.bonus # None => ~(0 >= k.bonus)
    BY <2>1
  <2> QED
    BY <1>1, <2>2 DEF BonusEventExact
<1> QED
  BY <1>4, <1>5, <1>6, <1>7, <1>8, <1>9 DEF IndInv

\* finalize can declare the campaign expired only if nothing was collected.
LEMMA FinalizeKeeps ==
  ASSUME IndInv, Finalize
  PROVE  IndInv'
<1>1. /\ status = "Active" /\ config' = config /\ now' = now
      /\ totalRaised' = totalRaised /\ contributors' = contributors
      /\ bonusEmitted' = bonusEmitted /\ contribution' = contribution
      /\ pledge' = pledge /\ pledgers' = pledgers /\ totalPledged' = totalPledged
      /\ token' = token /\ minted' = minted /\ nftSet' = nftSet
      /\ stopped' = stopped /\ roles' = roles /\ paused' = paused
  BY DEF Finalize, Outcome, ledgerVars, nftVars, switchVars
<1>2. /\ config # None /\ config.goal \in Int /\ ~stopped
      /\ totalRaised \in Int /\ token[Self] = totalRaised
  BY <1>1, ConfigFacts, BoundFacts
     DEF IndInv, TypeOK, BlankUntilInitialized, StopIsFinal, BooksBalance
<1>3. \/ status' = "Succeeded" /\ totalRaised >= config.goal
      \/ status' = "Expired" /\ ~(totalRaised >= config.goal)
  BY DEF Finalize, Outcome
<1>4. TypeOK'
  BY <1>1, <1>3 DEF IndInv, TypeOK, StatusValues
<1>5. BlankUntilInitialized' /\ BooksBalance' /\ StopIsFinal' /\ CancelRefundsAll'
  BY <1>1, <1>2, <1>3
     DEF IndInv, BlankUntilInitialized, BooksBalance, StopIsFinal, CancelRefundsAll
<1>6. PledgeBooks' /\ ListsComplete' /\ MintedAtMostOnce'
  BY <1>1 DEF IndInv, PledgeBooks, ListsComplete, MintedAtMostOnce
<1>7. OwedOrFunded' /\ WalletsWhole'
  BY <1>1, <1>3 DEF IndInv, OwedOrFunded, WalletsWhole
<1>8. OutcomeMatchesGoal' /\ BonusEventExact'
  BY <1>1, <1>2, <1>3 DEF OutcomeMatchesGoal, BonusEventExact
<1>9. RewardsAfterOutcome'
  BY <1>1 DEF IndInv, RewardsAfterOutcome
<1> QED
  BY <1>4, <1>5, <1>6, <1>7, <1>8, <1>9 DEF IndInv

\* pledge raises the pledger's entry and TotalPledged by the same amount.
LEMMA PledgeKeeps ==
  ASSUME IndInv, NEW c \in Contributors, NEW amount \in Amounts, Pledge(c, amount)
  PROVE  IndInv'
<1>1. /\ config # None /\ config' = config /\ now' = now /\ status' = status
      /\ totalRaised' = totalRaised /\ contributors' = contributors
      /\ bonusEmitted' = bonusEmitted /\ contribution' = contribution
      /\ totalPledged' = totalPledged + amount
      /\ token' = token /\ minted' = minted /\ nftSet' = nftSet
      /\ stopped' = stopped /\ roles' = roles /\ paused' = paused
  BY DEF Pledge, nftVars, switchVars
<1>2. amount \in Nat
  <2>1. config \in Configs /\ config.min \in Int /\ config.min >= 1
    BY <1>1, ConfigFacts DEF IndInv, TypeOK, BlankUntilInitialized
  <2>2. amount \in Int /\ amount >= config.min
    BY CampaignAssumption DEF Pledge
  <2> QED
    BY <2>1, <2>2
<1>3. /\ pledge' \in [Contributors -> 0..MaxAmount]
      /\ pledge'[c] = pledge[c] + amount
      /\ \A d \in Contributors : d # c => pledge'[d] = pledge[d]
  BY <1>2, BoundFacts DEF Pledge, IndInv, TypeOK
<1>4. totalPledged \in 0..MaxAmount /\ totalPledged' \in 0..MaxAmount
  BY <1>1, <1>2, BoundFacts DEF Pledge, IndInv, TypeOK
<1>5. Sum(pledge', Contributors) = Sum(pledge, Contributors) + amount
  <2>1. \A d \in Contributors : /\ pledge[d] \in Int /\ pledge'[d] \in Int
                                /\ d # c => pledge'[d] = pledge[d]
    BY <1>3 DEF IndInv, TypeOK
  <2>2. Sum(pledge', Contributors) = Sum(pledge, Contributors) + pledge'[c] - pledge[c]
    BY <2>1, SumUpdate, AccountFacts
  <2>3. Sum(pledge, Contributors) \in Int
    BY <2>1, SumType, AccountFacts
  <2> QED
    BY <1>2, <1>3, <2>1, <2>2, <2>3
<1>6. /\ pledgers' \in Seq(Contributors) /\ Len(pledgers') <= MaxContributors
      /\ \A i, j \in 1..Len(pledgers') : pledgers'[i] = pledgers'[j] => i = j
      /\ Listed(pledgers') = Listed(pledgers) \cup {c}
  BY AppendIfMissingType DEF Pledge, IndInv, TypeOK, ListsComplete
<1>7. TypeOK'
  BY <1>1, <1>3, <1>4, <1>6 DEF IndInv, TypeOK
<1>8. PledgeBooks' /\ ListsComplete'
  BY <1>1, <1>3, <1>5, <1>6 DEF IndInv, PledgeBooks, ListsComplete
<1>9. BlankUntilInitialized' /\ BooksBalance' /\ OwedOrFunded' /\ StopIsFinal'
  BY <1>1 DEF IndInv, BlankUntilInitialized, BooksBalance, OwedOrFunded, StopIsFinal,
              DeadlinePassed
<1>10. CancelRefundsAll' /\ WalletsWhole' /\ OutcomeMatchesGoal' /\ RewardsAfterOutcome'
  BY <1>1 DEF IndInv, CancelRefundsAll, WalletsWhole, OutcomeMatchesGoal,
              RewardsAfterOutcome
<1>11. MintedAtMostOnce' /\ BonusEventExact'
  BY <1>1 DEF IndInv, MintedAtMostOnce, BonusEventExact, DeadlinePassed
<1> QED
  BY <1>7, <1>8, <1>9, <1>10, <1>11 DEF IndInv

\* collect_pledges visits every pledge, so it brings in exactly TotalPledged.
LEMMA CollectPledgesEffect ==
  ASSUME IndInv, CollectPledges
  PROVE  /\ totalPledged \in Nat
         /\ token' \in [Accounts -> Nat]
         /\ token'[Self] = token[Self] + totalPledged
         /\ \A c \in Contributors : /\ pledge[c] \in Nat
                                    /\ token'[c] = token[c] - pledge[c]
         /\ \A a \in Accounts \ (Contributors \cup {Self}) : token'[a] = token[a]
         /\ pledge' \in [Contributors -> 0..MaxAmount]
         /\ \A c \in Contributors : pledge'[c] = 0
<1> DEFINE due == DuePledges
<1>1. /\ \A c \in Contributors : token[c] >= due[c]
      /\ token' = [a \in Accounts |->
                     IF a = Self THEN token[a] + Sum(due, Contributors)
                     ELSE IF a \in Contributors THEN token[a] - due[a] ELSE token[a]]
      /\ pledge' = [c \in Contributors |-> pledge[c] - due[c]]
  BY DEF CollectPledges
<1>2. \A c \in Contributors : due[c] = pledge[c] /\ pledge[c] \in Nat /\ token[c] \in Nat
  <2>1. \A c \in Contributors : pledge[c] \in Nat /\ token[c] \in Nat
    BY AccountFacts, BoundFacts DEF IndInv, TypeOK
  <2>2. \A c \in Contributors : c \notin Listed(pledgers) => ~(pledge[c] > 0)
    BY DEF IndInv, ListsComplete
  <2> QED
    BY <2>1, <2>2 DEF DuePledges
<1> HIDE DEF due
<1>3. Sum(due, Contributors) = totalPledged
  <2>1. Sum(due, Contributors) = Sum(pledge, Contributors)
    BY <1>2, SumEqual, AccountFacts
  <2> QED
    BY <2>1 DEF IndInv, PledgeBooks
<1>4. \A c \in Contributors : pledge'[c] = 0
  BY <1>1, <1>2
<1>5. pledge' \in [Contributors -> 0..MaxAmount]
  BY <1>1, <1>4, BoundFacts
<1>6. token \in [Accounts -> Nat] /\ totalPledged \in Nat
  BY BoundFacts DEF IndInv, TypeOK
<1> QED
  BY <1>1, <1>2, <1>3, <1>4, <1>5, <1>6, AccountFacts

\* collect_pledges raises the total and the balance by the same amount, to the
\* goal or beyond.
LEMMA CollectPledgesKeeps ==
  ASSUME IndInv, CollectPledges
  PROVE  IndInv'
<1>1. /\ status = "Active" /\ DeadlinePassed /\ config' = config /\ now' = now
      /\ status' = status /\ totalRaised' = totalRaised + totalPledged
      /\ totalPledged' = 0 /\ totalRaised' <= MaxAmount
      /\ totalRaised' >= config.goal
      /\ contributors' = contributors /\ contribution' = contribution
      /\ pledgers' = pledgers /\ bonusEmitted' = bonusEmitted
      /\ minted' = minted /\ nftSet' = nftSet
      /\ stopped' = stopped /\ roles' = roles /\ paused' = paused
  BY DEF CollectPledges, nftVars, switchVars
<1>2. \A c \in Contributors : pledge'[c] = 0
  BY CollectPledgesEffect
<1>3. Sum(pledge', Contributors) = 0
  BY <1>2, SumZero, AccountFacts
<1>4. totalRaised \in Nat /\ totalPledged \in Nat /\ totalRaised' \in 0..MaxAmount
  BY <1>1, BoundFacts DEF IndInv, TypeOK
<1>5. /\ token' \in [Accounts -> Nat]
      /\ token'[Self] = token[Self] + totalPledged
      /\ \A c \in Contributors : token'[c] <= token[c]
  <2>1. \A c \in Contributors : token[c] \in Nat
    BY AccountFacts DEF IndInv, TypeOK
  <2> QED
    BY <2>1, CollectPledgesEffect
<1>6. TypeOK'
  <2>1. pledge' \in [Contributors -> 0..MaxAmount] /\ totalPledged' \in 0..MaxAmount
    BY <1>1, CollectPledgesEffect, BoundFacts
  <2> QED
    BY <1>1, <1>4, <1>5, <2>1 DEF IndInv, TypeOK
<1>7. BlankUntilInitialized' /\ StopIsFinal' /\ CancelRefundsAll' /\ OutcomeMatchesGoal'
  BY <1>1 DEF IndInv, BlankUntilInitialized, StopIsFinal, CancelRefundsAll,
              OutcomeMatchesGoal
<1>8. BooksBalance' /\ PledgeBooks'
  BY <1>1, <1>3, <1>4, <1>5 DEF IndInv, BooksBalance, PledgeBooks
<1>9. ListsComplete'
  BY <1>1, <1>2 DEF IndInv, ListsComplete
<1>10. OwedOrFunded' /\ BonusEventExact'
  BY <1>1 DEF OwedOrFunded, BonusEventExact, DeadlinePassed
<1>11. WalletsWhole'
  <2>1. \A c \in Contributors : /\ token[c] \in Nat /\ token'[c] \in Nat
                                /\ contribution[c] \in Nat
    BY <1>5, AccountFacts, BoundFacts DEF IndInv, TypeOK
  <2> QED
    BY <1>1, <1>5, <2>1, BoundFacts DEF IndInv, WalletsWhole
<1>12. RewardsAfterOutcome' /\ MintedAtMostOnce'
  <2>1. \A c \in Contributors : minted'[c] = minted[c] /\ minted[c] \in Nat /\ ~(minted[c] > 0)
    BY <1>1 DEF IndInv, TypeOK, RewardsAfterOutcome
  <2> QED
    BY <2>1 DEF RewardsAfterOutcome, MintedAtMostOnce
<1> QED
  BY <1>6, <1>7, <1>8, <1>9, <1>10, <1>11, <1>12 DEF IndInv

\* The transfer refund_single makes.
LEMMA RefundSingleEffect ==
  ASSUME IndInv, NEW c \in Contributors, RefundSingle(c)
  PROVE  /\ token' \in [Accounts -> Nat]
         /\ contribution[c] \in Nat /\ contribution'[c] = 0
         /\ \A a \in Accounts : token'[a] =
              IF a = Self THEN token[a] - contribution[c]
              ELSE IF a = c THEN token[a] + contribution[c] ELSE token[a]
<1>1. /\ token \in [Accounts -> Nat] /\ token[Self] >= contribution[c]
      /\ c \in Accounts /\ Self \in Accounts /\ c # Self
      /\ token' = Transfer(token, Self, c, contribution[c])
  BY AccountFacts DEF RefundSingle, IndInv, TypeOK
<1>2. contribution[c] \in Nat /\ contribution'[c] = 0
  BY BoundFacts DEF RefundSingle, IndInv, TypeOK
<1> QED
  BY <1>1, <1>2, TransferType

\* refund_single takes one entry out of the entries, the total and the balance.
LEMMA RefundSingleKeeps ==
  ASSUME IndInv, NEW c \in Contributors, RefundSingle(c)
  PROVE  IndInv'
<1>1. /\ status = "Expired" /\ config' = config /\ now' = now /\ status' = status
      /\ totalRaised' = totalRaised - contribution[c]
      /\ totalPledged' = totalPledged /\ pledge' = pledge
      /\ contributors' = contributors /\ pledgers' = pledgers
      /\ bonusEmitted' = bonusEmitted /\ minted' = minted /\ nftSet' = nftSet
      /\ stopped' = stopped /\ roles' = roles /\ paused' = paused
  BY DEF RefundSingle, RefundOpen, nftVars, switchVars
<1>2. \A d \in Contributors : contribution[d] \in Nat /\ token[d] \in Nat
  BY AccountFacts, BoundFacts DEF IndInv, TypeOK
<1>3. /\ contribution' \in [Contributors -> 0..MaxAmount]
      /\ contribution'[c] = 0
      /\ \A d \in Contributors : d # c => contribution'[d] = contribution[d]
  BY BoundFacts DEF RefundSingle, IndInv, TypeOK
<1>4. /\ token' \in [Accounts -> Nat]
      /\ \A a \in Accounts : token'[a] =
           IF a = Self THEN token[a] - contribution[c]
           ELSE IF a = c THEN token[a] + contribution[c] ELSE token[a]
  BY RefundSingleEffect
<1>5. Sum(contribution', Contributors) = Sum(contribution, Contributors) - contribution[c]
  <2>1. \A d \in Contributors : /\ contribution[d] \in Int /\ contribution'[d] \in Int
                                /\ d # c => contribution'[d] = contribution[d]
    BY <1>3 DEF IndInv, TypeOK
  <2>2. Sum(contribution', Contributors)
          = Sum(contribution, Contributors) + contribution'[c] - contribution[c]
    BY <2>1, SumUpdate, AccountFacts
  <2>3. Sum(contribution, Contributors) \in Int
    BY <2>1, SumType, AccountFacts
  <2> QED
    BY <1>2, <1>3, <2>1, <2>2, <2>3
<1>6. /\ Sum(contribution, Contributors) = totalRaised
      /\ token[Self] = totalRaised /\ totalRaised < config.goal
      /\ \A d \in Contributors \ {Creator, Platform} :
           token[d] + contribution[d] = InitialWallet
  BY <1>1 DEF IndInv, OwedOrFunded, BooksBalance, OutcomeMatchesGoal
<1>7. contribution[c] <= totalRaised
  BY <1>2, <1>6, SumBoundsEntry, AccountFacts
<1>8. totalRaised \in 0..MaxAmount /\ totalRaised' \in 0..MaxAmount
  BY <1>1, <1>2, <1>7, BoundFacts DEF IndInv, TypeOK
<1>9. TypeOK'
  BY <1>1, <1>3, <1>4, <1>8 DEF IndInv, TypeOK
<1>10. BlankUntilInitialized' /\ StopIsFinal' /\ CancelRefundsAll' /\ PledgeBooks'
  BY <1>1 DEF IndInv, BlankUntilInitialized, StopIsFinal, CancelRefundsAll, PledgeBooks
<1>11. BooksBalance'
  BY <1>1, <1>2, <1>4, <1>6, AccountFacts DEF BooksBalance
<1>12. ListsComplete'
  BY <1>1, <1>2, <1>3 DEF IndInv, ListsComplete
<1>13. \A d \in Contributors : token'[d] + contribution'[d] = token[d] + contribution[d]
  <2>1. \A d \in Contributors : token'[d] = IF d = c THEN token[d] + contribution[c] ELSE token[d]
    BY <1>4, AccountFacts
  <2> QED
    BY <1>2, <1>3, <2>1
<1>14. OwedOrFunded' /\ WalletsWhole'
  BY <1>1, <1>5, <1>6, <1>13 DEF IndInv, OwedOrFunded, WalletsWhole
<1>15. OutcomeMatchesGoal'
  <2>1. config.goal \in Int
    BY <1>1, ConfigFacts DEF IndInv, TypeOK, BlankUntilInitialized
  <2> QED
    BY <1>1, <1>2, <1>6, <1>8, <2>1, BoundFacts DEF OutcomeMatchesGoal
<1>16. RewardsAfterOutcome' /\ MintedAtMostOnce' /\ BonusEventExact'
  <2>1. \A d \in Contributors : minted'[d] = minted[d] /\ minted[d] \in Nat /\ ~(minted[d] > 0)
    BY <1>1 DEF IndInv, TypeOK, RewardsAfterOutcome
  <2> QED
    BY <1>1, <2>1 DEF RewardsAfterOutcome, MintedAtMostOnce, BonusEventExact
<1> QED
  BY <1>9, <1>10, <1>11, <1>12, <1>14, <1>15, <1>16 DEF IndInv

\* cancel visits every contribution, so it pays every entry out and leaves
\* none behind.
LEMMA CancelEffect ==
  ASSUME IndInv, Cancel
  PROVE  /\ token' \in [Accounts -> Nat]
         /\ \A c \in Contributors : /\ contribution[c] \in Nat /\ token[c] \in Nat
                                    /\ token'[c] = token[c] + contribution[c]
         /\ \A a \in Accounts \ (Contributors \cup {Self}) : token'[a] = token[a]
         /\ token[Self] >= Sum(contribution, Contributors)
         /\ token'[Self] = token[Self] - Sum(contribution, Contributors)
         /\ contribution' \in [Contributors -> 0..MaxAmount]
         /\ \A c \in Contributors : contribution'[c] = 0
<1> DEFINE due == DueRefunds
<1>1. /\ token[Self] >= Sum(due, Contributors)
      /\ token' = [a \in Accounts |->
                     IF a = Self THEN token[a] - Sum(due, Contributors)
                     ELSE IF a \in Contributors THEN token[a] + due[a] ELSE token[a]]
      /\ contribution' = [c \in Contributors |-> contribution[c] - due[c]]
  BY DEF Cancel
<1>2. \A c \in Contributors :
        due[c] = contribution[c] /\ contribution[c] \in Nat /\ token[c] \in Nat
  <2>1. \A c \in Contributors : contribution[c] \in Nat /\ token[c] \in Nat
    BY AccountFacts, BoundFacts DEF IndInv, TypeOK
  <2>2. \A c \in Contributors : c \notin Listed(contributors) => ~(contribution[c] > 0)
    BY DEF IndInv, ListsComplete
  <2> QED
    BY <2>1, <2>2 DEF DueRefunds
<1> HIDE DEF due
<1>3. Sum(due, Contributors) \in Int /\ Sum(due, Contributors) = Sum(contribution, Contributors)
  BY <1>2, SumType, SumEqual, AccountFacts
<1>4. \A c \in Contributors : contribution'[c] = 0
  BY <1>1, <1>2
<1>5. contribution' \in [Contributors -> 0..MaxAmount]
  BY <1>1, <1>4, BoundFacts
<1>6. token \in [Accounts -> Nat]
  BY DEF IndInv, TypeOK
<1> QED
  BY <1>1, <1>2, <1>3, <1>4, <1>5, <1>6, AccountFacts

\* cancel keeps the invariant: nothing but the pledges is left on record.
LEMMA CancelKeeps ==
  ASSUME IndInv, Cancel
  PROVE  IndInv'
<1>1. /\ status = "Active" /\ config' = config /\ now' = now /\ status' = "Cancelled"
      /\ totalRaised' = 0 /\ totalPledged' = totalPledged /\ pledge' = pledge
      /\ contributors' = contributors /\ pledgers' = pledgers
      /\ bonusEmitted' = bonusEmitted /\ minted' = minted /\ nftSet' = nftSet
      /\ stopped' = stopped /\ roles' = roles /\ paused' = paused
  BY DEF Cancel, nftVars, switchVars
<1>2. \A c \in Contributors : contribution'[c] = 0
  BY CancelEffect
<1>3. /\ token' \in [Accounts -> Nat]
      /\ \A c \in Contributors : /\ contribution[c] \in Nat /\ token[c] \in Nat
                                 /\ token'[c] = token[c] + contribution[c]
  BY CancelEffect
<1>4. TypeOK'
  <2>1. contribution' \in [Contributors -> 0..MaxAmount] /\ totalRaised' \in 0..MaxAmount
    BY <1>1, CancelEffect, BoundFacts
  <2> QED
    BY <1>1, <1>3, <2>1 DEF IndInv, TypeOK, StatusValues
<1>5. BlankUntilInitialized'
  BY <1>1 DEF IndInv, BlankUntilInitialized
<1>6. /\ BooksBalance' /\ PledgeBooks' /\ OwedOrFunded' /\ StopIsFinal'
      /\ CancelRefundsAll' /\ OutcomeMatchesGoal' /\ BonusEventExact'
  BY <1>1, <1>2
     DEF IndInv, BooksBalance, PledgeBooks, OwedOrFunded, StopIsFinal,
         CancelRefundsAll, OutcomeMatchesGoal, BonusEventExact
<1>7. ListsComplete'
  BY <1>1, <1>2 DEF IndInv, ListsComplete
<1>8. WalletsWhole'
  BY <1>1, <1>2, <1>3, BoundFacts DEF IndInv, WalletsWhole
<1>9. RewardsAfterOutcome' /\ MintedAtMostOnce'
  <2>1. \A d \in Contributors : minted'[d] = minted[d] /\ minted[d] \in Nat /\ ~(minted[d] > 0)
    BY <1>1 DEF IndInv, TypeOK, RewardsAfterOutcome
  <2> QED
    BY <2>1 DEF RewardsAfterOutcome, MintedAtMostOnce
<1> QED
  BY <1>4, <1>5, <1>6, <1>7, <1>8, <1>9 DEF IndInv

\* What withdraw splits: a fee of at least zero and a positive payout that add
\* up to the total, which is therefore positive.
LEMMA WithdrawSplit ==
  ASSUME IndInv, Withdraw
  PROVE  /\ totalRaised \in Nat /\ totalRaised > 0
         /\ Fee(totalRaised) \in Nat
         /\ totalRaised - Fee(totalRaised) \in Nat /\ totalRaised - Fee(totalRaised) > 0
<1>1. totalRaised \in Nat
  BY BoundFacts DEF IndInv, TypeOK
<1>2. config \in Configs
  BY DEF IndInv, TypeOK, BlankUntilInitialized, Withdraw, WithdrawOpen
<1>3. totalRaised - Fee(totalRaised) > 0 /\ (config.feeBps # None => Fee(totalRaised) > 0)
  BY DEF Withdraw
<1>4. CASE config.feeBps = None
  <2>1. Fee(totalRaised) = 0
    BY <1>4 DEF Fee
  <2> QED
    BY <1>1, <1>3, <2>1
<1>5. CASE config.feeBps # None
  <2>1. config.feeBps \in Nat
    BY <1>2, <1>5, ConfigFacts
  <2>2. totalRaised * config.feeBps \in Int
    BY <1>1, <2>1
  <2>3. Fee(totalRaised) = (totalRaised * config.feeBps) \div BpsScale
    BY <1>5 DEF Fee
  <2>4. Fee(totalRaised) \in Int
    BY <2>2, <2>3, BoundFacts
  <2> QED
    BY <1>1, <1>3, <1>5, <2>4
<1> QED
  BY <1>4, <1>5

\* What withdraw moves: the whole total, out of a balance that equals it.
LEMMA WithdrawEffect ==
  ASSUME IndInv, Withdraw
  PROVE  /\ token' \in [Accounts -> Nat]
         /\ token[Self] = totalRaised /\ token'[Self] = 0
         /\ \A a \in Accounts \ {Self, Creator, Platform} : token'[a] = token[a]
         /\ Platform # Creator => token'[Platform] = token[Platform] + Fee(totalRaised)
<1> DEFINE fee    == Fee(totalRaised)
           payout == totalRaised - fee
           paid   == Transfer(token, Self, Platform, fee)
<1>1. token' = Transfer(paid, Self, Creator, payout)
  BY DEF Withdraw
<1>2. /\ totalRaised \in Nat /\ fee \in Nat /\ payout \in Nat /\ payout > 0
      /\ payout = totalRaised - fee
  BY WithdrawSplit
<1> HIDE DEF fee, payout
<1>3. token \in [Accounts -> Nat] /\ token[Self] = totalRaised
  BY DEF IndInv, TypeOK, BooksBalance, Withdraw, WithdrawOpen
<1>4. /\ paid \in [Accounts -> Nat]
      /\ \A a \in Accounts : paid[a] =
           IF a = Self THEN token[a] - fee
           ELSE IF a = Platform THEN token[a] + fee ELSE token[a]
  <2>1. token[Self] >= fee
    BY <1>2, <1>3
  <2> QED
    BY <1>2, <1>3, <2>1, TransferType, AccountFacts
<1> HIDE DEF paid
<1>5. /\ token' \in [Accounts -> Nat]
      /\ \A a \in Accounts : token'[a] =
           IF a = Self THEN paid[a] - payout
           ELSE IF a = Creator THEN paid[a] + payout ELSE paid[a]
  <2>1. paid[Self] >= payout
    BY <1>2, <1>3, <1>4, AccountFacts
  <2> QED
    BY <1>1, <1>2, <1>4, <2>1, TransferType, AccountFacts
<1>6. /\ token'[Self] = 0
      /\ \A a \in Accounts \ {Self, Creator, Platform} : token'[a] = token[a]
      /\ Platform # Creator => token'[Platform] = token[Platform] + fee
  BY <1>2, <1>3, <1>4, <1>5, AccountFacts
<1> QED
  BY <1>3, <1>5, <1>6 DEF fee

\* withdraw empties the books and the balance together, and only once.
LEMMA WithdrawKeeps ==
  ASSUME IndInv, Withdraw
  PROVE  IndInv'
<1>1. /\ status = "Succeeded" /\ config' = config /\ now' = now /\ status' = status
      /\ totalRaised' = 0 /\ totalPledged' = totalPledged /\ pledge' = pledge
      /\ contribution' = contribution
      /\ contributors' = contributors /\ pledgers' = pledgers
      /\ bonusEmitted' = bonusEmitted /\ nftSet' = nftSet
      /\ stopped' = stopped /\ roles' = roles /\ paused' = paused
  BY DEF Withdraw, WithdrawOpen, switchVars
<1>2. minted' = [c \in Contributors |-> minted[c] + IF c \in MintBatch THEN 1 ELSE 0]
  BY DEF Withdraw
<1>3. totalRaised > 0 /\ totalRaised \in Nat
  BY WithdrawSplit
<1>4. token' \in [Accounts -> Nat]
  BY WithdrawEffect
<1>5. /\ token'[Self] = 0
      /\ \A a \in Accounts \ {Self, Creator, Platform} : token'[a] = token[a]
  BY WithdrawEffect
<1>6. \A c \in Contributors : /\ minted[c] = 0
                              /\ minted'[c] = IF c \in MintBatch THEN 1 ELSE 0
  <2>1. \A c \in Contributors : minted[c] \in Nat /\ minted[c] <= 1 /\ minted[c] # 1
    BY <1>3 DEF IndInv, TypeOK, MintedAtMostOnce
  <2> QED
    BY <1>2, <2>1
<1>7. \A c \in MintBatch : contribution[c] > 0
  BY DEF MintBatch
<1>8. TypeOK'
  <2>1. minted' \in [Contributors -> Nat]
    BY <1>2, <1>6
  <2>2. totalRaised' \in 0..MaxAmount
    BY <1>1, BoundFacts
  <2> QED
    BY <1>1, <1>4, <2>1, <2>2 DEF IndInv, TypeOK
<1>9. /\ BlankUntilInitialized' /\ PledgeBooks' /\ OwedOrFunded'
       /\ CancelRefundsAll' /\ BonusEventExact'
  BY <1>1 DEF IndInv, BlankUntilInitialized, PledgeBooks, OwedOrFunded,
              CancelRefundsAll, BonusEventExact
<1>10. StopIsFinal' /\ ListsComplete'
  BY <1>1 DEF IndInv, StopIsFinal, ListsComplete
<1>11. BooksBalance' /\ OutcomeMatchesGoal'
  BY <1>1, <1>5 DEF BooksBalance, OutcomeMatchesGoal
<1>12. WalletsWhole'
  BY <1>1, <1>5, AccountFacts DEF IndInv, WalletsWhole
<1>13. RewardsAfterOutcome' /\ MintedAtMostOnce'
  BY <1>1, <1>6, <1>7 DEF RewardsAfterOutcome, MintedAtMostOnce
<1> QED
  BY <1>8, <1>9, <1>10, <1>11, <1>12, <1>13 DEF IndInv

-----------------------------------------------------------------------------
(* The theorems. *)

\* Every step keeps the inductive invariant.
LEMMA StepIndInv == IndInv /\ [Next]_vars => IndInv'
<1> SUFFICES ASSUME IndInv, [Next]_vars
             PROVE  IndInv'
  OBVIOUS
<1>1. ASSUME NEW k \in Configs, Initialize(k) PROVE IndInv'
  BY <1>1, InitializeKeeps
<1>2. ASSUME NEW c \in Contributors, NEW amount \in Amounts, Contribute(c, amount)
      PROVE  IndInv'
  BY <1>2, ContributeKeeps
<1>3. ASSUME NEW c \in Contributors, NEW amount \in Amounts, Pledge(c, amount)
      PROVE  IndInv'
  BY <1>3, PledgeKeeps
<1>4. ASSUME NEW c \in Contributors, RefundSingle(c) PROVE IndInv'
  BY <1>4, RefundSingleKeeps
<1>5. CASE CollectPledges
  BY <1>5, CollectPledgesKeeps
<1>6. CASE Finalize
  BY <1>6, FinalizeKeeps
<1>7. CASE Withdraw
  BY <1>7, WithdrawKeeps
<1>8. CASE Cancel
  BY <1>8, CancelKeeps
<1>9. CASE EmergencyStop
  BY <1>9, EmergencyStopKeeps
<1>10. CASE \/ \E R \in SUBSET RoleNames : ProvisionRoles(R)
            \/ SetNftContract \/ Pause \/ Unpause \/ Tick \/ UNCHANGED vars
  BY <1>10, QuietActionsKeep
<1> QED
  BY <1>1, <1>2, <1>3, <1>4, <1>5, <1>6, <1>7, <1>8, <1>9, <1>10 DEF Next

\* The inductive invariant holds in every reachable state.
THEOREM Invariance == Spec => []IndInv
<1>1. IndInv /\ [Next]_vars => IndInv'
  BY StepIndInv
<1> QED
  BY InitIndInv, <1>1, PTL DEF Spec

\* Every stored entry keeps its type: no amount turns negative or exceeds
\* i128::MAX, no list outgrows MAX_CONTRIBUTORS.
THEOREM TypeCorrect == Spec => []TypeOK
<1>1. IndInv => TypeOK
  BY DEF IndInv
<1> QED
  BY Invariance, <1>1, PTL

\* TotalRaised and the contract's token balance agree until cancellation, and
\* TotalPledged is the sum of the pledges on record.
THEOREM BooksHold == Spec => [](BooksBalance /\ PledgeBooks)
<1>1. IndInv => BooksBalance /\ PledgeBooks
  BY DEF IndInv
<1> QED
  BY Invariance, <1>1, PTL

\* An expired campaign holds exactly what its contributors can claim.
THEOREM RefundsAlwaysCovered == Spec => []RefundsCovered
<1>1. IndInv => RefundsCovered
  BY DEF IndInv, OwedOrFunded, BooksBalance, RefundsCovered
<1> QED
  BY Invariance, <1>1, PTL

\* Nobody is refunded twice or at another's expense.
THEOREM WalletsAlwaysWhole == Spec => []WalletsWhole
<1>1. IndInv => WalletsWhole
  BY DEF IndInv
<1> QED
  BY Invariance, <1>1, PTL

\* The lists that cancel, collect_pledges and withdraw loop over are complete
\* and name nobody twice, for any capacity of the lists.
THEOREM ListsAlwaysComplete == Spec => []ListsComplete
<1>1. IndInv => ListsComplete
  BY DEF IndInv
<1> QED
  BY Invariance, <1>1, PTL

\* Until the deadline the bonus event has been emitted exactly when the total
\* has reached the bonus goal, whatever the order of the contributions.
THEOREM BonusEventAlwaysExact == Spec => []BonusEventExact
<1>1. IndInv => BonusEventExact
  BY DEF IndInv
<1> QED
  BY Invariance, <1>1, PTL

\* Cancel empties the entries, and the recorded outcome matches the books.
THEOREM OutcomesHold == Spec => [](CancelRefundsAll /\ OutcomeMatchesGoal)
<1>1. IndInv => CancelRefundsAll /\ OutcomeMatchesGoal
  BY DEF IndInv
<1> QED
  BY Invariance, <1>1, PTL

\* No address is minted a second reward.
THEOREM MintedOnce == Spec => []MintedAtMostOnce
<1>1. IndInv => MintedAtMostOnce
  BY DEF IndInv
<1> QED
  BY Invariance, <1>1, PTL

-----------------------------------------------------------------------------
(* What a step may never do. *)

\* Rounding a fee down never exceeds the exact share.
LEMMA FloorBound ==
  ASSUME NEW a \in Nat, NEW b \in Nat, b > 0
  PROVE  (a \div b) * b <= a
OBVIOUS

\* The status moves only along the documented edges.
THEOREM StatusEdgesOnly == Spec => StatusTransitions
<1>1. IndInv /\ [Next]_vars => [StatusEdges]_vars
  <2> SUFFICES ASSUME IndInv, Next PROVE StatusEdges
    BY DEF StatusEdges, vars
  <2>1. CASE \E k \in Configs : Initialize(k)
    BY <2>1 DEF Initialize, StatusEdges, IndInv, BlankUntilInitialized
  <2>2. CASE Finalize
    BY <2>2 DEF Finalize, Outcome, StatusEdges
  <2>3. CASE Cancel
    BY <2>3 DEF Cancel, StatusEdges
  <2>4. CASE EmergencyStop
    BY <2>4 DEF EmergencyStop, StatusEdges
  <2>5. ASSUME UNCHANGED status PROVE StatusEdges
    BY <2>5 DEF StatusEdges
  <2> QED
    BY <2>1, <2>2, <2>3, <2>4, <2>5
       DEF Next, ProvisionRoles, Contribute, ContributeOpen, Pledge, CollectPledges, Withdraw,
           RefundSingle, SetNftContract, Pause, Unpause, Tick
<1> QED
  BY Invariance, <1>1, PTL DEF Spec, StatusTransitions

\* Once stopped, the contract never moves a token again.
THEOREM StopFreezes == Spec => StoppedFreezesTokens
<1>1. IndInv /\ [Next]_vars => [stopped => token' = token]_vars
  <2> SUFFICES ASSUME IndInv, Next, stopped PROVE token' = token
    BY DEF vars
  <2>1. status = "Cancelled"
    BY DEF IndInv, StopIsFinal
  <2> QED
    BY <2>1
       DEF Next, Initialize, ProvisionRoles, Contribute, ContributeOpen, Pledge, CollectPledges, Finalize, Outcome,
           Withdraw, RefundSingle, Cancel, SetNftContract, Pause, Unpause, EmergencyStop,
           Tick, NotStopped, RefundOpen
<1> QED
  BY Invariance, <1>1, PTL DEF Spec, StoppedFreezesTokens

\* collect_pledges takes every pledge in full; nothing else lowers TotalPledged.
THEOREM CollectTakesAll == Spec => CollectAllOrNothing
<1>1. IndInv /\ [Next]_vars => [CollectsAll]_vars
  <2> SUFFICES ASSUME IndInv, Next PROVE CollectsAll
    BY DEF CollectsAll, vars
  <2>1. CASE CollectPledges
    BY <2>1, CollectPledgesEffect DEF CollectsAll
  <2>2. ASSUME NEW c \in Contributors, NEW amount \in Amounts, Pledge(c, amount)
        PROVE  CollectsAll
    <3>1. config.min \in Int /\ config.min >= 1
      BY <2>2, ConfigFacts DEF IndInv, TypeOK, BlankUntilInitialized, Pledge
    <3>2. amount \in Int /\ amount >= config.min /\ totalPledged' = totalPledged + amount
      BY <2>2, CampaignAssumption DEF Pledge
    <3>3. totalPledged \in Int
      BY BoundFacts DEF IndInv, TypeOK
    <3> QED
      BY <3>1, <3>2, <3>3 DEF CollectsAll
  <2>3. ASSUME UNCHANGED totalPledged PROVE CollectsAll
    BY <2>3, BoundFacts DEF CollectsAll, IndInv, TypeOK
  <2> QED
    BY <2>1, <2>2, <2>3
       DEF Next, Initialize, ProvisionRoles, Contribute, ContributeOpen, Finalize, Outcome, Withdraw, RefundSingle,
           Cancel, SetNftContract, Pause, Unpause, EmergencyStop, Tick, ledgerVars
<1> QED
  BY Invariance, <1>1, PTL DEF Spec, CollectAllOrNothing

\* A withdrawal pays the platform no more than its share.
LEMMA WithdrawPaysOut ==
  ASSUME IndInv, Withdraw
  PROVE  PaidOut
<1>1. status = "Succeeded" /\ totalRaised \in Nat
  BY WithdrawSplit DEF Withdraw, WithdrawOpen
<1>2. config \in Configs
  BY <1>1 DEF IndInv, TypeOK, BlankUntilInitialized
<1>3. \A a \in Accounts : token[a] \in Nat /\ token'[a] \in Nat
  BY WithdrawEffect DEF IndInv, TypeOK
<1>4. token'[Self] = token[Self] - totalRaised
  BY <1>1, WithdrawEffect
<1>5. \A a \in Accounts \ {Self, Creator, Platform} : Gains(a) = 0
  BY <1>3, WithdrawEffect DEF Gains
<1>6. ASSUME Platform # Creator
      PROVE  Gains(Platform) * BpsScale
               <= totalRaised * (IF config.feeBps = None THEN 0 ELSE config.feeBps)
  <2>1. Gains(Platform) = Fee(totalRaised)
    BY <1>3, <1>6, WithdrawEffect, WithdrawSplit, AccountFacts DEF Gains
  <2>2. CASE config.feeBps = None
    BY <1>1, <2>1, <2>2, BoundFacts DEF Fee
  <2>3. CASE config.feeBps # None
    <3>1. config.feeBps \in Nat
      BY <1>2, <2>3, ConfigFacts
    <3>2. totalRaised * config.feeBps \in Nat
      BY <1>1, <3>1
    <3>3. ((totalRaised * config.feeBps) \div BpsScale) * BpsScale
             <= totalRaised * config.feeBps
      BY <3>2, FloorBound, BoundFacts
    <3> QED
      BY <2>1, <2>3, <3>3 DEF Fee
  <2> QED
    BY <2>2, <2>3
<1> QED
  BY <1>1, <1>4, <1>5, <1>6 DEF PaidOut

\* Tokens leave the contract only as a payout of a succeeded campaign or as a
\* refund of exactly what the recipient had on record.
THEOREM OutflowsOnlyAuthorised == Spec => OutflowsAuthorised
<1>1. IndInv /\ [Next]_vars => [token'[Self] < token[Self] => PaidOut \/ Refunded]_vars
  <2> SUFFICES ASSUME IndInv, Next, token'[Self] < token[Self]
               PROVE  PaidOut \/ Refunded
    BY DEF vars
  <2>1. \A a \in Accounts : token[a] \in Nat
    BY DEF IndInv, TypeOK
  <2>2. token' # token
    BY <2>1, AccountFacts
  <2>3. ASSUME NEW c \in Contributors, NEW amount \in Amounts, Contribute(c, amount)
        PROVE  FALSE
    <3>1. amount \in Int /\ amount > 0
      BY <2>3, CampaignAssumption DEF Contribute, ContributeOpen
    <3> QED
      BY <2>1, <2>3, <3>1, ContributeEffect, AccountFacts
  <2>4. CASE CollectPledges
    BY <2>1, <2>4, CollectPledgesEffect, AccountFacts
  <2>5. CASE Withdraw
    BY <2>5, WithdrawPaysOut
  <2>6. ASSUME NEW c \in Contributors, RefundSingle(c)
        PROVE  Refunded
    <3>1. status = "Expired" /\ status' = "Expired"
      BY <2>6 DEF RefundSingle, RefundOpen
    <3>2. \A a \in Accounts \ {Self} : Gains(a) = IF a = c THEN contribution[c] ELSE 0
      BY <2>1, <2>6, RefundSingleEffect DEF Gains
    <3>3. contribution'[c] = 0
      BY <2>6, RefundSingleEffect
    <3> QED
      BY <3>1, <3>2, <3>3 DEF Refunded
  <2>7. CASE Cancel
    <3>1. status = "Active" /\ status' = "Cancelled"
      BY <2>7 DEF Cancel
    <3>2. \A a \in Accounts \ {Self} :
            IF a \in Contributors THEN Gains(a) = contribution[a] ELSE Gains(a) = 0
      BY <2>1, <2>7, CancelEffect, AccountFacts DEF Gains
    <3>3. \A c \in Contributors : contribution'[c] = 0
      BY <2>7, CancelEffect
    <3> QED
      BY <3>1, <3>2, <3>3 DEF Refunded
  <2> QED
    BY <2>2, <2>3, <2>4, <2>5, <2>6, <2>7
       DEF Next, Initialize, ProvisionRoles, Pledge, Finalize, Outcome, SetNftContract, Pause,
           Unpause, EmergencyStop, Tick
<1> QED
  BY Invariance, <1>1, PTL DEF Spec, OutflowsAuthorised

-----------------------------------------------------------------------------
(* The campaign implements the escrow. *)

\* A step that changes neither status, contract balance nor entries is a
\* stuttering step of the escrow.
LEMMA EscrowStutters ==
  ASSUME token'[Self] = token[Self], contribution' = contribution, EscrowPhase' = EscrowPhase
  PROVE  UNCHANGED E!vars
BY DEF E!vars

\* The escrow's sum is the campaign's.
LEMMA SameSum == E!Sum(contribution, Contributors) = Sum(contribution, Contributors)
<1> DEFINE S == Contributors
           n == Cardinality(S)
           e == Enumeration(S)
<1>1. E!Cardinality(S) = n
  BY Zenon DEF E!Cardinality, Cardinality, E!IsFiniteSet, IsFiniteSet
<1>2. E!Bijection(1..n, S) = Bijection(1..n, S)
  BY Zenon DEF E!Bijection, E!Injection, E!Surjection, E!IsInjective,
               Bijection, Injection, Surjection, IsInjective
<1>3. E!Enumeration(S) = e
  BY <1>1, <1>2, Zenon DEF E!Enumeration, Enumeration
<1> HIDE DEF n, e
<1>4. \A a : E!PrefixSums(a, n) = PrefixSums(a, n)
  BY Zenon DEF E!PrefixSums, PrefixSums
<1>5. E!Sum(contribution, S)
        = E!PrefixSums([i \in 1..n |-> contribution[e[i]]], n)[n]
  BY <1>1, <1>3, Zenon DEF E!Sum
<1>6. Sum(contribution, S) = PrefixSums([i \in 1..n |-> contribution[e[i]]], n)[n]
  BY Zenon DEF Sum, n, e
<1> QED
  BY <1>4, <1>5, <1>6, Zenon

\* Each action is an escrow action, with the same money moved.
LEMMA EscrowStep == IndInv /\ [Next]_vars => [E!Next]_(E!vars)
<1> SUFFICES ASSUME IndInv, [Next]_vars
             PROVE  E!Next \/ UNCHANGED E!vars
  OBVIOUS
<1>1. ASSUME NEW c \in Contributors, NEW amount \in Amounts, Contribute(c, amount)
      PROVE  E!Deposit(c)
  <2>1. /\ amount \in Int /\ amount > 0 /\ contribution[c] + amount <= MaxAmount
        /\ status = "Active" /\ status' = "Active"
        /\ contribution' = [contribution EXCEPT ![c] = @ + amount]
    BY <1>1, CampaignAssumption DEF Contribute, ContributeOpen
  <2>2. contribution[c] \in Nat
    BY BoundFacts DEF IndInv, TypeOK
  <2>3. amount \in 1..MaxAmount
    BY <2>1, <2>2, BoundFacts
  <2>4. token'[Self] = token[Self] + amount
    BY <1>1, ContributeEffect, AccountFacts
  <2> QED
    BY <2>1, <2>3, <2>4 DEF E!Deposit, EscrowPhase
<1>2. ASSUME CollectPledges PROVE E!TopUp \/ UNCHANGED E!vars
  <2>1. /\ totalPledged \in 0..MaxAmount /\ token'[Self] = token[Self] + totalPledged
    BY <1>2, CollectPledgesEffect DEF IndInv, TypeOK
  <2>2. status = "Active" /\ status' = "Active" /\ contribution' = contribution
    BY <1>2 DEF CollectPledges
  <2>3. token[Self] \in Nat
    BY AccountFacts DEF IndInv, TypeOK
  <2>4. CASE totalPledged = 0
    BY <2>1, <2>2, <2>3, <2>4, EscrowStutters DEF EscrowPhase
  <2>5. CASE totalPledged # 0
    <3>1. totalPledged \in 1..MaxAmount
      BY <2>1, <2>5, BoundFacts
    <3> QED
      BY <2>1, <2>2, <3>1 DEF E!TopUp, EscrowPhase
  <2> QED
    BY <2>4, <2>5
<1>3. ASSUME Finalize PROVE E!Succeed \/ E!Fail
  <2>1. /\ status = "Active" /\ status' \in {"Succeeded", "Expired"}
        /\ status' = "Expired" => ~(totalRaised >= config.goal)
        /\ token' = token /\ contribution' = contribution
    BY <1>3 DEF Finalize, Outcome, ledgerVars
  <2>2. CASE status' = "Succeeded"
    BY <2>1, <2>2 DEF E!Succeed, EscrowPhase
  <2>3. CASE status' = "Expired"
    <3>1. token[Self] = Sum(contribution, Contributors)
      BY <2>1, <2>3 DEF IndInv, OwedOrFunded, BooksBalance
    <3> QED
      BY <2>1, <2>3, <3>1, SameSum DEF E!Fail, EscrowPhase
  <2> QED
    BY <2>1, <2>2, <2>3
<1>4. ASSUME Withdraw PROVE E!PayOut
  <2>1. status = "Succeeded" /\ status' = "Succeeded" /\ contribution' = contribution
    BY <1>4 DEF Withdraw, WithdrawOpen
  <2>2. token[Self] > 0 /\ token'[Self] = 0
    BY <1>4, WithdrawEffect, WithdrawSplit
  <2> QED
    BY <2>1, <2>2 DEF E!PayOut, EscrowPhase
<1>5. ASSUME NEW c \in Contributors, RefundSingle(c) PROVE E!Refund(c)
  <2>1. /\ status = "Expired" /\ status' = "Expired" /\ contribution[c] # 0
        /\ contribution' = [contribution EXCEPT ![c] = 0]
    BY <1>5 DEF RefundSingle, RefundOpen
  <2>2. contribution[c] \in Nat /\ token'[Self] = token[Self] - contribution[c]
    BY <1>5, RefundSingleEffect, AccountFacts
  <2> QED
    BY <2>1, <2>2 DEF E!Refund, EscrowPhase
<1>6. ASSUME Cancel PROVE E!CallOff
  <2>1. status = "Active" /\ status' = "Cancelled"
    BY <1>6 DEF Cancel
  <2>2. /\ contribution' = [c \in Contributors |-> 0]
        /\ token[Self] >= Sum(contribution, Contributors)
        /\ token'[Self] = token[Self] - Sum(contribution, Contributors)
    BY <1>6, CancelEffect
  <2> QED
    BY <2>1, <2>2, SameSum DEF E!CallOff, EscrowPhase
<1>7. ASSUME EmergencyStop PROVE E!Freeze
  BY <1>7 DEF EmergencyStop, ledgerVars, E!Freeze, EscrowPhase
<1>8. ASSUME NEW k \in Configs, Initialize(k) PROVE UNCHANGED E!vars
  <2>1. status = "Unset" /\ status' = "Active" /\ token' = token /\ contribution' = contribution
    BY <1>8 DEF Initialize, IndInv, BlankUntilInitialized
  <2> QED
    BY <2>1, EscrowStutters DEF EscrowPhase
<1>9. ASSUME UNCHANGED <<status, token, contribution>> PROVE UNCHANGED E!vars
  BY <1>9, EscrowStutters DEF EscrowPhase
<1> QED
  BY <1>1, <1>2, <1>3, <1>4, <1>5, <1>6, <1>7, <1>8, <1>9
     DEF Next, vars, ledgerVars, ProvisionRoles, Pledge, SetNftContract, Pause, Unpause,
         Tick, E!Next

\* The campaign keeps the promise of the escrow: in particular it is declared
\* expired only while its balance is exactly the sum of the claims.
THEOREM CampaignImplementsEscrow == Spec => KeepsEscrow
<1>1. Init => E!Init
  BY AccountFacts DEF Init, E!Init, EscrowPhase
<1>2. IndInv /\ [Next]_vars => [E!Next]_(E!vars)
  BY EscrowStep
<1> QED
  BY Invariance, <1>1, <1>2, PTL DEF Spec, E!Spec, KeepsEscrow
=============================================================================
