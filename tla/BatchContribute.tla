-------------------------- MODULE BatchContribute ---------------------------
(***************************************************************************)
(* batch_contribute.rs of the factory crate: one signed call that invokes  *)
(* `contribute` on several campaigns in the order of its entries; a        *)
(* campaign may be named twice.  A call that fails takes everything before *)
(* it back.  Of a campaign only what makes its `contribute` fail is here:  *)
(* whether it still accepts, its minimum, and the contributor's balance.   *)
(***************************************************************************)
EXTENDS Ledger, Sequences, Loops

CONSTANTS Campaigns,      \* the campaigns a batch may name
          Minimum,        \* what each of them accepts at least
          MaxFanOut,      \* MAX_BATCH_SIZE, 10 in the code
          FanOutAmounts,  \* amounts an entry may have, refused ones included
          Purse           \* what a contributor owns at first

ASSUME FanOutAssumption ==
  /\ Minimum \in [Campaigns -> Nat] /\ MaxFanOut \in Nat /\ Purse \in Nat
  /\ FanOutAmounts \subseteq Int /\ IsFiniteSet(Campaigns)

\* struct ContributeEntry
ContributeEntry == [campaign : Campaigns, amount : FanOutAmounts]

VARIABLES purse,      \* balance of each contributor
          given,      \* what each campaign has on record of each contributor
          accepting,  \* the campaigns that are active and before their deadline
          lastBatch   \* history: the batch that was executed last
fanOutVars == <<purse, given, accepting, lastBatch>>

FanOutInit ==
  /\ purse = [c \in Addresses |-> Purse]
  /\ given = [c \in Addresses |-> [k \in Campaigns |-> 0]]
  /\ accepting = Campaigns
  /\ lastBatch = <<>>
-----------------------------------------------------------------------------
\* What the entries of a batch take, and give to campaign k: Taken(batch)[i]
\* by the first i of them, TotalOf and AmountFor in all.
Taken(batch) ==
  PrefixSums([i \in 1..Len(batch) |-> batch[i].amount], Len(batch))
GivenTo(batch, k) ==
  PrefixSums([i \in 1..Len(batch) |->
                IF batch[i].campaign = k THEN batch[i].amount ELSE 0], Len(batch))
TotalOf(batch) == Taken(batch)[Len(batch)]
AmountFor(batch, k) == GivenTo(batch, k)[Len(batch)]

\* The call of `contribute` that entry e makes does not fail, with p left.
Accepted(e, p) ==
  e.campaign \in accepting /\ e.amount >= Minimum[e.campaign] /\ e.amount <= p

\* Mutant: an entry that its campaign refuses is skipped.
BatchContributeSkipping(c, batch) ==
  /\ Len(batch) \in 1..MaxFanOut
  /\ \A i \in DOMAIN batch : batch[i].amount > 0
  /\ LET done == SelectSeq(batch, LAMBDA e : Accepted(e, purse[c])) IN
     /\ TotalOf(done) <= purse[c]
     /\ purse' = [purse EXCEPT ![c] = @ - TotalOf(done)]
     /\ given' = [given EXCEPT ![c] = [k \in Campaigns |-> @[k] + AmountFor(done, k)]]
  /\ lastBatch' = batch
  /\ SignedBy(c)
  /\ UNCHANGED accepting

\* batch_contribute: the entries in order, each with what the earlier ones left.
BatchContribute(c, batch) ==
  /\ Len(batch) \in 1..MaxFanOut
  /\ LET taken == Taken(batch) IN
     \A i \in 1..Len(batch) :
       /\ batch[i].amount > 0
       /\ Accepted(batch[i], purse[c] - taken[i - 1])
  /\ purse' = [purse EXCEPT ![c] = @ - TotalOf(batch)]
  /\ given' = [given EXCEPT ![c] = [k \in Campaigns |-> @[k] + AmountFor(batch, k)]]
  /\ lastBatch' = batch
  /\ SignedBy(c)
  /\ UNCHANGED accepting

\* A campaign ends between two batches.
CampaignEnds(k) ==
  /\ k \in accepting
  /\ accepting' = accepting \ {k}
  /\ Unsigned
  /\ UNCHANGED <<purse, given, lastBatch>>

FanOutNext ==
  \/ \E c \in Addresses : \E n \in 0..MaxFanOut + 1 :
       \E batch \in [1..n -> ContributeEntry] : BatchContribute(c, batch)
  \/ \E k \in Campaigns : CampaignEnds(k)

FanOutSpec == LedgerInit /\ FanOutInit /\ [][FanOutNext]_<<ledgerVars, fanOutVars>>
-----------------------------------------------------------------------------
FanOutTypeOK ==
  /\ purse \in [Addresses -> 0..Purse]
  /\ given \in [Addresses -> [Campaigns -> 0..Purse]]
  /\ accepting \subseteq Campaigns

\* What all campaigns have on record of a contributor is what left the purse.
FanOutBooks ==
  \A c \in Addresses : purse[c] + Sum(given[c], Campaigns) = Purse

\* A batch counts whole or not at all: the purse pays what the entries say, and
\* every campaign, one named twice included, has received exactly its entries;
\* no campaign that had ended received anything.
BatchWhole ==
  [][purse' # purse =>
       LET c == signer' IN
       /\ c # None
       /\ purse[c] - purse'[c] = TotalOf(lastBatch')
       /\ \A k \in Campaigns :
            /\ given'[c][k] - given[c][k] = AmountFor(lastBatch', k)
            /\ given'[c][k] # given[c][k] => k \in accepting
    ]_<<ledgerVars, fanOutVars>>
=============================================================================
