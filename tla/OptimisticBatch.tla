--------------------------- MODULE OptimisticBatch ---------------------------
(***************************************************************************)
(* The batches of optimistic_execution.rs beside the contract's own        *)
(* contribute: both add to DataKey::Contribution, but a batch keeps its    *)
(* total under DataKey::TotalRaised in persistent storage, contribute      *)
(* under the same key in instance storage.                                 *)
(***************************************************************************)
EXTENDS Ledger, Sequences, Loops

CONSTANTS BatchAmounts,  \* amounts an entry or a contribution may have
          Batches,       \* the batches of entries that are executed
          MaxBatch,      \* MAX_OPTIMISTIC_BATCH, 10 in the code
          MaxTotal       \* i128::MAX, beyond which checked_add aborts

Entry == [contributor : Addresses, amount : BatchAmounts]

ASSUME BatchAssumption ==
  /\ IsFiniteSet(Addresses)
  /\ BatchAmounts \subseteq Int /\ Batches \subseteq Seq(Entry)
  /\ MaxBatch \in Nat /\ MaxTotal \in Nat

VARIABLES
  balance,     \* DataKey::Contribution(a)
  batchTotal,  \* DataKey::TotalRaised in persistent storage
  coreTotal    \* DataKey::TotalRaised in instance storage: total_raised
batchVars == <<balance, batchTotal, coreTotal>>

-----------------------------------------------------------------------------
\* Mutant: the balances are read before the loop, as the total is.
AppliedToFirst(bal, batch) ==
  LET after[n \in 0..Len(batch)] ==
        IF n = 0 THEN bal
        ELSE [after[n-1] EXCEPT ![batch[n].contributor] =
                bal[batch[n].contributor] + batch[n].amount]
  IN  after[Len(batch)]

\* The loop of commit_optimistic_state: Rounds(bal, batch)[n] are the balances
\* after n entries, each on top of the last.
Rounds(bal, batch) ==
  LET after[n \in 0..Len(batch)] ==
        IF n = 0 THEN bal
        ELSE [after[n-1] EXCEPT ![batch[n].contributor] = @ + batch[n].amount]
  IN  after
Applied(bal, batch) == Rounds(bal, batch)[Len(batch)]

\* Mutant: entries that are not positive are let through when staging.
ValidBatchLax(batch) == batch # <<>> /\ Len(batch) <= MaxBatch

\* stage_optimistic_batch: what it rejects, and total_delta.
ValidBatch(batch) ==
  /\ batch # <<>>
  /\ Len(batch) <= MaxBatch
  /\ \A i \in 1..Len(batch) : batch[i].amount > 0
TotalDelta(batch) ==
  PrefixSums([i \in 1..Len(batch) |-> batch[i].amount], Len(batch))[Len(batch)]

-----------------------------------------------------------------------------
BatchInit ==
  balance = [a \in Addresses |-> 0] /\ batchTotal = 0 /\ coreTotal = 0

\* stage_optimistic_batch and commit_optimistic_state of the same entries; an
\* overflow anywhere undoes the call.  No signature is asked for.
ExecuteBatch(batch) ==
  /\ ValidBatch(batch)
  /\ batchTotal + TotalDelta(batch) <= MaxTotal
  /\ balance' = Applied(balance, batch)
  /\ \A a \in Addresses : balance'[a] <= MaxTotal
  /\ batchTotal' = batchTotal + TotalDelta(batch)
  /\ Unsigned
  /\ UNCHANGED coreTotal

\* What contribute of lib.rs does to the same keys (Campaign has all of it).
ContributeDirectly(c, amount) ==
  /\ amount > 0
  /\ balance[c] + amount <= MaxTotal /\ coreTotal + amount <= MaxTotal
  /\ balance' = [balance EXCEPT ![c] = @ + amount]
  /\ coreTotal' = coreTotal + amount
  /\ SignedBy(c)
  /\ UNCHANGED batchTotal

BatchNext ==
  \/ \E batch \in Batches : ExecuteBatch(batch)
  \/ \E c \in Addresses, amount \in BatchAmounts : ContributeDirectly(c, amount)

BatchSpec == LedgerInit /\ BatchInit /\ [][BatchNext]_<<ledgerVars, batchVars>>
-----------------------------------------------------------------------------
\* Amounts never fall below zero or pass the largest one.
BatchTypeOK ==
  /\ balance \in [Addresses -> 0..MaxTotal]
  /\ batchTotal \in 0..MaxTotal /\ coreTotal \in 0..MaxTotal

\* The entries are the two totals' money and nothing else, whatever the order
\* of batches and contributions and however often a batch names an address.
SplitBooks == Sum(balance, Addresses) = batchTotal + coreTotal

\* optimistic_execution.rs:163 "Reads the current `TotalRaised` once, applies
\* `state.total_delta`, and writes back": what total_raised reports, which is
\* kept elsewhere, should have grown.
BatchCounted == coreTotal = Sum(balance, Addresses)
=============================================================================
