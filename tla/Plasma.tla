------------------------------- MODULE Plasma -------------------------------
(***************************************************************************)
(* The checkpoints and delayed exits of plasma_chain.rs.  The persistent   *)
(* entries are taken to stay alive: nothing in the code depends on their   *)
(* archival.                                                               *)
(***************************************************************************)
EXTENDS Ledger

CONSTANTS Blocks,     \* block numbers submit_checkpoint is called with
          TxCounts,   \* transaction counts it is called with
          MaxTxs,     \* MAX_TXS_PER_CHECKPOINT, 1024 in the code
          Bonds,      \* amounts and bonds request_exit is called with
          MinBond,    \* MIN_EXIT_BOND, 1 in the code
          ExitDelay   \* EXIT_DELAY_SECS, 3600 in the code

TxIndexes == UNION {0..n : n \in TxCounts}

ASSUME PlasmaAssumption ==
  /\ Blocks \subseteq Nat /\ TxCounts \subseteq Nat /\ Bonds \subseteq Int
  /\ MaxTxs \in Nat /\ MinBond \in Nat /\ ExitDelay \in Nat
  /\ None \notin [txs : Nat, operator : Addresses, at : Nat]
  /\ None \notin [block : Nat, tx : Nat, bond : Int, challenged : BOOLEAN,
                  requestedAt : Nat]

VARIABLES
  lastBlock,   \* PlasmaKey::LastCheckpointBlock
  checkpoint,  \* PlasmaKey::Checkpoint(b)
  exit,        \* PlasmaKey::Exit(claimant)
  objection    \* history: the exits that were challenged, by claimant
plasmaVars == <<lastBlock, checkpoint, exit, objection>>

-----------------------------------------------------------------------------
PlasmaInit ==
  /\ lastBlock = 0
  /\ checkpoint = [b \in Blocks |-> None]
  /\ exit = [a \in Addresses |-> None]
  /\ objection = [a \in Addresses |-> None]

\* submit_checkpoint, by anybody who signs.
SubmitCheckpoint(c, b, n) ==
  /\ n > 0 /\ n <= MaxTxs
  /\ b > lastBlock
  /\ checkpoint' = [checkpoint EXCEPT ![b] =
                      [txs |-> n, operator |-> c, at |-> now]]
  /\ lastBlock' = b
  /\ SignedBy(c)
  /\ UNCHANGED <<exit, objection>>

\* Mutants: a pending exit is replaced; the index is one out of range.
RequestOverPending(c, b, tx, amount, bond) ==
  /\ amount > 0 /\ bond >= MinBond
  /\ checkpoint[b] # None /\ tx < checkpoint[b].txs
  /\ exit' = [exit EXCEPT ![c] =
                [block |-> b, tx |-> tx, bond |-> bond, challenged |-> FALSE,
                 requestedAt |-> now]]
  /\ SignedBy(c)
  /\ UNCHANGED <<lastBlock, checkpoint, objection>>
RequestOutOfRange(c, b, tx, amount, bond) ==
  /\ amount > 0 /\ bond >= MinBond
  /\ checkpoint[b] # None /\ tx <= checkpoint[b].txs
  /\ exit[c] = None
  /\ exit' = [exit EXCEPT ![c] =
                [block |-> b, tx |-> tx, bond |-> bond, challenged |-> FALSE,
                 requestedAt |-> now]]
  /\ SignedBy(c)
  /\ UNCHANGED <<lastBlock, checkpoint, objection>>

\* request_exit; the amount is checked and carried along.
RequestExit(c, b, tx, amount, bond) ==
  /\ amount > 0 /\ bond >= MinBond
  /\ checkpoint[b] # None
  /\ tx < checkpoint[b].txs
  /\ exit[c] = None
  /\ exit' = [exit EXCEPT ![c] =
                [block |-> b, tx |-> tx, bond |-> bond, challenged |-> FALSE,
                 requestedAt |-> now]]
  /\ SignedBy(c)
  /\ UNCHANGED <<lastBlock, checkpoint, objection>>

\* challenge_exit, by anybody who signs, at any time.
ChallengeExit(c, claimant) ==
  /\ exit[claimant] # None
  /\ ~exit[claimant].challenged
  /\ exit' = [exit EXCEPT ![claimant].challenged = TRUE]
  /\ objection' = [objection EXCEPT ![claimant] = exit[claimant]]
  /\ SignedBy(c)
  /\ UNCHANGED <<lastBlock, checkpoint>>

\* finalize_exit: the delay is counted from the checkpoint.
FinalizeExit(c) ==
  /\ exit[c] # None
  /\ ~exit[c].challenged
  /\ checkpoint[exit[c].block] # None
  /\ now >= checkpoint[exit[c].block].at + ExitDelay
  /\ exit' = [exit EXCEPT ![c] = None]
  /\ SignedBy(c)
  /\ UNCHANGED <<lastBlock, checkpoint, objection>>

PlasmaNext ==
  \/ Tick /\ UNCHANGED plasmaVars
  \/ \E c \in Addresses :
       \/ FinalizeExit(c)
       \/ \E claimant \in Addresses : ChallengeExit(c, claimant)
       \/ \E b \in Blocks :
            \/ \E n \in TxCounts : SubmitCheckpoint(c, b, n)
            \/ \E tx \in TxIndexes, amount, bond \in Bonds :
                 RequestExit(c, b, tx, amount, bond)

PlasmaSpec ==
  LedgerInit /\ PlasmaInit /\ [][PlasmaNext]_<<ledgerVars, plasmaVars>>
-----------------------------------------------------------------------------
Paid(a) == exit[a] # None /\ exit'[a] = None

\* Checkpoints within the limit, none beyond the last block, and exits with a
\* bond.
PlasmaTypeOK ==
  /\ lastBlock \in Blocks \cup {0}
  /\ checkpoint \in [Blocks ->
       [txs : 1..MaxTxs, operator : Addresses, at : 0..MaxTime] \cup {None}]
  /\ \A b \in Blocks : b > lastBlock => checkpoint[b] = None
  /\ exit \in [Addresses ->
       [block : Blocks, tx : TxIndexes, bond : {x \in Bonds : x >= MinBond},
        challenged : BOOLEAN, requestedAt : 0..MaxTime] \cup {None}]

\* An exit names a transaction of a checkpoint older than itself, so
\* finalize_exit never aborts for want of the checkpoint.
ExitBacked ==
  \A a \in Addresses : exit[a] # None =>
    LET point == checkpoint[exit[a].block]
    IN  point # None /\ exit[a].tx < point.txs /\ point.at <= exit[a].requestedAt

\* "Challenged exits cannot be finalized": a challenged exit stays as it is for
\* ever, so its claimant is neither paid nor able to ask again.
ChallengedNeverPaid ==
  [][\A a \in Addresses : objection[a] # None =>
       /\ ~Paid(a) /\ exit'[a] = exit[a]
       /\ exit[a] = [objection[a] EXCEPT !.challenged = TRUE]]_<<ledgerVars, plasmaVars>>

\* plasma_chain.rs:16 says "Exit finalization is delayed by `EXIT_DELAY_SECS`";
\* the delay may have run out before the exit was requested.
ExitDelayed ==
  [][\A a \in Addresses : Paid(a) =>
       now >= exit[a].requestedAt + ExitDelay]_<<ledgerVars, plasmaVars>>
=============================================================================
