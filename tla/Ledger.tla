------------------------------- MODULE Ledger -------------------------------
(***************************************************************************)
(* What the library modules of the contract see of the ledger: a clock and *)
(* the authorisations a transaction carries (Address::require_auth).       *)
(***************************************************************************)
EXTENDS Integers

CONSTANTS Addresses,   \* who can call or be named
          MaxTime,     \* bound: the last ledger time
          None         \* an absent storage entry

ASSUME LedgerAssumption ==
  MaxTime \in Nat /\ None \notin Addresses \cup Int

VARIABLES now,      \* env.ledger().timestamp()
          signer    \* whose require_auth the latest call passed, if any
ledgerVars == <<now, signer>>

LedgerInit == now = 0 /\ signer = None

LedgerTypeOK == now \in 0..MaxTime /\ signer \in Addresses \cup {None}

\* A call that c authorised, and one that nobody had to.
SignedBy(c) == signer' = c /\ UNCHANGED now
Unsigned == signer' = None /\ UNCHANGED now

\* Time passes between transactions.
Tick ==
  /\ now < MaxTime
  /\ now' = now + 1
  /\ signer' = None
=============================================================================
