-------------------------- MODULE TrustedContracts --------------------------
(***************************************************************************)
(* The allowlist of external contracts in cross_rollup_communication.rs,   *)
(* kept by the campaign's admin in one bounded list.                       *)
(***************************************************************************)
EXTENDS Ledger, Loops, FiniteSets

CONSTANTS Targets,     \* contracts that may be listed or called
          MaxTrusted   \* MAX_TRUSTED_CONTRACTS, 20 in the code

ASSUME TrustAssumption == MaxTrusted \in Nat /\ None \notin Targets

VARIABLES
  keeper,   \* DataKey::Admin
  trusted,  \* CrossRollupKey::TrustedContracts
  called,   \* the contract that the latest call invoked, if it did
  standing  \* history: registered and not deregistered since
trustVars == <<keeper, trusted, called, standing>>

-----------------------------------------------------------------------------
TrustedSet == {trusted[i] : i \in 1..Len(trusted)}

\* is_trusted
IsTrusted(t) == t \in TrustedSet

TrustInit ==
  keeper = None /\ trusted = <<>> /\ called = None /\ standing = {}

\* initialize stores the admin once.
ProvisionKeeper(a) ==
  /\ keeper = None
  /\ keeper' = a /\ called' = None
  /\ Unsigned
  /\ UNCHANGED <<trusted, standing>>

\* Mutant: a listed contract is listed again.
RegisterAgain(c, t) ==
  /\ c = keeper
  /\ Len(trusted) < MaxTrusted
  /\ trusted' = Append(trusted, t)
  /\ standing' = standing \cup {t} /\ called' = None
  /\ SignedBy(c)
  /\ UNCHANGED keeper

\* register_trusted_contract; a listed contract changes nothing, also when
\* the list is full.
RegisterTrusted(c, t) ==
  /\ c = keeper
  /\ IsTrusted(t) \/ Len(trusted) < MaxTrusted
  /\ trusted' = IF IsTrusted(t) THEN trusted ELSE Append(trusted, t)
  /\ standing' = standing \cup {t} /\ called' = None
  /\ SignedBy(c)
  /\ UNCHANGED keeper

\* deregister_trusted_contract, whether t is listed or not.
DeregisterTrusted(c, t) ==
  /\ c = keeper
  /\ trusted' = Without(trusted, t)
  /\ standing' = standing \ {t} /\ called' = None
  /\ SignedBy(c)
  /\ UNCHANGED keeper

\* invoke_external
InvokeExternal(t) ==
  /\ IsTrusted(t)
  /\ called' = t
  /\ Unsigned
  /\ UNCHANGED <<keeper, trusted, standing>>

TrustNext ==
  \/ \E a \in Addresses : ProvisionKeeper(a)
  \/ \E t \in Targets :
       \/ InvokeExternal(t)
       \/ \E c \in Addresses : RegisterTrusted(c, t) \/ DeregisterTrusted(c, t)

TrustSpec == LedgerInit /\ TrustInit /\ [][TrustNext]_<<ledgerVars, trustVars>>
-----------------------------------------------------------------------------
\* The list is bounded.
TrustTypeOK ==
  /\ keeper \in Addresses \cup {None}
  /\ trusted \in Seq(Targets) /\ Len(trusted) <= MaxTrusted
  /\ called \in Targets \cup {None}
  /\ standing \subseteq Targets

\* The list holds each standing contract once: the bound counts contracts, and
\* one call of deregister takes a contract off whatever was called before.
TrustedExact ==
  TrustedSet = standing /\ Len(trusted) = Cardinality(standing)

\* No contract is invoked before it is registered or after it is deregistered.
OnlyStandingCalled == [][called' # None => called' \in standing]_<<ledgerVars, trustVars>>
=============================================================================
