----------------------------- MODULE TokenMinter -----------------------------
(***************************************************************************)
(* The reward NFT contract of stellar_token_minter.rs.                     *)
(***************************************************************************)
EXTENDS Ledger, FiniteSets

CONSTANTS TokenIds   \* the token ids that may be minted

ASSUME MinterAssumption ==
  IsFiniteSet(TokenIds) /\ None \notin [by : Addresses, to : Addresses]

VARIABLES
  minterAdmin,  \* DataKey::Admin of the minter contract
  minter,       \* DataKey::Minter
  totalMinted,  \* DataKey::TotalMinted
  owner,        \* DataKey::TokenMetadata(id)
  appointed     \* history: whom initialize or the admin appointed last
minterVars == <<minterAdmin, minter, totalMinted, owner, appointed>>

-----------------------------------------------------------------------------
MinterInit ==
  /\ minterAdmin = None /\ minter = None /\ appointed = None
  /\ totalMinted = 0
  /\ owner = [id \in TokenIds |-> None]

\* initialize asks for no signature.
InitializeMinter(a, m) ==
  /\ minterAdmin = None
  /\ minterAdmin' = a /\ minter' = m
  /\ totalMinted' = 0
  /\ appointed' = [by |-> a, to |-> m]
  /\ Unsigned
  /\ UNCHANGED owner

Mint(to, id) ==
  /\ minter # None
  /\ owner[id] = None
  /\ owner' = [owner EXCEPT ![id] = to]
  /\ totalMinted' = totalMinted + 1
  /\ SignedBy(minter)
  /\ UNCHANGED <<minterAdmin, minter, appointed>>

\* Mutant: any caller who names the admin may appoint.
SetMinterUnsigned(a, m) ==
  /\ minterAdmin # None /\ a = minterAdmin
  /\ minter' = m
  /\ Unsigned
  /\ UNCHANGED <<minterAdmin, totalMinted, owner, appointed>>

\* set_minter: the stored admin signs and the caller has to name him.
SetMinter(a, m) ==
  /\ minterAdmin # None
  /\ a = minterAdmin
  /\ minter' = m
  /\ appointed' = [by |-> a, to |-> m]
  /\ SignedBy(minterAdmin)
  /\ UNCHANGED <<minterAdmin, totalMinted, owner>>

MinterNext ==
  \E a \in Addresses :
    \/ \E m \in Addresses : InitializeMinter(a, m) \/ SetMinter(a, m)
    \/ \E id \in TokenIds : Mint(a, id)

MinterSpec ==
  LedgerInit /\ MinterInit /\ [][MinterNext]_<<ledgerVars, minterVars>>
-----------------------------------------------------------------------------
Minted == {id \in TokenIds : owner[id] # None}

\* Roles, owners and the counter; initialize stores both roles or none, and no
\* token has an owner before.
MinterTypeOK ==
  /\ {minterAdmin, minter} \subseteq Addresses \/ {minterAdmin, minter} = {None}
  /\ minter = None => Minted = {}
  /\ totalMinted \in Nat
  /\ owner \in [TokenIds -> Addresses \cup {None}]
  /\ appointed \in [by : Addresses, to : Addresses] \cup {None}

\* total_minted is "guaranteed to be accurate": one for every id with an owner.
TotalExact == totalMinted = Cardinality(Minted)

\* A token has one owner for ever, and gets him by the signature of whoever
\* the admin appointed last.
OwnersFinal ==
  [][\A id \in TokenIds : owner'[id] # owner[id] =>
       /\ owner[id] = None
       /\ appointed # None /\ signer' = appointed.to
       /\ appointed.by = minterAdmin]_<<ledgerVars, minterVars>>
=============================================================================
