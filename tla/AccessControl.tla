---------------------------- MODULE AccessControl ----------------------------
(***************************************************************************)
(* The single-holder roles of access_control.rs (DefaultAdmin, Pauser,     *)
(* GovernanceAddress), the two-step hand-over of the first, and what they  *)
(* guard: the pause switch and the platform fee.  Beside them stands       *)
(* DataKey::Admin, the key that upgrade of lib.rs asks for.                *)
(***************************************************************************)
EXTENDS Ledger

CONSTANTS FeeRates,  \* the rates set_platform_fee is called with
          MaxFee,    \* 10_000 in the code
          Hashes,    \* the WASM hashes upgrade is called with
          ZeroHash   \* the hash of all zeros

ASSUME AccessAssumption ==
  FeeRates \subseteq Nat /\ MaxFee \in Nat /\ ZeroHash \in Hashes

VARIABLES
  defaultAdmin,  \* DataKey::DefaultAdmin
  pauser,        \* DataKey::Pauser
  governance,    \* DataKey::GovernanceAddress, which no call replaces
  upgrader,      \* DataKey::Admin, which only initialize writes
  pendingAdmin,  \* AccessControlKey::PendingDefaultAdmin
  halted,        \* DataKey::Paused
  feeRate,       \* fee_bps of DataKey::PlatformConfig
  code,          \* the hash of the contract's code
  nomination,    \* history: who was proposed as admin and neither
                 \* cancelled nor admitted since
  holders        \* history: who has held the role while that proposal stood
accessVars == <<defaultAdmin, pauser, governance, upgrader, pendingAdmin,
                halted, feeRate, code, nomination, holders>>

-----------------------------------------------------------------------------
AccessInit ==
  /\ defaultAdmin = None /\ pauser = None /\ governance = None
  /\ upgrader = None /\ pendingAdmin = None /\ nomination = None /\ holders = {}
  /\ halted = FALSE /\ feeRate = None /\ code = None

\* initialize stores upgrader; the other three keys are written outside the
\* entry points, as the repository's tests do.
ProvisionKeys(d, p, g, u) ==
  /\ defaultAdmin = None
  /\ defaultAdmin' = d /\ pauser' = p /\ governance' = g /\ upgrader' = u
  /\ Unsigned
  /\ UNCHANGED <<pendingAdmin, halted, feeRate, code, nomination, holders>>

HaltContract(c) ==
  /\ c \in {pauser, defaultAdmin}
  /\ halted' = TRUE
  /\ SignedBy(c)
  /\ UNCHANGED <<defaultAdmin, pauser, governance, upgrader, pendingAdmin,
                 feeRate, code, nomination, holders>>

ResumeContract(c) ==
  /\ c = defaultAdmin
  /\ halted' = FALSE
  /\ SignedBy(c)
  /\ UNCHANGED <<defaultAdmin, pauser, governance, upgrader, pendingAdmin,
                 feeRate, code, nomination, holders>>

\* Mutant: the rate is not compared with the maximum.
SetPlatformFeeUnbounded(c, rate) ==
  /\ c = governance
  /\ feeRate' = rate
  /\ SignedBy(c)
  /\ UNCHANGED <<defaultAdmin, pauser, governance, upgrader, pendingAdmin,
                 halted, code, nomination, holders>>

SetPlatformFee(c, rate) ==
  /\ c = governance
  /\ rate <= MaxFee
  /\ feeRate' = rate
  /\ SignedBy(c)
  /\ UNCHANGED <<defaultAdmin, pauser, governance, upgrader, pendingAdmin,
                 halted, code, nomination, holders>>

\* The direct transfer leaves a pending proposal as it is.
TransferDefaultAdmin(c, a) ==
  /\ c = defaultAdmin
  /\ defaultAdmin' = a
  /\ holders' = IF nomination = None THEN {} ELSE holders \cup {a}
  /\ SignedBy(c)
  /\ UNCHANGED <<pauser, governance, upgrader, pendingAdmin, halted, feeRate,
                 code, nomination>>

TransferPauser(c, a) ==
  /\ c = defaultAdmin
  /\ pauser' = a
  /\ SignedBy(c)
  /\ UNCHANGED <<defaultAdmin, governance, upgrader, pendingAdmin, halted,
                 feeRate, code, nomination, holders>>

ProposeDefaultAdmin(c, a) ==
  /\ c = defaultAdmin
  /\ a # defaultAdmin
  /\ pendingAdmin' = a /\ nomination' = a /\ holders' = {c}
  /\ SignedBy(c)
  /\ UNCHANGED <<defaultAdmin, pauser, governance, upgrader, halted, feeRate,
                 code>>

CancelDefaultAdminTransfer(c) ==
  /\ c = defaultAdmin
  /\ pendingAdmin' = None /\ nomination' = None /\ holders' = {}
  /\ SignedBy(c)
  /\ UNCHANGED <<defaultAdmin, pauser, governance, upgrader, halted, feeRate,
                 code>>

\* Mutant: the proposal can be accepted again.
AcceptKeepsPending(c) ==
  /\ c = pendingAdmin
  /\ defaultAdmin' = c
  /\ nomination' = None /\ holders' = {}
  /\ SignedBy(c)
  /\ UNCHANGED <<pauser, governance, upgrader, pendingAdmin, halted, feeRate,
                 code>>

AcceptDefaultAdminRole(c) ==
  /\ c = pendingAdmin
  /\ defaultAdmin' = c
  /\ pendingAdmin' = None /\ nomination' = None /\ holders' = {}
  /\ SignedBy(c)
  /\ UNCHANGED <<pauser, governance, upgrader, halted, feeRate, code>>

\* upgrade of lib.rs: the stored Admin signs, whoever calls.
Upgrade(hash) ==
  /\ hash # ZeroHash
  /\ upgrader # None
  /\ code' = hash
  /\ SignedBy(upgrader)
  /\ UNCHANGED <<defaultAdmin, pauser, governance, upgrader, pendingAdmin,
                 halted, feeRate, nomination, holders>>

AccessNext ==
  \/ \E d, p, g, u \in Addresses : ProvisionKeys(d, p, g, u)
  \/ \E c \in Addresses :
       \/ HaltContract(c) \/ ResumeContract(c)
       \/ CancelDefaultAdminTransfer(c) \/ AcceptDefaultAdminRole(c)
       \/ \E rate \in FeeRates : SetPlatformFee(c, rate)
       \/ \E a \in Addresses : \/ TransferDefaultAdmin(c, a)
                               \/ TransferPauser(c, a)
                               \/ ProposeDefaultAdmin(c, a)
  \/ \E hash \in Hashes : Upgrade(hash)

AccessSpec ==
  LedgerInit /\ AccessInit /\ [][AccessNext]_<<ledgerVars, accessVars>>
-----------------------------------------------------------------------------
\* Every role has one holder, the fee is at most the whole amount.
AccessTypeOK ==
  /\ {defaultAdmin, pauser, governance, upgrader, pendingAdmin, nomination}
       \subseteq Addresses \cup {None}
  /\ holders \subseteq Addresses
  /\ halted \in BOOLEAN
  /\ feeRate \in {r \in FeeRates : r <= MaxFee} \cup {None}
  /\ code \in (Hashes \ {ZeroHash}) \cup {None}

\* An administrator loses the role by his own signature, or, once for each
\* proposal, to the address proposed last, which signs.  In the second case he
\* made that proposal himself, or the role came to him directly while it stood,
\* and nobody who held it meanwhile cancelled it: accept_default_admin_role
\* does not ask who proposed.  So a proposal left standing at a direct transfer
\* lets its nominee in at any later time, even one who has held the role and
\* passed it on; a proposal accepted, replaced or cancelled lets nobody in.
AdminSuccession ==
  [][defaultAdmin # None /\ defaultAdmin' # defaultAdmin =>
       \/ signer' = defaultAdmin
       \/ /\ defaultAdmin \in holders /\ holders' = {}
          /\ defaultAdmin' = nomination /\ signer' = nomination]_<<ledgerVars, accessVars>>

\* What each key may change, whoever held it before: the pauser halts and
\* cannot resume, the admin has no say in the fee and none in the code.
SeparationOfDuties ==
  [][defaultAdmin # None =>
     /\ halted' # halted =>
          signer' = defaultAdmin \/ (halted' /\ signer' = pauser)
     /\ feeRate' # feeRate => signer' = governance
     /\ pauser' # pauser => signer' = defaultAdmin
     /\ code' # code => signer' = upgrader]_<<ledgerVars, accessVars>>
=============================================================================
