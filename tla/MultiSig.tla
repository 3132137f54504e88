------------------------------ MODULE MultiSig ------------------------------
(***************************************************************************)
(* multi_signature_execution.rs of the security crate.  Its functions      *)
(* validate one step each; the caller keeps the configuration and the list *)
(* of approvals and does what they allow.  The list is the module's only   *)
(* memory of who approved.                                                 *)
(***************************************************************************)
EXTENDS Ledger, Sequences, FiniteSets

CONSTANTS SignerLists,     \* signer lists a configuration may have
          Thresholds,      \* thresholds it may have
          MinSigners,      \* MIN_SIGNERS, 1 in the code
          MaxSigners,      \* MAX_SIGNERS, 20 in the code
          ApprovalExpiry   \* APPROVAL_EXPIRY_SECONDS, a day in the code

ASSUME MultiSigAssumption ==
  /\ SignerLists \subseteq Seq(Addresses) /\ Thresholds \subseteq Nat
  /\ {MinSigners, MaxSigners, ApprovalExpiry} \subseteq Nat

\* struct MultiSigConfig, struct Approval
MultiSigConfig == [signers : SignerLists, threshold : Thresholds]
Approval == [signer : Addresses, timestamp : 0..MaxTime]

VARIABLES
  multisig,    \* the configuration in force
  approvals,   \* the approvals recorded for the proposal at hand
  executed,    \* the latest step executed the proposal
  assent       \* history: when each address last approved it, unless revoked
multisigVars == <<multisig, approvals, executed, assent>>

MultiSigInit ==
  /\ multisig = [signers |-> <<>>, threshold |-> 0]
  /\ approvals = <<>> /\ executed = FALSE
  /\ assent = [a \in Addresses |-> None]
-----------------------------------------------------------------------------
\* has_duplicate_signers
HasDuplicates(signers) ==
  \E i, j \in 1..Len(signers) : i < j /\ signers[i] = signers[j]

\* validate_config
ValidMultiSig(cfg) ==
  /\ Len(cfg.signers) \in MinSigners..MaxSigners
  /\ cfg.threshold \in 1..Len(cfg.signers)
  /\ ~HasDuplicates(cfg.signers)

SignerSet == {multisig.signers[i] : i \in 1..Len(multisig.signers)}

\* is_authorised_signer
Authorised(s) == s \in SignerSet

HasApproved(s) == \E i \in 1..Len(approvals) : approvals[i].signer = s

\* Mutant: only an approval of the same second is recognised.
ValidApprovalAgain(s) ==
  /\ Authorised(s)
  /\ ~\E i \in 1..Len(approvals) :
        approvals[i].signer = s /\ approvals[i].timestamp = now
  /\ now # 0

\* validate_approval; an approval that has expired still counts as one.
ValidApproval(s) == Authorised(s) /\ ~HasApproved(s) /\ now # 0

\* count_valid_approvals
ValidApprovals ==
  Cardinality({i \in 1..Len(approvals) : now - approvals[i].timestamp <= ApprovalExpiry})

\* check_execution_threshold
ExecutionResult ==
  IF ~ValidMultiSig(multisig) \/ \E i \in 1..Len(approvals) : ~Authorised(approvals[i].signer)
  THEN "rejected"
  ELSE IF ValidApprovals >= multisig.threshold THEN "approved" ELSE "pending"

\* validate_revocation: the position of the first approval of s.
RevocationIndex(s) ==
  CHOOSE i \in 1..Len(approvals) :
    approvals[i].signer = s /\ \A j \in 1..(i-1) : approvals[j].signer # s
-----------------------------------------------------------------------------
Approve(s) ==
  /\ ValidApproval(s)
  /\ approvals' = Append(approvals, [signer |-> s, timestamp |-> now])
  /\ assent' = [assent EXCEPT ![s] = now]
  /\ executed' = FALSE
  /\ SignedBy(s) /\ UNCHANGED multisig

Revoke(s) ==
  /\ Authorised(s) /\ HasApproved(s)
  /\ approvals' = [i \in 1..(Len(approvals) - 1) |->
                     approvals[IF i < RevocationIndex(s) THEN i ELSE i + 1]]
  /\ assent' = [assent EXCEPT ![s] = None]
  /\ executed' = FALSE
  /\ SignedBy(s) /\ UNCHANGED multisig

\* The caller stores another configuration; the approvals stay.
Reconfigure(cfg) ==
  /\ multisig' = cfg
  /\ executed' = FALSE
  /\ Unsigned /\ UNCHANGED <<approvals, assent>>

\* The caller executes what check_execution_threshold approves, and forgets
\* the approvals.
Execute ==
  /\ ExecutionResult = "approved"
  /\ executed' = TRUE
  /\ approvals' = <<>>
  /\ assent' = [a \in Addresses |-> None]
  /\ Unsigned /\ UNCHANGED multisig

MultiSigNext ==
  \/ \E s \in Addresses : Approve(s) \/ Revoke(s)
  \/ \E cfg \in MultiSigConfig : Reconfigure(cfg)
  \/ Execute
  \/ Tick /\ executed' = FALSE /\ UNCHANGED <<multisig, approvals, assent>>

MultiSigSpec == LedgerInit /\ MultiSigInit /\ [][MultiSigNext]_<<ledgerVars, multisigVars>>
-----------------------------------------------------------------------------
\* No address is in the list twice, and the list is what was approved.
MultiSigTypeOK ==
  /\ multisig \in MultiSigConfig \cup {[signers |-> <<>>, threshold |-> 0]}
  /\ {approvals[i] : i \in 1..Len(approvals)} =
       {[signer |-> a, timestamp |-> assent[a]] : a \in {b \in Addresses : assent[b] # None}}
  /\ executed \in BOOLEAN

\* Nothing is executed unless as many different signers as the threshold asks,
\* and one at least, approved within the expiry and did not revoke; all of them
\* are of the configuration in force, which has no fewer different signers than
\* MIN_SIGNERS, and nobody who is no longer a signer has an approval in the list.
ExecutedBacked ==
  [][executed' =>
       LET standing == {a \in Addresses : assent[a] # None} IN
       /\ standing \subseteq SignerSet
       /\ Cardinality(SignerSet) >= MinSigners /\ multisig.threshold >= 1
       /\ Cardinality({a \in standing : now - assent[a] <= ApprovalExpiry})
            >= multisig.threshold
    ]_<<ledgerVars, multisigVars>>
=============================================================================
