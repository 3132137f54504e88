-------------------------- MODULE RoleBasedAccess --------------------------
(***************************************************************************)
(* The role tables of role_based_access.rs: a list of members per role, at *)
(* most one delayed transfer pending per role, kept under two storage keys *)
(* (the new holder and the time it takes effect).                          *)
(***************************************************************************)
EXTENDS Ledger, Loops

CONSTANTS Roles,          \* the roles in use, among RoleNames
          TransferDelay,  \* ROLE_TRANSFER_DELAY, 86400 in the code
          MaxMembers      \* bound: the longest member list

RoleNames ==
  {"Admin", "Auditor", "CampaignManager", "Finance", "Operator", "Minter"}

ASSUME RoleAssumption ==
  /\ "Admin" \in Roles /\ Roles \subseteq RoleNames
  /\ TransferDelay \in Nat /\ MaxMembers \in Nat \ {0}
  /\ None \notin [by : Addresses, at : Nat]

VARIABLES
  members,    \* RoleMembers(r)
  pendingTo,  \* PendingRoleTransfer(r)
  pendingAt,  \* PendingTransferTimestamp(r)
  proposal    \* history: by whom and when the pending transfer was initiated
rolesVars == <<members, pendingTo, pendingAt, proposal>>

-----------------------------------------------------------------------------
Holders(r) == {members[r][i] : i \in 1..Len(members[r])}

\* Whose holders may assign, revoke and transfer role r.
Assigners(r) == IF r = "Auditor" THEN {"Admin"} ELSE {"Admin", r}

MayManage(c, r) == \E q \in Assigners(r) : c \in Holders(q)

-----------------------------------------------------------------------------
RolesInit ==
  /\ members   = [r \in Roles |-> <<>>]
  /\ pendingTo = [r \in Roles |-> None]
  /\ pendingAt = [r \in Roles |-> None]
  /\ proposal  = [r \in Roles |-> None]

\* initialize_rbac neither asks for a signature nor whether it has run before.
InitializeRbac(a) ==
  /\ members' = [members EXCEPT !["Admin"] = <<a>>]
  /\ Unsigned
  /\ UNCHANGED <<pendingTo, pendingAt, proposal>>

\* assign_role
AssignRole(c, r, a) ==
  /\ c # a
  /\ MayManage(c, r)
  /\ a \notin Holders(r)
  /\ Len(members[r]) < MaxMembers
  /\ members' = [members EXCEPT ![r] = Append(@, a)]
  /\ SignedBy(c)
  /\ UNCHANGED <<pendingTo, pendingAt, proposal>>

\* revoke_role; the last administrator is recognised by the list's length.
RevokeRole(c, r, a) ==
  /\ MayManage(c, r)
  /\ a \in Holders(r)
  /\ r = "Admin" => Len(members[r]) > 1
  /\ members' = [members EXCEPT ![r] = Without(@, a)]
  /\ SignedBy(c)
  /\ UNCHANGED <<pendingTo, pendingAt, proposal>>

\* Mutant: the time of an earlier transfer stays.
InitiateKeepsTime(c, r, a) ==
  /\ MayManage(c, r)
  /\ pendingTo' = [pendingTo EXCEPT ![r] = a]
  /\ pendingAt' = [pendingAt EXCEPT ![r] =
                     IF @ = None THEN now + TransferDelay ELSE @]
  /\ proposal' = [proposal EXCEPT ![r] = [by |-> c, at |-> now]]
  /\ SignedBy(c)
  /\ UNCHANGED members

\* initiate_role_transfer; it replaces a pending one.
InitiateRoleTransfer(c, r, a) ==
  /\ MayManage(c, r)
  /\ pendingTo' = [pendingTo EXCEPT ![r] = a]
  /\ pendingAt' = [pendingAt EXCEPT ![r] = now + TransferDelay]
  /\ proposal' = [proposal EXCEPT ![r] = [by |-> c, at |-> now]]
  /\ SignedBy(c)
  /\ UNCHANGED members

\* complete_role_transfer, by anybody: the first member of the list loses the
\* role, in every copy, and the new holder is put at the end.
CompleteRoleTransfer(c, r) ==
  /\ pendingTo[r] # None /\ pendingAt[r] # None
  /\ now >= pendingAt[r]
  /\ members[r] # <<>>
  /\ members' = [members EXCEPT ![r] =
                   Append(Without(@, Head(@)), pendingTo[r])]
  /\ pendingTo' = [pendingTo EXCEPT ![r] = None]
  /\ pendingAt' = [pendingAt EXCEPT ![r] = None]
  /\ proposal'  = [proposal EXCEPT ![r] = None]
  /\ SignedBy(c)

\* Mutant: the time stays behind.
CancelKeepsTime(c, r) ==
  /\ pendingTo[r] # None /\ c \in Holders("Admin")
  /\ pendingTo' = [pendingTo EXCEPT ![r] = None]
  /\ proposal'  = [proposal EXCEPT ![r] = None]
  /\ SignedBy(c)
  /\ UNCHANGED <<members, pendingAt>>

\* cancel_role_transfer
CancelRoleTransfer(c, r) ==
  /\ pendingTo[r] # None
  /\ c \in Holders("Admin")
  /\ pendingTo' = [pendingTo EXCEPT ![r] = None]
  /\ pendingAt' = [pendingAt EXCEPT ![r] = None]
  /\ proposal'  = [proposal EXCEPT ![r] = None]
  /\ SignedBy(c)
  /\ UNCHANGED members

RolesNext ==
  \/ Tick /\ UNCHANGED rolesVars
  \/ \E a \in Addresses : InitializeRbac(a)
  \/ \E c \in Addresses, r \in Roles :
       \/ CompleteRoleTransfer(c, r) \/ CancelRoleTransfer(c, r)
       \/ \E a \in Addresses : \/ AssignRole(c, r, a) \/ RevokeRole(c, r, a)
                               \/ InitiateRoleTransfer(c, r, a)

RolesSpec ==
  LedgerInit /\ RolesInit /\ [][RolesNext]_<<ledgerVars, rolesVars>>
-----------------------------------------------------------------------------
\* Member lists within their bound, and pending transfers.
RolesTypeOK ==
  /\ members \in [Roles -> Seq(Addresses)]
  /\ \A r \in Roles : Len(members[r]) <= MaxMembers
  /\ pendingTo \in [Roles -> Addresses \cup {None}]
  /\ pendingAt \in [Roles -> Nat \cup {None}]
  /\ proposal \in [Roles -> [by : Addresses, at : Nat] \cup {None}]

\* The new holder and the time of a transfer are two storage entries that five
\* calls write; one never outlives the other.
PendingPaired ==
  \A r \in Roles : /\ pendingTo[r] = None <=> pendingAt[r] = None
                   /\ pendingTo[r] = None <=> proposal[r] = None

\* A pending transfer takes effect a full delay after it was last initiated.
TimesExact ==
  \A r \in Roles :
    pendingAt[r] # None => pendingAt[r] = proposal[r].at + TransferDelay

RoleInv == LedgerTypeOK /\ RolesTypeOK /\ PendingPaired /\ TimesExact

\* The steps on role r that nobody has to be authorised for.
Starts(r) == r = "Admin" /\ signer' = None
Completes(r) ==
  /\ pendingTo[r] # None /\ pendingTo'[r] = None
  /\ pendingTo[r] \in {members'[r][i] : i \in 1..Len(members'[r])}

\* A role's table changes only by a call that a holder of one of its assigner
\* roles signed, or by a transfer such a holder initiated a full delay ago and
\* nobody replaced since: an Operator never gets at the Admin table.
TablesGuarded ==
  [][\A r \in Roles : members'[r] # members[r] =>
       \/ Starts(r)
       \/ signer' # None /\ MayManage(signer', r)
       \/ Completes(r) /\ now >= proposal[r].at + TransferDelay]_<<ledgerVars, rolesVars>>

\* A transfer is proposed by a holder of an assigner role, and disappears only
\* because an administrator cancels it or because its delay is over.
ProposalsGuarded ==
  [][\A r \in Roles : proposal'[r] # proposal[r] =>
       \/ proposal'[r] # None /\ MayManage(proposal'[r].by, r)
       \/ proposal'[r] = None /\ signer' \in Holders("Admin")
       \/ Completes(r) /\ now >= proposal[r].at + TransferDelay]_<<ledgerVars, rolesVars>>

\* "Atomically assigns role to new holder and revokes from old": whoever was
\* first in the list is no longer in it, however often it was.
HandoverComplete ==
  [][\A r \in Roles : Completes(r) /\ members[r] # <<>> /\ members' # members =>
       \A i \in 1..Len(members'[r]) :
         members'[r][i] = Head(members[r]) => Head(members[r]) = pendingTo[r]]_<<ledgerVars, rolesVars>>

\* A transfer is proposed, waits, and is taken back only as it should, and one
\* that completes leaves the address it takes the role from without it.
TransfersGuarded == ProposalsGuarded /\ HandoverComplete

\* role_based_access.rs:332 says "Cannot revoke the last Admin to prevent
\* lockout"; the guard counts list entries, and a completed transfer may list
\* the new holder twice, so that revoking him drops both.
LastAdminStays ==
  [][members["Admin"] # <<>> => members'["Admin"] # <<>>]_<<ledgerVars, rolesVars>>
=============================================================================
