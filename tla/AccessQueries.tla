---------------------------- MODULE AccessQueries ----------------------------
(***************************************************************************)
(* What other code asks of the access modules without changing them: the   *)
(* permission matrix and the queries of role_based_access.rs, the getters  *)
(* of access_control.rs and session_management.rs.                         *)
(***************************************************************************)
EXTENDS RoleBasedAccess, AccessControl, Session, FiniteSets

ASSUME QueriesAssumption == None \notin [new_holder : Addresses, effective_time : Nat]

\* enum Action
Permissions ==
  {"ManageRoles", "ViewAuditLogs", "CreateCampaign", "ModifyCampaign",
   "FinalizeCampaign", "WithdrawFunds", "ViewFinancials", "PauseContract",
   "UnpauseContract", "MintTokens", "UpdateConfig"}

\* has_role; a role that is not in use has no members.
HasRole(a, r) == r \in Roles /\ a \in Holders(r)

\* The calls below are made by a, who signs; they panic or return.
RequireRole(a, r) == HasRole(a, r)
RequireAnyRole(a, rs) == \E r \in rs : HasRole(a, r)
RequireAllRoles(a, rs) == \A r \in rs : HasRole(a, r)

\* get_role_member_count: the length of the list.
RoleMemberCount(r) == Len(members[r])

\* has_permission
HasPermission(r, action) ==
  r \in CASE action \in {"ManageRoles", "UnpauseContract", "UpdateConfig"} -> {"Admin"}
          [] action = "ViewAuditLogs" -> {"Admin", "Auditor"}
          [] action \in {"CreateCampaign", "ModifyCampaign", "FinalizeCampaign"} ->
               {"Admin", "CampaignManager"}
          [] action = "WithdrawFunds" -> {"Admin", "Finance"}
          [] action = "ViewFinancials" -> {"Admin", "Auditor", "Finance"}
          [] action = "PauseContract" -> {"Admin", "Operator"}
          [] action = "MintTokens" -> {"Admin", "Minter"}

\* get_address_roles, is_admin
AddressRoles(a) == {r \in RoleNames : HasRole(a, r)}
IsAdmin(a) == HasRole(a, "Admin")

\* require_permission
RequirePermission(a, action) ==
  \E r \in RoleNames : HasRole(a, r) /\ HasPermission(r, action)

\* get_pending_transfer needs both entries.
PendingTransfer(r) ==
  IF pendingTo[r] = None \/ pendingAt[r] = None THEN None
  ELSE [new_holder |-> pendingTo[r], effective_time |-> pendingAt[r]]

\* get_default_admin, get_pauser, get_governance panic where nothing is stored.
KeyHolder ==
  [default_admin |-> defaultAdmin, pauser |-> pauser, governance |-> governance]

\* get_pending_default_admin
PendingDefaultAdmin == pendingAdmin

\* get_session returns a used session too, until it expires.
GetSession(a) ==
  IF session[a] = None THEN None
  ELSE IF Expired(session[a].expiresAt) THEN None ELSE session[a]
-----------------------------------------------------------------------------
\* An Admin holds every permission.  Whoever may hand a role out, or take it
\* away, holds what it permits; nobody who is not an administrator can lift a
\* pause, change the configuration or the roles, whatever he holds besides.
PermissionsFollowRoles ==
  \A a \in Addresses :
    /\ IsAdmin(a) => \A p \in Permissions : RequirePermission(a, p)
    /\ \A r \in Roles : MayManage(a, r) =>
         \A p \in Permissions : HasPermission(r, p) => RequirePermission(a, p)
    /\ ~IsAdmin(a) => \A p \in {"ManageRoles", "UnpauseContract", "UpdateConfig"} :
                        ~RequirePermission(a, p)
    /\ RequireAllRoles(a, AddressRoles(a))
    /\ RequireAnyRole(a, Roles) <=> AddressRoles(a) # {}
    /\ RequireRole(a, "Operator") => RequirePermission(a, "PauseContract")

\* The count of members is never below the number of holders, and a pending
\* transfer is reported with a time that lies a full delay after the call that
\* proposed it; an admin is pending only where there is one to propose him.
QueriesMatchTables ==
  /\ \A r \in Roles :
       /\ RoleMemberCount(r) >= Cardinality(Holders(r))
       /\ PendingTransfer(r) # None <=> proposal[r] # None
       /\ PendingTransfer(r) # None =>
            PendingTransfer(r).effective_time = proposal[r].at + TransferDelay
  /\ PendingDefaultAdmin # None => KeyHolder.default_admin # None

\* What get_session shows unused can be used, and what it shows used or not at
\* all can be replaced.
SessionsAsShown ==
  \A a \in Addresses, ttl \in Ttls :
    LET shown == GetSession(a) IN
    /\ ValidateOpen(a) <=> shown # None /\ ~shown.used
    /\ ValidTtl(ttl) =>
         (CreateOpen(a, ttl) <=> shown = None \/ shown.used)
=============================================================================
