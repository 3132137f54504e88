------------------------------ MODULE Versions ------------------------------
(***************************************************************************)
(* What is initialised once and upgraded in steps beside the campaign:     *)
(* state_migration.rs with its schema version, proxy.rs with the hash of   *)
(* the code it delegates to, and the crate soroban_sdk_minor with its one  *)
(* administrator.                                                          *)
(***************************************************************************)
EXTENDS Ledger

CONSTANTS CurrentSchema,  \* CURRENT_SCHEMA_VERSION, 2 in the code
          MaxSchema,      \* u32::MAX
          ImplHashes,     \* the hashes a proxy is given
          ZeroImpl        \* the hash of all zeros

ASSUME VersionsAssumption ==
  /\ CurrentSchema \in Nat \ {0} /\ MaxSchema \in Nat /\ CurrentSchema <= MaxSchema
  /\ ZeroImpl \in ImplHashes /\ None \notin ImplHashes

Schemas == 0..MaxSchema

VARIABLES
  schema,      \* StateMigrationKey::Version, 0 where the key is absent
  proxyAdmin,  \* ProxyDataKey::Admin
  implHash,    \* ProxyDataKey::ImplHash
  minorAdmin   \* DataKey::Admin of soroban_sdk_minor
versionVars == <<schema, proxyAdmin, implHash, minorAdmin>>

VersionsInit ==
  schema = 0 /\ proxyAdmin = None /\ implHash = None /\ minorAdmin = None
-----------------------------------------------------------------------------
\* set_schema_version checks nothing: any version may follow any other.
SetSchemaVersion(v) ==
  /\ schema' = v
  /\ Unsigned /\ UNCHANGED <<proxyAdmin, implHash, minorAdmin>>

\* migrate_to: the loop stores every version on the way and ends at the
\* target; the steps between the versions change nothing else yet.
MigrateTo(target) ==
  /\ schema # 0
  /\ target \in schema..CurrentSchema
  /\ schema' = target
  /\ Unsigned /\ UNCHANGED <<proxyAdmin, implHash, minorAdmin>>

\* initialize of CrowdfundProxy
InitializeProxy(a, hash) ==
  /\ proxyAdmin = None
  /\ hash # ZeroImpl
  /\ proxyAdmin' = a /\ implHash' = hash
  /\ SignedBy(a) /\ UNCHANGED <<schema, minorAdmin>>

\* upgrade of CrowdfundProxy; its administrator signs, whoever calls.
UpgradeProxy(hash) ==
  /\ proxyAdmin # None
  /\ hash # ZeroImpl
  /\ implHash' = hash
  /\ SignedBy(proxyAdmin) /\ UNCHANGED <<schema, proxyAdmin, minorAdmin>>

\* init of SorobanSdkMinor
InitMinor(a) ==
  /\ minorAdmin = None
  /\ minorAdmin' = a
  /\ SignedBy(a) /\ UNCHANGED <<schema, proxyAdmin, implHash>>

\* check_auth and emit_ping of SorobanSdkMinor ask for a signature and store
\* nothing.
PingMinor(a) == SignedBy(a) /\ UNCHANGED versionVars

VersionsNext ==
  \/ \E v \in Schemas : SetSchemaVersion(v) \/ MigrateTo(v)
  \/ \E a \in Addresses :
       InitMinor(a) \/ PingMinor(a) \/ \E h \in ImplHashes : InitializeProxy(a, h)
  \/ \E h \in ImplHashes : UpgradeProxy(h)

VersionsSpec == LedgerInit /\ VersionsInit /\ [][VersionsNext]_<<ledgerVars, versionVars>>
-----------------------------------------------------------------------------
\* A proxy has both its entries or none.  The schema version is whatever was
\* set last: it may be newer than the code, and then no migration succeeds.
VersionsTypeOK ==
  /\ schema \in Schemas
  /\ {proxyAdmin, minorAdmin} \subseteq Addresses \cup {None}
  /\ implHash \in (ImplHashes \ {ZeroImpl}) \cup {None}
  /\ proxyAdmin = None <=> implHash = None
=============================================================================
