---------------------------- MODULE Dependencies ----------------------------
(***************************************************************************)
(* cargo_toml_rust.rs: a contract that keeps a list of approved            *)
(* dependencies, the latest version of each crate, a security policy and   *)
(* compliance rules.  Nobody has to sign any call.  Allowed licenses,      *)
(* descriptions and the severity of a rule are stored and never read; a    *)
(* string is reduced to whether it fits its bound.                         *)
(***************************************************************************)
EXTENDS Ledger, Loops

CONSTANTS
  Crates,          \* crate names
  OversizedNames,  \* those of more than MAX_CRATE_NAME_BYTES
  Releases,        \* versions of crates
  SecurityLevels,  \* levels callers give
  PolicyLevel,     \* max_security_level of the default policy, 3 in the code
  Policies,        \* the policies that update_security_policy is given
  MaxApproved,     \* MAX_APPROVED_DEPENDENCIES, 128 in the code
  MaxRules,        \* MAX_COMPLIANCE_RULES, 32 in the code
  MaxBlocked,      \* MAX_BLOCKED_CRATES, 64 in the code
  MaxEdits         \* bound on the calls of a behaviour

\* struct DependencyInfo, without last_updated
DependencyInfo == [name : Crates, version : Releases, level : SecurityLevels,
                   approved : BOOLEAN, dev : BOOLEAN]

\* struct SecurityPolicy; blocked_crates as a set
SecurityPolicy == [level : SecurityLevels \cup {PolicyLevel}, audit : BOOLEAN,
                   autoDev : BOOLEAN, blocked : SUBSET Crates]

ASSUME DependenciesAssumption ==
  /\ {PolicyLevel, MaxApproved, MaxRules, MaxBlocked, MaxEdits} \subseteq Nat /\ MaxRules >= 2
  /\ OversizedNames \subseteq Crates /\ None \notin Releases \cup SecurityPolicy
  /\ Policies \subseteq SecurityPolicy /\ \A p \in Policies : IsFiniteSet(p.blocked)

RuleKinds == {"version", "security", "audit", "license"}

\* struct ComplianceRule
ComplianceRule == [name : RuleKinds, kind : RuleKinds, enabled : BOOLEAN]

VARIABLES
  policy,    \* DataKey::SecurityPolicies, None when absent
  approved,  \* DataKey::ApprovedDependencies
  versions,  \* DataKey::DependencyVersions, None for a crate without entry
  rules,     \* DataKey::ComplianceRules
  kept,      \* history: crates approved under an earlier policy
  edits      \* history: how many calls were made
dependencyVars == <<policy, approved, versions, rules, kept, edits>>

DependenciesInit ==
  /\ policy = None
  /\ approved = <<>>
  /\ versions = [c \in Crates |-> None]
  /\ rules = <<>>
  /\ kept = {}
  /\ edits = 0

NamesIn(list) == {list[i].name : i \in DOMAIN list}
-----------------------------------------------------------------------------
\* ci_string_within_bounds, validate_dependency_strings
NameFits(crate) == crate \notin OversizedNames

\* validate_security_policy_lists
PolicyFits(p) == Cardinality(p.blocked) <= MaxBlocked

\* The entry of the same name is replaced in its place, a new one is appended
\* while there is room.
Fits(list, item, limit) == item.name \in NamesIn(list) \/ Len(list) < limit

Upsert(list, item) ==
  LET of == {i \in DOMAIN list : list[i].name = item.name}
  IN IF of = {} THEN Append(list, item) ELSE [list EXCEPT ![First(of)] = item]

\* The rules that initialize stores.
DefaultRules == <<[name |-> "version", kind |-> "version", enabled |-> TRUE],
                  [name |-> "security", kind |-> "security", enabled |-> TRUE]>>

\* initialize, unless a policy was set before; the rules are replaced.
InitializePolicy ==
  /\ policy = None
  /\ policy' = [level |-> PolicyLevel, audit |-> TRUE, autoDev |-> TRUE, blocked |-> {}]
  /\ approved' = <<>>
  /\ versions' = [c \in Crates |-> None]
  /\ rules' = DefaultRules
  /\ UNCHANGED kept

\* add_approved_dependency: approved at once where an audit is required.
AddApprovedDependency(crate, release, level, dev) ==
  LET entry == [name |-> crate, version |-> release, level |-> level,
                approved |-> (dev /\ policy.autoDev) \/ policy.audit, dev |-> dev]
  IN /\ policy # None
     /\ NameFits(crate)
     /\ level <= policy.level
     /\ crate \notin policy.blocked
     /\ Fits(approved, entry, MaxApproved)
     /\ approved' = Upsert(approved, entry)
     /\ versions' = [versions EXCEPT ![crate] = release]
     /\ kept' = kept \ {crate}
     /\ UNCHANGED <<policy, rules>>

\* update_security_policy: what was approved is not looked at again.
UpdateSecurityPolicy(p) ==
  /\ PolicyFits(p)
  /\ policy' = p
  /\ kept' = NamesIn(approved)
  /\ UNCHANGED <<approved, versions, rules>>

\* add_compliance_rule
AddComplianceRule(rule) ==
  /\ Fits(rules, rule, MaxRules)
  /\ rules' = Upsert(rules, rule)
  /\ UNCHANGED <<policy, approved, versions, kept>>

\* block_dependency; a crate that is blocked already is left where it is.
BlockDependency(crate) ==
  /\ NameFits(crate)
  /\ policy # None
  /\ crate \notin policy.blocked
  /\ Cardinality(policy.blocked) < MaxBlocked
  /\ policy' = [policy EXCEPT !.blocked = @ \cup {crate}]
  /\ approved' = WithoutAll(approved, {d \in Range(approved) : d.name = crate})
  /\ UNCHANGED <<versions, rules, kept>>

DependenciesNext ==
  /\ edits < MaxEdits /\ edits' = edits + 1
  /\ Unsigned
  /\ \/ InitializePolicy
     \/ \E crate \in Crates :
          \/ \E release \in Releases, level \in SecurityLevels, dev \in BOOLEAN :
               AddApprovedDependency(crate, release, level, dev)
          \/ BlockDependency(crate)
     \/ \E p \in Policies : UpdateSecurityPolicy(p)
     \/ \E name, kind \in RuleKinds, on \in BOOLEAN :
          AddComplianceRule([name |-> name, kind |-> kind, enabled |-> on])
-----------------------------------------------------------------------------
\* validate_dependency: the level is the caller's, not the recorded one.
ValidateDependency(crate, release, level) ==
  /\ NameFits(crate)
  /\ level <= policy.level
  /\ crate \notin policy.blocked
  /\ \E i \in DOMAIN approved :
       approved[i].name = crate /\ approved[i].version = release /\ approved[i].approved

\* is_dependency_up_to_date, over get_dependency_versions
IsUpToDate(crate, release) == versions[crate] = release

\* What one rule asks of one dependency in run_compliance_check.
Complies(kind, d) ==
  CASE kind = "version"  -> IsUpToDate(d.name, d.version)
    [] kind = "security" -> d.level <= policy.level
    [] kind = "audit"    -> d.approved
    [] OTHER             -> FALSE

\* run_compliance_check: the enabled rules in order; an unknown kind fails.  The
\* message tells the kind.
RunComplianceCheck ==
  LET enabled == WithoutAll(rules, {r \in Range(rules) : ~r.enabled})
      Passed(r) == /\ r.kind \in {"version", "security", "audit"}
                   /\ \A i \in DOMAIN approved : Complies(r.kind, approved[i])
  IN [i \in DOMAIN enabled |-> [kind |-> enabled[i].kind, passed |-> Passed(enabled[i])]]

\* audited_dependencies: soroban-sdk and proptest, in their audited versions.
AuditedDependencies ==
  {[name |-> "soroban-sdk", dev |-> FALSE, replaced |-> TRUE],
   [name |-> "proptest", dev |-> TRUE, replaced |-> TRUE]}

\* all_deprecated_versions_replaced
AllDeprecatedReplaced == \A d \in AuditedDependencies : d.replaced
-----------------------------------------------------------------------------
DependenciesTypeOK ==
  /\ policy \in SecurityPolicy \cup {None}
  /\ approved \in Seq(DependencyInfo) /\ Len(approved) <= MaxApproved
  /\ \A c \in Crates : versions[c] \in Releases \cup {None}
  /\ rules \in Seq(ComplianceRule) /\ Len(rules) <= MaxRules
  /\ policy # None => Cardinality(policy.blocked) <= MaxBlocked

\* The list, the versions and the policy are three records of one decision.  No
\* crate is listed twice, and each listed version is the latest one, so that
\* the version rule can never fail.  Whatever was approved under the policy in
\* force complies with it; what an earlier policy approved may not, and only
\* the level tells on it: blocked by the new policy, it stays listed and
\* passes the security rule, but is never validated.
DependenciesSound ==
  /\ Cardinality(NamesIn(approved)) = Len(approved)
  /\ Cardinality(NamesIn(rules)) = Len(rules)
  /\ \A i \in DOMAIN approved : LET d == approved[i] IN
       /\ IsUpToDate(d.name, d.version)
       /\ d.name \notin kept =>
            /\ d.name \notin policy.blocked
            /\ d.level <= policy.level
            /\ d.approved <=> (d.dev /\ policy.autoDev) \/ policy.audit
  /\ policy # None =>
       /\ \A c \in Crates, v \in Releases, l \in SecurityLevels :
            ValidateDependency(c, v, l) =>
              /\ IsUpToDate(c, v)
              /\ c \notin policy.blocked
              /\ c \in NamesIn(approved)
       /\ \A i \in DOMAIN RunComplianceCheck : LET r == RunComplianceCheck[i] IN
            /\ r.kind = "version" => r.passed
            /\ r.kind = "security" /\ kept = {} => r.passed
  /\ AllDeprecatedReplaced
=============================================================================
