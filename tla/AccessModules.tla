---------------------------- MODULE AccessModules ----------------------------
(***************************************************************************)
(* The modules that decide who may do what and keep the reports on it, for *)
(* TLC.  They keep separate storage and meet only in the ledger's clock    *)
(* and signatures, so each behaviour exercises one of them and leaves the  *)
(* others untouched.                                                       *)
(***************************************************************************)
EXTENDS AccessQueries, TrustedContracts, MultiSig, Gating, Versions, Training,
        Assessments, Dependencies, Calculations, TLC

CONSTANTS a1, a2, a3

MCAddresses == {a1, a2, a3}

\* One role that its own holders pass on and one that only Admin gives.
TwoRoles == {"Admin", "Operator"}

\* Valid lists of one and two, those with a signer twice, one too short and
\* those too long.
MCSignerLists ==
  {<<>>} \cup {<<a>> : a \in MCAddresses} \cup {<<a, b>> : a, b \in MCAddresses}
    \cup {p \in [1..3 -> MCAddresses] : p[1] # p[2] /\ p[1] # p[3] /\ p[2] # p[3]}

\* No finding, one of each kind, and a report of the kind the code never writes.
MCIncidences ==
  {[auth |-> 0, withdrawals |-> 0, pauses |-> 0, reentrancy |-> 0],
   [auth |-> 4, withdrawals |-> 1, pauses |-> 1, reentrancy |-> 0],
   [auth |-> 4, withdrawals |-> 0, pauses |-> 2, reentrancy |-> 0]}

\* A strict policy and two lenient ones that block one crate and two.
MCPolicies ==
  {[level |-> 4, audit |-> FALSE, autoDev |-> TRUE, blocked |-> {}],
   [level |-> 1, audit |-> TRUE, autoDev |-> TRUE, blocked |-> {"x"}],
   [level |-> 1, audit |-> TRUE, autoDev |-> TRUE, blocked |-> {"x", "y"}]}

\* Sums and products of the large ones leave the range, those of others do not.
MCOperands == {-60, 0, 1, 60}

\* Addresses are only compared for equality.
Symmetry == Permutations(MCAddresses)

VARIABLE subject   \* the module this behaviour exercises

Init ==
  /\ subject \in {"roles", "access", "sessions", "trust", "multisig", "gates",
                  "versions", "training", "suites", "reports", "regression",
                  "dependencies", "calculations"}
  /\ LedgerInit /\ RolesInit /\ AccessInit /\ SessionInit /\ TrustInit
  /\ MultiSigInit /\ GatingInit /\ VersionsInit /\ TrainingInit
  /\ SuitesInit /\ ReportsInit /\ RegressionInit /\ DependenciesInit
  /\ CalculationsInit

\* A module that is not exercised stays as it is.
Others ==
  /\ subject # "roles"        => UNCHANGED rolesVars
  /\ subject # "access"       => UNCHANGED accessVars
  /\ subject # "sessions"     => UNCHANGED sessionVars
  /\ subject # "trust"        => UNCHANGED trustVars
  /\ subject # "multisig"     => UNCHANGED multisigVars
  /\ subject # "gates"        => UNCHANGED gatingVars
  /\ subject # "versions"     => UNCHANGED versionVars
  /\ subject # "training"     => UNCHANGED trainingVars
  /\ subject # "suites"       => UNCHANGED suiteVars
  /\ subject # "reports"      => UNCHANGED reportVars
  /\ subject # "regression"   => UNCHANGED regressionVars
  /\ subject # "dependencies" => UNCHANGED dependencyVars
  /\ subject # "calculations" => UNCHANGED calcVars

Next ==
  /\ \/ subject = "roles"        /\ RolesNext
     \/ subject = "access"       /\ AccessNext
     \/ subject = "sessions"     /\ SessionNext
     \/ subject = "trust"        /\ TrustNext
     \/ subject = "multisig"     /\ MultiSigNext
     \/ subject = "gates"        /\ GatingNext
     \/ subject = "versions"     /\ VersionsNext
     \/ subject = "training"     /\ TrainingNext
     \/ subject = "suites"       /\ SuitesNext
     \/ subject = "reports"      /\ ReportsNext
     \/ subject = "regression"   /\ RegressionNext
     \/ subject = "dependencies" /\ DependenciesNext
     \/ subject = "calculations" /\ CalculationsNext /\ Unsigned
  /\ Others
  /\ UNCHANGED subject

vars == <<ledgerVars, rolesVars, accessVars, sessionVars, trustVars,
          multisigVars, gatingVars, versionVars, trainingVars, suiteVars,
          reportVars, regressionVars, dependencyVars, calcVars, subject>>

Spec == Init /\ [][Next]_vars
-----------------------------------------------------------------------------
\* The types of the modules whose own invariants say less.
AccessStorageTypeOK ==
  /\ LedgerTypeOK /\ AccessTypeOK /\ SessionTypeOK /\ TrustTypeOK
  /\ MultiSigTypeOK /\ GatingTypeOK /\ VersionsTypeOK /\ TrainingTypeOK
  /\ AssessmentsTypeOK /\ DependenciesTypeOK /\ CalculationsTypeOK

\* What the modules report is what their records say: who holds, manages and
\* awaits a role, whose session is over (by all the calls that judge it), who
\* is trained, which checks, vulnerabilities and regression cases stand, which
\* crates comply.  (A module that is not exercised stays as
\* it is in its own first state.)
ReportsExact ==
  /\ subject \in {"roles", "access"} => PermissionsFollowRoles /\ QueriesMatchTables
  /\ subject = "sessions" => SessionsAsShown /\ OneOrTheOther
  /\ subject = "training" => TrainingSound
  /\ subject \in {"suites", "reports", "regression"} => AssessmentsSound
  /\ subject = "dependencies" => DependenciesSound

\* The pure functions return what they stand for.
AnswersSound == subject = "calculations" => CalculationsSound
=============================================================================
