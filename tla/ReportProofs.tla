---------------------------- MODULE ReportProofs ----------------------------
(***************************************************************************)
(* What the modules around the access tables report is what their records  *)
(* say: who is trained, which checks pass, which vulnerabilities are open, *)
(* which regression cases fail and which dependencies comply; and every    *)
(* one of these modules keeps its types.  For any members, modules, lists  *)
(* of checks, findings, crates, policies and bounds.                       *)
(***************************************************************************)
EXTENDS AccessModules, AccessProofs, CalcProofs

-----------------------------------------------------------------------------
(* Counting the entries of a list.                                         *)

\* Two exclusive kinds of positions are counted apart.
LEMMA DisjointCounted ==
  ASSUME NEW n \in Nat, NEW S \in SUBSET (1..n), NEW T \in SUBSET (1..n), S \cap T = {}
  PROVE  Cardinality(S \cup T) = Cardinality(S) + Cardinality(T)
<1>1. IsFiniteSet(S) /\ IsFiniteSet(T) /\ Cardinality(S) \in Nat /\ Cardinality(T) \in Nat
  BY PositionsCounted
<1>2. Cardinality(S \cup T) = Cardinality(S) + Cardinality(T) - Cardinality(S \cap T)
  BY <1>1, FS_Union
<1>3. Cardinality(S \cap T) = 0
  BY FS_EmptySet
<1> QED  BY <1>1, <1>2, <1>3

\* Four exclusive kinds of the positions up to n.
Kinds(n, A, B, C, D) ==
  /\ A \subseteq 1..n /\ B \subseteq 1..n /\ C \subseteq 1..n /\ D \subseteq 1..n
  /\ A \cap B = {} /\ A \cap C = {} /\ A \cap D = {}
  /\ B \cap C = {} /\ B \cap D = {} /\ C \cap D = {}

LEMMA FourKinds ==
  ASSUME NEW n \in Nat, NEW A, NEW B, NEW C, NEW D, Kinds(n, A, B, C, D)
  PROVE  /\ {Cardinality(A), Cardinality(B), Cardinality(C), Cardinality(D)} \subseteq Nat
         /\ Cardinality(A) + Cardinality(B) + Cardinality(C) + Cardinality(D) <= n
         /\ (\A i \in 1..n : i \in A \/ i \in B \/ i \in C \/ i \in D) =>
              Cardinality(A) + Cardinality(B) + Cardinality(C) + Cardinality(D) = n
<1> DEFINE AB == A \cup B
           CD == C \cup D
           all == AB \cup CD
<1>1. /\ Cardinality(AB) = Cardinality(A) + Cardinality(B)
      /\ Cardinality(CD) = Cardinality(C) + Cardinality(D)
  <2>1. /\ A \in SUBSET (1..n) /\ B \in SUBSET (1..n) /\ A \cap B = {}
        /\ C \in SUBSET (1..n) /\ D \in SUBSET (1..n) /\ C \cap D = {}
    BY DEF Kinds
  <2>2. Cardinality(AB) = Cardinality(A) + Cardinality(B)
    BY <2>1, DisjointCounted
  <2>3. Cardinality(CD) = Cardinality(C) + Cardinality(D)
    BY <2>1, DisjointCounted
  <2> QED  BY <2>2, <2>3
<1>2. Cardinality(all) = Cardinality(AB) + Cardinality(CD)
  <2>1. AB \in SUBSET (1..n) /\ CD \in SUBSET (1..n) /\ AB \cap CD = {}
    BY DEF Kinds
  <2> HIDE DEF AB, CD
  <2> QED  BY <2>1, DisjointCounted
<1>3. Cardinality(all) <= n /\ (all = 1..n => Cardinality(all) = n)
  <2>1. all \in SUBSET (1..n)
    BY DEF Kinds
  <2> HIDE DEF all
  <2> QED  BY <2>1, PositionsCounted
<1>4. /\ Cardinality(A) \in Nat /\ Cardinality(B) \in Nat
      /\ Cardinality(C) \in Nat /\ Cardinality(D) \in Nat
  BY PositionsCounted DEF Kinds
<1>5. (\A i \in 1..n : i \in A \/ i \in B \/ i \in C \/ i \in D) => all = 1..n
  BY DEF Kinds
<1> HIDE DEF AB, CD, all
<1> QED  BY <1>1, <1>2, <1>3, <1>4, <1>5

\* A percentage is within its scale, and full exactly where the part is the
\* whole.
LEMMA PercentageFull ==
  ASSUME NEW c \in Nat, NEW n \in Nat, c <= n, n # 0
  PROVE  /\ (c * 100) \div n \in 0..100
         /\ (c * 100) \div n = 100 <=> c = n
<1> DEFINE q == (c * 100) \div n
<1>1. q \in Int /\ q * n <= c * 100 /\ c * 100 < (q + 1) * n
  OBVIOUS
<1>2. q <= 100
  <2>1. SUFFICES ASSUME q >= 101 PROVE FALSE
    BY <1>1
  <2>2. q * n >= 101 * n
    BY <1>1, <2>1
  <2> QED  BY <1>1, <2>2
<1>3. q >= 0
  <2>1. SUFFICES ASSUME q + 1 <= 0 PROVE FALSE
    BY <1>1
  <2>2. (q + 1) * n <= 0
    BY <1>1, <2>1
  <2> QED  BY <1>1, <2>2
<1>4. q = 100 => c = n
  BY <1>1
<1>5. c = n => q = 100
  <2>1. SUFFICES ASSUME c = n, q <= 99 PROVE FALSE
    BY <1>1, <1>2
  <2>2. (q + 1) * n <= 100 * n
    BY <1>1, <2>1
  <2> QED  BY <1>1, <2>1, <2>2
<1> QED  BY <1>1, <1>2, <1>3, <1>4, <1>5

\* The lists that callers build.
LEMMA SmallLists ==
  ASSUME NEW S, NEW list \in ListsOf(S)
  PROVE  list \in Seq(S) /\ Len(list) <= 2 /\ \A i \in DOMAIN list : list[i] \in S
<1>1. PICK n \in 0..2 : list \in [1..n -> S]
  BY DEF ListsOf
<1>2. list \in Seq(S) /\ Len(list) = n
  BY <1>1
<1> QED  BY <1>1, <1>2
-----------------------------------------------------------------------------
(* Training.                                                               *)

TrainingInv ==
  /\ required \in Seq(BOOLEAN) /\ Len(required) <= MaxModules
  /\ records \in [Addresses \X ModuleIds -> TrainingRecord \cup {None}]
  /\ verdict \in [Addresses \X ModuleIds -> {"Completed", "Failed", None}]
  /\ \A k \in Addresses \X ModuleIds :
       /\ verdict[k] = "Completed" <=> records[k] # None /\ records[k].status = "Completed"
       /\ records[k] # None => records[k].status # "Expired"

LEMMA TrainingStart == TrainingInit => TrainingInv
<1> SUFFICES ASSUME TrainingInit PROVE TrainingInv
  OBVIOUS
<1>1. None # "Completed" /\ 0 <= MaxModules
  BY TrainingAssumption DEF TrainingStatus
<1> QED  BY <1>1 DEF TrainingInit, TrainingInv

LEMMA RegisterModuleKeeps ==
  ASSUME TrainingInv, NEW needed \in BOOLEAN, RegisterModule(needed)
  PROVE  TrainingInv'
<1>1. required' \in Seq(BOOLEAN) /\ Len(required') = Len(required) + 1
  BY DEF TrainingInv, RegisterModule
<1>2. Len(required') <= MaxModules
  <2>1. Len(required) \in Nat /\ MaxModules \in Nat
    BY TrainingAssumption DEF TrainingInv
  <2> QED  BY <1>1, <2>1 DEF RegisterModule
<1> QED  BY <1>1, <1>2 DEF TrainingInv, RegisterModule

\* The three calls that write a record.
LEMMA AttemptKeeps ==
  ASSUME TrainingInv, LedgerTypeOK, NEW member \in Addresses, NEW id \in ModuleIds,
         \/ \E score \in Scores : RecordCompletion(member, id, score)
         \/ StartModule(member, id)
         \/ RevokeCompletion(member, id)
  PROVE  TrainingInv'
<1> DEFINE k == <<member, id>>
<1>1. k \in Addresses \X ModuleIds /\ None # "Completed" /\ None \notin TrainingRecord
  BY TrainingAssumption DEF TrainingStatus
<1>2. now \in 0..MaxTime /\ MaxTime \in Nat
  BY LedgerAssumption DEF LedgerTypeOK
<1>3. CASE \E score \in Scores : RecordCompletion(member, id, score)
  <2>1. PICK score \in Scores : RecordCompletion(member, id, score)
    BY <1>3
  <2> DEFINE status == DeriveStatus(score, now, now)
             r == [status |-> status, score |-> score, at |-> now]
  <2>2. status \in {"Completed", "Failed"}
    BY <1>2, TrainingAssumption DEF DeriveStatus, IsTrainingValid
  <2>3. r \in TrainingRecord /\ r # None
    BY <1>1, <1>2, <2>2 DEF TrainingRecord, TrainingStatus
  <2>4. /\ records' = [records EXCEPT ![k] = r] /\ verdict' = [verdict EXCEPT ![k] = status]
        /\ required' = required
    BY <2>1 DEF RecordCompletion
  <2> HIDE DEF status, k
  <2> QED  BY <1>1, <2>2, <2>3, <2>4 DEF TrainingInv
<1>4. CASE StartModule(member, id)
  <2> DEFINE r == [status |-> "InProgress", score |-> 0, at |-> now]
  <2>1. r \in TrainingRecord /\ r # None /\ r.status = "InProgress"
    BY <1>1, <1>2 DEF TrainingRecord, TrainingStatus
  <2>2. /\ records' = [records EXCEPT ![k] = r] /\ verdict' = verdict
        /\ required' = required
    BY <1>4 DEF StartModule
  <2>3. verdict[k] # "Completed"
    BY <1>1, <1>4 DEF StartModule, StatusOf, TrainingInv
  <2> HIDE DEF r, k
  <2> QED  BY <1>1, <2>1, <2>2, <2>3 DEF TrainingInv
<1>5. CASE RevokeCompletion(member, id)
  <2> DEFINE r == [records[k] EXCEPT !.status = "Failed", !.score = 0]
  <2>1. records[k] \in TrainingRecord
    BY <1>1, <1>5 DEF RevokeCompletion, TrainingInv
  <2>2. r \in TrainingRecord /\ r # None /\ r.status = "Failed"
    BY <1>1, <2>1 DEF TrainingRecord, TrainingStatus
  <2>3. /\ records' = [records EXCEPT ![k] = r] /\ verdict' = [verdict EXCEPT ![k] = "Failed"]
        /\ required' = required
    BY <1>1, <1>5 DEF RevokeCompletion, TrainingInv
  <2> HIDE DEF r, k
  <2> QED  BY <1>1, <2>2, <2>3 DEF TrainingInv
<1> QED  BY <1>3, <1>4, <1>5

LEMMA TrainingStep ==
  ASSUME TrainingInv, LedgerTypeOK, [TrainingNext]_trainingVars
  PROVE  TrainingInv'
<1>1. CASE UNCHANGED trainingVars
  BY <1>1 DEF TrainingInv, trainingVars
<1>2. CASE ~UNCHANGED trainingVars
  <2>1. \/ \E needed \in BOOLEAN : RegisterModule(needed)
        \/ \E member \in Addresses, id \in ModuleIds :
             \/ \E score \in Scores : RecordCompletion(member, id, score)
             \/ StartModule(member, id)
             \/ RevokeCompletion(member, id)
    BY <1>2 DEF TrainingNext
  <2> QED  BY <2>1, RegisterModuleKeeps, AttemptKeeps
<1> QED  BY <1>1, <1>2

\* What is known of one member and one module.
LEMMA StatusFacts ==
  ASSUME TrainingInv, NEW m \in Addresses, NEW id \in ModuleIds
  PROVE  /\ StatusOf(m, id) = "Completed" <=> verdict[<<m, id>>] = "Completed"
         /\ StatusOf(m, id) # "Expired"
         /\ records[<<m, id>>] = None => StatusOf(m, id) = "NotStarted"
<1>1. <<m, id>> \in Addresses \X ModuleIds
  OBVIOUS
<1> QED  BY <1>1 DEF StatusOf, TrainingInv

\* The list of a member's records holds one entry of each module attempted,
\* with its status.
LEMMA RecordsListed ==
  ASSUME NEW m \in Addresses
  PROVE  LET list == RecordsOf(m) IN
         /\ DOMAIN list \subseteq Nat
         /\ \A i \in DOMAIN list : /\ records[<<m, list[i].id>>] # None
                                   /\ list[i].status = StatusOf(m, list[i].id)
         /\ \A id \in ModuleIds : records[<<m, id>>] # None =>
              \E i \in DOMAIN list : list[i].id = id
<1> DEFINE K == {i \in ModuleIds : records[<<m, i>>] # None}
           Entry(id) == [id |-> id, status |-> StatusOf(m, id)]
           S == {Entry(id) : id \in K}
           f == [id \in K |-> Entry(id)]
           list == RecordsOf(m)
<1>1. IsFiniteSet(K)
  <2>1. MaxModules \in Nat
    BY TrainingAssumption
  <2>2. K \in SUBSET (1..MaxModules)
    BY DEF ModuleIds
  <2> QED  BY <2>1, <2>2, PositionsCounted
<1>2. IsFiniteSet(S)
  <2>1. f \in Surjection(K, S)
    BY DEF Surjection
  <2> QED  BY <1>1, <2>1, FS_Surjection
<1>3. list = Enumeration(S)
  BY DEF RecordsOf
<1>4. /\ \A x \in S : \E id \in K : x = Entry(id)
      /\ \A id \in K : Entry(id) \in S
      /\ \A id \in K : Entry(id).id = id /\ Entry(id).status = StatusOf(m, id)
      /\ \A id : id \in K <=> id \in ModuleIds /\ records[<<m, id>>] # None
  OBVIOUS
<1> HIDE DEF K, Entry, S, list
<1>5. /\ DOMAIN list = 1..Cardinality(S) /\ Cardinality(S) \in Nat
      /\ \A i \in DOMAIN list : list[i] \in S
      /\ \A x \in S : \E i \in DOMAIN list : list[i] = x
  BY <1>2, <1>3, EnumerationType
<1>6. \A i \in DOMAIN list : /\ records[<<m, list[i].id>>] # None
                             /\ list[i].status = StatusOf(m, list[i].id)
  BY <1>4, <1>5
<1>7. \A id \in K : \E i \in DOMAIN list : list[i].id = id
  BY <1>4, <1>5
<1>8. DOMAIN list \subseteq Nat
  BY <1>5
<1> QED  BY <1>4, <1>6, <1>7, <1>8 DEF list

\* build_report, asked about a member's records, counts what training_summary
\* counts.
LEMMA ReportCounts ==
  ASSUME TrainingInv, NEW m \in Addresses, NEW statuses, "NotStarted" \notin statuses,
         NEW id \in ModuleIds
  PROVE  LET list == RecordsOf(m)
             of == {i \in DOMAIN list : list[i].id = id}
         IN  of # {} /\ list[First(of)].status \in statuses <=> StatusOf(m, id) \in statuses
<1> DEFINE list == RecordsOf(m)
           of == {i \in DOMAIN list : list[i].id = id}
<1> HIDE DEF list
<1>1. /\ of \in SUBSET Nat
      /\ \A i \in of : list[i].status = StatusOf(m, id)
      /\ records[<<m, id>>] # None => of # {}
      /\ of # {} => records[<<m, id>>] # None
  BY RecordsListed DEF list
<1>2. of # {} => list[First(of)].status = StatusOf(m, id)
  BY <1>1, FirstExists
<1>3. of = {} => StatusOf(m, id) \notin statuses
  BY <1>1, StatusFacts
<1> QED  BY <1>2, <1>3 DEF list

LEMMA TrainingMeaning == TrainingInv => TrainingSound
<1> SUFFICES ASSUME TrainingInv, NEW m \in Addresses
             PROVE  /\ \A id \in ModuleIds :
                         /\ StatusOf(m, id) = "Completed" <=> verdict[<<m, id>>] = "Completed"
                         /\ StatusOf(m, id) # "Expired"
                    /\ LET summary == TrainingSummary(m) IN
                       /\ summary = BuildReport(RecordsOf(m))
                       /\ summary.allRequired = IsTrainingComplete(m)
                       /\ summary.score = ComplianceScore(m)
                       /\ summary.score = 100 => IsTrainingComplete(m) /\ required # <<>>
                       /\ summary.completed + summary.incomplete <= summary.total
  BY DEF TrainingSound
<1> DEFINE n == Len(required)
           With(statuses) == {id \in Registered : StatusOf(m, id) \in statuses}
           done == {id \in Registered : StatusOf(m, id) = "Completed"}
           summary == TrainingSummary(m)
<1>1. n \in Nat /\ Registered = 1..n /\ Registered \subseteq ModuleIds
  <2>1. MaxModules \in Nat /\ required \in Seq(BOOLEAN) /\ n <= MaxModules
    BY TrainingAssumption DEF TrainingInv
  <2> QED  BY <2>1 DEF Registered, ModuleIds
<1>2. With({"Completed"}) = done
  OBVIOUS
<1> DEFINE required0 == ~\E id \in Registered : required[id] /\ StatusOf(m, id) # "Completed"
<1>3. summary = [total |-> n, completed |-> Cardinality(done),
                 incomplete |-> Cardinality(With({"Failed", "Expired"})),
                 allRequired |-> required0, score |-> PartOf(Cardinality(done), n)]
  <2>1. summary = [total |-> n, completed |-> Cardinality(With({"Completed"})),
                   incomplete |-> Cardinality(With({"Failed", "Expired"})),
                   allRequired |-> required0,
                   score |-> PartOf(Cardinality(With({"Completed"})), n)]
    BY Zenon DEF TrainingSummary
  <2> QED  BY <1>2, <2>1, Zenon
<1>4. summary = BuildReport(RecordsOf(m))
  <2> DEFINE list == RecordsOf(m)
             of(id) == {i \in DOMAIN list : list[i].id = id}
             Recorded(statuses) == {id \in Registered :
               of(id) # {} /\ list[First(of(id))].status \in statuses}
  <2>1. \A id \in Registered :
          of(id) # {} /\ list[First(of(id))].status \in {"Completed"}
            <=> StatusOf(m, id) \in {"Completed"}
    BY <1>1, ReportCounts
  <2>2. \A id \in Registered :
          of(id) # {} /\ list[First(of(id))].status \in {"Failed", "Expired"}
            <=> StatusOf(m, id) \in {"Failed", "Expired"}
    BY <1>1, ReportCounts
  <2>3. Recorded({"Completed"}) = done
    BY <2>1
  <2>4. Recorded({"Failed", "Expired"}) = With({"Failed", "Expired"})
    BY <2>2
  <2>5. AllRequiredComplete(list) = required0
    <3>1. ASSUME NEW id \in Registered
          PROVE  (\E i \in DOMAIN list : list[i].id = id /\ list[i].status = "Completed")
                   <=> StatusOf(m, id) = "Completed"
      <4>1. id \in ModuleIds
        BY <1>1
      <4>2. /\ \A i \in DOMAIN list : list[i].id = id => list[i].status = StatusOf(m, id)
            /\ records[<<m, id>>] # None => \E i \in DOMAIN list : list[i].id = id
        BY <4>1, RecordsListed
      <4> HIDE DEF list
      <4> QED  BY <4>1, <4>2, StatusFacts
    <3> HIDE DEF list
    <3> QED  BY <3>1, Zenon DEF AllRequiredComplete
  <2>6. BuildReport(list) =
          [total |-> n, completed |-> Cardinality(Recorded({"Completed"})),
           incomplete |-> Cardinality(Recorded({"Failed", "Expired"})),
           allRequired |-> AllRequiredComplete(list),
           score |-> PartOf(Cardinality(Recorded({"Completed"})), n)]
    BY Zenon DEF BuildReport
  <2> QED  BY <1>3, <2>3, <2>4, <2>5, <2>6, Zenon
<1> HIDE DEF summary
<1>5. summary.allRequired = IsTrainingComplete(m)
  <2>1. summary.allRequired = required0
    BY <1>3
  <2> QED  BY <2>1, Zenon DEF IsTrainingComplete
<1>6. summary.score = ComplianceScore(m)
  <2>1. summary.score = PartOf(Cardinality(done), n)
    BY <1>3
  <2> QED  BY <2>1, Zenon DEF ComplianceScore
<1>7. /\ done \in SUBSET (1..n) /\ With({"Failed", "Expired"}) \in SUBSET (1..n)
      /\ done \cap With({"Failed", "Expired"}) = {}
  BY <1>1
<1>8. summary.score = 100 => IsTrainingComplete(m) /\ required # <<>>
  <2> SUFFICES ASSUME summary.score = 100 PROVE IsTrainingComplete(m) /\ required # <<>>
    OBVIOUS
  <2>1. n # 0
    BY <1>3 DEF PartOf
  <2>2. Cardinality(done) \in Nat /\ Cardinality(done) <= n
    BY <1>1, <1>7, PositionsCounted
  <2>3. Cardinality(done) = n
    BY <1>1, <1>3, <2>1, <2>2, PercentageFull DEF PartOf
  <2>4. done = Registered
    BY <1>1, <1>7, <2>3, PositionsCounted
  <2> QED  BY <2>1, <2>4 DEF IsTrainingComplete
<1>9. summary.completed + summary.incomplete <= summary.total
  <2>1. Cardinality(done \cup With({"Failed", "Expired"}))
          = Cardinality(done) + Cardinality(With({"Failed", "Expired"}))
    <3> DEFINE late == With({"Failed", "Expired"})
    <3>1. n \in Nat /\ done \in SUBSET (1..n) /\ late \in SUBSET (1..n) /\ done \cap late = {}
      BY <1>1, <1>7, Zenon
    <3> HIDE DEF done, late, n
    <3>2. Cardinality(done \cup late) = Cardinality(done) + Cardinality(late)
      BY <3>1, DisjointCounted, Zenon
    <3> QED  BY <3>2, Zenon DEF late
  <2>2. Cardinality(done \cup With({"Failed", "Expired"})) <= n
    BY <1>1, <1>7, PositionsCounted
  <2> QED  BY <1>3, <2>1, <2>2
<1>10. \A id \in ModuleIds :
         /\ StatusOf(m, id) = "Completed" <=> verdict[<<m, id>>] = "Completed"
         /\ StatusOf(m, id) # "Expired"
  BY StatusFacts
<1> QED  BY <1>4, <1>5, <1>6, <1>8, <1>9, <1>10 DEF summary
-----------------------------------------------------------------------------
(* Suites of checks.                                                       *)

SuiteInv ==
  /\ suite.checks \in Seq(ComplianceCheck)
  /\ suite = Suite(suite.checks, suite.at)
  /\ raw \in BOOLEAN /\ (raw <=> \E i \in DOMAIN suite.checks : ~ValidCheck(suite.checks[i]))

LEMMA SuiteKeeps == \A checks, at :
  Suite(checks, at).checks = checks /\ Suite(checks, at).at = at
BY DEF Suite

LEMMA SuiteStart == SuitesInit => SuiteInv
<1> SUFFICES ASSUME SuitesInit PROVE SuiteInv
  OBVIOUS
<1>1. suite = Suite(<<>>, now) /\ raw = FALSE
  BY DEF SuitesInit
<1>2. suite.checks = <<>> /\ suite.at = now
  BY <1>1, SuiteKeeps
<1>3. suite.checks \in Seq(ComplianceCheck)
  BY <1>2
<1>4. DOMAIN suite.checks = {}
  BY <1>2
<1> QED  BY <1>1, <1>2, <1>3, <1>4, Zenon DEF SuiteInv

LEMMA BuildKeeps ==
  ASSUME LedgerTypeOK,
         NEW checks \in ListsOf([named : {TRUE}, status : {0, 2, 4}, at : {now}]),
         BuildCheckSuite(checks)
  PROVE  SuiteInv'
<1>1. checks \in Seq(ComplianceCheck)
  <2>1. checks \in Seq([named : {TRUE}, status : {0, 2, 4}, at : {now}])
    BY SmallLists
  <2>2. [named : {TRUE}, status : {0, 2, 4}, at : {now}] \subseteq ComplianceCheck
    <3>1. {0, 2, 4} \subseteq CheckStatus \cup {4} /\ {now} \subseteq 0..MaxTime
      BY DEF LedgerTypeOK, CheckStatus
    <3> QED  BY <3>1 DEF ComplianceCheck
  <2> QED  BY <2>1, <2>2, SeqGrows
<1>2. suite' = Suite(checks, now) /\ (raw' = \E i \in DOMAIN checks : ~ValidCheck(checks[i]))
  BY DEF BuildCheckSuite
<1>3. suite'.checks = checks /\ suite'.at = now
  BY <1>2, SuiteKeeps
<1> QED  BY <1>1, <1>2, <1>3 DEF SuiteInv, ValidCheck

LEMMA AddCheckKeeps ==
  ASSUME SuiteInv, NEW check \in ComplianceCheck, AddCheck(check)
  PROVE  SuiteInv'
<1>1. CASE ~ValidCheck(check)
  <2>1. suite' = suite /\ raw' = raw
    BY <1>1 DEF AddCheck
  <2> QED  BY <2>1 DEF SuiteInv, ValidCheck
<1>2. CASE ValidCheck(check)
  <2> DEFINE longer == Append(suite.checks, check)
  <2>1. suite' = Suite(longer, suite.at) /\ raw' = raw
    BY <1>2 DEF AddCheck
  <2>2. suite'.checks = longer /\ suite'.at = suite.at
    BY <2>1, SuiteKeeps
  <2>3. longer \in Seq(ComplianceCheck) /\ Len(longer) = Len(suite.checks) + 1
    BY DEF SuiteInv
  <2>4. /\ suite.checks \in Seq(ComplianceCheck)
        /\ \A i \in DOMAIN suite.checks : longer[i] = suite.checks[i]
        /\ longer[Len(suite.checks) + 1] = check
        /\ DOMAIN longer = DOMAIN suite.checks \cup {Len(suite.checks) + 1}
    BY DEF SuiteInv
  <2> HIDE DEF longer
  <2>5. (\E i \in DOMAIN longer : ~ValidCheck(longer[i])) <=>
        (\E i \in DOMAIN suite.checks : ~ValidCheck(suite.checks[i]))
    BY <1>2, <2>4
  <2> QED  BY <2>1, <2>2, <2>3, <2>5 DEF SuiteInv, ValidCheck
<1> QED  BY <1>1, <1>2

LEMMA SuitesStep ==
  ASSUME SuiteInv, LedgerTypeOK, [SuitesNext]_suiteVars
  PROVE  SuiteInv'
<1>1. CASE UNCHANGED suiteVars
  BY <1>1 DEF suiteVars, SuiteInv, ValidCheck
<1>2. ASSUME NEW condition \in BOOLEAN, AddCheck(CheckOf(condition)) PROVE SuiteInv'
  <2>1. CheckOf(condition) \in ComplianceCheck
    BY DEF CheckOf, ComplianceCheck, CheckStatus, LedgerTypeOK
  <2> QED  BY <1>2, <2>1, AddCheckKeeps
<1>3. ASSUME NEW named \in BOOLEAN, NEW status \in {2, 3, 4},
             AddCheck([named |-> named, status |-> status, at |-> now])
      PROVE  SuiteInv'
  <2>1. [named |-> named, status |-> status, at |-> now] \in ComplianceCheck
    BY DEF ComplianceCheck, CheckStatus, LedgerTypeOK
  <2> QED  BY <1>3, <2>1, AddCheckKeeps
<1> QED  BY <1>1, <1>2, <1>3, BuildKeeps DEF SuitesNext

\* The four statuses count every check of a list once.
LEMMA StatusesCover ==
  ASSUME NEW checks \in Seq(ComplianceCheck)
  PROVE  LET p == CountByStatus(checks, 0)
             f == CountByStatus(checks, 1)
             s == CountByStatus(checks, 2)
             e == CountByStatus(checks, 3)
         IN  /\ {p, f, s, e} \subseteq Nat /\ p + f + s + e <= Len(checks)
             /\ (\A i \in DOMAIN checks : ValidCheck(checks[i])) =>
                  p + f + s + e = Len(checks)
<1> DEFINE A == {i \in DOMAIN checks : checks[i].status = 0}
           B == {i \in DOMAIN checks : checks[i].status = 1}
           C == {i \in DOMAIN checks : checks[i].status = 2}
           D == {i \in DOMAIN checks : checks[i].status = 3}
           n == Len(checks)
<1>1. n \in Nat /\ DOMAIN checks = 1..n
  OBVIOUS
<1>2. Kinds(n, A, B, C, D)
  BY <1>1 DEF Kinds
<1>3. (\A i \in DOMAIN checks : ValidCheck(checks[i])) =>
        \A i \in 1..n : i \in A \/ i \in B \/ i \in C \/ i \in D
  BY <1>1 DEF ValidCheck, CheckStatus
<1>4. /\ CountByStatus(checks, 0) = Cardinality(A) /\ CountByStatus(checks, 1) = Cardinality(B)
      /\ CountByStatus(checks, 2) = Cardinality(C) /\ CountByStatus(checks, 3) = Cardinality(D)
  BY Zenon DEF CountByStatus
<1> HIDE DEF A, B, C, D, n
<1>5. /\ {Cardinality(A), Cardinality(B), Cardinality(C), Cardinality(D)} \subseteq Nat
      /\ Cardinality(A) + Cardinality(B) + Cardinality(C) + Cardinality(D) <= n
      /\ (\A i \in 1..n : i \in A \/ i \in B \/ i \in C \/ i \in D) =>
           Cardinality(A) + Cardinality(B) + Cardinality(C) + Cardinality(D) = n
  BY <1>1, <1>2, FourKinds
<1> QED  BY <1>3, <1>4, <1>5 DEF n

LEMMA SuiteMeaning ==
  ASSUME SuiteInv
  PROVE  /\ ValidSuite(suite) <=> suite.checks # <<>> /\ ~raw
         /\ ~raw => suite.passed + suite.failed + suite.skipped + suite.errors = suite.total
         /\ ~raw /\ AllPassed(suite) => (suite.rate = 100 <=> suite.skipped = 0)
<1> DEFINE checks == suite.checks
           p == CountByStatus(checks, 0)
           n == Len(checks)
<1>1. suite = Suite(checks, suite.at) /\ checks \in Seq(ComplianceCheck) /\ n \in Nat
  BY DEF SuiteInv
<1>2. /\ suite.total = n /\ suite.passed = p
      /\ suite.failed = CountByStatus(checks, 1)
      /\ suite.skipped = CountByStatus(checks, 2)
      /\ suite.errors = CountByStatus(checks, 3)
      /\ suite.rate = PassRate(p, n)
  <2>1. suite = [checks |-> checks, at |-> suite.at, total |-> n, passed |-> p,
                 failed  |-> CountByStatus(checks, 1),
                 skipped |-> CountByStatus(checks, 2),
                 errors  |-> CountByStatus(checks, 3),
                 rate    |-> PassRate(p, n)]
    BY <1>1, Zenon DEF Suite
  <2> HIDE DEF checks, p, n
  <2> QED  BY <2>1
<1>3. {suite.passed, suite.failed, suite.skipped, suite.errors} \subseteq Nat
  BY <1>1, <1>2, StatusesCover
<1>4. suite.passed + suite.failed + suite.skipped + suite.errors <= suite.total
  BY <1>1, <1>2, StatusesCover
<1>5. ~raw => suite.passed + suite.failed + suite.skipped + suite.errors = suite.total
  <2>1. ~raw => \A i \in DOMAIN checks : ValidCheck(checks[i])
    BY <1>1 DEF SuiteInv
  <2> HIDE DEF checks
  <2>2. ~raw => CountByStatus(checks, 0) + CountByStatus(checks, 1)
                  + CountByStatus(checks, 2) + CountByStatus(checks, 3) = Len(checks)
    BY <1>1, <2>1, StatusesCover
  <2> QED  BY <1>2, <2>2, SMTT(30)
<1>6. p <= n /\ p \in Nat
  BY <1>1, <1>2, <1>3, <1>4
<1>7. suite.rate <= 100 /\ (n # 0 => (suite.rate = 100 <=> p = n)) /\ (n = 0 => suite.rate = 100)
  <2>1. suite.rate = PassRate(p, n) /\ n \in Nat /\ p \in Nat /\ p <= n
    BY <1>1, <1>2, <1>6
  <2> HIDE DEF p, n
  <2>2. CASE n = 0
    BY <2>1, <2>2 DEF PassRate
  <2>3. CASE n # 0
    <3>1. (p * 100) \div n \in 0..100 /\ ((p * 100) \div n = 100 <=> p = n)
      BY <2>1, <2>3, PercentageFull
    <3>2. suite.rate = (p * 100) \div n
      BY <2>1, <2>3 DEF PassRate
    <3> QED  BY <2>3, <3>1, <3>2
  <2> QED  BY <2>2, <2>3
<1>8. ValidSuite(suite) <=> suite.checks # <<>> /\ ~raw
  <2>1. n > 0 <=> checks # <<>>
    BY <1>1
  <2> QED  BY <1>2, <1>7, <2>1 DEF SuiteInv, ValidSuite
<1>9. ~raw /\ AllPassed(suite) => (suite.rate = 100 <=> suite.skipped = 0)
  BY <1>1, <1>2, <1>3, <1>5, <1>7 DEF AllPassed
<1> QED  BY <1>5, <1>8, <1>9
-----------------------------------------------------------------------------
(* Reports of vulnerabilities.                                             *)

ReportInv ==
  /\ report.vulns \in Seq(Vulnerability)
  /\ report = Report(report.vulns, report.at, report.status)
  /\ \A i \in DOMAIN report.vulns : ValidVulnerability(report.vulns[i])
  /\ best = report.score

\* What a report says of its list, and what of its making.
Counted(r, vulns) ==
  /\ r.total = Len(vulns) /\ r.critical = CountBySeverity(vulns, 4)
  /\ r.high = CountBySeverity(vulns, 3)
  /\ r.medium = CountBySeverity(vulns, 2)
  /\ r.low = CountBySeverity(vulns, 1)
  /\ r.score = Score(Len(vulns), CountBySeverity(vulns, 4))

LEMMA ReportFields == \A vulns, at, status :
  /\ Report(vulns, at, status).vulns = vulns
  /\ Report(vulns, at, status).at = at
  /\ Report(vulns, at, status).status = status
  /\ Counted(Report(vulns, at, status), vulns)
BY DEF Report, Counted

\* The severities count no finding twice.
LEMMA SeveritiesApart ==
  ASSUME NEW vulns \in Seq(Vulnerability)
  PROVE  /\ {CountBySeverity(vulns, 4), CountBySeverity(vulns, 3),
             CountBySeverity(vulns, 2), CountBySeverity(vulns, 1)} \subseteq Nat
         /\ CountBySeverity(vulns, 4) + CountBySeverity(vulns, 3)
              + CountBySeverity(vulns, 2) + CountBySeverity(vulns, 1) <= Len(vulns)
<1> DEFINE A == {i \in DOMAIN vulns : vulns[i].severity = 4}
           B == {i \in DOMAIN vulns : vulns[i].severity = 3}
           C == {i \in DOMAIN vulns : vulns[i].severity = 2}
           D == {i \in DOMAIN vulns : vulns[i].severity = 1}
           n == Len(vulns)
<1>1. n \in Nat /\ DOMAIN vulns = 1..n
  OBVIOUS
<1>2. Kinds(n, A, B, C, D)
  BY <1>1 DEF Kinds
<1>3. /\ CountBySeverity(vulns, 4) = Cardinality(A)
      /\ CountBySeverity(vulns, 3) = Cardinality(B)
      /\ CountBySeverity(vulns, 2) = Cardinality(C)
      /\ CountBySeverity(vulns, 1) = Cardinality(D)
  BY Zenon DEF CountBySeverity
<1> HIDE DEF A, B, C, D, n
<1>4. /\ {Cardinality(A), Cardinality(B), Cardinality(C), Cardinality(D)} \subseteq Nat
      /\ Cardinality(A) + Cardinality(B) + Cardinality(C) + Cardinality(D) <= n
  BY <1>1, <1>2, FourKinds
<1> QED  BY <1>3, <1>4 DEF n

\* One more finding is one more of its severity, and never a better score.
LEMMA OneMoreFinding ==
  ASSUME NEW vulns \in Seq(Vulnerability), NEW v \in Vulnerability
  PROVE  CountBySeverity(Append(vulns, v), 4)
           = CountBySeverity(vulns, 4) + (IF v.severity = 4 THEN 1 ELSE 0)
<1> DEFINE longer == Append(vulns, v)
           n == Len(vulns)
           S == {i \in DOMAIN vulns : vulns[i].severity = 4}
           T == {i \in DOMAIN longer : longer[i].severity = 4}
<1>1. /\ n \in Nat /\ DOMAIN vulns = 1..n /\ DOMAIN longer = 1..(n + 1)
      /\ \A i \in 1..n : longer[i] = vulns[i]
      /\ longer[n + 1] = v
  OBVIOUS
<1>2. IsFiniteSet(S) /\ Cardinality(S) \in Nat
  <2>1. S \in SUBSET (1..n)
    BY <1>1
  <2> QED  BY <1>1, <2>1, PositionsCounted
<1>3. n + 1 \notin S
  BY <1>1
<1>4. T = IF v.severity = 4 THEN S \cup {n + 1} ELSE S
  <2> HIDE DEF longer, n
  <2> QED  BY <1>1
<1>5. CountBySeverity(longer, 4) = Cardinality(T) /\ CountBySeverity(vulns, 4) = Cardinality(S)
  BY Zenon DEF CountBySeverity
<1> HIDE DEF S, T, longer, n
<1>6. CASE v.severity = 4
  <2>1. Cardinality(S \cup {n + 1}) = Cardinality(S) + 1
    BY <1>2, <1>3, FS_AddElement
  <2> QED  BY <1>4, <1>5, <1>6, <2>1 DEF longer
<1>7. CASE v.severity # 4
  BY <1>2, <1>4, <1>5, <1>7 DEF longer
<1> QED  BY <1>6, <1>7

LEMMA ScoreFalls ==
  ASSUME NEW total \in Nat, NEW critical \in Nat, critical <= total, NEW more \in {0, 1}
  PROVE  /\ Score(total, critical) \in 0..100
         /\ Score(total + 1, critical + more) <= Score(total, critical)
BY DEF Score, Penalty

LEMMA ReportStart == ReportsInit => ReportInv
<1> SUFFICES ASSUME ReportsInit PROVE ReportInv
  OBVIOUS
<1>1. report = Report(<<>>, now, "Compliant") /\ best = 100
  BY DEF ReportsInit
<1>2. /\ report.vulns = <<>> /\ report.at = now /\ report.status = "Compliant"
      /\ report.score = Score(Len(report.vulns), CountBySeverity(<<>>, 4))
  BY <1>1, ReportFields DEF Counted
<1>3. report.vulns \in Seq(Vulnerability) /\ DOMAIN report.vulns = {} /\ report.score = 100
  BY <1>2 DEF Score
<1> QED  BY <1>1, <1>2, <1>3, Zenon DEF ReportInv

LEMMA GenerateKeeps ==
  ASSUME NEW vulns \in ListsOf([id : VulnIds, named : {TRUE}, severity : {4}, open : {TRUE}]),
         GenerateReport(vulns)
  PROVE  ReportInv'
<1> DEFINE status == IF vulns = <<>> THEN "Compliant" ELSE "PartialCompliant"
           Built == [id : VulnIds, named : {TRUE}, severity : {4}, open : {TRUE}]
<1>1. vulns \in Seq(Vulnerability) /\ \A i \in DOMAIN vulns : ValidVulnerability(vulns[i])
  <2>1. vulns \in Seq(Built) /\ \A i \in DOMAIN vulns : vulns[i] \in Built
    BY SmallLists
  <2>2. ASSUME NEW v \in Built PROVE v \in Vulnerability /\ ValidVulnerability(v)
    <3>1. v = [id |-> v.id, named |-> v.named, severity |-> v.severity, open |-> v.open]
          /\ v.id \in VulnIds /\ v.named = TRUE /\ v.severity = 4 /\ v.open = TRUE
      OBVIOUS
    <3>2. [id |-> v.id, named |-> v.named, severity |-> v.severity, open |-> v.open]
            \in Vulnerability
      <4>1. v.id \in VulnIds /\ v.named \in BOOLEAN /\ v.open \in BOOLEAN
        BY <3>1, Zenon
      <4>2. v.severity \in 0..5
        BY <3>1
      <4> QED  BY <4>1, <4>2, Zenon DEF Vulnerability
    <3>3. v.severity \in 0..4
      BY <3>1
    <3> QED  BY <3>1, <3>2, <3>3, Zenon DEF ValidVulnerability
  <2>3. Built \subseteq Vulnerability
    BY <2>2
  <2> HIDE DEF Built
  <2> QED  BY <2>1, <2>2, <2>3, SeqGrows
<1>2. report' = Report(vulns, now, status) /\ best' = report'.score
  BY DEF GenerateReport
<1>3. report'.vulns = vulns /\ report'.at = now /\ report'.status = status
  BY <1>2, ReportFields
<1> HIDE DEF status
<1> QED  BY <1>1, <1>2, <1>3 DEF ReportInv, ValidVulnerability

LEMMA AddVulnerabilityKeeps ==
  ASSUME ReportInv, NEW v \in Vulnerability, AddVulnerability(v)
  PROVE  ReportInv'
<1>1. CASE ~ValidVulnerability(v)
  <2>1. report' = report /\ best' = best
    BY <1>1 DEF AddVulnerability, ReportInv
  <2> QED  BY <2>1 DEF ReportInv, ValidVulnerability
<1>2. CASE ValidVulnerability(v)
  <2> DEFINE vulns == report.vulns
             longer == Append(vulns, v)
             critical == CountBySeverity(vulns, 4)
             more == IF v.severity = 4 THEN 1 ELSE 0
  <2>1. report' = Report(longer, report.at, report.status)
    BY <1>2 DEF AddVulnerability
  <2>2. /\ vulns \in Seq(Vulnerability) /\ longer \in Seq(Vulnerability)
        /\ Len(longer) = Len(vulns) + 1 /\ Len(vulns) \in Nat
        /\ \A i \in DOMAIN vulns : longer[i] = vulns[i]
        /\ longer[Len(vulns) + 1] = v
        /\ DOMAIN longer = DOMAIN vulns \cup {Len(vulns) + 1}
    BY DEF ReportInv
  <2>3. /\ critical \in Nat /\ critical <= Len(vulns)
        /\ CountBySeverity(longer, 4) = critical + more
    <3>1. CountBySeverity(longer, 4) = critical + more
      BY <2>2, OneMoreFinding
    <3>2. /\ {CountBySeverity(vulns, 4), CountBySeverity(vulns, 3),
              CountBySeverity(vulns, 2), CountBySeverity(vulns, 1)} \subseteq Nat
          /\ CountBySeverity(vulns, 4) + CountBySeverity(vulns, 3)
               + CountBySeverity(vulns, 2) + CountBySeverity(vulns, 1) <= Len(vulns)
      BY <2>2, SeveritiesApart
    <3> QED  BY <2>2, <3>1, <3>2
  <2>4. /\ report'.vulns = longer /\ report'.at = report.at /\ report'.status = report.status
        /\ report'.score = Score(Len(longer), CountBySeverity(longer, 4))
    <3> HIDE DEF longer
    <3> QED  BY <2>1, ReportFields DEF Counted
  <2>5. report.score = Score(Len(vulns), critical)
    <3> HIDE DEF vulns, critical
    <3>1. report = Report(vulns, report.at, report.status)
      BY DEF ReportInv, vulns
    <3> QED  BY <3>1, ReportFields DEF Counted, critical
  <2>6. /\ report.score \in Int /\ report'.score \in Int
        /\ report'.score <= report.score
    <3>1. more \in {0, 1}
      OBVIOUS
    <3> HIDE DEF more, critical, longer, vulns
    <3>2. /\ Score(Len(vulns), critical) \in 0..100
          /\ Score(Len(vulns) + 1, critical + more) <= Score(Len(vulns), critical)
      BY <2>2, <2>3, <3>1, ScoreFalls
    <3>3. Score(Len(vulns) + 1, critical + more) \in Int
      BY <2>2, <2>3, <3>1 DEF Score, Penalty
    <3>4. report'.score = Score(Len(vulns) + 1, critical + more)
      BY <2>2, <2>3, <2>4, Zenon
    <3>5. /\ report.score \in 0..100 /\ report'.score \in Int
          /\ report'.score <= report.score
      BY <2>5, <3>2, <3>3, <3>4, Zenon
    <3> QED  BY <3>5
  <2>7. best' = report'.score
    BY <2>6 DEF AddVulnerability, ReportInv
  <2>8. \A i \in DOMAIN longer : ValidVulnerability(longer[i])
    <3> HIDE DEF longer
    <3>1. \A i \in DOMAIN vulns : ValidVulnerability(vulns[i])
      BY DEF ReportInv
    <3> QED  BY <1>2, <2>2, <3>1
  <2> HIDE DEF longer
  <2> QED  BY <2>1, <2>2, <2>4, <2>7, <2>8 DEF ReportInv, ValidVulnerability
<1> QED  BY <1>1, <1>2

\* A resolved finding keeps its severity: what was counted still counts.
LEMMA ResolveKeeps ==
  ASSUME ReportInv, NEW id \in VulnIds, ResolveVulnerability(id)
  PROVE  ReportInv'
<1> DEFINE vulns == report.vulns
           of == {i \in DOMAIN vulns : vulns[i].id = id}
           k == First(of)
           marked == [vulns EXCEPT ![k].open = FALSE]
<1>1. vulns \in Seq(Vulnerability) /\ Len(vulns) \in Nat
  BY DEF ReportInv
<1>2. CASE of = {}
  <2>1. report' = report /\ best' = best
    BY <1>2 DEF ResolveVulnerability
  <2> QED  BY <2>1 DEF ReportInv, ValidVulnerability
<1>3. CASE of # {}
  <2>1. k \in DOMAIN vulns
    <3>1. of \in SUBSET Nat
      BY <1>1
    <3>2. k \in of
      BY <1>3, <3>1, FirstExists
    <3> QED  BY <3>2
  <2>2. report' = [report EXCEPT !.vulns[k].open = FALSE] /\ best' = best
    BY <1>3 DEF ResolveVulnerability
  <2>3. report = Report(vulns, report.at, report.status)
    BY DEF ReportInv
  <2>4. report' = [report EXCEPT !.vulns = marked]
    BY <2>2
  <2> HIDE DEF k
  <2>5. /\ marked \in Seq(Vulnerability) /\ Len(marked) = Len(vulns)
        /\ DOMAIN marked = DOMAIN vulns
        /\ \A i \in DOMAIN vulns : /\ marked[i].severity = vulns[i].severity
                                   /\ marked[i].named = vulns[i].named
    <3>1. [vulns[k] EXCEPT !.open = FALSE] \in Vulnerability
      <4>1. vulns[k] \in Vulnerability
        BY <1>1, <2>1
      <4> HIDE DEF vulns
      <4> QED  BY <4>1 DEF Vulnerability
    <3> HIDE DEF vulns
    <3> QED  BY <1>1, <2>1, <3>1
  <2>6. \A severity : CountBySeverity(marked, severity) = CountBySeverity(vulns, severity)
    <3> HIDE DEF marked, vulns
    <3> TAKE severity
    <3>1. {i \in DOMAIN marked : marked[i].severity = severity}
            = {i \in DOMAIN vulns : vulns[i].severity = severity}
      BY <2>5
    <3> QED  BY <3>1, Zenon DEF CountBySeverity
  <2>7. Report(marked, report.at, report.status) = [report EXCEPT !.vulns = marked]
    <3> HIDE DEF marked, vulns
    <3>1. report = [vulns |-> vulns, at |-> report.at, status |-> report.status,
                    total |-> Len(vulns), critical |-> CountBySeverity(vulns, 4),
                    high   |-> CountBySeverity(vulns, 3),
                    medium |-> CountBySeverity(vulns, 2),
                    low    |-> CountBySeverity(vulns, 1),
                    score  |-> Score(Len(vulns), CountBySeverity(vulns, 4))]
      BY <2>3, Zenon DEF Report
    <3>2. Report(marked, report.at, report.status) =
            [vulns |-> marked, at |-> report.at, status |-> report.status,
             total |-> Len(vulns), critical |-> CountBySeverity(vulns, 4),
             high   |-> CountBySeverity(vulns, 3),
             medium |-> CountBySeverity(vulns, 2),
             low    |-> CountBySeverity(vulns, 1),
             score  |-> Score(Len(vulns), CountBySeverity(vulns, 4))]
      BY <2>5, <2>6 DEF Report
    <3> QED  BY <3>1, <3>2
  <2>8. /\ report'.vulns = marked /\ report'.at = report.at
        /\ report'.status = report.status /\ report'.score = report.score
    <3>1. /\ report.score = Score(Len(vulns), CountBySeverity(vulns, 4))
          /\ Report(marked, report.at, report.status).score
               = Score(Len(marked), CountBySeverity(marked, 4))
      <4> HIDE DEF marked, vulns
      <4> QED  BY <2>3, ReportFields DEF Counted
    <3>2. report' = Report(marked, report.at, report.status)
      BY <2>4, <2>7
    <3> HIDE DEF marked, vulns
    <3> QED  BY <2>5, <2>6, <3>1, <3>2, ReportFields
  <2>9. report' = Report(report'.vulns, report'.at, report'.status)
    BY <2>4, <2>7, <2>8
  <2>10. \A i \in DOMAIN marked : ValidVulnerability(marked[i])
    <3>1. \A i \in DOMAIN vulns : ValidVulnerability(vulns[i])
      BY DEF ReportInv
    <3> HIDE DEF marked, vulns
    <3> QED  BY <2>5, <3>1 DEF ValidVulnerability
  <2> HIDE DEF marked
  <2> QED  BY <2>2, <2>5, <2>8, <2>9, <2>10 DEF ReportInv, ValidVulnerability
<1> QED  BY <1>2, <1>3

LEMMA ReportsStep ==
  ASSUME ReportInv, [ReportsNext]_reportVars
  PROVE  ReportInv'
<1>1. CASE UNCHANGED reportVars
  BY <1>1 DEF reportVars, ReportInv, ValidVulnerability
<1>2. ASSUME NEW id \in VulnIds, NEW named \in BOOLEAN, NEW severity \in {0, 1, 4, 5},
             AddVulnerability([id |-> id, named |-> named, severity |-> severity,
                               open |-> TRUE])
      PROVE  ReportInv'
  <2>1. [id |-> id, named |-> named, severity |-> severity, open |-> TRUE] \in Vulnerability
    BY DEF Vulnerability
  <2> QED  BY <1>2, <2>1, AddVulnerabilityKeeps
<1> QED  BY <1>1, <1>2, GenerateKeeps, ResolveKeeps DEF ReportsNext

LEMMA ReportMeaning ==
  ASSUME ReportInv
  PROVE  /\ report.score = best
         /\ report.critical + report.high + report.medium + report.low <= report.total
         /\ Statistics(report).open =
              Cardinality({i \in DOMAIN report.vulns : report.vulns[i].open})
         /\ ValidReport(report) <=> report.at > 0
<1> DEFINE vulns == report.vulns
           n == Len(vulns)
           S == {i \in DOMAIN vulns : vulns[i].open}
           T == {i \in DOMAIN vulns : ~vulns[i].open}
<1>1. vulns \in Seq(Vulnerability) /\ n \in Nat /\ DOMAIN vulns = 1..n
  BY DEF ReportInv
<1>2. /\ report.total = n /\ report.critical = CountBySeverity(vulns, 4)
      /\ report.high = CountBySeverity(vulns, 3)
      /\ report.medium = CountBySeverity(vulns, 2)
      /\ report.low = CountBySeverity(vulns, 1)
      /\ report.score = Score(n, CountBySeverity(vulns, 4))
  <2>1. Counted(Report(vulns, report.at, report.status), vulns)
    BY ReportFields, Zenon
  <2>2. Counted(report, vulns)
    BY <2>1, Zenon DEF ReportInv
  <2> QED  BY <2>2 DEF Counted
<1>3. /\ {CountBySeverity(vulns, 4), CountBySeverity(vulns, 3),
          CountBySeverity(vulns, 2), CountBySeverity(vulns, 1)} \subseteq Nat
      /\ CountBySeverity(vulns, 4) + CountBySeverity(vulns, 3)
           + CountBySeverity(vulns, 2) + CountBySeverity(vulns, 1) <= n
  BY <1>1, SeveritiesApart
<1>4. report.score \in 0..100
  <2> DEFINE critical == CountBySeverity(vulns, 4)
  <2>1. critical \in Nat /\ critical <= n
    BY <1>1, <1>3
  <2>2. report.score = Score(n, critical) /\ 0 \in {0, 1}
    BY <1>2
  <2> HIDE DEF critical, n
  <2> QED  BY <1>1, <2>1, <2>2, ScoreFalls
<1>5. ValidReport(report) <=> report.at > 0
  <2>1. \A i \in DOMAIN report.vulns : ValidVulnerability(report.vulns[i])
    BY DEF ReportInv
  <2>2. report.score <= 100
    BY <1>4
  <2> QED  BY <2>1, <2>2, Zenon DEF ValidReport
<1>6. Statistics(report).open = Cardinality(S)
  <2>1. S \in SUBSET (1..n) /\ T \in SUBSET (1..n) /\ S \cap T = {} /\ S \cup T = 1..n
    BY <1>1
  <2>2. Statistics(report).open = report.total - Cardinality(T)
    BY DEF Statistics
  <2> HIDE DEF S, T, n
  <2>3. Cardinality(S) + Cardinality(T) = n
    <3>1. Kinds(n, S, T, {}, {}) /\ \A i \in 1..n : i \in S \/ i \in T
      BY <1>1, <2>1 DEF Kinds
    <3>2. Cardinality(S) + Cardinality(T) + Cardinality({}) + Cardinality({}) = n
      BY <1>1, <3>1, FourKinds
    <3>3. Cardinality({}) = 0 /\ Cardinality(S) \in Nat /\ Cardinality(T) \in Nat
      BY <1>1, <2>1, PositionsCounted, FS_EmptySet
    <3> QED  BY <3>2, <3>3
  <2>4. Cardinality(S) \in Nat /\ Cardinality(T) \in Nat
    BY <1>1, <2>1, PositionsCounted
  <2> QED  BY <1>1, <1>2, <2>2, <2>3, <2>4
<1> QED  BY <1>1, <1>2, <1>3, <1>5, <1>6 DEF ReportInv
-----------------------------------------------------------------------------
(* Regression runs.                                                        *)

\* A run, in parts: the result of each of its cases, where an id occurs, and
\* where it occurs last; which cases pass, which fail, and what they score.
ResultAt(cases, i) == EvaluateCase(cases[i].counts)
Occurrences(cases, id) == {i \in DOMAIN cases : cases[i].id = id}
Latest(cases, id) ==
  CHOOSE i \in Occurrences(cases, id) : \A j \in Occurrences(cases, id) : j <= i
Passing(cases) == {i \in DOMAIN cases : ResultAt(cases, i).passed}
Failing(cases) == {i \in DOMAIN cases : ~ResultAt(cases, i).passed}
ScoresOf(cases) == {100} \cup {ResultAt(cases, i).score : i \in DOMAIN cases}

RegressionInv ==
  /\ runCounter \in 0..MaxRuns
  /\ lastRun # None =>
       /\ lastRun.run = runCounter /\ lastRun.passed + lastRun.failed = lastRun.total
       /\ lastRun.failed = 0 <=> lastRun.worst >= 80
       /\ Cardinality({id \in lastRun.ids : ~results[id].passed}) <= lastRun.failed

LEMMA RegressionStart == RegressionInit => RegressionInv
BY AssessmentsAssumption DEF RegressionInit, RegressionInv

\* A case passes exactly where its score reaches 80.
LEMMA CaseScored ==
  ASSUME NEW cases \in Seq(Cases), NEW i \in DOMAIN cases
  PROVE  /\ cases[i].id \in CaseIds
         /\ ResultAt(cases, i).score \in 0..100
         /\ ResultAt(cases, i).passed <=> ResultAt(cases, i).score >= 80
<1> DEFINE c == cases[i].counts
           deductions == 4 * c.auth + 3 * c.withdrawals + 2 * c.pauses + 10 * c.reentrancy
           score == IF deductions > 100 THEN 0 ELSE 100 - deductions
<1>1. cases[i] \in Cases
  OBVIOUS
<1>2. cases[i].id \in CaseIds /\ c \in Incidences
  BY <1>1 DEF Cases
<1>3. c \in [auth : Nat, withdrawals : Nat, pauses : Nat, reentrancy : Nat]
  BY <1>2, AssessmentsAssumption
<1>4. deductions \in Nat /\ score \in 0..100
  <2> HIDE DEF c
  <2>1. c.auth \in Nat /\ c.withdrawals \in Nat /\ c.pauses \in Nat /\ c.reentrancy \in Nat
    BY <1>3
  <2>2. \A x, y, z, w \in Nat : 4 * x + 3 * y + 2 * z + 10 * w \in Nat
    OBVIOUS
  <2>3. deductions \in Nat
    BY <2>1, <2>2
  <2> HIDE DEF deductions
  <2> QED  BY <2>3
<1>5. ResultAt(cases, i) =
        [score |-> score, passed |-> score >= 80,
         findings |-> c.auth + c.withdrawals + c.pauses + c.reentrancy]
  BY Zenon DEF ResultAt, EvaluateCase
<1> HIDE DEF c
<1>6. ResultAt(cases, i).score = score /\ ResultAt(cases, i).passed = (score >= 80)
  BY <1>5
<1> HIDE DEF score
<1>7. ResultAt(cases, i).passed <=> ResultAt(cases, i).score >= 80
  BY <1>6, Zenon
<1> QED  BY <1>2, <1>4, <1>6, <1>7

\* What a run of cases leaves.
LEMMA RunEffect ==
  ASSUME NEW runner, NEW cases, RunRegressionBatch(runner, cases)
  PROVE  /\ Len(cases) \in 1..MaxCases
         /\ runCounter < MaxRuns /\ runCounter' = runCounter + 1
         /\ results' = [id \in CaseIds |->
                          IF Occurrences(cases, id) = {} THEN results[id]
                          ELSE ResultAt(cases, Latest(cases, id))]
         /\ lastRun'.ids = {cases[i].id : i \in DOMAIN cases}
         /\ lastRun'.run = runCounter' /\ lastRun'.total = Len(cases)
         /\ lastRun'.passed = Cardinality(Passing(cases))
         /\ lastRun'.failed = Len(cases) - Cardinality(Passing(cases))
         /\ lastRun'.worst = First(ScoresOf(cases))
<1>1. /\ Len(cases) \in 1..MaxCases
      /\ runCounter < MaxRuns /\ runCounter' = runCounter + 1
      /\ results' = [id \in CaseIds |->
                       IF Occurrences(cases, id) = {} THEN results[id]
                       ELSE ResultAt(cases, Latest(cases, id))]
  BY Zenon DEF RunRegressionBatch, Occurrences, Latest, ResultAt
<1>2. lastRun' =
        [ids |-> {cases[i].id : i \in DOMAIN cases}, at |-> now,
         run |-> runCounter', total |-> Len(cases),
         passed |-> Cardinality(Passing(cases)),
         failed |-> Len(cases) - Cardinality(Passing(cases)),
         worst |-> First(ScoresOf(cases))]
  BY Zenon DEF RunRegressionBatch, Passing, ScoresOf, ResultAt
<1> QED  BY <1>1, <1>2

\* The cases that fail are those the report subtracts, and the worst case
\* tells whether there is any.
LEMMA FailuresCounted ==
  ASSUME NEW cases \in Seq(Cases)
  PROVE  /\ IsFiniteSet(Failing(cases)) /\ Cardinality(Passing(cases)) \in Nat
         /\ Cardinality(Failing(cases)) = Len(cases) - Cardinality(Passing(cases))
         /\ Cardinality(Failing(cases)) \in Nat
         /\ Cardinality(Failing(cases)) = 0 <=> First(ScoresOf(cases)) >= 80
<1> DEFINE n == Len(cases)
           S == Passing(cases)
           T == Failing(cases)
           worst == First(ScoresOf(cases))
<1>1. n \in Nat /\ DOMAIN cases = 1..n
  OBVIOUS
<1>2. Kinds(n, S, T, {}, {}) /\ \A i \in 1..n : i \in S \/ i \in T
  BY <1>1 DEF Kinds, Passing, Failing
<1>3. T \in SUBSET (1..n) /\ S \in SUBSET (1..n)
  BY <1>1 DEF Passing, Failing
<1> HIDE DEF S, T, n
<1>4. /\ IsFiniteSet(T) /\ Cardinality(S) \in Nat /\ Cardinality(T) \in Nat
      /\ Cardinality(T) = 0 <=> T = {}
  BY <1>1, <1>3, PositionsCounted
<1>5. Cardinality(S) + Cardinality(T) + Cardinality({}) + Cardinality({}) = n
  BY <1>1, <1>2, FourKinds
<1>6. Cardinality(T) = n - Cardinality(S)
  BY <1>1, <1>4, <1>5, FS_EmptySet
<1>7. T = {} <=> \A i \in DOMAIN cases : ResultAt(cases, i).score >= 80
  BY CaseScored DEF T, Failing
<1>8. worst \in ScoresOf(cases) /\ \A s \in ScoresOf(cases) : worst <= s /\ s \in Nat
  <2>1. \A i \in DOMAIN cases : ResultAt(cases, i).score \in Nat
    <3> TAKE i \in DOMAIN cases
    <3>1. ResultAt(cases, i).score \in 0..100
      BY CaseScored, Zenon
    <3> HIDE DEF n, S, T, worst
    <3>2. 0..100 \subseteq Nat
      OBVIOUS
    <3> QED  BY <3>1, <3>2, Zenon
  <2>2. ScoresOf(cases) \in SUBSET Nat /\ ScoresOf(cases) # {}
    BY <2>1 DEF ScoresOf
  <2> QED  BY <2>2, FirstExists
<1>9. worst >= 80 <=> \A i \in DOMAIN cases : ResultAt(cases, i).score >= 80
  <2>1. \A i \in DOMAIN cases : ResultAt(cases, i).score \in ScoresOf(cases)
    BY DEF ScoresOf
  <2>2. worst = 100 \/ \E i \in DOMAIN cases : worst = ResultAt(cases, i).score
    BY <1>8 DEF ScoresOf
  <2> HIDE DEF worst
  <2> QED  BY <1>8, <2>1, <2>2
<1> QED  BY <1>4, <1>6, <1>7, <1>9 DEF n, S, T

\* Each id that fails was last seen in a case that fails.
LEMMA LatestFails ==
  ASSUME NEW cases \in Seq(Cases), NEW id \in {cases[i].id : i \in DOMAIN cases}
  PROVE  /\ Occurrences(cases, id) # {} /\ Latest(cases, id) \in DOMAIN cases
         /\ cases[Latest(cases, id)].id = id
<1> DEFINE S == Occurrences(cases, id)
           n == Len(cases)
<1>1. n \in Nat /\ S \subseteq Nat /\ \A i \in S : i <= n
  BY DEF Occurrences
<1>2. S # {}
  BY DEF Occurrences
<1> HIDE DEF S
<1>3. \E i \in S : \A j \in S : j <= i
  <2> HIDE DEF n
  <2> QED  BY <1>1, <1>2, LargestExists
<1>4. Latest(cases, id) \in S
  BY <1>3, Zenon DEF S, Latest
<1> QED  BY <1>2, <1>4 DEF S, Occurrences

LEMMA RunKeeps ==
  ASSUME RegressionInv, NEW runner \in Addresses, NEW cases \in Seq(Cases),
         RunRegressionBatch(runner, cases)
  PROVE  RegressionInv'
<1> DEFINE ids == {cases[i].id : i \in DOMAIN cases}
           bad == {id \in ids : ~results'[id].passed}
           f == [id \in bad |-> Latest(cases, id)]
<1>1. runCounter' \in 0..MaxRuns
  BY RunEffect, AssessmentsAssumption DEF RegressionInv
<1>2. \A id \in ids : results'[id] = ResultAt(cases, Latest(cases, id))
  <2> SUFFICES ASSUME NEW id \in ids PROVE results'[id] = ResultAt(cases, Latest(cases, id))
    OBVIOUS
  <2>1. Occurrences(cases, id) # {}
    BY LatestFails
  <2>2. id \in CaseIds
    BY CaseScored
  <2> QED  BY <2>1, <2>2, RunEffect
<1>3. f \in Injection(bad, Failing(cases))
  <2>1. \A id \in bad : f[id] \in Failing(cases) /\ cases[f[id]].id = id
    BY <1>2, LatestFails DEF Failing
  <2>2. f \in [bad -> Failing(cases)]
    BY <2>1
  <2> HIDE DEF f
  <2> QED  BY <2>1, <2>2 DEF Injection, IsInjective
<1> HIDE DEF bad, f
<1>4. Cardinality(bad) <= Cardinality(Failing(cases))
  BY <1>3, FailuresCounted, FS_Injection
<1>5. bad = {id \in lastRun'.ids : ~results'[id].passed}
  BY RunEffect DEF bad
<1>6. /\ lastRun'.run = runCounter'
      /\ lastRun'.passed = Cardinality(Passing(cases))
      /\ lastRun'.failed = Cardinality(Failing(cases))
      /\ lastRun'.total = Len(cases) /\ lastRun'.worst = First(ScoresOf(cases))
  BY RunEffect, FailuresCounted
<1>7. lastRun'.passed + lastRun'.failed = lastRun'.total
  <2>1. Len(cases) \in Nat
    OBVIOUS
  <2> QED  BY <1>6, <2>1, FailuresCounted
<1>8. lastRun'.failed = 0 <=> lastRun'.worst >= 80
  BY <1>6, FailuresCounted
<1> QED  BY <1>1, <1>4, <1>5, <1>6, <1>7, <1>8 DEF RegressionInv

LEMMA RegressionStep ==
  ASSUME RegressionInv, [RegressionNext]_regressionVars
  PROVE  RegressionInv'
<1>1. CASE UNCHANGED regressionVars
  BY <1>1 DEF regressionVars, RegressionInv
<1>2. ASSUME NEW runner \in Addresses, NEW cases \in ListsOf(Cases) \cup [1..3 -> Cases],
             RunRegressionBatch(runner, cases)
      PROVE  RegressionInv'
  <2>1. cases \in Seq(Cases)
    <3>1. CASE cases \in ListsOf(Cases)
      BY <3>1, SmallLists
    <3>2. CASE cases \in [1..3 -> Cases]
      <4>1. 3 \in Nat
        OBVIOUS
      <4> QED  BY <3>2, <4>1, SeqDef, Zenon
    <3> QED  BY <3>1, <3>2
  <2> QED  BY <1>2, <2>1, RunKeeps
<1> QED  BY <1>1, <1>2 DEF RegressionNext

\* The three kinds of lists together.
LEMMA AssessmentsMeaning ==
  ASSUME SuiteInv, ReportInv, RegressionInv
  PROVE  AssessmentsSound
BY SuiteMeaning, ReportMeaning, Zenon DEF RegressionInv, AssessmentsSound
-----------------------------------------------------------------------------
(* The dependency policy.                                                  *)

\* No two entries of a list have one name.
DistinctNames(list) ==
  \A i, j \in DOMAIN list : list[i].name = list[j].name => i = j

\* What a policy asks of an entry that is approved under it.
Allowed(p, d) ==
  /\ d.name \notin p.blocked
  /\ d.level <= p.level
  /\ d.approved <=> (d.dev /\ p.autoDev) \/ p.audit

DependencyInv ==
  /\ policy \in SecurityPolicy \cup {None}
  /\ policy # None => IsFiniteSet(policy.blocked) /\ Cardinality(policy.blocked) <= MaxBlocked
  /\ policy = None => approved = <<>>
  /\ approved \in Seq(DependencyInfo) /\ Len(approved) <= MaxApproved
  /\ versions \in [Crates -> Releases \cup {None}]
  /\ rules \in Seq(ComplianceRule) /\ Len(rules) <= MaxRules
  /\ DistinctNames(approved) /\ DistinctNames(rules)
  /\ \A i \in DOMAIN approved :
       /\ versions[approved[i].name] = approved[i].version
       /\ approved[i].name \notin kept => Allowed(policy, approved[i])

\* Upsert keeps the names apart and changes the entry of the item's name only.
LEMMA UpsertKeeps ==
  ASSUME NEW S, NEW list \in Seq(S), NEW item \in S, NEW limit \in Nat,
         DistinctNames(list), Len(list) <= limit, Fits(list, item, limit)
  PROVE  /\ Upsert(list, item) \in Seq(S) /\ Len(Upsert(list, item)) <= limit
         /\ DistinctNames(Upsert(list, item))
         /\ \A i \in DOMAIN Upsert(list, item) :
              \/ Upsert(list, item)[i] = item
              \/ /\ Upsert(list, item)[i].name # item.name
                 /\ \E j \in DOMAIN list : Upsert(list, item)[i] = list[j]
<1> DEFINE of == {i \in DOMAIN list : list[i].name = item.name}
           new == Upsert(list, item)
           n == Len(list)
<1>1. n \in Nat /\ DOMAIN list = 1..n
  OBVIOUS
<1>2. CASE of = {}
  <2>1. new = Append(list, item)
    BY <1>2, Zenon DEF Upsert
  <2>2. /\ new \in Seq(S) /\ Len(new) = n + 1 /\ DOMAIN new = 1..(n + 1)
        /\ new[n + 1] = item /\ \A i \in 1..n : new[i] = list[i]
    <3> HIDE DEF new
    <3> QED  BY <2>1
  <2>3. n < limit
    BY <1>2 DEF Fits, NamesIn
  <2> HIDE DEF new, n
  <2>4. \A i \in 1..n : list[i].name # item.name
    BY <1>1, <1>2
  <2>5. \A i \in DOMAIN new : i \in 1..n \/ i = n + 1
    BY <1>1, <2>2
  <2>6. \A i \in DOMAIN new :
          new[i] = item \/ (new[i].name # item.name /\ \E j \in DOMAIN list : new[i] = list[j])
    BY <1>1, <2>2, <2>4, <2>5
  <2>7. DistinctNames(new)
    BY <1>1, <2>2, <2>4, <2>5 DEF DistinctNames
  <2> QED  BY <1>1, <2>2, <2>3, <2>6, <2>7 DEF new
<1>3. CASE of # {}
  <2> DEFINE k == First(of)
  <2>1. k \in of
    <3>1. of \in SUBSET Nat
      BY <1>1
    <3> HIDE DEF of
    <3> QED  BY <1>3, <3>1, FirstExists
  <2>2. new = [list EXCEPT ![k] = item]
    BY <1>3, Zenon DEF Upsert
  <2>3. k \in 1..n /\ list[k].name = item.name
    BY <1>1, <2>1
  <2> HIDE DEF k, new, n
  <2>4. /\ new \in Seq(S) /\ Len(new) = n /\ DOMAIN new = 1..n
        /\ new[k] = item /\ \A i \in 1..n : i # k => new[i] = list[i]
    BY <1>1, <2>2, <2>3 DEF n
  <2>5. \A i \in 1..n : i # k => list[i].name # item.name
    BY <1>1, <2>3 DEF DistinctNames
  <2>6. \A i \in DOMAIN new :
          new[i] = item \/ (new[i].name # item.name /\ \E j \in DOMAIN list : new[i] = list[j])
    BY <1>1, <2>4, <2>5
  <2>7. DistinctNames(new)
    BY <1>1, <2>4, <2>5 DEF DistinctNames
  <2> QED  BY <2>4, <2>6, <2>7 DEF new, n
<1> QED  BY <1>2, <1>3

\* A list of distinct names has as many names as entries.
LEMMA NamesCounted ==
  ASSUME NEW S, NEW list \in Seq(S), DistinctNames(list)
  PROVE  Cardinality(NamesIn(list)) = Len(list)
<1> DEFINE names == [i \in 1..Len(list) |-> list[i].name]
           N == {list[i].name : i \in 1..Len(list)}
<1>1. Len(list) \in Nat /\ DOMAIN list = 1..Len(list)
  OBVIOUS
<1>2. names \in Seq(N) /\ Len(names) = Len(list)
  BY <1>1
<1>3. \A i, j \in 1..Len(names) : names[i] = names[j] => i = j
  BY <1>1, <1>2 DEF DistinctNames
<1>4. {names[i] : i \in 1..Len(names)} = NamesIn(list)
  BY <1>1, <1>2 DEF NamesIn
<1> HIDE DEF names, N
<1>5. Cardinality({names[i] : i \in 1..Len(names)}) = Len(names)
  BY <1>2, <1>3, LengthIsSize
<1> QED  BY <1>2, <1>4, <1>5

\* Leaving entries out keeps the names apart.
LEMMA WithoutKeepsNames ==
  ASSUME NEW S, NEW list \in Seq(S), NEW gone, DistinctNames(list)
  PROVE  /\ WithoutAll(list, gone) \in Seq(S)
         /\ Len(WithoutAll(list, gone)) <= Len(list)
         /\ DistinctNames(WithoutAll(list, gone))
         /\ \A i \in DOMAIN WithoutAll(list, gone) :
              /\ WithoutAll(list, gone)[i] \notin gone
              /\ \E j \in DOMAIN list : WithoutAll(list, gone)[i] = list[j]
<1> DEFINE w == WithoutAll(list, gone)
<1>1. /\ w \in Seq(S) /\ Len(w) <= Len(list)
      /\ \A i \in 1..Len(w) : w[i] \notin gone
  BY WithoutAllProperties
<1>2. \A i, j \in 1..Len(list) : list[i] = list[j] => i = j
  BY DEF DistinctNames
<1>3. /\ {w[i] : i \in 1..Len(w)} = {list[i] : i \in 1..Len(list)} \ gone
      /\ \A i, j \in 1..Len(w) : w[i] = w[j] => i = j
  BY <1>2, WithoutAllExact
<1> HIDE DEF w
<1>4. DOMAIN w = 1..Len(w) /\ DOMAIN list = 1..Len(list)
  BY <1>1
<1>5. \A i \in DOMAIN w : \E j \in DOMAIN list : w[i] = list[j]
  <2> TAKE i \in DOMAIN w
  <2>1. w[i] \in {list[j] : j \in 1..Len(list)}
    BY <1>3, <1>4
  <2> QED  BY <1>4, <2>1
<1>6. DistinctNames(w)
  <2> SUFFICES ASSUME NEW i \in DOMAIN w, NEW j \in DOMAIN w, w[i].name = w[j].name
               PROVE  i = j
    BY DEF DistinctNames
  <2>1. PICK a \in DOMAIN list : w[i] = list[a]
    BY <1>5
  <2>2. PICK b \in DOMAIN list : w[j] = list[b]
    BY <1>5
  <2>3. a = b
    BY <2>1, <2>2 DEF DistinctNames
  <2> QED  BY <1>3, <1>4, <2>1, <2>2, <2>3
<1> QED  BY <1>1, <1>4, <1>5, <1>6 DEF w

LEMMA DependenciesStart == DependenciesInit => DependencyInv
<1> SUFFICES ASSUME DependenciesInit PROVE DependencyInv
  OBVIOUS
<1>1. 0 <= MaxApproved /\ 0 <= MaxRules
  BY DependenciesAssumption
<1> QED  BY <1>1 DEF DependenciesInit, DependencyInv, DistinctNames

LEMMA InitializePolicyKeeps ==
  ASSUME DependencyInv, InitializePolicy
  PROVE  DependencyInv'
<1>1. policy' \in SecurityPolicy /\ policy'.blocked = {}
  BY DEF InitializePolicy, SecurityPolicy
<1>2. policy' # None /\ 0 <= MaxApproved /\ 0 <= MaxBlocked
  BY <1>1, DependenciesAssumption
<1>3. IsFiniteSet(policy'.blocked) /\ Cardinality(policy'.blocked) <= MaxBlocked
  BY <1>1, <1>2, FS_EmptySet
<1>4. rules' \in Seq(ComplianceRule) /\ Len(rules') <= MaxRules /\ DistinctNames(rules')
  <2>1. rules' = DefaultRules
    BY DEF InitializePolicy
  <2>2. DefaultRules \in Seq(ComplianceRule) /\ Len(DefaultRules) = 2
    BY DEF DefaultRules, ComplianceRule, RuleKinds
  <2>3. DistinctNames(DefaultRules)
    BY DEF DefaultRules, DistinctNames
  <2> QED  BY <2>1, <2>2, <2>3, DependenciesAssumption
<1>5. approved' = <<>> /\ versions' \in [Crates -> Releases \cup {None}]
  BY DEF InitializePolicy
<1> QED  BY <1>1, <1>2, <1>3, <1>4, <1>5 DEF DependencyInv, DistinctNames

LEMMA AddApprovedKeeps ==
  ASSUME DependencyInv, NEW crate \in Crates, NEW release \in Releases,
         NEW level \in SecurityLevels, NEW dev \in BOOLEAN,
         AddApprovedDependency(crate, release, level, dev)
  PROVE  DependencyInv'
<1> DEFINE entry == [name |-> crate, version |-> release, level |-> level,
                     approved |-> (dev /\ policy.autoDev) \/ policy.audit, dev |-> dev]
<1>1. /\ policy # None /\ level <= policy.level /\ crate \notin policy.blocked
      /\ Fits(approved, entry, MaxApproved)
      /\ approved' = Upsert(approved, entry)
      /\ versions' = [versions EXCEPT ![crate] = release]
      /\ kept' = kept \ {crate} /\ policy' = policy /\ rules' = rules
  BY Zenon DEF AddApprovedDependency
<1>2. policy \in SecurityPolicy /\ policy.autoDev \in BOOLEAN /\ policy.audit \in BOOLEAN
  BY <1>1 DEF DependencyInv, SecurityPolicy
<1>3. /\ entry.name = crate /\ entry.version = release /\ entry.level = level
      /\ entry.approved <=> (entry.dev /\ policy.autoDev) \/ policy.audit
  OBVIOUS
<1>4. entry \in DependencyInfo
  <2>1. ((dev /\ policy.autoDev) \/ policy.audit) \in BOOLEAN
    BY Zenon
  <2> QED  BY <2>1, Zenon DEF DependencyInfo
<1> HIDE DEF entry
<1>5. /\ approved' \in Seq(DependencyInfo) /\ Len(approved') <= MaxApproved
      /\ DistinctNames(approved')
      /\ \A i \in DOMAIN approved' :
           \/ approved'[i] = entry
           \/ /\ approved'[i].name # entry.name
              /\ \E j \in DOMAIN approved : approved'[i] = approved[j]
  <2>1. /\ approved \in Seq(DependencyInfo) /\ MaxApproved \in Nat
        /\ DistinctNames(approved) /\ Len(approved) <= MaxApproved
    BY DependenciesAssumption DEF DependencyInv
  <2> QED  BY <1>1, <1>4, <2>1, UpsertKeeps
<1>6. versions' \in [Crates -> Releases \cup {None}]
  BY <1>1 DEF DependencyInv
<1>7. ASSUME NEW i \in DOMAIN approved'
      PROVE  /\ versions'[approved'[i].name] = approved'[i].version
             /\ approved'[i].name \notin kept' => Allowed(policy', approved'[i])
  <2>1. CASE approved'[i] = entry
    <3>1. versions'[crate] = release
      BY <1>1 DEF DependencyInv
    <3>2. Allowed(policy', approved'[i])
      <4>1. entry.name \notin policy.blocked /\ entry.level <= policy.level
        BY <1>1, <1>3
      <4>2. Allowed(policy, entry)
        BY <1>3, <4>1, Zenon DEF Allowed
      <4> QED  BY <1>1, <2>1, <4>2
    <3> QED  BY <1>3, <2>1, <3>1, <3>2
  <2>2. CASE approved'[i].name # entry.name
    <3>1. PICK j \in DOMAIN approved : approved'[i] = approved[j]
      BY <1>5, <2>2
    <3>2. /\ versions[approved[j].name] = approved[j].version
          /\ approved[j].name \notin kept => Allowed(policy, approved[j])
      BY DEF DependencyInv
    <3>3. approved[j].name \in Crates /\ approved[j].name # crate
      <4>1. approved[j] \in DependencyInfo
        BY DEF DependencyInv
      <4> QED  BY <1>3, <2>2, <3>1, <4>1 DEF DependencyInfo
    <3>4. versions'[approved[j].name] = versions[approved[j].name]
      BY <1>1, <3>3 DEF DependencyInv
    <3>5. Allowed(policy, approved[j]) => Allowed(policy', approved'[i])
      BY <1>1, <3>1, Zenon DEF Allowed
    <3> QED  BY <1>1, <3>1, <3>2, <3>3, <3>4, <3>5
  <2> QED  BY <1>5, <2>1, <2>2
<1>8. rules' \in Seq(ComplianceRule) /\ Len(rules') <= MaxRules /\ DistinctNames(rules')
  BY <1>1 DEF DependencyInv
<1> QED  BY <1>1, <1>5, <1>6, <1>7, <1>8 DEF DependencyInv

LEMMA UpdatePolicyKeeps ==
  ASSUME DependencyInv, NEW p \in Policies, UpdateSecurityPolicy(p)
  PROVE  DependencyInv'
<1>1. /\ policy' = p /\ kept' = NamesIn(approved) /\ approved' = approved
      /\ versions' = versions /\ rules' = rules /\ Cardinality(p.blocked) <= MaxBlocked
  BY DEF UpdateSecurityPolicy, PolicyFits
<1>2. p \in SecurityPolicy /\ p # None /\ IsFiniteSet(p.blocked)
  BY DependenciesAssumption
<1>3. \A i \in DOMAIN approved : approved[i].name \in kept'
  BY <1>1 DEF NamesIn
<1>4. DistinctNames(approved') /\ DistinctNames(rules')
  BY <1>1 DEF DependencyInv
<1> QED  BY <1>1, <1>2, <1>3, <1>4 DEF DependencyInv

LEMMA AddRuleKeeps ==
  ASSUME DependencyInv, NEW rule \in ComplianceRule, AddComplianceRule(rule)
  PROVE  DependencyInv'
<1>1. /\ rules \in Seq(ComplianceRule) /\ MaxRules \in Nat /\ Len(rules) <= MaxRules
      /\ DistinctNames(rules) /\ Fits(rules, rule, MaxRules)
  BY DependenciesAssumption DEF DependencyInv, AddComplianceRule
<1>2. rules' = Upsert(rules, rule)
  BY DEF AddComplianceRule
<1>3. rules' \in Seq(ComplianceRule) /\ Len(rules') <= MaxRules /\ DistinctNames(rules')
  BY <1>1, <1>2, UpsertKeeps
<1>4. /\ policy' = policy /\ approved' = approved /\ versions' = versions /\ kept' = kept
  BY DEF AddComplianceRule
<1>5. DistinctNames(approved')
  BY <1>4 DEF DependencyInv
<1> QED  BY <1>3, <1>4, <1>5 DEF DependencyInv

LEMMA BlockKeeps ==
  ASSUME DependencyInv, NEW crate \in Crates, BlockDependency(crate)
  PROVE  DependencyInv'
<1> DEFINE gone == {d \in Range(approved) : d.name = crate}
<1>1. /\ policy # None /\ crate \notin policy.blocked
      /\ Cardinality(policy.blocked) < MaxBlocked
      /\ policy' = [policy EXCEPT !.blocked = @ \cup {crate}]
      /\ approved' = WithoutAll(approved, gone)
      /\ versions' = versions /\ rules' = rules /\ kept' = kept
  BY DEF BlockDependency
<1>2. policy \in SecurityPolicy
  BY <1>1 DEF DependencyInv
<1>3. /\ policy'.blocked = policy.blocked \cup {crate} /\ policy'.level = policy.level
      /\ policy'.autoDev = policy.autoDev /\ policy'.audit = policy.audit
      /\ policy' \in SecurityPolicy
  BY <1>1, <1>2 DEF SecurityPolicy
<1>4. policy' # None
  BY <1>3, DependenciesAssumption
<1>5. IsFiniteSet(policy'.blocked) /\ Cardinality(policy'.blocked) <= MaxBlocked
  <2>1. IsFiniteSet(policy.blocked)
    BY <1>1 DEF DependencyInv
  <2>2. /\ IsFiniteSet(policy.blocked \cup {crate})
        /\ Cardinality(policy.blocked \cup {crate}) = Cardinality(policy.blocked) + 1
    BY <1>1, <2>1, FS_AddElement
  <2>3. Cardinality(policy.blocked) \in Nat /\ MaxBlocked \in Nat
    BY <2>1, FS_CardinalityType, DependenciesAssumption
  <2> QED  BY <1>1, <1>3, <2>2, <2>3
<1>6. /\ approved \in Seq(DependencyInfo) /\ DistinctNames(approved)
      /\ Len(approved) <= MaxApproved
  BY DEF DependencyInv
<1> HIDE DEF gone
<1>7. /\ approved' \in Seq(DependencyInfo) /\ Len(approved') <= Len(approved)
      /\ DistinctNames(approved')
      /\ \A i \in DOMAIN approved' :
           /\ approved'[i] \notin gone
           /\ \E j \in DOMAIN approved : approved'[i] = approved[j]
  BY <1>1, <1>6, WithoutKeepsNames
<1>8. Len(approved') <= MaxApproved
  <2>1. Len(approved') \in Nat /\ Len(approved) \in Nat /\ MaxApproved \in Nat
    BY <1>6, <1>7, DependenciesAssumption
  <2> QED  BY <1>6, <1>7, <2>1
<1>9. ASSUME NEW i \in DOMAIN approved'
      PROVE  /\ versions'[approved'[i].name] = approved'[i].version
             /\ approved'[i].name \notin kept' => Allowed(policy', approved'[i])
  <2>1. PICK j \in DOMAIN approved : approved'[i] = approved[j]
    BY <1>7
  <2>2. approved[j].name # crate
    <3>1. approved[j] \in Range(approved) /\ approved[j] \notin gone
      BY <1>7, <2>1 DEF Range
    <3> QED  BY <3>1 DEF gone
  <2>3. /\ versions[approved[j].name] = approved[j].version
        /\ approved[j].name \notin kept => Allowed(policy, approved[j])
    BY DEF DependencyInv
  <2>4. Allowed(policy, approved[j]) => Allowed(policy', approved'[i])
    BY <1>3, <2>1, <2>2, Zenon DEF Allowed
  <2> QED  BY <1>1, <2>1, <2>3, <2>4
<1>10. DistinctNames(rules')
  BY <1>1 DEF DependencyInv
<1> QED  BY <1>1, <1>3, <1>4, <1>5, <1>7, <1>8, <1>9, <1>10 DEF DependencyInv

LEMMA DependenciesStep ==
  ASSUME DependencyInv, [DependenciesNext]_dependencyVars
  PROVE  DependencyInv'
<1>1. CASE UNCHANGED dependencyVars
  BY <1>1 DEF dependencyVars, DependencyInv, DistinctNames, Allowed
<1>2. ASSUME NEW name \in RuleKinds, NEW kind \in RuleKinds, NEW on \in BOOLEAN,
             AddComplianceRule([name |-> name, kind |-> kind, enabled |-> on])
      PROVE  DependencyInv'
  <2>1. [name |-> name, kind |-> kind, enabled |-> on] \in ComplianceRule
    BY DEF ComplianceRule
  <2> QED  BY <1>2, <2>1, AddRuleKeeps
<1> QED
  BY <1>1, <1>2, InitializePolicyKeeps, AddApprovedKeeps, UpdatePolicyKeeps, BlockKeeps
  DEF DependenciesNext

\* One line of the compliance check.
LEMMA CheckLine ==
  ASSUME NEW i \in DOMAIN RunComplianceCheck
  PROVE  /\ RunComplianceCheck[i].kind = "version" /\
              (\A j \in DOMAIN approved : versions[approved[j].name] = approved[j].version)
            => RunComplianceCheck[i].passed
         /\ RunComplianceCheck[i].kind = "security" /\
              (\A j \in DOMAIN approved : approved[j].level <= policy.level)
            => RunComplianceCheck[i].passed
<1> DEFINE enabled == WithoutAll(rules, {r \in Range(rules) : ~r.enabled})
           Passed(r) == /\ r.kind \in {"version", "security", "audit"}
                        /\ \A j \in DOMAIN approved : Complies(r.kind, approved[j])
<1>1. RunComplianceCheck
        = [k \in DOMAIN enabled |-> [kind |-> enabled[k].kind, passed |-> Passed(enabled[k])]]
  BY Zenon DEF RunComplianceCheck
<1> HIDE DEF enabled
<1>2. /\ RunComplianceCheck[i].kind = enabled[i].kind
      /\ RunComplianceCheck[i].passed = Passed(enabled[i])
  BY <1>1
<1>3. \A d : Complies("version", d) <=> versions[d.name] = d.version
  BY DEF Complies, IsUpToDate
<1>4. \A d : Complies("security", d) <=> d.level <= policy.level
  BY DEF Complies
<1> QED  BY <1>2, <1>3, <1>4, Zenon

LEMMA DependencyMeaning ==
  ASSUME DependencyInv
  PROVE  DependenciesSound
<1>1. /\ Cardinality(NamesIn(approved)) = Len(approved)
      /\ Cardinality(NamesIn(rules)) = Len(rules)
  BY NamesCounted DEF DependencyInv
<1>2. \A i \in DOMAIN approved :
        /\ versions[approved[i].name] = approved[i].version
        /\ approved[i].name \notin kept => Allowed(policy, approved[i])
  BY DEF DependencyInv
<1>3. \A i \in DOMAIN approved : LET d == approved[i] IN
        /\ IsUpToDate(d.name, d.version)
        /\ d.name \notin kept =>
             /\ d.name \notin policy.blocked
             /\ d.level <= policy.level
             /\ d.approved <=> (d.dev /\ policy.autoDev) \/ policy.audit
  BY <1>2, Zenon DEF IsUpToDate, Allowed
<1>4. ASSUME NEW c \in Crates, NEW v \in Releases, NEW l \in SecurityLevels,
             ValidateDependency(c, v, l)
      PROVE  IsUpToDate(c, v) /\ c \notin policy.blocked /\ c \in NamesIn(approved)
  <2>1. PICK i \in DOMAIN approved : approved[i].name = c /\ approved[i].version = v
    BY <1>4 DEF ValidateDependency
  <2> QED  BY <1>2, <1>4, <2>1 DEF ValidateDependency, IsUpToDate, NamesIn
<1>5. ASSUME NEW i \in DOMAIN RunComplianceCheck
      PROVE  LET r == RunComplianceCheck[i] IN
             /\ r.kind = "version" => r.passed
             /\ r.kind = "security" /\ kept = {} => r.passed
  <2>1. kept = {} => \A j \in DOMAIN approved : approved[j].level <= policy.level
    BY <1>2 DEF Allowed
  <2> QED  BY <1>2, <2>1, CheckLine, Zenon
<1>6. AllDeprecatedReplaced
  BY DEF AllDeprecatedReplaced, AuditedDependencies
<1> QED  BY <1>1, <1>3, <1>4, <1>5, <1>6, Zenon DEF DependenciesSound
-----------------------------------------------------------------------------
(* Roles and keys: what the queries answer.                                *)

\* A proposal is made by an administrator.
KeysInv == AccessInv /\ (pendingAdmin # None => defaultAdmin # None)

LEMMA KeysStart == AccessInit => KeysInv
BY AccessStart DEF AccessInit, KeysInv

LEMMA KeysStep ==
  ASSUME KeysInv, [AccessNext]_<<ledgerVars, accessVars>>
  PROVE  KeysInv'
<1>1. AccessInv'
  BY AccessStep DEF KeysInv
<1>2. None \notin Addresses
  BY LedgerAssumption
<1>3. CASE UNCHANGED <<ledgerVars, accessVars>>
  BY <1>1, <1>3 DEF accessVars, KeysInv, AccessInv, AccessTypeOK
<1>4. ASSUME NEW d \in Addresses, NEW p \in Addresses, NEW g \in Addresses,
             NEW u \in Addresses, ProvisionKeys(d, p, g, u)
      PROVE  KeysInv'
  BY <1>1, <1>2, <1>4 DEF ProvisionKeys, KeysInv
<1>5. ASSUME NEW c \in Addresses,
             \/ HaltContract(c) \/ ResumeContract(c)
             \/ CancelDefaultAdminTransfer(c) \/ AcceptDefaultAdminRole(c)
             \/ \E a \in Addresses : \/ TransferDefaultAdmin(c, a)
                                     \/ TransferPauser(c, a)
                                     \/ ProposeDefaultAdmin(c, a)
      PROVE  KeysInv'
  BY <1>1, <1>2, <1>5
     DEF HaltContract, ResumeContract, CancelDefaultAdminTransfer, AcceptDefaultAdminRole,
         TransferDefaultAdmin, TransferPauser, ProposeDefaultAdmin, KeysInv
<1>6. ASSUME NEW c \in Addresses, NEW rate \in FeeRates, SetPlatformFee(c, rate)
      PROVE  KeysInv'
  BY <1>1, <1>6 DEF SetPlatformFee, KeysInv
<1>7. ASSUME NEW hash \in Hashes, Upgrade(hash) PROVE KeysInv'
  BY <1>1, <1>7 DEF Upgrade, KeysInv
<1> QED  BY <1>3, <1>4, <1>5, <1>6, <1>7 DEF AccessNext

\* The holders of a role are no more than its list is long.
LEMMA HoldersCounted ==
  ASSUME RolesTypeOK, NEW r \in Roles
  PROVE  Cardinality(Holders(r)) <= Len(members[r])
<1> DEFINE n == Len(members[r])
           f == [i \in 1..n |-> members[r][i]]
<1>1. n \in Nat /\ IsFiniteSet(1..n) /\ Cardinality(1..n) = n
  <2>1. members[r] \in Seq(Addresses)
    BY DEF RolesTypeOK
  <2>2. n \in Nat
    BY <2>1
  <2> QED  BY <2>2, FS_Interval
<1>2. f \in Surjection(1..n, Holders(r))
  BY DEF Holders, Surjection
<1> HIDE DEF n, f
<1>3. Cardinality(Holders(r)) <= Cardinality(1..n)
  BY <1>1, <1>2, FS_Surjection
<1> QED  BY <1>1, <1>3 DEF n

\* Who holds a role has what it permits.
LEMMA RolesPermit ==
  /\ \A p \in Permissions : HasPermission("Admin", p)
  /\ HasPermission("Operator", "PauseContract")
  /\ \A r, p : r # "Admin" /\ p \in {"ManageRoles", "UnpauseContract", "UpdateConfig"}
       => ~HasPermission(r, p)
  /\ \A a, r, p : HasRole(a, r) /\ HasPermission(r, p) => RequirePermission(a, p)
<1>1. \A p \in Permissions : HasPermission("Admin", p)
  BY DEF Permissions, HasPermission
<1>2. HasPermission("Operator", "PauseContract")
  BY DEF HasPermission
<1>3. \A r, p : r # "Admin" /\ p \in {"ManageRoles", "UnpauseContract", "UpdateConfig"}
        => ~HasPermission(r, p)
  BY DEF HasPermission
<1>4. \A a, r, p : HasRole(a, r) /\ HasPermission(r, p) => RequirePermission(a, p)
  BY RoleAssumption DEF HasRole, RequirePermission
<1> QED  BY <1>1, <1>2, <1>3, <1>4

LEMMA RolesMeaning == PermissionsFollowRoles
<1> SUFFICES ASSUME NEW a \in Addresses
             PROVE  /\ IsAdmin(a) => \A p \in Permissions : RequirePermission(a, p)
                    /\ \A r \in Roles : MayManage(a, r) =>
                         \A p \in Permissions : HasPermission(r, p) => RequirePermission(a, p)
                    /\ ~IsAdmin(a) => \A p \in {"ManageRoles", "UnpauseContract", "UpdateConfig"} :
                                        ~RequirePermission(a, p)
                    /\ RequireAllRoles(a, AddressRoles(a))
                    /\ RequireAnyRole(a, Roles) <=> AddressRoles(a) # {}
                    /\ RequireRole(a, "Operator") => RequirePermission(a, "PauseContract")
  BY Zenon DEF PermissionsFollowRoles
<1>1. IsAdmin(a) => \A p \in Permissions : RequirePermission(a, p)
  BY RolesPermit DEF IsAdmin
<1>2. ASSUME NEW r \in Roles, MayManage(a, r), NEW p \in Permissions, HasPermission(r, p)
      PROVE  RequirePermission(a, p)
  <2>1. HasRole(a, "Admin") \/ HasRole(a, r)
    BY <1>2, RoleAssumption DEF MayManage, Assigners, HasRole
  <2> QED  BY <1>2, <2>1, RolesPermit
<1>3. ASSUME ~IsAdmin(a), NEW p \in {"ManageRoles", "UnpauseContract", "UpdateConfig"}
      PROVE  ~RequirePermission(a, p)
  BY <1>3, RolesPermit DEF IsAdmin, RequirePermission
<1>4. RequireAllRoles(a, AddressRoles(a))
  BY DEF RequireAllRoles, AddressRoles
<1>5. RequireAnyRole(a, Roles) <=> AddressRoles(a) # {}
  BY RoleAssumption DEF RequireAnyRole, AddressRoles, HasRole
<1>6. RequireRole(a, "Operator") => RequirePermission(a, "PauseContract")
  BY RolesPermit DEF RequireRole
<1> QED  BY <1>1, <1>2, <1>3, <1>4, <1>5, <1>6

LEMMA QueriesMeaning ==
  ASSUME RolesTypeOK, PendingPaired, TimesExact, KeysInv
  PROVE  QueriesMatchTables
<1>1. ASSUME NEW r \in Roles
      PROVE  /\ RoleMemberCount(r) >= Cardinality(Holders(r))
             /\ PendingTransfer(r) # None <=> proposal[r] # None
             /\ PendingTransfer(r) # None =>
                  PendingTransfer(r).effective_time = proposal[r].at + TransferDelay
  <2>1. RoleMemberCount(r) >= Cardinality(Holders(r))
    BY HoldersCounted DEF RoleMemberCount
  <2>2. CASE pendingTo[r] = None
    BY <2>1, <2>2 DEF PendingTransfer, PendingPaired
  <2>3. CASE pendingTo[r] # None
    <3>1. pendingAt[r] # None /\ proposal[r] # None
      BY <2>3 DEF PendingPaired
    <3>2. PendingTransfer(r) = [new_holder |-> pendingTo[r], effective_time |-> pendingAt[r]]
      BY <2>3, <3>1 DEF PendingTransfer
    <3>3. pendingAt[r] = proposal[r].at + TransferDelay
      BY <3>1 DEF TimesExact
    <3>4. pendingTo[r] \in Addresses /\ pendingAt[r] \in Nat
      BY <2>3, <3>1 DEF RolesTypeOK
    <3>5. PendingTransfer(r) # None
      BY <3>2, <3>4, QueriesAssumption
    <3> QED  BY <2>1, <3>1, <3>2, <3>3, <3>5
  <2> QED  BY <2>2, <2>3
<1>2. PendingDefaultAdmin # None => KeyHolder.default_admin # None
  BY DEF PendingDefaultAdmin, KeyHolder, KeysInv
<1> QED  BY <1>1, <1>2, Zenon DEF QueriesMatchTables
-----------------------------------------------------------------------------
(* Gates, versions and operands.                                           *)

\* A gate that exists asks for at least one token.
GatingInv ==
  /\ gateAdmin \in Addresses \cup {None}
  /\ tokenGate \in [collection : Collections, min : {m \in GateMinimums : m > 0}] \cup {NoGate}
  /\ nftGate \in [collection : Collections, min : {m \in GateMinimums : m > 0}] \cup {NoGate}
  /\ holding \in [Addresses -> [Collections -> 0..MaxHolding]]

LEMMA GatingStart == GatingInit => GatingInv
BY GatingAssumption DEF GatingInit, GatingInv

LEMMA GatingStep ==
  ASSUME GatingInv, [GatingNext]_gatingVars
  PROVE  GatingInv'
<1>1. CASE UNCHANGED gatingVars
  BY <1>1 DEF gatingVars, GatingInv
<1>2. ASSUME NEW c \in Addresses, RemoveTokenGate(c) \/ RemoveNftGate(c) \/ PassGateAdmin(c)
      PROVE  GatingInv'
  BY <1>2 DEF RemoveTokenGate, RemoveNftGate, PassGateAdmin, GatingInv
<1>3. ASSUME NEW c \in Addresses, NEW t \in Collections, NEW min \in GateMinimums,
             ConfigureTokenGate(c, t, min) \/ ConfigureNftGate(c, t, min)
      PROVE  GatingInv'
  BY <1>3 DEF ConfigureTokenGate, ConfigureNftGate, GatingInv
<1>4. ASSUME NEW a \in Addresses, NEW t \in Collections, HoldingMoves(a, t)
      PROVE  GatingInv'
  <2>1. PICK x \in 0..MaxHolding : holding' = [holding EXCEPT ![a][t] = x]
    BY <1>4 DEF HoldingMoves
  <2>2. holding' \in [Addresses -> [Collections -> 0..MaxHolding]]
    BY <2>1 DEF GatingInv
  <2> QED  BY <1>4, <2>2 DEF HoldingMoves, GatingInv
<1> QED  BY <1>1, <1>2, <1>3, <1>4 DEF GatingNext

LEMMA GatingMeaning ==
  ASSUME GatingInv
  PROVE  GatingTypeOK
<1>1. /\ tokenGate \in TokenGateConfig \cup {NoGate}
      /\ nftGate \in NftGateConfig \cup {NoGate}
  BY DEF GatingInv, TokenGateConfig, NftGateConfig
<1>2. ASSUME NEW gate \in {tokenGate, nftGate}, NEW c \in Addresses,
             \A t \in Collections : holding[c][t] = 0, Passes(gate, c), gate # NoGate
      PROVE  FALSE
  <2>1. gate \in [collection : Collections, min : {m \in GateMinimums : m > 0}]
    BY <1>2 DEF GatingInv
  <2>2. gate.collection \in Collections /\ gate.min \in GateMinimums /\ gate.min > 0
    BY <2>1
  <2>3. holding[c][gate.collection] = 0 /\ gate.min \in Int
    BY <1>2, <2>2, GatingAssumption
  <2> QED  BY <1>2, <2>2, <2>3 DEF Passes
<1>3. \A gate, c : gate = NoGate => Passes(gate, c)
  BY DEF Passes
<1> QED  BY <1>1, <1>2, <1>3, Zenon DEF GatingInv, GatingTypeOK

LEMMA VersionsStart == VersionsInit => VersionsTypeOK
BY VersionsAssumption DEF VersionsInit, VersionsTypeOK, Schemas

LEMMA VersionsStep ==
  ASSUME VersionsTypeOK, [VersionsNext]_versionVars
  PROVE  VersionsTypeOK'
<1> USE VersionsAssumption
<1>1. CurrentSchema \in Nat \ {0} /\ MaxSchema \in Nat /\ CurrentSchema <= MaxSchema
  OBVIOUS
<1>2. SUFFICES /\ schema' \in Schemas
               /\ proxyAdmin' \in Addresses \cup {None} /\ minorAdmin' \in Addresses \cup {None}
               /\ implHash' \in (ImplHashes \ {ZeroImpl}) \cup {None}
               /\ proxyAdmin' = None <=> implHash' = None
  BY DEF VersionsTypeOK
<1>3. CASE UNCHANGED versionVars
  BY <1>3 DEF versionVars, VersionsTypeOK
<1>4. ASSUME NEW v \in Schemas, SetSchemaVersion(v) \/ MigrateTo(v)
      PROVE  schema' \in Schemas /\ UNCHANGED <<proxyAdmin, implHash, minorAdmin>>
  BY <1>1, <1>4 DEF SetSchemaVersion, MigrateTo
<1>5. ASSUME NEW a \in Addresses, InitMinor(a)
      PROVE  minorAdmin' \in Addresses /\ UNCHANGED <<schema, proxyAdmin, implHash>>
  BY <1>5 DEF InitMinor
<1>6. ASSUME NEW a \in Addresses, NEW h \in ImplHashes, InitializeProxy(a, h)
      PROVE  /\ proxyAdmin' \in Addresses /\ implHash' \in ImplHashes \ {ZeroImpl}
             /\ UNCHANGED <<schema, minorAdmin>>
  BY <1>6 DEF InitializeProxy
<1>7. ASSUME NEW h \in ImplHashes, UpgradeProxy(h)
      PROVE  /\ proxyAdmin # None /\ implHash' \in ImplHashes \ {ZeroImpl}
             /\ UNCHANGED <<schema, proxyAdmin, minorAdmin>>
  BY <1>7 DEF UpgradeProxy
<1>8. None \notin Addresses
  BY LedgerAssumption
<1>9. CASE \E v \in Schemas : SetSchemaVersion(v) \/ MigrateTo(v)
  BY <1>4, <1>9 DEF VersionsTypeOK
<1>10. CASE \E a \in Addresses : InitMinor(a) \/ PingMinor(a)
  BY <1>3, <1>5, <1>10 DEF PingMinor, VersionsTypeOK
<1>11. CASE \E a \in Addresses, h \in ImplHashes : InitializeProxy(a, h)
  BY <1>6, <1>8, <1>11 DEF VersionsTypeOK
<1>12. CASE \E h \in ImplHashes : UpgradeProxy(h)
  BY <1>7, <1>12 DEF VersionsTypeOK
<1> QED  BY <1>3, <1>9, <1>10, <1>11, <1>12 DEF VersionsNext

LEMMA OperandsStart == CalculationsInit => CalculationsTypeOK
<1>1. <<>> \in Lists
  <2>1. <<>> \in [1..0 -> Operands] /\ 0 \in 0..MaxOperands
    BY CalculationsAssumption
  <2> QED  BY <2>1, Zenon DEF Lists
<1>2. <<0, 0, 0>> \in [1..3 -> Naturals3 \cup {0}]
  OBVIOUS
<1> QED  BY <1>1, <1>2 DEF CalculationsInit, CalculationsTypeOK

LEMMA OperandsStep ==
  ASSUME CalculationsTypeOK, [CalculationsNext]_calcVars
  PROVE  CalculationsTypeOK'
<1>1. ASSUME NEW list \in Lists, NEW other \in Lists, EvaluateLists(list, other)
      PROVE  CalculationsTypeOK'
  BY <1>1 DEF EvaluateLists, CalculationsTypeOK
<1>2. ASSUME NEW n \in [1..3 -> Naturals3], EvaluateNumbers(n) PROVE CalculationsTypeOK'
  <2>1. n \in [1..3 -> Naturals3 \cup {0}]
    OBVIOUS
  <2> QED  BY <1>2, <2>1 DEF EvaluateNumbers, CalculationsTypeOK
<1>3. CASE UNCHANGED calcVars
  BY <1>3 DEF calcVars, CalculationsTypeOK
<1> QED  BY <1>1, <1>2, <1>3 DEF CalculationsNext

\* The list of approvals is what was approved and not revoked.
LEMMA MultiSigTyped ==
  ASSUME MultiSigInv, executed \in BOOLEAN
  PROVE  MultiSigTypeOK
<1> DEFINE assenting == {b \in Addresses : assent[b] # None}
           listed == {approvals[i] : i \in 1..Len(approvals)}
           stamped == {[signer |-> a, timestamp |-> assent[a]] : a \in assenting}
<1>1. ASSUME NEW i \in 1..Len(approvals)
      PROVE  approvals[i] \in stamped
  <2>1. /\ approvals[i] \in Approval /\ approvals[i].signer \in assenting
        /\ approvals[i].timestamp = assent[approvals[i].signer]
    BY ListedApproval DEF MultiSigInv
  <2>2. approvals[i] = [signer |-> approvals[i].signer, timestamp |-> approvals[i].timestamp]
    BY <2>1 DEF Approval
  <2> QED  BY <2>1, <2>2
<1>2. ASSUME NEW a \in assenting
      PROVE  [signer |-> a, timestamp |-> assent[a]] \in listed
  <2>1. PICK i \in 1..Len(approvals) : approvals[i].signer = a
    BY DEF MultiSigInv
  <2>2. approvals[i] \in Approval /\ approvals[i].timestamp = assent[a]
    BY <2>1, ListedApproval DEF MultiSigInv
  <2>3. approvals[i] = [signer |-> a, timestamp |-> assent[a]]
    BY <2>1, <2>2 DEF Approval
  <2> QED  BY <2>3
<1>3. listed = stamped
  BY <1>1, <1>2
<1> QED  BY <1>3, Zenon DEF MultiSigInv, MultiSigTypeOK

LEMMA ExecutedTyped ==
  ASSUME executed \in BOOLEAN, [MultiSigNext]_<<ledgerVars, multisigVars>>
  PROVE  executed' \in BOOLEAN
BY DEF MultiSigNext, multisigVars, Approve, Revoke, Reconfigure, Execute
-----------------------------------------------------------------------------
(* All the modules, each exercised or left alone.                          *)

\* What a step of any module does to the ledger.
LedgerMoves ==
  \/ UNCHANGED ledgerVars
  \/ \E c \in Addresses \cup {None} : SignedBy(c)
  \/ Unsigned
  \/ Tick

LEMMA LedgerKept ==
  ASSUME LedgerTypeOK, LedgerMoves
  PROVE  LedgerTypeOK' /\ now \in Nat /\ now' \in Nat /\ now <= now'
BY LedgerAssumption DEF LedgerMoves, LedgerTypeOK, ledgerVars, SignedBy, Unsigned, Tick

\* The modules of access_control.rs and of role_based_access.rs.
LEMMA TablesMove ==
  ASSUME AccessInv
  PROVE  /\ RolesNext => LedgerMoves
         /\ AccessNext => LedgerMoves
         /\ SessionNext => LedgerMoves
         /\ TrustNext => LedgerMoves
<1>1. RolesNext => LedgerMoves
  BY DEF RolesNext, InitializeRbac, AssignRole, RevokeRole, InitiateRoleTransfer,
         CompleteRoleTransfer, CancelRoleTransfer, LedgerMoves
<1>2. AccessNext => LedgerMoves
  <2>1. upgrader \in Addresses \cup {None}
    BY DEF AccessInv, AccessTypeOK
  <2>2. ASSUME NEW d \in Addresses, NEW p \in Addresses, NEW g \in Addresses,
               NEW u \in Addresses, ProvisionKeys(d, p, g, u)
        PROVE  LedgerMoves
    BY <2>2 DEF ProvisionKeys, LedgerMoves
  <2>3. ASSUME NEW c \in Addresses,
               \/ HaltContract(c) \/ ResumeContract(c)
               \/ CancelDefaultAdminTransfer(c) \/ AcceptDefaultAdminRole(c)
               \/ \E rate \in FeeRates : SetPlatformFee(c, rate)
               \/ \E a \in Addresses : \/ TransferDefaultAdmin(c, a)
                                       \/ TransferPauser(c, a)
                                       \/ ProposeDefaultAdmin(c, a)
        PROVE  LedgerMoves
    <3>1. SignedBy(c)
      BY <2>3 DEF HaltContract, ResumeContract, CancelDefaultAdminTransfer,
                  AcceptDefaultAdminRole, SetPlatformFee, TransferDefaultAdmin,
                  TransferPauser, ProposeDefaultAdmin
    <3> QED  BY <3>1 DEF LedgerMoves
  <2>4. ASSUME NEW hash \in Hashes, Upgrade(hash) PROVE LedgerMoves
    BY <2>1, <2>4 DEF Upgrade, LedgerMoves
  <2> QED  BY <2>2, <2>3, <2>4 DEF AccessNext
<1>3. SessionNext => LedgerMoves
  BY DEF SessionNext, ValidateSession, RevokeSession, CreateSession, LedgerMoves
<1>4. TrustNext => LedgerMoves
  BY DEF TrustNext, ProvisionKeeper, InvokeExternal, RegisterTrusted, DeregisterTrusted,
         LedgerMoves
<1> QED  BY <1>1, <1>2, <1>3, <1>4

\* The others.
LEMMA RecordsMove ==
  ASSUME GatingInv, VersionsTypeOK
  PROVE  /\ MultiSigNext => LedgerMoves
         /\ GatingNext => LedgerMoves
         /\ VersionsNext => LedgerMoves
         /\ TrainingNext => LedgerMoves
         /\ SuitesNext => LedgerMoves
         /\ ReportsNext => LedgerMoves
         /\ RegressionNext => LedgerMoves
         /\ DependenciesNext => LedgerMoves
<1>1. MultiSigNext => LedgerMoves
  BY DEF MultiSigNext, Approve, Revoke, Reconfigure, Execute, LedgerMoves
<1>2. GatingNext => LedgerMoves
  <2>1. gateAdmin \in Addresses \cup {None}
    BY DEF GatingInv
  <2> QED
    BY <2>1 DEF GatingNext, RemoveTokenGate, RemoveNftGate, PassGateAdmin, HoldingMoves,
                ConfigureTokenGate, ConfigureNftGate, LedgerMoves
<1>3. VersionsNext => LedgerMoves
  <2>1. proxyAdmin \in Addresses \cup {None}
    BY DEF VersionsTypeOK
  <2> QED
    BY <2>1 DEF VersionsNext, SetSchemaVersion, MigrateTo, InitMinor, PingMinor,
                InitializeProxy, UpgradeProxy, LedgerMoves
<1>4. TrainingNext => LedgerMoves
  BY DEF TrainingNext, LedgerMoves
<1>5. SuitesNext => LedgerMoves
  BY DEF SuitesNext, LedgerMoves
<1>6. ReportsNext => LedgerMoves
  BY DEF ReportsNext, LedgerMoves
<1>7. RegressionNext => LedgerMoves
  BY DEF RegressionNext, RunRegressionBatch, LedgerMoves
<1>8. DependenciesNext => LedgerMoves
  BY DEF DependenciesNext, LedgerMoves
<1> QED  BY <1>1, <1>2, <1>3, <1>4, <1>5, <1>6, <1>7, <1>8

\* Every module is in a state of its own behaviours, at the time the ledger
\* shows, whichever module is exercised.
ModulesInv ==
  /\ LedgerTypeOK
  /\ RoleInv /\ KeysInv /\ SessionInv /\ TrustInv
  /\ MultiSigInv /\ executed \in BOOLEAN
  /\ GatingInv /\ VersionsTypeOK /\ TrainingInv
  /\ SuiteInv /\ ReportInv /\ RegressionInv
  /\ DependencyInv /\ CalculationsTypeOK

LEMMA ModulesStart == Init => ModulesInv
<1> SUFFICES ASSUME Init PROVE ModulesInv
  OBVIOUS
<1>1. /\ LedgerInit /\ RolesInit /\ AccessInit /\ SessionInit /\ TrustInit
      /\ MultiSigInit /\ GatingInit /\ VersionsInit /\ TrainingInit
      /\ SuitesInit /\ ReportsInit /\ RegressionInit /\ DependenciesInit
      /\ CalculationsInit
  BY Zenon DEF Init
<1>2. LedgerTypeOK
  BY <1>1, LedgerAssumption DEF LedgerInit, LedgerTypeOK
<1>3. RoleInv
  BY <1>1, <1>2, RoleAssumption
     DEF RolesInit, RoleInv, RolesTypeOK, PendingPaired, TimesExact
<1>4. TrustInv
  BY <1>1, TrustAssumption DEF TrustInit, TrustInv, TrustTypeOK, TrustedSet
<1>5. executed \in BOOLEAN
  BY <1>1 DEF MultiSigInit
<1> QED
  BY <1>1, <1>2, <1>3, <1>4, <1>5, KeysStart, SessionStart, MultiSigStart, GatingStart,
     VersionsStart, TrainingStart, SuiteStart, ReportStart, RegressionStart,
     DependenciesStart, OperandsStart, Zenon
  DEF ModulesInv

\* The module that is exercised takes one of its steps; the others rest.
LEMMA SubjectSteps ==
  ASSUME [Next]_vars
  PROVE  /\ [RolesNext]_rolesVars
         /\ [AccessNext]_accessVars
         /\ [SessionNext]_sessionVars
         /\ [TrustNext]_trustVars
         /\ [MultiSigNext]_multisigVars
         /\ [GatingNext]_gatingVars
         /\ [VersionsNext]_versionVars
         /\ [TrainingNext]_trainingVars
         /\ [SuitesNext]_suiteVars
         /\ [ReportsNext]_reportVars
         /\ [RegressionNext]_regressionVars
         /\ [DependenciesNext]_dependencyVars
         /\ [CalculationsNext]_calcVars
         /\ UNCHANGED subject
<1>1. CASE Next
  <2>1. Others /\ UNCHANGED subject
    BY <1>1 DEF Next
  <2>2. /\ subject = "roles" => RolesNext
        /\ subject = "access" => AccessNext
        /\ subject = "sessions" => SessionNext
    BY <1>1 DEF Next
  <2>3. /\ subject = "trust" => TrustNext
        /\ subject = "multisig" => MultiSigNext
        /\ subject = "gates" => GatingNext
    BY <1>1 DEF Next
  <2>4. /\ subject = "versions" => VersionsNext
        /\ subject = "training" => TrainingNext
    BY <1>1 DEF Next
  <2>5. /\ subject = "suites" => SuitesNext
        /\ subject = "reports" => ReportsNext
    BY <1>1 DEF Next
  <2>6. subject = "regression" => RegressionNext
    BY <1>1 DEF Next
  <2>7. /\ subject = "dependencies" => DependenciesNext
        /\ subject = "calculations" => CalculationsNext
    BY <1>1 DEF Next
  <2>8. [RolesNext]_rolesVars /\ [AccessNext]_accessVars /\ [SessionNext]_sessionVars
    BY <2>1, <2>2, Zenon DEF Others
  <2>9. [TrustNext]_trustVars /\ [MultiSigNext]_multisigVars /\ [GatingNext]_gatingVars
    BY <2>1, <2>3, Zenon DEF Others
  <2>10. [VersionsNext]_versionVars /\ [TrainingNext]_trainingVars
    BY <2>1, <2>4, Zenon DEF Others
  <2>11. [SuitesNext]_suiteVars /\ [ReportsNext]_reportVars
    BY <2>1, <2>5, Zenon DEF Others
  <2>12. [RegressionNext]_regressionVars /\ [DependenciesNext]_dependencyVars
         /\ [CalculationsNext]_calcVars
    BY <2>1, <2>6, <2>7, Zenon DEF Others
  <2> QED  BY <2>1, <2>8, <2>9, <2>10, <2>11, <2>12
<1>2. CASE UNCHANGED vars
  BY <1>2, Zenon DEF vars
<1> QED  BY <1>1, <1>2

LEMMA LedgerSteps ==
  ASSUME ModulesInv, [Next]_vars
  PROVE  LedgerTypeOK' /\ now \in Nat /\ now' \in Nat /\ now <= now'
<1>1. LedgerMoves
  <2>1. CASE UNCHANGED vars
    <3>1. UNCHANGED ledgerVars
      BY <2>1, Zenon DEF vars
    <3> QED  BY <3>1 DEF LedgerMoves
  <2>2. CASE Next
    <3>1. AccessInv /\ GatingInv /\ VersionsTypeOK
      BY DEF ModulesInv, KeysInv
    <3>2. Unsigned => LedgerMoves
      BY DEF LedgerMoves
    <3> QED  BY <2>2, <3>1, <3>2, TablesMove, RecordsMove DEF Next
  <2> QED  BY <2>1, <2>2
<1> QED  BY <1>1, LedgerKept DEF ModulesInv

\* What rests keeps its invariant while the clock goes on.
LEMMA TablesRest ==
  ASSUME LedgerTypeOK', now \in Nat, now' \in Nat, now <= now'
  PROVE  /\ RoleInv /\ UNCHANGED rolesVars => RoleInv'
         /\ KeysInv /\ UNCHANGED accessVars => KeysInv'
         /\ SessionInv /\ UNCHANGED sessionVars => SessionInv'
         /\ TrustInv /\ UNCHANGED trustVars => TrustInv'
         /\ MultiSigInv /\ UNCHANGED multisigVars => MultiSigInv'
<1>1. ASSUME RoleInv, UNCHANGED rolesVars PROVE RoleInv'
  BY <1>1 DEF rolesVars, RoleInv, RolesTypeOK, PendingPaired, TimesExact
<1>2. ASSUME KeysInv, UNCHANGED accessVars PROVE KeysInv'
  BY <1>2 DEF accessVars, KeysInv, AccessInv, AccessTypeOK
<1>3. ASSUME SessionInv, UNCHANGED sessionVars PROVE SessionInv'
  <2>1. SessionTypeOK' /\ ValidatedOnce'
    BY <1>3 DEF sessionVars, SessionInv, SessionTypeOK, ValidatedOnce
  <2>2. Opened'
    <3>1. SUFFICES ASSUME NEW a \in Addresses, session'[a] # None
                   PROVE  /\ openedAt'[a] # None /\ openedAt'[a] <= now'
                          /\ session'[a].expiresAt <= openedAt'[a] + MaxTtl
      BY DEF Opened
    <3>2. session' = session /\ openedAt' = openedAt
      BY <1>3 DEF sessionVars
    <3>3. /\ openedAt[a] # None /\ openedAt[a] <= now
          /\ session[a].expiresAt <= openedAt[a] + MaxTtl
      BY <1>3, <3>1, <3>2 DEF SessionInv, Opened
    <3>4. openedAt[a] \in Nat
      BY <1>3, <3>3, SessionFacts, LedgerAssumption
    <3> QED  BY <3>2, <3>3, <3>4
  <2> QED  BY <2>1, <2>2 DEF SessionInv
<1>4. ASSUME TrustInv, UNCHANGED trustVars PROVE TrustInv'
  BY <1>4 DEF trustVars, TrustInv, TrustTypeOK, TrustedSet
<1>5. ASSUME MultiSigInv, UNCHANGED multisigVars PROVE MultiSigInv'
  BY <1>5 DEF multisigVars, MultiSigInv
<1> QED  BY <1>1, <1>2, <1>3, <1>4, <1>5

LEMMA RolesStep ==
  ASSUME RoleInv, RolesNext
  PROVE  RoleInv'
<1>1. CASE Tick /\ UNCHANGED rolesVars  BY <1>1, TickKeeps
<1>2. ASSUME NEW a \in Addresses, InitializeRbac(a) PROVE RoleInv'
  BY <1>2, InitializeKeeps
<1>3. ASSUME NEW c \in Addresses, NEW r \in Roles,
             \/ CompleteRoleTransfer(c, r) \/ CancelRoleTransfer(c, r)
             \/ \E a \in Addresses : \/ AssignRole(c, r, a)
                                     \/ RevokeRole(c, r, a)
                                     \/ InitiateRoleTransfer(c, r, a)
      PROVE  RoleInv'
  BY <1>3, CompleteKeeps, CancelKeeps, AssignKeeps, RevokeRoleKeeps, InitiateKeeps
<1> QED  BY <1>1, <1>2, <1>3 DEF RolesNext

LEMMA ModulesStep == ModulesInv /\ [Next]_vars => ModulesInv'
<1> SUFFICES ASSUME ModulesInv, [Next]_vars PROVE ModulesInv'
  OBVIOUS
<1>1. LedgerTypeOK /\ LedgerTypeOK' /\ now \in Nat /\ now' \in Nat /\ now <= now'
  BY LedgerSteps DEF ModulesInv
<1>2. RoleInv'
  BY <1>1, SubjectSteps, TablesRest, RolesStep DEF ModulesInv
<1>3. KeysInv'
  BY <1>1, SubjectSteps, TablesRest, KeysStep DEF ModulesInv
<1>4. SessionInv'
  BY <1>1, SubjectSteps, TablesRest, SessionStep DEF ModulesInv
<1>5. TrustInv'
  BY <1>1, SubjectSteps, TablesRest, TrustStepKeeps DEF ModulesInv
<1>6. MultiSigInv' /\ executed' \in BOOLEAN
  <2>1. CASE MultiSigNext
    BY <2>1, MultiSigStep, ExecutedTyped DEF ModulesInv
  <2>2. CASE UNCHANGED multisigVars
    BY <1>1, <2>2, TablesRest DEF ModulesInv, multisigVars
  <2> QED  BY <2>1, <2>2, SubjectSteps
<1>7. GatingInv'
  BY SubjectSteps, GatingStep DEF ModulesInv
<1>8. VersionsTypeOK'
  BY SubjectSteps, VersionsStep DEF ModulesInv
<1>9. TrainingInv'
  BY SubjectSteps, TrainingStep DEF ModulesInv
<1>10. SuiteInv'
  BY SubjectSteps, SuitesStep DEF ModulesInv
<1>11. ReportInv'
  BY SubjectSteps, ReportsStep DEF ModulesInv
<1>12. RegressionInv'
  BY SubjectSteps, RegressionStep DEF ModulesInv
<1>13. DependencyInv'
  BY SubjectSteps, DependenciesStep DEF ModulesInv
<1>14. CalculationsTypeOK'
  BY SubjectSteps, OperandsStep DEF ModulesInv
<1> QED
  BY <1>1, <1>2, <1>3, <1>4, <1>5, <1>6, <1>7, <1>8, <1>9, <1>10, <1>11, <1>12, <1>13,
     <1>14, Zenon
  DEF ModulesInv

\* The modules around the access tables keep their types: one holder for each
\* key, bounded lists, gates that ask for something, proxies with a code
\* exactly when they have an administrator, sessions that end in reach of their lifetime.
THEOREM AccessAlwaysTyped == Spec => []AccessStorageTypeOK
<1>1. ModulesInv => AccessStorageTypeOK
  <2> SUFFICES ASSUME ModulesInv PROVE AccessStorageTypeOK
    OBVIOUS
  <2>1. AccessTypeOK /\ SessionTypeOK /\ TrustTypeOK /\ LedgerTypeOK
    BY DEF ModulesInv, KeysInv, AccessInv, SessionInv, TrustInv
  <2>2. MultiSigTypeOK /\ GatingTypeOK /\ VersionsTypeOK /\ CalculationsTypeOK
    BY MultiSigTyped, GatingMeaning DEF ModulesInv
  <2>3. TrainingTypeOK
    BY DEF ModulesInv, TrainingInv, TrainingTypeOK
  <2>4. AssessmentsTypeOK
    BY DEF ModulesInv, SuiteInv, ReportInv, RegressionInv, AssessmentsTypeOK
  <2>5. DependenciesTypeOK
    BY DEF ModulesInv, DependencyInv, DependenciesTypeOK
  <2> QED  BY <2>1, <2>2, <2>3, <2>4, <2>5, Zenon DEF AccessStorageTypeOK
<1> QED  BY <1>1, ModulesStart, ModulesStep, PTL DEF Spec

\* What the modules report is what their records say: who manages a role holds
\* what it permits, a session is over for all the calls that judge it, who is
\* complete passed, a valid suite has only valid
\* checks, a score never improves, a run passes as its worst case does, and
\* what was approved under the policy in force complies with it.
THEOREM ReportsAlwaysExact == Spec => []ReportsExact
<1>1. ModulesInv => ReportsExact
  <2> SUFFICES ASSUME ModulesInv PROVE ReportsExact
    OBVIOUS
  <2>1. PermissionsFollowRoles /\ QueriesMatchTables
    BY RolesMeaning, QueriesMeaning DEF ModulesInv, RoleInv
  <2>2. TrainingSound
    BY TrainingMeaning DEF ModulesInv
  <2>3. AssessmentsSound
    BY AssessmentsMeaning DEF ModulesInv
  <2>4. DependenciesSound
    BY DependencyMeaning DEF ModulesInv
  <2>5. SessionsAsShown /\ OneOrTheOther
    BY DEF SessionsAsShown, OneOrTheOther, GetSession, CreateOpen, ValidateOpen, Live
  <2> QED  BY <2>1, <2>2, <2>3, <2>4, <2>5, Zenon DEF ReportsExact
<1> QED  BY <1>1, ModulesStart, ModulesStep, PTL DEF Spec

\* The helper functions return what they stand for whatever they are given:
\* roots are rounded down, averages lie within their amounts, fees rounded one
\* by one stay close to the whole, flags and keys are read back, versions are
\* in order and scans agree.
THEOREM AnswersAlwaysSound == Spec => []AnswersSound
<1>1. ModulesInv => AnswersSound
  BY CalculationsMeaning DEF ModulesInv, AnswersSound
<1> QED  BY <1>1, ModulesStart, ModulesStep, PTL DEF Spec
=============================================================================
