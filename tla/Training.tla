------------------------------ MODULE Training ------------------------------
(***************************************************************************)
(* security_training_integration.rs: training modules, the record of each  *)
(* member in each module, and the reports about them.  Nobody has to sign, *)
(* and a record may name a module that is not registered (yet).            *)
(***************************************************************************)
EXTENDS Ledger, Loops

CONSTANTS
  MinPassingScore,  \* MIN_PASSING_SCORE, 80 in the code
  Validity,         \* TRAINING_VALIDITY_DAYS in units of the clock
  Scores,           \* scores members reach
  MaxModules,       \* bound on the modules of a behaviour
  MaxLessons        \* bound on the calls of a behaviour

TrainingStatus == {"NotStarted", "InProgress", "Completed", "Failed", "Expired"}

ModuleIds == 1..MaxModules

\* struct TrainingRecord under DataKey::Record(member, module_id)
TrainingRecord == [status : TrainingStatus, score : Scores \cup {0}, at : 0..MaxTime]

ASSUME TrainingAssumption ==
  /\ {MinPassingScore, Validity, MaxModules, MaxLessons} \subseteq Nat
  /\ Scores \subseteq Nat /\ None \notin TrainingStatus \cup TrainingRecord

VARIABLES
  required,  \* the registered TrainingModules: which of them are required
  records,   \* DataKey::Record of each member and module, None when absent
  verdict,   \* history: the latest attempt or revocation of each record
  lessons    \* history: how many calls were made
trainingVars == <<required, records, verdict, lessons>>

TrainingInit ==
  /\ required = <<>>
  /\ records = [k \in Addresses \X ModuleIds |-> None]
  /\ verdict = records
  /\ lessons = 0
-----------------------------------------------------------------------------
\* is_passing_score
IsPassingScore(score) == score >= MinPassingScore

\* is_training_valid
IsTrainingValid(at, time) == time <= at + Validity

\* derive_status
DeriveStatus(score, at, time) ==
  IF ~IsPassingScore(score) THEN "Failed"
  ELSE IF ~IsTrainingValid(at, time) THEN "Expired"
  ELSE "Completed"

\* compute_compliance_score
PartOf(completed, total) == IF total = 0 THEN 0 ELSE (completed * 100) \div total

StatusOf(member, id) ==
  IF records[<<member, id>>] = None THEN "NotStarted"
  ELSE records[<<member, id>>].status

\* register_module gives the next number; name and severity are left out.
RegisterModule(needed) ==
  /\ Len(required) < MaxModules
  /\ required' = Append(required, needed)
  /\ UNCHANGED <<records, verdict>>

\* record_completion overwrites whatever is recorded.
RecordCompletion(member, id, score) ==
  LET status == DeriveStatus(score, now, now) IN
  /\ records' = [records EXCEPT ![<<member, id>>] =
                   [status |-> status, score |-> score, at |-> now]]
  /\ verdict' = [verdict EXCEPT ![<<member, id>>] = status]
  /\ UNCHANGED required

\* Mutant: a member may start a completed module again.
StartModuleAgain(member, id) ==
  /\ records' = [records EXCEPT ![<<member, id>>] =
                   [status |-> "InProgress", score |-> 0, at |-> now]]
  /\ UNCHANGED <<required, verdict>>

\* start_module; on a completed module it returns false.
StartModule(member, id) ==
  /\ StatusOf(member, id) # "Completed"
  /\ records' = [records EXCEPT ![<<member, id>>] =
                   [status |-> "InProgress", score |-> 0, at |-> now]]
  /\ UNCHANGED <<required, verdict>>

\* revoke_completion, of any record; without one it returns false.
RevokeCompletion(member, id) ==
  /\ records[<<member, id>>] # None
  /\ records' = [records EXCEPT ![<<member, id>>].status = "Failed",
                                ![<<member, id>>].score = 0]
  /\ verdict' = [verdict EXCEPT ![<<member, id>>] = "Failed"]
  /\ UNCHANGED required

TrainingNext ==
  \/ /\ \/ \E needed \in BOOLEAN : RegisterModule(needed)
        \/ \E member \in Addresses, id \in ModuleIds :
             \/ \E score \in Scores : RecordCompletion(member, id, score)
             \/ StartModule(member, id)
             \/ RevokeCompletion(member, id)
     /\ lessons < MaxLessons /\ lessons' = lessons + 1
     /\ Unsigned
  \/ Tick /\ UNCHANGED trainingVars

TrainingSpec == LedgerInit /\ TrainingInit /\ [][TrainingNext]_<<ledgerVars, trainingVars>>
-----------------------------------------------------------------------------
\* module_count and get_module
Registered == DOMAIN required

\* is_training_complete
IsTrainingComplete(member) ==
  \A id \in Registered : required[id] => StatusOf(member, id) = "Completed"

\* compliance_score
ComplianceScore(member) ==
  PartOf(Cardinality({id \in Registered : StatusOf(member, id) = "Completed"}),
         Len(required))

\* training_summary walks through the modules once.
TrainingSummary(member) ==
  LET Count(statuses) ==
        Cardinality({id \in Registered : StatusOf(member, id) \in statuses})
  IN [total |-> Len(required),
      completed |-> Count({"Completed"}),
      incomplete |-> Count({"Failed", "Expired"}),
      allRequired |-> ~\E id \in Registered :
                        required[id] /\ StatusOf(member, id) # "Completed",
      score |-> PartOf(Count({"Completed"}), Len(required))]

\* all_required_complete, over a list of records [id, status]
AllRequiredComplete(list) ==
  \A id \in Registered : required[id] =>
    \E i \in DOMAIN list : list[i].id = id /\ list[i].status = "Completed"

\* build_report takes the first record of each module.
BuildReport(list) ==
  LET of(id) == {i \in DOMAIN list : list[i].id = id}
      Count(statuses) == Cardinality({id \in Registered :
                           of(id) # {} /\ list[First(of(id))].status \in statuses})
  IN [total |-> Len(required),
      completed |-> Count({"Completed"}),
      incomplete |-> Count({"Failed", "Expired"}),
      allRequired |-> AllRequiredComplete(list),
      score |-> PartOf(Count({"Completed"}), Len(required))]
-----------------------------------------------------------------------------
TrainingTypeOK ==
  /\ required \in Seq(BOOLEAN) /\ Len(required) <= MaxModules
  /\ \A k \in DOMAIN records : records[k] \in TrainingRecord \cup {None}

\* What a caller of build_report would pass: the records there are of m.
RecordsOf(member) ==
  Enumeration({[id |-> id, status |-> StatusOf(member, id)] :
                 id \in {i \in ModuleIds : records[<<member, i>>] # None}})

\* A module is completed exactly while the latest attempt passed and was not
\* revoked, whatever was started in between and whether or not the module was
\* registered by then; no record is ever Expired, and what is completed stays
\* so past its validity.  The three ways to ask about a member agree.
TrainingSound ==
  \A member \in Addresses :
    /\ \A id \in ModuleIds :
         /\ StatusOf(member, id) = "Completed" <=> verdict[<<member, id>>] = "Completed"
         /\ StatusOf(member, id) # "Expired"
    /\ LET summary == TrainingSummary(member) IN
       /\ summary = BuildReport(RecordsOf(member))
       /\ summary.allRequired = IsTrainingComplete(member)
       /\ summary.score = ComplianceScore(member)
       /\ summary.score = 100 => IsTrainingComplete(member) /\ required # <<>>
       /\ summary.completed + summary.incomplete <= summary.total
=============================================================================
