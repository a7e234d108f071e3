------------------------------ MODULE Reporting ------------------------------
(***************************************************************************)
(* From official marks to frozen report facts: compile_assessment, the     *)
(* readiness of an assessment, and create_report_snapshot_run of           *)
(* app/grading/services.py, for the assessments of one cohort and term.    *)
(*                                                                         *)
(* The subject is what a report is built from: who is on the roster, whose *)
(* record is there and has its required component, and every other input   *)
(* of readiness.  What the records say, and compilations that overlap each *)
(* other, are Compilation's subject; here a compilation reads its inputs   *)
(* in one step and writes its run in another.  A report loads its          *)
(* assessments once, with the list of its scope, and checks them one after *)
(* the other: what it asks of the loaded object (its status, its schema,   *)
(* the time of its last save) is as old as the list, and everything else   *)
(* is asked by one query after the other, in the order of the code.        *)
(*                                                                         *)
(* compiled_at is compared with the time of the last save of the           *)
(* assessment, of the last submission and of the oldest open correction:   *)
(* later[a] holds the ones that are later.                                 *)
(***************************************************************************)
EXTENDS Naturals, FiniteSets

CONSTANTS Assessments,
          Learners,
          SchemaRequired,    \* assessments of a type that needs a school schema
          Schemas,           \* the school's grading schemas of that type
          ListOrder,         \* the order_by of their list
          Settled,           \* bound: assessments marked, compiled and left alone
          Scopes,            \* bound: what reports are asked for
          MaxChanges,        \* bound: steps other than those of the two services
          MaxReports         \* bound: ReportSnapshotRun rows

ASSUME ReportingAssumption ==
    /\ SchemaRequired \subseteq Assessments /\ Settled \subseteq Assessments \ SchemaRequired
    /\ "none" \notin Schemas /\ Scopes \subseteq SUBSET Assessments
    /\ ListOrder \in [Assessments -> Nat]
    /\ MaxChanges \in Nat /\ MaxReports \in Nat

VARIABLES enrolled,   \* learners with an active enrolment in the cohort
          asmt,       \* Assessment rows and what readiness asks about them
          deprecated, \* grading schemas that are no longer active
          marks,      \* GradeRecord rows: learners with one, and with components
          compiling,  \* a compilation between its reads and its writes
          run,        \* the latest CompilationRun of each assessment
          later,      \* what is later than its compiled_at
          drift,      \* history: what changed since its inputs were read
          report,     \* the ReportSnapshotRun being built or built last
          listed,     \* the Assessment objects it has loaded and not checked
          check,      \* _build_assessment_readiness, between two of its queries
          against,    \* history: what spoke against the one checked, all along
          changes

rows == <<enrolled, asmt, deprecated, marks>>
reading == <<report, listed, check>>
reportingVars == <<rows, compiling, run, later, drift, reading, against, changes>>

\* What the inputs of a compilation are read from.
Inputs == {"assessment", "batch", "roster", "component", "applied"}
Watched == {"assessment", "batch", "correction"}

CctFacts == {"unadopted", "withdrawn", "rollback", "impact"}
AssessmentRow == [status : {"draft", "open", "locked"}, component : BOOLEAN,
                  draft : BOOLEAN, correction : {"none", "open", "approved"},
                  schema : {"none"} \cup Schemas, cct : SUBSET CctFacts]

NoRun == [status |-> "none", roster |-> {}, learners |-> {}, missing |-> FALSE,
          lacking |-> FALSE, during |-> {}]
Idle == [phase |-> "idle", roster |-> {}, scored |-> {}, whole |-> {},
         component |-> FALSE, changed |-> {}]
NoReport == [phase |-> "none", number |-> 0, scope |-> {}, status |-> "none",
             eligible |-> {}, source |-> [a \in Assessments |-> NoRun],
             unchecked |-> {}, lines |-> {}]
\* late: its last save is after the compilation of the latest run; saved, a
\* history: it was saved again since it was loaded.
NotListed == [status |-> "none", schema |-> "none", late |-> FALSE, saved |-> FALSE]
Unchecked == [step |-> "none", run |-> NoRun, later |-> {}, codes |-> {}, drift |-> {}]

-----------------------------------------------------------------------------
\* Each assessment is new, or submitted for the whole roster and compiled, and a
\* correction may have been asked for before that.
ReportingInit ==
    /\ enrolled \in SUBSET Learners \ {{}}
    /\ asmt \in [Assessments -> [status : {"draft", "open"}, component : BOOLEAN, draft : BOOLEAN,
                                 correction : {"none", "open", "approved"},
                                 schema : {"none"} \cup Schemas, cct : {{}}]]
    /\ \A a \in Assessments :
          /\ asmt[a].status = "draft" => ~asmt[a].component /\ asmt[a].schema = "none"
          /\ asmt[a].draft => asmt[a].correction = "none"
          /\ ~asmt[a].draft => asmt[a].status = "open" /\ asmt[a].component
          /\ a \in Settled => ~asmt[a].draft /\ asmt[a].correction = "none"
          /\ a \notin SchemaRequired => asmt[a].schema = "none"
    /\ marks = [a \in Assessments |->
          IF asmt[a].draft THEN [batches |-> 0, scored |-> {}, whole |-> {}]
          ELSE [batches |-> 1, scored |-> enrolled, whole |-> enrolled]]
    /\ compiling = [a \in Assessments |-> Idle]
    /\ run = [a \in Assessments |->
          IF asmt[a].draft THEN NoRun
          ELSE [NoRun EXCEPT !.status = "complete", !.roster = enrolled, !.learners = enrolled]]
    /\ later = [a \in Assessments |-> {}]
    /\ drift = [a \in Assessments |-> {}]
    /\ deprecated = {}
    /\ report = NoReport
    /\ listed = [a \in Assessments |-> NotListed]
    /\ check = [a \in Assessments |-> Unchecked]
    /\ against = [a \in Assessments |-> {}]
    /\ changes = 0

\* Somebody changes an input of the assessments in S: bookkeeping of the
\* histories, and of the timestamps where the change writes one.
Changed(S, kind) ==
    /\ changes < MaxChanges
    /\ changes' = changes + 1
    /\ drift' = [a \in Assessments |->
          IF a \in S /\ run[a].status # "none" THEN drift[a] \cup ({kind} \cap Inputs) ELSE drift[a]]
    /\ compiling' = [a \in Assessments |->
          IF a \in S /\ compiling[a].phase # "idle"
          THEN [compiling[a] EXCEPT !.changed = @ \cup ({kind} \cap Inputs)] ELSE compiling[a]]
    /\ later' = [a \in Assessments |->
          IF a \in S /\ kind \in Watched /\ run[a].status # "none"
          THEN later[a] \cup {kind} ELSE later[a]]
    /\ check' = [a \in Assessments |->
          IF a \in S /\ kind \in Watched /\ check[a].step # "none"
          THEN [check[a] EXCEPT !.later = @ \cup {kind}] ELSE check[a]]
    /\ UNCHANGED <<run, report>>

\* Enrollment rows: no timestamp of the assessment moves.
ChangeEnrollment(l) ==
    /\ enrolled' = IF l \in enrolled THEN enrolled \ {l} ELSE enrolled \cup {l}
    /\ Changed(Assessments, "roster")
    /\ UNCHANGED <<asmt, deprecated, marks, listed>>

\* AssessmentComponent.save: a required component, for an assessment that may
\* have records already.
AddComponent(a) ==
    /\ ~asmt[a].component
    /\ asmt' = [asmt EXCEPT ![a].component = TRUE]
    /\ Changed({a}, "component")
    /\ UNCHANGED <<enrolled, deprecated, marks, listed>>

\* Assessment.save: a change of status, or bind_schema_to_assessment; with a
\* schema that is no longer active nothing is saved.  An object loaded before
\* keeps what it has.
SaveAssessment(a, status, schema) ==
    /\ schema = asmt[a].schema \/ (schema \in Schemas /\ a \in SchemaRequired)
    /\ schema \notin deprecated
    /\ asmt' = [asmt EXCEPT ![a].status = status, ![a].schema = schema]
    /\ listed' = [listed EXCEPT ![a].saved = listed[a].status # "none"]
    /\ Changed({a}, "assessment")
    /\ UNCHANGED <<enrolled, deprecated, marks>>

\* deprecate_school_grading_schema; assessments may be bound to it.
DeprecateSchema(schema) ==
    /\ deprecated' = deprecated \cup {schema}
    /\ Changed({}, "schema")
    /\ UNCHANGED <<enrolled, asmt, marks, listed>>

\* submit_grade_batch by another assigned teacher: rows for learners on the
\* roster without a record, complete as far as components are defined.
SubmitBatch(a, S) ==
    /\ asmt[a].status = "open"
    /\ S # {} /\ S \subseteq enrolled \ marks[a].scored
    /\ marks' = [marks EXCEPT ![a] =
          [batches |-> @.batches + 1, scored |-> @.scored \cup S,
           whole |-> IF asmt[a].component THEN @.whole \cup S ELSE @.whole]]
    /\ asmt' = [asmt EXCEPT ![a].draft = FALSE]
    /\ Changed({a}, "batch")
    /\ UNCHANGED <<enrolled, deprecated, listed>>

\* The correction workflow: one request at a time.
RequestCorrection(a) ==
    /\ asmt[a].correction = "none" /\ marks[a].scored # {}
    /\ asmt' = [asmt EXCEPT ![a].correction = "open"]
    /\ Changed({a}, "correction")
    /\ UNCHANGED <<enrolled, deprecated, marks, listed>>

DecideCorrection(a, decision) ==
    /\ asmt[a].correction = "open"
    /\ asmt' = [asmt EXCEPT ![a].correction = decision]
    /\ changes < MaxChanges /\ changes' = changes + 1
    /\ later' = [later EXCEPT ![a] = IF decision = "none" THEN @ \ {"correction"} ELSE @]
    /\ check' = [check EXCEPT ![a].later = IF decision = "none" THEN @ \ {"correction"} ELSE @]
    /\ UNCHANGED <<enrolled, deprecated, marks, compiling, run, drift, report, listed>>

\* apply_approved_correction may fill in components; it marks the runs stale.
ApplyCorrection(a, l) ==
    /\ asmt[a].correction = "approved" /\ l \in marks[a].scored
    /\ asmt' = [asmt EXCEPT ![a].correction = "none"]
    /\ marks' = [marks EXCEPT ![a].whole = IF asmt[a].component THEN @ \cup {l} ELSE @]
    /\ run' = [run EXCEPT ![a].status = IF @ = "none" THEN @ ELSE "stale"]
    /\ changes < MaxChanges /\ changes' = changes + 1
    /\ later' = [later EXCEPT ![a] = @ \ {"correction"}]
    /\ check' = [check EXCEPT ![a].later = @ \ {"correction"}]
    /\ drift' = [drift EXCEPT ![a] = IF run[a].status = "none" THEN @ ELSE @ \cup {"applied"}]
    /\ compiling' = [compiling EXCEPT ![a].changed =
          IF compiling[a].phase = "idle" THEN @ ELSE @ \cup {"applied"}]
    /\ UNCHANGED <<enrolled, deprecated, report, listed>>

\* Adoption, withdrawal, rollback plans and app impact plans come (and go)
\* in the curriculum application; one at a time, since each blocks alone.
ChangeCctFact(a, fact) ==
    /\ asmt[a].cct \subseteq {fact}
    /\ asmt' = [asmt EXCEPT ![a].cct = IF fact \in @ THEN @ \ {fact} ELSE @ \cup {fact}]
    /\ Changed({a}, "cct")
    /\ UNCHANGED <<enrolled, deprecated, marks, listed>>

-----------------------------------------------------------------------------
(* compile_assessment.                                                     *)

\* build_compilation_input: an open assessment, and its roster, records and
\* components, each as one query finds them.
ReadCompilationInput(a) ==
    /\ compiling[a].phase = "idle"
    /\ asmt[a].status = "open"
    /\ compiling' = [compiling EXCEPT ![a] =
          [phase |-> "read", roster |-> enrolled, scored |-> marks[a].scored,
           whole |-> marks[a].whole, component |-> asmt[a].component, changed |-> {}]]
    /\ UNCHANGED <<rows, run, later, drift, reading, changes>>

\* detect_missing_marks: records of learners who have left, records without a
\* required component, learners without a record.
OutsideRoster(c) == c.scored \ c.roster
LackingComponent(c) == IF c.component THEN (c.scored \cap c.roster) \ c.whole ELSE {}
MissingMark(c) == c.roster \ c.scored

\* Faulty variant of CompilationStatus: only a missing record counts.
CompilationStatusMarksOnly(c) ==
    IF c.scored = {} THEN "blocked" ELSE IF MissingMark(c) # {} THEN "partial" ELSE "complete"

\* determine_compilation_status.  A failed run is never stored: building its
\* learner snapshots raises for the record that made it fail.
CompilationStatus(c) ==
    IF c.scored = {} THEN "blocked"
    ELSE IF OutsideRoster(c) \cup LackingComponent(c) \cup MissingMark(c) # {} THEN "partial"
    ELSE "complete"

\* The run, its summaries and one learner snapshot per record are stored; an
\* object loaded before was saved before.
StoreCompilation(a) ==
    LET c == compiling[a]
    IN  /\ c.phase = "read"
        /\ run' = [run EXCEPT ![a] =
              [status |-> CompilationStatus(c), roster |-> c.roster, learners |-> c.scored,
               missing |-> MissingMark(c) # {}, lacking |-> LackingComponent(c) # {},
               during |-> c.changed]]
        /\ later' = [later EXCEPT ![a] = {}]
        /\ drift' = [drift EXCEPT ![a] = c.changed]
        /\ compiling' = [compiling EXCEPT ![a] = Idle]
        /\ listed' = [listed EXCEPT ![a].late = FALSE]
        /\ UNCHANGED <<rows, report, check, changes>>

-----------------------------------------------------------------------------
(* create_report_snapshot_run: the list, and _build_assessment_readiness   *)
(* with the rules it calls, query by query, for one assessment of it after *)
(* the other.                                                              *)

\* The Assessment objects of the scope are loaded.
BeginReport(scope) ==
    /\ report.phase # "checking"
    /\ report.number < MaxReports
    /\ report' = [NoReport EXCEPT !.phase = "checking", !.number = report.number + 1,
                                  !.scope = scope, !.unchecked = scope,
                                  !.status = "running"]
    /\ listed' = [a \in Assessments |->
          IF a \in scope THEN [status |-> asmt[a].status, schema |-> asmt[a].schema,
                               late |-> "assessment" \in later[a], saved |-> FALSE]
          ELSE NotListed]
    /\ UNCHANGED <<rows, compiling, run, later, drift, check, changes>>

\* detect_stale_compilation, for one of the times it compares.
StaleIf(condition) == IF condition THEN {"stale_compilation"} ELSE {}

\* What the run and its cohort summary say.
RunBlockers(r) ==
    (CASE r.status = "none" -> {"no_compilation"}
       [] r.status = "blocked" -> {"blocked_compilation"}
       [] OTHER -> {})
    \cup (IF r.missing THEN {"missing_marks"} ELSE {})
    \cup (IF r.lacking THEN {"missing_required_component"} ELSE {})

\* A draft is asked for in a query of its own, and counts without a batch only.
SubmissionBlockers(a) ==
    IF marks[a].batches > 0 THEN {}
    ELSE {"teacher_submission_missing"} \cup (IF asmt[a].draft THEN {"draft_unsubmitted"} ELSE {})

\* correction_readiness_blockers
CorrectionBlockers(a) ==
    CASE asmt[a].correction = "open" -> {"correction_pending"}
      [] asmt[a].correction = "approved" -> {"correction_pending",
                                             "approved_correction_unapplied"}
      [] OTHER -> {}

\* is_operationally_bound: curriculum and rubric are taken to be set.
OperationallyBound(object) == object.status # "draft"

\* cct_readiness_blockers
CctCode(fact) == CASE fact = "unadopted" -> "cct_adoption_missing"
                   [] fact = "withdrawn" -> "cct_withdrawal_review_required"
                   [] fact = "rollback" -> "cct_rollback_review_required"
                   [] OTHER -> "cct_app_impact_review_required"
CctBlockers(a, object) ==
    (IF OperationallyBound(object) THEN {} ELSE {"assessment_not_cbe_cct_bound"})
    \cup {CctCode(f) : f \in asmt[a].cct}

\* schema_readiness_blockers: the schema row is fetched through the object.
SchemaBlockers(a, object) ==
    IF a \notin SchemaRequired THEN {}
    ELSE IF object.schema = "none" THEN {"school_schema_missing"}
    ELSE IF object.schema \in deprecated THEN {"school_schema_not_active"} ELSE {}

\* The next query of the check of an assessment, and what it adds to the blockers.
Query(a, step, next, codes) ==
    /\ check[a].step = step
    /\ check' = [check EXCEPT ![a].step = next, ![a].codes = @ \cup codes]
    /\ UNCHANGED <<rows, compiling, run, later, drift, report, listed, changes>>

\* The latest run; with it the time of the object's last save is compared.
LookUpRun(a) ==
    /\ report.phase = "checking" /\ a \in report.unchecked
    /\ \A b \in report.unchecked : ListOrder[a] <= ListOrder[b]
    /\ \A b \in Assessments : check[b].step = "none"
    /\ check' = [check EXCEPT ![a] =
          [step |-> "batches", run |-> run[a], later |-> later[a] \ {"assessment"},
           codes |-> RunBlockers(run[a])
                     \cup StaleIf(run[a].status = "stale" \/ listed[a].late),
           drift |-> drift[a]]]
    /\ UNCHANGED <<rows, compiling, run, later, drift, report, listed, changes>>

\* Faulty variant of LookUpBatches: a later submission is not looked at.
LookUpBatchesAnyTime(a) == Query(a, "batches", "corrections", SubmissionBlockers(a))

LookUpBatches(a) ==
    Query(a, "batches", "corrections",
        SubmissionBlockers(a) \cup StaleIf("batch" \in check[a].later))

LookUpCorrections(a) ==
    Query(a, "corrections", "cct",
        CorrectionBlockers(a) \cup StaleIf("correction" \in check[a].later))

\* get_cct_blockers_for_assessment: one query per fact; since at most one holds,
\* asking them at once finds none where asking one by one does.
LookUpCct(a) == Query(a, "cct", "schema", CctBlockers(a, listed[a]))

CctCodes == {"cct_adoption_missing", "cct_withdrawal_review_required",
             "cct_rollback_review_required", "cct_app_impact_review_required"}

\* determine_readiness_status: the first that applies.
ReadinessStatus(codes, status) ==
    IF "stale_compilation" \in codes THEN "stale"
    ELSE IF "correction_pending" \in codes THEN "needs_correction"
    ELSE IF "missing_required_component" \in codes THEN "blocked"
    ELSE IF "missing_marks" \in codes \/ status = "partial" THEN "partial"
    ELSE IF codes \cap CctCodes # {} THEN "not_ready_for_reports"
    ELSE IF "no_compilation" \in codes /\ "teacher_submission_missing" \notin codes THEN "submitted"
    ELSE IF "no_compilation" \in codes /\ "draft_unsubmitted" \in codes THEN "in_progress"
    ELSE IF "no_compilation" \in codes THEN "not_started"
    ELSE IF codes # {} \/ status # "complete" THEN "not_ready_for_reports"
    ELSE "ready_for_reports"

\* The codes evaluate_report_eligibility keeps: app impact only asks for review.
BlockingCodes(codes) == codes \ {"cct_app_impact_review_required"}

\* evaluate_report_eligibility
ReportEligible(codes, status) ==
    /\ BlockingCodes(codes) = {}
    /\ status = "complete"
    /\ ReadinessStatus(codes, status) = "ready_for_reports"
    /\ "correction_pending" \notin codes

\* The schema is the last thing asked for; the result becomes a row of the
\* report, with the run looked up first.
CheckEligibility(a) ==
    LET c == check[a]
        eligible == ReportEligible(c.codes \cup SchemaBlockers(a, listed[a]), c.run.status)
    IN  /\ c.step = "schema"
        /\ report' = [report EXCEPT
              !.unchecked = @ \ {a},
              !.eligible = IF eligible THEN @ \cup {a} ELSE @,
              !.source[a] = IF eligible THEN c.run ELSE NoRun]
        /\ check' = [check EXCEPT ![a] = Unchecked]
        /\ listed' = [listed EXCEPT ![a] = NotListed]
        /\ UNCHANGED <<rows, compiling, run, later, drift, changes>>

\* summarize_eligibility and the status of the run.
ReportStatus(r) ==
    IF r.eligible = {} THEN "blocked"
    ELSE IF r.eligible = r.scope THEN "complete" ELSE "partial"

\* _snapshot_source_rows and _build_report_snapshots: a subject line for every
\* learner snapshot of the eligible runs.
SubjectLines(r) == {p \in r.eligible \X Learners : p[2] \in r.source[p[1]].learners}

\* The rows of the report and its final status.
FinishReport ==
    /\ report.phase = "checking" /\ report.unchecked = {}
    /\ report' = [report EXCEPT !.phase = "done", !.status = ReportStatus(report),
                                !.lines = SubjectLines(report)]
    /\ UNCHANGED <<rows, compiling, run, later, drift, listed, check, changes>>

\* The learners with a line for an assessment.
AreaLearners(r, a) == {p[2] : p \in {q \in r.lines : q[1] = a}}

-----------------------------------------------------------------------------
\* What the rows themselves say against an assessment in a report.
Against(a) ==
    (IF asmt[a].correction # "none" THEN {"correction"} ELSE {})
    \cup asmt[a].cct
    \cup (IF asmt[a].status = "draft" THEN {"draft"} ELSE {})
    \cup (IF a \in SchemaRequired /\ asmt[a].schema \notin Schemas \ deprecated
          THEN {"schema"} ELSE {})

\* What has been said against it at every moment since its check began.
RecordAgainst == against' = [a \in Assessments |->
    IF check'[a].step = "none" THEN {}
    ELSE IF check[a].step = "none" THEN Against(a)' ELSE against[a] \cap Against(a)']

\* Nothing that happens after the last report is looked at.
Open == report.phase # "done" \/ report.number < MaxReports

ReportingStep ==
    \/ \E l \in Learners : ChangeEnrollment(l)
    \/ \E a \in Assessments \ Settled :
          \/ AddComponent(a)
          \/ \E st \in {"draft", "open", "locked"}, sc \in {"none"} \cup Schemas :
                SaveAssessment(a, st, sc)
          \/ RequestCorrection(a)
          \/ \E d \in {"none", "approved"} : DecideCorrection(a, d)
          \/ \E l \in Learners : ApplyCorrection(a, l)
          \/ \E f \in CctFacts : ChangeCctFact(a, f)
          \/ \E S \in SUBSET Learners : SubmitBatch(a, S)
          \/ ReadCompilationInput(a) \/ StoreCompilation(a)
    \/ \E sc \in Schemas \ deprecated : DeprecateSchema(sc)
    \/ \E scope \in Scopes : BeginReport(scope)
    \/ \E a \in Assessments : \/ LookUpRun(a) \/ LookUpBatches(a) \/ LookUpCorrections(a)
                               \/ LookUpCct(a) \/ CheckEligibility(a)
    \/ FinishReport

ReportingNext == Open /\ ReportingStep /\ RecordAgainst

ReportingSpec == ReportingInit /\ [][ReportingNext]_reportingVars

-----------------------------------------------------------------------------
(* Properties.                                                             *)

\* Rows and loaded inputs hold values of their columns' types, and a run
\* never says failed.
ReportingTypeOK ==
    /\ enrolled \subseteq Learners
    /\ asmt \in [Assessments -> AssessmentRow]
    /\ \A a \in Assessments :
          /\ marks[a].scored \subseteq Learners /\ marks[a].whole \subseteq marks[a].scored
          /\ run[a].status \in {"none", "blocked", "partial", "complete", "stale"}
          /\ later[a] \subseteq Watched /\ check[a].later \subseteq Watched
          /\ run[a].learners \subseteq Learners
    /\ report.status \in {"none", "running", "complete", "partial", "blocked"}
    /\ report.number \in 0..MaxReports

\* Every learner who was on the roster of an assessment when it was compiled
\* has a line in the report, nobody else has, and a report that calls itself
\* complete has them for every assessment it was asked for.
ReportLinesAreWhole ==
    report.phase = "done" =>
        /\ \A a \in report.eligible : AreaLearners(report, a) = report.source[a].roster
        /\ report.status = "complete" => report.eligible = report.scope

\* An assessment enters a report only with a run that was as good as new when
\* it was looked up: of the things the compilation read, only the roster and
\* the components, which nothing compares with compiled_at, may have changed
\* since, what changed while the compilation was running, and the assessment
\* if it was saved after the report had listed it.
ReportsDriftOnlyUnwatched ==
    [][\A a \in Assessments :
          a \in report'.eligible \ report.eligible =>
              check[a].drift \subseteq
                  {"roster", "component"} \cup check[a].run.during
                  \cup (IF listed[a].saved THEN {"assessment"} ELSE {})]_reportingVars

\* What keeps an assessment out of a report as long as it lasts through its
\* check, in terms of the rows themselves: a correction under way, curriculum
\* review of any severity, and, unless the assessment was saved after the
\* report had listed it, its being a draft or its schema missing or deprecated.
EligibleMeansClear ==
    [][\A a \in Assessments :
          a \in report'.eligible \ report.eligible =>
              against[a] \subseteq IF listed[a].saved THEN {"draft", "schema"} ELSE {}
      ]_reportingVars

\* Readiness as the dashboards show it and eligibility as the report applies
\* it are computed by different rules and never disagree on the same blockers.
ReadyIffEligible ==
    \A a \in Assessments :
        LET codes == check[a].codes \cup SchemaBlockers(a, listed[a])
            status == check[a].run.status
        IN  ReportEligible(codes, status) <=> ReadinessStatus(codes, status) = "ready_for_reports"

\* A report has a line for every learner it is about, and the dashboards
\* promise it exactly when it can be built.
ReportsAreWhole == ReportingTypeOK /\ ReportLinesAreWhole /\ ReadyIffEligible

\* What enters a report was compiled from the rows as they were when its check
\* began, and nothing spoke against it throughout, but for what the list missed.
EntersInOrder == ReportsDriftOnlyUnwatched /\ EligibleMeansClear
=============================================================================
