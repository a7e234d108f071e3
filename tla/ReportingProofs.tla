--------------------------- MODULE ReportingProofs ---------------------------
(***************************************************************************)
(* What is proved of reports and of what actors are shown: a report has a  *)
(* line for everybody it should, nothing out of order enters it, and the   *)
(* role projections show what was authorised, and all of it.               *)
(***************************************************************************)
EXTENDS Reporting, Projections, TLAPS

-----------------------------------------------------------------------------
(* Reports.                                                                 *)

Runs == [status : {"none", "blocked", "partial", "complete", "stale"},
         roster : SUBSET Learners, learners : SUBSET Learners, missing : BOOLEAN,
         lacking : BOOLEAN, during : SUBSET Inputs]
Loaded == [phase : {"idle", "read"}, roster : SUBSET Learners, scored : SUBSET Learners,
           whole : SUBSET Learners, component : BOOLEAN, changed : SUBSET Inputs]
Records == [batches : Nat, scored : SUBSET Learners, whole : SUBSET Learners]
Reports == [phase : {"none", "checking", "done"}, number : 0..MaxReports,
            scope : SUBSET Assessments,
            status : {"none", "running", "complete", "partial", "blocked"},
            eligible : SUBSET Assessments, source : [Assessments -> Runs],
            unchecked : SUBSET Assessments, lines : SUBSET (Assessments \X Learners)]
Objects == [status : {"none", "draft", "open", "locked"}, schema : {"none"} \cup Schemas,
            late : BOOLEAN, saved : BOOLEAN]
Codes == {"no_compilation", "blocked_compilation", "missing_marks", "missing_required_component",
          "stale_compilation", "teacher_submission_missing", "draft_unsubmitted",
          "correction_pending", "approved_correction_unapplied", "school_schema_missing",
          "school_schema_not_active", "assessment_not_cbe_cct_bound"} \cup CctCodes
Checks == [step : {"none", "batches", "corrections", "cct", "schema"}, run : Runs,
           later : SUBSET Watched, codes : SUBSET Codes, drift : SUBSET Inputs]

\* The rows, the inputs a compilation has read and the histories.
ReportingTypes ==
    /\ enrolled \subseteq Learners
    /\ asmt \in [Assessments -> AssessmentRow]
    /\ marks \in [Assessments -> Records]
    /\ \A a \in Assessments : marks[a].whole \subseteq marks[a].scored
    /\ compiling \in [Assessments -> Loaded]
    /\ run \in [Assessments -> Runs]
    /\ later \in [Assessments -> SUBSET Watched]
    /\ drift \in [Assessments -> SUBSET Inputs]
    /\ report \in Reports
    /\ deprecated \subseteq Schemas
    /\ listed \in [Assessments -> Objects]
    /\ check \in [Assessments -> Checks]

\* A complete run has a snapshot of exactly the learners of its roster.
RunsCover(runs) ==
    \A a \in Assessments : runs[a].status = "complete" => runs[a].learners = runs[a].roster

\* What changed since the inputs of a run were read is unwatched, changed while
\* the run was made, or is later than it.
DriftIsSeen ==
    \A a \in Assessments : run[a].status \in {"blocked", "partial", "complete"} =>
        drift[a] \subseteq {"roster", "component"} \cup run[a].during \cup later[a]

\* A report keeps complete runs only and, once done, the lines of all of them.
ReportHolds ==
    /\ \A a \in report.eligible : report.source[a].learners = report.source[a].roster
    /\ report.phase = "done" => /\ report.lines = SubjectLines(report)
                                /\ report.status = ReportStatus(report)

\* An object of the list is as old as the list: what it says is what the row
\* says, unless the assessment was saved since.  Only listed ones are checked.
ListedHolds ==
    \A a \in Assessments :
        /\ check[a].step # "none" => report.phase = "checking" /\ a \in report.unchecked
        /\ report.phase = "checking" /\ a \in report.unchecked => listed[a].status # "none"
        /\ listed[a].saved => listed[a].status # "none"
        /\ listed[a].status # "none" /\ ~listed[a].saved =>
              /\ listed[a].status = asmt[a].status /\ listed[a].schema = asmt[a].schema
              /\ "assessment" \in later[a] => listed[a].late

\* What had changed since the run looked up was made is unwatched, changed while
\* it was made, was missed by the list, or is found or yet to be asked for.
DriftMet(c, object) ==
    \/ "stale_compilation" \in c.codes
    \/ c.drift \subseteq {"roster", "component"} \cup c.run.during
                        \cup (IF object.saved THEN {"assessment"} ELSE {})
                        \cup (IF c.step = "batches" THEN c.later \cap {"batch"} ELSE {})
CheckHolds ==
    \A a \in Assessments : check[a].step # "none" /\ check[a].run.status = "complete" =>
        check[a].run.learners = check[a].run.roster /\ DriftMet(check[a], listed[a])

ReportingInv ==
    ReportingTypes /\ RunsCover(run) /\ DriftIsSeen /\ ReportHolds /\ ListedHolds /\ CheckHolds

\* Somebody changes an input, and the rows keep their types.  An object loaded
\* before stays what it is, and is out of date if its row is not the same.
LEMMA ChangeStep ==
    ASSUME ReportingInv, NEW S, NEW kind \in Inputs \cup Watched \cup {"schema", "cct"},
           kind # "applied",
           Changed(S, kind), enrolled' \subseteq Learners, deprecated' \subseteq Schemas,
           asmt' \in [Assessments -> AssessmentRow], marks' \in [Assessments -> Records],
           \A a \in Assessments : marks'[a].whole \subseteq marks'[a].scored,
           listed' \in [Assessments -> Objects],
           \A a \in Assessments :
              /\ listed'[a].status = listed[a].status /\ listed'[a].schema = listed[a].schema
              /\ listed'[a].late = listed[a].late /\ (listed[a].saved => listed'[a].saved)
              /\ listed'[a].saved => listed[a].status # "none"
              /\ listed[a].status # "none" /\ ~listed'[a].saved =>
                    /\ asmt'[a].status = asmt[a].status /\ asmt'[a].schema = asmt[a].schema
                    /\ kind # "assessment" \/ a \notin S
    PROVE  ReportingInv'
<1>1. UNCHANGED <<run, report>>
  BY DEF Changed
<1>2. ASSUME NEW a \in Assessments
      PROVE  /\ compiling'[a] \in Loaded /\ later'[a] \in SUBSET Watched
             /\ drift'[a] \in SUBSET Inputs
             /\ run[a].status \in {"blocked", "partial", "complete"} =>
                  drift'[a] \subseteq {"roster", "component"} \cup run[a].during \cup later'[a]
             /\ "assessment" \in later'[a] =>
                  "assessment" \in later[a] \/ (kind = "assessment" /\ a \in S)
  <2>1. compiling[a] \in Loaded /\ later[a] \in SUBSET Watched /\ drift[a] \in SUBSET Inputs
    BY DEF ReportingInv, ReportingTypes
  <2>2. compiling'[a] \in Loaded
    <3>1. compiling'[a] = IF a \in S /\ compiling[a].phase # "idle"
                          THEN [compiling[a] EXCEPT !.changed = @ \cup ({kind} \cap Inputs)]
                          ELSE compiling[a]
      BY DEF Changed
    <3>. QED  BY <2>1, <3>1 DEF Loaded
  <2>3. later'[a] = IF a \in S /\ kind \in Watched /\ run[a].status # "none"
                    THEN later[a] \cup {kind} ELSE later[a]
    BY DEF Changed
  <2>4. drift'[a] = IF a \in S /\ run[a].status # "none"
                    THEN drift[a] \cup ({kind} \cap Inputs) ELSE drift[a]
    BY DEF Changed
  <2>5. kind \in Inputs => kind \in {"roster", "component"} \cup Watched
    BY DEF Inputs, Watched
  <2>6. run[a].status \in {"blocked", "partial", "complete"} =>
           drift[a] \subseteq {"roster", "component"} \cup run[a].during \cup later[a]
    BY DEF ReportingInv, DriftIsSeen
  <2>. QED  BY <2>1, <2>2, <2>3, <2>4, <2>5, <2>6
<1>3. ASSUME NEW a \in Assessments
      PROVE  /\ check'[a] \in Checks /\ check'[a].step = check[a].step
             /\ check'[a].run = check[a].run /\ check'[a].codes = check[a].codes
             /\ check'[a].drift = check[a].drift /\ check[a].later \subseteq check'[a].later
  <2>1. check[a] \in Checks
    BY DEF ReportingInv, ReportingTypes
  <2>2. check'[a] = IF a \in S /\ kind \in Watched /\ check[a].step # "none"
                    THEN [check[a] EXCEPT !.later = @ \cup {kind}] ELSE check[a]
    BY DEF Changed
  <2>. QED  BY <2>1, <2>2 DEF Checks
<1>4. /\ compiling' = [a \in Assessments |-> compiling'[a]]
      /\ later' = [a \in Assessments |-> later'[a]]
      /\ drift' = [a \in Assessments |-> drift'[a]]
      /\ check' = [a \in Assessments |-> check'[a]]
  BY DEF Changed
<1>5. ReportingTypes'
  BY <1>1, <1>2, <1>3, <1>4 DEF ReportingInv, ReportingTypes
<1>6. DriftIsSeen'
  BY <1>1, <1>2 DEF DriftIsSeen
<1>7. RunsCover(run)' /\ ReportHolds'
  BY <1>1 DEF ReportingInv, RunsCover, ReportHolds, SubjectLines, ReportStatus
<1>8. ListedHolds'
  <2>. SUFFICES ASSUME NEW a \in Assessments
                PROVE  /\ check[a].step # "none" => report.phase = "checking" /\ a \in report.unchecked
                       /\ report.phase = "checking" /\ a \in report.unchecked =>
                             listed[a].status # "none"
                       /\ listed'[a].saved => listed[a].status # "none"
                       /\ listed[a].status # "none" /\ ~listed'[a].saved =>
                             /\ listed[a].status = asmt'[a].status
                             /\ listed[a].schema = asmt'[a].schema
                             /\ "assessment" \in later'[a] => listed[a].late
    BY <1>1, <1>3 DEF ListedHolds
  <2>1. /\ check[a].step # "none" => report.phase = "checking" /\ a \in report.unchecked
        /\ report.phase = "checking" /\ a \in report.unchecked => listed[a].status # "none"
        /\ listed[a].status # "none" /\ ~listed[a].saved =>
              /\ listed[a].status = asmt[a].status /\ listed[a].schema = asmt[a].schema
              /\ "assessment" \in later[a] => listed[a].late
    BY DEF ReportingInv, ListedHolds
  <2>2. listed'[a].saved => listed[a].status # "none"
    OBVIOUS
  <2>. QED  BY <1>2, <2>1, <2>2
<1>9. CheckHolds'
  <2>. SUFFICES ASSUME NEW a \in Assessments, check'[a].step # "none",
                       check'[a].run.status = "complete"
                PROVE  /\ check'[a].run.learners = check'[a].run.roster
                       /\ DriftMet(check'[a], listed'[a])
    BY DEF CheckHolds
  <2>1. check[a].run.learners = check[a].run.roster /\ DriftMet(check[a], listed[a])
    BY <1>3 DEF ReportingInv, CheckHolds
  <2>. QED  BY <1>3, <2>1 DEF DriftMet
<1>. QED  BY <1>5, <1>6, <1>7, <1>8, <1>9 DEF ReportingInv

\* One column of an assessment is written with a value of its type.
LEMMA AssessmentSaved ==
    ASSUME asmt \in [Assessments -> AssessmentRow], NEW a \in Assessments
    PROVE  /\ \A v \in BOOLEAN :
                 [asmt EXCEPT ![a].component = v] \in [Assessments -> AssessmentRow]
           /\ \A v \in BOOLEAN : [asmt EXCEPT ![a].draft = v] \in [Assessments -> AssessmentRow]
           /\ \A v \in {"none", "open", "approved"} :
                 [asmt EXCEPT ![a].correction = v] \in [Assessments -> AssessmentRow]
           /\ \A v \in SUBSET CctFacts :
                 [asmt EXCEPT ![a].cct = v] \in [Assessments -> AssessmentRow]
           /\ \A v \in {"draft", "open", "locked"}, w \in {"none"} \cup Schemas :
                 [asmt EXCEPT ![a].status = v, ![a].schema = w]
                    \in [Assessments -> AssessmentRow]
<1>1. asmt[a] \in AssessmentRow
  OBVIOUS
<1>2. \A v \in {"draft", "open", "locked"} :
         [asmt EXCEPT ![a].status = v] \in [Assessments -> AssessmentRow]
  BY <1>1 DEF AssessmentRow
<1>3. ASSUME NEW f \in [Assessments -> AssessmentRow],
             NEW w \in {"none"} \cup Schemas
      PROVE  [f EXCEPT ![a].schema = w] \in [Assessments -> AssessmentRow]
  <2>1. f[a] \in AssessmentRow
    OBVIOUS
  <2>. QED  BY <2>1 DEF AssessmentRow
<1>4. ASSUME NEW v \in {"draft", "open", "locked"}, NEW w \in {"none"} \cup Schemas
      PROVE  [asmt EXCEPT ![a].status = v, ![a].schema = w] \in [Assessments -> AssessmentRow]
  <2>. DEFINE f == [asmt EXCEPT ![a].status = v]
  <2>1. f \in [Assessments -> AssessmentRow]
    BY <1>2
  <2>2. [f EXCEPT ![a].schema = w] \in [Assessments -> AssessmentRow]
    BY <2>1, <1>3
  <2>. QED  BY <2>2
<1>. QED  BY <1>1, <1>3, <1>4 DEF AssessmentRow

\* A change that leaves status and schema of every assessment alone.
LEMMA QuietStep ==
    ASSUME ReportingInv, NEW S, NEW kind \in Inputs \cup Watched \cup {"schema", "cct"},
           kind \notin {"applied", "assessment"},
           Changed(S, kind), UNCHANGED listed, enrolled' \subseteq Learners,
           deprecated' \subseteq Schemas, asmt' \in [Assessments -> AssessmentRow],
           \A a \in Assessments :
              asmt'[a].status = asmt[a].status /\ asmt'[a].schema = asmt[a].schema,
           marks' \in [Assessments -> Records],
           \A a \in Assessments : marks'[a].whole \subseteq marks'[a].scored
    PROVE  ReportingInv'
<1>1. listed' \in [Assessments -> Objects]
  BY DEF ReportingInv, ReportingTypes
<1>2. \A a \in Assessments :
         /\ listed'[a].status = listed[a].status /\ listed'[a].schema = listed[a].schema
         /\ listed'[a].late = listed[a].late /\ (listed[a].saved => listed'[a].saved)
         /\ listed'[a].saved => listed[a].status # "none"
         /\ listed[a].status # "none" /\ ~listed'[a].saved =>
               /\ asmt'[a].status = asmt[a].status /\ asmt'[a].schema = asmt[a].schema
               /\ kind # "assessment" \/ a \notin S
  BY DEF ReportingInv, ListedHolds
<1>. QED  BY <1>1, <1>2, ChangeStep

\* The changes that others make, but for the decision and the application of
\* a correction.
LEMMA RowsStep ==
    ASSUME ReportingInv,
           \/ \E l \in Learners : ChangeEnrollment(l)
           \/ \E a \in Assessments :
                 \/ AddComponent(a)
                 \/ \E st \in {"draft", "open", "locked"}, sc \in {"none"} \cup Schemas :
                       SaveAssessment(a, st, sc)
                 \/ RequestCorrection(a)
                 \/ \E f \in CctFacts : ChangeCctFact(a, f)
                 \/ \E S \in SUBSET Learners : SubmitBatch(a, S)
           \/ \E sc \in Schemas : DeprecateSchema(sc)
    PROVE  ReportingInv'
<1>0. /\ enrolled \subseteq Learners /\ deprecated \subseteq Schemas
      /\ asmt \in [Assessments -> AssessmentRow] /\ marks \in [Assessments -> Records]
      /\ \A b \in Assessments : marks[b].whole \subseteq marks[b].scored
      /\ listed \in [Assessments -> Objects]
  BY DEF ReportingInv, ReportingTypes
<1>1. ASSUME NEW l \in Learners, ChangeEnrollment(l) PROVE ReportingInv'
  <2>1. /\ Changed(Assessments, "roster") /\ UNCHANGED <<asmt, deprecated, marks, listed>>
        /\ enrolled' \subseteq Learners
    BY <1>0, <1>1 DEF ChangeEnrollment
  <2>. QED  BY <1>0, <2>1, QuietStep DEF Inputs
<1>2. ASSUME NEW a \in Assessments, AddComponent(a) PROVE ReportingInv'
  <2>1. /\ Changed({a}, "component") /\ UNCHANGED <<enrolled, deprecated, marks, listed>>
        /\ asmt' = [asmt EXCEPT ![a].component = TRUE]
    BY <1>2 DEF AddComponent
  <2>2. asmt' \in [Assessments -> AssessmentRow]
    BY <1>0, <2>1, AssessmentSaved
  <2>3. \A b \in Assessments : asmt'[b].status = asmt[b].status /\ asmt'[b].schema = asmt[b].schema
    BY <1>0, <2>1 DEF AssessmentRow
  <2>. QED  BY <1>0, <2>1, <2>2, <2>3, QuietStep DEF Inputs
<1>3. ASSUME NEW a \in Assessments, NEW st \in {"draft", "open", "locked"},
             NEW sc \in {"none"} \cup Schemas, SaveAssessment(a, st, sc)
      PROVE  ReportingInv'
  <2>1. /\ Changed({a}, "assessment") /\ UNCHANGED <<enrolled, deprecated, marks>>
        /\ asmt' = [asmt EXCEPT ![a].status = st, ![a].schema = sc]
        /\ listed' = [listed EXCEPT ![a].saved = listed[a].status # "none"]
    BY <1>3 DEF SaveAssessment
  <2>2. asmt' \in [Assessments -> AssessmentRow]
    BY <1>0, <2>1, AssessmentSaved
  <2>3. listed' \in [Assessments -> Objects]
    BY <1>0, <2>1 DEF Objects
  <2>4. \A b \in Assessments : b # a => asmt'[b] = asmt[b] /\ listed'[b] = listed[b]
    BY <1>0, <2>1
  <2>5. /\ listed'[a].status = listed[a].status /\ listed'[a].schema = listed[a].schema
        /\ listed'[a].late = listed[a].late /\ listed'[a].saved = (listed[a].status # "none")
    BY <1>0, <2>1 DEF Objects
  <2>6. \A b \in Assessments : listed[b].saved => listed[b].status # "none"
    BY DEF ReportingInv, ListedHolds
  <2>7. \A b \in Assessments :
           /\ listed'[b].status = listed[b].status /\ listed'[b].schema = listed[b].schema
           /\ listed'[b].late = listed[b].late /\ (listed[b].saved => listed'[b].saved)
           /\ listed'[b].saved => listed[b].status # "none"
           /\ listed[b].status # "none" /\ ~listed'[b].saved =>
                 /\ asmt'[b].status = asmt[b].status /\ asmt'[b].schema = asmt[b].schema
                 /\ b \notin {a}
    BY <2>4, <2>5, <2>6
  <2>. QED  BY <1>0, <2>1, <2>2, <2>3, <2>7, ChangeStep DEF Inputs
<1>4. ASSUME NEW sc \in Schemas, DeprecateSchema(sc) PROVE ReportingInv'
  <2>1. /\ Changed({}, "schema") /\ UNCHANGED <<enrolled, asmt, marks, listed>>
        /\ deprecated' \subseteq Schemas
    BY <1>0, <1>4 DEF DeprecateSchema
  <2>. QED  BY <1>0, <2>1, QuietStep
<1>5. ASSUME NEW a \in Assessments, RequestCorrection(a) PROVE ReportingInv'
  <2>1. /\ Changed({a}, "correction") /\ UNCHANGED <<enrolled, deprecated, marks, listed>>
        /\ asmt' = [asmt EXCEPT ![a].correction = "open"]
    BY <1>5 DEF RequestCorrection
  <2>2. asmt' \in [Assessments -> AssessmentRow]
    BY <1>0, <2>1, AssessmentSaved
  <2>3. \A b \in Assessments : asmt'[b].status = asmt[b].status /\ asmt'[b].schema = asmt[b].schema
    BY <1>0, <2>1 DEF AssessmentRow
  <2>. QED  BY <1>0, <2>1, <2>2, <2>3, QuietStep DEF Watched
<1>6. ASSUME NEW a \in Assessments, NEW f \in CctFacts, ChangeCctFact(a, f) PROVE ReportingInv'
  <2>1. asmt[a].cct \in SUBSET CctFacts
    BY <1>0 DEF AssessmentRow
  <2>. DEFINE facts == IF f \in asmt[a].cct THEN asmt[a].cct \ {f} ELSE asmt[a].cct \cup {f}
  <2>2. asmt' = [asmt EXCEPT ![a].cct = facts]
    BY <1>6 DEF ChangeCctFact
  <2>3. facts \in SUBSET CctFacts
    BY <2>1
  <2>. HIDE DEF facts
  <2>4. asmt' \in [Assessments -> AssessmentRow]
    BY <1>0, <2>2, <2>3, AssessmentSaved
  <2>5. \A b \in Assessments : asmt'[b].status = asmt[b].status /\ asmt'[b].schema = asmt[b].schema
    BY <1>0, <2>2 DEF AssessmentRow
  <2>6. Changed({a}, "cct") /\ UNCHANGED <<enrolled, deprecated, marks, listed>>
    BY <1>6 DEF ChangeCctFact
  <2>. QED  BY <1>0, <2>4, <2>5, <2>6, QuietStep
<1>7. ASSUME NEW a \in Assessments, NEW S \in SUBSET Learners, SubmitBatch(a, S)
      PROVE  ReportingInv'
  <2>. DEFINE more == [batches |-> marks[a].batches + 1, scored |-> marks[a].scored \cup S,
                       whole |-> IF asmt[a].component THEN marks[a].whole \cup S
                                 ELSE marks[a].whole]
  <2>1. /\ Changed({a}, "batch") /\ UNCHANGED <<enrolled, deprecated, listed>>
        /\ marks' = [marks EXCEPT ![a] = more]
        /\ asmt' = [asmt EXCEPT ![a].draft = FALSE]
    BY <1>7 DEF SubmitBatch
  <2>2. marks[a] \in Records /\ marks[a].whole \subseteq marks[a].scored
    BY <1>0
  <2>3. more \in Records /\ more.whole \subseteq more.scored
    BY <2>2 DEF Records
  <2>. HIDE DEF more
  <2>4. /\ marks' \in [Assessments -> Records]
        /\ \A b \in Assessments : marks'[b].whole \subseteq marks'[b].scored
    BY <1>0, <2>1, <2>3
  <2>5. asmt' \in [Assessments -> AssessmentRow]
    BY <1>0, <2>1, AssessmentSaved
  <2>6. \A b \in Assessments : asmt'[b].status = asmt[b].status /\ asmt'[b].schema = asmt[b].schema
    BY <1>0, <2>1 DEF AssessmentRow
  <2>. QED  BY <1>0, <2>1, <2>4, <2>5, <2>6, QuietStep DEF Inputs
<1>. QED  BY <1>1, <1>2, <1>3, <1>4, <1>5, <1>6, <1>7

\* What a correction's decision or application does to a check under way.
LEMMA CorrectionForgotten ==
    ASSUME ReportingInv, NEW a \in Assessments, NEW gone \in SUBSET {"correction"},
           UNCHANGED <<report, listed>>,
           check' = [check EXCEPT ![a].later = @ \ gone],
           \A b \in Assessments : /\ asmt'[b].status = asmt[b].status
                                  /\ asmt'[b].schema = asmt[b].schema
                                  /\ later'[b] \subseteq later[b]
    PROVE  check' \in [Assessments -> Checks] /\ ListedHolds' /\ CheckHolds'
<1>0. check \in [Assessments -> Checks]
  BY DEF ReportingInv, ReportingTypes
<1>1. ASSUME NEW b \in Assessments
      PROVE  /\ check'[b] \in Checks /\ check'[b].step = check[b].step
             /\ check'[b].run = check[b].run /\ check'[b].codes = check[b].codes
             /\ check'[b].drift = check[b].drift
             /\ check[b].later \ {"correction"} \subseteq check'[b].later
             /\ "correction" \notin check[b].drift
  <2>1. check[b] \in Checks
    BY <1>0
  <2>2. check'[b] = IF b = a THEN [check[b] EXCEPT !.later = @ \ gone] ELSE check[b]
    BY <1>0
  <2>3. "correction" \notin check[b].drift
    BY <2>1 DEF Checks, Inputs
  <2>. QED  BY <2>1, <2>2, <2>3 DEF Checks
<1>2. check' \in [Assessments -> Checks]
  BY <1>0, <1>1
<1>3. ListedHolds'
  BY <1>1 DEF ReportingInv, ListedHolds
<1>4. CheckHolds'
  <2>. SUFFICES ASSUME NEW b \in Assessments, check'[b].step # "none",
                       check'[b].run.status = "complete"
                PROVE  /\ check'[b].run.learners = check'[b].run.roster
                       /\ DriftMet(check'[b], listed'[b])
    BY DEF CheckHolds
  <2>1. check[b].run.learners = check[b].run.roster /\ DriftMet(check[b], listed[b])
    BY <1>1 DEF ReportingInv, CheckHolds
  <2>. QED  BY <1>1, <2>1 DEF DriftMet
<1>. QED  BY <1>2, <1>3, <1>4

\* A correction is decided: it is no longer later than anything if refused.
LEMMA DecideStep ==
    ASSUME ReportingInv, NEW a \in Assessments, NEW d \in {"none", "approved"},
           DecideCorrection(a, d)
    PROVE  ReportingInv'
<1>. DEFINE gone == IF d = "none" THEN {"correction"} ELSE {}
<1>0. /\ asmt \in [Assessments -> AssessmentRow] /\ later \in [Assessments -> SUBSET Watched]
      /\ check \in [Assessments -> Checks]
  BY DEF ReportingInv, ReportingTypes
<1>1. /\ UNCHANGED <<enrolled, deprecated, marks, compiling, run, drift, report, listed>>
      /\ asmt' = [asmt EXCEPT ![a].correction = d]
      /\ later' = [later EXCEPT ![a] = IF d = "none" THEN @ \ {"correction"} ELSE @]
      /\ check' = [check EXCEPT ![a].later = IF d = "none" THEN @ \ {"correction"} ELSE @]
  BY DEF DecideCorrection
<1>2. /\ later' \in [Assessments -> SUBSET Watched]
      /\ \A b \in Assessments : later[b] \ {"correction"} \subseteq later'[b]
      /\ \A b \in Assessments : later'[b] \subseteq later[b]
  BY <1>0, <1>1
<1>3. /\ asmt' \in [Assessments -> AssessmentRow]
      /\ \A b \in Assessments : asmt'[b].status = asmt[b].status
                                /\ asmt'[b].schema = asmt[b].schema
  <2>1. asmt' \in [Assessments -> AssessmentRow]
    BY <1>0, <1>1, AssessmentSaved
  <2>. QED  BY <1>0, <1>1, <2>1 DEF AssessmentRow
<1>4. check' = [check EXCEPT ![a].later = @ \ gone]
  BY <1>1
<1>5. check' \in [Assessments -> Checks] /\ ListedHolds' /\ CheckHolds'
  <2>1. gone \in SUBSET {"correction"}
    OBVIOUS
  <2>. HIDE DEF gone
  <2>. QED  BY <1>1, <1>2, <1>3, <1>4, <2>1, CorrectionForgotten
<1>6. ReportingTypes'
  BY <1>1, <1>2, <1>3, <1>5 DEF ReportingInv, ReportingTypes
<1>7. DriftIsSeen'
  <2>1. \A b \in Assessments : "correction" \notin drift[b]
    BY DEF ReportingInv, ReportingTypes, Inputs
  <2>. QED  BY <1>1, <1>2, <2>1 DEF ReportingInv, DriftIsSeen
<1>8. RunsCover(run)' /\ ReportHolds'
  BY <1>1 DEF ReportingInv, RunsCover, ReportHolds, SubjectLines, ReportStatus
<1>. QED  BY <1>5, <1>6, <1>7, <1>8 DEF ReportingInv

\* A correction is applied: the run is stale from then on.
LEMMA ApplyStep ==
    ASSUME ReportingInv, NEW a \in Assessments, NEW l \in Learners, ApplyCorrection(a, l)
    PROVE  ReportingInv'
<1>. DEFINE stale == [run[a] EXCEPT !.status = IF run[a].status = "none" THEN "none" ELSE "stale"]
            filled == [marks[a] EXCEPT !.whole = IF asmt[a].component THEN @ \cup {l} ELSE @]
            told == [compiling[a] EXCEPT !.changed =
                       IF compiling[a].phase = "idle" THEN @ ELSE @ \cup {"applied"}]
            after == later[a] \ {"correction"}
            moved == IF run[a].status = "none" THEN drift[a] ELSE drift[a] \cup {"applied"}
<1>1. /\ run[a] \in Runs /\ marks[a] \in Records /\ compiling[a] \in Loaded
      /\ later[a] \in SUBSET Watched /\ drift[a] \in SUBSET Inputs
      /\ marks[a].whole \subseteq marks[a].scored
      /\ asmt \in [Assessments -> AssessmentRow] /\ later \in [Assessments -> SUBSET Watched]
  BY DEF ReportingInv, ReportingTypes
<1>2. /\ UNCHANGED <<enrolled, deprecated, report, listed>> /\ l \in marks[a].scored
      /\ asmt' = [asmt EXCEPT ![a].correction = "none"]
      /\ check' = [check EXCEPT ![a].later = @ \ {"correction"}]
  BY DEF ApplyCorrection
<1>3. /\ run' = [run EXCEPT ![a] = stale] /\ marks' = [marks EXCEPT ![a] = filled]
      /\ compiling' = [compiling EXCEPT ![a] = told] /\ later' = [later EXCEPT ![a] = after]
      /\ drift' = [drift EXCEPT ![a] = moved]
  BY DEF ApplyCorrection, ReportingInv, ReportingTypes
<1>4. /\ stale \in Runs /\ stale.status \in {"none", "stale"}
      /\ filled \in Records /\ filled.whole \subseteq filled.scored
  BY <1>1, <1>2 DEF Runs, Records
<1>5. told \in Loaded /\ after \in SUBSET Watched /\ moved \in SUBSET Inputs
  BY <1>1 DEF Loaded, Inputs
<1>6. /\ asmt' \in [Assessments -> AssessmentRow]
      /\ \A b \in Assessments : /\ asmt'[b].status = asmt[b].status
                                /\ asmt'[b].schema = asmt[b].schema
                                /\ later'[b] \subseteq later[b]
  <2>1. asmt' \in [Assessments -> AssessmentRow]
    BY <1>1, <1>2, AssessmentSaved
  <2>2. \A b \in Assessments : later'[b] \subseteq later[b]
    BY <1>1, <1>3
  <2>. QED  BY <1>1, <1>2, <2>1, <2>2 DEF AssessmentRow
<1>7. check' \in [Assessments -> Checks] /\ ListedHolds' /\ CheckHolds'
  BY <1>2, <1>6, CorrectionForgotten
<1>. HIDE DEF stale, filled, told, after, moved
<1>8. ReportingTypes'
  BY <1>2, <1>3, <1>4, <1>5, <1>6, <1>7 DEF ReportingInv, ReportingTypes
<1>9. RunsCover(run)' /\ DriftIsSeen'
  BY <1>3, <1>4 DEF ReportingInv, ReportingTypes, RunsCover, DriftIsSeen
<1>10. ReportHolds'
  BY <1>2 DEF ReportingInv, ReportHolds, SubjectLines, ReportStatus
<1>. QED  BY <1>7, <1>8, <1>9, <1>10 DEF ReportingInv

\* compile_assessment reads its inputs.
LEMMA ReadInputStep ==
    ASSUME ReportingInv, NEW a \in Assessments, ReadCompilationInput(a)
    PROVE  ReportingInv'
<1>. DEFINE input == [phase |-> "read", roster |-> enrolled, scored |-> marks[a].scored,
                      whole |-> marks[a].whole, component |-> asmt[a].component,
                      changed |-> {}]
<1>1. /\ UNCHANGED <<enrolled, asmt, deprecated, marks, run, later, drift, report, listed, check>>
      /\ compiling' = [compiling EXCEPT ![a] = input]
  BY DEF ReadCompilationInput, rows, reading
<1>2. marks[a] \in Records /\ asmt[a] \in AssessmentRow /\ enrolled \subseteq Learners
  BY DEF ReportingInv, ReportingTypes
<1>3. input \in Loaded
  BY <1>2 DEF Records, AssessmentRow, Loaded
<1>. HIDE DEF input
<1>4. ReportingTypes'
  BY <1>1, <1>3 DEF ReportingInv, ReportingTypes
<1>5. RunsCover(run)' /\ DriftIsSeen' /\ ReportHolds'
  BY <1>1 DEF ReportingInv, RunsCover, DriftIsSeen, ReportHolds, SubjectLines, ReportStatus
<1>6. ListedHolds' /\ CheckHolds'
  BY <1>1 DEF ReportingInv, ListedHolds, CheckHolds, DriftMet
<1>. QED  BY <1>4, <1>5, <1>6 DEF ReportingInv

\* A run that is complete had a record of every learner on the roster, and of
\* nobody else.
LEMMA CompleteRunsCover ==
    ASSUME NEW c \in Loaded, CompilationStatus(c) = "complete"
    PROVE  c.scored = c.roster
BY DEF CompilationStatus, OutsideRoster, MissingMark

\* compile_assessment writes its run, and what was saved before is no longer late.
LEMMA StoreStep ==
    ASSUME ReportingInv, NEW a \in Assessments, StoreCompilation(a)
    PROVE  ReportingInv'
<1>. DEFINE c == compiling[a]
            new == [status |-> CompilationStatus(c), roster |-> c.roster,
                    learners |-> c.scored, missing |-> MissingMark(c) # {},
                    lacking |-> LackingComponent(c) # {}, during |-> c.changed]
<1>1. /\ UNCHANGED <<enrolled, asmt, deprecated, marks, report, check>>
      /\ run' = [run EXCEPT ![a] = new] /\ later' = [later EXCEPT ![a] = {}]
      /\ drift' = [drift EXCEPT ![a] = c.changed]
      /\ compiling' = [compiling EXCEPT ![a] = Idle]
      /\ listed' = [listed EXCEPT ![a].late = FALSE]
  BY DEF StoreCompilation, rows
<1>2. c \in Loaded /\ Idle \in Loaded
  BY DEF ReportingInv, ReportingTypes, Idle, Loaded
<1>3. /\ c.roster \in SUBSET Learners /\ c.scored \in SUBSET Learners
      /\ c.changed \in SUBSET Inputs
  BY <1>2 DEF Loaded
<1>4. CompilationStatus(c) \in {"blocked", "partial", "complete"}
  BY DEF CompilationStatus
<1>5. CompilationStatus(c) = "complete" => c.scored = c.roster
  BY <1>2, CompleteRunsCover
<1>6. /\ new \in Runs /\ new.during = c.changed
      /\ new.status = "complete" => new.learners = new.roster
  BY <1>3, <1>4, <1>5 DEF Runs
<1>. HIDE DEF c, new
<1>7. /\ listed' \in [Assessments -> Objects]
      /\ \A b \in Assessments :
            /\ listed'[b].status = listed[b].status /\ listed'[b].schema = listed[b].schema
            /\ listed'[b].saved = listed[b].saved /\ (b # a => listed'[b].late = listed[b].late)
  <2>1. listed \in [Assessments -> Objects]
    BY DEF ReportingInv, ReportingTypes
  <2>. QED  BY <1>1, <2>1 DEF Objects
<1>8. /\ later \in [Assessments -> SUBSET Watched]
      /\ \A b \in Assessments : later'[b] = IF b = a THEN {} ELSE later[b]
  BY <1>1 DEF ReportingInv, ReportingTypes
<1>9. ReportingTypes'
  BY <1>1, <1>2, <1>3, <1>6, <1>7, <1>8 DEF ReportingInv, ReportingTypes
<1>10. RunsCover(run)' /\ DriftIsSeen'
  BY <1>1, <1>6 DEF ReportingInv, ReportingTypes, RunsCover, DriftIsSeen
<1>11. ReportHolds'
  BY <1>1 DEF ReportingInv, ReportHolds, SubjectLines, ReportStatus
<1>12. ListedHolds'
  BY <1>1, <1>7, <1>8 DEF ReportingInv, ListedHolds
<1>13. CheckHolds'
  BY <1>1, <1>7 DEF ReportingInv, CheckHolds, DriftMet
<1>. QED  BY <1>9, <1>10, <1>11, <1>12, <1>13 DEF ReportingInv

\* What there is before a report and before a check.
LEMMA NothingReported ==
    /\ NoRun \in Runs /\ NoReport \in Reports
    /\ NotListed \in Objects /\ Unchecked \in Checks
<1>1. NoRun \in Runs
  BY DEF NoRun, Runs
<1>2. NoReport \in Reports
  BY <1>1, ReportingAssumption DEF NoReport, Reports
<1>. QED  BY <1>1, <1>2 DEF NotListed, Objects, Unchecked, Checks

\* Only the report and what it has loaded and looked up change.
LEMMA ReportStep ==
    ASSUME ReportingInv,
           UNCHANGED <<enrolled, asmt, deprecated, marks, compiling, run, later, drift>>,
           report' \in Reports, listed' \in [Assessments -> Objects],
           check' \in [Assessments -> Checks], ReportHolds', ListedHolds', CheckHolds'
    PROVE  ReportingInv'
BY DEF ReportingInv, ReportingTypes, RunsCover, DriftIsSeen

\* create_report_snapshot_run starts; no check is under way then.
LEMMA BeginStep ==
    ASSUME ReportingInv, NEW scope \in SUBSET Assessments, BeginReport(scope)
    PROVE  ReportingInv' /\ report'.eligible = {}
<1>1. /\ report.number + 1 \in 0..MaxReports /\ report.phase # "checking"
      /\ report' = [NoReport EXCEPT !.phase = "checking", !.number = report.number + 1,
                                    !.scope = scope, !.unchecked = scope,
                                    !.status = "running"]
      /\ listed' = [a \in Assessments |->
            IF a \in scope THEN [status |-> asmt[a].status, schema |-> asmt[a].schema,
                                 late |-> "assessment" \in later[a], saved |-> FALSE]
            ELSE NotListed]
      /\ UNCHANGED <<enrolled, asmt, deprecated, marks, compiling, run, later, drift, check>>
  BY ReportingAssumption DEF BeginReport, ReportingInv, ReportingTypes, Reports, rows
<1>2. report' \in Reports
  BY <1>1, NothingReported DEF Reports
<1>3. report'.phase = "checking" /\ report'.eligible = {} /\ report'.unchecked = scope
  BY <1>1 DEF NoReport
<1>4. ReportHolds'
  BY <1>3 DEF ReportHolds
<1>5. \A a \in Assessments : check[a].step = "none"
  BY <1>1 DEF ReportingInv, ListedHolds
<1>6. \A a \in Assessments : asmt[a] \in AssessmentRow
  BY DEF ReportingInv, ReportingTypes
<1>7. listed' \in [Assessments -> Objects]
  BY <1>1, <1>6, NothingReported DEF AssessmentRow, Objects
<1>8. ListedHolds'
  <2>1. ASSUME NEW a \in scope PROVE listed'[a].status # "none"
    BY <1>1, <1>6, <2>1 DEF AssessmentRow
  <2>. QED  BY <1>1, <1>3, <1>5, <2>1 DEF ListedHolds, NotListed
<1>9. CheckHolds' /\ check' \in [Assessments -> Checks]
  BY <1>1, <1>5 DEF CheckHolds, ReportingInv, ReportingTypes
<1>. QED  BY <1>1, <1>2, <1>3, <1>4, <1>7, <1>8, <1>9, ReportStep

\* The check of an assessment begins with its latest run.
LEMMA LookUpRunStep ==
    ASSUME ReportingInv, NEW a \in Assessments, LookUpRun(a)
    PROVE  ReportingInv' /\ UNCHANGED report
<1>. DEFINE codes == RunBlockers(run[a]) \cup StaleIf(run[a].status = "stale" \/ listed[a].late)
            found == [step |-> "batches", run |-> run[a], later |-> later[a] \ {"assessment"},
                      codes |-> codes, drift |-> drift[a]]
<1>1. /\ UNCHANGED <<enrolled, asmt, deprecated, marks, compiling, run, later, drift, report,
                     listed>>
      /\ report.phase = "checking" /\ a \in report.unchecked
      /\ check' = [check EXCEPT ![a] = found]
  BY DEF LookUpRun, rows
<1>2. /\ run[a] \in Runs /\ later[a] \in SUBSET Watched /\ drift[a] \in SUBSET Inputs
      /\ check \in [Assessments -> Checks] /\ report \in Reports
      /\ listed \in [Assessments -> Objects]
  BY DEF ReportingInv, ReportingTypes
<1>3. codes \in SUBSET Codes
  BY DEF RunBlockers, StaleIf, Codes
<1>4. found \in Checks
  <2>. HIDE DEF codes
  <2>. QED  BY <1>2, <1>3 DEF Checks
<1>5. check' \in [Assessments -> Checks]
  <2>. HIDE DEF found
  <2>. QED  BY <1>1, <1>2, <1>4
<1>6. ListedHolds'
  BY <1>1, <1>2 DEF ReportingInv, ListedHolds
<1>7. run[a].status = "complete" => run[a].learners = run[a].roster /\ DriftMet(found, listed[a])
  <2>. SUFFICES ASSUME run[a].status = "complete", ~listed[a].late
                PROVE  /\ run[a].learners = run[a].roster
                       /\ drift[a] \subseteq {"roster", "component"} \cup run[a].during
                             \cup (IF listed[a].saved THEN {"assessment"} ELSE {})
                             \cup (later[a] \cap {"batch"})
    BY DEF ReportingInv, RunsCover, DriftMet, StaleIf
  <2>1. drift[a] \subseteq {"roster", "component"} \cup run[a].during \cup later[a]
    BY DEF ReportingInv, DriftIsSeen
  <2>2. "assessment" \in later[a] => listed[a].saved
    BY <1>1 DEF ReportingInv, ListedHolds
  <2>3. drift[a] \cap later[a] \subseteq {"assessment", "batch"}
    BY <1>2 DEF Inputs, Watched
  <2>. QED  BY <2>1, <2>2, <2>3 DEF ReportingInv, RunsCover
<1>8. found.run = run[a]
  OBVIOUS
<1>. HIDE DEF found
<1>9. CheckHolds'
  BY <1>1, <1>2, <1>7, <1>8 DEF ReportingInv, CheckHolds
<1>10. ReportHolds'
  BY <1>1 DEF ReportingInv, ReportHolds, SubjectLines, ReportStatus
<1>. QED  BY <1>1, <1>2, <1>5, <1>6, <1>9, <1>10, ReportStep

\* The check goes on to its next query; submissions are looked for by the first.
LEMMA QueryStep ==
    ASSUME ReportingInv, NEW a \in Assessments, NEW step \in {"batches", "corrections", "cct"},
           NEW next \in {"corrections", "cct", "schema"}, NEW codes \in SUBSET Codes,
           Query(a, step, next, codes),
           step = "batches" /\ "batch" \in check[a].later => "stale_compilation" \in codes
    PROVE  ReportingInv' /\ UNCHANGED report
<1>1. /\ UNCHANGED <<enrolled, asmt, deprecated, marks, compiling, run, later, drift, report,
                     listed>>
      /\ check[a].step = step
      /\ check' = [check EXCEPT ![a].step = next, ![a].codes = @ \cup codes]
  BY DEF Query, rows
<1>2. /\ check \in [Assessments -> Checks] /\ report \in Reports
      /\ listed \in [Assessments -> Objects]
  BY DEF ReportingInv, ReportingTypes
<1>3. /\ check'[a] = [check[a] EXCEPT !.step = next, !.codes = @ \cup codes]
      /\ \A b \in Assessments : b # a => check'[b] = check[b]
      /\ check[a] \in Checks
  BY <1>1, <1>2
<1>4. /\ check'[a] \in Checks /\ check'[a].step = next /\ check'[a].run = check[a].run
      /\ check'[a].codes = check[a].codes \cup codes /\ check'[a].drift = check[a].drift
      /\ check'[a].later = check[a].later
  BY <1>3 DEF Checks
<1>5. check' \in [Assessments -> Checks]
  BY <1>1, <1>2, <1>3, <1>4
<1>6. ListedHolds'
  BY <1>1, <1>3, <1>4 DEF ReportingInv, ListedHolds
<1>7. check[a].run.status = "complete" =>
         check[a].run.learners = check[a].run.roster /\ DriftMet(check'[a], listed[a])
  BY <1>1, <1>4 DEF ReportingInv, CheckHolds, DriftMet
<1>8. CheckHolds'
  BY <1>1, <1>3, <1>4, <1>7 DEF ReportingInv, CheckHolds
<1>9. ReportHolds'
  BY <1>1 DEF ReportingInv, ReportHolds, SubjectLines, ReportStatus
<1>. QED  BY <1>1, <1>2, <1>5, <1>6, <1>8, <1>9, ReportStep

\* The queries add codes of theirs.
LEMMA QueriesStep ==
    ASSUME ReportingInv, NEW a \in Assessments,
           LookUpBatches(a) \/ LookUpCorrections(a) \/ LookUpCct(a)
    PROVE  ReportingInv' /\ UNCHANGED report
<1>1. CASE LookUpBatches(a)
  <2>. DEFINE codes == SubmissionBlockers(a) \cup StaleIf("batch" \in check[a].later)
  <2>1. codes \in SUBSET Codes
    BY DEF SubmissionBlockers, StaleIf, Codes
  <2>2. Query(a, "batches", "corrections", codes)
    BY <1>1 DEF LookUpBatches
  <2>3. "batch" \in check[a].later => "stale_compilation" \in codes
    BY DEF StaleIf
  <2>. HIDE DEF codes
  <2>. QED  BY <2>1, <2>2, <2>3, QueryStep
<1>2. CASE LookUpCorrections(a)
  <2>. DEFINE codes == CorrectionBlockers(a) \cup StaleIf("correction" \in check[a].later)
  <2>1. codes \in SUBSET Codes
    <3>1. CorrectionBlockers(a) \in SUBSET Codes
      <4>1. \/ CorrectionBlockers(a) = {"correction_pending"}
            \/ CorrectionBlockers(a) = {"correction_pending", "approved_correction_unapplied"}
            \/ CorrectionBlockers(a) = {}
        BY DEF CorrectionBlockers
      <4>. QED  BY <4>1 DEF Codes
    <3>. QED  BY <3>1 DEF StaleIf, Codes
  <2>2. Query(a, "corrections", "cct", codes)
    BY <1>2 DEF LookUpCorrections
  <2>. HIDE DEF codes
  <2>. QED  BY <2>1, <2>2, QueryStep
<1>3. CASE LookUpCct(a)
  <2>. DEFINE codes == CctBlockers(a, listed[a])
  <2>1. codes \in SUBSET Codes
    <3>1. \A f : CctCode(f) \in CctCodes
      BY DEF CctCode, CctCodes
    <3>. QED  BY <3>1 DEF CctBlockers, Codes
  <2>2. Query(a, "cct", "schema", codes)
    BY <1>3 DEF LookUpCct
  <2>. HIDE DEF codes
  <2>. QED  BY <2>1, <2>2, QueryStep
<1>. QED  BY <1>1, <1>2, <1>3

\* What the evaluation of a checked assessment is made from.
CodesAtEnd(a) == check[a].codes \cup SchemaBlockers(a, listed[a])
Entering(a) == check[a].step = "schema" /\ ReportEligible(CodesAtEnd(a), check[a].run.status)

\* Ready is what nothing speaks against and was compiled completely.
LEMMA ReadyIsClear ==
    ASSUME NEW codes, NEW status
    PROVE  ReadinessStatus(codes, status) = "ready_for_reports"
              <=> codes = {} /\ status = "complete"
BY DEF ReadinessStatus

\* An assessment is evaluated and enters the report with its complete run.
LEMMA CheckStep ==
    ASSUME ReportingInv, NEW a \in Assessments, CheckEligibility(a)
    PROVE  /\ ReportingInv'
           /\ \A b \in report'.eligible \ report.eligible : b = a /\ Entering(a)
<1>. DEFINE in == ReportEligible(CodesAtEnd(a), check[a].run.status)
            kept == IF in THEN check[a].run ELSE NoRun
            eligible == IF in THEN report.eligible \cup {a} ELSE report.eligible
            source == [report.source EXCEPT ![a] = kept]
            left == report.unchecked \ {a}
<1>1. /\ UNCHANGED <<enrolled, asmt, deprecated, marks, compiling, run, later, drift>>
      /\ check[a].step = "schema"
      /\ check' = [check EXCEPT ![a] = Unchecked]
      /\ listed' = [listed EXCEPT ![a] = NotListed]
  BY DEF CheckEligibility, rows
<1>2. report.phase = "checking" /\ a \in report.unchecked
  BY <1>1 DEF ReportingInv, ListedHolds
<1>3. /\ report \in Reports /\ NoRun \in Runs /\ check \in [Assessments -> Checks]
      /\ listed \in [Assessments -> Objects] /\ NotListed \in Objects /\ Unchecked \in Checks
  BY NothingReported DEF ReportingInv, ReportingTypes
<1>4. check[a] \in Checks /\ check[a].run \in Runs
  BY <1>3 DEF Checks
<1>5. report.source \in [Assessments -> Runs]
  BY <1>3 DEF Reports
<1>6. report' = [report EXCEPT !.unchecked = left, !.eligible = eligible, !.source = source]
  <2>1. report' = [report EXCEPT
           !.unchecked = report.unchecked \ {a},
           !.eligible = IF in THEN report.eligible \cup {a} ELSE report.eligible,
           !.source[a] = IF in THEN check[a].run ELSE NoRun]
    BY DEF CheckEligibility, CodesAtEnd
  <2>. HIDE DEF in
  <2>. QED  BY <1>3, <2>1 DEF Reports
<1>7. in => check[a].run.status = "complete"
  BY DEF ReportEligible
<1>. HIDE DEF in
<1>8. kept \in Runs
  BY <1>3, <1>4
<1>9. /\ report' \in Reports /\ report'.phase = "checking" /\ report'.unchecked = left
      /\ report'.eligible = eligible /\ report'.source = source
  <2>. HIDE DEF kept
  <2>1. source \in [Assessments -> Runs]
    BY <1>5, <1>8
  <2>2. eligible \in SUBSET Assessments /\ left \in SUBSET Assessments
    BY <1>3 DEF Reports
  <2>. HIDE DEF eligible, source, left
  <2>. QED  BY <1>2, <1>3, <1>6, <2>1, <2>2 DEF Reports
<1>10. ReportHolds'
  <2>1. in => check[a].run.learners = check[a].run.roster
    BY <1>1, <1>7 DEF ReportingInv, CheckHolds
  <2>2. ASSUME NEW b \in eligible
        PROVE  source[b].learners = source[b].roster
    <3>1. CASE b = a /\ in
      BY <1>5, <2>1, <3>1
    <3>2. CASE b # a
      BY <1>3, <1>5, <3>2 DEF ReportingInv, ReportHolds, Reports
    <3>3. CASE b = a /\ ~in
      <4>1. source[b] = NoRun
        BY <1>5, <3>3
      <4>. QED  BY <4>1 DEF NoRun
    <3>. QED  BY <3>1, <3>2, <3>3
  <2>. QED  BY <1>9, <2>2 DEF ReportHolds
<1>11. /\ \A b \in Assessments : b # a => check'[b] = check[b] /\ listed'[b] = listed[b]
       /\ check'[a] = Unchecked /\ listed'[a] = NotListed
       /\ check' \in [Assessments -> Checks] /\ listed' \in [Assessments -> Objects]
  BY <1>1, <1>3
<1>12. ListedHolds'
  BY <1>1, <1>2, <1>9, <1>11 DEF ReportingInv, ListedHolds, Unchecked, NotListed
<1>13. CheckHolds'
  BY <1>11 DEF ReportingInv, CheckHolds, Unchecked
<1>14. ReportingInv'
  BY <1>1, <1>9, <1>10, <1>11, <1>12, <1>13, ReportStep
<1>15. \A b \in report'.eligible \ report.eligible : b = a /\ in
  BY <1>9
<1>. QED  BY <1>1, <1>14, <1>15 DEF in, Entering

\* The report is finished.
LEMMA FinishStep ==
    ASSUME ReportingInv, FinishReport
    PROVE  ReportingInv' /\ report'.eligible = report.eligible
<1>1. /\ UNCHANGED <<enrolled, asmt, deprecated, marks, compiling, run, later, drift, listed, check>>
      /\ report' = [report EXCEPT !.phase = "done", !.status = ReportStatus(report),
                                  !.lines = SubjectLines(report)]
      /\ report.unchecked = {}
  BY DEF FinishReport, rows
<1>2. report \in Reports
  BY DEF ReportingInv, ReportingTypes
<1>3. ReportStatus(report) \in {"complete", "partial", "blocked"}
  BY DEF ReportStatus
<1>4. SubjectLines(report) \in SUBSET (Assessments \X Learners)
  BY <1>2 DEF SubjectLines, Reports
<1>5. /\ report' \in Reports
      /\ report'.eligible = report.eligible /\ report'.source = report.source
      /\ report'.scope = report.scope /\ report'.unchecked = {} /\ report'.phase = "done"
      /\ report'.lines = SubjectLines(report) /\ report'.status = ReportStatus(report)
  BY <1>1, <1>2, <1>3, <1>4 DEF Reports
<1>6. ReportHolds'
  BY <1>5 DEF ReportingInv, ReportHolds, SubjectLines, ReportStatus
<1>7. ListedHolds' /\ CheckHolds' /\ check' \in [Assessments -> Checks]
      /\ listed' \in [Assessments -> Objects]
  BY <1>1, <1>5 DEF ReportingInv, ReportingTypes, ListedHolds, CheckHolds, DriftMet
<1>. QED  BY <1>1, <1>5, <1>6, <1>7, ReportStep

\* The invariant holds of what is there before the first report.
LEMMA InitReporting == ReportingInit => ReportingInv
<1>. SUFFICES ASSUME ReportingInit PROVE ReportingInv
  OBVIOUS
<1>. DEFINE first == [batches |-> 0, scored |-> {}, whole |-> {}]
            full == [batches |-> 1, scored |-> enrolled, whole |-> enrolled]
            compiled == [NoRun EXCEPT !.status = "complete", !.roster = enrolled,
                                      !.learners = enrolled]
<1>1. /\ enrolled \subseteq Learners /\ report = NoReport /\ deprecated = {}
      /\ marks = [a \in Assessments |-> IF asmt[a].draft THEN first ELSE full]
      /\ compiling = [a \in Assessments |-> Idle]
      /\ run = [a \in Assessments |-> IF asmt[a].draft THEN NoRun ELSE compiled]
      /\ later = [a \in Assessments |-> {}] /\ drift = [a \in Assessments |-> {}]
      /\ listed = [a \in Assessments |-> NotListed]
      /\ check = [a \in Assessments |-> Unchecked]
  BY DEF ReportingInit
<1>2. asmt \in [Assessments -> AssessmentRow]
  <2>. DEFINE fresh == [status : {"draft", "open"}, component : BOOLEAN, draft : BOOLEAN,
                        correction : {"none", "open", "approved"},
                        schema : {"none"} \cup Schemas, cct : {{}}]
  <2>1. asmt \in [Assessments -> fresh]
    BY DEF ReportingInit
  <2>2. fresh \subseteq AssessmentRow
    BY DEF AssessmentRow
  <2>. HIDE DEF fresh
  <2>. QED  BY <2>1, <2>2
<1>3. /\ first \in Records /\ first.whole \subseteq first.scored
      /\ full \in Records /\ full.whole \subseteq full.scored
  BY <1>1 DEF Records
<1>4. compiled \in Runs /\ compiled.learners = compiled.roster
  BY <1>1, NothingReported DEF NoRun, Runs
<1>5. Idle \in Loaded
  BY DEF Idle, Loaded
<1>6. /\ NoRun.status = "none" /\ NoReport.phase = "none" /\ NoReport.eligible = {}
      /\ NotListed.status = "none" /\ NotListed.saved = FALSE /\ Unchecked.step = "none"
  BY DEF NoRun, NoReport, NotListed, Unchecked
<1>. HIDE DEF first, full, compiled
<1>7. ReportingTypes
  BY <1>1, <1>2, <1>3, <1>4, <1>5, NothingReported DEF ReportingTypes
<1>8. RunsCover(run) /\ DriftIsSeen /\ ReportHolds /\ ListedHolds /\ CheckHolds
  BY <1>1, <1>4, <1>6 DEF RunsCover, DriftIsSeen, ReportHolds, ListedHolds, CheckHolds
<1>. QED  BY <1>7, <1>8 DEF ReportingInv

\* The changes that others make.
OthersStep ==
    \/ \E l \in Learners : ChangeEnrollment(l)
    \/ \E a \in Assessments :
          \/ AddComponent(a)
          \/ \E st \in {"draft", "open", "locked"}, sc \in {"none"} \cup Schemas :
                SaveAssessment(a, st, sc)
          \/ RequestCorrection(a)
          \/ \E f \in CctFacts : ChangeCctFact(a, f)
          \/ \E S \in SUBSET Learners : SubmitBatch(a, S)
    \/ \E sc \in Schemas : DeprecateSchema(sc)

\* The steps of the system, sorted by what they do to a check.
LEMMA StepsOfReporting ==
    ASSUME ReportingStep
    PROVE  \/ OthersStep
           \/ \E a \in Assessments : \/ \E d \in {"none", "approved"} : DecideCorrection(a, d)
                                    \/ \E l \in Learners : ApplyCorrection(a, l)
           \/ \E a \in Assessments : \/ ReadCompilationInput(a) \/ StoreCompilation(a)
                                    \/ CheckEligibility(a) \/ LookUpRun(a)
                                    \/ LookUpBatches(a) \/ LookUpCorrections(a) \/ LookUpCct(a)
           \/ \E scope \in SUBSET Assessments : BeginReport(scope)
           \/ FinishReport
<1>1. Settled \subseteq Assessments /\ Scopes \subseteq SUBSET Assessments
  BY ReportingAssumption
<1>2. Assessments \ Settled \subseteq Assessments /\ Schemas \ deprecated \subseteq Schemas
  OBVIOUS
<1>. QED  BY <1>1, <1>2 DEF ReportingStep, OthersStep

\* Every step keeps it, and what enters a report was evaluated as eligible.
LEMMA NextReporting ==
    ASSUME ReportingInv, ReportingStep
    PROVE  /\ ReportingInv'
           /\ \A a \in report'.eligible \ report.eligible : a \in Assessments /\ Entering(a)
<1>. DEFINE entered == \A a \in report'.eligible \ report.eligible :
                          a \in Assessments /\ Entering(a)
<1>1. ASSUME UNCHANGED report PROVE entered
  BY <1>1
<1>2. CASE OthersStep
  <2>1. UNCHANGED report
    BY <1>2 DEF OthersStep, ChangeEnrollment, AddComponent, SaveAssessment, DeprecateSchema,
                RequestCorrection, ChangeCctFact, SubmitBatch, Changed
  <2>2. ReportingInv'
    BY <1>2, RowsStep DEF OthersStep
  <2>. QED  BY <1>1, <2>1, <2>2
<1>3. ASSUME NEW a \in Assessments, NEW d \in {"none", "approved"}, DecideCorrection(a, d)
      PROVE  ReportingInv' /\ entered
  <2>1. UNCHANGED report
    BY <1>3 DEF DecideCorrection
  <2>. QED  BY <1>1, <1>3, <2>1, DecideStep
<1>4. ASSUME NEW a \in Assessments, NEW l \in Learners, ApplyCorrection(a, l)
      PROVE  ReportingInv' /\ entered
  <2>1. UNCHANGED report
    BY <1>4 DEF ApplyCorrection
  <2>. QED  BY <1>1, <1>4, <2>1, ApplyStep
<1>5. ASSUME NEW a \in Assessments, ReadCompilationInput(a) PROVE ReportingInv' /\ entered
  <2>1. UNCHANGED report
    BY <1>5 DEF ReadCompilationInput, reading
  <2>. QED  BY <1>1, <1>5, <2>1, ReadInputStep
<1>6. ASSUME NEW a \in Assessments, StoreCompilation(a) PROVE ReportingInv' /\ entered
  <2>1. UNCHANGED report
    BY <1>6 DEF StoreCompilation
  <2>. QED  BY <1>1, <1>6, <2>1, StoreStep
<1>7. ASSUME NEW a \in Assessments,
             LookUpRun(a) \/ LookUpBatches(a) \/ LookUpCorrections(a) \/ LookUpCct(a)
      PROVE  ReportingInv' /\ entered
  BY <1>1, <1>7, LookUpRunStep, QueriesStep
<1>8. ASSUME NEW a \in Assessments, CheckEligibility(a) PROVE ReportingInv' /\ entered
  BY <1>8, CheckStep
<1>9. ASSUME NEW scope \in SUBSET Assessments, BeginReport(scope) PROVE ReportingInv' /\ entered
  BY <1>9, BeginStep
<1>10. CASE FinishReport
  BY <1>10, FinishStep
<1>. HIDE DEF entered
<1>11. ASSUME NEW a \in Assessments,
              \/ \E d \in {"none", "approved"} : DecideCorrection(a, d)
              \/ \E l \in Learners : ApplyCorrection(a, l)
       PROVE  ReportingInv' /\ entered
  BY <1>3, <1>4, <1>11
<1>12. ReportingInv' /\ entered
  <2>1. CASE \E a \in Assessments : \/ \E d \in {"none", "approved"} : DecideCorrection(a, d)
                                   \/ \E l \in Learners : ApplyCorrection(a, l)
    BY <1>11, <2>1
  <2>2. CASE \E a \in Assessments : \/ ReadCompilationInput(a) \/ StoreCompilation(a)
                                   \/ CheckEligibility(a) \/ LookUpRun(a)
                                   \/ LookUpBatches(a) \/ LookUpCorrections(a) \/ LookUpCct(a)
    BY <1>5, <1>6, <1>7, <1>8, <2>2
  <2>3. CASE \E scope \in SUBSET Assessments : BeginReport(scope)
    BY <1>9, <2>3
  <2>4. CASE OthersStep \/ FinishReport
    BY <1>2, <1>10, <2>4 DEF entered
  <2>. QED  BY <2>1, <2>2, <2>3, <2>4, StepsOfReporting
<1>. QED  BY <1>12 DEF entered

-----------------------------------------------------------------------------
\* What has spoken against an assessment all along does so now, and has been
\* found by the queries that ask for it.
AgainstFound ==
    \A a \in Assessments : check[a].step # "none" =>
        /\ against[a] \subseteq Against(a)
        /\ check[a].step \in {"cct", "schema"} /\ "correction" \in against[a] =>
              "correction_pending" \in check[a].codes
        /\ check[a].step = "schema" =>
              /\ \A f \in against[a] \cap CctFacts : CctCode(f) \in check[a].codes
              /\ "draft" \in against[a] /\ ~listed[a].saved =>
                    "assessment_not_cbe_cct_bound" \in check[a].codes

\* A check begins with the run, is asked a query, or stays where it is while
\* its object can only become older.
LEMMA CheckMoves ==
    ASSUME ReportingInv, ReportingStep, NEW a \in Assessments
    PROVE  \/ check'[a].step = "none"
           \/ check[a].step = "none" /\ check'[a].step = "batches"
           \/ /\ check'[a].step = check[a].step /\ check'[a].codes = check[a].codes
              /\ listed[a].saved => listed'[a].saved
           \/ LookUpBatches(a) \/ LookUpCorrections(a) \/ LookUpCct(a)
<1>. DEFINE still == /\ check'[a].step = check[a].step /\ check'[a].codes = check[a].codes
                     /\ listed[a].saved => listed'[a].saved
<1>0. /\ check \in [Assessments -> Checks] /\ listed \in [Assessments -> Objects]
      /\ check[a] \in Checks /\ listed[a] \in Objects
  BY DEF ReportingInv, ReportingTypes
<1>1. ASSUME NEW S, NEW kind, Changed(S, kind) PROVE check'[a].step = check[a].step
                                                     /\ check'[a].codes = check[a].codes
  <2>1. check'[a] = IF a \in S /\ kind \in Watched /\ check[a].step # "none"
                    THEN [check[a] EXCEPT !.later = @ \cup {kind}] ELSE check[a]
    BY <1>1 DEF Changed
  <2>. QED  BY <1>0, <2>1 DEF Checks
<1>2. CASE OthersStep
  <2>1. ASSUME NEW b \in Assessments, NEW st, NEW sc, SaveAssessment(b, st, sc) PROVE still
    <3>1. Changed({b}, "assessment")
          /\ listed' = [listed EXCEPT ![b].saved = listed[b].status # "none"]
      BY <2>1 DEF SaveAssessment
    <3>2. listed[a].saved => listed'[a].saved
      BY <1>0, <3>1 DEF Objects, ReportingInv, ListedHolds
    <3>. QED  BY <1>1, <3>1, <3>2
  <2>2. ASSUME UNCHANGED listed, NEW S, NEW kind, Changed(S, kind) PROVE still
    BY <1>1, <2>2
  <2>. HIDE DEF still
  <2>3. ASSUME NEW l, ChangeEnrollment(l) PROVE still
    BY <2>2, <2>3 DEF ChangeEnrollment
  <2>4. ASSUME NEW b, AddComponent(b) \/ RequestCorrection(b) PROVE still
    BY <2>2, <2>4 DEF AddComponent, RequestCorrection
  <2>5. ASSUME NEW b, NEW f, ChangeCctFact(b, f) \/ SubmitBatch(b, f) PROVE still
    BY <2>2, <2>5 DEF ChangeCctFact, SubmitBatch
  <2>6. ASSUME NEW sc, DeprecateSchema(sc) PROVE still
    BY <2>2, <2>6 DEF DeprecateSchema
  <2>7. still
    BY <1>2, <2>1, <2>3, <2>4, <2>5, <2>6 DEF OthersStep
  <2>. QED  BY <2>7 DEF still
<1>3. ASSUME NEW b \in Assessments,
             \/ \E d \in {"none", "approved"} : DecideCorrection(b, d)
             \/ \E l \in Learners : ApplyCorrection(b, l)
      PROVE  still
  <2>1. UNCHANGED listed
    BY <1>3 DEF DecideCorrection, ApplyCorrection
  <2>2. PICK gone : check' = [check EXCEPT ![b].later = gone]
    BY <1>3 DEF DecideCorrection, ApplyCorrection
  <2>3. check'[a] = IF a = b THEN [check[a] EXCEPT !.later = gone] ELSE check[a]
    BY <1>0, <2>2
  <2>. QED  BY <1>0, <2>1, <2>3 DEF Checks
<1>4. ASSUME NEW b \in Assessments, ReadCompilationInput(b) \/ StoreCompilation(b) PROVE still
  <2>1. UNCHANGED check /\ (UNCHANGED listed \/ listed' = [listed EXCEPT ![b].late = FALSE])
    BY <1>4 DEF ReadCompilationInput, StoreCompilation, reading
  <2>. QED  BY <1>0, <2>1 DEF Objects
<1>5. ASSUME NEW b \in Assessments, LookUpRun(b)
      PROVE  still \/ (check[a].step = "none" /\ check'[a].step = "batches")
  BY <1>0, <1>5 DEF LookUpRun
<1>6. ASSUME NEW b \in Assessments, LookUpBatches(b) \/ LookUpCorrections(b) \/ LookUpCct(b)
      PROVE  b = a \/ still
  BY <1>0, <1>6 DEF LookUpBatches, LookUpCorrections, LookUpCct, Query
<1>7. ASSUME NEW b \in Assessments, CheckEligibility(b) PROVE still \/ check'[a].step = "none"
  BY <1>0, <1>7 DEF CheckEligibility, Unchecked
<1>8. ASSUME NEW scope, BeginReport(scope) PROVE check'[a].step = "none"
  BY <1>8 DEF BeginReport, ReportingInv, ListedHolds
<1>9. CASE FinishReport
  BY <1>9 DEF FinishReport
<1>. HIDE DEF still
<1>10. ASSUME NEW b \in Assessments,
              \/ \E d \in {"none", "approved"} : DecideCorrection(b, d)
              \/ \E l \in Learners : ApplyCorrection(b, l)
              \/ ReadCompilationInput(b) \/ StoreCompilation(b)
              \/ LookUpRun(b) \/ CheckEligibility(b)
              \/ LookUpBatches(b) \/ LookUpCorrections(b) \/ LookUpCct(b)
       PROVE  \/ check'[a].step = "none" \/ still
              \/ check[a].step = "none" /\ check'[a].step = "batches"
              \/ LookUpBatches(a) \/ LookUpCorrections(a) \/ LookUpCct(a)
  BY <1>3, <1>4, <1>5, <1>6, <1>7, <1>10
<1>11. \/ check'[a].step = "none" \/ still
       \/ check[a].step = "none" /\ check'[a].step = "batches"
       \/ LookUpBatches(a) \/ LookUpCorrections(a) \/ LookUpCct(a)
  BY <1>2, <1>8, <1>9, <1>10, StepsOfReporting DEF still
<1>. QED  BY <1>11 DEF still

\* What a query of the rows finds stays among the codes.
LEMMA AgainstStep ==
    ASSUME ReportingInv, AgainstFound, ReportingStep, RecordAgainst
    PROVE  AgainstFound'
<1>. SUFFICES ASSUME NEW a \in Assessments, check'[a].step # "none"
              PROVE  /\ against'[a] \subseteq Against(a)'
                     /\ check'[a].step \in {"cct", "schema"} /\ "correction" \in against'[a] =>
                           "correction_pending" \in check'[a].codes
                     /\ check'[a].step = "schema" =>
                           /\ \A f \in against'[a] \cap CctFacts : CctCode(f) \in check'[a].codes
                           /\ "draft" \in against'[a] /\ ~listed'[a].saved =>
                                 "assessment_not_cbe_cct_bound" \in check'[a].codes
  BY DEF AgainstFound
<1>1. against'[a] = IF check[a].step = "none" THEN Against(a)' ELSE against[a] \cap Against(a)'
  BY DEF RecordAgainst
<1>2. CASE check[a].step = "none"
  <2>1. check'[a].step = "batches"
    BY <1>2, CheckMoves DEF LookUpBatches, LookUpCorrections, LookUpCct, Query
  <2>. QED  BY <1>1, <1>2, <2>1
<1>3. CASE check[a].step # "none"
  <2>1. /\ against'[a] \subseteq against[a] /\ against'[a] \subseteq Against(a)'
        /\ against[a] \subseteq Against(a)
    BY <1>1, <1>3 DEF AgainstFound
  <2>2. CASE /\ check'[a].step = check[a].step /\ check'[a].codes = check[a].codes
             /\ listed[a].saved => listed'[a].saved
    BY <1>3, <2>1, <2>2 DEF AgainstFound
  <2>3. ASSUME NEW step, NEW next, NEW codes, Query(a, step, next, codes)
        PROVE  /\ check[a].step = step /\ check'[a].step = next
               /\ check'[a].codes = check[a].codes \cup codes /\ UNCHANGED listed
    <3>1. check[a] \in Checks /\ check \in [Assessments -> Checks]
      BY DEF ReportingInv, ReportingTypes
    <3>2. check'[a] = [check[a] EXCEPT !.step = next, !.codes = @ \cup codes]
      BY <2>3, <3>1 DEF Query
    <3>. QED  BY <2>3, <3>1, <3>2 DEF Query, Checks
  <2>4. CASE LookUpBatches(a)
    <3>1. check'[a].step = "corrections"
      BY <2>3, <2>4 DEF LookUpBatches
    <3>. QED  BY <2>1, <3>1
  <2>5. CASE LookUpCorrections(a)
    <3>1. /\ check'[a].step = "cct"
          /\ CorrectionBlockers(a) \subseteq check'[a].codes
      BY <2>3, <2>5 DEF LookUpCorrections
    <3>2. "correction" \in against'[a] => asmt[a].correction # "none"
      <4>1. "correction" \in Against(a) => asmt[a].correction # "none"
        BY DEF Against, ReportingInv, ReportingTypes, AssessmentRow, CctFacts
      <4>. QED  BY <2>1, <4>1
    <3>3. asmt[a].correction # "none" => "correction_pending" \in CorrectionBlockers(a)
      <4>1. asmt[a].correction \in {"none", "open", "approved"}
        BY DEF ReportingInv, ReportingTypes, AssessmentRow
      <4>. QED  BY <4>1 DEF CorrectionBlockers
    <3>. QED  BY <2>1, <3>1, <3>2, <3>3
  <2>6. CASE LookUpCct(a)
    <3>1. /\ check[a].step = "cct" /\ check'[a].step = "schema" /\ UNCHANGED listed
          /\ check'[a].codes = check[a].codes \cup CctBlockers(a, listed[a])
      BY <2>3, <2>6 DEF LookUpCct
    <3>2. "correction" \in against'[a] => "correction_pending" \in check'[a].codes
      BY <2>1, <3>1 DEF AgainstFound
    <3>3. asmt[a] \in AssessmentRow
      BY DEF ReportingInv, ReportingTypes
    <3>4. against'[a] \cap CctFacts \subseteq asmt[a].cct
      <4>1. Against(a) \cap CctFacts \subseteq asmt[a].cct
        BY DEF Against, CctFacts
      <4>. QED  BY <2>1, <4>1
    <3>5. "draft" \in against'[a] => asmt[a].status = "draft"
      <4>1. "draft" \in Against(a) => asmt[a].status = "draft"
        BY <3>3 DEF Against, CctFacts, AssessmentRow
      <4>. QED  BY <2>1, <4>1
    <3>6. ~listed[a].saved => listed[a].status = asmt[a].status
      BY <3>1 DEF ReportingInv, ListedHolds
    <3>7. \A f \in asmt[a].cct : CctCode(f) \in CctBlockers(a, listed[a])
      BY DEF CctBlockers
    <3>8. listed[a].status = "draft" => "assessment_not_cbe_cct_bound" \in CctBlockers(a, listed[a])
      BY DEF CctBlockers, OperationallyBound
    <3>. QED  BY <2>1, <3>1, <3>2, <3>4, <3>5, <3>6, <3>7, <3>8
  <2>. QED  BY <1>3, <2>2, <2>4, <2>5, <2>6, CheckMoves
<1>. QED  BY <1>2, <1>3

\* What enters a report: its run is as good as new, and nothing spoke against
\* it all along.
LEMMA EntersClear ==
    ASSUME ReportingInv, AgainstFound, NEW a \in Assessments, Entering(a)
    PROVE  /\ check[a].drift \subseteq
                 {"roster", "component"} \cup check[a].run.during
                 \cup (IF listed[a].saved THEN {"assessment"} ELSE {})
           /\ against[a] \subseteq IF listed[a].saved THEN {"draft", "schema"} ELSE {}
<1>1. /\ check[a].step = "schema" /\ check[a].run.status = "complete"
      /\ check[a].codes = {} /\ SchemaBlockers(a, listed[a]) = {}
  BY ReadyIsClear DEF Entering, ReportEligible, CodesAtEnd
<1>2. DriftMet(check[a], listed[a])
  BY <1>1 DEF ReportingInv, CheckHolds
<1>3. check[a].drift \subseteq {"roster", "component"} \cup check[a].run.during
                               \cup (IF listed[a].saved THEN {"assessment"} ELSE {})
  BY <1>1, <1>2 DEF DriftMet
<1>4. /\ "correction" \notin against[a] /\ against[a] \cap CctFacts = {}
      /\ "draft" \in against[a] => listed[a].saved
      /\ against[a] \subseteq Against(a)
  BY <1>1 DEF AgainstFound
<1>5. asmt[a] \in AssessmentRow
  BY DEF ReportingInv, ReportingTypes
<1>6. /\ Against(a) \subseteq {"correction", "draft", "schema"} \cup CctFacts
      /\ "schema" \in Against(a) => a \in SchemaRequired
                                    /\ asmt[a].schema \notin Schemas \ deprecated
  BY <1>5 DEF Against, AssessmentRow, CctFacts
<1>7. ASSUME "schema" \in against[a] PROVE listed[a].saved
  <2>1. a \in SchemaRequired /\ asmt[a].schema \notin Schemas \ deprecated
    BY <1>4, <1>6, <1>7
  <2>2. listed[a].schema # "none" /\ listed[a].schema \notin deprecated
    BY <1>1, <2>1 DEF SchemaBlockers
  <2>3. listed[a].schema \in {"none"} \cup Schemas
    BY DEF ReportingInv, ReportingTypes, Objects
  <2>4. ~listed[a].saved => listed[a].schema = asmt[a].schema
    BY <1>1 DEF ReportingInv, ListedHolds
  <2>. QED  BY <2>1, <2>2, <2>3, <2>4
<1>. QED  BY <1>3, <1>4, <1>6, <1>7

\* The state predicate the reporting run checks follows from the invariant.
LEMMA WholeFollows == ReportingInv => ReportsAreWhole
<1>. SUFFICES ASSUME ReportingInv PROVE ReportsAreWhole
  OBVIOUS
<1>1. ReportingTypeOK
  BY DEF ReportingInv, ReportingTypes, ReportingTypeOK, Records, Runs, Reports, Checks
<1>2. ReportLinesAreWhole
  <2>. SUFFICES ASSUME report.phase = "done"
                PROVE  /\ \A a \in report.eligible :
                             AreaLearners(report, a) = report.source[a].roster
                       /\ report.status = "complete" => report.eligible = report.scope
    BY DEF ReportLinesAreWhole
  <2>1. report.lines = SubjectLines(report) /\ report.status = ReportStatus(report)
    BY DEF ReportingInv, ReportHolds
  <2>2. report.status = "complete" => report.eligible = report.scope
    BY <2>1 DEF ReportStatus
  <2>3. ASSUME NEW a \in report.eligible
        PROVE  AreaLearners(report, a) = report.source[a].roster
    <3>1. report \in Reports
      BY DEF ReportingInv, ReportingTypes
    <3>2. a \in Assessments /\ report.source \in [Assessments -> Runs]
      BY <3>1 DEF Reports
    <3>3. report.source[a] \in Runs
      BY <3>2
    <3>4. report.source[a].learners \subseteq Learners
      BY <3>3 DEF Runs
    <3>5. \A l : l \in AreaLearners(report, a) <=> l \in report.source[a].learners
      <4>1. ASSUME NEW l \in report.source[a].learners
            PROVE  l \in AreaLearners(report, a)
        <5>1. <<a, l>> \in SubjectLines(report)
          BY <3>4 DEF SubjectLines
        <5>. QED  BY <2>1, <5>1 DEF AreaLearners
      <4>2. ASSUME NEW l \in AreaLearners(report, a)
            PROVE  l \in report.source[a].learners
        BY <2>1 DEF AreaLearners, SubjectLines
      <4>. QED  BY <4>1, <4>2
    <3>6. report.source[a].learners = report.source[a].roster
      BY DEF ReportingInv, ReportHolds
    <3>. QED  BY <3>5, <3>6
  <2>. QED  BY <2>2, <2>3
<1>3. ReadyIffEligible
  BY ReadyIsClear DEF ReadyIffEligible, ReportEligible, BlockingCodes
<1>. QED  BY <1>1, <1>2, <1>3 DEF ReportsAreWhole

\* The invariant of reports holds in every reachable state.
LEMMA ReportingInvariant == ReportingSpec => [](ReportingInv /\ AgainstFound)
<1>1. ReportingInit => ReportingInv /\ AgainstFound
  <2>1. ReportingInit => AgainstFound
    BY DEF ReportingInit, AgainstFound, Unchecked
  <2>. QED  BY <2>1, InitReporting
<1>2. ReportingInv /\ AgainstFound /\ [ReportingNext]_reportingVars
         => (ReportingInv /\ AgainstFound)'
  <2>. SUFFICES ASSUME ReportingInv, AgainstFound, [ReportingNext]_reportingVars
                PROVE  ReportingInv' /\ AgainstFound'
    OBVIOUS
  <2>1. CASE ReportingNext
    BY <2>1, NextReporting, AgainstStep DEF ReportingNext
  <2>2. CASE UNCHANGED reportingVars
    <3>1. UNCHANGED <<enrolled, asmt, deprecated, marks, compiling, run, later, drift, report,
                      listed, check, against>>
      BY <2>2 DEF reportingVars, rows, reading
    <3>2. ReportingTypes'
      BY <3>1 DEF ReportingInv, ReportingTypes
    <3>3. RunsCover(run)' /\ DriftIsSeen' /\ ReportHolds'
      BY <3>1 DEF ReportingInv, RunsCover, DriftIsSeen, ReportHolds, SubjectLines, ReportStatus
    <3>4. ListedHolds' /\ CheckHolds' /\ AgainstFound'
      BY <3>1 DEF ReportingInv, ListedHolds, CheckHolds, DriftMet, AgainstFound, Against
    <3>. QED  BY <3>2, <3>3, <3>4 DEF ReportingInv
  <2>. QED  BY <2>1, <2>2
<1>. QED  BY <1>1, <1>2, PTL DEF ReportingSpec

\* A finished report has a line for every learner on the roster of every run it
\* kept and for nobody else, and readiness promises a report exactly when it can
\* be built, for any number of assessments, learners and reports.
THEOREM ReportsAreWholeAlways == ReportingSpec => []ReportsAreWhole
BY ReportingInvariant, WholeFollows, PTL

\* What enters a report was compiled from the rows as they were when its check
\* began, but for what no timestamp watches and what was saved after the report
\* had listed it; nothing spoke against it throughout its check, with the same
\* exception for what the loaded object says.
THEOREM EntersInOrderAlways == ReportingSpec => EntersInOrder
<1>1. ReportingInv /\ AgainstFound /\ [ReportingNext]_reportingVars
         => /\ [\A a \in Assessments :
                   a \in report'.eligible \ report.eligible =>
                      check[a].drift \subseteq
                          {"roster", "component"} \cup check[a].run.during
                          \cup (IF listed[a].saved THEN {"assessment"} ELSE {})]_reportingVars
            /\ [\A a \in Assessments :
                   a \in report'.eligible \ report.eligible =>
                      against[a] \subseteq IF listed[a].saved THEN {"draft", "schema"} ELSE {}
               ]_reportingVars
  <2>. SUFFICES ASSUME ReportingInv, AgainstFound, [ReportingNext]_reportingVars,
                       NEW a \in Assessments, a \in report'.eligible \ report.eligible
                PROVE  /\ check[a].drift \subseteq
                             {"roster", "component"} \cup check[a].run.during
                             \cup (IF listed[a].saved THEN {"assessment"} ELSE {})
                       /\ against[a] \subseteq
                             IF listed[a].saved THEN {"draft", "schema"} ELSE {}
    OBVIOUS
  <2>1. ReportingStep
    BY DEF ReportingNext, reportingVars, reading
  <2>2. Entering(a)
    BY <2>1, NextReporting
  <2>. QED  BY <2>2, EntersClear
<1>2. ReportingSpec => [][ReportingNext]_reportingVars
  BY DEF ReportingSpec
<1>. QED
  BY <1>1, <1>2, ReportingInvariant, PTL
     DEF EntersInOrder, ReportsDriftOnlyUnwatched, EligibleMeansClear

-----------------------------------------------------------------------------
(* Projections.                                                             *)

Phases == {"idle", "role", "gate", "scope", "check", "read", "lines", "answered"}
Items == Tests \cup (Tests \X Students)
Readings == [of : SUBSET Tests, step : 0..8, blocked : BOOLEAN, loaded : SUBSET (Tests \X Facts)]
Requests ==
    [kind : Kinds, target : Tests \cup Cohorts \cup Areas \cup {"all"}, phase : Phases,
     role : RoleCodes \cup {NoRole, "guardian"}, lines : SUBSET (Tests \X Students),
     todo : SUBSET Items, tests : SUBSET Tests, ready : SUBSET Tests,
     visible : SUBSET (Tests \X Students), students : SUBSET Students,
     areas : SUBSET Areas, scope : SUBSET Items, item : Readings]
Moments == [roles : SUBSET RoleCodes, assigned : SUBSET Placements,
            active : SUBSET (Cohorts \cup Areas), amiss : SUBSET (Tests \X Facts),
            reports : SUBSET SUBSET (Tests \X Students)]

AssessmentKinds == ReadinessKinds \cup CompilationKinds
LineKinds == {"hod_analytics", "subject_analytics"}
\* Projections that show every assessment, or none.
AllOrNothing == {"head_readiness", "principal_readiness", "deputy_compilation",
                 "principal_compilation"}
\* Projections that ask about the assessments of the actor one by one.
OneByOne == {"teacher_readiness", "hod_readiness", "hod_compilation"}

\* The actor kept every role that counts.
KeptRoles == /\ span.roles \cap AskedRoles[req.kind] = core.roles \cap AskedRoles[req.kind]
             /\ core.roles \cap AskedRoles[req.kind] # {}
KeptPlace(a) == /\ <<CohortOf[a], AreaOf[a], "now">> \in core.assigned
                /\ {CohortOf[a], AreaOf[a]} \subseteq core.active
KeptTests == {a \in Tests : KeptPlace(a)}
\* Nothing that was the actor's for a moment was not for all of the request.
Steady == \A a \in Tests : HeldPlace(a) => KeptPlace(a)
HeldClass(c) == \E area \in Areas, t \in {"now", "past"} : <<c, area, t>> \in span.assigned
Fits(p) == req.kind = "hod_analytics" \/ req.target = AreaOf[p[1]]

\* The tables, the request and what the histories say of the tables.
ProjectionTypes ==
    /\ Moment \in Moments /\ span \in Moments /\ core \in Moments
    /\ req \in Requests
    /\ req.kind = "compute_readiness" => req.target \in Tests
    /\ core.roles \subseteq roles /\ roles \subseteq span.roles
    /\ core.assigned \subseteq assigned /\ assigned \subseteq span.assigned
    /\ core.active \subseteq active
    /\ core.amiss \subseteq amiss /\ amiss \subseteq span.amiss
    /\ newest \in span.reports

\* Which projection can be where, and what it has found by then.
PhaseInv ==
    /\ req.phase = "gate" => req.kind \in Gated
    /\ req.phase \in {"check", "read"} => req.kind \in AssessmentKinds
    /\ req.phase = "check" => req.kind # "compute_readiness"
    /\ req.phase = "read" =>
          req.kind \in {"compute_readiness", "teacher_readiness", "hod_readiness"}
    /\ req.phase = "lines" => req.kind \in AnalyticsKinds
    /\ req.phase \in {"idle", "role", "gate", "scope"} =>
          req.tests = {} /\ req.visible = {} /\ req.lines = {}
    /\ req.phase # "answered" => req.students = {} /\ req.areas = {}
    /\ req.todo \subseteq req.scope /\ req.tests \subseteq req.scope
    /\ req.visible \subseteq req.scope
    /\ req.kind \in AssessmentKinds => req.scope \subseteq Tests
    /\ req.kind \notin AssessmentKinds => req.tests = {} /\ req.scope \subseteq req.lines

\* The role found is one that was asked for and held, and is found if it was
\* kept; a projection that passed its gate was asked for by somebody entitled.
Looked == \/ req.phase \in {"gate", "check", "read", "lines"}
          \/ req.phase = "scope" /\ req.kind \notin ScopeFirst
RoleInv ==
    /\ req.role # NoRole => req.role \in AskedRoles[req.kind] \cap span.roles
    /\ KeptRoles /\ Looked => req.role # NoRole
    /\ req.phase \in {"scope", "check", "read", "lines"} /\ req.kind \in Gated => HeldRole
    /\ req.phase \in {"scope", "read"} /\ req.kind = "compute_readiness" =>
          span.roles \cap Executives # {} \/ HeldPlace(req.target)
    /\ req.phase \in {"scope", "lines"} /\ req.kind = "class_analytics" => HeldClass(req.target)

\* What is shown, or will be, was authorised and read.
ShownInv ==
    /\ req.tests # {} \/ req.visible # {} \/ req.students # {} => HeldRole
    /\ req.areas # {} /\ req.kind # "subject_analytics" => HeldRole
    /\ \/ span.roles \cap Executives # {} /\ req.kind \notin ByAssignment
       \/ \A a \in req.tests : HeldPlace(a)
    /\ req.kind \in ByAssignment \cap AssessmentKinds => \A a \in req.scope : HeldPlace(a)
    /\ req.kind \in LineKinds => \A p \in req.scope : HeldPlace(p[1])
    /\ req.students \subseteq StudentsOf(req.lines) /\ req.areas \subseteq AreasOf(req.lines)
    /\ req.phase = "lines" \/ req.students # {} \/ req.areas # {} =>
          req.lines \in span.reports

\* What the actor kept is shown or still to be asked about.
ServedInv ==
    KeptRoles =>
        /\ req.kind \in OneByOne =>
              /\ req.phase = "check" \/ (req.phase = "role" /\ req.kind \in ScopeFirst) =>
                    KeptTests \subseteq req.tests \cup req.todo
              /\ req.phase = "read" => KeptTests \subseteq req.tests
        /\ req.kind = "teacher_compilation" =>
              /\ req.phase \in {"role", "check"} => KeptTests \subseteq req.scope
              /\ req.phase = "role" => req.todo = req.scope
              /\ req.phase = "check" /\ Steady =>
                    req.todo = req.scope \/ (req.todo = {} /\ req.tests = req.scope)
        /\ req.kind \in AllOrNothing /\ req.phase = "check" =>
              req.scope = Tests /\ Tests \subseteq req.tests \cup req.todo
        /\ req.kind \in LineKinds /\ req.phase = "lines" =>
              \A p \in req.lines : KeptPlace(p[1]) /\ Fits(p) => p \in req.visible \cup req.todo

ProjectionInv ==
    /\ ProjectionTypes /\ PhaseInv /\ RoleInv /\ ShownInv /\ ServedInv
    /\ ShownWasAuthorised /\ KeptAuthorityIsServed

\* Who the projections ask for.
LEMMA WhoIsAsked ==
    /\ \A k \in Kinds : "none" \notin AskedRoles[k]
    /\ \A k \in Kinds : AskedRoles[k] \subseteq RoleCodes \cup {"guardian"}
    /\ \A k \in ByAssignment : AskedRoles[k] \subseteq TeacherRoles
    /\ \A k \in AllOrNothing : AskedRoles[k] \subseteq Executives
BY DEF Kinds, AskedRoles, RoleCodes, Executives, Principals, TeacherRoles, ByAssignment,
       AllOrNothing

\* The readiness of an assessment begins, goes on and is complete.
LEMMA ReadingTypes ==
    ASSUME NEW item \in Readings
    PROVE  /\ \A a \in Tests : [item EXCEPT !.of = {a}, !.step = 1, !.blocked = FALSE] \in Readings
           /\ \A loaded \in SUBSET (Tests \X Facts) : [item EXCEPT !.loaded = loaded] \in Readings
           /\ \A blocked \in BOOLEAN : item.step < 8 =>
                 [item EXCEPT !.step = item.step + 1, !.blocked = blocked] \in Readings
           /\ [item EXCEPT !.of = {}, !.step = 0, !.blocked = FALSE] \in Readings
<1>1. /\ item = [of |-> item.of, step |-> item.step, blocked |-> item.blocked,
                 loaded |-> item.loaded]
      /\ item.of \in SUBSET Tests /\ item.step \in 0..8 /\ item.blocked \in BOOLEAN
      /\ item.loaded \in SUBSET (Tests \X Facts)
  BY DEF Readings
<1>2. ASSUME NEW of \in SUBSET Tests, NEW step \in 0..8, NEW blocked \in BOOLEAN
      PROVE  [item EXCEPT !.of = of, !.step = step, !.blocked = blocked] \in Readings
  BY <1>1 DEF Readings
<1>3. ASSUME NEW loaded \in SUBSET (Tests \X Facts)
      PROVE  [item EXCEPT !.loaded = loaded] \in Readings
  BY <1>1 DEF Readings
<1>4. ASSUME NEW blocked \in BOOLEAN, item.step < 8
      PROVE  [item EXCEPT !.step = item.step + 1, !.blocked = blocked] \in Readings
  <2>1. item.step + 1 \in 0..8
    BY <1>1, <1>4
  <2>. DEFINE next == item.step + 1
  <2>2. next \in 0..8
    BY <2>1
  <2>. HIDE DEF next
  <2>3. [item EXCEPT !.step = next, !.blocked = blocked] \in Readings
    BY <1>1, <2>2 DEF Readings
  <2>. QED  BY <2>3 DEF next
<1>5. ASSUME NEW a \in Tests
      PROVE  [item EXCEPT !.of = {a}, !.step = 1, !.blocked = FALSE] \in Readings
  <2>1. {a} \in SUBSET Tests /\ 1 \in 0..8 /\ FALSE \in BOOLEAN
    OBVIOUS
  <2>. QED  BY <1>2, <2>1, Zenon
<1>6. [item EXCEPT !.of = {}, !.step = 0, !.blocked = FALSE] \in Readings
  <2>1. {} \in SUBSET Tests /\ 0 \in 0..8 /\ FALSE \in BOOLEAN
    OBVIOUS
  <2>. QED  BY <1>2, <2>1, Zenon
<1>. QED  BY <1>3, <1>4, <1>5, <1>6

\* A query finds something, or it does not.
LEMMA AnswerTypes ==
    ASSUME NEW a, NEW fact
    PROVE  Answers(a, fact) \subseteq BOOLEAN
<1>1. CASE fact = "run"
  BY <1>1 DEF Answers
<1>2. CASE fact = "schema"
  BY <1>2 DEF Answers
<1>3. CASE fact \notin {"run", "schema"}
  <2>1. Answers(a, fact) = {(<<a, fact>> \in amiss)}
    BY <1>3 DEF Answers
  <2>2. (<<a, fact>> \in amiss) \in BOOLEAN
    OBVIOUS
  <2>. QED  BY <2>1, <2>2, Zenon
<1>. QED  BY <1>1, <1>2, <1>3

\* A request that has just been asked.
LEMMA FreshRequest ==
    ASSUME NEW kind \in Kinds, NEW target \in Tests \cup Cohorts \cup Areas \cup {"all"}
    PROVE  Fresh(kind, target) \in Requests
<1>1. NoItem \in Readings
  BY DEF NoItem, Readings
<1>2. (IF kind \in ScopeFirst THEN "scope" ELSE "role") \in Phases
  BY DEF Phases
<1>. QED  BY <1>1, <1>2 DEF Fresh, Requests

\* The invariant holds before anybody asks for anything.
LEMMA InitProjections == ProjectionInit => ProjectionInv
<1>. SUFFICES ASSUME ProjectionInit PROVE ProjectionInv
  OBVIOUS
<1>1. req = Quiet /\ span = Moment /\ core = Moment
  BY DEF ProjectionInit
<1>2. /\ req.kind = "future_parent" /\ req.phase = "idle" /\ req.role = NoRole
      /\ req.target = "all" /\ req.lines = {} /\ req.todo = {} /\ req.tests = {}
      /\ req.ready = {} /\ req.visible = {} /\ req.students = {} /\ req.areas = {}
      /\ req.scope = {} /\ req \in Requests
  <2>1. "future_parent" \in Kinds
    BY DEF Kinds, AskedRoles
  <2>2. Fresh("future_parent", "all") \in Requests
    BY <2>1, FreshRequest
  <2>3. req = [Fresh("future_parent", "all") EXCEPT !.phase = "idle"]
    BY <1>1 DEF Quiet
  <2>4. req \in Requests
    BY <2>2, <2>3 DEF Requests, Phases
  <2>. QED  BY <2>3, <2>4 DEF Fresh
<1>3. ProjectionTypes
  <2>1. /\ roles \in SUBSET RoleCodes /\ assigned \in SUBSET Placements
        /\ active \in SUBSET (Cohorts \cup Areas) /\ amiss \in SUBSET (Tests \X Facts)
        /\ {newest} \in SUBSET SUBSET (Tests \X Students)
    BY DEF ProjectionInit
  <2>2. Moment \in Moments
    BY <2>1 DEF Moment, Moments
  <2>3. /\ Moment.roles = roles /\ Moment.assigned = assigned /\ Moment.active = active
        /\ Moment.amiss = amiss /\ Moment.reports = {newest}
    BY DEF Moment
  <2>. QED  BY <1>1, <1>2, <2>2, <2>3 DEF ProjectionTypes
<1>4. PhaseInv
  BY <1>2 DEF PhaseInv, AssessmentKinds, ReadinessKinds, CompilationKinds
<1>5. RoleInv
  BY <1>2 DEF RoleInv, Looked
<1>6. ShownInv /\ ServedInv
  BY <1>2 DEF ShownInv, ServedInv, OneByOne, AllOrNothing, LineKinds
<1>7. ShownWasAuthorised /\ KeptAuthorityIsServed
  BY <1>2 DEF ShownWasAuthorised, KeptAuthorityIsServed, Answered
<1>. QED  BY <1>3, <1>4, <1>5, <1>6, <1>7 DEF ProjectionInv

\* Others change the tables: what held at every moment may shrink, what held at
\* some moment may grow, and every promise is about the one or the other.
LEMMA ObserveStep ==
    ASSUME ProjectionInv, Observe, Moment' \in Moments, req.phase # "answered"
    PROVE  ProjectionInv'
<1>1. /\ UNCHANGED req
      /\ span.roles \cup roles' = span'.roles /\ span.assigned \cup assigned' = span'.assigned
      /\ span'.amiss = span.amiss \cup amiss' /\ core'.amiss = core.amiss \cap amiss'
      /\ span.reports \cup {newest'} = span'.reports
      /\ core'.roles = core.roles \cap roles' /\ core'.assigned = core.assigned \cap assigned'
      /\ core'.active = core.active \cap active'
  BY DEF Observe
<1>2. ProjectionTypes'
  <2>1. /\ roles' \in SUBSET RoleCodes /\ assigned' \in SUBSET Placements
        /\ active' \in SUBSET (Cohorts \cup Areas) /\ amiss' \in SUBSET (Tests \X Facts)
        /\ {newest'} \in SUBSET SUBSET (Tests \X Students)
    BY DEF Moment, Moments
  <2>2. span \in Moments /\ core \in Moments
    BY DEF ProjectionInv, ProjectionTypes
  <2>3. span' \in Moments /\ core' \in Moments
    BY <2>1, <2>2 DEF Observe, Moments
  <2>. QED  BY <1>1, <2>3 DEF ProjectionInv, ProjectionTypes
<1>3. PhaseInv'
  BY <1>1 DEF ProjectionInv, PhaseInv
<1>4. /\ core'.roles \subseteq core.roles /\ span.roles \subseteq span'.roles
      /\ core.roles \subseteq span.roles /\ core'.assigned \subseteq core.assigned
      /\ core'.active \subseteq core.active /\ span.assigned \subseteq span'.assigned
      /\ span.reports \subseteq span'.reports
  BY <1>1 DEF ProjectionInv, ProjectionTypes
<1>5. KeptRoles' => KeptRoles
  BY <1>1, <1>4 DEF KeptRoles
<1>6. /\ HeldRole => HeldRole'
      /\ \A a : HeldPlace(a) => <<CohortOf[a], AreaOf[a], "now">> \in span'.assigned
      /\ \A a : <<CohortOf[a], AreaOf[a], "now">> \in core'.assigned
                   /\ {CohortOf[a], AreaOf[a]} \subseteq core'.active => KeptPlace(a)
      /\ \A c : HeldClass(c) => HeldClass(c)'
  BY <1>1, <1>4 DEF HeldRole, HeldPlace, KeptPlace, HeldClass
<1>7. KeptTests' \subseteq KeptTests /\ (Steady' => Steady)
  BY <1>6 DEF KeptTests, Steady, KeptPlace, HeldPlace
<1>8. RoleInv'
  BY <1>1, <1>4, <1>5, <1>6 DEF ProjectionInv, RoleInv, Looked, HeldPlace
<1>9. ShownInv'
  BY <1>1, <1>4, <1>6 DEF ProjectionInv, ShownInv, HeldPlace
<1>10. ServedInv'
  BY <1>1, <1>5, <1>6, <1>7 DEF ProjectionInv, ServedInv, KeptPlace, Fits
<1>11. ShownWasAuthorised' /\ KeptAuthorityIsServed'
  BY <1>1 DEF ShownWasAuthorised, KeptAuthorityIsServed, Answered
<1>. QED  BY <1>2, <1>3, <1>8, <1>9, <1>10, <1>11 DEF ProjectionInv

\* A role that counts now is one the actor holds and the projection asks for.
LEMMA ValidContext ==
    ASSUME ProjectionInv, ContextIsValid
    PROVE  HeldRole /\ req.role \in AskedRoles[req.kind] \cap span.roles
BY DEF ProjectionInv, ProjectionTypes, RoleInv, ContextIsValid, HeldRole

\* A role that was kept counts whenever it is asked about.
LEMMA KeptContext ==
    ASSUME ProjectionInv, KeptRoles, Looked
    PROVE  ContextIsValid /\ req.role \in AskedRoles[req.kind]
BY DEF ProjectionInv, ProjectionTypes, RoleInv, KeptRoles, ContextIsValid

\* The policy about an assessment lets through what the actor holds.
LEMMA MayViewIsHeld ==
    ASSUME ProjectionInv, NEW a, HasAssignmentForAssessment(a)
    PROVE  HeldRole /\ HeldPlace(a)
BY ValidContext
   DEF ProjectionInv, ProjectionTypes, HasAssignmentForAssessment, AssignedPlace, HeldPlace

\* And it lets through whatever the actor kept.
LEMMA KeptMayView ==
    ASSUME ProjectionInv, KeptRoles, Looked, req.kind \in ByAssignment, NEW a, KeptPlace(a)
    PROVE  HasAssignmentForAssessment(a)
BY KeptContext, WhoIsAsked
   DEF ProjectionInv, ProjectionTypes, HasAssignmentForAssessment, AssignedPlace, KeptPlace,
       Running

\* A step of the request leaves the tables alone, and the histories but for what
\* readiness looks at.
LEMMA TablesKept ==
    ASSUME ProjectionInv, UNCHANGED tables, req' \in Requests, req'.kind = req.kind,
           req'.target = req.target,
           \/ UNCHANGED <<span, core>>
           \/ span' = [span EXCEPT !.amiss = amiss] /\ core' = [core EXCEPT !.amiss = amiss]
    PROVE  /\ ProjectionTypes'
           /\ KeptRoles' = KeptRoles /\ KeptTests' = KeptTests /\ Steady' = Steady
           /\ HeldRole' = HeldRole
           /\ \A a : KeptPlace(a)' = KeptPlace(a) /\ HeldPlace(a)' = HeldPlace(a)
           /\ \A c : HeldClass(c)' = HeldClass(c)
           /\ span'.roles = span.roles /\ span'.assigned = span.assigned
           /\ span'.reports = span.reports /\ core'.roles = core.roles
<1>1. UNCHANGED <<roles, assigned, active, amiss, newest>>
  BY DEF tables
<1>2. Moment' = Moment /\ Moment \in Moments /\ Moment.amiss = amiss
  BY <1>1 DEF Moment, ProjectionInv, ProjectionTypes
<1>3. /\ span \in Moments /\ core \in Moments /\ amiss \in SUBSET (Tests \X Facts)
      /\ core.amiss \subseteq amiss /\ amiss \subseteq span.amiss
  BY <1>2 DEF ProjectionInv, ProjectionTypes, Moments
<1>4. /\ span' \in Moments /\ core' \in Moments
      /\ span'.roles = span.roles /\ span'.assigned = span.assigned
      /\ span'.active = span.active /\ span'.reports = span.reports
      /\ core'.roles = core.roles /\ core'.assigned = core.assigned
      /\ core'.active = core.active /\ core'.reports = core.reports
      /\ core'.amiss \subseteq amiss /\ amiss \subseteq span'.amiss
  BY <1>3 DEF Moments
<1>5. ProjectionTypes'
  BY <1>1, <1>2, <1>4 DEF ProjectionInv, ProjectionTypes
<1>6. /\ KeptRoles' = KeptRoles /\ HeldRole' = HeldRole
      /\ \A a : KeptPlace(a)' = KeptPlace(a) /\ HeldPlace(a)' = HeldPlace(a)
      /\ \A c : HeldClass(c)' = HeldClass(c)
  BY <1>4 DEF KeptRoles, HeldRole, KeptPlace, HeldPlace, HeldClass
<1>7. KeptTests' = KeptTests /\ Steady' = Steady
  BY <1>4 DEF KeptTests, Steady, KeptPlace, HeldPlace
<1>. QED  BY <1>4, <1>5, <1>6, <1>7

\* What is promised of an answer is promised of nothing else.
LEMMA Unanswered ==
    ASSUME req.phase # "answered"
    PROVE  ShownWasAuthorised /\ KeptAuthorityIsServed
BY DEF ShownWasAuthorised, KeptAuthorityIsServed, Answered

\* A projection is asked for.
LEMMA AskStep ==
    ASSUME ProjectionInv, NEW kind \in Kinds, NEW target \in Target(kind), Ask(kind, target)
    PROVE  ProjectionInv'
<1>1. /\ span' = Moment /\ core' = Moment
      /\ UNCHANGED <<roles, assigned, active, amiss, newest>>
  BY DEF Ask, tables
<1>2. /\ target \in Tests \cup Cohorts \cup Areas \cup {"all"}
      /\ kind = "compute_readiness" => target \in Tests
  BY DEF Target
<1>3. /\ req'.kind = kind /\ req'.target = target /\ req'.role = NoRole
      /\ req'.lines = {} /\ req'.todo = {} /\ req'.tests = {} /\ req'.visible = {}
      /\ req'.students = {} /\ req'.areas = {} /\ req'.scope = {} /\ req' \in Requests
      /\ req'.phase = IF kind \in ScopeFirst THEN "scope" ELSE "role"
  <2>. DEFINE loads == IF kind = "compute_readiness" THEN LoadedAmiss({target}) ELSE {}
              item == [NoItem EXCEPT !.loaded = loads]
  <2>1. loads \in SUBSET (Tests \X Facts)
    BY DEF LoadedAmiss, ProjectionInv, ProjectionTypes, Moment, Moments
  <2>2. item \in Readings
    <3>1. NoItem \in Readings
      BY DEF NoItem, Readings
    <3>. QED  BY <2>1, <3>1, ReadingTypes
  <2>3. req' = [Fresh(kind, target) EXCEPT !.item = item]
    BY DEF Ask, Fresh
  <2>. HIDE DEF loads, item
  <2>4. req' \in Requests
    BY <1>2, <2>2, <2>3, FreshRequest DEF Requests
  <2>. QED  BY <2>3, <2>4 DEF Fresh
<1>4. ProjectionTypes'
  <2>1. Moment \in Moments /\ Moment' = Moment
    BY <1>1 DEF ProjectionInv, ProjectionTypes, Moment
  <2>2. /\ Moment.roles = roles /\ Moment.assigned = assigned /\ Moment.active = active
        /\ Moment.amiss = amiss /\ Moment.reports = {newest}
    BY DEF Moment
  <2>. QED  BY <1>1, <1>2, <1>3, <2>1, <2>2 DEF ProjectionTypes
<1>5. PhaseInv'
  BY <1>3 DEF PhaseInv
<1>6. RoleInv'
  BY <1>3 DEF RoleInv, Looked, ScopeFirst, Gated
<1>7. ShownInv' /\ ServedInv'
  BY <1>3 DEF ShownInv, ServedInv, OneByOne, AllOrNothing, LineKinds, ScopeFirst
<1>8. ShownWasAuthorised' /\ KeptAuthorityIsServed'
  BY <1>3 DEF ShownWasAuthorised, KeptAuthorityIsServed, Answered
<1>. QED  BY <1>4, <1>5, <1>6, <1>7, <1>8 DEF ProjectionInv

\* The role is looked up.
LEMMA LookUpStep ==
    ASSUME ProjectionInv, LookUpRole
    PROVE  ProjectionInv'
<1>. DEFINE found == AskedRoles[req.kind] \cap roles
<1>1. PICK r \in IF found = {} THEN {NoRole} ELSE found :
         req' = [req EXCEPT !.role = r,
                   !.phase = CASE req.kind \in Gated -> "gate"
                               [] req.kind \in ScopeFirst -> "check"
                               [] OTHER -> "scope"]
  BY DEF LookUpRole
<1>2. OthersUnchanged /\ req.phase = "role" /\ req \in Requests /\ req.kind \in Kinds
  BY DEF LookUpRole, ProjectionInv, ProjectionTypes, Requests
<1>3. r \in RoleCodes \cup {NoRole, "guardian"}
  BY <1>2, WhoIsAsked
<1>. DEFINE to == CASE req.kind \in Gated -> "gate"
                    [] req.kind \in ScopeFirst -> "check"
                    [] OTHER -> "scope"
<1>4. /\ req.kind \in Gated => to = "gate"
      /\ req.kind \in ScopeFirst => to = "check"
      /\ req.kind \notin Gated \cup ScopeFirst => to = "scope"
  BY DEF Gated, ScopeFirst
<1>5. to \in {"gate", "check", "scope"}
  BY <1>4
<1>6. req' = [req EXCEPT !.role = r, !.phase = to]
  BY <1>1
<1>. HIDE DEF to
<1>7. /\ req' \in Requests /\ req'.role = r /\ req'.phase = to
      /\ req'.kind = req.kind /\ req'.target = req.target /\ req'.lines = req.lines
      /\ req'.todo = req.todo /\ req'.tests = req.tests
      /\ req'.visible = req.visible /\ req'.students = req.students
      /\ req'.areas = req.areas /\ req'.scope = req.scope
  BY <1>2, <1>3, <1>5, <1>6 DEF Requests, Phases
<1>8. /\ ProjectionTypes' /\ KeptRoles' = KeptRoles /\ HeldRole' = HeldRole
      /\ KeptTests' = KeptTests /\ Steady' = Steady
      /\ \A a : KeptPlace(a)' = KeptPlace(a) /\ HeldPlace(a)' = HeldPlace(a)
      /\ \A c : HeldClass(c)' = HeldClass(c)
      /\ span'.roles = span.roles /\ span'.assigned = span.assigned
      /\ span'.reports = span.reports /\ core'.roles = core.roles
  BY <1>2, <1>7, TablesKept DEF OthersUnchanged
<1>9. PhaseInv'
  BY <1>2, <1>4, <1>5, <1>7
     DEF ProjectionInv, PhaseInv, ScopeFirst, AssessmentKinds, ReadinessKinds, CompilationKinds
<1>10. RoleInv'
  <2>1. r # NoRole => r \in AskedRoles[req.kind] \cap span.roles
    BY DEF ProjectionInv, ProjectionTypes
  <2>2. KeptRoles => r # NoRole
    BY <1>2, WhoIsAsked DEF KeptRoles, ProjectionInv, ProjectionTypes, NoRole
  <2>3. to \in {"scope", "check"} => req.kind \notin Gated /\ req.kind # "compute_readiness"
    BY <1>4 DEF Gated, ScopeFirst
  <2>. QED  BY <1>5, <1>7, <1>8, <2>1, <2>2, <2>3 DEF RoleInv, Gated
<1>11. ShownInv'
  BY <1>5, <1>7, <1>8 DEF ProjectionInv, ShownInv
<1>12. ServedInv'
  BY <1>2, <1>4, <1>5, <1>7, <1>8
     DEF ProjectionInv, PhaseInv, ServedInv, Gated, ScopeFirst, OneByOne, AllOrNothing,
         LineKinds, Fits
<1>13. ShownWasAuthorised' /\ KeptAuthorityIsServed'
  <2>1. req'.phase # "answered"
    BY <1>5, <1>7
  <2>. QED  BY <2>1 DEF ShownWasAuthorised, KeptAuthorityIsServed, Answered
<1>. QED  BY <1>8, <1>9, <1>10, <1>11, <1>12, <1>13 DEF ProjectionInv

\* The gate lets through whoever may view anything at all.
LEMMA OpenGate ==
    ASSUME ProjectionInv, req.kind \in Gated, GateOpen
    PROVE  /\ HeldRole
           /\ req.kind = "compute_readiness" =>
                 span.roles \cap Executives # {} \/ HeldPlace(req.target)
           /\ req.kind = "class_analytics" => HeldClass(req.target)
<1>1. ContextIsValid
  BY DEF GateOpen, MayViewClass, MayViewReadiness, HasAssignmentForAssessment, Gated
<1>2. CASE req.kind = "compute_readiness"
  <2>1. req.role \in Executives \/ HasAssignmentForAssessment(req.target)
    BY <1>2 DEF GateOpen, MayViewReadiness
  <2>. QED  BY <1>1, <1>2, <2>1, ValidContext, MayViewIsHeld
<1>3. req.kind = "class_analytics" => HeldClass(req.target)
  BY DEF GateOpen, MayViewClass, HeldClass, ProjectionInv, ProjectionTypes
<1>. QED  BY <1>1, <1>2, <1>3, ValidContext

\* The projection goes on, or shows nothing.
LEMMA GateStep ==
    ASSUME ProjectionInv, PassGate
    PROVE  ProjectionInv'
<1>. DEFINE to == IF GateOpen THEN "scope" ELSE "answered"
<1>1. OthersUnchanged /\ req.phase = "gate" /\ req' = [req EXCEPT !.phase = to]
  BY DEF PassGate
<1>2. req \in Requests /\ req.kind \in Gated
  BY <1>1 DEF ProjectionInv, ProjectionTypes, PhaseInv
<1>3. to \in {"scope", "answered"} /\ (to = "scope" <=> GateOpen)
  OBVIOUS
<1>. HIDE DEF to
<1>4. /\ req' \in Requests /\ req'.role = req.role /\ req'.phase = to
      /\ req'.kind = req.kind /\ req'.target = req.target /\ req'.lines = req.lines
      /\ req'.todo = req.todo /\ req'.tests = req.tests
      /\ req'.visible = req.visible /\ req'.students = req.students
      /\ req'.areas = req.areas /\ req'.scope = req.scope
  BY <1>1, <1>2, <1>3 DEF Requests, Phases
<1>5. /\ ProjectionTypes' /\ KeptRoles' = KeptRoles /\ HeldRole' = HeldRole
      /\ KeptTests' = KeptTests /\ Steady' = Steady
      /\ \A a : KeptPlace(a)' = KeptPlace(a) /\ HeldPlace(a)' = HeldPlace(a)
      /\ \A c : HeldClass(c)' = HeldClass(c)
      /\ span'.roles = span.roles /\ span'.assigned = span.assigned
      /\ span'.reports = span.reports /\ core'.roles = core.roles
  BY <1>1, <1>4, TablesKept DEF OthersUnchanged
<1>6. req.tests = {} /\ req.students = {} /\ req.areas = {} /\ req.lines = {}
  BY <1>1 DEF ProjectionInv, PhaseInv
<1>7. PhaseInv'
  BY <1>1, <1>3, <1>4 DEF ProjectionInv, PhaseInv
<1>8. RoleInv'
  <2>1. to = "scope" =>
           /\ HeldRole
           /\ req.kind = "compute_readiness" =>
                 span.roles \cap Executives # {} \/ HeldPlace(req.target)
           /\ req.kind = "class_analytics" => HeldClass(req.target)
    BY <1>2, <1>3, OpenGate
  <2>. QED  BY <1>1, <1>3, <1>4, <1>5, <2>1 DEF ProjectionInv, RoleInv, Looked
<1>9. ShownInv' /\ ServedInv'
  BY <1>1, <1>3, <1>4, <1>5 DEF ProjectionInv, ShownInv, ServedInv
<1>10. ShownWasAuthorised'
  BY <1>4, <1>6 DEF ShownWasAuthorised
<1>11. KeptAuthorityIsServed'
  <2>1. KeptRoles /\ to = "answered" => req.kind \notin AllOrNothing
    <3>. SUFFICES ASSUME KeptRoles, req.kind \in AllOrNothing PROVE GateOpen
      BY <1>3
    <3>1. ContextIsValid /\ req.role \in AskedRoles[req.kind]
      BY <1>1, KeptContext DEF Looked
    <3>. QED  BY <3>1 DEF GateOpen, AllOrNothing
  <2>2. StudentsOf({}) = {}
    BY DEF StudentsOf
  <2>3. /\ req.kind \notin {"teacher_readiness", "hod_readiness", "hod_compilation",
                            "teacher_compilation", "hod_analytics", "subject_analytics"}
    BY <1>2 DEF Gated
  <2>. SUFFICES ASSUME to = "answered", KeptRoles
                PROVE  KeptAuthorityIsServed'
    BY <1>4, <1>5 DEF KeptAuthorityIsServed, Answered, KeptRoles
  <2>4. req'.kind \notin AllOrNothing
    BY <1>4, <2>1
  <2>5. req'.students = StudentsOf(req'.lines)
    BY <1>4, <1>6, <2>2
  <2>6. req'.kind \in {"principal_analytics", "deputy_analytics", "compute_readiness",
                       "class_analytics", "future_parent"}
    BY <1>2, <1>4, <2>1 DEF Gated, AllOrNothing
  <2>. QED  BY <2>5, <2>6 DEF KeptAuthorityIsServed
<1>. QED  BY <1>5, <1>7, <1>8, <1>9, <1>10, <1>11 DEF ProjectionInv

\* The assessments of a projection are queried.
LEMMA ScopeStep ==
    ASSUME ProjectionInv, ReadScope
    PROVE  ProjectionInv'
<1>. DEFINE found == IF req.kind \in ReadinessKinds THEN ReadinessScope ELSE CompilationScope
            compute == req.kind = "compute_readiness"
            tests == IF compute THEN found ELSE req.tests
            to == IF compute THEN "read" ELSE IF req.kind \notin ScopeFirst THEN "check"
                  ELSE IF found = {} THEN "answered" ELSE "role"
            loads == req.kind \in ReadinessKinds \ {"compute_readiness"}
            loaded == IF loads THEN LoadedAmiss(found) ELSE req.item.loaded
            item == [req.item EXCEPT !.loaded = loaded]
<1>1. /\ UNCHANGED tables /\ req.phase = "scope" /\ req.kind \in AssessmentKinds
      /\ req' = [req EXCEPT !.todo = found, !.scope = found, !.tests = tests, !.item = item,
                            !.phase = to]
      /\ \/ UNCHANGED <<span, core>>
         \/ span' = [span EXCEPT !.amiss = amiss] /\ core' = [core EXCEPT !.amiss = amiss]
  <2>1. /\ UNCHANGED tables /\ req.phase = "scope" /\ req.kind \in AssessmentKinds
        /\ req' = [req EXCEPT !.todo = found, !.scope = found, !.tests = tests,
                              !.item.loaded = loaded, !.phase = to]
        /\ \/ UNCHANGED <<span, core>>
           \/ span' = [span EXCEPT !.amiss = amiss] /\ core' = [core EXCEPT !.amiss = amiss]
    BY DEF ReadScope, AssessmentKinds
  <2>2. req \in Requests
    BY DEF ProjectionInv, ProjectionTypes
  <2>. HIDE DEF found, compute, tests, to, loads, loaded
  <2>. QED  BY <2>1, <2>2 DEF Requests
<1>2. /\ req \in Requests
      /\ compute => req.target \in Tests
      /\ req.tests = {} /\ req.visible = {} /\ req.lines = {}
      /\ req.students = {} /\ req.areas = {}
  BY <1>1 DEF ProjectionInv, ProjectionTypes, PhaseInv
<1>3. /\ compute => found = {req.target}
      /\ req.kind \in ByAssignment => found = {a \in Tests : AssignedPlace(a)}
      /\ ~compute /\ req.kind \notin ByAssignment => found = Tests
  BY DEF ReadinessScope, CompilationScope, ReadinessKinds, CompilationKinds, ByAssignment
<1>. HIDE DEF found
<1>4. found \subseteq Tests /\ tests \subseteq found
  BY <1>2, <1>3
<1>5. /\ compute => to = "read" /\ tests = found
      /\ ~compute => tests = {}
      /\ ~compute /\ req.kind \notin ScopeFirst => to = "check"
      /\ ~compute /\ req.kind \in ScopeFirst => to = IF found = {} THEN "answered" ELSE "role"
  BY <1>2
<1>6. to \in {"read", "check", "answered", "role"}
  BY <1>5
<1>. HIDE DEF to, tests, loads
<1>7. /\ req' \in Requests /\ req'.role = req.role /\ req'.phase = to
      /\ req'.kind = req.kind /\ req'.target = req.target /\ req'.lines = {}
      /\ req'.todo = found /\ req'.tests = tests
      /\ req'.visible = {} /\ req'.students = {}
      /\ req'.areas = {} /\ req'.scope = found
  <2>1. req.item \in Readings
    BY <1>2 DEF Requests
  <2>2. loaded \in SUBSET (Tests \X Facts)
    BY <2>1 DEF LoadedAmiss, ProjectionInv, ProjectionTypes, Moment, Moments, Readings
  <2>. HIDE DEF loaded
  <2>3. item \in Readings
    BY <2>1, <2>2, ReadingTypes
  <2>. HIDE DEF item
  <2>4. found \in SUBSET Items /\ tests \in SUBSET Tests /\ to \in Phases
    BY <1>4, <1>6 DEF Items, Phases
  <2>5. req' \in Requests
    BY <1>1, <1>2, <2>3, <2>4 DEF Requests
  <2>. QED  BY <1>1, <1>2, <2>5 DEF Requests
<1>. HIDE DEF loaded, item
<1>8. /\ ProjectionTypes' /\ KeptRoles' = KeptRoles /\ HeldRole' = HeldRole
      /\ KeptTests' = KeptTests /\ Steady' = Steady
      /\ \A a : KeptPlace(a)' = KeptPlace(a) /\ HeldPlace(a)' = HeldPlace(a)
      /\ \A c : HeldClass(c)' = HeldClass(c)
      /\ span'.roles = span.roles /\ span'.assigned = span.assigned
      /\ span'.reports = span.reports /\ core'.roles = core.roles
  BY <1>1, <1>7, TablesKept
<1>9. req.kind \in ByAssignment => /\ KeptTests \subseteq found
                                   /\ \A a \in found : HeldPlace(a)
  BY <1>3 DEF KeptTests, KeptPlace, HeldPlace, AssignedPlace, ProjectionInv, ProjectionTypes
<1>10. PhaseInv'
  BY <1>1, <1>4, <1>5, <1>6, <1>7 DEF PhaseInv, ReadinessKinds
<1>11. RoleInv'
  <2>1. to \in {"read", "check"} => req.kind \notin ScopeFirst
    BY <1>5, <1>6 DEF ScopeFirst
  <2>. QED
    BY <1>1, <1>6, <1>7, <1>8, <2>1 DEF ProjectionInv, RoleInv, Looked
<1>12. ShownInv'
  <2>1. compute => /\ HeldRole /\ req.kind \notin ByAssignment
                   /\ span.roles \cap Executives # {} \/ HeldPlace(req.target)
    BY <1>1 DEF ProjectionInv, RoleInv, Gated, ByAssignment
  <2>2. \/ span.roles \cap Executives # {} /\ req.kind \notin ByAssignment
        \/ \A a \in tests : HeldPlace(a)
    BY <1>3, <1>5, <2>1
  <2>3. tests # {} => HeldRole
    BY <1>5, <2>1
  <2>4. req.kind \notin LineKinds
    BY <1>1 DEF LineKinds, AssessmentKinds, ReadinessKinds, CompilationKinds
  <2>. QED  BY <1>6, <1>7, <1>8, <1>9, <2>2, <2>3, <2>4 DEF ProjectionInv, ShownInv
<1>13. ServedInv'
  <2>1. req.kind \in OneByOne \cup {"teacher_compilation"} =>
           req.kind \in ByAssignment /\ ~compute
    BY DEF OneByOne, ByAssignment
  <2>2. req.kind \in AllOrNothing => req.kind \notin ByAssignment /\ ~compute
    BY DEF AllOrNothing, ByAssignment
  <2>3. req.kind = "teacher_compilation" => to # "check"
    BY <1>5, <1>6 DEF ScopeFirst
  <2>4. to = "read" => compute
    BY <1>5, <1>6
  <2>5. req.kind \notin LineKinds
    BY <1>1 DEF LineKinds, AssessmentKinds, ReadinessKinds, CompilationKinds
  <2>. QED
    BY <1>3, <1>7, <1>8, <1>9, <2>1, <2>2, <2>3, <2>4, <2>5 DEF ServedInv
<1>14. ShownWasAuthorised' /\ KeptAuthorityIsServed'
  <2>1. to = "answered" => /\ req.kind \in {"teacher_readiness", "teacher_compilation"}
                           /\ found = {} /\ tests = {} /\ KeptTests = {}
    BY <1>5, <1>6, <1>9 DEF ScopeFirst, ByAssignment
  <2>2. ShownWasAuthorised'
    BY <1>7, <2>1 DEF ShownWasAuthorised, Answered
  <2>3. to = "answered" => KeptAuthorityIsServed'
    BY <1>7, <1>8, <2>1 DEF KeptAuthorityIsServed, KeptTests, KeptPlace
  <2>. QED  BY <1>7, <2>2, <2>3 DEF KeptAuthorityIsServed, Answered
<1>. QED  BY <1>8, <1>10, <1>11, <1>12, <1>13, <1>14 DEF ProjectionInv

\* Of the projections of assessments, those that do not go by assignment are
\* for executives.
LEMMA Entitled ==
    ASSUME ProjectionInv, HeldRole, req.kind \in AllOrNothing
    PROVE  span.roles \cap Executives # {} /\ req.kind \notin ByAssignment
BY WhoIsAsked DEF HeldRole, AllOrNothing, ByAssignment

\* What a step that is about readiness leaves alone.
SameAnswer ==
    /\ req' \in Requests /\ req'.role = req.role
    /\ req'.kind = req.kind /\ req'.target = req.target /\ req'.lines = req.lines
    /\ req'.visible = req.visible /\ req'.students = req.students
    /\ req'.areas = req.areas /\ req'.scope = req.scope

\* One assessment is asked about, and taken in if the policy says so.
LEMMA AssessStep ==
    ASSUME ProjectionInv, NEW a, NEW view \in BOOLEAN,
           req.phase = "check", req.kind \in AllOrNothing \cup OneByOne, a \in req.todo,
           OthersUnchanged, SameAnswer, req'.phase = "check",
           req'.todo = req.todo \ {a},
           req'.tests = IF view THEN req.tests \cup {a} ELSE req.tests,
           view => HeldRole /\ (req.kind \in OneByOne => HeldPlace(a)),
           KeptRoles /\ (req.kind \in OneByOne => KeptPlace(a)) => view
    PROVE  ProjectionInv'
<1>. DEFINE tests == IF view THEN req.tests \cup {a} ELSE req.tests
<1>1. /\ req \in Requests /\ req.scope \subseteq Tests /\ a \in req.scope /\ a \in Tests
      /\ req.kind \in AssessmentKinds
  BY DEF ProjectionInv, ProjectionTypes, PhaseInv
<1>2. tests \subseteq Tests /\ tests \subseteq req.scope
  BY <1>1 DEF ProjectionInv, PhaseInv
<1>3. req'.tests = tests
  OBVIOUS
<1>. HIDE DEF tests
<1>4. /\ req' \in Requests /\ req'.role = req.role /\ req'.phase = req.phase
      /\ req'.kind = req.kind /\ req'.target = req.target /\ req'.lines = req.lines
      /\ req'.todo = req.todo \ {a} /\ req'.tests = tests
      /\ req'.visible = req.visible /\ req'.students = req.students
      /\ req'.areas = req.areas /\ req'.scope = req.scope
  BY <1>3 DEF SameAnswer
<1>5. /\ ProjectionTypes' /\ KeptRoles' = KeptRoles /\ HeldRole' = HeldRole
      /\ KeptTests' = KeptTests /\ Steady' = Steady
      /\ \A b : KeptPlace(b)' = KeptPlace(b) /\ HeldPlace(b)' = HeldPlace(b)
      /\ \A c : HeldClass(c)' = HeldClass(c)
      /\ span'.roles = span.roles /\ span'.assigned = span.assigned
      /\ span'.reports = span.reports /\ core'.roles = core.roles
  BY <1>4, TablesKept DEF OthersUnchanged
<1>6. PhaseInv'
  BY <1>1, <1>2, <1>4 DEF ProjectionInv, PhaseInv
<1>7. RoleInv'
  BY <1>4, <1>5 DEF ProjectionInv, RoleInv, Looked
<1>8. ShownInv'
  <2>1. tests # {} => HeldRole
    BY DEF tests, ProjectionInv, ShownInv
  <2>2. \/ span.roles \cap Executives # {} /\ req.kind \notin ByAssignment
        \/ \A b \in tests : HeldPlace(b)
    <3>1. CASE req.kind \in AllOrNothing /\ tests # {}
      BY <2>1, <3>1, Entitled
    <3>2. CASE tests = {}
      BY <3>2
    <3>3. CASE req.kind \in OneByOne
      BY <3>3 DEF tests, ProjectionInv, ShownInv, OneByOne, ByAssignment
    <3>. QED  BY <3>1, <3>2, <3>3
  <2>. QED  BY <1>4, <1>5, <2>1, <2>2 DEF ProjectionInv, ShownInv
<1>9. ServedInv'
  <2>1. KeptRoles /\ KeptPlace(a) => a \in tests
    BY DEF tests
  <2>2. KeptRoles /\ req.kind \in AllOrNothing => a \in tests
    BY DEF tests, AllOrNothing, OneByOne
  <2>3. req.tests \subseteq tests
    BY DEF tests
  <2>4. req.kind \notin LineKinds \cup {"teacher_compilation"}
    BY DEF LineKinds, AllOrNothing, OneByOne
  <2>5. KeptRoles /\ req.kind \in OneByOne => KeptTests \subseteq tests \cup (req.todo \ {a})
    BY <2>1, <2>3 DEF ProjectionInv, ServedInv, KeptTests
  <2>6. KeptRoles /\ req.kind \in AllOrNothing =>
           req.scope = Tests /\ Tests \subseteq tests \cup (req.todo \ {a})
    BY <2>2, <2>3 DEF ProjectionInv, ServedInv
  <2>. QED  BY <1>4, <1>5, <2>4, <2>5, <2>6 DEF ServedInv
<1>10. ShownWasAuthorised' /\ KeptAuthorityIsServed'
  BY <1>4 DEF ShownWasAuthorised, KeptAuthorityIsServed, Answered
<1>. QED  BY <1>5, <1>6, <1>7, <1>8, <1>9, <1>10 DEF ProjectionInv

\* The readiness policies and the head of department's compilation policy.
LEMMA CheckItemStep ==
    ASSUME ProjectionInv, NEW a \in Tests, CheckReadiness(a) \/ CheckCompilation(a)
    PROVE  ProjectionInv'
<1>0. req \in Requests
  BY DEF ProjectionInv, ProjectionTypes
<1>1. CASE CheckReadiness(a)
  <2>1. /\ req.phase = "check" /\ req.kind \in ReadinessKinds /\ a \in req.todo
        /\ OthersUnchanged
    BY <1>1 DEF CheckReadiness
  <2>2. /\ SameAnswer /\ req'.phase = "check" /\ req'.todo = req.todo \ {a}
        /\ req'.tests = IF MayViewReadiness(a) THEN req.tests \cup {a} ELSE req.tests
    <3>. DEFINE left == req.todo \ {a}
                more == req.tests \cup {a}
                item == [req.item EXCEPT !.of = {a}, !.step = 1, !.blocked = FALSE]
    <3>1. left \in SUBSET Items /\ more \in SUBSET Tests /\ item \in Readings
      <4>1. req.item \in Readings /\ left \in SUBSET Items /\ more \in SUBSET Tests
        BY <1>0 DEF Requests
      <4>. QED  BY <4>1, ReadingTypes
    <3>2. req' = IF ~MayViewReadiness(a) THEN [req EXCEPT !.todo = left]
                 ELSE IF req.kind \in ByAssignment THEN [req EXCEPT !.todo = left, !.tests = more]
                 ELSE [req EXCEPT !.todo = left, !.tests = more, !.item = item]
      <4>1. req' = IF ~MayViewReadiness(a) THEN [req EXCEPT !.todo = @ \ {a}]
                   ELSE IF req.kind \in ByAssignment
                   THEN [[req EXCEPT !.todo = @ \ {a}] EXCEPT !.tests = @ \cup {a}]
                   ELSE Begun([[req EXCEPT !.todo = @ \ {a}] EXCEPT !.tests = @ \cup {a}], a)
        BY <1>1 DEF CheckReadiness
      <4>. QED  BY <1>0, <4>1 DEF Requests, Begun
    <3>. HIDE DEF left, more, item
    <3>3. CASE ~MayViewReadiness(a)
      BY <1>0, <2>1, <3>1, <3>2, <3>3 DEF SameAnswer, Requests, left
    <3>4. CASE MayViewReadiness(a) /\ req.kind \in ByAssignment
      BY <1>0, <2>1, <3>1, <3>2, <3>4 DEF SameAnswer, Requests, left, more
    <3>5. CASE MayViewReadiness(a) /\ req.kind \notin ByAssignment
      BY <1>0, <2>1, <3>1, <3>2, <3>5 DEF SameAnswer, Requests, left, more
    <3>. QED  BY <3>3, <3>4, <3>5
  <2>3. req.kind \in {"teacher_readiness", "hod_readiness", "head_readiness",
                      "principal_readiness"}
    BY <2>1 DEF ProjectionInv, PhaseInv, ReadinessKinds
  <2>4. /\ req.kind \in OneByOne => MayViewReadiness(a) = HasAssignmentForAssessment(a)
        /\ req.kind \in AllOrNothing =>
              MayViewReadiness(a) = (ContextIsValid /\ req.role \in AskedRoles[req.kind])
    BY <2>3 DEF MayViewReadiness, OneByOne, AllOrNothing
  <2>5. req.kind \in AllOrNothing \cup OneByOne /\ Looked
    BY <2>1, <2>3 DEF AllOrNothing, OneByOne, Looked
  <2>6. MayViewReadiness(a) => HeldRole /\ (req.kind \in OneByOne => HeldPlace(a))
    BY <2>4, <2>5, MayViewIsHeld, ValidContext
  <2>7. KeptRoles /\ (req.kind \in OneByOne => KeptPlace(a)) => MayViewReadiness(a)
    BY <2>4, <2>5, KeptMayView, KeptContext DEF OneByOne, ByAssignment
  <2>8. MayViewReadiness(a) \in BOOLEAN
    BY <2>4, <2>5 DEF HasAssignmentForAssessment, ContextIsValid
  <2>. QED  BY <2>1, <2>2, <2>5, <2>6, <2>7, <2>8, AssessStep
<1>2. CASE CheckCompilation(a)
  <2>1. /\ req.phase = "check" /\ req.kind = "hod_compilation" /\ a \in req.todo
        /\ OthersUnchanged
    BY <1>2 DEF CheckCompilation
  <2>2. /\ SameAnswer /\ req'.phase = "check" /\ req'.todo = req.todo \ {a}
        /\ req'.tests = IF MayViewCompilation(a) THEN req.tests \cup {a} ELSE req.tests
    BY <1>0, <1>2, <2>1 DEF CheckCompilation, SameAnswer, Requests
  <2>4. MayViewCompilation(a) = HasAssignmentForAssessment(a)
    BY <2>1 DEF MayViewCompilation
  <2>5. Looked /\ req.kind \in ByAssignment \cap OneByOne
    BY <2>1 DEF Looked, ByAssignment, OneByOne
  <2>6. MayViewCompilation(a) \in BOOLEAN
    BY <2>4 DEF HasAssignmentForAssessment, ContextIsValid
  <2>7. MayViewCompilation(a) => HeldRole /\ HeldPlace(a)
    BY <2>4, MayViewIsHeld
  <2>8. KeptRoles /\ (req.kind \in OneByOne => KeptPlace(a)) => MayViewCompilation(a)
    BY <2>4, <2>5, KeptMayView
  <2>. QED  BY <2>1, <2>2, <2>5, <2>6, <2>7, <2>8, AssessStep
<1>. QED  BY <1>1, <1>2

\* Readiness is asked for, query by query; the last query completes the answer.
LEMMA ReadStep ==
    ASSUME ProjectionInv, OthersUnchanged, SameAnswer, req.phase \in {"check", "read"},
           req'.todo \subseteq req.todo, req'.tests = req.tests,
           \/ req'.phase = req.phase /\ (req.phase = "check" => req'.todo = req.todo)
           \/ req.phase = "read" /\ req'.phase = "answered"
    PROVE  ProjectionInv'
<1>. DEFINE left == req'.todo
            to == req'.phase
<1>1. /\ OthersUnchanged /\ left \subseteq req.todo
      /\ req.phase = "check" => to = "check" /\ left = req.todo
      /\ req.phase = "read" => to \in {"read", "answered"}
  OBVIOUS
<1>2. /\ req \in Requests /\ req.kind \in AssessmentKinds
      /\ req.phase = "read" =>
            req.kind \in {"compute_readiness", "teacher_readiness", "hod_readiness"}
  BY DEF ProjectionInv, ProjectionTypes, PhaseInv
<1>5. /\ req' \in Requests /\ req'.role = req.role /\ req'.phase = to
      /\ req'.kind = req.kind /\ req'.target = req.target /\ req'.lines = req.lines
      /\ req'.todo = left /\ req'.tests = req.tests
      /\ req'.visible = req.visible /\ req'.students = req.students
      /\ req'.areas = req.areas /\ req'.scope = req.scope
  BY DEF SameAnswer
<1>. HIDE DEF left, to
<1>6. /\ ProjectionTypes' /\ KeptRoles' = KeptRoles /\ HeldRole' = HeldRole
      /\ KeptTests' = KeptTests /\ Steady' = Steady
      /\ \A b : KeptPlace(b)' = KeptPlace(b) /\ HeldPlace(b)' = HeldPlace(b)
      /\ \A c : HeldClass(c)' = HeldClass(c)
      /\ span'.roles = span.roles /\ span'.assigned = span.assigned
      /\ span'.reports = span.reports /\ core'.roles = core.roles
  BY <1>1, <1>5, TablesKept DEF OthersUnchanged
<1>7. req.students = {} /\ req.areas = {}
  BY DEF ProjectionInv, PhaseInv
<1>8. PhaseInv'
  BY <1>1, <1>2, <1>5, <1>7 DEF ProjectionInv, PhaseInv
<1>9. RoleInv'
  BY <1>1, <1>5, <1>6 DEF ProjectionInv, RoleInv, Looked
<1>10. ShownInv'
  BY <1>1, <1>5, <1>6, <1>7 DEF ProjectionInv, ShownInv
<1>11. ServedInv'
  BY <1>1, <1>2, <1>5, <1>6
     DEF ProjectionInv, ServedInv, AllOrNothing, LineKinds, AssessmentKinds, ReadinessKinds,
         CompilationKinds
<1>12. ShownWasAuthorised'
  BY <1>1, <1>2, <1>5, <1>6, <1>7
     DEF ProjectionInv, ShownInv, ShownWasAuthorised, AssessmentKinds, ReadinessKinds,
         CompilationKinds
<1>13. KeptAuthorityIsServed'
  <2>1. CASE req.phase = "check"
    BY <1>1, <1>5, <2>1 DEF KeptAuthorityIsServed, Answered
  <2>2. CASE req.phase = "read"
    <3>. SUFFICES ASSUME KeptRoles
                  PROVE  KeptAuthorityIsServed'
      BY <1>6 DEF KeptAuthorityIsServed, KeptRoles
    <3>1. req.kind \in OneByOne => KeptTests \subseteq req.tests
      BY <2>2 DEF ProjectionInv, ServedInv
    <3>. QED
      BY <1>2, <1>5, <1>6, <2>2, <3>1 DEF KeptAuthorityIsServed, OneByOne, KeptTests, KeptPlace
  <2>. QED  BY <2>1, <2>2
<1>. QED  BY <1>6, <1>8, <1>9, <1>10, <1>11, <1>12, <1>13 DEF ProjectionInv

\* _build_assessment_readiness begins, or goes on.
LEMMA ReadItemStep ==
    ASSUME ProjectionInv, NEW a \in Tests, ReadReadiness(a) \/ LookUpFact(a),
           req.item.of # {} => req.phase \in {"check", "read"} /\ req.item.step \in 1..8
    PROVE  ProjectionInv'
<1>1. req \in Requests /\ req.item \in Readings
  BY DEF ProjectionInv, ProjectionTypes, Requests
<1>2. CASE ReadReadiness(a)
  <2>. DEFINE left == req.todo \ {a}
              item == [req.item EXCEPT !.of = {a}, !.step = 1, !.blocked = FALSE]
  <2>1. /\ OthersUnchanged /\ req.phase = "read"
        /\ req' = [req EXCEPT !.todo = left, !.item = item]
    <3>1. /\ OthersUnchanged /\ req.phase = "read"
          /\ req' = Begun([req EXCEPT !.todo = left], a)
      BY <1>2 DEF ReadReadiness
    <3>. HIDE DEF left
    <3>. QED  BY <1>1, <3>1 DEF Begun, Requests
  <2>2. left \in SUBSET Items /\ item \in Readings /\ left \subseteq req.todo
    <3>1. left \in SUBSET Items /\ left \subseteq req.todo
      BY <1>1 DEF Requests
    <3>. QED  BY <1>1, <3>1, ReadingTypes
  <2>. HIDE DEF left, item
  <2>3. /\ SameAnswer /\ req'.todo = left /\ req'.tests = req.tests
        /\ req'.phase = "read"
    BY <1>1, <2>1, <2>2 DEF SameAnswer, Requests
  <2>. QED  BY <2>1, <2>2, <2>3, ReadStep
<1>3. CASE LookUpFact(a)
  <2>. DEFINE found(b) == IF b THEN req.ready ELSE req.ready \cup {a}
              to == IF req.phase = "read" /\ req.todo = {} THEN "answered" ELSE req.phase
              done == [req.item EXCEPT !.of = {}, !.step = 0, !.blocked = FALSE]
              on(b) == [req.item EXCEPT !.step = req.item.step + 1, !.blocked = b]
  <2>1. \E answer \in Answers(a, ReadinessQueries[req.item.step]) :
           \E blocked \in {req.item.blocked \/ answer} :
              \/ req.item.step < 8 /\ req' = [req EXCEPT !.item = on(blocked)]
              \/ req' = [req EXCEPT !.item = done, !.ready = found(blocked), !.phase = to]
    <3>1. Len(ReadinessQueries) = 8
      BY DEF ReadinessQueries
    <3>2. PICK answer \in Answers(a, ReadinessQueries[req.item.step]) :
             req' = IF req.item.step < 8
                    THEN [req EXCEPT !.item = on(req.item.blocked \/ answer)]
                    ELSE [req EXCEPT !.item = done, !.ready = found(req.item.blocked \/ answer),
                                     !.phase = to]
      BY <1>3, <3>1, Zenon DEF LookUpFact
    <3>. HIDE DEF on, done, found, to
    <3>. QED  BY <3>2, Zenon
  <2>2. /\ OthersUnchanged /\ req.item.of = {a} /\ req.phase \in {"check", "read"}
        /\ req.item.step \in 1..8
    BY <1>3 DEF LookUpFact
  <2>3. PICK blocked \in BOOLEAN :
           \/ req.item.step < 8 /\ req' = [req EXCEPT !.item = on(blocked)]
           \/ req' = [req EXCEPT !.item = done, !.ready = found(blocked), !.phase = to]
    BY <2>1, AnswerTypes
  <2>4. /\ found(blocked) \in SUBSET Tests /\ to \in Phases /\ done \in Readings
        /\ req.item.step < 8 => on(blocked) \in Readings
    <3>1. found(blocked) \in SUBSET Tests /\ to \in Phases
      BY <1>1 DEF Requests, Phases
    <3>. QED  BY <1>1, <3>1, ReadingTypes
  <2>5. to = req.phase \/ (req.phase = "read" /\ to = "answered")
    OBVIOUS
  <2>. HIDE DEF on, done, found, to
  <2>6. /\ SameAnswer /\ req'.todo = req.todo /\ req'.tests = req.tests
        /\ req'.phase = req.phase \/ (req.phase = "read" /\ req'.phase = "answered")
    <3>1. CASE req.item.step < 8 /\ req' = [req EXCEPT !.item = on(blocked)]
      BY <1>1, <2>4, <3>1 DEF SameAnswer, Requests
    <3>2. CASE req' = [req EXCEPT !.item = done, !.ready = found(blocked), !.phase = to]
      BY <1>1, <2>4, <2>5, <3>2 DEF SameAnswer, Requests
    <3>. QED  BY <2>3, <3>1, <3>2
  <2>. QED  BY <2>2, <2>6, ReadStep
<1>. QED  BY <1>2, <1>3

\* The other compilation projections show their scope, or nothing.
LEMMA CheckFirstStep ==
    ASSUME ProjectionInv, CheckFirstCompilation
    PROVE  ProjectionInv'
<1>1. PICK first \in req.todo :
         req' = [req EXCEPT !.todo = {},
                   !.tests = IF req.kind = "teacher_compilation" /\ ~MayViewCompilation(first)
                             THEN {} ELSE req.scope]
  BY DEF CheckFirstCompilation
<1>. DEFINE tests == IF req.kind = "teacher_compilation" /\ ~MayViewCompilation(first)
                     THEN {} ELSE req.scope
<1>2. /\ OthersUnchanged /\ req.phase = "check"
      /\ req.kind \in {"teacher_compilation", "deputy_compilation", "principal_compilation"}
  BY DEF CheckFirstCompilation, CompilationKinds
<1>3. /\ req \in Requests /\ req.scope \subseteq Tests /\ first \in req.scope
      /\ req.students = {} /\ req.areas = {} /\ req.kind \in AssessmentKinds
  BY <1>2 DEF ProjectionInv, ProjectionTypes, PhaseInv, AssessmentKinds, CompilationKinds
<1>4. /\ req.kind = "teacher_compilation" => tests = {} \/ tests = req.scope
      /\ req.kind # "teacher_compilation" => tests = req.scope
      /\ req.kind = "teacher_compilation" /\ tests # {} => HasAssignmentForAssessment(first)
      /\ req.kind = "teacher_compilation" /\ HasAssignmentForAssessment(first) =>
            tests = req.scope
  BY DEF MayViewCompilation
<1>5. tests \subseteq req.scope
  OBVIOUS
<1>. HIDE DEF tests
<1>6. req' = [req EXCEPT !.todo = {}, !.tests = tests]
  BY <1>1 DEF tests
<1>7. /\ req' \in Requests /\ req'.role = req.role /\ req'.phase = req.phase
      /\ req'.kind = req.kind /\ req'.target = req.target /\ req'.lines = req.lines
      /\ req'.todo = {} /\ req'.tests = tests
      /\ req'.visible = req.visible /\ req'.students = req.students
      /\ req'.areas = req.areas /\ req'.scope = req.scope
  BY <1>3, <1>5, <1>6 DEF Requests
<1>8. /\ ProjectionTypes' /\ KeptRoles' = KeptRoles /\ HeldRole' = HeldRole
      /\ KeptTests' = KeptTests /\ Steady' = Steady
      /\ \A b : KeptPlace(b)' = KeptPlace(b) /\ HeldPlace(b)' = HeldPlace(b)
      /\ \A c : HeldClass(c)' = HeldClass(c)
      /\ span'.roles = span.roles /\ span'.assigned = span.assigned
      /\ span'.reports = span.reports /\ core'.roles = core.roles
  BY <1>2, <1>7, TablesKept DEF OthersUnchanged
<1>9. PhaseInv'
  BY <1>2, <1>3, <1>5, <1>7 DEF ProjectionInv, PhaseInv
<1>10. RoleInv'
  BY <1>7, <1>8 DEF ProjectionInv, RoleInv, Looked
<1>11. ShownInv'
  <2>1. req.kind # "teacher_compilation" => HeldRole /\ req.kind \in AllOrNothing
    BY <1>2 DEF ProjectionInv, RoleInv, Gated, AllOrNothing
  <2>2. tests # {} => HeldRole
    BY <1>4, <2>1, MayViewIsHeld
  <2>3. \/ span.roles \cap Executives # {} /\ req.kind \notin ByAssignment
        \/ \A b \in tests : HeldPlace(b)
    <3>1. CASE req.kind = "teacher_compilation"
      BY <1>3, <1>5, <3>1 DEF ProjectionInv, ShownInv, ByAssignment
    <3>2. CASE req.kind # "teacher_compilation"
      BY <2>1, <3>2, Entitled
    <3>. QED  BY <3>1, <3>2
  <2>. QED  BY <1>7, <1>8, <2>2, <2>3 DEF ProjectionInv, ShownInv
<1>12. ServedInv'
  <2>1. KeptRoles /\ Steady /\ req.kind = "teacher_compilation" => tests = req.scope
    <3>. SUFFICES ASSUME KeptRoles, Steady, req.kind = "teacher_compilation"
                  PROVE  HasAssignmentForAssessment(first)
      BY <1>4
    <3>1. HeldPlace(first)
      BY <1>3 DEF ProjectionInv, ShownInv, ByAssignment
    <3>2. KeptPlace(first)
      BY <1>3, <3>1 DEF Steady
    <3>. QED  BY <1>2, <3>2, KeptMayView DEF Looked, ByAssignment
  <2>2. req.kind \notin OneByOne \cup LineKinds
    BY <1>2 DEF OneByOne, LineKinds
  <2>3. req.kind \in AllOrNothing => tests = req.scope
    BY <1>4 DEF AllOrNothing
  <2>. QED  BY <1>2, <1>7, <1>8, <2>1, <2>2, <2>3 DEF ProjectionInv, ServedInv
<1>13. ShownWasAuthorised' /\ KeptAuthorityIsServed'
  BY <1>2, <1>7 DEF ShownWasAuthorised, KeptAuthorityIsServed, Answered
<1>. QED  BY <1>8, <1>9, <1>10, <1>11, <1>12, <1>13 DEF ProjectionInv

\* Nothing is left to ask about.
LEMMA FinishChecksStep ==
    ASSUME ProjectionInv, FinishChecks
    PROVE  ProjectionInv'
<1>. DEFINE reads == req.kind \in ReadinessKinds \cap ByAssignment /\ req.tests # {}
            to == IF reads THEN "read" ELSE "answered"
            left == IF reads THEN req.tests ELSE req.todo
<1>1. /\ OthersUnchanged /\ req.phase = "check" /\ req.todo = {}
      /\ req.kind \in AssessmentKinds /\ req.kind # "compute_readiness"
      /\ req \in Requests /\ req.students = {} /\ req.areas = {}
  BY DEF FinishChecks, ProjectionInv, ProjectionTypes, PhaseInv
<1>2. req' = [req EXCEPT !.phase = to, !.todo = left]
  <2>1. CASE reads
    BY <2>1 DEF FinishChecks
  <2>2. CASE ~reads
    <3>1. req' = [req EXCEPT !.phase = to]
      BY <2>2 DEF FinishChecks
    <3>. QED  BY <1>1, <2>2, <3>1 DEF Requests
  <2>. QED  BY <2>1, <2>2
<1>3. /\ to = "read" => req.kind \in {"teacher_readiness", "hod_readiness"} /\ left = req.tests
      /\ to = "answered" => left = {}
      /\ to \in {"read", "answered"}
  BY <1>1 DEF ReadinessKinds, ByAssignment
<1>4. left \in SUBSET Tests
  BY <1>1, <1>3 DEF Requests
<1>. HIDE DEF reads, to, left
<1>5. /\ req' \in Requests /\ req'.role = req.role /\ req'.phase = to
      /\ req'.kind = req.kind /\ req'.target = req.target /\ req'.lines = req.lines
      /\ req'.todo = left /\ req'.tests = req.tests
      /\ req'.visible = req.visible /\ req'.students = req.students
      /\ req'.areas = req.areas /\ req'.scope = req.scope
  BY <1>1, <1>2, <1>3, <1>4 DEF Requests, Phases, Items
<1>6. /\ ProjectionTypes' /\ KeptRoles' = KeptRoles /\ HeldRole' = HeldRole
      /\ KeptTests' = KeptTests /\ Steady' = Steady
      /\ \A b : KeptPlace(b)' = KeptPlace(b) /\ HeldPlace(b)' = HeldPlace(b)
      /\ \A c : HeldClass(c)' = HeldClass(c)
      /\ span'.roles = span.roles /\ span'.assigned = span.assigned
      /\ span'.reports = span.reports /\ core'.roles = core.roles
  BY <1>1, <1>5, TablesKept DEF OthersUnchanged
<1>7. PhaseInv'
  BY <1>1, <1>3, <1>5 DEF ProjectionInv, PhaseInv
<1>8. RoleInv'
  BY <1>1, <1>3, <1>5, <1>6 DEF ProjectionInv, RoleInv, Looked
<1>9. ShownInv'
  BY <1>3, <1>5, <1>6 DEF ProjectionInv, ShownInv
<1>10. ServedInv'
  BY <1>1, <1>3, <1>5, <1>6 DEF ProjectionInv, ServedInv, AllOrNothing, LineKinds, OneByOne
<1>11. ShownWasAuthorised'
  <2>1. req.kind \notin {"hod_analytics", "subject_analytics", "class_analytics"}
    BY <1>1 DEF AssessmentKinds, ReadinessKinds, CompilationKinds
  <2>. QED  BY <1>1, <1>5, <1>6, <2>1 DEF ProjectionInv, ShownInv, ShownWasAuthorised
<1>12. KeptAuthorityIsServed'
  <2>. SUFFICES ASSUME KeptRoles
                PROVE  KeptAuthorityIsServed'
    BY <1>6 DEF KeptAuthorityIsServed, KeptRoles
  <2>1. CASE req.kind \in OneByOne
    <3>1. KeptTests \subseteq req.tests
      BY <1>1, <2>1 DEF ProjectionInv, ServedInv
    <3>. QED
      BY <1>5, <1>6, <2>1, <3>1 DEF KeptAuthorityIsServed, OneByOne, KeptTests, KeptPlace
  <2>2. CASE req.kind = "teacher_compilation"
    <3>1. Steady => KeptTests = req.tests
      <4>1. KeptTests \subseteq req.scope /\ (Steady => req.tests = req.scope)
        BY <1>1, <2>2 DEF ProjectionInv, PhaseInv, ServedInv
      <4>2. \A a \in req.scope : a \in Tests /\ HeldPlace(a)
        BY <1>1, <2>2 DEF ProjectionInv, PhaseInv, ShownInv, ByAssignment
      <4>. QED  BY <4>1, <4>2 DEF Steady, KeptTests
    <3>. QED
      BY <1>5, <1>6, <2>2, <3>1 DEF KeptAuthorityIsServed, Steady, KeptTests, KeptPlace
  <2>3. CASE req.kind \in AllOrNothing
    <3>1. req.tests = Tests
      BY <1>1, <2>3 DEF ProjectionInv, PhaseInv, ServedInv
    <3>. QED  BY <1>5, <2>3, <3>1 DEF KeptAuthorityIsServed, AllOrNothing
  <2>. QED
    BY <1>1, <2>1, <2>2, <2>3
       DEF AssessmentKinds, ReadinessKinds, CompilationKinds, OneByOne, AllOrNothing
<1>. QED  BY <1>6, <1>7, <1>8, <1>9, <1>10, <1>11, <1>12 DEF ProjectionInv

\* The lines of the newest report are read.
LEMMA ReadReportStep ==
    ASSUME ProjectionInv, ReadReport
    PROVE  ProjectionInv'
<1>. DEFINE found == ReportLines
            left == IF req.kind \in ByAssignment THEN found ELSE {}
            to == IF req.kind = "hod_analytics" /\ found = {} THEN "answered" ELSE "lines"
<1>1. /\ OthersUnchanged /\ req.phase = "scope" /\ req.kind \in AnalyticsKinds
      /\ req' = [req EXCEPT !.lines = newest, !.scope = found, !.todo = left, !.phase = to]
  BY DEF ReadReport
<1>2. /\ req \in Requests /\ newest \subseteq Tests \X Students
      /\ req.tests = {} /\ req.visible = {} /\ req.students = {} /\ req.areas = {}
  BY <1>1 DEF ProjectionInv, ProjectionTypes, PhaseInv, Moment, Moments
<1>3. /\ found \subseteq newest
      /\ req.kind \in LineKinds => \A p \in found : HeldPlace(p[1])
      /\ req.kind \in LineKinds => \A p \in newest : KeptPlace(p[1]) /\ Fits(p) => p \in found
  <2>1. CASE req.kind = "hod_analytics"
    <3>1. found = {p \in newest : AssignedPlace(p[1])}
      BY <2>1 DEF ReportLines
    <3>. QED
      BY <3>1 DEF AssignedPlace, HeldPlace, KeptPlace, ProjectionInv, ProjectionTypes
  <2>2. CASE req.kind = "subject_analytics"
    <3>1. found = {p \in newest : AreaOf[p[1]] = req.target /\ AssignedPlace(p[1])}
      BY <2>2 DEF ReportLines
    <3>. QED
      BY <2>2, <3>1
         DEF AssignedPlace, HeldPlace, KeptPlace, Fits, ProjectionInv, ProjectionTypes
  <2>3. CASE req.kind \notin LineKinds
    BY <2>3 DEF ReportLines, LineKinds
  <2>. QED  BY <2>1, <2>2, <2>3 DEF LineKinds
<1>4. /\ req.kind \in LineKinds => left = found
      /\ left \subseteq found /\ to \in {"answered", "lines"}
      /\ to = "answered" => req.kind = "hod_analytics" /\ found = {}
  BY DEF LineKinds, ByAssignment
<1>. HIDE DEF found, left, to
<1>5. /\ req' \in Requests /\ req'.role = req.role /\ req'.phase = to
      /\ req'.kind = req.kind /\ req'.target = req.target /\ req'.lines = newest
      /\ req'.todo = left /\ req'.tests = {}
      /\ req'.visible = {} /\ req'.students = {}
      /\ req'.areas = {} /\ req'.scope = found
  <2>1. left \in SUBSET Items /\ found \in SUBSET Items
    BY <1>2, <1>3, <1>4 DEF Items
  <2>. QED  BY <1>1, <1>2, <1>4, <2>1 DEF Requests, Phases
<1>6. /\ ProjectionTypes' /\ KeptRoles' = KeptRoles /\ HeldRole' = HeldRole
      /\ \A b : KeptPlace(b)' = KeptPlace(b) /\ HeldPlace(b)' = HeldPlace(b)
      /\ \A c : HeldClass(c)' = HeldClass(c)
      /\ span'.roles = span.roles /\ span'.assigned = span.assigned
      /\ span'.reports = span.reports /\ core'.roles = core.roles
  BY <1>1, <1>5, TablesKept DEF OthersUnchanged
<1>7. req.kind \notin AssessmentKinds
  BY <1>1 DEF AnalyticsKinds, AssessmentKinds, ReadinessKinds, CompilationKinds
<1>8. PhaseInv'
  BY <1>1, <1>3, <1>4, <1>5, <1>7 DEF PhaseInv
<1>9. RoleInv'
  BY <1>1, <1>4, <1>5, <1>6 DEF ProjectionInv, RoleInv, Looked, AnalyticsKinds, ScopeFirst
<1>10. ShownInv'
  <2>1. newest \in span.reports
    BY DEF ProjectionInv, ProjectionTypes
  <2>. QED  BY <1>3, <1>5, <1>6, <1>7, <2>1 DEF ProjectionInv, ShownInv
<1>11. ServedInv'
  <2>1. req.kind \notin OneByOne \cup AllOrNothing \cup {"teacher_compilation"}
    BY <1>1 DEF AnalyticsKinds, OneByOne, AllOrNothing
  <2>. QED  BY <1>3, <1>4, <1>5, <1>6, <2>1 DEF ServedInv, Fits
<1>12. ShownWasAuthorised'
  BY <1>5 DEF ShownWasAuthorised
<1>13. KeptAuthorityIsServed'
  <2>1. to = "answered" =>
           \A p \in newest : ~KeptPlace(p[1])
    BY <1>3, <1>4 DEF LineKinds, Fits
  <2>. QED  BY <1>4, <1>5, <1>6, <2>1 DEF KeptAuthorityIsServed, Answered, KeptPlace
<1>. QED  BY <1>6, <1>8, <1>9, <1>10, <1>11, <1>12, <1>13 DEF ProjectionInv

\* A line is asked about.
LEMMA CheckLineStep ==
    ASSUME ProjectionInv, NEW p \in Tests \X Students, CheckLine(p)
    PROVE  ProjectionInv'
<1>. DEFINE left == req.todo \ {p}
            visible == IF HasAssignmentForAssessment(p[1]) THEN req.visible \cup {p}
                       ELSE req.visible
<1>1. /\ OthersUnchanged /\ req.phase = "lines" /\ p \in req.todo
      /\ req' = [req EXCEPT !.todo = left, !.visible = visible]
  BY DEF CheckLine
<1>2. /\ req \in Requests /\ req.kind \in AnalyticsKinds
      /\ left \in SUBSET Items /\ visible \in SUBSET (Tests \X Students)
  BY <1>1 DEF ProjectionInv, ProjectionTypes, PhaseInv, Requests
<1>3. left \subseteq req.scope /\ visible \subseteq req.scope
  BY <1>1 DEF ProjectionInv, PhaseInv
<1>4. visible # {} => HeldRole
  BY MayViewIsHeld DEF ProjectionInv, ShownInv
<1>5. /\ req.visible \subseteq visible /\ req.todo \subseteq left \cup {p}
      /\ HasAssignmentForAssessment(p[1]) => p \in visible
  OBVIOUS
<1>. HIDE DEF left, visible
<1>6. /\ req' \in Requests /\ req'.role = req.role /\ req'.phase = req.phase
      /\ req'.kind = req.kind /\ req'.target = req.target /\ req'.lines = req.lines
      /\ req'.todo = left /\ req'.tests = req.tests
      /\ req'.visible = visible /\ req'.students = req.students
      /\ req'.areas = req.areas /\ req'.scope = req.scope
  BY <1>1, <1>2 DEF Requests
<1>7. /\ ProjectionTypes' /\ KeptRoles' = KeptRoles /\ HeldRole' = HeldRole
      /\ \A b : KeptPlace(b)' = KeptPlace(b) /\ HeldPlace(b)' = HeldPlace(b)
      /\ \A c : HeldClass(c)' = HeldClass(c)
      /\ span'.roles = span.roles /\ span'.assigned = span.assigned
      /\ span'.reports = span.reports /\ core'.roles = core.roles
  BY <1>1, <1>6, TablesKept DEF OthersUnchanged
<1>8. PhaseInv'
  BY <1>1, <1>3, <1>6 DEF ProjectionInv, PhaseInv
<1>9. RoleInv'
  BY <1>6, <1>7 DEF ProjectionInv, RoleInv, Looked
<1>10. ShownInv'
  BY <1>4, <1>6, <1>7 DEF ProjectionInv, ShownInv
<1>11. ServedInv'
  <2>1. req.kind \notin OneByOne \cup AllOrNothing \cup {"teacher_compilation"}
    BY <1>2 DEF AnalyticsKinds, OneByOne, AllOrNothing
  <2>2. KeptRoles /\ req.kind \in LineKinds /\ KeptPlace(p[1]) => p \in visible
    BY <1>1, <1>5, KeptMayView DEF Looked, LineKinds, ByAssignment
  <2>. QED  BY <1>1, <1>5, <1>6, <1>7, <2>1, <2>2 DEF ProjectionInv, ServedInv, Fits
<1>12. ShownWasAuthorised' /\ KeptAuthorityIsServed'
  BY <1>1, <1>6 DEF ShownWasAuthorised, KeptAuthorityIsServed, Answered
<1>. QED  BY <1>7, <1>8, <1>9, <1>10, <1>11, <1>12 DEF ProjectionInv

\* An analytics projection answers with learners and learning areas.
LEMMA AnswerStep ==
    ASSUME ProjectionInv, NEW students, NEW areas, OthersUnchanged, req.phase = "lines",
           req' = [req EXCEPT !.phase = "answered", !.students = students, !.areas = areas],
           students \subseteq StudentsOf(req.lines), areas \subseteq AreasOf(req.lines),
           students # {} => HeldRole,
           areas # {} /\ req.kind # "subject_analytics" => HeldRole,
           req.kind \in LineKinds =>
              \A s \in students : \E p \in req.lines : p[2] = s /\ HeldPlace(p[1]),
           req.kind = "hod_analytics" =>
              \A area \in areas : \E c \in Cohorts : <<c, area, "now">> \in span.assigned,
           req.kind = "class_analytics" => /\ \A s \in students : ClassOf[s] = req.target
                                           /\ HeldClass(req.target),
           req.kind \in {"principal_analytics", "deputy_analytics"} =>
              students = StudentsOf(req.lines),
           KeptRoles /\ req.kind \in LineKinds =>
              \A p \in req.lines : KeptPlace(p[1]) /\ Fits(p) => p[2] \in students
    PROVE  ProjectionInv'
<1>1. /\ req \in Requests /\ req.kind \in AnalyticsKinds /\ req.tests = {}
      /\ req.lines \in SUBSET (Tests \X Students)
  <2>1. req \in Requests /\ req.kind \in AnalyticsKinds
    BY DEF ProjectionInv, ProjectionTypes, PhaseInv
  <2>2. req.kind \notin AssessmentKinds
    BY <2>1 DEF AnalyticsKinds, AssessmentKinds, ReadinessKinds, CompilationKinds
  <2>. QED  BY <2>1, <2>2 DEF ProjectionInv, PhaseInv, Requests
<1>2. students \in SUBSET Students
  BY <1>1 DEF StudentsOf
<1>3. areas \in SUBSET Areas
  BY <1>1, ProjectionsAssumption DEF AreasOf
<1>4. /\ req' \in Requests /\ req'.role = req.role /\ req'.phase = "answered"
      /\ req'.kind = req.kind /\ req'.target = req.target /\ req'.lines = req.lines
      /\ req'.todo = req.todo /\ req'.tests = req.tests
      /\ req'.visible = req.visible /\ req'.students = students
      /\ req'.areas = areas /\ req'.scope = req.scope
  BY <1>1, <1>2, <1>3 DEF Requests, Phases
<1>5. /\ ProjectionTypes' /\ KeptRoles' = KeptRoles /\ HeldRole' = HeldRole
      /\ \A b : KeptPlace(b)' = KeptPlace(b) /\ HeldPlace(b)' = HeldPlace(b)
      /\ \A c : HeldClass(c)' = HeldClass(c)
      /\ span'.roles = span.roles /\ span'.assigned = span.assigned
      /\ span'.reports = span.reports /\ core'.roles = core.roles
  BY <1>4, TablesKept DEF OthersUnchanged
<1>6. PhaseInv'
  BY <1>4 DEF ProjectionInv, PhaseInv
<1>7. RoleInv'
  BY <1>4, <1>5 DEF ProjectionInv, RoleInv, Looked
<1>8. ShownInv'
  <2>1. req.lines \in span.reports
    BY DEF ProjectionInv, ShownInv
  <2>. QED  BY <1>4, <1>5, <2>1 DEF ProjectionInv, ShownInv
<1>9. ServedInv'
  BY <1>4 DEF ServedInv
<1>10. ShownWasAuthorised'
  BY <1>1, <1>4, <1>5 DEF ShownWasAuthorised, LineKinds, HeldPlace, HeldClass
<1>11. KeptAuthorityIsServed'
  <2>. SUFFICES ASSUME KeptRoles
                PROVE  KeptAuthorityIsServed'
    BY <1>5 DEF KeptAuthorityIsServed, KeptRoles
  <2>1. CASE req.kind \in LineKinds
    BY <1>4, <1>5, <2>1 DEF KeptAuthorityIsServed, LineKinds, KeptPlace, Fits
  <2>2. CASE req.kind \in {"principal_analytics", "deputy_analytics"}
    BY <1>4, <2>2 DEF KeptAuthorityIsServed
  <2>3. CASE req.kind = "class_analytics"
    BY <1>4, <2>3 DEF KeptAuthorityIsServed
  <2>. QED  BY <1>1, <2>1, <2>2, <2>3 DEF AnalyticsKinds, LineKinds
<1>. QED  BY <1>5, <1>6, <1>7, <1>8, <1>9, <1>10, <1>11 DEF ProjectionInv

\* The answers of the analytics projections.
LEMMA AnalyticsStep ==
    ASSUME ProjectionInv, AnswerHod \/ AnswerSubject \/ AnswerClass \/ AnswerExecutive
    PROVE  ProjectionInv'
<1>1. /\ OthersUnchanged /\ req.phase = "lines" /\ req \in Requests
      /\ req.kind \notin AssessmentKinds /\ req.areas = {}
  BY DEF AnswerHod, AnswerSubject, AnswerClass, AnswerExecutive, ProjectionInv,
         ProjectionTypes, PhaseInv, AnalyticsKinds, AssessmentKinds, ReadinessKinds,
         CompilationKinds
<1>2. /\ req.visible \subseteq req.scope /\ req.scope \subseteq req.lines
      /\ req.visible # {} => HeldRole
      /\ req.kind \in LineKinds => \A p \in req.scope : HeldPlace(p[1])
  BY <1>1 DEF ProjectionInv, PhaseInv, ShownInv
<1>3. /\ req.kind \in Gated => HeldRole
      /\ req.kind = "class_analytics" => HeldClass(req.target)
  BY <1>1 DEF ProjectionInv, RoleInv
<1>4. KeptRoles /\ req.kind \in LineKinds /\ req.todo = {} =>
         \A p \in req.lines : KeptPlace(p[1]) /\ Fits(p) => p \in req.visible
  BY <1>1 DEF ProjectionInv, ServedInv
<1>5. CASE AnswerHod
  <2>. DEFINE areas == {s \in AreasOf(AggregatesRead) \cap AreasOf(req.visible) :
                           MayViewAggregate(s)}
              shown == {p \in req.scope : AreaOf[p[1]] \in AreasOf(req.visible)}
              students == StudentsOf(shown)
  <2>1. /\ req.kind = "hod_analytics" /\ req.todo = {}
        /\ req' = [req EXCEPT !.phase = "answered", !.areas = areas, !.students = students]
    BY <1>5 DEF AnswerHod
  <2>2. req' = [req EXCEPT !.phase = "answered", !.students = students, !.areas = areas]
    BY <1>1, <2>1 DEF Requests
  <2>3. areas \subseteq AreasOf(req.lines)
    BY DEF AggregatesRead
  <2>4. \A area \in areas : \E c \in Cohorts : <<c, area, "now">> \in span.assigned
    BY DEF MayViewAggregate, ProjectionInv, ProjectionTypes
  <2>5. students \subseteq StudentsOf(req.lines)
    BY <1>2 DEF StudentsOf
  <2>6. (students # {} => HeldRole) /\ (areas # {} => HeldRole)
    BY <1>2 DEF StudentsOf, AreasOf
  <2>7. \A s \in students : \E p \in req.lines : p[2] = s /\ HeldPlace(p[1])
    BY <1>2, <2>1 DEF StudentsOf, LineKinds
  <2>8. KeptRoles => \A p \in req.lines : KeptPlace(p[1]) /\ Fits(p) => p[2] \in students
    BY <1>2, <1>4, <2>1 DEF StudentsOf, AreasOf, LineKinds
  <2>. HIDE DEF areas, students
  <2>. QED
    BY <1>1, <2>1, <2>2, <2>3, <2>4, <2>5, <2>6, <2>7, <2>8, AnswerStep
<1>6. CASE AnswerSubject
  <2>. DEFINE areas == AreasOf(AggregatesRead) \cap {req.target}
              students == StudentsOf(req.visible)
  <2>1. /\ req.kind = "subject_analytics" /\ req.todo = {}
        /\ req' = [req EXCEPT !.phase = "answered", !.students = students, !.areas = areas]
    BY <1>6 DEF AnswerSubject
  <2>2. areas \subseteq AreasOf(req.lines)
    BY DEF AggregatesRead
  <2>3. students \subseteq StudentsOf(req.lines)
    BY <1>2 DEF StudentsOf
  <2>4. students # {} => HeldRole
    BY <1>2 DEF StudentsOf
  <2>5. \A s \in students : \E p \in req.lines : p[2] = s /\ HeldPlace(p[1])
    BY <1>2, <2>1 DEF StudentsOf, LineKinds
  <2>6. KeptRoles => \A p \in req.lines : KeptPlace(p[1]) /\ Fits(p) => p[2] \in students
    BY <1>4, <2>1 DEF StudentsOf, LineKinds
  <2>. HIDE DEF areas, students
  <2>. QED  BY <1>1, <2>1, <2>2, <2>3, <2>4, <2>5, <2>6, AnswerStep
<1>7. CASE AnswerClass
  <2>. DEFINE students == {s \in StudentsOf(req.lines) : ClassOf[s] = req.target}
              areas == req.areas
  <2>1. /\ req.kind = "class_analytics"
        /\ req' = [req EXCEPT !.phase = "answered", !.students = students]
    BY <1>7 DEF AnswerClass
  <2>2. req' = [req EXCEPT !.phase = "answered", !.students = students, !.areas = areas]
    BY <1>1, <2>1 DEF Requests
  <2>3. /\ students \subseteq StudentsOf(req.lines) /\ areas \subseteq AreasOf(req.lines)
        /\ \A s \in students : ClassOf[s] = req.target
    BY <1>1
  <2>4. HeldRole /\ HeldClass(req.target) /\ req.kind \notin LineKinds
    BY <1>3, <2>1 DEF Gated, LineKinds
  <2>. HIDE DEF areas, students
  <2>. QED  BY <1>1, <2>1, <2>2, <2>3, <2>4, AnswerStep
<1>8. CASE AnswerExecutive
  <2>. DEFINE students == StudentsOf(req.lines)
              areas == AreasOf(AggregatesRead)
  <2>1. /\ req.kind \in {"principal_analytics", "deputy_analytics"}
        /\ req' = [req EXCEPT !.phase = "answered", !.students = students, !.areas = areas]
    BY <1>8 DEF AnswerExecutive
  <2>2. /\ students = StudentsOf(req.lines) /\ areas \subseteq AreasOf(req.lines)
    BY DEF AggregatesRead
  <2>3. HeldRole /\ req.kind \notin LineKinds
    BY <1>3, <2>1 DEF Gated, LineKinds
  <2>. HIDE DEF areas, students
  <2>. QED  BY <1>1, <2>1, <2>2, <2>3, AnswerStep
<1>. QED  BY <1>5, <1>6, <1>7, <1>8

\* What has been read for the readiness of an assessment at a step of it: the
\* queries before that step and, with the first of them, its status and save.
Passed(step) == {ReadinessQueries[i] : i \in 1..(step - 1)}
                \cup (IF step > 1 THEN {"status", "saved"} ELSE {})
Subjects == req.scope \cup (IF req.kind = "compute_readiness" THEN {req.target} ELSE {})

\* What has been found ready, or in order so far, was not amiss for all of the
\* request; what was amiss for all of it is known of the objects loaded.
ReadingInv ==
    /\ req.phase \in {"idle", "role", "gate", "scope"} => req.ready = {} /\ req.item.of = {}
    /\ req.item.of # {} =>
          /\ req.kind \in ReadinessKinds /\ req.phase \in {"check", "read"}
          /\ req.item.of \subseteq req.scope /\ req.item.step \in 1..8
    /\ req.kind \in ReadinessKinds =>
          \A a \in Subjects : \A fact \in {"status", "schema"} :
             <<a, fact>> \in core.amiss => <<a, fact>> \in req.item.loaded
    /\ \A a \in req.ready : \A fact \in Facts : <<a, fact>> \notin core.amiss
    /\ ~req.item.blocked => \A a \in req.item.of : \A fact \in Passed(req.item.step) :
                               <<a, fact>> \notin core.amiss

\* Every step of readiness passes one query more, and the last one all.
LEMMA QueriesPassed ==
    /\ Passed(1) = {}
    /\ \A step \in 1..8 : Passed(step + 1) \subseteq Passed(step) \cup {ReadinessQueries[step]}
                             \cup (IF step = 1 THEN {"status", "saved"} ELSE {})
    /\ Facts \subseteq Passed(9)
    /\ ReadinessQueries[1] = "run"
    /\ \A step \in 1..8 : ReadinessQueries[step] = "run" => step = 1
<1>1. /\ ReadinessQueries[1] = "run"
      /\ \A step \in 1..8 : ReadinessQueries[step] = "run" => step = 1
      /\ DOMAIN ReadinessQueries = 1..8
  BY DEF ReadinessQueries
<1>2. Passed(1) = {}
  BY DEF Passed
<1>3. ASSUME NEW step \in 1..8, NEW fact \in Passed(step + 1)
      PROVE  fact \in Passed(step) \cup {ReadinessQueries[step]}
                         \cup (IF step = 1 THEN {"status", "saved"} ELSE {})
  <2>1. CASE fact \in {ReadinessQueries[i] : i \in 1..step}
    BY <2>1 DEF Passed
  <2>2. CASE fact \in {"status", "saved"}
    BY <2>2 DEF Passed
  <2>3. (step + 1) - 1 = step
    OBVIOUS
  <2>. QED  BY <1>3, <2>1, <2>2, <2>3 DEF Passed
<1>4. Facts \subseteq Passed(9)
  BY <1>1 DEF Facts, Passed
<1>. QED  BY <1>1, <1>2, <1>3, <1>4

\* A step that leaves readiness alone.
LEMMA ReadingKept ==
    ASSUME ReadingInv, core' = core, req'.ready = req.ready, req'.item = req.item,
           req'.kind = req.kind, req'.target = req.target,
           req.kind \in ReadinessKinds => req'.scope = req.scope,
           req'.phase \in {"idle", "role", "gate", "scope"} =>
              req.phase \in {"idle", "role", "gate", "scope"},
           req.item.of # {} => req'.phase \in {"check", "read"}
    PROVE  ReadingInv'
BY DEF ReadingInv, Subjects, Passed

\* The readiness of an assessment begins.
LEMMA ReadingBegins ==
    ASSUME ReadingInv, NEW a \in req.scope, core' = core, req'.ready = req.ready,
           req'.item = [req.item EXCEPT !.of = {a}, !.step = 1, !.blocked = FALSE],
           req.item \in Readings, req.kind \in ReadinessKinds,
           req'.kind = req.kind, req'.target = req.target, req'.scope = req.scope,
           req'.phase \in {"check", "read"}
    PROVE  ReadingInv'
<1>1. /\ req'.item.of = {a} /\ req'.item.step = 1 /\ req'.item.loaded = req.item.loaded
  BY DEF Readings
<1>2. Passed(req'.item.step) = {}
  BY <1>1, QueriesPassed
<1>. QED  BY <1>1, <1>2 DEF ReadingInv, Subjects, Passed

\* Nothing has been read in the beginning, or when a projection is asked for.
LEMMA ReadingStarts ==
    /\ ProjectionInit => ReadingInv
    /\ \A kind \in Kinds : \A target \in Target(kind) :
          ProjectionInv /\ Ask(kind, target) => ReadingInv'
<1>1. ASSUME ProjectionInit PROVE ReadingInv
  <2>1. /\ req.phase = "idle" /\ req.ready = {} /\ req.item.of = {}
        /\ req.kind = "future_parent"
    BY <1>1 DEF ProjectionInit, Quiet, Fresh, NoItem
  <2>. QED  BY <2>1 DEF ReadingInv, ReadinessKinds
<1>2. ASSUME NEW kind \in Kinds, NEW target \in Target(kind), ProjectionInv, Ask(kind, target)
      PROVE  ReadingInv'
  <2>. DEFINE loads == IF kind = "compute_readiness" THEN LoadedAmiss({target}) ELSE {}
  <2>1. /\ core' = Moment
        /\ req' = [Fresh(kind, target) EXCEPT !.item = [NoItem EXCEPT !.loaded = loads]]
    BY <1>2 DEF Ask, Fresh
  <2>. HIDE DEF loads
  <2>2. /\ req'.kind = kind /\ req'.target = target /\ req'.scope = {} /\ req'.ready = {}
        /\ req'.item.of = {} /\ req'.item.loaded = loads
    BY <2>1 DEF Fresh, NoItem
  <2>3. core'.amiss = amiss
    BY <2>1 DEF Moment
  <2>4. kind = "compute_readiness" => \A fact \in {"status", "schema"} :
           <<target, fact>> \in amiss => <<target, fact>> \in loads
    BY DEF loads, LoadedAmiss
  <2>. QED  BY <2>2, <2>3, <2>4 DEF ReadingInv, Subjects
<1>. QED  BY <1>1, <1>2

\* What others change can only take away from what was amiss all the time.
LEMMA ReadingObserved ==
    ASSUME ReadingInv, Observe
    PROVE  ReadingInv'
<1>1. req' = req /\ core'.amiss \subseteq core.amiss
  BY DEF Observe
<1>. QED  BY <1>1 DEF ReadingInv, Subjects, Passed

\* The objects are loaded as they are.
LEMMA ReadingScope ==
    ASSUME ProjectionInv, ReadingInv, ReadScope
    PROVE  ReadingInv'
<1>. DEFINE found == IF req.kind \in ReadinessKinds THEN ReadinessScope ELSE CompilationScope
            loads == req.kind \in ReadinessKinds \ {"compute_readiness"}
            item == IF loads THEN [req.item EXCEPT !.loaded = LoadedAmiss(found)] ELSE req.item
<1>1. /\ req \in Requests /\ req.item \in Readings /\ req.phase = "scope"
      /\ req.ready = {} /\ req.item.of = {}
  BY DEF ProjectionInv, ProjectionTypes, ReadScope, Requests, ReadingInv
<1>2. /\ req'.kind = req.kind /\ req'.target = req.target /\ req'.scope = found
      /\ req'.ready = {} /\ req'.item = item
      /\ core' = IF loads THEN [core EXCEPT !.amiss = amiss] ELSE core
  <2>1. PICK tests, to, loaded :
           /\ req' = [req EXCEPT !.todo = found, !.scope = found, !.tests = tests,
                                 !.item.loaded = loaded, !.phase = to]
           /\ loaded = IF loads THEN LoadedAmiss(found) ELSE req.item.loaded
    BY DEF ReadScope
  <2>2. core' = IF loads THEN [core EXCEPT !.amiss = amiss] ELSE core
    BY DEF ReadScope
  <2>. HIDE DEF found, loads
  <2>3. [req.item EXCEPT !.loaded = loaded] = item
    BY <1>1, <2>1 DEF Readings
  <2>. HIDE DEF item
  <2>. QED  BY <1>1, <2>1, <2>2, <2>3 DEF Requests
<1>3. CASE loads
  <2>. HIDE DEF found
  <2>1. item.of = {} /\ item.loaded = LoadedAmiss(found)
    BY <1>1, <1>3 DEF Readings
  <2>2. core'.amiss = amiss
    BY <1>2, <1>3 DEF ProjectionInv, ProjectionTypes, Moments
  <2>3. \A a \in found : \A fact \in {"status", "schema"} :
           <<a, fact>> \in amiss => <<a, fact>> \in LoadedAmiss(found)
    BY DEF LoadedAmiss
  <2>. HIDE DEF item
  <2>. QED  BY <1>2, <1>3, <2>1, <2>2, <2>3 DEF ReadingInv, Subjects
<1>4. CASE req.kind = "compute_readiness"
  <2>1. found = {req.target} /\ item = req.item /\ core' = core
    <3>1. ~loads /\ req.kind \in ReadinessKinds
      BY <1>4 DEF ReadinessKinds
    <3>2. ReadinessScope = {req.target}
      BY <1>4 DEF ReadinessScope, ByAssignment
    <3>. QED  BY <1>2, <3>1, <3>2
  <2>. HIDE DEF found, item, loads
  <2>2. Subjects' = {req.target} /\ req.target \in Subjects
    BY <1>2, <1>4, <2>1 DEF Subjects
  <2>. QED  BY <1>1, <1>2, <1>4, <2>1, <2>2 DEF ReadingInv
<1>5. CASE req.kind \notin ReadinessKinds
  BY <1>1, <1>2, <1>5 DEF ReadingInv
<1>. QED  BY <1>3, <1>4, <1>5

\* A query about an assessment that finds nothing against it: it was not amiss
\* in this respect all the time.
LEMMA FoundNothing ==
    ASSUME ProjectionInv, ReadingInv, NEW a, req.item.of = {a},
           FALSE \in Answers(a, ReadinessQueries[req.item.step])
    PROVE  /\ <<a, ReadinessQueries[req.item.step]>> \notin core.amiss
           /\ req.item.step = 1 => /\ <<a, "status">> \notin core.amiss
                                   /\ <<a, "saved">> \notin core.amiss
<1>. DEFINE query == ReadinessQueries[req.item.step]
<1>1. core.amiss \subseteq amiss
  BY DEF ProjectionInv, ProjectionTypes
<1>2. \A fact \in {"status", "schema"} :
         <<a, fact>> \in core.amiss => <<a, fact>> \in req.item.loaded
  BY DEF ReadingInv, Subjects
<1>3. CASE query = "run"
  <2>1. <<a, "run">> \notin amiss /\ <<a, "saved">> \notin core.amiss
        /\ <<a, "status">> \notin req.item.loaded
    BY <1>3 DEF Answers
  <2>. QED  BY <1>1, <1>2, <1>3, <2>1
<1>4. CASE query = "schema"
  <2>1. <<a, "schema">> \notin req.item.loaded
    BY <1>4 DEF Answers
  <2>2. req.item.step # 1
    BY <1>4, QueriesPassed
  <2>. QED  BY <1>2, <1>4, <2>1, <2>2
<1>5. CASE query \notin {"run", "schema"}
  <2>1. Answers(a, query) = {(<<a, query>> \in amiss)}
    BY <1>5 DEF Answers
  <2>2. <<a, query>> \notin amiss
    BY <2>1, Zenon
  <2>3. req.item.step # 1
    BY <1>5, QueriesPassed
  <2>. QED  BY <1>1, <2>2, <2>3
<1>. QED  BY <1>3, <1>4, <1>5

\* A query about an assessment; the last one completes its readiness.
LEMMA ReadingGoesOn ==
    ASSUME ProjectionInv, ReadingInv, NEW a \in Tests, LookUpFact(a)
    PROVE  ReadingInv'
<1>. DEFINE query == ReadinessQueries[req.item.step]
            done == [req.item EXCEPT !.of = {}, !.step = 0, !.blocked = FALSE]
            on(b) == [req.item EXCEPT !.step = req.item.step + 1, !.blocked = b]
            found(b) == IF b THEN req.ready ELSE req.ready \cup {a}
            to == IF req.phase = "read" /\ req.todo = {} THEN "answered" ELSE req.phase
<1>1. /\ core' = core /\ req.item.of = {a} /\ req \in Requests /\ req.item \in Readings
      /\ req.phase \in {"check", "read"} /\ req.item.step \in 1..8
      /\ req.kind \in ReadinessKinds
  BY DEF LookUpFact, OthersUnchanged, ReadingInv, ProjectionInv, ProjectionTypes, Requests
<1>2. PICK answer \in Answers(a, query) :
         req' = IF req.item.step < 8
                THEN [req EXCEPT !.item = on(req.item.blocked \/ answer)]
                ELSE [req EXCEPT !.item = done, !.ready = found(req.item.blocked \/ answer),
                                 !.phase = to]
  <2>1. Len(ReadinessQueries) = 8
    BY DEF ReadinessQueries
  <2>. QED  BY <2>1, Zenon DEF LookUpFact
<1>3. PICK blocked \in BOOLEAN : blocked = (req.item.blocked \/ answer)
  OBVIOUS
<1>4. ~blocked => ~req.item.blocked /\ FALSE \in Answers(a, query)
  <2>1. answer \in BOOLEAN
    BY <1>2, AnswerTypes
  <2>. QED  BY <1>2, <1>3, <2>1
<1>5. ~blocked => \A fact \in Passed(req.item.step + 1) : <<a, fact>> \notin core.amiss
  <2>. SUFFICES ASSUME ~blocked PROVE \A fact \in Passed(req.item.step + 1) :
                                         <<a, fact>> \notin core.amiss
    OBVIOUS
  <2>1. /\ <<a, query>> \notin core.amiss
        /\ req.item.step = 1 => /\ <<a, "status">> \notin core.amiss
                                /\ <<a, "saved">> \notin core.amiss
    BY <1>1, <1>4, FoundNothing
  <2>2. \A fact \in Passed(req.item.step) : <<a, fact>> \notin core.amiss
    BY <1>1, <1>4 DEF ReadingInv
  <2>3. Passed(req.item.step + 1) \subseteq Passed(req.item.step) \cup {query}
           \cup (IF req.item.step = 1 THEN {"status", "saved"} ELSE {})
    BY <1>1, QueriesPassed
  <2>. QED  BY <2>1, <2>2, <2>3
<1>6. CASE req.item.step < 8
  <2>1. req' = [req EXCEPT !.item = on(blocked)]
    BY <1>2, <1>3, <1>6
  <2>2. /\ on(blocked).of = {a} /\ on(blocked).step = req.item.step + 1
        /\ on(blocked).blocked = blocked /\ on(blocked).loaded = req.item.loaded
    BY <1>1 DEF Readings
  <2>. HIDE DEF on
  <2>3. /\ req'.item = on(blocked) /\ req'.ready = req.ready /\ req'.phase = req.phase
        /\ req'.kind = req.kind /\ req'.target = req.target /\ req'.scope = req.scope
    BY <1>1, <2>1 DEF Requests
  <2>4. req.item.step + 1 \in 1..8
    BY <1>1, <1>6
  <2>5. Passed(req'.item.step) = Passed(req.item.step + 1)
    BY <2>2, <2>3
  <2>. QED
    BY <1>1, <1>5, <2>2, <2>3, <2>4, <2>5 DEF ReadingInv, Subjects
<1>7. CASE req.item.step = 8
  <2>1. req' = [req EXCEPT !.item = done, !.ready = found(blocked), !.phase = to]
    <3>1. ~(req.item.step < 8)
      BY <1>7
    <3>. QED  BY <1>2, <1>3, <3>1
  <2>2. done.of = {} /\ done.loaded = req.item.loaded
    BY <1>1 DEF Readings
  <2>3. to \in {"check", "read", "answered"}
    BY <1>1
  <2>4. \A b \in found(blocked) : \A fact \in Facts : <<b, fact>> \notin core.amiss
    <3>1. ~blocked => \A fact \in Facts : <<a, fact>> \notin core.amiss
      <4>1. req.item.step + 1 = 9
        BY <1>7
      <4>. QED  BY <1>5, <4>1, QueriesPassed
    <3>. QED  BY <3>1 DEF ReadingInv
  <2>. HIDE DEF done, found, to
  <2>5. /\ req'.item = done /\ req'.ready = found(blocked) /\ req'.phase = to
        /\ req'.kind = req.kind /\ req'.target = req.target /\ req'.scope = req.scope
    BY <1>1, <2>1 DEF Requests
  <2>. QED  BY <1>1, <2>2, <2>3, <2>4, <2>5 DEF ReadingInv, Subjects
<1>. QED  BY <1>1, <1>6, <1>7

\* The policies about an assessment, and the beginning of its readiness.
LEMMA ReadingChecked ==
    ASSUME ProjectionInv, ReadingInv, NEW a \in Tests,
           CheckReadiness(a) \/ ReadReadiness(a) \/ CheckCompilation(a)
    PROVE  ReadingInv'
<1>1. req \in Requests /\ req.item \in Readings
  BY DEF ProjectionInv, ProjectionTypes, Requests
<1>2. /\ core' = core /\ a \in req.scope /\ req.phase \in {"check", "read"}
      /\ req.phase = "read" => req.kind \in ReadinessKinds
  BY DEF CheckReadiness, ReadReadiness, CheckCompilation, OthersUnchanged, ProjectionInv,
         PhaseInv, ReadinessKinds
<1>. DEFINE left == req.todo \ {a}
            more == req.tests \cup {a}
            item == [req.item EXCEPT !.of = {a}, !.step = 1, !.blocked = FALSE]
<1>3. \/ req' = [req EXCEPT !.todo = left]
      \/ req' = [req EXCEPT !.todo = left, !.tests = more]
      \/ req' = [req EXCEPT !.todo = left, !.tests = more, !.item = item]
           /\ req.kind \in ReadinessKinds
      \/ req' = [req EXCEPT !.todo = left, !.item = item] /\ req.kind \in ReadinessKinds
  <2>1. CASE CheckReadiness(a)
    <3>1. /\ req.kind \in ReadinessKinds
          /\ \/ req' = [req EXCEPT !.todo = left]
             \/ req' = [[req EXCEPT !.todo = left] EXCEPT !.tests = @ \cup {a}]
             \/ req' = Begun([[req EXCEPT !.todo = left] EXCEPT !.tests = @ \cup {a}], a)
      BY <2>1 DEF CheckReadiness
    <3>. QED  BY <1>1, <3>1 DEF Requests, Begun
  <2>2. CASE ReadReadiness(a)
    <3>1. req' = Begun([req EXCEPT !.todo = left], a) /\ req.kind \in ReadinessKinds
      BY <1>2, <2>2 DEF ReadReadiness
    <3>. QED  BY <1>1, <3>1 DEF Requests, Begun
  <2>3. CASE CheckCompilation(a)
    <3>1. req' = [req EXCEPT !.todo = left,
                    !.tests = IF MayViewCompilation(a) THEN more ELSE req.tests]
      BY <2>3 DEF CheckCompilation
    <3>2. CASE MayViewCompilation(a)
      BY <3>1, <3>2
    <3>3. CASE ~MayViewCompilation(a)
      BY <1>1, <3>1, <3>3 DEF Requests
    <3>. QED  BY <3>2, <3>3
  <2>. QED  BY <2>1, <2>2, <2>3
<1>. HIDE DEF left, more, item
<1>4. /\ req'.ready = req.ready /\ req'.kind = req.kind /\ req'.target = req.target
      /\ req'.scope = req.scope /\ req'.phase = req.phase
      /\ req'.item = req.item \/ (req'.item = item /\ req.kind \in ReadinessKinds)
  BY <1>1, <1>3 DEF Requests
<1>5. CASE req'.item = req.item
  BY <1>2, <1>4, <1>5, ReadingKept
<1>6. CASE req'.item = item /\ req.kind \in ReadinessKinds
  BY <1>1, <1>2, <1>4, <1>6, ReadingBegins DEF item
<1>. QED  BY <1>4, <1>5, <1>6

\* What the others change stays of its type.
LEMMA MeanwhileStep ==
    ASSUME ProjectionInv,
           \/ \E r \in RoleCodes : ChangeRole(r)
           \/ \E p \in Placements : ChangeAssignment(p)
           \/ \E c \in Cohorts : ChangeCohort(c)
           \/ \E area \in Areas : ChangeArea(area)
           \/ \E fact \in Volatile : ChangeReadiness(fact)
           \/ \E S \in SUBSET Tests : FinishReportRun(S)
    PROVE  Observe /\ Moment' \in Moments
<1>1. /\ roles \subseteq RoleCodes /\ assigned \subseteq Placements
      /\ active \subseteq Cohorts \cup Areas /\ amiss \subseteq Tests \X Facts
      /\ newest \subseteq Tests \X Students
  BY DEF ProjectionInv, ProjectionTypes, Moment, Moments
<1>2. /\ Observe
      /\ roles' \in SUBSET RoleCodes /\ assigned' \in SUBSET Placements
      /\ active' \in SUBSET (Cohorts \cup Areas) /\ amiss' \in SUBSET (Tests \X Facts)
      /\ newest' \in SUBSET (Tests \X Students)
  <2>1. CASE \E r \in RoleCodes : ChangeRole(r)
    BY <1>1, <2>1 DEF ChangeRole, Toggle
  <2>2. CASE \E p \in Placements : ChangeAssignment(p)
    BY <1>1, <2>2 DEF ChangeAssignment, Toggle
  <2>3. CASE \/ \E c \in Cohorts : ChangeCohort(c)
             \/ \E area \in Areas : ChangeArea(area)
    BY <1>1, <2>3 DEF ChangeCohort, ChangeArea, Toggle
  <2>4. CASE \E fact \in Volatile : ChangeReadiness(fact)
    BY <1>1, <2>4, ProjectionsAssumption DEF ChangeReadiness, Toggle
  <2>5. CASE \E S \in SUBSET Tests : FinishReportRun(S)
    BY <1>1, <2>5 DEF FinishReportRun
  <2>. QED  BY <2>1, <2>2, <2>3, <2>4, <2>5
<1>3. {newest'} \in SUBSET SUBSET (Tests \X Students)
  BY <1>2
<1>. QED  BY <1>2, <1>3 DEF Moment, Moments

\* The steps that leave readiness alone.
LEMMA OtherReadingSteps ==
    ASSUME ProjectionInv, ReadingInv,
           \/ LookUpRole \/ PassGate \/ CheckFirstCompilation \/ FinishChecks \/ ReadReport
           \/ \E p \in Tests \X Students : CheckLine(p)
           \/ AnswerHod \/ AnswerSubject \/ AnswerClass \/ AnswerExecutive
    PROVE  ReadingInv'
<1>1. req \in Requests
  BY DEF ProjectionInv, ProjectionTypes
<1>2. core' = core
  BY DEF LookUpRole, PassGate, CheckFirstCompilation, FinishChecks, ReadReport, CheckLine,
         AnswerHod, AnswerSubject, AnswerClass, AnswerExecutive, OthersUnchanged
<1>3. CASE LookUpRole
  <2>1. PICK r, to : req' = [req EXCEPT !.role = r, !.phase = to]
    BY <1>3 DEF LookUpRole
  <2>2. req.phase = "role" /\ req.item.of = {}
    BY <1>3 DEF LookUpRole, ReadingInv
  <2>3. /\ req'.ready = req.ready /\ req'.item = req.item /\ req'.kind = req.kind
        /\ req'.target = req.target /\ req'.scope = req.scope
    BY <1>1, <2>1 DEF Requests
  <2>. QED  BY <1>2, <2>2, <2>3, ReadingKept
<1>4. CASE PassGate
  <2>1. PICK to : req' = [req EXCEPT !.phase = to]
    BY <1>4 DEF PassGate
  <2>2. req.phase = "gate" /\ req.item.of = {}
    BY <1>4 DEF PassGate, ReadingInv
  <2>3. /\ req'.ready = req.ready /\ req'.item = req.item /\ req'.kind = req.kind
        /\ req'.target = req.target /\ req'.scope = req.scope
    BY <1>1, <2>1 DEF Requests
  <2>. QED  BY <1>2, <2>2, <2>3, ReadingKept
<1>5. CASE CheckFirstCompilation
  <2>1. PICK tests : req' = [req EXCEPT !.todo = {}, !.tests = tests]
    BY <1>5 DEF CheckFirstCompilation
  <2>2. req.phase = "check"
    BY <1>5 DEF CheckFirstCompilation
  <2>3. /\ req'.ready = req.ready /\ req'.item = req.item /\ req'.kind = req.kind
        /\ req'.target = req.target /\ req'.scope = req.scope /\ req'.phase = req.phase
    BY <1>1, <2>1 DEF Requests
  <2>. QED  BY <1>2, <2>2, <2>3, ReadingKept
<1>6. CASE FinishChecks
  <2>1. /\ req.item.of = {}
        /\ \/ req' = [req EXCEPT !.phase = "read", !.todo = req.tests]
           \/ req' = [req EXCEPT !.phase = "answered"]
    BY <1>6 DEF FinishChecks
  <2>2. /\ req'.ready = req.ready /\ req'.item = req.item /\ req'.kind = req.kind
        /\ req'.target = req.target /\ req'.scope = req.scope
        /\ req'.phase \in {"read", "answered"}
    BY <1>1, <2>1 DEF Requests
  <2>. QED  BY <1>2, <2>1, <2>2, ReadingKept
<1>7. CASE ReadReport
  <2>1. PICK lines, scope, left, to :
           req' = [req EXCEPT !.lines = lines, !.scope = scope, !.todo = left, !.phase = to]
    BY <1>7 DEF ReadReport
  <2>2. req.phase = "scope" /\ req.item.of = {} /\ req.kind \notin ReadinessKinds
    BY <1>7 DEF ReadReport, ReadingInv, AnalyticsKinds, ReadinessKinds
  <2>3. /\ req'.ready = req.ready /\ req'.item = req.item /\ req'.kind = req.kind
        /\ req'.target = req.target
    BY <1>1, <2>1 DEF Requests
  <2>. QED  BY <1>2, <2>2, <2>3, ReadingKept
<1>8. CASE \E p \in Tests \X Students : CheckLine(p)
  <2>1. PICK left, visible : req' = [req EXCEPT !.todo = left, !.visible = visible]
    BY <1>8 DEF CheckLine
  <2>2. req.phase = "lines" /\ req.item.of = {}
    BY <1>8 DEF CheckLine, ReadingInv
  <2>3. /\ req'.ready = req.ready /\ req'.item = req.item /\ req'.kind = req.kind
        /\ req'.target = req.target /\ req'.scope = req.scope /\ req'.phase = req.phase
    BY <1>1, <2>1 DEF Requests
  <2>. QED  BY <1>2, <2>2, <2>3, ReadingKept
<1>9. CASE AnswerHod \/ AnswerSubject \/ AnswerClass \/ AnswerExecutive
  <2>1. PICK students, areas :
           \/ req' = [req EXCEPT !.phase = "answered", !.students = students, !.areas = areas]
           \/ req' = [req EXCEPT !.phase = "answered", !.areas = areas, !.students = students]
           \/ req' = [req EXCEPT !.phase = "answered", !.students = students]
    BY <1>9 DEF AnswerHod, AnswerSubject, AnswerClass, AnswerExecutive
  <2>2. req.phase = "lines" /\ req.item.of = {}
    BY <1>9 DEF AnswerHod, AnswerSubject, AnswerClass, AnswerExecutive, ReadingInv
  <2>3. /\ req'.ready = req.ready /\ req'.item = req.item /\ req'.kind = req.kind
        /\ req'.target = req.target /\ req'.scope = req.scope /\ req'.phase = "answered"
    BY <1>1, <2>1 DEF Requests
  <2>. QED  BY <1>2, <2>2, <2>3, ReadingKept
<1>. QED  BY <1>3, <1>4, <1>5, <1>6, <1>7, <1>8, <1>9

\* Every step of the request, and of the others meanwhile, keeps the invariants.
LEMMA NextProjections ==
    ProjectionInv /\ ReadingInv /\ [ProjectionNext]_projectionVars
      => ProjectionInv' /\ ReadingInv'
<1>. SUFFICES ASSUME ProjectionInv, ReadingInv, [ProjectionNext]_projectionVars
              PROVE  ProjectionInv' /\ ReadingInv'
  OBVIOUS
<1>1. CASE UNCHANGED projectionVars
  <2>1. UNCHANGED <<roles, assigned, active, amiss, newest, req, span, core>>
    BY <1>1 DEF projectionVars, tables
  <2>2. /\ ProjectionTypes' = ProjectionTypes /\ PhaseInv' = PhaseInv
        /\ RoleInv' = RoleInv /\ ShownInv' = ShownInv
    BY <2>1 DEF ProjectionTypes, Moment, PhaseInv, RoleInv, ShownInv, KeptRoles, Looked,
                HeldRole, HeldPlace, HeldClass
  <2>3. ServedInv' = ServedInv
    BY <2>1 DEF ServedInv, KeptRoles, KeptTests, KeptPlace, Steady, Fits, HeldPlace
  <2>4. /\ ShownWasAuthorised' = ShownWasAuthorised
        /\ KeptAuthorityIsServed' = KeptAuthorityIsServed
    BY <2>1 DEF ShownWasAuthorised, KeptAuthorityIsServed, Answered, HeldRole, HeldPlace
  <2>5. ReadingInv' = ReadingInv
    BY <2>1 DEF ReadingInv, Subjects
  <2>. QED  BY <2>2, <2>3, <2>4, <2>5 DEF ProjectionInv
<1>2. CASE /\ req.phase # "answered"
           /\ \/ \E r \in RoleCodes : ChangeRole(r)
              \/ \E p \in Placements : ChangeAssignment(p)
              \/ \E c \in Cohorts : ChangeCohort(c)
              \/ \E area \in Areas : ChangeArea(area)
              \/ \E fact \in Volatile : ChangeReadiness(fact)
              \/ \E S \in SUBSET Tests : FinishReportRun(S)
  <2>1. Observe /\ Moment' \in Moments
    BY <1>2, MeanwhileStep
  <2>. QED  BY <1>2, <2>1, ObserveStep, ReadingObserved
<1>3. ASSUME NEW kind \in Kinds, NEW target \in Target(kind), Ask(kind, target)
      PROVE  ProjectionInv' /\ ReadingInv'
  BY <1>3, AskStep, ReadingStarts
<1>4. CASE LookUpRole \/ PassGate
  BY <1>4, LookUpStep, GateStep, OtherReadingSteps
<1>5. CASE ReadScope
  BY <1>5, ScopeStep, ReadingScope
<1>6. ASSUME NEW a \in Tests, \/ CheckReadiness(a) \/ ReadReadiness(a) \/ LookUpFact(a)
                               \/ CheckCompilation(a)
      PROVE  ProjectionInv' /\ ReadingInv'
  <2>1. req.item.of # {} => req.phase \in {"check", "read"} /\ req.item.step \in 1..8
    BY DEF ReadingInv
  <2>2. ProjectionInv'
    BY <1>6, <2>1, CheckItemStep, ReadItemStep
  <2>3. ReadingInv'
    BY <1>6, ReadingGoesOn, ReadingChecked
  <2>. QED  BY <2>2, <2>3
<1>7. CASE CheckFirstCompilation \/ FinishChecks \/ ReadReport
  BY <1>7, CheckFirstStep, FinishChecksStep, ReadReportStep, OtherReadingSteps
<1>8. ASSUME NEW p \in Tests \X Students, CheckLine(p)
      PROVE  ProjectionInv' /\ ReadingInv'
  BY <1>8, CheckLineStep, OtherReadingSteps
<1>9. CASE AnswerHod \/ AnswerSubject \/ AnswerClass \/ AnswerExecutive
  BY <1>9, AnalyticsStep, OtherReadingSteps
<1>. QED
  BY <1>1, <1>2, <1>3, <1>4, <1>5, <1>6, <1>7, <1>8, <1>9 DEF ProjectionNext

\* The invariants of projections hold in every reachable state.
LEMMA ProjectionInvariant == ProjectionSpec => [](ProjectionInv /\ ReadingInv)
BY InitProjections, ReadingStarts, NextProjections, PTL DEF ProjectionSpec

\* Readiness, compilation and analytics show what was the actor's to see at some
\* moment of the request, from one report, for any school, whatever changes
\* between the queries and the checks.  What is called ready was amiss in no
\* respect all the time since the assessments were loaded: each query found its
\* fact in order at a moment of its own.
THEOREM ShownWasTrueAlways == ProjectionSpec => []ShownWasTrue
<1>1. ProjectionInv /\ ReadingInv => ShownWasTrue
  <2>. SUFFICES ASSUME ProjectionInv, ReadingInv PROVE AnswerFromOneReport /\ ReadyWasReady
    BY DEF ProjectionInv, ShownWasTrue
  <2>1. AnswerFromOneReport
    <3>1. \/ req.lines \in span.reports
          \/ req.students = {} /\ req.areas = {} /\ newest \in span.reports
      BY DEF ProjectionInv, ProjectionTypes, ShownInv
    <3>. QED  BY <3>1 DEF ProjectionInv, ShownInv, AnswerFromOneReport
  <2>2. ReadyWasReady
    BY DEF ReadingInv, ReadyWasReady, ReadyForReports
  <2>. QED  BY <2>1, <2>2
<1>. QED  BY <1>1, ProjectionInvariant, PTL

\* Whoever kept the roles, assignments, cohorts and learning areas that count for
\* the whole request is shown all that they authorise, for any school.
THEOREM KeptAuthorityIsServedAlways == ProjectionSpec => []KeptAuthorityIsServed
BY ProjectionInvariant, PTL DEF ProjectionInv
=============================================================================
