--------------------------- MODULE CurriculumTruth ---------------------------
(***************************************************************************)
(* The curriculum control plane of app/curriculum and its use by grading:  *)
(* change sets are reviewed and published, schools adopt what is           *)
(* published, versions are withdrawn, and Assessment.save binds an         *)
(* assessment to a version its school has adopted.                         *)
(*                                                                         *)
(* Every service works on an object its caller has loaded and writes the   *)
(* whole row back, at READ COMMITTED and without a row lock.  A worker's   *)
(* job holds that object.  Where validation reads other tables, the reads  *)
(* are one step and the write with its commit another: the facts read are  *)
(* monotone but for the active publication, so that reads passed one by    *)
(* one all held when the publication was read.                             *)
(*                                                                         *)
(* Roles, texts and effective dates are tests of one call's inputs, taken  *)
(* to succeed; versions stay is_active, and learning area and rubric are   *)
(* taken to fit every version.  The one service that saves an assessment,  *)
(* bind_schema_to_assessment, keeps its status and version; other callers  *)
(* of Assessment.save set any status and version.                          *)
(***************************************************************************)
EXTENDS Naturals, Sequences, FiniteSets

CONSTANTS ChangeSets, Versions, Schools, Assessments,
          Workers,          \* concurrent calls of the services
          Proposes,         \* the proposed_curriculum_version of a change set
          SchoolOf,         \* the tenant of an assessment
          NoVersion,        \* a null curriculum_version
          MaxPublications,  \* bound: CurriculumPublication rows
          MaxCalls          \* bound: service calls begun

ASSUME CurriculumAssumption ==
    /\ Proposes \in [ChangeSets -> Versions]
    /\ SchoolOf \in [Assessments -> Schools]
    /\ NoVersion \notin Versions
    /\ MaxPublications \in Nat
    /\ MaxCalls \in Nat

VARIABLES change,        \* status of each CurriculumChangeSet
          publications,  \* CurriculumPublication rows
          adoption,      \* status of each school's SchoolCurriculumAdoption
          withdrawn,     \* versions with a withdrawn CurriculumVersionWithdrawal
          assessment,    \* Assessment rows
          graded,        \* assessments with submitted batches and records
          job,           \* what each worker has loaded or checked
          calls,         \* service calls begun
          history        \* what has happened before, see HistoryType

\* history serves the properties: no guard reads it.
vars == <<change, publications, adoption, withdrawn, assessment, graded, job, calls,
          history>>

ChangeStatus == {"none", "detected", "quarantined", "under_review", "approved",
                 "rejected", "published", "superseded"}
AdoptionStatus == {"none", "scheduled", "active"}

\* "closed" stands for locked, submitted, approved and archived.
AssessmentStatus == {"draft", "open", "closed"}
Rows == [status : AssessmentStatus, version : Versions \cup {NoVersion}, locked : BOOLEAN]

Idle == [at |-> "idle"]
ReviewJobs == [at : {"reviewing"}, id : ChangeSets, status : ChangeStatus]
AdoptionJobs == [at : {"scheduling", "activating"}, school : Schools, version : Versions]
EditJobs == [at : {"editing", "saving"}, id : Assessments, row : Rows]
SubmitJobs == [at : {"submitting"}, id : Assessments]
Jobs == {Idle} \cup ReviewJobs \cup AdoptionJobs \cup EditJobs \cup SubmitJobs

\* outdated:   workers whose object was loaded before the last commit about it
\* underway:   workers past their checks of a version when it was withdrawn
\* approved:   change sets whose approval was ever committed
\* stale:      change sets written from an object that was out of date
\* overlapped: assessments written from an object that was out of date
\* relabelled: assessments whose version a draft save changed after the lock
\* under:      the version an assessment had when its grades were committed
HistoryType ==
    [outdated : SUBSET Workers, underway : [Versions -> SUBSET Workers],
     approved : SUBSET ChangeSets, stale : SUBSET ChangeSets,
     overlapped : SUBSET Assessments, relabelled : SUBSET Assessments,
     under : [Assessments -> Versions \cup {NoVersion}]]

-----------------------------------------------------------------------------
(* The state machine of change sets and the guards of curriculum use.       *)

Allowed(status) ==
    CASE status = "detected"     -> {"quarantined", "under_review", "rejected"}
      [] status = "quarantined"  -> {"under_review", "rejected"}
      [] status = "under_review" -> {"approved", "rejected"}
      [] status = "approved"     -> {"published", "rejected"}
      [] status = "published"    -> {"superseded"}
      [] OTHER                   -> {}

\* _move_change_set_to_review, in memory.
MovedToReview(status) ==
    IF status \in {"detected", "quarantined"} THEN "under_review" ELSE status

\* Faulty variant of MayApprove: the transition is not validated.
MayApproveAny(status) == status # "approved"

MayApprove(status) == "approved" \in Allowed(MovedToReview(status))

MayReject(status) ==
    \/ status \in {"detected", "quarantined", "under_review", "approved"}
    \/ "rejected" \in Allowed(status)

\* Faulty variant of MayPublish: the transition is not validated.
MayPublishUnreviewed(status) == status # "published"

MayPublish(status) == "published" \in Allowed(status)

HasActivePublication(v) ==
    \E i \in DOMAIN publications : publications[i].version = v /\ publications[i].active

\* Faulty variant of Adoptable: withdrawals are not looked up.
AdoptableIfPublished(v) == HasActivePublication(v)

\* SchoolCurriculumAdoption.clean for a scheduled or active adoption.
Adoptable(v) == HasActivePublication(v) /\ v \notin withdrawn

\* validate_curriculum_context_for_grading_binding
Bindable(s, v) ==
    /\ v \notin withdrawn
    /\ HasActivePublication(v)
    /\ adoption[s][v] \in {"scheduled", "active"}

\* assessment_status_requires_binding
Operational(status) == status # "draft"

\* _curriculum_context_changed_fields: against the row as it is stored now.
ContextChanged(a, row) == row.version # assessment[a].version

\* Faulty variant of BindingValid: preserved context is checked again.
BindingRechecked(a, row) ==
    Operational(row.status) =>
        row.version # NoVersion /\ Bindable(SchoolOf[a], row.version)

\* _validate_curriculum_binding_for_status
BindingValid(a, row) ==
    Operational(row.status) =>
        /\ row.version # NoVersion
        /\ \/ row.locked /\ ~ContextChanged(a, row)
           \/ Bindable(SchoolOf[a], row.version)

\* Faulty variant of ContextMutable: drafts may change although graded.
ContextMutableInDraft(a, row) ==
    ContextChanged(a, row) /\ Operational(row.status) => a \notin graded

\* _validate_curriculum_context_immutability
ContextMutable(a, row) == ContextChanged(a, row) => a \notin graded

-----------------------------------------------------------------------------
Init ==
    /\ change = [c \in ChangeSets |-> "none"]
    /\ publications = <<>>
    /\ adoption = [s \in Schools |-> [v \in Versions |-> "none"]]
    /\ withdrawn = {}
    /\ assessment = [a \in Assessments |->
                       [status |-> "draft", version |-> NoVersion, locked |-> FALSE]]
    /\ graded = {}
    /\ job = [w \in Workers |-> Idle]
    /\ calls = 0
    /\ history = [outdated |-> {}, underway |-> [v \in Versions |-> {}], approved |-> {},
                  stale |-> {}, overlapped |-> {}, relabelled |-> {},
                  under |-> [a \in Assessments |-> NoVersion]]

\* A worker that is free takes a call.
Begin(w, new) ==
    /\ job[w] = Idle
    /\ calls < MaxCalls
    /\ calls' = calls + 1
    /\ job' = [job EXCEPT ![w] = new]
    /\ history' = [history EXCEPT !.outdated = @ \ {w},
                                  !.underway = [v \in Versions |-> @[v] \ {w}]]

\* It goes on with its call, or is done with it.
Continue(w, new) ==
    /\ job' = [job EXCEPT ![w] = new]
    /\ UNCHANGED calls

changeVars == <<change, publications>>
schoolVars == <<adoption, withdrawn>>
gradingVars == <<assessment, graded>>

\* create_curriculum_change_set: the status argument is ignored.
CreateChangeSet(c) ==
    /\ change[c] = "none"
    /\ change' = [change EXCEPT ![c] = "detected"]
    /\ UNCHANGED <<publications, schoolVars, gradingVars, job, calls, history>>

LoadChangeSet(w, c) ==
    /\ change[c] # "none"
    /\ Begin(w, [at |-> "reviewing", id |-> c, status |-> change[c]])
    /\ UNCHANGED <<changeVars, schoolVars, gradingVars>>

\* Other workers that hold an object of the given kinds for the same row.
Holders(w, kinds) ==
    {u \in Workers \ {w} : job[u].at \in kinds /\ job[u].id = job[w].id}

\* _save_clean(change_set): the object of w, with its new status, replaces the
\* row; the caller keeps the object.
SaveChangeSet(w, status) ==
    LET c == job[w].id
    IN  /\ change' = [change EXCEPT ![c] = status]
        /\ Continue(w, [job[w] EXCEPT !.status = status])
        /\ history' = [history EXCEPT
             !.outdated = (@ \ {w}) \cup Holders(w, {"reviewing"}),
             !.approved = IF status = "approved" THEN @ \cup {c} ELSE @,
             !.stale = IF w \in history.outdated THEN @ \cup {c} ELSE @]

Approve(w) ==
    /\ job[w].at = "reviewing"
    /\ MayApprove(job[w].status)
    /\ SaveChangeSet(w, "approved")
    /\ UNCHANGED <<publications, schoolVars, gradingVars>>

Reject(w) ==
    /\ job[w].at = "reviewing"
    /\ MayReject(job[w].status)
    /\ SaveChangeSet(w, "rejected")
    /\ UNCHANGED <<publications, schoolVars, gradingVars>>

\* publish_curriculum_version: the publication and the change set in one
\* transaction; curriculum_one_active_publication_per_version refuses a second.
Publish(w) ==
    /\ job[w].at = "reviewing"
    /\ MayPublish(job[w].status)
    /\ ~HasActivePublication(Proposes[job[w].id])
    /\ Len(publications) < MaxPublications
    /\ publications' = Append(publications, [change |-> job[w].id,
                                             version |-> Proposes[job[w].id],
                                             active |-> TRUE])
    /\ SaveChangeSet(w, "published")
    /\ UNCHANGED <<schoolVars, gradingVars>>

\* supersede_curriculum_publication; the change set is left as it is.
Supersede(i) ==
    /\ publications[i].active
    /\ publications' = [publications EXCEPT ![i].active = FALSE]
    /\ UNCHANGED <<change, schoolVars, gradingVars, job, calls, history>>

-----------------------------------------------------------------------------
\* schedule_school_curriculum_adoption up to the insert.
CheckSchedule(w, s, v) ==
    /\ adoption[s][v] = "none"
    /\ Adoptable(v)
    /\ Begin(w, [at |-> "scheduling", school |-> s, version |-> v])
    /\ UNCHANGED <<changeVars, schoolVars, gradingVars>>

\* The insert and its commit; curr_adopt_active_unique refuses a second row.
Schedule(w) ==
    /\ job[w].at = "scheduling"
    /\ adoption[job[w].school][job[w].version] = "none"
    /\ adoption' = [adoption EXCEPT ![job[w].school][job[w].version] = "scheduled"]
    /\ Continue(w, Idle)
    /\ UNCHANGED <<changeVars, withdrawn, gradingVars, history>>

\* activate_school_curriculum_adoption up to the update: the adoption's own
\* status is not looked at.
CheckActivate(w, s, v) ==
    /\ adoption[s][v] # "none"
    /\ Adoptable(v)
    /\ Begin(w, [at |-> "activating", school |-> s, version |-> v])
    /\ UNCHANGED <<changeVars, schoolVars, gradingVars>>

Activate(w) ==
    /\ job[w].at = "activating"
    /\ adoption' = [adoption EXCEPT ![job[w].school][job[w].version] = "active"]
    /\ Continue(w, Idle)
    /\ UNCHANGED <<changeVars, withdrawn, gradingVars, history>>

\* The version a job has checked and is about to write, if any.
PastCheckOf(w, v) ==
    \/ job[w].at \in {"scheduling", "activating"} /\ job[w].version = v
    \/ job[w].at = "saving" /\ job[w].row.version = v

\* mark_curriculum_version_withdrawn: any number of rows, nothing else changes.
Withdraw(v) ==
    /\ v \notin withdrawn
    /\ withdrawn' = withdrawn \cup {v}
    /\ history' = [history EXCEPT !.underway[v] = {w \in Workers : PastCheckOf(w, v)}]
    /\ UNCHANGED <<changeVars, adoption, gradingVars, job, calls>>

-----------------------------------------------------------------------------
LoadAssessment(w, a) ==
    /\ Begin(w, [at |-> "editing", id |-> a, row |-> assessment[a]])
    /\ UNCHANGED <<changeVars, schoolVars, gradingVars>>

\* Assessment.save up to the write: the caller has set status and version,
\* full_clean passes, and an operational assessment gets its binding time.
CheckSave(w, status, v) ==
    /\ job[w].at = "editing"
    /\ LET a == job[w].id
           row == [job[w].row EXCEPT !.status = status, !.version = v]
       IN  /\ BindingValid(a, row)
           /\ ContextMutable(a, row)
           /\ Continue(w,
                [at |-> "saving", id |-> a,
                 row |-> [row EXCEPT !.locked = @ \/ Operational(status)]])
    /\ UNCHANGED <<changeVars, schoolVars, gradingVars, history>>

\* The write of the whole row, and its commit.
Save(w) ==
    /\ job[w].at = "saving"
    /\ LET a == job[w].id
           row == job[w].row
       IN  /\ assessment' = [assessment EXCEPT ![a] = row]
           /\ history' = [history EXCEPT
                !.outdated = @ \cup Holders(w, {"editing", "saving"}),
                !.overlapped = IF w \in history.outdated THEN @ \cup {a} ELSE @,
                !.relabelled = IF /\ ~Operational(row.status) /\ row.locked
                                  /\ row.version # assessment[a].version
                               THEN @ \cup {a} ELSE @]
    /\ Continue(w, Idle)
    /\ UNCHANGED <<changeVars, schoolVars, graded>>

\* submit_grade_batch finds the assessment open and bound, and commits later.
ReadForSubmission(w, a) ==
    /\ a \notin graded
    /\ assessment[a].status = "open" /\ assessment[a].locked
    /\ assessment[a].version # NoVersion
    /\ Begin(w, [at |-> "submitting", id |-> a])
    /\ UNCHANGED <<changeVars, schoolVars, gradingVars>>

CommitSubmission(w) ==
    /\ job[w].at = "submitting"
    /\ graded' = graded \cup {job[w].id}
    /\ history' = [history EXCEPT
         !.outdated = @ \cup Holders(w, {"editing", "saving"}),
         !.under[job[w].id] =
             IF job[w].id \in graded THEN @ ELSE assessment[job[w].id].version]
    /\ Continue(w, Idle)
    /\ UNCHANGED <<changeVars, schoolVars, assessment>>

\* The call ends, or fails and is rolled back.
EndCall(w) ==
    /\ job[w] # Idle
    /\ Continue(w, Idle)
    /\ UNCHANGED <<changeVars, schoolVars, gradingVars, history>>

ReviewStep(w) ==
    \/ \E c \in ChangeSets : LoadChangeSet(w, c)
    \/ Approve(w) \/ Reject(w) \/ Publish(w)

AdoptionStep(w) ==
    \/ \E s \in Schools, v \in Versions : CheckSchedule(w, s, v) \/ CheckActivate(w, s, v)
    \/ Schedule(w) \/ Activate(w)

GradingStep(w) ==
    \/ \E a \in Assessments : LoadAssessment(w, a) \/ ReadForSubmission(w, a)
    \/ \E status \in AssessmentStatus, v \in Versions \cup {NoVersion} :
          CheckSave(w, status, v)
    \/ Save(w) \/ CommitSubmission(w)

Next ==
    \/ \E c \in ChangeSets : CreateChangeSet(c)
    \/ \E i \in DOMAIN publications : Supersede(i)
    \/ \E v \in Versions : Withdraw(v)
    \/ \E w \in Workers : ReviewStep(w) \/ AdoptionStep(w) \/ GradingStep(w) \/ EndCall(w)

Spec == Init /\ [][Next]_vars

-----------------------------------------------------------------------------
(* Properties.                                                              *)

Publications == [change : ChangeSets, version : Versions, active : BOOLEAN]

\* curriculum_one_active_publication_per_version
OneActivePublication ==
    \A i, j \in DOMAIN publications :
        publications[i].active /\ publications[j].active
        /\ publications[i].version = publications[j].version => i = j

\* The rows keep their types, and no two active publications are of the same
\* version, also when two workers publish from copies of one change set.
CurriculumTypeOK ==
    /\ change \in [ChangeSets -> ChangeStatus]
    /\ publications \in Seq(Publications)
    /\ OneActivePublication
    /\ adoption \in [Schools -> [Versions -> AdoptionStatus]]
    /\ withdrawn \in SUBSET Versions
    /\ assessment \in [Assessments -> Rows]
    /\ graded \in SUBSET Assessments
    /\ job \in [Workers -> Jobs]
    /\ calls \in 0..MaxCalls
    /\ history \in HistoryType

\* What was published went through review: publish_curriculum_version publishes
\* the proposed version of a change set whose approval was committed before.
PublishedWasApproved ==
    \A i \in DOMAIN publications :
        /\ publications[i].change \in history.approved
        /\ publications[i].version = Proposes[publications[i].change]

EverPublished(v) == \E i \in DOMAIN publications : publications[i].version = v

\* A school adopts only reviewed truth: whatever workers hold and in whatever
\* order they write, an adopted version has been published by an approved
\* change set that proposes it.
AdoptedWasReviewed ==
    /\ PublishedWasApproved
    /\ \A s \in Schools, v \in Versions : adoption[s][v] # "none" => EverPublished(v)

PublicationsOf(c) == {i \in DOMAIN publications : publications[i].change = c}

\* The status of a change set says whether it was published, and it is published
\* once; only an object that was out of date when it was saved can undo a
\* rejection or publish a second time.
OnlyStaleObjectsOverrule ==
    \A c \in ChangeSets \ history.stale :
        Cardinality(PublicationsOf(c)) = IF change[c] = "published" THEN 1 ELSE 0

\* A binding made by this step: the first of the assessment, or to another
\* version while it is operational.
Binds(a, v) ==
    LET old == assessment[a]
        new == assessment'[a]
    IN  /\ new.version = v /\ Operational(new.status)
        /\ ~old.locked \/ (Operational(old.status) /\ old.version # v)

NewUse(v) ==
    \/ \E s \in Schools : adoption'[s][v] # adoption[s][v]
    \/ \E a \in Assessments \ history'.overlapped : Binds(a, v)

\* Once a version is withdrawn, no school schedules or activates it and no
\* assessment is bound to it, except by a call that was past its checks when
\* mark_curriculum_version_withdrawn committed.
WithdrawalStopsNewUse ==
    [][\A v \in withdrawn :
          NewUse(v) => \E w \in history.underway[v] : job'[w] # job[w]]_vars

\* The curriculum context of a graded assessment is the one it was graded under
\* and its binding time is kept, unless a save wrote an object that was loaded
\* before another save or the submission committed.
GradedContextFrozen ==
    \A a \in graded \ history.overlapped :
        assessment[a].locked /\ assessment[a].version = history.under[a]

\* An assessment in use is bound to a version its own school has adopted, unless
\* its version was changed while it was back in draft or by a stale object.
UnadoptedOnlyByDetour ==
    \A a \in Assessments \ (history.overlapped \cup history.relabelled) :
        Operational(assessment[a].status) =>
            /\ assessment[a].version \in Versions
            /\ adoption[SchoolOf[a]][assessment[a].version] # "none"

\* Withdrawal and supersession leave assessments in use usable: saved again with
\* their context unchanged they are still accepted.
HistoryStaysUsable ==
    \A a \in Assessments : Operational(assessment[a].status) =>
        \A status \in AssessmentStatus \ {"draft"} :
            BindingValid(a, [assessment[a] EXCEPT !.status = status])

\* docs/GRADING_ENGINE.md: "new operational assessments require both published
\* curriculum truth and school adoption".  Assessment.save trusts the binding
\* time of a row whose version a draft save has replaced.
OperationalIsAdopted ==
    \A a \in Assessments : Operational(assessment[a].status) =>
        /\ assessment[a].version \in Versions
        /\ adoption[SchoolOf[a]][assessment[a].version] # "none"

\* Only reviewed truth is published and adopted, once per version.
TruthIsReviewed == CurriculumTypeOK /\ AdoptedWasReviewed

\* Assessments are in use under adopted truth, and stay usable when it is
\* withdrawn or superseded.
UseFollowsAdoption == UnadoptedOnlyByDetour /\ HistoryStaysUsable
=============================================================================
