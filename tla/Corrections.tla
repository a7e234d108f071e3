----------------------------- MODULE Corrections -----------------------------
(***************************************************************************)
(* The correction workflow of app/grading/services.py for the submitted    *)
(* records of one assessment: request, HOD review, escalation, academic    *)
(* head review, application.                                               *)
(*                                                                         *)
(* Every operation is one transaction that holds the row locks of          *)
(* _get_correction_for_update (the correction, its grade record and its    *)
(* assessment) from its first read to its commit, so each is one action.   *)
(*                                                                         *)
(* What a record says (raw score, components, remarks) is one value of     *)
(* Scores.  correction_state_hash covers that value and the version, so    *)
(* the pair stands for the hash.                                           *)
(*                                                                         *)
(* Two things outside the workflow decide whether a record may be written: *)
(* the bands of the schema bound to the assessment, and whether the        *)
(* learner is still enrolled in its cohort and term.                       *)
(***************************************************************************)
EXTENDS Naturals, Sequences, FiniteSets

CONSTANTS Records,        \* submitted GradeRecord rows of the assessment
          Requests,       \* GradeCorrectionRequest rows
          Scores,         \* what a record may say
          Users,
          NoOne,          \* an unset reviewer or applier
          NoScore,        \* a request that proposes nothing
          Teachers,       \* may view the records and request a correction
          Hods,           \* HODs assigned to the assessment
          AcademicHeads,  \* deputies and school administrators
          InitialScore,   \* what the teacher's batch said
          Bandings,       \* for each schema the assessment may be bound to, the
                          \* scores its bands hold (all of them without one)
          Movers          \* bound: records whose learner may leave or come back

ASSUME CorrectionAssumption ==
    /\ Teachers \subseteq Users /\ Hods \subseteq Users /\ AcademicHeads \subseteq Users
    /\ NoOne \notin Users
    /\ NoScore \notin Scores
    /\ InitialScore \in [Records -> Scores]
    /\ Bandings \subseteq SUBSET Scores
    /\ Movers \subseteq Records

VARIABLES record,   \* GradeRecord: score and version
          request,  \* GradeCorrectionRequest rows
          audit,    \* GradeCorrectionAuditRecord rows, oldest first
          runs,     \* CompilationRun rows in order of creation (written by
                    \* compile_assessment, see Compilation)
          enrolled, \* records whose learner has an active enrolment
          banded    \* the scores the bound schema has a band for

around == <<enrolled, banded>>
correctionVars == <<record, request, audit, runs, around>>

RequestStatus == {"absent", "under_hod_review", "approved_by_hod", "rejected_by_hod",
                  "escalation_requested", "approved_by_academic_head",
                  "rejected_by_academic_head", "applied"}
RunStatus == {"open", "complete", "incomplete", "stale", "aborted"}

\* What other transactions can see of the runs.
Committed == {"complete", "incomplete", "stale"}

\* TERMINAL_STATUSES, APPROVED_UNAPPLIED_STATUSES and
\* BLOCKING_CORRECTION_STATUSES, as far as a service can reach them.
Terminal == {"rejected_by_hod", "rejected_by_academic_head", "applied"}
ApprovedUnapplied == {"approved_by_hod", "approved_by_academic_head"}
Blocking == {"under_hod_review", "escalation_requested"} \cup ApprovedUnapplied

\* Faulty variant of Transitions: an academic head need not wait for an
\* escalation.
TransitionsPastHod ==
    [s \in RequestStatus |->
        CASE s = "under_hod_review" -> {"approved_by_hod", "rejected_by_hod",
                                        "escalation_requested",
                                        "approved_by_academic_head"}
          [] s = "escalation_requested" -> {"approved_by_academic_head",
                                            "rejected_by_academic_head"}
          [] s \in ApprovedUnapplied -> {"applied"}
          [] OTHER -> {}]

\* TRANSITIONS, as far as a service can reach it.
Transitions ==
    [s \in RequestStatus |->
        CASE s = "under_hod_review" -> {"approved_by_hod", "rejected_by_hod",
                                        "escalation_requested"}
          [] s = "escalation_requested" -> {"approved_by_academic_head",
                                            "rejected_by_academic_head"}
          [] s \in ApprovedUnapplied -> {"applied"}
          [] OTHER -> {}]

NoRequest(r) == [status |-> "absent", of |-> r, by |-> NoOne, reviewer |-> NoOne,
                 applier |-> NoOne, proposed |-> NoScore, seen |-> 0]

Version == Nat \ {0}
State == [score : Scores, version : Version]

\* _audit_correction: before and after are <<>> where the hash is blank.
Log(q, action, who, from, to, before, after) ==
    audit' = Append(audit, [request |-> q, action |-> action, actor |-> who,
                            from |-> from, to |-> to,
                            before |-> before, after |-> after])

-----------------------------------------------------------------------------
CorrectionInit ==
    /\ record = [r \in Records |-> [score |-> InitialScore[r], version |-> 1]]
    /\ \E of \in [Requests -> Records] :
          request = [q \in Requests |-> NoRequest(of[q])]
    /\ audit = <<>>
    /\ runs = <<>>
    /\ enrolled = Records /\ banded \in Bandings

\* create_correction_request by someone who may see the record.
CreateCorrectionRequest(q, u, score) ==
    LET r == request[q].of
    IN  /\ request[q].status = "absent"
        /\ u \in Teachers
        /\ request' = [request EXCEPT ![q] =
                         [@ EXCEPT !.status = "under_hod_review", !.by = u,
                                   !.proposed = score, !.seen = record[r].version]]
        /\ Log(q, "requested", u, "", "under_hod_review", <<record[r]>>, <<>>)
        /\ UNCHANGED <<record, runs, around>>

\* Faulty variant of MayReview: nobody asks who made the request.
MayReviewOwn(q, u) == TRUE

\* The reviewer or applier is not the requester: can_review_hod_correction,
\* can_review_academic_head_correction, can_apply_correction, and
\* GradeCorrectionRequest.clean.
MayReview(q, u) == request[q].by # u

\* can_transition_correction
CanTransition(q, target) == target \in Transitions[request[q].status]

Review(q, u, target) ==
    /\ MayReview(q, u)
    /\ CanTransition(q, target)
    /\ request' = [request EXCEPT ![q].status = target, ![q].reviewer = u]
    /\ Log(q, "reviewed", u, request[q].status, target, <<>>, <<>>)
    /\ UNCHANGED <<record, runs, around>>

ReviewCorrectionAsHod(q, u, target) ==
    /\ u \in Hods
    /\ target \in {"approved_by_hod", "rejected_by_hod"}
    /\ Review(q, u, target)

\* Escalating one's own request is allowed.
EscalateCorrectionRequest(q, u) ==
    /\ u \in AcademicHeads
    /\ request[q].status = "under_hod_review"
    /\ request' = [request EXCEPT ![q].status = "escalation_requested"]
    /\ Log(q, "escalated", u, request[q].status, "escalation_requested", <<>>, <<>>)
    /\ UNCHANGED <<record, runs, around>>

ReviewCorrectionAsAcademicHead(q, u, target) ==
    /\ u \in AcademicHeads
    /\ target \in {"approved_by_academic_head", "rejected_by_academic_head"}
    /\ Review(q, u, target)

\* correction_changed_fields is not empty.
ChangesRecord(q) ==
    request[q].proposed \notin {NoScore, record[request[q].of].score}

\* Faulty variant of MayApply: whatever is no longer under review.
MayApplyDecided(q, u) ==
    /\ request[q].status \notin {"absent", "under_hod_review", "escalation_requested"}
    /\ u \in Hods \cup AcademicHeads
    /\ MayReview(q, u)

\* Faulty variant of MayApply: the academic head's approvals are forgotten.
MayApplyByHod(q, u) ==
    /\ request[q].status = "approved_by_hod"
    /\ u \in Hods \cup AcademicHeads
    /\ MayReview(q, u)

\* The status check of apply_approved_correction and can_apply_correction.
MayApply(q, u) ==
    /\ request[q].status \in ApprovedUnapplied
    /\ u \in Hods \cup AcademicHeads
    /\ MayReview(q, u)

\* Faulty variants of AllStale: nothing is marked, or only the newest run.
NothingStale == runs

NewestStale ==
    [i \in DOMAIN runs |->
        IF i = Len(runs) /\ runs[i].status \in Committed
        THEN [runs[i] EXCEPT !.status = "stale"] ELSE runs[i]]

\* CompilationRun.objects.filter(...).update(status=STALE)
AllStale ==
    [i \in DOMAIN runs |->
        IF runs[i].status \in Committed THEN [runs[i] EXCEPT !.status = "stale"]
                                        ELSE runs[i]]

\* map_score_to_band_value finds a band for the new score, and
\* GradeRecord.clean an active enrolment of the learner.
Accepted(q) == request[q].proposed \in banded /\ request[q].of \in enrolled

\* apply_approved_correction.  Where a check fails everything is rolled back
\* and the correction stays approved.  The proposed value is written whatever
\* the record says by now: old_state_hash is not looked at.
ApplyApprovedCorrection(q, u) ==
    LET r == request[q].of
        new == [score |-> request[q].proposed, version |-> record[r].version + 1]
    IN  /\ MayApply(q, u)
        /\ ChangesRecord(q) /\ Accepted(q)
        /\ record' = [record EXCEPT ![r] = new]
        /\ runs' = AllStale
        /\ request' = [request EXCEPT ![q].status = "applied", ![q].applier = u]
        /\ Log(q, "applied", u, request[q].status, "applied", <<record[r]>>, <<new>>)
        /\ UNCHANGED around

\* A learner leaves the cohort or comes back to it: no service of src/ does
\* it, the column is_active is there for it.
ChangeEnrollment(r) ==
    /\ enrolled' = IF r \in enrolled THEN enrolled \ {r} ELSE enrolled \cup {r}
    /\ UNCHANGED <<record, request, audit, runs, banded>>

\* bind_schema_to_assessment, as far as the workflow notices (GradingSchema).
RebindSchema ==
    /\ banded' \in Bandings \ {banded}
    /\ UNCHANGED <<record, request, audit, runs, enrolled>>

RequestSomething(q) ==
    \E u \in Users, score \in Scores \cup {NoScore} :
        CreateCorrectionRequest(q, u, score)

Decide(q) ==
    \E u \in Users, target \in RequestStatus :
        \/ ReviewCorrectionAsHod(q, u, target)
        \/ ReviewCorrectionAsAcademicHead(q, u, target)

Escalate(q) == \E u \in Users : EscalateCorrectionRequest(q, u)

Apply(q) == \E u \in Users : ApplyApprovedCorrection(q, u)

CorrectionStep(q) == RequestSomething(q) \/ Decide(q) \/ Escalate(q) \/ Apply(q)

CorrectionNext ==
    \/ \E q \in Requests : CorrectionStep(q)
    \/ \E r \in Movers : ChangeEnrollment(r)
    \/ RebindSchema

CorrectionSpec == CorrectionInit /\ [][CorrectionNext]_correctionVars

\* Reviewers answer what is in their queue and somebody applies what is
\* approved; requests may or may not be made.
CorrectionFairness ==
    \A q \in Requests : WF_correctionVars(Decide(q)) /\ WF_correctionVars(Apply(q))

FairCorrectionSpec == CorrectionSpec /\ CorrectionFairness

-----------------------------------------------------------------------------
(* Properties.                                                             *)

\* Records, requests and audit rows hold values of their columns' types.
CorrectionTypeOK ==
    /\ record \in [Records -> State]
    /\ request \in [Requests ->
          [status : RequestStatus, of : Records, by : Users \cup {NoOne},
           reviewer : Users \cup {NoOne}, applier : Users \cup {NoOne},
           proposed : Scores \cup {NoScore}, seen : Nat]]
    /\ \A i \in DOMAIN audit :
          audit[i].request \in Requests /\ audit[i].actor \in Users
    /\ enrolled \subseteq Records /\ banded \in Bandings

\* The audit rows that tell of a change to record r.
Trail(r) ==
    {i \in DOMAIN audit :
        audit[i].action = "applied" /\ request[audit[i].request].of = r}

\* Submitted grades are not silently overwritten: the audit trail of a record
\* is an unbroken chain from what the batch said to what the record says now,
\* each link starting from the state the one before it left.
AuditChain ==
    \A r \in Records :
        LET start == [score |-> InitialScore[r], version |-> 1]
            Between(i, j) == {k \in Trail(r) : i < k /\ k < j}
        IN  /\ Trail(r) = {} => record[r] = start
            /\ \A j \in Trail(r) :
                  /\ Between(0, j) = {} => audit[j].before = <<start>>
                  /\ Between(j, Len(audit) + 1) = {} => audit[j].after = <<record[r]>>
                  /\ \A i \in Trail(r) :
                        i < j /\ Between(i, j) = {} => audit[j].before = audit[i].after

\* Nobody approves or applies a correction they requested, and every applied
\* correction has both a reviewer and an applier.
FourEyes ==
    \A q \in Requests :
        request[q].status \in ApprovedUnapplied \cup {"applied"} =>
            /\ request[q].reviewer \in (Hods \cup AcademicHeads) \ {request[q].by}
            /\ request[q].status = "applied" =>
                  request[q].applier \in (Hods \cup AcademicHeads) \ {request[q].by}

\* An academic head decides only what was explicitly escalated, and a request
\* that was escalated is never decided by the HOD.
EscalationDecides ==
    \A i \in DOMAIN audit :
        audit[i].action = "reviewed" =>
            (audit[i].to \in {"approved_by_academic_head", "rejected_by_academic_head"} <=>
                \E j \in 1..(i - 1) : audit[j].request = audit[i].request
                                      /\ audit[j].action = "escalated")

\* A rejected or applied correction is never reopened and a record changes
\* only together with a correction that becomes applied.
OnlyAppliedChangesRecords ==
    [][/\ \A q \in Requests :
             request[q].status \in Terminal => request'[q].status = request[q].status
       /\ \A r \in Records :
             record'[r] # record[r] =>
                 \E q \in Requests : /\ request[q].of = r
                                     /\ request[q].status \in ApprovedUnapplied
                                     /\ request'[q].status = "applied"]_correctionVars

\* A correction is applied to the state its requester and its reviewer saw.
AppliesToReviewedState ==
    [][\A q \in Requests :
          request[q].status # "applied" /\ request'[q].status = "applied" =>
              record[request[q].of].version = request[q].seen]_correctionVars

\* Under reviewers and appliers who do their work, an approved correction is
\* applied and stops blocking report readiness, unless one of three causes
\* refuses it meanwhile: the record already says what it proposes or it
\* proposes nothing, the bound schema has no band for the new score, or the
\* learner is not enrolled any more.  apply_approved_correction raises and no
\* other service closes the correction: it blocks while the cause stays.
ApprovedIsAppliedOrRefused ==
    \A q \in Requests :
        request[q].status \in ApprovedUnapplied ~>
            \/ request[q].status = "applied"
            \/ ~ChangesRecord(q)
            \/ request[q].proposed \notin banded
            \/ request[q].of \notin enrolled

\* Where a request stands in the ledger.
ClaimAt(status) ==
    CASE status = "absent" -> "unmade"
      [] status \in {"under_hod_review", "escalation_requested"} -> "pending"
      [] status \in ApprovedUnapplied -> "approved"
      [] status = "applied" -> "posted"
      [] OTHER -> "refused"

Ledger ==
    INSTANCE GradeLedger
      WITH Entries <- Records, Claimants <- Requests, Values <- Scores,
           NoValue <- NoScore, Opening <- InitialScore, entry <- record,
           claim <- [q \in Requests |-> [at |-> ClaimAt(request[q].status),
                                         of |-> request[q].of,
                                         value |-> request[q].proposed]]

\* Whatever reviewers, escalations and appliers do, submitted grades behave
\* as a ledger: every request is decided once and posted at most once, with
\* the value it asked for, as the next version of its own record.
KeepsTheLedger == Ledger!LedgerSpec

\* The audit rows tell what happened: each record's value is the end of its
\* trail, and each decision was taken at the level the trail led to.
AuditTellsTheStory == CorrectionTypeOK /\ AuditChain /\ EscalationDecides
=============================================================================
