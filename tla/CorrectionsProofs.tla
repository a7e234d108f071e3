-------------------------- MODULE CorrectionsProofs --------------------------
(***************************************************************************)
(* Proofs about the correction workflow, for any number of records,        *)
(* requests, users and scores.                                             *)
(*                                                                         *)
(* FourEyes is inductive on top of the types: every way into an approved   *)
(* status sets the reviewer and every way into the applied one comes from  *)
(* an approved status.                                                     *)
(***************************************************************************)
EXTENDS Corrections, TLAPS

RequestType ==
    [status : RequestStatus, of : Records, by : Users \cup {NoOne},
     reviewer : Users \cup {NoOne}, applier : Users \cup {NoOne},
     proposed : Scores \cup {NoScore}, seen : Nat]

\* The part of the type invariant the proofs need: nothing about the audit.
RowsOK ==
    /\ record \in [Records -> State]
    /\ request \in [Requests -> RequestType]

\* Learners and bands are of this assessment.
AroundOK == enrolled \subseteq Records /\ banded \in Bandings

CInv == RowsOK /\ FourEyes /\ AroundOK

-----------------------------------------------------------------------------
\* Records without requests satisfy the invariant.
LEMMA CInit == CorrectionInit => CInv
<1>. SUFFICES ASSUME CorrectionInit PROVE CInv
  OBVIOUS
<1>1. PICK of \in [Requests -> Records] :
          request = [q \in Requests |-> NoRequest(of[q])]
  BY DEF CorrectionInit
<1>2. \A q \in Requests : NoRequest(of[q]) \in RequestType
                          /\ NoRequest(of[q]).status = "absent"
  BY <1>1 DEF NoRequest, RequestType, RequestStatus
<1>3. record \in [Records -> State]
  BY CorrectionAssumption DEF CorrectionInit, State, Version
<1>4. RowsOK
  BY <1>1, <1>2, <1>3 DEF RowsOK
<1>5. FourEyes
  BY <1>1, <1>2 DEF FourEyes, ApprovedUnapplied
<1>6. AroundOK
  BY DEF CorrectionInit, AroundOK
<1>. QED  BY <1>4, <1>5, <1>6 DEF CInv

\* What a request looks like when FourEyes is about it.
Reviewed(x) ==
    x.status \in ApprovedUnapplied \cup {"applied"} =>
        /\ x.reviewer \in (Hods \cup AcademicHeads) \ {x.by}
        /\ x.status = "applied" => x.applier \in (Hods \cup AcademicHeads) \ {x.by}

\* A step that replaces one request by a well-formed, reviewed one keeps the
\* rows and the four eyes.
LEMMA ReplaceOne ==
    ASSUME CInv, NEW q \in Requests, NEW x \in RequestType, Reviewed(x),
           request' = [request EXCEPT ![q] = x],
           record' \in [Records -> State], UNCHANGED around
    PROVE  CInv'
<1>1. RowsOK'
  BY DEF CInv, RowsOK
<1>2. \A p \in Requests : request'[p] = IF p = q THEN x ELSE request[p]
  BY DEF CInv, RowsOK
<1>3. FourEyes'
  BY <1>2 DEF CInv, FourEyes, Reviewed
<1>4. AroundOK'
  BY DEF around, CInv, AroundOK
<1>. QED  BY <1>1, <1>3, <1>4 DEF CInv

\* A new request is open: nobody has approved it.
LEMMA CreateStep ==
    ASSUME CInv, NEW q \in Requests, NEW u \in Users,
           NEW score \in Scores \cup {NoScore}, CreateCorrectionRequest(q, u, score)
    PROVE  CInv'
<1>. DEFINE x == [request[q] EXCEPT !.status = "under_hod_review", !.by = u,
                    !.proposed = score, !.seen = record[request[q].of].version]
<1>1. request[q] \in RequestType /\ record[request[q].of].version \in Nat
  BY DEF CInv, RowsOK, RequestType, State, Version
<1>2. x \in RequestType /\ x.status = "under_hod_review"
  BY <1>1 DEF RequestType, RequestStatus
<1>3. Reviewed(x)
  BY <1>2 DEF Reviewed, ApprovedUnapplied
<1>4. request' = [request EXCEPT ![q] = x] /\ UNCHANGED <<record, around>>
  BY DEF CreateCorrectionRequest
<1>. QED  BY <1>2, <1>3, <1>4, ReplaceOne DEF CInv, RowsOK

\* A reviewer is not the requester, whichever of the two reviews it is.
LEMMA ReviewStep ==
    ASSUME CInv, NEW q \in Requests, NEW u \in Users, NEW target \in RequestStatus,
           ReviewCorrectionAsHod(q, u, target)
             \/ ReviewCorrectionAsAcademicHead(q, u, target)
    PROVE  CInv'
<1>. DEFINE x == [request[q] EXCEPT !.status = target, !.reviewer = u]
<1>1. request[q] \in RequestType
  BY DEF CInv, RowsOK
<1>2. x \in RequestType /\ x.reviewer = u /\ x.by = request[q].by /\ x.status = target
  BY <1>1 DEF RequestType
<1>3. /\ u \in Hods \cup AcademicHeads /\ u # request[q].by /\ target # "applied"
      /\ Review(q, u, target)
  BY DEF ReviewCorrectionAsHod, ReviewCorrectionAsAcademicHead, Review, MayReview
<1>4. Reviewed(x)
  BY <1>2, <1>3 DEF Reviewed
<1>5. request' = [request EXCEPT ![q] = x] /\ UNCHANGED <<record, around>>
  BY <1>3 DEF Review, CInv, RowsOK
<1>. QED  BY <1>2, <1>4, <1>5, ReplaceOne DEF CInv, RowsOK

\* An escalated request has no approval yet.
LEMMA EscalateStep ==
    ASSUME CInv, NEW q \in Requests, NEW u \in Users, EscalateCorrectionRequest(q, u)
    PROVE  CInv'
<1>. DEFINE x == [request[q] EXCEPT !.status = "escalation_requested"]
<1>1. request[q] \in RequestType
  BY DEF CInv, RowsOK
<1>2. x \in RequestType /\ x.status = "escalation_requested"
  BY <1>1 DEF RequestType, RequestStatus
<1>3. Reviewed(x)
  BY <1>2 DEF Reviewed, ApprovedUnapplied
<1>4. request' = [request EXCEPT ![q] = x] /\ UNCHANGED <<record, around>>
  BY DEF EscalateCorrectionRequest, CInv, RowsOK
<1>. QED  BY <1>2, <1>3, <1>4, ReplaceOne DEF CInv, RowsOK

\* What is applied was approved by someone else before.
LEMMA ApplyStep ==
    ASSUME CInv, NEW q \in Requests, NEW u \in Users, ApplyApprovedCorrection(q, u)
    PROVE  CInv'
<1>. DEFINE x == [request[q] EXCEPT !.status = "applied", !.applier = u]
            r == request[q].of
            new == [score |-> request[q].proposed, version |-> record[r].version + 1]
<1>1. request[q] \in RequestType /\ r \in Records
  BY DEF CInv, RowsOK, RequestType
<1>2. /\ x \in RequestType /\ x.status = "applied" /\ x.applier = u
      /\ x.reviewer = request[q].reviewer /\ x.by = request[q].by
  BY <1>1 DEF RequestType, RequestStatus
<1>3. request[q].reviewer \in (Hods \cup AcademicHeads) \ {request[q].by}
  BY DEF ApplyApprovedCorrection, MayApply, CInv, FourEyes
<1>4. u \in (Hods \cup AcademicHeads) \ {request[q].by}
  BY DEF ApplyApprovedCorrection, MayApply, MayReview
<1>5. Reviewed(x)
  BY <1>2, <1>3, <1>4 DEF Reviewed
<1>6. request' = [request EXCEPT ![q] = x] /\ UNCHANGED around
  BY DEF ApplyApprovedCorrection, CInv, RowsOK
<1>7. record[r] \in State
  BY <1>1 DEF CInv, RowsOK
<1>8. new \in State
  <2>1. request[q].proposed \in Scores
    BY <1>1 DEF ApplyApprovedCorrection, ChangesRecord, RequestType
  <2>2. record[r].version + 1 \in Version
    BY <1>7 DEF State, Version
  <2>. QED  BY <2>1, <2>2 DEF State
<1>9. record' = [record EXCEPT ![r] = new]
  BY DEF ApplyApprovedCorrection
<1>10. record' \in [Records -> State]
  BY <1>1, <1>8, <1>9 DEF CInv, RowsOK
<1>. QED  BY <1>2, <1>5, <1>6, <1>10, ReplaceOne

\* Learners and schemas change beside the workflow.
LEMMA AroundStep ==
    ASSUME CInv, (\E r \in Movers : ChangeEnrollment(r)) \/ RebindSchema
    PROVE  CInv' /\ UNCHANGED <<record, request, audit, runs>>
<1>1. UNCHANGED <<record, request, audit, runs>>
  BY DEF ChangeEnrollment, RebindSchema
<1>2. AroundOK'
  BY CorrectionAssumption DEF ChangeEnrollment, RebindSchema, CInv, AroundOK
<1>3. RowsOK' /\ FourEyes'
  BY <1>1 DEF CInv, RowsOK, FourEyes
<1>. QED  BY <1>1, <1>2, <1>3 DEF CInv

\* Every step keeps the invariant.
LEMMA CStep == CInv /\ [CorrectionNext]_correctionVars => CInv'
<1>. SUFFICES ASSUME CInv, [CorrectionNext]_correctionVars PROVE CInv'
  OBVIOUS
<1>1. CASE UNCHANGED correctionVars
  BY <1>1 DEF correctionVars, around, CInv, RowsOK, FourEyes, AroundOK
<1>2. ASSUME NEW q \in Requests, CorrectionStep(q) PROVE CInv'
  <2>1. CASE RequestSomething(q)
    BY <2>1, CreateStep DEF RequestSomething
  <2>2. CASE Decide(q)
    BY <2>2, ReviewStep DEF Decide
  <2>3. CASE Escalate(q)
    BY <2>3, EscalateStep DEF Escalate
  <2>4. CASE Apply(q)
    BY <2>4, ApplyStep DEF Apply
  <2>. QED  BY <1>2, <2>1, <2>2, <2>3, <2>4 DEF CorrectionStep
<1>. QED  BY <1>1, <1>2, AroundStep DEF CorrectionNext

\* Nobody approves or applies a correction they requested: the reviewer and
\* the applier of every approved or applied correction are reviewers of the
\* school other than its requester.
THEOREM FourEyesAlways == CorrectionSpec => []FourEyes
<1>1. CInv => FourEyes
  BY DEF CInv
<1>. QED  BY CInit, CStep, <1>1, PTL DEF CorrectionSpec

-----------------------------------------------------------------------------
\* One step of OnlyAppliedChangesRecords.
ChangeIsApplied ==
    /\ \A q \in Requests :
          request[q].status \in Terminal => request'[q].status = request[q].status
    /\ \A r \in Records :
          record'[r] # record[r] =>
              \E q \in Requests : /\ request[q].of = r
                                  /\ request[q].status \in ApprovedUnapplied
                                  /\ request'[q].status = "applied"

\* A record changes in the step that applies a correction of it.
LEMMA ChangeStep == CInv /\ [CorrectionNext]_correctionVars => ChangeIsApplied
<1>. SUFFICES ASSUME CInv, [CorrectionNext]_correctionVars PROVE ChangeIsApplied
  OBVIOUS
<1>. USE DEF CInv, RowsOK
<1>1. CASE UNCHANGED correctionVars
  BY <1>1 DEF correctionVars, ChangeIsApplied
<1>2. ASSUME NEW q \in Requests, NEW u \in Users, NEW target \in RequestStatus,
             \/ ReviewCorrectionAsHod(q, u, target)
             \/ ReviewCorrectionAsAcademicHead(q, u, target)
      PROVE  ChangeIsApplied
  <2>1. Transitions[request[q].status] # {} /\ request' = [request EXCEPT
             ![q].status = target, ![q].reviewer = u] /\ record' = record
    BY <1>2 DEF ReviewCorrectionAsHod, ReviewCorrectionAsAcademicHead, Review,
                CanTransition
  <2>2. request[q].status \in RequestStatus
    BY DEF RequestType
  <2>3. request[q].status \notin Terminal
    BY <2>1, <2>2 DEF Transitions, Terminal, RequestStatus, ApprovedUnapplied
  <2>. QED  BY <2>1, <2>3 DEF ChangeIsApplied
<1>3. ASSUME NEW q \in Requests, NEW u \in Users, NEW score \in Scores \cup {NoScore},
             CreateCorrectionRequest(q, u, score)
      PROVE  ChangeIsApplied
  <2>1. request[q].status \notin Terminal /\ record' = record
    BY <1>3 DEF CreateCorrectionRequest, Terminal
  <2>2. \A p \in Requests \ {q} : request'[p] = request[p]
    BY <1>3 DEF CreateCorrectionRequest
  <2>. QED  BY <2>1, <2>2 DEF ChangeIsApplied
<1>4. ASSUME NEW q \in Requests, NEW u \in Users, EscalateCorrectionRequest(q, u)
      PROVE  ChangeIsApplied
  <2>1. request[q].status \notin Terminal /\ record' = record
    BY <1>4 DEF EscalateCorrectionRequest, Terminal
  <2>2. \A p \in Requests \ {q} : request'[p] = request[p]
    BY <1>4 DEF EscalateCorrectionRequest
  <2>. QED  BY <2>1, <2>2 DEF ChangeIsApplied
<1>5. ASSUME NEW q \in Requests, NEW u \in Users, ApplyApprovedCorrection(q, u)
      PROVE  ChangeIsApplied
  <2>1. /\ request[q].status \in ApprovedUnapplied
        /\ \A p \in Requests \ {q} : request'[p] = request[p]
        /\ \A r \in Records : record'[r] # record[r] => r = request[q].of
    BY <1>5 DEF ApplyApprovedCorrection, MayApply, RequestType
  <2>2. request'[q].status = "applied"
    BY <1>5 DEF ApplyApprovedCorrection, RequestType
  <2>. QED  BY <2>1, <2>2 DEF ChangeIsApplied, Terminal, ApprovedUnapplied
<1>6. CASE UNCHANGED <<record, request, audit, runs>>
  BY <1>6 DEF ChangeIsApplied
<1>. QED
  BY <1>1, <1>2, <1>3, <1>4, <1>5, <1>6, AroundStep
  DEF CorrectionNext, CorrectionStep, RequestSomething, Decide, Escalate, Apply

\* A rejected or applied correction is never reopened, and a record changes
\* only in the step in which an approved correction of it becomes applied.
THEOREM RecordsChangeByApplication == CorrectionSpec => OnlyAppliedChangesRecords
<1>1. CInv /\ [CorrectionNext]_correctionVars => [ChangeIsApplied]_correctionVars
  BY ChangeStep
<1>2. CorrectionSpec => [][ChangeIsApplied]_correctionVars
  BY CInit, CStep, <1>1, PTL DEF CorrectionSpec
<1>. QED  BY <1>2 DEF OnlyAppliedChangesRecords, ChangeIsApplied

-----------------------------------------------------------------------------
(* The workflow implements the ledger.                                     *)

\* What the ledger sees of a request.
Claim(x) == [at |-> ClaimAt(x.status), of |-> x.of, value |-> x.proposed]
Claims == [q \in Requests |-> Claim(request[q])]

\* Where the claim of a request stands, status by status.
LEMMA ClaimStates ==
    /\ ClaimAt("absent") = "unmade"
    /\ ClaimAt("under_hod_review") = "pending"
    /\ ClaimAt("escalation_requested") = "pending"
  BY DEF ClaimAt, ApprovedUnapplied

\* Replacing a request replaces its claim and no other.
LEMMA ReplaceClaim ==
    ASSUME CInv, NEW q \in Requests, NEW x, request' = [request EXCEPT ![q] = x]
    PROVE  Claims' = [Claims EXCEPT ![q] = Claim(x)]
<1>1. \A p \in Requests : request'[p] = IF p = q THEN x ELSE request[p]
  BY DEF CInv, RowsOK
<1>2. Claims' = [p \in Requests |-> Claim(request'[p])]
  BY DEF Claims, Claim
<1>3. \A p \in Requests : Claim(request'[p]) = IF p = q THEN Claim(x) ELSE Claim(request[p])
  BY <1>1
<1>4. Claims' = [p \in Requests |-> IF p = q THEN Claim(x) ELSE Claim(request[p])]
  BY <1>2, <1>3
<1>5. [Claims EXCEPT ![q] = Claim(x)]
        = [p \in Requests |-> IF p = q THEN Claim(x) ELSE Claim(request[p])]
  BY DEF Claims
<1>. QED  BY <1>4, <1>5

\* A new request makes its claim.
LEMMA CreateMakes ==
    ASSUME CInv, NEW q \in Requests, NEW u \in Users,
           NEW score \in Scores \cup {NoScore}, CreateCorrectionRequest(q, u, score)
    PROVE  Ledger!Make(q, score)
<1>. DEFINE x == [request[q] EXCEPT !.status = "under_hod_review", !.by = u,
                    !.proposed = score, !.seen = record[request[q].of].version]
<1>1. request[q] \in RequestType
  BY DEF CInv, RowsOK
<1>2. request[q].status = "absent" /\ request' = [request EXCEPT ![q] = x]
      /\ record' = record
  BY DEF CreateCorrectionRequest
<1>3. Claims[q].at = "unmade" /\ Claims[q] = Claim(request[q])
  BY <1>2, ClaimStates DEF Claims, Claim
<1>4. Claim(x) = [at |-> "pending", of |-> Claims[q].of, value |-> score]
  <2>1. x.status = "under_hod_review" /\ x.of = request[q].of /\ x.proposed = score
    BY <1>1 DEF RequestType
  <2>. HIDE DEF x
  <2>. QED  BY <1>3, <2>1, ClaimStates DEF Claim
<1>5. Claims' = [Claims EXCEPT ![q] = Claim(x)]
  BY <1>2, ReplaceClaim
<1>6. Claims' = [Claims EXCEPT ![q] = [at |-> "pending", of |-> @.of, value |-> score]]
  BY <1>4, <1>5
<1>. QED  BY <1>2, <1>3, <1>6 DEF Ledger!Make, Claims, Claim

\* A review settles a pending claim.
LEMMA ReviewSettles ==
    ASSUME CInv, NEW q \in Requests, NEW u \in Users, NEW target \in RequestStatus,
           ReviewCorrectionAsHod(q, u, target)
             \/ ReviewCorrectionAsAcademicHead(q, u, target)
    PROVE  \E verdict \in {"approved", "refused"} : Ledger!Settle(q, verdict)
<1>. DEFINE x == [request[q] EXCEPT !.status = target, !.reviewer = u]
            verdict == ClaimAt(target)
<1>1. request[q] \in RequestType
  BY DEF CInv, RowsOK
<1>2. /\ target \in {"approved_by_hod", "rejected_by_hod", "approved_by_academic_head",
                     "rejected_by_academic_head"}
      /\ target \in Transitions[request[q].status]
      /\ request' = [request EXCEPT ![q] = x] /\ record' = record
  BY DEF ReviewCorrectionAsHod, ReviewCorrectionAsAcademicHead, Review, CanTransition
<1>3. request[q].status \in {"under_hod_review", "escalation_requested"}
  BY <1>1, <1>2 DEF Transitions, RequestType, RequestStatus, ApprovedUnapplied
<1>4. verdict \in {"approved", "refused"}
  BY <1>2 DEF ClaimAt, ApprovedUnapplied
<1>5. Claims[q].at = "pending" /\ Claims[q] = Claim(request[q])
  BY <1>3, ClaimStates DEF Claims, Claim
<1>6. Claim(x) = [Claims[q] EXCEPT !.at = verdict]
  BY <1>1, <1>5 DEF Claim, RequestType
<1>7. Claims' = [Claims EXCEPT ![q] = Claim(x)]
  BY <1>2, ReplaceClaim
<1>8. Claims' = [Claims EXCEPT ![q].at = verdict]
  BY <1>6, <1>7 DEF Claims, Claim
<1>9. Ledger!Settle(q, verdict)
  BY <1>2, <1>5, <1>8 DEF Ledger!Settle, Claims, Claim
<1>. QED  BY <1>4, <1>9

\* An escalation leaves the ledger as it is.
LEMMA EscalateStutters ==
    ASSUME CInv, NEW q \in Requests, NEW u \in Users, EscalateCorrectionRequest(q, u)
    PROVE  record' = record /\ Claims' = Claims
<1>. DEFINE x == [request[q] EXCEPT !.status = "escalation_requested"]
<1>1. request[q] \in RequestType
  BY DEF CInv, RowsOK
<1>2. request[q].status = "under_hod_review" /\ request' = [request EXCEPT ![q] = x]
      /\ record' = record
  BY DEF EscalateCorrectionRequest
<1>3. Claim(x) = Claim(request[q])
  <2>1. /\ x.status = "escalation_requested" /\ x.of = request[q].of
        /\ x.proposed = request[q].proposed
    BY <1>1 DEF RequestType
  <2>. QED  BY <1>2, <2>1, ClaimStates DEF Claim
<1>4. Claims' = [Claims EXCEPT ![q] = Claim(x)]
  BY <1>2, ReplaceClaim
<1>. QED  BY <1>2, <1>3, <1>4 DEF Claims

\* An application posts its claim.
LEMMA ApplyPosts ==
    ASSUME CInv, NEW q \in Requests, NEW u \in Users, ApplyApprovedCorrection(q, u)
    PROVE  Ledger!Post(q)
<1>. DEFINE x == [request[q] EXCEPT !.status = "applied", !.applier = u]
            r == request[q].of
            new == [score |-> request[q].proposed, version |-> record[r].version + 1]
<1>1. request[q] \in RequestType
  BY DEF CInv, RowsOK
<1>2. /\ request[q].status \in ApprovedUnapplied
      /\ request[q].proposed \notin {NoScore, record[r].score}
      /\ request' = [request EXCEPT ![q] = x]
      /\ record' = [record EXCEPT ![r] = new]
  BY DEF ApplyApprovedCorrection, MayApply, ChangesRecord
<1>3. /\ Claims[q] = Claim(request[q])
      /\ Claims[q].at = "approved" /\ Claims[q].of = r
      /\ Claims[q].value = request[q].proposed
  BY <1>2 DEF Claims, Claim, ClaimAt, ApprovedUnapplied
<1>4. Claim(x) = [Claims[q] EXCEPT !.at = "posted"]
  BY <1>1, <1>3 DEF Claim, ClaimAt, RequestType, ApprovedUnapplied
<1>5. Claims' = [Claims EXCEPT ![q] = Claim(x)]
  BY <1>2, ReplaceClaim
<1>6. Claims' = [Claims EXCEPT ![q].at = "posted"]
  BY <1>4, <1>5 DEF Claims, Claim
<1>. QED  BY <1>2, <1>3, <1>6 DEF Ledger!Post, Claims, Claim

\* The initial rows are an untouched ledger.
LEMMA LedgerStarts == CorrectionInit => Ledger!LedgerInit
<1>. SUFFICES ASSUME CorrectionInit PROVE Ledger!LedgerInit
  OBVIOUS
<1>1. PICK of \in [Requests -> Records] :
          request = [q \in Requests |-> NoRequest(of[q])]
  BY DEF CorrectionInit
<1>2. Claims = [q \in Requests |-> [at |-> "unmade", of |-> of[q], value |-> NoScore]]
  <2>1. \A q \in Requests :
            Claim(request[q]) = [at |-> "unmade", of |-> of[q], value |-> NoScore]
    BY <1>1, ClaimStates DEF Claim, NoRequest
  <2>. QED  BY <2>1 DEF Claims
<1>3. record = [r \in Records |-> Ledger!Untouched(r)]
  BY DEF CorrectionInit, Ledger!Untouched
<1>. QED  BY <1>1, <1>2, <1>3 DEF Ledger!LedgerInit, Claims, Claim

\* Every step of the workflow is a step of the ledger or leaves it alone.
LEMMA LedgerSteps ==
    CInv /\ [CorrectionNext]_correctionVars => [Ledger!LedgerNext]_(Ledger!ledgerVars)
<1>. SUFFICES ASSUME CInv, [CorrectionNext]_correctionVars
              PROVE  [Ledger!LedgerNext]_(Ledger!ledgerVars)
  OBVIOUS
<1>1. CASE UNCHANGED correctionVars
  BY <1>1 DEF correctionVars, Ledger!ledgerVars, ClaimAt
<1>2. ASSUME NEW q \in Requests, RequestSomething(q) PROVE Ledger!LedgerNext
  BY <1>2, CreateMakes DEF RequestSomething, Ledger!LedgerNext
<1>3. ASSUME NEW q \in Requests, Decide(q) PROVE Ledger!LedgerNext
  BY <1>3, ReviewSettles DEF Decide, Ledger!LedgerNext
<1>4. ASSUME NEW q \in Requests, Escalate(q) PROVE UNCHANGED Ledger!ledgerVars
  BY <1>4, EscalateStutters DEF Escalate, Ledger!ledgerVars, Claims, Claim
<1>5. ASSUME NEW q \in Requests, Apply(q) PROVE Ledger!LedgerNext
  BY <1>5, ApplyPosts DEF Apply, Ledger!LedgerNext
<1>6. CASE UNCHANGED <<record, request, audit, runs>>
  BY <1>6 DEF Ledger!ledgerVars, ClaimAt
<1>. QED
  BY <1>1, <1>2, <1>3, <1>4, <1>5, <1>6, AroundStep DEF CorrectionNext, CorrectionStep

\* The correction workflow implements the ledger: submitted grades change
\* only by posting an approved claim, once, with the value it asked for and as
\* the next version of the record it is about.
THEOREM WorkflowImplementsLedger == CorrectionSpec => KeepsTheLedger
<1>. QED
  BY CInit, CStep, LedgerStarts, LedgerSteps, PTL
  DEF CorrectionSpec, KeepsTheLedger, Ledger!LedgerSpec
-----------------------------------------------------------------------------
(* The audit tells the story.                                              *)

AuditRow ==
    [request : Requests, action : {"requested", "reviewed", "escalated", "applied"},
     actor : Users, from : RequestStatus \cup {""}, to : RequestStatus,
     before : Seq(State), after : Seq(State)]

\* The audit holds an escalation of the request.
Escalated(q) ==
    \E j \in DOMAIN audit : audit[j].request = q /\ audit[j].action = "escalated"

\* What the status of a request says about its escalation.
EscalationOnRecord ==
    \A q \in Requests :
        /\ request[q].status \in {"absent", "under_hod_review"} => ~Escalated(q)
        /\ request[q].status = "escalation_requested" => Escalated(q)

AuditInv ==
    /\ audit \in Seq(AuditRow)
    /\ AuditChain
    /\ EscalationDecides
    /\ EscalationOnRecord

\* One record's part of AuditChain, for the rows in T, of which there are n at most.
Chained(T, n, rows, start, now) ==
    LET Between(i, j) == {k \in T : i < k /\ k < j}
    IN  /\ T = {} => now = start
        /\ \A j \in T :
              /\ Between(0, j) = {} => rows[j].before = <<start>>
              /\ Between(j, n + 1) = {} => rows[j].after = <<now>>
              /\ \A i \in T :
                    i < j /\ Between(i, j) = {} => rows[j].before = rows[i].after

Start(r) == [score |-> InitialScore[r], version |-> 1]

\* AuditChain speaks of one record at a time.
LEMMA ChainByRecord ==
    AuditChain <=> \A r \in Records :
                      Chained(Trail(r), Len(audit), audit, Start(r), record[r])
BY DEF AuditChain, Chained, Start

\* A row that is appended leaves the others where they are.
LEMMA AppendRow ==
    ASSUME NEW rows \in Seq(AuditRow), NEW x \in AuditRow
    PROVE  /\ Append(rows, x) \in Seq(AuditRow)
           /\ Len(Append(rows, x)) = Len(rows) + 1
           /\ DOMAIN Append(rows, x) = DOMAIN rows \cup {Len(rows) + 1}
           /\ Append(rows, x)[Len(rows) + 1] = x
           /\ \A i \in DOMAIN rows : Append(rows, x)[i] = rows[i]
           /\ DOMAIN rows = 1..Len(rows) /\ Len(rows) \in Nat
  OBVIOUS

\* Each audit row is one, and of a request.
LEMMA RowOfAudit ==
    ASSUME audit \in Seq(AuditRow), NEW i \in DOMAIN audit
    PROVE  audit[i] \in AuditRow /\ audit[i].request \in Requests
<1>1. audit[i] \in AuditRow
  OBVIOUS
<1>. QED  BY <1>1 DEF AuditRow

\* A chain is not disturbed by a row that is not part of it.
LEMMA ChainUntouched ==
    ASSUME NEW rows \in Seq(AuditRow), NEW x \in AuditRow,
           NEW T \in SUBSET (DOMAIN rows), NEW start, NEW now,
           Chained(T, Len(rows), rows, start, now)
    PROVE  Chained(T, Len(rows) + 1, Append(rows, x), start, now)
<1>. DEFINE n == Len(rows)
            longer == Append(rows, x)
<1>1. /\ \A i \in T : longer[i] = rows[i]
      /\ \A i \in T : i \in Nat /\ i <= n
      /\ n \in Nat
  BY AppendRow
<1>2. \A j \in T : {k \in T : j < k /\ k < n + 1 + 1} = {k \in T : j < k /\ k < n + 1}
  BY <1>1
<1>. HIDE DEF n, longer
<1>3. Chained(T, n, rows, start, now)
  BY DEF n
<1>4. ASSUME NEW j \in T
      PROVE  /\ {k \in T : 0 < k /\ k < j} = {} => longer[j].before = <<start>>
             /\ {k \in T : j < k /\ k < (n + 1) + 1} = {} => longer[j].after = <<now>>
  BY <1>1, <1>2, <1>3 DEF Chained
<1>5. ASSUME NEW i \in T, NEW j \in T, i < j, {k \in T : i < k /\ k < j} = {}
      PROVE  longer[j].before = longer[i].after
  BY <1>1, <1>3, <1>5 DEF Chained
<1>6. T = {} => now = start
  BY <1>3 DEF Chained
<1>7. Chained(T, n + 1, longer, start, now)
  BY <1>4, <1>5, <1>6 DEF Chained
<1>. QED  BY <1>7 DEF n, longer

\* A chain goes on with a row that starts where it ended.
LEMMA ChainLink ==
    ASSUME NEW rows \in Seq(AuditRow), NEW x \in AuditRow,
           NEW T \in SUBSET (DOMAIN rows), NEW start, NEW now, NEW next,
           Chained(T, Len(rows), rows, start, now),
           x.before = <<now>>, x.after = <<next>>
    PROVE  Chained(T \cup {Len(rows) + 1}, Len(rows) + 1, Append(rows, x), start, next)
<1>. DEFINE n == Len(rows)
            longer == Append(rows, x)
            U == T \cup {n + 1}
<1>1. /\ \A i \in T : longer[i] = rows[i]
      /\ \A i \in T : i \in Nat /\ 0 < i /\ i <= n
      /\ n \in Nat /\ longer[n + 1] = x
  BY AppendRow
<1>. HIDE DEF n, longer
<1>2. ASSUME NEW j \in U PROVE {k \in U : 0 < k /\ k < j} = {} => longer[j].before = <<start>>
  <2>1. CASE j \in T
    <3>1. {k \in T : 0 < k /\ k < j} = {k \in U : 0 < k /\ k < j}
      BY <1>1, <2>1
    <3>. QED  BY <1>1, <2>1, <3>1 DEF Chained
  <2>2. CASE j = n + 1
    <3>1. {k \in U : 0 < k /\ k < n + 1} = T
      BY <1>1
    <3>. QED  BY <1>1, <2>2, <3>1 DEF Chained
  <2>. QED  BY <2>1, <2>2
<1>3. ASSUME NEW j \in U
      PROVE  {k \in U : j < k /\ k < (n + 1) + 1} = {} => longer[j].after = <<next>>
  <2>1. CASE j \in T
    <3>1. n + 1 \in {k \in U : j < k /\ k < (n + 1) + 1}
      BY <1>1, <2>1
    <3>. QED  BY <3>1
  <2>2. CASE j = n + 1
    BY <1>1, <2>2
  <2>. QED  BY <2>1, <2>2
<1>4. ASSUME NEW i \in U, NEW j \in U, i < j, {k \in U : i < k /\ k < j} = {}
      PROVE  longer[j].before = longer[i].after
  <2>1. i \in T
    BY <1>1, <1>4
  <2>2. CASE j \in T
    <3>1. {k \in T : i < k /\ k < j} = {}
      BY <1>4
    <3>. QED  BY <1>1, <1>4, <2>1, <2>2, <3>1 DEF Chained
  <2>3. CASE j = n + 1
    <3>1. {k \in T : i < k /\ k < n + 1} = {}
      BY <1>4, <2>3
    <3>2. rows[i].after = <<now>>
      BY <2>1, <3>1 DEF Chained, n
    <3>. QED  BY <1>1, <2>1, <2>3, <3>2
  <2>. QED  BY <2>2, <2>3
<1>5. Chained(U, n + 1, longer, start, next)
  BY <1>2, <1>3, <1>4 DEF Chained
<1>. QED  BY <1>5 DEF n, longer

\* No service moves a request to another record.
OfKept == \A q \in Requests : request'[q].of = request[q].of

\* A row that tells of no change leaves every chain as it was.
LEMMA TellsNothing ==
    ASSUME CInv, audit \in Seq(AuditRow), AuditChain, OfKept, record' = record,
           NEW x \in AuditRow, audit' = Append(audit, x), x.action # "applied"
    PROVE  AuditChain'
<1>1. Len(audit') = Len(audit) + 1
  BY AppendRow
<1>2. ASSUME NEW r \in Records
      PROVE  Trail(r)' = Trail(r) /\ Trail(r) \in SUBSET (DOMAIN audit)
  <2>1. \A i \in DOMAIN audit' : i \in DOMAIN audit \/ audit'[i] = x
    BY AppendRow
  <2>2. \A i \in DOMAIN audit :
            i \in DOMAIN audit' /\ audit'[i] = audit[i] /\ audit[i].request \in Requests
    BY AppendRow, RowOfAudit
  <2>. QED  BY <2>1, <2>2 DEF Trail, OfKept
<1>3. ASSUME NEW r \in Records
      PROVE  Chained(Trail(r), Len(audit'), audit', Start(r), record'[r])
  <2>1. Chained(Trail(r), Len(audit), audit, Start(r), record[r])
    BY ChainByRecord
  <2>2. Chained(Trail(r), Len(audit) + 1, Append(audit, x), Start(r), record[r])
    BY <1>2, <2>1, ChainUntouched
  <2>. QED  BY <1>1, <2>2
<1>4. \A r \in Records : Chained(Trail(r)', Len(audit'), audit', Start(r), record'[r])
  BY <1>2, <1>3
<1>. QED  BY <1>4 DEF AuditChain, Chained, Start

\* A row that tells of a change links the chain of its record to the new state.
LEMMA TellsOfChange ==
    ASSUME CInv, audit \in Seq(AuditRow), AuditChain, OfKept,
           NEW q \in Requests, NEW new, record' = [record EXCEPT ![request[q].of] = new],
           NEW x \in AuditRow, audit' = Append(audit, x), x.action = "applied",
           x.request = q, x.before = <<record[request[q].of]>>, x.after = <<new>>
    PROVE  AuditChain'
<1>. DEFINE o == request[q].of
<1>1. Len(audit') = Len(audit) + 1 /\ o \in Records
  BY AppendRow DEF CInv, RowsOK, RequestType
<1>2. /\ \A i \in DOMAIN audit' : i \in DOMAIN audit \/ i = Len(audit) + 1
      /\ \A i \in DOMAIN audit :
            i \in DOMAIN audit' /\ audit'[i] = audit[i] /\ audit[i].request \in Requests
      /\ Len(audit) + 1 \in DOMAIN audit' /\ audit'[Len(audit) + 1] = x
      /\ Len(audit) + 1 \notin DOMAIN audit
  BY AppendRow, RowOfAudit
<1>3. ASSUME NEW r \in Records, r # o
      PROVE  Trail(r)' = Trail(r) /\ Trail(r) \in SUBSET (DOMAIN audit)
  BY <1>2, <1>3 DEF Trail, OfKept
<1>4. ASSUME NEW r \in Records, r = o
      PROVE  /\ Trail(r)' = Trail(r) \cup {Len(audit) + 1}
             /\ Trail(r) \in SUBSET (DOMAIN audit)
  BY <1>2, <1>4 DEF Trail, OfKept
<1>5. ASSUME NEW r \in Records
      PROVE  Chained(Trail(r)', Len(audit'), audit', Start(r), record'[r])
  <2>1. Chained(Trail(r), Len(audit), audit, Start(r), record[r])
    BY ChainByRecord
  <2>2. CASE r # o
    <3>1. Chained(Trail(r), Len(audit) + 1, Append(audit, x), Start(r), record[r])
      BY <1>3, <2>1, <2>2, ChainUntouched
    <3>2. record'[r] = record[r]
      BY <2>2 DEF CInv, RowsOK
    <3>. QED  BY <1>1, <1>3, <2>2, <3>1, <3>2
  <2>3. CASE r = o
    <3>1. record'[r] = new
      BY <1>1, <2>3 DEF CInv, RowsOK
    <3>2. x.before = <<record[r]>>
      BY <2>3
    <3>3. Chained(Trail(r) \cup {Len(audit) + 1}, Len(audit) + 1, Append(audit, x),
                  Start(r), new)
      BY <1>4, <2>1, <2>3, <3>2, ChainLink
    <3>. QED  BY <1>1, <1>4, <2>3, <3>1, <3>3
  <2>. QED  BY <2>2, <2>3
<1>. QED  BY <1>5 DEF AuditChain, Chained, Start

ByHead == {"approved_by_academic_head", "rejected_by_academic_head"}

\* Whether a request is escalated after a row was appended.
LEMMA EscalatedAfter ==
    ASSUME audit \in Seq(AuditRow), NEW x \in AuditRow, audit' = Append(audit, x), NEW q
    PROVE  Escalated(q)' <=> Escalated(q) \/ (x.request = q /\ x.action = "escalated")
  BY AppendRow DEF Escalated

\* A review is recorded at the level the trail leads to.
LEMMA DecidesStep ==
    ASSUME audit \in Seq(AuditRow), EscalationDecides, NEW x \in AuditRow,
           audit' = Append(audit, x),
           x.action = "reviewed" => (x.to \in ByHead <=> Escalated(x.request))
    PROVE  EscalationDecides'
<1>1. /\ \A i \in DOMAIN audit' : i \in DOMAIN audit \/ i = Len(audit) + 1
      /\ \A i \in DOMAIN audit : audit'[i] = audit[i]
      /\ audit'[Len(audit) + 1] = x
      /\ DOMAIN audit = 1..Len(audit) /\ Len(audit) \in Nat
  BY AppendRow
<1>2. ASSUME NEW i \in DOMAIN audit, audit'[i].action = "reviewed"
      PROVE  audit'[i].to \in ByHead <=>
                \E j \in 1..(i - 1) : audit'[j].request = audit'[i].request
                                      /\ audit'[j].action = "escalated"
  <2>1. \A j \in 1..(i - 1) : j \in DOMAIN audit
    BY <1>1
  <2>. QED  BY <1>1, <1>2, <2>1 DEF EscalationDecides, ByHead
<1>3. ASSUME x.action = "reviewed"
      PROVE  x.to \in ByHead <=>
                \E j \in 1..(Len(audit) + 1 - 1) : audit'[j].request = x.request
                                                   /\ audit'[j].action = "escalated"
  <2>1. 1..(Len(audit) + 1 - 1) = DOMAIN audit
    BY <1>1
  <2>. QED  BY <1>1, <1>3, <2>1 DEF Escalated
<1>. QED  BY <1>1, <1>2, <1>3 DEF EscalationDecides, ByHead

\* The four services and the audit.
LEMMA CreateAudited ==
    ASSUME CInv, AuditInv, NEW q \in Requests, NEW u \in Users,
           NEW score \in Scores \cup {NoScore}, CreateCorrectionRequest(q, u, score)
    PROVE  AuditInv'
<1>. DEFINE x == [request |-> q, action |-> "requested", actor |-> u, from |-> "",
                  to |-> "under_hod_review", before |-> <<record[request[q].of]>>,
                  after |-> <<>>]
<1>1. audit' = Append(audit, x) /\ record' = record
  BY DEF CreateCorrectionRequest, Log
<1>2. request[q] \in RequestType /\ record[request[q].of] \in State
  BY DEF CInv, RowsOK, RequestType
<1>3. x \in AuditRow
  BY <1>2 DEF AuditRow, RequestStatus
<1>4. /\ \A p \in Requests \ {q} : request'[p] = request[p]
      /\ request'[q].of = request[q].of /\ request'[q].status = "under_hod_review"
      /\ request[q].status = "absent"
  BY <1>2 DEF CreateCorrectionRequest, CInv, RowsOK, RequestType
<1>5. /\ x.request = q /\ x.action = "requested"
  OBVIOUS
<1>. HIDE DEF x
<1>6. OfKept
  BY <1>4 DEF OfKept
<1>7. AuditChain'
  BY <1>1, <1>3, <1>5, <1>6, TellsNothing DEF AuditInv
<1>8. EscalationDecides'
  BY <1>1, <1>3, <1>5, DecidesStep DEF AuditInv
<1>9. EscalationOnRecord'
  <2>1. \A p \in Requests : Escalated(p)' <=> Escalated(p)
    BY <1>1, <1>3, <1>5, EscalatedAfter DEF AuditInv
  <2>. QED  BY <1>4, <2>1 DEF AuditInv, EscalationOnRecord
<1>10. audit' \in Seq(AuditRow)
  BY <1>1, <1>3, AppendRow DEF AuditInv
<1>. QED  BY <1>7, <1>8, <1>9, <1>10 DEF AuditInv

\* A review adds a row that changes no record.
LEMMA ReviewAudited ==
    ASSUME CInv, AuditInv, NEW q \in Requests, NEW u \in Users, NEW target \in RequestStatus,
           ReviewCorrectionAsHod(q, u, target)
             \/ ReviewCorrectionAsAcademicHead(q, u, target)
    PROVE  AuditInv'
<1>. DEFINE x == [request |-> q, action |-> "reviewed", actor |-> u,
                  from |-> request[q].status, to |-> target, before |-> <<>>,
                  after |-> <<>>]
<1>1. /\ audit' = Append(audit, x) /\ record' = record
      /\ target \in Transitions[request[q].status]
      /\ request' = [request EXCEPT ![q].status = target, ![q].reviewer = u]
      /\ target \in {"approved_by_hod", "rejected_by_hod"} \cup ByHead
  BY DEF ReviewCorrectionAsHod, ReviewCorrectionAsAcademicHead, Review, Log,
         CanTransition, ByHead
<1>2. request[q] \in RequestType
  BY DEF CInv, RowsOK
<1>3. x \in AuditRow
  <2>1. request[q].status \in RequestStatus /\ <<>> \in Seq(State)
    BY <1>2 DEF RequestType
  <2>. QED  BY <2>1 DEF AuditRow
<1>4. /\ \A p \in Requests \ {q} : request'[p] = request[p]
      /\ request'[q].of = request[q].of /\ request'[q].status = target
  BY <1>1, <1>2 DEF CInv, RowsOK, RequestType
<1>5. target \in ByHead <=> Escalated(q)
  <2>1. \/ request[q].status = "under_hod_review" /\ target \notin ByHead
        \/ request[q].status = "escalation_requested" /\ target \in ByHead
    BY <1>1, <1>2 DEF Transitions, RequestType, RequestStatus, ApprovedUnapplied, ByHead
  <2>. QED  BY <2>1 DEF AuditInv, EscalationOnRecord
<1>6. x.request = q /\ x.action = "reviewed" /\ x.to = target
  OBVIOUS
<1>. HIDE DEF x
<1>7. OfKept
  BY <1>4 DEF OfKept
<1>8. AuditChain'
  BY <1>1, <1>3, <1>6, <1>7, TellsNothing DEF AuditInv
<1>9. EscalationDecides'
  BY <1>1, <1>3, <1>5, <1>6, DecidesStep DEF AuditInv
<1>10. EscalationOnRecord'
  <2>1. \A p \in Requests : Escalated(p)' <=> Escalated(p)
    BY <1>1, <1>3, <1>6, EscalatedAfter DEF AuditInv
  <2>. QED  BY <1>1, <1>4, <2>1 DEF AuditInv, EscalationOnRecord, ByHead
<1>11. audit' \in Seq(AuditRow)
  BY <1>1, <1>3, AppendRow DEF AuditInv
<1>. QED  BY <1>8, <1>9, <1>10, <1>11 DEF AuditInv

\* An escalation adds a row, and the status to go with it.
LEMMA EscalateAudited ==
    ASSUME CInv, AuditInv, NEW q \in Requests, NEW u \in Users,
           EscalateCorrectionRequest(q, u)
    PROVE  AuditInv'
<1>. DEFINE x == [request |-> q, action |-> "escalated", actor |-> u,
                  from |-> request[q].status, to |-> "escalation_requested",
                  before |-> <<>>, after |-> <<>>]
<1>1. /\ audit' = Append(audit, x) /\ record' = record
      /\ request' = [request EXCEPT ![q].status = "escalation_requested"]
  BY DEF EscalateCorrectionRequest, Log
<1>2. request[q] \in RequestType
  BY DEF CInv, RowsOK
<1>3. x \in AuditRow
  <2>1. /\ request[q].status \in RequestStatus
        /\ "escalation_requested" \in RequestStatus /\ <<>> \in Seq(State)
    BY <1>2 DEF RequestType, RequestStatus
  <2>. QED  BY <2>1 DEF AuditRow
<1>4. /\ \A p \in Requests \ {q} : request'[p] = request[p]
      /\ request'[q].of = request[q].of /\ request'[q].status = "escalation_requested"
  BY <1>1, <1>2 DEF CInv, RowsOK, RequestType
<1>5. x.request = q /\ x.action = "escalated"
  OBVIOUS
<1>. HIDE DEF x
<1>6. OfKept
  BY <1>4 DEF OfKept
<1>7. AuditChain'
  BY <1>1, <1>3, <1>5, <1>6, TellsNothing DEF AuditInv
<1>8. EscalationDecides'
  BY <1>1, <1>3, <1>5, DecidesStep DEF AuditInv
<1>9. EscalationOnRecord'
  <2>1. \A p \in Requests : Escalated(p)' <=> Escalated(p) \/ p = q
    BY <1>1, <1>3, <1>5, EscalatedAfter DEF AuditInv
  <2>. QED  BY <1>4, <2>1 DEF AuditInv, EscalationOnRecord
<1>10. audit' \in Seq(AuditRow)
  BY <1>1, <1>3, AppendRow DEF AuditInv
<1>. QED  BY <1>7, <1>8, <1>9, <1>10 DEF AuditInv

\* An application adds a row that says what the record was and is.
LEMMA ApplyAudited ==
    ASSUME CInv, AuditInv, CInv', NEW q \in Requests, NEW u \in Users,
           ApplyApprovedCorrection(q, u)
    PROVE  AuditInv'
<1>. DEFINE r == request[q].of
            new == [score |-> request[q].proposed, version |-> record[r].version + 1]
            x == [request |-> q, action |-> "applied", actor |-> u,
                  from |-> request[q].status, to |-> "applied",
                  before |-> <<record[r]>>, after |-> <<new>>]
<1>1. /\ audit' = Append(audit, x) /\ record' = [record EXCEPT ![r] = new]
      /\ request' = [request EXCEPT ![q].status = "applied", ![q].applier = u]
  BY DEF ApplyApprovedCorrection, Log
<1>2. request[q] \in RequestType /\ r \in Records /\ record[r] \in State
  BY DEF CInv, RowsOK, RequestType
<1>3. x \in AuditRow
  <2>1. record'[r] = new /\ record'[r] \in State
    BY <1>1, <1>2 DEF CInv, RowsOK
  <2>2. request[q].status \in RequestStatus /\ "applied" \in RequestStatus
    BY <1>2 DEF RequestType, RequestStatus
  <2>3. new \in State
    BY <2>1
  <2>. HIDE DEF new, r
  <2>4. <<record[r]>> \in Seq(State) /\ <<new>> \in Seq(State)
    BY <1>2, <2>3
  <2>. QED  BY <2>2, <2>4 DEF AuditRow
<1>4. /\ \A p \in Requests \ {q} : request'[p] = request[p]
      /\ request'[q].of = request[q].of /\ request'[q].status = "applied"
  BY <1>1, <1>2 DEF CInv, RowsOK, RequestType
<1>5. /\ x.request = q /\ x.action = "applied"
      /\ x.before = <<record[request[q].of]>> /\ x.after = <<new>>
  OBVIOUS
<1>. HIDE DEF x
<1>6. OfKept
  BY <1>4 DEF OfKept
<1>7. AuditChain'
  BY <1>1, <1>3, <1>5, <1>6, TellsOfChange DEF AuditInv
<1>8. EscalationDecides'
  BY <1>1, <1>3, <1>5, DecidesStep DEF AuditInv
<1>9. EscalationOnRecord'
  <2>1. \A p \in Requests : Escalated(p)' <=> Escalated(p)
    BY <1>1, <1>3, <1>5, EscalatedAfter DEF AuditInv
  <2>. QED  BY <1>4, <2>1 DEF AuditInv, EscalationOnRecord
<1>10. audit' \in Seq(AuditRow)
  BY <1>1, <1>3, AppendRow DEF AuditInv
<1>. QED  BY <1>7, <1>8, <1>9, <1>10 DEF AuditInv

\* Before the first request there is nothing to tell.
LEMMA AuditInit == CorrectionInit => AuditInv
<1>. SUFFICES ASSUME CorrectionInit PROVE AuditInv
  OBVIOUS
<1>1. audit = <<>> /\ record = [r \in Records |-> Start(r)]
  BY DEF CorrectionInit, Start
<1>2. \A r \in Records : Trail(r) = {}
  BY <1>1 DEF Trail
<1>3. AuditChain
  BY <1>1, <1>2, ChainByRecord DEF Chained
<1>4. EscalationDecides
  BY <1>1 DEF EscalationDecides
<1>5. EscalationOnRecord
  <2>1. \A q \in Requests : request[q].status = "absent"
    BY DEF CorrectionInit, NoRequest
  <2>. QED  BY <1>1, <2>1 DEF EscalationOnRecord, Escalated
<1>. QED  BY <1>1, <1>3, <1>4, <1>5 DEF AuditInv

\* Every step is told in the audit as it happened.
LEMMA AuditStep ==
    CInv /\ AuditInv /\ [CorrectionNext]_correctionVars => AuditInv'
<1>. SUFFICES ASSUME CInv, AuditInv, [CorrectionNext]_correctionVars PROVE AuditInv'
  OBVIOUS
<1>1. CASE UNCHANGED correctionVars
  BY <1>1 DEF correctionVars, AuditInv, AuditChain, Trail, EscalationDecides,
              EscalationOnRecord, Escalated
<1>2. ASSUME NEW q \in Requests, CorrectionStep(q) PROVE AuditInv'
  <2>1. CASE RequestSomething(q)
    BY <2>1, CreateAudited DEF RequestSomething
  <2>2. CASE Decide(q)
    BY <2>2, ReviewAudited DEF Decide
  <2>3. CASE Escalate(q)
    BY <2>3, EscalateAudited DEF Escalate
  <2>4. CASE Apply(q)
    BY <2>4, ApplyAudited, CStep DEF Apply
  <2>. QED  BY <1>2, <2>1, <2>2, <2>3, <2>4 DEF CorrectionStep
<1>3. CASE UNCHANGED <<record, request, audit, runs>>
  BY <1>3 DEF AuditInv, AuditChain, Trail, EscalationDecides, EscalationOnRecord, Escalated
<1>. QED  BY <1>1, <1>2, <1>3, AroundStep DEF CorrectionNext

\* What the invariant says of the audit, and of the types of the rows.
LEMMA AuditSuffices == CInv /\ AuditInv => AuditTellsTheStory
<1>. SUFFICES ASSUME CInv, AuditInv PROVE AuditTellsTheStory
  OBVIOUS
<1>1. \A i \in DOMAIN audit : audit[i] \in AuditRow
  BY AppendRow DEF AuditInv
<1>2. CorrectionTypeOK
  BY <1>1 DEF CorrectionTypeOK, CInv, RowsOK, AroundOK, RequestType, AuditRow
<1>. QED  BY <1>2 DEF AuditTellsTheStory, AuditInv

\* The audit tells the story, for any number of records and requests: the
\* trail of each record is an unbroken chain from the teacher's mark to the
\* present one, and each decision was taken at the level its escalation says.
THEOREM AuditIsTrue == CorrectionSpec => []AuditTellsTheStory
  BY CInit, CStep, AuditInit, AuditStep, AuditSuffices, PTL DEF CorrectionSpec
=============================================================================
