------------------------ MODULE CurriculumTruthProofs ------------------------
(***************************************************************************)
(* Proofs about CurriculumTruth for any number of workers, change sets,    *)
(* versions, schools and assessments, and any bounds.                      *)
(***************************************************************************)
EXTENDS CurriculumTruth, FiniteSetTheorems, TLAPS

\* An approved status, in the table or in a worker's object, has been committed.
ApprovalsRecorded ==
    /\ \A c \in ChangeSets : change[c] = "approved" => c \in history.approved
    /\ \A w \in Workers : job[w].at = "reviewing" /\ job[w].status = "approved"
                             => job[w].id \in history.approved

\* A call about to write an adoption has seen a publication, which stays.
ChecksSawPublication ==
    \A w \in Workers : job[w].at \in {"scheduling", "activating"}
                          => EverPublished(job[w].version)

IInv ==
    /\ CurriculumTypeOK
    /\ AdoptedWasReviewed
    /\ ApprovalsRecorded
    /\ ChecksSawPublication

-----------------------------------------------------------------------------
\* A job's phase tells what it holds.
LEMMA JobKinds ==
    ASSUME NEW w \in Workers, job \in [Workers -> Jobs]
    PROVE  /\ job[w].at = "reviewing" => job[w] \in ReviewJobs
           /\ job[w].at \in {"scheduling", "activating"} => job[w] \in AdoptionJobs
           /\ job[w].at \in {"editing", "saving"} => job[w] \in EditJobs
           /\ job[w].at = "submitting" => job[w] \in SubmitJobs
BY DEF Jobs, Idle, ReviewJobs, AdoptionJobs, EditJobs, SubmitJobs

\* Beginning a call keeps the types of what it changes.
LEMMA BeginTypes ==
    ASSUME CurriculumTypeOK, NEW w \in Workers, NEW new \in Jobs, Begin(w, new)
    PROVE  /\ job' \in [Workers -> Jobs]
           /\ calls' \in 0..MaxCalls
           /\ history' \in HistoryType
           /\ history'.approved = history.approved
<1>1. job' \in [Workers -> Jobs]
  BY DEF Begin, CurriculumTypeOK
<1>2. calls' \in 0..MaxCalls
  BY CurriculumAssumption DEF Begin, CurriculumTypeOK
<1>3. [v \in Versions |-> history.underway[v] \ {w}] \in [Versions -> SUBSET Workers]
  BY DEF CurriculumTypeOK, HistoryType
<1>4. history' \in HistoryType /\ history'.approved = history.approved
  BY <1>3 DEF Begin, CurriculumTypeOK, HistoryType
<1> QED BY <1>1, <1>2, <1>4

\* So does going on with one.
LEMMA ContinueTypes ==
    ASSUME CurriculumTypeOK, NEW w \in Workers, NEW new \in Jobs, Continue(w, new)
    PROVE  /\ job' \in [Workers -> Jobs]
           /\ calls' \in 0..MaxCalls
BY DEF Continue, CurriculumTypeOK

\* Saving a change set keeps the types and the record of approvals.
LEMMA SaveChangeSetTypes ==
    ASSUME CurriculumTypeOK, NEW w \in Workers, job[w].at = "reviewing",
           NEW status \in ChangeStatus, SaveChangeSet(w, status)
    PROVE  /\ change' \in [ChangeSets -> ChangeStatus]
           /\ job' \in [Workers -> Jobs]
           /\ calls' \in 0..MaxCalls
           /\ history' \in HistoryType
           /\ job[w].id \in ChangeSets
           /\ job[w].status \in ChangeStatus
           /\ history.approved \subseteq history'.approved
           /\ status = "approved" => job[w].id \in history'.approved
           /\ job' = [job EXCEPT ![w] = [at |-> "reviewing", id |-> job[w].id,
                                         status |-> status]]
<1>1. job[w] \in ReviewJobs
  BY JobKinds DEF CurriculumTypeOK
<1>2. [job[w] EXCEPT !.status = status]
        = [at |-> "reviewing", id |-> job[w].id, status |-> status]
  BY <1>1 DEF ReviewJobs
<1>3. [at |-> "reviewing", id |-> job[w].id, status |-> status] \in Jobs
  BY <1>1 DEF Jobs, ReviewJobs
<1>4. /\ change' \in [ChangeSets -> ChangeStatus]
      /\ Continue(w, [at |-> "reviewing", id |-> job[w].id, status |-> status])
  BY <1>1, <1>2 DEF SaveChangeSet, CurriculumTypeOK, ReviewJobs
<1>5. Holders(w, {"reviewing"}) \subseteq Workers
  BY DEF Holders
<1>6. /\ history' \in HistoryType
      /\ history.approved \subseteq history'.approved
      /\ status = "approved" => job[w].id \in history'.approved
  BY <1>1, <1>5 DEF SaveChangeSet, CurriculumTypeOK, HistoryType, ReviewJobs
<1> QED
  BY <1>1, <1>3, <1>4, <1>6, ContinueTypes DEF Continue, ReviewJobs

-----------------------------------------------------------------------------
\* An object of a change set that has been saved is as approved as the table.
LEMMA ReviewKeepsRecord ==
    ASSUME IInv, NEW w \in Workers, job[w].at = "reviewing",
           NEW status \in ChangeStatus, SaveChangeSet(w, status)
    PROVE  ApprovalsRecorded'
<1> USE DEF IInv
<1>1. \A c \in ChangeSets : change'[c] = "approved" => c \in history'.approved
  BY SaveChangeSetTypes DEF SaveChangeSet, CurriculumTypeOK, ApprovalsRecorded
<1>2. ASSUME NEW u \in Workers, job'[u].at = "reviewing", job'[u].status = "approved"
      PROVE  job'[u].id \in history'.approved
  BY <1>2, SaveChangeSetTypes DEF CurriculumTypeOK, ApprovalsRecorded
<1> QED BY <1>1, <1>2 DEF ApprovalsRecorded

\* Calls about adoptions are untouched by a save of a change set.
LEMMA ReviewKeepsChecks ==
    ASSUME IInv, NEW w \in Workers, job[w].at = "reviewing",
           NEW status \in ChangeStatus, SaveChangeSet(w, status),
           \A v \in Versions : EverPublished(v) => EverPublished(v)'
    PROVE  ChecksSawPublication'
<1> SUFFICES ASSUME NEW u \in Workers, job'[u].at \in {"scheduling", "activating"}
             PROVE  EverPublished(job[u].version)'
  BY DEF ChecksSawPublication
<1>1. u # w /\ job'[u] = job[u]
  BY SaveChangeSetTypes DEF IInv, CurriculumTypeOK
<1>2. job[u].version \in Versions
  BY <1>1, JobKinds DEF IInv, CurriculumTypeOK, AdoptionJobs
<1>3. EverPublished(job[u].version)
  BY <1>1 DEF IInv, ChecksSawPublication
<1> QED BY <1>1, <1>2, <1>3 DEF EverPublished

\* An approval is recorded as it is written; a rejection needs no record.
LEMMA ApproveOrRejectStep ==
    ASSUME IInv, NEW w \in Workers, Approve(w) \/ Reject(w)
    PROVE  IInv'
<1>1. PICK status \in ChangeStatus :
         /\ SaveChangeSet(w, status)
         /\ job[w].at = "reviewing"
         /\ UNCHANGED <<publications, adoption, withdrawn, assessment, graded>>
  BY DEF Approve, Reject, ChangeStatus, schoolVars, gradingVars
<1>2. CurriculumTypeOK'
  BY <1>1, SaveChangeSetTypes DEF IInv, CurriculumTypeOK, OneActivePublication
<1>3. AdoptedWasReviewed'
  BY <1>1, SaveChangeSetTypes
     DEF IInv, AdoptedWasReviewed, PublishedWasApproved, EverPublished
<1>4. ApprovalsRecorded' BY <1>1, ReviewKeepsRecord
<1>5. ChecksSawPublication' BY <1>1, ReviewKeepsChecks DEF EverPublished
<1> QED BY <1>2, <1>3, <1>4, <1>5 DEF IInv

\* A publication is of a version without an active one, by an approved object.
LEMMA PublishStep ==
    ASSUME IInv, NEW w \in Workers, Publish(w)
    PROVE  IInv'
<1> DEFINE p == [change |-> job[w].id, version |-> Proposes[job[w].id], active |-> TRUE]
<1>1. /\ SaveChangeSet(w, "published")
      /\ job[w].at = "reviewing"
      /\ publications' = Append(publications, p)
      /\ ~HasActivePublication(Proposes[job[w].id])
      /\ UNCHANGED <<adoption, withdrawn, assessment, graded>>
  BY DEF Publish, schoolVars, gradingVars
<1>2. "published" \in ChangeStatus
  BY DEF ChangeStatus
<1>3. p \in Publications
  BY <1>1, <1>2, SaveChangeSetTypes, CurriculumAssumption DEF IInv, Publications
<1>4. /\ publications \in Seq(Publications)
      /\ publications' \in Seq(Publications)
      /\ Len(publications') = Len(publications) + 1
      /\ DOMAIN publications' = DOMAIN publications \cup {Len(publications) + 1}
      /\ \A i \in DOMAIN publications : publications'[i] = publications[i]
      /\ publications'[Len(publications) + 1] = p
  BY <1>1, <1>3 DEF IInv, CurriculumTypeOK
<1>5. OneActivePublication'
  <2> SUFFICES ASSUME NEW i \in DOMAIN publications', NEW j \in DOMAIN publications',
                      publications'[i].active, publications'[j].active,
                      publications'[i].version = publications'[j].version
               PROVE  i = j
    BY DEF OneActivePublication
  <2>1. CASE i \in DOMAIN publications /\ j \in DOMAIN publications
    BY <2>1, <1>4 DEF IInv, CurriculumTypeOK, OneActivePublication
  <2>2. CASE i = Len(publications) + 1 /\ j \in DOMAIN publications
    BY <2>2, <1>1, <1>4 DEF HasActivePublication
  <2>3. CASE j = Len(publications) + 1 /\ i \in DOMAIN publications
    BY <2>3, <1>1, <1>4 DEF HasActivePublication
  <2> QED BY <2>1, <2>2, <2>3, <1>4
<1>6. CurriculumTypeOK'
  BY <1>1, <1>2, <1>4, <1>5, SaveChangeSetTypes DEF IInv, CurriculumTypeOK
<1>7. job[w].status = "approved" /\ job[w].id \in history.approved
  <2>1. "published" \in Allowed(job[w].status)
    BY DEF Publish, MayPublish
  <2>2. job[w].status = "approved"
    BY <2>1 DEF Allowed
  <2> QED BY <2>2, <1>1 DEF IInv, ApprovalsRecorded
<1>8. PublishedWasApproved'
  BY <1>1, <1>2, <1>4, <1>7, SaveChangeSetTypes
     DEF IInv, AdoptedWasReviewed, PublishedWasApproved
<1>9. \A v \in Versions : EverPublished(v) => EverPublished(v)'
  BY <1>4 DEF EverPublished
<1>10. AdoptedWasReviewed'
  BY <1>1, <1>8, <1>9 DEF IInv, AdoptedWasReviewed
<1>11. ApprovalsRecorded' BY <1>1, <1>2, ReviewKeepsRecord
<1>12. ChecksSawPublication' BY <1>1, <1>2, <1>9, ReviewKeepsChecks
<1> QED BY <1>6, <1>10, <1>11, <1>12 DEF IInv

\* A new change set and a superseded publication: no row loses its type and no
\* publication disappears.
LEMMA CreateChangeSetStep ==
    ASSUME IInv, NEW c \in ChangeSets, CreateChangeSet(c)
    PROVE  IInv'
<1> USE DEF IInv, CreateChangeSet, schoolVars, gradingVars
<1>1. CurriculumTypeOK'
  BY DEF CurriculumTypeOK, OneActivePublication, ChangeStatus
<1>2. AdoptedWasReviewed'
  BY DEF AdoptedWasReviewed, PublishedWasApproved, EverPublished
<1>3. ApprovalsRecorded'
  BY DEF ApprovalsRecorded, CurriculumTypeOK
<1>4. ChecksSawPublication'
  BY DEF ChecksSawPublication, EverPublished
<1> QED BY <1>1, <1>2, <1>3, <1>4

\* A superseded publication stays in the table.
LEMMA SupersedeStep ==
    ASSUME IInv, NEW i \in DOMAIN publications, Supersede(i)
    PROVE  IInv'
<1> USE DEF IInv
<1>1. /\ publications' = [publications EXCEPT ![i].active = FALSE]
      /\ UNCHANGED <<change, adoption, withdrawn, assessment, graded, job, calls, history>>
  BY DEF Supersede, schoolVars, gradingVars
<1>2. publications \in Seq(Publications)
  BY DEF CurriculumTypeOK
<1>3. [publications[i] EXCEPT !.active = FALSE] \in Publications
  <2>1. publications[i] \in Publications
    BY <1>2
  <2> QED BY <2>1 DEF Publications
<1>4. publications' \in Seq(Publications)
  BY <1>1, <1>2, <1>3
<1>5. /\ DOMAIN publications' = DOMAIN publications
      /\ \A j \in DOMAIN publications :
            /\ publications'[j].change = publications[j].change
            /\ publications'[j].version = publications[j].version
            /\ publications'[j].active => publications[j].active
  BY <1>1, <1>2, <1>3 DEF Publications
<1>6. OneActivePublication'
  BY <1>5 DEF CurriculumTypeOK, OneActivePublication
<1>7. CurriculumTypeOK'
  BY <1>1, <1>4, <1>6 DEF CurriculumTypeOK
<1>8. \A v \in Versions : EverPublished(v) => EverPublished(v)'
  BY <1>5 DEF EverPublished
<1>9. AdoptedWasReviewed'
  BY <1>1, <1>5, <1>8 DEF AdoptedWasReviewed, PublishedWasApproved
<1>10. ApprovalsRecorded'
  BY <1>1 DEF ApprovalsRecorded
<1>11. ChecksSawPublication'
  BY <1>1, <1>5 DEF ChecksSawPublication, EverPublished
<1> QED BY <1>7, <1>9, <1>10, <1>11

\* A call that begins loads or checks something and changes no table.
LEMMA BeginStep ==
    ASSUME IInv, NEW w \in Workers, NEW new \in Jobs, Begin(w, new),
           UNCHANGED <<change, publications, adoption, withdrawn, assessment, graded>>,
           new.at = "reviewing" /\ new.status = "approved" => new.id \in history.approved,
           new.at \in {"scheduling", "activating"} => EverPublished(new.version)
    PROVE  IInv'
<1> USE DEF IInv
<1>1. CurriculumTypeOK'
  BY BeginTypes DEF CurriculumTypeOK, OneActivePublication
<1>2. AdoptedWasReviewed'
  BY BeginTypes DEF AdoptedWasReviewed, PublishedWasApproved, EverPublished
<1>3. job' = [job EXCEPT ![w] = new] /\ job \in [Workers -> Jobs]
  BY DEF Begin, CurriculumTypeOK
<1>4. ApprovalsRecorded'
  BY <1>3, BeginTypes DEF ApprovalsRecorded
<1>5. ChecksSawPublication'
  BY <1>3 DEF ChecksSawPublication, EverPublished
<1> QED BY <1>1, <1>2, <1>4, <1>5

\* The calls that begin: each load or check meets the premises of BeginStep.
LEMMA CallsBegin ==
    ASSUME IInv, NEW w \in Workers,
           \/ \E c \in ChangeSets : LoadChangeSet(w, c)
           \/ \E s \in Schools, v \in Versions : CheckSchedule(w, s, v)
           \/ \E s \in Schools, v \in Versions : CheckActivate(w, s, v)
           \/ \E a \in Assessments : LoadAssessment(w, a)
           \/ \E a \in Assessments : ReadForSubmission(w, a)
    PROVE  IInv'
<1> USE DEF IInv, changeVars, schoolVars, gradingVars
<1>1. ASSUME NEW c \in ChangeSets, LoadChangeSet(w, c) PROVE IInv'
  <2> DEFINE new == [at |-> "reviewing", id |-> c, status |-> change[c]]
  <2>1. new \in Jobs
    BY DEF Jobs, ReviewJobs, CurriculumTypeOK
  <2>2. new.at = "reviewing" /\ new.status = "approved" => new.id \in history.approved
    BY DEF ApprovalsRecorded
  <2>3. Begin(w, new) BY <1>1 DEF LoadChangeSet
  <2> QED BY <1>1, <2>1, <2>2, <2>3, BeginStep DEF LoadChangeSet
<1>2. ASSUME NEW s \in Schools, NEW v \in Versions,
             CheckSchedule(w, s, v) \/ CheckActivate(w, s, v)
      PROVE  IInv'
  <2>1. PICK at \in {"scheduling", "activating"} :
           /\ Begin(w, [at |-> at, school |-> s, version |-> v])
           /\ Adoptable(v)
           /\ UNCHANGED <<change, publications, adoption, withdrawn, assessment, graded>>
    BY <1>2 DEF CheckSchedule, CheckActivate
  <2> DEFINE new == [at |-> at, school |-> s, version |-> v]
  <2>2. new \in Jobs
    BY DEF Jobs, AdoptionJobs
  <2>3. EverPublished(new.version)
    BY <2>1 DEF Adoptable, HasActivePublication, EverPublished
  <2>4. new.at # "reviewing" OBVIOUS
  <2>5. Begin(w, new) BY <2>1
  <2> HIDE DEF new
  <2> QED BY <2>1, <2>2, <2>3, <2>4, <2>5, BeginStep
<1>3. ASSUME NEW a \in Assessments, LoadAssessment(w, a) PROVE IInv'
  <2> DEFINE new == [at |-> "editing", id |-> a, row |-> assessment[a]]
  <2>1. new \in Jobs /\ new.at = "editing"
    BY DEF Jobs, EditJobs, CurriculumTypeOK
  <2>2. Begin(w, new) BY <1>3 DEF LoadAssessment
  <2> HIDE DEF new
  <2> QED BY <1>3, <2>1, <2>2, BeginStep DEF LoadAssessment
<1>4. ASSUME NEW a \in Assessments, ReadForSubmission(w, a) PROVE IInv'
  <2> DEFINE new == [at |-> "submitting", id |-> a]
  <2>1. new \in Jobs /\ new.at = "submitting"
    BY DEF Jobs, SubmitJobs
  <2>2. Begin(w, new) BY <1>4 DEF ReadForSubmission
  <2> HIDE DEF new
  <2> QED BY <1>4, <2>1, <2>2, BeginStep DEF ReadForSubmission
<1> QED BY <1>1, <1>2, <1>3, <1>4

\* A call that goes on with an assessment or ends has nothing left to do for an
\* adoption or a change set.
LEMMA ContinueStep ==
    ASSUME IInv, NEW w \in Workers, NEW new \in Jobs, Continue(w, new),
           new.at \in {"idle", "saving"},
           UNCHANGED <<change, publications>>,
           history' \in HistoryType, history'.approved = history.approved
    PROVE  /\ job' \in [Workers -> Jobs] /\ calls' \in 0..MaxCalls
           /\ change' \in [ChangeSets -> ChangeStatus]
           /\ publications' \in Seq(Publications) /\ OneActivePublication'
           /\ PublishedWasApproved'
           /\ \A v \in Versions : EverPublished(v) => EverPublished(v)'
           /\ ApprovalsRecorded'
           /\ ChecksSawPublication'
<1> USE DEF IInv
<1>1. /\ job' \in [Workers -> Jobs] /\ calls' \in 0..MaxCalls
      /\ change' \in [ChangeSets -> ChangeStatus]
      /\ publications' \in Seq(Publications) /\ OneActivePublication'
  BY ContinueTypes DEF CurriculumTypeOK, OneActivePublication
<1>2. job' = [job EXCEPT ![w] = new] /\ job \in [Workers -> Jobs]
  BY DEF Continue, CurriculumTypeOK
<1>3. PublishedWasApproved'
  BY DEF AdoptedWasReviewed, PublishedWasApproved
<1>4. \A v \in Versions : EverPublished(v) => EverPublished(v)'
  BY DEF EverPublished
<1>5. ApprovalsRecorded'
  BY <1>2 DEF ApprovalsRecorded
<1>6. ChecksSawPublication'
  BY <1>2 DEF ChecksSawPublication, EverPublished
<1> QED BY <1>1, <1>3, <1>4, <1>5, <1>6

\* An adoption is written for the version whose publication was seen.
LEMMA AdoptionWrites ==
    ASSUME IInv, NEW w \in Workers, Schedule(w) \/ Activate(w)
    PROVE  IInv'
<1> USE DEF IInv
<1>1. PICK status \in {"scheduled", "active"} :
         /\ job[w].at \in {"scheduling", "activating"}
         /\ adoption' = [adoption EXCEPT ![job[w].school][job[w].version] = status]
         /\ Continue(w, Idle)
         /\ UNCHANGED <<change, publications, withdrawn, assessment, graded, history>>
  BY DEF Schedule, Activate, changeVars, gradingVars
<1>2. job[w] \in AdoptionJobs
  BY <1>1, JobKinds DEF CurriculumTypeOK
<1>3. Idle \in Jobs /\ Idle.at = "idle"
  BY DEF Jobs, Idle
<1>4. history' \in HistoryType
  BY <1>1 DEF CurriculumTypeOK
<1>5. adoption' \in [Schools -> [Versions -> AdoptionStatus]]
  BY <1>1, <1>2 DEF CurriculumTypeOK, AdoptionJobs, AdoptionStatus
<1>6. CurriculumTypeOK'
  BY <1>1, <1>3, <1>4, <1>5, ContinueStep DEF CurriculumTypeOK
<1>7. EverPublished(job[w].version)
  BY <1>1 DEF ChecksSawPublication
<1>8. ASSUME NEW s \in Schools, NEW v \in Versions, adoption'[s][v] # "none"
      PROVE  EverPublished(v)
  <2>1. CASE v = job[w].version
    BY <2>1, <1>7
  <2>2. CASE v # job[w].version
    <3>1. adoption'[s][v] = adoption[s][v]
      BY <2>2, <1>1, <1>2 DEF CurriculumTypeOK, AdoptionJobs
    <3> QED BY <3>1, <1>8 DEF AdoptedWasReviewed
  <2> QED BY <2>1, <2>2
<1>9. AdoptedWasReviewed'
  BY <1>1, <1>3, <1>4, <1>8, ContinueStep DEF AdoptedWasReviewed
<1> QED BY <1>1, <1>3, <1>4, <1>6, <1>9, ContinueStep

\* A withdrawal touches no publication and no adoption.
LEMMA WithdrawStep ==
    ASSUME IInv, NEW v \in Versions, Withdraw(v)
    PROVE  IInv'
<1> USE DEF IInv
<1>1. /\ withdrawn' = withdrawn \cup {v}
      /\ history' = [history EXCEPT !.underway[v] = {w \in Workers : PastCheckOf(w, v)}]
      /\ UNCHANGED <<change, publications, adoption, assessment, graded, job, calls>>
  BY DEF Withdraw, changeVars, gradingVars
<1>2. history' \in HistoryType /\ history'.approved = history.approved
  <2> DEFINE late == {w \in Workers : PastCheckOf(w, v)}
  <2>1. late \in SUBSET Workers OBVIOUS
  <2>2. history' = [history EXCEPT !.underway[v] = late] BY <1>1
  <2> HIDE DEF late
  <2> QED BY <2>1, <2>2 DEF CurriculumTypeOK, HistoryType
<1>3. CurriculumTypeOK'
  BY <1>1, <1>2 DEF CurriculumTypeOK, OneActivePublication
<1>4. AdoptedWasReviewed'
  BY <1>1, <1>2 DEF AdoptedWasReviewed, PublishedWasApproved, EverPublished
<1>5. ApprovalsRecorded'
  BY <1>1, <1>2 DEF ApprovalsRecorded
<1>6. ChecksSawPublication'
  BY <1>1 DEF ChecksSawPublication, EverPublished
<1> QED BY <1>3, <1>4, <1>5, <1>6

\* Assessment.save up to its write keeps a row of the right type.
LEMMA CheckSaveStep ==
    ASSUME IInv, NEW w \in Workers, NEW status \in AssessmentStatus,
           NEW v \in Versions \cup {NoVersion}, CheckSave(w, status, v)
    PROVE  IInv'
<1> USE DEF IInv
<1> DEFINE row == [job[w].row EXCEPT !.status = status, !.version = v]
<1> DEFINE new == [at |-> "saving", id |-> job[w].id,
                   row |-> [row EXCEPT !.locked = @ \/ Operational(status)]]
<1>1. /\ job[w].at = "editing"
      /\ Continue(w, new)
      /\ UNCHANGED <<change, publications, adoption, withdrawn, assessment, graded,
                     history>>
  BY DEF CheckSave, changeVars, schoolVars, gradingVars
<1>2. job[w] \in EditJobs
  BY <1>1, JobKinds DEF CurriculumTypeOK
<1>3. row \in Rows
  BY <1>2 DEF EditJobs, Rows
<1>4. [row EXCEPT !.locked = @ \/ Operational(status)] \in Rows
  BY <1>3 DEF Rows, Operational
<1>5. new \in Jobs /\ new.at = "saving"
  BY <1>2, <1>4 DEF Jobs, EditJobs
<1> HIDE DEF new
<1>6. history' \in HistoryType
  BY <1>1 DEF CurriculumTypeOK
<1>7. CurriculumTypeOK'
  BY <1>1, <1>5, <1>6, ContinueStep DEF CurriculumTypeOK
<1>8. AdoptedWasReviewed'
  BY <1>1, <1>5, <1>6, ContinueStep DEF AdoptedWasReviewed
<1> QED BY <1>1, <1>5, <1>6, <1>7, <1>8, ContinueStep

\* Writes of assessments and grades leave curriculum truth alone.
LEMMA GradingWrites ==
    ASSUME IInv, NEW w \in Workers, Save(w) \/ CommitSubmission(w) \/ EndCall(w)
    PROVE  IInv'
<1> USE DEF IInv
<1>1. /\ Continue(w, Idle)
      /\ UNCHANGED <<change, publications, adoption, withdrawn>>
  BY DEF Save, CommitSubmission, EndCall, changeVars, schoolVars
<1>2. Idle \in Jobs /\ Idle.at = "idle"
  BY DEF Jobs, Idle
<1>3. /\ assessment' \in [Assessments -> Rows]
      /\ graded' \in SUBSET Assessments
      /\ history' \in HistoryType
      /\ history'.approved = history.approved
  <2> DEFINE holders == Holders(w, {"editing", "saving"})
  <2>1. holders \in SUBSET Workers
    BY DEF Holders
  <2>2. CASE Save(w)
    <3>1. job[w] \in EditJobs
      BY <2>2, JobKinds DEF Save, CurriculumTypeOK
    <3>2. assessment' = [assessment EXCEPT ![job[w].id] = job[w].row] /\ graded' = graded
      BY <2>2 DEF Save
    <3> DEFINE over == IF w \in history.outdated
                       THEN history.overlapped \cup {job[w].id} ELSE history.overlapped
               rel == IF /\ ~Operational(job[w].row.status) /\ job[w].row.locked
                         /\ job[w].row.version # assessment[job[w].id].version
                      THEN history.relabelled \cup {job[w].id} ELSE history.relabelled
    <3>3. history' = [history EXCEPT !.outdated = @ \cup holders, !.overlapped = over,
                                     !.relabelled = rel]
      BY <2>2 DEF Save
    <3>4. over \in SUBSET Assessments /\ rel \in SUBSET Assessments
      BY <3>1 DEF EditJobs, CurriculumTypeOK, HistoryType
    <3> HIDE DEF over, rel, holders
    <3>5. history' \in HistoryType /\ history'.approved = history.approved
      BY <2>1, <3>3, <3>4 DEF CurriculumTypeOK, HistoryType
    <3> QED BY <3>1, <3>2, <3>5 DEF EditJobs, CurriculumTypeOK
  <2>3. CASE CommitSubmission(w)
    <3>1. job[w] \in SubmitJobs
      BY <2>3, JobKinds DEF CommitSubmission, CurriculumTypeOK
    <3>2. graded' = graded \cup {job[w].id} /\ assessment' = assessment
      BY <2>3 DEF CommitSubmission
    <3> DEFINE seen == IF job[w].id \in graded THEN history.under[job[w].id]
                       ELSE assessment[job[w].id].version
    <3>3. history' = [history EXCEPT !.outdated = @ \cup holders,
                                     !.under[job[w].id] = seen]
      BY <2>3 DEF CommitSubmission
    <3>4. seen \in Versions \cup {NoVersion}
      BY <3>1 DEF SubmitJobs, CurriculumTypeOK, HistoryType, Rows
    <3> HIDE DEF seen, holders
    <3>5. history' \in HistoryType /\ history'.approved = history.approved
      BY <2>1, <3>1, <3>3, <3>4 DEF SubmitJobs, CurriculumTypeOK, HistoryType
    <3> QED BY <3>1, <3>2, <3>5 DEF SubmitJobs, CurriculumTypeOK
  <2>4. CASE EndCall(w)
    BY <2>4 DEF EndCall, gradingVars, CurriculumTypeOK
  <2> QED BY <2>2, <2>3, <2>4
<1>4. CurriculumTypeOK'
  BY <1>1, <1>2, <1>3, ContinueStep DEF CurriculumTypeOK
<1>5. AdoptedWasReviewed'
  BY <1>1, <1>2, <1>3, ContinueStep DEF AdoptedWasReviewed
<1> QED BY <1>1, <1>2, <1>3, <1>4, <1>5, ContinueStep

-----------------------------------------------------------------------------
\* The empty database satisfies the invariant.
LEMMA InitIInv == Init => IInv
<1> SUFFICES ASSUME Init PROVE IInv
  OBVIOUS
<1>1. publications = <<>> /\ publications \in Seq(Publications)
      /\ DOMAIN publications = {}
  BY DEF Init
<1>2. job \in [Workers -> Jobs]
  BY DEF Init, Jobs
<1>3. history \in HistoryType
  BY DEF Init, HistoryType
<1>4. assessment \in [Assessments -> Rows]
  BY DEF Init, Rows, AssessmentStatus
<1>5. calls \in 0..MaxCalls
  BY CurriculumAssumption DEF Init
<1>6. CurriculumTypeOK
  BY <1>1, <1>2, <1>3, <1>4, <1>5
     DEF Init, CurriculumTypeOK, OneActivePublication, ChangeStatus, AdoptionStatus
<1>7. AdoptedWasReviewed
  BY <1>1 DEF Init, AdoptedWasReviewed, PublishedWasApproved
<1>8. ApprovalsRecorded /\ ChecksSawPublication
  BY DEF Init, ApprovalsRecorded, ChecksSawPublication, Idle
<1> QED BY <1>6, <1>7, <1>8 DEF IInv

\* Every step keeps it.
LEMMA NextIInv == IInv /\ [Next]_vars => IInv'
<1> SUFFICES ASSUME IInv, [Next]_vars PROVE IInv'
  OBVIOUS
<1>1. ASSUME NEW w \in Workers, ReviewStep(w) PROVE IInv'
  BY <1>1, CallsBegin, ApproveOrRejectStep, PublishStep DEF ReviewStep
<1>2. ASSUME NEW w \in Workers, AdoptionStep(w) PROVE IInv'
  BY <1>2, CallsBegin, AdoptionWrites DEF AdoptionStep
<1>3. ASSUME NEW w \in Workers, GradingStep(w) PROVE IInv'
  BY <1>3, CallsBegin, CheckSaveStep, GradingWrites DEF GradingStep
<1>4. CASE UNCHANGED vars
  BY <1>4 DEF vars, IInv, CurriculumTypeOK, OneActivePublication, AdoptedWasReviewed,
             PublishedWasApproved, EverPublished, ApprovalsRecorded, ChecksSawPublication
<1> QED
  BY <1>1, <1>2, <1>3, <1>4, CreateChangeSetStep, SupersedeStep, WithdrawStep,
     GradingWrites DEF Next

\* The tables keep their types and no version has two active publications, for
\* any number of workers that publish, supersede and adopt at once.
THEOREM CurriculumTypeCorrect == Spec => []CurriculumTypeOK
<1>1. IInv => CurriculumTypeOK
  BY DEF IInv
<1> QED BY <1>1, InitIInv, NextIInv, PTL DEF Spec

\* Whatever objects workers hold and in whatever order they write them, a school
\* has adopted only versions that an approved change set has published.
THEOREM OnlyReviewedTruthIsAdopted == Spec => []AdoptedWasReviewed
<1>1. IInv => AdoptedWasReviewed
  BY DEF IInv
<1> QED BY <1>1, InitIInv, NextIInv, PTL DEF Spec

-----------------------------------------------------------------------------
(* The curriculum context of graded assessments.                            *)

EditPhases == {"editing", "saving"}

\* An object that is not out of date agrees with the row: as it was loaded, or
\* in what immutability and the binding time protect.
FreshObjects ==
    \A w \in Workers \ history.outdated :
        /\ job[w].at = "editing" => job[w].row = assessment[job[w].id]
        /\ job[w].at = "saving" =>
              /\ assessment[job[w].id].locked => job[w].row.locked
              /\ job[w].id \in graded =>
                    job[w].row.version = assessment[job[w].id].version

\* The binding time a submission has seen is lost to stale saves only.
SubmittersSawLock ==
    \A w \in Workers : job[w].at = "submitting" =>
        assessment[job[w].id].locked \/ job[w].id \in history.overlapped

FrozenInv ==
    /\ CurriculumTypeOK
    /\ FreshObjects
    /\ SubmittersSawLock
    /\ GradedContextFrozen

\* Steps that write no assessment and grade none keep the invariant, if the jobs
\* about assessments that remain were there before and stay as fresh.
LEMMA FrozenFrame ==
    ASSUME FrozenInv, CurriculumTypeOK',
           UNCHANGED <<assessment, graded>>,
           history'.overlapped = history.overlapped, history'.under = history.under,
           \A u \in Workers : job'[u].at \in EditPhases \cup {"submitting"} =>
               job'[u] = job[u] /\ (u \in history.outdated => u \in history'.outdated)
    PROVE  FrozenInv'
<1>1. FreshObjects'
  BY DEF FrozenInv, FreshObjects, EditPhases
<1>2. SubmittersSawLock'
  BY DEF FrozenInv, SubmittersSawLock, EditPhases
<1>3. GradedContextFrozen'
  BY DEF FrozenInv, GradedContextFrozen
<1> QED BY <1>1, <1>2, <1>3 DEF FrozenInv

\* What Begin does to the history.
LEMMA BeginHistory ==
    ASSUME CurriculumTypeOK, NEW w \in Workers, NEW new, Begin(w, new)
    PROVE  /\ history'.overlapped = history.overlapped
           /\ history'.under = history.under
           /\ history'.outdated = history.outdated \ {w}
           /\ job' = [job EXCEPT ![w] = new]
BY DEF Begin, CurriculumTypeOK, HistoryType

\* An object that has just been loaded is fresh.
LEMMA FrozenBegin ==
    ASSUME FrozenInv, CurriculumTypeOK', NEW w \in Workers, NEW new, Begin(w, new),
           UNCHANGED <<assessment, graded>>,
           new.at # "saving",
           new.at = "editing" => new.row = assessment[new.id],
           new.at = "submitting" => assessment[new.id].locked
    PROVE  FrozenInv'
<1>1. job \in [Workers -> Jobs]
  BY DEF FrozenInv, CurriculumTypeOK
<1>2. FreshObjects'
  BY <1>1, BeginHistory DEF FrozenInv, FreshObjects
<1>3. SubmittersSawLock'
  BY <1>1, BeginHistory DEF FrozenInv, SubmittersSawLock
<1>4. GradedContextFrozen'
  BY BeginHistory DEF FrozenInv, GradedContextFrozen
<1> QED BY <1>2, <1>3, <1>4 DEF FrozenInv

\* The calls that begin meet the premises of FrozenBegin.
LEMMA FrozenCallsBegin ==
    ASSUME FrozenInv, CurriculumTypeOK', NEW w \in Workers,
           \/ \E c \in ChangeSets : LoadChangeSet(w, c)
           \/ \E s \in Schools, v \in Versions : CheckSchedule(w, s, v)
           \/ \E s \in Schools, v \in Versions : CheckActivate(w, s, v)
           \/ \E a \in Assessments : LoadAssessment(w, a)
           \/ \E a \in Assessments : ReadForSubmission(w, a)
    PROVE  FrozenInv'
<1> USE DEF gradingVars
<1>1. ASSUME NEW c \in ChangeSets, LoadChangeSet(w, c) PROVE FrozenInv'
  <2> DEFINE new == [at |-> "reviewing", id |-> c, status |-> change[c]]
  <2>1. Begin(w, new) /\ new.at = "reviewing" /\ UNCHANGED <<assessment, graded>>
    BY <1>1 DEF LoadChangeSet
  <2> HIDE DEF new
  <2> QED BY <2>1, FrozenBegin
<1>2. ASSUME NEW s \in Schools, NEW v \in Versions, NEW at \in {"scheduling", "activating"},
             Begin(w, [at |-> at, school |-> s, version |-> v]),
             UNCHANGED <<assessment, graded>>
      PROVE  FrozenInv'
  <2> DEFINE new == [at |-> at, school |-> s, version |-> v]
  <2>1. Begin(w, new) /\ new.at \in {"scheduling", "activating"}
    BY <1>2
  <2> HIDE DEF new
  <2> QED BY <1>2, <2>1, FrozenBegin
<1>3. ASSUME NEW a \in Assessments, LoadAssessment(w, a) PROVE FrozenInv'
  <2> DEFINE new == [at |-> "editing", id |-> a, row |-> assessment[a]]
  <2>1. /\ Begin(w, new) /\ UNCHANGED <<assessment, graded>>
        /\ new.at = "editing" /\ new.row = assessment[new.id]
    BY <1>3 DEF LoadAssessment
  <2> HIDE DEF new
  <2> QED BY <2>1, FrozenBegin
<1>4. ASSUME NEW a \in Assessments, ReadForSubmission(w, a) PROVE FrozenInv'
  <2> DEFINE new == [at |-> "submitting", id |-> a]
  <2>1. /\ Begin(w, new) /\ UNCHANGED <<assessment, graded>>
        /\ new.at = "submitting" /\ assessment[new.id].locked
    BY <1>4 DEF ReadForSubmission
  <2> HIDE DEF new
  <2> QED BY <2>1, FrozenBegin
<1> QED BY <1>1, <1>2, <1>3, <1>4 DEF CheckSchedule, CheckActivate

\* Reviews, adoptions, withdrawals and the ends of calls.
LEMMA FrozenReview ==
    ASSUME FrozenInv, CurriculumTypeOK', NEW w \in Workers,
           Approve(w) \/ Reject(w) \/ Publish(w)
    PROVE  FrozenInv'
<1>1. PICK status \in ChangeStatus :
         SaveChangeSet(w, status) /\ job[w].at = "reviewing" /\ UNCHANGED <<assessment, graded>>
  BY DEF Approve, Reject, Publish, ChangeStatus, gradingVars
<1>2. /\ job' = [job EXCEPT ![w] = [at |-> "reviewing", id |-> job[w].id,
                                    status |-> status]]
      /\ job \in [Workers -> Jobs]
  BY <1>1, SaveChangeSetTypes DEF FrozenInv, CurriculumTypeOK
<1>3. /\ history'.overlapped = history.overlapped /\ history'.under = history.under
      /\ history.outdated \ {w} \subseteq history'.outdated
  BY <1>1 DEF SaveChangeSet, FrozenInv, CurriculumTypeOK, HistoryType
<1> QED BY <1>1, <1>2, <1>3, FrozenFrame DEF EditPhases

\* Steps about change sets, publications, adoptions and versions.
LEMMA FrozenOther ==
    ASSUME FrozenInv, CurriculumTypeOK',
           \/ \E c \in ChangeSets : CreateChangeSet(c)
           \/ \E i \in DOMAIN publications : Supersede(i)
           \/ \E v \in Versions : Withdraw(v)
           \/ \E w \in Workers : Schedule(w) \/ Activate(w) \/ EndCall(w)
    PROVE  FrozenInv'
<1>1. CASE \/ \E c \in ChangeSets : CreateChangeSet(c)
           \/ \E i \in DOMAIN publications : Supersede(i)
  BY <1>1, FrozenFrame DEF CreateChangeSet, Supersede, gradingVars
<1>2. ASSUME NEW v \in Versions, Withdraw(v) PROVE FrozenInv'
  <2>1. /\ history'.overlapped = history.overlapped /\ history'.under = history.under
        /\ history'.outdated = history.outdated
    BY <1>2 DEF Withdraw, FrozenInv, CurriculumTypeOK, HistoryType
  <2> QED BY <1>2, <2>1, FrozenFrame DEF Withdraw, gradingVars
<1>3. ASSUME NEW w \in Workers, Schedule(w) \/ Activate(w) \/ EndCall(w)
      PROVE  FrozenInv'
  <2>1. /\ job' = [job EXCEPT ![w] = Idle] /\ job \in [Workers -> Jobs]
        /\ UNCHANGED <<assessment, graded, history>>
    BY <1>3 DEF Schedule, Activate, EndCall, Continue, gradingVars, FrozenInv,
                CurriculumTypeOK
  <2> QED BY <2>1, FrozenFrame DEF EditPhases, Idle
<1> QED BY <1>1, <1>2, <1>3

\* full_clean keeps a fresh object in line with a graded row.
LEMMA FrozenCheckSave ==
    ASSUME FrozenInv, CurriculumTypeOK', NEW w \in Workers, NEW status \in AssessmentStatus,
           NEW v \in Versions \cup {NoVersion}, CheckSave(w, status, v)
    PROVE  FrozenInv'
<1> DEFINE a == job[w].id
           row == [job[w].row EXCEPT !.status = status, !.version = v]
           new == [at |-> "saving", id |-> a,
                   row |-> [row EXCEPT !.locked = @ \/ Operational(status)]]
<1>1. /\ job[w].at = "editing" /\ Continue(w, new)
      /\ ContextMutable(a, row)
      /\ UNCHANGED <<assessment, graded, history>>
  BY DEF CheckSave, gradingVars
<1>2. job[w] \in EditJobs /\ job \in [Workers -> Jobs]
  BY <1>1, JobKinds DEF FrozenInv, CurriculumTypeOK
<1>3. /\ row.version = v /\ row.locked = job[w].row.locked /\ row \in Rows
      /\ new.at = "saving" /\ new.id = a
  BY <1>2 DEF EditJobs, Rows
<1>4. new.row.version = v /\ (job[w].row.locked => new.row.locked)
  BY <1>3 DEF Rows, Operational
<1>5. a \in graded => new.row.version = assessment[a].version
  BY <1>1, <1>3, <1>4 DEF ContextMutable, ContextChanged
<1>6. job' = [job EXCEPT ![w] = new]
  BY <1>1 DEF Continue
<1> HIDE DEF new, row
<1>7. FreshObjects'
  <2> SUFFICES ASSUME NEW u \in Workers \ history'.outdated
               PROVE  /\ job'[u].at = "editing" => job'[u].row = assessment'[job'[u].id]
                      /\ job'[u].at = "saving" =>
                           /\ assessment'[job'[u].id].locked => job'[u].row.locked
                           /\ job'[u].id \in graded' =>
                                 job'[u].row.version = assessment'[job'[u].id].version
    BY DEF FreshObjects
  <2>1. CASE u = w
    <3>1. job[w].row = assessment[a]
      BY <2>1, <1>1 DEF FrozenInv, FreshObjects
    <3>2. job'[u] = new
      BY <2>1, <1>2, <1>6
    <3> QED BY <3>1, <3>2, <1>1, <1>3, <1>4, <1>5
  <2>2. CASE u # w
    BY <2>2, <1>1, <1>2, <1>6 DEF FrozenInv, FreshObjects
  <2> QED BY <2>1, <2>2
<1>8. SubmittersSawLock'
  BY <1>1, <1>2, <1>3, <1>6 DEF FrozenInv, SubmittersSawLock
<1>9. GradedContextFrozen'
  BY <1>1 DEF FrozenInv, GradedContextFrozen
<1> QED BY <1>7, <1>8, <1>9 DEF FrozenInv

\* A fresh object leaves the context as it was; a stale one marks the assessment.
LEMMA FrozenSave ==
    ASSUME FrozenInv, CurriculumTypeOK', NEW w \in Workers, Save(w)
    PROVE  FrozenInv'
<1> DEFINE a == job[w].id
<1>1. /\ job[w].at = "saving"
      /\ assessment' = [assessment EXCEPT ![a] = job[w].row]
      /\ job' = [job EXCEPT ![w] = Idle]
      /\ graded' = graded
  BY DEF Save, Continue
<1>2. job[w] \in EditJobs /\ job \in [Workers -> Jobs] /\ a \in Assessments
      /\ assessment \in [Assessments -> Rows]
  BY <1>1, JobKinds DEF FrozenInv, CurriculumTypeOK, EditJobs
<1>3. /\ history'.outdated = history.outdated \cup Holders(w, {"editing", "saving"})
      /\ history'.under = history.under
      /\ history.overlapped \subseteq history'.overlapped
      /\ w \in history.outdated => a \in history'.overlapped
  BY DEF Save, FrozenInv, CurriculumTypeOK, HistoryType
<1>4. FreshObjects'
  BY <1>1, <1>2, <1>3 DEF FrozenInv, FreshObjects, Holders, Idle
<1>5. w \notin history.outdated =>
         /\ assessment[a].locked => job[w].row.locked
         /\ a \in graded => job[w].row.version = assessment[a].version
  BY <1>1 DEF FrozenInv, FreshObjects
<1>6. SubmittersSawLock'
  <2> SUFFICES ASSUME NEW u \in Workers, job'[u].at = "submitting"
               PROVE  assessment'[job'[u].id].locked \/ job'[u].id \in history'.overlapped
    BY DEF SubmittersSawLock
  <2>1. job'[u] = job[u] /\ job[u].id \in Assessments
    BY <1>1, <1>2, JobKinds DEF Idle, SubmitJobs
  <2>2. assessment[job[u].id].locked \/ job[u].id \in history.overlapped
    BY <2>1 DEF FrozenInv, SubmittersSawLock
  <2> QED BY <2>1, <2>2, <1>1, <1>2, <1>3, <1>5
<1>7. GradedContextFrozen'
  <2> SUFFICES ASSUME NEW b \in graded', b \notin history'.overlapped
               PROVE  assessment'[b].locked /\ assessment'[b].version = history'.under[b]
    BY DEF GradedContextFrozen
  <2>1. b \in graded /\ b \notin history.overlapped /\ b \in Assessments
    BY <1>1, <1>3 DEF FrozenInv, CurriculumTypeOK
  <2>2. assessment[b].locked /\ assessment[b].version = history.under[b]
    BY <2>1 DEF FrozenInv, GradedContextFrozen
  <2> QED BY <2>1, <2>2, <1>1, <1>2, <1>3, <1>5
<1> QED BY <1>4, <1>6, <1>7 DEF FrozenInv

\* Grading begins on a locked row and makes the other objects stale.
LEMMA FrozenCommitSubmission ==
    ASSUME FrozenInv, CurriculumTypeOK', NEW w \in Workers, CommitSubmission(w)
    PROVE  FrozenInv'
<1> DEFINE a == job[w].id
<1>1. /\ job[w].at = "submitting"
      /\ graded' = graded \cup {a}
      /\ job' = [job EXCEPT ![w] = Idle]
      /\ assessment' = assessment
  BY DEF CommitSubmission, Continue
<1>2. /\ job[w] \in SubmitJobs /\ job \in [Workers -> Jobs] /\ a \in Assessments
  BY <1>1, JobKinds DEF FrozenInv, CurriculumTypeOK, SubmitJobs
<1>3. /\ history'.outdated = history.outdated \cup Holders(w, {"editing", "saving"})
      /\ history'.overlapped = history.overlapped
      /\ history'.under = [history.under EXCEPT ![a] =
                             IF a \in graded THEN @ ELSE assessment[a].version]
      /\ history.under \in [Assessments -> Versions \cup {NoVersion}]
  BY DEF CommitSubmission, FrozenInv, CurriculumTypeOK, HistoryType
<1>4. FreshObjects'
  BY <1>1, <1>2, <1>3 DEF FrozenInv, FreshObjects, Holders, Idle
<1>5. SubmittersSawLock'
  BY <1>1, <1>2, <1>3 DEF FrozenInv, SubmittersSawLock, Idle
<1>6. assessment[a].locked \/ a \in history.overlapped
  BY <1>1 DEF FrozenInv, SubmittersSawLock
<1>7. GradedContextFrozen'
  <2> SUFFICES ASSUME NEW b \in graded', b \notin history'.overlapped
               PROVE  assessment'[b].locked /\ assessment'[b].version = history'.under[b]
    BY DEF GradedContextFrozen
  <2>1. CASE b \in graded
    <3>1. b \in Assessments /\ assessment[b].locked
          /\ assessment[b].version = history.under[b]
      BY <2>1, <1>3 DEF FrozenInv, CurriculumTypeOK, GradedContextFrozen
    <3> QED BY <2>1, <3>1, <1>1, <1>3
  <2>2. CASE b \notin graded
    BY <2>2, <1>1, <1>2, <1>3, <1>6
  <2> QED BY <2>1, <2>2
<1> QED BY <1>4, <1>5, <1>7 DEF FrozenInv

\* No assessment is graded or loaded at first.
LEMMA InitFrozen == Init => FrozenInv
<1> SUFFICES ASSUME Init PROVE FrozenInv
  OBVIOUS
<1>1. CurriculumTypeOK BY InitIInv DEF IInv
<1>2. FreshObjects /\ SubmittersSawLock /\ GradedContextFrozen
  BY DEF Init, FreshObjects, SubmittersSawLock, GradedContextFrozen, Idle
<1> QED BY <1>1, <1>2 DEF FrozenInv

\* Every step keeps the frozen contexts, given the types it leads to.
LEMMA NextFrozen == FrozenInv /\ CurriculumTypeOK' /\ [Next]_vars => FrozenInv'
<1> SUFFICES ASSUME FrozenInv, CurriculumTypeOK', [Next]_vars PROVE FrozenInv'
  OBVIOUS
<1>1. ASSUME NEW w \in Workers, ReviewStep(w) PROVE FrozenInv'
  BY <1>1, FrozenCallsBegin, FrozenReview DEF ReviewStep
<1>2. ASSUME NEW w \in Workers, AdoptionStep(w) PROVE FrozenInv'
  BY <1>2, FrozenCallsBegin, FrozenOther DEF AdoptionStep
<1>3. ASSUME NEW w \in Workers, GradingStep(w) PROVE FrozenInv'
  BY <1>3, FrozenCallsBegin, FrozenCheckSave, FrozenSave, FrozenCommitSubmission
     DEF GradingStep
<1>4. CASE UNCHANGED vars
  BY <1>4, FrozenFrame DEF vars
<1> QED BY <1>1, <1>2, <1>3, <1>4, FrozenOther DEF Next

\* A graded assessment keeps its curriculum context and its binding time for any
\* interleaving of saves, submissions and withdrawals, unless a save writes an
\* object loaded before another save or the submission committed.
THEOREM GradedContextIsKept == Spec => []GradedContextFrozen
<1>1. FrozenInv => GradedContextFrozen
  BY DEF FrozenInv
<1> QED BY <1>1, InitFrozen, NextFrozen, CurriculumTypeCorrect, PTL DEF Spec

\* Only reviewed truth is published and adopted, however calls overlap.
THEOREM TruthWasReviewed == Spec => []TruthIsReviewed
<1>1. CurriculumTypeOK /\ AdoptedWasReviewed => TruthIsReviewed
  BY DEF TruthIsReviewed
<1>. QED  BY <1>1, CurriculumTypeCorrect, OnlyReviewedTruthIsAdopted, PTL

-----------------------------------------------------------------------------
(* Use follows adoption.                                                    *)

\* The school of an assessment has adopted the version, in whatever status.
Adopted(a, v, table) == v \in Versions /\ table[SchoolOf[a]][v] # "none"

\* A row in use, stored or about to be, has its binding time and a version.
UseIsBound ==
    /\ \A a \in Assessments : Operational(assessment[a].status) =>
          assessment[a].locked /\ assessment[a].version # NoVersion
    /\ \A w \in Workers : job[w].at = "saving" /\ Operational(job[w].row.status) =>
          job[w].row.locked /\ job[w].row.version # NoVersion

\* A binding time vouches for the version beside it, also in draft.
LockVouches ==
    \A a \in Assessments \ (history.overlapped \cup history.relabelled) :
        assessment[a].locked => Adopted(a, assessment[a].version, adoption)

\* What the object w writes, fresh and past its checks, may put in a row that
\* is now old.
MayReplace(row, a, old, table) ==
    /\ Operational(row.status) =>
          Adopted(a, row.version, table) \/ (old.locked /\ row.version = old.version)
    /\ ~Operational(row.status) => row.locked = old.locked

FreshUse ==
    \A w \in Workers \ history.outdated : job[w].at = "saving" =>
        MayReplace(job[w].row, job[w].id, assessment[job[w].id], adoption)

UseInv == UseIsBound /\ LockVouches /\ FreshUse

\* No service takes an adoption back.
LEMMA AdoptionStays ==
    ASSUME CurriculumTypeOK, [Next]_vars
    PROVE  \A s \in Schools, v \in Versions :
              adoption[s][v] # "none" => adoption'[s][v] # "none"
<1>1. CASE UNCHANGED adoption
  BY <1>1
<1>2. ASSUME NEW w \in Workers, Schedule(w) \/ Activate(w)
      PROVE  \A s \in Schools, v \in Versions :
                adoption[s][v] # "none" => adoption'[s][v] # "none"
  <2>1. PICK new \in {"scheduled", "active"} :
           adoption' = [adoption EXCEPT ![job[w].school][job[w].version] = new]
    BY <1>2 DEF Schedule, Activate
  <2>. QED  BY <2>1 DEF CurriculumTypeOK
<1>. QED  BY <1>1, <1>2
          DEF Next, ReviewStep, AdoptionStep, GradingStep, vars, CreateChangeSet, Supersede,
              Withdraw, LoadChangeSet, Approve, Reject, Publish, CheckSchedule,
              CheckActivate, LoadAssessment, ReadForSubmission, CheckSave, Save,
              CommitSubmission, EndCall, schoolVars

\* So what was adopted for an assessment still is.
LEMMA AdoptedStays ==
    ASSUME CurriculumTypeOK, [Next]_vars, NEW a \in Assessments, NEW v,
           Adopted(a, v, adoption)
    PROVE  Adopted(a, v, adoption')
BY AdoptionStays, CurriculumAssumption DEF Adopted

\* What the steps other than the two halves of a save leave alone.
QuietStep ==
    /\ assessment' = assessment
    /\ history'.overlapped = history.overlapped
    /\ history'.relabelled = history.relabelled
    /\ \A u \in Workers : job'[u].at = "saving" =>
          job'[u] = job[u] /\ (u \in history.outdated => u \in history'.outdated)

\* A call that begins holds nothing that it has checked.
LEMMA QuietBegin ==
    ASSUME CurriculumTypeOK, NEW w \in Workers, NEW new, Begin(w, new),
           new.at # "saving", assessment' = assessment
    PROVE  QuietStep
<1>1. job \in [Workers -> Jobs]
  BY DEF CurriculumTypeOK
<1>2. history'.relabelled = history.relabelled
  BY DEF Begin, CurriculumTypeOK, HistoryType
<1>. QED  BY <1>1, <1>2, BeginHistory DEF QuietStep

\* The calls that begin meet the premises of QuietBegin.
LEMMA QuietCallsBegin ==
    ASSUME CurriculumTypeOK, NEW w \in Workers,
           \/ \E c \in ChangeSets : LoadChangeSet(w, c)
           \/ \E s \in Schools, v \in Versions : CheckSchedule(w, s, v)
           \/ \E s \in Schools, v \in Versions : CheckActivate(w, s, v)
           \/ \E a \in Assessments : LoadAssessment(w, a)
           \/ \E a \in Assessments : ReadForSubmission(w, a)
    PROVE  QuietStep
<1>. SUFFICES \E new : Begin(w, new) /\ new.at # "saving" /\ assessment' = assessment
  BY QuietBegin
<1>1. ASSUME NEW c \in ChangeSets, LoadChangeSet(w, c)
      PROVE  \E new : Begin(w, new) /\ new.at # "saving" /\ assessment' = assessment
  <2>. DEFINE new == [at |-> "reviewing", id |-> c, status |-> change[c]]
  <2>1. Begin(w, new) /\ new.at = "reviewing" /\ assessment' = assessment
    BY <1>1 DEF LoadChangeSet, gradingVars
  <2>. HIDE DEF new
  <2>. QED  BY <2>1
<1>2. ASSUME NEW s \in Schools, NEW v \in Versions, NEW at \in {"scheduling", "activating"},
             Begin(w, [at |-> at, school |-> s, version |-> v]), UNCHANGED gradingVars
      PROVE  \E new : Begin(w, new) /\ new.at # "saving" /\ assessment' = assessment
  <2>. DEFINE new == [at |-> at, school |-> s, version |-> v]
  <2>1. Begin(w, new) /\ new.at # "saving" /\ assessment' = assessment
    BY <1>2 DEF gradingVars
  <2>. HIDE DEF new
  <2>. QED  BY <2>1
<1>3. ASSUME NEW a \in Assessments, LoadAssessment(w, a)
      PROVE  \E new : Begin(w, new) /\ new.at # "saving" /\ assessment' = assessment
  <2>. DEFINE new == [at |-> "editing", id |-> a, row |-> assessment[a]]
  <2>1. Begin(w, new) /\ new.at = "editing" /\ assessment' = assessment
    BY <1>3 DEF LoadAssessment, gradingVars
  <2>. HIDE DEF new
  <2>. QED  BY <2>1
<1>4. ASSUME NEW a \in Assessments, ReadForSubmission(w, a)
      PROVE  \E new : Begin(w, new) /\ new.at # "saving" /\ assessment' = assessment
  <2>. DEFINE new == [at |-> "submitting", id |-> a]
  <2>1. Begin(w, new) /\ new.at = "submitting" /\ assessment' = assessment
    BY <1>4 DEF ReadForSubmission, gradingVars
  <2>. HIDE DEF new
  <2>. QED  BY <2>1
<1>. QED  BY <1>1, <1>2, <1>3, <1>4 DEF CheckSchedule, CheckActivate

\* Only the two halves of a save are not quiet.
LEMMA QuietOrSave ==
    ASSUME CurriculumTypeOK, [Next]_vars
    PROVE  \/ QuietStep
           \/ \E w \in Workers : Save(w)
           \/ \E w \in Workers, status \in AssessmentStatus, v \in Versions \cup {NoVersion} :
                 CheckSave(w, status, v)
<1>. DEFINE goal == \/ QuietStep
                    \/ \E w \in Workers : Save(w)
                    \/ \E w \in Workers, status \in AssessmentStatus,
                          v \in Versions \cup {NoVersion} : CheckSave(w, status, v)
<1>1. job \in [Workers -> Jobs] /\ history \in HistoryType
  BY DEF CurriculumTypeOK
<1>2. ASSUME NEW w \in Workers, Approve(w) \/ Reject(w) \/ Publish(w) PROVE goal
  <2>1. PICK status \in ChangeStatus :
           SaveChangeSet(w, status) /\ job[w].at = "reviewing" /\ assessment' = assessment
    BY <1>2 DEF Approve, Reject, Publish, ChangeStatus, gradingVars
  <2>. DEFINE new == [at |-> "reviewing", id |-> job[w].id, status |-> status]
  <2>2. job' = [job EXCEPT ![w] = new] /\ new.at = "reviewing"
    BY <2>1, SaveChangeSetTypes
  <2>3. /\ history'.overlapped = history.overlapped
        /\ history'.relabelled = history.relabelled
        /\ history.outdated \ {w} \subseteq history'.outdated
    BY <1>1, <2>1 DEF SaveChangeSet, HistoryType
  <2>. HIDE DEF new
  <2>. QED  BY <1>1, <2>1, <2>2, <2>3 DEF QuietStep
<1>3. ASSUME NEW w \in Workers, CommitSubmission(w) PROVE goal
  <2>1. /\ job' = [job EXCEPT ![w] = Idle]
        /\ assessment' = assessment
    BY <1>3 DEF CommitSubmission, Continue
  <2>2. /\ history'.overlapped = history.overlapped
        /\ history'.relabelled = history.relabelled
        /\ history.outdated \subseteq history'.outdated
    BY <1>1, <1>3 DEF CommitSubmission, HistoryType
  <2>. QED  BY <1>1, <2>1, <2>2 DEF QuietStep, Idle
<1>4. ASSUME NEW v \in Versions, Withdraw(v) PROVE goal
  <2>1. /\ history'.overlapped = history.overlapped
        /\ history'.relabelled = history.relabelled
        /\ history'.outdated = history.outdated
    BY <1>1, <1>4 DEF Withdraw, HistoryType
  <2>. QED  BY <1>4, <2>1 DEF Withdraw, gradingVars, QuietStep
<1>5. ASSUME NEW w \in Workers, Schedule(w) \/ Activate(w) \/ EndCall(w) PROVE goal
  <2>1. job' = [job EXCEPT ![w] = Idle] /\ UNCHANGED <<assessment, history>>
    BY <1>5 DEF Schedule, Activate, EndCall, Continue, gradingVars
  <2>. QED  BY <1>1, <2>1 DEF QuietStep, Idle
<1>6. ASSUME \/ \E c \in ChangeSets : CreateChangeSet(c)
             \/ \E i \in DOMAIN publications : Supersede(i)
             \/ UNCHANGED vars
      PROVE  goal
  BY <1>6 DEF CreateChangeSet, Supersede, gradingVars, vars, QuietStep
<1>. QED  BY <1>2, <1>3, <1>4, <1>5, <1>6, QuietCallsBegin
          DEF Next, ReviewStep, AdoptionStep, GradingStep

\* A quiet step keeps the invariant: adoptions only grow.
LEMMA UseFrame ==
    ASSUME UseInv, CurriculumTypeOK, [Next]_vars, QuietStep
    PROVE  UseInv'
<1>1. UseIsBound'
  BY DEF UseInv, UseIsBound, QuietStep
<1>2. LockVouches'
  BY AdoptedStays DEF UseInv, LockVouches, QuietStep
<1>3. FreshUse'
  <2>. SUFFICES ASSUME NEW u \in Workers, u \notin history'.outdated,
                       job'[u].at = "saving"
                PROVE  MayReplace(job'[u].row, job'[u].id, assessment'[job'[u].id], adoption')
    BY DEF FreshUse
  <2>1. job'[u] = job[u] /\ u \notin history.outdated /\ assessment' = assessment
    BY DEF QuietStep
  <2>2. MayReplace(job[u].row, job[u].id, assessment[job[u].id], adoption)
    BY <2>1 DEF UseInv, FreshUse
  <2>3. job[u].id \in Assessments
    BY <2>1, JobKinds DEF CurriculumTypeOK, EditJobs
  <2>. QED  BY <2>1, <2>2, <2>3, AdoptedStays DEF MayReplace
<1>. QED  BY <1>1, <1>2, <1>3 DEF UseInv

\* What full_clean lets through: a version the school has adopted, or the one
\* the row is locked to; and the binding time of a row in use.
LEMMA UseCheckSave ==
    ASSUME UseInv, FrozenInv, [Next]_vars, NEW w \in Workers,
           NEW status \in AssessmentStatus, NEW v \in Versions \cup {NoVersion},
           CheckSave(w, status, v)
    PROVE  UseInv'
<1>. DEFINE a == job[w].id
            old == job[w].row
            row == [status |-> status, version |-> v, locked |-> old.locked]
            new == [status |-> status, version |-> v,
                    locked |-> old.locked \/ Operational(status)]
<1>1. CurriculumTypeOK /\ job \in [Workers -> Jobs]
  BY DEF FrozenInv, CurriculumTypeOK
<1>2. /\ job[w].at = "editing" /\ job[w] \in EditJobs
      /\ a \in Assessments /\ old \in Rows
  BY <1>1, JobKinds DEF CheckSave, EditJobs
<1>3. [old EXCEPT !.status = status, !.version = v] = row
  <2>. DEFINE kept == [old EXCEPT !.status = status]
  <2>1. kept = [status |-> status, version |-> old.version, locked |-> old.locked]
    BY <1>2 DEF Rows
  <2>2. [old EXCEPT !.status = status, !.version = v] = [kept EXCEPT !.version = v]
    OBVIOUS
  <2>. HIDE DEF kept
  <2>3. [kept EXCEPT !.version = v] = row
    BY <2>1
  <2>. QED  BY <2>2, <2>3
<1>4. [row EXCEPT !.locked = @ \/ Operational(status)] = new
  OBVIOUS
<1>5. BindingValid(a, row)
  BY <1>3 DEF CheckSave
<1>6. /\ job' = [job EXCEPT ![w] = [at |-> "saving", id |-> a, row |-> new]]
      /\ UNCHANGED <<assessment, adoption, history>>
  BY <1>3, <1>4 DEF CheckSave, Continue, gradingVars, schoolVars
<1>7. Operational(status) =>
         /\ v # NoVersion /\ v \in Versions
         /\ (old.locked /\ v = assessment[a].version) \/ Adopted(a, v, adoption)
  BY <1>5, CurriculumAssumption
     DEF BindingValid, ContextChanged, Bindable, Adopted
<1>8. UseIsBound'
  BY <1>1, <1>6, <1>7 DEF UseInv, UseIsBound
<1>9. LockVouches'
  BY <1>6 DEF UseInv, LockVouches
<1>10. w \notin history.outdated => old = assessment[a]
  BY <1>2 DEF FrozenInv, FreshObjects
<1>11. w \notin history.outdated => MayReplace(new, a, assessment[a], adoption)
  <2>1. /\ new.status = status /\ new.version = v
        /\ ~Operational(status) => new.locked = old.locked
    BY <1>2 DEF Rows, Operational
  <2>. HIDE DEF new
  <2>. QED  BY <1>7, <1>10, <2>1 DEF MayReplace
<1>12. FreshUse'
  <2>. HIDE DEF new
  <2>. QED  BY <1>1, <1>6, <1>11 DEF UseInv, FreshUse
<1>. QED  BY <1>8, <1>9, <1>12 DEF UseInv

\* The write: an object out of date marks the assessment, and so does a draft
\* that takes another version under its lock.
LEMMA UseSave ==
    ASSUME UseInv, FrozenInv, [Next]_vars, NEW w \in Workers, Save(w)
    PROVE  UseInv'
<1>. DEFINE a == job[w].id
            row == job[w].row
            old == assessment[a]
<1>1. CurriculumTypeOK /\ job \in [Workers -> Jobs] /\ assessment \in [Assessments -> Rows]
  BY DEF FrozenInv, CurriculumTypeOK
<1>2. job[w].at = "saving" /\ job[w] \in EditJobs /\ a \in Assessments /\ row \in Rows
  BY <1>1, JobKinds DEF Save, EditJobs
<1>3. /\ assessment' = [assessment EXCEPT ![a] = row]
      /\ job' = [job EXCEPT ![w] = Idle]
      /\ UNCHANGED adoption
  BY DEF Save, Continue, schoolVars
<1>4. /\ history'.outdated = history.outdated \cup Holders(w, {"editing", "saving"})
      /\ history.overlapped \subseteq history'.overlapped
      /\ history.relabelled \subseteq history'.relabelled
      /\ w \in history.outdated => a \in history'.overlapped
      /\ ~Operational(row.status) /\ row.locked /\ row.version # old.version
           => a \in history'.relabelled
  BY <1>1 DEF Save, CurriculumTypeOK, HistoryType
<1>5. UseIsBound'
  BY <1>1, <1>2, <1>3 DEF UseInv, UseIsBound, Idle
<1>6. LockVouches'
  <2>. SUFFICES ASSUME NEW b \in Assessments,
                       b \notin history'.overlapped \cup history'.relabelled,
                       assessment'[b].locked
                PROVE  Adopted(b, assessment'[b].version, adoption)
    BY <1>3 DEF LockVouches
  <2>1. old.locked /\ b = a => Adopted(a, old.version, adoption)
    BY <1>2, <1>4 DEF UseInv, LockVouches
  <2>2. CASE b = a
    <3>1. MayReplace(row, a, old, adoption)
      BY <1>2, <1>4, <2>2 DEF UseInv, FreshUse
    <3>2. assessment'[b] = row
      BY <1>1, <1>2, <1>3, <2>2
    <3>. QED  BY <1>4, <2>1, <2>2, <3>1, <3>2 DEF MayReplace
  <2>3. CASE b # a
    BY <1>1, <1>3, <1>4, <2>3 DEF UseInv, LockVouches
  <2>. QED  BY <2>2, <2>3
<1>7. FreshUse'
  <2>. SUFFICES ASSUME NEW u \in Workers, u \notin history'.outdated,
                       job'[u].at = "saving"
                PROVE  MayReplace(job'[u].row, job'[u].id, assessment'[job'[u].id], adoption)
    BY <1>3 DEF FreshUse
  <2>1. u # w /\ job'[u] = job[u]
    BY <1>1, <1>3 DEF Idle
  <2>2. job[u].id # a /\ u \notin history.outdated
    BY <1>4, <2>1 DEF Holders
  <2>3. assessment'[job[u].id] = assessment[job[u].id]
    BY <1>1, <1>3, <2>1, <2>2, JobKinds DEF EditJobs
  <2>. QED  BY <2>1, <2>2, <2>3 DEF UseInv, FreshUse
<1>. QED  BY <1>5, <1>6, <1>7 DEF UseInv

\* No row is in use or locked at first, and every step keeps the invariant.
LEMMA InitUse == Init => UseInv
BY DEF Init, UseInv, UseIsBound, LockVouches, FreshUse, Operational, Idle

\* Every step keeps use bound, locks vouched for and held objects fresh.
LEMMA NextUse == UseInv /\ FrozenInv /\ [Next]_vars => UseInv'
<1>. SUFFICES ASSUME UseInv, FrozenInv, [Next]_vars PROVE UseInv'
  OBVIOUS
<1>1. CurriculumTypeOK
  BY DEF FrozenInv
<1>. QED  BY <1>1, QuietOrSave, UseFrame, UseCheckSave, UseSave

\* A row in use with its binding time is accepted again as it stands.
LEMMA UseFollows == UseInv /\ CurriculumTypeOK => UseFollowsAdoption
<1>. SUFFICES ASSUME UseInv, CurriculumTypeOK PROVE UseFollowsAdoption
  OBVIOUS
<1>1. UnadoptedOnlyByDetour
  BY DEF UseInv, UseIsBound, LockVouches, Adopted, UnadoptedOnlyByDetour
<1>2. HistoryStaysUsable
  <2>. SUFFICES ASSUME NEW a \in Assessments, Operational(assessment[a].status),
                       NEW status \in AssessmentStatus \ {"draft"}
                PROVE  BindingValid(a, [assessment[a] EXCEPT !.status = status])
    BY DEF HistoryStaysUsable
  <2>1. assessment[a] \in Rows
    BY DEF CurriculumTypeOK
  <2>2. [assessment[a] EXCEPT !.status = status]
          = [status |-> status, version |-> assessment[a].version,
             locked |-> assessment[a].locked]
    BY <2>1 DEF Rows
  <2>3. assessment[a].locked /\ assessment[a].version # NoVersion
    BY DEF UseInv, UseIsBound
  <2>. QED  BY <2>2, <2>3 DEF BindingValid, ContextChanged
<1>. QED  BY <1>1, <1>2 DEF UseFollowsAdoption

\* However saves, adoptions and withdrawals overlap, an assessment in use has a
\* version its school has adopted and stays usable, but for draft detours and
\* saves of objects out of date.
THEOREM UseFollowsAdoptionAlways == Spec => []UseFollowsAdoption
<1>1. Spec => []FrozenInv
  BY InitFrozen, NextFrozen, CurriculumTypeCorrect, PTL DEF Spec
<1>2. FrozenInv => CurriculumTypeOK
  BY DEF FrozenInv
<1>. QED  BY <1>1, <1>2, InitUse, NextUse, UseFollows, PTL DEF Spec

-----------------------------------------------------------------------------
(* Withdrawal stops new use.                                                *)

\* A call about to adopt the version, about to put it in use, and a row that is
\* locked to it.
AdoptsNext(j, v) == j.at \in {"scheduling", "activating"} /\ j.version = v
UsesNext(j, v) == j.at = "saving" /\ Operational(j.row.status) /\ j.row.version = v
LockedTo(row, v) == row.locked /\ row.version = v

\* A call that is about to use a withdrawn version passed its checks before the
\* withdrawal, or keeps what the row is locked to.
PastChecks ==
    \A v \in withdrawn : \A w \in Workers \ history.underway[v] :
        /\ ~AdoptsNext(job[w], v)
        /\ UsesNext(job[w], v) /\ w \notin history.outdated
              => LockedTo(assessment[job[w].id], v)

\* Steps after which every call past its checks is as it was.
LEMMA PastFrame ==
    ASSUME PastChecks, withdrawn' = withdrawn, assessment' = assessment,
           history'.underway = history.underway,
           \A u \in Workers : job'[u].at \in {"scheduling", "activating", "saving"} =>
               job'[u] = job[u] /\ (u \in history.outdated => u \in history'.outdated)
    PROVE  PastChecks'
BY DEF PastChecks, AdoptsNext, UsesNext

\* A call that begins is past a check only of a version that is not withdrawn.
LEMMA PastBegin ==
    ASSUME PastChecks, CurriculumTypeOK, NEW w \in Workers, NEW new, Begin(w, new),
           new.at # "saving",
           new.at \in {"scheduling", "activating"} => new.version \notin withdrawn,
           withdrawn' = withdrawn, assessment' = assessment
    PROVE  PastChecks'
<1>1. /\ job \in [Workers -> Jobs] /\ withdrawn \subseteq Versions
      /\ job' = [job EXCEPT ![w] = new]
      /\ history'.outdated = history.outdated \ {w}
  BY BeginHistory DEF CurriculumTypeOK
<1>2. \A v \in Versions : history'.underway[v] = history.underway[v] \ {w}
  BY DEF Begin, CurriculumTypeOK, HistoryType
<1>. QED  BY <1>1, <1>2 DEF PastChecks, AdoptsNext, UsesNext

\* The calls that begin meet the premises of PastBegin.
LEMMA PastCallsBegin ==
    ASSUME PastChecks, CurriculumTypeOK, NEW w \in Workers,
           \/ \E c \in ChangeSets : LoadChangeSet(w, c)
           \/ \E s \in Schools, v \in Versions : CheckSchedule(w, s, v)
           \/ \E s \in Schools, v \in Versions : CheckActivate(w, s, v)
           \/ \E a \in Assessments : LoadAssessment(w, a)
           \/ \E a \in Assessments : ReadForSubmission(w, a)
    PROVE  PastChecks'
<1>. USE DEF gradingVars, schoolVars
<1>1. ASSUME NEW c \in ChangeSets, LoadChangeSet(w, c) PROVE PastChecks'
  <2>. DEFINE new == [at |-> "reviewing", id |-> c, status |-> change[c]]
  <2>1. /\ Begin(w, new) /\ new.at = "reviewing"
        /\ UNCHANGED <<assessment, withdrawn>>
    BY <1>1 DEF LoadChangeSet
  <2>. HIDE DEF new
  <2>. QED  BY <2>1, PastBegin
<1>2. ASSUME NEW s \in Schools, NEW v \in Versions, NEW at \in {"scheduling", "activating"},
             v \notin withdrawn, Begin(w, [at |-> at, school |-> s, version |-> v]),
             UNCHANGED <<assessment, withdrawn>>
      PROVE  PastChecks'
  <2>. DEFINE new == [at |-> at, school |-> s, version |-> v]
  <2>1. Begin(w, new) /\ new.at # "saving" /\ new.version \notin withdrawn
    BY <1>2
  <2>. HIDE DEF new
  <2>. QED  BY <1>2, <2>1, PastBegin
<1>3. ASSUME NEW a \in Assessments, LoadAssessment(w, a) PROVE PastChecks'
  <2>. DEFINE new == [at |-> "editing", id |-> a, row |-> assessment[a]]
  <2>1. Begin(w, new) /\ new.at = "editing" /\ UNCHANGED <<assessment, withdrawn>>
    BY <1>3 DEF LoadAssessment
  <2>. HIDE DEF new
  <2>. QED  BY <2>1, PastBegin
<1>4. ASSUME NEW a \in Assessments, ReadForSubmission(w, a) PROVE PastChecks'
  <2>. DEFINE new == [at |-> "submitting", id |-> a]
  <2>1. Begin(w, new) /\ new.at = "submitting" /\ UNCHANGED <<assessment, withdrawn>>
    BY <1>4 DEF ReadForSubmission
  <2>. HIDE DEF new
  <2>. QED  BY <2>1, PastBegin
<1>. QED  BY <1>1, <1>2, <1>3, <1>4 DEF CheckSchedule, CheckActivate, Adoptable

\* Reviews, the ends of calls and changes of truth begin no use.
LEMMA PastOther ==
    ASSUME PastChecks, CurriculumTypeOK,
           \/ \E c \in ChangeSets : CreateChangeSet(c)
           \/ \E i \in DOMAIN publications : Supersede(i)
           \/ UNCHANGED vars
           \/ \E w \in Workers :
                 \/ Approve(w) \/ Reject(w) \/ Publish(w)
                 \/ Schedule(w) \/ Activate(w) \/ CommitSubmission(w) \/ EndCall(w)
    PROVE  PastChecks'
<1>1. job \in [Workers -> Jobs] /\ history \in HistoryType
  BY DEF CurriculumTypeOK
<1>2. ASSUME NEW w \in Workers, Approve(w) \/ Reject(w) \/ Publish(w) PROVE PastChecks'
  <2>1. PICK status \in ChangeStatus :
           /\ SaveChangeSet(w, status) /\ job[w].at = "reviewing"
           /\ UNCHANGED <<assessment, withdrawn>>
    BY <1>2 DEF Approve, Reject, Publish, ChangeStatus, gradingVars, schoolVars
  <2>. DEFINE new == [at |-> "reviewing", id |-> job[w].id, status |-> status]
  <2>2. job' = [job EXCEPT ![w] = new] /\ new.at = "reviewing"
    BY <2>1, SaveChangeSetTypes
  <2>3. /\ history'.underway = history.underway
        /\ history.outdated \ {w} \subseteq history'.outdated
    BY <1>1, <2>1 DEF SaveChangeSet, HistoryType
  <2>. HIDE DEF new
  <2>. QED  BY <1>1, <2>1, <2>2, <2>3, PastFrame
<1>3. ASSUME NEW w \in Workers,
             Schedule(w) \/ Activate(w) \/ CommitSubmission(w) \/ EndCall(w)
      PROVE  PastChecks'
  <2>1. job' = [job EXCEPT ![w] = Idle] /\ UNCHANGED <<assessment, withdrawn>>
    BY <1>3 DEF Schedule, Activate, CommitSubmission, EndCall, Continue, gradingVars,
                schoolVars
  <2>2. /\ history'.underway = history.underway
        /\ history.outdated \subseteq history'.outdated
    <3>1. CASE CommitSubmission(w)
      BY <1>1, <3>1 DEF CommitSubmission, HistoryType
    <3>2. CASE Schedule(w) \/ Activate(w) \/ EndCall(w)
      BY <3>2 DEF Schedule, Activate, EndCall
    <3>. QED  BY <1>3, <3>1, <3>2
  <2>. QED  BY <1>1, <2>1, <2>2, PastFrame DEF Idle
<1>4. CASE \/ \E c \in ChangeSets : CreateChangeSet(c)
           \/ \E i \in DOMAIN publications : Supersede(i)
           \/ UNCHANGED vars
  BY <1>4, PastFrame DEF CreateChangeSet, Supersede, gradingVars, schoolVars, vars
<1>. QED  BY <1>2, <1>3, <1>4

\* Withdrawal records the calls that are past their checks.
LEMMA PastWithdraw ==
    ASSUME PastChecks, CurriculumTypeOK, NEW v \in Versions, Withdraw(v)
    PROVE  PastChecks'
<1>1. withdrawn' = withdrawn \cup {v} /\ UNCHANGED <<assessment, job>>
  BY DEF Withdraw, gradingVars
<1>2. /\ history'.outdated = history.outdated
      /\ history'.underway = [history.underway EXCEPT ![v] = {w \in Workers : PastCheckOf(w, v)}]
      /\ history.underway \in [Versions -> SUBSET Workers]
      /\ withdrawn \subseteq Versions
  BY DEF Withdraw, CurriculumTypeOK, HistoryType
<1>. QED  BY <1>1, <1>2 DEF PastChecks, PastCheckOf, AdoptsNext, UsesNext

\* A save passes its checks with a version that is not withdrawn, or keeps the
\* one it is locked to.
LEMMA PastCheckSave ==
    ASSUME PastChecks, FrozenInv, NEW w \in Workers,
           NEW status \in AssessmentStatus, NEW v \in Versions \cup {NoVersion},
           CheckSave(w, status, v)
    PROVE  PastChecks'
<1>. DEFINE a == job[w].id
            old == job[w].row
            row == [old EXCEPT !.status = status, !.version = v]
            new == [at |-> "saving", id |-> a,
                    row |-> [row EXCEPT !.locked = @ \/ Operational(status)]]
<1>1. /\ job[w].at = "editing" /\ job[w] \in EditJobs
      /\ old \in Rows /\ job \in [Workers -> Jobs]
  BY JobKinds DEF CheckSave, EditJobs, FrozenInv, CurriculumTypeOK
<1>2. /\ job' = [job EXCEPT ![w] = new] /\ BindingValid(a, row)
      /\ UNCHANGED <<assessment, withdrawn, history>>
  BY DEF CheckSave, Continue, gradingVars, schoolVars
<1>3. /\ row.status = status /\ row.version = v /\ row.locked = old.locked
      /\ new.at = "saving" /\ new.id = a
      /\ new.row.status = status /\ new.row.version = v
  BY <1>1 DEF Rows
<1>4. w \notin history.outdated => old = assessment[a]
  BY <1>1 DEF FrozenInv, FreshObjects
<1>. HIDE DEF new, row
<1>5. /\ w \notin history.outdated /\ Operational(status) /\ v \in withdrawn
         => assessment[a].locked /\ assessment[a].version = v
  BY <1>2, <1>3, <1>4 DEF BindingValid, ContextChanged, Bindable
<1>. QED  BY <1>1, <1>2, <1>3, <1>5 DEF PastChecks, AdoptsNext, UsesNext, LockedTo

\* A save makes every other object about its row out of date.
LEMMA PastSave ==
    ASSUME PastChecks, CurriculumTypeOK, NEW w \in Workers, Save(w)
    PROVE  PastChecks'
<1>1. /\ job[w].at = "saving" /\ job[w] \in EditJobs /\ job \in [Workers -> Jobs]
      /\ assessment \in [Assessments -> Rows]
  BY JobKinds DEF Save, CurriculumTypeOK
<1>2. /\ assessment' = [assessment EXCEPT ![job[w].id] = job[w].row]
      /\ job' = [job EXCEPT ![w] = Idle] /\ withdrawn' = withdrawn
  BY DEF Save, Continue, schoolVars
<1>3. /\ history'.underway = history.underway
      /\ history'.outdated = history.outdated \cup Holders(w, {"editing", "saving"})
  BY DEF Save, CurriculumTypeOK, HistoryType
<1>4. ASSUME NEW u \in Workers, job'[u].at \in {"scheduling", "activating", "saving"}
      PROVE  /\ job'[u] = job[u]
             /\ job[u].at = "saving" /\ u \notin history'.outdated =>
                   /\ u \notin history.outdated
                   /\ assessment'[job[u].id] = assessment[job[u].id]
  <2>1. u # w /\ job'[u] = job[u]
    BY <1>1, <1>2, <1>4 DEF Idle
  <2>2. job[u].at = "saving" /\ u \notin history'.outdated =>
           job[u].id # job[w].id /\ u \notin history.outdated
    BY <1>3, <2>1 DEF Holders
  <2>. QED  BY <1>1, <1>2, <2>1, <2>2, JobKinds DEF EditJobs
<1>. QED  BY <1>2, <1>3, <1>4 DEF PastChecks, AdoptsNext, UsesNext

\* Nothing is withdrawn at first, and every step keeps the invariant.
LEMMA InitPast == Init => PastChecks
BY DEF Init, PastChecks

\* Every step keeps what calls past their checks have seen.
LEMMA NextPast == PastChecks /\ FrozenInv /\ [Next]_vars => PastChecks'
<1>. SUFFICES ASSUME PastChecks, FrozenInv, [Next]_vars PROVE PastChecks'
  OBVIOUS
<1>1. CurriculumTypeOK
  BY DEF FrozenInv
<1>. QED  BY <1>1, PastCallsBegin, PastOther, PastWithdraw, PastCheckSave, PastSave
          DEF Next, ReviewStep, AdoptionStep, GradingStep

\* A row in use is locked, so that only a write of the row binds it anew.
LEMMA BoundAlready ==
    ASSUME UseIsBound, NEW a \in Assessments, NEW v, assessment'[a] = assessment[a]
    PROVE  ~Binds(a, v)
BY DEF UseIsBound, Binds

\* A new use of a withdrawn version is the write of a call that was past its
\* checks at the withdrawal.
LEMMA NewUseIsLate ==
    ASSUME PastChecks, UseInv, FrozenInv, [Next]_vars, NEW v \in withdrawn, NewUse(v)
    PROVE  \E w \in history.underway[v] : job'[w] # job[w]
<1>1. /\ CurriculumTypeOK /\ job \in [Workers -> Jobs] /\ v \in Versions
      /\ assessment \in [Assessments -> Rows]
  BY DEF FrozenInv, CurriculumTypeOK
<1>2. ASSUME NEW w \in Workers, Schedule(w) \/ Activate(w)
      PROVE  \E u \in history.underway[v] : job'[u] # job[u]
  <2>1. /\ job[w].at \in {"scheduling", "activating"} /\ job[w] \in AdoptionJobs
        /\ job' = [job EXCEPT ![w] = Idle] /\ assessment' = assessment
    BY <1>1, <1>2, JobKinds DEF Schedule, Activate, Continue, gradingVars
  <2>2. PICK new \in {"scheduled", "active"} :
           adoption' = [adoption EXCEPT ![job[w].school][job[w].version] = new]
    BY <1>2 DEF Schedule, Activate
  <2>3. PICK s \in Schools : adoption'[s][v] # adoption[s][v]
    BY <2>1, BoundAlready DEF NewUse, UseInv
  <2>4. job[w].version = v
    BY <1>1, <2>1, <2>2, <2>3 DEF CurriculumTypeOK, AdoptionJobs
  <2>5. w \in history.underway[v] /\ job'[w] # job[w]
    BY <1>1, <2>1, <2>4 DEF PastChecks, AdoptsNext, Idle
  <2>. QED  BY <2>5
<1>3. ASSUME NEW w \in Workers, Save(w)
      PROVE  \E u \in history.underway[v] : job'[u] # job[u]
  <2>. DEFINE a == job[w].id
  <2>1. /\ job[w].at = "saving" /\ job[w] \in EditJobs
        /\ assessment' = [assessment EXCEPT ![a] = job[w].row]
        /\ job' = [job EXCEPT ![w] = Idle] /\ adoption' = adoption
    BY <1>1, <1>3, JobKinds DEF Save, Continue, schoolVars
  <2>2. w \in history.outdated => a \in history'.overlapped
    BY <1>1, <1>3 DEF Save, CurriculumTypeOK, HistoryType
  <2>3. PICK b \in Assessments \ history'.overlapped : Binds(b, v)
    BY <2>1 DEF NewUse
  <2>4. b = a
    BY <1>1, <2>1, <2>3, BoundAlready DEF UseInv
  <2>5. w \notin history.outdated /\ assessment'[a] = job[w].row
    BY <1>1, <2>1, <2>2, <2>3, <2>4
  <2>6. /\ Operational(job[w].row.status) /\ job[w].row.version = v
        /\ ~(assessment[a].locked /\ assessment[a].version = v)
    BY <2>3, <2>4, <2>5 DEF Binds
  <2>7. w \in history.underway[v] /\ job'[w] # job[w]
    BY <1>1, <2>1, <2>5, <2>6 DEF PastChecks, UsesNext, LockedTo, Idle
  <2>. QED  BY <2>7
<1>4. CASE adoption' = adoption /\ assessment' = assessment
  BY <1>4, BoundAlready DEF NewUse, UseInv
<1>. QED
  BY <1>2, <1>3, <1>4
     DEF Next, ReviewStep, AdoptionStep, GradingStep, vars, CreateChangeSet, Supersede,
         Withdraw, LoadChangeSet, Approve, Reject, Publish, CheckSchedule,
         CheckActivate, LoadAssessment, ReadForSubmission, CheckSave,
         CommitSubmission, EndCall, schoolVars, gradingVars

\* Once a version is withdrawn, only calls that were past their checks before the
\* withdrawal adopt it or bind an assessment to it.
THEOREM WithdrawalStops == Spec => WithdrawalStopsNewUse
<1>1. PastChecks /\ UseInv /\ FrozenInv /\ [Next]_vars
        => [\A v \in withdrawn :
              NewUse(v) => \E w \in history.underway[v] : job'[w] # job[w]]_vars
  BY NewUseIsLate
<1>2. Spec => []FrozenInv
  BY InitFrozen, NextFrozen, CurriculumTypeCorrect, PTL DEF Spec
<1>. QED  BY <1>1, <1>2, InitUse, NextUse, InitPast, NextPast, PTL
          DEF Spec, WithdrawalStopsNewUse

-----------------------------------------------------------------------------
(* Each change set is published once.                                       *)

\* The status tells the publications, and an object, which is of a row that was
\* stored, has the row's status if it is not out of date.
PublishedOnce(c, status) ==
    IF status = "published" THEN \E i \in DOMAIN publications : PublicationsOf(c) = {i}
                            ELSE PublicationsOf(c) = {}

OnceInv ==
    /\ \A c \in ChangeSets \ history.stale : PublishedOnce(c, change[c])
    /\ \A w \in Workers : job[w].at = "reviewing" =>
          /\ job[w].status # "none"
          /\ w \notin history.outdated => job[w].status = change[job[w].id]

\* Steps that write no change set and publish nothing.
LEMMA OnceFrame ==
    ASSUME OnceInv, UNCHANGED <<change, publications>>, history'.stale = history.stale,
           \A u \in Workers : job'[u].at = "reviewing" =>
               job'[u] = job[u] /\ (u \in history.outdated => u \in history'.outdated)
    PROVE  OnceInv'
BY DEF OnceInv, PublishedOnce, PublicationsOf

\* A call that begins has the status of the row, if it reviews a change set.
LEMMA OnceBegin ==
    ASSUME OnceInv, CurriculumTypeOK, NEW w \in Workers, NEW new, Begin(w, new),
           new.at = "reviewing" => new.status = change[new.id] /\ new.status # "none",
           UNCHANGED <<change, publications>>
    PROVE  OnceInv'
<1>1. job \in [Workers -> Jobs] /\ history'.stale = history.stale
  BY DEF Begin, CurriculumTypeOK, HistoryType
<1>. QED  BY <1>1, BeginHistory DEF OnceInv, PublishedOnce, PublicationsOf

\* The calls that begin meet the premises of OnceBegin.
LEMMA OnceCallsBegin ==
    ASSUME OnceInv, CurriculumTypeOK, NEW w \in Workers,
           \/ \E c \in ChangeSets : LoadChangeSet(w, c)
           \/ \E s \in Schools, v \in Versions : CheckSchedule(w, s, v)
           \/ \E s \in Schools, v \in Versions : CheckActivate(w, s, v)
           \/ \E a \in Assessments : LoadAssessment(w, a)
           \/ \E a \in Assessments : ReadForSubmission(w, a)
    PROVE  OnceInv'
<1>. USE DEF changeVars
<1>1. ASSUME NEW c \in ChangeSets, LoadChangeSet(w, c) PROVE OnceInv'
  <2>. DEFINE new == [at |-> "reviewing", id |-> c, status |-> change[c]]
  <2>1. /\ Begin(w, new) /\ new.status = change[new.id] /\ new.status # "none"
        /\ UNCHANGED <<change, publications>>
    BY <1>1 DEF LoadChangeSet
  <2>. HIDE DEF new
  <2>. QED  BY <2>1, OnceBegin
<1>2. ASSUME NEW s \in Schools, NEW v \in Versions, NEW at \in {"scheduling", "activating"},
             Begin(w, [at |-> at, school |-> s, version |-> v]),
             UNCHANGED <<change, publications>>
      PROVE  OnceInv'
  <2>. DEFINE new == [at |-> at, school |-> s, version |-> v]
  <2>1. Begin(w, new) /\ new.at # "reviewing"
    BY <1>2
  <2>. HIDE DEF new
  <2>. QED  BY <1>2, <2>1, OnceBegin
<1>3. ASSUME NEW a \in Assessments, LoadAssessment(w, a) PROVE OnceInv'
  <2>. DEFINE new == [at |-> "editing", id |-> a, row |-> assessment[a]]
  <2>1. Begin(w, new) /\ new.at = "editing" /\ UNCHANGED <<change, publications>>
    BY <1>3 DEF LoadAssessment
  <2>. HIDE DEF new
  <2>. QED  BY <2>1, OnceBegin
<1>4. ASSUME NEW a \in Assessments, ReadForSubmission(w, a) PROVE OnceInv'
  <2>. DEFINE new == [at |-> "submitting", id |-> a]
  <2>1. Begin(w, new) /\ new.at = "submitting" /\ UNCHANGED <<change, publications>>
    BY <1>4 DEF ReadForSubmission
  <2>. HIDE DEF new
  <2>. QED  BY <2>1, OnceBegin
<1>. QED  BY <1>1, <1>2, <1>3, <1>4 DEF CheckSchedule, CheckActivate

\* A save of a change set puts its object in line with the row and the others
\* out of date; the row is stale if the object was.
LEMMA OnceSaved ==
    ASSUME OnceInv, CurriculumTypeOK, NEW w \in Workers, NEW status \in ChangeStatus \ {"none"},
           NEW a \in ChangeSets, job[w].at = "reviewing", job[w].id = a, SaveChangeSet(w, status),
           \A c \in ChangeSets \ {a} : PublicationsOf(c)' = PublicationsOf(c),
           DOMAIN publications \subseteq DOMAIN publications',
           w \notin history.outdated /\ a \notin history.stale => PublishedOnce(a, status)'
    PROVE  OnceInv'
<1>1. /\ job \in [Workers -> Jobs] /\ change \in [ChangeSets -> ChangeStatus]
      /\ job' = [job EXCEPT ![w] = [at |-> "reviewing", id |-> a, status |-> status]]
  BY SaveChangeSetTypes DEF CurriculumTypeOK
<1>2. /\ change' = [change EXCEPT ![a] = status]
      /\ history'.outdated = (history.outdated \ {w}) \cup Holders(w, {"reviewing"})
      /\ history.stale \subseteq history'.stale
      /\ w \in history.outdated => a \in history'.stale
  BY DEF SaveChangeSet, CurriculumTypeOK, HistoryType
<1>3. \A c \in ChangeSets \ history'.stale : PublishedOnce(c, change[c])'
  <2>. SUFFICES ASSUME NEW c \in ChangeSets, c \notin history'.stale
                PROVE  PublishedOnce(c, change[c])'
    OBVIOUS
  <2>1. CASE c = a
    BY <1>1, <1>2, <2>1 DEF PublishedOnce
  <2>2. CASE c # a
    BY <1>1, <1>2, <2>2 DEF OnceInv, PublishedOnce
  <2>. QED  BY <2>1, <2>2
<1>4. \A u \in Workers : job'[u].at = "reviewing" =>
         /\ job'[u].status # "none"
         /\ u \notin history'.outdated => job'[u].status = change'[job'[u].id]
  <2>. SUFFICES ASSUME NEW u \in Workers, job'[u].at = "reviewing"
                PROVE  /\ job'[u].status # "none"
                       /\ u \notin history'.outdated => job'[u].status = change'[job'[u].id]
    OBVIOUS
  <2>1. CASE u = w
    BY <1>1, <1>2, <2>1
  <2>2. CASE u # w
    <3>1. /\ job'[u] = job[u]
          /\ u \notin history'.outdated => job[u].id # a /\ u \notin history.outdated
      BY <1>1, <1>2, <2>2 DEF Holders
    <3>. QED  BY <1>1, <1>2, <3>1 DEF OnceInv
  <2>. QED  BY <2>1, <2>2
<1>. QED  BY <1>3, <1>4 DEF OnceInv

\* A published change set is neither approved nor rejected by a fresh object.
LEMMA OnceReviewed ==
    ASSUME OnceInv, CurriculumTypeOK, NEW w \in Workers, Approve(w) \/ Reject(w)
    PROVE  OnceInv'
<1>1. PICK status \in {"approved", "rejected"} :
         /\ SaveChangeSet(w, status) /\ job[w].at = "reviewing"
         /\ MayApprove(job[w].status) \/ MayReject(job[w].status)
         /\ publications' = publications
  BY DEF Approve, Reject
<1>2. job[w].status # "published" /\ job[w].id \in ChangeSets /\ status \in ChangeStatus
  BY <1>1, JobKinds
     DEF MayApprove, MayReject, MovedToReview, Allowed, CurriculumTypeOK, ReviewJobs,
         ChangeStatus
<1>3. PICK a \in ChangeSets : job[w].id = a
  BY <1>2
<1>4. \A c : PublicationsOf(c)' = PublicationsOf(c)
  BY <1>1 DEF PublicationsOf
<1>5. w \notin history.outdated /\ a \notin history.stale => PublishedOnce(a, status)'
  BY <1>1, <1>2, <1>3, <1>4 DEF OnceInv, PublishedOnce
<1>. QED  BY <1>1, <1>2, <1>3, <1>4, <1>5, OnceSaved

\* A fresh object publishes a change set that has no publication.
LEMMA OncePublish ==
    ASSUME OnceInv, CurriculumTypeOK, NEW w \in Workers, Publish(w)
    PROVE  OnceInv'
<1>0. PICK a \in ChangeSets : job[w].id = a
  BY JobKinds DEF Publish, CurriculumTypeOK, ReviewJobs
<1>. DEFINE row == [change |-> a, version |-> Proposes[a], active |-> TRUE]
            n == Len(publications) + 1
<1>1. /\ SaveChangeSet(w, "published") /\ job[w].at = "reviewing"
      /\ MayPublish(job[w].status)
      /\ publications' = Append(publications, row)
      /\ publications \in Seq(Publications)
  BY <1>0 DEF Publish, CurriculumTypeOK
<1>2. job[w].status # "published"
  BY <1>1 DEF MayPublish, Allowed
<1>3. /\ DOMAIN publications' = DOMAIN publications \cup {n}
      /\ n \notin DOMAIN publications
      /\ publications'[n] = row
      /\ \A i \in DOMAIN publications : publications'[i] = publications[i]
  <2>. HIDE DEF row
  <2>. QED  BY <1>1
<1>4. \A c \in ChangeSets \ {a} : PublicationsOf(c)' = PublicationsOf(c)
  BY <1>3 DEF PublicationsOf
<1>5. PublicationsOf(a) = {} => PublicationsOf(a)' = {n}
  BY <1>3 DEF PublicationsOf
<1>6. w \notin history.outdated /\ a \notin history.stale => PublishedOnce(a, "published")'
  BY <1>0, <1>1, <1>2, <1>3, <1>5 DEF OnceInv, PublishedOnce
<1>7. "published" \in ChangeStatus
  BY DEF ChangeStatus
<1>. QED  BY <1>0, <1>1, <1>3, <1>4, <1>6, <1>7, OnceSaved

\* The other steps publish nothing and change no status.
LEMMA OnceOther ==
    ASSUME OnceInv, CurriculumTypeOK,
           \/ \E c \in ChangeSets : CreateChangeSet(c)
           \/ \E i \in DOMAIN publications : Supersede(i)
           \/ \E v \in Versions : Withdraw(v)
           \/ UNCHANGED vars
           \/ \E w \in Workers :
                 \/ Schedule(w) \/ Activate(w) \/ CommitSubmission(w) \/ EndCall(w) \/ Save(w)
                 \/ \E status \in AssessmentStatus, v \in Versions \cup {NoVersion} :
                       CheckSave(w, status, v)
    PROVE  OnceInv'
<1>1. job \in [Workers -> Jobs] /\ history \in HistoryType
  BY DEF CurriculumTypeOK
<1>2. ASSUME NEW c \in ChangeSets, CreateChangeSet(c) PROVE OnceInv'
  <2>1. /\ change[c] = "none" /\ change' = [change EXCEPT ![c] = "detected"]
        /\ change \in [ChangeSets -> ChangeStatus]
        /\ UNCHANGED <<publications, job, history>>
    BY <1>2 DEF CreateChangeSet, CurriculumTypeOK
  <2>2. \A u \in Workers : job[u].at = "reviewing" => job[u].id \in ChangeSets
    BY <1>1, JobKinds DEF ReviewJobs
  <2>. QED  BY <2>1, <2>2 DEF OnceInv, PublishedOnce, PublicationsOf
<1>3. ASSUME NEW i \in DOMAIN publications, Supersede(i) PROVE OnceInv'
  <2>1. /\ publications' = [publications EXCEPT ![i].active = FALSE]
        /\ publications \in Seq(Publications)
        /\ UNCHANGED <<change, job, history>>
    BY <1>3 DEF Supersede, CurriculumTypeOK
  <2>2. /\ DOMAIN publications' = DOMAIN publications
        /\ \A j \in DOMAIN publications : publications'[j].change = publications[j].change
    BY <2>1 DEF Publications
  <2>. QED  BY <2>1, <2>2 DEF OnceInv, PublishedOnce, PublicationsOf
<1>4. ASSUME NEW v \in Versions, Withdraw(v) PROVE OnceInv'
  <2>1. history'.stale = history.stale /\ history'.outdated = history.outdated
    BY <1>1, <1>4 DEF Withdraw, HistoryType
  <2>. QED  BY <1>4, <2>1, OnceFrame DEF Withdraw, changeVars
<1>5. ASSUME NEW w \in Workers,
             Schedule(w) \/ Activate(w) \/ CommitSubmission(w) \/ EndCall(w) \/ Save(w)
      PROVE  OnceInv'
  <2>1. job' = [job EXCEPT ![w] = Idle] /\ UNCHANGED <<change, publications>>
    BY <1>5 DEF Schedule, Activate, CommitSubmission, EndCall, Save, Continue, changeVars
  <2>2. history'.stale = history.stale /\ history.outdated \subseteq history'.outdated
    <3>1. CASE CommitSubmission(w)
      BY <1>1, <3>1 DEF CommitSubmission, HistoryType
    <3>2. CASE Save(w)
      BY <1>1, <3>2 DEF Save, HistoryType
    <3>3. CASE Schedule(w) \/ Activate(w) \/ EndCall(w)
      BY <3>3 DEF Schedule, Activate, EndCall
    <3>. QED  BY <1>5, <3>1, <3>2, <3>3
  <2>. QED  BY <1>1, <2>1, <2>2, OnceFrame DEF Idle
<1>6. ASSUME NEW w \in Workers, NEW status \in AssessmentStatus,
             NEW v \in Versions \cup {NoVersion}, CheckSave(w, status, v)
      PROVE  OnceInv'
  <2>. DEFINE row == [[job[w].row EXCEPT !.status = status, !.version = v]
                        EXCEPT !.locked = @ \/ Operational(status)]
              new == [at |-> "saving", id |-> job[w].id, row |-> row]
  <2>1. /\ job' = [job EXCEPT ![w] = new] /\ new.at = "saving"
        /\ UNCHANGED <<change, publications, history>>
    BY <1>6 DEF CheckSave, Continue, changeVars
  <2>. HIDE DEF new
  <2>. QED  BY <1>1, <2>1, OnceFrame
<1>7. CASE UNCHANGED vars
  BY <1>7, OnceFrame DEF vars
<1>. QED  BY <1>2, <1>3, <1>4, <1>5, <1>6, <1>7

\* Nothing is published at first, and every step keeps the invariant.
LEMMA InitOnce == Init => OnceInv
BY DEF Init, OnceInv, PublishedOnce, PublicationsOf, Idle

\* Every step keeps one publication of each approval, but for old objects.
LEMMA NextOnce == OnceInv /\ CurriculumTypeOK /\ [Next]_vars => OnceInv'
BY OnceCallsBegin, OnceReviewed, OncePublish, OnceOther
   DEF Next, ReviewStep, AdoptionStep, GradingStep

\* A change set is published once and its status says so, for any interleaving of
\* reviews and publications, unless a save wrote an object that was out of date.
THEOREM OnlyStaleObjectsOverruleAlways == Spec => []OnlyStaleObjectsOverrule
<1>1. OnceInv => OnlyStaleObjectsOverrule
  <2>. SUFFICES ASSUME OnceInv, NEW c \in ChangeSets, c \notin history.stale
                PROVE  Cardinality(PublicationsOf(c)) = IF change[c] = "published" THEN 1 ELSE 0
    BY DEF OnlyStaleObjectsOverrule
  <2>1. \A i : Cardinality({i}) = 1
    BY FS_Singleton
  <2>2. Cardinality({}) = 0
    BY FS_EmptySet
  <2>. QED  BY <2>1, <2>2 DEF OnceInv, PublishedOnce
<1>. QED  BY <1>1, InitOnce, NextOnce, CurriculumTypeCorrect, PTL DEF Spec
=============================================================================
