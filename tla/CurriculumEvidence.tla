-------------------------- MODULE CurriculumEvidence --------------------------
(***************************************************************************)
(* Evidence that schools hand in for a curriculum change, from             *)
(* app/curriculum/services.py: submit_curriculum_evidence,                 *)
(* create_curriculum_verification_report, record_governance_decision,      *)
(* plan_curriculum_app_impacts and create_curriculum_rollback_candidate.   *)
(*                                                                         *)
(* The services take model instances that the caller loaded earlier and    *)
(* save whole rows; a verification report carries the evidence instance    *)
(* it was loaded or created with.  The scanner that sets                   *)
(* malware_scan_status and content_verification_status is not part of the  *)
(* repository.  Its two columns are one here: "clean" stands for clean and *)
(* passed, "suspect" for everything else that is not pending.              *)
(***************************************************************************)
EXTENDS Integers, Sequences, FiniteSets, FiniteSetsExt

CONSTANTS Senders,        \* schools that hand in evidence
          Documents,      \* what evidence_fingerprint identifies
          Storages,       \* storage references
          Officers,       \* concurrent requests
          Claims,         \* what is claimed and seen: the inputs of the score
          MaxEvidence,    \* bound: CurriculumEvidenceSubmission rows
          MaxSteps        \* bound: submissions, verdicts, rulings and crashes

Matches == {"unknown", "matched", "unmatched", "awaiting_confirmation"}
AllClaims == [known : BOOLEAN, reference : {"absent", "valid", "invalid"},
              publication : {"absent", "valid", "invalid"},
              dates : {"absent", "one", "both", "reversed"}, marks : 0..3]

ASSUME EvidenceAssumption ==
    /\ Claims \subseteq AllClaims
    /\ {MaxEvidence, MaxSteps} \subseteq Nat

VARIABLES evidence,    \* CurriculumEvidenceSubmission rows, oldest first
          vreport,     \* the CurriculumVerificationReport of each, one to one
          decisions,   \* CurriculumGovernanceDecision rows
          plans,       \* evidence with CurriculumAppImpactPlan rows
          candidates,  \* evidence with a CurriculumRollbackCandidate
          office,      \* what each request has loaded or checked
          owed,        \* events of committed rows still to be written
          outbox,      \* events written
          lost,        \* history: events whose process died first
          verdict,     \* history: the scanner's last word on each submission
          tainted,     \* history: rows whose verdict a stale copy overwrote
          verdicts, crashes

evidenceVars == <<evidence, vreport, decisions, plans, candidates, office, owed, outbox,
                  lost, verdict, tainted, verdicts, crashes>>

Ids == 1..MaxEvidence
NoReport == "none"
Resting == [phase |-> "idle", school |-> "none", doc |-> "none", storage |-> "none",
            original |-> 0, seen |-> 0, id |-> 0, copy |-> "pending", stale |-> FALSE]

EvidenceInit ==
    /\ evidence = <<>>
    /\ vreport = [i \in Ids |-> NoReport]
    /\ decisions = {} /\ plans = {} /\ candidates = {}
    /\ office = [o \in Officers |-> Resting]
    /\ owed = [o \in Officers |-> {}] /\ outbox = {} /\ lost = {}
    /\ verdict = [i \in Ids |-> "pending"]
    /\ tainted = {} /\ verdicts = 0 /\ crashes = 0

\* The bound of the model.
StepsLeft == Len(evidence) + verdicts + crashes + Cardinality(decisions)
             + Cardinality(plans) + Cardinality(candidates) < MaxSteps

-----------------------------------------------------------------------------
(* submit_curriculum_evidence.                                             *)

\* No other school has a submission with the storage reference.
StorageFree(school, storage) ==
    \A i \in DOMAIN evidence : evidence[i].storage = storage => evidence[i].school = school

SameDocument(doc) == {i \in DOMAIN evidence : evidence[i].doc = doc}

\* Faulty variant of Original: the newest submission of the document.
OriginalNewest(doc) == IF SameDocument(doc) = {} THEN 0 ELSE Max(SameDocument(doc))

\* The oldest submission with the fingerprint.
Original(doc) == IF SameDocument(doc) = {} THEN 0 ELSE Min(SameDocument(doc))

\* Metadata, scope and source URL are valid, and the two queries are made.
CheckSubmission(o, school, doc, storage) ==
    /\ office[o] = Resting /\ owed[o] = {}
    /\ Len(evidence) < MaxEvidence
    /\ StorageFree(school, storage)
    /\ office' = [office EXCEPT ![o] =
          [Resting EXCEPT !.phase = "submit", !.school = school, !.doc = doc,
                          !.storage = storage, !.original = Original(doc),
                          !.seen = Len(evidence)]]
    /\ UNCHANGED <<evidence, vreport, decisions, plans, candidates, owed, outbox, lost,
                   verdict, tainted, verdicts, crashes>>

\* The row: quarantined, or attached to the cluster of the original, which
\* duplicate_of names only within the school.
NewEvidence(c, id) ==
    [school |-> c.school, doc |-> c.doc, storage |-> c.storage, scan |-> "pending",
     status |-> IF c.original = 0 THEN "quarantined" ELSE "duplicate_attached",
     cluster |-> IF c.original = 0 THEN id ELSE evidence[c.original].cluster,
     duplicateOf |-> IF c.original # 0 /\ evidence[c.original].school = c.school
                     THEN c.original ELSE 0,
     seen |-> c.seen]

\* Faulty variant of Owes: an idempotency key without the kind of event.
OwesFirst(o, event) ==
    [owed EXCEPT ![o] = IF \E e \in outbox : e[2] = event[2] THEN {} ELSE {event}]

\* _record_curriculum_event_after_commit registers the on_commit callback.
Owes(o, event) == [owed EXCEPT ![o] = {event}]

InsertSubmission(o) ==
    /\ office[o].phase = "submit"
    /\ Len(evidence) < MaxEvidence /\ StepsLeft
    /\ evidence' = Append(evidence, NewEvidence(office[o], Len(evidence) + 1))
    /\ office' = [office EXCEPT ![o] = Resting]
    /\ owed' = Owes(o, <<"evidence_submitted", Len(evidence) + 1>>)
    /\ UNCHANGED <<vreport, decisions, plans, candidates, outbox, lost, verdict, tainted, verdicts, crashes>>

\* The on_commit callback, or the death of the process before it.
WriteEvent(o) ==
    /\ owed[o] # {}
    /\ outbox' = outbox \cup owed[o]
    /\ owed' = [owed EXCEPT ![o] = {}]
    /\ UNCHANGED <<evidence, vreport, decisions, plans, candidates, office, lost, verdict,
                   tainted, verdicts, crashes>>

OfficeCrash(o) ==
    /\ owed[o] # {}
    /\ StepsLeft /\ crashes' = crashes + 1
    /\ lost' = lost \cup owed[o]
    /\ owed' = [owed EXCEPT ![o] = {}]
    /\ office' = [office EXCEPT ![o] = Resting]
    /\ UNCHANGED <<evidence, vreport, decisions, plans, candidates, outbox, verdict, tainted,
                   verdicts>>

\* The scanner writes its two columns; copies loaded before are stale now.
Scan(i, result) ==
    /\ StepsLeft /\ verdicts' = verdicts + 1
    /\ i \in DOMAIN evidence
    /\ evidence' = [evidence EXCEPT ![i].scan = result]
    /\ verdict' = [verdict EXCEPT ![i] = result]
    /\ tainted' = tainted \ {i}
    /\ office' = [o \in Officers |->
          IF office[o].id = i THEN [office[o] EXCEPT !.stale = TRUE] ELSE office[o]]
    /\ UNCHANGED <<vreport, decisions, plans, candidates, owed, outbox, lost, crashes>>

-----------------------------------------------------------------------------
(* create_curriculum_verification_report.                                  *)

Load(o, i) ==
    /\ office[o] = Resting /\ owed[o] = {}
    /\ i \in DOMAIN evidence
    /\ office' = [office EXCEPT ![o] =
          [Resting EXCEPT !.phase = "loaded", !.id = i, !.copy = evidence[i].scan]]
    /\ UNCHANGED <<evidence, vreport, decisions, plans, candidates, owed, outbox, lost,
                   verdict, tainted, verdicts, crashes>>

\* validate_document_signals: the flags that cost ten points each.
RiskFlags(cl) ==
    (IF cl.reference = "invalid" THEN 1 ELSE 0) + (IF cl.publication = "invalid" THEN 1 ELSE 0)
    + (IF cl.dates = "reversed" THEN 1 ELSE 0)

DuplicateBonus(n) == Min({10, n})

\* score_verification_confidence
Score(cl, match, duplicates) ==
    LET raw == 10 + (IF cl.known THEN 20 ELSE 0)
               + (IF cl.reference = "valid" THEN 15 ELSE 0)
               + (IF cl.publication = "valid" THEN 10 ELSE 0)
               + (CASE cl.dates = "absent" -> 0 [] cl.dates = "one" -> 10 [] OTHER -> 20)
               + 5 * cl.marks
               + (CASE match = "matched" -> 30 [] match = "unmatched" -> -30 [] OTHER -> 0)
               + DuplicateBonus(duplicates) - 10 * RiskFlags(cl)
    IN  Max({0, Min({100, raw})})

\* The recommended action, as the review status of the report.
ReviewStatus(cl, match, duplicates) ==
    LET score == Score(cl, match, duplicates)
    IN  IF match = "unmatched" THEN "rejected"
        ELSE IF score >= 85 THEN "complete"
        ELSE IF score >= 70 THEN "escalated"
        ELSE IF score >= 45 THEN "awaiting_official_confirmation"
        ELSE "needs_more_evidence"

\* duplicate_signal_count: the other rows of the cluster, of any school.
DuplicateCount(i) ==
    Cardinality({j \in DOMAIN evidence : j # i /\ evidence[j].cluster = evidence[i].cluster})

EvidenceStatus(review) ==
    CASE review = "complete" -> "governance_ready"
      [] review \in {"escalated", "rejected"} -> review
      [] OTHER -> "verification_reported"

\* evidence_submission is a OneToOneField.
Unreported(i) == vreport[i] = NoReport

\* The report is inserted and the evidence saved: the whole row, from the
\* instance that was passed in.
CreateVerificationReport(o, cl, match) ==
    LET i == office[o].id
        review == ReviewStatus(cl, match, DuplicateCount(i))
    IN  /\ office[o].phase = "loaded"
        /\ Unreported(i)
        /\ vreport' = [vreport EXCEPT ![i] = review]
        /\ evidence' = [evidence EXCEPT ![i].scan = office[o].copy,
                                        ![i].status = EvidenceStatus(review)]
        /\ tainted' = IF office[o].stale THEN tainted \cup {i} ELSE tainted
        /\ owed' = Owes(o, <<"verification_report_created", i>>)
        /\ UNCHANGED <<office, decisions, plans, candidates, outbox, lost, verdict, verdicts,
                       crashes>>

-----------------------------------------------------------------------------
(* record_governance_decision.                                             *)

\* Faulty variant of DecisionAllowed: the scan is not looked at.
DecisionAllowedUnscanned(decision, i, copy) ==
    decision = "approved_for_publication" => vreport[i] \in {"complete", "escalated"}

\* validate_governance_decision and _require_evidence_ready_for_approval, on
\* the evidence instance the report came with.
DecisionAllowed(decision, i, copy) ==
    decision = "approved_for_publication" =>
        vreport[i] \in {"complete", "escalated"} /\ copy = "clean"

\* Any number of decisions may be recorded for a report.
RecordDecision(o, decision) ==
    LET i == office[o].id
    IN  /\ office[o].phase = "loaded" /\ owed[o] = {} /\ vreport[i] # NoReport
        /\ DecisionAllowed(decision, i, office[o].copy)
        /\ StepsLeft
        /\ decisions' = decisions \cup
              {[id |-> i, decision |-> decision, verdict |-> verdict[i],
                overlap |-> office[o].stale \/ i \in tainted]}
        /\ owed' = Owes(o, <<"governance_decision_recorded", i>>)
        /\ office' = [office EXCEPT ![o] = Resting]
        /\ UNCHANGED <<evidence, vreport, plans, candidates, outbox, lost, verdict, tainted, verdicts, crashes>>

\* plan_curriculum_app_impacts: for any report, without an event.
PlanAppImpacts(o) ==
    /\ office[o].phase = "loaded" /\ owed[o] = {} /\ vreport[office[o].id] # NoReport
    /\ StepsLeft
    /\ plans' = plans \cup {office[o].id}
    /\ office' = [office EXCEPT ![o] = Resting]
    /\ UNCHANGED <<evidence, vreport, decisions, candidates, owed, outbox, lost, verdict, tainted,
                   verdicts, crashes>>

\* create_curriculum_rollback_candidate: for any evidence.
CreateRollbackCandidate(o) ==
    /\ office[o].phase = "loaded" /\ owed[o] = {}
    /\ StepsLeft
    /\ candidates' = candidates \cup {office[o].id}
    /\ owed' = Owes(o, <<"rollback_candidate_created", office[o].id>>)
    /\ office' = [office EXCEPT ![o] = Resting]
    /\ UNCHANGED <<evidence, vreport, decisions, plans, outbox, lost, verdict, tainted, verdicts, crashes>>

EvidenceNext ==
    \/ \E o \in Officers :
          \/ \E school \in Senders, doc \in Documents, storage \in Storages :
                CheckSubmission(o, school, doc, storage)
          \/ InsertSubmission(o) \/ WriteEvent(o) \/ OfficeCrash(o)
          \/ \E i \in Ids : Load(o, i)
          \/ \E cl \in Claims, match \in Matches : CreateVerificationReport(o, cl, match)
          \/ \E d \in {"approved_for_publication", "rejected"} : RecordDecision(o, d)
          \/ PlanAppImpacts(o) \/ CreateRollbackCandidate(o)
    \/ \E i \in Ids, result \in {"clean", "suspect"} : Scan(i, result)

EvidenceSpec == EvidenceInit /\ [][EvidenceNext]_evidenceVars

-----------------------------------------------------------------------------
(* Properties.                                                             *)

\* A submission of a document that was on file when it was checked joins the
\* cluster of the oldest one, which is never itself a duplicate; two
\* submissions of a document open two review cases only when they overlap.
ClustersSplitOnlyByOverlap ==
    \A j \in DOMAIN evidence :
        /\ (\E i \in 1..evidence[j].seen : evidence[i].doc = evidence[j].doc) =>
              evidence[j].cluster = evidence[Min(SameDocument(evidence[j].doc))].cluster
        /\ evidence[j].duplicateOf # 0 =>
              /\ evidence[evidence[j].duplicateOf].duplicateOf = 0
              /\ evidence[evidence[j].duplicateOf].school = evidence[j].school

\* Two schools share a storage reference only if their submissions overlap.
StorageSharedOnlyByOverlap ==
    \A i, j \in DOMAIN evidence :
        i < j /\ evidence[i].storage = evidence[j].storage
              /\ evidence[i].school # evidence[j].school => i > evidence[j].seen

\* Whatever is approved for publication had "clean" as the scanner's last
\* word, unless a verdict came while somebody held an older copy of the row.
ApprovalFollowsCleanVerdict ==
    \A d \in decisions :
        d.decision = "approved_for_publication" =>
            /\ d.verdict = "clean" \/ d.overlap
            /\ vreport[d.id] \in {"complete", "escalated"}

\* Every submission, report, decision and candidate is announced in the
\* outbox, or about to be, unless the process died after the commit.
EvidenceAnnounced ==
    LET pending == UNION {owed[o] : o \in Officers}
        known(kind, i) == <<kind, i>> \in outbox \cup pending \cup lost
    IN  /\ \A i \in DOMAIN evidence : known("evidence_submitted", i)
        /\ \A i \in Ids : vreport[i] # NoReport => known("verification_report_created", i)
        /\ \A d \in decisions : known("governance_decision_recorded", d.id)
        /\ \A i \in candidates : known("rollback_candidate_created", i)

\* Documents and storage references are shared between submissions as the
\* look-ups intend, but for submissions that overlap.
SharedOnlyByOverlap == ClustersSplitOnlyByOverlap /\ StorageSharedOnlyByOverlap
=============================================================================
