--------------------------- MODULE GovernanceProofs ---------------------------
(***************************************************************************)
(* Proofs about CurriculumEvidence and CurriculumNotices, for any number   *)
(* of schools, documents, officers, clerks and rows.                       *)
(***************************************************************************)
EXTENDS CurriculumEvidence, CurriculumNotices, FiniteSetTheorems, TLAPS

\* A set of numbers has a least one.
LEMMA LeastExists ==
    ASSUME NEW S \in SUBSET Nat, S # {}
    PROVE  \E m \in S : \A k \in S : m <= k
<1>. DEFINE below == {p \in Nat \X Nat : p[1] < p[2]}
<1>1. IsWellFoundedOn(below, Nat)
  BY NatLessThanWellFounded DEF OpToRel
<1>3. \A k, m \in Nat : <<k, m>> \notin below => m <= k
  <2>1. \A k, m \in Nat : k < m => <<k, m>> \in below
    OBVIOUS
  <2>2. \A k, m \in Nat : ~(k < m) => m <= k
    OBVIOUS
  <2>. QED  BY <2>1, <2>2
<1>. HIDE DEF below
<1>2. \E m \in S : \A k \in S : <<k, m>> \notin below
  BY <1>1, WFMin
<1>. QED  BY <1>2, <1>3

-----------------------------------------------------------------------------
(* The inductive invariant of evidence.                                     *)

Scans == {"pending", "clean", "suspect"}
Reviews == {"rejected", "complete", "escalated", "awaiting_official_confirmation",
            "needs_more_evidence"}
EvidenceStatuses == {"quarantined", "duplicate_attached", "governance_ready",
                     "verification_reported", "escalated", "rejected"}
EventKinds == {"evidence_submitted", "verification_report_created",
               "governance_decision_recorded", "rollback_candidate_created"}

EvidenceRows ==
    [school : Senders, doc : Documents, storage : Storages, scan : Scans,
     status : EvidenceStatuses, cluster : Nat, duplicateOf : Nat, seen : Nat]
OfficeTasks ==
    [phase : {"idle", "submit", "loaded"}, school : Senders \cup {"none"},
     doc : Documents \cup {"none"}, storage : Storages \cup {"none"},
     original : Nat, seen : Nat, id : Nat, copy : Scans, stale : BOOLEAN]

\* The values of the columns and of what requests hold.
EvidenceTypes ==
    /\ evidence \in Seq(EvidenceRows) /\ Len(evidence) <= MaxEvidence
    /\ vreport \in [Ids -> Reviews \cup {NoReport}]
    /\ office \in [Officers -> OfficeTasks]
    /\ owed \in [Officers -> SUBSET (EventKinds \X Nat)]
    /\ verdict \in [Ids -> Scans]
    /\ tainted \subseteq DOMAIN evidence

\* m is the first with the document among the first n rows; 0 if none has it.
FirstOf(rows, doc, n, m) ==
    /\ m \in 0..n
    /\ m # 0 => rows[m].doc = doc
    /\ \A i \in 1..n : rows[i].doc = doc => m # 0 /\ m <= i

\* No other school has the storage reference among the first n rows.
FreeAmong(rows, school, storage, n) ==
    \A i \in 1..n : rows[i].storage = storage => rows[i].school = school

\* A submission past its look-ups knows what they found.
Informed(t, rows) ==
    /\ t.school \in Senders /\ t.doc \in Documents /\ t.storage \in Storages
    /\ t.seen <= Len(rows)
    /\ FirstOf(rows, t.doc, t.seen, t.original)
    /\ FreeAmong(rows, t.school, t.storage, t.seen)

\* A row carries what its look-ups found.
Attached(rows, j) ==
    LET e == rows[j]
    IN  /\ e.seen < j
        /\ FreeAmong(rows, e.school, e.storage, e.seen)
        /\ \E m \in 0..e.seen :
              /\ FirstOf(rows, e.doc, e.seen, m)
              /\ m # 0 => e.cluster = rows[m].cluster
              /\ e.duplicateOf # 0 => e.duplicateOf = m /\ rows[m].school = e.school

SharedInv ==
    /\ \A o \in Officers : office[o].phase = "submit" => Informed(office[o], evidence)
    /\ \A j \in DOMAIN evidence : Attached(evidence, j)

\* No request begins a second commit with an event unwritten.
OwedInv ==
    \A o \in Officers :
        /\ office[o].phase = "submit" => owed[o] = {}
        /\ office[o].phase = "loaded" =>
              /\ office[o].id \in DOMAIN evidence
              /\ owed[o] # {} => vreport[office[o].id] # NoReport

\* Rows and instances say what the scanner said last, unless a stale instance
\* was saved over it or the verdict is newer than the instance.
ScanInv ==
    /\ \A i \in DOMAIN evidence \ tainted : evidence[i].scan = verdict[i]
    /\ \A i \in Ids \ DOMAIN evidence : verdict[i] = "pending"
    /\ \A o \in Officers :
          office[o].phase = "loaded" /\ ~office[o].stale /\ office[o].id \notin tainted
             => office[o].copy = verdict[office[o].id]

EvidenceInv ==
    /\ EvidenceTypes /\ SharedInv /\ OwedInv /\ ScanInv
    /\ ApprovalFollowsCleanVerdict /\ EvidenceAnnounced

\* Both look-ups and rows depend on earlier rows only, of which nothing that
\* they looked at changes.
LEMMA EarlierRowsDecide ==
    ASSUME NEW old, NEW new, NEW n \in Nat,
           \A i \in 1..n : /\ new[i].doc = old[i].doc /\ new[i].school = old[i].school
                           /\ new[i].storage = old[i].storage
                           /\ new[i].cluster = old[i].cluster
    PROVE  /\ \A doc, m : FirstOf(old, doc, n, m) => FirstOf(new, doc, n, m)
           /\ \A school, storage :
                 FreeAmong(old, school, storage, n) => FreeAmong(new, school, storage, n)
<1>1. \A m \in 0..n : m # 0 => m \in 1..n
  OBVIOUS
<1>. QED  BY <1>1 DEF FirstOf, FreeAmong

\* The first with a document is unique.
LEMMA FirstIsUnique ==
    ASSUME NEW rows, NEW doc, NEW n \in Nat, NEW k \in Nat, NEW m, NEW l,
           FirstOf(rows, doc, n, m), FirstOf(rows, doc, k, l), m # 0, n <= k
    PROVE  l = m
<1>1. m \in 1..n /\ m \in 1..k /\ l \in 0..k
  BY DEF FirstOf
<1>2. l # 0 /\ l <= m
  BY <1>1 DEF FirstOf
<1>3. l \in 1..n
  BY <1>1, <1>2
<1>4. m <= l
  BY <1>2, <1>3 DEF FirstOf
<1>. QED  BY <1>1, <1>2, <1>3, <1>4

\* The look-up of submit_curriculum_evidence finds the first of the document.
LEMMA OriginalIsFirst ==
    ASSUME EvidenceTypes, NEW doc
    PROVE  FirstOf(evidence, doc, Len(evidence), Original(doc))
<1>1. /\ DOMAIN evidence = 1..Len(evidence) /\ Len(evidence) \in Nat
      /\ SameDocument(doc) \in SUBSET Nat
  BY DEF EvidenceTypes, SameDocument
<1>2. CASE SameDocument(doc) = {}
  BY <1>1, <1>2 DEF Original, FirstOf, SameDocument
<1>3. CASE SameDocument(doc) # {}
  <2>1. PICK m \in SameDocument(doc) : \A k \in SameDocument(doc) : m <= k
    BY <1>1, <1>3, LeastExists
  <2>2. /\ Min(SameDocument(doc)) \in SameDocument(doc)
        /\ \A k \in SameDocument(doc) : Min(SameDocument(doc)) <= k
    BY <2>1 DEF Min
  <2>3. Original(doc) = Min(SameDocument(doc))
    BY <1>3 DEF Original
  <2>. DEFINE l == Original(doc)
  <2>4. l \in DOMAIN evidence /\ evidence[l].doc = doc
    BY <2>2, <2>3 DEF SameDocument
  <2>5. ASSUME NEW i \in 1..Len(evidence), evidence[i].doc = doc
        PROVE  l <= i
    <3>1. i \in SameDocument(doc)
      BY <1>1, <2>5 DEF SameDocument
    <3>. QED  BY <3>1, <2>2, <2>3
  <2>6. l \in 1..Len(evidence) /\ l # 0
    BY <1>1, <2>4
  <2>. HIDE DEF l
  <2>7. FirstOf(evidence, doc, Len(evidence), l)
    BY <1>1, <2>4, <2>5, <2>6 DEF FirstOf
  <2>. QED  BY <2>7 DEF l
<1>. QED  BY <1>2, <1>3

-----------------------------------------------------------------------------
(* Steps of one request that write no evidence.                             *)

\* The events written, about to be written, or lost with their process.
Told == outbox \cup (UNION {owed[o] : o \in Officers}) \cup lost

\* No event is forgotten when a request replaces what it owes.
LEMMA ToldGrows ==
    ASSUME EvidenceTypes, NEW o \in Officers, NEW events,
           owed' = [owed EXCEPT ![o] = events],
           owed[o] \subseteq outbox' \cup lost' \cup events,
           outbox \subseteq outbox', lost \subseteq lost'
    PROVE  Told \subseteq Told' /\ events \subseteq Told'
<1>1. owed'[o] = events /\ \A p \in Officers : p # o => owed'[p] = owed[p]
  BY DEF EvidenceTypes
<1>2. ASSUME NEW e, e \in Told PROVE e \in Told'
  <2>1. CASE e \in outbox \cup lost
    BY <2>1 DEF Told
  <2>2. CASE e \in UNION {owed[p] : p \in Officers}
    <3>1. PICK p \in Officers : e \in owed[p]
      BY <2>2
    <3>2. e \in owed'[p] \/ e \in outbox' \cup lost' \cup events
      BY <1>1, <3>1
    <3>. QED  BY <1>1, <3>2 DEF Told
  <2>. QED  BY <1>2, <2>1, <2>2 DEF Told
<1>. QED  BY <1>1, <1>2 DEF Told

\* What is told of stays told of, and what is new is told of.
LEMMA AnnouncedStep ==
    ASSUME EvidenceTypes, EvidenceAnnounced, Told \subseteq Told',
           DOMAIN evidence' \ DOMAIN evidence \subseteq {i \in Nat : <<"evidence_submitted", i>> \in Told'},
           \A i \in Ids : vreport'[i] # vreport[i] => <<"verification_report_created", i>> \in Told',
           \A d \in decisions' \ decisions : <<"governance_decision_recorded", d.id>> \in Told',
           \A i \in candidates' \ candidates : <<"rollback_candidate_created", i>> \in Told'
    PROVE  EvidenceAnnounced'
<1>1. /\ \A i \in DOMAIN evidence : <<"evidence_submitted", i>> \in Told
      /\ \A i \in Ids : vreport[i] # NoReport => <<"verification_report_created", i>> \in Told
      /\ \A d \in decisions : <<"governance_decision_recorded", d.id>> \in Told
      /\ \A i \in candidates : <<"rollback_candidate_created", i>> \in Told
  BY DEF EvidenceAnnounced, Told
<1>2. /\ \A i \in DOMAIN evidence' : <<"evidence_submitted", i>> \in Told'
      /\ \A i \in Ids : vreport'[i] # NoReport => <<"verification_report_created", i>> \in Told'
      /\ \A d \in decisions' : <<"governance_decision_recorded", d.id>> \in Told'
      /\ \A i \in candidates' : <<"rollback_candidate_created", i>> \in Told'
  <2>1. \A i \in DOMAIN evidence' : <<"evidence_submitted", i>> \in Told'
    BY <1>1
  <2>2. \A i \in Ids : vreport'[i] # NoReport => <<"verification_report_created", i>> \in Told'
    BY <1>1
  <2>3. \A d \in decisions' : <<"governance_decision_recorded", d.id>> \in Told'
    BY <1>1
  <2>4. \A i \in candidates' : <<"rollback_candidate_created", i>> \in Told'
    BY <1>1
  <2>. QED  BY <2>1, <2>2, <2>3, <2>4
<1>. QED  BY <1>2 DEF EvidenceAnnounced, Told

\* What a request may hold after a step, given what it owes then.
TaskOK(t, events) ==
    /\ t \in OfficeTasks
    /\ t.phase = "submit" => Informed(t, evidence) /\ events = {}
    /\ t.phase = "loaded" =>
          /\ t.id \in DOMAIN evidence
          /\ events # {} => vreport[t.id] # NoReport
          /\ ~t.stale /\ t.id \notin tainted => t.copy = verdict[t.id]

\* A step of one request that leaves evidence and verdicts alone.
LEMMA OfficeStep ==
    ASSUME EvidenceInv, NEW o \in Officers, NEW t, NEW events,
           TaskOK(t, events), events \in SUBSET (EventKinds \X Nat),
           office' = [office EXCEPT ![o] = t], owed' = [owed EXCEPT ![o] = events],
           UNCHANGED <<evidence, vreport, verdict, tainted>>
    PROVE  EvidenceTypes' /\ SharedInv' /\ OwedInv' /\ ScanInv'
<1>1. /\ office'[o] = t /\ \A p \in Officers : p # o => office'[p] = office[p]
      /\ owed'[o] = events /\ \A p \in Officers : p # o => owed'[p] = owed[p]
  BY DEF EvidenceInv, EvidenceTypes
<1>2. EvidenceTypes'
  BY DEF EvidenceInv, EvidenceTypes, TaskOK
<1>3. SharedInv'
  BY <1>1 DEF EvidenceInv, SharedInv, TaskOK
<1>4. OwedInv'
  BY <1>1 DEF EvidenceInv, OwedInv, TaskOK
<1>5. ScanInv'
  BY <1>1 DEF EvidenceInv, ScanInv, TaskOK
<1>. QED  BY <1>2, <1>3, <1>4, <1>5

\* What it owes may stay as it is.
LEMMA TaskStep ==
    ASSUME EvidenceInv, NEW o \in Officers, NEW t, TaskOK(t, owed[o]),
           office' = [office EXCEPT ![o] = t], owed' = owed,
           UNCHANGED <<evidence, vreport, verdict, tainted>>
    PROVE  EvidenceTypes' /\ SharedInv' /\ OwedInv' /\ ScanInv'
<1>1. owed' = [owed EXCEPT ![o] = owed[o]] /\ owed[o] \in SUBSET (EventKinds \X Nat)
  BY DEF EvidenceInv, EvidenceTypes
<1>. QED  BY <1>1, OfficeStep

\* A request that holds nothing.
LEMMA RestingOK ==
    ASSUME NEW events
    PROVE  TaskOK(Resting, events)
BY DEF TaskOK, Resting, OfficeTasks, Scans

\* The look-ups of a submission.
LEMMA CheckSubmissionStep ==
    ASSUME EvidenceInv, NEW o \in Officers, NEW school \in Senders, NEW doc \in Documents,
           NEW storage \in Storages, CheckSubmission(o, school, doc, storage)
    PROVE  EvidenceInv'
<1>. DEFINE t == [Resting EXCEPT !.phase = "submit", !.school = school, !.doc = doc,
                                !.storage = storage, !.original = Original(doc),
                                !.seen = Len(evidence)]
<1>1. /\ t.phase = "submit" /\ t.school = school /\ t.doc = doc /\ t.storage = storage
      /\ t.original = Original(doc) /\ t.seen = Len(evidence)
  BY DEF Resting
<1>2. FirstOf(evidence, doc, Len(evidence), Original(doc))
  BY OriginalIsFirst DEF EvidenceInv
<1>3. FreeAmong(evidence, school, storage, Len(evidence))
  BY DEF CheckSubmission, StorageFree, FreeAmong, EvidenceInv, EvidenceTypes
<1>4. Len(evidence) \in Nat /\ Original(doc) \in Nat
  BY <1>2 DEF FirstOf, EvidenceInv, EvidenceTypes
<1>5. t \in OfficeTasks
  BY <1>4 DEF Resting, OfficeTasks, Scans
<1>6. office' = [office EXCEPT ![o] = t] /\ owed[o] = {}
  BY DEF CheckSubmission
<1>. HIDE DEF t
<1>7. TaskOK(t, owed[o])
  BY <1>1, <1>2, <1>3, <1>4, <1>5, <1>6 DEF TaskOK, Informed
<1>8. EvidenceTypes' /\ SharedInv' /\ OwedInv' /\ ScanInv'
  BY <1>6, <1>7, TaskStep DEF CheckSubmission
<1>9. ApprovalFollowsCleanVerdict' /\ EvidenceAnnounced'
  BY DEF CheckSubmission, EvidenceInv, ApprovalFollowsCleanVerdict, EvidenceAnnounced
<1>. QED  BY <1>8, <1>9 DEF EvidenceInv

\* An instance as it was just loaded says what the row says.
LEMMA LoadStep ==
    ASSUME EvidenceInv, NEW o \in Officers, NEW i \in Ids, Load(o, i)
    PROVE  EvidenceInv'
<1>. DEFINE t == [Resting EXCEPT !.phase = "loaded", !.id = i, !.copy = evidence[i].scan]
<1>1. /\ t.phase = "loaded" /\ t.id = i /\ t.copy = evidence[i].scan /\ t.stale = FALSE
  BY DEF Resting
<1>2. i \in DOMAIN evidence /\ owed[o] = {} /\ office' = [office EXCEPT ![o] = t]
  BY DEF Load
<1>3. evidence[i].scan \in Scans /\ i \in Nat
  <2>1. evidence \in Seq(EvidenceRows) /\ i \in DOMAIN evidence
    BY <1>2 DEF EvidenceInv, EvidenceTypes
  <2>2. evidence[i] \in EvidenceRows
    BY <2>1
  <2>. QED  BY <2>1, <2>2 DEF EvidenceRows, Ids
<1>4. t \in OfficeTasks
  BY <1>3 DEF Resting, OfficeTasks
<1>. HIDE DEF t
<1>5. TaskOK(t, owed[o])
  BY <1>1, <1>2, <1>4 DEF TaskOK, EvidenceInv, ScanInv
<1>6. EvidenceTypes' /\ SharedInv' /\ OwedInv' /\ ScanInv'
  BY <1>2, <1>5, TaskStep DEF Load
<1>7. ApprovalFollowsCleanVerdict' /\ EvidenceAnnounced'
  BY DEF Load, EvidenceInv, ApprovalFollowsCleanVerdict, EvidenceAnnounced
<1>. QED  BY <1>6, <1>7 DEF EvidenceInv

\* A request's own task is in order, whatever it owes less.
LEMMA TaskAsItIs ==
    ASSUME EvidenceInv, NEW o \in Officers
    PROVE  TaskOK(office[o], {})
BY DEF EvidenceInv, EvidenceTypes, SharedInv, OwedInv, ScanInv, TaskOK

\* The on_commit callback, or the crash before it.
LEMMA EventStep ==
    ASSUME EvidenceInv, NEW o \in Officers, WriteEvent(o) \/ OfficeCrash(o)
    PROVE  EvidenceInv'
<1>1. /\ owed' = [owed EXCEPT ![o] = {}]
      /\ UNCHANGED <<evidence, vreport, decisions, candidates, verdict, tainted>>
      /\ owed[o] \subseteq outbox' \cup lost' \cup {}
      /\ outbox \subseteq outbox' /\ lost \subseteq lost'
  BY DEF WriteEvent, OfficeCrash
<1>2. PICK t : office' = [office EXCEPT ![o] = t] /\ TaskOK(t, {})
  <2>1. CASE WriteEvent(o)
    <3>1. office' = [office EXCEPT ![o] = office[o]]
      BY <2>1 DEF WriteEvent, EvidenceInv, EvidenceTypes
    <3>. QED  BY <3>1, TaskAsItIs
  <2>2. CASE OfficeCrash(o)
    BY <2>2, RestingOK DEF OfficeCrash
  <2>. QED  BY <2>1, <2>2
<1>3. EvidenceTypes' /\ SharedInv' /\ OwedInv' /\ ScanInv'
  BY <1>1, <1>2, OfficeStep
<1>4. Told \subseteq Told'
  BY <1>1, ToldGrows DEF EvidenceInv
<1>5. EvidenceAnnounced'
  BY <1>1, <1>4, AnnouncedStep DEF EvidenceInv
<1>6. ApprovalFollowsCleanVerdict'
  BY <1>1 DEF EvidenceInv, ApprovalFollowsCleanVerdict
<1>. QED  BY <1>3, <1>5, <1>6 DEF EvidenceInv

\* A decision is recorded, a plan or a candidate created: the request is done.
LEMMA ClosingStep ==
    ASSUME EvidenceInv, NEW o \in Officers, NEW events \in SUBSET (EventKinds \X Nat),
           owed[o] = {}, office' = [office EXCEPT ![o] = Resting],
           owed' = [owed EXCEPT ![o] = events],
           UNCHANGED <<evidence, vreport, outbox, lost, verdict, tainted>>
    PROVE  /\ EvidenceTypes' /\ SharedInv' /\ OwedInv' /\ ScanInv'
           /\ Told \subseteq Told' /\ events \subseteq Told'
<1>1. EvidenceTypes' /\ SharedInv' /\ OwedInv' /\ ScanInv'
  BY RestingOK, OfficeStep
<1>. QED  BY <1>1, ToldGrows DEF EvidenceInv

\* What an officer has loaded is on file.
LEMMA LoadedIsOnFile ==
    ASSUME EvidenceInv, NEW o \in Officers, office[o].phase = "loaded"
    PROVE  office[o].id \in DOMAIN evidence /\ office[o].id \in Ids /\ office[o].id \in Nat
<1>1. /\ office[o].id \in DOMAIN evidence
      /\ DOMAIN evidence = 1..Len(evidence) /\ Len(evidence) \in Nat
      /\ Len(evidence) <= MaxEvidence
  BY DEF EvidenceInv, OwedInv, EvidenceTypes
<1>. QED  BY <1>1, EvidenceAssumption DEF Ids

\* An approval rests on an instance that says clean: so did the scanner, unless
\* a verdict overlapped.
LEMMA RecordDecisionStep ==
    ASSUME EvidenceInv, NEW o \in Officers, NEW decision, RecordDecision(o, decision)
    PROVE  EvidenceInv'
<1>. DEFINE i == office[o].id
            event == <<"governance_decision_recorded", i>>
            new == [id |-> i, decision |-> decision, verdict |-> verdict[i],
                    overlap |-> office[o].stale \/ i \in tainted]
<1>1. /\ office[o].phase = "loaded" /\ owed[o] = {}
      /\ DecisionAllowed(decision, i, office[o].copy)
      /\ decisions' = decisions \cup {new}
      /\ owed' = [owed EXCEPT ![o] = {event}]
      /\ office' = [office EXCEPT ![o] = Resting]
      /\ UNCHANGED <<evidence, vreport, candidates, outbox, lost, verdict, tainted>>
  BY DEF RecordDecision, Owes
<1>2. i \in Nat
  BY <1>1, LoadedIsOnFile
<1>3. {event} \in SUBSET (EventKinds \X Nat)
  BY <1>2 DEF EventKinds
<1>4. /\ EvidenceTypes' /\ SharedInv' /\ OwedInv' /\ ScanInv'
      /\ Told \subseteq Told' /\ event \in Told'
  <2>. HIDE DEF event
  <2>. QED  BY <1>1, <1>3, ClosingStep
<1>5. EvidenceAnnounced'
  <2>1. \A d \in decisions' \ decisions : d.id = i
    BY <1>1
  <2>. QED  BY <1>1, <1>4, <2>1, AnnouncedStep DEF EvidenceInv
<1>6. decision = "approved_for_publication" =>
         /\ new.verdict = "clean" \/ new.overlap
         /\ vreport[new.id] \in {"complete", "escalated"}
  BY <1>1 DEF DecisionAllowed, EvidenceInv, ScanInv
<1>7. ApprovalFollowsCleanVerdict'
  <2>1. new.decision = decision
    OBVIOUS
  <2>. HIDE DEF new
  <2>. QED  BY <1>1, <1>6, <2>1 DEF EvidenceInv, ApprovalFollowsCleanVerdict
<1>. QED  BY <1>4, <1>5, <1>7 DEF EvidenceInv

\* Plans are not announced, candidates are.
LEMMA PlanOrCandidateStep ==
    ASSUME EvidenceInv, NEW o \in Officers, PlanAppImpacts(o) \/ CreateRollbackCandidate(o)
    PROVE  EvidenceInv'
<1>. DEFINE i == office[o].id
            event == <<"rollback_candidate_created", i>>
<1>1. /\ office[o].phase = "loaded" /\ owed[o] = {}
      /\ office' = [office EXCEPT ![o] = Resting]
      /\ UNCHANGED <<evidence, vreport, decisions, outbox, lost, verdict, tainted>>
  BY DEF PlanAppImpacts, CreateRollbackCandidate
<1>2. ApprovalFollowsCleanVerdict'
  BY <1>1 DEF EvidenceInv, ApprovalFollowsCleanVerdict
<1>3. CASE PlanAppImpacts(o)
  <2>1. owed' = [owed EXCEPT ![o] = {}] /\ candidates' = candidates
    BY <1>1, <1>3 DEF PlanAppImpacts, EvidenceInv, EvidenceTypes
  <2>2. /\ EvidenceTypes' /\ SharedInv' /\ OwedInv' /\ ScanInv'
        /\ Told \subseteq Told'
    BY <1>1, <2>1, ClosingStep
  <2>3. EvidenceAnnounced'
    BY <1>1, <2>1, <2>2, AnnouncedStep DEF EvidenceInv
  <2>. QED  BY <1>2, <2>2, <2>3 DEF EvidenceInv
<1>4. CASE CreateRollbackCandidate(o)
  <2>1. owed' = [owed EXCEPT ![o] = {event}] /\ candidates' = candidates \cup {i}
    BY <1>4 DEF CreateRollbackCandidate, Owes
  <2>2. {event} \in SUBSET (EventKinds \X Nat)
    BY <1>1, LoadedIsOnFile DEF EventKinds
  <2>3. /\ EvidenceTypes' /\ SharedInv' /\ OwedInv' /\ ScanInv'
        /\ Told \subseteq Told' /\ event \in Told'
    <3>. HIDE DEF event
    <3>. QED  BY <1>1, <2>1, <2>2, ClosingStep
  <2>4. EvidenceAnnounced'
    BY <1>1, <2>1, <2>3, AnnouncedStep DEF EvidenceInv
  <2>. QED  BY <1>2, <2>3, <2>4 DEF EvidenceInv
<1>. QED  BY <1>3, <1>4

-----------------------------------------------------------------------------
(* Steps that write evidence.                                               *)

\* Rows and look-ups are as before when the columns they speak of are.
LEMMA AttachedKept ==
    ASSUME NEW old, NEW new, NEW j \in Nat,
           \A i \in 1..j : /\ new[i].doc = old[i].doc /\ new[i].school = old[i].school
                           /\ new[i].storage = old[i].storage
                           /\ new[i].cluster = old[i].cluster,
           new[j].seen = old[j].seen, new[j].duplicateOf = old[j].duplicateOf,
           old[j].seen \in Nat, j # 0, Attached(old, j)
    PROVE  Attached(new, j)
<1>1. old[j].seen < j /\ \A i \in 1..old[j].seen : i \in 1..j
  BY DEF Attached
<1>2. j \in 1..j
  OBVIOUS
<1>3. FreeAmong(new, new[j].school, new[j].storage, new[j].seen)
  BY <1>1, <1>2, EarlierRowsDecide DEF Attached
<1>4. PICK m \in 0..old[j].seen :
         /\ FirstOf(old, old[j].doc, old[j].seen, m)
         /\ m # 0 => old[j].cluster = old[m].cluster
         /\ old[j].duplicateOf # 0 => old[j].duplicateOf = m /\ old[m].school = old[j].school
  BY DEF Attached
<1>5. FirstOf(new, new[j].doc, new[j].seen, m)
  BY <1>1, <1>2, <1>4, EarlierRowsDecide
<1>6. m # 0 => m \in 1..j
  BY <1>1
<1>7. new[j].duplicateOf # 0 => m # 0
  BY <1>4
<1>. QED  BY <1>1, <1>2, <1>3, <1>4, <1>5, <1>6, <1>7 DEF Attached

\* What a submission has looked up stays true as the file grows behind it.
LEMMA InformedKept ==
    ASSUME NEW old, NEW new, NEW t \in OfficeTasks, Len(old) \in Nat, Len(new) \in Nat,
           Len(old) <= Len(new),
           \A i \in 1..Len(old) : /\ new[i].doc = old[i].doc /\ new[i].school = old[i].school
                                  /\ new[i].storage = old[i].storage
                                  /\ new[i].cluster = old[i].cluster,
           Informed(t, old)
    PROVE  Informed(t, new)
<1>1. t.seen \in Nat /\ t.seen <= Len(old)
  BY DEF OfficeTasks, Informed
<1>2. \A i \in 1..t.seen : i \in 1..Len(old)
  BY <1>1
<1>3. /\ FirstOf(old, t.doc, t.seen, t.original)
      /\ FreeAmong(old, t.school, t.storage, t.seen)
  BY DEF Informed
<1>4. /\ FirstOf(new, t.doc, t.seen, t.original)
      /\ FreeAmong(new, t.school, t.storage, t.seen)
  BY <1>1, <1>2, <1>3, EarlierRowsDecide
<1>5. t.seen <= Len(new)
  BY <1>1
<1>. QED  BY <1>4, <1>5 DEF Informed

\* The new row is attached to what its look-ups found.
LEMMA NewRow ==
    ASSUME EvidenceInv, NEW o \in Officers, office[o].phase = "submit", NEW n \in Nat \ {0}
    PROVE  /\ NewEvidence(office[o], n) \in EvidenceRows
           /\ NewEvidence(office[o], n).scan = "pending"
<1>. DEFINE c == office[o]
<1>1. /\ c \in OfficeTasks /\ Informed(c, evidence) /\ evidence \in Seq(EvidenceRows)
  BY DEF EvidenceInv, EvidenceTypes, SharedInv
<1>2. c.original # 0 => c.original \in DOMAIN evidence
  BY <1>1 DEF Informed, FirstOf, OfficeTasks
<1>3. c.original # 0 => evidence[c.original].cluster \in Nat
  <2>1. c.original # 0 => evidence[c.original] \in EvidenceRows
    BY <1>1, <1>2
  <2>. QED  BY <2>1 DEF EvidenceRows
<1>. QED  BY <1>1, <1>3
          DEF NewEvidence, EvidenceRows, Informed, OfficeTasks, Scans, EvidenceStatuses

\* The insert and its commit.
LEMMA InsertStep ==
    ASSUME EvidenceInv, NEW o \in Officers, InsertSubmission(o)
    PROVE  EvidenceInv'
<1>. DEFINE n == Len(evidence) + 1
            c == office[o]
            row == NewEvidence(c, n)
            event == <<"evidence_submitted", n>>
<1>1. /\ c.phase = "submit" /\ Len(evidence) < MaxEvidence
      /\ evidence' = Append(evidence, row)
      /\ office' = [office EXCEPT ![o] = Resting]
      /\ owed' = [owed EXCEPT ![o] = {event}]
      /\ UNCHANGED <<vreport, decisions, candidates, outbox, lost, verdict, tainted>>
  BY DEF InsertSubmission, Owes
<1>2. /\ evidence \in Seq(EvidenceRows) /\ Len(evidence) \in Nat
      /\ office \in [Officers -> OfficeTasks] /\ owed[o] = {}
      /\ Informed(c, evidence) /\ c \in OfficeTasks
  BY <1>1 DEF EvidenceInv, EvidenceTypes, SharedInv, OwedInv
<1>3. row \in EvidenceRows /\ row.scan = "pending"
  BY <1>1, <1>2, NewRow
<1>4. /\ row.school = c.school /\ row.doc = c.doc /\ row.storage = c.storage
      /\ row.seen = c.seen
      /\ c.original # 0 => row.cluster = evidence[c.original].cluster
      /\ row.duplicateOf # 0 =>
            row.duplicateOf = c.original /\ evidence[c.original].school = c.school
  BY DEF NewEvidence
<1>. HIDE DEF row
<1>5. /\ evidence' \in Seq(EvidenceRows) /\ Len(evidence') = n
      /\ evidence'[n] = row
      /\ \A i \in 1..Len(evidence) : evidence'[i] = evidence[i]
      /\ DOMAIN evidence = 1..Len(evidence) /\ DOMAIN evidence' = 1..n
  BY <1>1, <1>2, <1>3
<1>6. n \in Nat /\ n <= MaxEvidence /\ n \in Ids
  BY <1>1, <1>2, EvidenceAssumption DEF Ids
<1>7. /\ office'[o] = Resting /\ \A p \in Officers : p # o => office'[p] = office[p]
      /\ owed'[o] = {event} /\ \A p \in Officers : p # o => owed'[p] = owed[p]
  BY <1>1, <1>2 DEF EvidenceInv, EvidenceTypes
<1>8. Resting \in OfficeTasks /\ Resting.phase = "idle"
  BY DEF Resting, OfficeTasks, Scans
<1>9. EvidenceTypes'
  <2>1. event \in EventKinds \X Nat
    BY <1>6 DEF EventKinds
  <2>. HIDE DEF event
  <2>. QED  BY <1>1, <1>5, <1>6, <1>8, <2>1 DEF EvidenceInv, EvidenceTypes
<1>10. SharedInv'
  <2>1. ASSUME NEW p \in Officers, office'[p].phase = "submit"
        PROVE  Informed(office'[p], evidence')
    <3>1. office'[p] = office[p] /\ office[p] \in OfficeTasks
      BY <1>2, <1>7, <1>8, <2>1
    <3>2. Informed(office[p], evidence)
      BY <2>1, <3>1 DEF EvidenceInv, SharedInv
    <3>. QED  BY <1>2, <1>5, <1>6, <3>1, <3>2, InformedKept
  <2>2. ASSUME NEW j \in DOMAIN evidence' PROVE Attached(evidence', j)
    <3>1. CASE j = n
      <4>1. /\ c.seen \in Nat /\ c.seen <= Len(evidence) /\ c.original \in 0..c.seen
            /\ FirstOf(evidence, c.doc, c.seen, c.original)
            /\ FreeAmong(evidence, c.school, c.storage, c.seen)
        BY <1>2 DEF Informed, OfficeTasks, FirstOf
      <4>2. \A i \in 1..c.seen : i \in 1..Len(evidence)
        BY <1>2, <4>1
      <4>3. /\ FirstOf(evidence', c.doc, c.seen, c.original)
            /\ FreeAmong(evidence', c.school, c.storage, c.seen)
        BY <1>5, <4>1, <4>2, EarlierRowsDecide
      <4>4. c.original # 0 => evidence'[c.original] = evidence[c.original]
        BY <1>5, <4>1, <4>2
      <4>5. c.seen < n
        BY <1>2, <4>1
      <4>6. row.duplicateOf # 0 => c.original # 0
        BY <1>4
      <4>. QED  BY <1>4, <1>5, <3>1, <4>1, <4>3, <4>4, <4>5, <4>6 DEF Attached
    <3>2. CASE j # n
      <4>1. j \in 1..Len(evidence) /\ j \in Nat /\ j # 0
        BY <1>2, <1>5, <3>2
      <4>2. Attached(evidence, j) /\ evidence[j].seen \in Nat
        <5>1. evidence[j] \in EvidenceRows
          BY <1>2, <4>1
        <5>. QED  BY <1>5, <4>1, <5>1 DEF EvidenceInv, SharedInv, EvidenceRows
      <4>3. \A i \in 1..j : evidence'[i] = evidence[i]
        BY <1>2, <1>5, <4>1
      <4>4. evidence'[j] = evidence[j]
        BY <1>5, <4>1
      <4>. QED  BY <4>1, <4>2, <4>3, <4>4, AttachedKept
    <3>. QED  BY <3>1, <3>2
  <2>. QED  BY <2>1, <2>2 DEF SharedInv
<1>11. OwedInv'
  BY <1>1, <1>2, <1>5, <1>7, <1>8 DEF EvidenceInv, OwedInv
<1>12. ScanInv'
  <2>1. n \notin DOMAIN evidence /\ verdict[n] = "pending"
    BY <1>2, <1>5, <1>6 DEF EvidenceInv, ScanInv
  <2>2. \A i \in DOMAIN evidence' : i # n => i \in DOMAIN evidence
    BY <1>2, <1>5
  <2>. QED  BY <1>1, <1>3, <1>5, <1>7, <1>8, <2>1, <2>2 DEF EvidenceInv, ScanInv
<1>13. EvidenceAnnounced'
  <2>1. Told \subseteq Told' /\ {event} \subseteq Told'
    <3>. HIDE DEF event
    <3>. QED  BY <1>1, <1>2, ToldGrows DEF EvidenceInv
  <2>2. \A i \in DOMAIN evidence' \ DOMAIN evidence : i = n
    BY <1>2, <1>5
  <2>. QED  BY <1>1, <1>6, <2>1, <2>2, AnnouncedStep DEF EvidenceInv
<1>14. ApprovalFollowsCleanVerdict'
  BY <1>1 DEF EvidenceInv, ApprovalFollowsCleanVerdict
<1>. QED  BY <1>9, <1>10, <1>11, <1>12, <1>13, <1>14 DEF EvidenceInv

\* Scanner and report write columns that no look-up reads.
LEMMA ColumnsKept ==
    ASSUME EvidenceInv, NEW i \in DOMAIN evidence, NEW row \in EvidenceRows,
           evidence' = [evidence EXCEPT ![i] = row],
           row.school = evidence[i].school, row.doc = evidence[i].doc,
           row.storage = evidence[i].storage, row.cluster = evidence[i].cluster,
           row.seen = evidence[i].seen, row.duplicateOf = evidence[i].duplicateOf
    PROVE  /\ evidence' \in Seq(EvidenceRows) /\ Len(evidence') = Len(evidence)
           /\ DOMAIN evidence' = DOMAIN evidence
           /\ \A j \in DOMAIN evidence : Attached(evidence', j)
           /\ \A t \in OfficeTasks : Informed(t, evidence) => Informed(t, evidence')
<1>1. /\ evidence \in Seq(EvidenceRows) /\ Len(evidence) \in Nat
      /\ DOMAIN evidence = 1..Len(evidence)
  BY DEF EvidenceInv, EvidenceTypes
<1>2. /\ evidence' \in Seq(EvidenceRows) /\ Len(evidence') = Len(evidence)
      /\ DOMAIN evidence' = DOMAIN evidence
  BY <1>1
<1>3. \A j \in DOMAIN evidence :
         /\ evidence'[j].doc = evidence[j].doc /\ evidence'[j].school = evidence[j].school
         /\ evidence'[j].storage = evidence[j].storage
         /\ evidence'[j].cluster = evidence[j].cluster
         /\ evidence'[j].seen = evidence[j].seen
         /\ evidence'[j].duplicateOf = evidence[j].duplicateOf
  BY <1>1
<1>4. ASSUME NEW j \in DOMAIN evidence PROVE Attached(evidence', j)
  <2>1. /\ j \in Nat /\ j # 0 /\ \A k \in 1..j : k \in DOMAIN evidence
        /\ evidence[j] \in EvidenceRows
    BY <1>1
  <2>2. Attached(evidence, j) /\ evidence[j].seen \in Nat
    BY <2>1 DEF EvidenceInv, SharedInv, EvidenceRows
  <2>. QED  BY <1>3, <2>1, <2>2, AttachedKept
<1>5. ASSUME NEW t \in OfficeTasks, Informed(t, evidence) PROVE Informed(t, evidence')
  <2>1. \A k \in 1..Len(evidence) :
           /\ evidence'[k].doc = evidence[k].doc /\ evidence'[k].school = evidence[k].school
           /\ evidence'[k].storage = evidence[k].storage
           /\ evidence'[k].cluster = evidence[k].cluster
    BY <1>1, <1>3
  <2>2. Len(evidence') \in Nat /\ Len(evidence) <= Len(evidence')
    BY <1>1, <1>2
  <2>. QED  BY <1>1, <1>5, <2>1, <2>2, InformedKept
<1>. QED  BY <1>2, <1>4, <1>5

\* A verdict makes the instances of the row stale.
LEMMA ScanStep ==
    ASSUME EvidenceInv, NEW i \in Ids, NEW result \in {"clean", "suspect"}, Scan(i, result)
    PROVE  EvidenceInv'
<1>. DEFINE row == [evidence[i] EXCEPT !.scan = result]
<1>1. /\ i \in DOMAIN evidence
      /\ evidence' = [evidence EXCEPT ![i] = row]
      /\ verdict' = [verdict EXCEPT ![i] = result]
      /\ tainted' = tainted \ {i}
      /\ office' = [o \in Officers |->
            IF office[o].id = i THEN [office[o] EXCEPT !.stale = TRUE] ELSE office[o]]
      /\ UNCHANGED <<vreport, decisions, candidates, owed, outbox, lost>>
  BY DEF Scan
<1>2. /\ evidence \in Seq(EvidenceRows) /\ evidence[i] \in EvidenceRows
      /\ office \in [Officers -> OfficeTasks] /\ verdict \in [Ids -> Scans]
      /\ tainted \subseteq DOMAIN evidence
  BY <1>1 DEF EvidenceInv, EvidenceTypes
<1>3. /\ row \in EvidenceRows /\ row.scan = result
      /\ row.school = evidence[i].school /\ row.doc = evidence[i].doc
      /\ row.storage = evidence[i].storage /\ row.cluster = evidence[i].cluster
      /\ row.seen = evidence[i].seen /\ row.duplicateOf = evidence[i].duplicateOf
  BY <1>2 DEF EvidenceRows, Scans
<1>. HIDE DEF row
<1>4. /\ evidence' \in Seq(EvidenceRows) /\ Len(evidence') = Len(evidence)
      /\ DOMAIN evidence' = DOMAIN evidence
      /\ \A j \in DOMAIN evidence : Attached(evidence', j)
      /\ \A t \in OfficeTasks : Informed(t, evidence) => Informed(t, evidence')
  BY <1>1, <1>3, ColumnsKept
<1>5. \A o \in Officers :
         /\ office'[o] \in OfficeTasks
         /\ office'[o].phase = office[o].phase /\ office'[o].id = office[o].id
         /\ office'[o].copy = office[o].copy
         /\ office'[o].id # i => office'[o] = office[o]
         /\ office'[o].phase = "loaded" /\ office[o].id = i => office'[o].stale
  <2>1. ASSUME NEW t \in OfficeTasks
        PROVE  LET u == [t EXCEPT !.stale = TRUE]
               IN  /\ u \in OfficeTasks /\ u.stale
                   /\ u.phase = t.phase /\ u.id = t.id /\ u.copy = t.copy
    BY DEF OfficeTasks
  <2>2. ASSUME NEW o \in Officers
        PROVE  /\ office[o] \in OfficeTasks
               /\ office'[o] = IF office[o].id = i THEN [office[o] EXCEPT !.stale = TRUE]
                                                  ELSE office[o]
    BY <1>1, <1>2
  <2>. QED  BY <2>1, <2>2
<1>6. EvidenceTypes'
  <2>1. office' \in [Officers -> OfficeTasks]
    BY <1>1, <1>5
  <2>2. verdict' \in [Ids -> Scans]
    BY <1>1, <1>2 DEF Scans
  <2>. QED  BY <1>1, <1>2, <1>4, <2>1, <2>2 DEF EvidenceInv, EvidenceTypes
<1>7. SharedInv'
  <2>1. ASSUME NEW o \in Officers, office'[o].phase = "submit"
        PROVE  Informed(office'[o], evidence')
    <3>1. Informed(office[o], evidence)
      BY <1>5, <2>1 DEF EvidenceInv, SharedInv
    <3>2. office[o] \in OfficeTasks
      BY <1>2
    <3>3. Informed(office[o], evidence')
      BY <1>4, <3>1, <3>2
    <3>4. /\ office'[o].school = office[o].school /\ office'[o].doc = office[o].doc
          /\ office'[o].storage = office[o].storage /\ office'[o].seen = office[o].seen
          /\ office'[o].original = office[o].original
      BY <1>1, <3>2 DEF OfficeTasks
    <3>. QED  BY <3>3, <3>4 DEF Informed
  <2>. QED  BY <1>4, <2>1 DEF SharedInv
<1>8. OwedInv'
  BY <1>1, <1>4, <1>5 DEF EvidenceInv, OwedInv
<1>9. ScanInv'
  <2>1. \A j \in DOMAIN evidence' \ tainted' : evidence'[j].scan = verdict'[j]
    BY <1>1, <1>2, <1>3, <1>4 DEF EvidenceInv, ScanInv
  <2>2. \A j \in Ids \ DOMAIN evidence' : verdict'[j] = "pending"
    BY <1>1, <1>2, <1>4 DEF EvidenceInv, ScanInv
  <2>3. ASSUME NEW o \in Officers, office'[o].phase = "loaded", ~office'[o].stale,
               office'[o].id \notin tainted'
        PROVE  office'[o].copy = verdict'[office'[o].id]
    <3>1. office[o].id # i /\ office'[o] = office[o]
      BY <1>5, <2>3
    <3>2. office[o].id \in Ids
      BY <2>3, <3>1, LoadedIsOnFile
    <3>. QED  BY <1>1, <1>2, <2>3, <3>1, <3>2 DEF EvidenceInv, ScanInv
  <2>. QED  BY <2>1, <2>2, <2>3 DEF ScanInv
<1>10. Told' = Told
  BY <1>1 DEF Told
<1>11. EvidenceAnnounced'
  BY <1>1, <1>4, <1>10, AnnouncedStep DEF EvidenceInv
<1>12. ApprovalFollowsCleanVerdict'
  BY <1>1 DEF EvidenceInv, ApprovalFollowsCleanVerdict
<1>. QED  BY <1>6, <1>7, <1>8, <1>9, <1>11, <1>12 DEF EvidenceInv

\* The report saves its instance over the row, which it taints if it is stale.
LEMMA CreateReportStep ==
    ASSUME EvidenceInv, NEW o \in Officers, NEW cl \in Claims, NEW match \in Matches,
           CreateVerificationReport(o, cl, match)
    PROVE  EvidenceInv'
<1>. DEFINE i == office[o].id
            review == ReviewStatus(cl, match, DuplicateCount(i))
            saved == [evidence[i] EXCEPT !.scan = office[o].copy]
            row == [saved EXCEPT !.status = EvidenceStatus(review)]
            event == <<"verification_report_created", i>>
<1>1. office[o].phase = "loaded" /\ Unreported(i)
  BY DEF CreateVerificationReport
<1>2. i \in DOMAIN evidence /\ i \in Ids /\ i \in Nat /\ owed[o] = {}
  BY <1>1, LoadedIsOnFile DEF EvidenceInv, OwedInv, Unreported
<1>3. review \in Reviews
  BY DEF ReviewStatus, Reviews
<1>4. EvidenceStatus(review) \in EvidenceStatuses
  BY DEF EvidenceStatus, EvidenceStatuses
<1>5. /\ evidence \in Seq(EvidenceRows) /\ evidence[i] \in EvidenceRows
      /\ office \in [Officers -> OfficeTasks] /\ office[o].copy \in Scans
      /\ vreport \in [Ids -> Reviews \cup {NoReport}]
  BY <1>2 DEF EvidenceInv, EvidenceTypes, OfficeTasks
<1>. HIDE DEF review
<1>6. /\ vreport' = [vreport EXCEPT ![i] = review]
      /\ evidence' = [evidence EXCEPT ![i].scan = office[o].copy,
                                      ![i].status = EvidenceStatus(review)]
      /\ tainted' = IF office[o].stale THEN tainted \cup {i} ELSE tainted
      /\ owed' = [owed EXCEPT ![o] = {event}]
      /\ UNCHANGED <<office, decisions, candidates, outbox, lost, verdict>>
  BY DEF CreateVerificationReport, Owes, review
<1>7. /\ saved \in EvidenceRows /\ saved.scan = office[o].copy
      /\ saved.school = evidence[i].school /\ saved.doc = evidence[i].doc
      /\ saved.storage = evidence[i].storage /\ saved.cluster = evidence[i].cluster
      /\ saved.seen = evidence[i].seen /\ saved.duplicateOf = evidence[i].duplicateOf
  BY <1>5 DEF EvidenceRows
<1>8. evidence' = [evidence EXCEPT ![i] = row]
  <2>. DEFINE between == [evidence EXCEPT ![i].scan = office[o].copy]
  <2>1. evidence' = [between EXCEPT ![i].status = EvidenceStatus(review)]
    BY <1>6
  <2>2. between = [evidence EXCEPT ![i] = saved]
    BY <1>5
  <2>3. between[i] = saved
    BY <1>2, <1>5, <2>2
  <2>4. evidence' = [between EXCEPT ![i] = row]
    BY <2>1, <2>3
  <2>. HIDE DEF between, saved, row
  <2>. QED  BY <1>5, <2>2, <2>4
<1>9. /\ row \in EvidenceRows /\ row.scan = office[o].copy
      /\ row.school = evidence[i].school /\ row.doc = evidence[i].doc
      /\ row.storage = evidence[i].storage /\ row.cluster = evidence[i].cluster
      /\ row.seen = evidence[i].seen /\ row.duplicateOf = evidence[i].duplicateOf
  <2>. HIDE DEF saved
  <2>. QED  BY <1>4, <1>7 DEF EvidenceRows
<1>. HIDE DEF row, saved
<1>10. /\ evidence' \in Seq(EvidenceRows) /\ Len(evidence') = Len(evidence)
       /\ DOMAIN evidence' = DOMAIN evidence
       /\ \A j \in DOMAIN evidence : Attached(evidence', j)
       /\ \A t \in OfficeTasks : Informed(t, evidence) => Informed(t, evidence')
  BY <1>2, <1>8, <1>9, ColumnsKept
<1>11. /\ owed'[o] = {event} /\ \A p \in Officers : p # o => owed'[p] = owed[p]
       /\ vreport'[i] = review /\ \A j \in Ids : j # i => vreport'[j] = vreport[j]
       /\ review # NoReport
  BY <1>2, <1>3, <1>5, <1>6 DEF EvidenceInv, EvidenceTypes, NoReport, Reviews
<1>12. EvidenceTypes'
  <2>1. event \in EventKinds \X Nat
    BY <1>2 DEF EventKinds
  <2>2. owed' \in [Officers -> SUBSET (EventKinds \X Nat)]
    <3>. HIDE DEF event
    <3>. QED  BY <1>6, <2>1 DEF EvidenceInv, EvidenceTypes
  <2>3. vreport' \in [Ids -> Reviews \cup {NoReport}]
    BY <1>3, <1>5, <1>6
  <2>4. tainted' \subseteq DOMAIN evidence'
    BY <1>2, <1>6, <1>10 DEF EvidenceInv, EvidenceTypes
  <2>. QED  BY <1>6, <1>10, <2>2, <2>3, <2>4 DEF EvidenceInv, EvidenceTypes
<1>13. SharedInv'
  BY <1>5, <1>6, <1>10 DEF EvidenceInv, SharedInv
<1>14. OwedInv'
  <2>1. ASSUME NEW p \in Officers
        PROVE  /\ office'[p].phase = "submit" => owed'[p] = {}
               /\ office'[p].phase = "loaded" =>
                     /\ office'[p].id \in DOMAIN evidence'
                     /\ owed'[p] # {} => vreport'[office'[p].id] # NoReport
    <3>1. CASE p = o
      BY <1>1, <1>2, <1>6, <1>10, <1>11, <3>1
    <3>2. CASE p # o
      <4>1. office'[p] = office[p] /\ owed'[p] = owed[p]
        BY <1>6, <1>11, <3>2
      <4>2. office[p].phase = "loaded" => office[p].id \in Ids
        BY LoadedIsOnFile
      <4>. QED  BY <1>10, <1>11, <4>1, <4>2 DEF EvidenceInv, OwedInv
    <3>. QED  BY <3>1, <3>2
  <2>. QED  BY <2>1 DEF OwedInv
<1>15. ScanInv'
  <2>1. ASSUME NEW j \in DOMAIN evidence', j \notin tainted'
        PROVE  evidence'[j].scan = verdict'[j]
    <3>1. CASE j = i
      <4>1. ~office[o].stale /\ i \notin tainted
        BY <1>6, <2>1, <3>1
      <4>2. evidence'[j].scan = office[o].copy
        BY <1>2, <1>5, <1>8, <1>9, <3>1
      <4>. QED  BY <1>1, <1>6, <3>1, <4>1, <4>2 DEF EvidenceInv, ScanInv
    <3>2. CASE j # i
      BY <1>5, <1>6, <1>8, <1>10, <2>1, <3>2 DEF EvidenceInv, ScanInv
    <3>. QED  BY <3>1, <3>2
  <2>2. tainted \subseteq tainted'
    BY <1>6
  <2>. QED  BY <1>6, <1>10, <2>1, <2>2 DEF EvidenceInv, ScanInv
<1>16. EvidenceAnnounced'
  <2>1. Told \subseteq Told' /\ {event} \subseteq Told'
    <3>. HIDE DEF event
    <3>. QED  BY <1>2, <1>6, ToldGrows DEF EvidenceInv
  <2>. QED  BY <1>6, <1>10, <1>11, <2>1, AnnouncedStep DEF EvidenceInv
<1>17. ApprovalFollowsCleanVerdict'
  <2>1. \A j \in Ids : vreport[j] # NoReport => vreport'[j] = vreport[j]
    BY <1>1, <1>11 DEF Unreported
  <2>2. ASSUME NEW d \in decisions, d.decision = "approved_for_publication"
        PROVE  vreport'[d.id] = vreport[d.id]
    <3>1. vreport[d.id] \in {"complete", "escalated"}
      BY <2>2 DEF EvidenceInv, ApprovalFollowsCleanVerdict
    <3>2. CASE d.id = i
      BY <1>1, <3>1, <3>2 DEF Unreported, NoReport
    <3>3. CASE d.id # i
      BY <1>5, <1>6, <3>3
    <3>. QED  BY <3>2, <3>3
  <2>. QED  BY <1>6, <2>2 DEF EvidenceInv, ApprovalFollowsCleanVerdict
<1>. QED  BY <1>12, <1>13, <1>14, <1>15, <1>16, <1>17 DEF EvidenceInv

-----------------------------------------------------------------------------
(* The theorems about evidence.                                             *)

\* The empty tables satisfy the invariant.
LEMMA InitEvidence == EvidenceInit => EvidenceInv
<1>. SUFFICES ASSUME EvidenceInit PROVE EvidenceInv
  OBVIOUS
<1>1. /\ evidence \in Seq(EvidenceRows) /\ Len(evidence) = 0 /\ DOMAIN evidence = {}
  BY DEF EvidenceInit
<1>2. Resting \in OfficeTasks /\ Resting.phase = "idle"
  BY DEF Resting, OfficeTasks, Scans
<1>3. EvidenceTypes
  <2>1. verdict \in [Ids -> Scans] /\ vreport \in [Ids -> Reviews \cup {NoReport}]
    BY DEF EvidenceInit, Scans
  <2>2. owed \in [Officers -> SUBSET (EventKinds \X Nat)]
    BY DEF EvidenceInit
  <2>3. office \in [Officers -> OfficeTasks]
    BY <1>2 DEF EvidenceInit
  <2>. QED  BY <1>1, <2>1, <2>2, <2>3, EvidenceAssumption DEF EvidenceInit, EvidenceTypes
<1>4. SharedInv /\ OwedInv /\ ScanInv
  BY <1>1, <1>2 DEF EvidenceInit, SharedInv, OwedInv, ScanInv
<1>5. ApprovalFollowsCleanVerdict /\ EvidenceAnnounced
  BY <1>1 DEF EvidenceInit, ApprovalFollowsCleanVerdict, EvidenceAnnounced, NoReport
<1>. QED  BY <1>3, <1>4, <1>5 DEF EvidenceInv

\* Every step keeps it.
LEMMA NextEvidence == EvidenceInv /\ [EvidenceNext]_evidenceVars => EvidenceInv'
<1>. SUFFICES ASSUME EvidenceInv, [EvidenceNext]_evidenceVars PROVE EvidenceInv'
  OBVIOUS
<1>1. CASE UNCHANGED evidenceVars
  BY <1>1 DEF evidenceVars, EvidenceInv, EvidenceTypes, SharedInv, OwedInv, ScanInv,
              ApprovalFollowsCleanVerdict, EvidenceAnnounced
<1>. QED
  BY <1>1, CheckSubmissionStep, LoadStep, EventStep, RecordDecisionStep,
     PlanOrCandidateStep, InsertStep, ScanStep, CreateReportStep
     DEF EvidenceNext

\* Evidence keeps its invariant (submit_evidence_item, create_verification_report,
\* record_governance_decision and their announcements).
LEMMA EvidenceInvariant == EvidenceSpec => []EvidenceInv
BY InitEvidence, NextEvidence, PTL DEF EvidenceSpec

\* An approval for publication follows a clean verdict of the scanner, for any
\* number of officers, unless a verdict came under an instance somebody held.
THEOREM ApprovalFollowsCleanVerdictAlways == EvidenceSpec => []ApprovalFollowsCleanVerdict
<1>1. EvidenceInv => ApprovalFollowsCleanVerdict
  BY DEF EvidenceInv
<1>. QED  BY <1>1, EvidenceInvariant, PTL

\* Whatever is committed about evidence is announced, unless the process died
\* between the commit and the callback.
THEOREM EvidenceAnnouncedAlways == EvidenceSpec => []EvidenceAnnounced
<1>1. EvidenceInv => EvidenceAnnounced
  BY DEF EvidenceInv
<1>. QED  BY <1>1, EvidenceInvariant, PTL

\* The first of a document is what the look-up would find now.
LEMMA FirstIsMin ==
    ASSUME EvidenceTypes, NEW doc, NEW n \in 0..Len(evidence), NEW m,
           FirstOf(evidence, doc, n, m), m # 0
    PROVE  m = Min(SameDocument(doc))
<1>1. DOMAIN evidence = 1..Len(evidence) /\ Len(evidence) \in Nat /\ n \in Nat
  BY DEF EvidenceTypes
<1>2. m \in 1..n /\ m \in SameDocument(doc)
  BY <1>1 DEF FirstOf, SameDocument
<1>3. \A k \in SameDocument(doc) : m <= k
  BY <1>1, <1>2 DEF FirstOf, SameDocument
<1>4. /\ Min(SameDocument(doc)) \in SameDocument(doc)
      /\ \A k \in SameDocument(doc) : Min(SameDocument(doc)) <= k
  BY <1>2, <1>3 DEF Min
<1>5. SameDocument(doc) \subseteq Nat
  BY <1>1 DEF SameDocument
<1>. QED  BY <1>2, <1>3, <1>4, <1>5

\* What the look-ups found is all that a row shares with the others.
LEMMA SharedFollows == EvidenceInv => SharedOnlyByOverlap
<1>. SUFFICES ASSUME EvidenceInv PROVE SharedOnlyByOverlap
  OBVIOUS
<1>1. /\ EvidenceTypes /\ DOMAIN evidence = 1..Len(evidence) /\ Len(evidence) \in Nat
      /\ \A j \in DOMAIN evidence : Attached(evidence, j) /\ evidence[j] \in EvidenceRows
  BY DEF EvidenceInv, EvidenceTypes, SharedInv
<1>2. ASSUME NEW j \in DOMAIN evidence
      PROVE  /\ evidence[j].seen \in Nat /\ evidence[j].seen < j
             /\ evidence[j].seen \in 0..Len(evidence)
  BY <1>1 DEF Attached, EvidenceRows
<1>3. ClustersSplitOnlyByOverlap
  <2>. SUFFICES ASSUME NEW j \in DOMAIN evidence
                PROVE  /\ (\E i \in 1..evidence[j].seen : evidence[i].doc = evidence[j].doc) =>
                             evidence[j].cluster
                               = evidence[Min(SameDocument(evidence[j].doc))].cluster
                       /\ evidence[j].duplicateOf # 0 =>
                             /\ evidence[evidence[j].duplicateOf].duplicateOf = 0
                             /\ evidence[evidence[j].duplicateOf].school = evidence[j].school
    BY DEF ClustersSplitOnlyByOverlap
  <2>1. PICK m \in 0..evidence[j].seen :
           /\ FirstOf(evidence, evidence[j].doc, evidence[j].seen, m)
           /\ m # 0 => evidence[j].cluster = evidence[m].cluster
           /\ evidence[j].duplicateOf # 0 =>
                 evidence[j].duplicateOf = m /\ evidence[m].school = evidence[j].school
    BY <1>1 DEF Attached
  <2>2. m # 0 => m = Min(SameDocument(evidence[j].doc))
    BY <1>1, <1>2, <2>1, FirstIsMin
  <2>3. (\E i \in 1..evidence[j].seen : evidence[i].doc = evidence[j].doc) => m # 0
    BY <2>1 DEF FirstOf
  <2>4. ASSUME evidence[j].duplicateOf # 0 PROVE evidence[m].duplicateOf = 0
    <3>1. m \in DOMAIN evidence /\ m # 0 /\ evidence[m].doc = evidence[j].doc
      <4>1. evidence[j].duplicateOf \in Nat /\ evidence[j].duplicateOf = m
        BY <1>1, <2>1, <2>4 DEF EvidenceRows
      <4>2. m # 0
        BY <2>4, <4>1
      <4>. QED  BY <1>1, <1>2, <2>1, <4>2 DEF FirstOf
    <3>2. PICK l \in 0..evidence[m].seen :
             /\ FirstOf(evidence, evidence[m].doc, evidence[m].seen, l)
             /\ evidence[m].duplicateOf # 0 => evidence[m].duplicateOf = l
      BY <1>1, <3>1 DEF Attached
    <3>3. evidence[m].seen \in Nat /\ evidence[m].seen < m
      BY <1>2, <3>1
    <3>4. l \in Nat /\ l < m /\ l \in 0..evidence[j].seen
      BY <1>1, <1>2, <2>1, <3>1, <3>3
    <3>5. l # 0 => evidence[l].doc = evidence[j].doc
      BY <3>1, <3>2 DEF FirstOf
    <3>6. l # 0 => m <= l
      BY <2>1, <3>4, <3>5 DEF FirstOf
    <3>. QED  BY <1>1, <3>1, <3>2, <3>4, <3>6
  <2>. QED  BY <2>1, <2>2, <2>3, <2>4
<1>4. StorageSharedOnlyByOverlap
  <2>. SUFFICES ASSUME NEW i \in DOMAIN evidence, NEW j \in DOMAIN evidence, i < j,
                       evidence[i].storage = evidence[j].storage,
                       evidence[i].school # evidence[j].school
                PROVE  i > evidence[j].seen
    BY DEF StorageSharedOnlyByOverlap
  <2>1. FreeAmong(evidence, evidence[j].school, evidence[j].storage, evidence[j].seen)
    BY <1>1 DEF Attached
  <2>2. i \notin 1..evidence[j].seen
    BY <2>1 DEF FreeAmong
  <2>. QED  BY <1>1, <1>2, <2>2
<1>. QED  BY <1>3, <1>4 DEF SharedOnlyByOverlap

\* Submissions of a document share one review case and no two schools a storage
\* reference, for any number of schools, unless the submissions overlap.
THEOREM SharedOnlyByOverlapAlways == EvidenceSpec => []SharedOnlyByOverlap
BY EvidenceInvariant, SharedFollows, PTL

-----------------------------------------------------------------------------
(* The inductive invariant of notices and cards.                            *)

ReviewStatuses == {"pending_review", "verified", "rejected"}
CardStatuses == {"none", "ready_for_review", "issued", "acknowledged", "archived"}
CardRows == [source : {"notice", "diff"}, status : CardStatuses, by : Clerks \cup {Nobody}]
Instances ==
    [on : {"nothing", "notice", "card"}, card : Nat, status : CardStatuses,
     by : Clerks \cup {Nobody}, review : ReviewStatuses \cup {"unfetched"},
     oldNotice : BOOLEAN, oldCard : BOOLEAN]

\* The values of the columns and of the instances, and what acknowledgements
\* and instances refer to.
NoticeTypes ==
    /\ notice \in ReviewStatuses \cup {"absent"}
    /\ cards \in Seq(CardRows)
    /\ \A a \in acks : a.card \in DOMAIN cards
    /\ desk \in [Clerks -> Instances]
    /\ \A k \in Clerks :
          /\ desk[k].on = "card" => desk[k].card \in DOMAIN cards
          /\ desk[k].on = "notice" => desk[k].by = Nobody /\ desk[k].review # "unfetched"

\* An instance of the notice that nobody has overtaken says what the row says,
\* and the row what review said last.
NoticeFresh ==
    /\ notice = word \/ garbled
    /\ \A k \in Clerks :
          desk[k].review # "unfetched" /\ ~desk[k].oldNotice => desk[k].review = notice

\* So does an instance of a card.
CardFresh ==
    \A k \in Clerks : desk[k].on = "card" /\ ~desk[k].oldCard =>
        /\ desk[k].status = cards[desk[k].card].status
        /\ desk[k].by = cards[desk[k].card].by

NoticeInv ==
    /\ NoticeTypes /\ NoticeFresh /\ CardFresh
    /\ IssuedWhileVerified /\ OnePerKey /\ AcknowledgementKept

\* What marking instances of the notice as old does to them.
LEMMA OutdatedInstances ==
    ASSUME NoticeTypes, NEW k, desk' = NoticeOutdated(desk, k)
    PROVE  /\ desk' \in [Clerks -> Instances]
           /\ \A j \in Clerks :
                 /\ desk'[j].on = desk[j].on /\ desk'[j].card = desk[j].card
                 /\ desk'[j].status = desk[j].status /\ desk'[j].by = desk[j].by
                 /\ desk'[j].review = desk[j].review /\ desk'[j].oldCard = desk[j].oldCard
                 /\ j # k /\ desk[j].review # "unfetched" => desk'[j].oldNotice
                 /\ j = k => desk'[j] = desk[j]
<1>1. ASSUME NEW j \in Clerks
      PROVE  /\ desk'[j] \in Instances
             /\ desk'[j].on = desk[j].on /\ desk'[j].card = desk[j].card
             /\ desk'[j].status = desk[j].status /\ desk'[j].by = desk[j].by
             /\ desk'[j].review = desk[j].review /\ desk'[j].oldCard = desk[j].oldCard
             /\ j # k /\ desk[j].review # "unfetched" => desk'[j].oldNotice
             /\ j = k => desk'[j] = desk[j]
  <2>1. desk[j] \in Instances
    BY DEF NoticeTypes
  <2>2. desk'[j] = IF j # k /\ desk[j].review # "unfetched"
                   THEN [desk[j] EXCEPT !.oldNotice = TRUE] ELSE desk[j]
    BY DEF NoticeOutdated
  <2>. QED  BY <2>1, <2>2 DEF Instances
<1>2. desk' = [j \in Clerks |-> desk'[j]]
  BY DEF NoticeOutdated
<1>. QED  BY <1>1, <1>2

\* The notice is registered, reviewed or classified.
LEMMA NoticeStep ==
    ASSUME NoticeInv,
           \/ \E review \in {"pending_review", "verified"} : RegisterNotice(review)
           \/ \E review \in {"verified", "rejected"} : ReviewNotice(review)
           \/ \E k \in Clerks : ClassifyNotice(k)
    PROVE  NoticeInv'
<1>. USE DEF NoticeInv
<1>1. UNCHANGED <<cards, acks, swept, issues>>
  BY DEF RegisterNotice, ReviewNotice, ClassifyNotice
<1>2. ASSUME NEW review \in {"pending_review", "verified"}, RegisterNotice(review)
      PROVE  NoticeInv'
  <2>1. /\ notice = "absent" /\ notice' = review /\ word' = review
        /\ UNCHANGED <<desk, garbled>>
    BY <1>2 DEF RegisterNotice
  <2>2. \A k \in Clerks : desk[k].review \in ReviewStatuses \cup {"unfetched"}
    BY DEF NoticeTypes, Instances
  <2>3. NoticeTypes'
    BY <1>1, <2>1 DEF NoticeTypes, ReviewStatuses
  <2>4. NoticeFresh'
    BY <2>1, <2>2 DEF NoticeFresh, ReviewStatuses
  <2>. QED
    BY <1>1, <2>1, <2>3, <2>4
       DEF CardFresh, IssuedWhileVerified, OnePerKey, AcknowledgementKept
<1>3. ASSUME NEW k, desk' = NoticeOutdated(desk, k), notice' \in ReviewStatuses,
             notice' = word' \/ garbled',
             k \in Clerks /\ ~desk[k].oldNotice /\ desk[k].review # "unfetched"
                => desk[k].review = notice'
      PROVE  NoticeInv'
  <2>1. NoticeTypes'
    BY <1>1, <1>3, OutdatedInstances DEF NoticeTypes
  <2>2. NoticeFresh'
    BY <1>3, OutdatedInstances DEF NoticeFresh
  <2>3. CardFresh'
    BY <1>1, <1>3, OutdatedInstances DEF CardFresh
  <2>. QED
    BY <1>1, <2>1, <2>2, <2>3 DEF IssuedWhileVerified, OnePerKey, AcknowledgementKept
<1>4. ASSUME NEW review \in {"verified", "rejected"}, ReviewNotice(review) PROVE NoticeInv'
  <2>1. /\ notice' = review /\ word' = review
        /\ desk' = NoticeOutdated(desk, Nobody)
    BY <1>4 DEF ReviewNotice
  <2>. QED  BY <1>3, <2>1, NoticesAssumption DEF ReviewStatuses
<1>5. ASSUME NEW k \in Clerks, ClassifyNotice(k) PROVE NoticeInv'
  <2>1. /\ desk[k].on = "notice" /\ notice' = desk[k].review /\ word' = word
        /\ garbled' = (garbled \/ desk[k].oldNotice)
        /\ desk' = NoticeOutdated(desk, k)
    BY <1>5 DEF ClassifyNotice
  <2>2. desk[k].review \in ReviewStatuses
    BY <2>1 DEF NoticeTypes, Instances
  <2>3. notice' = word' \/ garbled'
    BY <2>1, <2>2 DEF NoticeFresh, ReviewStatuses
  <2>. QED  BY <1>3, <2>1, <2>2, <2>3
<1>. QED  BY <1>2, <1>4, <1>5

\* One instance is replaced by a fresh one; no row changes but by new cards.
LEMMA DeskStep ==
    ASSUME NoticeInv, NEW k \in Clerks, NEW t \in Instances, desk' = [desk EXCEPT ![k] = t],
           cards' \in Seq(CardRows),
           \A i \in DOMAIN cards : i \in DOMAIN cards' /\ cards'[i] = cards[i],
           \A i, j \in DOMAIN cards' :
               cards'[i].source = "notice" /\ cards'[j].source = "notice" => i = j,
           t.on = "card" => /\ t.card \in DOMAIN cards'
                            /\ ~t.oldCard => /\ t.status = cards'[t.card].status
                                             /\ t.by = cards'[t.card].by,
           t.on = "notice" => t.by = Nobody /\ t.review # "unfetched",
           t.review # "unfetched" /\ ~t.oldNotice => t.review = notice,
           UNCHANGED <<notice, acks, word, garbled, swept, issues>>
    PROVE  NoticeInv'
<1>1. /\ desk' \in [Clerks -> Instances]
      /\ desk'[k] = t /\ \A j \in Clerks : j # k => desk'[j] = desk[j]
  BY DEF NoticeInv, NoticeTypes
<1>2. NoticeTypes'
  BY <1>1 DEF NoticeInv, NoticeTypes
<1>3. NoticeFresh'
  BY <1>1 DEF NoticeInv, NoticeFresh
<1>4. CardFresh'
  BY <1>1 DEF NoticeInv, NoticeTypes, CardFresh
<1>5. OnePerKey' /\ AcknowledgementKept'
  BY DEF NoticeInv, NoticeTypes, OnePerKey, AcknowledgementKept
<1>6. IssuedWhileVerified'
  BY DEF NoticeInv, IssuedWhileVerified
<1>. QED  BY <1>2, <1>3, <1>4, <1>5, <1>6 DEF NoticeInv

\* Instances are loaded.
LEMMA LoadInstanceStep ==
    ASSUME NoticeInv, NEW k \in Clerks,
           LoadNotice(k) \/ \E i \in 1..MaxCards : LoadCard(k, i)
    PROVE  NoticeInv'
<1>1. /\ UNCHANGED <<notice, cards, acks, word, garbled, swept, issues>>
      /\ cards \in Seq(CardRows)
  BY DEF LoadNotice, LoadCard, NoticeInv, NoticeTypes
<1>2. \A i, j \in DOMAIN cards :
         cards[i].source = "notice" /\ cards[j].source = "notice" => i = j
  BY DEF NoticeInv, OnePerKey
<1>3. CASE LoadNotice(k)
  <2>. DEFINE t == [Empty EXCEPT !.on = "notice", !.review = notice]
  <2>1. /\ notice \in ReviewStatuses /\ desk' = [desk EXCEPT ![k] = t]
    BY <1>3 DEF LoadNotice, NoticeInv, NoticeTypes
  <2>2. /\ t \in Instances /\ t.on = "notice" /\ t.review = notice /\ t.by = Nobody
        /\ t.review # "unfetched"
    BY <2>1 DEF Empty, Instances, CardStatuses, ReviewStatuses
  <2>. HIDE DEF t
  <2>. QED  BY <1>1, <1>2, <2>1, <2>2, DeskStep
<1>4. ASSUME NEW i \in 1..MaxCards, LoadCard(k, i) PROVE NoticeInv'
  <2>. DEFINE t == [Empty EXCEPT !.on = "card", !.card = i, !.status = cards[i].status,
                                 !.by = cards[i].by]
  <2>1. /\ i \in DOMAIN cards /\ i \in Nat
        /\ desk' = [desk EXCEPT ![k] = t]
    <3>1. i \in Nat
      BY NoticesAssumption
    <3>. QED  BY <1>4, <3>1 DEF LoadCard
  <2>2. cards[i] \in CardRows
    BY <1>1, <2>1
  <2>3. /\ t \in Instances /\ t.on = "card" /\ t.card = i /\ t.status = cards[i].status
        /\ t.by = cards[i].by /\ t.review = "unfetched"
    BY <2>1, <2>2 DEF Empty, Instances, CardRows
  <2>. HIDE DEF t
  <2>. QED  BY <1>1, <1>2, <2>1, <2>3, DeskStep
<1>. QED  BY <1>3, <1>4

\* A card is built, and is the only one of a notice.
LEMMA BuildCardStep ==
    ASSUME NoticeInv, NEW k \in Clerks, NEW source \in {"notice", "diff"}, BuildCard(k, source)
    PROVE  NoticeInv'
<1>. DEFINE base == IF source = "notice" THEN desk[k] ELSE Empty
            n == Len(cards) + 1
            row == [source |-> source, status |-> "ready_for_review", by |-> Nobody]
            t == [base EXCEPT !.on = "card", !.card = n, !.status = "ready_for_review"]
<1>1. /\ UNCHANGED <<notice, acks, word, garbled, swept, issues>>
      /\ cards' = Append(cards, row) /\ CardFree(source)
      /\ source = "notice" => desk[k].on = "notice"
      /\ desk' = [desk EXCEPT ![k] = t]
      /\ cards \in Seq(CardRows) /\ desk[k] \in Instances
  BY DEF BuildCard, NoticeInv, NoticeTypes
<1>2. base \in Instances /\ base.by = Nobody
  BY <1>1 DEF Empty, Instances, CardStatuses, NoticeInv, NoticeTypes
<1>3. base.review # "unfetched" /\ ~base.oldNotice => base.review = notice
  BY DEF Empty, NoticeInv, NoticeFresh
<1>4. row \in CardRows
  BY DEF CardRows, CardStatuses
<1>5. Len(cards) \in Nat /\ n \in Nat /\ DOMAIN cards = 1..Len(cards)
  BY <1>1
<1>. HIDE DEF base
<1>6. /\ t \in Instances /\ t.on = "card" /\ t.card = n /\ t.status = "ready_for_review"
      /\ t.by = Nobody /\ t.review = base.review /\ t.oldNotice = base.oldNotice
  BY <1>2, <1>5 DEF Instances, CardStatuses
<1>7. row.source = source /\ row.status = "ready_for_review" /\ row.by = Nobody
  OBVIOUS
<1>. HIDE DEF t, row
<1>8. /\ cards' \in Seq(CardRows) /\ DOMAIN cards' = 1..n
      /\ cards'[n] = row
      /\ \A i \in DOMAIN cards : i \in DOMAIN cards' /\ cards'[i] = cards[i]
      /\ \A i \in DOMAIN cards' : i = n \/ i \in DOMAIN cards
  BY <1>1, <1>4, <1>5
<1>9. \A i, j \in DOMAIN cards' :
         cards'[i].source = "notice" /\ cards'[j].source = "notice" => i = j
  BY <1>1, <1>7, <1>8 DEF CardFree, NoticeInv, OnePerKey
<1>10. n \in DOMAIN cards'
  BY <1>5, <1>8
<1>. QED  BY <1>1, <1>3, <1>6, <1>7, <1>8, <1>9, <1>10, DeskStep

\* A card is saved: other instances of it are old from now on.
LEMMA SaveCardStep ==
    ASSUME NoticeInv, NEW k \in Clerks, NEW status \in CardStatuses,
           NEW by \in Clerks \cup {Nobody}, NEW review \in ReviewStatuses \cup {"unfetched"},
           desk[k].on = "card", SaveCard(k, status, by, review),
           review # "unfetched" /\ ~desk[k].oldNotice => review = notice,
           \A a \in acks' :
               \/ /\ a \in acks
                  /\ a.card = desk[k].card /\ a.card \notin swept /\ ~desk[k].oldCard
                        => by = a.who /\ status \in {"acknowledged", "archived"}
               \/ a.card = desk[k].card /\ by = a.who /\ status = "acknowledged",
           \A a, b \in acks' : a.card = b.card => a = b,
           IssuedWhileVerified',
           UNCHANGED <<notice, word, garbled>>
    PROVE  NoticeInv'
<1>. DEFINE i == desk[k].card
<1>1. /\ i \in DOMAIN cards /\ cards \in Seq(CardRows) /\ desk \in [Clerks -> Instances]
  BY DEF NoticeInv, NoticeTypes
<1>2. cards' = [cards EXCEPT ![i].status = status, ![i].by = by]
  BY DEF SaveCard
<1>3. /\ cards' \in Seq(CardRows) /\ DOMAIN cards' = DOMAIN cards
      /\ cards'[i].status = status /\ cards'[i].by = by
      /\ \A j \in DOMAIN cards : cards'[j].source = cards[j].source
      /\ \A j \in DOMAIN cards : j # i => cards'[j] = cards[j]
  <2>. DEFINE old == cards[i]
              row == [source |-> old.source, status |-> status, by |-> by]
              mid == [source |-> old.source, status |-> status, by |-> old.by]
              between == [cards EXCEPT ![i] = mid]
  <2>1. old \in CardRows
    BY <1>1
  <2>2. row \in CardRows /\ mid \in CardRows
    BY <2>1 DEF CardRows
  <2>3. [old EXCEPT !.status = status] = mid
    BY <2>1 DEF CardRows
  <2>4. [mid EXCEPT !.by = by] = row
    OBVIOUS
  <2>5. cards' = [[cards EXCEPT ![i].status = status] EXCEPT ![i].by = by]
    BY <1>2
  <2>6. row.status = status /\ row.by = by /\ row.source = old.source
    OBVIOUS
  <2>. HIDE DEF row, mid
  <2>7. [cards EXCEPT ![i].status = status] = between
    BY <1>1, <2>3
  <2>8. between[i] = mid
    BY <1>1
  <2>9. cards' = [between EXCEPT ![i] = row]
    BY <2>4, <2>5, <2>7, <2>8
  <2>. QED  BY <1>1, <2>2, <2>6, <2>9
<1>4. swept' = IF desk[k].oldCard THEN swept \cup {i} ELSE swept
  BY DEF SaveCard
<1>5. ASSUME NEW j \in Clerks
      PROVE  /\ desk'[j] \in Instances
             /\ desk'[j].on = desk[j].on /\ desk'[j].card = desk[j].card
             /\ desk'[j].oldNotice = desk[j].oldNotice
             /\ j = k => /\ desk'[j].status = status /\ desk'[j].by = by
                         /\ desk'[j].review = review
             /\ j # k => /\ desk'[j].status = desk[j].status /\ desk'[j].by = desk[j].by
                         /\ desk'[j].review = desk[j].review
                         /\ desk[j].card = i => desk'[j].oldCard
                         /\ desk[j].card # i => desk'[j].oldCard = desk[j].oldCard
  <2>1. desk[j] \in Instances
    BY <1>1
  <2>2. CASE j = k
    <3>1. desk'[j] = [desk[j] EXCEPT !.status = status, !.by = by, !.review = review]
      BY <2>2 DEF SaveCard
    <3>. QED  BY <2>1, <2>2, <3>1 DEF Instances
  <2>3. CASE j # k
    <3>1. desk'[j] = IF desk[j].card = i THEN [desk[j] EXCEPT !.oldCard = TRUE] ELSE desk[j]
      BY <2>3 DEF SaveCard
    <3>. QED  BY <2>1, <2>3, <3>1 DEF Instances
  <2>. QED  BY <2>2, <2>3
<1>6. desk' \in [Clerks -> Instances]
  <2>1. desk' = [j \in Clerks |-> desk'[j]]
    BY DEF SaveCard
  <2>. QED  BY <1>5, <2>1
<1>7. NoticeTypes'
  <2>1. \A a \in acks' : a.card \in DOMAIN cards'
    BY <1>1, <1>3 DEF NoticeInv, NoticeTypes
  <2>2. \A j \in Clerks :
           /\ desk'[j].on = "card" => desk'[j].card \in DOMAIN cards'
           /\ desk'[j].on = "notice" => desk'[j].by = Nobody /\ desk'[j].review # "unfetched"
    BY <1>3, <1>5 DEF NoticeInv, NoticeTypes
  <2>. QED  BY <1>3, <1>6, <2>1, <2>2 DEF NoticeInv, NoticeTypes
<1>8. NoticeFresh'
  BY <1>5 DEF NoticeInv, NoticeFresh
<1>9. CardFresh'
  BY <1>3, <1>5 DEF NoticeInv, NoticeTypes, CardFresh
<1>10. OnePerKey'
  BY <1>3 DEF NoticeInv, OnePerKey
<1>11. AcknowledgementKept'
  <2>. SUFFICES ASSUME NEW a \in acks'
                PROVE  \/ /\ cards'[a.card].by = a.who
                          /\ cards'[a.card].status \in {"acknowledged", "archived"}
                       \/ a.card \in swept'
    BY DEF AcknowledgementKept
  <2>1. CASE a.card = i
    BY <1>3, <1>4, <2>1
  <2>2. CASE a.card # i
    <3>1. a \in acks /\ a.card \in DOMAIN cards
      BY <2>2 DEF NoticeInv, NoticeTypes
    <3>. QED  BY <1>3, <1>4, <2>2, <3>1 DEF NoticeInv, AcknowledgementKept
  <2>. QED  BY <2>1, <2>2
<1>. QED  BY <1>7, <1>8, <1>9, <1>10, <1>11 DEF NoticeInv

\* A card is issued: nobody has acknowledged it, and its notice is verified.
LEMMA IssueCardStep ==
    ASSUME NoticeInv, NEW k \in Clerks, IssueCard(k)
    PROVE  NoticeInv'
<1>. DEFINE i == desk[k].card
            review == ReviewSeen(k)
            issue == [source |-> cards[i].source, word |-> word,
                      overlap |-> desk[k].oldNotice \/ garbled]
<1>1. /\ desk[k].on = "card" /\ desk[k].status = "ready_for_review"
      /\ cards[i].source = "notice" => review = "verified"
      /\ SaveCard(k, "issued", desk[k].by, review)
      /\ issues' = issues \cup {issue}
      /\ UNCHANGED <<notice, acks, word, garbled>>
  BY DEF IssueCard, MayBeIssued
<1>2. desk[k] \in Instances /\ i \in DOMAIN cards /\ cards \in Seq(CardRows)
  BY <1>1 DEF NoticeInv, NoticeTypes
<1>3. desk[k].by \in Clerks \cup {Nobody}
      /\ desk[k].review \in ReviewStatuses \cup {"unfetched"}
  BY <1>2 DEF Instances
<1>4. cards[i] \in CardRows
  BY <1>2
<1>5. cards[i].source \in {"notice", "diff"}
  BY <1>4 DEF CardRows
<1>6. /\ cards[i].source = "diff" => review = desk[k].review
      /\ cards[i].source = "notice" /\ desk[k].review = "unfetched" => review = notice
      /\ cards[i].source = "notice" /\ desk[k].review # "unfetched" => review = desk[k].review
  BY <1>5 DEF ReviewSeen
<1>7. review \in ReviewStatuses \cup {"unfetched"}
  BY <1>1, <1>3, <1>5, <1>6 DEF ReviewStatuses
<1>8. review # "unfetched" /\ ~desk[k].oldNotice => review = notice
  BY <1>5, <1>6 DEF NoticeInv, NoticeFresh
<1>9. IssuedWhileVerified'
  <2>1. issue.source = "notice" => issue.word = "verified" \/ issue.overlap
    <3>1. cards[i].source = "notice" /\ ~desk[k].oldNotice => notice = "verified"
      BY <1>1, <1>6, <1>8
    <3>2. notice = word \/ garbled
      BY DEF NoticeInv, NoticeFresh
    <3>. QED  BY <3>1, <3>2
  <2>. HIDE DEF issue
  <2>. QED  BY <1>1, <2>1 DEF NoticeInv, IssuedWhileVerified
<1>10. \A a \in acks' :
          /\ a \in acks
          /\ a.card = i => a.card \in swept \/ desk[k].oldCard
  <2>. SUFFICES ASSUME NEW a \in acks, a.card = i, a.card \notin swept, ~desk[k].oldCard
                PROVE  FALSE
    BY <1>1
  <2>1. cards[i].status \in {"acknowledged", "archived"}
    BY DEF NoticeInv, AcknowledgementKept
  <2>2. desk[k].status = cards[i].status
    BY <1>1 DEF NoticeInv, CardFresh
  <2>. QED  BY <1>1, <2>1, <2>2
<1>11. \A a, b \in acks' : a.card = b.card => a = b
  BY <1>1 DEF NoticeInv, OnePerKey
<1>12. "issued" \in CardStatuses
  BY DEF CardStatuses
<1>. HIDE DEF i, review, issue
<1>. QED
  BY <1>1, <1>3, <1>7, <1>8, <1>9, <1>10, <1>11, <1>12, SaveCardStep DEF i

\* A card is acknowledged by whoever finds no acknowledgement of it.
LEMMA AcknowledgeCardStep ==
    ASSUME NoticeInv, NEW k \in Clerks, AcknowledgeCard(k)
    PROVE  NoticeInv'
<1>. DEFINE ack == [card |-> desk[k].card, who |-> k]
<1>1. /\ desk[k].on = "card" /\ Unacknowledged(desk[k].card)
      /\ acks' = acks \cup {ack}
      /\ SaveCard(k, "acknowledged", k, desk[k].review)
      /\ UNCHANGED <<notice, word, garbled, issues>>
  BY DEF AcknowledgeCard
<1>2. desk[k] \in Instances
  BY DEF NoticeInv, NoticeTypes
<1>3. desk[k].review \in ReviewStatuses \cup {"unfetched"}
  BY <1>2 DEF Instances
<1>4. desk[k].review # "unfetched" /\ ~desk[k].oldNotice => desk[k].review = notice
  BY DEF NoticeInv, NoticeFresh
<1>5. IssuedWhileVerified'
  BY <1>1 DEF NoticeInv, IssuedWhileVerified
<1>6. ack.card = desk[k].card /\ ack.who = k
  OBVIOUS
<1>7. \A a \in acks : a.card # desk[k].card
  BY <1>1 DEF Unacknowledged
<1>. HIDE DEF ack
<1>8. \A a \in acks' :
         \/ a \in acks /\ a.card # desk[k].card
         \/ a.card = desk[k].card /\ k = a.who
  BY <1>1, <1>6, <1>7
<1>9. \A a, b \in acks' : a.card = b.card => a = b
  BY <1>1, <1>6, <1>7 DEF NoticeInv, OnePerKey
<1>10. "acknowledged" \in CardStatuses
  BY DEF CardStatuses
<1>. QED  BY <1>1, <1>3, <1>4, <1>5, <1>8, <1>9, <1>10, SaveCardStep

\* A card is archived, and stays acknowledged by whom its instance says.
LEMMA ArchiveCardStep ==
    ASSUME NoticeInv, NEW k \in Clerks, ArchiveCard(k)
    PROVE  NoticeInv'
<1>1. /\ desk[k].on = "card"
      /\ SaveCard(k, "archived", desk[k].by, desk[k].review)
      /\ UNCHANGED <<notice, acks, word, garbled, issues>>
  BY DEF ArchiveCard, ArchivedBy
<1>2. desk[k] \in Instances
  BY DEF NoticeInv, NoticeTypes
<1>3. /\ desk[k].by \in Clerks \cup {Nobody}
      /\ desk[k].review \in ReviewStatuses \cup {"unfetched"}
  BY <1>2 DEF Instances
<1>4. desk[k].review # "unfetched" /\ ~desk[k].oldNotice => desk[k].review = notice
  BY DEF NoticeInv, NoticeFresh
<1>5. IssuedWhileVerified'
  BY <1>1 DEF NoticeInv, IssuedWhileVerified
<1>6. \A a \in acks' :
         /\ a \in acks
         /\ a.card = desk[k].card /\ a.card \notin swept /\ ~desk[k].oldCard
               => desk[k].by = a.who
  BY <1>1 DEF NoticeInv, AcknowledgementKept, CardFresh
<1>7. \A a, b \in acks' : a.card = b.card => a = b
  BY <1>1 DEF NoticeInv, OnePerKey
<1>8. "archived" \in CardStatuses
  BY DEF CardStatuses
<1>. QED  BY <1>1, <1>3, <1>4, <1>5, <1>6, <1>7, <1>8, SaveCardStep

\* The invariant holds where there is neither a notice nor a card.
LEMMA InitNotices == NoticesInit => NoticeInv
<1>. SUFFICES ASSUME NoticesInit PROVE NoticeInv
  OBVIOUS
<1>1. Empty \in Instances
  BY DEF Empty, Instances, CardStatuses
<1>2. /\ notice = "absent" /\ word = "absent" /\ cards = <<>> /\ acks = {} /\ issues = {}
      /\ desk = [k \in Clerks |-> Empty]
  BY DEF NoticesInit
<1>3. cards \in Seq(CardRows) /\ DOMAIN cards = {}
  BY <1>2
<1>4. \A k \in Clerks : desk[k].on = "nothing" /\ desk[k].review = "unfetched"
  BY <1>2 DEF Empty
<1>5. NoticeTypes
  BY <1>1, <1>2, <1>3, <1>4 DEF NoticeTypes
<1>6. NoticeFresh /\ CardFresh
  BY <1>2, <1>4 DEF NoticeFresh, CardFresh
<1>. QED
  BY <1>2, <1>3, <1>5, <1>6 DEF NoticeInv, IssuedWhileVerified, OnePerKey, AcknowledgementKept

\* Every step of a request keeps it.
LEMMA NextNotices == NoticeInv /\ [NoticesNext]_noticeVars => NoticeInv'
<1>. SUFFICES ASSUME NoticeInv, [NoticesNext]_noticeVars PROVE NoticeInv'
  OBVIOUS
<1>1. CASE UNCHANGED noticeVars
  BY <1>1 DEF noticeVars, NoticeInv, NoticeTypes, NoticeFresh, CardFresh,
              IssuedWhileVerified, OnePerKey, AcknowledgementKept
<1>2. CASE \E review \in {"pending_review", "verified"} : RegisterNotice(review)
  BY <1>2, NoticeStep
<1>3. CASE \E review \in {"verified", "rejected"} : ReviewNotice(review)
  BY <1>3, NoticeStep
<1>4. ASSUME NEW k \in Clerks, ClassifyNotice(k) PROVE NoticeInv'
  BY <1>4, NoticeStep
<1>5. ASSUME NEW k \in Clerks, LoadNotice(k) \/ \E i \in 1..MaxCards : LoadCard(k, i)
      PROVE  NoticeInv'
  BY <1>5, LoadInstanceStep
<1>6. ASSUME NEW k \in Clerks, NEW source \in {"notice", "diff"}, BuildCard(k, source)
      PROVE  NoticeInv'
  BY <1>6, BuildCardStep
<1>7. ASSUME NEW k \in Clerks, IssueCard(k) PROVE NoticeInv'
  BY <1>7, IssueCardStep
<1>8. ASSUME NEW k \in Clerks, AcknowledgeCard(k) PROVE NoticeInv'
  BY <1>8, AcknowledgeCardStep
<1>9. ASSUME NEW k \in Clerks, ArchiveCard(k) PROVE NoticeInv'
  BY <1>9, ArchiveCardStep
<1>. QED
  BY <1>1, <1>2, <1>3, <1>4, <1>5, <1>6, <1>7, <1>8, <1>9 DEF NoticesNext

\* The invariant of notices and cards holds in every reachable state.
LEMMA NoticeInvariant == NoticesSpec => []NoticeInv
BY InitNotices, NextNotices, PTL DEF NoticesSpec

\* A card about a notice is issued only while review's last word on the notice
\* is "verified", for any number of requests, unless the notice changed under
\* an instance somebody held.
THEOREM IssuedWhileVerifiedAlways == NoticesSpec => []IssuedWhileVerified
BY NoticeInvariant, PTL DEF NoticeInv

\* A card is acknowledged once and a notice has one card, for any number of
\* requests; the card names who acknowledged it unless an old instance was saved.
THEOREM AcknowledgedOnceAlways == NoticesSpec => []AcknowledgedOnce
<1>1. NoticeInv => AcknowledgedOnce
  BY DEF NoticeInv, AcknowledgedOnce
<1>. QED  BY <1>1, NoticeInvariant, PTL
=============================================================================
