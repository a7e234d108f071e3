------------------------------ MODULE Submission ------------------------------
(***************************************************************************)
(* save_grade_draft and submit_grade_batch of app/grading/services.py for  *)
(* one teacher and one assessment.                                         *)
(*                                                                         *)
(* Browser sessions look at the marksheet (build_grade_grid) and send      *)
(* edits: a draft save or a final submission, each with an idempotency     *)
(* key and the draft version on screen.  The network delivers an edit at   *)
(* any time and any number of times.  Workers run one transaction per      *)
(* delivery, with the yields where another transaction can get in.         *)
(*                                                                         *)
(* The rows of a marksheet are the edit that wrote them, and the payload   *)
(* hash is taken to be injective: two edits have the same hash only when   *)
(* they are one edit sent twice.                                           *)
(***************************************************************************)
EXTENDS Naturals, Sequences, FiniteSets

CONSTANTS Saves, Submits,   \* the edits the sessions may send
          Sessions,
          Workers,
          Keys,
          KeyOf,            \* the idempotency key of an edit
          NoEdit,
          MaxSent,          \* bound: edits sent in one behaviour
          MaxVersion,       \* bound: versions of a draft
          MaxLosses         \* bound: on_commit callbacks that do not finish

Edits == Saves \cup Submits

ASSUME SubmissionAssumption ==
    /\ Saves \cap Submits = {}
    /\ KeyOf \in [Edits -> Keys]
    /\ NoEdit \notin Edits
    /\ MaxSent \in Nat
    /\ MaxVersion \in Nat \ {0}
    /\ MaxLosses \in Nat

VARIABLES drafts,    \* GradeDraftBatch rows, oldest first
          batches,   \* GradeSubmissionBatch rows with their records
          outbox,    \* batches whose event has been written
          screen,    \* what each session has on screen: rows, version and
                     \* (history) the draft they are of
          sent,      \* what each sent edit was based on
          pc, edit,  \* each worker's transaction
          accepted,  \* submissions whose sender was answered with success
          losses     \* callbacks lost so far

vars == <<drafts, batches, outbox, screen, sent, pc, edit, accepted, losses>>

Blank == [rows |-> NoEdit, version |-> 0, draft |-> 0]

\* The draft of the teacher with status DRAFT, if any.
Active == {i \in DOMAIN drafts : drafts[i].status = "draft"}

Finish(w) ==
    /\ pc' = [pc EXCEPT ![w] = "idle"]
    /\ edit' = [edit EXCEPT ![w] = NoEdit]

Goto(w, label) == pc' = [pc EXCEPT ![w] = label] /\ UNCHANGED edit

-----------------------------------------------------------------------------
Init ==
    /\ drafts = <<>>
    /\ batches = <<>>
    /\ outbox = {}
    /\ screen = [s \in Sessions |-> Blank]
    /\ sent = [e \in {} |-> Blank]
    /\ pc = [w \in Workers |-> "idle"]
    /\ edit = [w \in Workers |-> NoEdit]
    /\ accepted = {}
    /\ losses = 0

\* build_grade_grid: the active draft's rows and version.
BuildGradeGrid(s) ==
    /\ screen' = [screen EXCEPT ![s] =
                    IF Active = {} THEN Blank
                    ELSE LET i == CHOOSE i \in Active : TRUE
                         IN  [rows |-> drafts[i].rows, version |-> drafts[i].version,
                              draft |-> i]]
    /\ screen' # screen
    /\ UNCHANGED <<drafts, batches, outbox, sent, pc, edit, accepted, losses>>

\* A session sends an edit of what it has on screen; the version is sent
\* along when there is one.
Send(s, e) ==
    /\ e \in Edits \ DOMAIN sent
    /\ Cardinality(DOMAIN sent) < MaxSent
    /\ sent' = [f \in DOMAIN sent \cup {e} |-> IF f = e THEN screen[s] ELSE sent[f]]
    /\ UNCHANGED <<drafts, batches, outbox, screen, pc, edit, accepted, losses>>

\* The network hands a sent edit to a worker, not for the first time perhaps.
Deliver(w, e) ==
    /\ pc[w] = "idle"
    /\ e \in DOMAIN sent
    /\ pc' = [pc EXCEPT ![w] = IF e \in Saves THEN "save" ELSE "submit"]
    /\ edit' = [edit EXCEPT ![w] = e]
    /\ UNCHANGED <<drafts, batches, outbox, screen, sent, accepted, losses>>

-----------------------------------------------------------------------------
\* Faulty variant of SamePayload: the key alone decides.
AnyPayload(row, e) == TRUE

\* ensure_same_payload
SamePayload(row, e) == row.rows = e

\* Faulty variant of VersionMatches: only versions from the future are stale.
VersionNotAhead(e, current) == sent[e].version <= current

\* validate_draft_version: an edit that names no version matches them all.
VersionMatches(e, current) == sent[e].version \in {0, current}

\* save_grade_draft up to the lookup by key: a known key is answered at once,
\* with the draft or with an error.
LookUpDraftKey(w) ==
    LET known == {i \in DOMAIN drafts : drafts[i].key = KeyOf[edit[w]]}
    IN  /\ pc[w] = "save"
        /\ IF known = {} THEN Goto(w, "lock") ELSE Finish(w)
        /\ UNCHANGED <<drafts, batches, outbox, screen, sent, accepted, losses>>

\* Faulty variant of Editable: the status is not part of the query.
EditableAny == DOMAIN drafts

\* The row select_for_update asks for.
Editable == Active

\* The row as an edit leaves it.
Revised(draft, e) == [version |-> draft.version + 1, key |-> KeyOf[e],
                      rows |-> e, status |-> draft.status]

\* It finds the draft and holds its lock to the commit: the version check and
\* the replacement of key, hash and rows are one step.
ReplaceDraft(w) ==
    LET e == edit[w]
    IN  /\ pc[w] = "lock"
        /\ \E i \in Editable :
              \/ /\ VersionMatches(e, drafts[i].version)
                 /\ drafts[i].version < MaxVersion
                 /\ drafts' = [drafts EXCEPT ![i] = Revised(@, e)]
              \/ /\ ~VersionMatches(e, drafts[i].version)
                 /\ UNCHANGED drafts
        /\ Finish(w)
        /\ UNCHANGED <<batches, outbox, screen, sent, accepted, losses>>

\* It finds none and the rows are about to be inserted.
FindNoDraft(w) ==
    /\ pc[w] = "lock"
    /\ Editable = {}
    /\ Goto(w, "create")
    /\ UNCHANGED <<drafts, batches, outbox, screen, sent, accepted, losses>>

\* grading_one_active_draft_unique and grading_draft_idempotency_unique
MayInsertDraft(e) ==
    Active = {} /\ \A i \in DOMAIN drafts : drafts[i].key # KeyOf[e]

\* GradeDraftBatch.objects.create
CreateDraft(w) ==
    LET e == edit[w]
        free == MayInsertDraft(e)
    IN  /\ pc[w] = "create"
        /\ drafts' = IF free THEN Append(drafts, [version |-> 1, key |-> KeyOf[e],
                                                  rows |-> e, status |-> "draft"])
                     ELSE drafts
        /\ Finish(w)
        /\ UNCHANGED <<batches, outbox, screen, sent, accepted, losses>>

-----------------------------------------------------------------------------
\* submit_grade_batch up to the insert: the lookup by key, then the check for
\* another submission.
LookUpBatch(w) ==
    LET e == edit[w]
        known == {i \in DOMAIN batches : batches[i].key = KeyOf[e]}
    IN  /\ pc[w] = "submit"
        /\ IF batches = <<>> THEN Goto(w, "insert") /\ UNCHANGED accepted
           ELSE /\ Finish(w)
                /\ accepted' = accepted \cup
                     {f \in {e} : known # {} /\ \A i \in known : SamePayload(batches[i], f)}
        /\ UNCHANGED <<drafts, batches, outbox, screen, sent, losses>>

DraftsSubmitted ==
    [i \in DOMAIN drafts |-> IF i \in Active
                             THEN [drafts[i] EXCEPT !.status = "submitted"]
                             ELSE drafts[i]]

\* grading_active_batch_unique
MayInsertBatch == batches = <<>>

\* The insert, the records and the drafts' status, committed together.
CommitBatch(w) ==
    LET e == edit[w]
    IN  /\ pc[w] = "insert"
        /\ \/ /\ MayInsertBatch
              /\ batches' = Append(batches, [key |-> KeyOf[e], rows |-> e])
              /\ drafts' = DraftsSubmitted
              /\ Goto(w, "emit")
           \/ /\ ~MayInsertBatch
              /\ Finish(w)
              /\ UNCHANGED <<batches, drafts>>
        /\ UNCHANGED <<outbox, screen, sent, accepted, losses>>

\* Faulty variant of EmitBatchSubmitted: the callback does nothing.
EmitNothing(w) ==
    /\ pc[w] = "emit"
    /\ accepted' = accepted \cup {edit[w]}
    /\ Finish(w)
    /\ UNCHANGED <<drafts, batches, outbox, screen, sent, losses>>

\* emit_batch_submitted: a second transaction, after the commit.
EmitBatchSubmitted(w) ==
    /\ pc[w] = "emit"
    /\ outbox' = outbox \cup {i \in DOMAIN batches : batches[i].rows = edit[w]}
    /\ accepted' = accepted \cup {edit[w]}
    /\ Finish(w)
    /\ UNCHANGED <<drafts, batches, screen, sent, losses>>

\* The process dies between the commit and the callback, or
\* write_outbox_event refuses because the contract is switched off.
LoseCallback(w) ==
    /\ pc[w] = "emit"
    /\ losses < MaxLosses
    /\ losses' = losses + 1
    /\ Finish(w)
    /\ UNCHANGED <<drafts, batches, outbox, screen, sent, accepted>>

-----------------------------------------------------------------------------
Transaction(w) ==
    \/ LookUpDraftKey(w) \/ ReplaceDraft(w) \/ FindNoDraft(w) \/ CreateDraft(w)
    \/ LookUpBatch(w) \/ CommitBatch(w) \/ EmitBatchSubmitted(w)

Next ==
    \/ \E s \in Sessions : BuildGradeGrid(s) \/ \E e \in Edits : Send(s, e)
    \/ \E w \in Workers : \/ \E e \in Edits : Deliver(w, e)
                          \/ Transaction(w)
                          \/ LoseCallback(w)

Spec == Init /\ [][Next]_vars

\* A transaction that was begun is carried out; clients keep retrying.
Fairness ==
    /\ \A w \in Workers : WF_vars(Transaction(w))
    /\ \A e \in Edits : SF_vars(\E w \in Workers : Deliver(w, e))

FairSpec == Spec /\ Fairness

-----------------------------------------------------------------------------
(* Properties.                                                             *)

\* Drafts and batches hold values of their columns' types, and there is at
\* most one active draft.
SubmissionTypeOK ==
    /\ \A i \in DOMAIN drafts :
          drafts[i] \in [version : 1..MaxVersion, key : Keys, rows : Saves,
                         status : {"draft", "submitted"}]
    /\ Cardinality(Active) <= 1
    /\ \A i \in DOMAIN batches : batches[i] \in [key : Keys, rows : Submits]
    /\ outbox \subseteq DOMAIN batches
    /\ accepted \subseteq Submits \cap DOMAIN sent /\ DOMAIN sent \subseteq Edits
    /\ pc \in [Workers -> {"idle", "save", "lock", "create", "submit", "insert", "emit"}]
    /\ edit \in [Workers -> Edits \cup {NoEdit}]
    /\ losses \in 0..MaxLosses

\* Slow-network retries are safe: a sender who was told that a submission
\* succeeded finds exactly those rows in the one official batch, however
\* often and however late the requests arrive.
AcceptedIsOfficial ==
    /\ Len(batches) <= 1
    /\ \A e \in accepted : batches # <<>> /\ batches[1].rows = e

\* A save that names the version it is based on never replaces rows that its
\* sender has not seen, unless the draft it is based on was submitted before
\* it arrived: the next draft counts its versions from one again.
VersionedSavesSeeWhatTheyReplace ==
    [][\A i \in DOMAIN drafts :
          LET e == drafts'[i].rows
          IN  (e # drafts[i].rows /\ sent[e].version # 0) =>
                  \/ sent[e].rows = drafts[i].rows
                  \/ sent[e].draft < i /\ drafts[sent[e].draft].status = "submitted"]_vars

\* The draft that was on file when the marks were submitted is kept as it
\* was, and no edit turns it back into an active one.
SubmittedDraftsAreKept ==
    [][\A i \in DOMAIN drafts :
          drafts[i].status = "submitted" => drafts'[i] = drafts[i]]_vars

\* The event of a submitted batch is in the outbox, or the worker that
\* committed the batch is about to write it, or the callback was lost: neither
\* retries nor competing submissions stand in its way.
AnnouncedUnlessLost ==
    batches # <<>> =>
        \/ outbox # {}
        \/ \E w \in Workers : pc[w] = "emit" /\ batches[1].rows = edit[w]
        \/ losses > 0

\* A submitted batch is announced: its event reaches the outbox.
BatchIsAnnounced == batches # <<>> ~> outbox # {}

\* Whoever was told that marks were submitted finds them official: one draft
\* is edited at a time, one batch is accepted, and no retry is answered for
\* rows that are not in it.
MarksAreOfficial == SubmissionTypeOK /\ AcceptedIsOfficial
=============================================================================
