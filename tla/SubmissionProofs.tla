--------------------------- MODULE SubmissionProofs ---------------------------
(***************************************************************************)
(* Proofs about drafts and submissions, for any edits, sessions, workers   *)
(* and keys.                                                               *)
(*                                                                         *)
(* The invariant has three parts.  DraftInv says what a screen, or an edit *)
(* that was sent from it, knows of its draft: as long as the version is    *)
(* the one on screen the rows are too.  WorkInv says what a worker carries *)
(* at each step.  BatchInv ties the one batch to the workers, the outbox   *)
(* and the answers.                                                        *)
(***************************************************************************)
EXTENDS Submission, FiniteSetTheorems, TLAPS

Draft == [version : 1..MaxVersion, key : Keys, rows : Saves,
          status : {"draft", "submitted"}]
Batch == [key : Keys, rows : Submits]
Look == [rows : Saves \cup {NoEdit}, version : Nat, draft : Nat]

\* What was on screen is what the draft said at that version.
Faithful(x, ds) ==
    \/ x.version = 0
    \/ /\ x.draft \in DOMAIN ds
       /\ x.version <= ds[x.draft].version
       /\ x.version = ds[x.draft].version => x.rows = ds[x.draft].rows

\* No draft comes after the one being edited.
LastIsActive(ds) == \A i \in DOMAIN ds : ds[i].status = "draft" => i = Len(ds)

DraftInv ==
    /\ drafts \in Seq(Draft)
    /\ LastIsActive(drafts)
    /\ screen \in [Sessions -> Look]
    /\ \A s \in Sessions : Faithful(screen[s], drafts)
    /\ DOMAIN sent \subseteq Edits
    /\ \A e \in DOMAIN sent : sent[e] \in Look /\ Faithful(sent[e], drafts)

WorkInv ==
    /\ pc \in [Workers -> {"idle", "save", "lock", "create", "submit", "insert", "emit"}]
    /\ edit \in [Workers -> Edits \cup {NoEdit}]
    /\ \A w \in Workers :
          /\ pc[w] \in {"save", "lock", "create"} => edit[w] \in Saves \cap DOMAIN sent
          /\ pc[w] \in {"submit", "insert", "emit"} => edit[w] \in Submits \cap DOMAIN sent

\* Whoever is about to announce a batch or was told of one means the one batch.
BatchInv ==
    /\ batches \in Seq(Batch) /\ Len(batches) <= 1
    /\ outbox \subseteq DOMAIN batches
    /\ losses \in 0..MaxLosses
    /\ \A w \in Workers : pc[w] = "emit" => Len(batches) = 1 /\ batches[1].rows = edit[w]
    /\ accepted \subseteq Submits \cap DOMAIN sent
    /\ \A e \in accepted : Len(batches) = 1 /\ batches[1].rows = e
    /\ AnnouncedUnlessLost

\* The inductive invariant of Spec.
SubmissionInv == DraftInv /\ WorkInv /\ BatchInv

-----------------------------------------------------------------------------
\* Before anything is sent no screen shows a draft and there is no batch.
LEMMA SubmissionInit == Init => SubmissionInv
<1>. SUFFICES ASSUME Init PROVE SubmissionInv
  OBVIOUS
<1>. USE DEF Init
<1>1. DraftInv
  <2>1. Blank \in Look /\ Blank.version = 0
    BY DEF Blank, Look
  <2>2. DOMAIN sent = {}
    OBVIOUS
  <2>3. drafts \in Seq(Draft) /\ DOMAIN drafts = {}
    OBVIOUS
  <2>4. LastIsActive(drafts)
    BY <2>3 DEF LastIsActive
  <2>5. \A s \in Sessions : screen[s] = Blank
    OBVIOUS
  <2>6. screen \in [Sessions -> Look]
    BY <2>1
  <2>7. \A s \in Sessions : Faithful(screen[s], drafts)
    BY <2>1, <2>5 DEF Faithful
  <2>. QED  BY <2>2, <2>3, <2>4, <2>6, <2>7 DEF DraftInv
<1>2. WorkInv
  BY DEF WorkInv
<1>3. BatchInv
  <2>1. MaxLosses \in Nat
    BY SubmissionAssumption
  <2>. QED  BY <2>1 DEF BatchInv, AnnouncedUnlessLost
<1>. QED  BY <1>1, <1>2, <1>3 DEF SubmissionInv

-----------------------------------------------------------------------------
(* Drafts.                                                                 *)

\* A row of a sequence of drafts has the fields of a draft.
LEMMA DraftFields ==
    ASSUME NEW ds \in Seq(Draft), NEW i \in DOMAIN ds
    PROVE  /\ ds[i] \in Draft
           /\ ds[i].version \in Nat \ {0} /\ ds[i].version <= MaxVersion
           /\ ds[i].key \in Keys /\ ds[i].rows \in Saves
           /\ ds[i].status \in {"draft", "submitted"}
<1>1. ds[i] \in Draft
  OBVIOUS
<1>2. MaxVersion \in Nat
  BY SubmissionAssumption
<1>. QED  BY <1>1, <1>2 DEF Draft

\* What kept its version kept its rows; the rest went up by one version.
MovesOn(ds, es) ==
    /\ DOMAIN ds \subseteq DOMAIN es
    /\ \A i \in DOMAIN ds :
          \/ es[i].version = ds[i].version /\ es[i].rows = ds[i].rows
          \/ es[i].version = ds[i].version + 1

\* Drafts that move on leave every screen true.
LEMMA ScreensStayTrue ==
    ASSUME NEW ds \in Seq(Draft), NEW es, MovesOn(ds, es),
           NEW x \in Look, Faithful(x, ds)
    PROVE  Faithful(x, es)
<1>1. CASE x.version = 0
  BY <1>1 DEF Faithful
<1>2. CASE x.version # 0
  <2>1. x.version \in Nat /\ x.draft \in DOMAIN ds
    BY <1>2 DEF Faithful, Look
  <2>2. ds[x.draft].version \in Nat
    BY <2>1, DraftFields
  <2>. QED  BY <1>2, <2>1, <2>2 DEF Faithful, MovesOn
<1>. QED  BY <1>1, <1>2

\* A step that changes drafts only keeps the invariant when they move on.
LEMMA DraftsMove ==
    ASSUME DraftInv, UNCHANGED <<screen, sent>>,
           drafts' \in Seq(Draft), MovesOn(drafts, drafts'), LastIsActive(drafts')
    PROVE  DraftInv'
<1>1. \A s \in Sessions : Faithful(screen[s], drafts')
  <2>. TAKE s \in Sessions
  <2>1. screen[s] \in Look /\ Faithful(screen[s], drafts) /\ drafts \in Seq(Draft)
    BY DEF DraftInv
  <2>. QED  BY <2>1, ScreensStayTrue
<1>2. \A e \in DOMAIN sent : Faithful(sent[e], drafts')
  <2>. TAKE e \in DOMAIN sent
  <2>1. sent[e] \in Look /\ Faithful(sent[e], drafts) /\ drafts \in Seq(Draft)
    BY DEF DraftInv
  <2>. QED  BY <2>1, ScreensStayTrue
<1>. QED  BY <1>1, <1>2 DEF DraftInv

\* The steps that change no draft, screen or sent edit.
LEMMA DraftFrame ==
    ASSUME DraftInv, UNCHANGED <<drafts, screen, sent>>
    PROVE  DraftInv'
  BY DEF DraftInv

\* build_grade_grid shows the draft as it is.
LEMMA BuildGradeGridKeepsDrafts ==
    ASSUME DraftInv, NEW s \in Sessions, BuildGradeGrid(s)
    PROVE  DraftInv'
<1>. DEFINE look == IF Active = {} THEN Blank
                    ELSE LET i == CHOOSE i \in Active : TRUE
                         IN  [rows |-> drafts[i].rows, version |-> drafts[i].version,
                              draft |-> i]
<1>1. look \in Look /\ Faithful(look, drafts)
  <2>1. CASE Active = {}
    BY <2>1 DEF Blank, Look, Faithful
  <2>2. CASE Active # {}
    <3>1. PICK i \in Active : look = [rows |-> drafts[i].rows,
                                      version |-> drafts[i].version, draft |-> i]
      BY <2>2
    <3>. HIDE DEF look
    <3>2. drafts \in Seq(Draft) /\ i \in DOMAIN drafts /\ i \in Nat
      BY <3>1 DEF DraftInv, Active
    <3>3. drafts[i].version \in Nat /\ drafts[i].rows \in Saves
      BY <3>2, DraftFields
    <3>. QED  BY <3>1, <3>2, <3>3 DEF Look, Faithful
  <2>. QED  BY <2>1, <2>2
<1>2. screen' = [screen EXCEPT ![s] = look] /\ UNCHANGED <<drafts, sent>>
  BY DEF BuildGradeGrid
<1>. HIDE DEF look
<1>. QED  BY <1>1, <1>2 DEF DraftInv

\* An edit carries what its session has on screen.
LEMMA SendKeepsDrafts ==
    ASSUME DraftInv, NEW s \in Sessions, NEW e \in Edits, Send(s, e)
    PROVE  DraftInv'
<1>1. /\ sent' = [f \in DOMAIN sent \cup {e} |-> IF f = e THEN screen[s] ELSE sent[f]]
      /\ UNCHANGED <<drafts, screen>>
  BY DEF Send
<1>2. DOMAIN sent' = DOMAIN sent \cup {e}
  BY <1>1
<1>3. \A f \in DOMAIN sent' : sent'[f] \in Look /\ Faithful(sent'[f], drafts)
  BY <1>1, <1>2 DEF DraftInv
<1>. QED  BY <1>1, <1>2, <1>3 DEF DraftInv

\* A replacement is a new version of the row that was locked.
LEMMA ReplaceDraftMoves ==
    ASSUME DraftInv, WorkInv, NEW w \in Workers, ReplaceDraft(w)
    PROVE  /\ drafts' \in Seq(Draft) /\ DOMAIN drafts' = DOMAIN drafts
           /\ \/ drafts' = drafts
              \/ \E i \in Active :
                    /\ VersionMatches(edit[w], drafts[i].version)
                    /\ drafts'[i].version = drafts[i].version + 1
                    /\ drafts'[i].status = drafts[i].status
                    /\ drafts'[i].rows = edit[w]
                    /\ \A j \in DOMAIN drafts \ {i} : drafts'[j] = drafts[j]
<1>1. drafts \in Seq(Draft)
  BY DEF DraftInv
<1>2. edit[w] \in Saves /\ KeyOf[edit[w]] \in Keys
  BY SubmissionAssumption DEF WorkInv, ReplaceDraft, Edits
<1>3. CASE drafts' = drafts
  BY <1>1, <1>3
<1>4. CASE drafts' # drafts
  <2>1. PICK i \in Active :
           /\ VersionMatches(edit[w], drafts[i].version)
           /\ drafts[i].version < MaxVersion
           /\ drafts' = [drafts EXCEPT ![i] = Revised(@, edit[w])]
    BY <1>4 DEF ReplaceDraft, Editable
  <2>2. i \in DOMAIN drafts
    BY DEF Active
  <2>3. /\ drafts[i].version \in Nat /\ MaxVersion \in Nat
        /\ drafts[i].status \in {"draft", "submitted"}
    BY <1>1, <2>2, DraftFields, SubmissionAssumption
  <2>. DEFINE new == Revised(drafts[i], edit[w])
  <2>4. drafts[i].version + 1 \in 1..MaxVersion
    BY <2>1, <2>3
  <2>5. new \in Draft /\ new.version = drafts[i].version + 1
        /\ new.status = drafts[i].status /\ new.rows = edit[w]
    BY <1>2, <2>3, <2>4 DEF Draft, Revised
  <2>6. drafts' = [drafts EXCEPT ![i] = new]
    BY <2>1
  <2>. HIDE DEF new
  <2>7. drafts' \in Seq(Draft) /\ DOMAIN drafts' = DOMAIN drafts
    BY <1>1, <2>2, <2>5, <2>6
  <2>8. drafts'[i] = new /\ \A j \in DOMAIN drafts \ {i} : drafts'[j] = drafts[j]
    BY <2>2, <2>6
  <2>. QED  BY <2>1, <2>5, <2>7, <2>8
<1>. QED  BY <1>3, <1>4

\* The replacement keeps every screen true.
LEMMA ReplaceDraftKeepsDrafts ==
    ASSUME DraftInv, WorkInv, NEW w \in Workers, ReplaceDraft(w)
    PROVE  DraftInv'
<1>1. UNCHANGED <<screen, sent>>
  BY DEF ReplaceDraft
<1>2. drafts \in Seq(Draft) /\ LastIsActive(drafts)
  BY DEF DraftInv
<1>3. CASE drafts' = drafts
  BY <1>1, <1>3, DraftFrame
<1>4. CASE drafts' # drafts
  <2>1. PICK i \in Active :
           /\ drafts' \in Seq(Draft) /\ DOMAIN drafts' = DOMAIN drafts
           /\ drafts'[i].version = drafts[i].version + 1
           /\ drafts'[i].status = drafts[i].status
           /\ \A j \in DOMAIN drafts \ {i} : drafts'[j] = drafts[j]
    BY <1>4, ReplaceDraftMoves
  <2>2. Len(drafts') = Len(drafts)
    BY <1>2, <2>1
  <2>3. LastIsActive(drafts')
    BY <1>2, <2>1, <2>2 DEF LastIsActive
  <2>4. MovesOn(drafts, drafts')
    BY <2>1 DEF MovesOn
  <2>. QED  BY <1>1, <2>1, <2>3, <2>4, DraftsMove
<1>. QED  BY <1>3, <1>4

\* A new draft is inserted only when every earlier one has been submitted.
LEMMA CreateDraftKeepsDrafts ==
    ASSUME DraftInv, WorkInv, NEW w \in Workers, CreateDraft(w)
    PROVE  DraftInv'
<1>1. UNCHANGED <<screen, sent>>
  BY DEF CreateDraft
<1>2. drafts \in Seq(Draft)
  BY DEF DraftInv
<1>3. CASE MayInsertDraft(edit[w])
  <2>. DEFINE new == [version |-> 1, key |-> KeyOf[edit[w]], rows |-> edit[w],
                      status |-> "draft"]
  <2>1. edit[w] \in Saves /\ KeyOf[edit[w]] \in Keys /\ 1 \in 1..MaxVersion
    BY SubmissionAssumption DEF WorkInv, CreateDraft, Edits
  <2>2. new \in Draft
    BY <2>1 DEF Draft
  <2>3. drafts' = Append(drafts, new)
    BY <1>3 DEF CreateDraft
  <2>. HIDE DEF new
  <2>4. /\ drafts' \in Seq(Draft) /\ Len(drafts') = Len(drafts) + 1
        /\ \A i \in DOMAIN drafts : drafts'[i] = drafts[i]
        /\ DOMAIN drafts' = DOMAIN drafts \cup {Len(drafts')}
    BY <1>2, <2>2, <2>3
  <2>5. LastIsActive(drafts')
    BY <1>3, <2>4 DEF LastIsActive, MayInsertDraft, Active
  <2>6. MovesOn(drafts, drafts')
    BY <2>4 DEF MovesOn
  <2>. QED  BY <1>1, <2>4, <2>5, <2>6, DraftsMove
<1>4. CASE ~MayInsertDraft(edit[w])
  BY <1>1, <1>4, DraftFrame DEF CreateDraft
<1>. QED  BY <1>3, <1>4

\* The submission of the drafts leaves their rows and versions alone.
LEMMA DraftsSubmittedFacts ==
    ASSUME DraftInv
    PROVE  /\ DraftsSubmitted \in Seq(Draft) /\ DOMAIN DraftsSubmitted = DOMAIN drafts
           /\ \A i \in DOMAIN drafts :
                 /\ DraftsSubmitted[i].version = drafts[i].version
                 /\ DraftsSubmitted[i].rows = drafts[i].rows
                 /\ DraftsSubmitted[i].status = "submitted"
                 /\ drafts[i].status = "submitted" => DraftsSubmitted[i] = drafts[i]
<1>1. drafts \in Seq(Draft)
  BY DEF DraftInv
<1>2. \A i \in DOMAIN drafts :
         /\ DraftsSubmitted[i] \in Draft
         /\ DraftsSubmitted[i].version = drafts[i].version
         /\ DraftsSubmitted[i].rows = drafts[i].rows
         /\ DraftsSubmitted[i].status = "submitted"
         /\ drafts[i].status = "submitted" => DraftsSubmitted[i] = drafts[i]
  <2>. TAKE i \in DOMAIN drafts
  <2>1. drafts[i] \in Draft
    BY <1>1
  <2>2. CASE i \in Active
    <3>1. DraftsSubmitted[i] = [drafts[i] EXCEPT !.status = "submitted"]
      BY <2>2 DEF DraftsSubmitted
    <3>2. drafts[i].status = "draft"
      BY <2>2 DEF Active
    <3>. QED  BY <2>1, <3>1, <3>2 DEF Draft
  <2>3. CASE i \notin Active
    <3>1. DraftsSubmitted[i] = drafts[i]
      BY <2>3 DEF DraftsSubmitted
    <3>2. drafts[i].status = "submitted"
      BY <2>1, <2>3 DEF Draft, Active
    <3>. QED  BY <2>1, <3>1, <3>2
  <2>. QED  BY <2>2, <2>3
<1>3. DOMAIN DraftsSubmitted = DOMAIN drafts
  BY DEF DraftsSubmitted
<1>4. DraftsSubmitted \in Seq(Draft)
  <2>1. PICK n \in Nat : DOMAIN drafts = 1..n
    BY <1>1
  <2>2. DraftsSubmitted = [i \in 1..n |-> DraftsSubmitted[i]]
    BY <2>1 DEF DraftsSubmitted
  <2>3. DraftsSubmitted \in [1..n -> Draft]
    BY <1>2, <2>1, <2>2
  <2>. QED  BY <2>3
<1>. QED  BY <1>2, <1>3, <1>4

\* The commit of a batch keeps every screen true.
LEMMA CommitBatchKeepsDrafts ==
    ASSUME DraftInv, NEW w \in Workers, CommitBatch(w)
    PROVE  DraftInv'
<1>1. UNCHANGED <<screen, sent>>
  BY DEF CommitBatch
<1>2. CASE drafts' = drafts
  BY <1>1, <1>2, DraftFrame
<1>3. CASE drafts' = DraftsSubmitted
  <2>1. LastIsActive(drafts')
    BY <1>3, DraftsSubmittedFacts DEF LastIsActive
  <2>2. MovesOn(drafts, drafts')
    BY <1>3, DraftsSubmittedFacts DEF MovesOn
  <2>. QED  BY <1>1, <1>3, <2>1, <2>2, DraftsSubmittedFacts, DraftsMove
<1>. QED  BY <1>2, <1>3 DEF CommitBatch
\* No step makes a screen, or an edit sent from it, untrue.
LEMMA DraftStep == SubmissionInv /\ [Next]_vars => DraftInv'
<1>. SUFFICES ASSUME SubmissionInv, [Next]_vars PROVE DraftInv'
  OBVIOUS
<1>0. DraftInv /\ WorkInv
  BY DEF SubmissionInv
<1>1. CASE UNCHANGED vars
  BY <1>0, <1>1, DraftFrame DEF vars
<1>2. ASSUME NEW s \in Sessions, BuildGradeGrid(s) PROVE DraftInv'
  BY <1>0, <1>2, BuildGradeGridKeepsDrafts
<1>3. ASSUME NEW s \in Sessions, NEW e \in Edits, Send(s, e) PROVE DraftInv'
  BY <1>0, <1>3, SendKeepsDrafts
<1>4. ASSUME NEW w \in Workers, NEW e \in Edits, Deliver(w, e) PROVE DraftInv'
  BY <1>0, <1>4, DraftFrame DEF Deliver
<1>5. ASSUME NEW w \in Workers, ReplaceDraft(w) PROVE DraftInv'
  BY <1>0, <1>5, ReplaceDraftKeepsDrafts
<1>6. ASSUME NEW w \in Workers, CreateDraft(w) PROVE DraftInv'
  BY <1>0, <1>6, CreateDraftKeepsDrafts
<1>7. ASSUME NEW w \in Workers, CommitBatch(w) PROVE DraftInv'
  BY <1>0, <1>7, CommitBatchKeepsDrafts
<1>8. ASSUME NEW w \in Workers,
             LookUpDraftKey(w) \/ FindNoDraft(w) \/ LookUpBatch(w)
                \/ EmitBatchSubmitted(w) \/ LoseCallback(w)
      PROVE  DraftInv'
  <2>1. UNCHANGED <<drafts, screen, sent>>
    BY <1>8 DEF LookUpDraftKey, FindNoDraft, LookUpBatch, EmitBatchSubmitted, LoseCallback
  <2>. QED  BY <1>0, <2>1, DraftFrame
<1>. QED  BY <1>1, <1>2, <1>3, <1>4, <1>5, <1>6, <1>7, <1>8 DEF Next, Transaction

-----------------------------------------------------------------------------
(* Workers.                                                                *)

\* One worker moves to a step its edit belongs at, or becomes idle.
LEMMA WorkMoves ==
    ASSUME WorkInv, NEW w \in Workers, NEW at, NEW of,
           pc' = [pc EXCEPT ![w] = at], edit' = [edit EXCEPT ![w] = of],
           DOMAIN sent \subseteq DOMAIN sent',
           \/ at = "idle" /\ of \in Edits \cup {NoEdit}
           \/ at \in {"save", "lock", "create"} /\ of \in Saves \cap DOMAIN sent
           \/ at \in {"submit", "insert", "emit"} /\ of \in Submits \cap DOMAIN sent
    PROVE  WorkInv'
<1>1. at \in {"idle", "save", "lock", "create", "submit", "insert", "emit"}
      /\ of \in Edits \cup {NoEdit}
  BY DEF Edits
<1>2. /\ pc' \in [Workers -> {"idle", "save", "lock", "create", "submit", "insert", "emit"}]
      /\ edit' \in [Workers -> Edits \cup {NoEdit}]
  BY <1>1 DEF WorkInv
<1>3. ASSUME NEW v \in Workers
      PROVE  /\ pc'[v] \in {"save", "lock", "create"} => edit'[v] \in Saves \cap DOMAIN sent'
             /\ pc'[v] \in {"submit", "insert", "emit"} => edit'[v] \in Submits \cap DOMAIN sent'
  <2>1. CASE v = w
    <3>1. pc'[v] = at /\ edit'[v] = of
      BY <2>1 DEF WorkInv
    <3>. QED  BY <3>1
  <2>2. CASE v # w
    <3>1. pc'[v] = pc[v] /\ edit'[v] = edit[v]
      BY <2>2 DEF WorkInv
    <3>. QED  BY <3>1 DEF WorkInv
  <2>. QED  BY <2>1, <2>2
<1>. QED  BY <1>2, <1>3 DEF WorkInv

\* Finish and Goto move one worker.
LEMMA WorkerMoves ==
    ASSUME WorkInv, NEW w \in Workers
    PROVE  /\ Finish(w) => /\ pc' = [pc EXCEPT ![w] = "idle"]
                           /\ edit' = [edit EXCEPT ![w] = NoEdit]
           /\ \A at : Goto(w, at) => /\ pc' = [pc EXCEPT ![w] = at]
                                     /\ edit' = [edit EXCEPT ![w] = edit[w]]
<1>1. edit = [edit EXCEPT ![w] = edit[w]]
  BY DEF WorkInv
<1>. QED  BY <1>1 DEF Finish, Goto

\* A lookup by key ends with the answer, or goes on to the insert.
LEMMA LookUpBatchMoves ==
    ASSUME NEW w \in Workers, LookUpBatch(w)
    PROVE  /\ pc[w] = "submit" /\ UNCHANGED <<drafts, batches, outbox, screen, sent, losses>>
           /\ \/ Goto(w, "insert") /\ accepted' = accepted
              \/ /\ Finish(w) /\ batches # <<>>
                 /\ accepted' \subseteq accepted \cup {edit[w]} /\ accepted \subseteq accepted'
                 /\ edit[w] \in accepted' \ accepted =>
                       \E i \in DOMAIN batches : SamePayload(batches[i], edit[w])
<1>. DEFINE known == {i \in DOMAIN batches : batches[i].key = KeyOf[edit[w]]}
            told == {f \in {edit[w]} : known # {} /\ \A i \in known : SamePayload(batches[i], f)}
<1>1. /\ pc[w] = "submit" /\ UNCHANGED <<drafts, batches, outbox, screen, sent, losses>>
      /\ IF batches = <<>> THEN Goto(w, "insert") /\ UNCHANGED accepted
         ELSE Finish(w) /\ accepted' = accepted \cup told
  BY DEF LookUpBatch
<1>2. told \subseteq {edit[w]} /\ known \subseteq DOMAIN batches
  OBVIOUS
<1>3. edit[w] \in told => \E i \in DOMAIN batches : SamePayload(batches[i], edit[w])
  OBVIOUS
<1>. HIDE DEF told, known
<1>4. CASE batches = <<>>
  BY <1>1, <1>4
<1>5. CASE batches # <<>>
  BY <1>1, <1>2, <1>3, <1>5
<1>. QED  BY <1>4, <1>5

\* Each worker carries an edit of the kind its transaction is for.
LEMMA WorkStep == SubmissionInv /\ [Next]_vars => WorkInv'
<1>. SUFFICES ASSUME SubmissionInv, [Next]_vars PROVE WorkInv'
  OBVIOUS
<1>0. DraftInv /\ WorkInv
  BY DEF SubmissionInv
<1>1. CASE UNCHANGED vars
  BY <1>0, <1>1 DEF vars, WorkInv
<1>2. ASSUME NEW s \in Sessions, BuildGradeGrid(s) PROVE WorkInv'
  BY <1>0, <1>2 DEF BuildGradeGrid, WorkInv
<1>3. ASSUME NEW s \in Sessions, NEW e \in Edits, Send(s, e) PROVE WorkInv'
  BY <1>0, <1>3 DEF Send, WorkInv
<1>4. ASSUME NEW w \in Workers, NEW e \in Edits, Deliver(w, e) PROVE WorkInv'
  <2>1. e \in DOMAIN sent /\ UNCHANGED sent
        /\ pc' = [pc EXCEPT ![w] = IF e \in Saves THEN "save" ELSE "submit"]
        /\ edit' = [edit EXCEPT ![w] = e]
    BY <1>4 DEF Deliver
  <2>. QED  BY <1>0, <2>1, WorkMoves DEF Edits
<1>5. ASSUME NEW w \in Workers, Transaction(w) \/ LoseCallback(w) PROVE WorkInv'
  <2>1. UNCHANGED sent
    BY <1>5 DEF Transaction, LookUpDraftKey, ReplaceDraft, FindNoDraft, CreateDraft,
                LookUpBatch, CommitBatch, EmitBatchSubmitted, LoseCallback
  <2>2. CASE Finish(w)
    BY <1>0, <2>1, <2>2, WorkerMoves, WorkMoves
  <2>3. CASE \/ Goto(w, "lock") /\ pc[w] = "save"
             \/ Goto(w, "create") /\ pc[w] = "lock"
    <3>1. edit[w] \in Saves \cap DOMAIN sent
      BY <1>0, <2>3 DEF WorkInv
    <3>. QED  BY <1>0, <2>1, <2>3, <3>1, WorkerMoves, WorkMoves
  <2>4. CASE \/ Goto(w, "insert") /\ pc[w] = "submit"
             \/ Goto(w, "emit") /\ pc[w] = "insert"
    <3>1. edit[w] \in Submits \cap DOMAIN sent
      BY <1>0, <2>4 DEF WorkInv
    <3>. QED  BY <1>0, <2>1, <2>4, <3>1, WorkerMoves, WorkMoves
  <2>5. CASE LookUpDraftKey(w)
    <3>. DEFINE known == {i \in DOMAIN drafts : drafts[i].key = KeyOf[edit[w]]}
    <3>1. pc[w] = "save" /\ IF known = {} THEN Goto(w, "lock") ELSE Finish(w)
      BY <2>5 DEF LookUpDraftKey
    <3>. HIDE DEF known
    <3>. QED  BY <2>2, <2>3, <3>1
  <2>6. CASE FindNoDraft(w)
    BY <2>3, <2>6 DEF FindNoDraft
  <2>7. CASE LookUpBatch(w)
    <3>1. pc[w] = "submit" /\ (Goto(w, "insert") \/ Finish(w))
      BY <2>7, LookUpBatchMoves
    <3>. QED  BY <2>2, <2>4, <3>1
  <2>8. CASE CommitBatch(w)
    BY <2>2, <2>4, <2>8 DEF CommitBatch
  <2>9. CASE ReplaceDraft(w) \/ CreateDraft(w) \/ EmitBatchSubmitted(w) \/ LoseCallback(w)
    BY <2>2, <2>9 DEF ReplaceDraft, CreateDraft, EmitBatchSubmitted, LoseCallback
  <2>. QED  BY <1>5, <2>5, <2>6, <2>7, <2>8, <2>9 DEF Transaction
<1>. QED  BY <1>1, <1>2, <1>3, <1>4, <1>5 DEF Next
-----------------------------------------------------------------------------
(* The batch.                                                              *)

\* There is no batch or exactly one.
LEMMA OneBatch ==
    ASSUME BatchInv
    PROVE  batches = <<>> \/ (Len(batches) = 1 /\ DOMAIN batches = {1})
<1>1. batches \in Seq(Batch) /\ Len(batches) \in Nat /\ Len(batches) <= 1
      /\ DOMAIN batches = 1..Len(batches)
  BY DEF BatchInv
<1>2. CASE Len(batches) = 0
  BY <1>1, <1>2
<1>3. CASE Len(batches) = 1
  BY <1>1, <1>3
<1>. QED  BY <1>1, <1>2, <1>3

\* The batch is there for good: what is true of it at a worker or in an answer
\* stays true while no batch is added.
LEMMA BatchFrame ==
    ASSUME BatchInv, UNCHANGED <<batches, losses>>,
           outbox' = outbox, accepted' = accepted, DOMAIN sent \subseteq DOMAIN sent',
           \A w \in Workers : /\ pc'[w] = "emit" => pc[w] = "emit" /\ edit'[w] = edit[w]
                              /\ pc[w] = "emit" => pc'[w] = "emit" /\ edit'[w] = edit[w]
    PROVE  BatchInv'
<1>1. AnnouncedUnlessLost'
  BY DEF BatchInv, AnnouncedUnlessLost
<1>2. \A v \in Workers : pc'[v] = "emit" => Len(batches) = 1 /\ batches[1].rows = edit'[v]
  BY DEF BatchInv
<1>. QED  BY <1>1, <1>2 DEF BatchInv

\* A retry is answered with success only for the rows that are official.
LEMMA LookUpBatchKeepsBatch ==
    ASSUME SubmissionInv, NEW w \in Workers, LookUpBatch(w)
    PROVE  BatchInv'
<1>1. BatchInv /\ WorkInv
  BY DEF SubmissionInv
<1>2. edit[w] \in Submits \cap DOMAIN sent /\ UNCHANGED <<batches, outbox, sent, losses>>
  BY <1>1, LookUpBatchMoves DEF WorkInv
<1>3. \A v \in Workers : /\ pc'[v] = "emit" => pc[v] = "emit" /\ edit'[v] = edit[v]
                         /\ pc[v] = "emit" => pc'[v] = "emit" /\ edit'[v] = edit[v]
  <2>1. \/ pc' = [pc EXCEPT ![w] = "insert"] /\ edit' = edit
        \/ pc' = [pc EXCEPT ![w] = "idle"] /\ edit' = [edit EXCEPT ![w] = NoEdit]
    BY LookUpBatchMoves DEF Goto, Finish
  <2>2. pc[w] = "submit"
    BY LookUpBatchMoves
  <2>. QED  BY <1>1, <2>1, <2>2 DEF WorkInv
<1>4. CASE accepted' = accepted
  BY <1>1, <1>2, <1>3, <1>4, BatchFrame
<1>5. CASE accepted' # accepted
  <2>1. /\ batches # <<>> /\ accepted' \subseteq accepted \cup {edit[w]}
        /\ edit[w] \in accepted' \ accepted =>
              \E i \in DOMAIN batches : SamePayload(batches[i], edit[w])
    BY <1>5, LookUpBatchMoves
  <2>2. Len(batches) = 1 /\ DOMAIN batches = {1}
    BY <1>1, <2>1, OneBatch
  <2>3. \A e \in accepted' : Len(batches) = 1 /\ batches[1].rows = e
    BY <1>1, <2>1, <2>2 DEF BatchInv, SamePayload
  <2>4. AnnouncedUnlessLost'
    BY <1>1, <1>2, <1>3 DEF BatchInv, AnnouncedUnlessLost
  <2>5. \A v \in Workers : pc'[v] = "emit" => Len(batches) = 1 /\ batches[1].rows = edit'[v]
    BY <1>1, <1>3 DEF BatchInv
  <2>. QED  BY <1>1, <1>2, <2>1, <2>3, <2>4, <2>5 DEF BatchInv
<1>. QED  BY <1>4, <1>5

\* The constraint lets one batch in, and its worker is about to announce it.
LEMMA CommitBatchKeepsBatch ==
    ASSUME SubmissionInv, NEW w \in Workers, CommitBatch(w)
    PROVE  BatchInv'
<1>1. BatchInv /\ WorkInv
  BY DEF SubmissionInv
<1>2. pc[w] = "insert" /\ edit[w] \in Submits \cap DOMAIN sent /\ w \in DOMAIN pc
      /\ UNCHANGED <<outbox, sent, accepted, losses>>
  BY <1>1 DEF CommitBatch, WorkInv
<1>3. CASE batches = <<>>
  <2>. DEFINE new == [key |-> KeyOf[edit[w]], rows |-> edit[w]]
  <2>1. KeyOf[edit[w]] \in Keys
    BY <1>2, SubmissionAssumption DEF Edits
  <2>2. new \in Batch /\ new.rows = edit[w]
    BY <1>2, <2>1 DEF Batch
  <2>3. batches' = Append(batches, new)
    BY <1>3 DEF CommitBatch, MayInsertBatch
  <2>4. pc' = [pc EXCEPT ![w] = "emit"] /\ edit' = edit
    BY <1>3 DEF CommitBatch, MayInsertBatch, Goto
  <2>. HIDE DEF new
  <2>5. batches' \in Seq(Batch) /\ Len(batches') = 1 /\ batches'[1] = new
    BY <1>1, <1>3, <2>2, <2>3 DEF BatchInv
  <2>6. accepted = {} /\ outbox = {}
    BY <1>1, <1>3 DEF BatchInv
  <2>7. \A v \in Workers : pc'[v] = "emit" => v = w
    BY <1>1, <1>3, <2>4 DEF BatchInv, WorkInv
  <2>8. pc'[w] = "emit" /\ batches'[1].rows = edit'[w]
    BY <1>2, <2>2, <2>4, <2>5
  <2>9. AnnouncedUnlessLost'
    BY <2>8 DEF AnnouncedUnlessLost
  <2>10. losses' \in 0..MaxLosses
    BY <1>1, <1>2 DEF BatchInv
  <2>. QED  BY <1>2, <2>5, <2>6, <2>7, <2>8, <2>9, <2>10 DEF BatchInv
<1>4. CASE batches # <<>>
  <2>1. Finish(w) /\ UNCHANGED batches
    BY <1>4 DEF CommitBatch, MayInsertBatch
  <2>2. \A v \in Workers : /\ pc'[v] = "emit" => pc[v] = "emit" /\ edit'[v] = edit[v]
                           /\ pc[v] = "emit" => pc'[v] = "emit" /\ edit'[v] = edit[v]
    BY <1>1, <1>2, <2>1 DEF Finish, WorkInv
  <2>. QED  BY <1>1, <1>2, <2>1, <2>2, BatchFrame
<1>. QED  BY <1>3, <1>4

\* The callback leaves the event or counts as lost.
LEMMA CallbackKeepsBatch ==
    ASSUME SubmissionInv, NEW w \in Workers, EmitBatchSubmitted(w) \/ LoseCallback(w)
    PROVE  BatchInv'
<1>1. BatchInv /\ WorkInv
  BY DEF SubmissionInv
<1>2. /\ pc[w] = "emit" /\ edit[w] \in Submits \cap DOMAIN sent
      /\ UNCHANGED <<batches, sent>> /\ Finish(w)
  BY <1>1 DEF EmitBatchSubmitted, LoseCallback, WorkInv
<1>3. Len(batches) = 1 /\ DOMAIN batches = {1} /\ batches[1].rows = edit[w]
  BY <1>1, <1>2 DEF BatchInv
<1>4. \A v \in Workers : pc'[v] = "emit" => pc[v] = "emit" /\ edit'[v] = edit[v]
  BY <1>1, <1>2 DEF Finish, WorkInv
<1>5. CASE EmitBatchSubmitted(w)
  <2>1. /\ outbox' = outbox \cup {i \in DOMAIN batches : batches[i].rows = edit[w]}
        /\ accepted' = accepted \cup {edit[w]} /\ losses' = losses
    BY <1>5 DEF EmitBatchSubmitted
  <2>2. 1 \in outbox' /\ outbox' \subseteq DOMAIN batches
    BY <1>1, <1>3, <2>1 DEF BatchInv
  <2>3. AnnouncedUnlessLost'
    BY <2>2 DEF AnnouncedUnlessLost
  <2>4. \A e \in accepted' : Len(batches) = 1 /\ batches[1].rows = e
    BY <1>1, <1>3, <2>1 DEF BatchInv
  <2>. QED  BY <1>1, <1>2, <1>3, <1>4, <2>1, <2>2, <2>3, <2>4 DEF BatchInv
<1>6. CASE LoseCallback(w)
  <2>1. losses' \in 0..MaxLosses /\ losses' > 0 /\ UNCHANGED <<outbox, accepted>>
    BY <1>1, <1>6, SubmissionAssumption DEF LoseCallback, BatchInv
  <2>2. AnnouncedUnlessLost'
    BY <2>1 DEF AnnouncedUnlessLost
  <2>. QED  BY <1>1, <1>2, <1>4, <2>1, <2>2 DEF BatchInv
<1>. QED  BY <1>5, <1>6

\* The batch, its event and the answers agree in every step.
LEMMA BatchStep == SubmissionInv /\ [Next]_vars => BatchInv'
<1>. SUFFICES ASSUME SubmissionInv, [Next]_vars PROVE BatchInv'
  OBVIOUS
<1>0. BatchInv /\ WorkInv
  BY DEF SubmissionInv
<1>1. CASE UNCHANGED vars
  BY <1>0, <1>1, BatchFrame DEF vars
<1>2. ASSUME NEW s \in Sessions, BuildGradeGrid(s) PROVE BatchInv'
  BY <1>0, <1>2, BatchFrame DEF BuildGradeGrid
<1>3. ASSUME NEW s \in Sessions, NEW e \in Edits, Send(s, e) PROVE BatchInv'
  BY <1>0, <1>3, BatchFrame DEF Send
<1>4. ASSUME NEW w \in Workers, NEW e \in Edits, Deliver(w, e) PROVE BatchInv'
  <2>1. \A v \in Workers : /\ pc'[v] = "emit" => pc[v] = "emit" /\ edit'[v] = edit[v]
                           /\ pc[v] = "emit" => pc'[v] = "emit" /\ edit'[v] = edit[v]
    BY <1>0, <1>4 DEF Deliver, WorkInv
  <2>. QED  BY <1>0, <1>4, <2>1, BatchFrame DEF Deliver
<1>5. ASSUME NEW w \in Workers, LookUpBatch(w) PROVE BatchInv'
  BY <1>5, LookUpBatchKeepsBatch
<1>6. ASSUME NEW w \in Workers, CommitBatch(w) PROVE BatchInv'
  BY <1>6, CommitBatchKeepsBatch
<1>7. ASSUME NEW w \in Workers, EmitBatchSubmitted(w) \/ LoseCallback(w) PROVE BatchInv'
  BY <1>7, CallbackKeepsBatch
<1>8. ASSUME NEW w \in Workers,
             LookUpDraftKey(w) \/ ReplaceDraft(w) \/ FindNoDraft(w) \/ CreateDraft(w)
      PROVE  BatchInv'
  <2>1. /\ UNCHANGED <<batches, outbox, sent, accepted, losses>>
        /\ pc[w] \in {"save", "lock", "create"}
        /\ \/ Finish(w)
           \/ \E at \in {"lock", "create"} : Goto(w, at)
    <3>1. CASE LookUpDraftKey(w)
      <4>. DEFINE known == {i \in DOMAIN drafts : drafts[i].key = KeyOf[edit[w]]}
      <4>1. /\ pc[w] = "save" /\ IF known = {} THEN Goto(w, "lock") ELSE Finish(w)
            /\ UNCHANGED <<batches, outbox, sent, accepted, losses>>
        BY <3>1 DEF LookUpDraftKey
      <4>. HIDE DEF known
      <4>. QED  BY <4>1
    <3>2. CASE ReplaceDraft(w)
      BY <3>2 DEF ReplaceDraft
    <3>3. CASE FindNoDraft(w) \/ CreateDraft(w)
      BY <3>3 DEF FindNoDraft, CreateDraft
    <3>. QED  BY <1>8, <3>1, <3>2, <3>3
  <2>2. \A v \in Workers : /\ pc'[v] = "emit" => pc[v] = "emit" /\ edit'[v] = edit[v]
                           /\ pc[v] = "emit" => pc'[v] = "emit" /\ edit'[v] = edit[v]
    BY <1>0, <2>1 DEF Finish, Goto, WorkInv
  <2>. QED  BY <1>0, <2>1, <2>2, BatchFrame
<1>. QED  BY <1>1, <1>2, <1>3, <1>4, <1>5, <1>6, <1>7, <1>8 DEF Next, Transaction

\* SubmissionInv is an invariant of every behaviour.
LEMMA SubmissionInvariant == Spec => []SubmissionInv
<1>1. SubmissionInv /\ [Next]_vars => SubmissionInv'
  BY DraftStep, WorkStep, BatchStep DEF SubmissionInv
<1>. QED  BY SubmissionInit, <1>1, PTL DEF Spec

-----------------------------------------------------------------------------
(* The theorems.                                                           *)

\* At most one draft is being edited.
LEMMA OneActiveDraft ==
    ASSUME DraftInv PROVE Cardinality(Active) <= 1
<1>1. CASE Active = {}
  BY <1>1, FS_EmptySet
<1>2. CASE Active # {}
  <2>1. PICK i \in Active : TRUE
    BY <1>2
  <2>2. Active = {i}
    BY <2>1 DEF Active, DraftInv, LastIsActive
  <2>. QED  BY <2>2, FS_Singleton
<1>. QED  BY <1>1, <1>2

\* Whoever was told that marks were submitted finds them official, for any
\* number of sessions, workers, edits and retries (submit_grade_batch).
THEOREM MarksAreOfficialAlways == Spec => []MarksAreOfficial
<1>1. SubmissionInv => MarksAreOfficial
  <2>. SUFFICES ASSUME SubmissionInv PROVE MarksAreOfficial
    OBVIOUS
  <2>1. DraftInv /\ WorkInv /\ BatchInv
    BY DEF SubmissionInv
  <2>2. \A i \in DOMAIN drafts : drafts[i] \in Draft
    BY <2>1 DEF DraftInv
  <2>3. Cardinality(Active) <= 1
    BY <2>1, OneActiveDraft
  <2>4. \A i \in DOMAIN batches : batches[i] \in Batch
    BY <2>1 DEF BatchInv
  <2>5. SubmissionTypeOK
    BY <2>1, <2>2, <2>3, <2>4 DEF SubmissionTypeOK, DraftInv, WorkInv, BatchInv, Draft, Batch
  <2>6. \A e \in accepted : batches # <<>> /\ batches[1].rows = e
    BY <2>1 DEF BatchInv
  <2>. QED  BY <2>1, <2>5, <2>6 DEF MarksAreOfficial, AcceptedIsOfficial, BatchInv
<1>. QED  BY SubmissionInvariant, <1>1, PTL

\* The event of a submitted batch is written, about to be written, or was lost
\* with its callback (emit_batch_submitted).
THEOREM AnnouncedUnlessLostAlways == Spec => []AnnouncedUnlessLost
<1>1. SubmissionInv => AnnouncedUnlessLost
  BY DEF SubmissionInv, BatchInv
<1>. QED  BY SubmissionInvariant, <1>1, PTL

\* What a step does to the drafts: it locks and revises the active one, adds
\* one, submits the active one, or leaves them alone.
LEMMA DraftMove ==
    ASSUME SubmissionInv, [Next]_vars
    PROVE  \/ drafts' = drafts
           \/ \E w \in Workers : ReplaceDraft(w)
           \/ \A i \in DOMAIN drafts : drafts'[i] = drafts[i]
           \/ drafts' = DraftsSubmitted
<1>1. ASSUME NEW w \in Workers, CreateDraft(w)
      PROVE  drafts' = drafts \/ \A i \in DOMAIN drafts : drafts'[i] = drafts[i]
  <2>1. drafts \in Seq(Draft)
    BY DEF SubmissionInv, DraftInv
  <2>2. drafts' = drafts \/ \E new : drafts' = Append(drafts, new)
    BY <1>1 DEF CreateDraft
  <2>. QED  BY <2>1, <2>2
<1>2. ASSUME NEW w \in Workers, CommitBatch(w)
      PROVE  drafts' = drafts \/ drafts' = DraftsSubmitted
  BY <1>2 DEF CommitBatch
<1>. QED  BY <1>1, <1>2 DEF Next, Transaction, vars, BuildGradeGrid, Send, Deliver,
             LookUpDraftKey, FindNoDraft, LookUpBatch, EmitBatchSubmitted, LoseCallback

\* The draft that was on file when the marks were submitted is never written
\* again: select_for_update asks for the status, and so does the constraint.
THEOREM SubmittedDraftsStay == Spec => SubmittedDraftsAreKept
<1>1. ASSUME SubmissionInv, [Next]_vars, NEW i \in DOMAIN drafts,
             drafts[i].status = "submitted"
      PROVE  drafts'[i] = drafts[i]
  <2>1. DraftInv /\ WorkInv /\ i \notin Active
    BY <1>1 DEF SubmissionInv, Active
  <2>2. ASSUME NEW w \in Workers, ReplaceDraft(w) PROVE drafts'[i] = drafts[i]
    BY <2>1, <2>2, <1>1, ReplaceDraftMoves
  <2>3. CASE drafts' = DraftsSubmitted
    BY <1>1, <2>1, <2>3, DraftsSubmittedFacts
  <2>. QED  BY <1>1, <2>2, <2>3, DraftMove
<1>2. SubmissionInv /\ [Next]_vars
        => [\A i \in DOMAIN drafts :
              drafts[i].status = "submitted" => drafts'[i] = drafts[i]]_vars
  BY <1>1
<1>. QED  BY SubmissionInvariant, <1>2, PTL DEF Spec, SubmittedDraftsAreKept

\* A save that names a version replaces rows its sender has seen, unless its
\* draft was submitted meanwhile (validate_draft_version).
THEOREM SavesSeeWhatTheyReplace == Spec => VersionedSavesSeeWhatTheyReplace
<1>1. ASSUME SubmissionInv, [Next]_vars, NEW i \in DOMAIN drafts,
             drafts'[i].rows # drafts[i].rows, sent[drafts'[i].rows].version # 0
      PROVE  \/ sent[drafts'[i].rows].rows = drafts[i].rows
             \/ /\ sent[drafts'[i].rows].draft < i
                /\ drafts[sent[drafts'[i].rows].draft].status = "submitted"
  <2>1. DraftInv /\ WorkInv /\ drafts \in Seq(Draft)
    BY <1>1 DEF SubmissionInv, DraftInv
  <2>2. PICK w \in Workers : ReplaceDraft(w)
    BY <1>1, <2>1, DraftMove, DraftsSubmittedFacts
  <2>3. PICK j \in Active :
           /\ VersionMatches(edit[w], drafts[j].version)
           /\ drafts'[j].rows = edit[w]
           /\ \A k \in DOMAIN drafts \ {j} : drafts'[k] = drafts[k]
    BY <1>1, <2>1, <2>2, ReplaceDraftMoves
  <2>4. i = j
    BY <1>1, <2>3
  <2>. DEFINE x == sent[edit[w]]
  <2>5. edit[w] \in DOMAIN sent
    BY <2>1, <2>2 DEF ReplaceDraft, WorkInv
  <2>6. x \in Look /\ Faithful(x, drafts) /\ x.version = drafts[i].version /\ x.version # 0
    BY <1>1, <2>1, <2>3, <2>4, <2>5 DEF DraftInv, VersionMatches
  <2>7. i = Len(drafts) /\ Len(drafts) \in Nat /\ DOMAIN drafts = 1..Len(drafts)
    BY <2>1, <2>3, <2>4 DEF Active, DraftInv, LastIsActive
  <2>. HIDE DEF x
  <2>8. CASE x.draft = i
    BY <2>3, <2>4, <2>6, <2>8 DEF Faithful, x
  <2>9. CASE x.draft # i
    <3>1. x.draft \in DOMAIN drafts /\ x.draft < i
      BY <2>6, <2>7, <2>9 DEF Faithful
    <3>2. drafts[x.draft].status = "submitted"
      BY <2>1, <2>7, <3>1, <2>9, DraftFields DEF DraftInv, LastIsActive
    <3>. QED  BY <2>3, <2>4, <3>1, <3>2 DEF x
  <2>. QED  BY <2>8, <2>9
<1>2. SubmissionInv /\ [Next]_vars
        => [\A i \in DOMAIN drafts :
              LET e == drafts'[i].rows
              IN  (e # drafts[i].rows /\ sent[e].version # 0) =>
                      \/ sent[e].rows = drafts[i].rows
                      \/ sent[e].draft < i /\ drafts[sent[e].draft].status = "submitted"]_vars
  BY <1>1
<1>. QED  BY SubmissionInvariant, <1>2, PTL DEF Spec, VersionedSavesSeeWhatTheyReplace
=============================================================================
