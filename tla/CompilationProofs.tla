--------------------------- MODULE CompilationProofs ---------------------------
(***************************************************************************)
(* Proofs about compilation, reports and corrections running together, for *)
(* any records, requests, compilations and reports.                        *)
(*                                                                         *)
(* AppliedCount is a clock.  What a run or a compilation has read carries  *)
(* the time of the reading, and a reading of this very moment says what    *)
(* the records say (Timely).  A run that counts was committed at this      *)
(* moment, and one that is stale earlier or beside another run.            *)
(***************************************************************************)
EXTENDS Compilation, CorrectionsProofs, FiniteSetTheorems

Now == 0..Cardinality(Requests)

Run == [status : RunStatus, scores : [Records -> Scores], from : Now, at : Now]
View == [scores : [Records -> Scores], when : Now, outcome : Outcome]

\* Scores read at some time are the current ones unless the clock went on.
Timely(scores, when, clock, current) ==
    /\ when <= clock
    /\ when = clock => scores = current

\* What every run says of itself.
RunsInv ==
    /\ runs \in Seq(Run)
    /\ \A i \in DOMAIN runs : Timely(runs[i].scores, runs[i].from, AppliedCount, CurrentScores)
    /\ NoCorrectionSinceCommit
    /\ \A i \in Visible : runs[i].at <= AppliedCount
    /\ StaleOnlyWhenSuperseded

\* A compilation and its run: open until the commit, visible after it, and
\* nobody else's.
WorkersInv ==
    /\ phase \in [Compilers -> {"idle", "read", "inserted", "marked", "committed"}]
    /\ view \in [Compilers -> View]
    /\ mine \in [Compilers -> 0..MaxRuns]
    /\ Len(runs) <= MaxRuns
    /\ \A c \in Compilers :
          /\ phase[c] \in {"read", "inserted", "marked"} =>
                Timely(view[c].scores, view[c].when, AppliedCount, CurrentScores)
          /\ phase[c] \in {"inserted", "marked"} =>
                mine[c] \in DOMAIN runs /\ runs[mine[c]].status = "open"
          /\ phase[c] = "committed" => mine[c] \in Visible
    /\ \A c, d \in Compilers :
          /\ phase[c] \in {"inserted", "marked"} /\ phase[d] \in {"inserted", "marked"}
          /\ mine[c] = mine[d]
          => c = d

\* The rows a compilation has marked, and who it queues behind.
MarksInv ==
    /\ \A c \in Compilers : marks[c] \subseteq Visible
    /\ marks \in [Compilers -> SUBSET Nat]
    /\ ahead \in [Compilers -> SUBSET Compilers]
    /\ \A c \in Compilers : ahead[c] \subseteq {d \in Compilers \ {c} : phase[d] = "marked"}

\* The events of the runs.
NewsInv ==
    /\ announced \subseteq Visible /\ losses \in 0..MaxLosses
    /\ CompletionAnnouncedUnlessLost

\* What a report has seen, and when.
ReportInv ==
    /\ looking \in [Reporters -> BOOLEAN]
    /\ seen \in [Reporters -> [run : Visible \cup {0}, when : Now]]
    /\ \A p \in Reporters : seen[p].run # 0 => runs[seen[p].run].at = seen[p].when
    /\ report \in [Reporters -> Visible \cup {0}]

OneLock == locked = {} \/ \E q \in Requests : locked = {q}

\* The inductive invariant, on top of the one of the correction workflow.
CompilationInv ==
    /\ AuditInv /\ CInv
    /\ RunsInv /\ WorkersInv /\ MarksInv /\ NewsInv /\ ReportInv /\ OneLock

-----------------------------------------------------------------------------
(* The clock.                                                              *)

Applied == {q \in Requests : request[q].status = "applied"}

\* The clock counts requests, of which there are finitely many.
LEMMA ClockRuns ==
    /\ IsFiniteSet(Applied) /\ AppliedCount = Cardinality(Applied)
    /\ AppliedCount \in Now /\ AppliedCount \in Nat /\ Cardinality(Requests) \in Nat
<1>1. IsFiniteSet(Requests) /\ Applied \subseteq Requests
  BY CompilationAssumption DEF Applied
<1>2. IsFiniteSet(Applied) /\ Cardinality(Applied) <= Cardinality(Requests)
  BY <1>1, FS_Subset
<1>3. Cardinality(Applied) \in Nat /\ Cardinality(Requests) \in Nat
  BY <1>1, <1>2, FS_CardinalityType
<1>4. AppliedCount = Cardinality(Applied)
  BY DEF AppliedCount, Applied
<1>. QED  BY <1>2, <1>3, <1>4 DEF Now

\* It stands still while no record and no request changes.
LEMMA ClockStands ==
    ASSUME UNCHANGED <<record, request>>
    PROVE  AppliedCount' = AppliedCount /\ CurrentScores' = CurrentScores
  BY DEF AppliedCount, CurrentScores

\* A correction applied makes it go on by one and reaches every run.
LEMMA ApplyTicks ==
    ASSUME CInv, NEW q \in Requests, Apply(q)
    PROVE  AppliedCount' = AppliedCount + 1 /\ runs' = AllStale
<1>1. PICK u \in Users : ApplyApprovedCorrection(q, u)
  BY DEF Apply
<1>2. /\ request[q].status # "applied"
      /\ request' = [request EXCEPT ![q].status = "applied", ![q].applier = u]
      /\ runs' = AllStale
  BY <1>1 DEF ApplyApprovedCorrection, MayApply, ApprovedUnapplied
<1>3. /\ request'[q].status = "applied"
      /\ \A p \in Requests \ {q} : request'[p] = request[p]
  BY <1>2 DEF CInv, RowsOK, RequestType
<1>4. Applied' = Applied \cup {q} /\ q \notin Applied
  BY <1>2, <1>3 DEF Applied
<1>5. IsFiniteSet(Applied) /\ AppliedCount = Cardinality(Applied)
  BY ClockRuns
<1>6. AppliedCount' = Cardinality(Applied')
  BY DEF AppliedCount, Applied
<1>7. Cardinality(Applied \cup {q}) = Cardinality(Applied) + 1
  BY <1>4, <1>5, FS_AddElement
<1>. QED  BY <1>2, <1>4, <1>5, <1>6, <1>7

\* The other correction services leave it, the records and the runs alone.
LEMMA OthersDoNotTick ==
    ASSUME CInv, NEW q \in Requests, RequestSomething(q) \/ Decide(q) \/ Escalate(q)
    PROVE  /\ AppliedCount' = AppliedCount /\ CurrentScores' = CurrentScores
           /\ UNCHANGED <<record, runs>>
<1>1. PICK x : /\ request' = [request EXCEPT ![q] = x] /\ x.status # "applied"
               /\ request[q].status # "applied" /\ UNCHANGED <<record, runs>>
  <2>1. CASE RequestSomething(q)
    <3>1. PICK u \in Users, score \in Scores \cup {NoScore} :
             CreateCorrectionRequest(q, u, score)
      BY <2>1 DEF RequestSomething
    <3>. DEFINE x == [request[q] EXCEPT !.status = "under_hod_review", !.by = u,
                                        !.proposed = score,
                                        !.seen = record[request[q].of].version]
    <3>2. x.status = "under_hod_review"
      BY DEF CInv, RowsOK, RequestType
    <3>3. request' = [request EXCEPT ![q] = x] /\ request[q].status = "absent"
          /\ UNCHANGED <<record, runs>>
      BY <3>1 DEF CreateCorrectionRequest
    <3>. HIDE DEF x
    <3>. QED  BY <3>2, <3>3
  <2>2. CASE Decide(q)
    <3>1. PICK u \in Users, target \in RequestStatus :
             target # "applied" /\ Review(q, u, target)
      BY <2>2 DEF Decide, ReviewCorrectionAsHod, ReviewCorrectionAsAcademicHead
    <3>. DEFINE x == [request[q] EXCEPT !.status = target, !.reviewer = u]
    <3>2. x.status = target
      BY DEF CInv, RowsOK, RequestType
    <3>3. request' = [request EXCEPT ![q] = x] /\ UNCHANGED <<record, runs>>
      BY <3>1 DEF Review
    <3>4. request[q].status # "applied"
      BY <3>1 DEF Review, CanTransition, Transitions, RequestStatus, ApprovedUnapplied
    <3>. HIDE DEF x
    <3>. QED  BY <3>1, <3>2, <3>3, <3>4
  <2>3. CASE Escalate(q)
    <3>. DEFINE x == [request[q] EXCEPT !.status = "escalation_requested"]
    <3>1. x.status = "escalation_requested"
      BY DEF CInv, RowsOK, RequestType
    <3>2. request' = [request EXCEPT ![q] = x] /\ request[q].status = "under_hod_review"
          /\ UNCHANGED <<record, runs>>
      BY <2>3 DEF Escalate, EscalateCorrectionRequest
    <3>. HIDE DEF x
    <3>. QED  BY <3>1, <3>2
  <2>. QED  BY <2>1, <2>2, <2>3
<1>2. Applied' = Applied
  BY <1>1 DEF Applied, CInv, RowsOK
<1>. QED  BY <1>1, <1>2 DEF AppliedCount, Applied, CurrentScores

-----------------------------------------------------------------------------
(* The runs.                                                               *)

\* A run has the fields of a run.
LEMMA RunFields ==
    ASSUME NEW rs \in Seq(Run), NEW i \in DOMAIN rs
    PROVE  /\ rs[i] \in Run /\ i \in Nat \ {0}
           /\ rs[i].status \in RunStatus /\ rs[i].scores \in [Records -> Scores]
           /\ rs[i].from \in Now /\ rs[i].at \in Now
<1>1. rs[i] \in Run /\ i \in Nat \ {0}
  OBVIOUS
<1>. QED  BY <1>1 DEF Run

\* A run that changes its status, or its status and its time, stays a run.
LEMMA RunChanges ==
    ASSUME NEW r \in Run, NEW st \in RunStatus, NEW n \in Now
    PROVE  /\ [r EXCEPT !.status = st] =
                 [status |-> st, scores |-> r.scores, from |-> r.from, at |-> r.at]
           /\ [r EXCEPT !.status = st, !.at = n] =
                 [status |-> st, scores |-> r.scores, from |-> r.from, at |-> n]
           /\ [status |-> st, scores |-> r.scores, from |-> r.from, at |-> r.at] \in Run
           /\ [status |-> st, scores |-> r.scores, from |-> r.from, at |-> n] \in Run
<1>1. [r EXCEPT !.status = st] =
         [status |-> st, scores |-> r.scores, from |-> r.from, at |-> r.at]
  BY DEF Run
<1>2. [r EXCEPT !.status = st, !.at = n] =
         [status |-> st, scores |-> r.scores, from |-> r.from, at |-> n]
  <2>. DEFINE x == [r EXCEPT !.status = st]
  <2>1. [r EXCEPT !.status = st, !.at = n] = [x EXCEPT !.at = n]
    OBVIOUS
  <2>2. x = [status |-> st, scores |-> r.scores, from |-> r.from, at |-> r.at]
    BY <1>1
  <2>. HIDE DEF x
  <2>. QED  BY <2>1, <2>2
<1>3. r.scores \in [Records -> Scores] /\ r.from \in Now /\ r.at \in Now
  BY DEF Run
<1>4. [status |-> st, scores |-> r.scores, from |-> r.from, at |-> n] \in Run
  BY <1>3 DEF Run
<1>5. [status |-> st, scores |-> r.scores, from |-> r.from, at |-> r.at] \in Run
  BY <1>3 DEF Run
<1>. QED  BY <1>1, <1>2, <1>4, <1>5

\* A sequence given by its elements.
LEMMA RunSequence ==
    ASSUME NEW rs \in Seq(Run), NEW ss, ss = [i \in DOMAIN rs |-> ss[i]],
           \A i \in DOMAIN rs : ss[i] \in Run
    PROVE  ss \in Seq(Run) /\ DOMAIN ss = DOMAIN rs /\ Len(ss) = Len(rs)
<1>1. DOMAIN rs = 1..Len(rs) /\ Len(rs) \in Nat
  OBVIOUS
<1>2. ss \in [1..Len(rs) -> Run]
  BY <1>1
<1>. QED  BY <1>1, <1>2

\* What AllStale makes of a run.
LEMMA AllStaleFacts ==
    ASSUME runs \in Seq(Run)
    PROVE  /\ AllStale \in Seq(Run) /\ DOMAIN AllStale = DOMAIN runs
           /\ Len(AllStale) = Len(runs)
           /\ \A i \in DOMAIN runs :
                 /\ AllStale[i].scores = runs[i].scores /\ AllStale[i].from = runs[i].from
                 /\ AllStale[i].at = runs[i].at
                 /\ runs[i].status \in Committed => AllStale[i].status = "stale"
                 /\ runs[i].status \notin Committed => AllStale[i] = runs[i]
<1>1. \A i \in DOMAIN runs :
         /\ AllStale[i] \in Run
         /\ AllStale[i].scores = runs[i].scores /\ AllStale[i].from = runs[i].from
         /\ AllStale[i].at = runs[i].at
         /\ runs[i].status \in Committed => AllStale[i].status = "stale"
         /\ runs[i].status \notin Committed => AllStale[i] = runs[i]
  <2>. TAKE i \in DOMAIN runs
  <2>. DEFINE r == runs[i]
              x == [status |-> "stale", scores |-> r.scores, from |-> r.from, at |-> r.at]
  <2>1. r \in Run /\ "stale" \in RunStatus
    BY DEF RunStatus
  <2>2. [r EXCEPT !.status = "stale"] = x /\ x \in Run
    <3>. HIDE DEF r
    <3>1. r.at \in Now
      BY <2>1 DEF Run
    <3>. QED  BY <2>1, <3>1, RunChanges
  <2>3. AllStale[i] = IF r.status \in Committed THEN [r EXCEPT !.status = "stale"] ELSE r
    BY DEF AllStale
  <2>4. x.status = "stale" /\ x.scores = r.scores /\ x.from = r.from /\ x.at = r.at
    OBVIOUS
  <2>. HIDE DEF x
  <2>. QED  BY <2>1, <2>2, <2>3, <2>4
<1>2. AllStale = [i \in DOMAIN runs |-> AllStale[i]]
  BY DEF AllStale
<1>. QED  BY <1>1, <1>2, RunSequence

\* What a commit makes of the runs: the marked ones are stale, and the one the
\* compilation has inserted is there with its outcome and the time.
LEMMA CommitFacts ==
    ASSUME RunsInv, WorkersInv, MarksInv, NEW c \in Compilers, CommitRun(c)
    PROVE  /\ runs' \in Seq(Run) /\ DOMAIN runs' = DOMAIN runs /\ Len(runs') = Len(runs)
           /\ mine[c] \in DOMAIN runs \ Visible
           /\ Visible' = Visible \cup {mine[c]}
           /\ runs'[mine[c]].status \in Outcome /\ runs'[mine[c]].at = AppliedCount
           /\ \A i \in DOMAIN runs :
                 /\ runs'[i].scores = runs[i].scores /\ runs'[i].from = runs[i].from
                 /\ i # mine[c] => runs'[i].at = runs[i].at
                 /\ i \in marks[c] => runs'[i].status = "stale"
                 /\ i \notin marks[c] \cup {mine[c]} => runs'[i] = runs[i]
<1>. DEFINE m == mine[c]  o == view[c].outcome  K == marks[c]
<1>1. /\ runs' = [i \in DOMAIN runs |->
                    IF i \in K THEN [runs[i] EXCEPT !.status = "stale"]
                    ELSE IF i = m THEN [runs[i] EXCEPT !.status = o, !.at = AppliedCount]
                    ELSE runs[i]]
      /\ phase[c] = "marked"
  BY DEF CommitRun
<1>2. m \in DOMAIN runs /\ runs[m].status = "open"
  BY <1>1 DEF WorkersInv
<1>3. m \notin Visible /\ K \subseteq Visible /\ Visible \subseteq DOMAIN runs
  BY <1>2 DEF Visible, Committed, MarksInv
<1>4. o \in Outcome /\ o \in RunStatus /\ o \in Committed /\ "stale" \in RunStatus
  BY DEF WorkersInv, View, Outcome, RunStatus, Committed
<1>5. AppliedCount \in Now
  BY ClockRuns
<1>6. runs \in Seq(Run)
  BY DEF RunsInv
<1>. HIDE DEF m, o, K
<1>7. \A i \in DOMAIN runs :
         /\ runs'[i] \in Run
         /\ runs'[i].scores = runs[i].scores /\ runs'[i].from = runs[i].from
         /\ i # m => runs'[i].at = runs[i].at
         /\ i \in K => runs'[i].status = "stale"
         /\ i = m => runs'[i].status = o /\ runs'[i].at = AppliedCount
         /\ i \notin K \cup {m} => runs'[i] = runs[i]
  <2>. SUFFICES ASSUME NEW i \in DOMAIN runs, NEW r \in Run, r = runs[i],
                       NEW n \in Now, n = AppliedCount
                PROVE  /\ runs'[i] \in Run
                       /\ runs'[i].scores = r.scores /\ runs'[i].from = r.from
                       /\ i # m => runs'[i].at = r.at
                       /\ i \in K => runs'[i].status = "stale"
                       /\ i = m => runs'[i].status = o /\ runs'[i].at = n
                       /\ i \notin K \cup {m} => runs'[i] = r
    BY <1>5, <1>6
  <2>1. CASE i \in K
    <3>. DEFINE x == [status |-> "stale", scores |-> r.scores, from |-> r.from, at |-> r.at]
    <3>1. runs'[i] = [r EXCEPT !.status = "stale"]
      BY <1>1, <2>1
    <3>2. x.status = "stale" /\ x.scores = r.scores /\ x.from = r.from /\ x.at = r.at
      OBVIOUS
    <3>3. runs'[i] = x /\ x \in Run
      BY <1>4, <3>1, RunChanges
    <3>. HIDE DEF x
    <3>. QED  BY <1>3, <2>1, <3>2, <3>3
  <2>2. CASE i = m
    <3>. DEFINE x == [status |-> o, scores |-> r.scores, from |-> r.from, at |-> n]
    <3>1. runs'[i] = [r EXCEPT !.status = o, !.at = n]
      BY <1>1, <1>3, <2>2
    <3>2. x.status = o /\ x.scores = r.scores /\ x.from = r.from /\ x.at = n
      OBVIOUS
    <3>3. runs'[i] = x /\ x \in Run
      <4>1. [r EXCEPT !.status = o, !.at = n] = x
        BY <1>4, RunChanges
      <4>2. x \in Run
        BY <1>4, RunChanges
      <4>. HIDE DEF x
      <4>. QED  BY <3>1, <4>1, <4>2
    <3>. HIDE DEF x
    <3>. QED  BY <1>3, <2>2, <3>2, <3>3
  <2>3. CASE i \notin K \cup {m}
    BY <1>1, <2>3
  <2>. QED  BY <2>1, <2>2, <2>3
<1>8. runs' \in Seq(Run) /\ DOMAIN runs' = DOMAIN runs /\ Len(runs') = Len(runs)
  <2>1. runs' = [i \in DOMAIN runs |-> runs'[i]]
    BY <1>1
  <2>. QED  BY <1>6, <1>7, <2>1, RunSequence
<1>9. Visible' = Visible \cup {m}
  <2>1. Visible' = {i \in DOMAIN runs' : runs'[i].status \in Committed}
    BY DEF Visible
  <2>2. \A i \in DOMAIN runs : runs'[i].status \in Committed <=> i \in Visible \cup {m}
    <3>1. \A i \in DOMAIN runs : i \in Visible <=> runs[i].status \in Committed
      BY DEF Visible
    <3>2. "stale" \in Committed
      BY DEF Committed
    <3>. QED  BY <1>3, <1>4, <1>7, <3>1, <3>2
  <2>. QED  BY <1>2, <1>3, <1>8, <2>1, <2>2
<1>. QED  BY <1>2, <1>3, <1>4, <1>7, <1>8, <1>9 DEF m, o, K

\* The clock and the runs as they were.
LEMMA RunsFrame ==
    ASSUME RunsInv, UNCHANGED runs, AppliedCount' = AppliedCount,
           CurrentScores' = CurrentScores
    PROVE  RunsInv' /\ Visible' = Visible
<1>1. Visible' = Visible
  BY DEF Visible
<1>. QED  BY <1>1 DEF RunsInv, NoCorrectionSinceCommit, StaleOnlyWhenSuperseded

\* The inserted run is visible to nobody, and its scores are timely.
LEMMA InsertKeepsRuns ==
    ASSUME RunsInv, WorkersInv, NEW c \in Compilers, InsertRun(c)
    PROVE  /\ RunsInv' /\ Visible' = Visible
           /\ Len(runs') = Len(runs) + 1 /\ runs'[Len(runs) + 1].status = "open"
           /\ \A i \in DOMAIN runs : runs'[i] = runs[i]
           /\ DOMAIN runs' = DOMAIN runs \cup {Len(runs) + 1}
<1>. DEFINE x == [status |-> "open", scores |-> view[c].scores, from |-> view[c].when,
                  at |-> 0]
<1>1. phase[c] = "read" /\ runs' = Append(runs, x) /\ UNCHANGED <<record, request>>
  BY DEF InsertRun
<1>2. view[c] \in View /\ 0 \in Now /\ runs \in Seq(Run)
  BY ClockRuns DEF WorkersInv, Now, RunsInv
<1>3. x \in Run /\ x.status = "open" /\ x.scores = view[c].scores /\ x.from = view[c].when
  BY <1>2 DEF Run, View, RunStatus
<1>4. Timely(x.scores, x.from, AppliedCount, CurrentScores)
  BY <1>1, <1>3 DEF WorkersInv
<1>. HIDE DEF x
<1>5. /\ runs' \in Seq(Run) /\ Len(runs') = Len(runs) + 1 /\ runs'[Len(runs) + 1] = x
      /\ \A i \in DOMAIN runs : runs'[i] = runs[i]
      /\ DOMAIN runs' = DOMAIN runs \cup {Len(runs) + 1}
      /\ Len(runs) + 1 \notin DOMAIN runs
  BY <1>1, <1>2, <1>3
<1>6. Visible' = Visible
  BY <1>3, <1>5 DEF Visible, Committed
<1>7. AppliedCount' = AppliedCount /\ CurrentScores' = CurrentScores
  BY <1>1, ClockStands
<1>8. \A i \in DOMAIN runs' :
         Timely(runs'[i].scores, runs'[i].from, AppliedCount, CurrentScores)
  BY <1>4, <1>5 DEF RunsInv
<1>9. \A i \in Visible : runs'[i] = runs[i]
  BY <1>5 DEF Visible
<1>. QED  BY <1>3, <1>5, <1>6, <1>7, <1>8, <1>9
          DEF RunsInv, NoCorrectionSinceCommit, StaleOnlyWhenSuperseded

\* A commit dates the run it makes visible, and what it marks is not alone.
LEMMA CommitKeepsRuns ==
    ASSUME RunsInv, WorkersInv, MarksInv, NEW c \in Compilers, CommitRun(c)
    PROVE  RunsInv'
<1>1. AppliedCount' = AppliedCount /\ CurrentScores' = CurrentScores
  BY ClockStands DEF CommitRun
<1>2. AppliedCount \in Nat
  BY ClockRuns
<1>3. \A i \in DOMAIN runs' :
         Timely(runs'[i].scores, runs'[i].from, AppliedCount, CurrentScores)
  BY CommitFacts DEF RunsInv
<1>4. \A i \in Visible' : /\ runs'[i].status # "stale" => runs'[i].at = AppliedCount
                          /\ runs'[i].at <= AppliedCount
  <2>. TAKE i \in Visible'
  <2>1. CASE i = mine[c]
    BY <1>2, <2>1, CommitFacts
  <2>2. CASE i # mine[c]
    <3>1. i \in Visible /\ i \in DOMAIN runs
      BY <2>2, CommitFacts DEF Visible
    <3>. QED  BY <2>2, <3>1, CommitFacts DEF RunsInv, NoCorrectionSinceCommit
  <2>. QED  BY <2>1, <2>2
<1>5. \A i \in Visible' :
         runs'[i].status = "stale" => runs'[i].at # AppliedCount \/ Visible' # {i}
  <2>. TAKE i \in Visible'
  <2>1. CASE i = mine[c]
    <3>1. runs'[i].status \in Outcome
      BY <2>1, CommitFacts
    <3>. QED  BY <3>1 DEF Outcome
  <2>2. CASE i # mine[c]
    BY <2>2, CommitFacts
  <2>. QED  BY <2>1, <2>2
<1>6. runs' \in Seq(Run)
  BY CommitFacts
<1>. QED  BY <1>1, <1>3, <1>4, <1>5, <1>6
          DEF RunsInv, NoCorrectionSinceCommit, StaleOnlyWhenSuperseded

\* The application of a correction leaves no run that counts.
LEMMA ApplyKeepsRuns ==
    ASSUME RunsInv, CInv, NEW q \in Requests, Apply(q)
    PROVE  /\ RunsInv' /\ Visible' = Visible
           /\ DOMAIN runs' = DOMAIN runs /\ Len(runs') = Len(runs)
           /\ \A i \in DOMAIN runs :
                 /\ runs'[i].at = runs[i].at
                 /\ runs[i].status \notin Committed => runs'[i] = runs[i]
<1>1. AppliedCount' = AppliedCount + 1 /\ runs' = AllStale /\ AppliedCount \in Nat
  BY ApplyTicks, ClockRuns
<1>2. runs \in Seq(Run)
  BY DEF RunsInv
<1>3. /\ runs' \in Seq(Run) /\ DOMAIN runs' = DOMAIN runs /\ Len(runs') = Len(runs)
      /\ \A i \in DOMAIN runs :
            /\ runs'[i].scores = runs[i].scores /\ runs'[i].from = runs[i].from
            /\ runs'[i].at = runs[i].at
            /\ runs[i].status \in Committed => runs'[i].status = "stale"
            /\ runs[i].status \notin Committed => runs'[i] = runs[i]
  BY <1>1, <1>2, AllStaleFacts
<1>4. Visible' = Visible
  <2>1. "stale" \in Committed
    BY DEF Committed
  <2>2. \A i \in DOMAIN runs : runs'[i].status \in Committed <=> runs[i].status \in Committed
    BY <1>3, <2>1
  <2>. QED  BY <1>3, <2>2 DEF Visible
<1>5. \A i \in DOMAIN runs' : runs'[i].from < AppliedCount'
  <2>. SUFFICES ASSUME NEW i \in DOMAIN runs PROVE runs'[i].from < AppliedCount + 1
    BY <1>1, <1>3
  <2>1. runs[i].from <= AppliedCount /\ runs[i].from \in Now
    BY <1>2, RunFields DEF RunsInv, Timely
  <2>. QED  BY <1>1, <1>3, <2>1 DEF Now
<1>6. \A i \in DOMAIN runs' :
         Timely(runs'[i].scores, runs'[i].from, AppliedCount', CurrentScores')
  <2>. TAKE i \in DOMAIN runs'
  <2>1. runs'[i].from < AppliedCount' /\ runs'[i].from \in Nat /\ AppliedCount' \in Nat
    BY <1>1, <1>3, <1>5, RunFields DEF Now
  <2>. QED  BY <2>1 DEF Timely
<1>7. \A i \in Visible' : runs'[i].at < AppliedCount' /\ runs'[i].status = "stale"
  <2>. TAKE i \in Visible'
  <2>1. i \in Visible /\ i \in DOMAIN runs /\ runs[i].status \in Committed
    BY <1>4 DEF Visible
  <2>2. runs[i].at <= AppliedCount /\ runs[i].at \in Now
    BY <1>2, <2>1, RunFields DEF RunsInv
  <2>. QED  BY <1>1, <1>3, <2>1, <2>2 DEF Now
<1>8. \A i \in Visible' : runs'[i].at <= AppliedCount' /\ runs'[i].at # AppliedCount'
  <2>. TAKE i \in Visible'
  <2>1. runs'[i].at \in Nat /\ i \in DOMAIN runs'
    BY <1>3, RunFields DEF Now, Visible
  <2>. QED  BY <1>1, <1>7, <2>1
<1>9. RunsInv'
  BY <1>3, <1>6, <1>7, <1>8 DEF RunsInv, NoCorrectionSinceCommit, StaleOnlyWhenSuperseded
<1>. QED  BY <1>3, <1>4, <1>9

\* A compilation that is aborted leaves a run nobody ever saw.
LEMMA AbortKeepsRuns ==
    ASSUME RunsInv, WorkersInv, NEW c \in Compilers, AbortCompile(c)
    PROVE  /\ RunsInv' /\ Visible' = Visible
           /\ DOMAIN runs' = DOMAIN runs /\ Len(runs') = Len(runs)
           /\ \A i \in DOMAIN runs \ {mine[c]} : runs'[i] = runs[i]
<1>. DEFINE m == mine[c]  r == runs[m]
            x == [status |-> "aborted", scores |-> r.scores, from |-> r.from, at |-> r.at]
<1>1. /\ m \in DOMAIN runs /\ r.status = "open" /\ runs \in Seq(Run)
      /\ UNCHANGED <<record, request>> /\ runs' = [runs EXCEPT ![m].status = "aborted"]
  BY DEF AbortCompile, Deadlocked, WorkersInv, RunsInv
<1>2. r \in Run
  BY <1>1
<1>3. runs' = [runs EXCEPT ![m] = [r EXCEPT !.status = "aborted"]]
  BY <1>1
<1>4. x.status = "aborted" /\ x.scores = r.scores /\ x.from = r.from
  OBVIOUS
<1>5. [r EXCEPT !.status = "aborted"] = x /\ x \in Run
  <2>. HIDE DEF r
  <2>1. r.at \in Now /\ "aborted" \in RunStatus
    BY <1>2 DEF Run, RunStatus
  <2>. QED  BY <1>2, <2>1, RunChanges
<1>. HIDE DEF x
<1>6. /\ runs' \in Seq(Run) /\ DOMAIN runs' = DOMAIN runs /\ Len(runs') = Len(runs)
      /\ runs'[m] = x /\ \A i \in DOMAIN runs \ {m} : runs'[i] = runs[i]
  BY <1>1, <1>3, <1>5
<1>7. Visible' = Visible /\ m \notin Visible
  BY <1>1, <1>4, <1>6 DEF Visible, Committed
<1>8. AppliedCount' = AppliedCount /\ CurrentScores' = CurrentScores
  BY <1>1, ClockStands
<1>9. \A i \in DOMAIN runs' :
         Timely(runs'[i].scores, runs'[i].from, AppliedCount, CurrentScores)
  BY <1>1, <1>4, <1>6 DEF RunsInv
<1>10. \A i \in Visible : runs'[i] = runs[i]
  BY <1>6, <1>7 DEF Visible
<1>. QED  BY <1>6, <1>7, <1>8, <1>9, <1>10
          DEF RunsInv, NoCorrectionSinceCommit, StaleOnlyWhenSuperseded

-----------------------------------------------------------------------------
(* The compilations.                                                       *)

Phases == {"idle", "read", "inserted", "marked", "committed"}
Writing == {"inserted", "marked"}

\* One compilation moves on; the runs the others have inserted are left alone.
LEMMA OneMoves ==
    ASSUME WorkersInv, NEW c \in Compilers, NEW ph \in Phases, NEW v \in View,
           NEW m \in 0..MaxRuns,
           phase' = [phase EXCEPT ![c] = ph], view' = [view EXCEPT ![c] = v],
           mine' = [mine EXCEPT ![c] = m], Len(runs') <= MaxRuns,
           AppliedCount' = AppliedCount, CurrentScores' = CurrentScores,
           ph \in {"read", "inserted", "marked"} =>
              Timely(v.scores, v.when, AppliedCount, CurrentScores),
           ph \in Writing =>
              /\ m \in DOMAIN runs' /\ runs'[m].status = "open"
              /\ \A d \in Compilers \ {c} : phase[d] \in Writing => mine[d] # m,
           ph = "committed" => m \in Visible',
           Visible \subseteq Visible',
           \A d \in Compilers \ {c} :
              phase[d] \in Writing => /\ mine[d] \in DOMAIN runs'
                                      /\ runs'[mine[d]].status = "open"
    PROVE  WorkersInv'
<1>1. /\ phase' \in [Compilers -> Phases] /\ view' \in [Compilers -> View]
      /\ mine' \in [Compilers -> 0..MaxRuns]
      /\ phase'[c] = ph /\ view'[c] = v /\ mine'[c] = m
      /\ \A d \in Compilers \ {c} : phase'[d] = phase[d] /\ view'[d] = view[d]
                                    /\ mine'[d] = mine[d]
  BY DEF WorkersInv, Phases
<1>2. ASSUME NEW d \in Compilers
      PROVE  /\ phase'[d] \in {"read", "inserted", "marked"} =>
                   Timely(view'[d].scores, view'[d].when, AppliedCount, CurrentScores)
             /\ phase'[d] \in {"inserted", "marked"} =>
                   mine'[d] \in DOMAIN runs' /\ runs'[mine'[d]].status = "open"
             /\ phase'[d] = "committed" => mine'[d] \in Visible'
  <2>1. CASE d = c
    BY <1>1, <2>1 DEF Writing
  <2>2. CASE d # c
    BY <1>1, <2>2 DEF WorkersInv, Writing
  <2>. QED  BY <2>1, <2>2
<1>3. ASSUME NEW d \in Compilers, NEW e \in Compilers,
             phase'[d] \in Writing, phase'[e] \in Writing, mine'[d] = mine'[e]
      PROVE  d = e
  BY <1>1, <1>3 DEF WorkersInv, Writing
<1>. QED  BY <1>1, <1>2, <1>3 DEF WorkersInv, Phases, Writing

\* The steps that leave the compilations and the runs alone.
LEMMA WorkersFrame ==
    ASSUME WorkersInv, UNCHANGED <<phase, view, mine, runs>>,
           AppliedCount' = AppliedCount, CurrentScores' = CurrentScores
    PROVE  WorkersInv'
  BY DEF WorkersInv, Visible

\* Nothing read yet.
LEMMA NoViewIsView == NoView \in View /\ NothingSeen.when \in Now /\ NothingSeen.run = 0
<1>1. 0 \in Now
  BY ClockRuns DEF Now
<1>2. InitialScore \in [Records -> Scores]
  BY CorrectionAssumption
<1>. QED  BY <1>1, <1>2 DEF NoView, View, Outcome, NothingSeen

\* Every step keeps the compilations and their runs.
LEMMA CompileKeepsWorkers ==
    ASSUME CInv, RunsInv, WorkersInv, MarksInv, NEW c \in Compilers, CompileStep(c)
    PROVE  WorkersInv'
<1>. USE DEF Phases, Writing
<1>1. mine = [mine EXCEPT ![c] = mine[c]] /\ mine[c] \in 0..MaxRuns /\ view[c] \in View
      /\ view = [view EXCEPT ![c] = view[c]]
      /\ Len(runs) <= MaxRuns /\ MaxRuns \in Nat /\ 0 \in 0..MaxRuns
  BY CompilationAssumption DEF WorkersInv
<1>2. UNCHANGED <<record, request>>
  BY DEF CompileStep, ReadRecords, InsertRun, MarkOthersStale, CommitRun, AbortApply,
         AbortCompile, EmitCompilationCompleted, LoseCallback, correctionVars
<1>3. AppliedCount' = AppliedCount /\ CurrentScores' = CurrentScores
  BY <1>2, ClockStands
<1>4. \A d \in Compilers :
         phase[d] \in Writing => mine[d] \in DOMAIN runs /\ runs[mine[d]].status = "open"
  BY DEF WorkersInv
<1>5. CASE ReadRecords(c)
  <2>1. PICK o \in Outcome :
           view' = [view EXCEPT ![c] = [scores |-> CurrentScores, when |-> AppliedCount,
                                        outcome |-> o]]
    BY <1>5 DEF ReadRecords
  <2>. DEFINE v == [scores |-> CurrentScores, when |-> AppliedCount, outcome |-> o]
  <2>2. CurrentScores \in [Records -> Scores] /\ AppliedCount \in Now
    BY ClockRuns DEF CInv, RowsOK, State, CurrentScores
  <2>3. v \in View /\ Timely(v.scores, v.when, AppliedCount, CurrentScores)
    BY <2>2, ClockRuns DEF View, Timely
  <2>4. phase' = [phase EXCEPT ![c] = "read"] /\ UNCHANGED <<mine, runs>>
    BY <1>5 DEF ReadRecords, correctionVars
  <2>5. Visible' = Visible
    BY <2>4 DEF Visible
  <2>. HIDE DEF v
  <2>6. view' = [view EXCEPT ![c] = v]
    BY <2>1 DEF v
  <2>. QED  BY <1>1, <1>3, <1>4, <2>3, <2>4, <2>5, <2>6, OneMoves
<1>6. CASE InsertRun(c)
  <2>. DEFINE m == Len(runs) + 1
  <2>1. /\ phase' = [phase EXCEPT ![c] = "inserted"] /\ UNCHANGED view
        /\ mine' = [mine EXCEPT ![c] = m] /\ phase[c] = "read" /\ Len(runs) < MaxRuns
    BY <1>6 DEF InsertRun
  <2>2. /\ Visible' = Visible /\ Len(runs') = m /\ runs'[m].status = "open"
        /\ \A i \in DOMAIN runs : runs'[i] = runs[i]
        /\ DOMAIN runs' = DOMAIN runs \cup {m}
    BY <1>6, InsertKeepsRuns
  <2>3. Len(runs) \in Nat /\ m \notin DOMAIN runs
    BY DEF RunsInv
  <2>4. m \in 0..MaxRuns
    BY <1>1, <2>1, <2>3
  <2>. HIDE DEF m
  <2>5. Timely(view[c].scores, view[c].when, AppliedCount, CurrentScores)
    BY <2>1 DEF WorkersInv
  <2>6. \A d \in Compilers : phase[d] \in Writing =>
           mine[d] \in DOMAIN runs' /\ runs'[mine[d]].status = "open" /\ mine[d] # m
    BY <1>4, <2>2, <2>3
  <2>7. Len(runs') <= MaxRuns
    BY <2>2, <2>4
  <2>8. m \in DOMAIN runs'
    BY <2>2
  <2>9. view' = [view EXCEPT ![c] = view[c]] /\ Visible \subseteq Visible'
    BY <1>1, <2>1, <2>2
  <2>10. \A d \in Compilers \ {c} : phase[d] \in Writing => mine[d] # m
    BY <2>6
  <2>11. \A d \in Compilers \ {c} : phase[d] \in Writing =>
            mine[d] \in DOMAIN runs' /\ runs'[mine[d]].status = "open"
    BY <2>6
  <2>12. runs'[m].status = "open" /\ phase' = [phase EXCEPT ![c] = "inserted"]
         /\ mine' = [mine EXCEPT ![c] = m]
    BY <2>1, <2>2
  <2>. HIDE DEF Writing
  <2>. QED
    BY <1>1, <1>3, <2>4, <2>5, <2>7, <2>8, <2>9, <2>10, <2>11, <2>12, OneMoves
<1>7. CASE MarkOthersStale(c)
  <2>1. phase' = [phase EXCEPT ![c] = "marked"] /\ UNCHANGED <<view, mine, runs>>
        /\ phase[c] = "inserted"
    BY <1>7 DEF MarkOthersStale, correctionVars
  <2>2. Timely(view[c].scores, view[c].when, AppliedCount, CurrentScores)
    BY <2>1 DEF WorkersInv
  <2>3. \A d \in Compilers \ {c} : phase[d] \in Writing => mine[d] # mine[c]
    BY <2>1 DEF WorkersInv
  <2>4. Visible' = Visible
    BY <2>1 DEF Visible
  <2>. QED  BY <1>1, <1>3, <1>4, <2>1, <2>2, <2>3, <2>4, OneMoves
<1>8. CASE CommitRun(c)
  <2>1. /\ phase' = [phase EXCEPT ![c] = "committed"] /\ UNCHANGED mine
        /\ view' = [view EXCEPT ![c] = NoView] /\ phase[c] = "marked"
    BY <1>8 DEF CommitRun, Release
  <2>2. Visible \subseteq Visible' /\ mine[c] \in Visible' /\ Len(runs') <= MaxRuns
    BY <1>1, <1>8, CommitFacts
  <2>3. \A d \in Compilers \ {c} : phase[d] \in Writing =>
           mine[d] \in DOMAIN runs' /\ runs'[mine[d]].status = "open"
    <3>. SUFFICES ASSUME NEW d \in Compilers \ {c}, phase[d] \in Writing
                  PROVE  mine[d] \in DOMAIN runs' /\ runs'[mine[d]].status = "open"
      OBVIOUS
    <3>1. mine[d] # mine[c] /\ mine[d] \in DOMAIN runs /\ runs[mine[d]].status = "open"
      BY <2>1 DEF WorkersInv
    <3>2. mine[d] \notin marks[c]
      BY <3>1 DEF MarksInv, Visible, Committed
    <3>. QED  BY <1>8, <3>1, <3>2, CommitFacts
  <2>. QED  BY <1>1, <1>3, <2>1, <2>2, <2>3, NoViewIsView, OneMoves
<1>9. CASE AbortCompile(c)
  <2>1. /\ phase' = [phase EXCEPT ![c] = "idle"] /\ mine' = [mine EXCEPT ![c] = 0]
        /\ view' = [view EXCEPT ![c] = NoView] /\ phase[c] = "marked"
    BY <1>9 DEF AbortCompile, Release, Deadlocked
  <2>2. Visible' = Visible /\ Len(runs') <= MaxRuns
    BY <1>1, <1>9, AbortKeepsRuns
  <2>3. \A d \in Compilers \ {c} : phase[d] \in Writing =>
           mine[d] \in DOMAIN runs' /\ runs'[mine[d]].status = "open"
    <3>. SUFFICES ASSUME NEW d \in Compilers \ {c}, phase[d] \in Writing
                  PROVE  mine[d] \in DOMAIN runs' /\ runs'[mine[d]].status = "open"
      OBVIOUS
    <3>1. mine[d] # mine[c] /\ mine[d] \in DOMAIN runs /\ runs[mine[d]].status = "open"
      BY <2>1 DEF WorkersInv
    <3>. QED  BY <1>9, <3>1, AbortKeepsRuns
  <2>. QED  BY <1>1, <1>3, <2>1, <2>2, <2>3, NoViewIsView, OneMoves
<1>10. CASE EmitCompilationCompleted(c) \/ LoseCallback(c)
  <2>1. /\ phase' = [phase EXCEPT ![c] = "idle"] /\ mine' = [mine EXCEPT ![c] = 0]
        /\ UNCHANGED <<view, runs>>
    BY <1>10 DEF EmitCompilationCompleted, LoseCallback, EndCompile, correctionVars
  <2>2. Visible' = Visible
    BY <2>1 DEF Visible
  <2>. QED  BY <1>1, <1>3, <1>4, <2>1, <2>2, OneMoves
<1>11. CASE AbortApply(c)
  BY <1>3, <1>11, WorkersFrame DEF AbortApply, compileVars, correctionVars
<1>. QED  BY <1>5, <1>6, <1>7, <1>8, <1>9, <1>10, <1>11 DEF CompileStep

\* What is read is out of date once a correction is applied, and no run that
\* is being written is touched.
LEMMA ApplyKeepsWorkers ==
    ASSUME CInv, RunsInv, WorkersInv, NEW q \in Requests, Apply(q),
           UNCHANGED <<phase, view, mine>>
    PROVE  WorkersInv'
<1>1. AppliedCount' = AppliedCount + 1 /\ AppliedCount \in Nat
  BY ApplyTicks, ClockRuns
<1>2. /\ Visible' = Visible /\ DOMAIN runs' = DOMAIN runs /\ Len(runs') = Len(runs)
      /\ \A i \in DOMAIN runs : runs[i].status \notin Committed => runs'[i] = runs[i]
  BY ApplyKeepsRuns
<1>3. ASSUME NEW c \in Compilers, phase[c] \in {"read", "inserted", "marked"}
      PROVE  Timely(view[c].scores, view[c].when, AppliedCount', CurrentScores')
  <2>1. view[c] \in View /\ view[c].when <= AppliedCount
    BY <1>3 DEF WorkersInv, Timely
  <2>2. view[c].when \in Nat
    BY <2>1 DEF View, Now
  <2>. QED  BY <1>1, <2>1, <2>2 DEF Timely
<1>4. ASSUME NEW c \in Compilers, phase[c] \in {"inserted", "marked"}
      PROVE  mine[c] \in DOMAIN runs' /\ runs'[mine[c]].status = "open"
  <2>1. mine[c] \in DOMAIN runs /\ runs[mine[c]].status = "open"
    BY <1>4 DEF WorkersInv
  <2>. QED  BY <1>2, <2>1 DEF Committed
<1>. QED  BY <1>2, <1>3, <1>4 DEF WorkersInv

-----------------------------------------------------------------------------
(* Marks, events, reports.                                                 *)

\* What a step may do to the rest: runs stay visible and keep their dates.
LEMMA VisibleStays ==
    ASSUME CompilationInv, [Next]_vars
    PROVE  Visible \subseteq Visible' /\ \A i \in Visible : runs'[i].at = runs[i].at
<1>0. CInv /\ RunsInv /\ WorkersInv /\ MarksInv
  BY DEF CompilationInv
<1>1. ASSUME NEW c \in Compilers, InsertRun(c)
      PROVE  Visible \subseteq Visible' /\ \A i \in Visible : runs'[i].at = runs[i].at
  BY <1>0, <1>1, InsertKeepsRuns DEF Visible
<1>2. ASSUME NEW c \in Compilers, CommitRun(c)
      PROVE  Visible \subseteq Visible' /\ \A i \in Visible : runs'[i].at = runs[i].at
  <2>1. mine[c] \notin Visible /\ Visible \subseteq DOMAIN runs
    BY <1>0, <1>2, CommitFacts DEF Visible
  <2>. QED  BY <1>0, <1>2, <2>1, CommitFacts
<1>3. ASSUME NEW c \in Compilers, AbortCompile(c)
      PROVE  Visible \subseteq Visible' /\ \A i \in Visible : runs'[i].at = runs[i].at
  <2>1. mine[c] \notin Visible /\ Visible \subseteq DOMAIN runs
    BY <1>0, <1>3 DEF AbortCompile, Deadlocked, WorkersInv, Visible, Committed
  <2>. QED  BY <1>0, <1>3, <2>1, AbortKeepsRuns
<1>4. ASSUME NEW q \in Requests, FinishApply(q)
      PROVE  Visible \subseteq Visible' /\ \A i \in Visible : runs'[i].at = runs[i].at
  <2>1. Apply(q) /\ Visible \subseteq DOMAIN runs
    BY <1>4 DEF FinishApply, Visible
  <2>. QED  BY <1>0, <2>1, ApplyKeepsRuns
<1>5. ASSUME NEW q \in Requests, OtherCorrection(q)
      PROVE  UNCHANGED runs
  BY <1>0, <1>5, OthersDoNotTick DEF OtherCorrection
<1>6. CASE UNCHANGED runs
  BY <1>6 DEF Visible
<1>. QED  BY <1>1, <1>2, <1>3, <1>4, <1>5, <1>6
          DEF Next, CompileStep, vars, ReadRecords, MarkOthersStale, AbortApply,
              EmitCompilationCompleted, LoseCallback, BeginApply, LookUpRun,
              CreateReportSnapshotRun, correctionVars

\* Marks and queues, when nobody lets go of them.
LEMMA MarksFrame ==
    ASSUME MarksInv, UNCHANGED <<marks, ahead>>, Visible \subseteq Visible',
           \A c \in Compilers : phase[c] = "marked" => phase'[c] = "marked"
    PROVE  MarksInv'
  BY DEF MarksInv

\* Whoever lets go leaves every queue.
LEMMA ReleaseKeepsMarks ==
    ASSUME MarksInv, WorkersInv, NEW c \in Compilers, NEW next, Release(c, next),
           Visible \subseteq Visible'
    PROVE  MarksInv'
<1>1. /\ \A d \in Compilers \ {c} : phase'[d] = phase[d] /\ marks'[d] = marks[d]
      /\ marks'[c] = {} /\ marks' \in [Compilers -> SUBSET Nat]
  BY DEF Release, WorkersInv, MarksInv
<1>2. ahead' = [d \in Compilers |-> IF d = c THEN {} ELSE ahead[d] \ {c}]
  BY DEF Release
<1>3. ahead' \in [Compilers -> SUBSET Compilers]
  BY <1>2 DEF MarksInv
<1>4. \A d \in Compilers : marks'[d] \subseteq Visible'
  BY <1>1 DEF MarksInv
<1>5. \A d \in Compilers : ahead'[d] \subseteq {e \in Compilers \ {d} : phase'[e] = "marked"}
  BY <1>1, <1>2 DEF MarksInv
<1>. QED  BY <1>1, <1>3, <1>4, <1>5 DEF MarksInv

\* Nobody marks a run that is open or queues behind who holds nothing.
LEMMA MarksStep == CompilationInv /\ [Next]_vars => MarksInv'
<1>. SUFFICES ASSUME CompilationInv, [Next]_vars PROVE MarksInv'
  OBVIOUS
<1>0. MarksInv /\ WorkersInv /\ Visible \subseteq Visible'
  BY VisibleStays DEF CompilationInv
<1>1. ASSUME NEW c \in Compilers, CommitRun(c) \/ AbortCompile(c) PROVE MarksInv'
  BY <1>0, <1>1, ReleaseKeepsMarks DEF CommitRun, AbortCompile
<1>2. ASSUME NEW c \in Compilers, MarkOthersStale(c) PROVE MarksInv'
  <2>1. /\ marks' = [marks EXCEPT ![c] = Visible \ {mine[c]}]
        /\ ahead' = [ahead EXCEPT ![c] = {d \in Compilers : phase[d] = "marked"}]
        /\ phase' = [phase EXCEPT ![c] = "marked"] /\ phase[c] = "inserted"
    BY <1>2 DEF MarkOthersStale, Superseded
  <2>2. Visible \in SUBSET Nat
    BY DEF Visible, CompilationInv, RunsInv
  <2>3. marks' \in [Compilers -> SUBSET Nat] /\ ahead' \in [Compilers -> SUBSET Compilers]
    BY <1>0, <2>1, <2>2 DEF MarksInv
  <2>4. \A d \in Compilers : marks'[d] \subseteq Visible'
    BY <1>0, <2>1 DEF MarksInv
  <2>5. \A d \in Compilers : phase[d] = "marked" => d # c /\ phase'[d] = "marked"
    BY <1>0, <2>1 DEF WorkersInv
  <2>6. ASSUME NEW d \in Compilers
        PROVE  ahead'[d] \subseteq {e \in Compilers \ {d} : phase'[e] = "marked"}
    <3>1. CASE d = c
      BY <1>0, <2>1, <2>5, <3>1 DEF MarksInv
    <3>2. CASE d # c
      BY <1>0, <2>1, <2>5, <3>2 DEF MarksInv
    <3>. QED  BY <3>1, <3>2
  <2>. QED  BY <2>3, <2>4, <2>6 DEF MarksInv
<1>3. ASSUME NEW c \in Compilers,
             \/ ReadRecords(c) \/ InsertRun(c) \/ AbortApply(c)
             \/ EmitCompilationCompleted(c) \/ LoseCallback(c)
      PROVE  MarksInv'
  <2>1. UNCHANGED <<marks, ahead>>
    BY <1>3 DEF ReadRecords, InsertRun, AbortApply, EmitCompilationCompleted, LoseCallback,
                EndCompile, compileVars
  <2>2. \A d \in Compilers : phase[d] = "marked" => phase'[d] = "marked"
    BY <1>0, <1>3 DEF ReadRecords, InsertRun, AbortApply, EmitCompilationCompleted,
                      LoseCallback, EndCompile, compileVars, WorkersInv
  <2>. QED  BY <1>0, <2>1, <2>2, MarksFrame
<1>4. CASE UNCHANGED <<marks, ahead, phase>>
  BY <1>0, <1>4, MarksFrame
<1>. QED  BY <1>1, <1>2, <1>3, <1>4
          DEF Next, CompileStep, vars, BeginApply, FinishApply, OtherCorrection, LookUpRun,
              CreateReportSnapshotRun, compileVars

\* The rest of the news: as they were, with every callback still to come.
LEMMA NewsFrame ==
    ASSUME NewsInv, UNCHANGED news, Visible \subseteq Visible',
           \A c \in Compilers : phase[c] = "committed" =>
              phase'[c] = "committed" /\ mine'[c] = mine[c],
           \A i \in Visible' \ Visible :
              \E c \in Compilers : phase'[c] = "committed" /\ mine'[c] = i
    PROVE  NewsInv'
<1>1. announced' = announced /\ losses' = losses
  BY DEF news
<1>2. CompletionAnnouncedUnlessLost'
  BY <1>1 DEF NewsInv, CompletionAnnouncedUnlessLost
<1>. QED  BY <1>1, <1>2 DEF NewsInv

\* A committed run is announced, about to be, or its callback was lost.
LEMMA NewsStep == CompilationInv /\ [Next]_vars => NewsInv'
<1>. SUFFICES ASSUME CompilationInv, [Next]_vars PROVE NewsInv'
  OBVIOUS
<1>0. NewsInv /\ WorkersInv /\ RunsInv /\ MarksInv /\ CInv /\ Visible \subseteq Visible'
  BY VisibleStays DEF CompilationInv
<1>1. ASSUME NEW c \in Compilers, EmitCompilationCompleted(c) PROVE NewsInv'
  <2>1. /\ announced' = announced \cup {mine[c]} /\ losses' = losses /\ UNCHANGED runs
        /\ phase' = [phase EXCEPT ![c] = "idle"] /\ mine' = [mine EXCEPT ![c] = 0]
        /\ phase[c] = "committed"
    BY <1>1 DEF EmitCompilationCompleted, Announces, EndCompile, correctionVars
  <2>2. Visible' = Visible /\ mine[c] \in Visible
    BY <1>0, <2>1 DEF Visible, WorkersInv
  <2>3. \A d \in Compilers \ {c} : phase'[d] = phase[d] /\ mine'[d] = mine[d]
    BY <1>0, <2>1 DEF WorkersInv
  <2>4. CompletionAnnouncedUnlessLost'
    <3>. SUFFICES ASSUME NEW i \in Visible
                  PROVE  \/ i \in announced'
                         \/ \E d \in Compilers : phase'[d] = "committed" /\ mine'[d] = i
                         \/ losses' > 0
      BY <2>2 DEF CompletionAnnouncedUnlessLost
    <3>1. CASE i = mine[c]
      BY <2>1, <3>1
    <3>2. CASE i # mine[c]
      BY <1>0, <2>1, <2>3, <3>2 DEF NewsInv, CompletionAnnouncedUnlessLost
    <3>. QED  BY <3>1, <3>2
  <2>. QED  BY <1>0, <2>1, <2>2, <2>4 DEF NewsInv
<1>2. ASSUME NEW c \in Compilers, LoseCallback(c) PROVE NewsInv'
  <2>1. losses' = losses + 1 /\ losses < MaxLosses /\ UNCHANGED <<announced, runs>>
    BY <1>2 DEF LoseCallback, correctionVars
  <2>2. losses' \in 0..MaxLosses /\ losses' > 0
    BY <1>0, <2>1, CompilationAssumption DEF NewsInv
  <2>3. Visible' = Visible
    BY <2>1 DEF Visible
  <2>. QED  BY <1>0, <2>1, <2>2, <2>3 DEF NewsInv, CompletionAnnouncedUnlessLost
<1>3. ASSUME NEW c \in Compilers, CommitRun(c) PROVE NewsInv'
  <2>1. /\ phase' = [phase EXCEPT ![c] = "committed"] /\ UNCHANGED <<mine, news>>
        /\ phase[c] = "marked"
    BY <1>3 DEF CommitRun, Release
  <2>2. Visible' = Visible \cup {mine[c]}
    BY <1>0, <1>3, CommitFacts
  <2>3. phase'[c] = "committed" /\ \A d \in Compilers \ {c} : phase'[d] = phase[d]
    BY <1>0, <2>1 DEF WorkersInv
  <2>. QED  BY <1>0, <2>1, <2>2, <2>3, NewsFrame
<1>4. ASSUME NEW c \in Compilers,
             ReadRecords(c) \/ InsertRun(c) \/ MarkOthersStale(c) \/ AbortCompile(c)
      PROVE  NewsInv'
  <2>1. UNCHANGED news /\ phase[c] # "committed"
    BY <1>4 DEF ReadRecords, InsertRun, MarkOthersStale, AbortCompile, Deadlocked
  <2>2. \A d \in Compilers : phase[d] = "committed" =>
           phase'[d] = "committed" /\ mine'[d] = mine[d]
    BY <1>0, <1>4, <2>1 DEF ReadRecords, InsertRun, MarkOthersStale, AbortCompile, Release,
                      WorkersInv
  <2>3. Visible' = Visible
    <3>1. CASE ReadRecords(c) \/ MarkOthersStale(c)
      BY <3>1 DEF ReadRecords, MarkOthersStale, correctionVars, Visible
    <3>2. CASE InsertRun(c)
      BY <1>0, <3>2, InsertKeepsRuns
    <3>3. CASE AbortCompile(c)
      BY <1>0, <3>3, AbortKeepsRuns
    <3>. QED  BY <1>4, <3>1, <3>2, <3>3
  <2>. QED  BY <1>0, <2>1, <2>2, <2>3, NewsFrame
<1>5. ASSUME UNCHANGED <<phase, mine, news>>, Visible' = Visible PROVE NewsInv'
  BY <1>0, <1>5, NewsFrame
<1>6. ASSUME NEW q \in Requests, FinishApply(q) PROVE NewsInv'
  <2>1. Apply(q) /\ UNCHANGED <<phase, mine, news>>
    BY <1>6 DEF FinishApply, compileVars
  <2>2. Visible' = Visible
    BY <1>0, <2>1, ApplyKeepsRuns
  <2>. QED  BY <1>5, <2>1, <2>2
<1>7. ASSUME NEW q \in Requests, OtherCorrection(q) PROVE NewsInv'
  <2>1. UNCHANGED <<phase, mine, news, runs>>
    BY <1>0, <1>7, OthersDoNotTick DEF OtherCorrection, compileVars
  <2>. QED  BY <1>5, <2>1 DEF Visible
<1>8. CASE UNCHANGED <<phase, mine, news, runs>>
  BY <1>5, <1>8 DEF Visible
<1>. QED  BY <1>1, <1>2, <1>3, <1>4, <1>6, <1>7, <1>8
          DEF Next, CompileStep, vars, AbortApply, BeginApply, LookUpRun,
              CreateReportSnapshotRun, compileVars, correctionVars, news

\* A report that has looked a run up remembers when it was committed.
LEMMA ReportStep == CompilationInv /\ [Next]_vars => ReportInv'
<1>. SUFFICES ASSUME CompilationInv, [Next]_vars PROVE ReportInv'
  OBVIOUS
<1>0. /\ ReportInv /\ RunsInv /\ Visible \subseteq Visible'
      /\ \A i \in Visible : runs'[i].at = runs[i].at
  BY VisibleStays DEF CompilationInv
<1>1. ASSUME NEW p \in Reporters, LookUpRun(p) PROVE ReportInv'
  <2>1. PICK look \in Looks : seen' = [seen EXCEPT ![p] = look]
    BY <1>1 DEF LookUpRun
  <2>2. /\ looking' = [looking EXCEPT ![p] = TRUE] /\ UNCHANGED <<report, runs>>
        /\ Visible' = Visible
    BY <1>1 DEF LookUpRun, correctionVars, Visible
  <2>3. /\ look \in [run : Visible \cup {0}, when : Now]
        /\ look.run # 0 => runs[look.run].at = look.when
    <3>1. CASE LatestIsComplete = {}
      <4>1. look = NothingSeen
        BY <2>1, <3>1 DEF Looks
      <4>. QED  BY <4>1, NoViewIsView DEF NothingSeen
    <3>2. CASE LatestIsComplete # {}
      <4>1. PICK i \in LatestIsComplete : look = [run |-> i, when |-> AppliedCount]
        BY <2>1, <3>2 DEF Looks
      <4>2. i \in Visible /\ runs[i].status # "stale"
        BY DEF LatestIsComplete, LatestRun
      <4>3. runs[i].at = AppliedCount /\ AppliedCount \in Now
        BY <1>0, <4>2, ClockRuns DEF RunsInv, NoCorrectionSinceCommit
      <4>. QED  BY <4>1, <4>2, <4>3
    <3>. QED  BY <3>1, <3>2
  <2>4. \A o \in Reporters : seen'[o] = IF o = p THEN look ELSE seen[o]
    BY <1>0, <2>1 DEF ReportInv
  <2>5. seen' \in [Reporters -> [run : Visible \cup {0}, when : Now]]
    BY <1>0, <2>1, <2>3 DEF ReportInv
  <2>6. \A o \in Reporters : seen'[o].run # 0 => runs[seen'[o].run].at = seen'[o].when
    BY <1>0, <2>3, <2>4 DEF ReportInv
  <2>. QED  BY <1>0, <2>2, <2>5, <2>6 DEF ReportInv
<1>2. ASSUME NEW p \in Reporters, CreateReportSnapshotRun(p) PROVE ReportInv'
  <2>1. /\ report' = [report EXCEPT ![p] = IF Eligible(p) THEN seen[p].run ELSE 0]
        /\ looking' = [looking EXCEPT ![p] = FALSE]
        /\ seen' = [seen EXCEPT ![p] = NothingSeen] /\ UNCHANGED runs /\ Visible' = Visible
    BY <1>2 DEF CreateReportSnapshotRun, correctionVars, Visible
  <2>2. seen[p].run \in Visible \cup {0}
    BY <1>0 DEF ReportInv
  <2>3. report' \in [Reporters -> Visible \cup {0}]
    BY <1>0, <2>1, <2>2 DEF ReportInv
  <2>4. NothingSeen \in [run : Visible \cup {0}, when : Now] /\ NothingSeen.run = 0
    BY NoViewIsView DEF NothingSeen
  <2>5. seen' \in [Reporters -> [run : Visible \cup {0}, when : Now]]
    BY <1>0, <2>1, <2>4 DEF ReportInv
  <2>6. \A o \in Reporters : seen'[o].run # 0 => seen'[o] = seen[o]
    BY <1>0, <2>1, <2>4 DEF ReportInv
  <2>7. \A o \in Reporters : seen'[o].run # 0 => runs[seen'[o].run].at = seen'[o].when
    BY <1>0, <2>6 DEF ReportInv
  <2>. QED  BY <1>0, <2>1, <2>3, <2>5, <2>7 DEF ReportInv
<1>3. CASE UNCHANGED reportVars
  <2>1. looking' = looking /\ seen' = seen /\ report' = report
    BY <1>3 DEF reportVars
  <2>2. \A p \in Reporters : seen[p].run \in Visible \cup {0}
    BY <1>0 DEF ReportInv
  <2>3. \A p \in Reporters : seen[p] \in [run : Visible' \cup {0}, when : Now]
    <3>. TAKE p \in Reporters
    <3>1. seen[p] \in [run : Visible \cup {0}, when : Now]
      BY <1>0 DEF ReportInv
    <3>. QED  BY <1>0, <3>1
  <2>4. seen' \in [Reporters -> [run : Visible' \cup {0}, when : Now]]
    BY <1>0, <2>1, <2>3 DEF ReportInv
  <2>5. report' \in [Reporters -> Visible' \cup {0}]
    BY <1>0, <2>1 DEF ReportInv
  <2>6. \A p \in Reporters : seen'[p].run # 0 => runs'[seen'[p].run].at = seen'[p].when
    BY <1>0, <2>1, <2>2 DEF ReportInv
  <2>. QED  BY <1>0, <2>1, <2>4, <2>5, <2>6 DEF ReportInv
<1>. QED  BY <1>1, <1>2, <1>3
          DEF Next, CompileStep, vars, ReadRecords, InsertRun, MarkOthersStale, CommitRun,
              AbortApply, AbortCompile, EmitCompilationCompleted, LoseCallback, BeginApply,
              FinishApply, OtherCorrection, reportVars

\* One correction at a time holds the assessment.
LEMMA LockStep == CompilationInv /\ [Next]_vars => OneLock'
  BY DEF CompilationInv, OneLock, Next, CompileStep, vars, ReadRecords, InsertRun,
         MarkOthersStale, CommitRun, AbortApply, AbortCompile, EmitCompilationCompleted,
         LoseCallback, BeginApply, FinishApply, OtherCorrection, LookUpRun,
         CreateReportSnapshotRun

-----------------------------------------------------------------------------
(* All together.                                                           *)

\* Before the first compilation there are no runs.
LEMMA CompilationStarts == Init => CompilationInv
<1>. SUFFICES ASSUME Init PROVE CompilationInv
  OBVIOUS
<1>1. CorrectionInit /\ AuditInv /\ CInv
  BY CInit, AuditInit DEF Init
<1>2. runs = <<>> /\ DOMAIN runs = {} /\ Len(runs) = 0 /\ runs \in Seq(Run)
  BY <1>1 DEF CorrectionInit
<1>3. Visible = {}
  BY <1>2 DEF Visible
<1>4. RunsInv
  BY <1>2, <1>3 DEF RunsInv, NoCorrectionSinceCommit, StaleOnlyWhenSuperseded
<1>5. WorkersInv
  BY <1>2, NoViewIsView, CompilationAssumption DEF Init, WorkersInv
<1>6. MarksInv
  BY DEF Init, MarksInv
<1>7. NewsInv
  BY <1>3, CompilationAssumption DEF Init, NewsInv, CompletionAnnouncedUnlessLost
<1>8. ReportInv
  <2>1. NothingSeen \in [run : Visible \cup {0}, when : Now]
    BY NoViewIsView DEF NothingSeen
  <2>. QED  BY <2>1, NoViewIsView DEF Init, ReportInv
<1>9. OneLock
  BY DEF Init, OneLock
<1>. QED  BY <1>1, <1>4, <1>5, <1>6, <1>7, <1>8, <1>9 DEF CompilationInv

\* The correction workflow's own invariant does not mind the compilations.
LEMMA WorkflowStep == CompilationInv /\ [Next]_vars => AuditInv' /\ CInv'
<1>. SUFFICES ASSUME CompilationInv, [Next]_vars PROVE AuditInv' /\ CInv'
  OBVIOUS
<1>0. AuditInv /\ CInv
  BY DEF CompilationInv
<1>1. ASSUME NEW q \in Requests, FinishApply(q) \/ OtherCorrection(q) PROVE AuditInv' /\ CInv'
  <2>1. CorrectionNext
    BY <1>1 DEF FinishApply, OtherCorrection, CorrectionNext, CorrectionStep
  <2>. QED  BY <1>0, <2>1, AuditStep, CStep
<1>2. CASE UNCHANGED <<record, request, audit, around>>
  <2>1. AuditInv'
    BY <1>0, <1>2 DEF AuditInv, AuditChain, Trail, EscalationDecides, EscalationOnRecord,
                      Escalated
  <2>2. CInv'
    BY <1>0, <1>2 DEF around, CInv, RowsOK, FourEyes, AroundOK
  <2>. QED  BY <2>1, <2>2
<1>. QED  BY <1>1, <1>2
          DEF Next, CompileStep, vars, ReadRecords, InsertRun, MarkOthersStale, CommitRun,
              AbortApply, AbortCompile, EmitCompilationCompleted, LoseCallback, BeginApply,
              LookUpRun, CreateReportSnapshotRun, correctionVars, around

\* Every step keeps what the runs and the compilations say.
LEMMA RunsStep == CompilationInv /\ [Next]_vars => RunsInv' /\ WorkersInv'
<1>. SUFFICES ASSUME CompilationInv, [Next]_vars PROVE RunsInv' /\ WorkersInv'
  OBVIOUS
<1>0. CInv /\ RunsInv /\ WorkersInv /\ MarksInv
  BY DEF CompilationInv
<1>1. ASSUME NEW c \in Compilers, CompileStep(c) PROVE RunsInv' /\ WorkersInv'
  <2>1. CASE InsertRun(c) \/ CommitRun(c) \/ AbortCompile(c)
    BY <1>0, <1>1, <2>1, InsertKeepsRuns, CommitKeepsRuns, AbortKeepsRuns,
       CompileKeepsWorkers
  <2>2. CASE ~(InsertRun(c) \/ CommitRun(c) \/ AbortCompile(c))
    <3>1. UNCHANGED <<record, request, runs>>
      BY <1>1, <2>2 DEF CompileStep, ReadRecords, MarkOthersStale, AbortApply,
                        EmitCompilationCompleted, LoseCallback, correctionVars
    <3>. QED  BY <1>0, <1>1, <3>1, ClockStands, RunsFrame, CompileKeepsWorkers
  <2>. QED  BY <2>1, <2>2
<1>2. ASSUME NEW q \in Requests, FinishApply(q) PROVE RunsInv' /\ WorkersInv'
  <2>1. Apply(q) /\ UNCHANGED <<phase, view, mine>>
    BY <1>2 DEF FinishApply, compileVars
  <2>. QED  BY <1>0, <2>1, ApplyKeepsRuns, ApplyKeepsWorkers
<1>3. ASSUME NEW q \in Requests, OtherCorrection(q) PROVE RunsInv' /\ WorkersInv'
  <2>1. /\ AppliedCount' = AppliedCount /\ CurrentScores' = CurrentScores
        /\ UNCHANGED <<phase, view, mine, runs>>
    BY <1>0, <1>3, OthersDoNotTick DEF OtherCorrection, compileVars
  <2>. QED  BY <1>0, <2>1, RunsFrame, WorkersFrame
<1>4. CASE UNCHANGED <<record, request, runs, phase, view, mine>>
  BY <1>0, <1>4, ClockStands, RunsFrame, WorkersFrame
<1>. QED  BY <1>1, <1>2, <1>3, <1>4
          DEF Next, vars, BeginApply, LookUpRun, CreateReportSnapshotRun, compileVars,
              correctionVars

\* CompilationInv is an invariant of every behaviour.
LEMMA CompilationInvariant == Spec => []CompilationInv
<1>1. CompilationInv /\ [Next]_vars => CompilationInv'
  BY WorkflowStep, RunsStep, MarksStep, NewsStep, ReportStep, LockStep DEF CompilationInv
<1>. QED  BY CompilationStarts, <1>1, PTL DEF Spec

\* A run is fresh when it says so and stale only when something superseded it,
\* however many compilations and corrections overlap (compile_assessment,
\* apply_approved_correction).
THEOREM FreshnessIsTrueAlways == Spec => []FreshnessIsTrue
<1>1. CompilationInv => FreshnessIsTrue
  <2>. SUFFICES ASSUME CompilationInv PROVE FreshnessIsTrue
    OBVIOUS
  <2>1. /\ CInv /\ AuditInv /\ RunsInv /\ WorkersInv /\ MarksInv /\ NewsInv /\ ReportInv
        /\ OneLock
    BY DEF CompilationInv
  <2>3. CorrectionTypeOK
    BY <2>1, AuditSuffices DEF AuditTellsTheStory
  <2>4. \A i \in DOMAIN runs : /\ runs[i].status \in RunStatus
                               /\ runs[i].scores \in [Records -> Scores]
                               /\ runs[i].from \in Now /\ runs[i].at \in Now
    BY <2>1, RunFields DEF RunsInv
  <2>5. locked \subseteq Requests /\ Cardinality(locked) <= 1
    <3>1. CASE locked = {}
      BY <3>1, FS_EmptySet
    <3>2. ASSUME NEW q \in Requests, locked = {q} PROVE Cardinality(locked) <= 1
      <4>1. Cardinality({q}) = 1
        BY FS_Singleton
      <4>. QED  BY <3>2, <4>1
    <3>. QED  BY <2>1, <3>1, <3>2 DEF OneLock
  <2>6. CompilationTypeOK
    BY <2>1, <2>3, <2>4, <2>5
       DEF CompilationTypeOK, WorkersInv, MarksInv, NewsInv, ReportInv, Now
  <2>. QED  BY <2>1, <2>6 DEF FreshnessIsTrue, RunsInv
<1>. QED  BY CompilationInvariant, <1>1, PTL

\* Only a correction applied during a compilation's own transaction can be
\* missing from a run that counts as complete.
THEOREM OnlyOverlapHides == Spec => []OnlyOverlapHidesACorrection
<1>1. CompilationInv => OnlyOverlapHidesACorrection
  <2>. SUFFICES ASSUME CompilationInv, NEW i \in Visible, runs[i].status = "complete",
                       runs[i].from = runs[i].at
                PROVE  runs[i].scores = CurrentScores
    BY DEF OnlyOverlapHidesACorrection
  <2>1. runs[i].at = AppliedCount /\ i \in DOMAIN runs
    BY DEF CompilationInv, RunsInv, NoCorrectionSinceCommit, Visible
  <2>. QED  BY <2>1 DEF CompilationInv, RunsInv, Timely
<1>. QED  BY CompilationInvariant, <1>1, PTL

\* Every committed run is announced, about to be, or its callback was lost
\* (emit_compilation_completed).
THEOREM CompletionAnnouncedAlways == Spec => []CompletionAnnouncedUnlessLost
<1>1. CompilationInv => CompletionAnnouncedUnlessLost
  BY DEF CompilationInv, NewsInv
<1>. QED  BY CompilationInvariant, <1>1, PTL

\* The corrections keep their audit and their four eyes while compilations and
\* reports run beside them and the database aborts applications.
THEOREM CompilationLeavesWorkflowAlone == Spec => [](AuditTellsTheStory /\ FourEyes)
<1>1. CompilationInv => CInv /\ AuditInv
  BY DEF CompilationInv
<1>2. CInv /\ AuditInv => AuditTellsTheStory /\ FourEyes
  BY AuditSuffices DEF CInv
<1>. QED  BY CompilationInvariant, <1>1, <1>2, PTL

\* A report is built while no correction is pending, from a run that no
\* correction had followed when it was looked up (evaluate_report_eligibility).
THEOREM ReportsMissTheirOwnRace == Spec => ReportsMissOnlyTheirOwnRace
<1>1. ASSUME CompilationInv, [Next]_vars, NEW p \in Reporters,
             looking[p], ~looking'[p], report'[p] # 0
      PROVE  /\ \A q \in Requests : request[q].status \notin Blocking
             /\ runs[report'[p]].at = seen[p].when
  <2>1. ReportInv
    BY <1>1 DEF CompilationInv
  <2>2. looking' # looking
    BY <1>1
  <2>3. PICK o \in Reporters : LookUpRun(o) \/ CreateReportSnapshotRun(o)
    BY <1>1, <2>2 DEF Next, CompileStep, vars, ReadRecords, InsertRun, MarkOthersStale,
       CommitRun, AbortApply, AbortCompile, EmitCompilationCompleted, LoseCallback,
       BeginApply, FinishApply, OtherCorrection, reportVars
  <2>4. o = p /\ CreateReportSnapshotRun(p)
    BY <1>1, <2>1, <2>3 DEF LookUpRun, CreateReportSnapshotRun, ReportInv
  <2>5. report'[p] = IF Eligible(p) THEN seen[p].run ELSE 0
    BY <2>1, <2>4 DEF CreateReportSnapshotRun, ReportInv
  <2>. QED  BY <1>1, <2>1, <2>5 DEF Eligible, ReportInv
<1>2. CompilationInv /\ [Next]_vars
        => [\A p \in Reporters :
              looking[p] /\ ~looking'[p] /\ report'[p] # 0 =>
                  /\ \A q \in Requests : request[q].status \notin Blocking
                  /\ runs[report'[p]].at = seen[p].when]_vars
  BY <1>1
<1>. QED  BY CompilationInvariant, <1>2, PTL DEF Spec, ReportsMissOnlyTheirOwnRace
=============================================================================
