----------------------------- MODULE Compilation -----------------------------
(***************************************************************************)
(* compile_assessment and create_report_snapshot_run of                    *)
(* app/grading/services.py, running against the correction workflow, for   *)
(* one assessment.                                                         *)
(*                                                                         *)
(* A compilation reads the records, inserts its run, marks the runs it can *)
(* see stale, and commits: four statements of one READ COMMITTED           *)
(* transaction that locks neither the records nor the assessment before    *)
(* its foreign keys are checked, which Django's deferred constraints do at *)
(* commit.  A report run looks the latest compilation run up in one        *)
(* statement and the pending corrections in a later one.  Applying a       *)
(* correction locks the assessment first and touches the runs last.  The   *)
(* event of a run is written by a callback after its commit.               *)
(*                                                                         *)
(* An application that is refused changes nothing, as if it had not been   *)
(* tried: who is enrolled and which schema is bound stay as they are, and  *)
(* Corrections has what changes them.                                      *)
(*                                                                         *)
(* Readiness has further inputs (batches, schema, curriculum state): they  *)
(* are taken to be in order, so that what blocks a report here is the      *)
(* compilation or a correction.                                            *)
(***************************************************************************)
EXTENDS Corrections

CONSTANTS Compilers,   \* workers that run compile_assessment
          Reporters,   \* workers that run create_report_snapshot_run
          MaxRuns,     \* bound: CompilationRun rows
          MaxLosses    \* bound: on_commit callbacks that do not finish

ASSUME CompilationAssumption ==
    MaxRuns \in Nat /\ MaxLosses \in Nat /\ IsFiniteSet(Requests)

VARIABLES phase,    \* where a compilation is
          view,     \* the scores it has read, when, and the outcome
          mine,     \* the run it has inserted
          marks,    \* the runs it has marked stale, not yet committed
          ahead,    \* the compilations that marked theirs earlier and still
                    \* hold the rows
          announced,\* runs whose event has been written
          losses,   \* callbacks lost so far
          locked,   \* the correction being applied, as a set of at most one
          looking,  \* whether a report run is between its two reads
          seen,     \* the compilation run it looked up (0: none), and when
          report    \* the run its last report was built from (0: blocked)

news == <<announced, losses>>
compileVars == <<phase, view, mine, marks, ahead, news>>
reportVars == <<looking, seen, report>>
vars == <<record, request, audit, runs, enrolled, banded, phase, view, mine, marks,
          ahead, announced, losses, locked, looking, seen, report>>

\* determine_compilation_status: complete, or one of partial, failed, blocked.
Outcome == {"complete", "incomplete"}

CurrentScores == [r \in Records |-> record[r].score]

\* Runs other transactions can see, and the newest of them.
Visible == {i \in DOMAIN runs : runs[i].status \in Committed}

\* The clock of the histories: how many corrections have been applied.
AppliedCount == Cardinality({q \in Requests : request[q].status = "applied"})

NoView == [scores |-> InitialScore, when |-> 0, outcome |-> "complete"]
NothingSeen == [run |-> 0, when |-> 0]

-----------------------------------------------------------------------------
Init ==
    /\ CorrectionInit
    /\ phase = [c \in Compilers |-> "idle"]
    /\ view = [c \in Compilers |-> NoView]
    /\ mine = [c \in Compilers |-> 0]
    /\ marks = [c \in Compilers |-> {}]
    /\ ahead = [c \in Compilers |-> {}]
    /\ announced = {} /\ losses = 0
    /\ locked = {}
    /\ looking = [p \in Reporters |-> FALSE]
    /\ seen = [p \in Reporters |-> NothingSeen]
    /\ report = [p \in Reporters |-> 0]

\* get_submitted_records_for_assessment, and the outcome the roster and the
\* components imply.
ReadRecords(c) ==
    /\ phase[c] = "idle" /\ Len(runs) < MaxRuns
    /\ \E outcome \in Outcome :
          view' = [view EXCEPT ![c] = [scores |-> CurrentScores, when |-> AppliedCount,
                                       outcome |-> outcome]]
    /\ phase' = [phase EXCEPT ![c] = "read"]
    /\ UNCHANGED <<correctionVars, mine, marks, ahead, news, locked, reportVars>>

\* CompilationRun.objects.create, visible to nobody yet.
InsertRun(c) ==
    /\ phase[c] = "read"
    /\ Len(runs) < MaxRuns
    /\ runs' = Append(runs, [status |-> "open", scores |-> view[c].scores,
                              from |-> view[c].when, at |-> 0])
    /\ mine' = [mine EXCEPT ![c] = Len(runs) + 1]
    /\ phase' = [phase EXCEPT ![c] = "inserted"]
    /\ UNCHANGED <<record, request, audit, around, view, marks, ahead, news, locked, reportVars>>

\* CompilationRun.objects.filter(...).exclude(id=run.id)
Superseded(c) == Visible \ {mine[c]}

\* .update(status=STALE), which keeps the rows locked until the commit.
MarkOthersStale(c) ==
    /\ phase[c] = "inserted"
    /\ marks' = [marks EXCEPT ![c] = Superseded(c)]
    /\ ahead' = [ahead EXCEPT ![c] = {d \in Compilers : phase[d] = "marked"}]
    /\ phase' = [phase EXCEPT ![c] = "marked"]
    /\ UNCHANGED <<correctionVars, view, mine, news, locked, reportVars>>

\* An earlier update of one of the same rows is not committed yet, so that
\* the update of c still waits for it.
WaitsForRow(c) == \E d \in ahead[c] : marks[d] \cap marks[c] # {}

\* The transaction of c is over, and with it its locks and what it has read.
Release(c, next) ==
    /\ phase' = [phase EXCEPT ![c] = next]
    /\ marks' = [marks EXCEPT ![c] = {}]
    /\ ahead' = [d \in Compilers |-> IF d = c THEN {} ELSE ahead[d] \ {c}]
    /\ view' = [view EXCEPT ![c] = NoView]

EndCompile(c) ==
    /\ phase' = [phase EXCEPT ![c] = "idle"]
    /\ mine' = [mine EXCEPT ![c] = 0]
    /\ UNCHANGED <<view, ahead, marks>>

\* The commit: the run's foreign key needs the assessment row, which a
\* correction being applied holds; then the run and the marks become visible.
CommitRun(c) ==
    /\ phase[c] = "marked"
    /\ ~WaitsForRow(c)
    /\ locked = {}
    /\ runs' = [i \in DOMAIN runs |->
                  IF i \in marks[c] THEN [runs[i] EXCEPT !.status = "stale"]
                  ELSE IF i = mine[c] THEN [runs[i] EXCEPT !.status = view[c].outcome,
                                                           !.at = AppliedCount]
                  ELSE runs[i]]
    /\ Release(c, "committed")
    /\ UNCHANGED <<record, request, audit, around, mine, news, locked, reportVars>>

\* Faulty variant of Announces: a run that is stale by now is passed over.
AnnouncesCurrent(c) == {i \in {mine[c]} : runs[i].status # "stale"}

\* emit_compilation_completed, keyed by the run.
Announces(c) == {mine[c]}

\* The callback, in a transaction of its own.
EmitCompilationCompleted(c) ==
    /\ phase[c] = "committed"
    /\ announced' = announced \cup Announces(c)
    /\ EndCompile(c)
    /\ UNCHANGED <<correctionVars, losses, locked, reportVars>>

\* The process dies before it, or the contract is switched off.
LoseCallback(c) ==
    /\ phase[c] = "committed"
    /\ losses < MaxLosses
    /\ losses' = losses + 1
    /\ EndCompile(c)
    /\ UNCHANGED <<correctionVars, announced, locked, reportVars>>

-----------------------------------------------------------------------------
\* apply_approved_correction takes its row locks and makes its checks; where
\* one fails the call is over.
BeginApply(q) ==
    /\ locked = {}
    /\ ChangesRecord(q) /\ Accepted(q)
    /\ \E u \in Users : MayApply(q, u)
    /\ locked' = {q}
    /\ UNCHANGED <<correctionVars, compileVars, reportVars>>

\* Faulty variant of FinishApply: the locks outlive the transaction.
FinishApplyLocked(q) ==
    /\ q \in locked
    /\ \A c \in Compilers : marks[c] = {}
    /\ Apply(q)
    /\ UNCHANGED <<compileVars, locked, reportVars>>

\* The rest of it.  Its update of the runs waits for the rows a compilation
\* has marked.
FinishApply(q) ==
    /\ q \in locked
    /\ \A c \in Compilers : marks[c] = {}
    /\ Apply(q)
    /\ locked' = {}
    /\ UNCHANGED <<compileVars, reportVars>>

\* The other correction services lock the assessment too, but no run; a new
\* request locks nothing.
OtherCorrection(q) ==
    /\ \/ RequestSomething(q)
       \/ locked = {} /\ (Decide(q) \/ Escalate(q))
    /\ UNCHANGED <<compileVars, locked, reportVars>>

\* The application waits for a row the compilation has marked and the
\* compilation's commit waits for the assessment: the database aborts one.
Deadlocked(c) ==
    locked # {} /\ phase[c] = "marked" /\ marks[c] # {} /\ ~WaitsForRow(c)

AbortApply(c) ==
    /\ Deadlocked(c)
    /\ locked' = {}
    /\ UNCHANGED <<correctionVars, compileVars, reportVars>>

AbortCompile(c) ==
    /\ Deadlocked(c)
    /\ runs' = [runs EXCEPT ![mine[c]].status = "aborted"]
    /\ Release(c, "idle")
    /\ mine' = [mine EXCEPT ![c] = 0]
    /\ UNCHANGED <<record, request, audit, around, news, locked, reportVars>>

-----------------------------------------------------------------------------
\* get_latest_compilation_run, by creation time: one run or none.
LatestRun == {i \in Visible : \A j \in Visible : j <= i}

\* The run is there and neither stale nor partial, failed or blocked.
LatestIsComplete == {i \in LatestRun : runs[i].status = "complete"}

\* What the look-up notes.
Looks == IF LatestIsComplete = {} THEN {NothingSeen}
         ELSE {[run |-> i, when |-> AppliedCount] : i \in LatestIsComplete}

\* _build_assessment_readiness, first statement.
LookUpRun(p) ==
    /\ ~looking[p]
    /\ looking' = [looking EXCEPT ![p] = TRUE]
    /\ \E look \in Looks : seen' = [seen EXCEPT ![p] = look]
    /\ UNCHANGED <<correctionVars, compileVars, locked, report>>

\* Faulty variant of Eligible: corrections are not asked about.
EligibleIfCompiled(p) == seen[p].run # 0

\* evaluate_report_eligibility: the run looked up was complete, and no
\* correction is pending by the time get_pending_corrections_for_assessment
\* runs.
Eligible(p) == seen[p].run # 0 /\ \A q \in Requests : request[q].status \notin Blocking

\* The rest of create_report_snapshot_run.  The learner snapshots of the run
\* are copied by its id; its status is not read again.
CreateReportSnapshotRun(p) ==
    /\ looking[p]
    /\ report' = [report EXCEPT ![p] = IF Eligible(p) THEN seen[p].run ELSE 0]
    /\ looking' = [looking EXCEPT ![p] = FALSE]
    /\ seen' = [seen EXCEPT ![p] = NothingSeen]
    /\ UNCHANGED <<correctionVars, compileVars, locked>>

-----------------------------------------------------------------------------
CompileStep(c) ==
    \/ ReadRecords(c) \/ InsertRun(c) \/ MarkOthersStale(c) \/ CommitRun(c)
    \/ AbortApply(c) \/ AbortCompile(c) \/ EmitCompilationCompleted(c) \/ LoseCallback(c)

Next ==
    \/ \E c \in Compilers : CompileStep(c)
    \/ \E q \in Requests : BeginApply(q) \/ FinishApply(q) \/ OtherCorrection(q)
    \/ \E p \in Reporters : LookUpRun(p) \/ CreateReportSnapshotRun(p)

Spec == Init /\ [][Next]_vars

\* A transaction that has begun goes on and the database breaks deadlocks.
\* Commits are strongly fair: row locks are granted in the order of asking,
\* so a waiting commit is next once the holder is gone.
Fairness ==
    /\ \A c \in Compilers : /\ WF_vars(InsertRun(c) \/ MarkOthersStale(c))
                            /\ SF_vars(CommitRun(c))
                            /\ WF_vars(AbortApply(c) \/ AbortCompile(c))
    /\ \A q \in Requests : WF_vars(FinishApply(q))

FairSpec == Spec /\ Fairness

-----------------------------------------------------------------------------
(* Properties.                                                             *)

\* The workers' bookkeeping is well formed: whoever is ahead in the queue for
\* a row holds marks, and nobody marks a run that is still open.
CompilationTypeOK ==
    /\ CorrectionTypeOK
    /\ \A i \in DOMAIN runs :
          /\ runs[i].status \in RunStatus
          /\ runs[i].scores \in [Records -> Scores]
          /\ runs[i].from \in 0..Cardinality(Requests)
          /\ runs[i].at \in 0..Cardinality(Requests)
    /\ phase \in [Compilers -> {"idle", "read", "inserted", "marked", "committed"}]
    /\ mine \in [Compilers -> 0..MaxRuns]
    /\ \A c \in Compilers : marks[c] \subseteq Visible
    /\ \A c \in Compilers : ahead[c] \subseteq {d \in Compilers \ {c} : phase[d] = "marked"}
    /\ announced \subseteq Visible /\ losses \in 0..MaxLosses
    /\ locked \subseteq Requests /\ Cardinality(locked) <= 1
    /\ looking \in [Reporters -> BOOLEAN]
    /\ seen \in [Reporters -> [run : Visible \cup {0}, when : 0..Cardinality(Requests)]]
    /\ report \in [Reporters -> Visible \cup {0}]

\* A run that counts as complete says what the submitted records say now:
\* applied corrections mark existing compilation runs stale.
CurrentRunIsRight ==
    \A i \in Visible : runs[i].status = "complete" => runs[i].scores = CurrentScores

\* Overlap is the only way to lose a correction: a run that counts as complete
\* and during whose transaction none was applied says what the records say.
OnlyOverlapHidesACorrection ==
    \A i \in Visible :
        runs[i].status = "complete" /\ runs[i].from = runs[i].at =>
            runs[i].scores = CurrentScores

\* A run is stale only because a correction or another run superseded it, so
\* that compiling again, alone, makes the assessment reportable again.
StaleOnlyWhenSuperseded ==
    \A i \in Visible :
        runs[i].status = "stale" => runs[i].at # AppliedCount \/ Visible # {i}

\* However the transactions interleave, no correction has been applied since
\* the commit of a run that still counts: applying one reaches every run that
\* is there, also when several of them count as complete.
NoCorrectionSinceCommit ==
    \A i \in Visible : runs[i].status # "stale" => runs[i].at = AppliedCount

\* Eligibility fails closed: a report is built only while no correction is
\* pending, and from a run whose commit no correction had followed when the
\* report looked the run up, however compilations and corrections overlap.
ReportsMissOnlyTheirOwnRace ==
    [][\A p \in Reporters :
          looking[p] /\ ~looking'[p] /\ report'[p] # 0 =>
              /\ \A q \in Requests : request[q].status \notin Blocking
              /\ runs[report'[p]].at = seen[p].when]_vars

\* A compilation ends, also when it and the application of a correction wait
\* for each other.
CompilationEnds ==
    \A c \in Compilers : phase[c] = "marked" ~> phase[c] \in {"committed", "idle"}

\* Every committed run is announced, or its compilation is about to do so, or
\* the callback was lost: also a run that a correction or another compilation
\* made stale before its own callback ran.
CompletionAnnouncedUnlessLost ==
    \A i \in Visible :
        \/ i \in announced
        \/ \E c \in Compilers : phase[c] = "committed" /\ mine[c] = i
        \/ losses > 0

\* The status of a run says whether it is fresh: not stale means that no
\* correction was applied since its commit, stale means that something
\* superseded it.
FreshnessIsTrue ==
    CompilationTypeOK /\ NoCorrectionSinceCommit /\ StaleOnlyWhenSuperseded
=============================================================================
