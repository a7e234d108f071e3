----------------------------- MODULE Projections -----------------------------
(***************************************************************************)
(* The role projections of app/grading/services.py: what readiness,        *)
(* compilation and analytics show to one actor.  A projection runs outside *)
(* a transaction: it looks up a role binding, queries its scope and then   *)
(* asks a policy (which looks at the tables again) about every item, while *)
(* role bindings, teacher assignments, cohorts, learning areas, what       *)
(* readiness looks at and reports change.  Tenants are not crossed: every  *)
(* query filters on the tenant.                                            *)
(***************************************************************************)
EXTENDS Naturals, Sequences

CONSTANTS Cohorts, Areas,
          Tests,         \* the assessments of the term
          CohortOf, AreaOf,
          Students, ClassOf,
          Placements,    \* <<cohort, learning area, term>> an assignment may be for
          Volatile,      \* bound: what of readiness others change
          MaxEvents      \* bound: changes made by others

\* What one readiness looks at, each of which may speak against it: the status
\* and the schema of the assessment loaded, a save of it after the latest
\* compilation, and what _build_assessment_readiness queries, in this order.
ReadinessQueries == <<"run", "batches", "corrections", "adoption", "withdrawal", "rollback",
                      "impact", "schema">>
Facts == {"status", "saved"} \cup {ReadinessQueries[i] : i \in DOMAIN ReadinessQueries}

ASSUME ProjectionsAssumption ==
    /\ CohortOf \in [Tests -> Cohorts] /\ AreaOf \in [Tests -> Areas]
    /\ ClassOf \in [Students -> Cohorts]
    /\ Placements \subseteq Cohorts \X Areas \X {"now", "past"}
    /\ Cohorts \cap Areas = {}
    /\ Volatile \subseteq Tests \X Facts
    /\ MaxEvents \in Nat

VARIABLES roles,      \* role codes of the actor's active bindings in the tenant
          assigned,   \* the actor's active TeacherAssignment rows
          active,     \* cohorts and learning areas with is_active
          amiss,      \* <<assessment, fact>> that speaks against readiness
          newest,     \* <<assessment, student>> lines of the newest report run
          req,        \* the projection being built
          span,       \* history: all that held at some moment of the request
          core,       \* history: all that held at every moment of it
          events      \* (of readiness: since the assessments were loaded)

tables == <<roles, assigned, active, amiss, newest>>
projectionVars == <<tables, req, span, core, events>>

Principals == {"principal", "school_admin"}
Executives == Principals \cup {"deputy_principal"}
TeacherRoles == {"subject_teacher", "class_teacher", "hod"}
RoleCodes == Executives \cup TeacherRoles

\* Every projection with the role codes its _policy_context looks for.
AskedRoles ==
    [compute_readiness |-> Executives \cup {"hod"}, teacher_readiness |-> TeacherRoles,
     hod_readiness |-> {"hod"}, head_readiness |-> Executives,
     principal_readiness |-> Principals, teacher_compilation |-> TeacherRoles,
     hod_compilation |-> {"hod"}, deputy_compilation |-> Executives,
     principal_compilation |-> Principals, principal_analytics |-> Principals,
     deputy_analytics |-> Executives, hod_analytics |-> {"hod"},
     class_analytics |-> {"class_teacher", "hod"},
     subject_analytics |-> {"subject_teacher", "hod"}, future_parent |-> {"guardian"}]

Kinds == DOMAIN AskedRoles
ReadinessKinds == {"compute_readiness", "teacher_readiness", "hod_readiness",
                   "head_readiness", "principal_readiness"}
CompilationKinds == {"teacher_compilation", "hod_compilation", "deputy_compilation",
                     "principal_compilation"}
AnalyticsKinds == {"principal_analytics", "deputy_analytics", "hod_analytics",
                   "class_analytics", "subject_analytics"}
\* Projections that first ask whether the role may view anything at all.
Gated == {"compute_readiness", "head_readiness", "principal_readiness",
          "deputy_compilation", "principal_compilation", "principal_analytics",
          "deputy_analytics", "class_analytics", "future_parent"}
ByAssignment == {"teacher_readiness", "hod_readiness", "teacher_compilation",
                 "hod_compilation", "hod_analytics", "subject_analytics"}
\* Projections that query their scope before they look up a role.
ScopeFirst == {"teacher_readiness", "teacher_compilation"}

NoRole == "none"
Target(kind) ==
    CASE kind = "compute_readiness" -> Tests
      [] kind = "class_analytics" -> Cohorts
      [] kind = "subject_analytics" -> Areas
      [] OTHER -> {"all"}
\* The readiness of one assessment being built, and what its objects say.
NoItem == [of |-> {}, step |-> 0, blocked |-> FALSE, loaded |-> {}]
Fresh(kind, target) ==
    [kind |-> kind, target |-> target, phase |-> IF kind \in ScopeFirst THEN "scope" ELSE "role",
     role |-> NoRole, lines |-> {}, todo |-> {}, tests |-> {}, ready |-> {},
     visible |-> {}, students |-> {}, areas |-> {}, scope |-> {}, item |-> NoItem]
Quiet == [Fresh("future_parent", "all") EXCEPT !.phase = "idle"]

Moment == [roles |-> roles, assigned |-> assigned, active |-> active, amiss |-> amiss,
           reports |-> {newest}]

ProjectionInit ==
    /\ roles \in {{}} \cup {{r} : r \in RoleCodes}
    /\ assigned \in SUBSET Placements
    /\ active = Cohorts \cup Areas
    /\ amiss = {}
    /\ newest = {p \in Tests \X Students : ClassOf[p[2]] = CohortOf[p[1]]}
    /\ req = Quiet
    /\ span = Moment /\ core = Moment
    /\ events = 0

-----------------------------------------------------------------------------
(* What other requests change meanwhile.                                    *)

Toggle(S, x) == IF x \in S THEN S \ {x} ELSE S \cup {x}

\* The histories take in the new values.
Observe ==
    /\ events < MaxEvents /\ events' = events + 1
    /\ span' = [roles |-> span.roles \cup roles', assigned |-> span.assigned \cup assigned',
                active |-> span.active \cup active', amiss |-> span.amiss \cup amiss',
                reports |-> span.reports \cup {newest'}]
    /\ core' = [roles |-> core.roles \cap roles', assigned |-> core.assigned \cap assigned',
                active |-> core.active \cap active', amiss |-> core.amiss \cap amiss',
                reports |-> core.reports \cap {newest'}]
    /\ UNCHANGED req

ChangeRole(r) ==
    /\ roles' = Toggle(roles, r)
    /\ UNCHANGED <<assigned, active, amiss, newest>> /\ Observe
ChangeAssignment(p) ==
    /\ assigned' = Toggle(assigned, p)
    /\ UNCHANGED <<roles, active, amiss, newest>> /\ Observe
ChangeCohort(c) ==
    /\ active' = Toggle(active, c)
    /\ UNCHANGED <<roles, assigned, amiss, newest>> /\ Observe
ChangeArea(area) ==
    /\ active' = Toggle(active, area)
    /\ UNCHANGED <<roles, assigned, amiss, newest>> /\ Observe
ChangeReadiness(fact) ==
    /\ amiss' = Toggle(amiss, fact)
    /\ UNCHANGED <<roles, assigned, active, newest>> /\ Observe

\* create_report_snapshot_run for a part of the assessments: the report is
\* newer than any other, whatever its filters were.
FinishReportRun(S) ==
    /\ S # {}
    /\ newest' = {p \in S \X Students : ClassOf[p[2]] = CohortOf[p[1]]}
    /\ UNCHANGED <<roles, assigned, active, amiss>> /\ Observe

-----------------------------------------------------------------------------
(* The policies, evaluated on the tables as they are now.                   *)

\* _context_is_valid: the binding found earlier must still be there.
ContextIsValid == req.role # NoRole /\ req.role \in roles

AssignedPlace(a) == <<CohortOf[a], AreaOf[a], "now">> \in assigned
Running(a) == CohortOf[a] \in active /\ AreaOf[a] \in active

\* Faulty variant of HasAssignmentForAssessment: a head of department is not
\* taken for a teacher.
HasAssignmentUnlessHod(a) ==
    /\ ContextIsValid /\ req.role \in TeacherRoles \ {"hod"}
    /\ AssignedPlace(a) /\ Running(a)

\* _has_assignment_for_assessment
HasAssignmentForAssessment(a) ==
    /\ ContextIsValid /\ req.role \in TeacherRoles
    /\ AssignedPlace(a) /\ Running(a)

\* can_compute_readiness and the can_view_..._readiness policies
MayViewReadiness(a) ==
    CASE req.kind \in {"teacher_readiness", "hod_readiness"} -> HasAssignmentForAssessment(a)
      [] req.kind = "compute_readiness" ->
            ContextIsValid /\ (req.role \in Executives \/ HasAssignmentForAssessment(a))
      [] OTHER -> ContextIsValid /\ req.role \in AskedRoles[req.kind]

\* The can_view_..._compilation policies
MayViewCompilation(a) ==
    IF req.kind \in {"teacher_compilation", "hod_compilation"}
    THEN HasAssignmentForAssessment(a)
    ELSE ContextIsValid /\ req.role \in AskedRoles[req.kind]

\* can_view_hod_analytics for an aggregate: any cohort of the learning area.
MayViewAggregate(area) ==
    /\ ContextIsValid /\ req.role = "hod"
    /\ \E c \in Cohorts : <<c, area, "now">> \in assigned

\* can_view_class_teacher_analytics: any active assignment in the cohort, of
\* any term.
MayViewClass(c) ==
    /\ ContextIsValid
    /\ \E area \in Areas, t \in {"now", "past"} : <<c, area, t>> \in assigned

\* The test a projection starts with.  The future parent ones fail closed.
GateOpen ==
    CASE req.kind = "future_parent" -> FALSE
      [] req.kind = "class_analytics" -> MayViewClass(req.target)
      [] req.kind = "compute_readiness" -> MayViewReadiness(req.target)
      [] OTHER -> ContextIsValid /\ req.role \in AskedRoles[req.kind]

-----------------------------------------------------------------------------
(* The projections.                                                         *)

OthersUnchanged == UNCHANGED <<tables, span, core, events>>

\* What the Assessment objects whose readiness is computed are loaded with.
LoadedAmiss(tests) == {x \in amiss : x[1] \in tests /\ x[2] \in {"status", "schema"}}

\* compute_assessment_readiness loads its assessment before anything else.
Ask(kind, target) ==
    /\ req.phase = "idle"
    /\ req' = [Fresh(kind, target) EXCEPT
                  !.item.loaded = IF kind = "compute_readiness" THEN LoadedAmiss({target}) ELSE {}]
    /\ span' = Moment /\ core' = Moment
    /\ UNCHANGED <<tables, events>>

\* _role_for: the first binding the query returns.
LookUpRole ==
    /\ req.phase = "role"
    /\ LET found == AskedRoles[req.kind] \cap roles
       IN  \E r \in IF found = {} THEN {NoRole} ELSE found :
              req' = [req EXCEPT !.role = r,
                        !.phase = CASE req.kind \in Gated -> "gate"
                                    [] req.kind \in ScopeFirst -> "check"
                                    [] OTHER -> "scope"]
    /\ OthersUnchanged

\* A projection that may not be viewed is empty (compute_assessment_readiness
\* raises instead).
PassGate ==
    /\ req.phase = "gate"
    /\ req' = [req EXCEPT !.phase = IF GateOpen THEN "scope" ELSE "answered"]
    /\ OthersUnchanged

\* The assessments a readiness projection is about.
ReadinessScope ==
    CASE req.kind = "compute_readiness" -> {req.target}
      [] req.kind \in ByAssignment -> {a \in Tests : AssignedPlace(a)}
      [] OTHER -> Tests

\* The assessments whose summaries a compilation projection is about; all of
\* them have been compiled.
CompilationScope ==
    IF req.kind \in ByAssignment THEN {a \in Tests : AssignedPlace(a)} ELSE Tests

ReadScope ==
    /\ req.phase = "scope" /\ req.kind \in ReadinessKinds \cup CompilationKinds
    /\ LET found == IF req.kind \in ReadinessKinds THEN ReadinessScope ELSE CompilationScope
           loads == req.kind \in ReadinessKinds \ {"compute_readiness"}
       IN  /\ req' = [req EXCEPT !.todo = found, !.scope = found,
                        !.tests = IF req.kind = "compute_readiness" THEN found ELSE @,
                        !.item.loaded = IF loads THEN LoadedAmiss(found) ELSE @,
                        !.phase = IF req.kind = "compute_readiness" THEN "read"
                                  ELSE IF req.kind \notin ScopeFirst THEN "check"
                                  ELSE IF found = {} THEN "answered" ELSE "role"]
           /\ span' = IF loads THEN [span EXCEPT !.amiss = amiss] ELSE span
           /\ core' = IF loads THEN [core EXCEPT !.amiss = amiss] ELSE core
    /\ UNCHANGED <<tables, events>>

\* _build_assessment_readiness begins for an assessment of r.
Begun(r, a) == [r EXCEPT !.item = [@ EXCEPT !.of = {a}, !.step = 1, !.blocked = FALSE]]

\* The policy about one assessment.  The two executive projections compute
\* its readiness before they turn to the next one.
CheckReadiness(a) ==
    /\ req.phase = "check" /\ req.kind \in ReadinessKinds
    /\ req.item.of = {} /\ a \in req.todo
    /\ LET asked == [req EXCEPT !.todo = @ \ {a}]
           shown == [asked EXCEPT !.tests = @ \cup {a}]
       IN  req' = IF ~MayViewReadiness(a) THEN asked
                  ELSE IF req.kind \in ByAssignment THEN shown ELSE Begun(shown, a)
    /\ OthersUnchanged

\* _authorized_readiness_items asks about all of them first and computes the
\* readiness of the visible ones afterwards.
ReadReadiness(a) ==
    /\ req.phase = "read" /\ req.item.of = {} /\ a \in req.todo
    /\ req' = Begun([req EXCEPT !.todo = @ \ {a}], a)
    /\ OthersUnchanged

\* Whether a query finds something against an assessment.  The latest run is
\* compared with the object's last save, and the run is as new as that if it
\* was at any moment since the object was loaded.  The schema is the one the
\* object was loaded with: if there was a time without an active one, it may
\* have been deprecated or have been exchanged.
Answers(a, fact) ==
    CASE fact = "run" -> {\/ <<a, "run">> \in amiss \/ <<a, "saved">> \in core.amiss
                          \/ <<a, "status">> \in req.item.loaded}
      [] fact = "schema" -> IF <<a, "schema">> \in req.item.loaded THEN {TRUE}
                            ELSE IF <<a, "schema">> \in span.amiss THEN BOOLEAN ELSE {FALSE}
      [] OTHER -> {(<<a, fact>> \in amiss)}

\* One query of _build_assessment_readiness; the last one completes it.
LookUpFact(a) ==
    /\ req.item.of = {a}
    /\ \E answer \in Answers(a, ReadinessQueries[req.item.step]) :
          LET blocked == req.item.blocked \/ answer
          IN  req' = IF req.item.step < Len(ReadinessQueries)
                     THEN [req EXCEPT !.item = [req.item EXCEPT !.step = @ + 1, !.blocked = blocked]]
                     ELSE [req EXCEPT !.item = [@ EXCEPT !.of = {}, !.step = 0, !.blocked = FALSE],
                             !.ready = IF blocked THEN @ ELSE @ \cup {a},
                             !.phase = IF req.phase = "read" /\ req.todo = {} THEN "answered" ELSE @]
    /\ OthersUnchanged

\* get_hod_compilation_projection asks about every summary.
CheckCompilation(a) ==
    /\ req.phase = "check" /\ req.kind = "hod_compilation" /\ a \in req.todo
    /\ req' = [req EXCEPT !.todo = @ \ {a},
                 !.tests = IF MayViewCompilation(a) THEN @ \cup {a} ELSE @]
    /\ OthersUnchanged

\* get_teacher_compilation_projection asks about the first one only, and the
\* executive projections asked at the gate.
CheckFirstCompilation ==
    /\ req.phase = "check" /\ req.kind \in CompilationKinds \ {"hod_compilation"}
    /\ req.todo # {}
    /\ \E first \in req.todo :
          req' = [req EXCEPT !.todo = {},
                    !.tests = IF req.kind = "teacher_compilation" /\ ~MayViewCompilation(first)
                              THEN {} ELSE req.scope]
    /\ OthersUnchanged

\* Nothing is left to ask about: build_role_projection, or the readiness of
\* what may be shown.
FinishChecks ==
    /\ req.phase = "check" /\ req.item.of = {} /\ req.todo = {}
    /\ req.kind \notin AnalyticsKinds
    /\ req' = IF req.kind \in ReadinessKinds \cap ByAssignment /\ req.tests # {}
              THEN [req EXCEPT !.phase = "read", !.todo = req.tests]
              ELSE [req EXCEPT !.phase = "answered"]
    /\ OthersUnchanged

\* ready_for_reports of build_readiness_projection
ReadyForReports(r) == r.tests # {} /\ r.ready = r.tests

\* Faulty variant of ReportLines: the actor is not asked for.
ReportLinesOfAnyone == IF req.kind = "subject_analytics"
                       THEN {p \in newest : AreaOf[p[1]] = req.target} ELSE newest

\* get_report_subject_line_snapshots of the newest complete or partial run;
\* the executive and class projections read them as learner snapshots.
ReportLines ==
    CASE req.kind = "hod_analytics" -> {p \in newest : AssignedPlace(p[1])}
      [] req.kind = "subject_analytics" ->
            {p \in newest : AreaOf[p[1]] = req.target /\ AssignedPlace(p[1])}
      [] OTHER -> newest

StudentsOf(lines) == {p[2] : p \in lines}
AreasOf(lines) == {AreaOf[p[1]] : p \in lines}

\* _latest_report_snapshot_run and the lines; what is read later belongs to
\* the same run.  The aggregates are of the whole run.
ReadReport ==
    /\ req.phase = "scope" /\ req.kind \in AnalyticsKinds
    /\ req' = [req EXCEPT
          !.lines = newest, !.scope = ReportLines,
          !.todo = IF req.kind \in ByAssignment THEN ReportLines ELSE {},
          !.phase = IF req.kind = "hod_analytics" /\ ReportLines = {} THEN "answered" ELSE "lines"]
    /\ OthersUnchanged

\* can_view_hod_analytics and can_view_subject_teacher_analytics, line by line
CheckLine(p) ==
    /\ req.phase = "lines" /\ p \in req.todo
    /\ req' = [req EXCEPT !.todo = @ \ {p},
                 !.visible = IF HasAssignmentForAssessment(p[1]) THEN @ \cup {p} ELSE @]
    /\ OthersUnchanged

\* get_academic_aggregates(snapshot_run=...)
AggregatesRead == req.lines

\* get_hod_analytics_projection: the aggregates of the visible areas, which
\* are checked once more, and the learners with a line in one of them.
AnswerHod ==
    /\ req.phase = "lines" /\ req.todo = {} /\ req.kind = "hod_analytics"
    /\ req' = [req EXCEPT
          !.phase = "answered",
          !.areas = {s \in AreasOf(AggregatesRead) \cap AreasOf(req.visible) : MayViewAggregate(s)},
          !.students = StudentsOf({p \in req.scope : AreaOf[p[1]] \in AreasOf(req.visible)})]
    /\ OthersUnchanged

\* get_subject_teacher_analytics_projection
AnswerSubject ==
    /\ req.phase = "lines" /\ req.todo = {} /\ req.kind = "subject_analytics"
    /\ req' = [req EXCEPT !.phase = "answered", !.students = StudentsOf(req.visible),
                          !.areas = AreasOf(AggregatesRead) \cap {req.target}]
    /\ OthersUnchanged

\* get_class_teacher_analytics_projection: learners of the cohort, and the
\* aggregates of the cohort, none of which is of a learning area.
AnswerClass ==
    /\ req.phase = "lines" /\ req.kind = "class_analytics"
    /\ req' = [req EXCEPT !.phase = "answered",
          !.students = {s \in StudentsOf(req.lines) : ClassOf[s] = req.target}]
    /\ OthersUnchanged

\* get_principal_analytics_projection and get_deputy_analytics_projection
AnswerExecutive ==
    /\ req.phase = "lines" /\ req.kind \in {"principal_analytics", "deputy_analytics"}
    /\ req' = [req EXCEPT !.phase = "answered", !.students = StudentsOf(req.lines),
                          !.areas = AreasOf(AggregatesRead)]
    /\ OthersUnchanged

ProjectionNext ==
    \/ /\ req.phase # "answered"
       /\ \/ \E r \in RoleCodes : ChangeRole(r)
          \/ \E p \in Placements : ChangeAssignment(p)
          \/ \E c \in Cohorts : ChangeCohort(c)
          \/ \E area \in Areas : ChangeArea(area)
          \/ \E fact \in Volatile : ChangeReadiness(fact)
          \/ \E S \in SUBSET Tests : FinishReportRun(S)
    \/ \E kind \in Kinds : \E target \in Target(kind) : Ask(kind, target)
    \/ LookUpRole \/ PassGate \/ ReadScope
    \/ \E a \in Tests : \/ CheckReadiness(a) \/ ReadReadiness(a) \/ LookUpFact(a)
                         \/ CheckCompilation(a)
    \/ CheckFirstCompilation \/ FinishChecks \/ ReadReport
    \/ \E p \in Tests \X Students : CheckLine(p)
    \/ AnswerHod \/ AnswerSubject \/ AnswerClass \/ AnswerExecutive

ProjectionSpec == ProjectionInit /\ [][ProjectionNext]_projectionVars

-----------------------------------------------------------------------------
(* Properties.                                                             *)

Answered == req.phase = "answered"
HeldRole == span.roles \cap AskedRoles[req.kind] # {}
HeldPlace(a) == <<CohortOf[a], AreaOf[a], "now">> \in span.assigned

\* However roles and assignments change between the query and the checks,
\* everything shown was authorised at some moment of the request: the actor
\* held a role the projection is for and, unless it is an executive role, an
\* assignment for each assessment, for one line of each learner, in the cohort
\* whose learners a class teacher sees, and for each learning area whose
\* aggregates a head of department sees.  One thing is left out since it is not
\* so, though the documents say it: get_subject_teacher_analytics_projection returns the
\* aggregates of the learning area asked for to an actor with no role or assignment.
ShownWasAuthorised ==
    Answered =>
        /\ req.tests \cup req.students # {} => HeldRole
        /\ req.areas # {} /\ req.kind # "subject_analytics" => HeldRole
        /\ \/ span.roles \cap Executives # {} /\ req.kind \notin ByAssignment
           \/ \A a \in req.tests : HeldPlace(a)
        /\ req.kind \in {"hod_analytics", "subject_analytics"} =>
              \A s \in req.students : \E p \in req.lines : p[2] = s /\ HeldPlace(p[1])
        /\ req.kind = "hod_analytics" =>
              \A area \in req.areas : \E c \in Cohorts : <<c, area, "now">> \in span.assigned
        /\ req.kind = "class_analytics" /\ req.students # {} =>
              /\ \A s \in req.students : ClassOf[s] = req.target
              /\ \E area \in Areas, t \in {"now", "past"} :
                    <<req.target, area, t>> \in span.assigned

\* The converse: whoever kept every role and assignment that counts for the
\* whole request is shown all that they authorise.  The teacher's compilation
\* projection decides by its first summary, so one assessment whose cohort
\* or learning area was closed may hide the others.
KeptAuthorityIsServed ==
    LET kept(a) == /\ <<CohortOf[a], AreaOf[a], "now">> \in core.assigned
                   /\ {CohortOf[a], AreaOf[a]} \subseteq core.active
    IN  Answered /\ span.roles \cap AskedRoles[req.kind] = core.roles \cap AskedRoles[req.kind]
                 /\ core.roles \cap AskedRoles[req.kind] # {}
        => CASE req.kind \in {"teacher_readiness", "hod_readiness", "hod_compilation"} ->
                   {a \in Tests : kept(a)} \subseteq req.tests
             [] req.kind = "teacher_compilation" ->
                   (\A a \in Tests : HeldPlace(a) => kept(a)) => {a \in Tests : kept(a)} = req.tests
             [] req.kind \in {"head_readiness", "principal_readiness", "deputy_compilation",
                              "principal_compilation"} -> req.tests = Tests
             [] req.kind \in {"principal_analytics", "deputy_analytics"} ->
                   req.students = StudentsOf(req.lines)
             [] req.kind \in {"hod_analytics", "subject_analytics"} ->
                   \A p \in req.lines :
                      /\ kept(p[1])
                      /\ req.kind = "hod_analytics" \/ req.target = AreaOf[p[1]]
                      => p[2] \in req.students
             [] OTHER -> TRUE

\* Learners and aggregates of one answer come from one report, even when a
\* newer one is finished between the queries.
AnswerFromOneReport ==
    Answered => \E lines \in span.reports : /\ req.students \subseteq StudentsOf(lines)
                                            /\ req.areas \subseteq AreasOf(lines)

\* A projection says ready_for_reports only if it shows something, and nothing
\* spoke against any of it for good: everything readiness looks at was in order
\* at some moment since the assessments were loaded, though not all of it at
\* the same moment, so what is called ready may have been ready at none.
ReadyWasReady ==
    Answered /\ req.kind \in ReadinessKinds /\ ReadyForReports(req) =>
        req.tests # {} /\ (req.tests \X Facts) \cap core.amiss = {}

\* What a request shows was the actor's to see, from one report, and in order
\* if it says so, each fact at a moment of its own.
ShownWasTrue == ShownWasAuthorised /\ AnswerFromOneReport /\ ReadyWasReady
=============================================================================
