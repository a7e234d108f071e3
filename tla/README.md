# DARASA-API: specifications, model checking and proofs

DARASA-API is a Django service for schools. Its logic lives in four places:

* **`app/events`**: a transactional outbox in PostgreSQL and a polling relay
  (`dispatch_pending_events`) with retries, consumer states and dead letters;
* **`app/grading`**: drafts, final submission, a correction workflow with
  separation of duties, compilation of snapshots, readiness and reports;
* **`app/curriculum`**: versioned curriculum truth with change sets,
  publication, adoption, evidence, withdrawal and rollback;
* **`app/tenant`, `app/academics`**: the provisioning of schools and the registers
  they keep.

This directory holds TLA+ modules for those parts, TLC configurations that
check small instances, and proofs for every instance. Abbreviations below:
`EV` = `app/events/services.py`, `GS` = `app/grading/services.py`, `CS` =
`app/curriculum/services.py` (all under `src/`).

Contents: [1 Inventory](#1-inventory) · [2 Modules and code](#2-modules-and-code) ·
[3 Runs](#3-runs) · [4 Fairness](#4-fairness) · [5 Proofs](#5-proofs) ·
[6 Observations](#6-observations) · [7 Not modelled](#7-what-is-not-modelled) ·
[8 Plan](#8-plan)

Run a configuration with `tlc -workers 2 -config <name>.cfg <module>`, check a
proof with `tlapm <module>.tla`.

## 1. Inventory

| Component | State | Operations | Interacts through |
|---|---|---|---|
| Event outbox and relay (`EV` 174-505) | `EventOutbox`, `EventDispatchAttempt`, `EventConsumerState`, `DeadLetterEvent`; a relay's batch and place in its loop | write, plan and lock, attempt, check consumer, run handler, mark dispatched / failed / dead-lettered | rows shared by all producers and relays; handlers are callbacks |
| Dispatch planner (`EV` 262-301, `algorithms/`) | priorities and three time stamps of a row | window, plan, sort, return | called by the relay |
| Event contracts (`EV` 90-135, validators) | `EventTypeRegistry` | register, switch on or off, validate payload, producer, consumer | read by every save of an outbox row |
| Audit events (`EV`, `audit_hash.py`) | immutable rows | insert | none |
| Drafts and submission (`GS` 329-479, 1186-1345) | `GradeDraftBatch`, `GradeSubmissionBatch`, `GradeRecord`; a browser's screen | build grid, save draft, submit, emit | network, unique constraints, `on_commit` to the outbox |
| Corrections (`GS` 581-947) | `GradeCorrectionRequest`, audit rows, `GradeRecord` | request, HOD review, escalate, academic-head review, apply | row locks; marks compilation runs stale |
| Compilation (`GS` 1381-1556) | `CompilationRun`, learner snapshots | read, insert, mark others stale, commit | reads records, races corrections and itself |
| Readiness and reports (`GS` 1583-1744, 2143-2462) | `ReportSnapshotRun` and copies; a list of loaded assessments | list assessments, look up run, look up blockers, copy | reads runs, batches, corrections, curriculum facts and schemas in separate statements |
| Projections and analytics (`GS` 1747-2140, 2465-2785, `policies.py`) | none | one projection per role: readiness, compilation, analytics, future parent | role bindings, assignments, cohorts, learning areas, readiness, newest report, read one after the other |
| School grading schemas (`GS` 998-1171) | `SchoolGradingSchema`, its bands, bindings | create, activate, deprecate, bind; map a score to a band | `Assessment.save`, readiness, corrections |
| Curriculum truth (`CS` 291-585, 1039-1071) | change sets, publications, adoptions, withdrawals | create, review, publish, supersede, adopt, activate, withdraw | assessments ask it before they are bound, readiness for blockers |
| Curriculum evidence (`CS` 146-212, 676-1036) | submissions, verification reports, decisions, impact plans, rollback candidates | submit, report, decide, plan, propose a rollback | an external scanner; `on_commit` to the outbox |
| Regulatory notices (`CS` 1399-1643) | notices, evidence cards, acknowledgements | register, classify, build, issue, acknowledge, archive | objects passed in by callers |
| Curriculum binding (`grading/models.py` 54-370) | `Assessment`: status, curriculum version, binding time | validate, lock the binding, write | reads curriculum truth and the existence of grades |
| Curriculum structure, source registry (`CS` 103-288, 1130-) | versions, strands, outcomes, rubrics, authorities, artifacts | insert | foreign keys |
| Academics (`academics/services.py`, `models.py`) | years, terms, areas, cohorts, learners, enrolments, assignments | create, each after `full_clean` | unique constraints; role bindings |
| Tenant provisioning (`tenant/services.py`) | schools, domains, users, roles, bindings | provision a school with its administrator | unique columns; `get_or_create` of the role |
| Core, portals, settings | policies, middleware, metrics, views | per request | none |
| Bus, disciplinary | empty applications | none | none |

What is hard, and the properties that answer it:

* **Relay: interleaving and crashes.** `dispatch_pending_events` is not a
  transaction: each ORM call commits alone, so a relay can die, or meet another
  relay, between any two of fourteen steps. A consumer's row has to tell the
  truth (`ProcessedMeansHandled`), a dispatched event must have asked all its
  consumers (`DispatchedLeavesTrace`), retries must be bounded
  (`AttemptsBounded`), records must not claim attempts that do not exist
  (`DeadLetterCountsRealAttempts`), what a crash can cost must be bounded
  (`CrashesExplainLosses`), and every event must be settled in the end, once and for
  all (`KeepsThePromise`).
* **Planner: limits and three orders.** Availability cuts the window, priority
  makes the plan, occurrence orders the dispatch (`FifoWithinPriority`); fresh
  locks of other relays fill the window (`BacklogDrains`).
* **Submission: late and repeated messages.** Optimistic versions, idempotency
  keys and unique indexes have to work together
  (`VersionedSavesSeeWhatTheyReplace`, `SubmittedDraftsAreKept`,
  `AcceptedIsOfficial`), and the event must follow the batch
  (`AnnouncedUnlessLost`, `BatchIsAnnounced`).
* **Corrections: long sequences by several roles.** `FourEyes`,
  `EscalationDecides`, `AuditChain`, `OnlyAppliedChangesRecords`,
  `ApprovedIsAppliedOrRefused`, `AppliesToReviewedState`.
* **Compilation: statements of overlapping transactions.** `CurrentRunIsRight`,
  `OnlyOverlapHidesACorrection`, `NoCorrectionSinceCommit`,
  `StaleOnlyWhenSuperseded`, `ReportsMissOnlyTheirOwnRace`, `CompilationEnds`
  (lock waits and deadlocks).
* **Curriculum: objects that outlive what they say.** Services save objects their
  callers loaded, without a lock, and check one table before they write another.
  What is adopted must have been reviewed all the same (`AdoptedWasReviewed`), a
  decision may be overruled by an old object only (`OnlyStaleObjectsOverrule`),
  withdrawal must stop new use (`WithdrawalStopsNewUse`) and leave old use alone
  (`HistoryStaysUsable`), and grades must keep their curriculum
  (`GradedContextFrozen`, `UnadoptedOnlyByDetour`, `OperationalIsAdopted`).
* **Schemas: whole-row saves and rounding.** A schema is saved from an object loaded
  earlier (`OnlyOverlapLosesDeprecation`, `BindsWithdrawnOnlyByOverlap`); bands are
  validated before they are rounded (`BoundMapsUniquely`), and a record's band must
  be the one of the version it names (`BandOfItsVersion`).
* **Reports: many inputs, one after the other.** The assessments of a report are listed
  once and checked later, query by query; everything a compilation read may change
  before the report copies its lines (`ReportsDriftOnlyUnwatched`,
  `EligibleMeansClear`, `ReportLinesAreWhole`), and two lists of rules must agree
  (`ReadyIffEligible`).
* **Projections: checks after queries.** What is shown must have been authorised at
  some moment (`ShownWasAuthorised`), what stays authorised must be shown
  (`KeptAuthorityIsServed`), and an answer must not mix two
  reports (`AnswerFromOneReport`) or call ready what was out of order throughout
  (`ReadyWasReady`).
* **Evidence and notices: objects that carry other objects.** A verdict may come while
  a copy is held (`ApprovalFollowsCleanVerdict`), duplicates may overlap
  (`ClustersSplitOnlyByOverlap`, `StorageSharedOnlyByOverlap`), cards are saved from
  old instances (`IssuedWhileVerified`, `AcknowledgementKept`), and announcements wait
  for a commit (`EvidenceAnnounced`).
* **Check-then-insert.** Sign-ups (`SchoolsKeepApart`, `RefusedForCause`,
  `WholeOrNothing`, `EveryRequestEnds`) and registers (`KeysStayUnique`,
  `OneSchoolThroughout`, `AssignedUnboundOnlyByOverlap`).

`PROJECT.json` lists each hazard at its source line. Parts of one claim are stated
separately and checked together; the configurations name the conjunction:

| Checked as | Its parts |
|---|---|
| `OnlyCrashesCost` | `CrashesExplainLosses`, `AttemptsBounded` |
| `RecordsTellTheTruth` | `TypeOK`, `ProcessedMeansHandled`, `DispatchedLeavesTrace`, `DeadLetterCountsRealAttempts` |
| `MarksAreOfficial` | `SubmissionTypeOK`, `AcceptedIsOfficial` |
| `AuditTellsTheStory` | `CorrectionTypeOK`, `AuditChain`, `EscalationDecides` |
| `FreshnessIsTrue` | `CompilationTypeOK`, `NoCorrectionSinceCommit`, `StaleOnlyWhenSuperseded` |
| `BandsStayTrue` | `SchemaTypeOK`, `BoundMapsUniquely`, `BandOfItsVersion` |
| `SchoolsStand` | `WholeOrNothing`, `SchoolsKeepApart` |
| `RegisterHolds` | `KeysStayUnique`, `OneSchoolThroughout` |
| `TruthIsReviewed` | `CurriculumTypeOK`, `AdoptedWasReviewed` |
| `UseFollowsAdoption` | `UnadoptedOnlyByDetour`, `HistoryStaysUsable` |
| `SharedOnlyByOverlap` | `ClustersSplitOnlyByOverlap`, `StorageSharedOnlyByOverlap` |
| `AcknowledgedOnce` | `OnePerKey`, `AcknowledgementKept` |
| `ReportsAreWhole` | `ReportingTypeOK`, `ReportLinesAreWhole`, `ReadyIffEligible` |
| `EntersInOrder` | `ReportsDriftOnlyUnwatched`, `EligibleMeansClear` |
| `ShownWasTrue` | `ShownWasAuthorised`, `AnswerFromOneReport`, `ReadyWasReady` |

## 2. Modules and code

    Delivery <-refined by- EventRelay <-- MCEventRelay <--+
                                                         MCOutbox
                           DispatchPlanner <-------------+

    GradeLedger <-refined by- Corrections <-- Compilation <-- MCCompilation
                                   ^
                                   +-- MCCorrections
                                   +-- MCSchool
    GradingSchema, Provisioning, Register <-- MCSchool

    CurriculumTruth <-- MCCurriculumTruth <--+
    CurriculumEvidence, CurriculumNotices <- MCCurriculum

    Submission <-- MCSubmission
    Reporting, Projections <-- MCReporting

    OutboxProofs           --> EventRelay, DispatchPlanner
    CorrectionsProofs      --> Corrections
    CompilationProofs      --> Compilation, CorrectionsProofs
    SchoolProofs           --> GradingSchema, Provisioning, Register
    SubmissionProofs       --> Submission
    CurriculumTruthProofs  --> CurriculumTruth
    GovernanceProofs       --> CurriculumEvidence, CurriculumNotices
    ReportingProofs        --> Reporting, Projections

Arrows point from a module to the one it extends. `MCOutbox`, `MCSchool`,
`MCCurriculum` and `MCReporting` check components that share no rows in one run: a
behaviour is of one of them (the variables `view`, `matter`, `story`, `desk`), while
the others stay where they began. Every property is thus checked on all behaviours of
its component, without the product of unrelated states.

`PROJECT.json` maps each definition to its lines. Operators introduced by
"Faulty variant of ..." belong to no specification: each is a plausible bug in the
operator that follows it, and substituting it breaks the property named for it.

### EventRelay

One action per statement of the relay. `pc[r]` is a relay's place in
`dispatch_pending_events`, `batch[r]` the rows `lock_pending_events` returned and
it has not come to, `event`, `index`, `number` the loop variables (`index` also
stands for `active_consumer`, which keeps its last value when the handler loop
ends: an error in `mark_event_dispatched` is therefore charged to the last
consumer).

* *Locking* is two statements: `PlanBatch` (SELECT and plan) and `LockBatch`
  (UPDATE by id). `PlanBatch` leaves open *which* ready rows are taken;
  `DispatchPlanner` says which.
* *Contracts.* `full_clean` runs on every save of an outbox row and refuses an
  inactive contract, so `MarkDispatched`, `MarkRetryable` and `MarkDeadLettered`
  have a branch each for it. Inside the `try` it is a `ValidationError` and a
  permanent failure; outside it ends the relay's pass (`Abort`).
* *Time* is abstract: `ripe` says that `available_at` has passed, `stale` that
  `locked_at` is older than the timeout. `BackoffElapses` and `LockExpires` let
  time pass for a row at any moment, so a lock can expire under a relay that is
  merely slow.
* *Refinement.* Module `Delivery` is what the outbox promises: an accepted event is
  served, then closed once as delivered or abandoned, and only mishaps cost a call.
  `KeepsThePromise` maps the row's status to its stage, the history of handler calls to
  who was served and crashes to mishaps; retries, locks, attempts and the relay's
  memory are stutters. With two relays it fails (section 6, item 3).
* *Simplified*: `record_consumer_failed` (`get_or_create` and a save) is one
  step; the finished status of an attempt row is not kept; attempt numbers and
  the history of handler calls saturate at named caps.

### DispatchPlanner

The data side of the same functions: rows numbered by `available_at`, any
`occurred_at` order, any priorities, any locks left behind by other relays. A
failure of a handler is `EventRelay`'s subject: every row taken is dispatched.

### Submission

Two halves. Sessions and the network: `BuildGradeGrid` fills the screen, `Send`
fixes what an edit was based on, `Deliver` hands a sent edit to an idle worker at
any time and any number of times. Workers: one transaction per delivery, with a
yield where another transaction may come in: after the lookup by key, after a
`select_for_update` that finds nothing, before the insert, and between the commit
and the `on_commit` callback. `ReplaceDraft` is one step because
`select_for_update` holds the row to the commit. The unique indexes are the guards
`MayInsertDraft` and `MayInsertBatch`; their violation rolls the request back.

The rows of a marksheet are the edit that wrote them; the payload hash is taken
to be injective. Validation of rows succeeds. Once a batch exists no edit of any
kind can add another, whichever path it takes through `submit_grade_batch`.

### Corrections

Each service is one action: `_get_correction_for_update` locks the correction,
the record and the assessment before anything is read. `create_correction_request`
takes no lock, but reads one row and inserts another. The pair (score, version)
stands for `correction_state_hash`, which covers exactly those. `Transitions` is
the reachable part of the table in `correction_transition_rules.py`. Roles are
sets of users: an HOD who also teaches is the interesting one.

Two things outside the workflow decide whether a correction can be applied (`Accepted`):
the bands of the schema the assessment is bound to by then (`banded`; with no schema, or
one without gaps, all scores) and whether the learner is still enrolled (`enrolled`).
Both change at any time (`RebindSchema`, `ChangeEnrollment`). A refusal rolls everything
back and leaves the correction approved. What `GradeRecord.clean` checks besides (tenants,
the batch's assessment and teacher) does not change after the submission.

Module `GradeLedger` is the abstract specification: a claim against an entry is made,
approved or refused once, and posted once; posting writes the claimed value as the
next version, and nothing else writes. `KeepsTheLedger` maps a record to its entry and
a request's status to its claim's (`ClaimAt`; an escalated claim is still pending).

### Compilation

Extends `Corrections` and splits what can overlap. `compile_assessment` is four
statements of a READ COMMITTED transaction: read, insert a run no one else sees,
mark the visible others stale (which locks their rows), commit. Django's foreign
keys are deferred, so the compilation touches the assessment row (KEY SHARE) only
at the commit; `apply_approved_correction` locks the assessment first and updates
the runs last. That is a lock cycle: `Deadlocked`, `AbortApply` and `AbortCompile`
are PostgreSQL breaking it. `ahead[c]` is the queue for a run's row: the compilations that
marked theirs earlier and still hold the rows (`WaitsForRow`). A report
run reads the latest run and the pending corrections in separate statements.

`created_at` order is taken to be insertion order. The completion event is written
after the commit, unless the callback is lost (`MaxLosses`) or the contract is
inactive. Readiness' other inputs are `Reporting`'s subject.

### Reporting

A compilation reads its inputs in one step (`ReadCompilationInput`) and writes its run
in another (`StoreCompilation`); enrolments, components, batches, corrections, the
assessment's status and schema and the curriculum facts change in between and after.
`later[a]` holds which of the time stamps that `detect_stale_compilation` compares are
later than `compiled_at`; `drift[a]` is the history of everything that did change.
A report loads the `Assessment` objects of its scope once (`BeginReport`): `listed[a]`
holds what the object says, its status, its schema and whether its last save is later
than the latest compilation; a save of the row does not reach it. The assessments are
then checked in the order of the list, each by the queries of
`_build_assessment_readiness`: the latest run (`LookUpRun`), batches and drafts
(`LookUpBatches`), corrections (`LookUpCorrections`), curriculum facts (`LookUpCct`) and
the schema (`CheckEligibility`), a step each; `check[a]` is what has been found.
`ReadinessStatus` and `ReportEligible` are the two sets of rules. `FinishReport` copies the
lines of the eligible runs. `against[a]` is a history: what in the rows themselves
(`Against`) spoke against the assessment at every moment of its check so far.

*Simplified*: batches and drafts are one step, since a draft counts without a batch
only, which already blocks; so are the curriculum facts, of which at most one holds at a
time, so that asking at once finds none where asking one by one does. What the marks say
and the numbers of the aggregates are left out.

### Projections

One actor, one request. A request looks up a role (`LookUpRole`), passes the gate of
its kind if it has one (`PassGate`), queries its scope, asks the policy about every
item and reads what it shows, a step each, in the order of the function of its kind
(`ReadinessKinds`, `CompilationKinds`, `AnalyticsKinds`, `ScopeFirst`). Meanwhile role
bindings, assignments, `is_active` of cohorts and learning areas, readiness and the newest
report change. `span` and `core` are histories: everything that held at some moment of
the request, and everything that held throughout.

Readiness is `amiss`, the set of facts that speak against an assessment: the status and
schema of its row, a save after the latest compilation, and what the queries of
`_build_assessment_readiness` find (`ReadinessQueries`). A request loads the assessments
with its scope (`compute_assessment_readiness` before anything else) and remembers the
status and schema they were loaded with (`item.loaded`); from there `LookUpFact` is one
query a step. The two projections of a principal and a deputy finish the readiness of one
assessment before they ask the policy about the next, the others ask about all first
(`CheckReadiness`, `ReadReadiness`). For readiness the histories start when the
assessments are loaded. Two answers of the code are finer than `amiss` and are left open
within its bounds (`Answers`): whether a save was later than the compilation when
the object was loaded, and which schema the loaded object meant.

### GradingSchema

`CreateSchoolGradingSchema` validates the bands as sent and stores them rounded: a
percentage is counted in half steps of the stored precision, so a payload may name a
value between two storable ones (rounded half away from zero). `LoadRows` and then `Activate...`,
`Deprecate...` or `Bind...` are the load and the whole-row save of one call. `MapRecord`
is what an applied correction does to the record's band. The other things that
`Assessment.clean` checks are taken to be in order, and `LOCKED`, which nothing sets,
is left out.

### Provisioning

`at[r]` is a sign-up's place in `_provision_in_public_schema`. `Look` is an `exists()`
query or the uniqueness checks of a `full_clean`, `Put` an INSERT. A check sees what is
committed (and its own rows); an INSERT waits while another open transaction holds the
same unique value (`Waits`) and fails if it is committed (`Violates`). `GetRole`, `Look`
at `clean_role` and `PutRole` are `get_or_create`, whose `Role.save` runs `full_clean`.
What a request asks for stays data: spellings are mapped by the constants
`NormalDomain`, `Lowered`, `Subdomain`, `NormalEmail` and `Stem`, which stand for the
normalisations. The random school code never collides; random schema endings may.

### Register

`Clean` is a creation service up to its last `full_clean`, `InsertEntry` the INSERT or
its `IntegrityError`. `Row` gives each row that may be created its columns; `CleanEntry`
is the `clean` of its kind, `UniqueKeys` its constraints. `Unbind` switches a teacher's
role off. Nothing in the repository changes or removes a row of the register.

### CurriculumEvidence

`office[o]` is what a request has loaded or checked: `CheckSubmission` and
`InsertSubmission` are the lookups and the insert of a submission;
`CreateVerificationReport` takes the evidence object it is given, scores it, inserts
the report and saves the object whole; `RecordDecision` reads the scan verdict from the
copy the report object carries. `Scan` is the external scanner. Events owed by
committed rows are in `owed` until `WriteEvent`, or lost in `OfficeCrash`. `Score` is
the arithmetic of `score_verification_confidence` over all claims.

### CurriculumNotices

One notice and one school: nothing looks across two of either. `desk[k]` is the
instance a request holds, of the notice or of a card; a card that was just built
carries the notice it was built from, one that was loaded fetches it when `clean` first
asks. `oldNotice` and `oldCard` say that the row was saved by somebody else since, and
`swept` that such an instance was saved all the same.

### CurriculumTruth

A worker is one call of a service. `job[w]` is the object the caller passed in: a
change set being reviewed (with the status it had when it was loaded or last
saved), an adoption that has passed its checks, an assessment being edited or
about to be written, a submission under way. A change set is saved in one step,
because its validation reads no other table; `Publish` writes publication and
change set in one transaction, and the conditional unique index is its guard.
Adoption and `Assessment.save` are two steps each, the reads and the write, so that
withdrawals, publications and submissions come in between. The reads of one
validation are taken together: adoptions, withdrawals and grades only grow and the
publication is read once, so reads that pass one after the other all held at the
moment the publication was read. (`_active_publication_for_version` and
`SchoolCurriculumAdoption.clean` read it twice; the later read decides.)

`Adoptable` is what the model's `clean` demands of a scheduled or active adoption,
`Bindable` what grading demands of a new binding, `BindingValid` adds the exception
for preserved context, `ContextMutable` is immutability after grading. The variable
`history` records facts about the past that the properties speak of (who held an
old object, who was past a check when a withdrawal committed, what a draft save
relabelled); no guard reads it.

*Simplified*: `closed` stands for locked, submitted, approved and archived, which
the code treats alike; learning area and rubric are taken to fit, versions to stay
active; a submission is one teacher's (`Submission` has the details). Withdrawal
changes no status of an adoption, as in the code.

## 3. Runs

| Run | Instance | Distinct states | Shows |
|---|---|---|---|
| `relay_single` | one relay, two events (one with two consumers, one whose only consumer is not allowlisted), batch 2, 3 attempts, 2 crashes; beside it 4 rows, window of 3, every order, two priorities, every lock | 176,445 | Only crashes lose or repeat anything, each at most one thing, or buy an attempt; the outbox implements `Delivery`: every event is settled in the end, once and for all. FIFO inside a priority while what is left beside the batch fits the rest of the window; the backlog drains. |
| `relay_fleet` | two relays, one event, two consumers, all four handler outcomes, 1 crash, 1 contract change | 1,149,994 | What survives overlap: consumer rows tell the truth, dispatched events have asked everyone, dead letters claim real attempts. |
| `relay_crash_skips_handler` | one relay, one crash | violation | A consumer left `started` by a crash is skipped for ever and the event counts as dispatched. |
| `submission` | 3 saves, 2 submissions under one key, at most 4 sent, 2 workers | 802,893 | Accepted submissions are the official ones, versioned saves replace only what they saw, submitted drafts are kept, batches are announced unless a callback is lost. |
| `submission_lost_event` | one submission, one lost callback | violation | A batch whose callback is lost is never announced, retries included. |
| `school_records` | corrections: 2 requests on 2 records, 3 users of whom one has two roles, 2 scores, a schema with a gap or none, one learner who may leave and return; schemas: 1 schema, 1 assessment, 2 bands, percentages in quarters, 2 workers, 4 calls; sign-ups: 2, of 5 kinds; register: 12 rows of 2 schools, 2 clerks, 1 teacher | 194,190 | Separation of duties, the audit chain, the ledger; an approved correction is applied unless it changes nothing, has no band or has lost its learner; bands that map uniquely and are not lost but by overlap; schools that are whole, apart, and refused for cause; a register with unique keys that never mixes schools. |
| `corrections_stale_basis` | 2 requests on 1 record | violation | The second correction is applied to a state nobody reviewed. |
| `compilation` | 2 compilers, 1 correction, 1 reporter, 3 runs, 1 lost callback | 362,151 | Which overlaps can hide a correction, why a run is stale, what a report can miss; every compilation ends and is announced unless its callback is lost. |
| `compile_misses_correction` | 1 compiler, 1 correction | violation | A run that counts as complete lacks an applied correction. |
| `curriculum` | truth: 1 change set, 2 versions of which one is never published, 1 school, 1 assessment, 2 workers, 7 calls, 2 publications; evidence: 2 schools, 1 document, 1 upload, 2 officers, 3 submissions, 4 steps; notices: 2 clerks, 2 cards, 7 saves | 1,295,899 | Only reviewed truth is adopted; old objects alone overrule decisions; withdrawal stops new use and spares old use; graded context is frozen but for old objects. Approvals follow a clean verdict, duplicates are found unless they overlap, cards are issued on verified notices and stay acknowledged but for old objects. |
| `curriculum_draft_detour` | the first story with 1 worker, 5 calls | violation | An assessment taken back to draft, given another version and opened again is in use with a version its school has not adopted. |
| `reporting` | reporting: 2 assessments listed in a fixed order (one settled; the other new, or compiled and already carrying a schema or a correction), 2 learners, 2 schemas, 2 changes, 1 report of both or of none; projections: 3 assessments in 2 cohorts and 2 areas, 2 learners, 4 placements, 1 change during the request | 1,772,024 | A report copies whole assessments, good as new but for what nothing watches and what its list missed; readiness and eligibility agree; every projection but one shows what was authorised and hides nothing that stayed so. |

A violation run checks one property that a document of the repository states; its
counterexample is the shortest behaviour that breaks it (findings in
`PROJECT.json` quote the document).

**Why the bounds are enough.** Relay: the longest chains need one more attempt than
crashes and retries together, so 3 attempts and 2 crashes reach "died twice and
still dead-lettered"; the caps lie above everything a passing property compares.
An event without handlers is dispatched as soon as its
attempt is inserted; the proofs cover it, no run does. Two relays on one row are the whole of the contention, because the row's state is
the only thing relays share about it. Planner: 4 rows against a window of 3 is the
smallest instance in which the window hides a row; the batch is one row there, and the
proof covers larger ones. Submission: three saves are
needed for a save to be two versions behind, two submissions under one key for a
reused key, two workers for every pairwise race; a session that looks twice plays
two sessions, as screens are only copied into sent edits. No behaviour sends all
five edits (`MaxSent`), but every four of them are sent, and every property
relates at most three edits. Saves in this instance have distinct keys; a key
reused among saves with different rows is refused at the lookup or by the index and
changes nothing. Corrections: two requests can be about one record or two; one schema
with a gap beside full coverage (`Bandings`) and one learner who moves (`Movers`) are
each enough for either refusal to come, go and come again. Requests are alike, so the
first is about the learner who moves (`Requested`).
Compilation: two compilations and one application are the smallest instance with
both lock waits and deadlock; three runs let a stale run exist before both.

Curriculum: a worker that holds an old object and one that makes it old are the whole
of the contention about a row. Seven calls (`MaxCalls`) are the five that take an
assessment to use (review, schedule, activate, open, submit; a reviewer keeps its
object from approval to publication) and two more to disturb any of them; steps that
need no loaded object (creation, supersession, withdrawal) are not counted. Two
publications (`MaxPublications`) let a version be published again after a
supersession. The unpublished version is what a detour can lead to.

School records: two requests, workers, sign-ups or clerks are the whole of a race
about one row; conflicts about unique values are pairwise (the proofs cover any number
of sign-ups and clerks). Percentages in quarters with two bands reach every way bands
can touch, overlap or leave a gap after rounding; four calls are activate, deprecate,
and one more of each by the other worker. The run has one schema: that a record keeps the
band of its version when the assessment is bound to *another* schema is covered by
`BandsStayTrueAlways`, for any number of schemas. The five sign-ups are two of one address, two
of one name, two of one subdomain, two whose names give one schema name, and one with a
reserved subdomain. Reporting: one assessment changes while
the other is settled (`Settled`), which is what it takes for a report to hold both; the
changing one is checked first (`ListOrder`), so that changes also fall between its check
and the copy of its lines. A report of nothing (`Scopes`) ends as blocked. Two changes (`MaxChanges`, steps of the two services not counted) put a blocker in
and take it out, or make two facts alternate, from every starting state (`ReportingInit`).
One change during a projection (`MaxEvents`) falls between any two of its steps, from
every starting state; the readiness facts of one assessment change (`Volatile`), and of
the four curriculum facts one, since the queries treat them alike. An answer that needs
two changes between its steps is beyond the instance and left to the proofs. Evidence: three submissions let a
cluster have an original, a duplicate and one more that overlaps.

Symmetry (of workers, callers, learners or schemas) is used in `submission`, `curriculum` and
`reporting`, which check no liveness. Deadlock checking
is off wherever the system may rest: all edits delivered, all rows settled, no
request open.

## 4. Fairness

* *Relay* (`relay_single`): weak fairness of each relay's steps, because the
  management command is run periodically and each handler call ends; weak fairness
  of time. Nothing is assumed of producers, operators and crashes. Contracts stay
  active in this run, see observation 2.
* *Planner* (in `relay_single`): the relay goes on and locks expire
  (`PlannerFairness`; every behaviour is finite).
* *Submission* (`submission_lost_event`): transactions go on, and clients retry for
  ever (strong fairness of each delivery: workers are busy in between). The batch
  stays unannounced even so.
* *Corrections* (in `school_records`): reviewers answer what is in their queue and somebody
  applies what is approved. No request need be made or escalated, no learner need come
  back and no schema be bound.
* *Compilation*: statements go on, the database breaks deadlocks, applications
  end. `CommitRun` is strongly fair: PostgreSQL queues lock requests first come,
  first served, so a waiting commit is next once the holder has gone, whatever
  applications come after. Starting a compilation is not fair.
* *Provisioning*: each request's own steps are weakly fair: its process carries it on. An
  INSERT that waits is not enabled; that it is enabled again is what
  `EveryRequestEnds` shows. No fairness of losses or of `ensure_default_roles`.

The abstract `DeliverySpec` has a weak fairness of its own (every accepted event is
closed), which `KeepsThePromise` shows to follow from the relay's. `GradeLedger`,
`Reporting`, `Projections`, `GradingSchema`, `Register`, evidence and notices promise
no progress: their steps are requests that nobody need make.

## 5. Proofs

Every safety property that a passing run checks is a theorem, for every value of the constants
that the modules' assumptions allow. The theorems by component:

| Theorem | Module | For every |
|---|---|---|
| `TypeCorrect`: `Spec => []TypeOK` | `OutboxProofs` | set of events, contracts, consumers, relays; every handler list, allowlist, batch size, retry limit and bound |
| `ProcessedIsTrue`: `Spec => []ProcessedMeansHandled` | `OutboxProofs` | the same |
| `DispatchIsTraceable`: `Spec => []DispatchedLeavesTrace` | `OutboxProofs` | the same |
| `DeadLetterIsBacked`: `Spec => []DeadLetterCountsRealAttempts` | `OutboxProofs` | the same |
| `RecordsAreTrue`: `Spec => []RecordsTellTheTruth` | `OutboxProofs` | the same; the four together |
| `OnlyCrashesCostAlone`: `Alone(r)` implies `Spec => []OnlyCrashesCost` | `OutboxProofs` | the same, for one relay (see below), any number of crashes |
| `DeliversAlone`: `Alone(r)` implies that `Spec` implements `Delivery` without its fairness | `OutboxProofs` | the same, for one relay |
| `FifoAlways`: `PlannerSpec => FifoWithinPriority` | `OutboxProofs` | backlog, batch size, priorities, locks |
| `FourEyesAlways`: `CorrectionSpec => []FourEyes` | `CorrectionsProofs` | users, roles (overlapping as they like), records, requests, scores |
| `RecordsChangeByApplication`: `CorrectionSpec => OnlyAppliedChangesRecords` | `CorrectionsProofs` | the same |
| `WorkflowImplementsLedger`: `CorrectionSpec => KeepsTheLedger` | `CorrectionsProofs` | the same |
| `AuditIsTrue`: `CorrectionSpec => []AuditTellsTheStory` | `CorrectionsProofs` | the same |
| `MarksAreOfficialAlways`: `Spec => []MarksAreOfficial` | `SubmissionProofs` | edits, keys, sessions, workers, duplicates and delays |
| `AnnouncedUnlessLostAlways`: `Spec => []AnnouncedUnlessLost` | `SubmissionProofs` | the same |
| `SubmittedDraftsStay`: `Spec => SubmittedDraftsAreKept` | `SubmissionProofs` | the same |
| `SavesSeeWhatTheyReplace`: `Spec => VersionedSavesSeeWhatTheyReplace` | `SubmissionProofs` | the same |
| `FreshnessIsTrueAlways`: `Spec => []FreshnessIsTrue` | `CompilationProofs` | runs, compilations, reports, requests (finitely many) |
| `OnlyOverlapHides`: `Spec => []OnlyOverlapHidesACorrection` | `CompilationProofs` | the same |
| `CompletionAnnouncedAlways`: `Spec => []CompletionAnnouncedUnlessLost` | `CompilationProofs` | the same |
| `ReportsMissTheirOwnRace`: `Spec => ReportsMissOnlyTheirOwnRace` | `CompilationProofs` | the same |
| `CompilationLeavesWorkflowAlone`: `Spec => [](AuditTellsTheStory /\ FourEyes)` | `CompilationProofs` | the same |
| `BandsStayTrueAlways`: `SchemaSpec => []BandsStayTrue` | `SchoolProofs` | schemas, band lists, percentages, administrators, calls |
| `DeprecationLostByOverlap`: `SchemaSpec => []OnlyOverlapLosesDeprecation` | `SchoolProofs` | the same |
| `WithdrawnBoundByOverlap`: `SchemaSpec => BindsWithdrawnOnlyByOverlap` | `SchoolProofs` | the same |
| `SchoolsAreWhole`: `ProvisioningSpec => []WholeOrNothing` | `SchoolProofs` | number of sign-ups, requests, spellings and endings |
| `SchoolsStayApart`: `ProvisioningSpec => []SchoolsKeepApart` | `SchoolProofs` | the same |
| `SchoolsStandApart`: `ProvisioningSpec => []SchoolsStand` | `SchoolProofs` | the same; the two together |
| `RefusalsHaveCause`: `ProvisioningSpec => []RefusedForCause` | `SchoolProofs` | the same |
| `UniqueKeysStay`: `RegisterSpec => []KeysStayUnique` | `SchoolProofs` | rows, clerks and teachers |
| `SchoolsDoNotMix`: `RegisterSpec => []OneSchoolThroughout` | `SchoolProofs` | the same |
| `RegisterIsSound`: `RegisterSpec => []RegisterHolds` | `SchoolProofs` | the same; the two together |
| `AssignmentsNeedARole`: `RegisterSpec => AssignedUnboundOnlyByOverlap` | `SchoolProofs` | the same |
| `CurriculumTypeCorrect`: `Spec => []CurriculumTypeOK` | `CurriculumTruthProofs` | change sets, versions, schools, assessments, workers and bounds |
| `OnlyReviewedTruthIsAdopted`: `Spec => []AdoptedWasReviewed` | `CurriculumTruthProofs` | the same |
| `TruthWasReviewed`: `Spec => []TruthIsReviewed` | `CurriculumTruthProofs` | the same; the two together |
| `GradedContextIsKept`: `Spec => []GradedContextFrozen` | `CurriculumTruthProofs` | the same |
| `UseFollowsAdoptionAlways`: `Spec => []UseFollowsAdoption` | `CurriculumTruthProofs` | the same |
| `WithdrawalStops`: `Spec => WithdrawalStopsNewUse` | `CurriculumTruthProofs` | the same |
| `OnlyStaleObjectsOverruleAlways`: `Spec => []OnlyStaleObjectsOverrule` | `CurriculumTruthProofs` | the same |
| `ApprovalFollowsCleanVerdictAlways`: `EvidenceSpec => []ApprovalFollowsCleanVerdict` | `GovernanceProofs` | schools, documents, uploads, officers, submissions |
| `EvidenceAnnouncedAlways`: `EvidenceSpec => []EvidenceAnnounced` | `GovernanceProofs` | the same |
| `SharedOnlyByOverlapAlways`: `EvidenceSpec => []SharedOnlyByOverlap` | `GovernanceProofs` | the same |
| `IssuedWhileVerifiedAlways`: `NoticesSpec => []IssuedWhileVerified` | `GovernanceProofs` | clerks, cards, saves |
| `AcknowledgedOnceAlways`: `NoticesSpec => []AcknowledgedOnce` | `GovernanceProofs` | the same |
| `ReportsAreWholeAlways`: `ReportingSpec => []ReportsAreWhole` | `ReportingProofs` | assessments, list orders, learners, schemas, changes, reports |
| `EntersInOrderAlways`: `ReportingSpec => EntersInOrder` | `ReportingProofs` | the same |
| `ShownWasTrueAlways`: `ProjectionSpec => []ShownWasTrue` | `ReportingProofs` | assessments, cohorts, areas, learners, placements, changes |
| `KeptAuthorityIsServedAlways`: `ProjectionSpec => []KeptAuthorityIsServed` | `ReportingProofs` | the same |

The assumptions are the named ones of the modules (`RelayAssumption`,
`PlannerAssumption`, `CorrectionAssumption`, `SubmissionAssumption`,
`CompilationAssumption`, `SchemaAssumption`, `RegisterAssumption`,
`CurriculumAssumption`, `EvidenceAssumption`, `NoticesAssumption`,
`ReportingAssumption`, `ProjectionsAssumption`; the proofs about provisioning need none).
TLC evaluates them on every run. They give the constants their types and say which model
values differ; the only one that excludes a database is that the requests of
`CompilationAssumption` are finitely many, so that applied corrections can be counted.
Each inductive invariant below was checked with TLC on the instance of its run before it
was proved.

*Relays that race.* `TypeOK` alone is not inductive: `Handlers(event[r])[index[r]]` must
be a consumer. `Base` adds `JobShape`: a relay at a consumer step has an event and
an index inside its handler list; a relay at any other working step has an event and
an index of 0 or inside the list; between events the index is 0. `RelayInv`
adds what each relay *knows*, which other relays' steps must not disturb: at
`recording` its handler has returned (history counts only grow); at `handling` the
consumer's row exists; behind `index` every consumer has a row, and at `finishing`
all of them have; its `number` is at most one more than the attempts counted, and
once it has inserted its attempt, at most the attempts. `FactsOfOthers` carries
these through another relay's step, `FactsOwnStep` through its own, and
`ProcessedStep` and `SettlingStep` carry the three properties. Rows are never
deleted and history never shrinks (`HistoryGrows`): that, and no lock, is what makes
the proof go through for overlapping relays.

*A relay alone.* `OnlyCrashesCost` is false for two relays (section 6, item 3), for a
contract switched off (item 2) and for an error the relay does not classify (item 5), so
its theorem has the hypothesis `Alone(r)`: one relay, contracts that stay active, no
handler outcome "unexpected". That is how `relay_single` checks it, and what a deployment
with one worker does. The loss of a crash shows long after the crash, when the event is
closed. `CrashesPay` therefore charges it at once: `Lost` are the consumers whose row says
`started` though nobody is serving them, `Again` the handlers that a later pass will call
once more (`Calls` counts that call before it happens), `Unrecorded` the dead letters
without a record, and together they are never more than the crashes. `AloneCrashes` adds
one element to one of them; every other step moves an element at most from what is owed to
what shows. The rest says why nobody else interferes: the rows in the relay's hand
(`RowsInHand`), the attempts left (`AttemptsLeft`), the rows of consumers
(`RowsOfConsumers`, `RowsAtHand`).

*Delivery.* `DeliversAlone` maps the same invariant's steps to `Delivery`: a producer's
step accepts, a handler's return serves, a dispatch or a dead letter closes, a crash is a
mishap, everything else stutters. The guard that a delivered event has left at most as
many consumers unserved as there were crashes is `CrashesPay` once more, for one event. The
liveness of `DeliverySpec`, the rest of `KeepsThePromise`, is TLC's.

*Planner.* `InTurn`: if the rows nobody holds fit what the window has left, no ready row
should have been planned before one of the batch. When a batch is planned, a row that
precedes a planned one and was in the window precedes it in the plan too, since fewer rows
come before it (`Earlier` is transitive); that a plannable row falls inside the window is a
count of the rows before it, and that the plan is no longer than the batch an injection
of it into `0..PlanSize - 1`. The attempt to prove it showed that the property as it
stood, "the rows not yet dispatched fit the window", is false for batches of more than
one row: the window is cut when the batch is *planned*, and the rows dispatched since had
shrunk the backlog below it. It now counts the rows beside the batch, which for the batch
of one row in `relay_single` is the same.

*Corrections.* `FourEyes` speaks of rows from approval on, but a step that applies
a row must know its reviewer: `CInv` is `FourEyes` with `RowsOK`, the record types
and the range of the request function. `ChangeStep` shows that under `CInv` every
step is one of four services, a change of enrolment or binding that touches no record,
or a stutter, and a record changes in one of them only. The refinement
rests on the same invariant: each service maps to one step of the ledger (`Make`,
`Settle`, `Post`) or, an escalation, to a stutter. For the audit, `Chained` states the
chain of one record over an arbitrary set of rows, so that appending a row for one
record leaves the chains of the others as they were (their sets do not change), and
`EscalationOnRecord` says which statuses mean that the audit holds an escalation.

*Submission.* `DraftInv` says that a screen, or an edit sent from it, is `Faithful`: its
version is at most the draft's, and if they are equal so are the rows. Drafts that only
move on (`MovesOn`) keep every screen and every delayed edit faithful, which is all that a
version check needs. `WorkInv` says what a worker carries from step to step, `BatchInv`
ties the one batch to the workers about to announce it and to the answers given.

*Compilation.* The number of applied corrections serves as a clock. What a compilation has
read, and what a run says, is `Timely`: if the clock has not moved since it was read, it is
what the records say. A run that counts was committed at the present time, because an
application makes all of them stale and the lock order lets none through in between; a
stale one was committed earlier, or beside another (`RunsInv`). `WorkersInv` says that an
inserted run is open and its compilation's alone, `MarksInv` that only visible runs are
marked and who queues behind whom, `ReportInv` that a report remembers when its run was
committed, `OneLock` that one application at a time holds the assessment. Each step is
proved in parts: runs and compilations (`RunsStep`), marks and queues (`MarksStep`), news,
reports.
`CInv` and `AuditInv` are part of the invariant, so the workflow's guarantees hold beside
compilations and aborted applications.

*Schemas.* Bands that are apart from their neighbours are apart from each other, and bands
that touch their neighbours leave no gap (by the greatest lower end at or below a
percentage): two lemmas about band lists, without induction. `ActiveIsSound` says that a
schema is active only with bands that pass *as stored*; `HeldIsRow`, that a loaded object
is the row as it was, sound if active, and equal to the row while the row's revision is the
object's. That carries soundness from the validation through objects however old to the
bindings (`BoundIsSound`) and to the records' bands (`MappedByVersion`).

*Provisioning.* `ProvisioningInv` adds to the properties which rows a transaction has at
each step (`RowsFollow`), that two rows with a common unique value never exist at once,
committed or not (`RowsApart`, which is what waiting for an uncommitted row is for), and
that a binding is reached only with a role that is committed or the transaction's own
(`RolesStand`).

*Register.* `RegisterInv` says that what is registered has been clean, and that what a
clerk is about to insert is clean as well, its references registered, and its teacher
bound or recorded in `unbound`. One level of `OwnTenant` at each row then gives any depth.

*Curriculum: review.* A publication is guarded by the status in a worker's *object*, and an
adoption is written after its check. `IInv` therefore adds to `AdoptedWasReviewed`
that every approved status, in the table or in an object however old, was committed
once (`ApprovalsRecorded`), and that a call about to write an adoption has seen a
publication, which is never deleted (`ChecksSawPublication`). `OnceInv` says of every
change set that no old object was saved over that its status tells whether it has no
publication or one, and of every object not out of date that its status is the row's.

*Curriculum: context.* For graded context, `FrozenInv` says what an object that is *not*
out of date guarantees (`FreshObjects`): as loaded it equals the row; validated, it keeps
the row's binding time and, if the assessment is graded, its version. `SubmittersSawLock`
carries the binding time from the submission's read to its commit. `UseInv` says what a
binding time vouches for: unless a stale object or a draft detour touched the row, the
version beside it is adopted (`LockVouches`), and a fresh object past its checks puts an
adopted version in the row or the one that is locked there (`FreshUse`). `PastChecks` says
that a call about to use a withdrawn version passed its checks before the withdrawal, or
keeps what the row is locked to.

*Evidence.* A look-up, and the row inserted from it, depends on the rows before it only
(`Informed`, `Attached`), and rows keep what look-ups read. The first row of a document
is unique, so two rows that both saw it are in one cluster: what is in two did overlap.
`OwedInv` says that no request begins a second commit with an event unwritten; `ScanInv`
that rows and objects not out of date carry the scanner's last word.

*Notices.* `NoticeFresh` and `CardFresh`: an instance nobody has overtaken says what its
row says, and the row what review said last, unless an old instance was saved. Marking
the others' instances as old at each save is what keeps both.

*Reporting.* `DriftIsSeen`: whatever changed since a run's inputs were read is unwatched,
or changed during the compilation, or is later than it, which is what the blockers look
for. `ListedHolds` says what a listed object still vouches for: unless its row was saved
since, the status and the schema it carries are the row's, and a save later than the run is
one it knows of. `CheckHolds` brings the two together in the midst of a check: what had
changed when the run was looked up is excused, or already found (`DriftMet`). `RunsCover`
says that a complete run has its whole roster, and `ReportHolds` carries that to the
report's lines, by when the runs may have been replaced. For `EligibleMeansClear`,
`AgainstFound` says that what spoke against the assessment all along has been found by
every query that looks for it and was passed (`CheckMoves` lists how a check moves).

*Projections.* What the histories have collected bounds what a request may have found:
`core` is below the present tables, they are below `span`. `RoleInv` and `ShownInv` say
that what is found was held at some moment, `ServedInv` that what is held throughout is
shown or still to be asked about, kind by kind; `Steady` is the case in which the one
teacher's projection authorised by its first line shows everything. `ReadingInv` says that
a fact amiss throughout was loaded with the assessment or is found by its query: an
assessment called ready, and one not blocked so far, has no such fact among those
passed (`Passed`).

*What the proofs changed in the models.* Apart from `FifoWithinPriority` above: some
operators were a `CASE` with overlapping guards, whose value TLA+ leaves open where the
code takes the first match; they are now `IF` chains (`ReviewSeen`, `ReviewStatus`,
`CompilationStatus`, `ReportStatus`, `SchemaBlockers`, `ReadinessStatus`, `ReadScope`).
`KeptAuthorityIsServed` now says of which roles an actor must keep all, namely those its
projection asks for. The queue for a run's row became the variable `ahead`.

*Only model-checked.* Liveness (`BacklogDrains`, `ApprovedIsAppliedOrRefused`,
`CompilationEnds`, `EveryRequestEnds`, and the liveness in `KeepsThePromise`): the prover
does not support fairness, which is defined with ENABLED. The properties of the violation
runs are false by design.

## 6. Observations

Met while reading the code closely enough to model it. Those of item 1 have a run.

1. *With a run:* a crash inside a handler makes the next dispatch skip it
   (`EV` 470); the announcement of a batch is not in the batch's transaction
   (`GS` 1345); a correction is applied to a state it was not reviewed against
   (`GS` 891); a compilation can miss a correction (`GS` 1412); an assessment can be
   in use with a version its school never adopted (`grading/models.py` 259).
2. An event whose contract is inactive is retried without end: every save of the
   row raises, also those that would record the failure (`events/models.py` 135;
   compare `EVENT_BACKBONE.md` 29-31). `KeepsThePromise` therefore assumes
   contracts that stay active.
3. With two relays `KeepsThePromise` fails, safety included: the UPDATE that
   locks names ids only (`EV` 296; compare `dispatchers.py` 4), so a relay that
   planned early takes over a fresh lock or reopens a dispatched row. It is
   checked for one relay. For the same reason one consumer's handler may be running in
   two relays at once (`EV` 400).
4. A crash between the two statements of `move_event_to_dead_letter` (`EV` 370)
   leaves a dead-lettered row without its record (one of the losses that
   `CrashesExplainLosses` counts).
5. An exception a handler raises that is neither retryable, permanent nor a
   `ValidationError` leaves the consumer `started`, exactly as a crash does.
6. The plan is by priority, but locked rows are returned by `occurred_at` (`EV`
   301), and the window is cut by `available_at`: an urgent row can wait for less
   urgent ones (compare `priority_ordering.py` 3-4).
7. A save that names no version replaces everything (`draft_merge.py` 18; compare
   `GRADING_ENGINE.md` 51-53). A draft made after a submission starts at version 1
   again, so a delayed save based on the submitted draft may match it: the one exception
   of `VersionedSavesSeeWhatTheyReplace`.
8. `apply_approved_correction` refuses for three causes that arise after the approval:
   the correction proposes nothing, or what the record already says (`GS` 889); the schema
   bound by now has no band for the new score (`GS` 899); or the learner is no longer
   enrolled (`GS` 919 runs `GradeRecord.clean`, `grading/models.py` 1024-1036). The
   correction stays approved, no service closes it, and it blocks readiness while the cause
   lasts, in the first case for good unless another correction changes the record.
   `ApprovedIsAppliedOrRefused` says that nothing else keeps it.
9. A report can be built from a run that a correction makes stale between the
   report's two reads (`GS` 1588; compare `REPORTING_ENGINE.md` 35).
   `ReportsMissOnlyTheirOwnRace` states what is left.
10. Of two overlapping compilations the one that read earlier can commit later and
    mark the newer run stale, or both stay complete.
11. A rejection can be overruled by a reviewer who loaded the change set before it,
    and an old approved object can publish a second time once the first publication
    is superseded (`CS` 420): `OnlyStaleObjectsOverrule` says that nothing else can.
12. A call past its checks still schedules, activates or binds a version withdrawn in
    between (`CS` 542), and a save of an old assessment object can erase a binding
    time or undo a version (`grading/models.py` 233).
13. A deprecated grading schema makes every later save of an assessment bound to it
    fail (`grading/models.py` 206), also one that only closes it. A deprecated schema can be
    activated again; the mark of the deprecation stays unless two saves overlap.
14. *Reports.* A report checks `Assessment` objects it listed earlier (`GS` 2411-2420): one
    that is saved, put back to draft or bound anew between the list and its check enters the
    report all the same, since its status (`GS` 1712), schema (`GS` 1663) and `updated_at`
    (`GS` 1698) are the old ones. `ReportsDriftOnlyUnwatched` and `EligibleMeansClear` name
    exactly this exception (`saved`). A failed compilation is never stored: `build_component_summary` raises and
    rolls back. A record outside the roster makes a compilation partial only. Enrolments
    and components that change after a compilation are not noticed
    (`ReportsDriftOnlyUnwatched`). An app impact of severity "review" still blocks, and
    nothing in the repository moves an impact or a rollback plan out of `planned`. Locking
    an assessment makes its run stale, while compiling needs it open. The lines'
    `internal_band_label` is read from a field that `Assessment` does not have and is
    always blank.
15. *Projections.* The subject teacher's aggregates are chosen by learning area alone, by
    no role and no assignment (`GS` 2756; compare `GRADING_ENGINE.md` 214-215,
    `REPORTING_ENGINE.md` 43-44, `SECURITY_MODEL.md` 203-204), so `ShownWasAuthorised`
    leaves them out; the class teacher's analytics have aggregates of the cohort only,
    behind the gate. Readiness is put together from
    queries of different moments about an assessment loaded earlier, so what is called ready
    may have been ready at no one moment; `ReadyWasReady` says what is left, namely that no
    single fact was amiss all the time. An assignment counts only while its cohort and its
    learning area are active (`policies.py` 101-102), but scopes are queried without that
    condition. `_latest_report_snapshot_run` ignores scope and term; the teacher's compilation
    projection is authorised by its first summary; summaries of superseded runs are still
    listed; the class teacher's analytics accept an assignment of any term.
16. *Evidence and notices.* Contradictory governance decisions about one report may
    stand side by side; nothing reads them. Impact plans may be made for a report that
    was rejected. A card built from a diff or an impact counts as approved without a look
    and is outside the unique constraint (its notice is NULL), which also holds the
    `notification_type`: a notice has one card per school of each type. Nothing reviews a
    `RegulatoryNotice` after it was registered.
17. *Provisioning.* The `full_clean` of `Role.save` raises `ValidationError`, which
    `get_or_create` does not answer: of two first sign-ups with nothing in common one may
    fail (`RefusedForCause` names the case). A taken school name surfaces as a
    `ValidationError`, not as the generic `ValueError`. `create_user` sets
    `is_staff=False` though `True` is passed. `--skip-if-exists` compares the lowered input,
    so a URL or a trailing dot is never skipped. `get_or_create` would reuse a PRINCIPAL
    role that is switched off.
18. *Register.* Nothing checks that the term or cohort of an enrolment belongs to its
    academic year.

## 7. What is not modelled

* Payload, name and producer validation of events: stateless tests of one value.
  Audit events: one insert, never read back.
* The numbers of snapshots, ranks, aggregates and projections: arithmetic on rows that
  no longer change. Means and distributions of a compilation's summary likewise.
* Tenant isolation: every query is filtered by tenant, and each model is about one
  tenant but for `Provisioning`, `Register` and `CurriculumEvidence`, where schools meet.
* Curriculum rollback plans (`CS` 589-624) and the notice batch run (626-673); diffs,
  impact assessments and readiness requirements of notices; curriculum structure and the
  source registry: single inserts guarded by model validation that no later service
  changes or decides by.
* `create_curriculum_publication` called directly with `workflow_approved=True` (`CS`
  368-396): only tests do. It would publish a version without a change set, and
  `AdoptedWasReviewed` speaks of publications made by `publish_curriculum_version`.
* The `on_commit` events of adoption and withdrawal (`CS` 520): `CurriculumTruth` keeps no
  events, and `EvidenceAnnounced` is about the evidence services alone.
* Changes of several readiness facts during one projection beyond `MaxEvents`: by proof only.
* The creation of a tenant's database schema (`django_tenants`), which may fail like any
  other statement (`LoseRequest`).
* Grade levels: they belong to no school and refer to nothing.
* Policies, middleware, metrics, tracing, views, settings: per-request code whose
  effect appears as sets of users, or nowhere. `bus` and `disciplinary` are empty.
* Database behaviour is modelled from how the code uses it: READ COMMITTED
  visibility, row locks, unique indexes, deadlock detection. These definitions are
  marked external in `PROJECT.json`.

## 8. Plan

What the plan still holds, the most useful first:

1. **Abstract specification of a marksheet**: open, then one set of rows for good;
   `Submission` refines it, with a proof from `SubmissionInv`.
2. **Composition**: the callbacks of `Submission`, `Compilation` and
   `CurriculumEvidence` as the producers of `EventRelay`; `AnnouncedUnlessLost`,
   `CompletionAnnouncedUnlessLost` and `EvidenceAnnounced` are what it would start from.
3. **EventContracts**: name normalisation, payload safety and schema validation as
   operators, checked against a reference over small values.
4. **Two relays**: which part of `Delivery` survives overlap (section 6, item 3), as an
   abstract specification of its own.

Runs stay as they are: a new component joins one of the four collecting modules.
