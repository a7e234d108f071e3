---------------------------- MODULE GradingSchema ----------------------------
(***************************************************************************)
(* The school grading schemas of app/grading/services.py: create, activate, *)
(* deprecate, bind to an assessment, and the band that a corrected score   *)
(* is given.                                                               *)
(*                                                                         *)
(* A percentage is a number of half steps of the stored precision: the     *)
(* payload's decimals may lie between two storable values, the columns     *)
(* min_percentage and max_percentage (two places) hold even numbers only.  *)
(* Hundred stands for 100.00.                                              *)
(*                                                                         *)
(* activate, deprecate and bind load a row without a lock and save all of  *)
(* it later; two calls may overlap between the load and the save.  The     *)
(* names, labels, descriptors and points of the payload are left out, and  *)
(* the other things Assessment.clean checks are taken to be in order.      *)
(***************************************************************************)
EXTENDS Integers, FiniteSets

CONSTANTS Schemas,          \* SchoolGradingSchema rows, each its own version_label
          GradedAssessments,
          AssessmentType,   \* assessment_type of each assessment
          SchemaTypes,      \* assessment_type of the payloads
          HasCbeContext,    \* assessments with curriculum version and rubric
          Bands,            \* positions in a payload's list of bands
          Hundred,          \* 100.00, in half steps
          MaxScore,         \* max_score of the assessments
          Admins,           \* workers that run a schema service
          NoSchema,
          MaxSchemaCalls    \* bound: calls of activate, deprecate and bind

ASSUME SchemaAssumption ==
    /\ Bands \subseteq Nat
    /\ Hundred \in Nat /\ Hundred % 2 = 0
    /\ MaxScore \in Nat \ {0}
    /\ MaxSchemaCalls \in Nat
    /\ NoSchema \notin Schemas
    /\ HasCbeContext \subseteq GradedAssessments

VARIABLES schema,      \* the rows: status, type, coverage and audit marks
          bandsOf,     \* the SchoolGradingBand rows of each schema
          binding,     \* school_grading_schema of each assessment
          mapped,      \* one GradeRecord per assessment: score, schema, band
          held,        \* what a worker has loaded and will save
          schemaCalls,
          revision,    \* history: saves of each schema row
          history      \* history: schemas deprecated, and saved by an overlap

schemaVars == <<schema, bandsOf, binding, mapped, held, schemaCalls, revision, history>>

SchemaStatus == {"absent", "draft", "active", "deprecated"}
Usable == {"active"}   \* LOCKED is accepted too, but nothing sets it
CbeType == "cbe_rubric_assessment"
InternalTypes == {"cat", "internal_exam"}

Percentages == {p \in 0..Hundred : p % 2 = 0}
BandRange == [min : 0..Hundred, max : 0..Hundred]

NoRow == [status |-> "absent", type |-> "", full |-> TRUE, activated |-> FALSE,
          deprecated |-> FALSE]
NotHeld == [op |-> "none"]
Unmapped == [raw |-> 0, schema |-> NoSchema, band |-> 0]

-----------------------------------------------------------------------------
(* The algorithms.  A list of bands is a function from its positions.       *)

\* The sort key of the validator and of the mapper; sorting is stable.
Precedes(bands, i, j) ==
    \/ bands[i].min < bands[j].min
    \/ bands[i].min = bands[j].min /\ bands[i].max < bands[j].max
    \/ bands[i] = bands[j] /\ i < j

\* zip(normalized, normalized[1:])
Neighbours(bands) ==
    {p \in (DOMAIN bands) \X (DOMAIN bands) :
        /\ Precedes(bands, p[1], p[2])
        /\ ~\E k \in DOMAIN bands : Precedes(bands, p[1], k) /\ Precedes(bands, k, p[2])}

First(bands) == CHOOSE i \in DOMAIN bands : ~\E k \in DOMAIN bands : Precedes(bands, k, i)
Last(bands) == CHOOSE i \in DOMAIN bands : ~\E k \in DOMAIN bands : Precedes(bands, i, k)

\* validate_schema_bands; 2 is the 0.01 between neighbours.
ValidBands(bands, full) ==
    /\ DOMAIN bands # {}
    /\ \A i \in DOMAIN bands : bands[i].min <= bands[i].max /\ bands[i].max <= Hundred
    /\ \A p \in Neighbours(bands) : bands[p[2]].min > bands[p[1]].max
    /\ full => /\ bands[First(bands)].min = 0
               /\ bands[Last(bands)].max = Hundred
               /\ \A p \in Neighbours(bands) : bands[p[2]].min = bands[p[1]].max + 2

\* DecimalField(decimal_places=2): the database rounds half away from zero.
Stored(v) == 2 * ((v + 1) \div 2)

\* normalize_percentage: two places, ROUND_HALF_UP.
NormalizePercentage(raw) == 2 * ((raw * Hundred + MaxScore) \div (2 * MaxScore))

\* The bands that hold a percentage.
Holding(bands, p) == {i \in DOMAIN bands : bands[i].min <= p /\ p <= bands[i].max}

\* map_score_to_band: the first in order; 0 stands for no_matching_band.
MapScoreToBand(bands, p) ==
    IF Holding(bands, p) = {} THEN 0
    ELSE CHOOSE i \in Holding(bands, p) :
            \A k \in Holding(bands, p) : k = i \/ Precedes(bands, i, k)

\* can_bind_school_schema
CanBindSchoolSchema(a, s) ==
    /\ AssessmentType[a] # CbeType
    /\ AssessmentType[a] \in InternalTypes
    /\ AssessmentType[a] = schema[s].type
    /\ a \in HasCbeContext

-----------------------------------------------------------------------------
SchemaInit ==
    /\ schema = [s \in Schemas |-> NoRow]
    /\ bandsOf = [s \in Schemas |-> <<>>]
    /\ binding = [a \in GradedAssessments |-> NoSchema]
    /\ mapped = [a \in GradedAssessments |-> Unmapped]
    /\ held = [w \in Admins |-> NotHeld]
    /\ schemaCalls = 0
    /\ revision = [s \in Schemas |-> 0]
    /\ history = [deprecated |-> {}, overlapped |-> {}]

\* create_school_grading_schema: the payload is validated as it came, the
\* bands are stored by bulk_create, which rounds and validates nothing.
CreateSchoolGradingSchema(s, type, full, bands) ==
    /\ schema[s].status = "absent"
    /\ ValidBands(bands, full)
    /\ schema' = [schema EXCEPT ![s] =
          [NoRow EXCEPT !.status = "draft", !.type = type, !.full = full]]
    /\ bandsOf' = [bandsOf EXCEPT ![s] =
          [i \in DOMAIN bands |-> [min |-> Stored(bands[i].min),
                                   max |-> Stored(bands[i].max)]]]
    /\ UNCHANGED <<binding, mapped, held, schemaCalls, revision, history>>

\* The first statements of activate, deprecate and bind.
LoadRows(w, op, s, a) ==
    /\ held[w] = NotHeld
    /\ schema[s].status # "absent"
    /\ schemaCalls < MaxSchemaCalls
    /\ schemaCalls' = schemaCalls + 1
    /\ held' = [held EXCEPT ![w] = [op |-> op, schema |-> s, assessment |-> a,
                                    row |-> schema[s], revision |-> revision[s]]]
    /\ UNCHANGED <<schema, bandsOf, binding, mapped, revision, history>>

\* schema.save(): every column of the loaded row, whatever happened since.
SaveRow(w, row) ==
    LET s == held[w].schema
    IN  /\ schema' = [schema EXCEPT ![s] = row]
        /\ revision' = [revision EXCEPT ![s] = @ + 1]
        /\ history' = [deprecated |-> history.deprecated \cup
                           (IF row.status = "deprecated" THEN {s} ELSE {}),
                       overlapped |-> history.overlapped \cup
                           (IF held[w].revision # revision[s] THEN {s} ELSE {})]

\* activate_school_grading_schema validates the stored bands again.
Activatable(s, row) == ValidBands(bandsOf[s], row.full)

\* Faulty variant of Activated: a new activation clears the old deprecation.
ActivatedAfresh(row) ==
    [row EXCEPT !.status = "active", !.activated = TRUE, !.deprecated = FALSE]

Activated(row) == [row EXCEPT !.status = "active", !.activated = TRUE]

\* No status is asked for: a deprecated schema can be activated again.
ActivateSchoolGradingSchema(w) ==
    /\ held[w].op = "activate"
    /\ held' = [held EXCEPT ![w] = NotHeld]
    /\ IF Activatable(held[w].schema, held[w].row)
       THEN SaveRow(w, Activated(held[w].row))
       ELSE UNCHANGED <<schema, revision, history>>
    /\ UNCHANGED <<bandsOf, binding, mapped, schemaCalls>>

\* Nor here: a schema in use can be deprecated.
DeprecateSchoolGradingSchema(w) ==
    /\ held[w].op = "deprecate"
    /\ held' = [held EXCEPT ![w] = NotHeld]
    /\ SaveRow(w, [held[w].row EXCEPT !.status = "deprecated", !.deprecated = TRUE])
    /\ UNCHANGED <<bandsOf, binding, mapped, schemaCalls>>

\* Faulty variant of Bindable: a draft is as good as an active schema.
BindableDraft(w) ==
    CanBindSchoolSchema(held[w].assessment, held[w].schema)

\* The checks of bind_schema_to_assessment and of Assessment.clean: both ask
\* the loaded object for the status.
Bindable(w) ==
    /\ CanBindSchoolSchema(held[w].assessment, held[w].schema)
    /\ held[w].row.status \in Usable

BindSchemaToAssessment(w) ==
    /\ held[w].op = "bind"
    /\ held' = [held EXCEPT ![w] = NotHeld]
    /\ binding' = IF Bindable(w)
                  THEN [binding EXCEPT ![held[w].assessment] = held[w].schema]
                  ELSE binding
    /\ UNCHANGED <<schema, bandsOf, mapped, schemaCalls, revision, history>>

\* Faulty variant of MapRecord: the record keeps the band of its old score.
MapRecordKeepsBand(a, raw) ==
    LET s == binding[a]
        b == MapScoreToBand(bandsOf[s], NormalizePercentage(raw))
    IN  /\ b # 0
        /\ mapped' = [mapped EXCEPT ![a] = [raw |-> raw, schema |-> s,
              band |-> IF @.schema = NoSchema THEN b ELSE @.band]]

\* apply_approved_correction gives the record the band of its new score under
\* the schema bound by then; where no band holds it, the whole call fails.
\* Without a schema the record carries no band.
MapRecord(a, raw) ==
    LET s == binding[a]
        b == MapScoreToBand(bandsOf[s], NormalizePercentage(raw))
    IN  /\ b # 0
        /\ mapped' = [mapped EXCEPT ![a] = [raw |-> raw, schema |-> s, band |-> b]]

CorrectScore(a, raw) ==
    /\ binding[a] # NoSchema
    /\ MapRecord(a, raw)
    /\ UNCHANGED <<schema, bandsOf, binding, held, schemaCalls, revision, history>>

SchemaNext ==
    \/ \E s \in Schemas, type \in SchemaTypes, full \in BOOLEAN, n \in SUBSET Bands :
          \E bands \in [n -> BandRange] :
             CreateSchoolGradingSchema(s, type, full, bands)
    \/ \E w \in Admins :
          \/ \E s \in Schemas, a \in GradedAssessments, op \in {"activate", "deprecate", "bind"} :
                LoadRows(w, op, s, a)
          \/ ActivateSchoolGradingSchema(w)
          \/ DeprecateSchoolGradingSchema(w)
          \/ BindSchemaToAssessment(w)
    \/ \E a \in GradedAssessments, raw \in 0..MaxScore : CorrectScore(a, raw)

SchemaSpec == SchemaInit /\ [][SchemaNext]_schemaVars

-----------------------------------------------------------------------------
(* Properties.                                                             *)

\* Rows, bindings and loaded objects hold values of their columns' types, and
\* only storable percentages are stored.
SchemaTypeOK ==
    /\ \A s \in Schemas :
          /\ schema[s].status \in SchemaStatus
          /\ schema[s].activated \in BOOLEAN /\ schema[s].deprecated \in BOOLEAN
          /\ \A i \in DOMAIN bandsOf[s] :
                bandsOf[s][i].min \in Percentages /\ bandsOf[s][i].max \in Percentages
    /\ binding \in [GradedAssessments -> Schemas \cup {NoSchema}]
    /\ \A a \in GradedAssessments : mapped[a].raw \in 0..MaxScore
    /\ \A w \in Admins : held[w].op \in {"none", "activate", "deprecate", "bind"}
    /\ schemaCalls \in 0..MaxSchemaCalls

\* Whatever the payload's decimals were rounded to and whichever calls
\* overlapped, a schema that an assessment is bound to puts every percentage
\* into one band at most, and into exactly one if it promises full coverage.
BoundMapsUniquely ==
    \A a \in GradedAssessments :
        binding[a] # NoSchema =>
            \A p \in Percentages :
                LET n == Cardinality(Holding(bandsOf[binding[a]], p))
                IN  n <= 1 /\ (schema[binding[a]].full => n = 1)

\* The band a record carries is the one its recorded schema version gives its
\* score, also after the assessment was bound to another schema, or the schema
\* was deprecated.
BandOfItsVersion ==
    \A a \in GradedAssessments :
        mapped[a].schema # NoSchema =>
            mapped[a].band =
                MapScoreToBand(bandsOf[mapped[a].schema],
                               NormalizePercentage(mapped[a].raw))

\* The mark a deprecation leaves on the row is lost only when two calls
\* overlap and the later save writes the row as it was loaded.
OnlyOverlapLosesDeprecation ==
    \A s \in history.deprecated : ~schema[s].deprecated => s \in history.overlapped

\* An assessment is bound to a schema that is not usable any more only by a
\* call that loaded the schema before it was saved again.
BindsWithdrawnOnlyByOverlap ==
    [][\A w \in Admins :
          (/\ held[w].op = "bind" /\ held'[w] = NotHeld /\ binding' # binding
           /\ schema[held[w].schema].status \notin Usable)
          => held[w].revision # revision[held[w].schema]]_schemaVars

\* A band says what it said when it was given: a percentage falls into one
\* band of a bound schema, and a record keeps the band of its own version.
BandsStayTrue == SchemaTypeOK /\ BoundMapsUniquely /\ BandOfItsVersion
=============================================================================
