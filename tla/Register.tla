------------------------------- MODULE Register -------------------------------
(***************************************************************************)
(* The register a school keeps: app/academics/services.py over the models  *)
(* of app/academics/models.py.                                             *)
(*                                                                         *)
(* Every creation goes through _save_clean: full_clean (the model's clean  *)
(* and its uniqueness checks), save (full_clean again) and one INSERT.     *)
(* Creations of several clerks interleave between the last full_clean and  *)
(* the INSERT.  A teacher's role may be taken away at any time.            *)
(*                                                                         *)
(* Entries are the rows that may be created; Row gives each its columns.   *)
(* A reference is the entry it refers to.  Nothing in the repository       *)
(* changes or removes an entry.                                            *)
(***************************************************************************)
EXTENDS Naturals, FiniteSets

CONSTANTS Entries, Row, Clerks, Staff, NoEntry

\* Every row has a kind, a school, a name (label, code, admission number), the
\* rows it refers to, is_active, dates and a teacher, blank where it has none.
ASSUME RegisterAssumption ==
    /\ NoEntry \notin Entries
    /\ \A e \in Entries :
          /\ Row[e].kind \in {"year", "term", "area", "cohort", "learner",
                              "enrollment", "assignment"}
          /\ Row[e].refs \subseteq Entries
          /\ Row[e].kind \in {"year", "area", "learner"} => Row[e].refs = {}

VARIABLES register,   \* the entries inserted
          clerk,      \* the creation each clerk is in, once it is clean
          bound,      \* teachers with an active TenantUserRole
          unbound     \* history: teachers who lost theirs since a clerk's clean

registerVars == <<register, clerk, bound, unbound>>

RegisterInit ==
    /\ register = {}
    /\ clerk = [c \in Clerks |-> NoEntry]
    /\ bound = Staff
    /\ unbound = [c \in Clerks |-> {}]

InOrder(e) == Row[e].from < Row[e].to

\* Term.clean: inside the year it refers to.
WithinYear(e) ==
    \A y \in Row[e].refs :
        Row[y].from <= Row[e].from /\ Row[e].to <= Row[y].to

\* Faulty variant of OwnTenant: Cohort.clean trusts the year it is given.
OwnTenantButCohorts(e) ==
    \A x \in Row[e].refs : Row[x].school = Row[e].school \/ Row[e].kind = "cohort"

\* The clean methods compare the tenant of what a row refers to directly.
\* LearningArea refers to nothing of a school.
OwnTenant(e) == \A x \in Row[e].refs : Row[x].school = Row[e].school

\* Faulty variant of TenantBound: bindings that were switched off count.
TenantBoundOnce(e) == Row[e].teacher \in Staff

\* TeacherAssignment.clean: an active binding to an active role.
TenantBound(e) == Row[e].teacher \in bound

CleanEntry(e) ==
    CASE Row[e].kind = "year" -> InOrder(e)
      [] Row[e].kind = "term" -> OwnTenant(e) /\ InOrder(e) /\ WithinYear(e)
      [] Row[e].kind \in {"learner", "area"} -> TRUE
      [] Row[e].kind \in {"cohort", "enrollment"} -> OwnTenant(e)
      [] Row[e].kind = "assignment" -> OwnTenant(e) /\ TenantBound(e)

\* The UniqueConstraints of the models, those on is_active included.
UniqueKeys(e) ==
    LET r == Row[e]
        named == <<r.kind, r.school, r.name, r.refs, "">>
    IN  CASE r.kind = "year" ->
               {named} \cup {k \in {<<"active year", r.school, "", {}, "">>} : r.active}
          [] r.kind \in {"term", "area", "cohort", "learner"} -> {named}
          [] r.kind \in {"enrollment", "assignment"} ->
               {k \in {<<r.kind, r.school, "", r.refs, r.teacher>>} : r.active}

Clashes(e) == \E x \in register : UniqueKeys(x) \cap UniqueKeys(e) # {}

\* The service up to the last full_clean; what it refuses changes nothing.
Clean(c, e) ==
    /\ clerk[c] = NoEntry
    /\ e \notin register /\ Row[e].refs \subseteq register
    /\ CleanEntry(e) /\ ~Clashes(e)
    /\ clerk' = [clerk EXCEPT ![c] = e]
    /\ unbound' = [unbound EXCEPT ![c] = {}]
    /\ UNCHANGED <<register, bound>>

\* The unique indexes let the row in.
Admitted(e) == e \notin register /\ ~Clashes(e)

\* The INSERT, or its IntegrityError.
InsertEntry(c) ==
    /\ clerk[c] # NoEntry
    /\ register' = IF Admitted(clerk[c]) THEN register \cup {clerk[c]} ELSE register
    /\ clerk' = [clerk EXCEPT ![c] = NoEntry]
    /\ UNCHANGED <<bound, unbound>>

\* The admin site switches a TenantUserRole or its role off.
Unbind(t) ==
    /\ t \in bound
    /\ bound' = bound \ {t}
    /\ unbound' = [c \in Clerks |-> unbound[c] \cup {t}]
    /\ UNCHANGED <<register, clerk>>

RegisterNext ==
    \/ \E c \in Clerks : InsertEntry(c) \/ \E e \in Entries : Clean(c, e)
    \/ \E t \in Staff : Unbind(t)

RegisterSpec == RegisterInit /\ [][RegisterNext]_registerVars

-----------------------------------------------------------------------------

\* Whatever clerks create at once, no two rows share a unique key: one active
\* year in a school, one active enrolment of a learner in a cohort and term,
\* one active assignment (the UniqueConstraints of app/academics/models.py).
KeysStayUnique ==
    \A x, y \in register : x # y => UniqueKeys(x) \cap UniqueKeys(y) = {}

\* clean looks one reference deep; together they keep everything a row refers
\* to, at any depth, in one school.
Reached(e) ==
    LET Next1(S) == UNION {Row[x].refs : x \in S}
    IN  Row[e].refs \cup Next1(Row[e].refs) \cup Next1(Next1(Row[e].refs))

OneSchoolThroughout ==
    \A e \in register : \A x \in Reached(e) :
        x \in register /\ Row[x].school = Row[e].school

\* TeacherAssignment.clean: an assignment is made for a teacher without a role
\* only when the role went away between the check and the INSERT.
AssignedUnboundOnlyByOverlap ==
    [][\A e \in register' \ register : Row[e].kind = "assignment" =>
          \/ Row[e].teacher \in bound
          \/ \E c \in Clerks : clerk[c] = e /\ Row[e].teacher \in unbound[c]]_registerVars

\* The register says each thing once, and all of it about one school.
RegisterHolds == KeysStayUnique /\ OneSchoolThroughout
=============================================================================
