---------------------------- MODULE SchoolProofs ----------------------------
(***************************************************************************)
(* What is proved of a school's own records, for every number of requests  *)
(* and whatever they ask for: of the sign-ups that make it, of the         *)
(* register of its years, classes and people, and of its grading schemas.  *)
(***************************************************************************)
EXTENDS Register, Provisioning, GradingSchema, FiniteSetTheorems, NaturalsInduction,
        WellFoundedInduction, TLAPS

-----------------------------------------------------------------------------
(* The register.  Unique keys stay unique, nothing reaches into another     *)
(* school, and an assignment of a teacher without a role takes an overlap.  *)
(* Besides the properties the invariant says what a clerk's row, once       *)
(* clean, can still count on at its INSERT: what it refers to is there and  *)
(* of its school, and its teacher was bound when it was looked at.          *)

Settled(e) == Row[e].refs \subseteq register /\ OwnTenant(e)

RegisterTyped ==
    /\ register \subseteq Entries
    /\ clerk \in [Clerks -> Entries \cup {NoEntry}]
    /\ unbound \in [Clerks -> SUBSET Staff]
    /\ bound \subseteq Staff

RegisterInv ==
    /\ RegisterTyped
    /\ KeysStayUnique
    /\ \A e \in register : Settled(e)
    /\ \A c \in Clerks : clerk[c] # NoEntry =>
          /\ Settled(clerk[c])
          /\ Row[clerk[c]].kind = "assignment" =>
                Row[clerk[c]].teacher \in bound \cup unbound[c]

-----------------------------------------------------------------------------

\* Whatever clean lets through refers to rows of its own school.
LEMMA CleanIsOwn ==
    ASSUME NEW e \in Entries, CleanEntry(e)
    PROVE  /\ OwnTenant(e)
           /\ Row[e].kind = "assignment" => Row[e].teacher \in bound
<1>1. CASE Row[e].kind \in {"year", "area", "learner"}
  BY <1>1, RegisterAssumption DEF OwnTenant
<1>2. CASE Row[e].kind \in {"term", "cohort", "enrollment", "assignment"}
  BY <1>2 DEF CleanEntry, TenantBound
<1> QED BY <1>1, <1>2, RegisterAssumption

\* A row that has passed full_clean is still to be inserted.
LEMMA CleanKeeps ==
    ASSUME RegisterInv, NEW c \in Clerks, NEW e \in Entries, Clean(c, e)
    PROVE  RegisterInv'
<1>1. clerk'[c] = e /\ (\A d \in Clerks : d # c => clerk'[d] = clerk[d])
      /\ (\A d \in Clerks : d # c => unbound'[d] = unbound[d])
  BY DEF RegisterInv, RegisterTyped, Clean
<1>2. RegisterTyped' /\ KeysStayUnique'
  BY DEF RegisterInv, RegisterTyped, Clean, KeysStayUnique, UniqueKeys
<1>3. OwnTenant(e) /\ (Row[e].kind = "assignment" => Row[e].teacher \in bound)
  BY CleanIsOwn DEF Clean
<1>4. \A x \in Entries : Settled(x)' <=> Settled(x)
  BY DEF Clean, Settled, OwnTenant
<1>5. Settled(e)
  BY <1>3 DEF Clean, Settled
<1>6. \A d \in Clerks : clerk'[d] # NoEntry =>
          /\ Settled(clerk'[d])
          /\ Row[clerk'[d]].kind = "assignment" =>
                Row[clerk'[d]].teacher \in bound' \cup unbound'[d]
  BY <1>1, <1>3, <1>5 DEF RegisterInv, Clean
<1> QED BY <1>2, <1>4, <1>6 DEF RegisterInv, RegisterTyped, Clean, Settled, OwnTenant

\* An INSERT that the unique constraints let through keeps the register sound.
LEMMA InsertKeeps ==
    ASSUME RegisterInv, NEW c \in Clerks, InsertEntry(c)
    PROVE  RegisterInv'
<1>1. PICK e \in Entries : clerk[c] = e
  BY DEF RegisterInv, RegisterTyped, InsertEntry
<1>2. Settled(e)
  BY <1>1 DEF RegisterInv, InsertEntry
<1>3. register \subseteq register' /\ register' \subseteq register \cup {e}
      /\ (e \in register' \ register => ~Clashes(e))
  BY <1>1 DEF InsertEntry, Admitted
<1>4. RegisterTyped'
  BY <1>3 DEF RegisterInv, RegisterTyped, InsertEntry
<1>5. \A x \in register : x # e /\ e \in register' \ register =>
          UniqueKeys(x) \cap UniqueKeys(e) = {}
  BY <1>3 DEF Clashes
<1>6. KeysStayUnique'
  <2>1. SUFFICES ASSUME NEW x \in register', NEW y \in register', x # y
                 PROVE  UniqueKeys(x) \cap UniqueKeys(y) = {}
    BY DEF KeysStayUnique, UniqueKeys
  <2>2. CASE x \in register /\ y \in register
    BY <2>1, <2>2 DEF RegisterInv, KeysStayUnique
  <2>3. CASE x \notin register
    BY <2>1, <2>3, <1>3, <1>5
  <2>4. CASE y \notin register
    BY <2>1, <2>4, <1>3, <1>5
  <2> QED BY <2>2, <2>3, <2>4
<1>7. \A x \in Entries : Settled(x) => Settled(x)'
  BY <1>3 DEF Settled, OwnTenant
<1>8. \A x \in register' : Settled(x)'
  BY <1>2, <1>3, <1>7 DEF RegisterInv, RegisterTyped
<1>9. \A d \in Clerks : clerk'[d] # NoEntry => clerk'[d] = clerk[d]
  BY DEF RegisterInv, RegisterTyped, InsertEntry
<1>10. \A d \in Clerks : clerk'[d] # NoEntry =>
          /\ clerk[d] \in Entries /\ Settled(clerk[d])
          /\ Row[clerk[d]].kind = "assignment" =>
                Row[clerk[d]].teacher \in bound' \cup unbound'[d]
  BY <1>9 DEF RegisterInv, RegisterTyped, InsertEntry
<1> QED BY <1>4, <1>6, <1>7, <1>8, <1>9, <1>10 DEF RegisterInv, Settled, OwnTenant

\* A teacher whose role is switched off is remembered by those past the check.
LEMMA UnbindKeeps ==
    ASSUME RegisterInv, NEW t \in Staff, Unbind(t)
    PROVE  RegisterInv'
<1>1. RegisterTyped' /\ KeysStayUnique'
  BY DEF RegisterInv, RegisterTyped, Unbind, KeysStayUnique, UniqueKeys
<1>2. \A c \in Clerks : bound \cup unbound[c] \subseteq bound' \cup unbound'[c]
  BY DEF Unbind
<1> QED BY <1>1, <1>2 DEF RegisterInv, Unbind, Settled, OwnTenant

\* An empty register is sound.
LEMMA RegisterInvStart == RegisterInit => RegisterInv
  BY DEF RegisterInit, RegisterInv, RegisterTyped, KeysStayUnique

\* Every step of every clerk keeps the register sound.
LEMMA RegisterInvStep == RegisterInv /\ [RegisterNext]_registerVars => RegisterInv'
<1> SUFFICES ASSUME RegisterInv, [RegisterNext]_registerVars PROVE RegisterInv'
  OBVIOUS
<1>1. CASE UNCHANGED registerVars
  BY <1>1 DEF registerVars, RegisterInv, RegisterTyped, KeysStayUnique, UniqueKeys,
              Settled, OwnTenant
<1> QED BY <1>1, CleanKeeps, InsertKeeps, UnbindKeeps DEF RegisterNext

\* The invariant holds of every behaviour of the academics services.
THEOREM RegisterInvHolds == RegisterSpec => []RegisterInv
  BY RegisterInvStart, RegisterInvStep, PTL DEF RegisterSpec

\* Races between full_clean and the INSERT never break a UniqueConstraint.
THEOREM UniqueKeysStay == RegisterSpec => []KeysStayUnique
<1>1. RegisterInv => KeysStayUnique
  BY DEF RegisterInv
<1> QED BY <1>1, RegisterInvHolds, PTL

\* Checking direct references in clean is enough at any depth of the register.
THEOREM SchoolsDoNotMix == RegisterSpec => []OneSchoolThroughout
<1>1. RegisterInv => OneSchoolThroughout
  <2> SUFFICES ASSUME RegisterInv, NEW e \in register, NEW x \in Reached(e)
               PROVE  x \in register /\ Row[x].school = Row[e].school
    BY DEF OneSchoolThroughout
  <2>1. \A y \in register : \A z \in Row[y].refs :
            z \in register /\ Row[z].school = Row[y].school
    BY DEF RegisterInv, Settled, OwnTenant
  <2> QED BY <2>1 DEF Reached
<1> QED BY <1>1, RegisterInvHolds, PTL

\* A new assignment's teacher is bound, or lost the role since clean.
THEOREM AssignmentsNeedARole == RegisterSpec => AssignedUnboundOnlyByOverlap
<1>1. RegisterInv /\ [RegisterNext]_registerVars =>
        [\A e \in register' \ register : Row[e].kind = "assignment" =>
          \/ Row[e].teacher \in bound
          \/ \E c \in Clerks : clerk[c] = e /\ Row[e].teacher \in unbound[c]]_registerVars
  <2> SUFFICES ASSUME RegisterInv, RegisterNext, NEW e \in register' \ register,
                      Row[e].kind = "assignment"
               PROVE  \/ Row[e].teacher \in bound
                      \/ \E c \in Clerks : clerk[c] = e /\ Row[e].teacher \in unbound[c]
    OBVIOUS
  <2>1. PICK c \in Clerks : InsertEntry(c)
    BY DEF RegisterNext, Clean, Unbind
  <2>2. clerk[c] = e /\ clerk[c] # NoEntry
    BY <2>1 DEF InsertEntry
  <2> QED BY <2>2 DEF RegisterInv
<1> QED BY <1>1, RegisterInvHolds, PTL DEF RegisterSpec, AssignedUnboundOnlyByOverlap

\* The register's unique constraints and clean methods hold together.
THEOREM RegisterIsSound == RegisterSpec => []RegisterHolds
<1>1. KeysStayUnique /\ OneSchoolThroughout => RegisterHolds
  BY DEF RegisterHolds
<1>. QED  BY <1>1, UniqueKeysStay, SchoolsDoNotMix, PTL

-----------------------------------------------------------------------------
(* Provisioning.  Schools are whole, keep apart, and sign-ups are refused   *)
(* for cause.  The invariant adds to the three properties which rows a      *)
(* transaction has at each step (RowsFollow), that rows with a common       *)
(* unique value never exist at once, committed or not (RowsApart: this is   *)
(* what waiting for an uncommitted row is for), and that a binding is only  *)
(* reached with a role to point at (RolesStand).                            *)

Columns == {"name", "schema", "subdomain", "domain", "email", "role"}

Steps ==
    {"new", "check_domain", "check_subdomain", "check_email", "name_schema",
     "clean_school", "put_school", "clean_domain", "put_domain", "put_user",
     "get_role", "clean_role", "put_role", "put_binding", "commit"} \cup Over

Bare ==
    {"new", "check_domain", "check_subdomain", "check_email", "name_schema",
     "clean_school", "put_school", "refused", "lost", "skipped"}

Typed ==
    /\ at \in [Signups -> Steps]
    /\ rows \in [Signups -> SUBSET Tables]
    /\ DOMAIN suffix = Signups /\ DOMAIN refusedAt = Signups
    /\ seeded \in BOOLEAN

RowsFollow ==
    \A r \in Signups :
        /\ at[r] \in Bare => rows[r] = {}
        /\ at[r] \notin Bare => "school" \in rows[r]
        /\ at[r] \notin Bare \cup {"clean_domain", "put_domain"} =>
               "domain" \in rows[r]
        /\ at[r] \notin Bare \cup {"clean_domain", "put_domain", "put_user"} =>
               "user" \in rows[r]
        /\ at[r] \in {"commit", "done"} => "binding" \in rows[r]

RoleStands == seeded \/ \E s \in Signups : at[s] = "done" /\ "role" \in rows[s]

RolesStand ==
    \A r \in Signups : at[r] \in {"put_binding", "commit", "done"} =>
        "role" \in rows[r] \/ RoleStands

RowsApart ==
    \A r, s \in Signups : \A c \in Columns :
        r # s /\ TableOf[c] \in rows[r] /\ TableOf[c] \in rows[s] =>
            Value(r, c) # Value(s, c)

ProvisioningInv == Typed /\ RowsFollow /\ RolesStand /\ RowsApart /\ RefusedForCause

-----------------------------------------------------------------------------

\* The unique columns and their tables.
LEMMA ColumnFacts ==
    /\ DOMAIN TableOf = Columns
    /\ \A c \in Columns : TableOf[c] = "role" <=> c = "role"
    /\ TableOf["name"] = "school" /\ TableOf["schema"] = "school"
    /\ TableOf["subdomain"] = "school" /\ TableOf["domain"] = "domain"
    /\ TableOf["email"] = "user" /\ TableOf["role"] = "role"
  BY DEF TableOf, Columns

\* Which columns each check looks at.
LEMMA LookFacts ==
    /\ DOMAIN Looks = {"check_domain", "check_subdomain", "check_email",
                       "clean_school", "clean_domain", "clean_role"}
    /\ Looks["check_domain"] = {"domain"} /\ Looks["check_subdomain"] = {"subdomain"}
    /\ Looks["check_email"] = {"email"} /\ Looks["clean_domain"] = {"domain"}
    /\ Looks["clean_school"] = {"name", "schema", "subdomain"}
    /\ Looks["clean_role"] = {"role"}
  BY DEF Looks

\* Which row each INSERT writes.
LEMMA PutFacts ==
    /\ DOMAIN Puts = {"put_school", "put_domain", "put_user", "put_binding"}
    /\ Puts["put_school"] = "school" /\ Puts["put_domain"] = "domain"
    /\ Puts["put_user"] = "user" /\ Puts["put_binding"] = "binding"
  BY DEF Puts

\* Where a sign-up goes next.
LEMMA ThenFacts ==
    /\ Then["check_domain"] = "check_subdomain"
    /\ Then["check_subdomain"] = "check_email"
    /\ Then["check_email"] = "name_schema"
    /\ Then["clean_school"] = "put_school" /\ Then["put_school"] = "clean_domain"
    /\ Then["clean_domain"] = "put_domain" /\ Then["put_domain"] = "put_user"
    /\ Then["put_user"] = "get_role" /\ Then["clean_role"] = "put_role"
    /\ Then["put_role"] = "put_binding" /\ Then["put_binding"] = "commit"
  BY DEF Then

\* What a sign-up wants in a column changes only with the ending of its schema
\* name.
LEMMA ValueKept ==
    ASSUME NEW s \in Signups, NEW c \in Columns, UNCHANGED want, suffix'[s] = suffix[s]
    PROVE  Value(s, c)' = Value(s, c)
  BY DEF Value, Host, Columns

\* Whether a sign-up is well formed depends on what it wants alone.
LEMMA WellFormedKept ==
    ASSUME NEW s \in Signups, UNCHANGED want
    PROVE  WellFormed(s)' = WellFormed(s)
  BY DEF WellFormed, Host


\* A step in which r leaves its rows alone and whose successor they suit.
LEMMA AdvanceKeeps ==
    ASSUME ProvisioningInv, NEW r \in Signups, NEW x \in Steps \ {"refused"},
           at[r] \notin Over, Goto(r, x), UNCHANGED <<want, rows, refusedAt, seeded>>,
           DOMAIN suffix' = Signups,
           \A s \in Signups : s # r => suffix'[s] = suffix[s],
           rows[r] = {} \/ suffix'[r] = suffix[r],
           x \in Bare => rows[r] = {},
           x \notin Bare => "school" \in rows[r],
           x \notin Bare \cup {"clean_domain", "put_domain"} => "domain" \in rows[r],
           x \notin Bare \cup {"clean_domain", "put_domain", "put_user"} =>
               "user" \in rows[r],
           x \in {"commit", "done"} => "binding" \in rows[r],
           x \in {"put_binding", "commit", "done"} => "role" \in rows[r] \/ RoleStands
    PROVE  ProvisioningInv'
<1>1. Typed'
  BY DEF ProvisioningInv, Typed, Goto
<1>2. at'[r] = x /\ \A s \in Signups : s # r => at'[s] = at[s]
  BY DEF ProvisioningInv, Typed, Goto
<1>3. RowsFollow'
  BY <1>2 DEF ProvisioningInv, RowsFollow
<1>4. \A s \in Signups : at[s] = "done" => s # r /\ at'[s] = "done"
  BY <1>2 DEF Over
<1>5. RoleStands => RoleStands'
  BY <1>4 DEF RoleStands
<1>6. RolesStand'
  BY <1>2, <1>5 DEF ProvisioningInv, RolesStand
<1>7. \A s \in Signups, c \in Columns : rows[s] # {} => Value(s, c)' = Value(s, c)
  <2>1. SUFFICES ASSUME NEW s \in Signups, NEW c \in Columns, rows[s] # {}
                 PROVE  Value(s, c)' = Value(s, c)
    OBVIOUS
  <2>2. suffix'[s] = suffix[s]
    BY <2>1
  <2> QED BY <2>2, ValueKept
<1>8. RowsApart'
  <2>1. SUFFICES ASSUME NEW p \in Signups, NEW s \in Signups, NEW c \in Columns,
                        p # s, TableOf[c] \in rows[p], TableOf[c] \in rows[s]
                 PROVE  Value(p, c)' # Value(s, c)'
    BY DEF RowsApart, TableOf
  <2>2. Value(p, c) # Value(s, c)
    BY <2>1 DEF ProvisioningInv, RowsApart
  <2> QED BY <1>7, <2>1, <2>2
<1>9. RefusedForCause'
  <2>1. SUFFICES ASSUME NEW p \in Signups, at'[p] = "refused", WellFormed(p)'
                 PROVE  \/ \E s \in Signups, c \in (DOMAIN TableOf \ {"role"})' :
                              s # p /\ at'[s] = "done" /\ Value(s, c)' = Value(p, c)'
                        \/ refusedAt'[p] = "clean_role" /\ RoleStands'
    BY DEF RefusedForCause, RoleStands
  <2>2. p # r /\ at[p] = "refused" /\ WellFormed(p)
    BY <1>2, <2>1, WellFormedKept
  <2>3. \/ \E s \in Signups, c \in DOMAIN TableOf \ {"role"} :
              s # p /\ at[s] = "done" /\ Value(s, c) = Value(p, c)
        \/ refusedAt[p] = "clean_role" /\ RoleStands
    BY <2>2 DEF ProvisioningInv, RefusedForCause, RoleStands
  <2>4. CASE \E s \in Signups, c \in DOMAIN TableOf \ {"role"} :
                s # p /\ at[s] = "done" /\ Value(s, c) = Value(p, c)
    <3>1. PICK s \in Signups, c \in Columns \ {"role"} :
              s # p /\ at[s] = "done" /\ Value(s, c) = Value(p, c)
      BY <2>4, ColumnFacts
    <3>2. s # r /\ at'[s] = "done"
      BY <3>1, <1>4
    <3>3. Value(s, c)' = Value(s, c) /\ Value(p, c)' = Value(p, c)
      BY <3>2, <2>2, ValueKept
    <3>4. c \in (DOMAIN TableOf \ {"role"})'
      BY <3>1, ColumnFacts DEF TableOf
    <3> QED BY <3>1, <3>2, <3>3, <3>4
  <2>5. CASE refusedAt[p] = "clean_role" /\ RoleStands
    BY <2>5, <1>5
  <2> QED BY <2>3, <2>4, <2>5
<1> QED BY <1>1, <1>3, <1>6, <1>8, <1>9 DEF ProvisioningInv

\* A row without a rival, committed or not, is inserted.
LEMMA WriteKeeps ==
    ASSUME ProvisioningInv, NEW r \in Signups, NEW t \in Tables,
           at[r] \notin Over, at[r] \notin Bare \ {"put_school"},
           ~Waits(r, t), ~Violates(r, t), Write(r, t), UNCHANGED <<want, suffix, seeded>>,
           \/ at[r] = "put_school" /\ t = "school"
           \/ at[r] = "put_domain" /\ t = "domain"
           \/ at[r] = "put_user" /\ t = "user"
           \/ at[r] = "put_role" /\ t = "role"
           \/ at[r] = "put_binding" /\ t = "binding"
    PROVE  ProvisioningInv'
<1>1. at'[r] = Then[at[r]] /\ \A s \in Signups : s # r => at'[s] = at[s]
  BY DEF ProvisioningInv, Typed, Write, Goto
<1>2. rows'[r] = rows[r] \cup {t} /\ \A s \in Signups : s # r => rows'[s] = rows[s]
  BY DEF ProvisioningInv, Typed, Write
<1>3. Then[at[r]] \in {"clean_domain", "put_user", "get_role", "put_binding", "commit"}
  BY ThenFacts
<1>4. Typed'
  BY <1>3 DEF ProvisioningInv, Typed, Write, Goto, Steps
<1>5. \A s \in Signups : rows[s] \subseteq rows'[s]
  BY <1>2
<1>6. RowsFollow'
  <2>1. SUFFICES ASSUME NEW s \in Signups PROVE RowsFollow!(s)'
    BY DEF RowsFollow
  <2>2. CASE s # r
    BY <2>2, <1>1, <1>2 DEF ProvisioningInv, RowsFollow
  <2>3. CASE s = r
    BY <2>3, <1>1, <1>2, ThenFacts DEF ProvisioningInv, RowsFollow, Bare
  <2> QED BY <2>2, <2>3
<1>7. \A s \in Signups : at[s] = "done" => s # r /\ at'[s] = "done"
  BY <1>1 DEF Over
<1>8. RoleStands => RoleStands'
  BY <1>5, <1>7 DEF RoleStands
<1>9. RolesStand'
  <2>1. SUFFICES ASSUME NEW s \in Signups, at'[s] \in {"put_binding", "commit", "done"}
                 PROVE  "role" \in rows'[s] \/ RoleStands'
    BY DEF RolesStand
  <2>2. CASE s # r
    BY <2>1, <2>2, <1>1, <1>5, <1>8 DEF ProvisioningInv, RolesStand
  <2>3. CASE s = r /\ t = "role"
    BY <2>3, <1>2
  <2>4. CASE s = r /\ t # "role"
    <3>1. at[r] = "put_binding"
      BY <2>1, <2>4, <1>1, ThenFacts
    <3> QED BY <3>1, <2>4, <1>5, <1>8 DEF ProvisioningInv, RolesStand
  <2> QED BY <2>2, <2>3, <2>4
<1>10. \A s \in Signups, c \in Columns : Value(s, c)' = Value(s, c)
  BY ValueKept
<1>11. \A s \in Signups, c \in Columns :
          s # r /\ TableOf[c] = t /\ t \in rows[s] => Value(s, c) # Value(r, c)
  <2>1. SUFFICES ASSUME NEW s \in Signups, NEW c \in Columns,
                        s # r, TableOf[c] = t, t \in rows[s],
                        Value(s, c) = Value(r, c)
                 PROVE  FALSE
    OBVIOUS
  <2>2. Collides(r, s, c)
    BY <2>1 DEF Collides
  <2>3. at[s] # "done"
    BY <2>1, <2>2, ColumnFacts DEF Violates, Taken
  <2>4. at[s] \in Over
    BY <2>1, <2>2, ColumnFacts DEF Waits, Held
  <2>5. rows[s] = {}
    BY <2>3, <2>4 DEF Over, Bare, ProvisioningInv, RowsFollow
  <2> QED BY <2>1, <2>5
<1>12. RowsApart'
  <2>1. SUFFICES ASSUME NEW p \in Signups, NEW s \in Signups, NEW c \in Columns,
                        p # s, TableOf[c] \in rows'[p], TableOf[c] \in rows'[s]
                 PROVE  Value(p, c) # Value(s, c)
    BY <1>10 DEF RowsApart, TableOf
  <2>2. CASE TableOf[c] \in rows[p] /\ TableOf[c] \in rows[s]
    BY <2>1, <2>2 DEF ProvisioningInv, RowsApart
  <2>3. CASE TableOf[c] \notin rows[p]
    BY <2>1, <2>3, <1>2, <1>11
  <2>4. CASE TableOf[c] \notin rows[s]
    BY <2>1, <2>4, <1>2, <1>11
  <2> QED BY <2>2, <2>3, <2>4
<1>13. RefusedForCause'
  <2>1. SUFFICES ASSUME NEW p \in Signups, at'[p] = "refused", WellFormed(p)'
                 PROVE  \/ \E s \in Signups, c \in (DOMAIN TableOf \ {"role"})' :
                              s # p /\ at'[s] = "done" /\ Value(s, c)' = Value(p, c)'
                        \/ refusedAt'[p] = "clean_role" /\ RoleStands'
    BY DEF RefusedForCause, RoleStands
  <2>2. at[p] = "refused" /\ WellFormed(p)
    BY <1>1, <1>3, <2>1, WellFormedKept
  <2>3. \/ \E s \in Signups, c \in Columns \ {"role"} :
              s # p /\ at[s] = "done" /\ Value(s, c) = Value(p, c)
        \/ refusedAt[p] = "clean_role" /\ RoleStands
    BY <2>2, ColumnFacts DEF ProvisioningInv, RefusedForCause, RoleStands
  <2>4. (DOMAIN TableOf)' = Columns
    BY ColumnFacts DEF TableOf
  <2> QED BY <2>3, <2>4, <1>7, <1>8, <1>10 DEF Write
<1> QED BY <1>4, <1>6, <1>9, <1>12, <1>13 DEF ProvisioningInv

\* A transaction is rolled back: refused for a cause that stands, or lost.
LEMMA UndoKeeps ==
    ASSUME ProvisioningInv, NEW r \in Signups, NEW x \in {"refused", "lost"},
           at[r] \notin Over, Goto(r, x), rows' = [rows EXCEPT ![r] = Undone(r)],
           UNCHANGED <<want, suffix, seeded>>, DOMAIN refusedAt' = Signups,
           \A s \in Signups : s # r => refusedAt'[s] = refusedAt[s],
           x = "refused" /\ WellFormed(r) =>
               \/ \E s \in Signups, c \in Columns \ {"role"} :
                     s # r /\ at[s] = "done" /\ Value(s, c) = Value(r, c)
               \/ refusedAt'[r] = "clean_role" /\ RoleStands
    PROVE  ProvisioningInv'
<1>1. at'[r] = x /\ \A s \in Signups : s # r => at'[s] = at[s]
  BY DEF ProvisioningInv, Typed, Goto
<1>2. rows'[r] = {} /\ \A s \in Signups : s # r => rows'[s] = rows[s]
  BY DEF ProvisioningInv, Typed, Undone
<1>3. Typed'
  BY DEF ProvisioningInv, Typed, Goto, Steps, Over, Undone
<1>4. RowsFollow'
  <2>1. SUFFICES ASSUME NEW s \in Signups PROVE RowsFollow!(s)'
    BY DEF RowsFollow
  <2>2. CASE s # r
    BY <2>2, <1>1, <1>2 DEF ProvisioningInv, RowsFollow
  <2>3. CASE s = r
    BY <2>3, <1>1, <1>2 DEF Bare
  <2> QED BY <2>2, <2>3
<1>5. \A s \in Signups : at[s] = "done" => s # r /\ at'[s] = "done"
  BY <1>1 DEF Over
<1>6. RoleStands => RoleStands'
  BY <1>2, <1>5 DEF RoleStands
<1>7. RolesStand'
  BY <1>1, <1>2, <1>6 DEF ProvisioningInv, RolesStand
<1>8. \A s \in Signups, c \in Columns : Value(s, c)' = Value(s, c)
  BY ValueKept
<1>9. RowsApart'
  <2>1. SUFFICES ASSUME NEW p \in Signups, NEW s \in Signups, NEW c \in Columns,
                        p # s, TableOf[c] \in rows'[p], TableOf[c] \in rows'[s]
                 PROVE  Value(p, c) # Value(s, c)
    BY <1>8 DEF RowsApart, TableOf
  <2> QED BY <2>1, <1>2 DEF ProvisioningInv, RowsApart
<1>10. RefusedForCause'
  <2>1. SUFFICES ASSUME NEW p \in Signups, at'[p] = "refused", WellFormed(p)'
                 PROVE  \/ \E s \in Signups, c \in (DOMAIN TableOf \ {"role"})' :
                              s # p /\ at'[s] = "done" /\ Value(s, c)' = Value(p, c)'
                        \/ refusedAt'[p] = "clean_role" /\ RoleStands'
    BY DEF RefusedForCause, RoleStands
  <2>2. WellFormed(p)
    BY <2>1, WellFormedKept
  <2>3. \/ \E s \in Signups, c \in Columns \ {"role"} :
              s # p /\ at[s] = "done" /\ Value(s, c) = Value(p, c)
        \/ refusedAt'[p] = "clean_role" /\ RoleStands
    <3>1. CASE p = r
      BY <3>1, <1>1, <2>1, <2>2
    <3>2. CASE p # r
      BY <3>2, <1>1, <2>1, <2>2, ColumnFacts
         DEF ProvisioningInv, RefusedForCause, RoleStands
    <3> QED BY <3>1, <3>2
  <2>4. (DOMAIN TableOf)' = Columns
    BY ColumnFacts DEF TableOf
  <2> QED BY <2>3, <2>4, <1>5, <1>6, <1>8
<1> QED BY <1>3, <1>4, <1>7, <1>9, <1>10 DEF ProvisioningInv

\* What a query or an index finds taken is a cause.
LEMMA TakenIsCause ==
    ASSUME ProvisioningInv, NEW r \in Signups, NEW c \in Columns, Taken(r, c)
    PROVE  \/ c # "role" /\ \E s \in Signups :
                 s # r /\ at[s] = "done" /\ Value(s, c) = Value(r, c)
           \/ c = "role" /\ RoleStands
  BY ColumnFacts DEF Taken, Collides, RoleStands

\* A request that arrives has no rows.
LEMMA ReceiveKeeps ==
    ASSUME ProvisioningInv, NEW r \in Signups, Receive(r)
    PROVE  ProvisioningInv'
<1>1. at[r] = "new" /\ rows[r] = {}
  BY DEF Receive, ProvisioningInv, RowsFollow, Bare
<1>2. DOMAIN suffix' = Signups /\ \A s \in Signups : suffix'[s] = suffix[s]
  BY DEF Receive, ProvisioningInv, Typed
<1>3. CASE Goto(r, "skipped") /\ UNCHANGED <<rows, refusedAt>>
  BY <1>1, <1>2, <1>3, AdvanceKeeps DEF Receive, Steps, Over, Bare
<1>4. CASE Goto(r, "check_domain") /\ UNCHANGED <<rows, refusedAt>>
  BY <1>1, <1>2, <1>4, AdvanceKeeps DEF Receive, Steps, Over, Bare
<1>5. CASE ~WellFormed(r) /\ Refuse(r)
  <2>1. DOMAIN refusedAt' = Signups
        /\ \A s \in Signups : s # r => refusedAt'[s] = refusedAt[s]
    BY <1>5 DEF Refuse, ProvisioningInv, Typed
  <2> QED BY <1>1, <1>5, <2>1, UndoKeeps DEF Receive, Refuse, Over
<1> QED BY <1>3, <1>4, <1>5 DEF Receive

\* A check finds a committed row, or goes on.
LEMMA LookKeeps ==
    ASSUME ProvisioningInv, NEW r \in Signups, Look(r)
    PROVE  ProvisioningInv'
<1>1. at[r] \in {"check_domain", "check_subdomain", "check_email", "clean_school",
                 "clean_domain", "clean_role"}
  BY LookFacts DEF Look
<1>2. Looks[at[r]] \subseteq Columns
      /\ ("role" \in Looks[at[r]] => at[r] = "clean_role")
  BY <1>1, LookFacts DEF Columns
<1>3. DOMAIN suffix' = Signups /\ \A s \in Signups : suffix'[s] = suffix[s]
  BY DEF Look, ProvisioningInv, Typed
<1>4. CASE Refuse(r) /\ \E c \in Looks[at[r]] : Taken(r, c)
  <2>1. DOMAIN refusedAt' = Signups /\ refusedAt'[r] = at[r]
        /\ \A s \in Signups : s # r => refusedAt'[s] = refusedAt[s]
    BY <1>4 DEF Refuse, ProvisioningInv, Typed
  <2>2. PICK c \in Columns : c \in Looks[at[r]] /\ Taken(r, c)
    BY <1>2, <1>4
  <2>3. \/ \E s \in Signups, k \in Columns \ {"role"} :
              s # r /\ at[s] = "done" /\ Value(s, k) = Value(r, k)
        \/ refusedAt'[r] = "clean_role" /\ RoleStands
    BY <2>1, <2>2, <1>2, TakenIsCause
  <2> QED BY <1>1, <1>4, <2>1, <2>3, UndoKeeps DEF Look, Refuse, Over
<1>5. CASE Goto(r, Then[at[r]]) /\ UNCHANGED <<rows, refusedAt>>
  <2>1. /\ at[r] \in Bare => rows[r] = {}
        /\ at[r] \notin Bare => "school" \in rows[r]
        /\ at[r] = "clean_role" => "domain" \in rows[r] /\ "user" \in rows[r]
    BY DEF ProvisioningInv, RowsFollow, Bare
  <2>2. Then[at[r]] \in Steps \ {"refused"}
    BY <1>1, ThenFacts DEF Steps, Over
  <2> QED BY <1>1, <1>3, <1>5, <2>1, <2>2, ThenFacts, AdvanceKeeps DEF Look, Over, Bare
<1> QED BY <1>4, <1>5 DEF Look

\* The schema is named before any row has the name.
LEMMA NameSchemaKeeps ==
    ASSUME ProvisioningInv, NEW r \in Signups, NameSchema(r)
    PROVE  ProvisioningInv'
<1>1. at[r] = "name_schema" /\ rows[r] = {}
  BY DEF NameSchema, ProvisioningInv, RowsFollow, Bare
<1>2. DOMAIN suffix' = Signups /\ \A s \in Signups : s # r => suffix'[s] = suffix[s]
  BY DEF NameSchema, ProvisioningInv, Typed
<1> QED BY <1>1, <1>2, AdvanceKeeps DEF NameSchema, Steps, Over, Bare

\* An INSERT waits, fails, or adds a row that nobody else has.
LEMMA PutKeeps ==
    ASSUME ProvisioningInv, NEW r \in Signups, Put(r)
    PROVE  ProvisioningInv'
<1>1. \/ at[r] = "put_school" /\ Puts[at[r]] = "school"
      \/ at[r] = "put_domain" /\ Puts[at[r]] = "domain"
      \/ at[r] = "put_user" /\ Puts[at[r]] = "user"
      \/ at[r] = "put_binding" /\ Puts[at[r]] = "binding"
  BY PutFacts DEF Put
<1>2. at[r] \notin Over /\ at[r] \notin Bare \ {"put_school"}
  BY <1>1 DEF Over, Bare
<1>3. CASE Violates(r, Puts[at[r]]) /\ Refuse(r)
  <2>1. DOMAIN refusedAt' = Signups
        /\ \A s \in Signups : s # r => refusedAt'[s] = refusedAt[s]
    BY <1>3 DEF Refuse, ProvisioningInv, Typed
  <2>2. PICK c \in Columns : c # "role" /\ Taken(r, c)
    BY <1>1, <1>3, ColumnFacts DEF Violates
  <2>3. \E s \in Signups, k \in Columns \ {"role"} :
              s # r /\ at[s] = "done" /\ Value(s, k) = Value(r, k)
    BY <2>2, TakenIsCause
  <2> QED BY <1>2, <1>3, <2>1, <2>3, UndoKeeps DEF Put, Refuse
<1>4. CASE ~Violates(r, Puts[at[r]]) /\ Write(r, Puts[at[r]])
  <2>1. Puts[at[r]] \in Tables
    BY <1>1 DEF Tables
  <2> QED BY <1>1, <1>2, <1>4, <2>1, WriteKeeps DEF Put
<1> QED BY <1>3, <1>4 DEF Put

\* The first query of get_or_create finds a committed role, or goes on to check.
LEMMA GetRoleKeeps ==
    ASSUME ProvisioningInv, NEW r \in Signups, GetRole(r)
    PROVE  ProvisioningInv'
<1>1. at[r] = "get_role" /\ {"school", "domain", "user"} \subseteq rows[r]
  BY DEF GetRole, ProvisioningInv, RowsFollow, Bare
<1>2. DOMAIN suffix' = Signups /\ \A s \in Signups : suffix'[s] = suffix[s]
  BY DEF GetRole, ProvisioningInv, Typed
<1>3. Taken(r, "role") => RoleStands
  BY TakenIsCause DEF Columns
<1>4. CASE Goto(r, "put_binding") /\ RoleStands
  BY <1>1, <1>2, <1>4, AdvanceKeeps DEF GetRole, Steps, Over, Bare
<1>5. CASE Goto(r, "clean_role")
  BY <1>1, <1>2, <1>5, AdvanceKeeps DEF GetRole, Steps, Over, Bare
<1> QED BY <1>3, <1>4, <1>5 DEF GetRole

\* The INSERT of get_or_create, or the role that another sign-up committed.
LEMMA PutRoleKeeps ==
    ASSUME ProvisioningInv, NEW r \in Signups, PutRole(r)
    PROVE  ProvisioningInv'
<1>1. at[r] = "put_role" /\ {"school", "domain", "user"} \subseteq rows[r]
  BY DEF PutRole, ProvisioningInv, RowsFollow, Bare
<1>2. DOMAIN suffix' = Signups /\ \A s \in Signups : suffix'[s] = suffix[s]
  BY DEF PutRole, ProvisioningInv, Typed
<1>3. Violates(r, "role") => RoleStands
  BY ColumnFacts, TakenIsCause DEF Violates
<1>4. CASE Violates(r, "role") /\ Goto(r, "put_binding") /\ UNCHANGED <<rows, refusedAt>>
  BY <1>1, <1>2, <1>3, <1>4, AdvanceKeeps DEF PutRole, Steps, Over, Bare
<1>5. CASE ~Violates(r, "role") /\ Write(r, "role")
  BY <1>1, <1>5, WriteKeeps DEF PutRole, Tables, Over, Bare
<1> QED BY <1>4, <1>5 DEF PutRole

\* A commit makes a whole school visible.
LEMMA CommitKeeps ==
    ASSUME ProvisioningInv, NEW r \in Signups, Commit(r)
    PROVE  ProvisioningInv'
<1>1. at[r] = "commit" /\ {"school", "domain", "user", "binding"} \subseteq rows[r]
      /\ ("role" \in rows[r] \/ RoleStands)
  BY DEF Commit, ProvisioningInv, RowsFollow, RolesStand, Bare
<1>2. DOMAIN suffix' = Signups /\ \A s \in Signups : suffix'[s] = suffix[s]
  BY DEF Commit, ProvisioningInv, Typed
<1> QED BY <1>1, <1>2, AdvanceKeeps DEF Commit, Steps, Over, Bare

\* A sign-up whose process dies takes its rows with it.
LEMMA LoseKeeps ==
    ASSUME ProvisioningInv, NEW r \in Signups, LoseRequest(r)
    PROVE  ProvisioningInv'
<1>1. DOMAIN refusedAt' = Signups
      /\ \A s \in Signups : s # r => refusedAt'[s] = refusedAt[s]
  BY DEF LoseRequest, ProvisioningInv, Typed
<1> QED BY <1>1, UndoKeeps DEF LoseRequest

\* With the role present the other parts of the invariant do not change.
LEMMA SeedKeeps ==
    ASSUME ProvisioningInv, SeedRoles
    PROVE  ProvisioningInv'
<1>1. Typed' /\ RowsFollow'
  BY DEF SeedRoles, ProvisioningInv, Typed, RowsFollow
<1>2. RoleStands'
  BY DEF SeedRoles, RoleStands
<1>3. RolesStand'
  BY <1>2 DEF RolesStand
<1>4. \A s \in Signups, c \in Columns : Value(s, c)' = Value(s, c)
  BY ValueKept DEF SeedRoles
<1>5. (DOMAIN TableOf)' = Columns /\ \A c \in Columns : TableOf[c]' = TableOf[c]
  BY ColumnFacts DEF TableOf
<1>6. RowsApart'
  BY <1>4, <1>5 DEF SeedRoles, ProvisioningInv, RowsApart
<1>7. \A s \in Signups : WellFormed(s)' = WellFormed(s)
  BY WellFormedKept DEF SeedRoles
<1>8. RefusedForCause'
  BY <1>2, <1>4, <1>5, <1>7, ColumnFacts
     DEF SeedRoles, ProvisioningInv, RefusedForCause, RoleStands
<1> QED BY <1>1, <1>3, <1>6, <1>8 DEF ProvisioningInv

\* Before the first sign-up there is nothing.
LEMMA ProvisioningInvStart == ProvisioningInit => ProvisioningInv
<1> SUFFICES ASSUME ProvisioningInit PROVE ProvisioningInv
  OBVIOUS
<1>1. Typed /\ RowsFollow /\ RolesStand /\ RowsApart
  BY DEF ProvisioningInit, Typed, RowsFollow, RolesStand, RowsApart, Steps, Bare
<1>2. RefusedForCause
  BY DEF ProvisioningInit, RefusedForCause
<1> QED BY <1>1, <1>2 DEF ProvisioningInv

\* Every step of every sign-up keeps the invariant.
LEMMA ProvisioningInvStep ==
    ProvisioningInv /\ [ProvisioningNext]_provisioningVars => ProvisioningInv'
<1> SUFFICES ASSUME ProvisioningInv, [ProvisioningNext]_provisioningVars
             PROVE  ProvisioningInv'
  OBVIOUS
<1>1. CASE SeedRoles
  BY <1>1, SeedKeeps
<1>2. ASSUME NEW r \in Signups, Proceed(r) PROVE ProvisioningInv'
  BY <1>2, ReceiveKeeps, LookKeeps, NameSchemaKeeps, PutKeeps, GetRoleKeeps,
     PutRoleKeeps, CommitKeeps DEF Proceed
<1>3. ASSUME NEW r \in Signups, LoseRequest(r) PROVE ProvisioningInv'
  BY <1>3, LoseKeeps
<1>4. CASE UNCHANGED provisioningVars
  <2>1. \A s \in Signups, c \in Columns : Value(s, c)' = Value(s, c)
    BY <1>4, ValueKept DEF provisioningVars
  <2>2. (DOMAIN TableOf)' = Columns /\ \A c \in Columns : TableOf[c]' = TableOf[c]
    BY ColumnFacts DEF TableOf
  <2>3. \A s \in Signups : WellFormed(s)' = WellFormed(s)
    BY <1>4, WellFormedKept DEF provisioningVars
  <2>4. RefusedForCause'
    BY <1>4, <2>1, <2>2, <2>3, ColumnFacts
       DEF provisioningVars, ProvisioningInv, RefusedForCause
  <2>5. RowsApart'
    BY <1>4, <2>1, <2>2 DEF provisioningVars, ProvisioningInv, RowsApart
  <2>6. Typed' /\ RowsFollow' /\ RolesStand'
    BY <1>4 DEF provisioningVars, ProvisioningInv, Typed, RowsFollow, RolesStand, RoleStands
  <2> QED BY <2>4, <2>5, <2>6 DEF ProvisioningInv
<1> QED BY <1>1, <1>2, <1>3, <1>4 DEF ProvisioningNext

\* The invariant holds of every behaviour of provision_school_and_admin.
THEOREM ProvisioningInvHolds == ProvisioningSpec => []ProvisioningInv
  BY ProvisioningInvStart, ProvisioningInvStep, PTL DEF ProvisioningSpec

\* No request ever leaves part of a school behind (services.py:1-6).
THEOREM SchoolsAreWhole == ProvisioningSpec => []WholeOrNothing
<1>1. ProvisioningInv => WholeOrNothing
  BY DEF ProvisioningInv, RowsFollow, RolesStand, RoleStands, WholeOrNothing, Over, Bare
<1> QED BY <1>1, ProvisioningInvHolds, PTL

\* No two schools share a unique value, whatever interleaves.
THEOREM SchoolsStayApart == ProvisioningSpec => []SchoolsKeepApart
<1>1. ProvisioningInv => SchoolsKeepApart
  <2>1. SUFFICES ASSUME ProvisioningInv, NEW r \in Signups, NEW s \in Signups,
                        r # s, at[r] = "done", at[s] = "done",
                        NEW c \in Columns \ {"role"}
                 PROVE  Value(r, c) # Value(s, c)
    BY ColumnFacts DEF SchoolsKeepApart
  <2>2. {"school", "domain", "user"} \subseteq rows[r]
        /\ {"school", "domain", "user"} \subseteq rows[s]
    BY <2>1 DEF ProvisioningInv, RowsFollow, Bare
  <2>3. TableOf[c] \in {"school", "domain", "user"}
    BY <2>1, ColumnFacts DEF Columns
  <2> QED BY <2>1, <2>2, <2>3 DEF ProvisioningInv, RowsApart
<1> QED BY <1>1, ProvisioningInvHolds, PTL

\* Every refusal has a cause that stands.
THEOREM RefusalsHaveCause == ProvisioningSpec => []RefusedForCause
<1>1. ProvisioningInv => RefusedForCause
  BY DEF ProvisioningInv
<1> QED BY <1>1, ProvisioningInvHolds, PTL

\* provision_school leaves whole schools that share nothing.
THEOREM SchoolsStandApart == ProvisioningSpec => []SchoolsStand
<1>1. WholeOrNothing /\ SchoolsKeepApart => SchoolsStand
  BY DEF SchoolsStand
<1>. QED  BY <1>1, SchoolsAreWhole, SchoolsStayApart, PTL

-----------------------------------------------------------------------------
(* Grading schemas.  What the validator checks between neighbours holds     *)
(* between any two bands, and coverage follows from the two ends: nothing   *)
(* is assumed of how many bands there are.  The invariant carries the       *)
(* bands' validity from the activation to the rows loaded while active and  *)
(* so to the bindings, and compares a loaded row with the row it was.       *)

\* What a list of bands is: numbers in positions.
BandList(bands) ==
    /\ DOMAIN bands \subseteq Nat
    /\ \A i \in DOMAIN bands : bands[i] \in BandRange

\* Every set of natural numbers that is not empty has a least element.
LEMMA LeastNumber ==
    ASSUME NEW S \in SUBSET Nat, S # {}
    PROVE  \E n \in S : \A m \in S : n <= m
<1>. DEFINE below == {p \in Nat \X Nat : p[1] < p[2]}
<1>1. IsWellFoundedOn(below, Nat)
  BY NatLessThanWellFounded DEF OpToRel
<1>2. \A k, m \in Nat : <<k, m>> \notin below => m <= k
  <2>1. \A k, m \in Nat : k < m => <<k, m>> \in below
    OBVIOUS
  <2>2. \A k, m \in Nat : ~(k < m) => m <= k
    OBVIOUS
  <2>. QED  BY <2>1, <2>2
<1>. HIDE DEF below
<1>3. \E n \in S : \A m \in S : <<m, n>> \notin below
  BY <1>1, WFMin
<1>. QED  BY <1>2, <1>3

\* Among positions of a list one comes first: the sort key is a total order
\* without descents.
LEMMA FirstAmong ==
    ASSUME NEW bands, BandList(bands), NEW D \in SUBSET (DOMAIN bands), D # {}
    PROVE  \E i \in D : \A k \in D : ~Precedes(bands, k, i)
<1>. DEFINE Mins == {bands[k].min : k \in D}
<1>1. \A k \in D : bands[k].min \in Nat /\ bands[k].max \in Nat /\ k \in Nat
  <2>. SUFFICES ASSUME NEW k \in D PROVE bands[k].min \in Nat /\ bands[k].max \in Nat /\ k \in Nat
    OBVIOUS
  <2>1. bands[k] \in BandRange
    BY DEF BandList
  <2>2. bands[k].min \in 0..Hundred /\ bands[k].max \in 0..Hundred
    BY <2>1 DEF BandRange
  <2>. QED  BY <2>2, SchemaAssumption DEF BandList
<1>2. PICK least \in Mins : \A m \in Mins : least <= m
  <2>1. Mins \in SUBSET Nat /\ Mins # {}
    BY <1>1
  <2>. HIDE DEF Mins
  <2>. QED  BY <2>1, LeastNumber
<1>. DEFINE D1 == {k \in D : bands[k].min = least}
            Maxes == {bands[k].max : k \in D1}
<1>3. PICK lowest \in Maxes : \A m \in Maxes : lowest <= m
  <2>1. Maxes \in SUBSET Nat /\ Maxes # {}
    BY <1>1, <1>2
  <2>. HIDE DEF Maxes
  <2>. QED  BY <2>1, LeastNumber
<1>. DEFINE D2 == {k \in D1 : bands[k].max = lowest}
<1>4. PICK i \in D2 : \A k \in D2 : i <= k
  <2>1. D2 \in SUBSET Nat /\ D2 # {}
    BY <1>1, <1>3
  <2>. HIDE DEF D2
  <2>. QED  BY <2>1, LeastNumber
<1>5. i \in D /\ bands[i].min = least /\ bands[i].max = lowest
  BY <1>4
<1>6. ASSUME NEW k \in D, Precedes(bands, k, i) PROVE FALSE
  <2>1. least <= bands[k].min
    BY <1>2
  <2>2. bands[k].min = least
    BY <1>1, <1>5, <1>6, <2>1 DEF Precedes
  <2>3. lowest <= bands[k].max
    BY <1>3, <2>2
  <2>4. bands[k] = bands[i] /\ k < i
    BY <1>1, <1>5, <1>6, <2>2, <2>3 DEF Precedes
  <2>5. k \in D2
    BY <1>5, <2>2, <2>4
  <2>6. i <= k
    BY <1>4, <2>5
  <2>. QED  BY <1>1, <1>5, <2>4, <2>6
<1>. QED  BY <1>5, <1>6

\* Of two positions one precedes the other, in the order of the lower ends.
LEMMA SortedTotally ==
    ASSUME NEW bands, BandList(bands), NEW i \in DOMAIN bands, NEW j \in DOMAIN bands
    PROVE  /\ i # j => Precedes(bands, i, j) \/ Precedes(bands, j, i)
           /\ Precedes(bands, i, j) => bands[i].min <= bands[j].min /\ ~Precedes(bands, j, i)
<1>1. bands[i] \in BandRange /\ bands[j] \in BandRange /\ i \in Nat /\ j \in Nat
  BY DEF BandList
<1>2. /\ bands[i].min \in Int /\ bands[i].max \in Int
      /\ bands[j].min \in Int /\ bands[j].max \in Int
  BY <1>1, SchemaAssumption DEF BandRange
<1>3. bands[i].min = bands[j].min /\ bands[i].max = bands[j].max => bands[i] = bands[j]
  BY <1>1 DEF BandRange
<1>. QED  BY <1>1, <1>2, <1>3 DEF Precedes

\* A position with others behind it has a next one.
LEMMA NextOne ==
    ASSUME NEW bands, BandList(bands), NEW i \in DOMAIN bands, NEW j \in DOMAIN bands,
           Precedes(bands, i, j)
    PROVE  \E k \in DOMAIN bands : /\ <<i, k>> \in Neighbours(bands)
                                   /\ bands[k].min <= bands[j].min
<1>. DEFINE D == {k \in DOMAIN bands : Precedes(bands, i, k)}
<1>1. PICK k \in D : \A l \in D : ~Precedes(bands, l, k)
  <2>1. D \in SUBSET (DOMAIN bands) /\ D # {}
    OBVIOUS
  <2>. HIDE DEF D
  <2>. QED  BY <2>1, FirstAmong
<1>2. <<i, k>> \in Neighbours(bands)
  BY <1>1 DEF Neighbours
<1>3. bands[k].min <= bands[j].min
  <2>1. CASE k = j
    <3>1. bands[j] \in BandRange
      BY DEF BandList
    <3>2. bands[j].min \in Int
      BY <3>1, SchemaAssumption DEF BandRange
    <3>. QED  BY <2>1, <3>2
  <2>2. CASE k # j
    BY <1>1, <2>2, SortedTotally
  <2>. QED  BY <2>1, <2>2
<1>. QED  BY <1>2, <1>3

\* The ends of a list's bands are integers.
LEMMA BandEnds ==
    ASSUME NEW bands, BandList(bands), NEW i \in DOMAIN bands
    PROVE  bands[i].min \in Nat /\ bands[i].max \in Nat
<1>1. bands[i] \in BandRange
  BY DEF BandList
<1>. QED  BY <1>1, SchemaAssumption DEF BandRange

\* What validate_schema_bands asks of neighbours holds of any two bands.
LEMMA BandsApart ==
    ASSUME NEW bands, BandList(bands), NEW full, ValidBands(bands, full),
           NEW i \in DOMAIN bands, NEW j \in DOMAIN bands, Precedes(bands, i, j)
    PROVE  bands[i].max < bands[j].min
<1>1. PICK k \in DOMAIN bands : <<i, k>> \in Neighbours(bands) /\ bands[k].min <= bands[j].min
  BY NextOne
<1>2. bands[k].min > bands[i].max
  BY <1>1 DEF ValidBands
<1>. QED  BY <1>1, <1>2, BandEnds

\* A percentage falls into one band of a valid list at most.
LEMMA OneBandAtMost ==
    ASSUME NEW bands, BandList(bands), NEW full, ValidBands(bands, full), NEW p \in Int,
           NEW i \in Holding(bands, p), NEW j \in Holding(bands, p)
    PROVE  i = j
<1>1. /\ i \in DOMAIN bands /\ bands[i].min <= p /\ p <= bands[i].max
      /\ j \in DOMAIN bands /\ bands[j].min <= p /\ p <= bands[j].max
  BY DEF Holding
<1>2. ~Precedes(bands, i, j)
  BY <1>1, BandsApart, BandEnds
<1>3. ~Precedes(bands, j, i)
  BY <1>1, BandsApart, BandEnds
<1>. QED  BY <1>1, <1>2, <1>3, SortedTotally

\* A valid list that promises full coverage leaves no percentage out: the
\* bands follow one another without a gap from 0 to Hundred.
LEMMA NoGap ==
    ASSUME NEW bands, BandList(bands), ValidBands(bands, TRUE), NEW p \in Percentages,
           \A i \in DOMAIN bands : bands[i].min \in Percentages /\ bands[i].max \in Percentages
    PROVE  Holding(bands, p) # {}
<1>1. First(bands) \in DOMAIN bands /\ bands[First(bands)].min = 0
  <2>1. \E i \in DOMAIN bands : ~\E k \in DOMAIN bands : Precedes(bands, k, i)
    BY FirstAmong DEF ValidBands
  <2>. QED  BY <2>1 DEF First, ValidBands
<1>2. p \in Nat /\ p <= Hundred /\ p % 2 = 0
  BY SchemaAssumption DEF Percentages
<1>. DEFINE Below == {i \in DOMAIN bands : bands[i].min <= p}
            Gaps == {p - bands[i].min : i \in Below}
<1>3. PICK gap \in Gaps : \A g \in Gaps : gap <= g
  <2>1. Gaps \in SUBSET Nat
    <3>1. ASSUME NEW k \in Below PROVE p - bands[k].min \in Nat
      <4>1. bands[k].min \in Nat /\ bands[k].min <= p
        BY BandEnds
      <4>. QED  BY <1>2, <4>1
    <3>. QED  BY <3>1
  <2>2. Gaps # {}
    <3>1. First(bands) \in Below
      BY <1>1, <1>2
    <3>2. p - bands[First(bands)].min \in Gaps
      BY <3>1
    <3>. QED  BY <3>2
  <2>. HIDE DEF Gaps
  <2>. QED  BY <2>1, <2>2, LeastNumber
<1>4. PICK i \in Below : gap = p - bands[i].min
  BY <1>3
<1>5. \A k \in DOMAIN bands : bands[k].min <= p => bands[k].min <= bands[i].min
  <2>. SUFFICES ASSUME NEW k \in DOMAIN bands, bands[k].min <= p
                PROVE  bands[k].min <= bands[i].min
    OBVIOUS
  <2>1. gap <= p - bands[k].min
    BY <1>3
  <2>2. bands[i].min \in Nat /\ bands[k].min \in Nat
    BY <1>4, BandEnds
  <2>. QED  BY <1>2, <1>4, <2>1, <2>2
<1>6. i \in DOMAIN bands /\ bands[i].min <= p
  BY <1>4
<1>. HIDE DEF Below, Gaps
<1>7. ASSUME bands[i].max < p PROVE FALSE
  <2>1. bands[i].max + 2 <= p
    <3>1. bands[i].max \in Percentages
      BY <1>6
    <3>2. bands[i].max \in Nat /\ bands[i].max % 2 = 0
      BY <3>1, SchemaAssumption DEF Percentages
    <3>. QED  BY <1>2, <1>7, <3>2
  <2>2. CASE \E j \in DOMAIN bands : Precedes(bands, i, j)
    <3>1. PICK j \in DOMAIN bands : Precedes(bands, i, j)
      BY <2>2
    <3>2. PICK k \in DOMAIN bands : <<i, k>> \in Neighbours(bands)
      BY <1>6, <3>1, NextOne
    <3>3. bands[k].min = bands[i].max + 2
      BY <3>2 DEF ValidBands
    <3>4. bands[k].min <= bands[i].min
      BY <1>5, <2>1, <3>3
    <3>5. bands[i].min <= bands[i].max
      BY <1>6 DEF ValidBands
    <3>. QED  BY <1>6, <3>3, <3>4, <3>5, BandEnds
  <2>3. CASE ~\E j \in DOMAIN bands : Precedes(bands, i, j)
    <3>1. Last(bands) \in DOMAIN bands /\ ~\E j \in DOMAIN bands : Precedes(bands, Last(bands), j)
      BY <1>6, <2>3 DEF Last
    <3>2. i = Last(bands)
      BY <1>6, <2>3, <3>1, SortedTotally
    <3>3. bands[i].max = Hundred
      BY <3>2 DEF ValidBands
    <3>. QED  BY <1>2, <1>7, <3>3, SchemaAssumption
  <2>. QED  BY <2>2, <2>3
<1>8. i \in Holding(bands, p)
  BY <1>2, <1>6, <1>7, BandEnds DEF Holding
<1>. QED  BY <1>8

-----------------------------------------------------------------------------
(* The inductive invariant of the schemas.                                  *)

SchemaRow ==
    [status : SchemaStatus, type : SchemaTypes \cup {""}, full : BOOLEAN,
     activated : BOOLEAN, deprecated : BOOLEAN]
HeldRow ==
    [op : {"activate", "deprecate", "bind"}, schema : Schemas,
     assessment : GradedAssessments, row : SchemaRow, revision : Nat]

\* The values the columns, the loaded objects and the histories take.
SchemaColumns ==
    /\ schema \in [Schemas -> SchemaRow]
    /\ revision \in [Schemas -> Nat]
    /\ binding \in [GradedAssessments -> Schemas \cup {NoSchema}]
    /\ held \in [Admins -> HeldRow \cup {NotHeld}]
    /\ history \in [deprecated : SUBSET Schemas, overlapped : SUBSET Schemas]
    /\ schemaCalls \in 0..MaxSchemaCalls
    /\ DOMAIN bandsOf = Schemas /\ DOMAIN mapped = GradedAssessments

\* The bands on file are lists of storable percentages.
BandsOnFile ==
    \A s \in Schemas :
        /\ BandList(bandsOf[s])
        /\ \A i \in DOMAIN bandsOf[s] :
              bandsOf[s][i].min \in Percentages /\ bandsOf[s][i].max \in Percentages

\* The stored bands pass the validator, rounding or not.
Sound(s) == ValidBands(bandsOf[s], schema[s].full)

OnFile(s) == schema[s].status # "absent"

\* A schema is active only after its stored bands were validated.
ActiveIsSound == \A s \in Schemas : schema[s].status = "active" => Sound(s)

\* A loaded object is the row as it was: the row itself if nobody saved it
\* since, and of the same coverage, for which alone it was validated, anyhow.
RowStands(w) ==
    LET s == held[w].schema
    IN  /\ OnFile(s)
        /\ held[w].row.status # "absent"
        /\ held[w].row.full = schema[s].full
        /\ held[w].row.status = "active" => Sound(s)
        /\ held[w].revision <= revision[s]
        /\ held[w].revision = revision[s] => held[w].row = schema[s]

HeldIsRow == \A w \in Admins : held[w] # NotHeld => RowStands(w)

\* Only schemas whose bands were validated are bound.
BoundIsSound ==
    \A a \in GradedAssessments :
        binding[a] # NoSchema => OnFile(binding[a]) /\ Sound(binding[a])

\* A record's band is that of its version, which stays on file.
MappedByVersion ==
    \A a \in GradedAssessments :
        /\ mapped[a].raw \in 0..MaxScore
        /\ mapped[a].schema \in Schemas \cup {NoSchema}
        /\ mapped[a].schema # NoSchema =>
              /\ OnFile(mapped[a].schema)
              /\ mapped[a].band =
                    MapScoreToBand(bandsOf[mapped[a].schema],
                                   NormalizePercentage(mapped[a].raw))

\* Deprecated schemas are on file: none is created in their place.
HistoryOnFile == \A s \in history.deprecated : OnFile(s)

SchemaInv ==
    /\ SchemaColumns
    /\ BandsOnFile
    /\ ActiveIsSound
    /\ HeldIsRow
    /\ BoundIsSound
    /\ MappedByVersion
    /\ HistoryOnFile
    /\ OnlyOverlapLosesDeprecation

\* Without schemas nothing is bound and nothing held.
LEMMA SchemaInvStart == SchemaInit => SchemaInv
<1>. SUFFICES ASSUME SchemaInit PROVE SchemaInv
  OBVIOUS
<1>1. NoRow \in SchemaRow
  BY DEF NoRow, SchemaRow, SchemaStatus
<1>2. SchemaColumns
  BY <1>1, SchemaAssumption DEF SchemaInit, SchemaColumns
<1>3. BandsOnFile
  BY DEF SchemaInit, BandsOnFile, BandList
<1>4. ActiveIsSound /\ HeldIsRow /\ BoundIsSound /\ HistoryOnFile /\ OnlyOverlapLosesDeprecation
  BY DEF SchemaInit, ActiveIsSound, HeldIsRow, BoundIsSound, HistoryOnFile,
         OnlyOverlapLosesDeprecation, NoRow
<1>5. MappedByVersion
  BY SchemaAssumption DEF SchemaInit, MappedByVersion, Unmapped
<1>. QED  BY <1>2, <1>3, <1>4, <1>5 DEF SchemaInv

\* The rounding of the columns stores a percentage of the same range.
LEMMA StoredIsPercentage ==
    ASSUME NEW v \in 0..Hundred
    PROVE  Stored(v) \in Percentages
<1>1. v \in Nat /\ v <= Hundred /\ Hundred \in Nat /\ Hundred % 2 = 0
  BY SchemaAssumption
<1>. DEFINE half == (v + 1) \div 2
<1>2. half \in Nat /\ 2 * half <= v + 1 /\ v <= 2 * half
  BY <1>1
<1>. HIDE DEF half
<1>3. (2 * half) % 2 = 0
  BY <1>2
<1>4. 2 * half <= Hundred
  BY <1>1, <1>2
<1>5. 2 * half \in 0..Hundred
  BY <1>1, <1>2, <1>4
<1>6. 2 * half \in Percentages
  BY <1>3, <1>5 DEF Percentages
<1>. QED  BY <1>6 DEF Stored, half

\* Bindings and records lose nothing while rows stay on file with their
\* coverage and their bands.
LEMMA BindingsKept ==
    ASSUME SchemaInv,
           \A s \in Schemas : OnFile(s) =>
               /\ OnFile(s)'
               /\ schema'[s].full = schema[s].full
               /\ bandsOf'[s] = bandsOf[s]
    PROVE  /\ binding' = binding => BoundIsSound'
           /\ mapped' = mapped => MappedByVersion'
<1>1. ASSUME binding' = binding, NEW a \in GradedAssessments, binding[a] # NoSchema
      PROVE  OnFile(binding[a])' /\ Sound(binding[a])'
  <2>1. binding[a] \in Schemas /\ OnFile(binding[a]) /\ Sound(binding[a])
    BY <1>1 DEF SchemaInv, SchemaColumns, BoundIsSound
  <2>. QED  BY <1>1, <2>1 DEF Sound, OnFile
<1>2. ASSUME mapped' = mapped, NEW a \in GradedAssessments, mapped[a].schema # NoSchema
      PROVE  OnFile(mapped[a].schema)' /\ bandsOf'[mapped[a].schema] = bandsOf[mapped[a].schema]
  <2>1. mapped[a].schema \in Schemas /\ OnFile(mapped[a].schema)
    BY <1>2 DEF SchemaInv, MappedByVersion
  <2>. QED  BY <1>2, <2>1 DEF OnFile
<1>3. binding' = binding => BoundIsSound'
  BY <1>1 DEF BoundIsSound
<1>4. mapped' = mapped => MappedByVersion'
  BY <1>2 DEF MappedByVersion, SchemaInv
<1>. QED  BY <1>3, <1>4

\* A loaded object stays comparable while its row is.
LEMMA HeldKept ==
    ASSUME SchemaInv, NEW w \in Admins, held'[w] = held[w], held[w] # NotHeld,
           OnFile(held[w].schema)',
           LET s == held[w].schema
           IN  /\ schema'[s].full = schema[s].full
               /\ bandsOf'[s] = bandsOf[s]
               /\ held[w].revision <= revision'[s]
               /\ held[w].revision = revision'[s] =>
                     held[w].revision = revision[s] /\ schema'[s] = schema[s]
    PROVE  RowStands(w)'
<1>1. RowStands(w)
  BY DEF SchemaInv, HeldIsRow
<1>. QED  BY <1>1 DEF RowStands, OnFile, Sound

\* A new schema disturbs no schema on file.
LEMMA CreateKeeps ==
    ASSUME SchemaInv, NEW s \in Schemas, NEW type \in SchemaTypes, NEW full \in BOOLEAN,
           NEW n \in SUBSET Bands, NEW bands \in [n -> BandRange],
           CreateSchoolGradingSchema(s, type, full, bands)
    PROVE  SchemaInv'
<1>. DEFINE row == [NoRow EXCEPT !.status = "draft", !.type = type, !.full = full]
            stored == [i \in DOMAIN bands |-> [min |-> Stored(bands[i].min),
                                               max |-> Stored(bands[i].max)]]
<1>1. /\ schema[s].status = "absent"
      /\ schema' = [schema EXCEPT ![s] = row]
      /\ bandsOf' = [bandsOf EXCEPT ![s] = stored]
      /\ UNCHANGED <<binding, mapped, held, schemaCalls, revision, history>>
  BY DEF CreateSchoolGradingSchema
<1>2. row \in SchemaRow /\ row.status = "draft"
  BY DEF NoRow, SchemaRow, SchemaStatus
<1>3. /\ BandList(stored)
      /\ \A i \in DOMAIN stored : stored[i].min \in Percentages /\ stored[i].max \in Percentages
  <2>1. DOMAIN stored = n /\ DOMAIN stored \subseteq Nat
    BY SchemaAssumption
  <2>2. ASSUME NEW i \in n
        PROVE  /\ stored[i].min \in Percentages /\ stored[i].max \in Percentages
               /\ stored[i] \in BandRange
    <3>1. bands[i].min \in 0..Hundred /\ bands[i].max \in 0..Hundred
      BY DEF BandRange
    <3>2. stored[i] = [min |-> Stored(bands[i].min), max |-> Stored(bands[i].max)]
      BY <2>2
    <3>3. Stored(bands[i].min) \in Percentages /\ Stored(bands[i].max) \in Percentages
      BY <3>1, StoredIsPercentage
    <3>. QED  BY <3>2, <3>3 DEF BandRange, Percentages
  <2>. HIDE DEF stored
  <2>. QED  BY <2>1, <2>2 DEF BandList
<1>. HIDE DEF row, stored
<1>4. schema'[s] = row /\ \A t \in Schemas : t # s => schema'[t] = schema[t]
  BY <1>1 DEF SchemaInv, SchemaColumns
<1>5. bandsOf'[s] = stored /\ \A t \in Schemas : t # s => bandsOf'[t] = bandsOf[t]
  BY <1>1 DEF SchemaInv, SchemaColumns
<1>6. \A t \in Schemas : OnFile(t) =>
          OnFile(t)' /\ t # s /\ schema'[t] = schema[t] /\ bandsOf'[t] = bandsOf[t]
  BY <1>1, <1>4, <1>5 DEF OnFile
<1>7. SchemaColumns'
  BY <1>1, <1>2 DEF SchemaInv, SchemaColumns
<1>8. BandsOnFile'
  BY <1>3, <1>5 DEF SchemaInv, BandsOnFile
<1>9. ActiveIsSound'
  BY <1>2, <1>4, <1>5, <1>6 DEF SchemaInv, ActiveIsSound, Sound, OnFile
<1>10. HeldIsRow'
  <2>. SUFFICES ASSUME NEW w \in Admins, held[w] # NotHeld
                PROVE  RowStands(w)'
    BY <1>1 DEF HeldIsRow
  <2>1. held[w].schema \in Schemas /\ OnFile(held[w].schema)
    BY DEF SchemaInv, SchemaColumns, HeldRow, HeldIsRow, RowStands
  <2>2. held[w].revision <= revision[held[w].schema]
    BY DEF SchemaInv, HeldIsRow, RowStands
  <2>. QED  BY <1>1, <1>6, <2>1, <2>2, HeldKept
<1>11. BoundIsSound' /\ MappedByVersion'
  BY <1>1, <1>6, BindingsKept
<1>12. OnlyOverlapLosesDeprecation'
  BY <1>1, <1>6 DEF SchemaInv, SchemaColumns, HistoryOnFile, OnlyOverlapLosesDeprecation
<1>13. HistoryOnFile'
  BY <1>1, <1>6 DEF SchemaInv, SchemaColumns, HistoryOnFile
<1>. QED  BY <1>7, <1>8, <1>9, <1>10, <1>11, <1>12, <1>13 DEF SchemaInv

\* A call that changes no row, nor a binding, a record or the history.
LEMMA LoadKeeps ==
    ASSUME SchemaInv, NEW w \in Admins, NEW s \in Schemas, NEW a \in GradedAssessments,
           NEW op \in {"activate", "deprecate", "bind"}, LoadRows(w, op, s, a)
    PROVE  SchemaInv'
<1>. DEFINE loaded == [op |-> op, schema |-> s, assessment |-> a,
                       row |-> schema[s], revision |-> revision[s]]
<1>1. /\ held' = [held EXCEPT ![w] = loaded] /\ schema[s].status # "absent"
      /\ schemaCalls < MaxSchemaCalls /\ schemaCalls' = schemaCalls + 1
      /\ UNCHANGED <<schema, bandsOf, binding, mapped, revision, history>>
  BY DEF LoadRows
<1>2. /\ loaded \in HeldRow
      /\ loaded.schema = s /\ loaded.row = schema[s] /\ loaded.revision = revision[s]
  BY DEF SchemaInv, SchemaColumns, HeldRow
<1>. HIDE DEF loaded
<1>3. held'[w] = loaded /\ \A x \in Admins : x # w => held'[x] = held[x]
  BY <1>1 DEF SchemaInv, SchemaColumns
<1>4. schemaCalls' \in 0..MaxSchemaCalls
  BY <1>1, SchemaAssumption DEF SchemaInv, SchemaColumns
<1>5. SchemaColumns'
  BY <1>1, <1>2, <1>4 DEF SchemaInv, SchemaColumns
<1>6. HeldIsRow'
  <2>. SUFFICES ASSUME NEW x \in Admins, held'[x] # NotHeld PROVE RowStands(x)'
    BY DEF HeldIsRow
  <2>1. CASE x = w
    <3>1. schema[s].status = "active" => Sound(s)
      BY DEF SchemaInv, ActiveIsSound
    <3>2. revision[s] \in Nat
      BY DEF SchemaInv, SchemaColumns
    <3>. QED  BY <1>1, <1>2, <1>3, <2>1, <3>1, <3>2 DEF RowStands, OnFile, Sound
  <2>2. CASE x # w
    <3>1. held'[x] = held[x] /\ RowStands(x)
      BY <1>3, <2>2 DEF SchemaInv, HeldIsRow
    <3>. QED  BY <1>1, <3>1 DEF RowStands, OnFile, Sound
  <2>. QED  BY <2>1, <2>2
<1>. QED  BY <1>1, <1>5, <1>6 DEF SchemaInv, BandsOnFile, ActiveIsSound, BoundIsSound,
            MappedByVersion, HistoryOnFile, OnlyOverlapLosesDeprecation, OnFile, Sound

\* A worker that is done holds nothing; the others hold what they held.
LEMMA Released ==
    ASSUME SchemaInv, NEW w \in Admins, held' = [held EXCEPT ![w] = NotHeld]
    PROVE  /\ held' \in [Admins -> HeldRow \cup {NotHeld}]
           /\ held'[w] = NotHeld /\ \A x \in Admins : x # w => held'[x] = held[x]
BY DEF SchemaInv, SchemaColumns

\* schema.save() of a whole loaded row: whoever loaded it before is told by the
\* revision, and a deprecation the row does not know is lost to an overlap.
LEMMA SaveKeeps ==
    ASSUME SchemaInv, NEW w \in Admins, held[w] # NotHeld, NEW row \in SchemaRow,
           SaveRow(w, row), held' = [held EXCEPT ![w] = NotHeld],
           UNCHANGED <<bandsOf, binding, mapped, schemaCalls>>,
           row.status # "absent", row.full = held[w].row.full,
           row.status = "active" => Sound(held[w].schema),
           row.status = "deprecated" => row.deprecated,
           held[w].row.deprecated => row.deprecated
    PROVE  SchemaInv'
<1>. DEFINE s == held[w].schema
<1>1. s \in Schemas /\ held[w].revision \in Nat
  BY DEF SchemaInv, SchemaColumns, HeldRow
<1>2. /\ schema' = [schema EXCEPT ![s] = row]
      /\ revision' = [revision EXCEPT ![s] = revision[s] + 1]
      /\ history' = [deprecated |-> history.deprecated \cup
                         (IF row.status = "deprecated" THEN {s} ELSE {}),
                     overlapped |-> history.overlapped \cup
                         (IF held[w].revision # revision[s] THEN {s} ELSE {})]
  BY DEF SaveRow
<1>3. RowStands(w)
  BY DEF SchemaInv, HeldIsRow
<1>4. /\ OnFile(s) /\ row.full = schema[s].full
      /\ held[w].revision = revision[s] => held[w].row = schema[s]
  BY <1>3 DEF RowStands
<1>. HIDE DEF s
<1>5. schema'[s] = row /\ \A t \in Schemas : t # s => schema'[t] = schema[t]
  BY <1>1, <1>2 DEF SchemaInv, SchemaColumns
<1>6. revision'[s] = revision[s] + 1 /\ \A t \in Schemas : t # s => revision'[t] = revision[t]
  BY <1>1, <1>2 DEF SchemaInv, SchemaColumns
<1>7. /\ history'.deprecated = history.deprecated \cup
             (IF row.status = "deprecated" THEN {s} ELSE {})
      /\ history'.overlapped = history.overlapped \cup
             (IF held[w].revision # revision[s] THEN {s} ELSE {})
  BY <1>2
<1>8. \A t \in Schemas : OnFile(t) =>
          OnFile(t)' /\ schema'[t].full = schema[t].full /\ bandsOf'[t] = bandsOf[t]
  BY <1>4, <1>5 DEF OnFile
<1>9. SchemaColumns'
  <2>1. revision[s] \in Nat
    BY <1>1 DEF SchemaInv, SchemaColumns
  <2>2. revision' \in [Schemas -> Nat] /\ schema' \in [Schemas -> SchemaRow]
    BY <1>1, <1>2, <2>1 DEF SchemaInv, SchemaColumns
  <2>3. history' \in [deprecated : SUBSET Schemas, overlapped : SUBSET Schemas]
    BY <1>1, <1>2 DEF SchemaInv, SchemaColumns
  <2>. QED  BY <2>2, <2>3, Released DEF SchemaInv, SchemaColumns
<1>10. ActiveIsSound'
  BY <1>4, <1>5 DEF SchemaInv, ActiveIsSound, Sound, s
<1>11. HeldIsRow'
  <2>. SUFFICES ASSUME NEW x \in Admins, held'[x] # NotHeld PROVE RowStands(x)'
    BY DEF HeldIsRow
  <2>1. x # w /\ held'[x] = held[x] /\ RowStands(x)
    BY Released DEF SchemaInv, HeldIsRow
  <2>2. held[x].schema \in Schemas /\ held[x].revision \in Nat /\ OnFile(held[x].schema)
    BY <2>1 DEF SchemaInv, SchemaColumns, HeldRow, RowStands
  <2>3. revision[held[x].schema] \in Nat /\ held[x].revision <= revision[held[x].schema]
    BY <2>1, <2>2 DEF SchemaInv, SchemaColumns, RowStands
  <2>4. /\ held[x].revision <= revision'[held[x].schema]
        /\ held[x].revision = revision'[held[x].schema] =>
              /\ held[x].revision = revision[held[x].schema]
              /\ schema'[held[x].schema] = schema[held[x].schema]
    <3>1. CASE held[x].schema # s
      BY <1>5, <1>6, <2>2, <2>3, <3>1
    <3>2. CASE held[x].schema = s
      BY <1>6, <2>2, <2>3, <3>2
    <3>. QED  BY <3>1, <3>2
  <2>. QED  BY <1>8, <2>1, <2>2, <2>4, HeldKept
<1>12. BoundIsSound' /\ MappedByVersion'
  BY <1>8, BindingsKept
<1>13. HistoryOnFile'
  <2>1. \A t \in history'.deprecated : t \in Schemas /\ OnFile(t)
    BY <1>1, <1>4, <1>7 DEF SchemaInv, SchemaColumns, HistoryOnFile
  <2>. QED  BY <1>8, <2>1 DEF HistoryOnFile
<1>14. OnlyOverlapLosesDeprecation'
  <2>. SUFFICES ASSUME NEW t \in history'.deprecated, ~schema'[t].deprecated
                PROVE  t \in history'.overlapped
    BY DEF OnlyOverlapLosesDeprecation
  <2>1. t \in Schemas
    BY <1>1, <1>7 DEF SchemaInv, SchemaColumns
  <2>2. CASE t # s
    BY <1>5, <1>7, <2>1, <2>2 DEF SchemaInv, OnlyOverlapLosesDeprecation
  <2>3. CASE t = s
    <3>1. row.status # "deprecated" /\ ~held[w].row.deprecated
      BY <1>5, <2>3
    <3>2. t \in history.deprecated
      BY <1>7, <3>1
    <3>. QED  BY <1>4, <1>7, <2>3, <3>1, <3>2 DEF SchemaInv, OnlyOverlapLosesDeprecation
  <2>. QED  BY <2>2, <2>3
<1>15. BandsOnFile'
  BY DEF SchemaInv, BandsOnFile
<1>. QED  BY <1>9, <1>10, <1>11, <1>12, <1>13, <1>14, <1>15 DEF SchemaInv

\* A worker with an operation holds a row that stands.
LEMMA HeldHasRow ==
    ASSUME SchemaInv, NEW w \in Admins, held[w].op # "none"
    PROVE  held[w] # NotHeld /\ held[w] \in HeldRow /\ RowStands(w)
<1>1. held[w] # NotHeld
  BY DEF NotHeld
<1>. QED  BY <1>1 DEF SchemaInv, SchemaColumns, HeldIsRow

\* Releasing a row changes nothing else of the invariant.
LEMMA ReleaseKeeps ==
    ASSUME SchemaInv, NEW w \in Admins, held' = [held EXCEPT ![w] = NotHeld],
           UNCHANGED <<schema, bandsOf, mapped, schemaCalls, revision, history>>,
           binding' \in [GradedAssessments -> Schemas \cup {NoSchema}], BoundIsSound'
    PROVE  SchemaInv'
<1>1. SchemaColumns'
  BY Released DEF SchemaInv, SchemaColumns
<1>2. HeldIsRow'
  BY Released DEF SchemaInv, HeldIsRow, RowStands, OnFile, Sound
<1>. QED  BY <1>1, <1>2 DEF SchemaInv, BandsOnFile, ActiveIsSound, MappedByVersion,
            HistoryOnFile, OnlyOverlapLosesDeprecation, OnFile, Sound

\* Activation saves a row whose stored bands it has just validated.
LEMMA ActivateKeeps ==
    ASSUME SchemaInv, NEW w \in Admins, ActivateSchoolGradingSchema(w)
    PROVE  SchemaInv'
<1>1. /\ held[w] # NotHeld /\ held[w] \in HeldRow /\ RowStands(w)
      /\ held' = [held EXCEPT ![w] = NotHeld]
      /\ UNCHANGED <<bandsOf, binding, mapped, schemaCalls>>
  BY HeldHasRow DEF ActivateSchoolGradingSchema
<1>2. CASE Activatable(held[w].schema, held[w].row)
  <2>. DEFINE row == Activated(held[w].row)
  <2>1. held[w].row \in SchemaRow
    BY <1>1 DEF HeldRow
  <2>2. /\ row \in SchemaRow /\ row.status = "active" /\ row.full = held[w].row.full
        /\ row.deprecated = held[w].row.deprecated
    BY <2>1 DEF Activated, SchemaRow, SchemaStatus
  <2>3. SaveRow(w, row)
    BY <1>2 DEF ActivateSchoolGradingSchema
  <2>4. Sound(held[w].schema)
    BY <1>1, <1>2 DEF Activatable, Sound, RowStands
  <2>. HIDE DEF row
  <2>. QED  BY <1>1, <2>2, <2>3, <2>4, SaveKeeps
<1>3. CASE ~Activatable(held[w].schema, held[w].row)
  <2>1. UNCHANGED <<schema, revision, history>>
    BY <1>3 DEF ActivateSchoolGradingSchema
  <2>2. binding' \in [GradedAssessments -> Schemas \cup {NoSchema}] /\ BoundIsSound'
    BY <1>1, <2>1 DEF SchemaInv, SchemaColumns, BoundIsSound, OnFile, Sound
  <2>. QED  BY <1>1, <2>1, <2>2, ReleaseKeeps
<1>. QED  BY <1>2, <1>3

\* Deprecation marks the row it saves.
LEMMA DeprecateKeeps ==
    ASSUME SchemaInv, NEW w \in Admins, DeprecateSchoolGradingSchema(w)
    PROVE  SchemaInv'
<1>. DEFINE row == [held[w].row EXCEPT !.status = "deprecated", !.deprecated = TRUE]
<1>1. /\ held[w] # NotHeld /\ held[w] \in HeldRow /\ RowStands(w)
      /\ held' = [held EXCEPT ![w] = NotHeld]
      /\ UNCHANGED <<bandsOf, binding, mapped, schemaCalls>>
      /\ SaveRow(w, row)
  BY HeldHasRow DEF DeprecateSchoolGradingSchema
<1>2. held[w].row \in SchemaRow
  BY <1>1 DEF HeldRow
<1>3. /\ row \in SchemaRow /\ row.status = "deprecated" /\ row.deprecated
      /\ row.full = held[w].row.full
  BY <1>2 DEF SchemaRow, SchemaStatus
<1>. HIDE DEF row
<1>. QED  BY <1>1, <1>3, SaveKeeps

\* A binding takes a schema that was active when it was loaded.
LEMMA BindKeeps ==
    ASSUME SchemaInv, NEW w \in Admins, BindSchemaToAssessment(w)
    PROVE  SchemaInv'
<1>1. /\ held[w] # NotHeld /\ held[w] \in HeldRow /\ RowStands(w)
      /\ held' = [held EXCEPT ![w] = NotHeld]
      /\ UNCHANGED <<schema, bandsOf, mapped, schemaCalls, revision, history>>
  BY HeldHasRow DEF BindSchemaToAssessment
<1>. DEFINE a == held[w].assessment
            s == held[w].schema
<1>2. a \in GradedAssessments /\ s \in Schemas
  BY <1>1 DEF HeldRow
<1>3. \A x \in Schemas : OnFile(x)' = OnFile(x) /\ Sound(x)' = Sound(x)
  BY <1>1 DEF OnFile, Sound
<1>4. CASE Bindable(w)
  <2>1. OnFile(s) /\ Sound(s)
    BY <1>1, <1>4 DEF Bindable, Usable, RowStands
  <2>2. binding' = [binding EXCEPT ![a] = s]
    BY <1>4 DEF BindSchemaToAssessment
  <2>. HIDE DEF a, s
  <2>3. /\ binding' \in [GradedAssessments -> Schemas \cup {NoSchema}]
        /\ binding'[a] = s
        /\ \A x \in GradedAssessments : x # a => binding'[x] = binding[x]
    BY <1>2, <2>2 DEF SchemaInv, SchemaColumns
  <2>4. ASSUME NEW x \in GradedAssessments, binding'[x] # NoSchema
        PROVE  binding'[x] \in Schemas /\ OnFile(binding'[x]) /\ Sound(binding'[x])
    BY <2>1, <2>3, <2>4 DEF SchemaInv, BoundIsSound
  <2>5. BoundIsSound'
    BY <1>1, <2>4 DEF BoundIsSound, OnFile, Sound
  <2>. QED  BY <1>1, <2>3, <2>5, ReleaseKeeps
<1>5. CASE ~Bindable(w)
  <2>1. binding' = binding
    BY <1>5 DEF BindSchemaToAssessment
  <2>2. binding' \in [GradedAssessments -> Schemas \cup {NoSchema}] /\ BoundIsSound'
    BY <1>1, <2>1 DEF SchemaInv, SchemaColumns, BoundIsSound, OnFile, Sound
  <2>. QED  BY <1>1, <2>2, ReleaseKeeps
<1>. QED  BY <1>4, <1>5

\* A corrected record takes the version bound by now and the band it gives.
LEMMA CorrectKeeps ==
    ASSUME SchemaInv, NEW a \in GradedAssessments, NEW raw \in 0..MaxScore, CorrectScore(a, raw)
    PROVE  SchemaInv'
<1>. DEFINE s == binding[a]
            new == [raw |-> raw, schema |-> s,
                    band |-> MapScoreToBand(bandsOf[s], NormalizePercentage(raw))]
<1>1. /\ s # NoSchema
      /\ mapped' = [mapped EXCEPT ![a] = new]
      /\ UNCHANGED <<schema, bandsOf, binding, held, schemaCalls, revision, history>>
  BY DEF CorrectScore, MapRecord
<1>2. s \in Schemas /\ OnFile(s)
  BY <1>1 DEF SchemaInv, SchemaColumns, BoundIsSound
<1>3. /\ DOMAIN mapped' = GradedAssessments /\ mapped'[a] = new
      /\ \A x \in GradedAssessments : x # a => mapped'[x] = mapped[x]
  <2>. HIDE DEF new
  <2>. QED  BY <1>1 DEF SchemaInv, SchemaColumns
<1>4. new.raw = raw /\ new.schema = s
      /\ new.band = MapScoreToBand(bandsOf[s], NormalizePercentage(new.raw))
  OBVIOUS
<1>. HIDE DEF new, s
<1>5. MappedByVersion'
  <2>. SUFFICES ASSUME NEW x \in GradedAssessments
                PROVE  /\ mapped'[x].raw \in 0..MaxScore
                       /\ mapped'[x].schema \in Schemas \cup {NoSchema}
                       /\ mapped'[x].schema # NoSchema =>
                             /\ OnFile(mapped'[x].schema)
                             /\ mapped'[x].band =
                                   MapScoreToBand(bandsOf[mapped'[x].schema],
                                                  NormalizePercentage(mapped'[x].raw))
    BY <1>1 DEF MappedByVersion, OnFile
  <2>1. CASE x = a
    BY <1>2, <1>3, <1>4, <2>1
  <2>2. CASE x # a
    BY <1>3, <2>2 DEF SchemaInv, MappedByVersion
  <2>. QED  BY <2>1, <2>2
<1>. QED  BY <1>1, <1>3, <1>5 DEF SchemaInv, SchemaColumns, BandsOnFile, ActiveIsSound,
            HeldIsRow, RowStands, BoundIsSound, HistoryOnFile, OnlyOverlapLosesDeprecation,
            OnFile, Sound

\* The inductive step, one action at a time.
LEMMA SchemaInvStep == SchemaInv /\ [SchemaNext]_schemaVars => SchemaInv'
<1>. SUFFICES ASSUME SchemaInv, [SchemaNext]_schemaVars PROVE SchemaInv'
  OBVIOUS
<1>1. CASE UNCHANGED schemaVars
  BY <1>1 DEF schemaVars, SchemaInv, SchemaColumns, BandsOnFile, ActiveIsSound, HeldIsRow,
              RowStands, BoundIsSound, MappedByVersion, HistoryOnFile,
              OnlyOverlapLosesDeprecation, OnFile, Sound
<1>2. CASE SchemaNext
  BY <1>2, CreateKeeps, LoadKeeps, ActivateKeeps, DeprecateKeeps, BindKeeps, CorrectKeeps
     DEF SchemaNext
<1>. QED  BY <1>1, <1>2

-----------------------------------------------------------------------------
(* The theorems about schemas.                                              *)

\* The invariant holds of every state of every behaviour.
THEOREM SchemaInvHolds == SchemaSpec => []SchemaInv
<1>. QED  BY SchemaInvStart, SchemaInvStep, PTL DEF SchemaSpec

\* What the stored bands of a sound schema do with a percentage.
LEMMA SoundMapsUniquely ==
    ASSUME SchemaInv, NEW s \in Schemas, Sound(s), NEW p \in Percentages
    PROVE  LET n == Cardinality(Holding(bandsOf[s], p))
           IN  n <= 1 /\ (schema[s].full => n = 1)
<1>. DEFINE H == Holding(bandsOf[s], p)
<1>1. /\ BandList(bandsOf[s]) /\ ValidBands(bandsOf[s], schema[s].full)
      /\ \A i \in DOMAIN bandsOf[s] :
            bandsOf[s][i].min \in Percentages /\ bandsOf[s][i].max \in Percentages
  BY DEF SchemaInv, BandsOnFile, Sound
<1>2. p \in Int
  BY SchemaAssumption DEF Percentages
<1>3. \A i, j \in H : i = j
  BY <1>1, <1>2, OneBandAtMost
<1>4. schema[s].full => H # {}
  <2>. SUFFICES ASSUME schema[s].full PROVE H # {}
    OBVIOUS
  <2>1. schema[s].full \in BOOLEAN
    BY DEF SchemaInv, SchemaColumns, SchemaRow
  <2>2. ValidBands(bandsOf[s], TRUE)
    BY <1>1, <2>1 DEF ValidBands
  <2>. QED  BY <1>1, <2>2, NoGap
<1>. HIDE DEF H
<1>5. CASE H = {}
  BY <1>4, <1>5, FS_EmptySet DEF H
<1>6. CASE H # {}
  <2>1. PICK i : H = {i}
    BY <1>3, <1>6
  <2>2. Cardinality(H) = 1
    BY <2>1, FS_Singleton
  <2>. QED  BY <2>2 DEF H
<1>. QED  BY <1>5, <1>6

\* Whatever the decimals of the payload were rounded to on their way into the
\* columns, and whichever calls overlapped: a bound schema puts a percentage
\* into one band at most, into exactly one if it promises full coverage, and a
\* record keeps the band its own version gave its score.
THEOREM BandsStayTrueAlways == SchemaSpec => []BandsStayTrue
<1>1. SchemaInv => BandsStayTrue
  <2>. SUFFICES ASSUME SchemaInv PROVE BandsStayTrue
    OBVIOUS
  <2>1. SchemaTypeOK
    <3>1. ASSUME NEW w \in Admins PROVE held[w].op \in {"none", "activate", "deprecate", "bind"}
      BY DEF SchemaInv, SchemaColumns, HeldRow, NotHeld
    <3>2. ASSUME NEW s \in Schemas
          PROVE  /\ schema[s].status \in SchemaStatus
                 /\ schema[s].activated \in BOOLEAN /\ schema[s].deprecated \in BOOLEAN
      BY DEF SchemaInv, SchemaColumns, SchemaRow
    <3>. QED  BY <3>1, <3>2 DEF SchemaTypeOK, SchemaInv, SchemaColumns, BandsOnFile, MappedByVersion
  <2>2. BoundMapsUniquely
    <3>. SUFFICES ASSUME NEW a \in GradedAssessments, binding[a] # NoSchema, NEW p \in Percentages
                  PROVE  LET n == Cardinality(Holding(bandsOf[binding[a]], p))
                         IN  n <= 1 /\ (schema[binding[a]].full => n = 1)
      BY DEF BoundMapsUniquely
    <3>1. binding[a] \in Schemas /\ Sound(binding[a])
      BY DEF SchemaInv, SchemaColumns, BoundIsSound
    <3>. QED  BY <3>1, SoundMapsUniquely
  <2>3. BandOfItsVersion
    BY DEF SchemaInv, MappedByVersion, BandOfItsVersion
  <2>. QED  BY <2>1, <2>2, <2>3 DEF BandsStayTrue
<1>. QED  BY <1>1, SchemaInvHolds, PTL

\* A deprecation is lost from its row only where two calls overlapped and the
\* later save wrote the row as it had been loaded.
THEOREM DeprecationLostByOverlap == SchemaSpec => []OnlyOverlapLosesDeprecation
<1>1. SchemaInv => OnlyOverlapLosesDeprecation
  BY DEF SchemaInv
<1>. QED  BY <1>1, SchemaInvHolds, PTL

\* Only a call that loaded a schema before it was saved again binds an
\* assessment to it after it ceased to be usable.
THEOREM WithdrawnBoundByOverlap == SchemaSpec => BindsWithdrawnOnlyByOverlap
<1>. DEFINE Bound(w) == /\ held[w].op = "bind" /\ held'[w] = NotHeld /\ binding' # binding
                        /\ schema[held[w].schema].status \notin Usable
            Step == \A w \in Admins :
                       Bound(w) => held[w].revision # revision[held[w].schema]
<1>1. SchemaInv /\ [SchemaNext]_schemaVars => Step
  <2>. SUFFICES ASSUME SchemaInv, [SchemaNext]_schemaVars, NEW w \in Admins, Bound(w)
                PROVE  held[w].revision # revision[held[w].schema]
    OBVIOUS
  <2>1. PICK x \in Admins : BindSchemaToAssessment(x)
    BY DEF SchemaNext, schemaVars, CreateSchoolGradingSchema, LoadRows,
           ActivateSchoolGradingSchema, DeprecateSchoolGradingSchema, CorrectScore
  <2>2. held[w] # NotHeld /\ RowStands(w)
    BY HeldHasRow
  <2>3. x = w
    <3>1. held' = [held EXCEPT ![x] = NotHeld]
      BY <2>1 DEF BindSchemaToAssessment
    <3>. QED  BY <2>2, <3>1, Released
  <2>4. Bindable(w)
    BY <2>1, <2>3 DEF BindSchemaToAssessment
  <2>. QED  BY <2>2, <2>4 DEF Bindable, RowStands
<1>. QED  BY <1>1, SchemaInvHolds, PTL DEF SchemaSpec, BindsWithdrawnOnlyByOverlap
=============================================================================
