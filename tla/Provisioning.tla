----------------------------- MODULE Provisioning -----------------------------
(***************************************************************************)
(* TenantProvisioningService.provision_school_and_admin of                 *)
(* app/tenant/services.py, and provision_local_tenant, which wraps it.     *)
(*                                                                         *)
(* A request inserts a school, its domain, its principal, the PRINCIPAL    *)
(* role when there is none, and the principal's binding to it, in one      *)
(* transaction.  Requests interleave at every query: a query and the       *)
(* uniqueness checks of full_clean see what is committed (and what the     *)
(* request itself wrote), and an INSERT of a unique value waits for the    *)
(* transaction that holds an uncommitted row with that value.              *)
(*                                                                         *)
(* The row a request inserts into a table is identified with the request.  *)
(***************************************************************************)
EXTENDS Naturals, FiniteSets

CONSTANTS Signups,
          Wants,         \* what a request may ask for
          Lowered,       \* strip().lower() of a domain as typed
          NormalDomain,  \* _normalize_domain: a host name, or Invalid
          Subdomain,     \* _build_subdomain: a label, or Invalid if reserved
          NormalEmail,   \* _normalize_admin_email: an address, or Invalid
          Stem,          \* what the schema name takes from the school's name
          Suffixes,      \* the random endings of a schema name
          Invalid

ASSUME ProvisioningAssumption ==
    \A w \in Wants :
        /\ DOMAIN w = {"name", "domain", "email", "skip"}
        /\ NormalDomain[w.domain] # Invalid =>
               NormalDomain[w.domain] \in DOMAIN Subdomain

VARIABLES want,     \* what each request asks for
          at,       \* how far its transaction is
          suffix,   \* the ending of its schema name
          rows,     \* the tables it has a row in
          refusedAt, \* where it was refused
          seeded    \* ensure_default_roles has created the PRINCIPAL role

provisioningVars == <<want, at, suffix, rows, refusedAt, seeded>>

Tables == {"school", "domain", "user", "role", "binding"}

\* The unique columns: TenantUserRole is unique on three foreign keys of which
\* two are fresh.
TableOf ==
    [name |-> "school", schema |-> "school", subdomain |-> "school",
     domain |-> "domain", email |-> "user", role |-> "role"]

Host(r) == NormalDomain[want[r].domain]

WellFormed(r) ==
    /\ NormalEmail[want[r].email] # Invalid
    /\ Host(r) # Invalid
    /\ Subdomain[Host(r)] # Invalid

Value(r, c) ==
    CASE c = "name" -> want[r].name
      [] c = "schema" -> <<Stem[want[r].name], suffix[r]>>
      [] c = "subdomain" -> Subdomain[Host(r)]
      [] c = "domain" -> Host(r)
      [] c = "email" -> NormalEmail[want[r].email]
      [] OTHER -> "principal"

Over == {"done", "refused", "lost", "skipped"}

Collides(r, s, c) ==
    s # r /\ TableOf[c] \in rows[s] /\ Value(s, c) = Value(r, c)

\* Faulty variant of Taken: rows of transactions that are still open count.
TakenUncommitted(r, c) ==
    \/ \E s \in Signups : Collides(r, s, c)
    \/ c = "role" /\ seeded

\* A committed row has the value r wants in column c.
Taken(r, c) ==
    \/ \E s \in Signups : at[s] = "done" /\ Collides(r, s, c)
    \/ c = "role" /\ seeded

Held(r, c) == \E s \in Signups : at[s] \notin Over /\ Collides(r, s, c)

-----------------------------------------------------------------------------

ProvisioningInit ==
    /\ want \in [Signups -> Wants]
    /\ at = [r \in Signups |-> "new"]
    /\ suffix = [r \in Signups |-> 0]
    /\ rows = [r \in Signups |-> {}]
    /\ refusedAt = [r \in Signups |-> "nowhere"]
    /\ seeded = FALSE

\* The queries, each with the columns it looks for and what follows it.
Looks ==
    [check_domain |-> {"domain"}, check_subdomain |-> {"subdomain"},
     check_email |-> {"email"}, clean_school |-> {"name", "schema", "subdomain"},
     clean_domain |-> {"domain"}, clean_role |-> {"role"}]

Puts ==
    [put_school |-> "school", put_domain |-> "domain", put_user |-> "user",
     put_binding |-> "binding"]

Then ==
    [check_domain |-> "check_subdomain", check_subdomain |-> "check_email",
     check_email |-> "name_schema", name_schema |-> "clean_school",
     clean_school |-> "put_school", put_school |-> "clean_domain",
     clean_domain |-> "put_domain", put_domain |-> "put_user",
     put_user |-> "get_role", clean_role |-> "put_role",
     put_role |-> "put_binding", put_binding |-> "commit"]

Goto(r, step) == at' = [at EXCEPT ![r] = step]

\* Faulty variant of Undone: the inserts are not in one transaction.
UndoneLeaving(r) == rows[r]

\* The transaction's rows after a rollback.
Undone(r) == {}

Refuse(r) ==
    /\ Goto(r, "refused")
    /\ refusedAt' = [refusedAt EXCEPT ![r] = at[r]]
    /\ rows' = [rows EXCEPT ![r] = Undone(r)]

\* --skip-if-exists compares what was typed, stripped and lowered, with the
\* committed domains.
Skips(r) ==
    /\ want[r].skip
    /\ \E s \in Signups : at[s] = "done" /\ Host(s) = Lowered[want[r].domain]

Receive(r) ==
    /\ at[r] = "new"
    /\ \/ /\ Skips(r)
          /\ Goto(r, "skipped")
          /\ UNCHANGED <<rows, refusedAt>>
       \/ ~Skips(r) /\ ~WellFormed(r) /\ Refuse(r)
       \/ /\ ~Skips(r) /\ WellFormed(r)
          /\ Goto(r, "check_domain")
          /\ UNCHANGED <<rows, refusedAt>>
    /\ UNCHANGED <<want, suffix, seeded>>

\* An exists() query or the uniqueness checks of full_clean.
Look(r) ==
    /\ at[r] \in DOMAIN Looks
    /\ \/ (\E c \in Looks[at[r]] : Taken(r, c)) /\ Refuse(r)
       \/ /\ \A c \in Looks[at[r]] : ~Taken(r, c)
          /\ Goto(r, Then[at[r]])
          /\ UNCHANGED <<rows, refusedAt>>
    /\ UNCHANGED <<want, suffix, seeded>>

\* Faulty variant of Endings: the schema is named by the school's name alone.
EndingsOfNameOnly(r) == {CHOOSE x \in Suffixes : TRUE}

Endings(r) == Suffixes

\* Candidates are drawn until one is free; the school code is drawn likewise.
NameSchema(r) ==
    /\ at[r] = "name_schema"
    /\ \E x \in Endings(r) :
          /\ ~ \E s \in Signups :
                  /\ at[s] = "done" /\ "school" \in rows[s]
                  /\ Value(s, "schema") = <<Stem[want[r].name], x>>
          /\ suffix' = [suffix EXCEPT ![r] = x]
    /\ Goto(r, "clean_school")
    /\ UNCHANGED <<want, rows, refusedAt, seeded>>

\* A unique index of table t already has a committed value of r's row.
Violates(r, t) == \E c \in DOMAIN TableOf : TableOf[c] = t /\ Taken(r, c)

Waits(r, t) == \E c \in DOMAIN TableOf : TableOf[c] = t /\ Held(r, c)

Write(r, t) ==
    /\ rows' = [rows EXCEPT ![r] = @ \cup {t}]
    /\ Goto(r, Then[at[r]])
    /\ UNCHANGED refusedAt

\* An INSERT that fails raises IntegrityError, which rolls everything back.
Put(r) ==
    /\ at[r] \in DOMAIN Puts
    /\ ~Waits(r, Puts[at[r]])
    /\ \/ Violates(r, Puts[at[r]]) /\ Refuse(r)
       \/ ~Violates(r, Puts[at[r]]) /\ Write(r, Puts[at[r]])
    /\ UNCHANGED <<want, suffix, seeded>>

\* Role.objects.get_or_create: the query ...
GetRole(r) ==
    /\ at[r] = "get_role"
    /\ Goto(r, IF Taken(r, "role") THEN "put_binding" ELSE "clean_role")
    /\ UNCHANGED <<want, suffix, rows, refusedAt, seeded>>

\* ... and, after the full_clean of Role.save (Look), the INSERT, whose
\* IntegrityError get_or_create answers by reading the row again.
PutRole(r) ==
    /\ at[r] = "put_role"
    /\ ~Waits(r, "role")
    /\ \/ Violates(r, "role") /\ Goto(r, "put_binding") /\ UNCHANGED <<rows, refusedAt>>
       \/ ~Violates(r, "role") /\ Write(r, "role")
    /\ UNCHANGED <<want, suffix, seeded>>

Commit(r) ==
    /\ at[r] = "commit"
    /\ Goto(r, "done")
    /\ UNCHANGED <<want, suffix, rows, refusedAt, seeded>>

\* The process dies, or an insert or the creation of the schema fails.
LoseRequest(r) ==
    /\ at[r] \notin Over \cup {"new"}
    /\ Goto(r, "lost")
    /\ rows' = [rows EXCEPT ![r] = Undone(r)]
    /\ UNCHANGED <<want, suffix, refusedAt, seeded>>

\* ensure_default_roles, outside a transaction.
SeedRoles ==
    /\ ~seeded
    /\ \A s \in Signups : "role" \notin rows[s]
    /\ seeded' = TRUE
    /\ UNCHANGED <<want, at, suffix, rows, refusedAt>>

Proceed(r) ==
    \/ Receive(r) \/ Look(r) \/ NameSchema(r) \/ Put(r)
    \/ GetRole(r) \/ PutRole(r) \/ Commit(r)

ProvisioningNext == SeedRoles \/ \E r \in Signups : Proceed(r) \/ LoseRequest(r)

\* A request that has arrived is carried on by its process.
ProvisioningFairness == \A r \in Signups : WF_provisioningVars(Proceed(r))

ProvisioningSpec ==
    ProvisioningInit /\ [][ProvisioningNext]_provisioningVars /\ ProvisioningFairness

-----------------------------------------------------------------------------

\* Once a request is over its rows are a whole school with an administrator,
\* bound to a role that is committed, or there are none ("a tenant, domain,
\* principal user, role, and role binding must either all exist or all roll
\* back", app/tenant/services.py:4).
WholeOrNothing ==
    \A r \in Signups : at[r] \in Over /\ rows[r] # {} =>
        /\ at[r] = "done"
        /\ {"school", "domain", "user", "binding"} \subseteq rows[r]
        /\ seeded \/ \E s \in Signups : at[s] = "done" /\ "role" \in rows[s]

\* However the checks of provision_school_and_admin and the inserts of two
\* requests interleave, no two schools have a name, schema, subdomain, domain
\* or principal's address in common.
SchoolsKeepApart ==
    \A r, s \in Signups : r # s /\ at[r] = "done" /\ at[s] = "done" =>
        \A c \in DOMAIN TableOf \ {"role"} : Value(r, c) # Value(s, c)

\* provision_school_and_admin turns a well-formed request down only for a
\* school that stands, never for one that was rolled back (two rivals do not
\* both lose), or because the first PRINCIPAL role was committed between the
\* query and the full_clean of get_or_create.
RefusedForCause ==
    \A r \in Signups : at[r] = "refused" /\ WellFormed(r) =>
        \/ \E s \in Signups, c \in DOMAIN TableOf \ {"role"} :
              s # r /\ at[s] = "done" /\ Value(s, c) = Value(r, c)
        \/ /\ refusedAt[r] = "clean_role"
           /\ seeded \/ \E s \in Signups : at[s] = "done" /\ "role" \in rows[s]

\* Waiting for the inserts of others never holds a request up for ever, nor
\* does the draw of a schema name: every request is answered.
EveryRequestEnds == \A r \in Signups : <>(at[r] \in Over)

\* Every school stands whole and on its own ground.
SchoolsStand == WholeOrNothing /\ SchoolsKeepApart
=============================================================================
