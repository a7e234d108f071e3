------------------------------- MODULE MCSchool -------------------------------
(* The records of a school: corrections of its marks, the bands its schema   *)
(* gives to a mark, two sign-ups of schools, and the register two clerks     *)
(* keep.  A behaviour is of one of the four; the others stay at their        *)
(* beginning or have ended.                                                  *)
EXTENDS Corrections, GradingSchema, Provisioning, Register, TLC

CONSTANTS ann, ben, t, h, d, low, high

VARIABLE matter

matterVars == <<matter, correctionVars, schemaVars, provisioningVars, registerVars>>

\* A HOD who also teaches; no schema or one that covers everything, and one
\* with a gap.
MCTeachers == {t, h}
MCInitialScore == [r \in Records |-> low]
MCBandings == {Scores, {low}}

MCAssessmentType == [a \in GradedAssessments |-> "cat"]

\* Two schools of one address, two of one name and two of one subdomain; the
\* names of the first two make the same schema name.  The last asks for a
\* reserved subdomain.
Wanted(n, dom, e, s) == [name |-> n, domain |-> dom, email |-> e, skip |-> s]
MCWants ==
    {Wanted("st mary", "a.ke", "x", FALSE), Wanted("st. mary", "b.ke", "X", TRUE),
     Wanted("st mary", "a.org", "y", FALSE), Wanted("hill", "https://B.ke", "z", TRUE),
     Wanted("hill", "www.ke", "z", FALSE)}
MCLowered ==
    [x \in {w.domain : w \in MCWants} |->
        IF x = "https://B.ke" THEN "https://b.ke" ELSE x]
MCNormalDomain == [MCLowered EXCEPT !["https://B.ke"] = "b.ke"]
MCSubdomain ==
    ("a.ke" :> "a") @@ ("a.org" :> "a") @@ ("b.ke" :> "b") @@ ("www.ke" :> Invalid)
MCNormalEmail == ("x" :> "x") @@ ("X" :> "x") @@ ("y" :> "y") @@ ("z" :> "z")
MCStem == ("st mary" :> "st_mary") @@ ("st. mary" :> "st_mary") @@ ("hill" :> "hill")

\* A year and a rival, a term and one that outlasts the year, a cohort and one
\* of another school in that year, a learner enrolled twice, an area with an
\* active and an inactive assignment.
Bare(k) ==
    [kind |-> k, school |-> "a", name |-> "", refs |-> {}, active |-> TRUE,
     from |-> 0, to |-> 0, teacher |-> ""]
MCRow ==
    [y1 |-> [Bare("year") EXCEPT !.name = "2026", !.from = 1, !.to = 4],
     y2 |-> [Bare("year") EXCEPT !.name = "2027", !.from = 5, !.to = 8],
     t1 |-> [Bare("term") EXCEPT !.name = "term_1", !.refs = {"y1"}, !.from = 1, !.to = 2],
     t9 |-> [Bare("term") EXCEPT !.name = "term_2", !.refs = {"y1"}, !.from = 3, !.to = 9],
     c1 |-> [Bare("cohort") EXCEPT !.name = "east", !.refs = {"y1"}],
     cB |-> [Bare("cohort") EXCEPT !.school = "b", !.name = "east", !.refs = {"y1"}],
     l1 |-> [Bare("learner") EXCEPT !.name = "A1"],
     m1 |-> [Bare("area") EXCEPT !.name = "maths"],
     e1 |-> [Bare("enrollment") EXCEPT !.refs = {"l1", "c1", "y1", "t1"}],
     e2 |-> [Bare("enrollment") EXCEPT !.refs = {"l1", "c1", "y1", "t1"}],
     g1 |-> [Bare("assignment") EXCEPT !.refs = {"m1", "c1", "y1", "t1"}, !.teacher = "ms"],
     g2 |-> [Bare("assignment") EXCEPT !.refs = {"m1", "c1", "y1", "t1"}, !.teacher = "ms",
                                       !.active = FALSE]]
MCEntries == DOMAIN MCRow

NoSignups ==
    /\ want = [r \in Signups |-> CHOOSE w \in Wants : TRUE]
    /\ at = [r \in Signups |-> "lost"]
    /\ suffix = [r \in Signups |-> 0] /\ rows = [r \in Signups |-> {}]
    /\ refusedAt = [r \in Signups |-> "nowhere"] /\ seeded = TRUE

\* Requests are alike, so the first may be about ann, who may move.
Requested == request[1].of = ann
NoCorrections == (\A q \in Requests : request[q].of = ann) /\ banded = Scores

MatterInit ==
    /\ CorrectionInit /\ SchemaInit /\ RegisterInit
    /\ \/ matter = "corrections" /\ Requested /\ NoSignups
       \/ matter \in {"schema", "register"} /\ NoCorrections /\ NoSignups
       \/ matter = "signup" /\ NoCorrections /\ ProvisioningInit

MatterNext ==
    /\ UNCHANGED matter
    /\ \/ /\ matter = "corrections" /\ CorrectionNext
          /\ UNCHANGED <<schemaVars, provisioningVars, registerVars>>
       \/ /\ matter = "schema" /\ SchemaNext
          /\ UNCHANGED <<correctionVars, provisioningVars, registerVars>>
       \/ /\ matter = "signup" /\ ProvisioningNext
          /\ UNCHANGED <<correctionVars, schemaVars, registerVars>>
       \/ /\ matter = "register" /\ RegisterNext
          /\ UNCHANGED <<correctionVars, schemaVars, provisioningVars>>

\* Nothing that the fairness speaks of is enabled in another matter.
MatterSpec ==
    MatterInit /\ [][MatterNext]_matterVars /\ CorrectionFairness /\ ProvisioningFairness
=============================================================================
