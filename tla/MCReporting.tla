---------------------------- MODULE MCReporting ----------------------------
(* A behaviour is of the making of a report, for an assessment that changes  *)
(* and one that is settled, or of what an actor is shown, with assignments   *)
(* across two cohorts, two learning areas and a past term.  The other of the *)
(* two stays at its beginning.                                               *)
EXTENDS Reporting, Projections, TLC

VARIABLE desk

deskVars == <<desk, reportingVars, projectionVars>>

MCListOrder == [a \in Assessments |-> IF a = "exam" THEN 1 ELSE 2]
MCScopes == {{}, Assessments}
MCCohortOf == [t \in Tests |-> IF t = "algebra2" THEN "c2" ELSE "c1"]
MCAreaOf == [t \in Tests |-> IF t = "essay" THEN "english" ELSE "math"]
MCClassOf == [s \in Students |-> IF s = "zoe" THEN "c2" ELSE "c1"]
MCPlacements == {<<"c1", "math", "now">>, <<"c2", "math", "now">>,
                 <<"c1", "english", "now">>, <<"c2", "english", "past">>}
MCVolatile == {"algebra1"} \X (Facts \ {"batches", "adoption", "withdrawal", "rollback"})

DeskInit ==
    /\ ReportingInit /\ ProjectionInit
    /\ \/ desk = "reporting" /\ roles = {} /\ assigned = {}
       \/ /\ desk = "projections" /\ enrolled = Learners
          /\ \A a \in Assessments : /\ asmt[a].status = "open" /\ asmt[a].component
                                    /\ asmt[a].schema = "none" /\ asmt[a].correction = "none"
                                    /\ asmt[a].draft <=> a \notin Settled

DeskNext ==
    /\ UNCHANGED desk
    /\ \/ desk = "reporting" /\ ReportingNext /\ UNCHANGED projectionVars
       \/ desk = "projections" /\ ProjectionNext /\ UNCHANGED reportingVars

DeskSpec == DeskInit /\ [][DeskNext]_deskVars

Pupils == Permutations(Learners) \cup Permutations(Schemas)
=============================================================================
