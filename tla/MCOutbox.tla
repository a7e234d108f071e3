------------------------------ MODULE MCOutbox ------------------------------
(* A single relay, seen twice: the life of every row (EventRelay), and which *)
(* rows of a backlog it takes in which order (DispatchPlanner).  A behaviour *)
(* is of one of the two; the other has nothing to do in it.                  *)
EXTENDS MCEventRelay, DispatchPlanner

VARIABLE view

viewVars == <<view, vars, plannerVars>>

NoBacklog ==
    /\ rank = [e \in Backlog |-> 0] /\ occurred = [e \in Backlog |-> e]
    /\ lock = [e \in Backlog |-> "dispatched"]

ViewInit ==
    /\ Init
    /\ \/ view = "relay" /\ NoBacklog
       \/ view = "planner" /\ PlannerInit

ViewNext ==
    /\ UNCHANGED view
    /\ \/ view = "relay" /\ Next /\ UNCHANGED plannerVars
       \/ view = "planner" /\ PlannerNext /\ UNCHANGED vars

\* No action that either fairness speaks of is enabled in the other view.
ViewSpec == ViewInit /\ [][ViewNext]_viewVars /\ Fairness /\ PlannerFairness
=============================================================================
