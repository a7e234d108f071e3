------------------------------ MODULE Delivery ------------------------------
(***************************************************************************)
(* What the outbox promises to producers and consumers when one relay      *)
(* works on it, without rows, locks, attempts or retries: an accepted      *)
(* event is served to consumers one at a time, and is closed once, as      *)
(* delivered or as abandoned, after which nobody is served any more.  It   *)
(* is delivered when everybody it is for has been served, give or take the *)
(* calls that a mishap may have cost.                                      *)
(***************************************************************************)
EXTENDS Naturals, FiniteSets

CONSTANTS Facts, Audience, Wanted    \* Wanted[e]: whom event e is for

VARIABLES stage,     \* "unknown", "waiting", "delivered" or "abandoned"
          served,    \* consumers served so far
          mishaps    \* processes that died

deliveryVars == <<stage, served, mishaps>>

DeliveryInit ==
    /\ stage = [e \in Facts |-> "unknown"]
    /\ served = [e \in Facts |-> {}]
    /\ mishaps = 0

Accept(e) ==
    /\ stage[e] = "unknown"
    /\ stage' = [stage EXCEPT ![e] = "waiting"]
    /\ UNCHANGED <<served, mishaps>>

Serve(e, c) ==
    /\ stage[e] = "waiting" /\ c \in Wanted[e]
    /\ served' = [served EXCEPT ![e] = @ \cup {c}]
    /\ UNCHANGED <<stage, mishaps>>

Deliver(e) ==
    /\ stage[e] = "waiting"
    /\ Cardinality(Wanted[e] \ served[e]) <= mishaps
    /\ stage' = [stage EXCEPT ![e] = "delivered"]
    /\ UNCHANGED <<served, mishaps>>

Abandon(e) ==
    /\ stage[e] = "waiting"
    /\ stage' = [stage EXCEPT ![e] = "abandoned"]
    /\ UNCHANGED <<served, mishaps>>

Mishap == mishaps' = mishaps + 1 /\ UNCHANGED <<stage, served>>

DeliveryNext ==
    \/ \E e \in Facts : \/ Accept(e) \/ Deliver(e) \/ Abandon(e)
                        \/ \E c \in Audience : Serve(e, c)
    \/ Mishap

\* Every accepted event is closed in the end.
DeliverySpec ==
    /\ DeliveryInit /\ [][DeliveryNext]_deliveryVars
    /\ \A e \in Facts : WF_deliveryVars(Deliver(e) \/ Abandon(e))
=============================================================================
