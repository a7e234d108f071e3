---------------------------- MODULE MCEventRelay ----------------------------
(* Small instances of EventRelay: one contract with two consumers, and one  *)
(* whose only handler is registered for a consumer that is not allowlisted. *)
EXTENDS EventRelay

CONSTANTS e1, e2, tHandled, tUnlisted, audit, billing, r1, r2

MCTypeOf == [e \in Events |-> IF e = e1 THEN tHandled ELSE tUnlisted]
MCHandlersOf ==
    [t \in EventTypes |-> IF t = tHandled THEN <<audit, billing>> ELSE <<billing>>]
MCAllowedConsumers ==
    [t \in EventTypes |-> IF t = tHandled THEN {audit, billing} ELSE {audit}]
=============================================================================
