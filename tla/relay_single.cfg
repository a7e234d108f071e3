CONSTANTS
    e1 = e1
    e2 = e2
    tHandled = tHandled
    tUnlisted = tUnlisted
    audit = audit
    billing = billing
    NoEvent = NoEvent
    r1 = r1
    r2 = r2
    Events = {e1, e2}
    EventTypes = {tHandled, tUnlisted}
    Consumers = {audit, billing}
    Relays = {r1}
    TypeOf <- MCTypeOf
    HandlersOf <- MCHandlersOf
    AllowedConsumers <- MCAllowedConsumers
    HandlerOutcomes = {"ok", "retryable", "permanent"}
    BatchSize = 2
    MaxRetryAttempts = 3
    AttemptCap = 6
    EffectCap = 4
    MaxCrashes = 2
    MaxToggles = 0
    NumRows = 4
    Ranks = {0, 2}
    PlanSize = 1
SPECIFICATION ViewSpec
CHECK_DEADLOCK FALSE
INVARIANTS
    OnlyCrashesCost
PROPERTIES
    KeepsThePromise
    FifoWithinPriority
    BacklogDrains
