CONSTANTS
    e1 = e1
    e2 = e2
    tHandled = tHandled
    tUnlisted = tUnlisted
    audit = audit
    billing = billing
    NoEvent = NoEvent
    r1 = r1
    r2 = r2
    Events = {e1}
    EventTypes = {tHandled, tUnlisted}
    Consumers = {audit, billing}
    Relays = {r1, r2}
    TypeOf <- MCTypeOf
    HandlersOf <- MCHandlersOf
    AllowedConsumers <- MCAllowedConsumers
    HandlerOutcomes = {"ok", "retryable", "permanent", "unexpected"}
    BatchSize = 1
    MaxRetryAttempts = 2
    AttemptCap = 3
    EffectCap = 3
    MaxCrashes = 1
    MaxToggles = 1
SPECIFICATION Spec
CHECK_DEADLOCK FALSE
INVARIANTS
    RecordsTellTheTruth
