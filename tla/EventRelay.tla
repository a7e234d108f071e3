------------------------------ MODULE EventRelay ------------------------------
(***************************************************************************)
(* The transactional outbox and its relay, app/events/services.py.         *)
(*                                                                         *)
(* dispatch_pending_events runs outside any transaction: every ORM call    *)
(* commits on its own.  A relay is therefore a sequence of separate        *)
(* statements, any number of relays interleave them on the same tables,    *)
(* and a relay may die between any two.                                    *)
(*                                                                         *)
(* Time is abstract.  A row knows whether its available_at has passed      *)
(* (ripe) and whether its locked_at is older than LOCK_TIMEOUT_SECONDS     *)
(* (stale); BackoffElapses and LockExpires let time pass for one row.      *)
(* Handlers are external: each call ends in one of HandlerOutcomes.        *)
(***************************************************************************)
EXTENDS Naturals, Sequences, FiniteSets

CONSTANTS Events,           \* outbox rows, one per idempotency key
          EventTypes,       \* registered contracts (type and version)
          Consumers,        \* consumer names
          Relays,           \* processes running dispatch_pending_events
          NoEvent,          \* the job of a relay that has none
          TypeOf,           \* the contract each event was written under
          HandlersOf,       \* _HANDLERS: consumers of a type, in call order
          AllowedConsumers, \* allowed_consumers of each contract
          HandlerOutcomes,  \* how a handler call may end
          BatchSize,        \* --batch-size
          MaxRetryAttempts, \* MAX_RETRY_ATTEMPTS
          AttemptCap,       \* bound: attempt numbers saturate here
          EffectCap,        \* bound: the effects history saturates here
          MaxCrashes,       \* bound: how often relays die
          MaxToggles        \* bound: how often is_active is flipped

Outcomes == {"ok", "retryable", "permanent", "unexpected"}

ASSUME RelayAssumption ==
    /\ NoEvent \notin Events
    /\ TypeOf \in [Events -> EventTypes]
    /\ HandlersOf \in [EventTypes -> Seq(Consumers)]
    /\ AllowedConsumers \in [EventTypes -> SUBSET Consumers]
    /\ HandlerOutcomes \subseteq Outcomes
    /\ BatchSize \in Nat \ {0}
    /\ MaxRetryAttempts \in Nat \ {0}
    /\ AttemptCap \in Nat /\ AttemptCap >= MaxRetryAttempts
    /\ EffectCap \in Nat \ {0}
    /\ MaxCrashes \in Nat
    /\ MaxToggles \in Nat

VARIABLES status, ripe, stale,     \* EventOutbox rows
          attempts,    \* number of EventDispatchAttempt rows of each event
          consumer,    \* EventConsumerState.status, "none" where no row exists
          deadLetter,  \* failed_after_attempts of the DeadLetterEvent row, 0 if none
          active,      \* EventTypeRegistry.is_active
          pc, batch,               \* each relay's place and remaining rows,
          event, index, number,    \* its current event, handler and attempt_number
          effects,     \* history: handler calls that returned normally
          crashes, toggles         \* how much of the bounds is used

outbox == <<status, ripe, stale>>
job == <<event, index, number>>
dbVars == <<outbox, attempts, consumer, deadLetter, active>>
relayVars == <<pc, batch, job>>
vars == <<status, ripe, stale, attempts, consumer, deadLetter, active, pc, batch,
          event, index, number, effects, crashes, toggles>>

Settled == {"dispatched", "dead_lettered"}
EventStatus == {"absent", "pending", "locked", "failed_retryable"} \cup Settled
ConsumerStatus == {"none", "started", "processed", "failed"}
RelayPC == {"idle", "planned", "next", "counted", "consumer", "starting",
            "handling", "recording", "finishing", "failing_retryable",
            "failing_permanent", "retrying", "burying", "recording_dead_letter"}

Saturate(n, cap) == IF n < cap THEN n ELSE cap

Handlers(e) == HandlersOf[TypeOf[e]]

\* active_consumer: the loop variable keeps its last value after the loop.
ActiveConsumer(r) == Handlers(event[r])[index[r]]

\* validate_event_contract, and EventOutbox.clean on every save of the row.
ContractActive(e) == active[TypeOf[e]]

-----------------------------------------------------------------------------
Init ==
    /\ status = [e \in Events |-> "absent"]
    /\ ripe = [e \in Events |-> TRUE]
    /\ stale = [e \in Events |-> FALSE]
    /\ attempts = [e \in Events |-> 0]
    /\ consumer = [e \in Events |-> [c \in Consumers |-> "none"]]
    /\ deadLetter = [e \in Events |-> 0]
    /\ active = [t \in EventTypes |-> TRUE]
    /\ pc = [r \in Relays |-> "idle"]
    /\ batch = [r \in Relays |-> {}]
    /\ event = [r \in Relays |-> NoEvent]
    /\ index = [r \in Relays |-> 0]
    /\ number = [r \in Relays |-> 0]
    /\ effects = [e \in Events |-> [c \in Consumers |-> 0]]
    /\ crashes = 0
    /\ toggles = 0

-----------------------------------------------------------------------------
(* Producers, operators and time.                                          *)

\* write_outbox_event: an active contract and an unused idempotency key.
WriteOutboxEvent(e) ==
    /\ status[e] = "absent"
    /\ ContractActive(e)
    /\ status' = [status EXCEPT ![e] = "pending"]
    /\ UNCHANGED <<ripe, stale, attempts, consumer, deadLetter, active, relayVars, effects,
                   crashes, toggles>>

\* An operator saves EventTypeRegistry.is_active.
ToggleContract(t) ==
    /\ toggles < MaxToggles
    /\ active' = [active EXCEPT ![t] = ~@]
    /\ toggles' = toggles + 1
    /\ UNCHANGED <<outbox, attempts, consumer, deadLetter, relayVars, effects,
                   crashes>>

BackoffElapses(e) ==
    /\ ~ripe[e]
    /\ ripe' = [ripe EXCEPT ![e] = TRUE]
    /\ UNCHANGED <<status, stale, attempts, consumer, deadLetter, active, relayVars, effects,
                   crashes, toggles>>

LockExpires(e) ==
    /\ status[e] = "locked"
    /\ ~stale[e]
    /\ stale' = [stale EXCEPT ![e] = TRUE]
    /\ UNCHANGED <<status, ripe, attempts, consumer, deadLetter, active, relayVars, effects,
                   crashes, toggles>>

-----------------------------------------------------------------------------
(* lock_pending_events: SELECT and plan, then a separate UPDATE by id.      *)

\* Faulty variant of Ready: a lock is never reclaimed.
ReadyUnlocked(e) ==
    /\ ripe[e]
    /\ status[e] \in {"pending", "failed_retryable"}

\* plan_dispatch_batch's filter over the candidate rows.
Ready(e) ==
    /\ ripe[e]
    /\ \/ status[e] \in {"pending", "failed_retryable"}
       \/ status[e] = "locked" /\ stale[e]

\* Rows the SELECT asks for; fresh locks are among them.
Candidates ==
    {e \in Events : ripe[e] /\ status[e] \in {"pending", "failed_retryable", "locked"}}

\* The SELECT returns at most three batches of candidates, the planner at most
\* one batch of ready rows among those.  Which ones, by availability and
\* priority, is DispatchPlanner's subject and is left open here.
PlanBatch(r) ==
    /\ pc[r] = "idle"
    /\ \E window \in SUBSET Candidates :
          /\ Cardinality(window) = Saturate(Cardinality(Candidates), 3 * BatchSize)
          /\ LET ready == {e \in window : Ready(e)}
             IN  \E S \in SUBSET ready :
                    /\ S # {}
                    /\ Cardinality(S) = Saturate(Cardinality(ready), BatchSize)
                    /\ batch' = [batch EXCEPT ![r] = S]
    /\ pc' = [pc EXCEPT ![r] = "planned"]
    /\ UNCHANGED <<dbVars, job, effects, crashes, toggles>>

\* The UPDATE names the planned ids and tests nothing else.
LockBatch(r) ==
    /\ pc[r] = "planned"
    /\ status' = [e \in Events |-> IF e \in batch[r] THEN "locked" ELSE status[e]]
    /\ stale' = [e \in Events |-> IF e \in batch[r] THEN FALSE ELSE stale[e]]
    /\ pc' = [pc EXCEPT ![r] = "next"]
    /\ UNCHANGED <<ripe, attempts, consumer, deadLetter, active, batch, job, effects,
                   crashes, toggles>>

-----------------------------------------------------------------------------
(* dispatch_pending_events: the loop over the locked rows.                  *)

\* The next event of the loop; _attempt_number counts the existing attempts.
NextEvent(r) ==
    /\ pc[r] = "next"
    /\ \E e \in batch[r] :
          /\ batch' = [batch EXCEPT ![r] = @ \ {e}]
          /\ event' = [event EXCEPT ![r] = e]
          /\ number' = [number EXCEPT ![r] = Saturate(attempts[e] + 1, AttemptCap)]
    /\ pc' = [pc EXCEPT ![r] = "counted"]
    /\ UNCHANGED <<dbVars, index, effects, crashes, toggles>>

FinishBatch(r) ==
    /\ pc[r] = "next"
    /\ batch[r] = {}
    /\ pc' = [pc EXCEPT ![r] = "idle"]
    /\ UNCHANGED <<dbVars, batch, job, effects, crashes, toggles>>

\* EventDispatchAttempt.objects.create, then get_handlers.
CreateAttempt(r) ==
    LET e == event[r]
        handled == Handlers(e) # <<>>
    IN  /\ pc[r] = "counted"
        /\ attempts' = [attempts EXCEPT ![e] = Saturate(@ + 1, AttemptCap)]
        /\ pc' = [pc EXCEPT ![r] = IF handled THEN "consumer" ELSE "finishing"]
        /\ index' = [index EXCEPT ![r] = IF handled THEN 1 ELSE 0]
        /\ UNCHANGED <<outbox, consumer, deadLetter, active, batch, event, number,
                       effects,
                       crashes, toggles>>

ClearJob(r) ==
    /\ event' = [event EXCEPT ![r] = NoEvent]
    /\ index' = [index EXCEPT ![r] = 0]
    /\ number' = [number EXCEPT ![r] = 0]

\* An exception no except clause names leaves dispatch_pending_events: the
\* rest of the batch stays locked.
Abort(r) ==
    /\ pc' = [pc EXCEPT ![r] = "idle"]
    /\ batch' = [batch EXCEPT ![r] = {}]
    /\ ClearJob(r)

\* The loop is done with the current event.
EndEvent(r) ==
    /\ pc' = [pc EXCEPT ![r] = "next"]
    /\ ClearJob(r)

\* Faulty variant of NextHandler: the loop ends with its first handler.
FirstHandlerOnly(r) ==
    /\ pc' = [pc EXCEPT ![r] = "finishing"]
    /\ UNCHANGED job

\* Leave the current handler for the next one, or for mark_event_dispatched.
NextHandler(r) ==
    IF index[r] < Len(Handlers(event[r]))
    THEN /\ pc' = [pc EXCEPT ![r] = "consumer"]
         /\ index' = [index EXCEPT ![r] = @ + 1]
         /\ UNCHANGED <<event, number>>
    ELSE /\ pc' = [pc EXCEPT ![r] = "finishing"]
         /\ UNCHANGED job

\* Faulty variant of ShouldSkipConsumer: a failed consumer counts as done.
SkipFailed(was) == was \in {"started", "processed", "failed"}

\* should_skip_consumer over SKIP_STATUSES.
ShouldSkipConsumer(was) == was \in {"started", "processed"}

\* Contract, allowlist and already_processed.  EventTypeRegistry.DoesNotExist
\* is not caught; a ValidationError from authorize_consumer is.
CheckConsumer(r) ==
    LET e == event[r]
        c == ActiveConsumer(r)
        was == consumer[e][c]
    IN  /\ pc[r] = "consumer"
        /\ \/ /\ ~ContractActive(e)
              /\ Abort(r)
           \/ /\ ContractActive(e)
              /\ c \notin AllowedConsumers[TypeOf[e]]
              /\ pc' = [pc EXCEPT ![r] = "failing_permanent"]
              /\ UNCHANGED <<batch, job>>
           \/ /\ ContractActive(e)
              /\ c \in AllowedConsumers[TypeOf[e]]
              /\ ShouldSkipConsumer(was)
              /\ NextHandler(r)
              /\ UNCHANGED batch
           \/ /\ ContractActive(e)
              /\ c \in AllowedConsumers[TypeOf[e]]
              /\ ~ShouldSkipConsumer(was)
              /\ pc' = [pc EXCEPT ![r] = IF was = "none" THEN "starting"
                                                            ELSE "handling"]
              /\ UNCHANGED <<batch, job>>
        /\ UNCHANGED <<dbVars, effects, crashes, toggles>>

\* record_consumer_started for a row that already_processed did not find.
\* get_or_create leaves a row that has appeared meanwhile as it is; when it
\* appears between get and full_clean, the unique check raises ValidationError.
RecordStarted(r) ==
    LET e == event[r]
        c == ActiveConsumer(r)
    IN  /\ pc[r] = "starting"
        /\ \/ /\ consumer[e][c] = "none"
              /\ consumer' = [consumer EXCEPT ![e][c] = "started"]
              /\ pc' = [pc EXCEPT ![r] = "handling"]
           \/ /\ consumer[e][c] # "none"
              /\ pc' = [pc EXCEPT ![r] = "handling"]
              /\ UNCHANGED consumer
           \/ /\ consumer[e][c] # "none"
              /\ pc' = [pc EXCEPT ![r] = "failing_permanent"]
              /\ UNCHANGED consumer
        /\ UNCHANGED <<outbox, attempts, deadLetter, active, batch, job, effects,
                       crashes, toggles>>

\* handler(event): it returns, raises an error the relay classifies, or
\* raises anything else.
RunHandler(r) ==
    LET e == event[r]
        c == ActiveConsumer(r)
    IN  /\ pc[r] = "handling"
        /\ \/ /\ "ok" \in HandlerOutcomes
              /\ effects' = [effects EXCEPT ![e][c] = Saturate(@ + 1, EffectCap)]
              /\ pc' = [pc EXCEPT ![r] = "recording"]
              /\ UNCHANGED <<batch, job>>
           \/ /\ "retryable" \in HandlerOutcomes
              /\ pc' = [pc EXCEPT ![r] = "failing_retryable"]
              /\ UNCHANGED <<batch, job, effects>>
           \/ /\ "permanent" \in HandlerOutcomes
              /\ pc' = [pc EXCEPT ![r] = "failing_permanent"]
              /\ UNCHANGED <<batch, job, effects>>
           \/ /\ "unexpected" \in HandlerOutcomes
              /\ Abort(r)
              /\ UNCHANGED effects
        /\ UNCHANGED <<dbVars, crashes, toggles>>

RecordProcessed(r) ==
    LET e == event[r]
        c == ActiveConsumer(r)
    IN  /\ pc[r] = "recording"
        /\ consumer' = [consumer EXCEPT ![e][c] = "processed"]
        /\ NextHandler(r)
        /\ UNCHANGED <<outbox, attempts, deadLetter, active, batch, effects,
                       crashes, toggles>>

\* mark_event_dispatched: save() validates the row, and clean() refuses an
\* inactive contract with a ValidationError.
MarkDispatched(r) ==
    LET e == event[r]
    IN  /\ pc[r] = "finishing"
        /\ \/ /\ ContractActive(e)
              /\ status' = [status EXCEPT ![e] = "dispatched"]
              /\ EndEvent(r)
           \/ /\ ~ContractActive(e)
              /\ pc' = [pc EXCEPT ![r] = "failing_permanent"]
              /\ UNCHANGED <<status, job>>
        /\ UNCHANGED <<ripe, stale, attempts, consumer, deadLetter, active, batch, effects,
                       crashes, toggles>>

\* record_consumer_failed for the active consumer, if there is one; whatever
\* the consumer's row said before, it now says failed.
RecordFailed(r) ==
    LET e == event[r]
    IN  /\ pc[r] \in {"failing_retryable", "failing_permanent"}
        /\ IF index[r] > 0
           THEN consumer' = [consumer EXCEPT ![e][ActiveConsumer(r)] = "failed"]
           ELSE UNCHANGED consumer
        /\ pc' = [pc EXCEPT ![r] =
                    IF @ = "failing_retryable" THEN "retrying" ELSE "burying"]
        /\ UNCHANGED <<outbox, attempts, deadLetter, active, batch, job, effects,
                       crashes, toggles>>

\* decide_retry
ShouldRetry(num) == num < MaxRetryAttempts

\* mark_event_failed_retryable; its event.save() is refused under an inactive
\* contract, and nothing catches that.
MarkRetryable(r) ==
    LET e == event[r]
    IN  /\ pc[r] = "retrying"
        /\ \/ /\ ~ShouldRetry(number[r])
              /\ pc' = [pc EXCEPT ![r] = "burying"]
              /\ UNCHANGED <<status, ripe, batch, job>>
           \/ /\ ShouldRetry(number[r])
              /\ ContractActive(e)
              /\ status' = [status EXCEPT ![e] = "failed_retryable"]
              /\ ripe' = [ripe EXCEPT ![e] = FALSE]
              /\ EndEvent(r)
              /\ UNCHANGED batch
           \/ /\ ShouldRetry(number[r])
              /\ ~ContractActive(e)
              /\ Abort(r)
              /\ UNCHANGED <<status, ripe>>
        /\ UNCHANGED <<stale, attempts, consumer, deadLetter, active, effects, crashes,
                       toggles>>

\* move_event_to_dead_letter, first statement: the row's status.
MarkDeadLettered(r) ==
    LET e == event[r]
    IN  /\ pc[r] = "burying"
        /\ \/ /\ ContractActive(e)
              /\ status' = [status EXCEPT ![e] = "dead_lettered"]
              /\ pc' = [pc EXCEPT ![r] = "recording_dead_letter"]
              /\ UNCHANGED <<batch, job>>
           \/ /\ ~ContractActive(e)
              /\ Abort(r)
              /\ UNCHANGED status
        /\ UNCHANGED <<ripe, stale, attempts, consumer, deadLetter, active, effects, crashes,
                       toggles>>

\* move_event_to_dead_letter, second statement: the one-to-one record.  A
\* second one fails full_clean, outside every except clause.
RecordDeadLetter(r) ==
    LET e == event[r]
    IN  /\ pc[r] = "recording_dead_letter"
        /\ \/ /\ deadLetter[e] = 0
              /\ deadLetter' = [deadLetter EXCEPT ![e] = number[r]]
              /\ EndEvent(r)
              /\ UNCHANGED batch
           \/ /\ deadLetter[e] # 0
              /\ Abort(r)
              /\ UNCHANGED deadLetter
        /\ UNCHANGED <<outbox, attempts, consumer, active, effects, crashes,
                       toggles>>

\* The process dies; only its memory is lost.
Crash(r) ==
    /\ pc[r] # "idle"
    /\ crashes < MaxCrashes
    /\ crashes' = crashes + 1
    /\ Abort(r)
    /\ UNCHANGED <<dbVars, effects, toggles>>

-----------------------------------------------------------------------------
RelayStep(r) ==
    \/ PlanBatch(r)       \/ LockBatch(r)      \/ NextEvent(r)
    \/ FinishBatch(r)     \/ CreateAttempt(r)  \/ CheckConsumer(r)
    \/ RecordStarted(r)   \/ RunHandler(r)     \/ RecordProcessed(r)
    \/ MarkDispatched(r)  \/ RecordFailed(r)   \/ MarkRetryable(r)
    \/ MarkDeadLettered(r) \/ RecordDeadLetter(r)

Next ==
    \/ \E e \in Events : \/ WriteOutboxEvent(e)
                         \/ BackoffElapses(e)
                         \/ LockExpires(e)
    \/ \E t \in EventTypes : ToggleContract(t)
    \/ \E r \in Relays : RelayStep(r) \/ Crash(r)

Spec == Init /\ [][Next]_vars

\* The relay command is run again and again and each handler call ends; time
\* passes.  Producers, operators and crashes owe nothing.
Fairness ==
    /\ \A r \in Relays : WF_vars(RelayStep(r))
    /\ \A e \in Events : WF_vars(BackoffElapses(e)) /\ WF_vars(LockExpires(e))

FairSpec == Spec /\ Fairness

-----------------------------------------------------------------------------
(* Properties.                                                             *)

\* Every table and every relay's memory holds values of its columns' types.
TypeOK ==
    /\ status \in [Events -> EventStatus]
    /\ ripe \in [Events -> BOOLEAN]
    /\ stale \in [Events -> BOOLEAN]
    /\ attempts \in [Events -> 0..AttemptCap]
    /\ consumer \in [Events -> [Consumers -> ConsumerStatus]]
    /\ deadLetter \in [Events -> 0..AttemptCap]
    /\ active \in [EventTypes -> BOOLEAN]
    /\ pc \in [Relays -> RelayPC]
    /\ batch \in [Relays -> SUBSET Events]
    /\ event \in [Relays -> Events \cup {NoEvent}]
    /\ index \in [Relays -> Nat]
    /\ number \in [Relays -> 0..AttemptCap]
    /\ effects \in [Events -> [Consumers -> 0..EffectCap]]
    /\ crashes \in 0..MaxCrashes
    /\ toggles \in 0..MaxToggles

\* A consumer state says "processed" only after that consumer's handler has
\* returned normally for that event (record_consumer_processed comes after
\* handler(event)), whatever other relays, crashes and contract changes do.
ProcessedMeansHandled ==
    \A e \in Events, c \in Consumers :
        consumer[e][c] = "processed" => effects[e][c] >= 1

\* A dispatched event has a consumer state for every registered handler:
\* mark_event_dispatched is reached only through the whole handler loop, or
\* by a skip that found the row.
DispatchedLeavesTrace ==
    \A e \in Events :
        status[e] = "dispatched" =>
            \A i \in 1..Len(Handlers(e)) : consumer[e][Handlers(e)[i]] # "none"

\* failed_after_attempts never claims more attempts than the attempt table
\* holds, although relays count the attempts before they insert their own.
DeadLetterCountsRealAttempts ==
    \A e \in Events : deadLetter[e] <= attempts[e]

\* At-least-once: an event is marked dispatched only when the handler of every
\* registered consumer has returned normally at least once.
DispatchedMeansHandled ==
    \A e \in Events :
        status[e] = "dispatched" =>
            \A i \in 1..Len(Handlers(e)) : effects[e][Handlers(e)[i]] >= 1

\* What can go wrong for an event: a consumer was never served although the
\* event counts as dispatched, a handler succeeded more than once, the record
\* of a dead letter is missing and no relay is about to insert it.
Served(e, c) ==
    (/\ status[e] = "dispatched"
     /\ \E i \in 1..Len(Handlers(e)) : Handlers(e)[i] = c)
    => effects[e][c] >= 1
Unserved == {t \in Events \X Consumers : ~Served(t[1], t[2])}
Repeated ==
    {t \in Events \X Consumers \X (2..EffectCap) : effects[t[1]][t[2]] >= t[3]}
Unrecorded ==
    {e \in Events :
        /\ status[e] = "dead_lettered"
        /\ deadLetter[e] = 0
        /\ ~\E r \in Relays : pc[r] = "recording_dead_letter" /\ event[r] = e}

\* A relay that runs alone delivers to every consumer exactly once and records
\* every dead letter, but for crashes, and no crash costs more than one thing:
\* one consumer's call, one repeated call or one dead-letter record, across
\* retries, expired locks and later consumers of the same event.
CrashesExplainLosses ==
    Cardinality(Unserved) + Cardinality(Repeated) + Cardinality(Unrecorded) <= crashes

\* Bounded retries: only a crash can buy an event more than
\* MAX_RETRY_ATTEMPTS dispatch attempts.
AttemptsBounded ==
    \A e \in Events : attempts[e] <= MaxRetryAttempts + crashes

\* Where an outbox row stands, seen from outside.
Stage(s) ==
    CASE s = "absent" -> "unknown"
      [] s = "dispatched" -> "delivered"
      [] s = "dead_lettered" -> "abandoned"
      [] OTHER -> "waiting"

OutboxDelivery ==
    INSTANCE Delivery
      WITH Facts <- Events, Audience <- Consumers, mishaps <- crashes,
           Wanted <- [e \in Events |-> {Handlers(e)[i] : i \in 1..Len(Handlers(e))}],
           stage <- [e \in Events |-> Stage(status[e])],
           served <- [e \in Events |-> {c \in Consumers : effects[e][c] > 0}]

\* A relay that runs alone keeps what the outbox promises: across retries,
\* expired locks, crashes and restarts every event is closed once and for
\* all, no handler is called after that, and only crashes cost a call.
KeepsThePromise == OutboxDelivery!DeliverySpec

\* Only crashes cost anything: neither a consumer's call, a single call or the
\* record of a dead letter, nor the bound on the attempts.
OnlyCrashesCost == CrashesExplainLosses /\ AttemptsBounded

\* What the tables say of the past is true, for any number of relays that
\* race on the same rows: processed means handled, dispatched means that every
\* consumer was dealt with, and a dead letter counts attempts that were made.
RecordsTellTheTruth ==
    /\ TypeOK
    /\ ProcessedMeansHandled
    /\ DispatchedLeavesTrace
    /\ DeadLetterCountsRealAttempts
=============================================================================
