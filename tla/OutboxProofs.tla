---------------------------- MODULE OutboxProofs ----------------------------
(***************************************************************************)
(* Proofs about the outbox, for any number of events, consumers, relays,   *)
(* rows and priorities and any bounds.  First the relays: the inductive    *)
(* invariant has a first layer that says where a relay's job stands in the *)
(* handler loop (TypeOK and JobShape), and one further layer for each      *)
(* property of racing relays.  Then a relay that works alone: what crashes *)
(* may cost, and that it implements Delivery.  Last the planner.           *)
(***************************************************************************)
EXTENDS EventRelay, DispatchPlanner, FiniteSetTheorems, TLAPS

\* The places of the loop at which a relay works for one consumer.
AtConsumer == {"consumer", "starting", "handling", "recording"}

\* The places at which a relay holds an event.
Working == AtConsumer \cup
           {"counted", "finishing", "failing_retryable", "failing_permanent",
            "retrying", "burying", "recording_dead_letter"}

JobShape ==
    \A r \in Relays :
        /\ pc[r] \in Working => event[r] \in Events
        /\ pc[r] \in Working => index[r] \in 0..Len(Handlers(event[r]))
        /\ pc[r] \in AtConsumer => index[r] # 0
        /\ pc[r] \notin Working => index[r] = 0

Base == TypeOK /\ JobShape

-----------------------------------------------------------------------------
\* The handler list of an event is a sequence of consumers.
LEMMA HandlersType ==
    ASSUME NEW e \in Events
    PROVE  /\ Handlers(e) \in Seq(Consumers)
           /\ Len(Handlers(e)) \in Nat
           /\ \A i \in 1..Len(Handlers(e)) : Handlers(e)[i] \in Consumers
BY RelayAssumption DEF Handlers

\* A saturated counter stays below its cap.
LEMMA SaturateType ==
    ASSUME NEW n \in Nat, NEW cap \in Nat
    PROVE  Saturate(n, cap) \in 0..cap
BY DEF Saturate

\* The consumer that a relay works for is a consumer.
LEMMA ActiveConsumerType ==
    ASSUME Base, NEW r \in Relays, pc[r] \in Working, index[r] # 0
    PROVE  ActiveConsumer(r) \in Consumers
<1>1. event[r] \in Events /\ index[r] \in 1..Len(Handlers(event[r]))
  <2>1. event[r] \in Events /\ index[r] \in 0..Len(Handlers(event[r]))
    BY DEF Base, JobShape
  <2>2. Len(Handlers(event[r])) \in Nat
    BY <2>1, HandlersType
  <2>. QED  BY <2>1, <2>2
<1>. QED  BY <1>1, HandlersType DEF ActiveConsumer

-----------------------------------------------------------------------------
(* First layer.                                                            *)

\* Idle relays and empty tables have their types and shapes.
LEMMA BaseInit == Init => Base
BY RelayAssumption DEF Init, Base, TypeOK, JobShape, Working, AtConsumer,
   EventStatus, ConsumerStatus, RelayPC

\* A relay that drops its job keeps the shape of every job.
LEMMA DropJobShape ==
    ASSUME Base, NEW r \in Relays, NEW p \in {"idle", "next"},
           pc' = [pc EXCEPT ![r] = p], ClearJob(r)
    PROVE  /\ JobShape'
           /\ pc' \in [Relays -> RelayPC]
           /\ event' \in [Relays -> Events \cup {NoEvent}]
           /\ index' \in [Relays -> Nat]
           /\ number' \in [Relays -> 0..AttemptCap]
BY RelayAssumption DEF Base, TypeOK, JobShape, ClearJob, RelayPC, Working, AtConsumer

\* A relay that keeps its job and moves on within the loop.
LEMMA KeepJobShape ==
    ASSUME Base, NEW r \in Relays, NEW p \in Working, pc[r] \in Working,
           p \in AtConsumer => index[r] # 0,
           pc' = [pc EXCEPT ![r] = p], UNCHANGED job
    PROVE  JobShape' /\ pc' \in [Relays -> RelayPC]
BY DEF Base, TypeOK, JobShape, job, RelayPC, Working, AtConsumer

\* A relay that leaves a handler for the next one.
LEMMA NextHandlerShape ==
    ASSUME Base, NEW r \in Relays, pc[r] \in AtConsumer, NextHandler(r)
    PROVE  /\ JobShape'
           /\ pc' \in [Relays -> RelayPC]
           /\ event' = event
           /\ index' \in [Relays -> Nat]
           /\ number' = number
<1>1. /\ event[r] \in Events
      /\ index[r] \in Nat
      /\ Len(Handlers(event[r])) \in Nat
  BY HandlersType DEF Base, TypeOK, JobShape, Working
<1>2. CASE index[r] < Len(Handlers(event[r]))
  <2>1. /\ pc' = [pc EXCEPT ![r] = "consumer"]
        /\ index' = [index EXCEPT ![r] = @ + 1]
        /\ event' = event /\ number' = number
    BY <1>2 DEF NextHandler
  <2>2. index[r] + 1 \in 1..Len(Handlers(event[r]))
    BY <1>1, <1>2
  <2>3. pc' \in [Relays -> RelayPC] /\ index' \in [Relays -> Nat]
    BY <2>1, <2>2 DEF Base, TypeOK, RelayPC
  <2>4. JobShape'
    BY <1>1, <2>1, <2>2 DEF Base, TypeOK, JobShape, Working, AtConsumer
  <2>. QED  BY <2>1, <2>3, <2>4
<1>3. CASE ~(index[r] < Len(Handlers(event[r])))
  <2>1. pc' = [pc EXCEPT ![r] = "finishing"] /\ UNCHANGED job
    BY <1>3 DEF NextHandler
  <2>2. "finishing" \in Working /\ "finishing" \notin AtConsumer /\ pc[r] \in Working
    BY DEF Working, AtConsumer
  <2>. QED  BY <2>1, <2>2, KeepJobShape DEF Base, TypeOK, job
<1>. QED  BY <1>2, <1>3

\* Every step keeps types and shapes.
LEMMA BaseStep == Base /\ [Next]_vars => Base'
<1>. SUFFICES ASSUME Base, [Next]_vars PROVE Base'
  OBVIOUS
<1>. USE RelayAssumption DEF Base, TypeOK, relayVars, dbVars, outbox, job
<1>1. ASSUME NEW e \in Events, WriteOutboxEvent(e) PROVE Base'
  BY <1>1 DEF WriteOutboxEvent, EventStatus, JobShape
<1>2. ASSUME NEW e \in Events, BackoffElapses(e) PROVE Base'
  BY <1>2 DEF BackoffElapses, JobShape
<1>3. ASSUME NEW e \in Events, LockExpires(e) PROVE Base'
  BY <1>3 DEF LockExpires, JobShape
<1>4. ASSUME NEW t \in EventTypes, ToggleContract(t) PROVE Base'
  BY <1>4 DEF ToggleContract, JobShape
<1>5. ASSUME NEW r \in Relays, PlanBatch(r) PROVE Base'
  <2>1. PICK S \in SUBSET Events : batch' = [batch EXCEPT ![r] = S]
    BY <1>5 DEF PlanBatch, Candidates
  <2>. QED  BY <1>5, <2>1 DEF PlanBatch, JobShape, RelayPC, Working, AtConsumer
<1>6. ASSUME NEW r \in Relays, LockBatch(r) PROVE Base'
  BY <1>6 DEF LockBatch, EventStatus, JobShape, RelayPC, Working, AtConsumer
<1>7. ASSUME NEW r \in Relays, NextEvent(r) PROVE Base'
  <2>1. PICK e \in batch[r] :
            /\ batch' = [batch EXCEPT ![r] = @ \ {e}]
            /\ event' = [event EXCEPT ![r] = e]
            /\ number' = [number EXCEPT ![r] = Saturate(attempts[e] + 1, AttemptCap)]
    BY <1>7 DEF NextEvent
  <2>2. e \in Events /\ Len(Handlers(e)) \in Nat
    BY HandlersType
  <2>3. Saturate(attempts[e] + 1, AttemptCap) \in 0..AttemptCap
    <3>1. attempts[e] + 1 \in Nat /\ AttemptCap \in Nat
      BY <2>2
    <3>. QED  BY ONLY <3>1, SaturateType
  <2>4. TypeOK'
    BY <1>7, <2>1, <2>2, <2>3 DEF NextEvent, RelayPC
  <2>5. /\ pc' = [pc EXCEPT ![r] = "counted"] /\ index' = index /\ pc[r] = "next"
        /\ pc'[r] = "counted" /\ event'[r] = e /\ index'[r] = 0
    BY <1>7, <2>1 DEF NextEvent, JobShape, RelayPC, Working, AtConsumer
  <2>6. \A o \in Relays : o # r =>
            pc'[o] = pc[o] /\ event'[o] = event[o] /\ index'[o] = index[o]
    BY <2>1, <2>5
  <2>7. JobShape'
    <3>1. ASSUME NEW o \in Relays, o # r
          PROVE  /\ pc'[o] \in Working => event'[o] \in Events
                 /\ pc'[o] \in Working => index'[o] \in 0..Len(Handlers(event'[o]))
                 /\ pc'[o] \in AtConsumer => index'[o] # 0
                 /\ pc'[o] \notin Working => index'[o] = 0
      BY <2>6, <3>1 DEF JobShape
    <3>2. /\ "counted" \in Working /\ "counted" \notin AtConsumer
          /\ 0 \in 0..Len(Handlers(e))
      BY <2>2 DEF Working, AtConsumer
    <3>. QED  BY <2>2, <2>5, <3>1, <3>2 DEF JobShape
  <2>. QED  BY <2>4, <2>7
<1>8. ASSUME NEW r \in Relays, FinishBatch(r) PROVE Base'
  BY <1>8 DEF FinishBatch, JobShape, RelayPC, Working, AtConsumer
<1>9. ASSUME NEW r \in Relays, CreateAttempt(r) PROVE Base'
  <2>1. event[r] \in Events /\ pc[r] = "counted"
    BY <1>9 DEF CreateAttempt, JobShape, Working
  <2>2. Saturate(attempts[event[r]] + 1, AttemptCap) \in 0..AttemptCap
    <3>1. attempts[event[r]] + 1 \in Nat /\ AttemptCap \in Nat
      BY <2>1
    <3>. QED  BY ONLY <3>1, SaturateType
  <2>3. TypeOK'
    BY <1>9, <2>1, <2>2 DEF CreateAttempt, RelayPC
  <2>4. /\ Len(Handlers(event[r])) \in Nat
        /\ Handlers(event[r]) # <<>> => Len(Handlers(event[r])) # 0
    BY <2>1, HandlersType
  <2>5. JobShape'
    BY <1>9, <2>1, <2>4 DEF CreateAttempt, JobShape, RelayPC, Working, AtConsumer
  <2>. QED  BY <2>3, <2>5
<1>10. ASSUME NEW r \in Relays, CheckConsumer(r) PROVE Base'
  <2>1. pc[r] = "consumer" /\ pc[r] \in AtConsumer /\ index[r] # 0
    BY <1>10 DEF CheckConsumer, JobShape, AtConsumer
  <2>2. UNCHANGED <<dbVars, effects, crashes, toggles>>
    BY <1>10 DEF CheckConsumer
  <2>3. CASE Abort(r)
    BY <2>2, <2>3, DropJobShape DEF Abort
  <2>4. CASE NextHandler(r) /\ UNCHANGED batch
    BY <2>1, <2>2, <2>4, NextHandlerShape
  <2>5. ASSUME NEW p \in {"failing_permanent", "starting", "handling"},
               pc' = [pc EXCEPT ![r] = p], UNCHANGED <<batch, job>>
        PROVE  Base'
    <3>1. p \in Working /\ pc[r] \in Working
      BY <2>1 DEF Working, AtConsumer
    <3>. QED  BY <2>1, <2>2, <2>5, <3>1, KeepJobShape
  <2>. QED  BY <1>10, <2>3, <2>4, <2>5 DEF CheckConsumer
<1>11. ASSUME NEW r \in Relays, RecordStarted(r) PROVE Base'
  <2>1. pc[r] = "starting" /\ pc[r] \in Working /\ index[r] # 0 /\ event[r] \in Events
    BY <1>11 DEF RecordStarted, JobShape, Working, AtConsumer
  <2>2. ActiveConsumer(r) \in Consumers
    BY <2>1, ActiveConsumerType
  <2>3. consumer' \in [Events -> [Consumers -> ConsumerStatus]]
    <3>1. CASE consumer' = [consumer EXCEPT ![event[r]][ActiveConsumer(r)] = "started"]
      <4>1. "started" \in ConsumerStatus
        BY DEF ConsumerStatus
      <4>. QED  BY <2>1, <2>2, <3>1, <4>1
    <3>. QED  BY <1>11, <3>1 DEF RecordStarted
  <2>4. PICK p \in {"handling", "failing_permanent"} : pc' = [pc EXCEPT ![r] = p]
    BY <1>11 DEF RecordStarted
  <2>5. p \in Working
    BY DEF Working, AtConsumer
  <2>. QED  BY <1>11, <2>1, <2>3, <2>4, <2>5, KeepJobShape DEF RecordStarted
<1>12. ASSUME NEW r \in Relays, RunHandler(r) PROVE Base'
  <2>1. pc[r] = "handling" /\ pc[r] \in Working /\ index[r] # 0 /\ event[r] \in Events
    BY <1>12 DEF RunHandler, JobShape, Working, AtConsumer
  <2>2. ActiveConsumer(r) \in Consumers
    BY <2>1, ActiveConsumerType
  <2>3. UNCHANGED <<dbVars, crashes, toggles>>
    BY <1>12 DEF RunHandler
  <2>4. CASE Abort(r) /\ UNCHANGED effects
    BY <2>3, <2>4, DropJobShape DEF Abort
  <2>5. ASSUME NEW p \in {"recording", "failing_retryable", "failing_permanent"},
               pc' = [pc EXCEPT ![r] = p], UNCHANGED <<batch, job>>,
               effects' \in [Events -> [Consumers -> 0..EffectCap]]
        PROVE  Base'
    <3>1. p \in Working
      BY DEF Working, AtConsumer
    <3>. QED  BY <2>1, <2>3, <2>5, <3>1, KeepJobShape
  <2>6. Saturate(effects[event[r]][ActiveConsumer(r)] + 1, EffectCap) \in 0..EffectCap
    <3>1. effects[event[r]][ActiveConsumer(r)] + 1 \in Nat /\ EffectCap \in Nat
      BY <2>1, <2>2
    <3>. QED  BY ONLY <3>1, SaturateType
  <2>7. CASE effects' = [effects EXCEPT ![event[r]][ActiveConsumer(r)] =
                                           Saturate(@ + 1, EffectCap)]
    <3>1. effects' \in [Events -> [Consumers -> 0..EffectCap]]
      BY <2>1, <2>2, <2>6, <2>7
    <3>. QED  BY <1>12, <3>1, <2>4, <2>5 DEF RunHandler
  <2>. QED  BY <1>12, <2>4, <2>5, <2>7 DEF RunHandler
<1>13. ASSUME NEW r \in Relays, RecordProcessed(r) PROVE Base'
  <2>1. /\ pc[r] = "recording" /\ pc[r] \in AtConsumer /\ pc[r] \in Working
        /\ index[r] # 0 /\ event[r] \in Events
    BY <1>13 DEF RecordProcessed, JobShape, Working, AtConsumer
  <2>2. ActiveConsumer(r) \in Consumers
    BY <2>1, ActiveConsumerType
  <2>3. consumer' \in [Events -> [Consumers -> ConsumerStatus]]
    BY <1>13, <2>1, <2>2 DEF RecordProcessed, ConsumerStatus
  <2>. QED  BY <1>13, <2>1, <2>3, NextHandlerShape DEF RecordProcessed
<1>14. ASSUME NEW r \in Relays, MarkDispatched(r) PROVE Base'
  <2>1. event[r] \in Events /\ pc[r] \in Working
    BY <1>14 DEF MarkDispatched, JobShape, Working
  <2>2. status' \in [Events -> EventStatus]
    BY <1>14, <2>1 DEF MarkDispatched, EventStatus, Settled
  <2>3. CASE EndEvent(r)
    BY <1>14, <2>2, <2>3, DropJobShape DEF MarkDispatched, EndEvent
  <2>4. CASE pc' = [pc EXCEPT ![r] = "failing_permanent"] /\ UNCHANGED job
    <3>1. "failing_permanent" \in Working /\ "failing_permanent" \notin AtConsumer
      BY DEF Working, AtConsumer
    <3>. QED  BY <1>14, <2>1, <2>2, <2>4, <3>1, KeepJobShape DEF MarkDispatched
  <2>. QED  BY <1>14, <2>3, <2>4 DEF MarkDispatched
<1>15. ASSUME NEW r \in Relays, RecordFailed(r) PROVE Base'
  <2>1. event[r] \in Events /\ pc[r] \in Working
    BY <1>15 DEF RecordFailed, JobShape, Working
  <2>2. consumer' \in [Events -> [Consumers -> ConsumerStatus]]
    <3>1. CASE consumer' = [consumer EXCEPT ![event[r]][ActiveConsumer(r)] = "failed"]
               /\ index[r] # 0
      <4>1. ActiveConsumer(r) \in Consumers /\ "failed" \in ConsumerStatus
        BY <2>1, <3>1, ActiveConsumerType DEF ConsumerStatus
      <4>. QED  BY <2>1, <3>1, <4>1
    <3>. QED  BY <1>15, <3>1 DEF RecordFailed
  <2>3. PICK p \in {"retrying", "burying"} : pc' = [pc EXCEPT ![r] = p]
    BY <1>15 DEF RecordFailed
  <2>4. p \in Working /\ p \notin AtConsumer
    BY DEF Working, AtConsumer
  <2>. QED  BY <1>15, <2>1, <2>2, <2>3, <2>4, KeepJobShape DEF RecordFailed
<1>16. ASSUME NEW r \in Relays, MarkRetryable(r) PROVE Base'
  <2>1. event[r] \in Events /\ pc[r] \in Working
    BY <1>16 DEF MarkRetryable, JobShape, Working
  <2>2. status' \in [Events -> EventStatus] /\ ripe' \in [Events -> BOOLEAN]
    BY <1>16, <2>1 DEF MarkRetryable, EventStatus
  <2>3. CASE EndEvent(r) /\ UNCHANGED batch
    BY <1>16, <2>2, <2>3, DropJobShape DEF MarkRetryable, EndEvent
  <2>4. CASE pc' = [pc EXCEPT ![r] = "burying"] /\ UNCHANGED <<batch, job>>
    <3>1. "burying" \in Working /\ "burying" \notin AtConsumer
      BY DEF Working, AtConsumer
    <3>. QED  BY <1>16, <2>1, <2>2, <2>4, <3>1, KeepJobShape DEF MarkRetryable
  <2>5. CASE Abort(r)
    BY <1>16, <2>2, <2>5, DropJobShape DEF MarkRetryable, Abort
  <2>. QED  BY <1>16, <2>3, <2>4, <2>5 DEF MarkRetryable
<1>17. ASSUME NEW r \in Relays, MarkDeadLettered(r) PROVE Base'
  <2>1. event[r] \in Events /\ pc[r] \in Working
    BY <1>17 DEF MarkDeadLettered, JobShape, Working
  <2>2. status' \in [Events -> EventStatus]
    BY <1>17, <2>1 DEF MarkDeadLettered, EventStatus, Settled
  <2>3. CASE pc' = [pc EXCEPT ![r] = "recording_dead_letter"] /\ UNCHANGED <<batch, job>>
    <3>1. /\ "recording_dead_letter" \in Working
          /\ "recording_dead_letter" \notin AtConsumer
      BY DEF Working, AtConsumer
    <3>. QED  BY <1>17, <2>1, <2>2, <2>3, <3>1, KeepJobShape DEF MarkDeadLettered
  <2>4. CASE Abort(r)
    BY <1>17, <2>2, <2>4, DropJobShape DEF MarkDeadLettered, Abort
  <2>. QED  BY <1>17, <2>3, <2>4 DEF MarkDeadLettered
<1>18. ASSUME NEW r \in Relays, RecordDeadLetter(r) PROVE Base'
  <2>1. event[r] \in Events
    BY <1>18 DEF RecordDeadLetter, JobShape, Working
  <2>2. deadLetter' \in [Events -> 0..AttemptCap]
    BY <1>18, <2>1 DEF RecordDeadLetter
  <2>3. CASE EndEvent(r) /\ UNCHANGED batch
    BY <1>18, <2>2, <2>3, DropJobShape DEF RecordDeadLetter, EndEvent
  <2>4. CASE Abort(r)
    BY <1>18, <2>2, <2>4, DropJobShape DEF RecordDeadLetter, Abort
  <2>. QED  BY <1>18, <2>3, <2>4 DEF RecordDeadLetter
<1>19. ASSUME NEW r \in Relays, Crash(r) PROVE Base'
  <2>1. Abort(r) /\ UNCHANGED <<dbVars, effects, toggles>>
    BY <1>19 DEF Crash
  <2>2. crashes' \in 0..MaxCrashes
    BY <1>19 DEF Crash
  <2>. QED  BY <2>1, <2>2, DropJobShape DEF Abort
<1>20. CASE UNCHANGED vars
  BY <1>20 DEF vars, JobShape
<1>. QED
  BY <1>1, <1>2, <1>3, <1>4, <1>5, <1>6, <1>7, <1>8, <1>9, <1>10, <1>11, <1>12,
     <1>13, <1>14, <1>15, <1>16, <1>17, <1>18, <1>19, <1>20 DEF Next, RelayStep

\* Every table and every relay's memory holds values of its type, for any
\* number of relays, events and consumers.
THEOREM TypeCorrect == Spec => []TypeOK
<1>1. Base => TypeOK
  BY DEF Base
<1>. QED  BY BaseInit, BaseStep, <1>1, PTL DEF Spec

-----------------------------------------------------------------------------
(* Second layer: what a relay's place in the loop says about the tables.   *)

\* Relay r has already passed handler i of its event's list.
Passed(r, i) ==
    \/ pc[r] = "finishing"
    \/ pc[r] \in AtConsumer /\ i < index[r]
    \/ pc[r] \in {"handling", "recording"} /\ i = index[r]

RelayFacts(r) ==
    /\ pc[r] = "recording" => effects[event[r]][ActiveConsumer(r)] >= 1
    /\ pc[r] \in Working =>
          \A i \in 1..Len(Handlers(event[r])) :
              Passed(r, i) => consumer[event[r]][Handlers(event[r])[i]] # "none"
    /\ pc[r] = "counted" => number[r] <= Saturate(attempts[event[r]] + 1, AttemptCap)
    /\ pc[r] \in Working \ {"counted"} => number[r] <= attempts[event[r]]

RelayInv ==
    /\ Base
    /\ \A r \in Relays : RelayFacts(r)
    /\ ProcessedMeansHandled
    /\ DispatchedLeavesTrace
    /\ DeadLetterCountsRealAttempts

\* A counter that saturates at a positive cap never goes down.
LEMMA SaturateGrows ==
    ASSUME NEW cap \in Nat \ {0}, NEW n \in 0..cap
    PROVE  Saturate(n + 1, cap) >= n /\ Saturate(n + 1, cap) >= 1
BY DEF Saturate

\* Consumer rows are never deleted, successful calls are never undone and
\* attempts are only added.
LEMMA HistoryGrows ==
    ASSUME Base, [Next]_vars
    PROVE  /\ \A e \in Events, c \in Consumers :
                 /\ consumer[e][c] # "none" => consumer'[e][c] # "none"
                 /\ effects[e][c] >= 1 => effects'[e][c] >= 1
           /\ \A e \in Events : attempts[e] <= attempts'[e]
<1>. DEFINE Grows == /\ \A e \in Events, c \in Consumers :
                          /\ consumer[e][c] # "none" => consumer'[e][c] # "none"
                          /\ effects[e][c] >= 1 => effects'[e][c] >= 1
                    /\ \A e \in Events : attempts[e] <= attempts'[e]
<1>1. ASSUME UNCHANGED <<consumer, effects, attempts>> PROVE Grows
  BY <1>1 DEF Base, TypeOK
<1>2. ASSUME NEW r \in Relays, CreateAttempt(r) PROVE Grows
  <2>1. event[r] \in Events /\ attempts \in [Events -> 0..AttemptCap]
    BY <1>2 DEF CreateAttempt, Base, TypeOK, JobShape, Working
  <2>2. /\ attempts' = [attempts EXCEPT ![event[r]] = Saturate(@ + 1, AttemptCap)]
        /\ UNCHANGED <<consumer, effects>>
    BY <1>2 DEF CreateAttempt
  <2>3. Saturate(attempts[event[r]] + 1, AttemptCap) >= attempts[event[r]]
    BY <2>1, SaturateGrows, RelayAssumption
  <2>. QED  BY <2>1, <2>2, <2>3
<1>3. ASSUME NEW r \in Relays, RunHandler(r) PROVE Grows
  <2>1. /\ event[r] \in Events /\ index[r] # 0 /\ pc[r] \in Working
        /\ effects \in [Events -> [Consumers -> 0..EffectCap]]
    BY <1>3 DEF RunHandler, Base, TypeOK, JobShape, Working, AtConsumer
  <2>2. ActiveConsumer(r) \in Consumers
    BY <2>1, ActiveConsumerType
  <2>3. Saturate(effects[event[r]][ActiveConsumer(r)] + 1, EffectCap) >= 1
    BY <2>1, <2>2, SaturateGrows, RelayAssumption
  <2>4. UNCHANGED <<consumer, attempts>>
    BY <1>3 DEF RunHandler, dbVars
  <2>5. \/ UNCHANGED effects
        \/ effects' = [effects EXCEPT ![event[r]][ActiveConsumer(r)] =
                                          Saturate(@ + 1, EffectCap)]
    BY <1>3 DEF RunHandler
  <2>6. CASE effects' = [effects EXCEPT ![event[r]][ActiveConsumer(r)] =
                                           Saturate(@ + 1, EffectCap)]
    <3>1. \A e \in Events, c \in Consumers : effects[e][c] >= 1 => effects'[e][c] >= 1
      BY <2>1, <2>2, <2>3, <2>6
    <3>. QED  BY <2>4, <3>1 DEF Base, TypeOK
  <2>. QED  BY <1>1, <2>4, <2>5, <2>6
<1>4. ASSUME NEW r \in Relays, RecordStarted(r) \/ RecordProcessed(r) \/ RecordFailed(r)
      PROVE  Grows
  <2>1. event[r] \in Events /\ pc[r] \in Working
    BY <1>4 DEF RecordStarted, RecordProcessed, RecordFailed, Base, JobShape, Working,
       AtConsumer
  <2>2. /\ UNCHANGED <<effects, attempts>>
        /\ \/ UNCHANGED consumer
           \/ \E x \in {"started", "processed", "failed"} :
                 consumer' = [consumer EXCEPT ![event[r]][ActiveConsumer(r)] = x]
    BY <1>4 DEF RecordStarted, RecordProcessed, RecordFailed
  <2>3. ASSUME NEW x \in {"started", "processed", "failed"},
               consumer' = [consumer EXCEPT ![event[r]][ActiveConsumer(r)] = x]
        PROVE  Grows
    <3>1. ASSUME NEW e \in Events, NEW c \in Consumers, consumer[e][c] # "none"
          PROVE  consumer'[e][c] # "none"
      BY <2>1, <2>3, <3>1 DEF Base, TypeOK
    <3>. QED  BY <2>2, <3>1 DEF Base, TypeOK
  <2>. QED  BY <1>1, <2>2, <2>3
<1>5. CASE UNCHANGED vars
  BY <1>1, <1>5 DEF vars
<1>6. ASSUME NEW e \in Events, WriteOutboxEvent(e) \/ BackoffElapses(e) \/ LockExpires(e)
      PROVE  Grows
  BY <1>1, <1>6 DEF WriteOutboxEvent, BackoffElapses, LockExpires
<1>7. ASSUME NEW t \in EventTypes, ToggleContract(t) PROVE Grows
  BY <1>1, <1>7 DEF ToggleContract
<1>8. ASSUME NEW r \in Relays,
             \/ PlanBatch(r) \/ LockBatch(r) \/ NextEvent(r) \/ FinishBatch(r)
             \/ CheckConsumer(r) \/ MarkDispatched(r) \/ MarkRetryable(r)
             \/ MarkDeadLettered(r) \/ RecordDeadLetter(r) \/ Crash(r)
      PROVE  Grows
  <2>1. UNCHANGED <<consumer, effects, attempts>>
    BY <1>8 DEF PlanBatch, LockBatch, NextEvent, FinishBatch, CheckConsumer,
       MarkDispatched, MarkRetryable, MarkDeadLettered, RecordDeadLetter, Crash, dbVars
  <2>. QED  BY <1>1, <2>1
<1>. QED
  BY <1>2, <1>3, <1>4, <1>5, <1>6, <1>7, <1>8 DEF Next, RelayStep

\* A relay's own place and job are written by that relay alone.
LEMMA OthersStay ==
    ASSUME Base, NEW r \in Relays, RelayStep(r) \/ Crash(r),
           NEW s \in Relays, s # r
    PROVE  /\ pc'[s] = pc[s] /\ event'[s] = event[s]
           /\ index'[s] = index[s] /\ number'[s] = number[s]
<1>. USE DEF Base, TypeOK, job, ClearJob
<1>1. CASE PlanBatch(r) \/ LockBatch(r) \/ FinishBatch(r)
  BY <1>1 DEF PlanBatch, LockBatch, FinishBatch
<1>2. CASE NextEvent(r) \/ CreateAttempt(r)
  BY <1>2 DEF NextEvent, CreateAttempt
<1>3. CASE CheckConsumer(r) \/ RecordProcessed(r)
  <2>1. CASE Abort(r)
    BY <2>1 DEF Abort
  <2>2. CASE NextHandler(r)
    BY <2>2 DEF NextHandler
  <2>3. CASE UNCHANGED job /\ \E p \in RelayPC : pc' = [pc EXCEPT ![r] = p]
    BY <2>3
  <2>. QED  BY <1>3, <2>1, <2>2, <2>3 DEF CheckConsumer, RecordProcessed, RelayPC
<1>4. CASE RecordStarted(r) \/ RecordFailed(r)
  BY <1>4 DEF RecordStarted, RecordFailed
<1>5. CASE RunHandler(r)
  BY <1>5 DEF RunHandler, Abort
<1>6. CASE MarkDispatched(r) \/ RecordDeadLetter(r)
  BY <1>6 DEF MarkDispatched, RecordDeadLetter, EndEvent, Abort
<1>7. CASE MarkRetryable(r)
  BY <1>7 DEF MarkRetryable, EndEvent, Abort
<1>8. CASE MarkDeadLettered(r) \/ Crash(r)
  BY <1>8 DEF MarkDeadLettered, Crash, Abort
<1>. QED
  BY <1>1, <1>2, <1>3, <1>4, <1>5, <1>6, <1>7, <1>8 DEF RelayStep

\* The facts about a relay survive the steps of everyone else.
LEMMA FactsOfOthers ==
    ASSUME Base, [Next]_vars, NEW s \in Relays, RelayFacts(s),
           pc'[s] = pc[s], event'[s] = event[s],
           index'[s] = index[s], number'[s] = number[s]
    PROVE  RelayFacts(s)'
<1>. SUFFICES ASSUME pc[s] \in Working PROVE RelayFacts(s)'
  BY DEF RelayFacts, Working, AtConsumer
<1>1. /\ event[s] \in Events
      /\ \A i \in 1..Len(Handlers(event[s])) : Handlers(event[s])[i] \in Consumers
  BY HandlersType DEF Base, JobShape
<1>2. Base'
  BY BaseStep
<1>3. (pc[s] = "recording" => effects[event[s]][ActiveConsumer(s)] >= 1)'
  <2>. SUFFICES ASSUME pc[s] = "recording"
                PROVE  effects'[event[s]][Handlers(event[s])[index[s]]] >= 1
    BY DEF ActiveConsumer
  <2>1. Handlers(event[s])[index[s]] \in Consumers
    BY ActiveConsumerType DEF Base, JobShape, AtConsumer, ActiveConsumer
  <2>. QED  BY <1>1, <2>1, HistoryGrows DEF RelayFacts, ActiveConsumer
<1>4. ASSUME NEW i \in 1..Len(Handlers(event[s])), Passed(s, i)'
      PROVE  consumer'[event[s]][Handlers(event[s])[i]] # "none"
  <2>1. Passed(s, i)
    BY <1>4 DEF Passed
  <2>. QED  BY <1>1, <2>1, HistoryGrows DEF RelayFacts
<1>5. attempts[event[s]] <= attempts'[event[s]] /\ attempts[event[s]] \in 0..AttemptCap
      /\ attempts'[event[s]] \in 0..AttemptCap /\ number[s] \in Nat /\ AttemptCap \in Nat
  BY <1>1, <1>2, HistoryGrows, RelayAssumption DEF Base, TypeOK
<1>6. (/\ pc[s] = "counted" => number[s] <= Saturate(attempts[event[s]] + 1, AttemptCap)
       /\ pc[s] \in Working \ {"counted"} => number[s] <= attempts[event[s]])'
  BY <1>5 DEF RelayFacts, Saturate
<1>. QED  BY <1>3, <1>4, <1>6 DEF RelayFacts

\* A relay without a job, or in the error path, promises nothing about consumers.
LEMMA FactsOffTheLoop ==
    ASSUME Base, NEW r \in Relays, RelayFacts(r), NEW p \in RelayPC,
           pc' = [pc EXCEPT ![r] = p],
           p \notin AtConsumer \cup {"finishing", "counted"},
           p \in Working => /\ pc[r] \in Working \ {"counted"}
                           /\ UNCHANGED <<event, number, attempts>>
    PROVE  RelayFacts(r)'
<1>1. pc'[r] = p
  BY DEF Base, TypeOK
<1>. QED  BY <1>1 DEF RelayFacts, Passed, AtConsumer, Working

\* A relay that stays at the same handler, whose row exists if it says so.
LEMMA FactsAtHandler ==
    ASSUME Base, [Next]_vars, NEW r \in Relays, RelayFacts(r),
           NEW p \in {"starting", "handling", "recording"},
           pc[r] \in AtConsumer, pc' = [pc EXCEPT ![r] = p], UNCHANGED <<job, attempts>>,
           p # "starting" => consumer'[event[r]][ActiveConsumer(r)] # "none",
           p = "recording" => effects'[event[r]][ActiveConsumer(r)] >= 1
    PROVE  RelayFacts(r)'
<1>1. pc'[r] = p /\ p # "counted" /\ pc[r] \in Working \ {"counted"}
  BY DEF Base, TypeOK, Working, AtConsumer
<1>2. /\ event[r] \in Events
      /\ \A i \in 1..Len(Handlers(event[r])) : Handlers(event[r])[i] \in Consumers
  BY <1>1, HandlersType DEF Base, JobShape
<1>3. ASSUME NEW i \in 1..Len(Handlers(event[r])), Passed(r, i)'
      PROVE  consumer'[event[r]][Handlers(event[r])[i]] # "none"
  <2>1. CASE i < index[r]
    <3>1. Passed(r, i)
      BY <2>1 DEF Passed
    <3>. QED  BY <1>1, <1>2, <3>1, HistoryGrows DEF RelayFacts
  <2>2. CASE i = index[r] /\ p # "starting"
    BY <2>2 DEF ActiveConsumer
  <2>. QED  BY <1>1, <1>3, <2>1, <2>2 DEF Passed, job, AtConsumer
<1>. QED  BY <1>1, <1>3 DEF RelayFacts, ActiveConsumer, job

\* A relay that leaves a handler whose consumer row exists.
LEMMA FactsNextHandler ==
    ASSUME Base, [Next]_vars, NEW r \in Relays, RelayFacts(r),
           pc[r] \in AtConsumer, NextHandler(r), UNCHANGED attempts,
           consumer'[event[r]][ActiveConsumer(r)] # "none"
    PROVE  RelayFacts(r)'
<1>1. /\ event[r] \in Events /\ pc[r] \in Working \ {"counted"}
      /\ index[r] \in 1..Len(Handlers(event[r]))
      /\ Len(Handlers(event[r])) \in Nat
      /\ \A i \in 1..Len(Handlers(event[r])) : Handlers(event[r])[i] \in Consumers
  BY HandlersType DEF Base, TypeOK, JobShape, Working, AtConsumer
<1>2. ASSUME NEW i \in 1..Len(Handlers(event[r])), i <= index[r]
      PROVE  consumer'[event[r]][Handlers(event[r])[i]] # "none"
  <2>1. CASE i < index[r]
    <3>1. Passed(r, i)
      BY <2>1 DEF Passed
    <3>. QED  BY <1>1, <3>1, HistoryGrows DEF RelayFacts
  <2>2. CASE i = index[r]
    BY <2>2 DEF ActiveConsumer
  <2>. QED  BY <1>1, <1>2, <2>1, <2>2
<1>3. event' = event /\ number' = number
  BY DEF NextHandler, job
<1>4. \/ pc'[r] = "consumer" /\ index'[r] = index[r] + 1
      \/ pc'[r] = "finishing" /\ index[r] = Len(Handlers(event[r]))
  BY <1>1 DEF NextHandler, Base, TypeOK
<1>5. ASSUME NEW i \in 1..Len(Handlers(event[r])), Passed(r, i)'
      PROVE  i <= index[r]
  BY <1>1, <1>4, <1>5 DEF Passed, AtConsumer
<1>. QED  BY <1>1, <1>2, <1>3, <1>4, <1>5 DEF RelayFacts

\* Every step of a relay establishes the facts about its new place.
LEMMA FactsOwnStep ==
    ASSUME Base, NEW r \in Relays, RelayFacts(r), RelayStep(r) \/ Crash(r)
    PROVE  RelayFacts(r)'
<1>1. [Next]_vars
  BY DEF Next
<1>2. CASE PlanBatch(r) \/ LockBatch(r) \/ FinishBatch(r)
  <2>1. PICK p \in {"idle", "planned", "next"} : pc' = [pc EXCEPT ![r] = p]
    BY <1>2 DEF PlanBatch, LockBatch, FinishBatch
  <2>. QED  BY <2>1, FactsOffTheLoop DEF RelayPC, Working, AtConsumer
<1>3. CASE NextEvent(r)
  <2>1. PICK e \in batch[r] :
            /\ event' = [event EXCEPT ![r] = e]
            /\ number' = [number EXCEPT ![r] = Saturate(attempts[e] + 1, AttemptCap)]
    BY <1>3 DEF NextEvent
  <2>2. pc'[r] = "counted" /\ attempts' = attempts
    BY <1>3 DEF NextEvent, dbVars, Base, TypeOK
  <2>3. event'[r] = e /\ number'[r] = Saturate(attempts[e] + 1, AttemptCap)
    BY <2>1 DEF Base, TypeOK
  <2>4. number'[r] \in 0..AttemptCap
    BY BaseStep, <1>1, RelayAssumption DEF Base, TypeOK
  <2>. QED  BY <2>2, <2>3, <2>4, RelayAssumption DEF RelayFacts, Passed, AtConsumer
<1>4. CASE CreateAttempt(r)
  <2>1. event[r] \in Events /\ pc[r] = "counted"
    BY <1>4 DEF CreateAttempt, Base, JobShape, Working
  <2>2. /\ attempts'[event[r]] = Saturate(attempts[event[r]] + 1, AttemptCap)
        /\ event' = event /\ number' = number
    BY <1>4, <2>1 DEF CreateAttempt, Base, TypeOK
  <2>3. \/ pc'[r] = "consumer" /\ index'[r] = 1
        \/ pc'[r] = "finishing" /\ Handlers(event[r]) = <<>>
    BY <1>4 DEF CreateAttempt, Base, TypeOK
  <2>4. ~ \E i \in 1..Len(Handlers(event[r])) : Passed(r, i)'
    BY <2>3 DEF Passed, AtConsumer
  <2>. QED  BY <2>1, <2>2, <2>3, <2>4 DEF RelayFacts
<1>5. CASE CheckConsumer(r)
  <2>1. pc[r] \in AtConsumer /\ pc[r] \in Working \ {"counted"}
    BY <1>5 DEF CheckConsumer, AtConsumer, Working
  <2>2. UNCHANGED <<consumer, attempts>>
    BY <1>5 DEF CheckConsumer, dbVars
  <2>3. CASE Abort(r)
    BY <2>3, FactsOffTheLoop DEF Abort, RelayPC, Working, AtConsumer
  <2>4. CASE NextHandler(r) /\ ShouldSkipConsumer(consumer[event[r]][ActiveConsumer(r)])
    BY <1>1, <2>1, <2>2, <2>4, FactsNextHandler DEF ShouldSkipConsumer
  <2>5. CASE pc' = [pc EXCEPT ![r] = "failing_permanent"] /\ UNCHANGED job
    BY <2>1, <2>2, <2>5, FactsOffTheLoop DEF RelayPC, Working, AtConsumer, job
  <2>6. CASE /\ UNCHANGED job
             /\ pc' = [pc EXCEPT ![r] =
                         IF consumer[event[r]][ActiveConsumer(r)] = "none"
                         THEN "starting" ELSE "handling"]
    <3>1. CASE consumer[event[r]][ActiveConsumer(r)] = "none"
      BY <1>1, <2>1, <2>2, <2>6, <3>1, FactsAtHandler
    <3>2. CASE consumer[event[r]][ActiveConsumer(r)] # "none"
      BY <1>1, <2>1, <2>2, <2>6, <3>2, FactsAtHandler
    <3>. QED  BY <3>1, <3>2
  <2>. QED  BY <1>5, <2>3, <2>4, <2>5, <2>6 DEF CheckConsumer
<1>6. CASE RecordStarted(r)
  <2>1. /\ pc[r] \in AtConsumer /\ pc[r] \in Working \ {"counted"}
        /\ event[r] \in Events /\ index[r] # 0
    BY <1>6 DEF RecordStarted, Base, JobShape, AtConsumer, Working
  <2>2. ActiveConsumer(r) \in Consumers
    BY <2>1, ActiveConsumerType
  <2>3. UNCHANGED <<job, attempts>>
    BY <1>6 DEF RecordStarted
  <2>4. CASE pc' = [pc EXCEPT ![r] = "failing_permanent"]
    BY <2>1, <2>3, <2>4, FactsOffTheLoop DEF RelayPC, Working, AtConsumer, job
  <2>5. CASE pc' = [pc EXCEPT ![r] = "handling"]
    <3>1. consumer'[event[r]][ActiveConsumer(r)] # "none"
      <4>1. CASE consumer' = [consumer EXCEPT ![event[r]][ActiveConsumer(r)] = "started"]
        BY <2>1, <2>2, <4>1 DEF Base, TypeOK
      <4>. QED  BY <1>6, <4>1 DEF RecordStarted
    <3>. QED  BY <1>1, <2>1, <2>3, <2>5, <3>1, FactsAtHandler
  <2>. QED  BY <1>6, <2>4, <2>5 DEF RecordStarted
<1>7. CASE RunHandler(r)
  <2>1. /\ pc[r] = "handling" /\ pc[r] \in AtConsumer /\ pc[r] \in Working \ {"counted"}
        /\ event[r] \in Events /\ index[r] \in 1..Len(Handlers(event[r]))
    BY <1>7, HandlersType DEF RunHandler, Base, TypeOK, JobShape, AtConsumer, Working
  <2>2. ActiveConsumer(r) \in Consumers
    BY <2>1, ActiveConsumerType
  <2>3. UNCHANGED <<consumer, attempts>>
    BY <1>7 DEF RunHandler, dbVars
  <2>4. CASE Abort(r)
    BY <2>4, FactsOffTheLoop DEF Abort, RelayPC, Working, AtConsumer
  <2>5. ASSUME NEW p \in {"failing_retryable", "failing_permanent"},
               pc' = [pc EXCEPT ![r] = p], UNCHANGED job
        PROVE  RelayFacts(r)'
    BY <2>1, <2>3, <2>5, FactsOffTheLoop DEF RelayPC, Working, AtConsumer, job
  <2>6. CASE /\ pc' = [pc EXCEPT ![r] = "recording"] /\ UNCHANGED job
             /\ effects' = [effects EXCEPT ![event[r]][ActiveConsumer(r)] =
                                              Saturate(@ + 1, EffectCap)]
    <3>1. effects[event[r]][ActiveConsumer(r)] \in 0..EffectCap
      BY <2>1, <2>2 DEF Base, TypeOK
    <3>2. Saturate(effects[event[r]][ActiveConsumer(r)] + 1, EffectCap) >= 1
      BY <3>1, SaturateGrows, RelayAssumption
    <3>3. effects'[event[r]][ActiveConsumer(r)] >= 1
      BY <2>1, <2>2, <2>6, <3>2 DEF Base, TypeOK
    <3>4. consumer'[event[r]][ActiveConsumer(r)] # "none"
      BY <2>1, <2>3 DEF RelayFacts, Passed, ActiveConsumer
    <3>. QED  BY <1>1, <2>1, <2>3, <2>6, <3>3, <3>4, FactsAtHandler
  <2>. QED  BY <1>7, <2>4, <2>5, <2>6 DEF RunHandler
<1>8. CASE RecordProcessed(r)
  <2>1. pc[r] \in AtConsumer /\ pc[r] \in Working /\ event[r] \in Events /\ index[r] # 0
    BY <1>8 DEF RecordProcessed, Base, JobShape, AtConsumer, Working
  <2>2. ActiveConsumer(r) \in Consumers
    BY <2>1, ActiveConsumerType
  <2>3. consumer'[event[r]][ActiveConsumer(r)] # "none"
    BY <1>8, <2>1, <2>2 DEF RecordProcessed, Base, TypeOK
  <2>. QED  BY <1>1, <1>8, <2>1, <2>3, FactsNextHandler DEF RecordProcessed
<1>9. CASE MarkDispatched(r) \/ RecordDeadLetter(r) \/ MarkDeadLettered(r)
           \/ MarkRetryable(r) \/ RecordFailed(r) \/ Crash(r)
  <2>1. \E p \in RelayPC \ (AtConsumer \cup {"finishing", "counted"}) :
           /\ pc' = [pc EXCEPT ![r] = p]
           /\ p \in Working => /\ pc[r] \in Working \ {"counted"}
                               /\ UNCHANGED <<event, number, attempts>>
    <3>1. CASE EndEvent(r) \/ Abort(r)
      BY <3>1 DEF EndEvent, Abort, RelayPC, AtConsumer, Working
    <3>2. CASE /\ UNCHANGED <<job, attempts>> /\ pc[r] \in Working \ {"counted"}
               /\ \E p \in {"failing_permanent", "retrying", "burying",
                            "recording_dead_letter"} : pc' = [pc EXCEPT ![r] = p]
      BY <3>2 DEF job, RelayPC, AtConsumer
    <3>3. CASE MarkDispatched(r) \/ RecordDeadLetter(r)
      BY <3>1, <3>2, <3>3 DEF MarkDispatched, RecordDeadLetter, Working
    <3>4. CASE MarkDeadLettered(r) \/ Crash(r)
      BY <3>1, <3>2, <3>4 DEF MarkDeadLettered, Crash, Working
    <3>5. CASE MarkRetryable(r)
      BY <3>1, <3>2, <3>5 DEF MarkRetryable, Working
    <3>6. CASE RecordFailed(r)
      BY <3>2, <3>6 DEF RecordFailed, Working
    <3>. QED  BY <1>9, <3>3, <3>4, <3>5, <3>6
  <2>. QED  BY <2>1, FactsOffTheLoop
<1>. QED
  BY <1>2, <1>3, <1>4, <1>5, <1>6, <1>7, <1>8, <1>9 DEF RelayStep

-----------------------------------------------------------------------------
(* The three properties.                                                   *)

\* Idle relays know nothing yet.
LEMMA RelayInvInit == Init => RelayInv
<1>. SUFFICES ASSUME Init PROVE RelayInv
  OBVIOUS
<1>1. \A r \in Relays : RelayFacts(r)
  BY DEF Init, RelayFacts, Working, AtConsumer
<1>2. ProcessedMeansHandled /\ DispatchedLeavesTrace /\ DeadLetterCountsRealAttempts
  BY DEF Init, ProcessedMeansHandled, DispatchedLeavesTrace, DeadLetterCountsRealAttempts
<1>. QED  BY <1>1, <1>2, BaseInit DEF RelayInv

\* Which step makes a consumer row say "processed".
LEMMA ProcessedStep ==
    ASSUME Base, [Next]_vars, NEW e \in Events, NEW c \in Consumers,
           consumer'[e][c] = "processed", consumer[e][c] # "processed"
    PROVE  \E r \in Relays : pc[r] = "recording" /\ event[r] = e /\ ActiveConsumer(r) = c
<1>1. CASE \E r \in Relays : RecordProcessed(r)
  <2>1. PICK r \in Relays : RecordProcessed(r)
    BY <1>1
  <2>2. event[r] \in Events /\ pc[r] = "recording"
    BY <2>1 DEF RecordProcessed, Base, JobShape, Working, AtConsumer
  <2>. QED  BY <2>1, <2>2 DEF RecordProcessed, Base, TypeOK
<1>2. CASE \E r \in Relays : RecordStarted(r) \/ RecordFailed(r)
  <2>1. PICK r \in Relays : RecordStarted(r) \/ RecordFailed(r)
    BY <1>2
  <2>2. \/ UNCHANGED consumer
        \/ \E x \in {"started", "failed"} :
              consumer' = [consumer EXCEPT ![event[r]][ActiveConsumer(r)] = x]
    BY <2>1 DEF RecordStarted, RecordFailed
  <2>3. ASSUME NEW x \in {"started", "failed"},
               consumer' = [consumer EXCEPT ![event[r]][ActiveConsumer(r)] = x]
        PROVE  FALSE
    BY <2>3 DEF Base, TypeOK
  <2>. QED  BY <2>2, <2>3
<1>3. ASSUME UNCHANGED consumer PROVE FALSE
  BY <1>3
<1>4. CASE UNCHANGED vars
  BY <1>3, <1>4 DEF vars
<1>5. ASSUME NEW d \in Events, WriteOutboxEvent(d) \/ BackoffElapses(d) \/ LockExpires(d)
      PROVE  FALSE
  BY <1>3, <1>5 DEF WriteOutboxEvent, BackoffElapses, LockExpires
<1>6. ASSUME NEW t \in EventTypes, ToggleContract(t) PROVE FALSE
  BY <1>3, <1>6 DEF ToggleContract
<1>7. ASSUME NEW r \in Relays,
             \/ PlanBatch(r) \/ LockBatch(r) \/ NextEvent(r) \/ FinishBatch(r)
             \/ CreateAttempt(r) \/ CheckConsumer(r) \/ RunHandler(r)
             \/ MarkDispatched(r) \/ MarkRetryable(r) \/ MarkDeadLettered(r)
             \/ RecordDeadLetter(r) \/ Crash(r)
      PROVE  FALSE
  <2>1. UNCHANGED consumer
    BY <1>7 DEF PlanBatch, LockBatch, NextEvent, FinishBatch, CreateAttempt,
       CheckConsumer, RunHandler, MarkDispatched, MarkRetryable, MarkDeadLettered,
       RecordDeadLetter, Crash, dbVars
  <2>. QED  BY <1>3, <2>1
<1>. QED
  BY <1>1, <1>2, <1>4, <1>5, <1>6, <1>7 DEF Next, RelayStep

\* Which step marks an event dispatched, and which records a dead letter.
LEMMA SettlingStep ==
    ASSUME Base, [Next]_vars, NEW e \in Events
    PROVE  /\ status'[e] = "dispatched" /\ status[e] # "dispatched" =>
                 \E r \in Relays : pc[r] = "finishing" /\ event[r] = e
           /\ \/ deadLetter'[e] = deadLetter[e]
              \/ \E r \in Relays : /\ pc[r] = "recording_dead_letter" /\ event[r] = e
                                    /\ deadLetter'[e] = number[r]
<1>. DEFINE Goal == /\ status'[e] = "dispatched" /\ status[e] # "dispatched" =>
                          \E r \in Relays : pc[r] = "finishing" /\ event[r] = e
                    /\ \/ deadLetter'[e] = deadLetter[e]
                       \/ \E r \in Relays : /\ pc[r] = "recording_dead_letter" /\ event[r] = e
                                             /\ deadLetter'[e] = number[r]
<1>1. ASSUME UNCHANGED <<status, deadLetter>> PROVE Goal
  BY <1>1
<1>2. ASSUME NEW r \in Relays, MarkDispatched(r) PROVE Goal
  BY <1>2 DEF MarkDispatched, Base, TypeOK, JobShape, Working
<1>3. ASSUME NEW r \in Relays, RecordDeadLetter(r) PROVE Goal
  BY <1>3 DEF RecordDeadLetter, outbox, Base, TypeOK, JobShape, Working
<1>4. ASSUME NEW r \in Relays, LockBatch(r) \/ MarkRetryable(r) \/ MarkDeadLettered(r)
      PROVE  Goal
  BY <1>4 DEF LockBatch, MarkRetryable, MarkDeadLettered, Base, TypeOK, JobShape, Working
<1>5. ASSUME NEW d \in Events, WriteOutboxEvent(d) \/ BackoffElapses(d) \/ LockExpires(d)
      PROVE  Goal
  BY <1>5 DEF WriteOutboxEvent, BackoffElapses, LockExpires, Base, TypeOK
<1>6. ASSUME NEW t \in EventTypes, ToggleContract(t) PROVE Goal
  BY <1>1, <1>6 DEF ToggleContract, outbox
<1>7. ASSUME NEW r \in Relays,
             \/ PlanBatch(r) \/ NextEvent(r) \/ FinishBatch(r) \/ CreateAttempt(r)
             \/ CheckConsumer(r) \/ RecordStarted(r) \/ RunHandler(r)
             \/ RecordProcessed(r) \/ RecordFailed(r) \/ Crash(r)
      PROVE  Goal
  <2>1. UNCHANGED <<status, deadLetter>>
    BY <1>7 DEF PlanBatch, NextEvent, FinishBatch, CreateAttempt, CheckConsumer,
       RecordStarted, RunHandler, RecordProcessed, RecordFailed, Crash, dbVars, outbox
  <2>. QED  BY <1>1, <2>1
<1>8. CASE UNCHANGED vars
  BY <1>1, <1>8 DEF vars
<1>. QED
  BY <1>2, <1>3, <1>4, <1>5, <1>6, <1>7, <1>8 DEF Next, RelayStep

\* Every step keeps what relays know and what the tables promise.
LEMMA RelayInvStep == RelayInv /\ [Next]_vars => RelayInv'
<1>. SUFFICES ASSUME RelayInv, [Next]_vars PROVE RelayInv'
  OBVIOUS
<1>0. Base /\ \A r \in Relays : RelayFacts(r)
  BY DEF RelayInv
<1>1. Base'
  BY <1>0, BaseStep
<1>2. \A r \in Relays : RelayFacts(r)'
  <2>. SUFFICES ASSUME NEW s \in Relays PROVE RelayFacts(s)'
    OBVIOUS
  <2>1. CASE \E r \in Relays : RelayStep(r) \/ Crash(r)
    <3>1. PICK r \in Relays : RelayStep(r) \/ Crash(r)
      BY <2>1
    <3>2. CASE s = r
      BY <1>0, <3>1, <3>2, FactsOwnStep
    <3>3. CASE s # r
      <4>1. /\ pc'[s] = pc[s] /\ event'[s] = event[s]
            /\ index'[s] = index[s] /\ number'[s] = number[s]
        BY <1>0, <3>1, <3>3, OthersStay
      <4>. QED  BY <1>0, <4>1, FactsOfOthers
    <3>. QED  BY <3>2, <3>3
  <2>2. CASE UNCHANGED <<pc, event, index, number>>
    BY <1>0, <2>2, FactsOfOthers
  <2>3. ASSUME NEW e \in Events, WriteOutboxEvent(e) \/ BackoffElapses(e) \/ LockExpires(e)
        PROVE  RelayFacts(s)'
    BY <2>2, <2>3 DEF WriteOutboxEvent, BackoffElapses, LockExpires, relayVars, job
  <2>4. ASSUME NEW t \in EventTypes, ToggleContract(t) PROVE RelayFacts(s)'
    BY <2>2, <2>4 DEF ToggleContract, relayVars, job
  <2>5. CASE UNCHANGED vars
    BY <2>2, <2>5 DEF vars
  <2>. QED  BY <2>1, <2>3, <2>4, <2>5 DEF Next
<1>3. ProcessedMeansHandled'
  <2>. SUFFICES ASSUME NEW e \in Events, NEW c \in Consumers, consumer'[e][c] = "processed"
                PROVE  effects'[e][c] >= 1
    BY DEF ProcessedMeansHandled
  <2>1. effects[e][c] >= 1
    BY <1>0, ProcessedStep DEF RelayInv, ProcessedMeansHandled, RelayFacts
  <2>. QED  BY <1>0, <2>1, HistoryGrows
<1>4. DispatchedLeavesTrace'
  <2>. SUFFICES ASSUME NEW e \in Events, status'[e] = "dispatched",
                       NEW i \in 1..Len(Handlers(e))
                PROVE  consumer'[e][Handlers(e)[i]] # "none"
    BY DEF DispatchedLeavesTrace
  <2>1. consumer[e][Handlers(e)[i]] # "none"
    <3>1. CASE status[e] = "dispatched"
      BY <3>1 DEF RelayInv, DispatchedLeavesTrace
    <3>2. CASE status[e] # "dispatched"
      <4>1. PICK r \in Relays : pc[r] = "finishing" /\ event[r] = e
        BY <1>0, <3>2, SettlingStep
      <4>. QED  BY <1>0, <4>1 DEF RelayFacts, Passed, Working
    <3>. QED  BY <3>1, <3>2
  <2>. QED  BY <1>0, <2>1, HistoryGrows, HandlersType
<1>5. DeadLetterCountsRealAttempts'
  <2>. SUFFICES ASSUME NEW e \in Events PROVE deadLetter'[e] <= attempts'[e]
    BY DEF DeadLetterCountsRealAttempts
  <2>1. deadLetter'[e] <= attempts[e]
    <3>1. CASE deadLetter'[e] = deadLetter[e]
      BY <3>1 DEF RelayInv, DeadLetterCountsRealAttempts
    <3>2. CASE \E r \in Relays : /\ pc[r] = "recording_dead_letter" /\ event[r] = e
                                  /\ deadLetter'[e] = number[r]
      BY <1>0, <3>2 DEF RelayFacts, Working
    <3>. QED  BY <1>0, <3>1, <3>2, SettlingStep
  <2>2. attempts[e] <= attempts'[e]
    BY <1>0, HistoryGrows
  <2>3. deadLetter'[e] \in Nat /\ attempts[e] \in Nat /\ attempts'[e] \in Nat
    BY <1>0, <1>1, RelayAssumption DEF Base, TypeOK
  <2>. QED  BY <2>1, <2>2, <2>3
<1>. QED  BY <1>1, <1>2, <1>3, <1>4, <1>5 DEF RelayInv

\* record_consumer_processed never claims a handler run that did not happen.
THEOREM ProcessedIsTrue == Spec => []ProcessedMeansHandled
<1>1. RelayInv => ProcessedMeansHandled
  BY DEF RelayInv
<1>. QED  BY RelayInvInit, RelayInvStep, <1>1, PTL DEF Spec

\* mark_event_dispatched leaves a consumer row behind for every handler.
THEOREM DispatchIsTraceable == Spec => []DispatchedLeavesTrace
<1>1. RelayInv => DispatchedLeavesTrace
  BY DEF RelayInv
<1>. QED  BY RelayInvInit, RelayInvStep, <1>1, PTL DEF Spec

\* failed_after_attempts is backed by rows of the attempt table, for any
\* number of relays racing to count them.
THEOREM DeadLetterIsBacked == Spec => []DeadLetterCountsRealAttempts
<1>1. RelayInv => DeadLetterCountsRealAttempts
  BY DEF RelayInv
<1>. QED  BY RelayInvInit, RelayInvStep, <1>1, PTL DEF Spec

\* All that the tables say of the past is true, whatever relays, crashes and
\* contract changes do.
THEOREM RecordsAreTrue == Spec => []RecordsTellTheTruth
<1>1. TypeOK /\ ProcessedMeansHandled /\ DispatchedLeavesTrace
     /\ DeadLetterCountsRealAttempts => RecordsTellTheTruth
  BY DEF RecordsTellTheTruth
<1>. QED  BY <1>1, TypeCorrect, ProcessedIsTrue, DispatchIsTraceable, DeadLetterIsBacked, PTL
-----------------------------------------------------------------------------
(* A relay that works alone, under contracts that stay active and with      *)
(* handlers whose errors the relay classifies.  What crashes cost is        *)
(* charged before it shows: a row that will be skipped, or a handler that   *)
(* will be called again, counts from the moment its relay is gone.          *)

Failing == {"failing_retryable", "failing_permanent"}

\* What works alone means.
Alone(r) == Relays = {r} /\ MaxToggles = 0 /\ "unexpected" \notin HandlerOutcomes

\* The relay is at consumer c of event e.
IsAt(r, e, c) == event[r] = e /\ ActiveConsumer(r) = c

\* The rows of the relay's batch wait for it, the row of its event is locked
\* until it is closed, and nobody else inserts attempts or dead letters.
RowsInHand(r) ==
    /\ \A t \in EventTypes : active[t]
    /\ pc[r] = "idle" => batch[r] = {}
    /\ \A e \in batch[r] :
          /\ status[e] \in {"pending", "failed_retryable", "locked"}
          /\ pc[r] # "planned" => status[e] = "locked"
    /\ pc[r] \in Working =>
          /\ event[r] \notin batch[r]
          /\ status[event[r]] =
                IF pc[r] = "recording_dead_letter" THEN "dead_lettered" ELSE "locked"
          /\ number[r] >= 1
          /\ pc[r] = "counted" => number[r] = Saturate(attempts[event[r]] + 1, AttemptCap)
          /\ pc[r] # "counted" => number[r] = attempts[event[r]]
    /\ \A e \in Events :
          deadLetter[e] # 0 =>
             status[e] = "dead_lettered" /\ ~(pc[r] \in Working /\ event[r] = e)

\* An event that may be taken again has an attempt left, or a crash to blame.
AttemptsLeft(r) ==
    \A e \in Events :
        /\ attempts[e] <= MaxRetryAttempts + crashes
        /\ status[e] \in {"absent", "pending", "failed_retryable"} =>
              attempts[e] < MaxRetryAttempts
        /\ status[e] = "locked" /\ ~(pc[r] \in Working \ {"counted"} /\ event[r] = e) =>
              attempts[e] < MaxRetryAttempts + crashes

\* What a consumer's row says about its handler.
RowsOfConsumers ==
    \A e \in Events, c \in Consumers :
        /\ consumer[e][c] = "none" => effects[e][c] = 0
        /\ consumer[e][c] = "processed" => effects[e][c] >= 1
        /\ c \notin AllowedConsumers[TypeOf[e]] => consumer[e][c] \in {"none", "failed"}
        /\ status[e] = "dispatched" =>
              \A i \in 1..Len(Handlers(e)) :
                 Handlers(e)[i] = c => consumer[e][c] \in {"started", "processed"}

\* What the relay's place says about the row of its consumer, and about those
\* of the consumers before.
RowsAtHand(r) ==
    LET e == event[r]
        c == ActiveConsumer(r)
    IN  /\ pc[r] \in {"starting", "handling", "recording"} => c \in AllowedConsumers[TypeOf[e]]
        /\ pc[r] = "starting" => consumer[e][c] = "none"
        /\ pc[r] = "handling" =>
              consumer[e][c] = "failed" \/ (consumer[e][c] = "started" /\ effects[e][c] = 0)
        /\ pc[r] = "recording" => consumer[e][c] \in {"started", "failed"} /\ effects[e][c] >= 1
        /\ pc[r] \in Failing =>
              index[r] # 0 /\ (effects[e][c] >= 1 => consumer[e][c] = "failed")
        /\ pc[r] \in Working => \A i \in 1..Len(Handlers(e)) :
              pc[r] = "finishing" \/ (pc[r] \in AtConsumer /\ i < index[r]) =>
                 consumer[e][Handlers(e)[i]] \in {"started", "processed"}

\* Consumers that later passes will skip, and nobody is serving.
Lost(r) ==
    {t \in Events \X Consumers :
        /\ consumer[t[1]][t[2]] = "started" /\ effects[t[1]][t[2]] = 0
        /\ ~(pc[r] \in Failing \cup {"handling"} /\ IsAt(r, t[1], t[2]))}

\* Calls that returned, and one more where the row does not say so.
Calls(r, e, c) ==
    effects[e][c] +
        (IF /\ consumer[e][c] = "failed" /\ effects[e][c] >= 1
            /\ ~(pc[r] = "recording" /\ IsAt(r, e, c))
         THEN 1 ELSE 0)
Again(r) ==
    {t \in Events \X Consumers \X (2..EffectCap) : Calls(r, t[1], t[2]) >= t[3]}

\* Every loss, also one to come, has its crash.
CrashesPay(r) ==
    /\ IsFiniteSet(Lost(r)) /\ IsFiniteSet(Again(r)) /\ IsFiniteSet(Unrecorded)
    /\ Cardinality(Lost(r)) + Cardinality(Again(r)) + Cardinality(Unrecorded) <= crashes

AloneInv(r) ==
    /\ Base
    /\ RowsInHand(r)
    /\ AttemptsLeft(r)
    /\ RowsOfConsumers
    /\ RowsAtHand(r)
    /\ CrashesPay(r)

\* An idle relay and empty tables owe nothing.
LEMMA AloneInit ==
    ASSUME NEW r \in Relays
    PROVE  Init => AloneInv(r)
<1>. SUFFICES ASSUME Init PROVE AloneInv(r)
  OBVIOUS
<1>. USE RelayAssumption
<1>1. Base
  BY BaseInit
<1>2. RowsInHand(r) /\ AttemptsLeft(r)
  BY DEF Init, RowsInHand, AttemptsLeft, Working, AtConsumer
<1>3. RowsOfConsumers /\ RowsAtHand(r)
  BY DEF Init, RowsOfConsumers, RowsAtHand, Working, AtConsumer, Failing
<1>4. Lost(r) = {} /\ Unrecorded = {}
  BY DEF Init, Lost, Unrecorded
<1>5. Again(r) = {}
  <2>1. ASSUME NEW e \in Events, NEW c \in Consumers PROVE Calls(r, e, c) = 0
    BY DEF Init, Calls
  <2>. QED  BY <2>1 DEF Again
<1>6. CrashesPay(r)
  BY <1>4, <1>5, FS_EmptySet DEF CrashesPay, Init
<1>. QED  BY <1>1, <1>2, <1>3, <1>6 DEF AloneInv

\* Nothing new to pay for.
LEMMA NothingToPay ==
    ASSUME NEW r \in Relays, CrashesPay(r), crashes' = crashes,
           Lost(r)' \subseteq Lost(r), Again(r)' \subseteq Again(r), Unrecorded' \subseteq Unrecorded,
           crashes \in Nat
    PROVE  CrashesPay(r)'
<1>1. /\ IsFiniteSet(Lost(r)') /\ Cardinality(Lost(r)') <= Cardinality(Lost(r))
      /\ Cardinality(Lost(r)) \in Nat /\ Cardinality(Lost(r)') \in Nat
  BY FS_Subset, FS_CardinalityType DEF CrashesPay
<1>2. /\ IsFiniteSet(Again(r)') /\ Cardinality(Again(r)') <= Cardinality(Again(r))
      /\ Cardinality(Again(r)) \in Nat /\ Cardinality(Again(r)') \in Nat
  BY FS_Subset, FS_CardinalityType DEF CrashesPay
<1>3. /\ IsFiniteSet(Unrecorded') /\ Cardinality(Unrecorded') <= Cardinality(Unrecorded)
      /\ Cardinality(Unrecorded) \in Nat /\ Cardinality(Unrecorded') \in Nat
  BY FS_Subset, FS_CardinalityType DEF CrashesPay
<1>4. Cardinality(Lost(r)) + Cardinality(Again(r)) + Cardinality(Unrecorded) <= crashes
  BY DEF CrashesPay
<1>. HIDE DEF Lost, Again, Unrecorded
<1>5. Cardinality(Lost(r)') + Cardinality(Again(r)') + Cardinality(Unrecorded') <= crashes'
  BY <1>1, <1>2, <1>3, <1>4
<1>. QED  BY <1>1, <1>2, <1>3, <1>5 DEF CrashesPay

\* A set that grows by one element at most.
LEMMA OneMore ==
    ASSUME NEW S, NEW T, NEW x, IsFiniteSet(S), T \subseteq S \cup {x}
    PROVE  /\ IsFiniteSet(T) /\ Cardinality(T) \in Nat /\ Cardinality(S) \in Nat
           /\ Cardinality(T) <= Cardinality(S) + 1
<1>1. /\ IsFiniteSet(S \cup {x}) /\ Cardinality(S) \in Nat
      /\ Cardinality(S \cup {x}) <= Cardinality(S) + 1
  <2>1. Cardinality(S) \in Nat
    BY FS_CardinalityType
  <2>2. /\ IsFiniteSet(S \cup {x})
        /\ Cardinality(S \cup {x}) = IF x \in S THEN Cardinality(S) ELSE Cardinality(S) + 1
    BY FS_AddElement
  <2>. QED  BY <2>1, <2>2
<1>2. IsFiniteSet(T) /\ Cardinality(T) <= Cardinality(S \cup {x})
  BY <1>1, FS_Subset
<1>3. Cardinality(T) \in Nat /\ Cardinality(S \cup {x}) \in Nat
  BY <1>1, <1>2, FS_CardinalityType
<1>. QED  BY <1>1, <1>2, <1>3

\* A crash pays for one loss, of whichever kind.
LEMMA CrashPaysOne ==
    ASSUME NEW r \in Relays, CrashesPay(r), crashes' = crashes + 1, crashes \in Nat, NEW x,
           \/ /\ Lost(r)' \subseteq Lost(r) \cup {x}
              /\ Again(r)' \subseteq Again(r) /\ Unrecorded' \subseteq Unrecorded
           \/ /\ Lost(r)' \subseteq Lost(r)
              /\ Again(r)' \subseteq Again(r) \cup {x} /\ Unrecorded' \subseteq Unrecorded
           \/ /\ Lost(r)' \subseteq Lost(r)
              /\ Again(r)' \subseteq Again(r) /\ Unrecorded' \subseteq Unrecorded \cup {x}
    PROVE  CrashesPay(r)'
<1>1. /\ IsFiniteSet(Lost(r)) /\ IsFiniteSet(Again(r)) /\ IsFiniteSet(Unrecorded)
      /\ Cardinality(Lost(r)) + Cardinality(Again(r)) + Cardinality(Unrecorded) <= crashes
  BY DEF CrashesPay
<1>2. ASSUME NEW S, NEW T, IsFiniteSet(S), T \subseteq S
      PROVE  /\ IsFiniteSet(T) /\ Cardinality(T) \in Nat /\ Cardinality(S) \in Nat
             /\ Cardinality(T) <= Cardinality(S)
  BY <1>2, FS_Subset, FS_CardinalityType
<1>3. ASSUME NEW L, NEW L1, NEW A, NEW A1, NEW U, NEW U1,
             IsFiniteSet(L), IsFiniteSet(A), IsFiniteSet(U),
             Cardinality(L) + Cardinality(A) + Cardinality(U) <= crashes,
             L1 \subseteq L \cup {x}, A1 \subseteq A, U1 \subseteq U
      PROVE  /\ IsFiniteSet(L1) /\ IsFiniteSet(A1) /\ IsFiniteSet(U1)
             /\ Cardinality(L1) + Cardinality(A1) + Cardinality(U1) <= crashes + 1
  <2>1. /\ IsFiniteSet(L1) /\ Cardinality(L1) \in Nat /\ Cardinality(L) \in Nat
        /\ Cardinality(L1) <= Cardinality(L) + 1
    BY <1>3, OneMore
  <2>2. /\ IsFiniteSet(A1) /\ Cardinality(A1) \in Nat /\ Cardinality(A) \in Nat
        /\ Cardinality(A1) <= Cardinality(A)
    BY <1>2, <1>3
  <2>3. /\ IsFiniteSet(U1) /\ Cardinality(U1) \in Nat /\ Cardinality(U) \in Nat
        /\ Cardinality(U1) <= Cardinality(U)
    BY <1>2, <1>3
  <2>. QED  BY <1>3, <2>1, <2>2, <2>3
<1>4. /\ Cardinality(Lost(r)) \in Nat /\ Cardinality(Again(r)) \in Nat
      /\ Cardinality(Unrecorded) \in Nat
  BY <1>1, FS_CardinalityType
<1>5. CASE /\ Lost(r)' \subseteq Lost(r) \cup {x}
           /\ Again(r)' \subseteq Again(r) /\ Unrecorded' \subseteq Unrecorded
  BY <1>1, <1>3, <1>5 DEF CrashesPay
<1>6. CASE /\ Lost(r)' \subseteq Lost(r)
           /\ Again(r)' \subseteq Again(r) \cup {x} /\ Unrecorded' \subseteq Unrecorded
  <2>1. Cardinality(Again(r)) + Cardinality(Lost(r)) + Cardinality(Unrecorded) <= crashes
    BY <1>1, <1>4
  <2>2. /\ IsFiniteSet(Again(r)') /\ IsFiniteSet(Lost(r)') /\ IsFiniteSet(Unrecorded')
        /\ Cardinality(Again(r)') + Cardinality(Lost(r)') + Cardinality(Unrecorded') <= crashes + 1
    BY <1>1, <1>3, <1>6, <2>1
  <2>3. /\ Cardinality(Lost(r)') \in Nat /\ Cardinality(Again(r)') \in Nat
        /\ Cardinality(Unrecorded') \in Nat
    BY <2>2, FS_CardinalityType
  <2>. QED  BY <2>2, <2>3 DEF CrashesPay
<1>7. CASE /\ Lost(r)' \subseteq Lost(r)
           /\ Again(r)' \subseteq Again(r) /\ Unrecorded' \subseteq Unrecorded \cup {x}
  <2>1. Cardinality(Unrecorded) + Cardinality(Lost(r)) + Cardinality(Again(r)) <= crashes
    BY <1>1, <1>4
  <2>2. /\ IsFiniteSet(Again(r)') /\ IsFiniteSet(Lost(r)') /\ IsFiniteSet(Unrecorded')
        /\ Cardinality(Unrecorded') + Cardinality(Lost(r)') + Cardinality(Again(r)') <= crashes + 1
    BY <1>1, <1>3, <1>7, <2>1
  <2>3. /\ Cardinality(Lost(r)') \in Nat /\ Cardinality(Again(r)') \in Nat
        /\ Cardinality(Unrecorded') \in Nat
    BY <2>2, FS_CardinalityType
  <2>. QED  BY <2>2, <2>3 DEF CrashesPay
<1>. QED  BY <1>5, <1>6, <1>7

\* Steps that touch no consumer cost nothing but where they leave one alone.
LEMMA QuietCalls ==
    ASSUME NEW r \in Relays, Base, UNCHANGED <<consumer, effects>>,
           \/ pc[r] \notin Failing \cup {"handling", "recording"}
           \/ UNCHANGED <<pc, event, index>>
    PROVE  Lost(r)' \subseteq Lost(r) /\ Again(r)' \subseteq Again(r)
<1>1. Lost(r)' \subseteq Lost(r)
  BY DEF Lost, IsAt, ActiveConsumer
<1>2. ASSUME NEW e \in Events, NEW c \in Consumers
      PROVE  Calls(r, e, c)' <= Calls(r, e, c) /\ Calls(r, e, c)' \in Nat /\ Calls(r, e, c) \in Nat
  <2>1. effects[e][c] \in Nat
    BY RelayAssumption DEF Base, TypeOK
  <2>. QED  BY <2>1 DEF Calls, IsAt, ActiveConsumer
<1>3. Again(r)' \subseteq Again(r)
  <2>1. ASSUME NEW t \in Again(r)' PROVE t \in Again(r)
    <3>1. t \in Events \X Consumers \X (2..EffectCap) /\ Calls(r, t[1], t[2])' >= t[3]
      BY DEF Again
    <3>2. t[1] \in Events /\ t[2] \in Consumers /\ t[3] \in Nat
      BY <3>1
    <3>3. Calls(r, t[1], t[2]) >= t[3]
      BY <1>2, <3>1, <3>2
    <3>. QED  BY <3>1, <3>3 DEF Again
  <2>. QED  BY <2>1
<1>. QED  BY <1>1, <1>3

\* Records of dead letters go missing only through dead letters and crashes.
LEMMA RecordsNotMissing ==
    ASSUME NEW r \in Relays, Relays = {r}, UNCHANGED deadLetter,
           \A e \in Events : status'[e] = "dead_lettered" => status[e] = "dead_lettered",
           pc[r] # "recording_dead_letter" \/ UNCHANGED <<pc, event>>
    PROVE  Unrecorded' \subseteq Unrecorded
BY DEF Unrecorded

\* Nothing a consumer's row says changes with the rest.
LEMMA RowsOfConsumersKept ==
    ASSUME RowsOfConsumers, UNCHANGED <<consumer, effects>>,
           \A e \in Events : status'[e] = "dispatched" => status[e] = "dispatched"
    PROVE  RowsOfConsumers'
BY DEF RowsOfConsumers

\* Producers and time.
LEMMA AloneOutside ==
    ASSUME NEW r \in Relays, Alone(r), AloneInv(r), Base', NEW e \in Events,
           WriteOutboxEvent(e) \/ BackoffElapses(e) \/ LockExpires(e)
    PROVE  AloneInv(r)'
<1>1. /\ UNCHANGED <<attempts, consumer, deadLetter, active, effects, crashes, toggles>>
      /\ UNCHANGED <<pc, batch, event, index, number>>
  BY DEF WriteOutboxEvent, BackoffElapses, LockExpires, relayVars, job
<1>2. \/ status' = status
      \/ status[e] = "absent" /\ status' = [status EXCEPT ![e] = "pending"]
  BY DEF WriteOutboxEvent, BackoffElapses, LockExpires
<1>3. \A x \in Events :
          \/ status'[x] = status[x]
          \/ x = e /\ status[x] = "absent" /\ status'[x] = "pending"
  BY <1>2 DEF AloneInv, Base, TypeOK
<1>4. /\ \A x \in batch[r] : x \in Events
      /\ pc[r] \in Working => event[r] \in Events
  BY DEF AloneInv, Base, TypeOK, JobShape
<1>5. RowsInHand(r)'
  BY <1>1, <1>3, <1>4 DEF AloneInv, RowsInHand
<1>6. AttemptsLeft(r)'
  BY <1>1, <1>3 DEF AloneInv, AttemptsLeft
<1>7. RowsOfConsumers'
  BY <1>1, <1>3, RowsOfConsumersKept DEF AloneInv
<1>8. RowsAtHand(r)'
  BY <1>1 DEF AloneInv, RowsAtHand, ActiveConsumer
<1>9. CrashesPay(r)'
  <2>1. Lost(r)' \subseteq Lost(r) /\ Again(r)' \subseteq Again(r)
    BY <1>1, QuietCalls DEF AloneInv
  <2>2. /\ \A x \in Events : status'[x] = "dead_lettered" => status[x] = "dead_lettered"
        /\ UNCHANGED <<pc, event>>
    BY <1>1, <1>3
  <2>3. Unrecorded' \subseteq Unrecorded
    BY <1>1, <2>2 DEF Unrecorded
  <2>4. crashes \in Nat /\ CrashesPay(r) /\ crashes' = crashes
    BY <1>1 DEF AloneInv, Base, TypeOK
  <2>. QED  BY <2>1, <2>3, <2>4, NothingToPay
<1>. QED  BY <1>5, <1>6, <1>7, <1>8, <1>9 DEF AloneInv

\* A step that touches no consumer and no dead letter, from a place where the
\* relay is not at work on either.
LEMMA QuietStep ==
    ASSUME NEW r \in Relays, Alone(r), AloneInv(r),
           UNCHANGED <<consumer, effects, deadLetter, crashes>>,
           \A e \in Events : /\ status'[e] = "dispatched" => status[e] = "dispatched"
                             /\ status'[e] = "dead_lettered" => status[e] = "dead_lettered",
           pc[r] \notin Failing \cup {"handling", "recording", "recording_dead_letter"}
    PROVE  RowsOfConsumers' /\ CrashesPay(r)'
<1>1. Lost(r)' \subseteq Lost(r) /\ Again(r)' \subseteq Again(r)
  BY QuietCalls DEF AloneInv
<1>2. Unrecorded' \subseteq Unrecorded
  BY RecordsNotMissing DEF Alone
<1>3. CrashesPay(r)'
  BY <1>1, <1>2, NothingToPay DEF AloneInv, Base, TypeOK
<1>. QED  BY <1>3, RowsOfConsumersKept DEF AloneInv

\* What the relay's place says does not concern a relay between events.
LEMMA NothingAtHand ==
    ASSUME NEW r \in Relays, pc'[r] \notin Failing \cup AtConsumer \cup {"finishing"}
    PROVE  RowsAtHand(r)'
BY DEF RowsAtHand, AtConsumer, Failing

\* The relay plans: ready rows only.
LEMMA AlonePlans ==
    ASSUME NEW r \in Relays, Alone(r), AloneInv(r), Base', PlanBatch(r)
    PROVE  AloneInv(r)'
<1>1. PICK S \in SUBSET Events :
          /\ batch' = [batch EXCEPT ![r] = S]
          /\ \A e \in S : status[e] \in {"pending", "failed_retryable", "locked"}
  BY DEF PlanBatch, Candidates
<1>2. /\ pc[r] = "idle" /\ pc' = [pc EXCEPT ![r] = "planned"]
      /\ UNCHANGED <<status, attempts, consumer, deadLetter, active, effects, crashes>>
      /\ UNCHANGED <<event, index, number>>
  BY DEF PlanBatch, dbVars, outbox, job
<1>3. pc'[r] = "planned" /\ batch'[r] = S
  BY <1>1, <1>2 DEF AloneInv, Base, TypeOK
<1>4. RowsInHand(r)'
  BY <1>1, <1>2, <1>3 DEF AloneInv, RowsInHand, Working, AtConsumer
<1>5. AttemptsLeft(r)'
  BY <1>2, <1>3 DEF AloneInv, AttemptsLeft, Working, AtConsumer
<1>6. RowsOfConsumers' /\ CrashesPay(r)'
  BY <1>2, QuietStep DEF Failing
<1>7. RowsAtHand(r)'
  BY <1>3, NothingAtHand DEF AtConsumer, Failing
<1>. QED  BY <1>4, <1>5, <1>6, <1>7 DEF AloneInv

\* The relay locks what it planned: nobody has touched it in between.
LEMMA AloneLocks ==
    ASSUME NEW r \in Relays, Alone(r), AloneInv(r), Base', LockBatch(r)
    PROVE  AloneInv(r)'
<1>1. /\ pc[r] = "planned" /\ pc' = [pc EXCEPT ![r] = "next"]
      /\ status' = [e \in Events |-> IF e \in batch[r] THEN "locked" ELSE status[e]]
      /\ UNCHANGED <<attempts, consumer, deadLetter, active, effects, crashes>>
      /\ UNCHANGED <<batch, event, index, number>>
  BY DEF LockBatch, job
<1>2. pc'[r] = "next" /\ batch[r] \subseteq Events
  BY <1>1 DEF AloneInv, Base, TypeOK
<1>3. \A e \in Events : status'[e] = IF e \in batch[r] THEN "locked" ELSE status[e]
  BY <1>1
<1>4. \A e \in batch[r] : status[e] \in {"pending", "failed_retryable", "locked"}
  BY DEF AloneInv, RowsInHand
<1>5. RowsInHand(r)'
  BY <1>1, <1>2, <1>3, <1>4 DEF AloneInv, RowsInHand, Working, AtConsumer
<1>6. AttemptsLeft(r)'
  <2>. SUFFICES ASSUME NEW e \in Events
                PROVE  /\ attempts[e] <= MaxRetryAttempts + crashes
                       /\ status'[e] \in {"absent", "pending", "failed_retryable"} =>
                             attempts[e] < MaxRetryAttempts
                       /\ status'[e] = "locked" => attempts[e] < MaxRetryAttempts + crashes
    BY <1>1, <1>2 DEF AttemptsLeft
  <2>1. attempts[e] \in Nat /\ crashes \in Nat /\ MaxRetryAttempts \in Nat
    BY RelayAssumption DEF AloneInv, Base, TypeOK
  <2>. QED  BY <1>1, <1>3, <1>4, <2>1 DEF AloneInv, AttemptsLeft, Working, AtConsumer
<1>7. RowsOfConsumers' /\ CrashesPay(r)'
  BY <1>1, <1>3, QuietStep DEF Failing
<1>8. RowsAtHand(r)'
  BY <1>2, NothingAtHand DEF AtConsumer, Failing
<1>. QED  BY <1>5, <1>6, <1>7, <1>8 DEF AloneInv

\* The relay takes an event of its batch, or has none left.
LEMMA AloneTakes ==
    ASSUME NEW r \in Relays, Alone(r), AloneInv(r), Base', NextEvent(r) \/ FinishBatch(r)
    PROVE  AloneInv(r)'
<1>1. /\ pc[r] = "next"
      /\ UNCHANGED <<status, attempts, consumer, deadLetter, active, effects, crashes>>
  BY DEF NextEvent, FinishBatch, dbVars, outbox
<1>2. RowsOfConsumers' /\ CrashesPay(r)'
  BY <1>1, QuietStep DEF Failing
<1>3. CASE FinishBatch(r)
  <2>1. /\ batch[r] = {} /\ pc' = [pc EXCEPT ![r] = "idle"]
        /\ UNCHANGED <<batch, event, index, number>>
    BY <1>3 DEF FinishBatch, job
  <2>2. pc'[r] = "idle"
    BY <2>1 DEF AloneInv, Base, TypeOK
  <2>3. RowsInHand(r)' /\ AttemptsLeft(r)'
    BY <1>1, <2>1, <2>2 DEF AloneInv, RowsInHand, AttemptsLeft, Working, AtConsumer
  <2>4. RowsAtHand(r)'
    BY <2>2, NothingAtHand DEF AtConsumer, Failing
  <2>. QED  BY <1>2, <2>3, <2>4 DEF AloneInv
<1>4. CASE NextEvent(r)
  <2>1. PICK e \in batch[r] :
            /\ batch' = [batch EXCEPT ![r] = @ \ {e}]
            /\ event' = [event EXCEPT ![r] = e]
            /\ number' = [number EXCEPT ![r] = Saturate(attempts[e] + 1, AttemptCap)]
    BY <1>4 DEF NextEvent
  <2>2. pc' = [pc EXCEPT ![r] = "counted"]
    BY <1>4 DEF NextEvent
  <2>3. /\ pc'[r] = "counted" /\ batch'[r] = batch[r] \ {e} /\ event'[r] = e
        /\ number'[r] = Saturate(attempts[e] + 1, AttemptCap)
    BY <2>1, <2>2 DEF AloneInv, Base, TypeOK
  <2>4. e \in Events /\ status[e] = "locked"
    BY <1>1 DEF AloneInv, Base, TypeOK, RowsInHand
  <2>5. number'[r] >= 1
    <3>1. attempts[e] \in 0..AttemptCap /\ AttemptCap \in Nat \ {0}
      BY <2>4, RelayAssumption DEF AloneInv, Base, TypeOK
    <3>. QED  BY <2>3, <3>1, SaturateGrows
  <2>6. RowsInHand(r)'
    BY <1>1, <2>3, <2>4, <2>5 DEF AloneInv, RowsInHand, Working, AtConsumer
  <2>7. AttemptsLeft(r)'
    BY <1>1, <2>3 DEF AloneInv, AttemptsLeft, Working, AtConsumer
  <2>8. RowsAtHand(r)'
    BY <2>3, NothingAtHand DEF AtConsumer, Failing
  <2>. QED  BY <1>2, <2>6, <2>7, <2>8 DEF AloneInv
<1>. QED  BY <1>3, <1>4

\* The relay's event and its consumer, where it has them.
LEMMA InHand ==
    ASSUME NEW r \in Relays, AloneInv(r), pc[r] \in Working
    PROVE  /\ event[r] \in Events /\ index[r] \in 0..Len(Handlers(event[r]))
           /\ Len(Handlers(event[r])) \in Nat
           /\ index[r] # 0 => /\ ActiveConsumer(r) \in Consumers
                              /\ index[r] \in 1..Len(Handlers(event[r]))
           /\ pc[r] \in AtConsumer => index[r] # 0
<1>1. event[r] \in Events /\ index[r] \in 0..Len(Handlers(event[r]))
  BY DEF AloneInv, Base, JobShape
<1>2. index[r] # 0 => ActiveConsumer(r) \in Consumers
  BY ActiveConsumerType DEF AloneInv
<1>. QED  BY <1>1, <1>2, HandlersType DEF AloneInv, Base, JobShape

\* A relay that goes on with its event keeps what is said of rows and attempts.
LEMMA GoesOn ==
    ASSUME NEW r \in Relays, AloneInv(r),
           pc[r] \in Working \ {"counted", "recording_dead_letter"},
           pc'[r] \in Working \ {"counted", "recording_dead_letter"},
           event'[r] = event[r], number'[r] = number[r], batch'[r] = batch[r],
           UNCHANGED <<status, attempts, deadLetter, active, crashes>>
    PROVE  RowsInHand(r)' /\ AttemptsLeft(r)'
<1>1. pc'[r] # "idle" /\ pc'[r] # "planned" /\ pc[r] # "planned"
  BY DEF Working, AtConsumer
<1>2. RowsInHand(r)'
  BY <1>1 DEF AloneInv, RowsInHand
<1>3. AttemptsLeft(r)'
  BY DEF AloneInv, AttemptsLeft
<1>. QED  BY <1>2, <1>3

\* The next handler, or the end of the list.
LEMMA NextAtHand ==
    ASSUME NEW r \in Relays, AloneInv(r), pc[r] \in AtConsumer, NextHandler(r),
           \A i \in 1..Len(Handlers(event[r])) :
              i <= index[r] => consumer'[event[r]][Handlers(event[r])[i]] \in {"started", "processed"}
    PROVE  /\ pc'[r] \in {"consumer", "finishing"} /\ event' = event /\ number' = number
           /\ RowsAtHand(r)'
<1>1. pc[r] \in Working
  BY DEF Working
<1>2. /\ event[r] \in Events /\ index[r] \in Nat /\ Len(Handlers(event[r])) \in Nat
      /\ \A i \in 1..Len(Handlers(event[r])) : i \in Nat /\ i <= Len(Handlers(event[r]))
  BY <1>1, InHand
<1>3. event' = event /\ number' = number
  BY DEF NextHandler, job
<1>4. CASE index[r] < Len(Handlers(event[r]))
  <2>1. pc'[r] = "consumer" /\ index'[r] = index[r] + 1
    BY <1>4 DEF NextHandler, AloneInv, Base, TypeOK
  <2>2. RowsAtHand(r)'
    <3>1. \A i \in 1..Len(Handlers(event[r])) : i < index'[r] => i <= index[r]
      BY <1>2, <2>1
    <3>. QED  BY <1>3, <2>1, <3>1 DEF RowsAtHand, Failing
  <2>. QED  BY <1>3, <2>1, <2>2
<1>5. CASE ~(index[r] < Len(Handlers(event[r])))
  <2>1. pc'[r] = "finishing"
    BY <1>5 DEF NextHandler, AloneInv, Base, TypeOK
  <2>2. \A i \in 1..Len(Handlers(event[r])) : i <= index[r]
    BY <1>2, <1>5
  <2>3. RowsAtHand(r)'
    BY <1>3, <2>1, <2>2 DEF RowsAtHand, Failing
  <2>. QED  BY <1>3, <2>1, <2>3
<1>. QED  BY <1>4, <1>5

\* One attempt more, for which there was room.
LEMMA AloneAttempts ==
    ASSUME NEW r \in Relays, Alone(r), AloneInv(r), Base', CreateAttempt(r)
    PROVE  AloneInv(r)'
<1>. DEFINE e == event[r]
            more == Saturate(attempts[e] + 1, AttemptCap)
<1>1. /\ pc[r] = "counted" /\ pc[r] \in Working
      /\ attempts' = [attempts EXCEPT ![e] = more]
      /\ UNCHANGED <<status, consumer, deadLetter, active, batch, event, number, effects, crashes>>
  BY DEF CreateAttempt, outbox, Working
<1>2. \/ /\ Handlers(e) # <<>> /\ pc'[r] = "consumer" /\ index'[r] = 1
      \/ /\ Handlers(e) = <<>> /\ pc'[r] = "finishing" /\ index'[r] = 0
  BY DEF CreateAttempt, AloneInv, Base, TypeOK
<1>3. e \in Events /\ status[e] = "locked"
  BY <1>1, InHand DEF AloneInv, RowsInHand
<1>4. /\ attempts[e] \in Nat /\ crashes \in Nat /\ MaxRetryAttempts \in Nat
      /\ attempts[e] < MaxRetryAttempts + crashes
  BY <1>1, <1>3, RelayAssumption DEF AloneInv, Base, TypeOK, AttemptsLeft
<1>5. more <= MaxRetryAttempts + crashes /\ number[r] = more
  <2>1. more <= attempts[e] + 1 /\ more \in Nat
    BY <1>4, RelayAssumption DEF Saturate
  <2>. QED  BY <1>1, <1>4, <2>1 DEF AloneInv, RowsInHand
<1>. HIDE DEF more
<1>6. attempts'[e] = more /\ \A x \in Events : x # e => attempts'[x] = attempts[x]
  BY <1>1, <1>3 DEF AloneInv, Base, TypeOK
<1>7. RowsInHand(r)'
  BY <1>1, <1>2, <1>5, <1>6 DEF AloneInv, RowsInHand, Working, AtConsumer
<1>8. AttemptsLeft(r)'
  <2>. SUFFICES ASSUME NEW x \in Events
                PROVE  /\ attempts'[x] <= MaxRetryAttempts + crashes
                       /\ status[x] \in {"absent", "pending", "failed_retryable"} =>
                             attempts'[x] < MaxRetryAttempts
                       /\ status[x] = "locked" /\ x # e =>
                             attempts'[x] < MaxRetryAttempts + crashes
    BY <1>1, <1>2 DEF AttemptsLeft, Working, AtConsumer
  <2>1. CASE x = e
    BY <1>3, <1>5, <1>6, <2>1
  <2>2. CASE x # e
    BY <1>6, <2>2 DEF AloneInv, AttemptsLeft
  <2>. QED  BY <2>1, <2>2
<1>9. RowsOfConsumers' /\ CrashesPay(r)'
  BY <1>1, QuietStep DEF Failing
<1>10. RowsAtHand(r)'
  <2>1. \A i \in 1..Len(Handlers(e)) : ~(i < 1) /\ Handlers(e) # <<>>
    BY <1>3, HandlersType
  <2>. QED  BY <1>1, <1>2, <2>1 DEF RowsAtHand, Failing
<1>. QED  BY <1>7, <1>8, <1>9, <1>10 DEF AloneInv

\* Whether a consumer is served, skipped or refused.
LEMMA AloneChecks ==
    ASSUME NEW r \in Relays, Alone(r), AloneInv(r), Base', CheckConsumer(r)
    PROVE  AloneInv(r)'
<1>. DEFINE e == event[r]
            c == ActiveConsumer(r)
            i0 == index[r]
<1>1. /\ pc[r] = "consumer" /\ pc[r] \in AtConsumer /\ pc[r] \in Working
      /\ UNCHANGED <<status, attempts, consumer, deadLetter, active, effects, crashes>>
  BY DEF CheckConsumer, dbVars, outbox, AtConsumer, Working
<1>2. /\ e \in Events /\ c \in Consumers /\ i0 # 0 /\ i0 \in 1..Len(Handlers(e))
      /\ c = Handlers(e)[i0] /\ Len(Handlers(e)) \in Nat
  BY <1>1, InHand DEF ActiveConsumer
<1>3. ContractActive(e)
  <2>1. TypeOf[e] \in EventTypes
    BY <1>2, RelayAssumption
  <2>. QED  BY <2>1 DEF AloneInv, RowsInHand, ContractActive
<1>4. RowsOfConsumers' /\ CrashesPay(r)'
  BY <1>1, QuietStep DEF Failing
<1>5. \A i \in 1..Len(Handlers(e)) :
          i < i0 => consumer[e][Handlers(e)[i]] \in {"started", "processed"}
  BY <1>1 DEF AloneInv, RowsAtHand
<1>6. /\ consumer[e][c] \in ConsumerStatus
      /\ consumer[e][c] = "none" => effects[e][c] = 0
      /\ c \notin AllowedConsumers[TypeOf[e]] => consumer[e][c] \in {"none", "failed"}
  BY <1>2 DEF AloneInv, RowsOfConsumers, Base, TypeOK
<1>7. CASE NextHandler(r) /\ ShouldSkipConsumer(consumer[e][c]) /\ UNCHANGED batch
  <2>1. \A i \in 1..Len(Handlers(e)) :
            i <= i0 => consumer'[e][Handlers(e)[i]] \in {"started", "processed"}
    <3>. SUFFICES ASSUME NEW i \in 1..Len(Handlers(e)), i <= i0
                  PROVE  consumer[e][Handlers(e)[i]] \in {"started", "processed"}
      BY <1>1
    <3>1. CASE i = i0
      BY <1>2, <1>7, <3>1 DEF ShouldSkipConsumer
    <3>2. CASE i # i0
      <4>1. i < i0
        BY <1>2, <3>2
      <4>. QED  BY <1>5, <4>1
    <3>. QED  BY <3>1, <3>2
  <2>2. /\ pc'[r] \in {"consumer", "finishing"} /\ event' = event /\ number' = number
        /\ RowsAtHand(r)'
    BY <1>1, <1>7, <2>1, NextAtHand
  <2>3. RowsInHand(r)' /\ AttemptsLeft(r)'
    BY <1>1, <1>7, <2>2, GoesOn DEF Working, AtConsumer
  <2>. QED  BY <1>4, <2>2, <2>3 DEF AloneInv
<1>8. ASSUME NEW p \in {"failing_permanent", "starting", "handling"},
             pc' = [pc EXCEPT ![r] = p], UNCHANGED <<batch, job>>,
             p = "failing_permanent" => c \notin AllowedConsumers[TypeOf[e]],
             p # "failing_permanent" => c \in AllowedConsumers[TypeOf[e]],
             p = "starting" => consumer[e][c] = "none",
             p = "handling" => consumer[e][c] = "failed"
      PROVE  AloneInv(r)'
  <2>1. pc'[r] = p /\ UNCHANGED <<event, index, number, batch>>
    BY <1>8 DEF AloneInv, Base, TypeOK, job
  <2>2. RowsInHand(r)' /\ AttemptsLeft(r)'
    BY <1>1, <2>1, GoesOn DEF Working, AtConsumer
  <2>3. ActiveConsumer(r)' = c
    BY <2>1 DEF ActiveConsumer
  <2>4. effects[e][c] >= 1 => effects[e][c] # 0
    OBVIOUS
  <2>5. RowsAtHand(r)'
    BY <1>1, <1>2, <1>5, <1>6, <1>8, <2>1, <2>3, <2>4 DEF RowsAtHand, Failing
  <2>. QED  BY <1>4, <2>2, <2>5 DEF AloneInv
<1>9. CASE /\ c \notin AllowedConsumers[TypeOf[e]]
           /\ pc' = [pc EXCEPT ![r] = "failing_permanent"]
           /\ UNCHANGED <<batch, job>>
  BY <1>8, <1>9
<1>10. CASE /\ c \in AllowedConsumers[TypeOf[e]]
            /\ ~ShouldSkipConsumer(consumer[e][c])
            /\ pc' = [pc EXCEPT ![r] = IF consumer[e][c] = "none" THEN "starting" ELSE "handling"]
            /\ UNCHANGED <<batch, job>>
  <2>1. consumer[e][c] \in {"none", "failed"}
    BY <1>6, <1>10 DEF ShouldSkipConsumer, ConsumerStatus
  <2>. QED  BY <1>8, <1>10, <2>1
<1>. QED  BY <1>3, <1>7, <1>9, <1>10 DEF CheckConsumer

\* What a step costs that writes one consumer's row or counts one call of it:
\* nothing, if the pair was not there before or does not come to be.
LEMMA OnePair ==
    ASSUME NEW r \in Relays, Alone(r), AloneInv(r), pc[r] # "recording_dead_letter",
           UNCHANGED <<event, index, status, deadLetter, crashes>>,
           NEW e0 \in Events, NEW c0 \in Consumers, IsAt(r, e0, c0),
           \A e \in Events, c \in Consumers : ~IsAt(r, e, c) =>
               consumer'[e][c] = consumer[e][c] /\ effects'[e][c] = effects[e][c],
           <<e0, c0>> \in Lost(r)' => <<e0, c0>> \in Lost(r),
           \A k \in 2..EffectCap : Calls(r, e0, c0)' >= k => Calls(r, e0, c0) >= k
    PROVE  CrashesPay(r)'
<1>1. \A e, c : IsAt(r, e, c)' = IsAt(r, e, c)
  BY DEF IsAt, ActiveConsumer
<1>2. Lost(r)' \subseteq Lost(r)
  <2>. SUFFICES ASSUME NEW e \in Events, NEW c \in Consumers, <<e, c>> \in Lost(r)'
                PROVE  <<e, c>> \in Lost(r)
    BY DEF Lost
  <2>1. CASE IsAt(r, e, c)
    <3>1. e = e0 /\ c = c0
      BY <2>1 DEF IsAt
    <3>. QED  BY <3>1
  <2>2. CASE ~IsAt(r, e, c)
    BY <1>1, <2>2 DEF Lost
  <2>. QED  BY <2>1, <2>2
<1>3. Again(r)' \subseteq Again(r)
  <2>. SUFFICES ASSUME NEW e \in Events, NEW c \in Consumers, NEW k \in 2..EffectCap,
                       Calls(r, e, c)' >= k
                PROVE  Calls(r, e, c) >= k
    BY DEF Again
  <2>1. CASE IsAt(r, e, c)
    <3>1. e = e0 /\ c = c0
      BY <2>1 DEF IsAt
    <3>. QED  BY <3>1
  <2>2. CASE ~IsAt(r, e, c)
    <3>1. Calls(r, e, c)' = Calls(r, e, c)
      BY <1>1, <2>2 DEF Calls
    <3>. QED  BY <3>1
  <2>. QED  BY <2>1, <2>2
<1>4. Unrecorded' \subseteq Unrecorded
  BY RecordsNotMissing DEF Alone
<1>5. crashes \in Nat /\ CrashesPay(r) /\ crashes' = crashes
  BY DEF AloneInv, Base, TypeOK
<1>. QED  BY <1>2, <1>3, <1>4, <1>5, NothingToPay

\* A first delivery to a consumer: the row that was not there is not there yet.
LEMMA AloneStarts ==
    ASSUME NEW r \in Relays, Alone(r), AloneInv(r), Base', RecordStarted(r)
    PROVE  AloneInv(r)'
<1>1. /\ pc[r] = "starting" /\ pc[r] \in AtConsumer /\ pc[r] \in Working
      /\ UNCHANGED <<status, attempts, deadLetter, active, batch, event, index, number,
                     effects, crashes>>
  BY DEF RecordStarted, outbox, job, AtConsumer, Working
<1>2. index[r] # 0 /\ \E e \in Events, c \in Consumers : IsAt(r, e, c)
  BY <1>1, InHand DEF IsAt
<1>0. PICK e \in Events, c \in Consumers : IsAt(r, e, c)
  BY <1>2
<1>3. /\ consumer[e][c] = "none" /\ c \in AllowedConsumers[TypeOf[e]]
      /\ \A i \in 1..Len(Handlers(e)) :
            i < index[r] => consumer[e][Handlers(e)[i]] \in {"started", "processed"}
  BY <1>0, <1>1 DEF AloneInv, RowsAtHand, IsAt
<1>4. effects[e][c] = 0 /\ status[e] = "locked"
  BY <1>0, <1>1, <1>3 DEF AloneInv, RowsOfConsumers, RowsInHand, IsAt
<1>5. consumer' = [consumer EXCEPT ![e][c] = "started"] /\ pc'[r] = "handling"
  BY <1>0, <1>3 DEF RecordStarted, AloneInv, Base, TypeOK, IsAt
<1>6. /\ consumer'[e][c] = "started"
      /\ \A x \in Events, y \in Consumers :
            x # e \/ y # c => consumer'[x][y] = consumer[x][y]
  BY <1>0, <1>5 DEF AloneInv, Base, TypeOK
<1>7. \A x \in Events, y \in Consumers :
         (~IsAt(r, x, y) <=> x # e \/ y # c) /\ (IsAt(r, x, y)' <=> IsAt(r, x, y))
  BY <1>0, <1>1 DEF IsAt, ActiveConsumer
<1>8. RowsInHand(r)' /\ AttemptsLeft(r)'
  BY <1>1, <1>5, GoesOn DEF Working, AtConsumer
<1>9. RowsOfConsumers'
  <2>. SUFFICES ASSUME NEW x \in Events, NEW y \in Consumers
                PROVE  /\ consumer'[x][y] = "none" => effects[x][y] = 0
                       /\ consumer'[x][y] = "processed" => effects[x][y] >= 1
                       /\ y \notin AllowedConsumers[TypeOf[x]] =>
                             consumer'[x][y] \in {"none", "failed"}
                       /\ status[x] = "dispatched" =>
                             \A i \in 1..Len(Handlers(x)) :
                                Handlers(x)[i] = y => consumer'[x][y] \in {"started", "processed"}
    BY <1>1 DEF RowsOfConsumers
  <2>1. CASE x = e /\ y = c
    BY <1>3, <1>6, <2>1
  <2>2. CASE x # e \/ y # c
    BY <1>6, <2>2 DEF AloneInv, RowsOfConsumers
  <2>. QED  BY <2>1, <2>2
<1>10. RowsAtHand(r)'
  <2>1. ActiveConsumer(r)' = c /\ event'[r] = e
    BY <1>0, <1>1 DEF ActiveConsumer, IsAt
  <2>2. ASSUME NEW i \in 1..Len(Handlers(e)), i < index[r]
        PROVE  consumer'[e][Handlers(e)[i]] \in {"started", "processed"}
    <3>1. Handlers(e)[i] \in Consumers
      BY <1>2, HandlersType
    <3>. QED  BY <1>2, <1>3, <1>6, <2>2, <3>1
  <2>. QED  BY <1>1, <1>3, <1>4, <1>5, <1>6, <2>1, <2>2 DEF RowsAtHand, Failing
<1>11. CrashesPay(r)'
  <2>1. <<e, c>> \notin Lost(r)'
    <3>1. IsAt(r, e, c)'
      BY <1>0, <1>7
    <3>. QED  BY <1>5, <3>1 DEF Lost, Failing
  <2>2. Calls(r, e, c)' = 0
    BY <1>1, <1>4, <1>6 DEF Calls
  <2>3. \A x \in Events, y \in Consumers : ~IsAt(r, x, y) =>
            consumer'[x][y] = consumer[x][y] /\ effects'[x][y] = effects[x][y]
    BY <1>1, <1>6, <1>7
  <2>4. \A k \in 2..EffectCap : ~(0 >= k)
    OBVIOUS
  <2>. QED  BY <1>0, <1>1, <2>1, <2>2, <2>3, <2>4, OnePair
<1>. QED  BY <1>8, <1>9, <1>10, <1>11 DEF AloneInv

\* A handler that returns is called once more than its row says only if the
\* row says that it failed; one that raises has not been called.
LEMMA AloneHandles ==
    ASSUME NEW r \in Relays, Alone(r), AloneInv(r), Base', RunHandler(r)
    PROVE  AloneInv(r)'
<1>1. /\ pc[r] = "handling" /\ pc[r] \in AtConsumer /\ pc[r] \in Working
      /\ UNCHANGED <<status, attempts, consumer, deadLetter, active, crashes>>
  BY DEF RunHandler, dbVars, outbox, AtConsumer, Working
<1>2. index[r] # 0 /\ \E e \in Events, c \in Consumers : IsAt(r, e, c)
  BY <1>1, InHand DEF IsAt
<1>0. PICK e \in Events, c \in Consumers : IsAt(r, e, c)
  BY <1>2
<1>. DEFINE more == Saturate(effects[e][c] + 1, EffectCap)
<1>3. /\ consumer[e][c] = "failed" \/ (consumer[e][c] = "started" /\ effects[e][c] = 0)
      /\ c \in AllowedConsumers[TypeOf[e]]
      /\ \A i \in 1..Len(Handlers(e)) :
            i < index[r] => consumer[e][Handlers(e)[i]] \in {"started", "processed"}
  BY <1>0, <1>1 DEF AloneInv, RowsAtHand, IsAt
<1>4. effects[e][c] \in Nat /\ effects[e][c] <= EffectCap /\ EffectCap \in Nat \ {0}
  BY <1>2, RelayAssumption DEF AloneInv, Base, TypeOK
<1>5. CASE /\ effects' = [effects EXCEPT ![e][c] = more]
           /\ pc' = [pc EXCEPT ![r] = "recording"]
           /\ UNCHANGED <<batch, job>>
  <2>1. /\ more \in Nat /\ more >= 1 /\ more <= effects[e][c] + 1
        /\ effects[e][c] = 0 => more = 1
    BY <1>4 DEF Saturate
  <2>2. pc'[r] = "recording" /\ UNCHANGED <<event, index, number, batch>>
    BY <1>5 DEF job, AloneInv, Base, TypeOK
  <2>3. effects' = [effects EXCEPT ![e][c] = more]
    BY <1>5
  <2>. HIDE DEF more
  <2>4. /\ effects'[e][c] = more
        /\ \A x \in Events, y \in Consumers : x # e \/ y # c => effects'[x][y] = effects[x][y]
    BY <1>2, <2>3 DEF AloneInv, Base, TypeOK
  <2>5. RowsInHand(r)' /\ AttemptsLeft(r)'
    BY <1>1, <2>2, GoesOn DEF Working, AtConsumer
  <2>6. RowsOfConsumers'
    <3>. SUFFICES ASSUME NEW x \in Events, NEW y \in Consumers
                  PROVE  /\ consumer[x][y] = "none" => effects'[x][y] = 0
                         /\ consumer[x][y] = "processed" => effects'[x][y] >= 1
      BY <1>1 DEF RowsOfConsumers, AloneInv
    <3>1. CASE x = e /\ y = c
      BY <1>3, <3>1
    <3>2. CASE x # e \/ y # c
      BY <2>4, <3>2 DEF AloneInv, RowsOfConsumers
    <3>. QED  BY <3>1, <3>2
  <2>7. RowsAtHand(r)'
    <3>1. ActiveConsumer(r)' = c /\ event'[r] = e
      BY <1>0, <2>2 DEF ActiveConsumer, IsAt
    <3>. QED  BY <1>1, <1>3, <2>1, <2>2, <2>4, <3>1 DEF RowsAtHand, Failing
  <2>8. CrashesPay(r)'
    <3>1. <<e, c>> \notin Lost(r)'
      BY <2>1, <2>4 DEF Lost
    <3>2. IsAt(r, e, c) /\ IsAt(r, e, c)'
      BY <1>0, <2>2 DEF IsAt, ActiveConsumer
    <3>3. Calls(r, e, c)' = more
      BY <2>1, <2>2, <2>4, <3>2 DEF Calls
    <3>4. more >= 2 => Calls(r, e, c) >= more
      BY <1>1, <1>3, <1>4, <2>1 DEF Calls
    <3>5. Calls(r, e, c) \in Nat
      BY <1>4 DEF Calls
    <3>6. \A k \in 2..EffectCap : Calls(r, e, c)' >= k => Calls(r, e, c) >= k
      BY <2>1, <3>3, <3>4, <3>5
    <3>7. \A x \in Events, y \in Consumers : ~IsAt(r, x, y) =>
              consumer'[x][y] = consumer[x][y] /\ effects'[x][y] = effects[x][y]
      BY <1>0, <1>1, <2>4 DEF IsAt
    <3>. QED  BY <1>0, <1>1, <2>2, <3>1, <3>6, <3>7, OnePair
  <2>. QED  BY <2>5, <2>6, <2>7, <2>8 DEF AloneInv
<1>6. ASSUME NEW p \in Failing, pc' = [pc EXCEPT ![r] = p], UNCHANGED <<batch, job, effects>>
      PROVE  AloneInv(r)'
  <2>1. pc'[r] = p /\ UNCHANGED <<event, index, number, batch, effects>>
    BY <1>6 DEF job, AloneInv, Base, TypeOK
  <2>2. RowsInHand(r)' /\ AttemptsLeft(r)'
    BY <1>1, <2>1, GoesOn DEF Working, AtConsumer, Failing
  <2>3. RowsOfConsumers'
    BY <1>1, <2>1, RowsOfConsumersKept DEF AloneInv
  <2>4. ActiveConsumer(r)' = c /\ event'[r] = e
    BY <1>0, <2>1 DEF ActiveConsumer, IsAt
  <2>5. RowsAtHand(r)'
    BY <1>1, <1>2, <1>3, <2>1, <2>4 DEF RowsAtHand, Failing, AtConsumer
  <2>6. CrashesPay(r)'
    <3>1. \A x, y : IsAt(r, x, y)' = IsAt(r, x, y)
      BY <2>1 DEF IsAt, ActiveConsumer
    <3>2. <<e, c>> \in Lost(r)' => <<e, c>> \in Lost(r)
      BY <1>0, <1>1, <2>1, <3>1 DEF Lost, Failing
    <3>3. Calls(r, e, c)' = Calls(r, e, c)
      BY <1>1, <2>1, <3>1 DEF Calls, Failing
    <3>. QED  BY <1>0, <1>1, <2>1, <3>2, <3>3, OnePair
  <2>. QED  BY <2>2, <2>3, <2>5, <2>6 DEF AloneInv
<1>. QED  BY <1>0, <1>5, <1>6 DEF RunHandler, Alone, Failing, IsAt

\* The row says at last what the handler has done.
LEMMA AloneProcesses ==
    ASSUME NEW r \in Relays, Alone(r), AloneInv(r), Base', RecordProcessed(r)
    PROVE  AloneInv(r)'
<1>1. /\ pc[r] = "recording" /\ pc[r] \in AtConsumer /\ pc[r] \in Working
      /\ NextHandler(r)
      /\ UNCHANGED <<status, attempts, deadLetter, active, batch, effects, crashes>>
  BY DEF RecordProcessed, outbox, AtConsumer, Working
<1>0. PICK e \in Events, c \in Consumers : IsAt(r, e, c)
  BY <1>1, InHand DEF IsAt
<1>2. /\ index[r] # 0 /\ index[r] \in 1..Len(Handlers(e))
      /\ Len(Handlers(e)) \in Nat /\ c = Handlers(e)[index[r]] /\ event[r] = e
      /\ consumer' = [consumer EXCEPT ![e][c] = "processed"]
  BY <1>0, <1>1, InHand DEF ActiveConsumer, IsAt, RecordProcessed
<1>3. /\ effects[e][c] >= 1 /\ c \in AllowedConsumers[TypeOf[e]]
      /\ \A i \in 1..Len(Handlers(e)) :
            i < index[r] => consumer[e][Handlers(e)[i]] \in {"started", "processed"}
  BY <1>0, <1>1 DEF AloneInv, RowsAtHand, IsAt
<1>4. /\ consumer'[e][c] = "processed"
      /\ \A x \in Events, y \in Consumers :
            x # e \/ y # c => consumer'[x][y] = consumer[x][y]
  BY <1>1, <1>2 DEF AloneInv, Base, TypeOK
<1>5. ASSUME NEW i \in 1..Len(Handlers(e)), i <= index[r]
      PROVE  consumer'[e][Handlers(e)[i]] \in {"started", "processed"}
  <2>1. Handlers(e)[i] \in Consumers /\ i \in Nat /\ index[r] \in Nat
    BY <1>2, HandlersType
  <2>2. CASE Handlers(e)[i] = c
    BY <1>4, <2>2
  <2>3. CASE Handlers(e)[i] # c
    <3>1. i < index[r]
      BY <1>2, <1>5, <2>1, <2>3
    <3>. QED  BY <1>2, <1>3, <1>4, <2>1, <2>3, <3>1
  <2>. QED  BY <2>2, <2>3
<1>6. /\ pc'[r] \in {"consumer", "finishing"} /\ event' = event /\ number' = number
      /\ RowsAtHand(r)'
  BY <1>1, <1>2, <1>5, NextAtHand
<1>7. RowsInHand(r)' /\ AttemptsLeft(r)'
  BY <1>1, <1>6, GoesOn DEF Working, AtConsumer
<1>8. RowsOfConsumers'
  <2>. SUFFICES ASSUME NEW x \in Events, NEW y \in Consumers
                PROVE  /\ consumer'[x][y] = "none" => effects[x][y] = 0
                       /\ consumer'[x][y] = "processed" => effects[x][y] >= 1
                       /\ y \notin AllowedConsumers[TypeOf[x]] =>
                             consumer'[x][y] \in {"none", "failed"}
                       /\ status[x] = "dispatched" =>
                             \A i \in 1..Len(Handlers(x)) :
                                Handlers(x)[i] = y => consumer'[x][y] \in {"started", "processed"}
    BY <1>1 DEF RowsOfConsumers
  <2>1. CASE x = e /\ y = c
    BY <1>3, <1>4, <2>1
  <2>2. CASE x # e \/ y # c
    BY <1>4, <2>2 DEF AloneInv, RowsOfConsumers
  <2>. QED  BY <2>1, <2>2
<1>9. CrashesPay(r)'
  <2>1. ASSUME NEW x \in Events, NEW y \in Consumers
        PROVE  /\ <<x, y>> \in Lost(r)' => <<x, y>> \in Lost(r)
               /\ Calls(r, x, y)' <= Calls(r, x, y)
               /\ Calls(r, x, y)' \in Nat /\ Calls(r, x, y) \in Nat
    <3>1. effects[x][y] \in Nat /\ effects'[x][y] = effects[x][y]
      BY <1>1, RelayAssumption DEF AloneInv, Base, TypeOK
    <3>2. CASE x = e /\ y = c
      BY <1>0, <1>1, <1>4, <3>1, <3>2 DEF Lost, Calls
    <3>3. CASE x # e \/ y # c
      <4>1. ~IsAt(r, x, y)
        BY <1>0, <3>3 DEF IsAt
      <4>. QED  BY <1>4, <3>1, <3>3, <4>1 DEF Lost, Calls
    <3>. QED  BY <3>2, <3>3
  <2>2. Lost(r)' \subseteq Lost(r)
    BY <2>1 DEF Lost
  <2>3. Again(r)' \subseteq Again(r)
    <3>1. ASSUME NEW x \in Events, NEW y \in Consumers, NEW k \in 2..EffectCap,
                 Calls(r, x, y)' >= k
          PROVE  Calls(r, x, y) >= k
      <4>1. Calls(r, x, y)' <= Calls(r, x, y)
        BY <2>1
      <4>3. EffectCap \in Nat
        BY RelayAssumption
      <4>4. k \in Nat
        BY <4>3
      <4>2. Calls(r, x, y)' \in Nat /\ Calls(r, x, y) \in Nat
        BY <2>1
      <4>. QED  BY <3>1, <4>1, <4>2, <4>4
    <3>. QED  BY <3>1 DEF Again
  <2>4. Unrecorded' \subseteq Unrecorded
    BY <1>1, RecordsNotMissing DEF Alone
  <2>5. crashes \in Nat /\ CrashesPay(r)
    BY DEF AloneInv, Base, TypeOK
  <2>. QED  BY <1>1, <2>2, <2>3, <2>4, <2>5, NothingToPay
<1>. QED  BY <1>6, <1>7, <1>8, <1>9 DEF AloneInv

\* A relay that has failed at a consumer says so in its row.
LEMMA AloneFails ==
    ASSUME NEW r \in Relays, Alone(r), AloneInv(r), Base', RecordFailed(r)
    PROVE  AloneInv(r)'
<1>1. /\ pc[r] \in Failing /\ pc[r] \in Working
      /\ UNCHANGED <<status, attempts, deadLetter, active, batch, event, index, number,
                     effects, crashes>>
  BY DEF RecordFailed, outbox, job, Failing, Working
<1>2. index[r] # 0
  BY <1>1 DEF AloneInv, RowsAtHand
<1>3. PICK e \in Events, c \in Consumers : IsAt(r, e, c)
  BY <1>1, <1>2, InHand DEF IsAt
<1>4. /\ consumer' = [consumer EXCEPT ![e][c] = "failed"] /\ pc'[r] \in {"retrying", "burying"}
      /\ effects[e][c] \in Nat
  <2>1. index[r] > 0
    BY <1>2 DEF AloneInv, Base, TypeOK
  <2>. QED  BY <1>3, <2>1, RelayAssumption DEF RecordFailed, IsAt, AloneInv, Base, TypeOK
<1>5. /\ consumer'[e][c] = "failed"
      /\ \A x \in Events, y \in Consumers :
            x # e \/ y # c => consumer'[x][y] = consumer[x][y]
  BY <1>4 DEF AloneInv, Base, TypeOK
<1>6. status[e] = "locked" /\ (effects[e][c] >= 1 => consumer[e][c] = "failed")
  BY <1>1, <1>3 DEF AloneInv, RowsInHand, RowsAtHand, IsAt, Failing
<1>7. RowsInHand(r)' /\ AttemptsLeft(r)'
  BY <1>1, <1>4, GoesOn DEF Working, AtConsumer, Failing
<1>8. RowsOfConsumers'
  <2>. SUFFICES ASSUME NEW x \in Events, NEW y \in Consumers
                PROVE  /\ consumer'[x][y] = "none" => effects[x][y] = 0
                       /\ consumer'[x][y] = "processed" => effects[x][y] >= 1
                       /\ y \notin AllowedConsumers[TypeOf[x]] =>
                             consumer'[x][y] \in {"none", "failed"}
                       /\ status[x] = "dispatched" =>
                             \A i \in 1..Len(Handlers(x)) :
                                Handlers(x)[i] = y => consumer'[x][y] \in {"started", "processed"}
    BY <1>1 DEF RowsOfConsumers
  <2>1. CASE x = e /\ y = c
    BY <1>5, <1>6, <2>1
  <2>2. CASE x # e \/ y # c
    BY <1>5, <2>2 DEF AloneInv, RowsOfConsumers
  <2>. QED  BY <2>1, <2>2
<1>9. RowsAtHand(r)'
  BY <1>4, NothingAtHand DEF AtConsumer, Failing
<1>10. CrashesPay(r)'
  <2>1. <<e, c>> \notin Lost(r)'
    BY <1>5 DEF Lost
  <2>2. Calls(r, e, c)' = Calls(r, e, c)
    BY <1>1, <1>4, <1>5, <1>6 DEF Calls, Failing
  <2>3. \A x \in Events, y \in Consumers : ~IsAt(r, x, y) =>
            consumer'[x][y] = consumer[x][y] /\ effects'[x][y] = effects[x][y]
    BY <1>1, <1>3, <1>5 DEF IsAt
  <2>. QED  BY <1>1, <1>3, <2>1, <2>2, <2>3, OnePair DEF Failing
<1>. QED  BY <1>7, <1>8, <1>9, <1>10 DEF AloneInv

\* A relay that closes its event or gives it back, without a record to write.
LEMMA LetsGo ==
    ASSUME NEW r \in Relays, AloneInv(r),
           pc[r] \in Working \ {"counted", "recording_dead_letter"}, EndEvent(r),
           UNCHANGED <<attempts, deadLetter, active, batch, crashes>>,
           NEW s \in {"dispatched", "failed_retryable"},
           status' = [status EXCEPT ![event[r]] = s],
           s = "failed_retryable" => attempts[event[r]] < MaxRetryAttempts
    PROVE  /\ RowsInHand(r)' /\ AttemptsLeft(r)' /\ RowsAtHand(r)'
           /\ status[event[r]] = "locked"
           /\ \A x \in Events : status'[x] = IF x = event[r] THEN s ELSE status[x]
<1>1. /\ pc'[r] = "next" /\ pc[r] \in Working /\ pc[r] # "planned" /\ pc[r] # "idle"
      /\ event[r] \in Events
  BY InHand DEF EndEvent, Working, AtConsumer, AloneInv, Base, TypeOK
<1>2. /\ status[event[r]] = "locked" /\ event[r] \notin batch[r] /\ batch[r] \subseteq Events
      /\ \A x \in batch[r] : status[x] = "locked"
  BY <1>1 DEF AloneInv, RowsInHand, Base, TypeOK
<1>3. \A x \in Events : status'[x] = IF x = event[r] THEN s ELSE status[x]
  BY DEF AloneInv, Base, TypeOK
<1>4. RowsInHand(r)'
  BY <1>1, <1>2, <1>3 DEF AloneInv, RowsInHand, Working, AtConsumer
<1>5. AttemptsLeft(r)'
  BY <1>1, <1>3 DEF AloneInv, AttemptsLeft, Working, AtConsumer
<1>6. RowsAtHand(r)'
  BY <1>1, NothingAtHand DEF AtConsumer, Failing
<1>. QED  BY <1>2, <1>3, <1>4, <1>5, <1>6

\* A contract in force is in force for the relay's event.
LEMMA InForce ==
    ASSUME NEW r \in Relays, AloneInv(r), pc[r] \in Working
    PROVE  ContractActive(event[r])
<1>1. TypeOf[event[r]] \in EventTypes
  BY InHand, RelayAssumption
<1>. QED  BY <1>1 DEF AloneInv, RowsInHand, ContractActive

\* Dispatched, after all its handlers.
LEMMA AloneDispatches ==
    ASSUME NEW r \in Relays, Alone(r), AloneInv(r), Base', MarkDispatched(r)
    PROVE  AloneInv(r)'
<1>1. pc[r] = "finishing" /\ pc[r] \in Working
  BY DEF MarkDispatched, Working
<1>2. /\ status' = [status EXCEPT ![event[r]] = "dispatched"] /\ EndEvent(r)
      /\ UNCHANGED <<attempts, consumer, deadLetter, active, batch, effects, crashes>>
  BY <1>1, InForce DEF MarkDispatched
<1>3. /\ RowsInHand(r)' /\ AttemptsLeft(r)' /\ RowsAtHand(r)'
      /\ \A x \in Events : status'[x] = IF x = event[r] THEN "dispatched" ELSE status[x]
  BY <1>1, <1>2, LetsGo
<1>4. \A i \in 1..Len(Handlers(event[r])) :
         consumer[event[r]][Handlers(event[r])[i]] \in {"started", "processed"}
  BY <1>1 DEF AloneInv, RowsAtHand
<1>5. RowsOfConsumers'
  BY <1>2, <1>3, <1>4 DEF AloneInv, RowsOfConsumers
<1>6. CrashesPay(r)'
  <2>1. Lost(r)' \subseteq Lost(r) /\ Again(r)' \subseteq Again(r)
    BY <1>1, <1>2, QuietCalls DEF AloneInv, Failing
  <2>2. Unrecorded' \subseteq Unrecorded
    BY <1>1, <1>2, <1>3, RecordsNotMissing DEF Alone
  <2>3. crashes \in Nat /\ CrashesPay(r) /\ crashes' = crashes
    BY <1>2 DEF AloneInv, Base, TypeOK
  <2>. QED  BY <2>1, <2>2, <2>3, NothingToPay
<1>. QED  BY <1>3, <1>5, <1>6 DEF AloneInv

\* Another try, if one is left; the dead letter otherwise.
LEMMA AloneRetries ==
    ASSUME NEW r \in Relays, Alone(r), AloneInv(r), Base', MarkRetryable(r)
    PROVE  AloneInv(r)'
<1>1. /\ pc[r] = "retrying" /\ pc[r] \in Working
      /\ UNCHANGED <<attempts, consumer, deadLetter, active, effects, crashes>>
  BY DEF MarkRetryable, Working
<1>2. CASE /\ ~ShouldRetry(number[r]) /\ pc' = [pc EXCEPT ![r] = "burying"]
           /\ UNCHANGED <<status, batch, job>>
  <2>1. pc'[r] = "burying" /\ UNCHANGED <<event, number>>
    BY <1>2 DEF AloneInv, Base, TypeOK, job
  <2>2. RowsInHand(r)' /\ AttemptsLeft(r)'
    BY <1>1, <1>2, <2>1, GoesOn DEF Working, AtConsumer
  <2>3. RowsAtHand(r)'
    BY <2>1, NothingAtHand DEF AtConsumer, Failing
  <2>4. RowsOfConsumers' /\ CrashesPay(r)'
    BY <1>1, <1>2, QuietStep DEF Failing
  <2>. QED  BY <2>2, <2>3, <2>4 DEF AloneInv
<1>3. CASE /\ ShouldRetry(number[r]) /\ EndEvent(r) /\ UNCHANGED batch
           /\ status' = [status EXCEPT ![event[r]] = "failed_retryable"]
  <2>1. attempts[event[r]] < MaxRetryAttempts
    BY <1>1, <1>3 DEF ShouldRetry, AloneInv, RowsInHand
  <2>2. /\ RowsInHand(r)' /\ AttemptsLeft(r)' /\ RowsAtHand(r)'
        /\ \A x \in Events : status'[x] = IF x = event[r] THEN "failed_retryable" ELSE status[x]
    BY <1>1, <1>3, <2>1, LetsGo
  <2>3. RowsOfConsumers' /\ CrashesPay(r)'
    BY <1>1, <2>2, QuietStep DEF Failing
  <2>. QED  BY <2>2, <2>3 DEF AloneInv
<1>. QED  BY <1>1, <1>2, <1>3, InForce DEF MarkRetryable

\* The row first: its record is then in the relay's hand.
LEMMA AloneBuries ==
    ASSUME NEW r \in Relays, Alone(r), AloneInv(r), Base', MarkDeadLettered(r)
    PROVE  AloneInv(r)'
<1>1. pc[r] = "burying" /\ pc[r] \in Working
  BY DEF MarkDeadLettered, Working
<1>2. /\ status' = [status EXCEPT ![event[r]] = "dead_lettered"]
      /\ pc' = [pc EXCEPT ![r] = "recording_dead_letter"]
      /\ UNCHANGED <<attempts, consumer, deadLetter, active, batch, event, index, number,
                     effects, crashes>>
  BY <1>1, InForce DEF MarkDeadLettered, job
<1>3. /\ pc'[r] = "recording_dead_letter"
      /\ \A x \in Events : status'[x] = IF x = event[r] THEN "dead_lettered" ELSE status[x]
  BY <1>2 DEF AloneInv, Base, TypeOK
<1>4. /\ event[r] \in Events /\ event[r] \notin batch[r] /\ batch[r] \subseteq Events
      /\ \A x \in batch[r] : status[x] = "locked"
      /\ deadLetter[event[r]] = 0
  BY <1>1, InHand DEF AloneInv, RowsInHand, Base, TypeOK
<1>5. RowsInHand(r)'
  BY <1>1, <1>2, <1>3, <1>4 DEF AloneInv, RowsInHand, Working, AtConsumer
<1>6. AttemptsLeft(r)'
  BY <1>1, <1>2, <1>3 DEF AloneInv, AttemptsLeft, Working, AtConsumer
<1>7. RowsAtHand(r)'
  BY <1>3, NothingAtHand DEF AtConsumer, Failing
<1>8. RowsOfConsumers'
  BY <1>2, <1>3, RowsOfConsumersKept DEF AloneInv
<1>9. CrashesPay(r)'
  <2>1. Lost(r)' \subseteq Lost(r) /\ Again(r)' \subseteq Again(r)
    BY <1>1, <1>2, QuietCalls DEF AloneInv, Failing
  <2>2. Unrecorded' \subseteq Unrecorded
    BY <1>1, <1>2, <1>3 DEF Unrecorded, Alone
  <2>3. crashes \in Nat /\ CrashesPay(r) /\ crashes' = crashes
    BY <1>2 DEF AloneInv, Base, TypeOK
  <2>. QED  BY <2>1, <2>2, <2>3, NothingToPay
<1>. QED  BY <1>5, <1>6, <1>7, <1>8, <1>9 DEF AloneInv

\* Then the record, the first of its event.
LEMMA AloneRecordsDeadLetter ==
    ASSUME NEW r \in Relays, Alone(r), AloneInv(r), Base', RecordDeadLetter(r)
    PROVE  AloneInv(r)'
<1>1. pc[r] = "recording_dead_letter" /\ pc[r] \in Working
  BY DEF RecordDeadLetter, Working
<1>2. /\ event[r] \in Events /\ deadLetter[event[r]] = 0 /\ number[r] # 0
      /\ status[event[r]] = "dead_lettered"
      /\ batch[r] \subseteq Events /\ \A x \in batch[r] : status[x] = "locked"
  <2>1. event[r] \in Events /\ batch[r] \subseteq Events
    BY <1>1, InHand DEF AloneInv, Base, TypeOK
  <2>. QED  BY <1>1, <2>1 DEF AloneInv, RowsInHand
<1>3. /\ deadLetter' = [deadLetter EXCEPT ![event[r]] = number[r]] /\ EndEvent(r)
      /\ UNCHANGED <<status, attempts, consumer, active, batch, effects, crashes>>
  BY <1>2 DEF RecordDeadLetter, outbox
<1>4. /\ pc'[r] = "next"
      /\ \A x \in Events : deadLetter'[x] = IF x = event[r] THEN number[r] ELSE deadLetter[x]
  BY <1>3 DEF EndEvent, AloneInv, Base, TypeOK
<1>5. RowsInHand(r)'
  BY <1>1, <1>2, <1>3, <1>4 DEF AloneInv, RowsInHand, Working, AtConsumer
<1>6. AttemptsLeft(r)'
  BY <1>1, <1>2, <1>3, <1>4 DEF AloneInv, AttemptsLeft, Working, AtConsumer
<1>7. RowsAtHand(r)'
  BY <1>4, NothingAtHand DEF AtConsumer, Failing
<1>8. RowsOfConsumers'
  BY <1>3, RowsOfConsumersKept DEF AloneInv
<1>9. CrashesPay(r)'
  <2>1. Lost(r)' \subseteq Lost(r) /\ Again(r)' \subseteq Again(r)
    BY <1>1, <1>3, QuietCalls DEF AloneInv, Failing
  <2>2. Unrecorded' \subseteq Unrecorded
    BY <1>1, <1>2, <1>3, <1>4 DEF Unrecorded, Alone
  <2>3. crashes \in Nat /\ CrashesPay(r) /\ crashes' = crashes
    BY <1>3 DEF AloneInv, Base, TypeOK
  <2>. QED  BY <2>1, <2>2, <2>3, NothingToPay
<1>. QED  BY <1>5, <1>6, <1>7, <1>8, <1>9 DEF AloneInv

\* A crash costs what the relay was at, and nothing else.
LEMMA AloneCrashes ==
    ASSUME NEW r \in Relays, Alone(r), AloneInv(r), Base', Crash(r)
    PROVE  AloneInv(r)'
<1>1. /\ crashes' = crashes + 1 /\ pc'[r] = "idle" /\ batch'[r] = {}
      /\ UNCHANGED <<status, attempts, consumer, deadLetter, active, effects>>
  BY DEF Crash, Abort, dbVars, outbox, AloneInv, Base, TypeOK
<1>2. crashes \in Nat /\ MaxRetryAttempts \in Nat
  BY RelayAssumption DEF AloneInv, Base, TypeOK
<1>3. RowsInHand(r)'
  BY <1>1 DEF AloneInv, RowsInHand, Working, AtConsumer
<1>4. AttemptsLeft(r)'
  <2>. SUFFICES ASSUME NEW x \in Events
                PROVE  /\ attempts[x] <= MaxRetryAttempts + (crashes + 1)
                       /\ status[x] \in {"absent", "pending", "failed_retryable"} =>
                             attempts[x] < MaxRetryAttempts
                       /\ attempts[x] < MaxRetryAttempts + (crashes + 1)
    BY <1>1 DEF AttemptsLeft
  <2>1. attempts[x] \in Nat
    BY RelayAssumption DEF AloneInv, Base, TypeOK
  <2>2. /\ attempts[x] <= MaxRetryAttempts + crashes
        /\ status[x] \in {"absent", "pending", "failed_retryable"} =>
              attempts[x] < MaxRetryAttempts
    BY DEF AloneInv, AttemptsLeft
  <2>. QED  BY <1>2, <2>1, <2>2
<1>5. RowsOfConsumers'
  BY <1>1, RowsOfConsumersKept DEF AloneInv
<1>6. RowsAtHand(r)'
  BY <1>1, NothingAtHand DEF AtConsumer, Failing
<1>7. ASSUME NEW x \in Events, NEW y \in Consumers, ~(pc[r] = "recording" /\ IsAt(r, x, y))
      PROVE  Calls(r, x, y)' = Calls(r, x, y)
  BY <1>1, <1>7 DEF Calls
<1>8. ASSUME pc[r] # "recording"
      PROVE  Again(r)' \subseteq Again(r)
  BY <1>7, <1>8 DEF Again
<1>9. ASSUME pc[r] \notin Failing \cup {"handling"}
      PROVE  Lost(r)' \subseteq Lost(r)
  BY <1>1, <1>9 DEF Lost
<1>10. ASSUME pc[r] # "recording_dead_letter"
       PROVE  Unrecorded' \subseteq Unrecorded
  BY <1>1, <1>10 DEF Unrecorded, Alone
<1>11. CrashesPay(r)
  BY DEF AloneInv
<1>12. CASE pc[r] \in Failing \cup {"handling"}
  <2>1. pc[r] \in Working /\ index[r] # 0
    BY <1>12, InHand DEF Failing, Working, AtConsumer, AloneInv, RowsAtHand
  <2>2. PICK e \in Events, c \in Consumers : IsAt(r, e, c)
    BY <2>1, InHand DEF IsAt
  <2>3. Lost(r)' \subseteq Lost(r) \cup {<<e, c>>}
    <3>1. \A x, y : IsAt(r, x, y) => x = e /\ y = c
      BY <2>2 DEF IsAt
    <3>. SUFFICES ASSUME NEW x \in Events, NEW y \in Consumers, <<x, y>> \in Lost(r)',
                         ~(x = e /\ y = c)
                  PROVE  <<x, y>> \in Lost(r)
      BY DEF Lost
    <3>. QED  BY <1>1, <3>1 DEF Lost
  <2>4. Again(r)' \subseteq Again(r) /\ Unrecorded' \subseteq Unrecorded
    BY <1>8, <1>10, <1>12 DEF Failing
  <2>5. CrashesPay(r)'
    BY <1>1, <1>2, <1>11, <2>3, <2>4, CrashPaysOne
  <2>. QED  BY <1>3, <1>4, <1>5, <1>6, <2>5 DEF AloneInv
<1>13. CASE pc[r] = "recording"
  <2>1. PICK e \in Events, c \in Consumers : IsAt(r, e, c)
    BY <1>13, InHand DEF IsAt, Working, AtConsumer
  <2>2. effects[e][c] \in Nat /\ EffectCap \in Nat
    BY RelayAssumption DEF AloneInv, Base, TypeOK
  <2>3. Again(r)' \subseteq Again(r) \cup {<<e, c, effects[e][c] + 1>>}
    <3>. SUFFICES ASSUME NEW x \in Events, NEW y \in Consumers, NEW k \in 2..EffectCap,
                         Calls(r, x, y)' >= k, ~(x = e /\ y = c /\ k = effects[e][c] + 1)
                  PROVE  Calls(r, x, y) >= k
      BY DEF Again
    <3>1. k \in Nat
      BY <2>2
    <3>2. CASE x = e /\ y = c
      <4>1. Calls(r, e, c) = effects[e][c]
        BY <1>13, <2>1, <2>2 DEF Calls
      <4>2. effects[e][c] + 1 >= k
        BY <1>1, <2>2, <3>1, <3>2 DEF Calls
      <4>. QED  BY <2>2, <3>1, <3>2, <4>1, <4>2
    <3>3. CASE ~(x = e /\ y = c)
      BY <1>7, <2>1, <3>3 DEF IsAt
    <3>. QED  BY <3>2, <3>3
  <2>4. Lost(r)' \subseteq Lost(r) /\ Unrecorded' \subseteq Unrecorded
    BY <1>9, <1>10, <1>13 DEF Failing
  <2>5. CrashesPay(r)'
    BY <1>1, <1>2, <1>11, <2>3, <2>4, CrashPaysOne
  <2>. QED  BY <1>3, <1>4, <1>5, <1>6, <2>5 DEF AloneInv
<1>14. CASE pc[r] \notin Failing \cup {"handling", "recording"}
  <2>1. Lost(r)' \subseteq Lost(r) /\ Again(r)' \subseteq Again(r)
    BY <1>8, <1>9, <1>14
  <2>2. Unrecorded' \subseteq Unrecorded \cup {event[r]}
    BY <1>1 DEF Unrecorded, Alone
  <2>3. CrashesPay(r)'
    BY <1>1, <1>2, <1>11, <2>1, <2>2, CrashPaysOne
  <2>. QED  BY <1>3, <1>4, <1>5, <1>6, <2>3 DEF AloneInv
<1>. QED  BY <1>12, <1>13, <1>14

\* Every step of a relay alone, of its producers and of time.
LEMMA AloneStep ==
    ASSUME NEW r \in Relays, Alone(r)
    PROVE  AloneInv(r) /\ [Next]_vars => AloneInv(r)'
<1>. SUFFICES ASSUME AloneInv(r), [Next]_vars PROVE AloneInv(r)'
  OBVIOUS
<1>1. Base'
  BY BaseStep DEF AloneInv
<1>2. CASE \E e \in Events : WriteOutboxEvent(e) \/ BackoffElapses(e) \/ LockExpires(e)
  BY <1>1, <1>2, AloneOutside
<1>3. CASE \E t \in EventTypes : ToggleContract(t)
  <2>1. toggles < MaxToggles /\ toggles \in Nat /\ MaxToggles = 0
    BY <1>3 DEF ToggleContract, Alone, AloneInv, Base, TypeOK
  <2>. QED  BY <2>1
<1>4. CASE RelayStep(r)
  <2>1. CASE PlanBatch(r)
    BY <1>1, <2>1, AlonePlans
  <2>2. CASE LockBatch(r)
    BY <1>1, <2>2, AloneLocks
  <2>3. CASE NextEvent(r) \/ FinishBatch(r)
    BY <1>1, <2>3, AloneTakes
  <2>4. CASE CreateAttempt(r)
    BY <1>1, <2>4, AloneAttempts
  <2>5. CASE CheckConsumer(r)
    BY <1>1, <2>5, AloneChecks
  <2>6. CASE RecordStarted(r)
    BY <1>1, <2>6, AloneStarts
  <2>7. CASE RunHandler(r)
    BY <1>1, <2>7, AloneHandles
  <2>8. CASE RecordProcessed(r)
    BY <1>1, <2>8, AloneProcesses
  <2>9. CASE MarkDispatched(r)
    BY <1>1, <2>9, AloneDispatches
  <2>10. CASE RecordFailed(r)
    BY <1>1, <2>10, AloneFails
  <2>11. CASE MarkRetryable(r)
    BY <1>1, <2>11, AloneRetries
  <2>12. CASE MarkDeadLettered(r)
    BY <1>1, <2>12, AloneBuries
  <2>13. CASE RecordDeadLetter(r)
    BY <1>1, <2>13, AloneRecordsDeadLetter
  <2>. QED  BY <1>4, <2>1, <2>2, <2>3, <2>4, <2>5, <2>6, <2>7, <2>8, <2>9, <2>10, <2>11,
               <2>12, <2>13 DEF RelayStep
<1>5. CASE Crash(r)
  BY <1>1, <1>5, AloneCrashes
<1>6. CASE UNCHANGED vars
  <2>1. RowsInHand(r)' /\ AttemptsLeft(r)'
    BY <1>6 DEF vars, AloneInv, RowsInHand, AttemptsLeft
  <2>2. RowsOfConsumers' /\ RowsAtHand(r)'
    BY <1>6 DEF vars, AloneInv, RowsOfConsumers, RowsAtHand, ActiveConsumer
  <2>3. CrashesPay(r)'
    <3>1. /\ Lost(r)' \subseteq Lost(r) /\ Again(r)' \subseteq Again(r)
          /\ Unrecorded' \subseteq Unrecorded
      BY <1>6, QuietCalls DEF vars, AloneInv, Unrecorded
    <3>2. crashes \in Nat /\ CrashesPay(r) /\ crashes' = crashes
      BY <1>6 DEF vars, AloneInv, Base, TypeOK
    <3>. QED  BY <3>1, <3>2, NothingToPay
  <2>. QED  BY <1>1, <2>1, <2>2, <2>3 DEF AloneInv
<1>. QED  BY <1>2, <1>3, <1>4, <1>5, <1>6 DEF Next, Alone

\* What is charged is at least what shows.
LEMMA AloneKeeps ==
    ASSUME NEW r \in Relays, Alone(r), AloneInv(r)
    PROVE  OnlyCrashesCost
<1>1. Unserved \subseteq Lost(r)
  <2>. SUFFICES ASSUME NEW e \in Events, NEW c \in Consumers, ~Served(e, c)
                PROVE  <<e, c>> \in Lost(r)
    BY DEF Unserved
  <2>1. /\ status[e] = "dispatched" /\ ~(effects[e][c] >= 1)
        /\ \E i \in 1..Len(Handlers(e)) : Handlers(e)[i] = c
    BY DEF Served
  <2>2. consumer[e][c] \in {"started", "processed"}
    BY <2>1 DEF AloneInv, RowsOfConsumers
  <2>3. consumer[e][c] = "started"
    BY <2>1, <2>2 DEF AloneInv, RowsOfConsumers
  <2>4. effects[e][c] = 0
    BY <2>1, RelayAssumption DEF AloneInv, Base, TypeOK
  <2>5. ~(pc[r] \in Failing \cup {"handling"} /\ IsAt(r, e, c))
    BY <2>1 DEF AloneInv, RowsInHand, IsAt, Failing, Working, AtConsumer
  <2>. QED  BY <2>3, <2>4, <2>5 DEF Lost
<1>2. Repeated \subseteq Again(r)
  <2>. SUFFICES ASSUME NEW e \in Events, NEW c \in Consumers, NEW k \in 2..EffectCap,
                       effects[e][c] >= k
                PROVE  Calls(r, e, c) >= k
    BY DEF Repeated, Again
  <2>1. effects[e][c] \in Nat /\ EffectCap \in Nat
    BY RelayAssumption DEF AloneInv, Base, TypeOK
  <2>2. k \in Nat
    BY <2>1
  <2>. QED  BY <2>1, <2>2 DEF Calls
<1>3. /\ Cardinality(Lost(r)) \in Nat /\ Cardinality(Again(r)) \in Nat
      /\ Cardinality(Unrecorded) \in Nat /\ crashes \in Nat
      /\ Cardinality(Lost(r)) + Cardinality(Again(r)) + Cardinality(Unrecorded) <= crashes
  BY FS_CardinalityType DEF AloneInv, CrashesPay, Base, TypeOK
<1>4. /\ Cardinality(Unserved) \in Nat /\ Cardinality(Unserved) <= Cardinality(Lost(r))
      /\ Cardinality(Repeated) \in Nat /\ Cardinality(Repeated) <= Cardinality(Again(r))
  BY <1>1, <1>2, FS_Subset, FS_CardinalityType DEF AloneInv, CrashesPay
<1>5. CrashesExplainLosses
  BY <1>3, <1>4 DEF CrashesExplainLosses
<1>6. AttemptsBounded
  BY DEF AttemptsBounded, AloneInv, AttemptsLeft
<1>. QED  BY <1>5, <1>6 DEF OnlyCrashesCost

\* A relay that runs alone, under contracts in force and handlers whose errors
\* it classifies, serves every consumer of what it dispatches once, writes the
\* record of every dead letter and makes no attempt too many, but for one such
\* loss for each time it died (dispatch_pending_events).
THEOREM OnlyCrashesCostAlone ==
    ASSUME NEW r \in Relays, Alone(r)
    PROVE  Spec => []OnlyCrashesCost
<1>1. Init => AloneInv(r)
  BY AloneInit
<1>2. AloneInv(r) /\ [Next]_vars => AloneInv(r)'
  BY AloneStep
<1>3. AloneInv(r) => OnlyCrashesCost
  BY AloneKeeps
<1>. QED  BY <1>1, <1>2, <1>3, PTL DEF Spec
-----------------------------------------------------------------------------
(* A relay alone implements the delivery that the outbox promises: what a   *)
(* step does to stages, served consumers and crashes, it does there.        *)

\* Seen from outside, all that is not closed and was written waits.
LEMMA StageOf ==
    ASSUME NEW s \in EventStatus
    PROVE  /\ Stage(s) = "unknown" <=> s = "absent"
           /\ Stage(s) = "delivered" <=> s = "dispatched"
           /\ Stage(s) = "abandoned" <=> s = "dead_lettered"
           /\ Stage(s) = "waiting" <=> s \in {"pending", "locked", "failed_retryable"}
           /\ Stage(s) \in {"unknown", "delivered", "abandoned", "waiting"}
<1>1. s = "absent" => Stage(s) = "unknown"
  BY DEF Stage
<1>2. s = "dispatched" => Stage(s) = "delivered"
  BY DEF Stage
<1>3. s = "dead_lettered" => Stage(s) = "abandoned"
  BY DEF Stage
<1>4. s \in {"pending", "locked", "failed_retryable"} => Stage(s) = "waiting"
  BY DEF Stage
<1>. QED  BY <1>1, <1>2, <1>3, <1>4 DEF EventStatus, Settled

Stages == [e \in Events |-> Stage(status[e])]
ServedTo == [e \in Events |-> {c \in Consumers : effects[e][c] > 0}]
WantedBy == [e \in Events |-> {Handlers(e)[i] : i \in 1..Len(Handlers(e))}]

\* A step that a reader of stages, served consumers and crashes does not see.
LEMMA Unseen ==
    ASSUME UNCHANGED <<effects, crashes>>, Stages' = Stages
    PROVE  UNCHANGED OutboxDelivery!deliveryVars
BY DEF Stages, OutboxDelivery!deliveryVars

\* Rows whose stage does not change.
LEMMA SameStages ==
    ASSUME Base, Base',
           \A e \in Events :
              \/ status'[e] = status[e]
              \/ /\ status[e] \in {"pending", "locked", "failed_retryable"}
                 /\ status'[e] \in {"pending", "locked", "failed_retryable"}
    PROVE  Stages' = Stages
<1>1. ASSUME NEW e \in Events PROVE Stage(status'[e]) = Stage(status[e])
  <2>1. status[e] \in EventStatus /\ status'[e] \in EventStatus
    BY DEF Base, TypeOK
  <2>. QED  BY <2>1, StageOf
<1>2. Stages' = [e \in Events |-> Stage(status'[e])]
  BY DEF Stages, Stage
<1>. QED  BY <1>1, <1>2 DEF Stages

\* One row that moves to another stage.
LEMMA OneStage ==
    ASSUME Base, Base', NEW e \in Events, NEW s \in EventStatus,
           status' = [status EXCEPT ![e] = s]
    PROVE  Stages' = [Stages EXCEPT ![e] = Stage(s)]
<1>1. \A x \in Events : status'[x] = IF x = e THEN s ELSE status[x]
  BY DEF Base, TypeOK
<1>2. Stages' = [x \in Events |-> Stage(status'[x])]
  BY DEF Stages, Stage
<1>3. \A x \in Events : Stage(status'[x]) = IF x = e THEN Stage(s) ELSE Stages[x]
  BY <1>1 DEF Stages
<1>4. [Stages EXCEPT ![e] = Stage(s)] = [x \in Events |-> IF x = e THEN Stage(s) ELSE Stages[x]]
  BY DEF Stages
<1>. QED  BY <1>2, <1>3, <1>4

\* Whom a dispatch leaves unserved, a crash has paid for.
LEMMA UnservedPaid ==
    ASSUME NEW r \in Relays, AloneInv(r), pc[r] = "finishing"
    PROVE  Cardinality(WantedBy[event[r]] \ ServedTo[event[r]]) <= crashes
<1>. DEFINE missing == WantedBy[event[r]] \ ServedTo[event[r]]
            who == [t \in Lost(r) |-> t[2]]
            image == {who[t] : t \in Lost(r)}
<1>1. event[r] \in Events /\ pc[r] \in Working
  BY InHand DEF Working
<1>2. ASSUME NEW c \in missing PROVE <<event[r], c>> \in Lost(r)
  <2>1. /\ c \in WantedBy[event[r]] /\ c \notin ServedTo[event[r]]
    BY <1>2
  <2>2. PICK i \in 1..Len(Handlers(event[r])) : c = Handlers(event[r])[i]
    BY <1>1, <2>1 DEF WantedBy
  <2>3. c \in Consumers
    BY <1>1, <2>2, HandlersType
  <2>4. effects[event[r]][c] = 0
    <3>1. effects[event[r]][c] \in Nat
      BY <1>1, <2>3, RelayAssumption DEF AloneInv, Base, TypeOK
    <3>2. ~(effects[event[r]][c] > 0)
      BY <1>1, <2>1, <2>3 DEF ServedTo
    <3>. QED  BY <3>1, <3>2
  <2>5. consumer[event[r]][c] \in {"started", "processed"}
    BY <2>2 DEF AloneInv, RowsAtHand, Working, AtConsumer
  <2>6. consumer[event[r]][c] = "started"
    BY <1>1, <2>3, <2>4, <2>5 DEF AloneInv, RowsOfConsumers
  <2>. QED  BY <1>1, <2>3, <2>4, <2>6 DEF Lost, Failing
<1>3. missing \subseteq image
  <2>. SUFFICES ASSUME NEW c \in missing PROVE c \in image
    OBVIOUS
  <2>1. <<event[r], c>> \in Lost(r) /\ who[<<event[r], c>>] = c
    BY <1>2
  <2>. QED  BY <2>1
<1>. HIDE DEF missing
<1>4. /\ IsFiniteSet(image) /\ Cardinality(image) <= Cardinality(Lost(r))
  <2>1. IsFiniteSet(Lost(r))
    BY DEF AloneInv, CrashesPay
  <2>2. who \in Surjection(Lost(r), image)
    BY DEF Surjection
  <2>. QED  BY <2>1, <2>2, FS_Surjection
<1>. HIDE DEF image
<1>5. Cardinality(missing) <= Cardinality(image) /\ IsFiniteSet(missing)
  BY <1>3, <1>4, FS_Subset
<1>6. /\ Cardinality(missing) \in Nat /\ Cardinality(image) \in Nat
      /\ Cardinality(Lost(r)) \in Nat /\ Cardinality(Again(r)) \in Nat
      /\ Cardinality(Unrecorded) \in Nat /\ crashes \in Nat
      /\ Cardinality(Lost(r)) + Cardinality(Again(r)) + Cardinality(Unrecorded) <= crashes
  BY <1>4, <1>5, FS_CardinalityType DEF AloneInv, CrashesPay, Base, TypeOK
<1>7. Cardinality(missing) <= crashes
  BY <1>4, <1>5, <1>6
<1>. QED  BY <1>7 DEF missing

\* Every step of a relay alone is one of the delivery, or none.
LEMMA AloneDelivers ==
    ASSUME NEW r \in Relays, Alone(r), AloneInv(r), AloneInv(r)', [Next]_vars
    PROVE  [OutboxDelivery!DeliveryNext]_OutboxDelivery!deliveryVars
<1>. USE DEF OutboxDelivery!deliveryVars
<1>0. /\ Base /\ Base'
      /\ \A s \in {"pending", "locked", "failed_retryable"} : s \in EventStatus
      /\ "dispatched" \in EventStatus /\ "dead_lettered" \in EventStatus
  BY DEF AloneInv, EventStatus, Settled
<1>1. ASSUME NEW e \in Events, WriteOutboxEvent(e)
      PROVE  OutboxDelivery!Accept(e)
  <2>1. /\ status[e] = "absent" /\ status' = [status EXCEPT ![e] = "pending"]
        /\ UNCHANGED <<effects, crashes>>
    BY <1>1 DEF WriteOutboxEvent
  <2>2. Stages' = [Stages EXCEPT ![e] = Stage("pending")]
    BY <1>0, <2>1, OneStage
  <2>3. Stage("pending") = "waiting" /\ Stages[e] = "unknown"
    BY <2>1 DEF Stage, Stages
  <2>. QED  BY <2>1, <2>2, <2>3 DEF OutboxDelivery!Accept, Stages
<1>2. ASSUME NEW e \in Events, BackoffElapses(e) \/ LockExpires(e)
      PROVE  UNCHANGED OutboxDelivery!deliveryVars
  BY <1>2 DEF BackoffElapses, LockExpires
<1>3. ASSUME NEW t \in EventTypes, ToggleContract(t) PROVE FALSE
  <2>1. toggles < MaxToggles /\ toggles \in Nat /\ MaxToggles = 0
    BY <1>3 DEF ToggleContract, Alone, AloneInv, Base, TypeOK
  <2>. QED  BY <2>1
<1>4. CASE \/ PlanBatch(r) \/ NextEvent(r) \/ FinishBatch(r) \/ CreateAttempt(r)
           \/ CheckConsumer(r) \/ RecordStarted(r) \/ RecordProcessed(r)
           \/ RecordFailed(r) \/ RecordDeadLetter(r)
  BY <1>4 DEF PlanBatch, NextEvent, FinishBatch, CreateAttempt, CheckConsumer, RecordStarted,
     RecordProcessed, RecordFailed, RecordDeadLetter, dbVars, outbox
<1>5. CASE LockBatch(r)
  <2>1. \A e \in Events : status'[e] = IF e \in batch[r] THEN "locked" ELSE status[e]
    BY <1>5 DEF LockBatch
  <2>2. \A e \in batch[r] : status[e] \in {"pending", "failed_retryable", "locked"}
    BY DEF AloneInv, RowsInHand
  <2>3. Stages' = Stages
    BY <1>0, <2>1, <2>2, SameStages
  <2>. QED  BY <1>5, <2>3, Unseen DEF LockBatch
<1>6. CASE RunHandler(r)
  <2>1. /\ pc[r] = "handling" /\ pc[r] \in Working /\ index[r] # 0
        /\ UNCHANGED <<status, crashes>>
    BY <1>6, InHand DEF RunHandler, dbVars, outbox, Working, AtConsumer
  <2>2. PICK e \in Events, c \in Consumers : IsAt(r, e, c)
    BY <2>1, InHand DEF IsAt
  <2>3. CASE effects' = [effects EXCEPT ![e][c] = Saturate(@ + 1, EffectCap)]
    <3>1. status[e] = "locked" /\ c \in WantedBy[e]
      <4>1. index[r] \in 1..Len(Handlers(event[r])) /\ event[r] = e /\ c = ActiveConsumer(r)
        BY <2>1, <2>2, InHand DEF IsAt
      <4>2. status[e] = "locked"
        BY <2>1, <4>1 DEF AloneInv, RowsInHand
      <4>. QED  BY <4>1, <4>2 DEF WantedBy, ActiveConsumer
    <3>2. Stages[e] = "waiting" /\ Stages' = Stages
      BY <2>1, <3>1 DEF Stages, Stage
    <3>3. effects[e][c] \in Nat /\ EffectCap \in Nat \ {0}
      BY RelayAssumption DEF AloneInv, Base, TypeOK
    <3>4. Saturate(effects[e][c] + 1, EffectCap) > 0
      BY <3>3 DEF Saturate
    <3>5. /\ effects'[e][c] > 0
          /\ \A x \in Events, y \in Consumers :
                x # e \/ y # c => effects'[x][y] = effects[x][y]
      BY <2>3, <3>4 DEF AloneInv, Base, TypeOK
    <3>6. ServedTo' = [ServedTo EXCEPT ![e] = @ \cup {c}]
      <4>1. \A x \in Events :
                {y \in Consumers : effects'[x][y] > 0} =
                   IF x = e THEN ServedTo[x] \cup {c} ELSE ServedTo[x]
        BY <3>5 DEF ServedTo
      <4>. QED  BY <4>1 DEF ServedTo
    <3>7. OutboxDelivery!Serve(e, c)
      BY <2>1, <3>1, <3>2, <3>6 DEF OutboxDelivery!Serve, Stages, ServedTo, WantedBy
    <3>. QED  BY <3>7 DEF OutboxDelivery!DeliveryNext
  <2>4. CASE effects' = effects
    BY <2>1, <2>4
  <2>. QED  BY <1>6, <2>2, <2>3, <2>4 DEF RunHandler, IsAt
<1>7. CASE MarkDispatched(r)
  <2>1. /\ pc[r] = "finishing" /\ pc[r] \in Working /\ event[r] \in Events
        /\ status' = [status EXCEPT ![event[r]] = "dispatched"]
        /\ UNCHANGED <<effects, crashes>>
    BY <1>7, InHand, InForce DEF MarkDispatched, Working
  <2>2. status[event[r]] = "locked"
    BY <2>1 DEF AloneInv, RowsInHand
  <2>3. Stages' = [Stages EXCEPT ![event[r]] = "delivered"] /\ Stages[event[r]] = "waiting"
    BY <1>0, <2>1, <2>2, OneStage DEF Stage, Stages
  <2>4. Cardinality(WantedBy[event[r]] \ ServedTo[event[r]]) <= crashes
    BY <2>1, UnservedPaid
  <2>5. OutboxDelivery!Deliver(event[r])
    <3>1. \A S : OutboxDelivery!Cardinality(S) = Cardinality(S)
      BY DEF OutboxDelivery!Cardinality, Cardinality
    <3>. QED  BY <2>1, <2>3, <2>4, <3>1 DEF OutboxDelivery!Deliver, Stages, ServedTo, WantedBy
  <2>. QED  BY <2>1, <2>5 DEF OutboxDelivery!DeliveryNext
<1>8. CASE MarkRetryable(r)
  <2>1. /\ pc[r] = "retrying" /\ pc[r] \in Working /\ event[r] \in Events
        /\ UNCHANGED <<effects, crashes>>
    BY <1>8, InHand DEF MarkRetryable, Working
  <2>2. status[event[r]] = "locked"
    BY <2>1 DEF AloneInv, RowsInHand
  <2>3. \/ status' = status
        \/ status' = [status EXCEPT ![event[r]] = "failed_retryable"]
    BY <1>8 DEF MarkRetryable
  <2>4. \A e \in Events : status'[e] = status[e] \/
            (e = event[r] /\ status'[e] = "failed_retryable")
    BY <2>3 DEF AloneInv, Base, TypeOK
  <2>5. Stages' = Stages
    BY <1>0, <2>2, <2>4, SameStages
  <2>. QED  BY <2>1, <2>5, Unseen
<1>9. CASE MarkDeadLettered(r)
  <2>1. /\ pc[r] = "burying" /\ pc[r] \in Working /\ event[r] \in Events
        /\ status' = [status EXCEPT ![event[r]] = "dead_lettered"]
        /\ UNCHANGED <<effects, crashes>>
    BY <1>9, InHand, InForce DEF MarkDeadLettered, Working
  <2>2. status[event[r]] = "locked"
    BY <2>1 DEF AloneInv, RowsInHand
  <2>3. Stages' = [Stages EXCEPT ![event[r]] = "abandoned"] /\ Stages[event[r]] = "waiting"
    BY <1>0, <2>1, <2>2, OneStage DEF Stage, Stages
  <2>4. OutboxDelivery!Abandon(event[r])
    BY <2>1, <2>3 DEF OutboxDelivery!Abandon, Stages
  <2>. QED  BY <2>1, <2>4 DEF OutboxDelivery!DeliveryNext
<1>10. CASE Crash(r)
  BY <1>10 DEF Crash, dbVars, outbox, OutboxDelivery!DeliveryNext, OutboxDelivery!Mishap
<1>11. CASE UNCHANGED vars
  BY <1>11 DEF vars
<1>12. CASE \E e \in Events : WriteOutboxEvent(e)
  BY <1>1, <1>12 DEF OutboxDelivery!DeliveryNext
<1>13. CASE RelayStep(r)
  BY <1>4, <1>5, <1>6, <1>7, <1>8, <1>9, <1>13 DEF RelayStep
<1>. QED  BY <1>2, <1>3, <1>10, <1>11, <1>12, <1>13 DEF Next, Alone

\* A relay that runs alone keeps the promise of the outbox, but for its
\* liveness: events are accepted, served and closed in that order, nobody is
\* served once the event is closed, and a delivered event has left at most one
\* consumer unserved for each time the relay died.
THEOREM DeliversAlone ==
    ASSUME NEW r \in Relays, Alone(r)
    PROVE  Spec => /\ OutboxDelivery!DeliveryInit
                   /\ [][OutboxDelivery!DeliveryNext]_OutboxDelivery!deliveryVars
<1>1. Init => OutboxDelivery!DeliveryInit
  <2>. SUFFICES ASSUME Init PROVE OutboxDelivery!DeliveryInit
    OBVIOUS
  <2>1. Stages = [e \in Events |-> "unknown"]
    BY DEF Init, Stages, Stage
  <2>2. ServedTo = [e \in Events |-> {}]
    BY DEF Init, ServedTo
  <2>. QED  BY <2>1, <2>2 DEF Init, OutboxDelivery!DeliveryInit, Stages, ServedTo
<1>2. Init => AloneInv(r)
  BY AloneInit
<1>3. AloneInv(r) /\ [Next]_vars => AloneInv(r)'
  BY AloneStep
<1>4. AloneInv(r) /\ AloneInv(r)' /\ [Next]_vars =>
          [OutboxDelivery!DeliveryNext]_OutboxDelivery!deliveryVars
  BY AloneDelivers
<1>. QED  BY <1>1, <1>2, <1>3, <1>4, PTL DEF Spec

-----------------------------------------------------------------------------
(* The planner.  What comes before a planned row has been planned with it,  *)
(* if the query's window held it.                                           *)

\* Rows that no relay has in its batch.
Waiting == {e \in Backlog : lock[e] \in {"ready", "fresh", "expired"}}

\* No ready row should have been planned before one of the batch, if the
\* window held every row.
InTurn ==
    Cardinality(Waiting) <= 2 * PlanSize =>
        \A e \in Mine, f \in Backlog :
            lock[f] = "ready" => ~(rank[f] = rank[e] /\ occurred[f] < occurred[e])

PlannerInv ==
    /\ rank \in [Backlog -> Ranks]
    /\ occurred \in [Backlog -> Backlog]
    /\ \A a, b \in Backlog : a # b => occurred[a] # occurred[b]
    /\ lock \in [Backlog -> {"ready", "fresh", "expired", "mine", "dispatched"}]
    /\ InTurn

\* Plannable rows that a row has to wait for.
Earlier(e) == {f \in Plannable : Before(f, e)}

\* Any set of rows is finite.
LEMMA RowsFinite ==
    ASSUME NEW S \in SUBSET Backlog
    PROVE  IsFiniteSet(S) /\ Cardinality(S) \in Nat
<1>1. IsFiniteSet(Backlog)
  BY PlannerAssumption, FS_Interval DEF Backlog
<1>. QED  BY <1>1, FS_Subset, FS_CardinalityType

\* The planner's order is total, and what a row waits for, those behind it
\* wait for as well.
LEMMA EarlierGrows ==
    ASSUME PlannerInv, NEW e \in Plannable, NEW f \in Plannable, e # f
    PROVE  /\ Before(e, f) \/ Before(f, e)
           /\ Before(f, e) => Cardinality(Earlier(f)) < Cardinality(Earlier(e))
<1>1. /\ \A x \in Plannable : x \in Backlog
      /\ \A x \in Backlog : rank[x] \in Nat /\ occurred[x] \in Nat
  <2>1. \A x \in Plannable : x \in Backlog
    BY DEF Plannable, Window, First
  <2>2. ASSUME NEW x \in Backlog PROVE rank[x] \in Nat /\ occurred[x] \in Nat
    <3>1. rank[x] \in Ranks /\ occurred[x] \in Backlog
      BY DEF PlannerInv
    <3>2. \A n \in Backlog : n \in Nat
      BY PlannerAssumption DEF Backlog
    <3>. QED  BY <3>1, <3>2, PlannerAssumption
  <2>. QED  BY <2>1, <2>2
<1>2. occurred[e] # occurred[f]
  BY <1>1 DEF PlannerInv
<1>3. Before(e, f) \/ Before(f, e)
  BY <1>1, <1>2 DEF Before
<1>4. ASSUME Before(f, e) PROVE Cardinality(Earlier(f)) < Cardinality(Earlier(e))
  <2>1. f \in Earlier(e) /\ f \notin Earlier(f)
    BY <1>1, <1>4 DEF Earlier, Before
  <2>2. Earlier(f) \subseteq Earlier(e)
    BY <1>1, <1>4 DEF Earlier, Before
  <2>3. Earlier(e) \in SUBSET Backlog
    BY <1>1 DEF Earlier
  <2>4. /\ IsFiniteSet(Earlier(e)) /\ Cardinality(Earlier(e)) \in Nat
        /\ Cardinality(Earlier(f)) \in Nat
    BY <2>2, <2>3, RowsFinite
  <2>. QED  BY <2>1, <2>2, <2>4, FS_Subset
<1>. QED  BY <1>3, <1>4

\* A plan is no longer than asked.
LEMMA PlanFits ==
    ASSUME PlannerInv
    PROVE  Planned \subseteq Plannable /\ Cardinality(Planned) <= PlanSize
<1>. DEFINE turn == [e \in Planned |-> Cardinality(Earlier(e))]
            N == PlanSize - 1
<1>1. /\ Planned \subseteq Plannable
      /\ \A e \in Planned : Cardinality(Earlier(e)) < PlanSize
  BY DEF Planned, First, Earlier
<1>2. Plannable \subseteq Backlog
  BY DEF Plannable, Window, First
<1>3. PlanSize \in Nat \ {0}
  BY PlannerAssumption
<1>4. turn \in Injection(Planned, 0..N)
  <2>1. ASSUME NEW e \in Planned PROVE Cardinality(Earlier(e)) \in 0..N
    <3>1. Cardinality(Earlier(e)) \in Nat
      BY <1>2, RowsFinite DEF Earlier
    <3>. QED  BY <1>1, <1>3, <3>1
  <2>2. ASSUME NEW e \in Planned, NEW f \in Planned, e # f
        PROVE  Cardinality(Earlier(e)) # Cardinality(Earlier(f))
    <3>1. Cardinality(Earlier(e)) \in Int /\ Cardinality(Earlier(f)) \in Int
      BY <2>1
    <3>2. CASE Before(e, f)
      <4>1. Cardinality(Earlier(e)) < Cardinality(Earlier(f))
        BY <1>1, <2>2, <3>2, EarlierGrows
      <4>. QED  BY <3>1, <4>1
    <3>3. CASE Before(f, e)
      <4>1. Cardinality(Earlier(f)) < Cardinality(Earlier(e))
        BY <1>1, <2>2, <3>3, EarlierGrows
      <4>. QED  BY <3>1, <4>1
    <3>. QED  BY <1>1, <2>2, <3>2, <3>3, EarlierGrows
  <2>. QED  BY <2>1, <2>2 DEF Injection, IsInjective
<1>5. IsFiniteSet(0..N) /\ Cardinality(0..N) = PlanSize
  <2>1. 0 \in Int /\ N \in Int /\ ~(0 > N) /\ N - 0 + 1 = PlanSize
    BY <1>3
  <2>. HIDE DEF N
  <2>. QED  BY <2>1, FS_Interval
<1>6. Cardinality(Planned) <= Cardinality(0..N)
  BY <1>4, <1>5, FS_Injection
<1>. QED  BY <1>1, <1>5, <1>6

\* A row that waits and fits the window is planned before those it precedes.
LEMMA PlannedInTurn ==
    ASSUME PlannerInv, Mine = {}, Cardinality(Waiting) <= 3 * PlanSize,
           NEW e \in Planned, NEW f \in Waiting, lock[f] = "ready", Before(f, e)
    PROVE  f \in Planned
<1>1. f \in Window
  <2>1. {x \in Waiting : x < f} \in SUBSET Waiting /\ Waiting \in SUBSET Backlog
    BY DEF Waiting
  <2>2. {x \in Waiting : x < f} # Waiting
    BY DEF Waiting, Backlog
  <2>3. /\ IsFiniteSet(Waiting) /\ Cardinality(Waiting) \in Nat
        /\ Cardinality({x \in Waiting : x < f}) \in Nat
    BY <2>1, RowsFinite
  <2>4. Cardinality({x \in Waiting : x < f}) < Cardinality(Waiting)
    BY <2>1, <2>2, <2>3, FS_Subset
  <2>5. Cardinality({x \in Waiting : x < f}) < 3 * PlanSize
    BY <2>3, <2>4, PlannerAssumption
  <2>. QED  BY <2>5 DEF Window, First, Waiting
<1>2. f \in Plannable
  BY <1>1 DEF Plannable
<1>3. CASE f = e
  BY <1>3
<1>4. CASE f # e
  <2>1. e \in Plannable /\ Cardinality(Earlier(e)) < PlanSize
    BY DEF Planned, First, Earlier
  <2>2. Cardinality(Earlier(f)) < Cardinality(Earlier(e))
    BY <1>2, <1>4, <2>1, EarlierGrows
  <2>3. Plannable \subseteq Backlog
    BY DEF Plannable, Window, First
  <2>4. Cardinality(Earlier(f)) \in Nat /\ Cardinality(Earlier(e)) \in Nat
    BY <2>3, RowsFinite DEF Earlier
  <2>5. Cardinality(Earlier(f)) < PlanSize
    BY <2>1, <2>2, <2>4, PlannerAssumption
  <2>. QED  BY <1>2, <2>5 DEF Planned, First, Earlier
<1>. QED  BY <1>3, <1>4

\* A batch is planned in turn.
LEMMA PlansInTurn ==
    ASSUME PlannerInv, LockPlanned
    PROVE  PlannerInv'
<1>1. /\ Mine = {} /\ UNCHANGED <<rank, occurred>>
      /\ lock' = [e \in Backlog |-> IF e \in Planned THEN "mine" ELSE lock[e]]
  BY DEF LockPlanned
<1>2. Planned \subseteq Plannable /\ Cardinality(Planned) <= PlanSize
  BY PlanFits
<1>3. Plannable \subseteq Waiting /\ Waiting \subseteq Backlog
  BY DEF Plannable, Window, First, Waiting
<1>4. \A e \in Backlog : lock'[e] = IF e \in Planned THEN "mine" ELSE lock[e]
  BY <1>1
<1>5. Mine' = Planned /\ Waiting' = Waiting \ Planned
  BY <1>1, <1>2, <1>3, <1>4 DEF Mine, Waiting
<1>6. ASSUME Cardinality(Waiting') <= 2 * PlanSize
      PROVE  Cardinality(Waiting) <= 3 * PlanSize
  <2>1. /\ IsFiniteSet(Waiting \ Planned) /\ Cardinality(Waiting \ Planned) \in Nat
        /\ IsFiniteSet(Planned) /\ Cardinality(Planned) \in Nat
    BY <1>2, <1>3, RowsFinite
  <2>2. Waiting = (Waiting \ Planned) \cup Planned /\ (Waiting \ Planned) \cap Planned = {}
    BY <1>2, <1>3
  <2>3. Cardinality(Waiting) = Cardinality(Waiting \ Planned) + Cardinality(Planned)
    <3>1. Cardinality((Waiting \ Planned) \cap Planned) = 0
      BY <2>2, FS_EmptySet
    <3>2. Cardinality((Waiting \ Planned) \cup Planned) =
             Cardinality(Waiting \ Planned) + Cardinality(Planned)
                - Cardinality((Waiting \ Planned) \cap Planned)
      BY <2>1, FS_Union
    <3>. QED  BY <2>1, <2>2, <3>1, <3>2
  <2>4. PlanSize \in Nat
    BY PlannerAssumption
  <2>. QED  BY <1>2, <1>5, <1>6, <2>1, <2>3, <2>4
<1>7. InTurn'
  <2>. SUFFICES ASSUME Cardinality(Waiting') <= 2 * PlanSize, NEW e \in Planned, NEW f \in Backlog,
                       lock'[f] = "ready", rank[f] = rank[e], occurred[f] < occurred[e]
                PROVE  FALSE
    BY <1>1, <1>5 DEF InTurn
  <2>1. f \notin Planned /\ f \in Waiting /\ lock[f] = "ready"
    BY <1>4 DEF Waiting
  <2>2. Before(f, e)
    BY DEF Before
  <2>. QED  BY <1>1, <1>6, <2>1, <2>2, PlannedInTurn
<1>. QED  BY <1>1, <1>4, <1>7 DEF PlannerInv

\* Later steps of the batch, and of others, disturb nothing.
LEMMA PlannerInvStep == PlannerInv /\ [PlannerNext]_plannerVars => PlannerInv'
<1>. SUFFICES ASSUME PlannerInv, [PlannerNext]_plannerVars PROVE PlannerInv'
  OBVIOUS
<1>1. CASE LockPlanned
  BY <1>1, PlansInTurn
<1>2. ASSUME UNCHANGED <<rank, occurred>>,
             lock' \in [Backlog -> {"ready", "fresh", "expired", "mine", "dispatched"}],
             \A x \in Backlog : \/ lock'[x] = lock[x]
                                \/ lock[x] = "mine" /\ lock'[x] = "dispatched"
                                \/ lock[x] = "fresh" /\ lock'[x] = "expired"
      PROVE  PlannerInv'
  <2>1. Waiting' = Waiting /\ Mine' \subseteq Mine
    BY <1>2 DEF Waiting, Mine
  <2>2. \A f \in Backlog : lock'[f] = "ready" => lock[f] = "ready"
    BY <1>2
  <2>3. InTurn'
    BY <1>2, <2>1, <2>2 DEF PlannerInv, InTurn
  <2>. QED  BY <1>2, <2>3 DEF PlannerInv
<1>3. CASE DispatchNext
  <2>1. PICK e \in Mine : lock' = [lock EXCEPT ![e] = "dispatched"]
    BY <1>3 DEF DispatchNext, First
  <2>. QED  BY <1>2, <1>3, <2>1 DEF DispatchNext, Mine, PlannerInv
<1>4. ASSUME NEW e \in Backlog, OtherLockExpires(e) PROVE PlannerInv'
  BY <1>2, <1>4 DEF OtherLockExpires, PlannerInv
<1>5. CASE UNCHANGED plannerVars
  BY <1>2, <1>5 DEF plannerVars, PlannerInv
<1>. QED  BY <1>1, <1>3, <1>4, <1>5 DEF PlannerNext

\* The batch is gone through by occurred_at: nothing in it is passed over.
LEMMA EarliestFirst ==
    ASSUME PlannerInv, DispatchNext, NEW e \in Backlog,
           lock[e] = "mine", lock'[e] = "dispatched"
    PROVE  \A f \in Mine : ~(occurred[f] < occurred[e])
<1>1. PICK x \in Mine : /\ lock' = [lock EXCEPT ![x] = "dispatched"]
                       /\ Cardinality({f \in Mine : occurred[f] < occurred[x]}) < 1
  BY DEF DispatchNext, First
<1>3. x = e
  BY <1>1 DEF Mine, PlannerInv
<1>4. {f \in Mine : occurred[f] < occurred[e]} \in SUBSET Backlog
  BY DEF Mine
<1>5. {f \in Mine : occurred[f] < occurred[e]} = {}
  <2>1. /\ IsFiniteSet({f \in Mine : occurred[f] < occurred[e]})
        /\ Cardinality({f \in Mine : occurred[f] < occurred[e]}) \in Nat
    BY <1>4, RowsFinite
  <2>2. Cardinality({f \in Mine : occurred[f] < occurred[e]}) = 0
    BY <1>1, <1>3, <2>1
  <2>. QED  BY <2>1, <2>2, FS_EmptySet
<1>. QED  BY <1>5

\* Inside one priority dispatch is first in, first out, over batches too, as
\* long as what a batch leaves behind fits the rest of the query's window
\* (lock_pending_events, sort_events_for_dispatch): for any backlog, batch size
\* and priorities.
THEOREM FifoAlways == PlannerSpec => FifoWithinPriority
<1>1. PlannerInit => PlannerInv
  <2>. SUFFICES ASSUME PlannerInit PROVE PlannerInv
    OBVIOUS
  <2>1. Mine = {}
    BY DEF PlannerInit, Mine
  <2>. QED  BY <2>1 DEF PlannerInit, PlannerInv, InTurn
<1>2. PlannerInv /\ [PlannerNext]_plannerVars => PlannerInv'
  BY PlannerInvStep
<1>3. PlannerInv /\ [PlannerNext]_plannerVars =>
        [\A e \in Backlog :
          (/\ lock[e] = "mine" /\ lock'[e] = "dispatched"
           /\ Cardinality({f \in Backlog : lock[f] \notin {"mine", "dispatched"}})
                 <= 2 * PlanSize)
          => ~\E f \in Backlog : /\ lock[f] \in {"ready", "mine"}
                              /\ rank[f] = rank[e] /\ occurred[f] < occurred[e]]_plannerVars
  <2>. SUFFICES ASSUME PlannerInv, PlannerNext, NEW e \in Backlog,
                       lock[e] = "mine", lock'[e] = "dispatched",
                       Cardinality({f \in Backlog : lock[f] \notin {"mine", "dispatched"}})
                          <= 2 * PlanSize,
                       NEW f \in Backlog, lock[f] \in {"ready", "mine"}, rank[f] = rank[e],
                       occurred[f] < occurred[e]
                PROVE  FALSE
    OBVIOUS
  <2>1. DispatchNext
    BY DEF PlannerNext, LockPlanned, OtherLockExpires, PlannerInv
  <2>2. e \in Mine /\ {x \in Backlog : lock[x] \notin {"mine", "dispatched"}} = Waiting
    BY DEF Mine, Waiting, PlannerInv
  <2>3. CASE lock[f] = "ready"
    BY <2>2, <2>3 DEF PlannerInv, InTurn
  <2>4. CASE lock[f] = "mine"
    BY <2>1, <2>4, EarliestFirst DEF Mine
  <2>. QED  BY <2>3, <2>4
<1>. QED  BY <1>1, <1>2, <1>3, PTL DEF PlannerSpec, FifoWithinPriority
=============================================================================
