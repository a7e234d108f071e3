--------------------------- MODULE DispatchPlanner ---------------------------
(***************************************************************************)
(* Which outbox rows lock_pending_events takes, and in which order the     *)
(* relay then works on them: the query's window, plan_dispatch_batch,      *)
(* sort_events_for_dispatch, and the query that returns the locked rows.   *)
(*                                                                         *)
(* One relay and a table of rows whose available_at has passed; rows are   *)
(* numbered by it, and occurred_at is any other order.  A handler failure  *)
(* and the tables around the outbox are EventRelay's subject: here every   *)
(* row taken is dispatched.                                                *)
(***************************************************************************)
EXTENDS Naturals, FiniteSets

CONSTANTS NumRows,     \* EventOutbox rows, numbered by available_at
          Ranks,       \* PRIORITY_ORDER: 0 is the most urgent
          PlanSize     \* the batch size of the call

ASSUME PlannerAssumption ==
    /\ NumRows \in Nat
    /\ Ranks \subseteq Nat
    /\ PlanSize \in Nat \ {0}

Backlog == 1..NumRows

VARIABLES rank,       \* priority_rank of each row
          occurred,   \* occurred_at
          lock        \* "ready", "fresh" or "expired" lock, "mine", "dispatched"

plannerVars == <<rank, occurred, lock>>

PlannerInit ==
    /\ rank \in [Backlog -> Ranks]
    /\ occurred \in {f \in [Backlog -> Backlog] : \A a, b \in Backlog : a # b => f[a] # f[b]}
    /\ lock \in [Backlog -> {"ready", "fresh", "expired"}]

\* The first n elements of S in the order Less: order_by and a slice.
First(S, n, Less(_, _)) == {e \in S : Cardinality({f \in S : Less(f, e)}) < n}

Mine == {e \in Backlog : lock[e] = "mine"}

\* The query: pending, retryable and locked rows by available_at, and no more
\* than three batches of them.
Window ==
    First({e \in Backlog : lock[e] \in {"ready", "fresh", "expired"}}, 3 * PlanSize,
          LAMBDA a, b : a < b)

\* Faulty variant of Before: the time of availability for that of the fact.
ByAvailability(a, b) == rank[a] < rank[b] \/ (rank[a] = rank[b] /\ a < b)

\* The key of sort_events_for_dispatch.
Before(a, b) ==
    rank[a] < rank[b] \/ (rank[a] = rank[b] /\ occurred[a] < occurred[b])

\* Faulty variant of Plannable: a lock is never reclaimed.
PlannableUnlocked == {e \in Window : lock[e] = "ready"}

\* Rows the planner's filter keeps.
Plannable == {e \in Window : lock[e] \in {"ready", "expired"}}

\* plan_dispatch_batch
Planned == First(Plannable, PlanSize, Before)

\* lock_pending_events takes the planned rows.
LockPlanned ==
    /\ Mine = {}
    /\ Planned # {}
    /\ lock' = [e \in Backlog |-> IF e \in Planned THEN "mine" ELSE lock[e]]
    /\ UNCHANGED <<rank, occurred>>

\* It returns them by occurred_at, and that is the order in which the loop of
\* dispatch_pending_events goes through them.
DispatchNext ==
    /\ \E e \in First(Mine, 1, LAMBDA a, b : occurred[a] < occurred[b]) :
          lock' = [lock EXCEPT ![e] = "dispatched"]
    /\ UNCHANGED <<rank, occurred>>

\* Another relay's lock outlives LOCK_TIMEOUT_SECONDS.
OtherLockExpires(e) ==
    /\ lock[e] = "fresh"
    /\ lock' = [lock EXCEPT ![e] = "expired"]
    /\ UNCHANGED <<rank, occurred>>

PlannerNext == LockPlanned \/ DispatchNext \/ \E e \in Backlog : OtherLockExpires(e)

\* The relay command is run again and again; locks outlive their timeout.
PlannerFairness == WF_plannerVars(PlannerNext)

PlannerSpec == PlannerInit /\ [][PlannerNext]_plannerVars /\ PlannerFairness

-----------------------------------------------------------------------------
(* Properties.                                                             *)

\* Inside one priority facts are dispatched in the order in which they
\* occurred, across batches too, as long as what is left beside the batch fits
\* the rest of its window: lock_pending_events looks no further.  (A lock that
\* expires after the batch was planned is reclaimed out of order.)
FifoWithinPriority ==
    [][\A e \in Backlog :
          (/\ lock[e] = "mine" /\ lock'[e] = "dispatched"
           /\ Cardinality({f \in Backlog : lock[f] \notin {"mine", "dispatched"}})
                 <= 2 * PlanSize)
          => ~\E f \in Backlog : /\ lock[f] \in {"ready", "mine"}
                              /\ rank[f] = rank[e] /\ occurred[f] < occurred[e]]_plannerVars

\* Whatever locks other relays left behind and wherever the window ends, the
\* backlog is drained.
BacklogDrains == <>(\A e \in Backlog : lock[e] = "dispatched")
=============================================================================
