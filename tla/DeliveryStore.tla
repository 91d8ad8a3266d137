---------------------------- MODULE DeliveryStore ----------------------------
(***************************************************************************)
(* The durable delivery store on its own: every operation of               *)
(* supervise/delivery_store.rs, called by any number of tasks with any     *)
(* clock reading, any lease generation and any set of subscriptions, in    *)
(* any order.  An operation that is one transaction is one action.  lease, *)
(* redrive and the subscriber-absence sweep read their work list in one    *)
(* transaction and act on it in another; everything may happen in between, *)
(* so they are a Begin and a Finish action with the list kept in `calls'.  *)
(*                                                                         *)
(* fresh and covered are history variables.  A signal for an id is         *)
(* accepted into fresh; the lease that starts a run after it moves it to   *)
(* covered; an applied ack or a reported final failure settles it.         *)
(***************************************************************************)
EXTENDS DeliveryTables

CONSTANTS
    Callers,        \* tasks that can be inside a two-transaction operation
    Times,          \* clock readings, in milliseconds
    MaxGeneration   \* bound: no lease generation beyond this one is explored

ASSUME TimesAssumption == Times \subseteq Nat

VARIABLES
    db,       \* the committed tables
    calls,    \* per caller, the operation that has read its work list
    fresh,    \* ids with an accepted signal that no run has started on
    covered   \* ids with a signal taken up by a run and not yet settled

vars == <<db, calls, fresh, covered>>

\* Subscription maps as the router builds them: a department for each queue
\* that has exactly one reliable subscriber.
SubscriberMaps == UNION {[qs -> Depts] : qs \in SUBSET Queues}

LeaseCall ==
    [op : {"lease"}, dept : Depts, excluded : SUBSET Deliveries, limit : 1 .. BatchLimit,
     now : Times, expired : SUBSET IndexKey, ready : SUBSET IndexKey]
RedriveCall ==
    [op : {"redrive"}, keys : SUBSET IndexKey, subscribers : SubscriberMaps, now : Times]
SweepCall ==
    [op : {"sweep"}, candidates : SUBSET Deliveries, queues : SUBSET Queues, now : Times]
Idle == [op |-> "idle"]

Init ==
    /\ db = EmptyTables
    /\ calls = [c \in Callers |-> Idle]
    /\ fresh = {}
    /\ covered = {}

\* Bound on the exploration, not a guard of the code.
WithinGenerations(s) ==
    \A i \in Deliveries : s.live[i] # Absent => s.live[i].lease_generation <= MaxGeneration

-----------------------------------------------------------------------------
(* Operations of one transaction.                                          *)

\* A keyed signal is a new fact each time; a repeated unkeyed id is the same
\* event, so it is new only when no row is live.
EnqueueDelivery(i, c, observed_at, not_before) ==
    /\ db' = Enqueue(db, i, c, observed_at, not_before)
    /\ fresh' = IF /\ EnqueueOutcome(db, i, c, observed_at) = "accepted"
                   /\ db.live[i] = Absent \/ i \in Keyed
                THEN fresh \cup {i} ELSE fresh
    /\ UNCHANGED <<calls, covered>>

AckDelivery(i, generation) ==
    /\ db' = Ack(db, i, generation)
    /\ covered' = IF HoldsLease(db, i, generation) THEN covered \ {i} ELSE covered
    /\ UNCHANGED <<calls, fresh>>

RenewDelivery(i, generation, now) ==
    /\ db' = RenewLeases(db, [x \in {i} |-> generation], now + LeaseDuration)
    /\ UNCHANGED <<calls, fresh, covered>>

DeferDelivery(i, generation, now) ==
    /\ \E delay \in RetryDelays(IF generation = 0 THEN 1 ELSE generation) :
          db' = DeferLockBusy(db, i, generation, now, delay)
    /\ UNCHANGED <<calls, fresh, covered>>

\* The outcome PermanentDead is reported on the dead_letter queue.
RetryDelivery(i, generation, replayable, now) ==
    /\ \E delay \in RetryDelays(IF db.live[i] = Absent THEN 1 ELSE db.live[i].attempt + 1) :
          db' = Retry(db, i, generation, replayable, now, delay)
    /\ covered' = IF RetryOutcome(db, i, generation, replayable) = "permanent_dead"
                  THEN covered \ {i} ELSE covered
    /\ UNCHANGED <<calls, fresh>>

Rebind(subscribers) ==
    /\ db' = RebindDeliveries(db, subscribers)
    /\ WithinGenerations(db')
    /\ UNCHANGED <<calls, fresh, covered>>

-----------------------------------------------------------------------------
(* Operations of two transactions.  An empty work list ends the call.      *)

BeginLease(c, d, excluded, limit, now) ==
    LET expired == CollectExpiredKeys(db, d, limit, now)
        ready   == CollectReadyKeys(db, d, excluded, limit, now)
    IN /\ calls[c] = Idle
       /\ expired \cup ready # {}
       /\ calls' = [calls EXCEPT ![c] =
             [op |-> "lease", dept |-> d, excluded |-> excluded, limit |-> limit,
              now |-> now, expired |-> expired, ready |-> ready]]
       /\ UNCHANGED <<db, fresh, covered>>

FinishLease(c) ==
    LET p      == calls[c]
        leased == LeasedIds(db, p.dept, p.excluded, p.expired, p.ready, p.limit, p.now)
    IN /\ p.op = "lease"
       /\ db' = Lease(db, p.dept, p.excluded, p.expired, p.ready, p.limit, p.now)
       /\ WithinGenerations(db')
       /\ calls' = [calls EXCEPT ![c] = Idle]
       /\ fresh' = fresh \ leased
       /\ covered' = covered \cup (fresh \cap leased)

BeginRedrive(c, subscribers, now) ==
    /\ calls[c] = Idle
    /\ CollectDueDeadKeys(db, subscribers, now) # {}
    /\ calls' = [calls EXCEPT ![c] =
          [op |-> "redrive", keys |-> CollectDueDeadKeys(db, subscribers, now),
           subscribers |-> subscribers, now |-> now]]
    /\ UNCHANGED <<db, fresh, covered>>

\* A dead letter given up is reported; a promoted follow-up still owes its signal.
FinishRedrive(c) ==
    LET p       == calls[c]
        buried  == RedriveBuried(db, RedriveActive(db, p.keys, p.subscribers, p.now))
        settled == {i \in buried : db.live[i] = Absent}
    IN /\ p.op = "redrive"
       /\ db' = Redrive(db, p.keys, p.subscribers, p.now)
       /\ WithinGenerations(db')
       /\ calls' = [calls EXCEPT ![c] = Idle]
       /\ fresh' = fresh \ (settled \ RedrivePromoted(db, buried))
       /\ covered' = covered \ settled

BeginSweep(c, queues, now) ==
    /\ calls[c] = Idle
    /\ CollectAbsenceCandidates(db, queues) # {}
    /\ calls' = [calls EXCEPT ![c] =
          [op |-> "sweep", candidates |-> CollectAbsenceCandidates(db, queues),
           queues |-> queues, now |-> now]]
    /\ UNCHANGED <<db, fresh, covered>>

FinishSweep(c) ==
    /\ calls[c].op = "sweep"
    /\ db' = SweepAbsence(db, calls[c].candidates, calls[c].queues, calls[c].now)
    /\ calls' = [calls EXCEPT ![c] = Idle]
    /\ UNCHANGED <<fresh, covered>>

Next ==
    \/ \E i \in Deliveries, c \in Contents, observed_at, not_before \in Times :
          EnqueueDelivery(i, c, observed_at, not_before)
    \/ \E i \in Deliveries, generation \in 0 .. MaxGeneration : AckDelivery(i, generation)
    \/ \E i \in Deliveries, generation \in 0 .. MaxGeneration, now \in Times :
          \/ RenewDelivery(i, generation, now)
          \/ DeferDelivery(i, generation, now)
          \/ \E replayable \in BOOLEAN : RetryDelivery(i, generation, replayable, now)
    \/ \E subscribers \in SubscriberMaps : Rebind(subscribers)
    \/ \E c \in Callers, now \in Times :
          \/ \E d \in Depts, excluded \in SUBSET Deliveries, limit \in 1 .. BatchLimit :
                BeginLease(c, d, excluded, limit, now)
          \/ \E subscribers \in SubscriberMaps : BeginRedrive(c, subscribers, now)
          \/ \E queues \in SUBSET Queues : BeginSweep(c, queues, now)
    \/ \E c \in Callers : FinishLease(c) \/ FinishRedrive(c) \/ FinishSweep(c)

Spec == Init /\ [][Next]_vars

-----------------------------------------------------------------------------
(* Invariants.                                                             *)

\* Rows, index keys and the work lists in flight are well formed.
TypeOK ==
    /\ db \in Tables
    /\ calls \in [Callers -> LeaseCall \cup RedriveCall \cup SweepCall \cup {Idle}]
    /\ fresh \subseteq Deliveries
    /\ covered \subseteq Deliveries

\* No live delivery is stranded.  lease finds its work only through the ready
\* and lease indexes, so every live row has the entry of its current state,
\* whatever stale keys a concurrent lease call removes or puts back.
NoStrandedDelivery == LiveIndexed(db)

\* No dead letter is stranded.  Redrive finds its work through DEAD_BY_DEPT_DUE
\* and compaction through TERMINAL_DEAD_BY_TIME; a dead letter waits in the one
\* that fits its state and in no other, so a final one is never still waiting to
\* be redriven.
NoStrandedDeadLetter == DeadIndexed(db) /\ TerminalIndexExact(db) /\ DueIndexExact(db)

\* The dead-letter pages read DEAD_BY_TIME and fail on an entry without its row,
\* so that index lists exactly the dead letters, each at its own time.
DeadTimeIndexExact == DeadTimeExact(db)

\* Every lineage query answers what a scan of the two tables would: the live
\* delivery due first and the final failure that happened last.
LineageAnswersScan == LineageMatchesScan(db)

\* A final failure that does not allow reuse is remembered in the suppression
\* table; a keyed id that is remembered there has nothing left to deliver, so
\* the next signal of a keyed delivery in progress is never turned away.
SuppressionMatchesFate == SuppressionSound(db)

\* At least once until acknowledged.  A signal that enqueue accepted is settled
\* by an applied ack or a reported final failure of a run started after it, or
\* with a dead letter that redrive gives up and reports, which a row that a sweep
\* parked may become without a run.  Until then a row or a redrivable dead letter
\* carries it, and a live row that no run has started for is ready or marked to
\* run again.
NoLostSignal ==
    \A i \in fresh \cup covered :
        /\ db.live[i] # Absent \/ Redrivable(db.dead[i])
        /\ i \in fresh /\ IsLeased(db.live[i]) => db.live[i].pending_dirty

\* Retries and redrives keep to their policies, neither beyond them nor short of
\* them.  The counts start again with a follow-up and go along with a row that a
\* sweep parks; a delivery is dead-lettered as failed with its last attempt and
\* not before, and one whose subscriber is absent is given up with its last
\* redrive and not before.
WithinRetryBudgets ==
    \A i \in Deliveries :
        /\ db.live[i] # Absent => /\ db.live[i].attempt < MaxAttempts
                                  /\ db.live[i].redrive_count <= MaxRedrives
        /\ db.dead[i] # Absent =>
              /\ db.dead[i].attempts <= MaxAttempts
              /\ db.dead[i].redrive_count <= MaxRedrives
              /\ db.dead[i].reason = "failed" => db.dead[i].attempts = MaxAttempts
              /\ db.dead[i].reason = "subscriber_absent" /\ db.dead[i].permanent
                    => db.dead[i].redrive_count = MaxRedrives

-----------------------------------------------------------------------------
(* Action properties.                                                      *)

\* The rows that the lease call of c returns if it finishes on these tables.
GrantedTo(c) ==
    {i \in Deliveries :
        /\ calls[c].op = "lease"
        /\ i \in LeasedIds(db, calls[c].dept, calls[c].excluded, calls[c].expired,
                           calls[c].ready, calls[c].limit, calls[c].now)}

\* Fencing.  While a row stays live its generation never goes back.  It is raised
\* whenever a lease call returns the row, be it ready or still leased to a holder
\* whose lease has expired, and whenever a leased row changes its department; only
\* a renewal extends a lease under the same generation.  So an ack, renewal or
\* retry by an earlier holder of the row cannot match.
GenerationFences ==
    [][/\ \A i \in Deliveries :
             db.live[i] # Absent /\ db'.live[i] # Absent =>
                /\ db'.live[i].lease_generation >= db.live[i].lease_generation
                /\ /\ IsLeased(db'.live[i])
                   /\ IsReady(db.live[i]) \/ db.live[i].dept # db'.live[i].dept
                   => db'.live[i].lease_generation > db.live[i].lease_generation
       /\ \A c \in Callers : calls'[c] # calls[c] =>
             \A i \in GrantedTo(c) :
                db'.live[i].lease_generation > db.live[i].lease_generation]_vars

\* A delivery that failed for good stays gone: with no row left to run or to
\* redrive, a suppressed id never becomes live again, not even after its dead
\* letter has been compacted away.
FinalFailureStays ==
    [][\A i \in Deliveries :
          i \in db.suppressed /\ db.live[i] = Absent /\ ~Redrivable(db.dead[i])
             => i \in db'.suppressed /\ db'.live[i] = Absent /\ ~Redrivable(db'.dead[i])]_vars
=============================================================================
