------------------------------ MODULE Supervise ------------------------------
(***************************************************************************)
(* The supervise runtime around the durable store: the router's publish    *)
(* loop, one consumer task per department (consumer.rs), the children it   *)
(* runs, the subscriber-absence sweeper (mod.rs), and the process itself,  *)
(* which may crash at any step and come back under another graph.          *)
(*                                                                         *)
(* The tasks share one clock and one store.  A consumer's loop is          *)
(* sequential, so one handler runs to its end before the next, but each of *)
(* its store transactions is a step of its own, and the other tasks move   *)
(* in between.  Everything except db and the clock dies with the process.  *)
(***************************************************************************)
EXTENDS DeliveryTables, Sequences

CONSTANTS
    Events,            \* what is published: a queue with a key or a source
    EventOf,           \* the event an id is derived from
    SourceEvents,      \* events that cron and file_watch sources publish
    Raises,            \* the event a run of an id may raise, or NoEvent
    DeadLetterOf,      \* the event that reports an id's final failure, or NoEvent
    FailureFactOf,     \* the failure fact of an id's failed run, or NoEvent
    NoEvent,
    Graphs,            \* reliable subscriptions <<dept, queue>> per graph
    RetryingDepts,     \* departments with a retry policy
    MaxInFlight,       \* max_in_flight_per_dept
    AdmissionBurst,    \* durable_admission_burst_per_dept
    RenewInterval,     \* renew_interval(stall_window)
    MaxTime,           \* bounds of the exploration
    MaxPublications,
    MaxStarts

ASSUME RuntimeAssumption ==
    /\ EventOf \in [Deliveries -> Events]
    /\ SourceEvents \subseteq Events
    /\ {Raises, DeadLetterOf, FailureFactOf} \subseteq [Deliveries -> Events \cup {NoEvent}]
    /\ Graphs \subseteq SUBSET (Depts \X Queues)
    /\ {MaxInFlight, AdmissionBurst} \subseteq Nat \ {0}
    /\ RenewInterval \in Nat

VARIABLES
    db,            \* the committed tables
    now,           \* now_unix_millis
    graph,         \* the reliable subscriptions of the running process
    phase,         \* of the process: "down", "starting" or "running"
    consumer,      \* per department, where its handler is and what it has read
    running,       \* per department, the deliveries whose child it waits for
    sweeper,       \* the candidates the sweeper has read
    source,        \* the publish loop of a source
    publications,  \* how many events sources have published
    starts,        \* how often the process has started
    fresh, covered \* history: see DeliveryStore

vars == <<db, now, graph, phase, consumer, running, sweeper, source,
          publications, starts, fresh, covered>>

-----------------------------------------------------------------------------
(* The router's view of a graph.                                           *)

ReliableDepts == {d \in Depts : \E q \in Queues : <<d, q>> \in graph}
ReliableQueues(g) == {q \in Queues : \E d \in Depts : <<d, q>> \in g}
SingleQueues(g) == {q \in Queues : \E d \in Depts : {e \in Depts : <<e, q>> \in g} = {d}}
SingleSubscribers(g) == [q \in SingleQueues(g) |-> CHOOSE d \in Depts : <<d, q>> \in g]

\* One delivery per reliable subscriber, in the order of the departments.
Targets(e) == {i \in Deliveries : EventOf[i] = e /\ <<DeptOf[i], QueueOf[i]>> \in graph}
NextTarget(todo) == CHOOSE i \in todo : \A j \in todo : DeptOf[i] <= DeptOf[j]

IdleConsumer == [pc |-> "idle"]
IdleSweeper == [pc |-> "idle"]
IdleSource == [todo |-> {}]

Init ==
    /\ db = EmptyTables
    /\ now = 0
    /\ graph = {}
    /\ phase = "down"
    /\ consumer = [d \in Depts |-> IdleConsumer]
    /\ running = [d \in Depts |-> <<>>]
    /\ sweeper = IdleSweeper
    /\ source = IdleSource
    /\ publications = 0
    /\ starts = 0
    /\ fresh = {}
    /\ covered = {}

-----------------------------------------------------------------------------
(* Starting and crashing.  Before any task is spawned, supervise rebinds   *)
(* the rows of single-subscriber queues and sweeps once.                   *)

Start(g) ==
    /\ phase = "down" /\ starts < MaxStarts
    /\ phase' = "starting"
    /\ starts' = starts + 1
    /\ graph' = g
    /\ db' = RebindDeliveries(db, SingleSubscribers(g))
    /\ UNCHANGED <<now, consumer, running, sweeper, source, publications, fresh, covered>>

StartupSweep ==
    LET queues == ReliableQueues(graph)
    IN /\ phase = "starting"
       /\ phase' = "running"
       /\ db' = SweepAbsence(db, CollectAbsenceCandidates(db, queues), queues, now)
       /\ UNCHANGED <<now, graph, consumer, running, sweeper, source,
                      publications, starts, fresh, covered>>

\* A signal or a crash, at any step; the last start is left running.
Crash ==
    /\ phase # "down" /\ starts < MaxStarts
    /\ phase' = "down"
    /\ graph' = {}
    /\ consumer' = [d \in Depts |-> IdleConsumer]
    /\ running' = [d \in Depts |-> <<>>]
    /\ sweeper' = IdleSweeper
    /\ source' = IdleSource
    /\ UNCHANGED <<db, now, publications, starts, fresh, covered>>

AdvanceClock ==
    /\ now < MaxTime
    /\ now' = now + 1
    /\ UNCHANGED <<db, graph, phase, consumer, running, sweeper, source,
                   publications, starts, fresh, covered>>

-----------------------------------------------------------------------------
(* Publishing: publish_outcome enqueues one subscriber after the other and *)
(* stops at the first error, keeping what it has enqueued.  The clock is   *)
(* read in the step that writes the row; DeliveryStore has it arbitrary.   *)

Accepts(i, c, observed_at) ==
    /\ EnqueueOutcome(db, i, c, observed_at) = "accepted"
    /\ db.live[i] = Absent \/ i \in Keyed

PublishTo(i, c, observed_at) ==
    /\ db' = Enqueue(db, i, c, observed_at, now)
    /\ fresh' = IF Accepts(i, c, observed_at) THEN fresh \cup {i} ELSE fresh
    /\ UNCHANGED covered

SourcePublish(e, c) ==
    /\ phase = "running" /\ source = IdleSource /\ publications < MaxPublications
    /\ Targets(e) # {}
    /\ source' = [todo |-> Targets(e), content |-> c, observed_at |-> now]
    /\ publications' = publications + 1
    /\ UNCHANGED <<db, now, graph, phase, consumer, running, sweeper, starts, fresh, covered>>

SourceEnqueue ==
    LET i    == NextTarget(source.todo)
        rest == source.todo \ {i}
    IN /\ source.todo # {}
       /\ PublishTo(i, source.content, source.observed_at)
       /\ source' = IF \/ rest = {}
                       \/ EnqueueOutcome(db, i, source.content, source.observed_at) = "conflict"
                    THEN IdleSource ELSE [source EXCEPT !.todo = rest]
       /\ UNCHANGED <<now, graph, phase, consumer, running, sweeper, publications, starts>>

-----------------------------------------------------------------------------
(* A consumer's handlers.  The tick renews, maintains the dead letters and *)
(* dispatches; a wake only dispatches; a completion finishes a delivery.   *)

Active(d) == phase = "running" /\ d \in ReliableDepts
At(d, pc) == consumer[d].pc = pc
GoTo(d, state) == consumer' = [consumer EXCEPT ![d] = state]

Running(d) == DOMAIN running[d]
Unfinished(d) == {i \in Running(d) : running[d][i].outcome = "none"}

\* renew_running: leases of unfinished children that are due for renewal.
Renewals(d) ==
    [i \in {j \in Unfinished(d) : running[d][j].renew_at <= now} |-> running[d][i].generation]

Tick(d) ==
    /\ Active(d) /\ At(d, "idle")
    /\ db' = RenewLeases(db, Renewals(d), now + LeaseDuration)
    /\ running' = [running EXCEPT ![d] =
          [i \in Running(d) |->
             IF i \in DOMAIN Renewals(d) /\ HoldsLease(db, i, running[d][i].generation)
             THEN [running[d][i] EXCEPT !.renew_at = now + RenewInterval,
                                        !.lease_until = now + LeaseDuration]
             ELSE running[d][i]]]
    /\ GoTo(d, [pc |-> "maintain"])
    /\ UNCHANGED <<now, graph, phase, sweeper, source, publications, starts, fresh, covered>>

\* Events that supervise itself publish, one after the other: the next target
\* of the event being published, or else the next event, or else carry on.
Reporting(todo, events, then) ==
    LET routed == SelectSeq(events, LAMBDA e : Targets(e) # {})
    IN IF todo # {} THEN [pc |-> "report", todo |-> todo, events |-> routed, then |-> then]
       ELSE IF routed = <<>> THEN [pc |-> then]
       ELSE [pc |-> "report", todo |-> Targets(Head(routed)), events |-> Tail(routed),
             then |-> then]

\* publish_dead_letter_to, publish_failure_fact: an error is only logged.
Report(d, c) ==
    LET p == consumer[d]
        i == NextTarget(p.todo)
        rest == IF EnqueueOutcome(db, i, c, now) = "conflict" THEN {} ELSE p.todo \ {i}
    IN /\ At(d, "report")
       /\ PublishTo(i, c, now)
       /\ GoTo(d, Reporting(rest, p.events, p.then))
       /\ UNCHANGED <<now, graph, phase, running, sweeper, source, publications, starts>>

\* maintain_dead_letters: redrive_due_with_current_subscribers.
Maintain(d) ==
    LET keys == CollectDueDeadKeys(db, SingleSubscribers(graph), now)
    IN /\ At(d, "maintain")
       /\ GoTo(d, IF keys = {} THEN [pc |-> "dispatch"]
                  ELSE [pc |-> "redrive", keys |-> keys, now |-> now])
       /\ UNCHANGED <<db, now, graph, phase, running, sweeper, source,
                      publications, starts, fresh, covered>>

RedriveDue(d) ==
    LET p       == consumer[d]
        map     == SingleSubscribers(graph)
        buried  == RedriveBuried(db, RedriveActive(db, p.keys, map, p.now))
        settled == {i \in buried : db.live[i] = Absent}
        key(i)  == <<db.dead[i].dept, db.dead[i].dead_at, i>>
        nth(n)  == CHOOSE i \in buried : Cardinality({j \in buried : KeyBefore(key(j), key(i))}) = n - 1
    IN /\ At(d, "redrive")
       /\ db' = Redrive(db, p.keys, map, p.now)
       /\ GoTo(d, Reporting({}, [n \in 1 .. Cardinality(buried) |-> DeadLetterOf[nth(n)]],
                            "dispatch"))
       /\ fresh' = fresh \ (settled \ RedrivePromoted(db, buried))
       /\ covered' = covered \ settled
       /\ UNCHANGED <<now, graph, phase, running, sweeper, source, publications, starts>>

\* durable_dispatch_capacity
Capacity(d) == MinOf(MinOf(MaxInFlight - Cardinality(Running(d)), AdmissionBurst), BatchLimit)

\* dispatch_due, at the end of a tick or on a wake.
Dispatch(d) ==
    LET expired == CollectExpiredKeys(db, d, Capacity(d), now)
        ready   == CollectReadyKeys(db, d, Running(d), Capacity(d), now)
    IN /\ At(d, "dispatch") \/ (Active(d) /\ At(d, "idle"))
       /\ GoTo(d, IF Capacity(d) <= 0 \/ expired \cup ready = {} THEN IdleConsumer
                  ELSE [pc |-> "lease", expired |-> expired, ready |-> ready,
                        limit |-> Capacity(d), now |-> now])
       /\ UNCHANGED <<db, now, graph, phase, running, sweeper, source,
                      publications, starts, fresh, covered>>

NewRun(i) ==
    [generation |-> db'.live[i].lease_generation, lease_until |-> db'.live[i].lease_until,
     renew_at |-> now + RenewInterval, raised |-> FALSE, todo |-> {}, error |-> FALSE,
     outcome |-> "none"]

\* Each leased delivery gets a child.
LeaseDue(d) ==
    LET p      == consumer[d]
        leased == LeasedIds(db, d, Running(d), p.expired, p.ready, p.limit, p.now)
    IN /\ At(d, "lease")
       /\ db' = Lease(db, d, Running(d), p.expired, p.ready, p.limit, p.now)
       /\ running' = [running EXCEPT ![d] =
             [i \in Running(d) \cup leased |->
                IF i \in Running(d) THEN running[d][i] ELSE NewRun(i)]]
       /\ GoTo(d, IdleConsumer)
       /\ fresh' = fresh \ leased
       /\ covered' = covered \cup (fresh \cap leased)
       /\ UNCHANGED <<now, graph, phase, sweeper, source, publications, starts>>

-----------------------------------------------------------------------------
(* A child: it may raise its event, line by line, and then exits.  The     *)
(* stdout observer publishes a raised event at once, under the parent's    *)
(* observation time; an error is remembered and fails an exit 0 for good.  *)
(* Graphs have reliable subscribers only, so no target means no subscriber. *)

ChildRaise(d, i) ==
    LET r == running[d][i]
    IN /\ i \in Unfinished(d) /\ ~r.raised /\ Raises[i] # NoEvent
       /\ running' = [running EXCEPT ![d][i] =
             [r EXCEPT !.raised = TRUE, !.todo = Targets(Raises[i]),
                       !.error = (Targets(Raises[i]) = {})]]
       /\ UNCHANGED <<db, now, graph, phase, consumer, sweeper, source,
                      publications, starts, fresh, covered>>

ChildPublish(d, i, c, observed_at) ==
    LET r == running[d][i]
        j == NextTarget(r.todo)
        conflict == EnqueueOutcome(db, j, c, observed_at) = "conflict"
    IN /\ i \in Unfinished(d) /\ r.todo # {}
       /\ PublishTo(j, c, observed_at)
       /\ running' = [running EXCEPT ![d][i] =
             [r EXCEPT !.todo = IF conflict THEN {} ELSE @ \ {j}, !.error = conflict]]
       /\ UNCHANGED <<now, graph, phase, consumer, sweeper, source, publications, starts>>

\* exit 0, the lock-busy exit code, a replayable failure or any other one.
ChildExit(d, i, exit) ==
    LET r == running[d][i]
    IN /\ i \in Unfinished(d) /\ r.todo = {}
       /\ running' = [running EXCEPT ![d][i].outcome =
             IF exit = "ok" /\ r.error THEN "permanent" ELSE exit]
       /\ UNCHANGED <<db, now, graph, phase, consumer, sweeper, source,
                      publications, starts, fresh, covered>>

-----------------------------------------------------------------------------
(* finish_durable_record.  Without a retry policy a failure is dropped.    *)

Acks(d, r) == r.outcome = "ok" \/ (d \notin RetryingDepts /\ r.outcome # "lock_busy")

FinishedStore_DropsBusy(d, i, r, delay) == Ack(db, i, r.generation)

FinishedStore(d, i, r, delay) ==
    CASE r.outcome = "lock_busy" -> DeferLockBusy(db, i, r.generation, now, delay)
      [] Acks(d, r) -> Ack(db, i, r.generation)
      [] OTHER -> Retry(db, i, r.generation, r.outcome = "replayable", now, delay)

FinishDelay(i, r) ==
    RetryDelays(IF db.live[i] = Absent THEN 1
                ELSE IF r.outcome = "lock_busy" THEN r.generation
                ELSE db.live[i].attempt + 1)

Settles(d, i, r) ==
    /\ HoldsLease(db, i, r.generation)
    /\ \/ Acks(d, r)
       \/ /\ r.outcome = "permanent"
          /\ RetryOutcome(db, i, r.generation, FALSE) = "permanent_dead"

\* What finish_durable_record publishes after its transaction.
Reports(d, i, r) ==
    IF r.outcome = "lock_busy" THEN Reporting({}, <<FailureFactOf[i]>>, "idle")
    ELSE IF /\ ~Acks(d, r)
            /\ RetryOutcome(db, i, r.generation, r.outcome = "replayable") = "permanent_dead"
    THEN [pc |-> "tombstone", id |-> i]
    ELSE IdleConsumer

Complete(d, i) ==
    LET r == running[d][i]
    IN /\ At(d, "idle") /\ i \in Running(d) /\ r.outcome # "none"
       /\ \E delay \in FinishDelay(i, r) : db' = FinishedStore(d, i, r, delay)
       /\ running' = [running EXCEPT ![d] = [j \in Running(d) \ {i} |-> running[d][j]]]
       /\ GoTo(d, Reports(d, i, r))
       /\ covered' = IF Settles(d, i, r) THEN covered \ {i} ELSE covered
       /\ UNCHANGED <<now, graph, phase, sweeper, source, publications, starts, fresh>>

\* The dead letter is read back before it is reported; it may be gone.
ReadTombstone(d) ==
    LET i == consumer[d].id
    IN /\ At(d, "tombstone")
       /\ GoTo(d, IF db.dead[i] = Absent THEN IdleConsumer
                  ELSE Reporting({}, <<FailureFactOf[i], DeadLetterOf[i]>>, "idle"))
       /\ UNCHANGED <<db, now, graph, phase, running, sweeper, source,
                      publications, starts, fresh, covered>>

-----------------------------------------------------------------------------
(* The periodic sweep.                                                     *)

Sweep ==
    LET candidates == CollectAbsenceCandidates(db, ReliableQueues(graph))
    IN /\ phase = "running" /\ sweeper = IdleSweeper
       /\ candidates # {}
       /\ sweeper' = [pc |-> "sweep", candidates |-> candidates, now |-> now]
       /\ UNCHANGED <<db, now, graph, phase, consumer, running, source,
                      publications, starts, fresh, covered>>

SweepCommit ==
    /\ sweeper # IdleSweeper
    /\ db' = SweepAbsence(db, sweeper.candidates, ReliableQueues(graph), sweeper.now)
    /\ sweeper' = IdleSweeper
    /\ UNCHANGED <<now, graph, phase, consumer, running, source,
                   publications, starts, fresh, covered>>

Next ==
    \/ \E g \in Graphs : Start(g)
    \/ StartupSweep
    \/ Crash
    \/ AdvanceClock
    \/ \E e \in SourceEvents, c \in Contents : SourcePublish(e, c)
    \/ SourceEnqueue
    \/ \E d \in Depts :
          \/ Tick(d) \/ Maintain(d) \/ RedriveDue(d)
          \/ Dispatch(d) \/ LeaseDue(d) \/ ReadTombstone(d)
          \/ \E c \in Contents : Report(d, c)
          \/ \E i \in Running(d) :
                \/ ChildRaise(d, i)
                \/ \E c \in Contents, observed_at \in 0 .. now :
                      ChildPublish(d, i, c, observed_at)
                \/ \E exit \in {"ok", "lock_busy", "replayable", "permanent"} :
                      ChildExit(d, i, exit)
                \/ Complete(d, i)
    \/ Sweep
    \/ SweepCommit

Spec == Init /\ [][Next]_vars

-----------------------------------------------------------------------------
(* Properties.                                                             *)

\* The tables are well formed and every running delivery is a known id.
TypeOK ==
    /\ db \in Tables
    /\ now \in Nat
    /\ graph \subseteq Depts \X Queues
    /\ phase \in {"down", "starting", "running"}
    /\ \A d \in Depts : Running(d) \subseteq Deliveries
    /\ fresh \subseteq Deliveries /\ covered \subseteq Deliveries

\* The live indexes have one entry per row and no other.  The store alone
\* cannot promise it (a stale key outlives an acked and re-enqueued row); the
\* runtime can, because only its own department leases and acks a row.
RuntimeIndexesExact ==
    /\ db.ready = UNION {ReadyKeys(i, db.live[i]) : i \in Deliveries}
    /\ db.leased = UNION {LeaseKeys(i, db.live[i]) : i \in Deliveries}

\* A consumer never waits for more children than max_in_flight_per_dept.
WithinCapacity ==
    \A d \in Depts : Cardinality(Running(d)) <= MaxInFlight

\* Until its lease runs out, the child of a subscribed queue is the holder the
\* store knows: no other task takes the row away, so its ack will be applied.
\* After that the row may be released, but the department that still waits for
\* the child does not lease it to a second one.
LeaseHonoured ==
    \A d \in Depts : \A i \in Running(d) :
        /\ /\ QueueOf[i] \in ReliableQueues(graph)
           /\ running[d][i].lease_until > now
           => HoldsLease(db, i, running[d][i].generation)
        /\ IsLeased(db.live[i]) /\ db.live[i].dept = d
           => db.live[i].lease_generation = running[d][i].generation

\* Lineage queries answer what a scan of the two tables would: see DeliveryStore.
LineageAnswersScan == LineageMatchesScan(db)

\* At least once until acknowledged or given up, across crashes, restarts under
\* other graphs, sweeps and redrives: see DeliveryStore.
NoLostSignal ==
    \A i \in fresh \cup covered :
        /\ db.live[i] # Absent \/ Redrivable(db.dead[i])
        /\ i \in fresh /\ IsLeased(db.live[i]) => db.live[i].pending_dirty

\* SPEC.md, of a pending delivery that has no current subscriber: supervise
\* persists since when.  Once the startup sweep is done, every row belongs to a
\* department that consumes its queue, or carries the start of its absence.
StartupRecordsAbsence ==
    [][phase = "starting" /\ phase' = "running" =>
          \A i \in Deliveries :
             db'.live[i] # Absent => \/ <<db'.live[i].dept, QueueOf[i]>> \in graph
                                     \/ db'.live[i].absent_since # NoTime]_vars
=============================================================================
