------------------------- MODULE DeliveryFenceProofs -------------------------
(***************************************************************************)
(* Lease fencing, for any ids, departments and callers.  One lemma per     *)
(* transaction says what it does to the generation of every live row; no   *)
(* lemma assumes that the caller's work list or generation is current.     *)
(***************************************************************************)
EXTENDS DeliveryStoreProofs

\* What a step may do to one row: see GenerationFences.
FencedRow(r, q) ==
    r # Absent /\ q # Absent =>
        /\ q.lease_generation >= r.lease_generation
        /\ IsLeased(q) /\ (IsReady(r) \/ r.dept # q.dept) => q.lease_generation > r.lease_generation

Fenced(s, t) == \A j \in Deliveries : FencedRow(s.live[j], t.live[j])

\* A row that is left alone is fenced.
LEMMA SameRowFenced ==
    ASSUME NEW r \in DeliveryRecord \cup {Absent}
    PROVE  FencedRow(r, r)
  BY DEF FencedRow, DeliveryRecord, IsLeased, IsReady

\* A step that leaves the live table alone is fenced.
LEMMA SameLiveFenced ==
    ASSUME NEW s \in Tables, NEW t, t.live = s.live
    PROVE  Fenced(s, t)
  BY SameRowFenced DEF Fenced, Tables

\* Rewriting rows is fenced when it is fenced row by row.
LEMMA PutLiveRowsFenced ==
    ASSUME NEW s \in Tables, NEW ids \in SUBSET Deliveries, NEW f, DOMAIN f = ids,
           \A i \in ids : FencedRow(s.live[i], f[i])
    PROVE  Fenced(s, PutLiveRows(s, f))
  <1>1. PutLiveRows(s, f).live = [i \in Deliveries |-> IF i \in ids THEN f[i] ELSE s.live[i]]
    BY PutLiveRowsFields
  <1>2. \A i \in Deliveries : FencedRow(s.live[i], s.live[i])  BY SameRowFenced DEF Tables
  <1> QED  BY <1>1, <1>2 DEF Fenced

\* The one-row case, applied to tables whose live rows are those of s.
LEMMA PutLiveFenced ==
    ASSUME NEW s \in Tables, NEW t \in Tables, t.live = s.live,
           NEW i \in Deliveries, NEW r, FencedRow(s.live[i], r)
    PROVE  Fenced(s, PutLive(t, i, r))
  <1> DEFINE f == [x \in {i} |-> r]
  <1>1. {i} \in SUBSET Deliveries /\ DOMAIN f = {i} /\ f[i] = r  OBVIOUS
  <1>2. PutLive(t, i, r) = PutLiveRows(t, f)  BY DEF PutLive
  <1> HIDE DEF f
  <1>3. Fenced(t, PutLiveRows(t, f))  BY <1>1, PutLiveRowsFenced
  <1> QED  BY <1>2, <1>3 DEF Fenced

\* Compaction after a fenced step.
LEMMA CompactFenced ==
    ASSUME NEW s \in Tables, NEW t \in Tables, NEW now \in Nat, Fenced(s, t)
    PROVE  Fenced(s, Compact(t, now))
  BY CompactFields DEF Fenced

\* Releasing a lease, or changing nothing that fencing looks at, is fenced as long
\* as the generation and the department stay.
LEMMA ReleasedFenced ==
    ASSUME NEW r \in DeliveryRecord, NEW q \in DeliveryRecord,
           q.lease_generation = r.lease_generation, q.dept = r.dept,
           IsLeased(q) => IsLeased(r)
    PROVE  FencedRow(r, q)
  BY DEF FencedRow, DeliveryRecord, IsLeased, IsReady

\* Removing a row is fenced: there is nothing left to hold.
LEMMA RemovedFenced ==
    ASSUME NEW r
    PROVE  FencedRow(r, Absent)
  BY DEF FencedRow

\* A row inserted where there was none is fenced.
LEMMA InsertedFenced ==
    ASSUME NEW q
    PROVE  FencedRow(Absent, q)
  BY DEF FencedRow

\* enqueue: coalescing keeps the generation, insertion starts a new row.
LEMMA EnqueueFenced ==
    ASSUME NEW s \in Tables, NEW i \in Deliveries, NEW c \in Contents,
           NEW observed_at \in Nat, NEW not_before \in Nat
    PROVE  Fenced(s, Enqueue(s, i, c, observed_at, not_before))
  <1>1. CASE s.live[i] = Absent
    <2>1. Compact(s, observed_at) \in Tables /\ Compact(s, observed_at).live = s.live
      BY CompactFields
    <2> QED  BY <1>1, <2>1, SameLiveFenced, PutLiveFenced, InsertedFenced DEF Enqueue
  <1>2. CASE s.live[i] # Absent /\ (i \notin Keyed \/ ~IsLeased(s.live[i]))
    BY <1>2, SameLiveFenced DEF Enqueue, Coalesce
  <1>3. CASE s.live[i] # Absent /\ i \in Keyed /\ IsLeased(s.live[i])
    <2>1. s.live[i] \in DeliveryRecord  BY <1>3 DEF Tables
    <2>2. CASE s.live[i].lease_until > not_before
      <3> DEFINE row == [s.live[i] EXCEPT !.pending_dirty = TRUE]
                 rows == [s.live EXCEPT ![i] = row]
                 u == [s EXCEPT !.live[i].pending_dirty = TRUE]
      <3>1. Enqueue(s, i, c, observed_at, not_before) = u  BY <1>3, <2>2 DEF Enqueue, Coalesce
      <3>2. row \in DeliveryRecord /\ row.dept = s.live[i].dept
            /\ row.lease_generation = s.live[i].lease_generation
        BY <2>1 DEF DeliveryRecord
      <3>3. u = [s EXCEPT !.live = rows]  BY DEF Tables
      <3>4. \A j \in Deliveries : rows[j] = IF j = i THEN row ELSE s.live[j]  BY DEF Tables
      <3> HIDE DEF row
      <3>5. FencedRow(s.live[i], row)  BY <1>3, <2>1, <3>2, ReleasedFenced
      <3> HIDE DEF rows, u
      <3>6. u.live = rows  BY <3>3 DEF Tables
      <3>7. \A j \in Deliveries : FencedRow(s.live[j], s.live[j])  BY SameRowFenced DEF Tables
      <3> QED  BY <3>1, <3>4, <3>5, <3>6, <3>7 DEF Fenced
    <2>3. CASE ~(s.live[i].lease_until > not_before)
      <3> DEFINE q == [s.live[i] EXCEPT !.lease_until = NoTime]
      <3>1. /\ q \in DeliveryRecord /\ q.lease_until = NoTime
            /\ q.dept = s.live[i].dept /\ q.lease_generation = s.live[i].lease_generation
        BY <2>1 DEF DeliveryRecord, OptionalTime
      <3>2. Enqueue(s, i, c, observed_at, not_before) = PutLive(s, i, q)
        BY <1>3, <2>3 DEF Enqueue, Coalesce
      <3> HIDE DEF q
      <3>3. FencedRow(s.live[i], q)  BY <1>3, <2>1, <3>1, ReleasedFenced
      <3> QED  BY <3>2, <3>3, PutLiveFenced
    <2> QED  BY <2>2, <2>3
  <1> QED  BY <1>1, <1>2, <1>3

\* renew_leases: only rows that are already leased, at their generation.
LEMMA RenewLeasesFenced ==
    ASSUME NEW s \in Tables, NEW ids \in SUBSET Deliveries, NEW held \in [ids -> Nat],
           NEW lease_until \in Nat
    PROVE  Fenced(s, RenewLeases(s, held, lease_until))
  <1> DEFINE kept == {j \in DOMAIN held : HoldsLease(s, j, held[j])}
             f == [i \in kept |-> [s.live[i] EXCEPT !.lease_until = lease_until]]
  <1>1. kept \in SUBSET Deliveries /\ DOMAIN f = kept  OBVIOUS
  <1>2. ASSUME NEW i \in kept PROVE FencedRow(s.live[i], f[i])
    <2>1. s.live[i] \in DeliveryRecord /\ IsLeased(s.live[i])
      BY <1>1 DEF Tables, HoldsLease, IsLeased
    <2>2. /\ f[i] \in DeliveryRecord
          /\ f[i].dept = s.live[i].dept /\ f[i].lease_generation = s.live[i].lease_generation
      BY <2>1 DEF DeliveryRecord, OptionalTime
    <2> HIDE DEF f
    <2> QED  BY <2>1, <2>2, ReleasedFenced
  <1>3. RenewLeases(s, held, lease_until) = PutLiveRows(s, f)  BY DEF RenewLeases
  <1> HIDE DEF kept, f
  <1> QED  BY <1>1, <1>2, <1>3, PutLiveRowsFenced

\* The follow-up of a coalesced signal keeps the generation of the run before it.
LEMMA FollowUpFenced ==
    ASSUME NEW r \in DeliveryRecord, NEW t \in Nat
    PROVE  FencedRow(r, FollowUp(r, t))
  <1> DEFINE q == FollowUp(r, t)
  <1>1. q \in DeliveryRecord  BY FollowUpTyped
  <1>2. q.dept = r.dept /\ q.lease_generation = r.lease_generation /\ q.lease_until = NoTime
    BY DEF FollowUp, DeliveryRecord
  <1> HIDE DEF q
  <1>3. ~IsLeased(q)  BY <1>2 DEF IsLeased
  <1>4. FencedRow(r, q)  BY <1>1, <1>2, <1>3, ReleasedFenced
  <1> QED  BY <1>4 DEF q

\* ack: deletes the row or leaves the follow-up of a coalesced signal.
LEMMA AckFenced ==
    ASSUME NEW s \in Tables, NEW i \in Deliveries, NEW generation \in Nat
    PROVE  Fenced(s, Ack(s, i, generation))
  <1>1. CASE ~HoldsLease(s, i, generation)  BY <1>1, SameLiveFenced DEF Ack
  <1>2. CASE HoldsLease(s, i, generation)
    <2>1. s.live[i] \in DeliveryRecord  BY <1>2 DEF Tables, HoldsLease, IsLeased
    <2>2. s.live[i].not_before \in Nat  BY <2>1 DEF DeliveryRecord
    <2>3. FencedRow(s.live[i], FollowUp(s.live[i], s.live[i].not_before))
      BY <2>1, <2>2, FollowUpFenced
    <2> QED  BY <1>2, <2>3, RemovedFenced, PutLiveFenced DEF Ack
  <1> QED  BY <1>1, <1>2

\* defer_lock_busy: gives the lease up at its generation.
LEMMA DeferLockBusyFenced ==
    ASSUME NEW s \in Tables, NEW i \in Deliveries, NEW generation \in Nat,
           NEW now \in Nat, NEW delay \in Nat
    PROVE  Fenced(s, DeferLockBusy(s, i, generation, now, delay))
  <1>1. CASE ~HoldsLease(s, i, generation)  BY <1>1, SameLiveFenced DEF DeferLockBusy
  <1>2. CASE HoldsLease(s, i, generation)
    <2> DEFINE q == [s.live[i] EXCEPT !.lease_until = NoTime, !.not_before = now + delay]
    <2>1. s.live[i] \in DeliveryRecord  BY <1>2 DEF Tables, HoldsLease, IsLeased
    <2>2. now + delay \in Nat /\ NoTime \in OptionalTime  BY DEF OptionalTime
    <2>3. /\ q \in DeliveryRecord /\ q.lease_until = NoTime
          /\ q.dept = s.live[i].dept /\ q.lease_generation = s.live[i].lease_generation
      BY <2>1, <2>2 DEF DeliveryRecord
    <2>4. DeferLockBusy(s, i, generation, now, delay) = PutLive(s, i, q)
      BY <1>2 DEF DeferLockBusy
    <2> HIDE DEF q
    <2>5. FencedRow(s.live[i], q)  BY <2>1, <2>3, ReleasedFenced DEF IsLeased
    <2> QED  BY <2>4, <2>5, PutLiveFenced
  <1> QED  BY <1>1, <1>2

\* The give-up branch of retry, on a row that carries the generation it had.
LEMMA RetryExhaustedFenced ==
    ASSUME NEW s \in Tables, NEW i \in Deliveries, s.live[i] # Absent, NEW r \in DeliveryRecord,
           r.lease_generation = s.live[i].lease_generation, r.dept = s.live[i].dept,
           NEW replayable \in BOOLEAN, NEW now \in Nat
    PROVE  Fenced(s, RetryExhausted(s, i, r, replayable, now))
  <1> DEFINE dead == DeadLetter(r, now, replayable, "failed")
             promoted == ~replayable /\ HasFollowUp(i, r)
             corpse == [dead EXCEPT !.allows_keyed_reuse = promoted]
             buried == PutDead(s, i, corpse)
             gone == PutLive(buried, i, Absent)
             next == PutLive(buried, i, FollowUp(r, now))
  <1>1. RetryExhausted(s, i, r, replayable, now) =
           IF promoted THEN next ELSE IF replayable THEN gone ELSE Suppress(gone, {i})
    BY DEF RetryExhausted
  <1>2. corpse \in DeadRecord
    <2>1. dead \in DeadRecord  BY DeadLetterTyped
    <2>2. promoted \in BOOLEAN  BY DEF HasFollowUp, DeliveryRecord
    <2> HIDE DEF dead, promoted
    <2> QED  BY <2>1, <2>2 DEF DeadRecord
  <1> HIDE DEF corpse, promoted
  <1>3. buried \in Tables  BY <1>2, PutDeadSafe
  <1>4. buried.live = s.live  BY PutDeadRowsFields DEF PutDead
  <1> HIDE DEF buried
  <1>5. Fenced(s, gone)  BY <1>3, <1>4, RemovedFenced, PutLiveFenced
  <1>6. FencedRow(s.live[i], FollowUp(r, now))
    <2>1. s.live[i] \in DeliveryRecord  BY DEF Tables
    <2>2. FollowUp(r, now) \in DeliveryRecord  BY FollowUpTyped
    <2>3. /\ FollowUp(r, now).lease_generation = r.lease_generation
          /\ FollowUp(r, now).dept = r.dept /\ FollowUp(r, now).lease_until = NoTime
      BY DEF FollowUp, DeliveryRecord
    <2> QED  BY <2>1, <2>2, <2>3, ReleasedFenced DEF IsLeased
  <1>7. Fenced(s, next)  BY <1>3, <1>4, <1>6, PutLiveFenced
  <1>8. gone \in Tables  BY <1>3, PutLiveSafe
  <1> HIDE DEF gone, next
  <1>9. {i} \in SUBSET Deliveries  OBVIOUS
  <1>10. Fenced(s, Suppress(gone, {i}))  BY <1>5, <1>8, <1>9, SuppressFields DEF Fenced
  <1> QED  BY <1>1, <1>5, <1>7, <1>10

\* retry never grants a lease and never moves a row.
LEMMA RetryFenced ==
    ASSUME NEW s \in Tables, NEW i \in Deliveries, NEW generation \in Nat,
           NEW replayable \in BOOLEAN, NEW now \in Nat, NEW delay \in Nat
    PROVE  Fenced(s, Retry(s, i, generation, replayable, now, delay))
  <1> DEFINE outcome == RetryOutcome(s, i, generation, replayable)
             failed == [s.live[i] EXCEPT !.attempt = @ + 1, !.lease_until = NoTime]
             later == [failed EXCEPT !.not_before = now + delay]
  <1>1. CASE IsReady(s.live[i])  BY <1>1, SameLiveFenced DEF Retry
  <1>2. CASE ~IsReady(s.live[i]) /\ outcome \in {"missing", "stale"}
    BY <1>2, SameLiveFenced, CompactFenced DEF Retry
  <1>3. CASE ~IsReady(s.live[i]) /\ outcome \notin {"missing", "stale"}
    <2>1. s.live[i] # Absent /\ s.live[i] \in DeliveryRecord
      BY <1>3 DEF RetryOutcome, Tables
    <2>2. s.live[i].attempt + 1 \in Nat /\ NoTime \in OptionalTime /\ now + delay \in Nat
      BY <2>1 DEF DeliveryRecord, OptionalTime
    <2>3. /\ failed \in DeliveryRecord
          /\ failed.lease_generation = s.live[i].lease_generation
          /\ failed.dept = s.live[i].dept /\ failed.lease_until = NoTime
      BY <2>1, <2>2 DEF DeliveryRecord
    <2>4. Retry(s, i, generation, replayable, now, delay) =
             IF outcome = "scheduled" THEN Compact(PutLive(s, i, later), now)
             ELSE Compact(RetryExhausted(s, i, failed, replayable, now), now)
      BY <1>3 DEF Retry
    <2> HIDE DEF failed, outcome
    <2>5. /\ later \in DeliveryRecord
          /\ later.lease_generation = failed.lease_generation
          /\ later.dept = failed.dept /\ later.lease_until = failed.lease_until
      BY <2>2, <2>3 DEF DeliveryRecord
    <2> HIDE DEF later
    <2>6. FencedRow(s.live[i], later)  BY <2>1, <2>3, <2>5, ReleasedFenced DEF IsLeased
    <2>7. Fenced(s, Compact(PutLive(s, i, later), now))
      BY <2>5, <2>6, PutLiveFenced, PutLiveSafe, CompactFenced
    <2>8. Fenced(s, Compact(RetryExhausted(s, i, failed, replayable, now), now))
      BY <2>1, <2>3, RetryExhaustedFenced, RetryExhaustedSafe, CompactFenced
    <2> QED  BY <2>4, <2>7, <2>8
  <1> QED  BY <1>1, <1>2, <1>3

\* The start-up rebind raises the generation of every leased row it moves.
LEMMA RebindDeliveriesFenced ==
    ASSUME NEW s \in Tables, NEW subscribers \in SubscriberMaps
    PROVE  Fenced(s, RebindDeliveries(s, subscribers))
  <1> DEFINE moving == {i \in Deliveries : /\ s.live[i] # Absent
                                           /\ QueueOf[i] \in DOMAIN subscribers
                                           /\ s.live[i].dept # subscribers[QueueOf[i]]}
             row(i) == [s.live[i] EXCEPT
                          !.dept = subscribers[QueueOf[i]],
                          !.lease_generation = IF IsLeased(s.live[i]) THEN @ + 1 ELSE @]
             f == [i \in moving |-> row(i)]
  <1>1. moving \in SUBSET Deliveries /\ DOMAIN f = moving  OBVIOUS
  <1>2. ASSUME NEW i \in moving PROVE FencedRow(s.live[i], f[i])
    <2>1. s.live[i] \in DeliveryRecord  BY <1>1 DEF Tables
    <2>2. f[i].lease_until = s.live[i].lease_until  BY <2>1 DEF DeliveryRecord
    <2>3. f[i].lease_generation = IF IsLeased(s.live[i]) THEN s.live[i].lease_generation + 1
                                  ELSE s.live[i].lease_generation
      BY <2>1 DEF DeliveryRecord
    <2>4. s.live[i].lease_generation \in Nat  BY <2>1 DEF DeliveryRecord
    <2> HIDE DEF f, moving
    <2>5. IsLeased(f[i]) => IsLeased(s.live[i])
      BY <2>1, <2>2, AbsentAssumption DEF IsLeased
    <2> QED  BY <2>3, <2>4, <2>5 DEF FencedRow
  <1>3. RebindDeliveries(s, subscribers) = PutLiveRows(s, f)  BY DEF RebindDeliveries
  <1> HIDE DEF moving, f
  <1> QED  BY <1>1, <1>2, <1>3, PutLiveRowsFenced

\* redrive_due writes a live row only where there is none; over a live row it
\* gives the dead letter up instead.
LEMMA RedriveFenced ==
    ASSUME NEW s \in Tables, NEW keys \in SUBSET IndexKey,
           NEW subscribers \in SubscriberMaps, NEW now \in Nat
    PROVE  Fenced(s, Redrive(s, keys, subscribers, now))
  <1> DEFINE t == Redrive(s, keys, subscribers, now)
  <1>1. \A i \in Deliveries : s.live[i] # Absent => t.live[i] = s.live[i]  BY RedriveSafe
  <1> HIDE DEF t
  <1>2. \A i \in Deliveries : FencedRow(s.live[i], s.live[i])  BY SameRowFenced DEF Tables
  <1>3. Fenced(s, t)  BY <1>1, <1>2, InsertedFenced DEF Fenced
  <1> QED  BY <1>3 DEF t

\* The subscriber-absence sweep removes a row or rewrites its absence time alone.
LEMMA SweepAbsenceFenced ==
    ASSUME NEW s \in Tables, NEW candidates \in SUBSET Deliveries, NEW queues, NEW now \in Nat
    PROVE  Fenced(s, SweepAbsence(s, candidates, queues, now))
  <1> DEFINE t == SweepAbsence(s, candidates, queues, now)
  <1>1. \A i \in Deliveries : SweptRow(s.live[i], t.live[i])  BY SweepAbsenceSafe
  <1> HIDE DEF t
  <1>2. ASSUME NEW i \in Deliveries PROVE FencedRow(s.live[i], t.live[i])
    <2>1. CASE s.live[i] = Absent  BY <2>1, InsertedFenced
    <2>2. CASE t.live[i] = Absent  BY <2>2, RemovedFenced
    <2>3. CASE t.live[i] = s.live[i]  BY <2>3, SameRowFenced DEF Tables
    <2>4. ASSUME s.live[i] # Absent, NEW since \in OptionalTime,
                 t.live[i] = [s.live[i] EXCEPT !.absent_since = since]
          PROVE  FencedRow(s.live[i], t.live[i])
      <3> DEFINE q == [s.live[i] EXCEPT !.absent_since = since]
      <3>1. s.live[i] \in DeliveryRecord  BY <2>4 DEF Tables
      <3>2. /\ q \in DeliveryRecord /\ q.lease_generation = s.live[i].lease_generation
            /\ q.dept = s.live[i].dept /\ q.lease_until = s.live[i].lease_until
        BY <3>1 DEF DeliveryRecord
      <3>3. t.live[i] = q  BY <2>4
      <3> HIDE DEF q
      <3>4. IsLeased(q) => IsLeased(s.live[i])  BY <2>4, <3>2 DEF IsLeased
      <3> QED  BY <3>1, <3>2, <3>3, <3>4, ReleasedFenced
    <2> QED  BY <1>1, <2>1, <2>2, <2>3, <2>4 DEF SweptRow
  <1>3. Fenced(s, t)  BY <1>2 DEF Fenced
  <1> QED  BY <1>3 DEF t

\* lease adds one generation to every row it grants, ready or expired.
LEMMA LeaseFenced ==
    ASSUME NEW s \in Tables, NEW d \in Depts, NEW excluded, NEW limit, NEW now \in Nat,
           NEW expired \in SUBSET IndexKey, NEW ready \in SUBSET IndexKey
    PROVE  Fenced(s, Lease(s, d, excluded, expired, ready, limit, now))
  <1> DEFINE t == Lease(s, d, excluded, expired, ready, limit, now)
  <1>1. \A i \in Deliveries : \/ t.live[i] = s.live[i]
                              \/ /\ s.live[i] \in DeliveryRecord
                                 /\ t.live[i] = LeaseRow(s.live[i], now)
    BY LeaseSafe
  <1> HIDE DEF t
  <1>2. ASSUME NEW i \in Deliveries PROVE FencedRow(s.live[i], t.live[i])
    <2>1. CASE t.live[i] = s.live[i]  BY <2>1, SameRowFenced DEF Tables
    <2>2. CASE s.live[i] \in DeliveryRecord /\ t.live[i] = LeaseRow(s.live[i], now)
      <3>1. t.live[i].lease_generation = s.live[i].lease_generation + 1
        BY <2>2, LeaseRowTyped
      <3>2. s.live[i].lease_generation \in Nat  BY <2>2 DEF DeliveryRecord
      <3> QED  BY <3>1, <3>2 DEF FencedRow
    <2> QED  BY <1>1, <2>1, <2>2
  <1>3. Fenced(s, t)  BY <1>2 DEF Fenced
  <1> QED  BY <1>3 DEF t

-----------------------------------------------------------------------------

\* Every step of the store is fenced, whoever takes it and however stale the work
\* list or the generation it acts on.
LEMMA StepFenced ==
    ASSUME TypeOK, Next
    PROVE  Fenced(db, db')
  <1> USE TimesAssumption
  <1> DEFINE Goal == Fenced(db, db')
  <1>t. db \in Tables  BY DEF TypeOK
  <1>d. \A attempt : RetryDelays(attempt) \subseteq Nat  BY DEF RetryDelays
  <1>1. ASSUME NEW i \in Deliveries, NEW c \in Contents, NEW observed_at \in Times,
               NEW not_before \in Times, EnqueueDelivery(i, c, observed_at, not_before)
        PROVE  Goal
    BY <1>t, <1>1, EnqueueFenced DEF EnqueueDelivery
  <1>2. ASSUME NEW i \in Deliveries, NEW generation \in 0 .. MaxGeneration,
               AckDelivery(i, generation)
        PROVE  Goal
    BY <1>t, <1>2, AckFenced DEF AckDelivery
  <1>3. ASSUME NEW i \in Deliveries, NEW generation \in 0 .. MaxGeneration, NEW now \in Times,
               RenewDelivery(i, generation, now)
        PROVE  Goal
    <2>1. [x \in {i} |-> generation] \in [{i} -> Nat] /\ {i} \in SUBSET Deliveries  OBVIOUS
    <2>2. now + LeaseDuration \in Nat  BY PolicyAssumption
    <2> QED  BY <1>t, <1>3, <2>1, <2>2, RenewLeasesFenced DEF RenewDelivery
  <1>4. ASSUME NEW i \in Deliveries, NEW generation \in 0 .. MaxGeneration, NEW now \in Times,
               DeferDelivery(i, generation, now)
        PROVE  Goal
    <2>1. PICK delay \in Nat : db' = DeferLockBusy(db, i, generation, now, delay)
      BY <1>d, <1>4 DEF DeferDelivery
    <2> QED  BY <1>t, <2>1, DeferLockBusyFenced
  <1>5. ASSUME NEW i \in Deliveries, NEW generation \in 0 .. MaxGeneration, NEW now \in Times,
               NEW replayable \in BOOLEAN, RetryDelivery(i, generation, replayable, now)
        PROVE  Goal
    <2>1. PICK delay \in Nat : db' = Retry(db, i, generation, replayable, now, delay)
      BY <1>d, <1>5 DEF RetryDelivery
    <2> QED  BY <1>t, <2>1, RetryFenced
  <1>6. ASSUME NEW subscribers \in SubscriberMaps, Rebind(subscribers)
        PROVE  Goal
    BY <1>t, <1>6, RebindDeliveriesFenced DEF Rebind
  <1>7. ASSUME NEW c \in Callers, FinishLease(c)
        PROVE  Goal
    <2>1. calls[c] \in LeaseCall  BY <1>7, CallsTyped DEF FinishLease
    <2> QED  BY <1>t, <1>7, <2>1, LeaseFenced DEF FinishLease, LeaseCall
  <1>8. ASSUME NEW c \in Callers, FinishRedrive(c)
        PROVE  Goal
    <2>1. calls[c] \in RedriveCall  BY <1>8, CallsTyped DEF FinishRedrive
    <2> QED  BY <1>t, <1>8, <2>1, RedriveFenced DEF FinishRedrive, RedriveCall
  <1>9. ASSUME NEW c \in Callers, FinishSweep(c)
        PROVE  Goal
    <2>1. calls[c] \in SweepCall  BY <1>9, CallsTyped DEF FinishSweep
    <2> QED  BY <1>t, <1>9, <2>1, SweepAbsenceFenced DEF FinishSweep, SweepCall
  <1>10. ASSUME UNCHANGED db PROVE Goal  BY <1>t, <1>10, SameLiveFenced
  <1> HIDE DEF Goal
  <1>11. ASSUME NEW c \in Callers, NEW now \in Times, NEW d \in Depts,
                NEW excluded \in SUBSET Deliveries, NEW limit \in 1 .. BatchLimit,
                BeginLease(c, d, excluded, limit, now)
         PROVE  Goal
    BY <1>10, <1>11 DEF BeginLease
  <1>12. ASSUME NEW c \in Callers, NEW now \in Times, NEW subscribers \in SubscriberMaps,
                BeginRedrive(c, subscribers, now)
         PROVE  Goal
    BY <1>10, <1>12 DEF BeginRedrive
  <1>13. ASSUME NEW c \in Callers, NEW now \in Times, NEW queues \in SUBSET Queues,
                BeginSweep(c, queues, now)
         PROVE  Goal
    BY <1>10, <1>13 DEF BeginSweep
  <1>14. Goal
    BY <1>1, <1>2, <1>3, <1>4, <1>5, <1>6, <1>7, <1>8, <1>9, <1>11, <1>12, <1>13 DEF Next
  <1> QED  BY <1>14 DEF Goal

\* lease raises the generation of every row it returns, also of one that is still
\* leased to a holder whose lease has expired.
LEMMA LeaseRaises ==
    ASSUME NEW s \in Tables, NEW d \in Depts, NEW excluded, NEW limit, NEW now \in Nat,
           NEW expired \in SUBSET IndexKey, NEW ready \in SUBSET IndexKey,
           NEW i \in LeasedIds(s, d, excluded, expired, ready, limit, now)
    PROVE  Lease(s, d, excluded, expired, ready, limit, now).live[i].lease_generation
              > s.live[i].lease_generation
  <1> DEFINE t == Lease(s, d, excluded, expired, ready, limit, now)
             ids == LeasedIds(s, d, excluded, expired, ready, limit, now)
             r == s.live[i]
  <1>1. t.live = [j \in Deliveries |-> IF j \in ids THEN LeaseRow(s.live[j], now) ELSE s.live[j]]
    BY DEF Lease, Tables
  <1>2. i \in Deliveries /\ r # Absent
    BY ZenonT(40) DEF LeasedIds, LeasedExpired, LeasedReady, Leasable, IsReady
  <1>3. i \in ids  OBVIOUS
  <1> HIDE DEF t, ids
  <1>4. t.live[i] = LeaseRow(r, now)  BY <1>1, <1>2, <1>3
  <1>5. r \in DeliveryRecord  BY <1>2 DEF Tables
  <1> HIDE DEF r
  <1>6. t.live[i].lease_generation = r.lease_generation + 1  BY <1>4, <1>5, LeaseRowTyped
  <1>7. r.lease_generation \in Nat  BY <1>5 DEF DeliveryRecord
  <1>8. t.live[i].lease_generation > r.lease_generation  BY <1>6, <1>7
  <1> QED  BY <1>8 DEF t, r

\* A caller that has read the work list of a lease call leaves it by finishing the
\* call, and no other step does it for them.
LEMMA LeaseCallEnds ==
    ASSUME TypeOK, [Next]_vars, NEW c \in Callers, calls[c].op = "lease", calls'[c] # calls[c]
    PROVE  FinishLease(c)
  <1>1. calls \in [Callers -> LeaseCall \cup RedriveCall \cup SweepCall \cup {Idle}]
    BY DEF TypeOK
  <1>2. ASSUME NEW b \in Callers, NEW x, calls' = [calls EXCEPT ![b] = x]
        PROVE  b = c
    BY <1>1, <1>2
  <1>3. calls[c] # Idle  BY DEF Idle
  <1>4. ASSUME NEW b \in Callers, FinishLease(b) PROVE FinishLease(c)
    <2>1. b = c  BY <1>2, <1>4 DEF FinishLease
    <2> QED  BY <1>4, <2>1
  <1>5. ASSUME NEW b \in Callers, FinishRedrive(b) PROVE FALSE
    <2>1. b = c  BY <1>2, <1>5 DEF FinishRedrive
    <2> QED  BY <1>5, <2>1 DEF FinishRedrive
  <1>6. ASSUME NEW b \in Callers, FinishSweep(b) PROVE FALSE
    <2>1. b = c  BY <1>2, <1>6 DEF FinishSweep
    <2> QED  BY <1>6, <2>1 DEF FinishSweep
  <1>7. ASSUME NEW b \in Callers, NEW now, NEW d, NEW excluded, NEW limit,
               BeginLease(b, d, excluded, limit, now)
        PROVE  FALSE
    <2>1. b = c  BY <1>2, <1>7 DEF BeginLease
    <2> QED  BY <1>3, <1>7, <2>1 DEF BeginLease
  <1>8. ASSUME NEW b \in Callers, NEW now, NEW subscribers, BeginRedrive(b, subscribers, now)
        PROVE  FALSE
    <2>1. b = c  BY <1>2, <1>8 DEF BeginRedrive
    <2> QED  BY <1>3, <1>8, <2>1 DEF BeginRedrive
  <1>9. ASSUME NEW b \in Callers, NEW now, NEW queues, BeginSweep(b, queues, now)
        PROVE  FALSE
    <2>1. b = c  BY <1>2, <1>9 DEF BeginSweep
    <2> QED  BY <1>3, <1>9, <2>1 DEF BeginSweep
  <1>10. ASSUME UNCHANGED calls PROVE FALSE  BY <1>10
  <1>11. ASSUME NEW i, NEW x, NEW y, NEW z,
                \/ EnqueueDelivery(i, x, y, z) \/ AckDelivery(i, x) \/ RenewDelivery(i, x, y)
                \/ DeferDelivery(i, x, y) \/ RetryDelivery(i, x, y, z) \/ Rebind(x)
         PROVE  FALSE
    BY <1>10, <1>11 DEF EnqueueDelivery, AckDelivery, RenewDelivery, DeferDelivery,
                        RetryDelivery, Rebind
  <1>12. Next  BY <1>10 DEF vars
  <1> QED
    <2>1. CASE \E i \in Deliveries, x \in Contents, y, z \in Times : EnqueueDelivery(i, x, y, z)
      BY <1>11, <2>1
    <2>2. CASE \E i \in Deliveries, g \in 0 .. MaxGeneration : AckDelivery(i, g)
      BY <1>11, <2>2
    <2>3. CASE \E i \in Deliveries, g \in 0 .. MaxGeneration, now \in Times :
                  \/ RenewDelivery(i, g, now)
                  \/ DeferDelivery(i, g, now)
                  \/ \E replayable \in BOOLEAN : RetryDelivery(i, g, replayable, now)
      BY <1>11, <2>3
    <2>4. CASE \E subscribers \in SubscriberMaps : Rebind(subscribers)
      BY <1>11, <2>4
    <2>5. CASE \E b \in Callers, now \in Times :
                  \/ \E d \in Depts, excluded \in SUBSET Deliveries, limit \in 1 .. BatchLimit :
                        BeginLease(b, d, excluded, limit, now)
                  \/ \E subscribers \in SubscriberMaps : BeginRedrive(b, subscribers, now)
                  \/ \E queues \in SUBSET Queues : BeginSweep(b, queues, now)
      BY <1>7, <1>8, <1>9, <2>5
    <2>6. CASE \E b \in Callers : FinishLease(b) \/ FinishRedrive(b) \/ FinishSweep(b)
      BY <1>4, <1>5, <1>6, <2>6
    <2> QED  BY <1>12, <2>1, <2>2, <2>3, <2>4, <2>5, <2>6 DEF Next

\* Every row that a finishing lease call returns to its caller has a new generation.
LEMMA GrantsRaise ==
    ASSUME TypeOK, [Next]_vars, NEW c \in Callers, calls'[c] # calls[c], NEW i \in GrantedTo(c)
    PROVE  db'.live[i].lease_generation > db.live[i].lease_generation
  <1> DEFINE p == calls[c]
  <1>1. /\ p.op = "lease"
        /\ i \in LeasedIds(db, p.dept, p.excluded, p.expired, p.ready, p.limit, p.now)
    BY DEF GrantedTo
  <1>2. FinishLease(c)  BY <1>1, LeaseCallEnds
  <1>3. db' = Lease(db, p.dept, p.excluded, p.expired, p.ready, p.limit, p.now)
    BY <1>2 DEF FinishLease
  <1>4. p \in LeaseCall  BY <1>1, CallsTyped
  <1>5. db \in Tables  BY DEF TypeOK
  <1> HIDE DEF p
  <1>6. p.dept \in Depts /\ p.expired \in SUBSET IndexKey /\ p.ready \in SUBSET IndexKey
        /\ p.now \in Nat
    BY <1>4, TimesAssumption DEF LeaseCall
  <1> QED  BY <1>1, <1>3, <1>5, <1>6, LeaseRaises

\* Fencing holds for any number of concurrent callers: while a row stays live its
\* generation never goes back, and a lease call that returns the row raises it, from
\* ready and from the expired lease of another holder alike, and so does moving a
\* leased row.  So the ack, renewal or retry of an earlier holder can never match.
THEOREM LeasesFenced == Spec => GenerationFences
  <1> DEFINE Step ==
          /\ \A i \in Deliveries : db.live[i] # Absent /\ db'.live[i] # Absent =>
                /\ db'.live[i].lease_generation >= db.live[i].lease_generation
                /\ /\ IsLeased(db'.live[i])
                   /\ IsReady(db.live[i]) \/ db.live[i].dept # db'.live[i].dept
                   => db'.live[i].lease_generation > db.live[i].lease_generation
          /\ \A c \in Callers : calls'[c] # calls[c] =>
                \A i \in GrantedTo(c) :
                   db'.live[i].lease_generation > db.live[i].lease_generation
  <1>1. ASSUME TypeOK, [Next]_vars PROVE [Step]_vars
    <2>1. CASE UNCHANGED vars  BY <2>1
    <2>2. CASE Next
      <3>1. \A c \in Callers : calls'[c] # calls[c] =>
               \A i \in GrantedTo(c) :
                  db'.live[i].lease_generation > db.live[i].lease_generation
        BY <1>1, GrantsRaise
      <3> QED  BY <1>1, <2>2, <3>1, StepFenced DEF Fenced, FencedRow
    <2> QED  BY <1>1, <2>1, <2>2
  <1>2. TypeOK /\ [Next]_vars => [Step]_vars  BY <1>1
  <1> QED  BY <1>2, TypeCorrect, PTL DEF Spec, GenerationFences
=============================================================================
