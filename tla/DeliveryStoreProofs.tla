------------------------- MODULE DeliveryStoreProofs -------------------------
EXTENDS DeliveryStore, TLAPS

(* Proofs about the delivery store, for any ids, departments and callers.  *)
(* The inductive invariant is TypeOK /\ LiveIndexed(db).  Each transaction  *)
(* of DeliveryTables has one lemma: it keeps the tables well formed and     *)
(* every live row under its index key.  The lemmas do not assume that a     *)
(* work list is current, because the code collects it in one transaction    *)
(* and applies it in another.                                               *)

-----------------------------------------------------------------------------
(* Rows.                                                                   *)

\* The index entries of a well-formed row are well-formed keys of the index tables.
LEMMA KeysTyped ==
    ASSUME NEW i \in Deliveries, NEW r \in DeliveryRecord \cup {Absent},
           NEW d \in DeadRecord \cup {Absent}
    PROVE  /\ ReadyKeys(i, r) \subseteq IndexKey
           /\ LeaseKeys(i, r) \subseteq IndexKey
           /\ LiveLineage(i, r) \subseteq LineageKey
           /\ DeadKeys(i, d) \subseteq IndexKey
           /\ DeadTimeKeys(i, d) \subseteq TimeKey
           /\ DueKeys(i, d) \subseteq IndexKey
           /\ TerminalKeys(i, d) \subseteq IndexKey
           /\ DeadLineage(i, d) \subseteq LineageKey
  BY IdsAssumption, AbsentAssumption
     DEF ReadyKeys, LeaseKeys, LiveLineage, DeadKeys, DeadTimeKeys, DueKeys, TerminalKeys,
         DeadLineage, IsReady, IsLeased, IsTerminal, IsTombstone, Redrivable, IndexKey, TimeKey,
         LineageKey, DeliveryRecord, DeadRecord, OptionalTime, NoTime

\* Leasing a row keeps its department, dates the lease and adds one generation.
LEMMA LeaseRowTyped ==
    ASSUME NEW r \in DeliveryRecord, NEW now \in Nat
    PROVE  /\ LeaseRow(r, now) \in DeliveryRecord
           /\ LeaseRow(r, now).dept = r.dept
           /\ LeaseRow(r, now).lease_until = now + LeaseDuration
           /\ LeaseRow(r, now).lease_generation = r.lease_generation + 1
  <1>1. r.lease_generation + 1 \in Nat  BY DEF DeliveryRecord
  <1>2. now + LeaseDuration \in OptionalTime  BY PolicyAssumption DEF OptionalTime
  <1>3. LeaseRow(r, now) \in DeliveryRecord  BY <1>1, <1>2 DEF LeaseRow, DeliveryRecord
  <1>4. LeaseRow(r, now).dept = r.dept  BY DEF LeaseRow, DeliveryRecord
  <1>5. LeaseRow(r, now).lease_until = now + LeaseDuration  BY DEF LeaseRow, DeliveryRecord
  <1>6. LeaseRow(r, now).lease_generation = r.lease_generation + 1
    BY DEF LeaseRow, DeliveryRecord
  <1> QED  BY <1>3, <1>4, <1>5, <1>6

\* The row ack and retry re-queue for a signal coalesced during a lease is well formed.
LEMMA FollowUpTyped ==
    ASSUME NEW r \in DeliveryRecord, NEW t \in Nat
    PROVE  FollowUp(r, t) \in DeliveryRecord
  <1>1. NoTime \in OptionalTime /\ 0 \in Nat  BY DEF OptionalTime
  <1> QED  BY <1>1 DEF FollowUp, DeliveryRecord

\* The tombstone written for a delivery that failed is a well-formed dead row.
LEMMA DeadLetterTyped ==
    ASSUME NEW r \in DeliveryRecord, NEW t \in Nat, NEW replayable \in BOOLEAN,
           NEW reason \in {"failed", "subscriber_absent", "collision"}
    PROVE  DeadLetter(r, t, replayable, reason) \in DeadRecord
  BY DEF DeadLetter, DeadRecord, DeliveryRecord

\* The row enqueue inserts is well formed.
LEMMA NewRecordTyped ==
    ASSUME NEW i \in Deliveries, NEW c \in Contents, NEW t \in Nat
    PROVE  NewRecord(i, c, t) \in DeliveryRecord
  BY IdsAssumption DEF NewRecord, DeliveryRecord, OptionalTime

\* What rewriting live rows with their index entries does to each table.
LEMMA PutLiveRowsFields ==
    ASSUME NEW s \in Tables, NEW f
    PROVE  /\ PutLiveRows(s, f).live = [i \in Deliveries |-> IF i \in DOMAIN f THEN f[i] ELSE s.live[i]]
           /\ PutLiveRows(s, f).dead = s.dead
           /\ PutLiveRows(s, f).ready = (s.ready \ UNION {ReadyKeys(i, s.live[i]) : i \in DOMAIN f})
                         \cup UNION {ReadyKeys(i, f[i]) : i \in DOMAIN f}
           /\ PutLiveRows(s, f).leased = (s.leased \ UNION {LeaseKeys(i, s.live[i]) : i \in DOMAIN f})
                         \cup UNION {LeaseKeys(i, f[i]) : i \in DOMAIN f}
           /\ PutLiveRows(s, f).lineage = (s.lineage \ UNION {LiveLineage(i, s.live[i]) : i \in DOMAIN f})
                         \cup UNION {LiveLineage(i, f[i]) : i \in DOMAIN f}
           /\ PutLiveRows(s, f).dead_due = s.dead_due
           /\ PutLiveRows(s, f).dead_time = s.dead_time
           /\ PutLiveRows(s, f).terminal = s.terminal
           /\ PutLiveRows(s, f).suppressed = s.suppressed
  BY DEF PutLiveRows, Tables

\* Rewriting live rows keeps the tables well formed.
LEMMA PutLiveRowsTyped ==
    ASSUME NEW s \in Tables, NEW ids \in SUBSET Deliveries,
           NEW f \in [ids -> DeliveryRecord \cup {Absent}]
    PROVE  PutLiveRows(s, f) \in Tables
  <1> DEFINE live == [i \in Deliveries |-> IF i \in ids THEN f[i] ELSE s.live[i]]
             ready == (s.ready \ UNION {ReadyKeys(i, s.live[i]) : i \in ids})
                         \cup UNION {ReadyKeys(i, f[i]) : i \in ids}
             leased == (s.leased \ UNION {LeaseKeys(i, s.live[i]) : i \in ids})
                         \cup UNION {LeaseKeys(i, f[i]) : i \in ids}
             lineage == (s.lineage \ UNION {LiveLineage(i, s.live[i]) : i \in ids})
                         \cup UNION {LiveLineage(i, f[i]) : i \in ids}
  <1>1. live \in [Deliveries -> DeliveryRecord \cup {Absent}]  BY DEF Tables
  <1>2. ready \in SUBSET IndexKey  BY KeysTyped DEF Tables
  <1>3. leased \in SUBSET IndexKey  BY KeysTyped DEF Tables
  <1>4. lineage \in SUBSET LineageKey  BY KeysTyped DEF Tables
  <1>5. PutLiveRows(s, f) =
          [s EXCEPT !.live = live, !.ready = ready, !.leased = leased, !.lineage = lineage]
    BY DEF PutLiveRows
  <1> HIDE DEF live, ready, leased, lineage
  <1> QED  BY <1>1, <1>2, <1>3, <1>4, <1>5 DEF Tables

\* What rewriting dead rows with their index entries does to each table.
LEMMA PutDeadRowsFields ==
    ASSUME NEW s \in Tables, NEW f
    PROVE  /\ PutDeadRows(s, f).dead =
                 [i \in Deliveries |-> IF i \in DOMAIN f THEN f[i] ELSE s.dead[i]]
           /\ PutDeadRows(s, f).dead_time =
                 (s.dead_time \ UNION {DeadTimeKeys(i, s.dead[i]) : i \in DOMAIN f})
                    \cup UNION {DeadTimeKeys(i, f[i]) : i \in DOMAIN f}
           /\ PutDeadRows(s, f).dead_due =
                 (s.dead_due \ UNION {DeadKeys(i, s.dead[i]) : i \in DOMAIN f})
                    \cup UNION {DueKeys(i, f[i]) : i \in DOMAIN f}
           /\ PutDeadRows(s, f).terminal =
                 (s.terminal \ UNION {DeadKeys(i, s.dead[i]) : i \in DOMAIN f})
                    \cup UNION {TerminalKeys(i, f[i]) : i \in DOMAIN f}
           /\ PutDeadRows(s, f).live = s.live
           /\ PutDeadRows(s, f).ready = s.ready
           /\ PutDeadRows(s, f).leased = s.leased
           /\ PutDeadRows(s, f).suppressed = s.suppressed
  BY DEF PutDeadRows, Tables

\* Rewriting dead rows keeps the tables well formed.
LEMMA PutDeadRowsTyped ==
    ASSUME NEW s \in Tables, NEW ids \in SUBSET Deliveries,
           NEW f \in [ids -> DeadRecord \cup {Absent}]
    PROVE  PutDeadRows(s, f) \in Tables
  <1> DEFINE dead == [i \in Deliveries |-> IF i \in ids THEN f[i] ELSE s.dead[i]]
             time == (s.dead_time \ UNION {DeadTimeKeys(i, s.dead[i]) : i \in ids})
                        \cup UNION {DeadTimeKeys(i, f[i]) : i \in ids}
             due  == (s.dead_due \ UNION {DeadKeys(i, s.dead[i]) : i \in ids})
                        \cup UNION {DueKeys(i, f[i]) : i \in ids}
             term == (s.terminal \ UNION {DeadKeys(i, s.dead[i]) : i \in ids})
                        \cup UNION {TerminalKeys(i, f[i]) : i \in ids}
             lin  == (s.lineage \ UNION {DeadLineage(i, s.dead[i]) : i \in ids})
                        \cup UNION {DeadLineage(i, f[i]) : i \in ids}
  <1>1. dead \in [Deliveries -> DeadRecord \cup {Absent}]  BY DEF Tables
  <1>2. time \in SUBSET TimeKey  BY KeysTyped DEF Tables
  <1>3. due \in SUBSET IndexKey  BY KeysTyped DEF Tables
  <1>4. term \in SUBSET IndexKey  BY KeysTyped DEF Tables
  <1>5. lin \in SUBSET LineageKey  BY KeysTyped DEF Tables
  <1>6. PutDeadRows(s, f) = [s EXCEPT !.dead = dead, !.dead_time = time, !.dead_due = due,
                                      !.terminal = term, !.lineage = lin]
    BY DEF PutDeadRows
  <1> HIDE DEF dead, time, due, term, lin
  <1> QED  BY <1>1, <1>2, <1>3, <1>4, <1>5, <1>6 DEF Tables

\* Suppressing ids changes the suppression table and no other.
LEMMA SuppressFields ==
    ASSUME NEW s \in Tables, NEW ids \in SUBSET Deliveries
    PROVE  /\ Suppress(s, ids) \in Tables
           /\ Suppress(s, ids).live = s.live
           /\ Suppress(s, ids).dead = s.dead
           /\ Suppress(s, ids).ready = s.ready
           /\ Suppress(s, ids).leased = s.leased
           /\ Suppress(s, ids).dead_time = s.dead_time
           /\ Suppress(s, ids).dead_due = s.dead_due
           /\ Suppress(s, ids).terminal = s.terminal
           /\ Suppress(s, ids).suppressed = s.suppressed \cup ids
  <1>1. s.suppressed \cup ids \in SUBSET Deliveries  BY DEF Tables
  <1>2. Suppress(s, ids) \in Tables  BY <1>1 DEF Suppress, Tables
  <1> QED  BY <1>2 DEF Suppress, Tables

\* A bounded index scan returns keys of the index it scans.
LEMMA FirstSubset ==
    ASSUME NEW n, NEW keys
    PROVE  First(n, keys) \subseteq keys
  BY DEF First

\* Tombstone compaction keeps the live side and never forgets a suppressed id.
LEMMA CompactFields ==
    ASSUME NEW s \in Tables, NEW now \in Nat
    PROVE  /\ Compact(s, now) \in Tables
           /\ Compact(s, now).live = s.live
           /\ Compact(s, now).ready = s.ready
           /\ Compact(s, now).leased = s.leased
           /\ s.suppressed \subseteq Compact(s, now).suppressed
  <1> DEFINE keys  == CompactableKeys(s, now)
             exact == {k \in keys : IsTerminal(s.dead[k[3]]) /\ s.dead[k[3]].dead_at = k[2]}
             gone  == {k[3] : k \in exact}
             stale == keys \ exact
             moved == {i \in {k[3] : k \in stale} \ gone : s.dead[i] # Absent}
             dead  == [i \in Deliveries |-> IF i \in gone THEN Absent ELSE s.dead[i]]
             time  == (s.dead_time \ {<<k[2], k[3]>> : k \in keys})
                            \cup UNION {DeadTimeKeys(i, s.dead[i]) : i \in moved}
             due   == s.dead_due \ UNION {DeadKeys(i, s.dead[i]) : i \in gone}
             term  == (s.terminal \ keys) \cup UNION {TerminalKeys(i, s.dead[i]) : i \in moved}
             lin   == s.lineage \ UNION {DeadLineage(i, s.dead[i]) : i \in gone}
             supp  == s.suppressed \cup {i \in moved : IsTerminal(s.dead[i])
                                               /\ ~s.dead[i].allows_keyed_reuse}
  <1>1. keys \subseteq IndexKey  BY FirstSubset DEF CompactableKeys, Tables
  <1>2. moved \subseteq Deliveries  BY <1>1 DEF IndexKey
  <1>3. dead \in [Deliveries -> DeadRecord \cup {Absent}]  BY DEF Tables
  <1>4. time \in SUBSET TimeKey  BY <1>2, KeysTyped DEF Tables
  <1>5. due \in SUBSET IndexKey  BY DEF Tables
  <1>6. term \in SUBSET IndexKey  BY <1>2, KeysTyped DEF Tables
  <1>7. lin \in SUBSET LineageKey  BY DEF Tables
  <1>8. supp \in SUBSET Deliveries  BY <1>2 DEF Tables
  <1>9. Compact(s, now) = [s EXCEPT !.dead = dead, !.dead_time = time, !.dead_due = due,
                                    !.terminal = term, !.lineage = lin, !.suppressed = supp]
    BY DEF Compact
  <1>10. s.suppressed \subseteq supp  OBVIOUS
  <1> HIDE DEF dead, time, due, term, lin, supp
  <1>11. Compact(s, now) \in Tables  BY <1>3, <1>4, <1>5, <1>6, <1>7, <1>8, <1>9 DEF Tables
  <1> QED  BY <1>9, <1>10, <1>11 DEF Tables

-----------------------------------------------------------------------------
(* Every transaction keeps the live rows indexed.                          *)

\* An index key names the id of its row.
LEMMA KeysNameTheirRow ==
    ASSUME NEW i, NEW r, NEW k
    PROVE  /\ k \in ReadyKeys(i, r) => k[3] = i
           /\ k \in LeaseKeys(i, r) => k[3] = i
  BY DEF ReadyKeys, LeaseKeys

\* Rewriting live rows through their index entries leaves every live row indexed,
\* since an entry names its id and so never belongs to another row.
LEMMA PutLiveRowsIndexed ==
    ASSUME NEW s \in Tables, NEW ids \in SUBSET Deliveries,
           NEW f \in [ids -> DeliveryRecord \cup {Absent}], LiveIndexed(s)
    PROVE  LiveIndexed(PutLiveRows(s, f))
  <1> DEFINE t == PutLiveRows(s, f)
  <1>1. SUFFICES ASSUME NEW i \in Deliveries
                 PROVE  ReadyKeys(i, t.live[i]) \subseteq t.ready
                        /\ LeaseKeys(i, t.live[i]) \subseteq t.leased
    BY DEF LiveIndexed
  <1>2. /\ t.live = [j \in Deliveries |-> IF j \in ids THEN f[j] ELSE s.live[j]]
        /\ t.ready = (s.ready \ UNION {ReadyKeys(j, s.live[j]) : j \in ids})
                         \cup UNION {ReadyKeys(j, f[j]) : j \in ids}
        /\ t.leased = (s.leased \ UNION {LeaseKeys(j, s.live[j]) : j \in ids})
                         \cup UNION {LeaseKeys(j, f[j]) : j \in ids}
    BY PutLiveRowsFields
  <1> HIDE DEF t
  <1>3. CASE i \in ids
    BY <1>2, <1>3
  <1>4. CASE i \notin ids
    <2>1. t.live[i] = s.live[i]  BY <1>2, <1>4
    <2>2. ReadyKeys(i, s.live[i]) \subseteq s.ready /\ LeaseKeys(i, s.live[i]) \subseteq s.leased
      BY DEF LiveIndexed
    <2>3. \A k \in ReadyKeys(i, s.live[i]) \cup LeaseKeys(i, s.live[i]) : k[3] = i
      BY KeysNameTheirRow
    <2>4. ReadyKeys(i, s.live[i]) \subseteq t.ready
      BY <1>2, <1>4, <2>2, <2>3, KeysNameTheirRow
    <2>5. LeaseKeys(i, s.live[i]) \subseteq t.leased
      BY <1>2, <1>4, <2>2, <2>3, KeysNameTheirRow
    <2> QED  BY <2>1, <2>4, <2>5
  <1> QED  BY <1>3, <1>4

\* A step that leaves the live table and its two indexes alone.
LEMMA SameLiveIndexed ==
    ASSUME NEW s, NEW t, LiveIndexed(s),
           t.live = s.live, t.ready = s.ready, t.leased = s.leased
    PROVE  LiveIndexed(t)
  BY DEF LiveIndexed

\* The one-row case, as the transactions use it.
LEMMA PutLiveSafe ==
    ASSUME NEW s \in Tables, NEW i \in Deliveries, NEW r \in DeliveryRecord \cup {Absent}
    PROVE  /\ PutLive(s, i, r) \in Tables
           /\ LiveIndexed(s) => LiveIndexed(PutLive(s, i, r))
  <1>1. {i} \in SUBSET Deliveries /\ [x \in {i} |-> r] \in [{i} -> DeliveryRecord \cup {Absent}]
    OBVIOUS
  <1> QED  BY <1>1, PutLiveRowsTyped, PutLiveRowsIndexed DEF PutLive

\* Rewriting a dead row leaves the live side alone.
LEMMA PutDeadSafe ==
    ASSUME NEW s \in Tables, NEW i \in Deliveries, NEW d \in DeadRecord \cup {Absent}
    PROVE  /\ PutDead(s, i, d) \in Tables
           /\ LiveIndexed(s) => LiveIndexed(PutDead(s, i, d))
  <1>1. {i} \in SUBSET Deliveries /\ [x \in {i} |-> d] \in [{i} -> DeadRecord \cup {Absent}]
    OBVIOUS
  <1>2. PutDead(s, i, d) \in Tables  BY <1>1, PutDeadRowsTyped DEF PutDead
  <1> QED  BY <1>2, PutDeadRowsFields, SameLiveIndexed DEF PutDead

\* Compaction, which enqueue runs inside its own transaction, keeps the live index.
LEMMA CompactSafe ==
    ASSUME NEW s \in Tables, NEW now \in Nat
    PROVE  /\ Compact(s, now) \in Tables
           /\ LiveIndexed(s) => LiveIndexed(Compact(s, now))
  BY CompactFields, SameLiveIndexed

\* A keyed duplicate moves its row from the leased to the ready index only with the row.
LEMMA CoalesceSafe ==
    ASSUME NEW s \in Tables, NEW i \in Deliveries, NEW t \in Nat, s.live[i] # Absent
    PROVE  /\ Coalesce(s, i, t) \in Tables
           /\ LiveIndexed(s) => LiveIndexed(Coalesce(s, i, t))
  <1>1. s.live[i] \in DeliveryRecord  BY DEF Tables
  <1>2. CASE ~IsLeased(s.live[i])  BY <1>2 DEF Coalesce
  <1>3. CASE IsLeased(s.live[i]) /\ s.live[i].lease_until > t
    <2> DEFINE u == [s EXCEPT !.live[i].pending_dirty = TRUE]
               row == [s.live[i] EXCEPT !.pending_dirty = TRUE]
               rows == [s.live EXCEPT ![i] = row]
    <2>1. Coalesce(s, i, t) = u  BY <1>3 DEF Coalesce
    <2>2. row \in DeliveryRecord  BY <1>1 DEF DeliveryRecord
    <2>3. /\ row.dept = s.live[i].dept
          /\ row.not_before = s.live[i].not_before
          /\ row.lease_until = s.live[i].lease_until
      BY <1>1 DEF DeliveryRecord
    <2>4. rows \in [Deliveries -> DeliveryRecord \cup {Absent}]  BY <2>2 DEF Tables
    <2>5. u = [s EXCEPT !.live = rows]  BY DEF Tables
    <2>6. \A j \in Deliveries : rows[j] = IF j = i THEN row ELSE s.live[j]  BY DEF Tables
    <2>7. row # Absent  BY <2>2, AbsentAssumption
    <2> HIDE DEF row
    <2>8. \A j \in Deliveries : /\ ReadyKeys(j, rows[j]) = ReadyKeys(j, s.live[j])
                                /\ LeaseKeys(j, rows[j]) = LeaseKeys(j, s.live[j])
      BY <1>1, <1>3, <2>3, <2>6, <2>7 DEF ReadyKeys, LeaseKeys, IsReady, IsLeased
    <2> HIDE DEF rows, u
    <2>9. u \in Tables /\ u.live = rows /\ u.ready = s.ready /\ u.leased = s.leased
      BY <2>4, <2>5 DEF Tables
    <2> QED  BY <2>1, <2>8, <2>9 DEF LiveIndexed
  <1>4. CASE IsLeased(s.live[i]) /\ ~(s.live[i].lease_until > t)
    <2>1. NoTime \in OptionalTime  BY DEF OptionalTime
    <2>2. [s.live[i] EXCEPT !.lease_until = NoTime] \in DeliveryRecord
      BY <1>1, <2>1 DEF DeliveryRecord
    <2> QED  BY <1>4, <2>2, PutLiveSafe DEF Coalesce
  <1> QED  BY <1>2, <1>3, <1>4

\* enqueue, on every branch: suppressed, coalesced, collision, reuse and insert.
LEMMA EnqueueSafe ==
    ASSUME NEW s \in Tables, NEW i \in Deliveries, NEW c \in Contents,
           NEW observed_at \in Nat, NEW not_before \in Nat
    PROVE  LET t == Enqueue(s, i, c, observed_at, not_before)
           IN t \in Tables /\ (LiveIndexed(s) => LiveIndexed(t))
  <1>1. CASE s.live[i] # Absent
    BY <1>1, CoalesceSafe DEF Enqueue
  <1>2. CASE s.live[i] = Absent
    BY <1>2, CompactSafe, PutLiveSafe, NewRecordTyped DEF Enqueue
  <1> QED  BY <1>1, <1>2

\* renew_leases, whatever generations the caller still holds.
LEMMA RenewLeasesSafe ==
    ASSUME NEW s \in Tables, NEW ids \in SUBSET Deliveries, NEW held \in [ids -> Nat],
           NEW lease_until \in Nat
    PROVE  LET t == RenewLeases(s, held, lease_until)
           IN t \in Tables /\ (LiveIndexed(s) => LiveIndexed(t))
  <1> DEFINE kept == {j \in DOMAIN held : HoldsLease(s, j, held[j])}
             f == [i \in kept |-> [s.live[i] EXCEPT !.lease_until = lease_until]]
  <1>1. kept \in SUBSET Deliveries  OBVIOUS
  <1>2. ASSUME NEW i \in kept
        PROVE  [s.live[i] EXCEPT !.lease_until = lease_until] \in DeliveryRecord
    <2>1. s.live[i] \in DeliveryRecord  BY <1>1 DEF Tables, HoldsLease, IsLeased
    <2>2. lease_until \in OptionalTime  BY DEF OptionalTime
    <2> QED  BY <2>1, <2>2 DEF DeliveryRecord
  <1>3. f \in [kept -> DeliveryRecord \cup {Absent}]  BY <1>2
  <1>4. RenewLeases(s, held, lease_until) = PutLiveRows(s, f)  BY DEF RenewLeases
  <1> HIDE DEF kept, f
  <1> QED  BY <1>1, <1>3, <1>4, PutLiveRowsTyped, PutLiveRowsIndexed

\* ack: fenced, deleting, or re-queueing the coalesced follow-up.
LEMMA AckSafe ==
    ASSUME NEW s \in Tables, NEW i \in Deliveries, NEW generation \in Nat
    PROVE  LET t == Ack(s, i, generation)
           IN t \in Tables /\ (LiveIndexed(s) => LiveIndexed(t))
  <1>1. CASE ~HoldsLease(s, i, generation)  BY <1>1 DEF Ack
  <1>2. CASE HoldsLease(s, i, generation)
    <2>1. s.live[i] \in DeliveryRecord  BY <1>2 DEF Tables, HoldsLease, IsLeased
    <2>2. s.live[i].not_before \in Nat  BY <2>1 DEF DeliveryRecord
    <2>3. FollowUp(s.live[i], s.live[i].not_before) \in DeliveryRecord
      BY <2>1, <2>2, FollowUpTyped
    <2> QED  BY <1>2, <2>3, PutLiveSafe DEF Ack
  <1> QED  BY <1>1, <1>2

\* defer_lock_busy: back to the ready index without spending an attempt.
LEMMA DeferLockBusySafe ==
    ASSUME NEW s \in Tables, NEW i \in Deliveries, NEW generation \in Nat,
           NEW now \in Nat, NEW delay \in Nat
    PROVE  LET t == DeferLockBusy(s, i, generation, now, delay)
           IN t \in Tables /\ (LiveIndexed(s) => LiveIndexed(t))
  <1>1. CASE ~HoldsLease(s, i, generation)  BY <1>1 DEF DeferLockBusy
  <1>2. CASE HoldsLease(s, i, generation)
    <2>1. s.live[i] \in DeliveryRecord  BY <1>2 DEF Tables, HoldsLease, IsLeased
    <2>2. now + delay \in Nat /\ NoTime \in OptionalTime  BY DEF OptionalTime
    <2>3. [s.live[i] EXCEPT !.lease_until = NoTime, !.not_before = now + delay]
             \in DeliveryRecord
      BY <2>1, <2>2 DEF DeliveryRecord
    <2> QED  BY <1>2, <2>3, PutLiveSafe DEF DeferLockBusy
  <1> QED  BY <1>1, <1>2

\* Suppressing ids leaves the live side alone.
LEMMA SuppressSafe ==
    ASSUME NEW s \in Tables, NEW ids \in SUBSET Deliveries
    PROVE  /\ Suppress(s, ids) \in Tables
           /\ LiveIndexed(s) => LiveIndexed(Suppress(s, ids))
  BY SuppressFields, SameLiveIndexed

\* The give-up branch of retry: tombstone, suppression and follow-up together.
LEMMA RetryExhaustedSafe ==
    ASSUME NEW s \in Tables, NEW i \in Deliveries, NEW r \in DeliveryRecord,
           NEW replayable \in BOOLEAN, NEW now \in Nat
    PROVE  LET t == RetryExhausted(s, i, r, replayable, now)
           IN t \in Tables /\ (LiveIndexed(s) => LiveIndexed(t))
  <1> DEFINE dead == DeadLetter(r, now, replayable, "failed")
             promoted == ~replayable /\ HasFollowUp(i, r)
             corpse == [dead EXCEPT !.allows_keyed_reuse = promoted]
             buried == PutDead(s, i, corpse)
  <1>1. dead \in DeadRecord  BY DeadLetterTyped
  <1>2. promoted \in BOOLEAN  BY DEF HasFollowUp, DeliveryRecord
  <1> HIDE DEF dead, promoted
  <1>3. corpse \in DeadRecord  BY <1>1, <1>2 DEF DeadRecord
  <1> HIDE DEF corpse
  <1>4. buried \in Tables /\ (LiveIndexed(s) => LiveIndexed(buried))
    BY <1>3, PutDeadSafe
  <1>5. RetryExhausted(s, i, r, replayable, now) =
           IF promoted THEN PutLive(buried, i, FollowUp(r, now))
           ELSE IF replayable THEN PutLive(buried, i, Absent)
           ELSE Suppress(PutLive(buried, i, Absent), {i})
    BY DEF RetryExhausted, dead, promoted, corpse
  <1> HIDE DEF buried
  <1>6. LET t == PutLive(buried, i, FollowUp(r, now))
        IN t \in Tables /\ (LiveIndexed(buried) => LiveIndexed(t))
    BY <1>4, FollowUpTyped, PutLiveSafe
  <1>7. LET t == PutLive(buried, i, Absent)
        IN t \in Tables /\ (LiveIndexed(buried) => LiveIndexed(t))
    BY <1>4, PutLiveSafe
  <1>8. LET t == Suppress(PutLive(buried, i, Absent), {i})
        IN t \in Tables /\ (LiveIndexed(buried) => LiveIndexed(t))
    BY <1>7, SuppressSafe
  <1> QED  BY <1>4, <1>5, <1>6, <1>7, <1>8

\* retry on every branch: fenced, rescheduled, exhausted.
LEMMA RetrySafe ==
    ASSUME NEW s \in Tables, NEW i \in Deliveries, NEW generation \in Nat,
           NEW replayable \in BOOLEAN, NEW now \in Nat, NEW delay \in Nat
    PROVE  LET t == Retry(s, i, generation, replayable, now, delay)
           IN t \in Tables /\ (LiveIndexed(s) => LiveIndexed(t))
  <1> DEFINE outcome == RetryOutcome(s, i, generation, replayable)
             failed == [s.live[i] EXCEPT !.attempt = @ + 1, !.lease_until = NoTime]
  <1>1. CASE IsReady(s.live[i])  BY <1>1 DEF Retry
  <1>2. CASE ~IsReady(s.live[i]) /\ outcome \in {"missing", "stale"}
    BY <1>2, CompactSafe DEF Retry
  <1>3. CASE ~IsReady(s.live[i]) /\ outcome \notin {"missing", "stale"}
    <2>1. s.live[i] \in DeliveryRecord
      BY <1>3 DEF RetryOutcome, Tables
    <2>2. s.live[i].attempt + 1 \in Nat /\ NoTime \in OptionalTime /\ now + delay \in Nat
      BY <2>1 DEF DeliveryRecord, OptionalTime
    <2>3. failed \in DeliveryRecord  BY <2>1, <2>2 DEF DeliveryRecord
    <2> HIDE DEF failed
    <2>4. [failed EXCEPT !.not_before = now + delay] \in DeliveryRecord
      BY <2>2, <2>3 DEF DeliveryRecord
    <2>5. Retry(s, i, generation, replayable, now, delay) =
             IF outcome = "scheduled"
             THEN Compact(PutLive(s, i, [failed EXCEPT !.not_before = now + delay]), now)
             ELSE Compact(RetryExhausted(s, i, failed, replayable, now), now)
      BY <1>3 DEF Retry, failed
    <2>6. LET t == Compact(PutLive(s, i, [failed EXCEPT !.not_before = now + delay]), now)
          IN t \in Tables /\ (LiveIndexed(s) => LiveIndexed(t))
      BY <2>4, PutLiveSafe, CompactSafe
    <2>7. LET t == Compact(RetryExhausted(s, i, failed, replayable, now), now)
          IN t \in Tables /\ (LiveIndexed(s) => LiveIndexed(t))
      BY <2>3, RetryExhaustedSafe, CompactSafe
    <2> HIDE DEF outcome
    <2> QED  BY <2>5, <2>6, <2>7
  <1> QED  BY <1>1, <1>2, <1>3

\* The start-up rebind moves rows between departments with their index entries.
LEMMA RebindDeliveriesSafe ==
    ASSUME NEW s \in Tables, NEW subscribers \in SubscriberMaps
    PROVE  LET t == RebindDeliveries(s, subscribers)
           IN t \in Tables /\ (LiveIndexed(s) => LiveIndexed(t))
  <1> DEFINE moving == {i \in Deliveries : /\ s.live[i] # Absent
                                           /\ QueueOf[i] \in DOMAIN subscribers
                                           /\ s.live[i].dept # subscribers[QueueOf[i]]}
             row(i) == [s.live[i] EXCEPT
                          !.dept = subscribers[QueueOf[i]],
                          !.lease_generation = IF IsLeased(s.live[i]) THEN @ + 1 ELSE @]
             f == [i \in moving |-> row(i)]
  <1>1. moving \in SUBSET Deliveries  OBVIOUS
  <1>2. ASSUME NEW i \in moving PROVE row(i) \in DeliveryRecord
    <2>1. s.live[i] \in DeliveryRecord  BY <1>1 DEF Tables
    <2>2. subscribers[QueueOf[i]] \in Depts  BY DEF SubscriberMaps
    <2>3. (IF IsLeased(s.live[i]) THEN s.live[i].lease_generation + 1
           ELSE s.live[i].lease_generation) \in Nat
      BY <2>1 DEF DeliveryRecord
    <2> QED  BY <2>1, <2>2, <2>3 DEF DeliveryRecord
  <1>3. f \in [moving -> DeliveryRecord \cup {Absent}]  BY <1>2
  <1>4. RebindDeliveries(s, subscribers) = PutLiveRows(s, f)  BY DEF RebindDeliveries
  <1> HIDE DEF moving, f
  <1> QED  BY <1>1, <1>3, <1>4, PutLiveRowsTyped, PutLiveRowsIndexed

\* Dropping stale redrive keys touches no live table.
LEMMA RepairDeadKeysSafe ==
    ASSUME NEW s \in Tables, NEW keys \in SUBSET IndexKey, NEW active, NEW now
    PROVE  LET t == RepairDeadKeys(s, keys, active, now)
           IN /\ t \in Tables
              /\ t.live = s.live /\ t.ready = s.ready /\ t.leased = s.leased
  <1> DEFINE stale == {k \in keys : ~Matches(s, k)}
             moved == {i \in {k[3] : k \in stale} \ active : s.dead[i] # Absent}
             spent == {k \in keys : /\ Matches(s, k)
                                    /\ s.dead[k[3]].permanent
                                    /\ CooledDown(s.dead[k[3]], now)}
             due == (s.dead_due \ (stale \cup spent))
                        \cup UNION {DueKeys(i, s.dead[i]) : i \in moved}
             time == (s.dead_time \ {<<k[2], k[3]>> : k \in stale})
                        \cup UNION {DeadTimeKeys(i, s.dead[i]) : i \in moved}
  <1>1. moved \in SUBSET Deliveries  BY DEF IndexKey
  <1>2. RepairDeadKeys(s, keys, active, now) = [s EXCEPT !.dead_due = due, !.dead_time = time]
    BY DEF RepairDeadKeys
  <1> HIDE DEF moved, stale, spent
  <1>3. due \in SUBSET IndexKey  BY <1>1, KeysTyped DEF Tables
  <1>4. time \in SUBSET TimeKey  BY <1>1, KeysTyped DEF Tables
  <1> HIDE DEF due, time
  <1>5. RepairDeadKeys(s, keys, active, now) \in Tables  BY <1>2, <1>3, <1>4 DEF Tables
  <1> QED  BY <1>2, <1>5 DEF Tables

\* The row redrive puts back is well formed.
LEMMA RedrivenTyped ==
    ASSUME NEW d \in DeadRecord, NEW r \in DeliveryRecord, NEW now \in Nat
    PROVE  Redriven(d, r, now) \in DeliveryRecord
  <1>1. d.redrive_count + 1 \in Nat  BY DEF DeadRecord
  <1>2. r.lease_generation + 1 \in Nat  BY DEF DeliveryRecord
  <1>3. NoTime \in OptionalTime /\ 0 \in Nat  BY DEF OptionalTime
  <1> QED  BY <1>1, <1>2, <1>3 DEF Redriven, DeliveryRecord

\* The tombstone of a letter redrive gives up on is well formed.
LEMMA BuriedTyped ==
    ASSUME NEW s \in Tables, NEW i \in Deliveries, s.dead[i] # Absent, NEW reusable \in BOOLEAN
    PROVE  Buried(s, i, reusable) \in DeadRecord
  <1>1. s.dead[i] \in DeadRecord  BY DEF Tables
  <1>2. (s.dead[i].allows_keyed_reuse \/ reusable) \in BOOLEAN  BY <1>1 DEF DeadRecord
  <1>3. (IF s.dead[i].record # Absent /\ s.dead[i].redrive_count < MaxRedrives
         THEN "collision" ELSE s.dead[i].reason) \in {"failed", "subscriber_absent", "collision"}
    BY <1>1 DEF DeadRecord
  <1> QED  BY <1>1, <1>2, <1>3 DEF Buried, DeadRecord

\* A routable dead letter is re-addressed to a well-formed record.
LEMMA RedriveRecordTyped ==
    ASSUME NEW s \in Tables, NEW i \in Deliveries, NEW subscribers \in SubscriberMaps,
           s.dead[i] # Absent, s.dead[i].record # Absent,
           ~Unroutable(i, s.dead[i], subscribers)
    PROVE  RedriveRecord(s, i, subscribers) \in DeliveryRecord
  <1>1. s.dead[i] \in DeadRecord  BY DEF Tables
  <1>2. s.dead[i].record \in DeliveryRecord  BY <1>1 DEF DeadRecord
  <1>3. CASE IsSubscriberAbsent(s.dead[i])
    <2>1. subscribers[QueueOf[i]] \in Depts  BY <1>3 DEF Unroutable, SubscriberMaps
    <2>2. [s.dead[i].record EXCEPT !.dept = subscribers[QueueOf[i]]] \in DeliveryRecord
      BY <1>2, <2>1 DEF DeliveryRecord
    <2> QED  BY <1>3, <2>2 DEF RedriveRecord
  <1> QED  BY <1>2, <1>3 DEF RedriveRecord

\* redrive_due with a work list that may be stale by the time it is applied.  It
\* writes a live row only where there is none.
LEMMA RedriveSafe ==
    ASSUME NEW s \in Tables, NEW keys \in SUBSET IndexKey,
           NEW subscribers \in SubscriberMaps, NEW now \in Nat
    PROVE  LET t == Redrive(s, keys, subscribers, now)
           IN /\ t \in Tables /\ (LiveIndexed(s) => LiveIndexed(t))
              /\ \A i \in Deliveries : s.live[i] # Absent => t.live[i] = s.live[i]
  <1> DEFINE active   == RedriveActive(s, keys, subscribers, now)
             buried   == RedriveBuried(s, active)
             promoted == RedrivePromoted(s, buried)
             kept     == promoted \cup RedrivePreserved(s, buried)
             repaired == RepairDeadKeys(s, keys, active, now)
             corpses  == [i \in active |-> IF i \in buried THEN Buried(s, i, i \in kept)
                                           ELSE Absent]
             deadDone == PutDeadRows(repaired, corpses)
             revived  == (active \ buried) \cup promoted
             rows     == [i \in revived |->
                            IF i \in promoted
                            THEN FollowUp(RedriveRecord(s, i, subscribers), now)
                            ELSE Redriven(s.dead[i], RedriveRecord(s, i, subscribers), now)]
             liveDone == PutLiveRows(deadDone, rows)
  <1>1. active \in SUBSET Deliveries /\ \A i \in active : s.dead[i] # Absent
                                       /\ ~Unroutable(i, s.dead[i], subscribers)
    BY DEF RedriveActive
  <1>2. buried \subseteq active /\ promoted \subseteq buried  BY DEF RedriveBuried, RedrivePromoted
  <1>3. \A i \in revived : s.dead[i].record # Absent /\ s.live[i] = Absent
    BY DEF RedriveBuried, RedrivePromoted
  <1>4. /\ repaired \in Tables /\ (LiveIndexed(s) => LiveIndexed(repaired))
        /\ repaired.live = s.live
    BY RepairDeadKeysSafe, SameLiveIndexed
  <1>5. Redrive(s, keys, subscribers, now) = Compact(Suppress(liveDone, buried \ kept), now)
    BY DEF Redrive
  <1> HIDE DEF active, buried, promoted, kept, repaired
  <1>6. corpses \in [active -> DeadRecord \cup {Absent}]
    <2>1. ASSUME NEW i \in active PROVE Buried(s, i, i \in kept) \in DeadRecord
      <3>1. i \in Deliveries /\ s.dead[i] # Absent  BY <1>1
      <3>2. (i \in kept) \in BOOLEAN  OBVIOUS
      <3> QED  BY <3>1, <3>2, BuriedTyped
    <2> QED  BY <2>1
  <1>7. /\ deadDone \in Tables /\ (LiveIndexed(s) => LiveIndexed(deadDone))
        /\ deadDone.live = s.live
    <2> HIDE DEF corpses
    <2>1. deadDone \in Tables
      <3>1. active \in SUBSET Deliveries  BY <1>1
      <3> QED  BY <3>1, <1>4, <1>6, PutDeadRowsTyped
    <2>2. /\ deadDone.live = repaired.live
          /\ deadDone.ready = repaired.ready
          /\ deadDone.leased = repaired.leased
      BY <1>4, PutDeadRowsFields
    <2> HIDE DEF deadDone
    <2> QED  BY <1>4, <2>1, <2>2, SameLiveIndexed
  <1>8. rows \in [revived -> DeliveryRecord \cup {Absent}]
    <2>1. ASSUME NEW i \in revived
          PROVE  /\ FollowUp(RedriveRecord(s, i, subscribers), now) \in DeliveryRecord
                 /\ Redriven(s.dead[i], RedriveRecord(s, i, subscribers), now) \in DeliveryRecord
      <3>1. i \in Deliveries /\ s.dead[i] \in DeadRecord  BY <1>1, <1>2 DEF Tables
      <3>2. RedriveRecord(s, i, subscribers) \in DeliveryRecord
        BY <1>1, <1>2, <1>3, <3>1, RedriveRecordTyped
      <3> QED  BY <3>1, <3>2, FollowUpTyped, RedrivenTyped
    <2> QED  BY <2>1
  <1>9. revived \in SUBSET Deliveries  BY <1>1, <1>2
  <1> HIDE DEF corpses, deadDone, rows, revived
  <1>10. liveDone \in Tables /\ (LiveIndexed(s) => LiveIndexed(liveDone))
    BY <1>7, <1>8, <1>9, PutLiveRowsTyped, PutLiveRowsIndexed
  <1>11. \A i \in Deliveries : s.live[i] # Absent => liveDone.live[i] = s.live[i]
    <2>1. liveDone.live = [i \in Deliveries |-> IF i \in DOMAIN rows THEN rows[i]
                                                ELSE deadDone.live[i]]
      BY <1>7, PutLiveRowsFields
    <2>2. DOMAIN rows = revived  BY <1>8
    <2> QED  BY <1>3, <1>7, <2>1, <2>2
  <1> HIDE DEF liveDone
  <1>12. buried \ kept \in SUBSET Deliveries  BY <1>1, <1>2
  <1> DEFINE settled == Suppress(liveDone, buried \ kept)
  <1>13. settled \in Tables /\ (LiveIndexed(s) => LiveIndexed(settled))
    BY <1>10, <1>12, SuppressSafe
  <1>14. settled.live = liveDone.live  BY <1>10, <1>12, SuppressFields
  <1> HIDE DEF settled
  <1>15. Compact(settled, now).live = settled.live  BY <1>13, CompactFields
  <1> QED  BY <1>5, <1>11, <1>13, <1>14, <1>15, CompactSafe DEF settled

\* What a sweep may do to a live row.
SweptRow(r, q) ==
    \/ q = Absent \/ q = r
    \/ \E since \in OptionalTime : q = [r EXCEPT !.absent_since = since]

\* The subscriber-absence sweep: it retires a row or changes its absence time alone.
LEMMA SweepAbsenceSafe ==
    ASSUME NEW s \in Tables, NEW candidates \in SUBSET Deliveries, NEW queues, NEW now \in Nat
    PROVE  LET t == SweepAbsence(s, candidates, queues, now)
           IN /\ t \in Tables /\ (LiveIndexed(s) => LiveIndexed(t))
              /\ \A i \in Deliveries : SweptRow(s.live[i], t.live[i])
  <1> DEFINE present == {i \in candidates : s.live[i] # Absent}
             marked  == {i \in present : /\ QueueOf[i] \notin queues
                                         /\ s.live[i].absent_since = NoTime}
             cleared == {i \in present : /\ QueueOf[i] \in queues
                                         /\ s.live[i].absent_since # NoTime}
             expired == {i \in present : AbsenceExpired(s, i, queues, now)}
             dead(i) == DeadLetter([s.live[i] EXCEPT !.lease_until = NoTime, !.not_before = now],
                                   now, TRUE, "subscriber_absent")
             live    == [i \in Deliveries |->
                           IF i \in marked THEN [s.live[i] EXCEPT !.absent_since = now]
                           ELSE IF i \in cleared THEN [s.live[i] EXCEPT !.absent_since = NoTime]
                           ELSE s.live[i]]
             noted   == [s EXCEPT !.live = live]
             corpses == [i \in expired |-> dead(i)]
             buried  == PutDeadRows(noted, corpses)
             rows    == [i \in expired |-> Absent]
             swept   == PutLiveRows(buried, rows)
  <1>1. present \in SUBSET Deliveries /\ \A i \in present : s.live[i] \in DeliveryRecord
    BY DEF Tables
  <1>2. marked \subseteq present /\ cleared \subseteq present /\ expired \subseteq present
    OBVIOUS
  <1>3. SweepAbsence(s, candidates, queues, now) =
           IF marked \cup cleared \cup expired = {} THEN s ELSE Compact(swept, now)
    BY DEF SweepAbsence
  <1> HIDE DEF present, marked, cleared, expired
  <1>4. now \in OptionalTime /\ NoTime \in OptionalTime  BY DEF OptionalTime
  <1>5. ASSUME NEW r \in DeliveryRecord, NEW since \in OptionalTime, NEW i
        PROVE  /\ [r EXCEPT !.absent_since = since] \in DeliveryRecord
               /\ ReadyKeys(i, [r EXCEPT !.absent_since = since]) = ReadyKeys(i, r)
               /\ LeaseKeys(i, [r EXCEPT !.absent_since = since]) = LeaseKeys(i, r)
    <2> DEFINE q == [r EXCEPT !.absent_since = since]
    <2>1. q \in DeliveryRecord  BY DEF DeliveryRecord
    <2>2. q.dept = r.dept /\ q.not_before = r.not_before /\ q.lease_until = r.lease_until
      BY DEF DeliveryRecord
    <2>3. q # Absent /\ r # Absent  BY <2>1, AbsentAssumption
    <2> HIDE DEF q
    <2>4. ReadyKeys(i, q) = ReadyKeys(i, r)  BY <2>2, <2>3 DEF ReadyKeys, IsReady
    <2>5. LeaseKeys(i, q) = LeaseKeys(i, r)  BY <2>2, <2>3 DEF LeaseKeys, IsLeased
    <2> QED  BY <2>1, <2>4, <2>5 DEF q
  <1>6. ASSUME NEW i \in Deliveries
        PROVE  /\ live[i] \in DeliveryRecord \cup {Absent}
               /\ ReadyKeys(i, live[i]) = ReadyKeys(i, s.live[i])
               /\ LeaseKeys(i, live[i]) = LeaseKeys(i, s.live[i])
               /\ SweptRow(s.live[i], live[i])
    <2>1. CASE i \in marked  BY <1>1, <1>2, <1>4, <1>5, <2>1 DEF SweptRow
    <2>2. CASE i \notin marked /\ i \in cleared  BY <1>1, <1>2, <1>4, <1>5, <2>2 DEF SweptRow
    <2>3. CASE i \notin marked /\ i \notin cleared  BY <2>3 DEF Tables, SweptRow
    <2> QED  BY <2>1, <2>2, <2>3
  <1>7. live \in [Deliveries -> DeliveryRecord \cup {Absent}]  BY <1>6
  <1> HIDE DEF live
  <1>8. /\ noted \in Tables
        /\ noted.live = live /\ noted.ready = s.ready /\ noted.leased = s.leased
    BY <1>7 DEF Tables
  <1> HIDE DEF noted
  <1>9. LiveIndexed(s) => LiveIndexed(noted)  BY <1>6, <1>8 DEF LiveIndexed
  <1>10. corpses \in [expired -> DeadRecord \cup {Absent}]
    <2>1. ASSUME NEW i \in expired PROVE dead(i) \in DeadRecord
      <3>1. [s.live[i] EXCEPT !.lease_until = NoTime, !.not_before = now] \in DeliveryRecord
        BY <1>1, <1>2, <1>4 DEF DeliveryRecord
      <3> QED  BY <3>1, DeadLetterTyped
    <2> QED  BY <2>1
  <1> HIDE DEF corpses
  <1>11. expired \in SUBSET Deliveries  BY <1>1, <1>2
  <1>12. buried \in Tables  BY <1>8, <1>10, <1>11, PutDeadRowsTyped
  <1>13. buried.live = noted.live /\ buried.ready = noted.ready /\ buried.leased = noted.leased
    BY <1>8, PutDeadRowsFields
  <1> HIDE DEF buried
  <1>14. LiveIndexed(s) => LiveIndexed(buried)  BY <1>9, <1>13, SameLiveIndexed
  <1>15. rows \in [expired -> DeliveryRecord \cup {Absent}]  OBVIOUS
  <1> HIDE DEF rows
  <1>16. swept \in Tables /\ (LiveIndexed(s) => LiveIndexed(swept))
    BY <1>11, <1>12, <1>14, <1>15, PutLiveRowsTyped, PutLiveRowsIndexed
  <1>17. \A i \in Deliveries : swept.live[i] \in {Absent, live[i]}
    <2>1. swept.live = [i \in Deliveries |-> IF i \in DOMAIN rows THEN rows[i]
                                             ELSE buried.live[i]]
      BY <1>12, PutLiveRowsFields
    <2>2. \A i \in DOMAIN rows : rows[i] = Absent  BY DEF rows
    <2> QED  BY <1>8, <1>13, <2>1, <2>2
  <1> HIDE DEF swept
  <1>18. Compact(swept, now).live = swept.live  BY <1>16, CompactFields
  <1>19. \A i \in Deliveries : SweptRow(s.live[i], s.live[i]) /\ SweptRow(s.live[i], Absent)
    BY DEF SweptRow
  <1> QED  BY <1>3, <1>6, <1>16, <1>17, <1>18, <1>19, CompactSafe

\* Leasing from work lists collected in an earlier transaction: a row is leased or
\* left alone.
LEMMA LeaseSafe ==
    ASSUME NEW s \in Tables, NEW d \in Depts, NEW excluded, NEW limit, NEW now \in Nat,
           NEW expired \in SUBSET IndexKey, NEW ready \in SUBSET IndexKey
    PROVE  LET t == Lease(s, d, excluded, expired, ready, limit, now)
           IN /\ t \in Tables /\ (LiveIndexed(s) => LiveIndexed(t))
              /\ \A i \in Deliveries : \/ t.live[i] = s.live[i]
                                       \/ /\ s.live[i] \in DeliveryRecord
                                          /\ t.live[i] = LeaseRow(s.live[i], now)
  <1> DEFINE taken   == Cardinality(LeasedExpired(s, d, excluded, expired))
             within  == ReadyWithinLimit(s, d, excluded, ready, taken, limit, now)
             reached == Examined(s, d, excluded, within)
             early   == {i \in Deliveries : /\ \E k \in reached : k[3] = i
                                            /\ IsReady(s.live[i])
                                            /\ s.live[i].not_before > now}
             ids     == LeasedIds(s, d, excluded, expired, ready, limit, now)
             seen    == Examined(s, d, excluded, expired)
             live    == [i \in Deliveries |-> IF i \in ids THEN LeaseRow(s.live[i], now)
                                              ELSE s.live[i]]
             readies == (s.ready \ reached) \cup UNION {ReadyKeys(i, s.live[i]) : i \in early}
             leased  == (s.leased \ seen) \cup {<<d, now + LeaseDuration, i>> : i \in ids}
             t       == Lease(s, d, excluded, expired, ready, limit, now)
  <1>1. t = [s EXCEPT !.live = live, !.ready = readies, !.leased = leased]
    BY DEF Lease
  <1>2. ids \in SUBSET Deliveries
    BY DEF LeasedIds, LeasedExpired, LeasedReady, Leasable
  <1>3. \A i \in ids : s.live[i] \in DeliveryRecord /\ s.live[i].dept = d
    <2>1. \A i \in ids : s.live[i] # Absent /\ s.live[i].dept = d
      BY DEF LeasedIds, LeasedExpired, LeasedReady, Leasable, Examined, IsReady
    <2> QED  BY <1>2, <2>1 DEF Tables
  <1>4. now + LeaseDuration \in Nat  BY PolicyAssumption
  <1>5. \A i \in Deliveries \ ids, k \in reached :
           k[3] = i /\ IsReady(s.live[i]) => i \in early
    <2>1. SUFFICES ASSUME NEW i \in Deliveries \ ids, NEW k \in reached,
                          k[3] = i, IsReady(s.live[i]), ~(s.live[i].not_before > now)
                   PROVE  FALSE
      OBVIOUS
    <2>2. k \in within /\ i \notin excluded /\ s.live[i].dept = d
      BY <2>1 DEF Examined, IsReady
    <2>3. s.live[i] \in DeliveryRecord  BY <2>1 DEF Tables, IsReady
    <2>4. s.live[i].not_before <= now  BY <2>1, <2>3 DEF DeliveryRecord
    <2>5. i \in Leasable(s, d, excluded, now)  BY <2>1, <2>2, <2>4 DEF Leasable
    <2>6. i \in LeasedReady(s, d, excluded, expired, ready, limit, now)
      BY <2>1, <2>2, <2>5 DEF LeasedReady
    <2> QED  BY <2>1, <2>6 DEF LeasedIds
  <1>6. \A i \in Deliveries \ ids, k \in seen :
           ~(k[3] = i /\ s.live[i] # Absent /\ s.live[i].lease_until = k[2])
    BY DEF LeasedIds, LeasedExpired
  <1>7. early \in SUBSET Deliveries  OBVIOUS
  <1> HIDE DEF taken, within, reached, early, ids, seen, t
  <1>8. live \in [Deliveries -> DeliveryRecord \cup {Absent}]
    BY <1>2, <1>3, LeaseRowTyped DEF Tables
  <1>9. readies \in SUBSET IndexKey  BY <1>7, KeysTyped DEF Tables
  <1>10. leased \in SUBSET IndexKey
    <2>1. {<<d, now + LeaseDuration, i>> : i \in ids} \in SUBSET IndexKey
      BY <1>2, <1>4 DEF IndexKey
    <2> QED  BY <2>1 DEF Tables
  <1>11. t \in Tables /\ t.live = live /\ t.ready = readies /\ t.leased = leased
    <2> HIDE DEF live, readies, leased
    <2> QED  BY <1>1, <1>8, <1>9, <1>10 DEF Tables
  <1>12. ASSUME LiveIndexed(s), NEW i \in Deliveries
         PROVE  ReadyKeys(i, live[i]) \subseteq readies /\ LeaseKeys(i, live[i]) \subseteq leased
    <2>1. CASE i \in ids
      <3>1. live[i] = LeaseRow(s.live[i], now)  BY <2>1
      <3>2. live[i].dept = d /\ live[i].lease_until = now + LeaseDuration
        BY <1>3, <2>1, <3>1, LeaseRowTyped
      <3>3. live[i].lease_until # NoTime  BY <1>4, <3>2 DEF NoTime
      <3> QED  BY <2>1, <3>2, <3>3 DEF ReadyKeys, LeaseKeys, IsReady
    <2>2. CASE i \notin ids
      <3>1. live[i] = s.live[i]  BY <2>2
      <3>2. ReadyKeys(i, s.live[i]) \subseteq s.ready /\ LeaseKeys(i, s.live[i]) \subseteq s.leased
        BY <1>12 DEF LiveIndexed
      <3>3. ReadyKeys(i, s.live[i]) \subseteq readies
        <4>1. \A k \in ReadyKeys(i, s.live[i]) : k[3] = i /\ IsReady(s.live[i])
          BY DEF ReadyKeys
        <4> QED  BY <1>5, <2>2, <3>2, <4>1
      <3>4. LeaseKeys(i, s.live[i]) \subseteq leased
        <4>1. \A k \in LeaseKeys(i, s.live[i]) :
                 k[3] = i /\ s.live[i] # Absent /\ s.live[i].lease_until = k[2]
          BY DEF LeaseKeys, IsLeased
        <4> QED  BY <1>6, <2>2, <3>2, <4>1
      <3> QED  BY <3>1, <3>3, <3>4
    <2> QED  BY <2>1, <2>2
  <1>13. ASSUME NEW i \in Deliveries
         PROVE  \/ live[i] = s.live[i]
                \/ s.live[i] \in DeliveryRecord /\ live[i] = LeaseRow(s.live[i], now)
    <2>1. CASE i \in ids
      <3>1. live[i] = LeaseRow(s.live[i], now)  BY <2>1
      <3> QED  BY <1>3, <2>1, <3>1
    <2>2. CASE i \notin ids  BY <2>2
    <2> QED  BY <2>1, <2>2
  <1> HIDE DEF live, readies, leased
  <1>14. LiveIndexed(s) => LiveIndexed(t)  BY <1>11, <1>12 DEF LiveIndexed
  <1> QED  BY <1>11, <1>13, <1>14 DEF t

-----------------------------------------------------------------------------
(* The specification.                                                      *)

\* A pending call has the shape of its operation.
LEMMA CallsTyped ==
    ASSUME TypeOK, NEW c \in Callers
    PROVE  /\ calls[c].op = "lease" => calls[c] \in LeaseCall
           /\ calls[c].op = "redrive" => calls[c] \in RedriveCall
           /\ calls[c].op = "sweep" => calls[c] \in SweepCall
  BY DEF TypeOK, LeaseCall, RedriveCall, SweepCall, Idle

\* What the read transactions collect are well-formed work lists.
LEMMA WorkListsTyped ==
    ASSUME NEW s \in Tables, NEW d, NEW excluded, NEW limit, NEW now, NEW subscribers, NEW queues
    PROVE  /\ CollectExpiredKeys(s, d, limit, now) \in SUBSET IndexKey
           /\ CollectReadyKeys(s, d, excluded, limit, now) \in SUBSET IndexKey
           /\ CollectDueDeadKeys(s, subscribers, now) \in SUBSET IndexKey
           /\ CollectAbsenceCandidates(s, queues) \in SUBSET Deliveries
  <1>1. CollectExpiredKeys(s, d, limit, now) \in SUBSET IndexKey
    BY DEF CollectExpiredKeys, DueKeysOf, First, Tables
  <1>2. CollectReadyKeys(s, d, excluded, limit, now) \in SUBSET IndexKey
    BY DEF CollectReadyKeys, DueKeysOf, First, Tables
  <1>3. CollectDueDeadKeys(s, subscribers, now) \in SUBSET IndexKey
    BY DEF CollectDueDeadKeys, First, Tables
  <1>4. CollectAbsenceCandidates(s, queues) \in SUBSET Deliveries
    BY DEF CollectAbsenceCandidates
  <1> QED  BY <1>1, <1>2, <1>3, <1>4

\* Every step writes the tables through one of the transactions.
LEMMA StepSafe ==
    ASSUME TypeOK, Next
    PROVE  db' \in Tables /\ (LiveIndexed(db) => LiveIndexed(db'))
  <1> USE TimesAssumption
  <1> DEFINE Goal == db' \in Tables /\ (LiveIndexed(db) => LiveIndexed(db'))
  <1>t. db \in Tables  BY DEF TypeOK
  <1>d. \A attempt : RetryDelays(attempt) \subseteq Nat  BY DEF RetryDelays
  <1>1. ASSUME NEW i \in Deliveries, NEW c \in Contents, NEW observed_at \in Times,
               NEW not_before \in Times, EnqueueDelivery(i, c, observed_at, not_before)
        PROVE  Goal
    BY <1>t, <1>1, EnqueueSafe DEF EnqueueDelivery
  <1>2. ASSUME NEW i \in Deliveries, NEW generation \in 0 .. MaxGeneration,
               AckDelivery(i, generation)
        PROVE  Goal
    BY <1>t, <1>2, AckSafe DEF AckDelivery
  <1>3. ASSUME NEW i \in Deliveries, NEW generation \in 0 .. MaxGeneration, NEW now \in Times,
               RenewDelivery(i, generation, now)
        PROVE  Goal
    <2>1. [x \in {i} |-> generation] \in [{i} -> Nat] /\ {i} \in SUBSET Deliveries  OBVIOUS
    <2>2. now + LeaseDuration \in Nat  BY PolicyAssumption
    <2> QED  BY <1>t, <1>3, <2>1, <2>2, RenewLeasesSafe DEF RenewDelivery
  <1>4. ASSUME NEW i \in Deliveries, NEW generation \in 0 .. MaxGeneration, NEW now \in Times,
               DeferDelivery(i, generation, now)
        PROVE  Goal
    <2>1. PICK delay \in Nat : db' = DeferLockBusy(db, i, generation, now, delay)
      BY <1>d, <1>4 DEF DeferDelivery
    <2> QED  BY <1>t, <2>1, DeferLockBusySafe
  <1>5. ASSUME NEW i \in Deliveries, NEW generation \in 0 .. MaxGeneration, NEW now \in Times,
               NEW replayable \in BOOLEAN, RetryDelivery(i, generation, replayable, now)
        PROVE  Goal
    <2>1. PICK delay \in Nat : db' = Retry(db, i, generation, replayable, now, delay)
      BY <1>d, <1>5 DEF RetryDelivery
    <2> QED  BY <1>t, <2>1, RetrySafe
  <1>6. ASSUME NEW subscribers \in SubscriberMaps, Rebind(subscribers)
        PROVE  Goal
    BY <1>t, <1>6, RebindDeliveriesSafe DEF Rebind
  <1>7. ASSUME NEW c \in Callers, FinishLease(c)
        PROVE  Goal
    <2>1. calls[c] \in LeaseCall  BY <1>7, CallsTyped DEF FinishLease
    <2> QED  BY <1>t, <1>7, <2>1, LeaseSafe DEF FinishLease, LeaseCall
  <1>8. ASSUME NEW c \in Callers, FinishRedrive(c)
        PROVE  Goal
    <2>1. calls[c] \in RedriveCall  BY <1>8, CallsTyped DEF FinishRedrive
    <2> QED  BY <1>t, <1>8, <2>1, RedriveSafe DEF FinishRedrive, RedriveCall
  <1>9. ASSUME NEW c \in Callers, FinishSweep(c)
        PROVE  Goal
    <2>1. calls[c] \in SweepCall  BY <1>9, CallsTyped DEF FinishSweep
    <2> QED  BY <1>t, <1>9, <2>1, SweepAbsenceSafe DEF FinishSweep, SweepCall
  <1>10. ASSUME UNCHANGED db PROVE Goal  BY <1>t, <1>10
  <1> HIDE DEF Goal
  <1>11. ASSUME NEW c \in Callers, NEW now \in Times, NEW d \in Depts,
                NEW excluded \in SUBSET Deliveries, NEW limit \in 1 .. BatchLimit,
                BeginLease(c, d, excluded, limit, now)
         PROVE  Goal
    BY <1>10, <1>11 DEF BeginLease
  <1>12. ASSUME NEW c \in Callers, NEW now \in Times, NEW subscribers \in SubscriberMaps,
                BeginRedrive(c, subscribers, now)
         PROVE  Goal
    BY <1>10, <1>12 DEF BeginRedrive
  <1>13. ASSUME NEW c \in Callers, NEW now \in Times, NEW queues \in SUBSET Queues,
                BeginSweep(c, queues, now)
         PROVE  Goal
    BY <1>10, <1>13 DEF BeginSweep
  <1>14. Goal
    BY <1>1, <1>2, <1>3, <1>4, <1>5, <1>6, <1>7, <1>8, <1>9, <1>11, <1>12, <1>13 DEF Next
  <1> QED  BY <1>14 DEF Goal

\* An empty store is well formed and fully indexed.
LEMMA InitSafe ==
    ASSUME Init
    PROVE  TypeOK /\ LiveIndexed(db)
  <1>1. EmptyTables \in Tables  BY DEF EmptyTables, Tables
  <1>2. LiveIndexed(EmptyTables)
    BY DEF LiveIndexed, EmptyTables, ReadyKeys, LeaseKeys, IsReady, IsLeased
  <1> QED  BY <1>1, <1>2 DEF Init, TypeOK

\* Every step, or none, keeps the type invariant.
LEMMA NextTypeOK ==
    ASSUME TypeOK, [Next]_vars
    PROVE  TypeOK'
  <1> DEFINE Call == LeaseCall \cup RedriveCall \cup SweepCall \cup {Idle}
  <1>1. CASE UNCHANGED vars  BY <1>1 DEF TypeOK, vars
  <1>2. CASE Next
    <2>1. db' \in Tables  BY <1>2, StepSafe
    <2>2. calls' \in [Callers -> Call]
      <3>1. ASSUME NEW c \in Callers, NEW d \in Depts, NEW excluded \in SUBSET Deliveries,
                   NEW limit \in 1 .. BatchLimit, NEW now \in Times,
                   BeginLease(c, d, excluded, limit, now)
            PROVE  calls' \in [Callers -> Call]
        <4> DEFINE p == [op |-> "lease", dept |-> d, excluded |-> excluded, limit |-> limit,
                         now |-> now, expired |-> CollectExpiredKeys(db, d, limit, now),
                         ready |-> CollectReadyKeys(db, d, excluded, limit, now)]
        <4>1. p \in LeaseCall  BY WorkListsTyped DEF LeaseCall, TypeOK
        <4>2. calls' = [calls EXCEPT ![c] = p]  BY <3>1 DEF BeginLease
        <4> HIDE DEF p
        <4> QED  BY <4>1, <4>2 DEF TypeOK
      <3>2. ASSUME NEW c \in Callers, NEW subscribers \in SubscriberMaps, NEW now \in Times,
                   BeginRedrive(c, subscribers, now)
            PROVE  calls' \in [Callers -> Call]
        <4> DEFINE p == [op |-> "redrive", keys |-> CollectDueDeadKeys(db, subscribers, now),
                         subscribers |-> subscribers, now |-> now]
        <4>1. p \in RedriveCall  BY WorkListsTyped DEF RedriveCall, TypeOK
        <4>2. calls' = [calls EXCEPT ![c] = p]  BY <3>2 DEF BeginRedrive
        <4> HIDE DEF p
        <4> QED  BY <4>1, <4>2 DEF TypeOK
      <3>3. ASSUME NEW c \in Callers, NEW queues \in SUBSET Queues, NEW now \in Times,
                   BeginSweep(c, queues, now)
            PROVE  calls' \in [Callers -> Call]
        <4> DEFINE p == [op |-> "sweep", candidates |-> CollectAbsenceCandidates(db, queues),
                         queues |-> queues, now |-> now]
        <4>1. p \in SweepCall  BY WorkListsTyped DEF SweepCall, TypeOK
        <4>2. calls' = [calls EXCEPT ![c] = p]  BY <3>3 DEF BeginSweep
        <4> HIDE DEF p
        <4> QED  BY <4>1, <4>2 DEF TypeOK
      <3>4. ASSUME NEW c \in Callers, calls' = [calls EXCEPT ![c] = Idle]
            PROVE  calls' \in [Callers -> Call]
        BY <3>4 DEF TypeOK
      <3>5. CASE UNCHANGED calls  BY <3>5 DEF TypeOK
      <3> HIDE DEF Call
      <3> QED  BY <1>2, <3>1, <3>2, <3>3, <3>4, <3>5
              DEF Next, EnqueueDelivery, AckDelivery, RenewDelivery, DeferDelivery,
                  RetryDelivery, Rebind, FinishLease, FinishRedrive, FinishSweep
    <2>3. fresh' \subseteq Deliveries /\ covered' \subseteq Deliveries
      <3> DEFINE Typed == fresh' \subseteq Deliveries /\ covered' \subseteq Deliveries
      <3>1. ASSUME NEW i \in Deliveries, NEW c \in Contents, NEW observed_at \in Times,
                   NEW not_before \in Times,
                   EnqueueDelivery(i, c, observed_at, not_before)
            PROVE  Typed
        BY <3>1 DEF EnqueueDelivery, TypeOK
      <3>2. ASSUME NEW i \in Deliveries, NEW generation \in 0 .. MaxGeneration,
                   AckDelivery(i, generation)
            PROVE  Typed
        BY <3>2 DEF AckDelivery, TypeOK
      <3>3. ASSUME NEW i \in Deliveries, NEW generation \in 0 .. MaxGeneration,
                   NEW replayable \in BOOLEAN, NEW now \in Times,
                   RetryDelivery(i, generation, replayable, now)
            PROVE  Typed
        BY <3>3 DEF RetryDelivery, TypeOK
      <3>4. ASSUME NEW c \in Callers, FinishLease(c)
            PROVE  Typed
        BY <3>4 DEF FinishLease, TypeOK
      <3>5. ASSUME NEW c \in Callers, FinishRedrive(c)
            PROVE  Typed
        BY <3>5 DEF FinishRedrive, TypeOK
      <3>6. ASSUME UNCHANGED <<fresh, covered>> PROVE Typed  BY <3>6 DEF TypeOK
      <3> HIDE DEF Typed
      <3>7. ASSUME NEW i \in Deliveries, NEW generation \in 0 .. MaxGeneration, NEW now \in Times,
                   RenewDelivery(i, generation, now) \/ DeferDelivery(i, generation, now)
            PROVE  Typed
        BY <3>6, <3>7 DEF RenewDelivery, DeferDelivery
      <3>8. ASSUME NEW subscribers \in SubscriberMaps, Rebind(subscribers) PROVE Typed
        BY <3>6, <3>8 DEF Rebind
      <3>9. ASSUME NEW c \in Callers, NEW now \in Times, NEW d \in Depts,
                   NEW excluded \in SUBSET Deliveries, NEW limit \in 1 .. BatchLimit,
                   BeginLease(c, d, excluded, limit, now)
            PROVE  Typed
        BY <3>6, <3>9 DEF BeginLease
      <3>10. ASSUME NEW c \in Callers, NEW now \in Times, NEW subscribers \in SubscriberMaps,
                    BeginRedrive(c, subscribers, now)
             PROVE  Typed
        BY <3>6, <3>10 DEF BeginRedrive
      <3>11. ASSUME NEW c \in Callers, NEW now \in Times, NEW queues \in SUBSET Queues,
                    BeginSweep(c, queues, now)
             PROVE  Typed
        BY <3>6, <3>11 DEF BeginSweep
      <3>12. ASSUME NEW c \in Callers, FinishSweep(c) PROVE Typed
        BY <3>6, <3>12 DEF FinishSweep
      <3>13. Typed
        BY <1>2, <3>1, <3>2, <3>3, <3>4, <3>5, <3>7, <3>8, <3>9, <3>10, <3>11, <3>12 DEF Next
      <3> QED  BY <3>13 DEF Typed
    <2> QED  BY <2>1, <2>2, <2>3 DEF TypeOK
  <1> QED  BY <1>1, <1>2

\* Type correctness: whatever tasks call, in whatever order and with whatever
\* clock readings, the tables, index keys and work lists stay well formed.
THEOREM TypeCorrect == Spec => []TypeOK
  <1>1. Init => TypeOK  BY InitSafe
  <1>2. TypeOK /\ [Next]_vars => TypeOK'  BY NextTypeOK
  <1> QED  BY <1>1, <1>2, PTL DEF Spec

\* No live delivery is ever lost to the lease scan, for any number of ids,
\* departments and concurrent callers.
THEOREM NothingStranded == Spec => []NoStrandedDelivery
  <1>1. Init => TypeOK /\ NoStrandedDelivery  BY InitSafe DEF NoStrandedDelivery
  <1>2. TypeOK /\ NoStrandedDelivery /\ [Next]_vars => NoStrandedDelivery'
    <2>1. ASSUME TypeOK, NoStrandedDelivery, UNCHANGED vars PROVE NoStrandedDelivery'
      BY <2>1 DEF vars, NoStrandedDelivery, LiveIndexed
    <2>2. ASSUME TypeOK, NoStrandedDelivery, Next PROVE NoStrandedDelivery'
      <3>1. LiveIndexed(db')  BY <2>2, StepSafe DEF NoStrandedDelivery
      <3> QED  BY <3>1 DEF NoStrandedDelivery, LiveIndexed
    <2> QED  BY <2>1, <2>2
  <1> QED  BY <1>1, <1>2, TypeCorrect, PTL DEF Spec
=============================================================================
