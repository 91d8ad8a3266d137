--------------------------- MODULE DeliveryTables ---------------------------
(***************************************************************************)
(* The tables of the durable delivery store (supervise/delivery_store.rs)  *)
(* and its write transactions, each as a function from committed tables to *)
(* committed tables.  redb runs one write transaction at a time and makes  *)
(* it visible at commit, so a transaction is one step; an early return or  *)
(* an error before commit leaves the tables as they were.                  *)
(*                                                                         *)
(* What a record carries is abstracted to what the transactions compare:   *)
(* the queue is a function of the delivery id (the id hashes it), payload, *)
(* source and cron payload are one `content', and the flag                 *)
(* collapse_by_dedup_id is membership of the id in Keyed.                  *)
(***************************************************************************)
EXTENDS Integers, FiniteSets

CONSTANTS
    Deliveries,       \* delivery ids; the numeric order is the key order
    Keyed,            \* the ids derived from a dedup_key
    Depts,            \* departments, numbered in the order of their names
    Queues,
    QueueOf,          \* the queue and the department an id was derived for
    DeptOf,
    Contents,         \* payload, source and cron payload of an event
    SourceOf,         \* the source component of a content
    MaxAttempts,      \* RetryPolicy.max_attempts
    BackoffBase,      \* RetryPolicy.base
    BackoffCap,       \* RetryPolicy.cap
    MaxRedrives,      \* RedrivePolicy.max_redrives
    Cooldown,         \* RedrivePolicy.cooldown
    AbsenceBudget,    \* how long a queue may stay without a subscriber
    Retention,        \* TERMINAL_DEAD_RETENTION_MS
    LeaseDuration,    \* retry_lease(stall_window)
    BatchLimit,       \* rows per batched transaction
    CompactionLimit,  \* TERMINAL_DEAD_COMPACTION_LIMIT
    Absent            \* no row, no record

ASSUME IdsAssumption ==
    /\ Deliveries \subseteq Nat
    /\ IsFiniteSet(Deliveries)
    /\ Keyed \subseteq Deliveries
    /\ Depts \subseteq Nat
    /\ QueueOf \in [Deliveries -> Queues]
    /\ DeptOf \in [Deliveries -> Depts]
    /\ SourceOf \in [Contents -> Nat]

ASSUME PolicyAssumption ==
    /\ MaxAttempts \in Nat \ {0}
    /\ BackoffBase \in Nat
    /\ BackoffCap \in Nat
    /\ MaxRedrives \in Nat
    /\ Cooldown \in Nat
    /\ AbsenceBudget \in Nat
    /\ Retention \in Nat
    /\ LeaseDuration \in Nat
    /\ BatchLimit \in Nat
    /\ CompactionLimit \in Nat

-----------------------------------------------------------------------------
(* Rows and index keys.                                                    *)

NoTime == -1                      \* an Option<u64> time that is None
OptionalTime == Nat \cup {NoTime}

DeliveryRecord ==
    [dept : Depts, content : Contents, attempt : Nat, redrive_count : Nat,
     pending_dirty : BOOLEAN, absent_since : OptionalTime,
     lease_generation : Nat, lease_until : OptionalTime, not_before : Nat]

\* Every writer keeps replayable = ~permanent, so one flag stands for both.
DeadRecord ==
    [dept : Depts, content : Contents, dead_at : Nat, attempts : Nat,
     redrive_count : Nat, permanent : BOOLEAN, allows_keyed_reuse : BOOLEAN,
     reason : {"failed", "subscriber_absent", "collision"},
     record : DeliveryRecord \cup {Absent}]

ASSUME AbsentAssumption == Absent \notin DeliveryRecord /\ Absent \notin DeadRecord

IndexKey == Depts \X Nat \X Deliveries
TimeKey == Nat \X Deliveries
LineageKey == {"live", "terminal"} \X Depts \X Nat \X Nat \X Deliveries

Tables ==
    [live       : [Deliveries -> DeliveryRecord \cup {Absent}],
     dead       : [Deliveries -> DeadRecord \cup {Absent}],
     ready      : SUBSET IndexKey,    \* READY_BY_DEPT_DUE
     leased     : SUBSET IndexKey,    \* LEASED_BY_DEPT_UNTIL
     dead_due   : SUBSET IndexKey,    \* DEAD_BY_DEPT_DUE
     dead_time  : SUBSET TimeKey,     \* DEAD_BY_TIME
     terminal   : SUBSET IndexKey,    \* TERMINAL_DEAD_BY_TIME
     suppressed : SUBSET Deliveries,  \* TERMINAL_SUPPRESSION_BY_SLOT
     lineage    : SUBSET LineageKey]  \* LINEAGE_BY_SOURCE

EmptyTables ==
    [live |-> [i \in Deliveries |-> Absent], dead |-> [i \in Deliveries |-> Absent],
     ready |-> {}, leased |-> {}, dead_due |-> {}, dead_time |-> {},
     terminal |-> {}, suppressed |-> {}, lineage |-> {}]

IsLeased(r) == r # Absent /\ r.lease_until # NoTime
IsReady(r) == r # Absent /\ r.lease_until = NoTime

ReadyKeys(i, r) == IF IsReady(r) THEN {<<r.dept, r.not_before, i>>} ELSE {}
LeaseKeys(i, r) == IF IsLeased(r) THEN {<<r.dept, r.lease_until, i>>} ELSE {}

LiveLineage(i, r) ==
    IF r = Absent THEN {}
    ELSE {<<"live", r.dept, SourceOf[r.content], r.not_before, i>>}

\* should_index_dead_record, is_terminal_dead_record, is_terminal_tombstone
Redrivable(d) == d # Absent /\ ~d.permanent /\ d.record # Absent
IsTerminal(d) == d # Absent /\ d.permanent
IsTombstone(d) == IsTerminal(d) /\ d.attempts >= 1

DeadKeys(i, d) == IF d = Absent THEN {} ELSE {<<d.dept, d.dead_at, i>>}
DeadTimeKeys(i, d) == IF d = Absent THEN {} ELSE {<<d.dead_at, i>>}
DueKeys(i, d) == IF Redrivable(d) THEN DeadKeys(i, d) ELSE {}
TerminalKeys(i, d) == IF IsTerminal(d) THEN DeadKeys(i, d) ELSE {}

DeadLineage(i, d) ==
    IF IsTombstone(d)
    THEN {<<"terminal", d.dept, SourceOf[d.content], d.dead_at, i>>}
    ELSE {}

-----------------------------------------------------------------------------
(* Writing rows together with their index entries: f gives the new row of   *)
(* each id it is defined on.  The old row's entries go, the new row's come.*)

PutLiveRows(s, f) ==
    LET ids == DOMAIN f
    IN [s EXCEPT
          !.live    = [i \in Deliveries |-> IF i \in ids THEN f[i] ELSE s.live[i]],
          !.ready   = (@ \ UNION {ReadyKeys(i, s.live[i]) : i \in ids})
                         \cup UNION {ReadyKeys(i, f[i]) : i \in ids},
          !.leased  = (@ \ UNION {LeaseKeys(i, s.live[i]) : i \in ids})
                         \cup UNION {LeaseKeys(i, f[i]) : i \in ids},
          !.lineage = (@ \ UNION {LiveLineage(i, s.live[i]) : i \in ids})
                         \cup UNION {LiveLineage(i, f[i]) : i \in ids}]

PutDeadRows_KeepsDue(s, f) ==
    LET ids == DOMAIN f
    IN [s EXCEPT
          !.dead      = [i \in Deliveries |-> IF i \in ids THEN f[i] ELSE s.dead[i]],
          !.dead_time = (@ \ UNION {DeadTimeKeys(i, s.dead[i]) : i \in ids})
                           \cup UNION {DeadTimeKeys(i, f[i]) : i \in ids},
          !.dead_due  = @ \cup UNION {DueKeys(i, f[i]) : i \in ids},
          !.terminal  = (@ \ UNION {DeadKeys(i, s.dead[i]) : i \in ids})
                           \cup UNION {TerminalKeys(i, f[i]) : i \in ids},
          !.lineage   = (@ \ UNION {DeadLineage(i, s.dead[i]) : i \in ids})
                           \cup UNION {DeadLineage(i, f[i]) : i \in ids}]

PutDeadRows(s, f) ==
    LET ids == DOMAIN f
    IN [s EXCEPT
          !.dead      = [i \in Deliveries |-> IF i \in ids THEN f[i] ELSE s.dead[i]],
          !.dead_time = (@ \ UNION {DeadTimeKeys(i, s.dead[i]) : i \in ids})
                           \cup UNION {DeadTimeKeys(i, f[i]) : i \in ids},
          !.dead_due  = (@ \ UNION {DeadKeys(i, s.dead[i]) : i \in ids})
                           \cup UNION {DueKeys(i, f[i]) : i \in ids},
          !.terminal  = (@ \ UNION {DeadKeys(i, s.dead[i]) : i \in ids})
                           \cup UNION {TerminalKeys(i, f[i]) : i \in ids},
          !.lineage   = (@ \ UNION {DeadLineage(i, s.dead[i]) : i \in ids})
                           \cup UNION {DeadLineage(i, f[i]) : i \in ids}]

PutLive(s, i, r) == PutLiveRows(s, [x \in {i} |-> r])
PutDead(s, i, d) == PutDeadRows(s, [x \in {i} |-> d])

\* Plausible bugs, each next to the definition it would replace, are kept to
\* show that the properties notice them.
Suppress_Nothing(s, ids) == s

Suppress(s, ids) == [s EXCEPT !.suppressed = @ \cup ids]

\* Key order of every index scan: by time, then department, then id.
KeyBefore(a, b) ==
    \/ a[2] < b[2]
    \/ a[2] = b[2] /\ a[1] < b[1]
    \/ a[2] = b[2] /\ a[1] = b[1] /\ a[3] < b[3]

First(n, keys) == {k \in keys : Cardinality({j \in keys : KeyBefore(j, k)}) < n}

-----------------------------------------------------------------------------
(* Compaction of terminal dead letters, the trailing step of enqueue,      *)
(* retry, redrive and sweep.  Suppression slots outlive the dead letter.   *)

CompactableKeys(s, now) ==
    First(CompactionLimit, {k \in s.terminal : k[2] + Retention <= now})

Compact_KeepsKeys(s, now) ==
    [s EXCEPT !.dead = [i \in Deliveries |->
        IF i \in {k[3] : k \in CompactableKeys(s, now)} THEN Absent ELSE s.dead[i]]]

Compact(s, now) ==
    LET keys  == CompactableKeys(s, now)
        exact == {k \in keys : IsTerminal(s.dead[k[3]]) /\ s.dead[k[3]].dead_at = k[2]}
        gone  == {k[3] : k \in exact}
        stale == keys \ exact
        moved == {i \in {k[3] : k \in stale} \ gone : s.dead[i] # Absent}
    IN [s EXCEPT
          !.dead       = [i \in Deliveries |-> IF i \in gone THEN Absent ELSE s.dead[i]],
          !.dead_time  = (@ \ {<<k[2], k[3]>> : k \in keys})
                            \cup UNION {DeadTimeKeys(i, s.dead[i]) : i \in moved},
          !.dead_due   = @ \ UNION {DeadKeys(i, s.dead[i]) : i \in gone},
          !.terminal   = (@ \ keys) \cup UNION {TerminalKeys(i, s.dead[i]) : i \in moved},
          !.lineage    = @ \ UNION {DeadLineage(i, s.dead[i]) : i \in gone},
          !.suppressed = @ \cup {i \in moved : IsTerminal(s.dead[i])
                                               /\ ~s.dead[i].allows_keyed_reuse}]

-----------------------------------------------------------------------------
(* enqueue.                                                                *)

NewRecord(i, c, not_before) ==
    [dept |-> DeptOf[i], content |-> c, attempt |-> 0, redrive_count |-> 0,
     pending_dirty |-> FALSE, absent_since |-> NoTime,
     lease_generation |-> 0, lease_until |-> NoTime, not_before |-> not_before]

Coalesce_Unindexed(s, i, not_before) ==
    IF IsLeased(s.live[i]) /\ s.live[i].lease_until <= not_before
    THEN [s EXCEPT !.live[i].lease_until = NoTime] ELSE s

Coalesce_TakesLease(s, i, not_before) ==
    PutLive(s, i, [s.live[i] EXCEPT !.lease_until = NoTime])

\* A keyed duplicate of a live row: remember it while the lease is running,
\* take the lease away once it has expired.
Coalesce(s, i, not_before) ==
    LET r == s.live[i]
    IN IF ~IsLeased(r) THEN s
       ELSE IF r.lease_until > not_before
            THEN [s EXCEPT !.live[i].pending_dirty = TRUE]
            ELSE PutLive(s, i, [r EXCEPT !.lease_until = NoTime])

SameContent(i, r, c) == r.dept = DeptOf[i] /\ r.content = c

\* "conflict" is the error return: the transaction is dropped.
EnqueueOutcome(s, i, c, observed_at) ==
    IF s.live[i] # Absent
    THEN IF i \in Keyed \/ SameContent(i, s.live[i], c) THEN "accepted" ELSE "conflict"
    ELSE IF i \in Compact(s, observed_at).suppressed THEN "terminally_suppressed"
         ELSE "accepted"

Enqueue_Unchecked(s, i, c, observed_at, not_before) ==
    IF s.live[i] # Absent THEN s
    ELSE PutLive(Compact(s, observed_at), i, NewRecord(i, c, not_before))

Enqueue(s, i, c, observed_at, not_before) ==
    IF s.live[i] # Absent
    THEN IF i \in Keyed THEN Coalesce(s, i, not_before) ELSE s
    ELSE LET t == Compact(s, observed_at)
         IN IF i \in t.suppressed THEN t
            ELSE PutLive(t, i, NewRecord(i, c, not_before))

-----------------------------------------------------------------------------
(* lease: the keys are read in one transaction and leased in another.      *)

ExpiredLeaseQuota(limit) == IF limit \div 2 = 0 THEN 1 ELSE limit \div 2
ScanBudget(limit, excluded) == 8 * limit + Cardinality(excluded)

DueKeysOf(index, d, now) == {k \in index : k[1] = d /\ k[2] <= now}

CollectExpiredKeys(s, d, limit, now) ==
    First(ExpiredLeaseQuota(limit), DueKeysOf(s.leased, d, now))

CollectReadyKeys(s, d, excluded, limit, now) ==
    First(ScanBudget(limit, excluded), DueKeysOf(s.ready, d, now))

Examined_Running(s, d, excluded, keys) ==
    {k \in keys : s.live[k[3]] # Absent => s.live[k[3]].dept = d}

\* lease_key skips a key of an excluded id or of another department's row.
Examined(s, d, excluded, keys) ==
    {k \in keys : /\ k[3] \notin excluded
                  /\ s.live[k[3]] # Absent => s.live[k[3]].dept = d}

LeasedExpired(s, d, excluded, expired) ==
    {i \in Deliveries : \E k \in Examined(s, d, excluded, expired) :
        k[3] = i /\ s.live[i] # Absent /\ s.live[i].lease_until = k[2]}

Leasable(s, d, excluded, now) ==
    {i \in Deliveries \ excluded : IsReady(s.live[i]) /\ s.live[i].dept = d
                                   /\ s.live[i].not_before <= now}

ReadyWithinLimit_Untaken(s, d, excluded, ready, taken, limit, now) == First(limit, ready)

\* The ready keys processed before the batch is full.
ReadyWithinLimit(s, d, excluded, ready, taken, limit, now) ==
    {k \in ready : taken + Cardinality({i \in Leasable(s, d, excluded, now) :
                                \E j \in ready : j[3] = i /\ KeyBefore(j, k)}) < limit}

LeasedReady(s, d, excluded, expired, ready, limit, now) ==
    LET taken == Cardinality(LeasedExpired(s, d, excluded, expired))
    IN {i \in Leasable(s, d, excluded, now) :
          \E k \in ReadyWithinLimit(s, d, excluded, ready, taken, limit, now) : k[3] = i}

LeasedIds(s, d, excluded, expired, ready, limit, now) ==
    LeasedExpired(s, d, excluded, expired)
        \cup LeasedReady(s, d, excluded, expired, ready, limit, now)

LeaseRow_ExpiredKept(r, now) ==
    [r EXCEPT !.lease_generation = IF IsLeased(r) THEN @ ELSE @ + 1,
              !.lease_until = now + LeaseDuration]

LeaseRow(r, now) ==
    [r EXCEPT !.lease_generation = @ + 1, !.lease_until = now + LeaseDuration]

\* Every examined key is removed from its index; the key of a row that turned
\* out not to be due is put back, and a leased row gets its lease key.
Lease(s, d, excluded, expired, ready, limit, now) ==
    LET taken   == Cardinality(LeasedExpired(s, d, excluded, expired))
        reached == Examined(s, d, excluded,
                       ReadyWithinLimit(s, d, excluded, ready, taken, limit, now))
        early   == {i \in Deliveries : /\ \E k \in reached : k[3] = i
                                       /\ IsReady(s.live[i])
                                       /\ s.live[i].not_before > now}
        leased  == LeasedIds(s, d, excluded, expired, ready, limit, now)
    IN [s EXCEPT
          !.live   = [i \in Deliveries |-> IF i \in leased THEN LeaseRow(s.live[i], now)
                                           ELSE s.live[i]],
          !.ready  = (@ \ reached) \cup UNION {ReadyKeys(i, s.live[i]) : i \in early},
          !.leased = (@ \ Examined(s, d, excluded, expired))
                        \cup {<<d, now + LeaseDuration, i>> : i \in leased}]

-----------------------------------------------------------------------------
(* renew_leases, ack and defer_lock_busy, fenced by the lease generation.  *)

HoldsLease(s, i, generation) ==
    IsLeased(s.live[i]) /\ s.live[i].lease_generation = generation

\* held maps the ids of the running deliveries to their generations.
RenewLeases(s, held, lease_until) ==
    PutLiveRows(s, [i \in {j \in DOMAIN held : HoldsLease(s, j, held[j])} |->
                       [s.live[i] EXCEPT !.lease_until = lease_until]])

HasFollowUp_Never(i, r) == FALSE

\* prepare_dirty_follow_up
HasFollowUp(i, r) == i \in Keyed /\ r.pending_dirty

FollowUp(r, not_before) ==
    [r EXCEPT !.pending_dirty = FALSE, !.attempt = 0, !.redrive_count = 0,
              !.absent_since = NoTime, !.lease_until = NoTime,
              !.not_before = not_before]

Ack_Unfenced(s, i, generation) == IF IsLeased(s.live[i]) THEN PutLive(s, i, Absent) ELSE s

Ack_RowOnly(s, i, generation) ==
    IF HoldsLease(s, i, generation) THEN [s EXCEPT !.live[i] = Absent] ELSE s

Ack(s, i, generation) ==
    LET r == s.live[i]
    IN IF ~HoldsLease(s, i, generation) THEN s
       ELSE PutLive(s, i, IF HasFollowUp(i, r) THEN FollowUp(r, r.not_before) ELSE Absent)

DeferLockBusy_Past(s, i, generation, now, delay) ==
    IF ~HoldsLease(s, i, generation) THEN s
    ELSE PutLive(s, i, [s.live[i] EXCEPT !.lease_until = NoTime, !.not_before = now - delay])

DeferLockBusy(s, i, generation, now, delay) ==
    IF ~HoldsLease(s, i, generation) THEN s
    ELSE PutLive(s, i, [s.live[i] EXCEPT !.lease_until = NoTime, !.not_before = now + delay])

-----------------------------------------------------------------------------
(* retry: back off, or dead-letter at the last attempt.                    *)

MinOf(a, b) == IF a <= b THEN a ELSE b

BackoffDelay(attempt) ==
    LET exponent == IF attempt = 0 THEN 0 ELSE MinOf(attempt - 1, 63)
    IN MinOf(BackoffBase * 2^exponent, BackoffCap)

MaxJitter == BackoffBase \div 4

\* The hash behind bounded_jitter may give any value up to a quarter of the base.
RetryDelays(attempt) ==
    {delay \in 0 .. (BackoffCap + MaxJitter) :
        \E jitter \in 0 .. MaxJitter : delay = BackoffDelay(attempt) + jitter}

DeadLetter_Bare(r, now, replayable, reason) ==
    [dept |-> r.dept, content |-> r.content, dead_at |-> now, attempts |-> r.attempt,
     redrive_count |-> r.redrive_count, permanent |-> ~replayable,
     allows_keyed_reuse |-> FALSE, reason |-> reason, record |-> Absent]

DeadLetter(r, now, replayable, reason) ==
    [dept |-> r.dept, content |-> r.content, dead_at |-> now, attempts |-> r.attempt,
     redrive_count |-> r.redrive_count, permanent |-> ~replayable,
     allows_keyed_reuse |-> FALSE, reason |-> reason,
     record |-> IF replayable THEN r ELSE Absent]

\* The last attempt failed.  A keyed signal that came in during a run that
\* failed for good is promoted to a fresh row instead of being suppressed.
RetryExhausted(s, i, r, replayable, now) ==
    LET dead     == DeadLetter(r, now, replayable, "failed")
        promoted == ~replayable /\ HasFollowUp(i, r)
        buried   == PutDead(s, i, [dead EXCEPT !.allows_keyed_reuse = promoted])
    IN IF promoted THEN PutLive(buried, i, FollowUp(r, now))
       ELSE IF replayable THEN PutLive(buried, i, Absent)
       ELSE Suppress(PutLive(buried, i, Absent), {i})

RetryOutcome(s, i, generation, replayable) ==
    IF s.live[i] = Absent THEN "missing"
    ELSE IF ~HoldsLease(s, i, generation) THEN "stale"
    ELSE IF s.live[i].attempt + 1 < MaxAttempts THEN "scheduled"
    ELSE IF replayable THEN "dead_pending_redrive"
    ELSE "permanent_dead"

Retry(s, i, generation, replayable, now, delay) ==
    LET failed == [s.live[i] EXCEPT !.attempt = @ + 1, !.lease_until = NoTime]
    IN IF IsReady(s.live[i]) THEN s
       ELSE CASE RetryOutcome(s, i, generation, replayable) \in {"missing", "stale"} ->
                   Compact(s, now)
              [] RetryOutcome(s, i, generation, replayable) = "scheduled" ->
                   Compact(PutLive(s, i, [failed EXCEPT !.not_before = now + delay]), now)
              [] OTHER -> Compact(RetryExhausted(s, i, failed, replayable, now), now)

-----------------------------------------------------------------------------
(* redrive: the keys are read in one transaction and handled in another.   *)
(* subscribers maps each queue with exactly one reliable subscriber to it. *)

CooledDown(d, now) == d.dead_at + Cooldown <= now

IsSubscriberAbsent(d) ==
    d.reason = "subscriber_absent" /\ d.record # Absent /\ d.record.absent_since # NoTime

\* A dead letter of a queue that has no single subscriber stays put.
Unroutable(i, d, subscribers) == IsSubscriberAbsent(d) /\ QueueOf[i] \notin DOMAIN subscribers

Matches(s, k) == s.dead[k[3]] # Absent /\ s.dead[k[3]].dead_at = k[2]

\* The scan stops at the first dead letter that is still cooling down.
CollectDueDeadKeys(s, subscribers, now) ==
    LET due     == {k \in s.dead_due : k[2] <= now}
        cooling == {k \in due : Matches(s, k) /\ ~CooledDown(s.dead[k[3]], now)}
        skipped == {k \in due : Matches(s, k) /\ Unroutable(k[3], s.dead[k[3]], subscribers)}
    IN First(BatchLimit,
             {k \in due \ (cooling \cup skipped) : ~\E c \in cooling : KeyBefore(c, k)})

\* The ids whose dead letter is redriven or given up, and those given up.
RedriveActive(s, keys, subscribers, now) ==
    {i \in Deliveries :
        /\ \E k \in keys : k[3] = i /\ Matches(s, k)
        /\ s.dead[i] # Absent
        /\ CooledDown(s.dead[i], now)
        /\ ~s.dead[i].permanent
        /\ ~Unroutable(i, s.dead[i], subscribers)}

RedriveBuried_OneMore(s, active) ==
    {i \in active : s.dead[i].redrive_count > MaxRedrives \/ s.live[i] # Absent}

RedriveBuried(s, active) ==
    {i \in active : \/ s.dead[i].record = Absent
                    \/ s.dead[i].redrive_count >= MaxRedrives
                    \/ s.live[i] # Absent}

\* At the cap, a keyed signal waiting in the record becomes a fresh row.
RedrivePromoted(s, buried) ==
    {i \in buried : /\ s.live[i] = Absent
                    /\ s.dead[i].record # Absent
                    /\ HasFollowUp(i, s.dead[i].record)}

RedrivePreserved_None(s, buried) == {}

\* A keyed live row keeps its id usable.
RedrivePreserved(s, buried) ==
    {i \in buried \cap Keyed : s.live[i] # Absent /\ s.dead[i].record # Absent}

RedriveRecord(s, i, subscribers) ==
    IF IsSubscriberAbsent(s.dead[i])
    THEN [s.dead[i].record EXCEPT !.dept = subscribers[QueueOf[i]]]
    ELSE s.dead[i].record

Redriven(d, r, now) ==
    [r EXCEPT !.redrive_count = d.redrive_count + 1, !.attempt = 0,
              !.lease_until = NoTime, !.lease_generation = @ + 1,
              !.not_before = now, !.absent_since = NoTime]

Buried(s, i, reusable) ==
    [s.dead[i] EXCEPT !.permanent = TRUE, !.record = Absent,
                      !.allows_keyed_reuse = @ \/ reusable,
                      !.reason = IF /\ s.dead[i].record # Absent
                                    /\ s.dead[i].redrive_count < MaxRedrives
                                 THEN "collision" ELSE @]

\* Keys that no longer name the dead letter they were made for are repaired.
RepairDeadKeys(s, keys, active, now) ==
    LET stale == {k \in keys : ~Matches(s, k)}
        moved == {i \in {k[3] : k \in stale} \ active : s.dead[i] # Absent}
        spent == {k \in keys : /\ Matches(s, k)
                               /\ s.dead[k[3]].permanent
                               /\ CooledDown(s.dead[k[3]], now)}
    IN [s EXCEPT
          !.dead_due  = (@ \ (stale \cup spent))
                           \cup UNION {DueKeys(i, s.dead[i]) : i \in moved},
          !.dead_time = (@ \ {<<k[2], k[3]>> : k \in stale})
                           \cup UNION {DeadTimeKeys(i, s.dead[i]) : i \in moved}]

Redrive(s, keys, subscribers, now) ==
    LET active   == RedriveActive(s, keys, subscribers, now)
        buried   == RedriveBuried(s, active)
        promoted == RedrivePromoted(s, buried)
        kept     == promoted \cup RedrivePreserved(s, buried)
        row(i)   == RedriveRecord(s, i, subscribers)
        repaired == RepairDeadKeys(s, keys, active, now)
        deadDone == PutDeadRows(repaired,
                        [i \in active |-> IF i \in buried THEN Buried(s, i, i \in kept)
                                          ELSE Absent])
        liveDone == PutLiveRows(deadDone,
                        [i \in (active \ buried) \cup promoted |->
                           IF i \in promoted THEN FollowUp(row(i), now)
                           ELSE Redriven(s.dead[i], row(i), now)])
    IN Compact(Suppress(liveDone, buried \ kept), now)

-----------------------------------------------------------------------------
(* The subscriber-absence sweep: candidates are read in one transaction    *)
(* and handled in another.  queues are those with a reliable subscriber.   *)

CollectAbsenceCandidates(s, queues) ==
    LET candidates == {i \in Deliveries : /\ s.live[i] # Absent
                                          /\ \/ QueueOf[i] \notin queues
                                             \/ s.live[i].absent_since # NoTime}
    IN {i \in candidates : Cardinality({j \in candidates : j < i}) < BatchLimit}

AbsenceExpired(s, i, queues, now) ==
    /\ s.live[i] # Absent
    /\ QueueOf[i] \notin queues
    /\ s.live[i].absent_since # NoTime
    /\ s.live[i].absent_since + AbsenceBudget <= now

SweepAbsence_Unmarked(s, candidates, queues, now) == s

SweepAbsence(s, candidates, queues, now) ==
    LET present  == {i \in candidates : s.live[i] # Absent}
        marked   == {i \in present : /\ QueueOf[i] \notin queues
                                     /\ s.live[i].absent_since = NoTime}
        cleared  == {i \in present : /\ QueueOf[i] \in queues
                                     /\ s.live[i].absent_since # NoTime}
        expired  == {i \in present : AbsenceExpired(s, i, queues, now)}
        dead(i)  == DeadLetter([s.live[i] EXCEPT !.lease_until = NoTime, !.not_before = now],
                               now, TRUE, "subscriber_absent")
        noted    == [s EXCEPT !.live =
                        [i \in Deliveries |->
                           IF i \in marked THEN [s.live[i] EXCEPT !.absent_since = now]
                           ELSE IF i \in cleared THEN [s.live[i] EXCEPT !.absent_since = NoTime]
                           ELSE s.live[i]]]
        deadDone == PutDeadRows(noted, [i \in expired |-> dead(i)])
    IN IF marked \cup cleared \cup expired = {} THEN s
       ELSE Compact(PutLiveRows(deadDone, [i \in expired |-> Absent]), now)

-----------------------------------------------------------------------------
(* Startup: rows of a queue with exactly one reliable subscriber follow it.*)
(* A lease held under the old department is fenced off.                    *)

RebindDeliveries_RowsOnly(s, subscribers) ==
    [s EXCEPT !.live = [i \in Deliveries |->
        IF s.live[i] # Absent /\ QueueOf[i] \in DOMAIN subscribers
        THEN [s.live[i] EXCEPT !.dept = subscribers[QueueOf[i]]] ELSE s.live[i]]]

RebindDeliveries(s, subscribers) ==
    LET moving  == {i \in Deliveries : /\ s.live[i] # Absent
                                       /\ QueueOf[i] \in DOMAIN subscribers
                                       /\ s.live[i].dept # subscribers[QueueOf[i]]}
    IN PutLiveRows(s, [i \in moving |->
           [s.live[i] EXCEPT !.dept = subscribers[QueueOf[i]],
                             !.lease_generation = IF IsLeased(s.live[i]) THEN @ + 1 ELSE @]])

-----------------------------------------------------------------------------
(* lookup_lineage: the first live delivery and the latest final failure of *)
(* a source at a department's queue, found through the lineage index.      *)

LineageHits(s, kind, q, d, source) ==
    {k \in s.lineage : k[1] = kind /\ k[2] = d /\ k[3] = source /\ QueueOf[k[5]] = q}

LineageBefore(a, b) == a[4] < b[4] \/ (a[4] = b[4] /\ a[5] < b[5])

LookupLive(s, q, d, source) ==
    LET hits == {k \in LineageHits(s, "live", q, d, source) : s.live[k[5]] # Absent}
    IN {k[5] : k \in {h \in hits : ~\E g \in hits : LineageBefore(g, h)}}

LookupTerminal_Earliest(s, q, d, source) ==
    LET hits == {k \in LineageHits(s, "terminal", q, d, source) : IsTombstone(s.dead[k[5]])}
    IN {k[5] : k \in {h \in hits : ~\E g \in hits : LineageBefore(g, h)}}

LookupTerminal(s, q, d, source) ==
    LET hits == {k \in LineageHits(s, "terminal", q, d, source) : IsTombstone(s.dead[k[5]])}
    IN {k[5] : k \in {h \in hits : ~\E g \in hits : LineageBefore(h, g)}}

-----------------------------------------------------------------------------
(* What the transactions keep, as predicates on tables; the properties of  *)
(* DeliveryStore and Supervise state them of the committed tables.         *)

LiveIndexed(s) ==
    \A i \in Deliveries : /\ ReadyKeys(i, s.live[i]) \subseteq s.ready
                          /\ LeaseKeys(i, s.live[i]) \subseteq s.leased

DeadIndexed(s) ==
    \A i \in Deliveries : /\ DueKeys(i, s.dead[i]) \subseteq s.dead_due
                          /\ TerminalKeys(i, s.dead[i]) \subseteq s.terminal

TerminalIndexExact(s) ==
    \A k \in s.terminal : k \in TerminalKeys(k[3], s.dead[k[3]])

DueIndexExact(s) ==
    \A k \in s.dead_due : k \in DueKeys(k[3], s.dead[k[3]])

DeadTimeExact(s) ==
    /\ \A i \in Deliveries : DeadTimeKeys(i, s.dead[i]) \subseteq s.dead_time
    /\ \A k \in s.dead_time : k \in DeadTimeKeys(k[2], s.dead[k[2]])

SuppressionSound(s) ==
    \A i \in Deliveries :
        /\ IsTerminal(s.dead[i]) /\ ~s.dead[i].allows_keyed_reuse => i \in s.suppressed
        /\ i \in Keyed \cap s.suppressed => s.live[i] = Absent /\ ~Redrivable(s.dead[i])

LineageMatchesScan(s) ==
    \A q \in Queues, d \in Depts, c \in Contents :
        LET rows  == {i \in Deliveries : /\ s.live[i] # Absent
                                         /\ QueueOf[i] = q /\ s.live[i].dept = d
                                         /\ SourceOf[s.live[i].content] = SourceOf[c]}
            tombs == {i \in Deliveries : /\ IsTombstone(s.dead[i])
                                         /\ QueueOf[i] = q /\ s.dead[i].dept = d
                                         /\ SourceOf[s.dead[i].content] = SourceOf[c]}
        IN /\ LookupLive(s, q, d, SourceOf[c]) =
                 {i \in rows : \A j \in rows \ {i} :
                     \/ s.live[i].not_before < s.live[j].not_before
                     \/ s.live[i].not_before = s.live[j].not_before /\ i < j}
           /\ LookupTerminal(s, q, d, SourceOf[c]) =
                 {i \in tombs : \A j \in tombs \ {i} :
                     \/ s.dead[i].dead_at > s.dead[j].dead_at
                     \/ s.dead[i].dead_at = s.dead[j].dead_at /\ i > j}
=============================================================================
