# fkst-substrate: TLA+ models and proofs

`fkst-substrate` runs *departments* (Lua programs) on *events*. The part of it that is hard to
get right is durable delivery: an event for a reliable subscriber is stored, leased, run in a
child process, acknowledged, retried, dead-lettered and redriven, while processes crash, leases
expire, duplicates arrive and the subscription graph changes between starts. This directory
models that part from the Rust sources, checks it with TLC on small instances and proves three of
its properties with TLAPS for every instance.

`PROJECT.json` is the machine-readable index: components, runs, the source lines behind every
definition, hazards, findings, theorems.

## The system

```
fkst-supervisor  ── process root: starts and tears down the tree
  └─ fkst-framework supervise
       cron / file_watch sources ─┐
                                  ▼
                            DeliveryRouter ──► DeliveryStore (redb)   reliable subscribers
                                  ▲        └─► fanout channels        ephemeral subscribers
                                  │                 │
                        raised events          department consumer (one task each)
                                  │                 │ leases, renews, finishes
                                  └──── child ◄─────┘ one process per event
```

| part | source (under `src/crates/`) | modelled |
|---|---|---|
| durable delivery store | `fkst-framework/src/supervise/delivery_{store,index,transition,types,retry}.rs` | `DeliveryTables`, `DeliveryStore` |
| delivery router | `…/supervise/delivery_router.rs` | `Supervise`: publish loop, subscription maps |
| department consumer | `…/supervise/consumer.rs`, `raised.rs` | `Supervise`: the reliable path |
| supervise process | `…/supervise/mod.rs` | `Supervise`: startup, sweeper, crash and restart |
| event sources | `…/supervise/source_runner.rs` | `Supervise`: only that a source may publish |
| ephemeral fanout | `…/supervise/event_fanout.rs` | planned |
| child spawner, process groups | `…/supervise/spawner.rs`, `process_tree.rs` | planned |
| process root | `fkst-supervisor/src/` | planned |
| codex runs and adoption | `fkst-framework/src/sdk_codex.rs` | planned |
| rate pools and shims | `rate_pool.rs`, `rate_shim.rs` | planned |
| read coalescing | `read_coalesce.rs` | planned |
| locks, once, cache | `sdk_git.rs`, `sdk_mark.rs`, `sdk_cache.rs` | planned |
| observe projections | `…/supervise/delivery_observe.rs`, `observe*.rs`, `sdk_observe.rs` | paging planned |
| failure facts | `failure_fact.rs`, `queue_starvation.rs`, `delivery_watch.rs` | publication only, in `Supervise` |
| graph scan and validation | `…/supervise/graph_scan.rs`, `fkst-common/src/validation.rs` | planned, pure operators |
| deployment updater | `fkst-update/src/` | planned |
| manifests, dependency resolution | `manifest*.rs`, `path_resolver.rs`, `deps_cli.rs` | dependency closure planned |
| Lua SDK surface | `sdk_{basic,fs,json,toml,i18n,restricted_lua,exec_argv}.rs` | no: conversions and I/O without shared state |
| test runner, conformance | `test_*.rs`, `*_conformance.rs` | no: development tooling |

## Modules

**`DeliveryTables`** holds the store's tables as one record and each write transaction as an
operator from tables to tables. The fields are `live` (DELIVERIES), `dead` (DEAD_LETTERS), the
indexes `ready`, `leased`, `dead_due`, `dead_time`, `terminal`, `lineage`, and `suppressed` (the
terminal suppression table, as the set it represents). An index is the set of its keys, written
by `PutLiveRows` and `PutDeadRows` the way the code writes it: old keys out, new keys in. So a
key that no row accounts for can exist in the model too. A transaction includes its trailing
compaction of expired tombstones.

**`DeliveryStore`** is the store alone. Each operation of `delivery_store.rs` is an action that
any task may call with any clock reading, lease generation and subscription map. `lease`,
`redrive_due` and the absence sweep collect their work list in one transaction and apply it in
another; each is a `Begin…` and a `Finish…` action, and any other step may come between them. Two
history variables follow signals: `fresh` has an accepted signal that no run has started on,
`covered` one that a run has taken up and nothing has settled.

**`Supervise`** is the runtime around the same transactions, with one shared clock:

| actions | code |
|---|---|
| `Start`, `StartupSweep`, `Crash` | `supervise()`: rebind, first sweep, loss of everything but the store |
| `SourcePublish`, `SourceEnqueue` | `publish_outcome`: one subscriber at a time, stopping at an error |
| `Tick`, `Maintain`, `RedriveDue` | consumer tick: `renew_running`, `maintain_dead_letters` |
| `Dispatch`, `LeaseDue` | `dispatch_due`, at the end of a tick or on a wake |
| `ChildRaise`, `ChildPublish`, `ChildExit` | a child, its raised events, its exit code |
| `Complete`, `ReadTombstone`, `Report` | `finish_durable_record` and what it publishes afterwards |
| `Sweep`, `SweepCommit` | the periodic subscriber-absence sweeper |

**`MCDeliveryStore`**, **`MCSupervise`** give the constants their small values.
**`DeliveryStoreProofs`** and **`DeliveryFenceProofs`** have the theorems about `DeliveryStore`.

### Abstractions

- A delivery id is a number. `EventOf`, `QueueOf`, `DeptOf`, `Keyed` say what it was derived
  from; the hashing that derives it is left out. Only raised events are keyed in the `Supervise`
  runs, as in the code. A payload is a member of `Contents`: only equality matters (collisions),
  and `SourceOf` gives its lineage source.
- Backoff is a set of possible delays (`RetryDelays`), because the code adds jitter.
- A raised event's observation time is any time up to now, more than the code allows.
- A consumer may dispatch whenever it is idle. That covers every wake, early, late or dropped.
- A failure to build the child's arguments is a run that fails for good at once. An orderly
  shutdown is failed or finished children followed by `Crash`.
- `BatchLimit` stands for both the dispatch batch and the sweep batch.
- `Redrive` takes a dead letter's due entry out under the key made from its row, where the code
  removes the key it collected; `PutLiveRows` writes the lineage entry with every row, where the
  code skips the write when a row is only renewed or coalesced. Both are the same while
  `DEAD_BY_DEPT_DUE` and the lineage index are exact, and that they are exact is itself checked in
  every state (`NoStrandedDeadLetter`, `LineageAnswersScan`), the first deviation included.
- Graphs have reliable subscribers only, so a raised event without targets has no subscriber.
- redb's own errors and rows that do not decode are left out.
- `lease_delivery` and `next_due_deterministic` have no production caller.

## Properties and runs

| run | instance | checks | distinct states |
|---|---|---|---|
| `store_keyed` | one keyed id, 3 generations, 2 attempts | type, index, suppression, no lost signal, fencing, finality | 124,778 |
| `store_plain` | one unkeyed id, two payloads (collisions) | suppression, no lost signal, finality | 104,542 |
| `store_budgets` | one keyed id, 2 attempts, 1 redrive, 3 generations | retry and redrive budgets | 314,034 |
| `store_rebind` | two departments, one queue | stranding, lineage, fencing under rebinds | 53,712 |
| `supervise_pipeline` | two departments; the first raises a keyed event for the second; one restart | type, exact indexes, leases honoured, no lost signal | 626,567 |
| `supervise_lineage` | a department raising onto its own queue | lineage queries with two ids of one source | 124,205 |
| `supervise_backlog` | three deliveries, capacity two | capacity, leases honoured, exact indexes, no lost signal | 232,896 |
| `supervise_reports` | dead letters and failure facts are themselves delivered, with conflicting payloads | no lost signal | 626,936 |
| `supervise_graphs` | up to three starts; the queue moves, loses or regains its subscriber | no lost signal | 58,128 |
| `supervise_orphan` | three subscribers, one leaves | violated: see the finding | – |

What the properties say:

- `NoLostSignal`: at least once until acknowledged or given up. An accepted signal is carried by
  a live row or a redrivable dead letter until a run *started after it* is acked or reported as
  finally failed, or its dead letter is given up at the redrive limit (a signal parked with an
  absent subscriber may be given up there without ever having run). While a run that started before the signal holds the lease, `pending_dirty` is set.
- `NoStrandedDelivery`, `NoStrandedDeadLetter`, `DeadTimeIndexExact`: rows are found only through
  indexes, so each row must be in the one its state calls for, even when work lists are stale;
  and nothing is due for redrive that is not a dead letter waiting for it.
- `RuntimeIndexesExact`: stale index keys, which the store alone allows, never arise under
  `supervise`, because only a row's own department leases and acks it.
- `GenerationFences`: a lease call raises the generation of every row it returns, ready or under
  an expired lease, and so does moving a leased row, so a late holder's ack, renewal or retry
  cannot match.
- `LeaseHonoured`: until its lease runs out, a child's holder is the one the store knows, and a
  department never holds a lease of an id newer than that of the child it runs for it: it starts
  no second one.
- `SuppressionMatchesFate`, `FinalFailureStays`: a final failure is remembered after its
  tombstone is compacted away, and never blocks a keyed delivery in progress.
- `WithinRetryBudgets`: attempts and redrives never pass their limits, and nothing ends early: a
  dead letter for failure has used all its attempts, one given up as subscriber-absent all its
  redrives.
- `WithinCapacity`: a department never runs more children than its limit.
- `LineageAnswersScan`: an index-driven lineage query equals a scan of both tables.
- `StartupRecordsAbsence` (see the finding): after the startup sweep, each live row has a consumer
  or an absence time.

### Bounds

Every duration is at most two ticks, so two or three clock readings put a row on either side of
each single boundary; two boundaries in a row (the absence budget and then the redrive cooldown)
are reached in `store_budgets`, whose absence budget is 0. The store runs have one
id, since a transaction never relates two rows except through batch limits and scan order; those
are exercised by `supervise_backlog` and `supervise_lineage`. They have one caller inside a
two-transaction operation; every single-transaction operation may still happen inside it. Two
concurrent two-transaction callers exceed what TLC finishes in minutes at store level; they occur
in the `Supervise` runs (two departments, a sweeper), and the theorems hold for any number.
`MaxGeneration`, `MaxTime`, `MaxPublications` and `MaxStarts` bound the exploration and are not
guards of the code. A run raises at most one event.

### Fairness

None is assumed: every property so far is a safety property. Liveness is in the plan below.

### Finding

`supervise_orphan` shows a disagreement between a document and the code. `SPEC.md:116` says: "If a
pending durable delivery has no current subscriber, supervise persists
`subscriber_absent_since_ms`". The sweep (`delivery_store.rs:1355`) looks only at whether the
*queue* has a reliable subscriber, and the rebind moves rows only of queues with exactly one. A
queue with three subscribers that loses one keeps a pending row for a department that no longer
consumes the queue: nobody leases it, and no absence is recorded. `docs/architecture.md:284` words
the rule by queue, as the code does.

## Proofs

For any sets of ids, departments, queues, contents and callers:

- `TypeCorrect`: `Spec => []TypeOK` (`DeliveryStoreProofs`)
- `NothingStranded`: `Spec => []NoStrandedDelivery` (`DeliveryStoreProofs`)
- `LeasesFenced`: `Spec => GenerationFences` (`DeliveryFenceProofs`)

Assumptions are those named in `DeliveryTables` and `DeliveryStore`: ids, departments and
times are naturals, there are finitely many ids, the policies are naturals (at least one attempt),
and `Absent` is not a record.

`NoStrandedDelivery` alone is not inductive: that a transaction re-indexes a row needs rows,
work lists and maps to be well formed. The inductive invariant is `TypeOK /\ LiveIndexed(db)`.
The argument has three layers. `PutLiveRowsIndexed` shows that rewriting any set of rows through
their index entries keeps every row indexed, because an entry names its id and so removing one
row's entries cannot remove another's. One lemma per transaction reduces it to such rewrites,
*without* assuming that the work list it is given is current. `StepSafe` has one case per action.

`LeasesFenced` needs only `TypeOK`. A caller inside a lease call leaves it only by finishing it
(`LeaseCallEnds`), and finishing it adds one to every row it returns (`GrantsRaise`). For
the rest, one lemma per transaction says what it does to the generation of each row; three facts
carry it. `lease` adds one to every row it returns, `rebind` adds one to
every leased row it moves, and `redrive_due` writes a live row only where there is none, so it can
never bring back an older generation over a newer row. All the other transactions keep the
generation and the department of a row and never turn a ready row into a leased one.

Only model-checked: all the other properties; everything in `Supervise`. Beyond the prover's
reach altogether: liveness under fairness, and facts that need induction over data.

## Plan

In order:

1. Proofs of `NoStrandedDeadLetter`, `DeadTimeIndexExact`,
   `SuppressionMatchesFate`, `FinalFailureStays`, and exactness of the lineage index.
2. `AtLeastOnce`: an abstract specification of delivery (pending, running, settled) that
   `DeliveryStore` refines.
3. Liveness on an untimed consumer: dispatch after a dropped wake, a panicking run, the sweep's
   batch filled by unexpired rows.
4. `TerminalSuppression` (open addressing refines a set) and `SchemaMigration`.
5. Ephemeral fanout, event sources (cron slots, `seen` cache), process groups and shutdown.
6. Codex permits and adoption; rate pools; read coalescing; locks, once and cache.
7. The process root, the updater, observe paging; graph validation and dependency closure as
   pure operators.
