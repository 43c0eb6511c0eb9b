# Trade Investing Panel: the specifications

The repository is a private research and paper-trading platform: a modular
Python monolith (`src/trade_platform`, about 205 modules) over PostgreSQL, with
a Next.js web interface. Market data is ingested and its health assessed,
research turns it into features and signals, an independent risk authority
judges every order intent, and an approved intent becomes an order of a paper
broker. No live order path exists. Everything that matters is append-only
evidence: decisions, assessments, order events, runs and alerts are inserted and
never revised, and the current state is what a read of the rows computes.

These TLA+ modules model the parts of it where state is shared by processes that
may interleave, fail and restart: the path from an intent to a filled order, the
scheduler that runs everything else, the capture of first-party market data from
the recorder to its off-site copy, and the trial queue of the Strategy Lab. Paths
below are relative to the repository; `trade_platform/x.py` is
`src/trade_platform/x.py`.

## 1. The system

### Inventory

| Component (source) | State it keeps | Operations | Talks to | Hard behaviour | Correct when |
|---|---|---|---|---|---|
| Scheduler worker (`scheduler.py`, `operational_jobs.py`, `worker_app.py`, `persistence.py`) | approved policy versions, terminal run records, PostgreSQL session advisory locks; one database connection per process (`persistence.py`), never opened again | `append_policy`, `due_jobs`, `run_tick`, `_execute`, `append_run`, `monitor_overdue`, the polling loop | alerts; every registered runner | several workers, a due list read before the locks are taken, crashes with a lock held, a session (and its locks) lost by a worker that lives on | one executor with a session per occurrence, no lock survives its user, a due job is executed |
| Operational alerts (`operational_alerts.py`) | newest event of each alert by fingerprint; route policies; delivery outbox | raise or deduplicate, acknowledge, resolve | scheduler, risk, strategy lab | a monitor acts on an old `as_of` | history does not run backwards |
| Order lifecycle (`paper_execution.py`, `domain.py`) | a value: quantity, filled, status | transition, fill, amend | OMS and adapter | late fills, amendments to the filled quantity | never overfilled, terminal is final |
| Durable paper OMS (`postgres_paper_oms.py`) | event log per order, fills, broker receipts, broker cursor | `create`, `transition`, `ingest_fill`, `cancel`, `amend`, `apply_broker_event`, replay | broker sync, operator | read, check and append without a row lock; two-transaction cancel | the log replays, fills agree, the cursor is the newest receipt |
| Sandbox adapter (`broker_adapter.py`) | orders, events, fill identifiers, in memory | `submit`, `fill`, `cancel`, `replace`, `read_events_after` | broker sync | forgets everything at a restart and numbers events from 1 again | the OMS follows it |
| Broker synchronization (`broker_sync.py`) | none of its own | `submit_after_assessment`, `sync_events`, `reconcile` | OMS, adapter | seven transactions per submission, any of which may fail, a crash between any two | an intent reaches the broker at most once; a submission that is not cut off settles |
| Paper runtime and risk authority (`paper_runtime.py`, `risk.py`) | decisions, daily reservations, kill switches | `assess`, `assess_and_submit`, `persist`, `activate`, `deactivate` | pre-trade evidence, recovery gate, OMS | two advisory locks, several processes, evidence that changes between attempts | the daily limit, one decision per intent, nothing unapproved reaches the OMS |
| Pre-trade evidence (`pretrade_assessment.py`, `postgres_pretrade.py`) | one assessment per intent, its policy documents | lookup, append | runtime | append races with another process | written once and equal to the decision |
| Recovery gate (`postgres_recovery.py`) | newest recovery event | `require_reconciliation`, `mark_reconciled`, `blocks` | runtime | check and insert are two transactions | no assessment while it blocks |
| Account evidence (`portfolio_evidence.py`, `portfolio_context.py`) | reads reconciliation rows | read | runtime | stale evidence | freshness at use |
| Signals, models, strategy promotion (`signal_engine.py`, `model_registry.py`, `strategy_promotion.py`, `postgres_decision_authorities.py`) | append-only lifecycles | register, transition, as-of reads | runtime | a revocation races a use | a use sees the newest state at its instant |
| Data health and providers (`data_health.py`, `provider_ingestion.py`) | quality state per feed | ingest, assess, quarantine | research, runtime | late and duplicate data | no decision on quarantined data |
| Historical acquisition (`historical_acquisition.py`) | resumable jobs and request budget | plan, resume, commit | providers | crash between download and commit | no gap, budget kept |
| Incubation and evidence runners (`paper_incubation_v1.py`, `runner_liveness_v1.py`, ...) | forward paper accounts, runner liveness | admit, step, expire | worker | missed steps | no look-ahead, one step per period |
| Capture recorder (`bybit_public_websocket_recorder_v1.py`) | per lane: connection, acknowledged topics, clock monitor, the open window and its gap, sequence number | connect, reply, record, reject, observe the clock, reconnect, end a session, turn the UTC day | the venue, the partition writer | lost links, a data message before the reply, clock steps, midnight inside a gap, failed flushes | windows without holes, no interruption bridged, the archive replays |
| Capture archive (`first_party_capture_archive_v1.py`) | files of a partition: marker, records, manifest, compressed records, compaction proof | open, append, finalize, compact, derive gaps, replay; local backup | recorder, supervisor, off-site backup | a crash between two renames | what is sealed stays complete |
| Off-site backup (`deploy/oci/capture_offsite.py`) | ledger of sent objects, receipts; a write-only bucket that deletes by age | hourly run, restore drill on another host, accept a receipt | archive files, bucket | lost answers, runs and ledgers; three numbers that must move together | the ledger never overstates, budget, history not sent twice |
| Seals and single-instance lock (`first_party_t4_seal_v1.py`, `single_instance_lock_v1.py`) | seal files, an OS lock | seal, verify, lock | archive | a second process on the same archive | one writer per archive |
| Strategy Lab trial queue (`strategy_lab_ledger_v1.py`, `strategy_lab_worker_v1.py`) | a queue row per trial with attempt and lease, append-only events, one result per trial | `register_study`, `claim`, `renew`, `complete`, `fail`, `retry_failed`, `cancel_study`; the worker loop and pool | database, the evaluator | leases that run out under a running evaluation, dead workers, retries and cancellation beside late answers | every attempt accounted for, a result of the last holder, a study finishes |
| Strategy Lab studies (`strategy_lab_study_v1.py`, ...) | none | identities, parameter spaces, statistics | trial queue | none | out of reach of state exploration |
| Retention and return history (`retention_evidence.py`, `return_history.py`) | retention evidence, return series | ingest, retry | providers | retries | idempotent ingestion |
| Audit log and terminal commands (`postgres_audit.py`, `research_terminal_commands_v1.py`) | hash-chained rows; command idempotency keys | append, execute | API | concurrent appends | one chain; a command runs once |
| HTTP API, identity, web | sessions | request handling | all stores | none of its own that the properties need | - |
| Research and features | none | numerical batch code | stores | none | out of reach of state exploration |

### How the modelled parts interact

    scheduler worker --runs--> monitor_overdue --> operational alerts <-- operator
         |                                              ^
         +-- failed run --------------------------------+

    intent --> PaperRuntime.assess_and_submit
                  | recovery gate, stored assessment, gates and kill switches
                  | risk decision + reservation or alert     (transaction 1)
                  | assessment                                (transaction 2)
                  +--> PaperBrokerSyncService.submit_after_assessment
                           | create, RISK_PENDING, APPROVED   (OMS transactions)
                           | adapter.submit
                           | SUBMISSION_PENDING, SUBMITTED, ACKNOWLEDGED
                           +--> sync_events: adapter events --> receipts, cursor,
                                                 fills and order events

    venue --messages--> recorder lane --append, declare--> partition writer
                            | session end, UTC midnight       | finalize
                            v                                 v
                        lifecycle log                  partition files
                                                           | supervisor: compact
                                                           v
       other host <--restore drill-- bucket <--PUT-- hourly backup --> ledger
           +------------------- receipts ---------------------------------^

    pool workers --claim, renew, complete, fail--> queue rows + events + results
    operator -----retry_failed, cancel_study-----------^

## 2. The modules

| Module | Models | State and actions |
|---|---|---|
| `OperationalAlerts` | `operational_alerts.py` | the newest event of an alert as a record; `RaiseAlert`, `CanTransition`, `TransitionAlert` are the transactions' bodies |
| `JobScheduler` | `scheduler.py`, `worker_app.py`, `operational_jobs.py`, `persistence.py`; EXTENDS `OperationalAlerts` | tables `approvedAt`, `runs`, `locks`, `alerts`; per worker a program counter, the locals of `run_tick` and `_execute`, and whether its session is `lost`. One action per transaction or clock reading: `Wake`, `ReadDue`, `TryClaim`, `SkipClaim`, `RunnerReturns`, `AppendRun`, `RaiseFailureAlert`, `Release`, `ReleaseAndAbort`, `EndTick`; failures `DueReadFails`, `ClaimFails`, `EvidenceFails`, `ReleaseFails`; `LoseSession` of a live worker, `Crash`, `Restart`; the environment `Tick`, `AppendPolicy`, `OperatorTransition` |
| `PaperOrder` | the order value of `paper_execution.py` | `Transitions`, `Fill`, `Amend` and their guards; shared by the two modules below |
| `PaperLedger` | what the OMS promises: a book of order rows, fills, receipts and a cursor | `Create`, `Transition`, `AmendOrder`, `CancelOrder`, `IngestFill` are the public OMS methods, `ApplyBrokerEvent` one broker event with its receipt |
| `BrokerSync` | `postgres_paper_oms.py`, `broker_adapter.py`, `broker_sync.py` as they are written | event logs that every operation replays (`OrderOf`), the adapter's memory, the service's position in `submit_after_assessment` and `sync_events`, one operator call. One action per OMS transaction or adapter call; with connections of their own, the read and the commit of a transaction are two actions. `ServiceCallFails` and `OperatorCallFails` are a transaction that fails in a process that lives on, `SubmitTakesUp` a retry that `create` hands a PROPOSED order, `Crash` loses the adapter and every open transaction. The history variable `interrupted` names the intents whose submission a failure or a crash cut off |
| `PaperRuntime` | `paper_runtime.py`, `risk.py`, `postgres_pretrade.py`, `postgres_recovery.py` | the tables, and per process the position in `assess`; `persist` is split at its two advisory locks, which are read off the processes inside it |
| `CaptureRecorder` | one lane of the recorder with its partition writer, and the derivations that read the archive | the session's `phase`, `acked`, `monitor`, `seq` and `book` (open window, pending gap, writer, sealed partitions), a wall clock that can be stepped. One action per handler: `Connect`, `ReceiveAck`, `ReceiveRecord`, `ReceiveInvalid`, `ReceiveControl`, `WriteError`, `DetectBrokenLink`, `LoseConnection`, `LogEvent`, `StartSession`, `StopSession`, `FailSession`, `Crash`; the environment `Tick`, `StepClock`, `MissMessage`, `VenueSubscribes`. `Closed`, `Opened`, `Sealed`, `Turned`, `Lost` are the helpers the handlers share |
| `CaptureArchive` | finalize and compaction as operations on files | `files` of each partition, the compaction in progress; one action per rename, create or unlink, with failures and a crash between any two |
| `CaptureOffsite` | the backup, its ledger, the bucket and the drills; EXTENDS `CaptureArchive` | `bucket`, `ledger`, `receipts`, the run in progress with its scan; `PutCreates`, `PutConflicts`, `PutAnswerLost`, `PutFails`, `AppendLedger`, `RunDies`, `LoseLedger`, `LifecycleDeletes`, `Drill`, `AcceptReceipt` |
| `StudyQueue` | the trial queue and its workers | the tables `queue`, `log`, `results`; per worker its place in `run_trial_worker_v1`, the rest of its batch and the age of its clock reading. A ledger call is a clock reading and a transaction: `BeginClaim` and `ClaimBatch` or `Drained`, `TakeTrial` and `Renew`, `Evaluated` and `Complete` or `Fail`, each of them or `LoseLease`; `Start`, `Stop`, `Crash`; `RetryFailed`, `CancelStudy`; `Tick` |
| `MC*` | instances for TLC | model values, symmetry |
| `*Proofs` | theorems and their proofs; `PaperLedgerProofs` is also used by `BrokerSyncProofs`, through the refinement | |
| `DataInduction` | nothing of the code: lemmas for proofs about data | induction over naturals in a first-order form, greatest and least elements, what a sum over a finite set is |

`PaperRuntime` ends where `BrokerSync` begins: `HandOff` is the call of
`submit_after_assessment` up to `oms.create`, and `Approved` in `BrokerSync` is
the set of intents whose stored assessment approves them. `BrokerSync`
implements `PaperLedger`: the refinement mapping replaces `book` by the replay
of every log, and the property `ImplementsLedger` says that every transaction of
the OMS is one step of the ledger, that a crash between two of them is none, and
that no broker call, service step or refusal changes what the ledger holds.

`CaptureOffsite` is composed with `CaptureArchive` by extension: the backup's
steps read the files while the compactor changes them. That it only reads, so that
every behaviour of the whole is one of the archive, is a theorem. `CaptureRecorder`
stands on its own: a sealed partition there is one that `SealPartition`
finalizes here.

### What is abstracted

* Prices, fees, times of events, digests and message authentication codes: no
  property depends on them. A fill is its identifier and quantity.
* The single risk rules, the portfolio gate and the evidence checks: their
  verdict is chosen, again at every evaluation, because the evidence they read
  changes between calls. Only an active kill switch in a scope that the engine
  asks about forces a rejection.
* `SUM(notional)` over the reservations is kept as a running total of the rows
  inserted; rows are never updated or deleted.
* Two different keys never collide in `hashtext`. A collision would only
  make one transaction wait for another one.
* A run's idempotency key is replaced by the worker and the time of
  completion, which separate two attempts just as well.
* Loops over rows are functions or folds with one operator per turn: the replay of an
  order's events (`ReplayEvent`) and the search for gaps over the windows in the order of
  their starts (`Scanned`, `Latest`). That is what lets a proof go turn by turn.
* A captured message is valid or not, a control message or a record; payloads and
  the lines' text are left out. Times are small numbers and a day is three of them.
* Sizes enter the backup as a monotone function on sets of partitions, so that
  nothing depends on what an object weighs. What another process stored under a
  partition's name is a partition in `Foreign`.
* A trial's parameters, metrics and hashes are left out of `StudyQueue`: a result
  is the attempt and worker it is stored with. Time there is relative (what is left
  of a lease, how old a clock reading is), so that no clock has to be bounded. The
  workers share one clock, as the processes of one pool do. A row that a
  transaction in flight holds is passed over by `SKIP LOCKED`: when that
  transaction commits, the claim is as if ordered after it, and when it is refused
  the row is in `Contended` and may be passed over or not.
* The broker receives no fill quantity below 1, and the log of one order is
  read in `event_sequence` order, as the code does.

What is deliberately not claimed: that a `FILLED` order is filled to its
quantity. The public `transition` accepts `ACKNOWLEDGED` to `FILLED` without a
fill.

## 3. The runs

| Run | Instance | Question and answer |
|---|---|---|
| `scheduler_jobs` | 2 workers, the monitor (a registered job that it watches too) and a job that nobody runs, an operator, clock 0..2, 1 session that ends (a crash, or under a live worker), 1 failed transaction | holds: one executor with a session per occurrence, no leaked lock, one success per worker and occurrence; an evaluation as of an earlier instant never rewrites what happened to an alert later |
| `scheduler_liveness` | 2 workers, 2 jobs of which one has a runner, 2 sessions that end, 1 failed transaction, fair workers | holds: a registered due job is executed or stops being due, unless every worker is one that lives without a session |
| `scheduler_once` | 2 workers, 1 job with 2 policy versions, the slower one second | violated: two workers execute one occurrence, one after the other (section 6) |
| `ledger` | 2 intents of quantity 2, amounts 1..3, 2 fill identifiers, 2 event sequences | holds: never overfilled, terminal orders are final |
| `sync_ledger` | 2 approved intents, shared connection, 3 broker events, 1 operator call, 1 crash or failed transaction | holds: refinement of `PaperLedger`; the log replays; one submission per intent; left alone by operators and crashes, the service meets no event it must refuse, and mirrors the broker, but for an order whose submission a failed transaction cut off |
| `sync_races` | 1 approved and 1 rejected intent, an operator on a connection of its own, 3 broker events, 1 operator call, 1 crash or failed transaction, fair service | holds: fills and cursor stay right even where the log does not; a started submission settles unless the process dies or one of its own transactions fails |
| `sync_replay` | the same instance, no fairness | violated: two connections append to the same read and the log cannot be replayed (section 6) |
| `runtime` | 2 processes, 2 intents of notional 2, limit 3, 1 failed call, 1 operator event, fair calls | holds: daily limit, reservation or alert, assessment follows decision, orders rest on approval; every call returns, the two locks are never waited for in a cycle |
| `runtime_reserved` | the same without operator events | violated: an order without a reservation (section 6) |
| `capture_session` | a day of 3, clock 0..3, one step back by 1, 2 records, 2 sessions, 1 lost connection or failed flush | holds: what is sealed reads as complete and replays unless a flush failed; no hole inside a window; gaps exactly between the windows; the writer's own checks never fire; the derived gaps are the holes; recording resumes while the session lasts |
| `capture_offsite` | 2 partitions, the larger also stored by somebody else, a budget that does not hold both, 1 failed operation or crash, 1 lost answer, run or ledger, runs of up to 1, clock 0..3 | holds: a sealed partition stays complete; the ledger never overstates; what the guard can still see of the bucket stays within the budget; what the bucket deleted by age is not sent again; what is sealed and fits is sent |
| `study_queue` | 2 workers, 2 trials, batches of 2, lease 5, evaluations and transactions of at most 1, one crash, stop or delay, 1 retry, cancellation at any time | holds: every attempt accounted for, results of the last holder, a worker in time keeps its lease, the study settles |

### Bounds

* Two workers, processes or connections are what a race needs; each of them
  can be in every step while the other one acts. A third would only repeat the
  role of the first.
* Two intents that together exceed the daily limit (2 + 2 > 3) make the budget
  decide; a second day or account would only separate them (`DailyLimitHolds` is proved for any).
* Quantity 2 with fills of 1 and 2 gives partial, full and excessive fills, and an
  amendment down to exactly what is filled. Three broker events are an
  acknowledgement followed by two changes, and after a crash the same sequences
  again below the durable cursor.
* One crash or failed call occurs at every possible step; the second one would
  start from a state that a restart already produces. In `scheduler_liveness` two
  sessions end, so that both workers can lose theirs, or one can and the other one dies.
* The scheduler's clock runs to 2, so that an evaluation as of 0 meets alerts that moved
  at 1 and 2, and, in `scheduler_once`, a slower policy version falls due after a faster
  one was replaced; the theorems of section 4 hold for any number of versions.
  `MaxTime`, `MaxEnds`, `MaxFaults`, `MaxFailures`,
  `MaxSwitches`, `MaxBrokerEvents`, `MaxOperatorCalls` and the set
  `ApprovalTimes` are the only bounds that are not sets of actors; each is a guard
  of the action it bounds.
* `CaptureRecorder`: two sessions are what an inherited sequence or gap needs, two
  records what a window with a hole needs; the clock passes midnight (3 is the second
  day) and can be stepped back over the end of a window. `MaxTime`, `MaxSteps`,
  `MaxRecords`, `MaxSessions` and `MaxLosses` are guards of the actions they bound.
* `CaptureOffsite`: `Budget` 2 holds the larger object or the smaller one, never both, so
  that withholding happens. A run may take a unit of time (`MaxRun` 1), so that what it
  sends is dated before it is stored. `Lifecycle` is 2 and the window 3: an object may be
  deleted from its second unit on, and one that is still there in its third has left the
  part of the window that `BucketWithinBudget` covers. Of the numbers only
  `NumbersMoveTogether` is assumed, `Horizon + MaxRun < Lifecycle`
  (`deploy/oci/README.md`: horizon <= retention < lifecycle; deployed, 4 days, a run killed
  after 50 minutes, and 5 days), and only the absence of resending needs it. The budget
  needs no relation between numbers: it covers what is younger than the window less a
  run. The README asks for a window of at least the lifecycle plus two days (line 233);
  then that is the whole bucket while the lifecycle is late by less than two days minus a
  run. What a later lifecycle leaves behind the guard cannot see, as lines 229-231 say,
  and the property does not claim.
* `StudyQueue`: with two trials in a batch the second one starts with a lease that the
  first has used; 5 is the smallest lease of which half is longer than an evaluation and
  its transaction. One mishap lets a lease run out in every way there is, and the reclaimed
  trial is then evaluated beside the old holder. Attempts are bounded by the mishaps and
  retries (`MaxMishaps`, `MaxRetries`).
* The `sync` and `ledger` runs do not check for deadlock: when the event list
  and every bound are used up and nobody calls, the system does stop. The
  scheduler, the runtime and the trial queue have no such state and are checked for
  deadlock. The capture runs stop when the sessions, the clock or the partitions are
  used up.

### Fairness

* `JobScheduler!FairSpec`: weak fairness of each worker's own steps and of its
  restart. The event loop of a worker polls for ever, every runner returns, and
  the deployment restarts a dead container (`restart: unless-stopped`). Nothing is
  assumed about the clock, the operator or about which worker wins a lock, and
  nothing restarts a worker that lives without a session: its health checks stay good
  and each of its ticks fails. That is why `DueEventuallyExecuted` exempts the state in
  which every worker is one (`lost = Workers`).
* `BrokerSync!FairSpec`: weak fairness of the steps of a call in progress, by which
  it returns or raises. A Python call that has started runs to its end unless the
  process dies; nobody has to call, and no broker event has to occur.
* `PaperRuntime!FairSpec`: strong fairness of each process's steps. PostgreSQL
  queues waiters for an advisory lock in the order in which they asked, so a
  process that finds its lock free again and again is served.
* `CaptureRecorder!FairSpec`: weak fairness of reconnecting, of the venue's and the
  recorder's part of a subscription, and of noticing a dead socket (the receive
  timeout). Nothing is assumed about messages, the clock or the operator.
* `CaptureOffsite!FairSpec`: weak fairness of the writer, the compactor, the restart
  (the container's restart policy) and the run (its timer). Losses are bounded, the
  drills and the bucket's deletions are free.
* `StudyQueue!FairSpec`: weak fairness of the steps of a worker that runs and of
  starting it again, as the worker's documentation asks for a study that was
  left unfinished, and strong fairness of `Tick`: time diverges. No trial has to be
  retried, and the failed ones count as settled.

## 4. The proofs

Each theorem holds for every value of the constants that satisfies the named
assumption of its module (`ConstantsAssumption`, `LedgerAssumption`,
`SyncAssumption`, `RuntimeAssumption`, `RecorderAssumption`, `ArchiveAssumption`,
`OffsiteAssumption`, `StudyAssumption`): any number of workers, processes, intents,
accounts, days, partitions, windows and trials, any limit and any bounds. Two need a
relation between numbers as well: the absence of resending needs
`NumbersMoveTogether`, the leases `EvaluationsFit`. Four theorems about
`BrokerSync` are stated for `SharedConnection` only, and must be: `sync_replay` shows
that they fail when an operator has a connection of its own. Every safety property that
a passing run checks is also a theorem.

**`JobSchedulerProofs`.** `TypeCorrect`. `ClaimsAreExclusive` proves
`OneExecutorPerOccurrence` and, restated by `LocksAreReturned`, `NoLeakedLock`
from `LockInvariant`: the locks are exactly the locks of the current occurrences of the
workers that have a session, and no two sessions hold one key. The property alone is not
inductive, since it does not say that an executing worker with a session still holds its
lock; the invariant fails if a crash, a failed runner or a failed record forgets to
release. Of a worker that lost its session in `_execute` the theorem claims nothing but
that it holds no lock: another worker may claim the same occurrence at once, so two
processes may be inside one runner. What the first one can no longer do is to record a
run, move an alert or claim again. `OneSuccess` needs two more: `TickInvariant` (one due
state per policy is left in a tick, each due at its `as_of`) and
`SuccessInvariant` (a worker's own successes lie before everything it still has
to do). The key lemma is `DueAfterSuccess`: a due date computed after a success
lies after it, because an interval is positive. `AlertsNeverRunBack` proves
`AlertHistoryMonotone` from two facts: both transactions keep an active alert's
order of events (`AlertContinues`), and no step of the system does anything else
to an alert (`AlertStep`).

**`PaperLedgerProofs`.** `TypeCorrect`, `OrdersNeverOverfilled`,
`CursorIsNewest`, `TerminalOrdersAreFinal`. `StepParts` splits every step of the
ledger into what it does to one order, to the fills and to receipts and cursor,
so that each property is proved about one part: `OrderStepSound` (transitions,
fills and amendments keep `filled <= quantity`) and `NoStepFromTerminal` are the
facts about the status graph.

**`BrokerSyncProofs`.** `OneSubmission` proves `SubmittedAtMostOnce` from the
invariant `Submission`: logs are sequences that only grow (`LogsGrow`,
`AppendKeeps`), and while the service is between `create` and the adapter's answer
its intent has never been submitted. The invariant starts from the guard that
`submit_after_assessment` takes only an intent without a log further; a version that
resumes an approved order after a crash breaks it. It holds with one connection
or several, also in states where a log cannot be replayed.

The other theorems rest on a lemma about the loop of `_order`: a log replays to an
order or is recognised as unreadable, and one row more is one more turn. From it:

* With any connections: `TypeCorrect` (invariant `Types`), `CursorIsNewest`, and
  `FilledIsCounted` from `Counted`. The last one is the delicate one, since a commit
  may follow from a stale read: what is needed is only that every append of a fill
  row comes with its row of the fills table, and that an order whose log is readable
  has taken each of them (`Writes` lists the ways in which a step writes at all).
* With one connection: `LogsReplay` from `Sound`, and the refinement
  `LogImplementsLedger`, commit by commit. What `PaperLedgerProofs` proves of the
  ledger then holds of the replayed log: `NoOrderOverfilled`, `TerminalOrdersStay`.
* Left alone by operators and crashes, with any connections and any number of failed
  transactions: `NothingIsRefused` and `BrokerIsMirrored`, from `Mirror`. Neither is
  near to inductive. The invariant says that the OMS lags behind the broker: there is a
  history of the adapter's orders, one entry per event (`History`), and the OMS holds the
  entry at its cursor (`Lags`), with two exceptions. One is the order of which it recorded
  the acknowledgement before it applied the event that says so. The other is an order
  whose submission a failed transaction cut off (`Interruptions`): it stands still where
  that left it, with nothing filled, the broker's acknowledgement leaves only a receipt, and
  its next fill is the one event that the OMS refuses. An event of any other order is
  accepted because it was legal at the adapter when it happened.

**`PaperRuntimeProofs`.** `TypeCorrect`. `DailyLimitHolds` rests on the
invariant `Budget`: the total that a process has read under the account/day
lock is still the sum when it commits, because at most one process per account
and day is past that lock. The limit alone is not inductive. The other four
(`DecisionsReserveOrAlert`, `AssessmentsFollowDecisions`, `OrdersRestOnApproval`,
`EvidenceNeverRevised`) follow from the invariant `Evidence`, which adds what the
calls in flight carry: a process between its two locks faces no decision yet and
nobody else is deciding the same intent (`Undecided`), a process that is about to
append carries the stored decision (`Carried`), and one that is about to hand off
has a stored approving assessment (`Handed`).

**`CaptureRecorderProofs`.** All six invariants of the run, from one inductive invariant
`Inv`. Its core is the line of windows of a partition with the open one at the end
(`Line`): every helper of the book, from `Opened` to `Sealed`, changes only the end of
that line. `Kept` says of the line that its windows are apart and without a hole, that the
declared gaps are exactly the stretches between them, that every counted record is in
one of them and each window counts its own (`Recorded`), and, between two windows, that a
gap waits exactly when an interruption ended the last one (`Waiting`). `Ready` says
when a window may be opened without a gap before it; `Faithful` is what a partition keeps
once it is sealed. One lemma per helper says that it keeps `Kept` (`ClosedKept`,
`OpenedKept`, `TurnedKept`, `SealedKept`, `CountedKept`, ...), one per handler composes
them. The properties alone speak of sealed partitions only and are far from inductive.
`TypeCorrect`, `WriterTrustsRecorder`, `PartitionsReplay`, `WindowsHaveNoHole` and
`InterruptionsStayOpen` follow. `DerivedGapsAreHoles` is about the loop of
`derive_capture_gaps_v1` for any finite set of windows, however they overlap
(`ScanFinds`): after each turn the gaps found are the holes among the windows met
(`Found`), because a window that starts last leaves every earlier hole alone and bounds at
most one more (`NextWindow`); the invariant adds only that windows do not end before they
start.

**`CaptureOffsiteProofs`.** `BackupOnlyReads` is the refinement: every step of
the whole is a step of `CaptureArchive` or leaves the files alone.
`SealedIsAlwaysComplete` proves `SealedStaysComplete` from `ArchiveInv`, whose part
`CompactionProven` says what each step of a compaction finds: the compressed
records before the proof is written, and the proof before the original is removed.
The backup's theorems (`OffsiteTypeCorrect`, `LedgerIsTrue`, `BudgetIsKept`, `HistoryIsNotResent`) come from `BackupInv`: `Ages` orders the
times of manifests, objects and ledger lines, `PutProven` says what an
answered PUT has put where, `RunProven` that the bytes a run counts include all that
the bucket may still hold, `ReceiptsTrue` that a receipt is of a tar that arrived.
The budget alone is not inductive: what bounds it is that a
run counts every logged tar that is younger than the window less a run, because a ledger
line is dated no more than a run before its object is stored. `BudgetIsKept` speaks of
these tars (`Guarded`), and holds however late the bucket deletes.

**`StudyQueueProofs`.** `EveryStepMoves` reduces each step of the system to what it
does to one trial: claim, reclaim, finish, retry, cancel or nothing.
`AttemptsAreAccounted` proves `AttemptsAccounted` move by move; the
statement about the log and the row together is inductive. `ResultsAreOfHolders` adds
`HolderRecorded`: the owner of a claimed row is the worker of the event of its last
attempt. `WorkIsNotWasted` proves `LeaseOutlastsWork` from `LeaseInv`: a batch has one
claim per trial (`OneClaimPerTrial`), a claim whose own copy of the expiry is not past
is still held or void by cancellation (`LastingClaimsHeld`), and an evaluation that
runs had half a lease when it began (`EnoughLeft`). The property alone says nothing of
the claims further down the batch, which is where the next evaluation starts.

**Induction over data** (`DataInduction`). The library's induction theorems take the
predicate as an operator, which no prover here can instantiate. `SetInduction` takes a
set of naturals instead, and is proved from the well-foundedness of `<`: the replay of
a log, the sum over fills or windows and the scan over windows are reasoned about with
it, as sets `{n \in Nat : ...}` of lengths or cardinalities. A recursive function is first
shown to exist for every size (`TableExists`, `ScanExists`), because `CHOOSE` says
nothing before that.

### Only model-checked

Liveness (`DueEventuallyExecuted`, `SubmissionSettles`, `CallsReturn`,
`RecordingResumes`, `SealedEventuallySent`, `StudySettles`): temporal
properties under fairness and ENABLED are beyond the prover. Their runs are the
evidence, with the instances of section 3. The three violations are TLC's as well: a
counterexample needs no proof.

Only proved: the type invariants of `PaperLedger` and `PaperRuntime`,
`EvidenceIsImmutable`, and what the refinement carries over to the log
(`NoOrderOverfilled`, `TerminalOrdersStay`).

## 5. Hazards

`PROJECT.json` lists them with their lines and the properties that watch them.
The ones no property covers yet: a failed run without its alert after a crash; a
receipt lookup by `external_event_id` alone, which names events of two accounts
alike; two processes that submit one intent and share its PROPOSED order; a stored
approval that is handed off without a new look at the kill switches; the two
transactions of `mark_reconciled`; the SQLite branch of
`sync_events`, where receipt and effect commit separately; the local backup command,
which says ALREADY_PRESENT of a copy it did not verify; fills whose identifiers a
restarted adapter uses again, which the OMS takes for duplicates and does not apply; and
kill-switch scopes
that the registry accepts and `RiskEngine.assess` never asks about
(`CheckedScopes`): `docs/RISK_MANAGEMENT_POLICY.md` names broker, venue and
asset-class switches among those that prevent new orders.

`CaptureRecorder` also shows what a failed flush leaves behind (`WriteError`):
`append_record` has put the line into the handle's buffer, `_capture_loop` takes the
`OSError` for a lost connection, and the line reaches the file with a later flush,
uncounted and with a sequence number that is used again. Such a partition is
sealed and read as COMPLETE but does not replay, which is why `SealedReplays` promises the
replay only when every line was counted. A crash between the manifest and the
removal of the OPEN marker leaves a partition PARTIAL for ever (`CaptureArchive`): the
safe side, and the backup does not send it.

## 6. Disagreements between the code and what is said about it

* **An occurrence can be executed twice** (`scheduler_once`). `run_tick` reads its
  due list once and does not look again after it holds the lock. A worker whose
  list is older than another one's execution claims the released lock and executes
  the same occurrence. The module comment says that only one worker executes a given
  due occurrence.
* **A concurrent operator call can make an order unreadable** (`sync_replay`). The OMS
  methods read, check and append in a transaction that locks nothing. At READ
  COMMITTED two connections both pass the check, and the second event is illegal
  after the first: every later read of the order raises. The module comment
  promises that the state is reconstructed from the events after every restart.
  With one shared connection (`sync_ledger`) the property holds.
* **An order without a reservation** (`runtime_reserved`). When the risk gate approves and
  the portfolio gate rejects, `persist` stores an approval, without a
  reservation. If that call fails before its assessment is stored, or another
  process is between the two, the next call adopts the stored approval; when its
  own portfolio gate approves, the order is created. The execution policy says
  that a portfolio rejection never reaches the OMS and that the daily notional is
  reserved when both gates approve.

Two more that no run of their own states, because the properties above already name them as their
exceptions:

* **A lost connection is not retried.** The comment at `scheduler.py:289-291` says that a
  tick raises only when its read of the due state fails, and that the worker then retries
  on its own interval. `_try_claim`, `_release` and the evidence writes raise as well
  (`ClaimFails`, `EvidenceFails`, `ReleaseFails`), and after a lost session every later
  tick of the living worker fails, because its one connection is never opened again
  (`persistence.py:61-94`). `DueEventuallyExecuted` holds only with the exemption
  `lost = Workers`, and `OneExecutorPerOccurrence` only among workers with a session.
* **A failed transition leaves an order behind the broker's.** When one of the transitions
  after `adapter.submit` fails, the durable order stays APPROVED (or later on its way), no
  call takes it up again, its acknowledgement is received without effect, and its next
  fill is refused, which stops `sync_events` before every event behind it, those of other
  orders included. `SyncNeverRefused`, `MirrorsBroker` and `SubmissionSettles` hold only
  with the exemption `interrupted`.

## 7. Not modelled, and the plan

Not modelled for good: the numerical research and feature code, the web
interface, request handling and sessions (no concurrent state of their own), the
schema as such (the constraints that matter are guards), and corporate actions,
funding and margin arithmetic, which the order path does not call.

Left out of the modelled parts, and worth knowing when a result is read:

* `JobScheduler`: the server ends a session at once. A half-open connection, which the server
  holds for a while after the worker lost it, keeps its lock until the server notices, and
  `NoLeakedLock` then holds only from there on. A
  `_try_claim` or `_release` that raises on a session that stays alive, after it took or
  before it gave back the lock, is not modelled: such a lock stays until the process ends.
* `BrokerSync`: a lost session of the service shows as failed transactions, of which
  `MaxFaults` bounds the number; that none of its later calls succeeds is not stated.
* `PaperRuntime`: the alert of a rejection takes a third advisory lock, by fingerprint. Every
  call takes it last, so it adds no cycle; it is left out.
* `CaptureArchive`: `Crash` is the death of the process. After a loss of power the order in
  which renames reach the disk is the file system's. What a reader checks of a
  partition's files is one step.
* `CaptureOffsite`: once one partition is logged, the budget excuses the second one in
  `SealedEventuallySent`, so that a deferred partition (`Defer`) has to be sent later only where
  the first one's ledger line was lost.

The plan, in this order:

1. A second service process beside `BrokerSync`'s: both submit one assessed
   intent, and `create` hands the PROPOSED order of the first to the second.
2. `BrokerSync` variants: a second account whose events carry the same
   identifiers, and the SQLite stores with their separate commits.
3. Reconciliation: `record_reconciliation_with_account`, account evidence, and
   `mark_reconciled` in its two transactions, composed with `PaperRuntime`.
4. Kill-switch scopes outside the engine's query.
5. The decision authorities: signal, model and strategy-promotion lifecycles with
   as-of reads, against an abstract append-only register.
6. The alert delivery outbox.
7. Capture: the seals, the single-instance lock, the local backup command, the
   head samples and the disk floor of the fleet.
8. Incubation and historical acquisition; then the audit chain and the terminal
   commands.

## 8. Running

    tlc -workers 2 -config JobScheduler_jobs.cfg MCJobScheduler.tla
    tlapm PaperRuntimeProofs.tla

A run takes between a second and about four minutes, a proof module up to
about ten minutes. In the specification modules a definition whose
comment begins with "Mutant of" is a plausible mistake in the definition that
follows it. Nothing uses it; putting it in that definition's place makes one of the
properties fail, which is how each property was shown to depend on the code.
