# Upstage (APEX GEN5) in TLA+

A specification of APEX in three parts: what turns a decided plan into an order, keeps
track of it and is told to stop (execution pipeline, ledger writer, serving loop with
its control plane); the services around it (venue adapter, boot, bus, signaling,
bootstrap, raw store, risk ladder, account, watchdog, command line); and what a decision
is made from (engines, feature timeline, context, fabric, plan bridge, classifier
training). The modules are translated from the Python source; `PROJECT.json` names, for
every definition, the lines it stands for.

Contents: [1 The system](#1-the-system) | [2 Modules](#2-the-modules-and-the-code) |
[3 Runs](#3-runs) | [4 Fairness](#4-fairness) | [5 Proofs](#5-what-is-proved) |
[6 Divergences](#6-divergences) | [7 Abstractions](#7-abstractions-and-bounds) |
[8 Not modelled](#8-not-modelled-and-why) | [9 Plan](#9-plan)

## 1 The system

One Python process (`src/scripts/run_apex.py serve`) runs one asyncio event loop.
On it live the paper loop (one coroutine that starts a cycle every minute), up to
`SCHEDULER_SEMAPHORE` cell coroutines inside a cycle, the writer task of the ledger, and
short-lived HTTP calls. None of that state is touched from another thread (the bootstrap
service bridges to the loop, worker processes only compute). Everything that survives a
crash is in one SQLite file.

| Component (source) | State | Operations | Talks to |
| --- | --- | --- | --- |
| Execution FSM (`execution/fsm.py`) | `_state` per intent, no position of its own | submit, apply_adapter_result, record_fill, place_protection, activate_management, close_position, reconcile | adapter (await), ledger (await) |
| Cell pipeline and exit management (`ops/paper_loop.py`) | `working`, `_budget_taken`, `_last_close` | stages of a cell, execute_plan, _observe_fill, manage_positions | FSM, ledger, data, control |
| Cycle and scheduler (`ops/paper_loop.py`, `scheduler/clock.py`) | due cells, semaphore, `cell_cursor` (durable) | run_cycle, run_cell, cursor upsert | cells, gateway |
| Startup reconciliation (`execution/fsm.py`) | verdict READY / RECOVERY | boot comparison of ledger and venue | adapter, ledger |
| Venue adapter (`execution/toobit_*.py`) | results by order id, disabled intervals, token bucket | submit, cancel, query, positions, margin | venue over HTTP |
| Ledger writer (`ledger/store.py`) | queue, head, `_blocked`; tables ledger, ledger_audit, trade_plan, outcome | append_*, writer task, reconcile_against_exchange, stop | every writer of the file |
| Control plane (`telegram/control_plane.py`) | emergency level, nonces, flags, Panic Lock, replay table; all in memory | handle_command, handle_callback | gateway, paper loop (reads the flags) |
| Gateway (`telegram/gateway.py`) | `offset` | run_once, handle_update, _bootstrap | Telegram, control plane |
| Signaling (`telegram/signaling.py`) | outbox, token bucket, idempotency keys, alert windows | emit, send, retry | ledger, Telegram |
| Bus (`bus.py`) | P1 lane, shared lane, eviction log, dispatcher task | publish, dispatch, stop | producers, consumers |
| Bootstrap service (`ops/bootstrap_service.py`) | walked history per cell, cursor rows, mirror, boundary | run, catch_up | venue, raw store |
| Raw store and repair (`data_catalog/store/sqlite_store.py`, `ops/partial_bar_repair.py`) | raw_observation, market_observation, raw_revision, retention_event | ingest, correct, repair | bootstrap, engines |
| Watchdog and backup (`ops/watchdog.py`, `ops/backup.py`) | heartbeat, fail-closed state, hash-chained recovery log, backup files | beat, check, resolve, backup, restore | mail, adapter |
| Risk kernel (`risk/kernel.py`) | ladder revisions | vetoes, ladder, sizing | account, bridge |
| PAPER account (`ops/engine_context.py`) | none: a projection of the ledger | read at a close | ledger, risk kernel |
| Engine context (`ops/engine_context.py`) | facts (append-only), timeline cache, classifier files | prepare, feature_timeline, train | store, engines |
| Engines E01-E12 (`engines/`) | buffers, levels, zones, blocks, latches, label history | one closed bar, or a window of them | evidence to the fabric |
| Fabric (`fabric/`) | evidence members | admit, compose, resolve | engines, bridge |
| Plan bridge (`ops/plan_bridge.py`, `setup/`, `decision/`) | last answer | assess a context | context, risk, paper loop |
| Entry point (`scripts/run_apex.py`) | what a command has opened | every command, its exit code | everything above |
| Research, forecast, patterns, feature families, identity | numeric or offline | - | - |

How they interact when a bar closes: the loop reads the clock, polls Telegram once,
computes the due cells, runs them concurrently, waits for all of them, writes one cursor
row per decided cell, and only then looks at the managed positions. A cell that reaches
its execution stage takes a slot of the trade budget, writes its plan row, announces the
order, sends it, polls it a bounded number of times, books the fill, places stop and
target, and hands the machine to `working`. Every one of these steps awaits, so a crash,
another cell, the venue or the market can come between any two.

What is hard here:

- **Crashes.** `working`, the adapter's duplicate record, the control plane's level and
  lock and the ledger's block are in memory; the plan row, the FSM records, the fills and
  the cursor are not. They are written at different moments.
- **A venue that answers late, partially, not at all or wrongly**: a timeout may hide an
  accepted order; a fill may be reported without numbers; an order goes on filling between
  the answer and the booking.
- **One connection, many committers**: whoever commits first commits what others have
  pending.
- **The loop is the only reader of everything**: what stops or raises in it stops exits,
  commands and decisions together.
- **Two processes on one file**: repair and bootstrap commands run while `serve` runs;
  each has its own frontier, cursor and pending statements.
- **Replayed and cached windows**: an engine sees refused, repeated, late and corrected
  bars; a cache is continued over rows that may no longer be there; a fact is read that
  belongs to an earlier bar.
- **At-least-once updates** against a bounded replay table, confirmations that expire,
  levels that overtake each other.

What makes each part correct (the names are the properties of section 3):

- pipeline: a plan is sent at most once ever (`OneEntryPerPlan`), never untraceably
  (`EntryIsTraceable`), booked before protected and never beyond what was executed
  (`LegsFollowBookedFill`), closed only when both sides are booked (`CloseIsBooked`),
  recorded along the frozen matrix (`RowsFollowMatrix`), and no order keeps its
  coroutine for ever (`PipelineReturns`);
- ledger: a chain that passes over nothing but rows of appends that raised
  (`ChainIsLinear`), a returned append is durable and audited
  (`ReturnedIsDurable`), every append is answered (`AppendsAreAnswered`), a raised one
  is never in the log (`LogSpec`);
- cycle: the budget holds under interleaving (`BudgetRespected`), a close is decided
  once by a process (`DecidedOnce`), the durable cursor only follows decisions on fresh
  data (`CursorIsEarned`), exits are looked at (`PositionsAreManaged`);
- control: levels act only by spending a live confirmation (`ActsBySpendingNonce`), the
  Panic Lock is silent on every path (`LockIsQuiet`), only an owner lowers a level
  (`OnlyRecoveryLowers`), a repeated update is not executed again (`ExecutedOnce`);
- adapter: a refusal on record means that no order exists (`RefusalMeansNoOrder`);
- boot: trading starts, and stays off, on true grounds only, as far as the venue showed
  its positions (`VerdictIsTrue`);
- bus and signaling: every event is delivered in lane order or accounted for
  (`BusKeepsItsWord`), what the chat got the ledger has (`DeliveriesAreTraceable`);
- data: no hole in a history (`HistoryIsWhole`), one visible row per bar
  (`OneBarPerOpenTime`);
- risk and account: the ladder acted on never softens behind the back of its ratchet
  (`LadderNeverSoftens`), a readable account never reserves less than the venue has of an
  order that goes on (`AccountIsTrue`), a plan is admitted only on a known
  account within its latches (`AdmittedOnKnownAccount`);
- operation: the verdicts on the recovery log (`LogVerdictIsTrue`) and the exit codes
  (`ExitCodeIsTrue`) can be relied on;
- decision: dissent stays a minority (`DissentIsMinority`), engines read their tapes and
  keep their books (`TapesAreReadRightly`, `BooksAreWhole`), a decision is a replay of
  its bars (`DecisionIsReplay`), an uncertainty trend spans one bar (`TrendIsOverOneBar`),
  a classifier is trained on the rows it names (`TrainedOnItsRows`), and nothing trades
  because it got worse (`WorseNeverTrades`).

## 2 The modules and the code

```
OrderContract      what the pipeline promises          AppendLog       what the ledger promises
     ^ implemented by                                       ^ implemented by
TradeLifecycle --EXTENDS--> FsmMatrix                  LedgerWriter
     ^                                                      ^
MCTradeLifecycle, TradeLifecycleProofs                 MCLedgerWriter, LedgerWriterProofs

ServeLoop --EXTENDS--> ControlPlane, PaperCycle
     ^
ServeLoopProofs (TLC runs ServeLoop as it is)

MCServices  --EXTENDS--> ToobitAdapter StartupReconciliation EventBus Signaling
                         BootstrapService RawStore PaperAccount (EXTENDS RiskKernel)
                         Watchdog RunApex
  proofs: ServicesProofs EXTENDS RiskKernel, RunApex, Signaling, Watchdog,
                         ToobitAdapter, StartupReconciliation
          FeedProofs     EXTENDS EventBus, RawStore, BootstrapService
          DecisionProofs EXTENDS Fabric, ContextProducer, Training, PaperAccount,
                         FeatureTimeline, PlanBridge
MCDecisions --EXTENDS--> PlanBridge (EXTENDS Fabric) ContextProducer FeatureTimeline
                         Training StructureEngine Engines
  Engines --EXTENDS--> LiquidityEngine VolumeEngine FvgEngine OrderBlockEngine RtmEngine
                       WyckoffEngine MomentumEngine RegimeEngine TemporalEngine
  proofs: EngineProofs   EXTENDS Engines, DecisionProofs (for its sums)
          TapeProofs     EXTENDS EngineProofs
```

**FsmMatrix** is `LEGAL_TRANSITIONS` trigger by trigger.

**TradeLifecycle** is one governed plan from admission to reconciliation, for any number
of intents on any number of contracts. An *intent* is `intent_id_for(plan, close)`: one
FSM and one client order id. Several intents may carry the same proposal (the same plan
decided at two closes, or again after a restart). Each action is the code between two
awaits:

| Variable | Code |
| --- | --- |
| `planRow` | rows of `trade_plan` (primary key proposal id) |
| `row` | `to_state` of the intent's last FSM_TRANSITION record |
| `bought`, `sold` | quantity of the entry and exit FILL records |
| `sends`, `order`, `filled`, `legs`, `fired`, `position` | the venue |
| `reached` | the last closed bar touches stop or target |
| `table` | order kinds in the wire table the process was started with |
| `pc`, `fsm`, `polls`, `seen`, `legsOk` | where the coroutine stands, and its locals |
| `working`, `exitAsked` | `PaperRuntime.working`, the adapter's recorded exit answers |
| `proc`, `trading` | running, ended by its own exception, killed; boot verdict |

| Actions | Code |
| --- | --- |
| Materialize, RefuseValidation, Announce, RefuseLocally, AbortLocally, Transmit, Answer | gates, `append_trade_plan`, `ExecutionFSM.submit`, `ToobitAdapter.submit_order`, `apply_adapter_result` |
| PollAcknowledged, PollApplied, PollRaises, Book | `_observe_fill`, `record_fill` |
| PlaceLeg, StopPriceMissing, ProtectionPlaced / Failed / Retries / Raises, Activate | `place_protection`, `activate_management` |
| ExitKindUnknown, ExitSent, ExitBook, ExitClose, ExitReconcile | `manage_positions`, `close_position`, `reconcile` |
| VenueFills, VenueEnds, LegFires, PriceReaches | the venue and the market |
| Crash, Boot | the process dies; a new one reconciles before it may trade |

**OrderContract** is the same promise without machinery: record, send once, execute,
book once, exit once. TradeLifecycle refines it with `recorded <- planRow`,
`executed <- filled`, `booked <- bought`, `exited <- sold`; crashes, polls, protection
and FSM states are stuttering steps.

**LedgerWriter** models the queue, the writer task statement by statement (`InsertRow`,
`InsertAudit`, `Commit`, `Confirm`), the open transaction on the shared connection
(`pendingRows`, `pendingAudit`), commits by other coroutines (`ForeignCommit`), any of the
three statements failing with or without its transaction, the reconciliation block, `stop`
over its awaits (`StopJoins`, `StopCancels`), crash and restart. **AppendLog** is its
abstract specification: an order that never changes, each record once, each append answered
by returned, refused (nothing was written) or raised (its row may come yet).

**ControlPlane** is what one inbound update does: replay table, Panic Lock, roles,
ratchet, confirmations, flags. **PaperCycle** is one cycle of cells: due list, semaphore,
drift block, budget, cursor. **ServeLoop** composes the two in the order of
`PaperRuntime.run` / `run_cycle` (`Begin`, `PollAnswered`, `Handle`, `Select`, `RunCell`,
`WriteCursor`, `Manage`), and adds the gateway's polling offset, Telegram's
at-least-once delivery, handlers that raise, crashes and restarts.

TradeLifecycle and ServeLoop look at the same loop at two grains: ServeLoop takes
`execute_plan` as one interval between `AdmitCell` and `FinishCell`/`FailCell` and
`manage_positions` as one step; TradeLifecycle opens both up and takes from the loop only
that a plan's cell has one coroutine at a time and that exits run when all cells have
returned.

### Services

They share no variable. `MCServices` adds one variable, `focus`, chosen at the start: a
behaviour lets that one service move. A run over all of them therefore has the sum of
their states, and each keeps its own constants, actions and properties.

| Module | Source | State | Actions |
| --- | --- | --- | --- |
| ToobitAdapter | `execution/toobit_adapter.py`, `toobit_map.py` | `duplicates`, `disabled`, `call` per order id, `tokens` and the `line` at their lock; the venue: `wire`, `held` | SubmitOrder, CancelOrder, QueryOrder, AcquireToken / TimesOut, Answered, RequestTimesOut, BackoffElapsed, Refill, Deliver (a lost or late request takes effect) |
| StartupReconciliation | `execution/fsm.py` 964-1240 | `bootState`, where `run()` stands, its three readings, corrections; the truth `netLedger`, `netVenue` | SelfTestBegins / Ends, ReadLedger, AskPositions, AskOrders (each answered, refused or unknown), CompareUnknown, RecordDelta, CompareEnds, RecoveryBegins / Ends, RestingOrderFills, BootAgain |
| EventBus | `bus.py` | two lanes, bounded eviction log, the dispatcher's task and what it holds, candle queue and its bounded log | Publish, InlineStep (P0), StartDispatch, DispatchTake / Deliver, ConsumerRaises, StopDispatch, CandlePut / Get |
| Signaling | `telegram/signaling.py` | bucket, keys, alert windows, each sending coroutine, outbox, ledger trail, what the chat received | SendSignal, EmitAlert, AlertAppended / AppendRaises, AcquireChatToken, TransportMissing, Attempt(delivered, answered), BackoffOver, Tick, SignalRestart |
| BootstrapService | `ops/bootstrap_service.py`, `research/bootstrap.py`, `checkpoints.py` | stored bars, checkpoint rows, mirror, per writer a kline source and a place | Fetch, WalkPage, IngestRow, CellFails, RateLimited, WriterDies; the run: StartRun ... RunEnds; the catch-up: CatchUpDue ... CatchUpEnds |
| RawStore | `data_catalog/store/sqlite_store.py`, `ops/partial_bar_repair.py` | committed tables, the open transaction and its owner, each process' job | InsertRaw, InsertMarket, ServeIngests / Ingested, RepairStarts, RepairJudges, CorrectSupersedes, CorrectMarks, CorrectAudits, RepairEnds, ProcessDies |
| RiskKernel | `risk/kernel.py`, `ladder_input` | ladder revisions | AppendRevision by a caller that read the table at any earlier time, with or without stating its level; vetoes, ladder, sizing as operators |
| PaperAccount | `ops/engine_context.py` 249-330, 680-920, rows of `paper_loop.py` | plan rows, FSM rows, fills, results, which of them a close can see; the lots of each order at the venue | NextClose, Decide, Materialize, Advance, BookEntry, BookExit, BookOutcome; the venue: EntryRests, EntryExecutes, EntryEnds, LotsClose |
| Watchdog | `ops/watchdog.py`, `ops/backup.py` | heartbeat, mode, log in memory and on disk, mails, cancels, database, backups | Beat, Check, EnterFailClosed, Resolve, OpenLog, ProcessRestarts, Backup, Restore |
| RunApex | `scripts/run_apex.py` | the command, what it has opened, the exit code, what stays | Invoke, OpenNext / OpenFails, Works / WorkRaises, CloseNext / CloseFails |

### What a decision is made from

`MCDecisions` composes these in the same way. The engines are fed *tapes*: for each bar a
small set of records that may close next; what an engine takes from floating-point
statistics (a z-score, a slope, a state vector) is a field of the bar, and what it does
with it, bar after bar, is the model.

| Module | Source | State | A step |
| --- | --- | --- | --- |
| StructureEngine | E01 | the window, events published | NewBar: swings, pruning, breaks, changes of character, retests, gaps over the whole window |
| LiquidityEngine | E02 | window extremes, levels with touches and fates, pools | BarCloses: the stages in the code's order, the edges of voids the bar filled last |
| VolumeEngine | E03 | kept bars, OBV, OI, evidence | BadBar, SkippedBar, WarmUpBar, RefusedBar, MeasuredBar |
| FvgEngine | E05 | active zones, history | ProcessBar: age, touch, mitigate, fill, create, merge |
| OrderBlockEngine | E06 | active and ended blocks, every block made | BlockBarCloses: one bar of the replay |
| RtmEngine | E07 | confirmations, bundles, closed buckets | ConfirmationArrives, ProcessesBucket, RunsBatch, Resolves, FateMoves |
| WyckoffEngine | E08 | range, latches, cycle state, signals | WyckoffBarCloses |
| MomentumEngine | E10 | candles, series, pivots, last state | MomentumCandle |
| RegimeEngine | E11 | label history, confirmed label, answers | CandleCloses; the variable `streaming` tells one engine fed a series from one engine per bar |
| TemporalEngine | E12 | buffer, state, answer, journal, profile | TemporalCandle |
| FeatureTimeline | `engine_context.py` 1490-1640, 2430-2560 | stored bars, cache, running replay, last decision | PrepareBegins, BarReplayed, ErrorEscapes, PrepareEnds, RowCloses, BarCorrected, HtfCorrected |
| ContextProducer | `engine_context.py` 1187-2060, 3700-3850, cycle part of `paper_loop.py` | dated facts, the cycle in progress, cursor | CatchUp..., QualityPublished, BackfillQuality, Stamped, FundingRefreshed, VenueRefreshed, Prepare, PrepareSaved, CellDecided, ProcessDies |
| Fabric | `fabric/` | stage, age and zone fate of evidence, members, conflict | EmitEvidence, ZoneDies, FabricBarCloses, Compose |
| PlanBridge | `ops/plan_bridge.py`, `setup/`, `decision/pipeline.py` | one class per measurement, the answer | Reassess one measurement and ask again; the stages are operators in the code's order |
| Training | `engine_context.py` 2900-3330 | rows, per-cell cache files, worker, pipe, supervisor, artifact | InvocationStarts, CellStarts, BarLabelled, CellCached, CellReported, WorkerFinishes / GivesUp, DeadlinePasses, MessageReceived, StoreChanges |

## 3 Runs

`expect: pass` runs finish without an error; `expect: violation` runs find the one
property they check violated (section 6).

| Run | Question | Instance |
| --- | --- | --- |
| `two_plans` | Two plans on one contract, interleaved through everything, with a crash and a restart: do the durable records stay traceable, booked before protected, closed only when booked, along the matrix? | 2 intents, 2 proposals, Quantity 2, 2 polls, 1 restart, a wire table that knows exits, intents symmetric |
| `one_plan` | The same plan decided at two closes, with two restarts: is it sent once, does every coroutine return, is the contract implemented? | 2 intents, 1 proposal, 3 polls, 2 restarts, both wire tables |
| `ledger_ok` | Queue, writer, foreign commits, failing statements, stop, crash, two restarts: chain, durability, answers, refinement of AppendLog | 4 records, QueueSize 2, any two of the statements fail, each with or without its transaction |
| `control` | Three updates of an owner and a user, repeated at will, across a restart | DedupSize = BatchLimit = 1, levels L1 and L2, no cells |
| `cycle` | Two cells over two closes: stale sources, drift, full budget, crash and restart | Semaphore 2, MaxTrades 1, MaxClose 2, no updates |
| `services` | Each service of section 2 on its own: do its promises hold over interleavings, late answers, failing calls, crashes and restarts? | one order with 3 attempts, two contracts with 0 to 2 lots, four events, two senders, one cell over 3 closes, three bars, three ladder revisions, two proposals over 3 closes, two commands; about 670 000 states, 120 s |
| `decisions` | Each component of the decision on its own: are tapes, books, caches, facts and classes handled as they claim? | tapes of 4 to 8 bars, 3 pieces of evidence, 3 ticks of cycles, two measurements off their best value, two training invocations; about 370 000 states, 90 s |
| `exit_table`, `account_names`, `boot_names`, `regime_hysteresis`, `structure_leak` | section 6 | the smallest instance with the behaviour |

`BooksAreWhole` and `TapesAreReadRightly` (module Engines) are conjunctions over engines:
of `ZonesAreApart`, `ActsBelongToOneRange`, `ExtremesAreOfThisWindow`,
`PivotsAreWhereTheyAre` and `MeasuredAgainstItsPast`; and of `BlocksAreConserved`,
`VerdictsFormAChain`, `LabelsFollowTheirFeed` and `JournalTellsTheDay`. Every conjunct is
proved (section 5). `PROJECT.json` has one mutant of each conjunction; the module of
every conjunct has a mutant that breaks it alone (`MergedInOnePass`,
`ReleasedButStrength`, `KeptForNextDay`, `CandidateInBuffer`, `KeepsBarOnly`;
`RemovedTwice`, `JudgedByNeighbour`, `HysteresisOfTwo`, `ChangesFromAnswer`).

Why the bounds are enough to be interesting:

- *Quantity 2, Tolerance 1*: an order can be unfilled, partial and full, and a divergence
  can be inside or outside the tolerance. Lots are never divided further.
- *FillPollAttempts 2 and 3*: the last attempt, a middle one and a first one differ; the
  code's default only lengthens the middle.
- *MaxRestarts 1 or 2*: a crash between any two steps, and a restart that crashes again
  before it does anything. `Crash` is not taken when no restart is left, so a dead system
  is never mistaken for a stuck one.
- *Two intents*: every property relates at most two intents. Both shapes, one plan twice
  and two plans on one contract, have a run of their own.
- *QueueSize 2 with four records*: the queue is full, empty and in between; a correction
  and a resolution are among the records.
- *DedupSize = BatchLimit = 1*: the code has 4096 and 100. What matters is that the table
  is at least as long as a batch (`ServeAssumption`), and the equal case is the tight one:
  the table evicts on every new update. `control` has no cells because no cell reads the
  control plane: `ControlPaused` is read once per cycle, in `Begin`.
- *MaxNonces = MaxUpdates \* (MaxRestarts + 1)*: every update can issue one confirmation
  in every process, so the bound never refuses one.
- *Levels {1, 2}*: the two levels whose effect stops the loop; 5 is their union plus a
  flag nobody in the loop reads, 3 and 4 dispatch to handlers that only record the request.
- `services`: every choice between two values has both (answered or not, delivered or
  not, raised or not); queues, buckets and pages have size 1, where they overflow at the
  second item; one order and one cell are enough
  because no property relates two of them (adapter state is per order id except the
  bucket, whose contention is the `line`, and the disabled intervals, which refuse a
  later order before it is sent). Amounts: a capital of 400 and one losing result of 30,
  beyond the daily limit (12) and the weekly one (24). With two proposals the streak
  limit is never what refuses a plan, and no run has profits: both are in the formulas
  and out of the instance. The two proposals are due at the first and at the last close
  (`DueAt`), so that the later one is decided over everything the earlier one left; what
  its own machine does then is followed for two rows (`LateRows`), with its fills, since
  the earlier plan goes through the whole of it.
- `LogSize` 1 (4096 in the code) and `MaxRevisions` 3: the logs of the bus forget with the
  second record, and a ladder has a revision the reader, which compares two, does not see.
- `decisions`: tapes are as long as the shortest counterexample of each mutant plus a bar
  or two, with shapes chosen so that an object is born, changed twice and ended.
  `FeatureTimeline` has one correction, one correction of a higher timeframe and one
  escaping error, `PlanBridge` at most two measurements off their best value at a time,
  each of which takes all its classes. `StructureEngine` follows one tape of twelve bars:
  what it says of others is `structure_leak`'s subject, and no passing property is
  claimed of it.
- *two_plans* uses symmetry over the intents: their plans are their own and no liveness
  property is checked. No other run uses it.

Every property of a passing run has a mutant in `PROJECT.json`: one definition changed as
a plausible bug would change it, under which the run finds the property violated.
Deadlock checking is off everywhere because the systems do stop: intents are spent,
records are appended, the market reaches MaxClose, a process raises.

## 4 Fairness

- `TradeLifecycle!Fairness`: each cell and exit coroutine that can go on does so. The
  event loop runs ready coroutines, and every adapter call ends: it has a timeout and
  answers UNKNOWN. Nothing is assumed of the venue, the market, a crash or a restart, and
  nothing says *which* answer comes.
- `LedgerWriter!Fairness`: the writer task's next statement happens, and a stop that has
  begun ends. The task shares the loop with its producers and awaits only the database. An
  append that gets into the queue between the two awaits of `stop` is never answered
  (`StopCancels`); the property names it as one of the ways its wait may end.
- `ServeLoop!Fairness`: the loop and its cells take steps. Nothing is assumed of
  Telegram, of the market, or of which cell goes first.

`PipelineReturns`, `AppendsAreAnswered` and `PositionsAreManaged` hold under these, and
nothing stronger. The runs `services` and `decisions` check safety only and assume no
fairness: of a consumer that raises, a venue that is silent or a worker that is killed the
code promises nothing in the end. The bound on restarts makes crashes finite, which the liveness properties do
not lean on: each names the crash as one of the ways its wait may end.

## 5 What is proved

The theorems hold for every value of the constants allowed by the named assumptions of
the modules (`OrdersAssumption`, `LedgerAssumption`, `ControlAssumption`,
`CycleAssumption`, `BootAssumption`, `BusAssumption`, `BootstrapAssumption`,
`KeysAreHashes`, `FabricAssumption`, `ContextAssumption`, `TrainingBounds`,
`AccountBounds`, `RiskBounds`, `TimelineBounds`, `BridgeBounds`, ...): any
sets of intents, plans, contracts, chats, cells, orders,
senders or bars, any queue size, page, tolerance, number of polls, faults and restarts.
Hypotheses beyond these are named in the theorem itself and discussed below. Every
inductive invariant was first checked by TLC on the instances of section 3.

**TradeLifecycleProofs** begins with the facts about the matrix the others cite: edges
join states, nothing enters READY, which triggers reach CLOSED and RECONCILED, and
`ReconciledIsTerminal`. Then `TypeCorrect` (TypeOK), `PlanSentOnce` (OneEntryPerPlan) and
`EntryTraceable` (EntryIsTraceable). `OneEntryPerPlan` is not inductive: it says nothing
of a second coroutine that is about to send. The inductive invariant is

    EntryInv == TypeOK
      /\ WorkHasPlanRow    a coroutine past the gates has a plan row
      /\ OneCoroutine      two intents of one plan are never both on their way
      /\ NothingSentYet    before the request, no intent of the plan has sent
      /\ SentIsRecorded    what was sent has its row and its record
      /\ OneEntryPerPlan

The argument: the plan row is written before anything is sent and survives a crash, the
gate refuses a plan that has one, and a plan's cell runs one coroutine at a time. So the
coroutine that is about to send is the first. Only Materialize, Announce and Transmit
matter; `OtherStepsContinue` shows that every other step leaves the facts alone.

The second part of the module is what the venue and the books say to each other.

    TradeInv == EntryInv
      /\ VenueInv          an order that exists was sent; a fill belongs to an order
      /\ BookingInv        booked <= executed; booked once; legs after booking
      /\ ExitInv           a watched machine is booked and unsold until its own exit

gives `LegsAfterBookedFill`, `ClosedIsBooked` and `ImplementsContract` (every step is a
step of OrderContract or a stutter). `RowsAlongMatrix` needs `RowInv`: while a coroutine
is past its announcement, or a machine is watched, `_state` equals the last record; before
that `_state` is READY.

**LedgerWriterProofs**: `LedgerTyped`, `LinearChain` and `ReturnedDurable`, from

    LedgerInv == TypeOK
      /\ HeadInv      the head names a durable row; what is durable after it raised, but for
                      the row in hand
      /\ PendingInv   every row of the open transaction names the head; all of them raised,
                      but for the row in hand
      /\ HandInv      where the row in hand and its audit row are
      /\ ChainIsLinear /\ ReturnedIsDurable

for every `FaultySteps`: an INSERT, an audit INSERT and a COMMIT may fail, and SQLite may
end the transaction with it or leave it open. A row left open by a failing audit INSERT
stays without moving the head, so the next row names the same parent: the chain is not one
line, and what is left of the claim is that a row passes over nothing but rows of appends
that raised (section 6). `WriterImplementsLog` is the refinement of AppendLog, also for
every `FaultySteps`. It needs `OnceInv` and `CallerInv` besides: a record is with one party
only (its caller, the queue, the writer), so that whichever commit makes its row durable is
the abstract append, and everything before and after it a stutter. A raised append may be in
the log, now or later; a refused one never is.

**ServeLoopProofs**: one inductive invariant,

    ServeInv == SaneControl /\ SaneLoop
      /\ ReplayInv     what a batch still holds and has been executed is in the table
      /\ IssuedInv     every confirmation was issued by an execution of this process
      /\ CellsInv      a decided close is at or behind the cursor, or about to be recorded
      /\ RecordedInv   nothing waits to be recorded when a cycle begins

gives `TypeOK`, `ExecutedOnce` and `BudgetRespected`, and as action properties
`DecidedOnce`, `CursorIsEarned`, `ActsBySpendingNonce`, `LockIsQuiet` and
`OnlyRecoveryLowers`. `ExecutedOnce` is the hard one: the replay table forgets its oldest
entries. `PollWindow` says why it may: what is in the table since the last poll is the
part of the batch already handled, in order, so that only ids older than the polling
offset, which Telegram will not deliver again, can fall out. That needs a poll not to
hold more updates than the table has places, which is `ServeAssumption` (100 against
4096 in the code). The bound on confirmations is
a count: at most `MaxUpdates` executions per process, because executed ids are distinct.

**ServicesProofs**. `RefusedIsNowhere` (`RefusalMeansNoOrder`): an adapter records REJECTED
only from an answer to its only submission, and `Fine` ties what the venue may yet hear of
an order to the state of its call: an attempt is outstanding only while its call waits for
it or has timed out, and after a time-out the record is UNKNOWN, never REJECTED.
`VerdictsAreTrue` (`VerdictIsTrue`), for any names and any answers: a boot says READY, and a
recovery RESUME, only if what was read of ledger and venue agrees under every name either of
them uses, and, where the venue showed its positions and nothing has filled since, only if
they agree in truth; a boot that stops over a divergence has one, with its correction on
record. The clause "the venue showed its positions" cannot be dropped: a refused query passes
(section 6).

`LadderOnlyHardens` (`LadderNeverSoftens`) from the pairwise fact `NotSoftened(i, j)`, for
callers that read the table at any time before they append: the level acted on is below an
earlier one only after an owner's resumption from the pause, or after a revision the ratchet
was not asked about (no level stated) or was asked about for an older row. The reader does
not see such a revision once another one is on top of it, which is the reason for the third
case. In the tree the loop appends the first revision only (`ops/paper_loop.py` 424-449).
`CodeCanBeTrusted` (`ExitCodeIsTrue`): everything a verb opens is in what its
`finally` closes, and the data it is judged by are those it found until its work begins.
`ChatIsTraceable` (`DeliveriesAreTraceable`): a sender holds its ledger entry before its
first attempt, and the outbox has at most one SENT row per message the chat received;
`KeysAreHashes` keeps the keys of signals and alerts apart. `LogCanBeTrusted`
(`LogVerdictIsTrue`): a row's hash contains those it was chained to, so a row written after
a lost one is broken on disk, and everything after it; a log in memory read from a broken
file is broken from the same row on, and else whole. Both verdicts are exact: `BrokenFrom`
is an equivalence, and `holes` and `inherited` are where rows were lost.

**FeedProofs**. `NothingIsLostOnTheBus` (`BusKeepsItsWord`) is one order relation: pairs of
published events a consumer may be given in this order. Lanes are sorted by it, the event
in the dispatcher's hand precedes what waits, and what a consumer has precedes both;
publishing adds only pairs that end in the new event. The eviction log keeps its newest
`LogSize` records and is sorted by the same relation, so what it forgot is older than all it
holds (`PushedOut`). Candles are consecutive from the dropped to the waiting, and their log
is a run of numbers. `OneBarIsRead` (`OneBarPerOpenTime`) needs the state of the open
transaction: `Whole(d)` of the committed tables, and for each job which part of its
correction is pending, so that whoever commits, commits a whole correction or none.
`HistoryStaysWhole` (`HistoryIsWhole`) needs, per writer and cell, what its kline source
still owes: what a source has not served it has in its history or has yet to walk, a page
is the oldest of it, and the page in hand follows the stored bars without a gap. A durable
claim (a COMPLETE row, a mirror cursor) is made only from a cursor the store covers.

**DecisionProofs**. `DissentStaysMinority` (`DissentIsMinority`) is about weights, which
are sums of a fold over a set. `TotalOfParts` and `TotalByClasses` give the two facts
needed of it: a sum splits along any partition of its set, whatever the order of the
fold. Per group the lesser side is at most half of what it casts; `OpposingIsMinority`
adds the groups up, for any finite set of evidence. It assumes `FabricAssumption`: a
voice is -1, 0 or 1 and a weight a natural number. `TrendComparesNeighbours`
(`TrendIsOverOneBar`) needs of every saved context, not only of the one at hand, that its
trend is true: a retry or a new process finds it by its key and decides on it. What keeps
it true is that facts are only appended and that a later fact is dated at or after the
close the context is about (`LaterFactChangesNothing`). `ClassifierIsTrainedOnItsRows`
(`TrainedOnItsRows`): `Replayed(x)` says what a worker holds in the middle of a cell (the
labels of the bars old enough, the last `LabelDelay` bars pending), and a message in the
pipe or a cache file carries the labels of the very rows it is keyed by, so that reuse
after a kill or a change of the store is a replay.

`ReadableAccountIsTrue` (`AccountIsTrue`) speaks of a venue that moves on its own: an entry
arrives, executes in parts, ends with a remainder, legs and exits execute, and rows follow
late, one by one, or never (an answer without numbers leaves no fill row). `Tallies(plan,
steps, b, o)` is what plan, machine rows, fill rows and venue then have in common: no more
is booked than was executed, no more was executed than planned, and net is opened less
shut. The account reserves net plus what the rows leave pending, so, unless they say the
order ended, it reserves at least what the venue has resting and holds, and exactly that
once both are booked. For an order its rows call CANCELLED or REJECTED only the second half
is claimed; the first is not true of the code (section 6). `PlansNeedKnownAccount`
(`AdmittedOnKnownAccount`): outcome rows are in the order of their times (`ResultsInTime`),
so the newest break of a daily limit is at or after any earlier break of the day, and the
rows the latches see at a close are a prefix. Sums over the rows go through the same lemmas
on `Total` as the fabric's weights.

`DecisionsReplayTheirBars` (`DecisionIsReplay`): nothing is written to the store while a
run of the timeline works, so the window of a run is the store's bars; what a run holds,
and what the cache holds between runs, is `Accumulated(g, w, versions, at)`, each measured
bar once, in order, with the version it had. The signatures of the cached bars are those
versions, and `SamePrefix` continues the cache only if they are the stored ones, so the
accumulation of the cache is that of the first bars of the new window. This is claimed
only while no higher-timeframe row was corrected and no error escaped (`Undisturbed`), as the
property is. E06 is handed one evidence for each bar because the joint bars are an
interval, and the ascending enumeration of an interval is the interval
(`AscendingInterval`).

`WorseCellsAreNotTraded` (`WorseNeverTrades`) goes along the stages of the bridge with
one relation, `Sounder(u, v)`: u is at least as good as v in every measurement. Per
stage, a lemma says that what v passes u passes too (`FabricSounder`, `EntrySounder`,
`GatesSounder`, `DecisionSounder`). Two of them are not monotone at sight: the score is
compared after two penalties that multiply, one of them in steps (`ScoreAfterPenalties`
lists the cases), and the conflict is the row of a four-way table chosen from several
measurements (`OutputSounder`). The theorem is for any values the scales list
(`BridgeBounds`) and for any number of measurements worse at once, of a plan as of its size:
a risk veto leaves a plan without one.

**EngineProofs**. `ActiveZonesAreApart` (`ZonesAreApart`): merging goes on until no two
neighbours in the order of the list must merge. `MergeLessens` says that a merge leaves
one zone less, so the recursive function over the set of zones is defined
(`RoundsExist`) and ends (`MergingEnds`); `MustMergeIff` and `BetweenMerges` say why
neighbours are enough: if two zones must merge, so must a pair of neighbours between them.
It needs prices to be natural numbers and a zone to have a width (`FvgBounds`).
`ActsRestOnTheirRange` (`ActsBelongToOneRange`): what is latched stands, `Backed(signals,
latches)`: the act it was latched by is in the record with no end of a range since. A
range is latched only when nothing else is, and an end releases everything, so an end
never comes between an act and what rests on it. Along one bar `ActsInRange` takes the
eight acts in the code's order, since a test may rest on the climax of its own bar.
`ExtremesAreItsOwn` (`ExtremesAreOfThisWindow`): there is at most one tracker, and it
spans the bars since the window last changed its name (`Own`, `Spans`): the bar of another
name ends the tracker before. The code knows no more of a window than its name: across a gap
in the bars, a window and the one of the same name on the next day are one to it (section
6). It needs prices to be integers (`LiquidityBounds`).
`PivotsAreReal` (`PivotsAreWhereTheyAre`): a pivot is recorded by the candle that closes its
window, and the window is the end of a series that only grows, so what was a pivot then is
one for good (`WindowSees`, `PivotsStayTrue`); a state's divergence names two of them.
`PastIsAccepted` (`MeasuredAgainstItsPast`): the property compares with a pass over all
accepted bars, a recursive function whose only solution is the list the engine keeps
(`OneBalance`: two solutions would differ at a least bar), and a piece of evidence remembers
how many accepted bars were before its own (`MeasuredIn`). `BooksStayWhole` is the
conjunction of the five.

**TapeProofs**. `BlocksStayConserved` (`BlocksAreConserved`): at one bar the list of active
blocks is worked, split, extended by breakers and mitigation blocks, ordered, merged and
cleared of the dead. What is kept in view through all of it is which names a list holds
and that each is held once: ordering (`Sorted`) and taking the places of a set (`Picked`)
are both arrangements of a list by a rank, and two sets of places that part a list part its
names. A block something was made of is in the history as MERGED, so the same block is
never reborn twice and every new name is new. It needs bars to have integer prices
(`BlockBounds`): on them the rank by salience is an order.
`VerdictsAreChains` (`VerdictsFormAChain`): the components are judged by recursion over
the set of places, the last in time taken off first. The claim is shown of every set of
places on the way (what is in order is a chain, and what is not has a component in order
behind it), by induction on its size. That full strength means the whole chain in order
is about sums of weights and uses `TotalOfParts` of DecisionProofs; it needs positive
weights (the assumption of RtmEngine; the code's are 0.7 to 1.5).
`RegimesAreSettled` (`LabelsFollowTheirFeed`), for both ways E11 is fed. Candle after candle:
the raw labels an engine keeps are those of the candles it classified, in order, over
candles it refused or only warmed up on, so a label changes to what the last `ConfirmBars`
of them said. A new engine per candle, which is what the decision path builds: the label is
that candle's own raw label, CONFIRMED, whatever came before, and run `regime_hysteresis`
shows that it changes at once.
`JournalIsTrue` (`JournalTellsTheDay`) goes entry by entry: an entry of one code leaves what
the other codes say as it was, the move codes alternate, and the last entry of each code is
the state of the last accepted candle. `TapesStayRight` is the conjunction of the four.

EngineProofs and TapeProofs are about each engine's own specification (`FvgSpec`,
`BlockSpec`, ...), which is what run `decisions` takes the steps of, one engine at a time.

**What only TLC checks.** The liveness properties, whose fairness is outside the prover's
reach, and the runs that expect a violation.

## 6 Divergences

What the repository says of itself and the model of its code does not do.

### With a run

The quotations are in `PROJECT.json`.

| Run | Property | What happens |
| --- | --- | --- |
| `exit_table` | ReachedPositionIsWatched | The shipped wire table has no order kind `exit`; the lookup raises out of `manage_positions`, and the loop ends with the position open. |
| `account_names` | SettledAccountIsReadable | The account looks for an order under `i-` and the tail of its proposal id; the loop names it `i-` and a digest. After the first executed plan the account is never readable again and no cell gets a plan. |
| `boot_names` | DivergenceIsReal | The boot cuts `BTC-SWAP-USDT` to `BTC` and compares it with the ledger's `BTCUSDT`: an agreed position becomes two divergences. |
| `regime_hysteresis` | ChangesAreSettled | Every decision feeds one candle to a new E11 engine, so a label is confirmed by the candle that shows it. |
| `structure_leak` | SaidInTime | An E01 break whose level is kept only because of a later confirmed swing is stamped with the bar it broke at, two bars before any run says it. |

`decisions` has the same tapes for both feeds (`LabelsFollowTheirFeed`, a conjunct of
`TapesAreReadRightly`): there `ChangesAreSettled` is claimed of an engine fed candle after
candle only, where it holds. `SettledAccountIsReadable`
needs two code paths to agree on names, which is why the constants `ReadKeys` and
`IntentOf` are separate; the `services` run gives them the same names so that what the
account does *after* it finds an order can be checked.

### Stated in the modules, without a run

Each of these is a formula in the module named, with the sentence of the repository it
states. TLC finds it violated when it is made the only property of the configuration given
(a configuration of this directory, with the changes named; the tapes are at the end of
`MCDecisions`). That takes seconds, about a minute for PositionsAreManaged.

| Property (module) | Configuration | What happens |
| --- | --- | --- |
| UnbookedFillIsOwned (TradeLifecycle) | ExitWithShippedTable with `ExtendedTable`, FairSpec | A fill reported without numbers ends its coroutine; nothing books or reconciles it while the process lives (`paper_loop.py` 286, 785). |
| UnprotectedIsInRecovery (TradeLifecycle) | ExitWithShippedTable with `ExtendedTable` | The matrix has no PROTECTION_FAILED from PARTIAL: a partially filled entry is dropped bare and outside recovery (`fsm.py` 702, 750). |
| PositionsAreManaged (ServeLoop) | ServeCycle with one cell and chat, two updates, no restart | A confirmed L1 or L2 stops the whole cycle: exits are no longer looked at, and no update that could undo it is read (`paper_loop.py` 1115). |
| ButtonsAreServed (ServeLoop) | ServeControl | The Back button of the emergency screen is read as a level; the ratchet raises and the loop ends (`control_plane.py` 411). |
| OnlyOwnerRecovers (ServeLoop) | ServeControl | Level, flags and lock are in memory; a new process starts without them (`control_plane.py` 394). |
| CorrectionIsAudited (RawStore) | Services | `ingest_raw` commits inside `correct_raw`: a crash between that commit and the second one leaves a superseded row without revision and audit. |
| SuppressedAfterTwin (Signaling) | Services | The duplicate window is set before the send, and by suppressed alerts too: an alert is suppressed although no twin of it ever left. |
| AlwaysClosed (RunApex) | Services | An exception between the start of the runtime and the `try` of `_serve` (or inside `Runtime.start`) leaves threads open, although the docstring at 145-150 says always closed. |
| RecoveryIsThree (RunApex) | Services | `serve` answers a boot that needs recovery with the code of a degraded one. |
| RepairedWhenZero (RunApex) | Services | `repair-partial` exits 0 with rows it left alone. |
| SwingsAreSettled (StructureEngine) | StructureLeak | A grown window changes swings older than k + 1 bars. |
| StateStepsAreLegal (StructureEngine) | StructureLeak with `Tape <- TurningTape` | The state is replayed over the changed swings: from one bar to the next it goes from BEAR to BULL, a step its table forbids. |
| FilledZonesEndFilled (FvgEngine) | Decisions with `FvgTape <- WideFvgBars`, MaxAge 2 | A zone filled by the bar it expires at ends as EXPIRED. |
| MergedIntoLiving (OrderBlockEngine) | Decisions | A block is merged into one that ends on the same bar. |
| ConfidenceIsSettled (VolumeEngine) | Decisions | The calibration of the whole window is attached to evidence of earlier bars. |
| BarsAreCountedOnce (VolumeEngine) | Decisions | While the engine warms up, a bar that repeats the last one is kept and counted again; the check for repeats applies only afterwards. |
| StoredBarsAreMeasured, FailedSourceIsNotUsed (ContextProducer) | Decisions | A stored bar whose quality publication failed is never measured again; a cycle whose refresh failed decides on an older fact. |
| StructureIsWithSetup, CollapsedNeverTrades (PlanBridge) | Decisions | A break of structure against the setup opens the structure gate (it tests for a direction, not for the same one); a collapsed context still yields a plan. |

### Remarks

Read in the code while modelling; the models reproduce them, no formula is claimed.

- A failing audit INSERT leaves its ledger row in the open transaction while the head stays;
  the next commit makes it durable, and the next row names the same parent
  (`ledger/store.py:347`). The comment at 332-335 says "One writer => one linear chain"; the
  models keep what is left of it (section 5).
- A position query that is refused outright (codes -1022 and -1120: outcome REJECTED) is not
  turned back by `reconcile_boot`, which looks for "UNKNOWN and not ok"
  (`execution/fsm.py:1182`). Its data has no position row, so over a flat ledger the boot
  says RECONCILE_MATCH and READY, whatever the venue holds. `VerdictIsTrue` is claimed
  unless the venue refused to show its positions.
- An order query refused in the same way is taken for an answer about the order: a polled
  entry is recorded EXCHANGE_REJECT while it rests or fills at the venue
  (`fsm.py` 598-640).
- The account projection skips orders that are CANCELLED or REJECTED
  (`ops/engine_context.py:711`). An IOC entry that executed in part and is then reported
  CANCELLED is recorded CANCEL_CONFIRMED with nothing booked (`fsm.py:623`,
  `paper_loop.py:795`); so is one whose query was refused. Its lots are held at the venue and
  the readable account reserves nothing for them. `AccountIsTrue` claims the lower bound for
  all other orders.
- `ladder_revision` asks the ratchet only if its caller states the level before
  (`risk/kernel.py:661`), and nothing compares the row with the table; `ladder_input` reads
  two rows. A softer level below the newest one is not seen.
- E02 drops the tracker of a window when a bar carries another window's name (905-931), so
  the comment "the next UTC day starts a fresh tracker" is not true across a gap that joins
  two windows of one name. A level that moved to the median of its touches is swept under
  its old name, and a new touch of the old price overwrites it.
- A machine can be PROTECTED without the venue holding both legs: `PlaceLeg` lets the
  answer be OK while the leg is not live, because a code-0 body may carry the status
  REJECTED or EXPIRED and `place_protection` looks at `ok` only (`execution/fsm.py:730`).
- A crash between the end of a cell and its cursor row lets the next process decide the
  same close again, although the comment at `ops/paper_loop.py:1052` says it must not;
  that this sends nothing twice is `OneEntryPerPlan`, and it is why `DecidedOnce` speaks
  of one process.
- The shipped gateway answers in plain text. Buttons and confirmation keys reach a person
  through a client that draws the keyboard the plane renders; the plane's handlers, which
  is what is modelled, do not depend on it.
- Boot: recovery has no caller in the serving process; the raw-chain check counts rows;
  `fsm_state` always passes; a recovery that halts changes no boot state.
- E08's decision path asks for a confirmation at the bar itself, which its detector does
  not admit, so signs of strength and last points of support never fire there; E07's
  resolver, fates and streaming wrapper have no caller there either.
- E10 repeats a stale RSI after a gap and compares pivots of different bars; E12's walk
  goes back with a late candle.
- After an error that is neither BridgeError nor ValueError, the feature cache keeps its
  old signatures with advanced lists, and the retry appends the same bars again: it is why
  `DecisionIsReplay` speaks of replays without such an error.
- Refreshes of funding and venue facts that failed stamp a refusal that suppresses the
  retry, and neither fact has a maximal age after a long stop.
- All due cells read the account before the first of them runs
  (`ops/paper_loop.py:1008`), so two of them may plan on the same free capital.

## 7 Abstractions and bounds

TradeLifecycle:
- All plans are LONG; `side_for` mirrors a SHORT. Prices are one bit, `reached`.
- Ledger writes succeed here; their failures are LedgerWriter's subject.
- `sends` counts submissions to the adapter. Its own back-off retries after -1003 are one
  submission, and a submission that times out in the rate limiter is counted as sent.
- `Boot("UNKNOWN")` is any boot that does not trade: an unanswered query, a failed self
  test, a contract with a ledger position that the venue does not list. `Boot("refused")`
  reads the venue as flat.
- A fill is reported with both numbers or without: `fill_from_result`'s fallback keys, the
  order's own price and quantity (`paper_loop.py` 293-297), are not told apart from executed
  ones.
- After a crash, coroutines, `working` and recorded answers are gone, orders and legs at
  the venue are not.

LedgerWriter:
- A record stands for its payload hash (collision-free), a row for the pair of hashes.
- `StatementFails(rolledBack)`: SQLite ends the transaction on some errors and not on
  others. Both happen. Of other coroutines on the connection only the commits are modelled:
  a failing statement of theirs is taken not to end the writer's transaction.
- `FaultySteps` says which statements may fail; `MaxFaults` bounds how often.

ControlPlane and ServeLoop:
- A handler is one step: `run_once` awaits each update before the next, and no cell runs
  meanwhile.
- Confirmation keys never collide (the code uses a millisecond clock), and a confirmation
  quotes a key that was issued. A choice is YES or NO.
- `other` stands for /myid, screens, exports, unknown actions and the busy guard of a
  backtest: none leaves anything behind that a later update can see.
- `bar` is one bit for all managed positions: none, newer than this cycle's clock
  reading, or visible to it.
- A cell's stages are refusal (`HaltCell`), drift (`BlockCell`) or admission; what the
  decision computes is a choice.

Services:
- ToobitAdapter: a bucket counts whole tokens; `Refill` comes at any time. The venue may
  take a request it never answers, at any later time (`Deliver`).
- StartupReconciliation: quantities are whole lots per contract; `netLedger` and
  `netVenue` are the truth, the three readings are copies of it at their time.
  `positionsShown` and `settled` are history: whether this boot was shown the positions, and
  whether the venue has moved since.
- EventBus: both logs keep `LogSize` records, as the code's deques keep 4096. Events are published once each with a fixed priority; a publisher that
  awaits its P0 consumers is a process of its own.
- Signaling: the gate is a conjunction of the attributes of a signal; wording is left out.
- BootstrapService: bar b opens at b and closes at b + 1; malformed bars are fixed at the
  start; a page is one bar.
- RawStore: a row is a bar and a version (two snapshots of an open bar, and the closed
  one). A SQLite connection is a private working copy and one write lock.
- RiskKernel: a caller of `append_ladder_revision` is the revision it read last (`base`),
  whether it states that level, and what it appends; when it read is any earlier time.
- RiskKernel, PaperAccount: whole units of capital and whole per cents. A fill executes at
  a price of one; fees are left out. Machine row, fill row and the change at the venue are
  steps of their own; a query may find the venue at any point of them.
- Watchdog: a hash is the sequence it was computed over; a backup is a count of rows. `holes`
  and `inherited` are history: rows on disk before which one was lost.
- RunApex: the resources of a command are names; its work is an outcome and what it
  changed.

Decision side:
- All prices are small integers, an average true range is a constant, epsilons are strict
  inequalities. Shares, qualities and weights are per cents or thousandths.
- Each module's header says which fields of a bar stand for which statistics, and which
  outputs (grades, strengths, calibrations) are left out because no state depends on them.
- FeatureTimeline records what was accumulated, not its value: a bar and its version.
- ContextProducer: a fact is its date and what it says; one number stands for the measured
  uncertainty. `TrendIsOverOneBar` is about which fact that number is compared with.
- RegimeEngine: the state vector, filled participation included, is an input; a candle's
  `thin` is the set of labels with too few base rates behind them.
- LiquidityEngine: which voids a bar fills is an input (`VoidFills`); the voids themselves
  are left out.
- PlanBridge: gates 10 and 12 read one measurement, since the producer fills both from one
  forecast (`engine_context.py:2016`); `veto` stands for whatever makes the kernel reject.
  A measurement is one of the classes the code tells apart, from best to
  worst; values on both sides of every threshold are among them.
- Training: the fit itself is left out; an artifact is the rows and samples it was made of.

## 8 Not modelled, and why

- *Numeric code*: feature families, E04 and E09, the float formulas inside the other
  engines, the logistic forecast, pattern geometry, quality weights, backtest statistics.
  They are functions on floating-point arrays with no discrete state TLC could enumerate.
- *Formatting and I/O*: canonical JSON and hashing (identities here), HTTP parsing, record
  types, rendering of screens and replies, configuration constants.
- *Code without a caller in the serving process*: the playbook's management functions
  (break-even, trailing, partial exits), `apply_timeouts`, FSM cancellation and nested
  substates, E07's resolver outside its own module, research governance and promotion.
- *Parts of modelled components*: publishers and reports of the cycle, screens and exports
  of the control plane, the adapter's read-only endpoints, cost and correlation numerics
  of the context.
- *Compositions*: the services are checked one at a time. What one assumes of another is
  in the constants and inputs of its module (for instance, TradeLifecycle's answers are a
  superset of ToobitAdapter's outcomes; Boot's verdict covers StartupReconciliation's);
  these links are by reading, not by refinement.

## 9 Plan

Done: the core and its proofs (FsmMatrix, TradeLifecycle, OrderContract, LedgerWriter,
AppendLog), the serving loop (ControlPlane, PaperCycle, ServeLoop), the services and the
decision side.

Proofs done: the core, the serving loop, the ledger with its refinement, the venue, the
services, the feeds, the decision side, and what every engine of section 2 but E01 keeps
or says (section 5): every safety and action property of a passing run is stated by a
theorem.

Proofs to add: `SaidInTime` for the structure events the window does not reach back for,
once StructureEngine states which those are.

Models still worth adding: the adapter and the boot as refinements of what TradeLifecycle
assumes of them, and two services at once where they share the SQLite file (bootstrap
under repair).
