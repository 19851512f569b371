# TLA+ verification of the polygon trading engine

This directory models the trading engine of this repository (`src/main.py` and
`src/src/`), model-checks it on small instances with TLC, and proves the
properties that matter most, for every value of the constants, with TLAPS.
Paths and line numbers refer to the repository root `src/`; `PROJECT.json` maps
every definition to the lines it models.

    tlc -config MCEngineFeeds.cfg MCEngineShutdown.tla      # one run
    tlapm ExecutionEngineProofs.tla                         # one module of proofs

`PROJECT.json` names the module of every configuration.

## 1. The system

One asyncio event loop runs everything. A WebSocket connection per market
(forex, crypto) receives quotes; each quote goes through indicators, stop-loss
and take-profit checks, the strategy and the execution engine, which sends
orders to a broker and records what was executed.

| component | state it keeps | operations |
|---|---|---|
| `PolygonFeed` (`feeds/polygon_feed.py`) | `_running` (shared by both connections), `_connections`, per connection a back-off | `run`, `_connect`, `_authenticate`, `_subscribe`, `_listen`, `_parse`, `_subscription_channel`, `stop` |
| `TradingEngine` (`main.py`) | feed task, bot task, shutdown event | `run`, `stop`, `shutdown`, `_on_tick` |
| `StateManager`, `SymbolState` (`state/symbol_state.py`) | per symbol a bounded price buffer, EMA9, EMA21, RSI14, `open_trade` | `update`, `get` |
| strategy (`strategy/decide.py`) | none | `decide_trade_action` |
| `ExecutionEngine` (`execution/engine.py`) | `_open_trades` (the trade book), `_paused` | `handle_signal`, `check_stops`, `_post_trade`, `pause`, `resume` |
| `BotLock` (`middleware/botlock.py`) | per symbol a lock, the token of its holder, a counter of dropped signals; a watchdog task per holder | `acquire`, `_watchdog` |
| `RateLimiter` (`middleware/rate_limiter.py`) | time stamp of the last trade per symbol | `is_allowed`, `record_trade`, `remaining_cooldown` |
| brokers (`broker/`) | `SimulationBroker`: positions; `OANDABroker`: nothing, the account is at OANDA | `place_order`, `close_position` |
| `TradeLogger` (`logging_/trade_logger.py`) | `trades.csv` | `log`, in a thread |
| `TelegramNotifier` (`notifications/telegram_bot.py`) | polling state | trade alerts, `/pause`, `/resume`, `/stop`, `/pnl`, `/performance`, status commands |
| `ReceiptLedger` (`ledger/receipt.py`) | receipt files, the secret key of the process | `generate`, `_sign`, `_save`, `verify` |
| `Config` (`config.py`), `ConsoleDisplay` | constants; none | reading `.env`, `validate`, the split of the symbols; output |

How they interact. A connection awaits `_on_tick` for every tick of a frame, one
after the other, so that **a symbol is served by one task only**: the one of its
market. `_on_tick` may call `handle_signal` twice in a tick (a stop exit, then
the strategy's signal). `handle_signal` suspends at three places inside the lock:
in the broker call, in the log thread and in the Telegram send. During a
suspension the other connection, the watchdogs, the Telegram commands and a stop
request run. The trade book is shared by all tasks, because the maximum of open
trades is counted over all symbols. Nothing but `trades.csv` and the receipts
survives a restart.

What is hard:

- **interleaving**: the checks of the pause, the cooldown and the maximum of open
  trades precede the broker call, the updates they guard follow it;
- **time-outs**: a watchdog frees a lock whose body still runs, and the body of
  the next signal runs beside it;
- **partial failure**: a reply may be lost or may say nothing of a fill, a CSV
  row may not be written, an exception may leave any step;
- **start-up and shutdown**: a stop request can arrive at every suspension of the
  start-up, every task must end, and a cancellation is thrown into whatever a
  handler is waiting for: a broker, a file, an alert, the end of its watchdog;
- **replay**: the summaries reconstruct trades from rows, across restarts and
  across midnight;
- **numbers**: rounding of levels, buffers at their limit, `>` against `>=`.

What makes each component correct:

- `BotLock`: one valid holder per symbol; a body that outlived its watchdog frees
  nothing of its successor; every lock is freed although a body may never end.
- `RateLimiter`: the time stamps act as a countdown, which is how the engine uses them.
- `ExecutionEngine`: the book and the strategy's copy agree; book, broker and
  journal agree; no entry during a cooldown; a bounded number of open trades.
- Feed and orchestrator: a lost connection is attempted again; one market does
  not end the other; a stop request brings the process down with nothing left, or
  waits for a broker that never answers, and for nothing else.
- Engine, in one sentence: per symbol a trade is opened by one confirmed order and
  closed by another, with nothing in between, and a shutdown loses no more than
  the results of the orders it interrupts.
- Journal: the replayed counts are those of the trades the engine closed; an
  executed trade leaves its receipt or its row; no receipt is taken for another's.
- Strategy and levels: no level is passed unnoticed; the levels bracket the
  entry; an order fits the open trade, also behind an exit of the same tick; the
  averages are what they are called.

`PROJECT.json` lists the hazards at their lines, each with the property that
would catch it, or the reason why none does.

## 2. The modules

| module | models | state and actions |
|---|---|---|
| `LeaseLock` | abstract: what a lock that can be revoked promises | `owner`, `guests`; `Grant`, `Revoke`, `Release`, `Depart` |
| `BotLock` | `botlock.py` | the dictionaries `_locks`, `_holders`, `_dropped`; the sleeping watchdogs; the frame of every `acquire()`. `Acquire` and `AcquireAndReturn` are the code up to the first suspension, `Leave` and `FinishLeave` the `finally` block before and after `await watchdog`, `WatchdogFires` the watchdog |
| `CooldownTimer` | abstract: the limiter as the engine uses it | `remaining` |
| `RateLimiter` | `rate_limiter.py` | clock and time stamps |
| `TradeLifecycle` | abstract: what the engine promises of every symbol | `trade`, `order`, `cooling`, `halted`; `Send`, `Confirm`, `Abandon`, `SendAndConfirm`, `CoolDown`, `Halt` |
| `ExecutionEngine` | `engine.py`, `broker/`, `TradeLogger.log`, the alert | EXTENDS `BotLock`, INSTANCEs `CooldownTimer`; the trade book, `SymbolState.open_trade`, `_paused`, where every handler is suspended, the fate of its request, the position at the broker, the last row of every symbol |
| `EngineShutdown` | the cancellation of the handlers by `shutdown()` and `asyncio.run` | EXTENDS `ExecutionEngine`; what every connection's task is doing, the requests that outlive their handlers; `InterruptedIdle`, `InterruptedOrder`, `InterruptedLog`, `InterruptedAlert`, `Swallowed` are the places where the `CancelledError` can be thrown |
| `PolygonFeed` | `polygon_feed.py` | where every connection coroutine is suspended, the frame it handles and how far, `_running`, the back-off; `FirstSteps` is the one pass of the event loop in which `gather()` starts all coroutines |
| `TradingApp` | `main.py` run, stop and shutdown; the polling loop of `telegram_bot.py`, `/stop` and its reply | EXTENDS `PolygonFeed`; where `_main`, the polling loop and the `/stop` handler are, the requests that a cancelled handler left in a thread; `RunRaises` is `run()` left by an exception or Ctrl-C, `Exits` the end of `asyncio.run`, which has joined the threads |
| `ReceiptLedger` | `receipt.py` | operators only: `Generate`, `Sign`, `Verify` |
| `TradeJournal` | `trades.csv` and its replay, the receipts, restarts | EXTENDS `ReceiptLedger`; rows on their way and written, receipts, trade book, date, failures; a history of fills and closed trades |
| `Strategy` | `symbol_state.py`, `decide.py`, the levels of `engine.py` | operators only |
| `TickPipeline` | `_on_tick` | EXTENDS `Strategy` and `RateLimiter`; price buffer, open trade, where the tick is suspended |
| `MCExecutionEngine`, `MCEngineShutdown`, `MCTradeJournal` | instances | `ByFeed`, `Shared`, symmetry sets |
| `InductionLemmas` | | induction over sets of natural numbers |
| `BotLockProofs`, `ExecutionEngineProofs`, `FeedWiringProofs`, `EngineShutdownProofs`, `TickPipelineProofs`, `TradingAppProofs`, `TradeJournalProofs` | | theorems |

Conventions. An action is the code between two suspensions of the event loop,
with every state change in it: `EntryConfirmed`, for example, is the reply of the
broker, the book update, the symbol state and `record_trade`. A definition whose
comment begins with `Bug:` is no part of any specification: it is a plausible
mistake in the definition after it, and `PROJECT.json` ("mutants") names the
property that catches it.

Abstractions.

- *Time* is counted in ticks: the lock time-out, the cooldown and the sleep of
  a watchdog. A due watchdog may be scheduled arbitrarily late. In
  `ExecutionEngine` a clock step ages cooldowns and watchdogs together.
- *Tokens* are model values; `object()` returns one that no live reference holds.
- *The broker* is reduced to the net position and to how a request ends:
  `filled`; `unfilled`, a response without a fill transaction (`oanda.py`, line
  59); `rejected`, a `V20Error`; `lost`, any other exception, raised before or
  after OANDA executed the order. The brokers' own code is under `src/`, the
  account behind it (`BrokerFills`, `position`) is external.
- *Signals* are arbitrary in `ExecutionEngine`: a signal of any kind may reach a
  symbol that its task serves at any time. `TickPipeline` has the signals the
  strategy really gives and takes from the engine what one task sees of it; that
  the lock is free for it is `NothingDropped`, and that book and copy agree is
  `BookMatchesState`.
- *Prices* are integers in the unit that `round(..., 6)` keeps. An average is the
  fraction its loop computes, rounded to that unit; the RSI is rounded to
  hundredths (`symbol_state.py`, lines 58 and 72); the levels are rounded too. The
  comparisons use the rounded values, as the code does. Outside the model is the
  error a float has *before* it is rounded: it can only tell at a tie, which the
  model sends to the even neighbour. No property rests on a tie. In particular the
  project does not claim that the strategy treats rising and falling prices alike:
  at a tie of the RSI with a threshold the floats decide. The percentages of
  the levels are counted in thousandths (5 and 10 in `config.py`).
- *A row* is a symbol, an action, a price and a day. A row and the receipt of the
  same fill share the id of the order.
- *HMAC-SHA256* is a free constructor: a signature is the record of the key and of
  the fields that were signed, and two signatures are equal when both are.
- *Messages* of the server are what `_parse` makes of them: a tick, nothing (another
  event, or a quote without a price), or an exception (a price that `float()`
  refuses). A frame is any sequence of them.
- *A cancellation* ends a connection in one step where nothing else is awaited on
  its way out. A handler that is cancelled in the logger's thread leaves the
  thread running: its row is written, or fails, at the interruption. A request to
  the broker that is cancelled goes on in its thread as an *orphan*. In `TradingApp`
  a cancelled handler may leave a thread behind (`threads`), which may never end,
  and any handler may swallow a cancellation (`botlock.py:76`), twice at most: once
  that of `shutdown()`, once that of `asyncio.run` (`survived`).
- *The ways out of `run()`* are a stop request, and an exception or Ctrl-C without
  one (`main.py`, lines 190-198). Python 3.11's `asyncio.run` turns Ctrl-C into a
  cancellation of `_main` where no signal handler could be added; a second Ctrl-C,
  during the shutdown, is outside the model.

## 3. The runs

Passing runs:

| run | instance | shows |
|---|---|---|
| `bot_lock` | 3 tasks, 2 symbols, time-out of 2 ticks | `TypeOK`, `LockInv`, `LeaseExclusive`, `OnlyHolderFrees`; the refinement `ImplementsLeaseLock`; under fairness `LockIsFreed` |
| `engine_feeds` | 2 feeds, 3 symbols (2 + 1), live broker that fills or rejects, maximum 1, cooldown 1, from the start to the end of the process | `JournalReplaysBook`, `NoEntryWhileCooling`, `NothingDropped`, `OpenTradesBound` hold in a shutdown too; `ShutdownLosesOrdersOnly`, `ExitsSettled`, `PauseFreezesExposure`; the refinement `ImplementsLifecycle` |
| `engine_shared` | 2 coroutines on one symbol, as in `tests/test_execution_engine.py`; every outcome, failing rows, watchdogs | `EngineTypeOK`, `BookMatchesState`, `NoLockLeftBehind`, `ImplementsBotLock` |
| `engine_simulated` | `SimulationBroker`, 2 coroutines, 2 shared symbols, failing rows, no Telegram | `MaxOpenTradesRespected`, `BookMatchesBroker` |
| `trading_app` | 2 feeds with Telegram, back-off up to 5, frames of up to 2 messages, commands of the operator and of a stranger | `AppTypeOK`, `NothingLeftRunning`, `FramesInOrder`; under fairness `ShutdownCompletes`, `StopCommandObeyed`, `Reconnects` |
| `trade_journal` | 2 symbols, 2 prices, 2 keys, 4 fills, one midnight, one restart, one failing write | `JournalTypeOK`, `PerformanceIsHonest`, `TodayIsIntraday`, `OpenEntriesCoverBook`, `ExecutedLeavesRecord`, `ReceiptsAuthentic` |
| `tick_pipeline` | 3 prices, buffer of 5, EMA periods 2 and 4, RSI period 2, cooldown 2 | `PipelineTypeOK`, `StopsHonoured`, `LevelsBracketEntry`, `OrdersFitTrade`, `EmaIsWeightedSum`, `ImplementsTimer` |

Why the bounds are enough. A lock matters to a holder, a body that outlived its
watchdog and a newcomer: three tasks have all of them at once, two symbols show
that nothing leaks from one to the other. In `engine_feeds` one connection has
two symbols (so that it meets a maximum that it has reached itself, or that the
other connection has), and the maximum of one is overshot when both have an entry
at the broker; each connection is cancelled at every suspension, before and after
the other, and `ShutdownLosesOrdersOnly` reaches its bound of one lost order per
connection; a cooldown of one tick is running or over; with `MaxPosition = 1`
every transition of a position is there, because the book allows no second entry
of an open symbol. In `engine_shared` a position of two lots is reached when the
watchdog lets a second entry in. `MaxDropped = 1` makes the first drop, the only
one a property distinguishes, reachable. Four fills are two trades of one
symbol or of two, or an entry that a restart orphans, another entry and its exit,
on both sides of midnight, with one of the writes failing (`MaxEvents` bounds fills,
restarts and failures together). Frames of two messages have a message behind the one
that ends the frame. Prices 98, 100 and 104 reach both levels of a long and of a
short trade exactly and beyond; the averages are warm with the fourth tick and the buffer
overflows with the sixth. A clock of three ticks has a whole cooldown of two
before, during and after it (`MaxClock`). A back-off of at most 5 goes through 1,
2 and 4 and meets its cap, as 60 does in the code. Two prices in the journal make wins, losses and trades that
break even. Symmetry is used over interchangeable tokens (and tasks and symbols
where all tasks serve all symbols), in runs without liveness only; `FeedSymmetry` exchanges the two symbols of one
connection and the tokens.

`CHECK_DEADLOCK FALSE` stands where the system really stops: a process that is
down, a journal at its bounds.

Runs that TLC finds violated, each a disagreement between the code and what the
repository says of it (PROJECT.json, "findings"):

| run | property | what happens |
|---|---|---|
| `max_open_trades` | `MaxOpenTradesRespected` | Both feeds count the open trades before either order is filled: one position more than `MAX_OPEN_TRADES` (`README.md:370`). How far it can go is `OpenTradesBound`. |
| `unfilled_order` | `RowsAreExecuted` | `oanda.py:59` takes a response without `orderFillTransaction` for a success; the trade is booked and journalled with the requested price. |
| `lost_reply` | `ExecutedIsRecorded` | Only `V20Error` is caught; after a connection error the order may have been executed, and nothing records it (`README.md:271`). |
| `feeds_together` | `FeedsIndependent` | A refused key of one market clears the `_running` flag of both. In the shortest trace both connections are being attempted, forex is authenticated first and refused, and the attempt of crypto fails and is not retried; a connection that is up ends at its next frame or when it is lost (`README.md:28`). |
| `pnl_midnight` | `TodayCountsClosed` | `/pnl` skips the rows of other days before it replays, so that a trade entered yesterday and closed today is not counted (`telegram_bot.py:630`). What it does count is `TodayIsIntraday`. |

Met while modelling and not given a run:

- The comments of `decide.py` speak of crossovers, the code compares levels, and
  an exit also needs an extreme RSI.
- `/pause` replies that no new positions will be opened (`telegram_bot.py`,
  lines 466-470); an order that had passed the guard still opens one, and nothing
  else does: `PauseFreezesExposure`.
- A graceful shutdown loses the result of the orders it interrupts, although
  every executed trade is said to be recorded (`README.md:271`); that it loses
  no more is `ShutdownLosesOrdersOnly`. `shutdown()` returns with the first
  connection that has ended, and `asyncio.run` then waits for broker threads: a
  request that never returns (`oanda.py:58` sets no time-out) keeps the process from
  exiting. `ShutdownCompletes` and `StopCommandObeyed` say that nothing else does:
  the process exits, or from some point on a request is unanswered for ever
  (`[]Waits`).
- After an exception or Ctrl-C nobody has cleared `_running`, so that a connection
  that swallowed both cancellations would go on; `NothingLeftRunning` names that
  exception, and `ShutdownCompletes` speaks of stop requests.

## 4. Fairness

Safety needs none. `LockFairness` assumes that timers advance, a due watchdog
is scheduled, and a task whose cancelled watchdog has ended is resumed: all three
are the event loop's own promise. It assumes nothing of the bodies; a broker
that never answers is allowed. `FeedFairness` assumes that the back-off's sleep
ends, that a connection attempt ends either way (`websockets.connect` has a
time-out) and that a closing handshake ends (the library bounds it as well).
Nothing is assumed of the frames a server sends, nor of `on_tick`, nor of the
threads it leaves behind: a broker may never answer, before, during or after a
shutdown.
`AppFairness` adds that scheduled coroutines take their first step, that the main
coroutine goes on when it can
(`wait_until_ready` has a time-out of 35 s), that a cancelled polling loop
ends, that the reply of `/stop` is sent or fails (the session has a time-out),
that a receive on a socket that `stop()` has closed ends, and that `asyncio.run`
cancels and awaits what is left once `shutdown()` has returned. The last matters:
`gather` raises with the first cancelled connection, and a connection may have
swallowed the first cancellation at `botlock.py:76`. Only weak fairness is used.
`EngineShutdown` states safety only.

## 5. The proofs

All theorems hold for any sets of symbols, tasks and tokens and any bounds, under
the named assumptions of the modules.

- **`BotLockProofs`**. `TypeOK /\ LockInv` is inductive. `LockInv` has to say both
  directions of the match between the dictionaries and the frames: that every
  holder is a frame with a valid lease (else a release might free a lock nobody
  holds) and that every valid lease is a holder (else two frames might hold one
  symbol). From it: `LeaseIsExclusive`, `OnlyHolderFreesLock`, and
  `LockImplementsLeaseLock`, whose mapping takes the owner to the frame that has
  the holder's token and the guests to the bodies whose lease has expired;
  `LeaseStep` maps every step to a step or a stutter.
- **`ExecutionEngineProofs`**. `EngineStepLocks` shows that every step of the
  engine is a step of `BotLock` or leaves the lock alone, so that the theorems of
  the lock hold in the engine (`EngineImplementsBotLock`, `EngineLeaseExclusive`).
  The inductive invariant `EngineInv` is `EngineTypeOK /\ LockInv /\ HandlerInv`:
  `HandlerInv` ties the suspension of every handler to its frame in the lock,
  without which a reply could write `None` into the book, and with which the book
  and its copy are only ever written together (`BookAlwaysMatchesState`); a locked
  symbol has a frame, and the frame a handler (`LocksNeverLeftBehind`).
  `OpenTradesBounded` needs the finiteness of tasks and symbols
  (`FiniteAssumption`): an entry is admitted when the open trades are below the
  maximum and at most the other tasks have one on its way.
  `SimulationRespectsLimit` assumes `Simulated`: then no handler ever waits for a
  broker, nothing comes between the check and the entry, and the maximum is one;
  and book and position move together (`SimulatedBook`), whoever shares the
  symbols: `SimulationMatchesBroker`.
- **`FeedWiringProofs`**, under the additional hypothesis `DisjointServes` (a
  symbol belongs to one task, the wiring of `main.py`). A step of a task changes
  the book, the cooldown and the frames of its own symbols only (`SignalLocal`,
  `HandlerLocal`), so that nobody else restarts a cooldown between the check and
  the reply (`EntriesWaitForCooldown`) and a lock is free whenever a signal
  arrives (`FeedsDropNothing`). The run `engine_shared` has no such hypothesis,
  and neither property is claimed there.
  Under `DisjointServes` too, `BookMatchesBroker` and
  `JournalReplaysBook` say what holds of a symbol when no handler is under way;
  `BrokerTask` and `JournalTask` say what its own handler knows of it meanwhile:
  while an order is at the broker the book is still the one of before, and the
  position is the one before or after the fill; while a row is on its way the
  book shows the trade. `BrokerAt` puts the first together per symbol, so that
  it can be asked of some symbols only, as a shutdown needs.
  `FeedsMatchBroker` needs a broker that fills or rejects
  (`Reliable`; the runs `unfilled_order` and `lost_reply` show that it is
  needed), `FeedsReplayBook` a file that can be written, and nothing of the
  broker.
- **`EngineShutdownProofs`** carries this over to a process that is cancelled. For
  the engine a step of the shutdown is one it might have taken anyway, a handler
  that is cut off where it is (`Cut`), or a request that changes the position when
  nobody waits for it (`Orphaned`) (`ShutdownKinds`); so `EngineInv` needs two more
  cases (`ShutdownInvariant`), and the theorems about the book, the cooldown,
  the lock and the journal hold until the process has ended.
  `PausedExposureFrozen` needs no hypothesis about the wiring: every order that
  may give a position was counted as exposure when it was sent.
  `ExitsAlwaysSettled` needs that a task that has ended has no handler left, and
  that the strategy's copy follows the book (`ShutdownKeepsCopy`).
  For `ShutdownLosesOneOrderPerTask` a symbol is either interrupted or agrees
  with the broker as before, and a task interrupts one order at most,
  because it handles no signal afterwards: the interrupted symbols are mapped
  one to one into the tasks. `EngineImplementsLifecycle` is the refinement of
  `TradeLifecycle`: under `DisjointServes` the order of a symbol is the action
  of the one handler that waits for the broker about it (`OrderOf`), and
  `OrderLocal` says how a step that is local to a symbol moves it. It
  needs `Cooldown > 0`: with a cooldown of zero a symbol never cools down, and
  the abstract `Confirm` starts a cooldown.
- **`InductionLemmas`**. The induction theorems of the library take an operator, which
  the installed provers cannot instantiate. `SetInduction` says the same of a
  *set*: one that contains 0 and the successor of each of its numbers contains
  them all. It follows from the well-foundedness of `<` on `Nat`. With it,
  recursive functions (which a proof sees as a `CHOOSE`) are shown to exist and
  to unfold, and folds and sums over data of any length can be reasoned about:
  `EmaSteps`, `PowerSteps`, `SumRemove` and `SumScaled` in `TickPipelineProofs`, the
  theory of the fold over rows in `TradeJournalProofs`.
- **`TickPipelineProofs`**, for any prices, periods, percentages and cooldown.
  `LimiterTypeOK /\ StampsPast` is inductive; without `StampsPast` a stamp of the
  future would make a remainder longer than the cooldown. From it:
  `PipelineImplementsTimer`, which with `VerdictIsTimers` (`is_allowed` is the
  countdown's verdict) justifies the use of `CooldownTimer` in the engine. `PipelineInv` adds what a suspended tick still
  knows: a trade that was kept so far has been looked at with the last price of the
  buffer, which gives `StopsAlwaysHonoured`. `LevelsAlwaysBracket` needs
  `LevelsResolved`: the distance of a level from its entry is more than half of the
  unit it is rounded to, as 0.5 % and 1 % are for every price above 0.0001.
  `OrdersAlwaysFit` needs
  that `None` is no side (`NoTradeAssumption`) and that an open trade has one.
  `EmaStaysWeightedSum` is the loop of `_ema` against its definition: one price more
  scales every old weight by `k - 1` (`WeightsGrow`).
- **`TradingAppProofs`**, for any feeds, frames and back-off. `NothingIsLeftRunning`
  is not inductive. `SurvivorsInv` counts how often a connection can have been
  cancelled, so that one that still handles a frame when `_main` has returned has
  swallowed both cancellations; `Stopped` says what a stop request leaves of a
  connection (the flag is cleared, and one that handles a tick has its socket
  closing), and `Ending` names the places from which no way leads back to
  another attempt then, because the socket is closed. `FramesAlwaysInOrder` rests
  on what `TicksUpTo` and `NextStop` give, not on the feed's state machine alone.
- **`TradeJournalProofs`**. `JournalInv` relates the fills to the rows and receipts
  that are written, on their way or lost, each with its id, from which
  `ExecutionsLeaveRecords` and `ReceiptsStayAuthentic` follow. `ReplayInv` says,
  symbol by symbol and for every range of days, what the replay of the rows of
  those days knows (`Knows`): never more wins and losses than trades were closed,
  and for a symbol that lost no row exactly those opened and closed on these days,
  with its open entry. It is
  stated of any range, not of all days and of today only, because the date of
  today changes; it is inductive because a row is appended when its predecessors
  of the same symbol are written or lost. From it:
  `PerformanceStaysHonest`, `TodayStaysIntraday`, `OpenEntriesAlwaysCover`, for
  journals of any length. It needs that `None` is neither an id nor a record
  (`JournalNoneAssumption`), because `None` stands for what is absent.

Every invariant of the passing runs is a theorem, and so are the action properties
and refinements. Only model-checked: the liveness properties `LockIsFreed`,
`ShutdownCompletes`, `StopCommandObeyed` and `Reconnects` (temporal reasoning under
fairness needs `ENABLED`, out of the prover's reach). The five violated properties are counterexamples, and no
theorem contradicts them.

## 6. What is not modelled

- `Config`: its values are the CONSTANTS (the split of `SYMBOLS` by market is
  `Feeds` and `Serves`); `validate` raises before anything has started.
- `ConsoleDisplay`, logging set-up, the throttled tick display: output only. An
  output error of the banner at `engine.py:129`, between the book update and
  `_post_trade`, is a hazard of `PROJECT.json` without a property: whether `print`
  raises depends on the terminal.
- Formatting of alerts and replies; the Telegram commands that only read
  (`/status`, `/symbols`, `/trades`, `/risk`, `/dropped`): each reads
  state between two suspensions and replies.
- The text of symbols, quotes and subscription channels: for one pair a small table,
  which no behaviour of the system changes; the canonical JSON text of a receipt.
- Units and commissions; fill prices appear in `TickPipeline` and `TradeJournal`
  only; order ids in `TradeJournal` only.
- The liveness of stops while a broker hangs: a connection awaits its tick, nobody
  bounds a broker call, and the watchdog helps only callers that share a symbol.

## 7. Plan

Written, in this order: `BotLock` with `LeaseLock`, `RateLimiter` with
`CooldownTimer`, `ExecutionEngine` that composes them, and their proofs;
`PolygonFeed` and `TradingApp`; `TradeJournal`; `Strategy` and `TickPipeline`;
`EngineShutdown` with `TradeLifecycle`, and its proofs;
`ReceiptLedger`.

Proved since: the tick pipeline with its averages, the process of `TradingApp`
and the replay of `TradeJournal`, the simulation broker with shared symbols.

Next: abstract specifications of the journal and of a connection, model-checked
and proved as refinements.
