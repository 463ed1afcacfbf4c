# Formal model of the perpetual-futures trading system

TLA+ specifications of this repository's trading engine, checked with TLC on
small instances and, for the safety properties that matter most, proved with
TLAPS for every value of the constants. All paths below are relative to the
repository root (`cmd/`, `internal/`).

Contents: [inventory](#1-inventory) · [plan](#2-plan) ·
[modules and code](#3-modules-and-the-code-they-model) · [runs](#4-runs) ·
[fairness](#5-fairness) · [proofs](#6-proofs) · [findings](#7-findings) ·
[not modelled](#8-not-modelled) · [running it](#9-running-the-checks)

## 1. Inventory

One process trades up to five symbols on Binance futures. Each symbol on the
watchlist has a *symbol state* in the watcher (market data, engines) and a
*symbol worker* (state machine, position, orders). Workers share the REST
client, one WebSocket connection, the guardrails and the live parameters.

| Component | Code | State | Operations | Talks to |
|---|---|---|---|---|
| State machine | `internal/statemachine/state.go` | `current`, `stateEntered`, `noiseStarted`, channel of 64 requests | `RequestTransition`, `Run` (`applyRequest`, `tick`), `RecoverTo`, `CanOpen`, `CanOpenTrend`, `MustClose` | asked by trade handler and reconciliation, read by hook and handler |
| Trade handler | `internal/execution/exit_handler.go` | mutex, `cooldownUntil` | `TryOpen`, `CheckAndExit`, `TryReversal`, `doClose`, `RecordReconcileClose`, `ManualClose`, `ManualOpen` | position manager, order manager, guardrails, state machine |
| Position manager | `internal/execution/position_manager.go` | the position and its guard order ids | `Open`, `SetGuardOrders`, `Close`, `Snapshot` | — |
| Order manager | `internal/execution/order_manager.go` | — | open, stop loss, take profit, close with retries, cancel | REST client |
| Reconciliation | `internal/execution/reconciliation.go` | consecutive failures | `reconcile` every few seconds: cases A, B, C | REST client, position manager **without the handler's lock**, state machine |
| Symbol worker | `cmd/worker.go` | queue of one signal, mark price | four goroutines: state machine, executor, exit monitor, reconciliation | all of the above |
| Signal path | `cmd/watcher.go` `runEngineEvaluator`, `cmd/main.go` hook | — | evaluate, gate, enqueue | engines, state machine, guardrails, worker queue |
| Guardrails | `internal/risk/guardrails.go` | daily sum, streak of losses, two deadlines | `CanTrade`, `RecordTrade` | shared by all workers |
| Watchlist, watcher | `cmd/main.go`, `cmd/watcher.go` | `workers`, `states`, `addMu` | add, remove, `rebuildWS` | HTTP server, WebSocket client, workers |
| WebSocket client | `internal/datafeed/ws_client.go` | streams, handlers, connection, a read pump and its channel per connection | `SetStreams`, `Run`/`connect`, `readPump`, `dispatch` | exchange, normalizer |
| Normalizer and channels | `internal/datafeed/normalizer.go` | four bounded channels per symbol | one handler per stream: parse, offer, drop | consumers in `cmd/watcher.go` |
| Symbol state | `cmd/watcher.go` `startStateGoroutines` | mark price, previous close, momentum, trackers | a goroutine per channel | trackers, worker (mark price hook) |
| Trackers | `internal/microstructure/*` | volume rings, order book, OI history, basis history | `Add`, `Update`, `Snapshot` | engines |
| Engines | `internal/engine/*` | configuration only | `Evaluate` | evaluator |
| Live parameters | `internal/webui/live_params.go` | parameters, initialized defaults | `Get`, `Update`, `Reset`, `SetDefaultsToCurrent` | read by everyone, written by the HTTP handlers |
| Web server | `internal/webui/server.go` | credentials, sessions | parameters, watchlist, logs, status | live parameters, REST client, `cmd/main.go` |
| REST client | `internal/datafeed/rest_client.go` | credentials, clock offset | orders, positions, leverage and modes | exchange |
| Boot | `cmd/main.go` `bootCheck` | — | look at the position, cancel the orders | REST client |
| Event log, telemetry, config | `internal/webui/event_log.go`, `internal/telemetry`, `internal/config` | log ring, gauges | observers; the file is read once | — |

**What is hard here.** (1) Every REST call is an await: the executor, the exit
monitor and the reconciliation loop interleave at each of them, and
reconciliation writes the position without the mutex the other two use. (2) A
call that failed may have executed. (3) Guard orders fire at the exchange on
their own. (4) Checks are made long before what they check is used: the hook
checks what the executor trades later, guardrails are read at an opening and
written at a close, `rebuildWS` looks and sets under different locks, `connect`
dials with a copy, the order book's two best prices are read under two locks.
(5) The only transport of an escalation is a channel that drops. (6) Market
data comes through three queues of which two drop or block when full, over
connections that are replaced at any moment. (7) The parameters in effect and the
modes at the exchange are two copies of one thing, kept together by calls that
fail, race and are not always made. (8) A crash loses everything but what the
exchange holds. `PROJECT.json` lists each hazard at its line, with the property
that watches it or the reason why none does.

**What makes each component correct.**

* State machine: severity never falls by itself, FAILURE is absorbing, an
  accepted escalation comes into force.
* Execution layer: never two positions; a position is protected by its guard
  orders or an escalation is under way; closing only reduces; books and
  exchange come to agree; DEGRADATION and FAILURE end all exposure; each trade
  is booked once.
* Guardrails and signal path: limits that are checked by one worker and moved
  by another are overshot by a bounded amount only; a halt ends.
* Watchlist and connection: at most `maxSymbols` workers; a watched symbol has a
  worker, a subscription and handlers that feed its present state; the
  connection always comes back.
* Market feed: per stream the consumers get messages in order and none twice;
  what was read is not thrown away with the connection; goroutines of old
  connections end; a momentum does not silently span a candle.
* Trackers: the running sum of a window is the volume in it; the order book holds
  nothing the market does not have; its spread is that of one market.
* Engines and evaluator: engines do not contradict one another, or it is known
  which; a refused signal hides no better one; an old signal is not traded.
* Live parameters: in range, in effect as saved, and the same at the exchange.

## 2. Plan

Done, in this order: `StateMachine`; `Execution`, which extends it, with
`TradeCycle` and `TradeLock` as its abstract specifications; `Guardrails` and
`SignalPath`, which composes guardrails and many workers, each a `TradeLock`;
`WSClient` and `Watchlist`, which composes watcher, workers and client;
`TradeFlow`; `MarketFeed`, with `LossyFeed` as its abstract specification;
`LiveParams`; `Evaluator`; `OrderBook`; crash and restart in `Execution`.
Proofs stand beside each in a module of their own.

What could follow, most useful first:

1. HEDGE mode in `Execution` (a position side instead of reduce-only orders) and
   the composition with `LiveParams`: orders built for the mode in the parameters
   while the exchange has the other.
2. The OI history (windowed differences over samples that may be missing) and the
   basis statistics.
3. Several symbols through one connection in `MarketFeed`, with the handler map of
   `WSClient`; a worker removed in the middle of an operation and not added again.

## 3. Modules and the code they model

`PROJECT.json` maps each definition to its lines. Mutants (`Mut...`) are small
bugs the code might have had; each property is shown to fail under one.

### TradingStates, StateMachine — `state.go`

States are the source's integers, so severity is `>`. `requests` is the channel
with capacity `ReqCap`; `RequestTransition` is a part of its caller's step, a
full channel sets the history variable `dropped`. `ApplyRequest` and `Tick` are
the two branches of `Run`; with the requests they are `OwnNext`, all that happens
without an operator. Times are ages in ticks that saturate at `Window`
(five minutes in the source). `RecoverTo` has no caller in the repository and is
enabled by `Recovery`; its comment asks for a stable window that the code does
not look at, which is why `entered` is kept in the state.

### Execution — `internal/execution`, `worker.go`, order calls of `rest_client.go`

Three goroutines with program counters (`exec`, `mon`, `recon`), the state
machine, and an exchange that holds a signed amount and resting guard orders.

* A REST call is **two** steps: its effect at the exchange, then the return of
  the reply together with the local code up to the next call or lock. Local code
  between two awaits is one step unless another goroutine can see the middle:
  `CaseAClose` (resets the position without the lock) and `CaseARecord` (waits
  for the lock) are two steps for that reason. `Cancel` is one step, because
  its reply is ignored by the code.
* `hmu` is `TradeHandler.mu`; the lock-free pre-checks of `CheckAndExit` and
  `TryReversal` are steps of their own (`MonWait`, `Signal`), with the re-check
  under the lock after them.
* Amounts are in lots. `QuantizeQty` rounds down to `StepSize` as the order
  manager does, while the position records the unrounded quantity, as
  `TryOpen` does. `gen` numbers openings: an order id is (kind, generation).
* `Fault` gives a call five ways to fail: rejected; executed but the reply lost
  (orders, opens); answered with average price zero; a failed cancel; a failed
  position query. `MaxFaults` bounds failures in a behaviour.
* Prices are abstracted: the monitor may exit at any time, a reversal may be
  confirmed at any time, a guard order may trigger at any time.
* `booked` counts `RecordTrade` calls per opening (history).
* `Restart` is a crash at any moment, between an order's effect and its reply
  too, followed by `bootCheck` (which warns of a position and cancels all resting
  orders, guard orders included, ignoring a failure) and by the operator adding
  the symbol again. All local state is lost; the exchange keeps its own.

### TradeCycle — the abstract specification of Execution

One exposure at a time: enter, leave, book exactly once, then the next.
`MCExecution!ImplementsTradeCycle` maps `side` to the sign of the exchange
position and `owed` to a flat exchange with a position still in the books.

### TradeLock — the abstract specification of a worker, for SignalPath

What the others see of a worker, with the orders taken away: its state, what
`TradeHandler.mu` is held for, whether the position is open, and how far case A
of the reconciliation loop has come, which finds, resets and books in three steps
and takes the lock only for the last. `MCExecution!ImplementsTradeLock` maps
`lock` to the owner of the mutex and the executor's phase, `holding` to a position
no opening is at work on, `recon` to the program counter of the loop.
`BooksUnderLock` ties `RecordTrade` to the two steps of `TradeLock` that
`SignalPath` books. `Restart` is there for `Execution`; nothing restarts in
`SignalPath`. That a worker only sends requests to its machine and only `Run` moves
it is proved and not a run's property (`MachineSafety` in `ExecutionProofs`).

### Guardrails, SignalPath — `guardrails.go`, evaluator, hook, executor

`Guardrails` is the shared state. Its two deadlines are the questions asked of
them, `newDay` and `cooling`, moved by `Midnight` and `CooldownOver`.
`SignalPath` is many `TradeLock` workers, each with the queue of one and the signal in
hand, and the guardrails they share: `Admit` is `BeginOpen` with the guardrails
asked again, `CloseDone` and `RecordReconcileClose` are the two steps that
book, `Unbooked` is everything else a worker does. Because a case A resets the
position whoever holds the lock, a close under way is still booked afterwards,
as `doClose` does with its snapshot. `OpenDone` covers every outcome of an
opening; an emergency close after it keeps the lock. A worker's state rises
arbitrarily, which is what `StateMachine` allows without `RecoverTo`.

### WSClient, Watchlist — `ws_client.go`, `watcher.go`, `main.go`

The four streams of a symbol come and go together, so a symbol stands for them.
A handler is named by the symbol state (`made` numbers them) to whose channels it
writes. `run` is where `connect` is; `cut` says that `SetStreams` closed the open
connection. Requests are processes: an add holds `addMu` from `AddCheck` to
`AddWorker`; a remove takes no lock across its steps; `rebuildWS` is `Snapshot`,
one `ReadState` per symbol in any order (a Go map), and `Rebuilt`, because each
takes its lock anew. Two history variables name the two races: `raced`
(streams replaced while `connect` dials) and `overlapped` (a rebuild began
inside another).

### LossyFeed, MarketFeed — `ws_client.go`, `normalizer.go`, `watcher.go`

`MarketFeed` follows a message from the exchange to the trackers: `Read` and
`Push` are the two halves of the pump's loop, `Dispatch` is one turn of
`connect`'s loop with the handler's select, `TakeTrade` ... `TakeKline` are the
consumers. A message is its number in its stream and what its parser makes of it:
`"good"`, `"garbled"` (a structure that is refused, the envelope included) or
`"no number"` (a numeric string that does not parse). The four handlers differ in
the last: a trade is refused, a depth level left out, a mark price or a close
becomes zero. What is stored of the mark price is left out, the momentum is not.
Each connection has its own pump and channel; `connect` returns
when that channel is closed and empty (`ChannelClosed`) or a ping cannot be
written (`PingFails`), the only case in which messages that were read are left
behind. `LossyFeed` is what consumers may rely on: some of the messages, in order,
none twice. Messages of a stream without a handler belong to `Watchlist`.

### TradeFlow — `trade_flow.go`

Any number of windows, each a ring with `head`, `size` and a running `sum`.
`Add` takes the mutex, each turn of the eviction loop is an `Evict`, the rest of
`rcvdWindow.Add` is `Write`, one window after the other. `trades`, `upto` and
`lost` are history: everything added, its prefix sums, and what a full ring has
overwritten without taking it off the sum. Volumes are integers; rounding of
`float64` is left out.

### OrderBook — `orderbook.go`, depth goroutine of `watcher.go`

The exchange sends the levels that changed, with the market they belong to as
history (`of`); an update may be lost. `Update` takes the first `n` levels of each
side (any `n`: the order of the message is not relied on), stores, changes or
ends them, and forgets every level that was not named. `ReadBid` and `ReadAsk` are the two
locks of `SpreadBps`. Prices are ranks, so the spread is a difference of ranks
and only its sign matters. The average lifetime of the levels is left out.

### Evaluator — `engine/*`, evaluator loop, hook, executor

One operator per engine gives its direction from the signs of a market context;
everything else an engine asks (thresholds, funding, volatility, confidence, the
switches) decides only *whether* it signals and is any subset of the engines.
`Evaluate` is a tick, `Hook` the gate in `main.go` with the bounded queue, `Take`
the executor, which does not look at the expiry again.

### LiveParams — `live_params.go`, parameter handlers of `server.go`, mode calls

The record `live` has one field for each *rule* of `apply`: fallback to an old
field and then to the current value (`tp`), stored as sent (`cooldown`,
`leverage`), amounts with a default (`lotSize`, `marginUSDT`), two clamps
(`guardMs`, `precision`), a default for a missing value (`depth`), a switch that
may be absent (`long`), a value that is kept unless positive (`liqConf`) and the
two modes. A save is `Save`, `Update`, `LeverageCall` for the active symbol, then
the goroutine of the mode handler: `PositionCall`, `ReadWorkers`, one
`MarginCall` per symbol. An add is `Add` (reads the parameters once, under
`addMu`), `AddPosition`, `AddLeverage`, `AddMargin`, `AddWorker`; refusals there are
ignored. `trouble` (history) names what may keep parameters and exchange apart:
a call that was refused or whose answer was lost, requests that overlap, a save
without keys, a reset that changes a pushed value.

## 4. Runs

| Run | Instance | Shows |
|---|---|---|
| `statemachine` | channel of 3, window 2, with `RecoverTo` | `OnlyRecoveryLowers` (no step of `OwnNext` lowers the severity, `RecoverTo` never leaves FAILURE), `AcceptedKept`; under fairness `AcceptedHonoured` |
| `exec_faults` | one direction, 2 openings, one call failing in 5 ways or one restart, reconciliation on | `LockInv`, `Protected`, `OpenNeverOverwrites`, `ClosesOnlyReduce`, `BooksUnderLock`, and refinement of `TradeLock` |
| `exec_definite` | both directions, quantity 3 with step 2, 3 openings, cooldown, 2 failures of guard orders, closes or cancels; opens always answered, reconciliation off | `SinglePosition`, and refinement of `TradeCycle` |
| `exec_live` | quantity 3 with step 2, 2 openings that may stack, 3 of: refused or lost call, lost open, zero price, failed query, restart; reconciliation on, channel of 1 | `Reconciled`, `MustCloseFlattens` |
| `signals` | one engine, 2 workers sharing limits 1 and 2, 4 trades, returns -1, 0 and 1 | `LossBounded`, `LateLossesBounded`, `TradingResumes` |
| `watch` | 3 symbols, limit 2, 2 concurrent requests, 3 symbol states | `WithinLimit`, `WatchedHaveWorkers`, `RebuildMatches`, `StaleOnlyByDialRace`, `Reconnects` |
| `flow` | rings of 2 and 3 over 1 and 2 ticks, 5 trades of any time and two volumes | `SumAccounts`, `WindowExact` |
| `feed` | 2 connections, channels of 1, 3 messages in any of the four streams | `ReadIsDispatched`, `MomentumAdjacent`, `PumpsEnd`, refinement of `LossyFeed` |
| `params` | 2 symbols, 2 requests at work, 3 in all, 5 snapshots of which 2 are not valid | `ModesAgree`, `SavedIsInEffect` |
| `evaluator` | all contexts, queue of 1, 3 ticks | `EnginesAgree`, `OnlyTrendMasks`, `NoBacklog` |
| `book` | 2 prices, quantities 0 and 1, depths 1 and 2, 3 updates, channel of 1 | `PartOfMarket`, `SpreadTrusted` |
| `exec_single` | 2 openings, no failures | expected violation, see [findings](#7-findings) |

Most passing runs also check one type invariant; the state machine's is a part of
that of `exec_faults`, and the order book's is only proved (`BookTypes`).

**Why the bounds are enough.** `ReqCap = 3` with three possible targets fills
the channel with any order of different requests; `Window = 2` has a before and
an after. Two openings let a late action of the first (a stale case A, a delayed
close, an orphaned guard order) meet the second; three let a booking be missed
between two of them. `Qty = 3`, `StepSize = 2` is the smallest order that
rounding changes. One fault in `exec_faults` already reaches every error branch;
two in `exec_definite` allow a guard order to fail and the emergency close after
it; three in `exec_live` are the three failed queries that make FAILURE, or an open that
is lost and two closes that fail after it. Its two openings are what a stack takes:
the exchange holds two orders (4 lots) when the first was lost, or forgotten by a
restart or a stale case A, and the worker opened again; the mutant `MutCaseCOnlyLess`
goes wrong in such a stack only. Its channel of one drops a request as soon as two
goroutines ask at once, which 64 places would need 65 for. Its `VIEW` leaves out
`booked`, `consumed`, `dropped` and `entered`: no guard of `Execution` and neither
of its two properties reads them, and no step changes them alone, so states that
differ in them only have the same steps. It makes the complete check possible: one
million states instead of ten.
`MaxOrderRetry` is 1 where retries would only repeat a step and 2 where they
matter. Two workers are the smallest that overshoot together, and four trades
let them do it after a cooldown and a new day. Three symbols with a limit of two
let a rebuild read one symbol while the others change; three symbol states let a
symbol be removed and added again inside somebody else's rebuild. Five trades
wrap and overflow both rings and come in any order of time. In `feed` three
messages are two candles with a lost one between, or one held, one queued and
one dispatched when the channel holds one; two connections are an old pump and a
new one. Three requests let an add or a save run between two others; the valid
snapshots between them use every branch of `apply` that a valid value can take.
Three ticks are one signal in hand, one in the queue and one refused. Two prices
and three updates give a level that appears, goes and comes back, and a best price
that jumps over the other side's old one.

Deadlock is checked in all runs of the execution layer, the state machine and the
parameters. In `signals` it is not: all workers may end in FAILURE, where the system stops
trading. In `watch` it is not: with an empty list the client waits for a
request, and requests may cease. In `flow`, `feed`, `evaluator` and `book` it is
not, because the environment is bounded: trades, messages, ticks and updates
run out.

**What the passing runs do not claim.** `exec_definite` holds with opens
answered and reconciliation off; with a lost open, or reconciliation racing an
open, a second position is possible (`exec_single`), and what holds then is
`exec_live`, which has that second opening: books and exchange agree again and
again, so a stack is found and closed. That is under bounds: two openings, no third
while the second is being dealt with. A restart is followed by the symbol being
added again; until that happens nobody watches the position. `RebuildMatches` and
`StaleOnlyByDialRace` exclude exactly the two races named by history variables.
`SpreadTrusted` says when a spread is negative, not that it is exact: the book is a
part of the market, so its best prices may be worse than the market's.
`ModesAgree` has four exceptions, each of which can happen (see findings).

## 5. Fairness

* State machine: weak fairness of `ApplyRequest` and `Tick`. Go's `select`
  chooses among ready cases at random, so neither channel starves the other.
* Execution: weak fairness of each goroutine, one formula for each: the executor
  goes on with a signal it has taken, the exit monitor with its check of
  `MustClose`, which runs every 100 ms once there is a mark price (the executor
  opens nothing before), reconciliation with its ticker, `Run` with requests
  and ticks; calls return or time out. Only one step needs more: case A waits for
  `h.mu` while the monitor may take it again and again for a close that keeps
  failing (the exchange is flat already), so `CaseARecord` is strongly fair:
  `sync.Mutex` switches to starvation mode and hands over to a waiter after one
  millisecond. For the monitor's own waiting weak fairness is enough. Nothing is assumed of signals, prices or guard orders. Failures
  end because `MaxFaults` bounds them: no claim is made for an exchange that
  fails for ever.
* Guardrails: midnight comes and an hour ends. Nothing is assumed of traders.
* WebSocket: `Run` calls `connect` again after its backoff; a closed connection
  ends its read loop; of infinitely many handshakes one succeeds (strong
  fairness, the environment's part). Requests are not fair: an add may hang in
  a call to the exchange for ever.
* Market feed: each pump goes on, unless its channel is full (`Push`), and a read
  of a closed connection returns (`PumpEnds`). Nothing is assumed of the
  exchange, of `connect`'s loop or of the consumers.
* `TradeFlow`, `OrderBook`, `Evaluator` and `LiveParams` state safety only and
  assume no fairness.

## 6. Proofs

| Module | Theorem | Statement |
|---|---|---|
| ExecutionProofs (state machine) | `StateMachineTypes`, `FailureIsSticky`, `SeverityFallsByRecovery`, `AcceptedRequestsAreKept` | the safety of the state machine from its initial state and steps alone, any capacity and window |
| ExecutionProofs (worker) | `ExecutionTypes`, `LockExclusive`, `NeverOverwritten`, `ClosesReduce`, `PositionsProtected`, `TradesAreBookedUnderLock` | any quantities, steps, directions, retries, faults, restarts, openings |
| ExecutionProofs (refinements) | `ExecutionIsTradeLock`; without restarts `ExecutionIsStateMachine` and, of it, `WorkerKeepsEscalations`; under `Definite` `ExecutionIsTradeCycle`, `ExposureIsSingle` | the same constants |
| SignalPathProofs | `SignalPathTypes`, `DailyLossIsBounded`, `LateLossesAreBounded` | any finite set of workers, limits, returns |
| WatchlistProofs | `WatchlistTypes`, `AddsStayWithinLimit`, `NoWatchWithoutWorker`, `StaleStreamsAreRaces`, `RebuildsMatch` | any finite sets of symbols and of concurrent requests |
| TradeFlowProofs | `FlowTypes`, `RingsHoldLatest`, `SumsAccount`, `WindowsExact` | any number of windows, capacities, spans, volumes and times |
| MarketFeedProofs | `FeedTypes`, `OnlyPingsAbandon`, `FeedIsLossyFeed`, `MomentumsAreAdjacent` | any capacities, connections and messages; the third is a refinement |
| EvaluatorProofs | `EnginesNeverContradict`, `MaskingIsTrends`, `QueueNeverLags` | all contexts, any number of ticks and any choice of enabled engines |
| LiveParamsProofs | `ParamsTypes`, `WhatIsSavedCounts`, `ModesStayAgreed` | any symbols, snapshots, configuration and number of requests |
| OrderBookProofs | `BookTypes`, `BookIsPartOfMarket`, `SpreadIsTrusted` | any prices, quantities, depths and capacity |

Assumptions are those the modules name: positive capacities and limits, a step
size within the order quantity, finite sets, returns no worse than `-MaxLoss`, a
configuration that passes `config.validate`. Some theorems say besides when they
hold. `ExecutionIsTradeCycle` and `ExposureIsSingle` assume `Definite`: open orders
are always answered, nothing restarts and reconciliation is off; without it the
code does not keep what they say (section 7). `ExecutionIsStateMachine` and
`WorkerKeepsEscalations` are about the time between two restarts, because a
restart begins with a new machine. `QueueNeverLags` assumes `OneSignal`, the
capacity `worker.go:60` gives the queue; with two places the second signal may be
older than the taking of the first, and the property is false.

* *State machine.* The types are inductive; the action properties follow from
  them by cases. `AcceptedRequestsAreKept` is about sequences: what leaves by
  `Tail` was the head, and the head was honoured.
* *A worker and its machine.* Every step of `Execution` is a request, a step of
  `Run`, or leaves the machine alone (`MachineStep`), so what is proved of
  `StateMachine` holds of the worker (`WorkerKeepsEscalations`) without looking at
  the worker again. None of those steps is `RecoverTo`: they are steps of `OwnNext`,
  which never lowers the severity (`OwnStepsRaise`), so between restarts a worker's
  never falls.
* *A worker and its lock.* `TradingStep` maps each action of `Execution` to one of
  `TradeLock` or a stutter; the `Map...` lemmas say what each asks of the four mapped
  variables. It needs `LockInv` where a step relies on who else is inside: the
  monitor's close finds no opening under way, and a case A that saw the position
  of an opening finds the lock taken for it. `SignalPath` is built from the same
  actions, so its bounds speak of the workers that `Execution` details.
* *Execution.* `IInv == TypeOK /\ Registers`. Types alone are not inductive: the
  retry counter is within its limit only because a close that may send has
  attempts left, and an opening is numbered within its bound only because the
  phase before sending implies room. `Registers` says so phase by phase.
  `LockInv` then follows per action. `ClosesReduce` rests on one arithmetic
  lemma about reduce-only orders; `NeverOverwritten` on the flat check staying
  true until the reply, since recon can only flatten.
* *Protected.* `GuardInv` follows an opening phase by phase (`PlacedInv`: a guard
  order that was answered rests or has fired; `OpenedInv`: the position is the one
  being opened) and says what recon may be about to do: it cancels orders only of
  the opening in its copy, which is older than the one exec is placing guards for,
  and before it books, the opening in its copy is gone (`CaseInv`). A handler that
  unlocks has closed, guarded, or asked for FAILURE, and `EscalatedStays`: only a
  restart forgets that.
* *The refinement of TradeCycle.* `DefiniteInv`: the exchange holds nothing or
  exactly one order, on the side of the books or of the reply exec awaits; who
  closes has a copy of the position there is, so that what executes leaves
  nothing (`CloseTakesAll`, for any step size); what is open is not booked.
  `Leave` is then any step that empties the exposure, a guard order's or a
  close's, and `Book` only a successful `CloseFinish`.
* *Signal path.* `LossInv` weighs what is booked together with what is under
  way: `daily - |Engaged| * MaxLoss > -DailyLimit - |Workers| * MaxLoss` on the
  day of the sum. An admission takes a worker into `Engaged` only while the sum
  is above the limit; a booking moves weight from one side to the other.
  `LateInv` does the same for the number of losses in a cooldown. `LossBounded`
  alone is not inductive: it does not say what the engaged may still lose.
* *Watchlist.* `AddInv`: one add holds `addMu`, and while it does there is room,
  because only removes can have run. `WorkerInv`: a watched symbol without a
  worker has an add or a remove still at work on it. `DialInv`: the copy equals
  the streams from the moment it is made. `MatchInv`: a rebuild that is alone has
  read states that still stand, since whoever changes one must come through a
  snapshot of its own.

* *Trade flow.* The key invariant is `RingHoldsLatest`: n places behind `head` is
  the n-th last trade a window has taken, which needs lemmas about `%` for one
  step forward and one step back. The sum follows by prefix sums (no induction
  over a sequence is needed); `WindowExact` adds that in order of time the trades
  outside the ring are older than those inside.
* *Market feed.* For the refinement, `OrderInv` orders all numbers in flight of a
  stream: what the consumer has seen, then its channel, then the pump's channel
  and the message held by the present connection, then `sent`. Messages of old
  connections need no order, because nobody dispatches them: that is
  why the loop must read the channel of its own connection.
* *Momentum.* `MomentumAdjacent` alone is not inductive: it says nothing of the
  candle the next momentum will start from. `FateInv` gives every candle that has
  ended one of four fates: lost, left with a connection given up, on its way, or
  no newer than the last one consumed. `CandleInv` says that what is on its way is
  what was sent. With `OrderInv` the candle taken next is older than all on
  their way, so everything between it and the last has one of the first two fates,
  which are final (`SettledStays`).
* *Engines.* `TypeInv` keeps that the signals of a tick come from one context;
  `DirectionsAgree` compares the four engines on it. `QueueInv`: what waits was put
  there no earlier than the last taking.
* *Live parameters.* Ranges follow from the rules of `apply`; a valid snapshot
  lies inside every clamp. `ModesStayAgreed` strengthens `ModesAgree` to one
  conjunct for each place a lone request can be in, saying what has been
  pushed already and what is still to come.
* *Order book.* A level's quantity is that of the update applied last, because
  levels it does not name are forgotten; with an uncrossed market a negative
  spread then needs a level of quantity zero, or two different updates.

Only model-checked: liveness, which is out of the prover's reach
(`AcceptedHonoured`, `Reconciled`, `MustCloseFlattens`, `TradingResumes`, `Reconnects`,
`PumpsEnd`). Every other property of a passing run is a theorem, `SinglePosition` and
`ImplementsTradeCycle` under the conditions their run has. No module with a theorem
uses recursion.

## 7. Findings

The run `exec_single` ends in a violation that is kept as a run: a case A that
rests on two readings of different moments resets a live position
(`reconciliation.go:114`); its cooldown starts only in `RecordReconcileClose`
(`:116`), so `TryOpen` can open a second position on top of the first, no call
having failed. `position_manager.go:38` promises a single position.

Other disagreements between the code and its own words, met while modelling:

* *Case A without a guard order.* `reconciliation.go:109` and
  `exit_handler.go:419` say that a guard order has fired. The exchange is read at
  `:79` and the position at `:90` without the lock, so an open that executes in
  between looks the same.
* *Orders are not serial.* `order_manager.go:16` says they are; reconciliation
  sends at `:112`, `:113` and `:127` beside the executor.
* *STRESS.* `state.go:16` and `:177` reserve STRESS for Squeeze. The hook
  (`main.go:124`) stops only Trend there, and `exit_handler.go:103` asks
  `CanOpen` for every engine: Transition passes, and so does a Trend signal queued
  in STABLE.
* *Overlapping rebuilds.* `rebuildWS` looks at `watcher.go:257-283` without one
  lock; the older snapshot may be set last, and a watched symbol stays without
  data until the next change.
* *Streams replaced during a dial* are never subscribed: `ws_client.go:67` says that
  closing the connection makes `connect` reconnect, but between `:113` and `:144`
  there is none to close.
* *The modes at the exchange.* `main.go:218` says that a changed mode is pushed.
  It is not after a reset (`server.go:701`), after a save without keys, or when the
  leverage was refused: that ends the request at `:660` with the parameters saved
  and nothing pushed, and repeating the request finds no change. Two
  overlapping saves may arrive in the wrong order, and an add works with the
  parameters of its beginning (`main.go:184`). Orders are built for the position
  mode of the parameters in all these cases.
* *A reset is not complete.* A liquidation confidence whose default is zero keeps its
  present value (`live_params.go:370`). An amount that is no number silently becomes
  10 USDT or 0.01.
* *The order book* treats the stream of differences (`main.go:321`) as the whole
  top of the book, and a level first seen with quantity zero is stored
  (`orderbook.go:57`): the spread can be negative, which lowers the estimated slippage.
* *A full ring* overwrites its oldest trade and leaves it in the sum
  (`trade_flow.go:47`); at 4096 trades in five seconds the volume signal drifts
  for good.
* *A close that does not parse* is zero (`normalizer.go:288`), a momentum of minus
  one hundred percent for the engines.
* *Expiry* is looked at right after the signal was made (`watcher.go:572`), when it
  cannot have passed, and never by the executor. `NoBacklog` is what holds instead.
* *A silent connection* is never noticed: no read deadline, pongs not awaited
  (`ws_client.go:157-171`). Pumps of connections given up on a failed ping may
  block for ever on their full channel.

## 8. Not modelled

* Floating-point formulas: P&L, confidence, slippage, basis statistics, survival
  and volatility averages. Where a decision depends on them it is
  nondeterministic.
* The OI history (`oi_tracker.go`) and `basis.go`: decimal arithmetic over time
  series without interaction; their signs are inputs of `Evaluator`.
* Pages, authentication, credentials, process control, event log, metrics, reading
  of `config.yaml`: I/O or observers that no trading decision reads.
* The orderly shutdown and the start of shared services: nothing is persisted, so a
  stop is a crash, which `Restart` covers. A worker removed for good with its
  position open is not followed.
* HEDGE orders: see [plan](#2-plan).
* `ManualOpen` and `ManualClose`: nothing calls `SetManualTrader`, so the web
  server answers that trading is not initialized.
* Panics, which the goroutines of a symbol recover from by ending, and the
  cancellation of a symbol's context in `MarketFeed`.
* Code that cannot run: the fallback to the fields of before the long/short split
  (validation refuses what would need it), `MarginMode == ""` in an add, a depth
  below one in `OrderBook.Update`.
* The health of the exchange's matching: guard orders trigger and reduce-only
  orders reduce as documented by their use in `order_manager.go` and
  `rest_client.go`; these definitions are marked external.

## 9. Running the checks

```
tlasany Watchlist.tla
tlc -workers 2 -config Watchlist.cfg Watchlist
tlapm WatchlistProofs.tla
```

`PROJECT.json` lists every run with its module, configuration and expectation.
The longest, `exec_faults` with 4.5 million states and `exec_live` with its
liveness, take two to three minutes, `signals`, `watch` and `feed` one to two; the
others are shorter. The proofs of one module take about a minute.
