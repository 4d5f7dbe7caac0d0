# A TLA+ model of the WTI crude oil trading bot

This directory holds TLA+ models of the bot in `src/`, TLC configurations that
check them on small instances, and TLAPS proofs of what holds for all values
of their constants. Paths below are relative to `src/src/` unless they say
otherwise. `PROJECT.json` maps every definition to the lines it translates and
lists the runs, the mutants that show each property has teeth, the known
disagreements between code and documentation, and the hazards.

    tlc -config MCTradingSystem_safety.cfg MCTradingSystem.tla
    tlapm TradingSystemProofs.tla

1. [The system](#1-the-system)
2. [Plan](#2-plan)
3. [What is modelled](#3-what-is-modelled)
4. [The runs](#4-the-runs)
5. [Fairness](#5-fairness)
6. [What is proved](#6-what-is-proved)
7. [Where code and documentation disagree](#7-where-code-and-documentation-disagree)
8. [What is left out](#8-what-is-left-out)

## 1. The system

The program is one asyncio process. Market ticks come in from feed adapters
and go through the feed manager to the strategies and to the paper broker.
A strategy that sees a pattern emits a signal; `main.py` turns each signal into
a task that runs `ExecutionEngine.execute_signal`, which asks the risk manager,
creates an order and submits it to the broker. The broker fills it in a task of
its own, opens or closes a position and calls the engine back, which informs the
risk manager. A REST API lets an operator cancel, close, halt and reset at any
time. Nothing runs in parallel, but every `await` is a place where any other
task may run.

| Component | State | Operations | Talks to | Hard behaviours | Correct when |
|---|---|---|---|---|---|
| Order and position models (`execution/models/`) | status, filled quantity, fills; side, quantity, entry, stop, P&L | update_status, add_fill, cancel, reject; update_price, close, should_trigger_stop | PaperBroker | transitions from the wrong status | status and fills tell one story; final is final |
| PaperBroker (`execution/brokers/paper.py`) | orders, positions, last prices, balance | submit, cancel, close, tick; fill task, stop-loss close task | engine callbacks | cancel between the halves of a fill; a close task that finds another position | positions come from fills; the balance moves with closes; stops are honoured |
| ExecutionEngine (`execution/engine.py`) | running flag, callbacks | start, stop, execute_signal, cancel_order, close_position, close_all_positions | RiskManager, broker, EventBus | the check is separated from the effect by a sleep | no order past the gates; each event is reported once |
| RiskManager (`risk/`) | RiskState: daily P&L, trades, losses, open positions, kill switch, cooldown, peak balance | check_order, check_position_open, on_position_opened/closed, resets | engine, API | believed state against the broker's | counts agree with the book; a halt is a halt |
| Execution, risk and system API (`api/`) | the emergency flag in `api/system.py` | cancel, close, close all, resets, emergency halt | engine, risk manager | calls between any two steps | what an answer says is what happens |
| CircuitBreaker (`core/circuit_breaker.py`) | state, counters, time of last failure | call, record, reset | callers | late results, cancelled probes | recovers; trips exactly at the threshold |
| EventBus (`event_bus/`) | subscriber lists, queue, running flag, loop task | start, stop, publish, publish_immediate, subscribe, unsubscribe | engine, event engine, strategies, websockets | dispatch over a live list; stop with a full queue; restart; a Redis loop that ends with its first step | an event reaches a subscriber at most once and in order |
| FakeSpikeFilter (`strategy/detectors/fake_spike_filter.py`) | price history, pending spikes, blocked symbols | on_tick, is_blocked | StrategyEngine | expired spikes that stay in the deque; one deque for all symbols | a spike blocks its own symbol, for long enough and no longer |
| StrategyEngine, signals (`strategy/`) | active signals, per-detector windows, statistics | on_tick, on_bar, update_signal_status | feeds, spike filter, event engine, execution | stale signals, gates read at different times | a signal's status only moves forward |
| Detectors (`strategy/detectors/`) | levels and sweeps, moves, consolidations | on_tick, on_bar | StrategyEngine | a level replaced while its sweep is awaited; a loop that returns early; a range that holds the bar it is asked about | a sweep or a move is used up once and in time |
| FeedManager, adapters (`market_data/`) | adapters, status, callbacks, active feed, health task | register, unregister, start, stop, tick, health check | adapters, aggregator, heartbeat, broker | stop awaits inside a loop over live feeds; a second receive loop; a health loop that raises | no generator outlives a stop; stop ends |
| HeartbeatMonitor (`market_data/heartbeat.py`) | last tick, health | record, check | FeedManager | a beat between the verdict and the reset of its counters | a feed called healthy was heard of |
| Bar aggregator (`market_data/aggregator.py`) | bar under construction | add tick, complete | FeedManager | late ticks, forced completion | each tick is in one bar |
| AnomalyDetector (`market_data/anomaly_detector.py`) | price windows, recent anomalies | on_tick, reset | FeedManager | two detectors with thresholds of their own watch the same ticks | they agree on what is abnormal |
| EventEngine, calendar (`events/`) | calendar index, phase per event, handlers | check events, handle, adjust size | EventBus, StrategyEngine | announcements that raise and give up the check; an event added a second time while the first is tracked; times that do not compare | each phase is told once, in order, and in the end |
| Retry and Bulkhead (`core/retry.py`) | attempts; queue size and semaphore | call, execute | callers | one slot given back twice | no permit is lost; the counter tells of the waiters |
| Rate limiters (`core/rate_limiter.py`) | bucket, window, Redis window | acquire, allow, check, reset | API | charged by one limiter and refused by the other; off by one | at most the limit in a window; who keeps to the rate is admitted |
| AuditLogger (`core/audit_logger.py`) | last hash | log, verify | database | concurrent writers, restart | a reported mismatch has a cause; a deletion is reported |
| WebSocketManager (`websocket/`) | connections, their info, subscriptions | connect, disconnect, subscribe, unsubscribe, broadcast | endpoints, handlers | subscribe after disconnect; a send that fails during a broadcast | tables agree with each other and with what is served; whoever has gone is forgotten |
| Data retention (`core/data_retention.py`) | backup files | back up, clean up, restore; enforcement | database | a process that dies in a dump; clean-up that counts files | the latest backup remains |
| Application (`main.py`) | the wiring | start-up and shutdown | all | order of start and stop | no producer outlives its consumer |
| Redis client, database, health monitor (`core/redis_client.py`, `core/database.py`, `services/health_monitor.py`) | connection flag, failure counts | connect, ping, periodic check, health endpoint | each other | an outage noticed by a request that records nothing | a loss is reported; a client connects again |
| Secrets, middleware, configuration, logging, dashboard, database schema | caches and pools | I/O and formatting | — | — | — |

The hazards of this code, each at its line and with the properties that would
catch it, are in `PROJECT.json`.

## 2. Plan

The core came first because money moves there. Done:

1. **Orders, RiskManager, TradingSystem**: engine, broker, risk manager and API in one composition,
   checked and proved; **TradingBook**, the abstract specification it implements, proved as well.
2. **KillSwitchApi**: the second kill switch beside the system.
3. **CircuitBreaker**, **WebSockets**, **FakeSpikeFilter**, checked and proved.
4. **EventBus** and **EventDelivery**, the contract it implements.
5. **FeedManager** with the adapters; **HeartbeatMonitor**, **TickAggregator**, **PriceMonitors**.
6. **StrategyEngine**, **LiquiditySweeps**, **CorrelationMoves**, **Breakouts**, **EventEngine**.
7. **RateLimits**, **Bulkhead**, **RetryLoop**, **AuditTrail**, **Backups**, **ServiceHealth**.

8. Proofs for the modules of items 4 to 7: every invariant and action property the runs check, and the refinement of
   `EventDelivery`.

Left, in this order:

1. The spike filter and the detectors under the strategy engine, as one composition from tick to signal, with
   its invariants proved. Today a signal comes to `StrategyEngine` as an input.
2. An abstract specification for each of the composed areas that has none (a limiter that grants permissions, a feed that is
   on or off), and the refinements.

Modules that share no state are followed side by side in one run for each area (`MarketData`,
`SignalGeneration`, `CoreServices`), with one component chosen at first: their product would multiply states
and show nothing more.

## 3. What is modelled

### Orders, RiskManager: the data and its rules

`Orders.tla` translates `execution/models/order.py`, `position.py` and the fields of
`strategy/models/signal.py` that the trading path reads: records and the functions on
them (`NewOrder`, `Accepted`, `AddFill`, `Cancelled`, `Rejected`, `CanCancel`,
`NewPosition`, `RealizedPnl`, `ShouldTriggerStop`, ...). An order also carries the *phase*
of the broker task that works on it: `sending` (asleep in `submit_order`), `queued` (fill
task created), `filling` (asleep in `_simulate_fill`, price and quantity settled), `done`.

`RiskManager.tla` translates the gates of `check_position_open` and `check_order`, in the
order in which the code asks them, and the bookkeeping on `RiskState`. Percentages are compared
by cross-multiplication; money is integer. `cooldown` abstracts the cooldown
deadline to whether it has passed. The code tests for three consecutive losses
with a literal: the constant `CooldownLosses` stands for it so that an instance
can be smaller.

### TradingSystem: the composition

One step is what the event loop runs between two suspension points.

| Code | Action |
|---|---|
| `execute_signal` up to the latency sleep of `submit_order` | `ExecuteSignal` (`RejectOnDailyLoss`, `RejectOnDrawdown`, `AcceptSignal`) |
| the rest of `submit_order` | `SubmitOrder` |
| `_simulate_fill` with no price | `RejectOrder` |
| `_simulate_fill` up to its sleep; after it, with `_update_position` and all callbacks | `StartFill`; `ApplyFill` |
| `on_market_tick` with the engine's callback | `MarketTick` |
| the task it creates when a stop is hit | `RunCloseTask` |
| `cancel_order`, `close_position`, `close_all_positions` called through the API | `CancelOrder`, `ClosePositionCall`, `CloseAllCall` and `CloseNext` |
| the two resets of `api/risk.py` | `ResetKillSwitch`, `ResetDailyStats` |
| the end of the cooldown | `CooldownElapses` |

`get_account_balance` and the gates do not suspend (they contain no await that yields), so
a signal is checked and its order created in one step; the sleep comes after. The latency is
positive, as `main.py` configures it. `close_all_positions` is a loop that never yields: while
`closing` is not empty no other action is enabled, and its one-position steps are still
separate so that each is one call of `EngineClose`.

A refusal that leaves no trace (a cooldown, a size limit) is a stuttering step and has no action.
A gate that throws the kill switch has one.

### TradingBook: what a trader may rely on

`TradingBook.tla` is abstract: requests that were admitted, orders that are settled, a book of holdings and
a balance. An order settles once: to no effect, by opening a holding of at most what was asked for at a
price the market has quoted, or by closing an opposite holding it covers. A holding does not change in place; it
leaves as a whole, and only then does the balance move, by its profit. The actions are `Admit`, `Settle` and
`CloseAtQuote`. `TradingSystem` maps to it (`Asked`, `Settled`, `Holdings`): an order is settled in phase `done`, the book is the
broker's table of positions. That the broker ignores additions and partial closes, that a cancelled order may be filled
and that stops close at whatever is quoted later are all allowed by the book; that an
order fills twice, that a close moves money twice or that a tick changes a holding is not.

### KillSwitchApi

`api/system.py` keeps a flag of its own, which only a middleware of `main.py` reads.
`KillSwitchApi.tla` puts that flag beside `TradingSystem`; its two endpoints are the only
actions that touch it, and no action of the trading system reads it, as in the code.

### CircuitBreaker

Callers are `idle`, `running` or running a `probe`. Admission (the head of `call` with
`_update_state`), `_record_success`, `_record_failure` and `reset` are atomic: they run
under the lock and do not suspend. A result counts in the state of the moment it
arrives, as in the code. `EndUnrecorded` is a cancellation or an exception that is not an
`expected_exception`. Counters saturate at the thresholds they are compared with; nothing
else reads them. `unrecorded` is a history variable, read by properties only.

### WebSockets

`WebSockets.tla` models the `WebSocketManager`, the five endpoints of `api/websocket.py`
and the handlers that broadcast. Each client is one WebSocket object and one coroutine, whose
`awaits` is what it waits for: `accepting`, `sending` a reply, `receiving`. The constant `Endpoint` gives
the topic of a dedicated endpoint (`/ws/orders` and its like) or `AnyTopic` for `/ws/`.

| Code | Action |
|---|---|
| an endpoint up to `accept()`; `connect` after it, with the `subscribe` of a dedicated endpoint | `Connect`; `AcceptCompletes`, `AcceptFails` |
| `send_to_client` returning, successful or not | `ReplySent` |
| `receive_text` returning, up to the next reply | `Receive` (`HandleSubscription`, `HandleWithReply`, `HandleSilently`) |
| `receive_text` raising behind the last message; any error or cancellation; both with `finally` | `SeeDisconnect`; `EndpointEnds` |
| the task of a handler: targets settled, one send task each | `HandlerStep` (`Broadcast`) |
| `_send_safe` returning; failing, with its `disconnect` | `SendCompletes`; `SendFails` |
| the peer | `ClientSends`, `LinkDrops` |

A broadcast that fails takes its client out of the tables while its endpoint still serves it, and the
endpoint may then read a `subscribe` the client had sent before. That subscription has no entry in
the connection info and lasts until the endpoint's `finally` clause; the properties say that nothing
worse comes of it. A broadcast whose tasks have not started yet may send to a client
that has gone. A topic is a name the client chooses; what a message says is left out.

`main.py:147` calls `set_websocket_manager` without importing it. The module describes the
component as `main.py` means to wire it.

### EventBus and EventDelivery

`EventBus.tla` models `event_bus/bus.py`. A dispatch contains no await, but it walks the *live* lists of callbacks, first
those of the event's type, then the global ones, and a callback may subscribe and unsubscribe. So `CallNext` calls the
entry at the index and lets it react (`Reaction`: subscribe, unsubscribe itself or another, or nothing), and while `dispatch` is
active nothing else is enabled. A removal takes out the first entry equal to the callback (`PlaceOf`), and what lies behind it
moves up under the index. A coroutine function (not in `Sync`) only has a task made for it.

| Code | Action |
|---|---|
| `start`, `stop` | `Start` (a new queue), `Stop` (the loop is cancelled, the queue stays) |
| `publish`, `publish_immediate` | `Publish`, `PublishImmediate` |
| `_event_loop`: an event is there; none is; the walk; its end | `LoopTakes`; `LoopWaits`; `CallNext`; `EndOfList` |
| `subscribe`, `unsubscribe` and the `_all` variants | `Subscribe`, `Unsubscribe` |

The Redis loop iterates over the coroutine that `RedisClient.subscribe` returns and ends at once (`bus.py:210`), so no event ever
comes from Redis. `main.py:308` passes the arguments of `bus.subscribe` the wrong way round, which leaves an entry under a key no event has
and raises; the module describes what subscribers that call it rightly get.

`EventDelivery.tla` is the contract: members are handed events they asked for, each at most once, queued ones in
the order of the queue. It promises neither that an event arrives nor that an immediate one waits its turn. `DeliverySpec`
is the refinement.

### FeedManager and the adapters

`FeedManager.tla` composes `market_data/feed_manager.py` with `adapters/base.py` and `adapters/simulated.py`. Each receive loop
of a feed makes two generators, of ticks and of bars, which carry the number of their loop. `ticking` and
`barring` are the tasks alive, the newest pair is remembered by the feed. `feeds` is the manager's dictionary in its order of
insertion; `Adapters` are the objects that can be registered.

| Code | Action |
|---|---|
| `register_feed`, `unregister_feed` | `RegisterFeed`, `UnregisterFeed` |
| `start` (no real await) and the first step of each receive loop | `Start`; `ReceiveLoop` |
| `stop`: the flag and the health task; each feed and its wait; the end, also by the error of a dictionary that changed | `Stop`, `HealthLoopEnds`; `StopFeed`, `FeedStopped`; `StopEnds` |
| a round of `_health_check_loop`, which gets as far as `is_stale` of its first feed; `get_status` asked by an endpoint | `HealthCheck`; `GetStatus` |
| a tick, a bar; a generator that sees the flag down | `Tick`, `BarInterval`; `TickGeneratorEnds` |
| five seconds without a message | `GoStale` |

The round ends with a TypeError (`feed_manager.py:411` calls a property), so no stale feed is ever reconnected and no action
does so. `escaped` is a history variable: feeds that were unregistered while they ran, or were left running by a stop the
error cut short.

### HeartbeatMonitor, TickAggregator, PriceMonitors

`HeartbeatMonitor.tla` is the monitor of one feed (feeds share nothing): messages, errors and latencies of an interval
(`RecordMessage`, `RecordError`), the loop's verdict with the reset of its counters (`CheckHealth`, `Assessment`), the awaited callback for
an unhealthy feed (`CallbackReturns`), the task for a stale one (`RunStaleCallback`), `MonitorStart`, `MonitorStop`. Ready tasks run before
time goes on (`TimePasses`).

`TickAggregator.tla` has one builder for each interval. `ProcessTick` adds a tick, whose time is the feed's: it may lie before that of earlier
ticks (`MaxLate`) and ahead of the local clock (`MaxEarly`). It emits the bars it completes; `ForceCompleteAll` emits all and begins new ones at the local clock. A bar of
one tick is emitted like any other. Alignment is for a host in UTC.

`PriceMonitors.tla` puts the manager's own test of each tick (`_check_anomalies`) beside the `AnomalyDetector`: `OnTick` computes what each
of the two finds. Both keep one history for a symbol whatever feed a tick is from; the windows are sequences summed by `Total`. Standard deviations are compared as sums of
squares. `DetectorReset` empties one of the two.

### FakeSpikeFilter

`FakeSpikeFilter.tla` translates the filter that compares the feeds. `on_tick` runs without an await, so a
tick is one action: `FakeSpike` when the price jumps and no other feed has moved alike,
`OrdinaryTick` with its `CleanupPending` otherwise. `is_blocked` is asked by the strategy
engine before every tick; that it deletes an expired block changes nothing anybody reads, so `IsBlocked` is
an operator. A timestamp is modelled as the time left until it has expired
(`FilterTime` counts down); ticks carry the present time. The price history keeps the
`Window` prices the code reads of the fifty it stores; the same literal (5) says when a
history is long enough for a spike and how far back a confirmation looks. A percentage is compared
by cross-multiplication. That a spike is flagged at once, before other feeds have had their time to confirm it, is
the code's way and not the documented one ([below](#7-where-code-and-documentation-disagree)), and no property asks for it.

### StrategyEngine and the detectors

`StrategyEngine.tla` is the life of a signal: what a detector returns is stored, remembered in the bounded history and
given to a task (`DetectorSignals`, `ProcessSignal`), unless its confidence is too low; the task calls `execute_signal` later
(`ExecuteSignalTask`); a client of the REST API sets any status from any other (`UpdateSignalStatus`). `EngineStop` ends none of the
tasks. Nothing else ends a signal: there is no expiry.

`LiquiditySweeps.tla`: `OnBar` moves the levels and drops a sweep that has timed out, `OnTick` sweeps a level or reclaims
one. A level is an object, so the active sweep may be of a level that has been replaced. A reclaim deletes the sweep and
then raises (`liquidity_sweep.py:404` reads an attribute a level does not have); so it is an action without a signal. A tick
of another symbol cannot end a sweep, a bar of another symbol can.

`CorrelationMoves.tla`: `MarketTick` records a move of a correlated market, `WtiTick` holds the answer of WTI against the
moves not yet checked, oldest first, and returns at the first signal. Prices are abstracted to the sign of a change that
reaches its threshold; the coefficient to the set of markets for which it does.

`Breakouts.tla`: `NewBar` updates the consolidation, then asks the same bar whether it left it. `BreakoutsAreSeen` is what the
class promises; it fails (`doc_breakout`), and `NoBreakoutIsEverSeen` is what is proved of the code instead.

### EventEngine

`EventEngine.tla` is the calendar of `events/calendar.py` and the check loop of `events/engine.py`. A check looks for events that approach
(`Announce`), then for tracked ones that are over (`Complete`); each ends in an AttributeError, because `Event` is the calendar's class in
that file, so a check changes one event and gives up (`CheckEvents`); a completed event leaves the list of the tracked at the place where it is. Events are objects compared by value: a second one with the
id of the first takes its place in the calendar while the first is still tracked (`AddEvent`, `Tracks`). `SetStatus` is a result or a
cancellation, `CleanupOldEvents` takes an id out of each index once. An event that has begun is "post" from its first
moment and past the calendar's upcoming events, so the model never tells the active phase; the properties do not say so.

An event entered through the API (`ManualIds`) may have a time with an offset (`aware`). `get_events` compares every time in the
calendar with a naive clock before it looks at anything else, so while one such event is there (`Uncomparable`) a check raises and changes
nothing (`CheckFails`), and so does the clean-up that could remove it. Only a naive event of the same instant, which has the same id, takes
its place. The response to the call that enters or changes such an event raises too, after the change.

### RateLimits, Bulkhead, RetryLoop

`RateLimits.tla`: a check charges the bucket, then the window, and admits what both let through; it does not suspend, so it is one
step (`CheckRateLimit`). Times are ages: `recorded` and `admitted` say for each length of time, up to the window's, how many requests were counted and
admitted in it, so the state is finite; credit is counted in time units. `ResetLimits`
starts both afresh.

`Bulkhead.tla`: a call is refused, runs at once, or waits (`ExecuteRefused`, `ExecuteAtOnce`, `ExecuteWaits`); it can fail inside the function and be
cancelled in the queue, before or after it was given a permit (`FunctionEnds`, `FunctionFails`, `CancelWaiting`, `CancelGranted`). The semaphore is asyncio's: a release wakes the first waiter, which still has
to run (`granted`, `JobResumes`); `HandOver` is that. The queue counter goes down a second time for a function
that fails and not at all for a cancelled waiter.

`RetryLoop.tla` is `retry_with_backoff`: `RetryBegins` with any number of attempts, zero included, calls that return, fail or raise what is
not retried, and the sleep between two of them.

### AuditTrail, Backups, ServiceHealth

`AuditTrail.tla`: `LogEntry` writes a row that carries the hash this logger wrote last; `LogFails` loses the row and keeps
the hash; `RestartLogger` forgets the hash; `DeleteRow` is whoever tampers with the table; `VerifyChain` reports the `LinkErrors` from any row on. A verification that begins in
the middle of a life expects no hash before its first row and reports a mismatch there although nothing happened to it
(`audit_logger.py:234-237`); the property makes that exception and no other. `life`
and `nth` number what a logger writes, for the properties only.

`Backups.tla`: a directory is a set of files named by the second they were begun in. A dump succeeds, fails (the file is unlinked) or dies with the process and
leaves its beginning (`CreateSucceeds`, `CreateFails`, `DiesInDump`); `CleanupOldBackups` keeps those with few enough files listed before
them (`ListedBefore`), newest first.

`ServiceHealth.tla`: the monitor's loop, the health endpoint and the one Redis client they share. One failed ping marks
the client as lost; a lost client is not pinged and nothing connects it again.

### The compositions

`MarketData`, `SignalGeneration` and `CoreServices` take several of these components and follow one of them in each behaviour
(the variable `followed`, `service` in `CoreServices`; it never changes). The components of one composition share no state and
call nothing of each other, so their interleavings add nothing.

## 4. The runs

| Run | Configuration | Shows |
|---|---|---|
| `trading_safety` | two symbols, two orders, three ticks, `Spec` with the API | statuses, fills, positions and prices agree in every interleaving; the system implements `TradingBook` |
| `trading_bot` | two symbols, three orders, three ticks, `BotSpec` without the API | the risk manager's beliefs agree with the book; after its kill switch the exposure only runs down |
| `trading_live` | one symbol, two orders, two ticks, `FairSpec` | orders settle, stops are honoured |
| `event_bus` | three subscribers, three events of two types, two runs of the bus | what is skipped, what is lost, and that nothing else is; the contract is implemented; a running bus empties its queue |
| `market_data` | feed manager with two feeds, aggregator, heartbeat, watchers, spike filter | generators end with their feed but for two ways out, and stop ends; no tick is lost or out of order; verdicts are recent; detectors agree; a symbol is blocked for its own spikes |
| `signals` | strategy engine, three detectors, event engine | a signal is executed once; sweeps and moves are used up in time; events are told in order |
| `core_services` | breaker, limiter, bulkhead, retry, audit, backups, health, websockets | counters and tables agree with what they tell of under failures, cancellations, restarts and lost links |
| `doc_*` | the smallest instances that show it, or those of `signals` | five disagreements, [below](#7-where-code-and-documentation-disagree) |

A component's invariant is the conjunction of its type invariant and of the named parts in the next table, so that a
reader of a counterexample sees which part broke.

| Property | Parts | What could go wrong |
|---|---|---|
| `StatusMatchesFills`, `FinalStatusIsFinal` | | the two halves of a fill with a cancellation in between |
| `PositionBackedByFill` | | a position and the order that opened it, whatever was added or closed since |
| `TradedSymbolsArePriced` | | `close_position` returns an unpriced position without closing it and its callers report it closed |
| `BookSpec` | refinement of `TradingBook` | an order that takes effect twice, a holding that changes in place, money that moves without a holding that leaves |
| `DailyPnlIsRealized`, `OpenCountCoversPositions` | | two ledgers kept by different components over callbacks |
| `HaltRunsDown` | | orders admitted before the switch still open positions (the code lets them), and nothing else does |
| `OrdersSettle`, `StopsAreHonoured` | | a task that ends early; a close task that runs later and closes whatever is there |
| `TablesAgree` | `UnservedLeaveNothing`, `IndexesAgree`, `ServedAreConnected` | three tables and the life of an endpoint, changed under it by the broadcasts of others |
| `SubscriptionsAreOwn`, `DroppedAreForgotten` | | a subscription nobody asked for; a client without a link that stays or comes back |
| `BusInvariant` | `SkippedOnlyByRemoval`, `QueuedInThisRun` | the live list changes under the index; events of an earlier run |
| `DeliverySpec`, `QueueDrains` | refinement of `EventDelivery`; liveness | twice, out of order, to strangers; a loop that waits beside a full queue |
| `FeedInvariant` | `GeneratorsAreCancelled`, `ListenersKnowConnection` | two generators on one feed, or one after a stop; a status changed behind the listeners' back |
| `FeedProgress` | `SilenceEnds`, `StopCompletes` | a feed that is silent for good; a stop that hangs |
| `BarInvariant` | `TicksAreConserved`, `BarsFollowInTime` | late ticks and forced completion |
| `HeartbeatInvariant` | `HealthyIsRecent` | a verdict that outlives what it was founded on while a callback is awaited |
| `WatchInvariant` | `WatchersAgree` | two sets of thresholds and two notions of the previous tick |
| `BlocksHaveCause`, `OnlyPendingSpikesHold` | | one deque and one clean-up for all symbols, run by ticks of any of them |
| `StrategyInvariant` | `IndexAndHistoryAgree`, `ExecutedOnce` | repeated ids, signals made active again, a bounded history |
| `SweepInvariant` | `ActiveSweepIsOfALevel`, `SweepsWaitNoLongerThanTimeout` | a level replaced under its sweep; a clean-up run by the bars of other symbols |
| `MoveInvariant` | `PendingMovesAreInTime`, `SignalFollowsItsMove` | a loop that returns with moves unmarked |
| `EventInvariant` | `PhasesInOrder` | a phase told twice, or completion before approach, when a check is given up or an object replaced |
| `EventProgress` | `EventsAreAnnounced`, `TrackedEventsComplete` | events behind one that raises; calendars with an aware time are excused, which is the finding of `doc_event_offset` |
| `BreakerInvariant` | `OpenIffTripped`, `HalfOpenIsProbing`, `NeverWedged` | results of calls let through in one state arrive in another |
| `BreakerProgress` | `ProbingEnds`, `OpenTriesAgain` | a half-open breaker without probes; a timeout restarted by late failures |
| `RateInvariant`, `SpacedRequestsAreAdmitted` | `AdmittedWithinLimit`, `BurstsAreBounded` | one limiter charges what the other refuses |
| `BulkheadInvariant` | `PermitsAreKept`, `CountIsOffByFaults` | a permit lost to a cancellation; a counter given back twice |
| `RetryInvariant` | `ExhaustedAfterAll` | an attempt too few, a sleep too many |
| `AuditInvariant` | `MismatchesHaveCause`, `DeletionsAreSeen` | failed writes, other writers, restarts; a deletion nobody sees |
| `BackupInvariant` | `LatestBackupRemains` | clean-up and failed dumps against the last good one |
| `LossIsReported` | | a request marks the client as lost and records nothing |

**Bounds of the trading runs.** Two orders are the fewest that can be in flight together, oppose each
other, or overshoot a position limit; two symbols the fewest for `close_all` to be a loop and for one
position to be touched while another is closed. Three ticks price both symbols and
then hit a stop, or price one, hit its stop and move again before the close task runs. `LowAndHigh`
has one price on either side of the stops. Signals cover both sides, one of them of quantity two, so that
partial fills, additions, partial closes and full closes occur. Limits on losses,
drawdown, trades and positions are low enough for each gate to be reached. In the bot run a third order and a position limit
of four let a halted system see its drawdown recover while a position is open and an order could still be
admitted, which is where a hole in the halt would show. `MaxTicks` is the only bound in a guard; the number of orders is
bounded by `OrderIds`, which are interchangeable (symmetry) in the safety and bot runs. Liveness runs use no symmetry.

**Bounds of the others.**
- *Websockets*: two broadcasts let one fail while the other still holds the same client, and two messages
  (`MaxMessages`) let a client subscribe, or subscribe and unsubscribe, after that.
- *Event bus*: two plain subscribers of one type let each remove the other on either side of the index, and a coroutine
  function on the global list shows the step from one list to the other; three events let one be queued behind
  another while a third is immediate; a second run (`MaxRuns`) meets the queue of the first.
- *Feeds*: one feed registered twice and one once (`MaxRegistrations`) make a stop loop whose dictionary changes; a second receive
  loop (`MaxLoops`) comes from a feed that was left running.
- *Market data*: bars of two and three units do not divide each other, ticks up to two units late (`MaxLate`) fall into a bar before
  the last, ticks one unit early (`MaxEarly`) into one a forced completion has not come to. A silence threshold of two is shorter than the check interval of three. Prices differ by 5.2 %, spreads, distances
  and volumes lie on both sides of the thresholds that matter; three prices are the fewest for a deviation. In the
  spike filter, a deque of two lets spikes of one symbol push out those of another while a block is in force, a block of two steps
  outlasts the timeout of one, and two prices a quarter apart make a jump that the other feed confirms or not.
  `MaxTime`, `MaxTicks`, `MaxCount` and `MaxStaleCalls` are bounds in guards or saturations.
- *Signals*: two signals compete for a history of one (`MaxHistory`); a repeated id and a second activation need no more. Two symbols let the
  bars of one drop the sweep of the other; a wider bar replaces a swept level. A market that moves with WTI and one that moves against it,
  two moves at most in the deque and four moments let a move be too old, pushed out, or left behind by an early return. Eight bars: four shapes, two of which
  leave any range of the others, with and without volume. Two events at the same moment with windows of
  different lengths, one of the schedule and one entered by hand (`ManualIds`), share the checks; two objects (`MaxObjects`) let one replace the other, or a naive one meet an aware one. `MaxSweepTime`, `MaxMoveTime`, `EndOfTime` end the clocks.
- *Core services*: the breaker's three callers let a late result of a closed period meet two probes. A burst of two, three requests in six units. Four
  jobs for two permits and two places in the queue, so one is refused; two failures and a cancellation (`MaxFailures`, `MaxCancels`). Up to four attempts reach the
  cap of the delay. Two loggers that start twice and four rows (`MaxRuns`, `MaxEntries`) put a restart, a failure and another writer before one mismatch. Three seconds
  (`MaxSeconds`) hold a good backup, a dead one and a third.

**Deadlock** is checked in the trading runs and in `signals`: there a caller or an operator can always act. It is
not in `core_services` (a WebSocket is used once: when every client has gone there is nothing left to do), `event_bus` (events and
runs are finite and a stopped bus is at rest) and `market_data` (ticks end with the clock, and when the receive loops are used up a
stopped feed manager is at rest).

## 5. Fairness

`TaskFairness` (trading): the event loop runs every task that is ready and every `asyncio.sleep` ends, so
each order's task and each scheduled close is weakly fair, and so is the loop of
`close_all_positions`. Signals, ticks, the operator and the end of a cooldown are the
environment's and have no fairness. The model lets ready tasks run in any order, which
includes the FIFO order of the loop.

The breaker's `Fairness`: the protected function returns some day, with any result; time passes; and
each caller goes on calling. Without the last, an open circuit has no reason to change: the code
changes its state only when called. Nothing forces a reset.

The websockets' `SocketFairness`: each accept and each send returns or raises, and each endpoint reads on; these are
I/O operations the event loop completes or times out. Whether a link drops, a client
writes or a handler broadcasts is left open.

The bus: `WF(LoopStep)`, the loop task runs when it is ready. Nobody has to publish, start or stop.

`FeedFairness`: the steps of `stop` once it was called, the first step of each receive loop, and the ticks of a running simulated
feed, whose generator sleeps a bounded time. Nobody has to start or stop the manager.

The filter's `FilterFairness`: time passes. No symbol need tick again: a block runs out by the clock alone.

`EventFairness`: the check loop wakes up, and time passes.

`HealthFairness`: the monitor's awaits time out, so its loop goes on. Redis may come and go as it likes.

## 6. What is proved

Every safety property the passing runs check, invariant, action property or refinement, is also a theorem, for all
values of the constants that satisfy the named assumptions of its module (`OrdersAssumption` and its kin: finite sets of
symbols, orders, callers and jobs, positive prices, quantities and lengths, a slippage below 100 %). The assumptions ask for nothing
the configuration of the program does not give, and TLC evaluates them in every run.

| Theorem | Module | Statement |
|---|---|---|
| `TypeCorrect` | `TradingSystemProofs` | `Spec => []TypeOK` |
| `StatusAgrees` | | `Spec => []StatusMatchesFills` |
| `PositionsBacked` | | `Spec => []PositionBackedByFill` |
| `PositionsPriced` | | `Spec => []TradedSymbolsArePriced` |
| `FinalStatus` | | `Spec => FinalStatusIsFinal` |
| `DailyPnlRealized` | | `BotSpec => []DailyPnlIsRealized` |
| `OpenCountCovers` | | `BotSpec => []OpenCountCoversPositions` |
| `HaltIsFinal` | | `BotSpec => HaltRunsDown` |
| `ImplementsBook` | `TradingBookProofs` | `Spec => BookSpec` |
| `TablesStayInAgreement` (and one for each part) | `WebSocketProofs` | `SocketSpec => []TablesAgree` |
| `OwnSubscriptions` | | `SocketSpec => SubscriptionsAreOwn` |
| `BusSafe` | `EventBusProofs` | `Spec => []BusInvariant` |
| `BusImplementsDelivery` | | `Spec => DeliverySpec` |
| `BarsSafe`, `HeartbeatSafe`, `WatchersSafe` | `MarketDataProofs` | `AggregatorSpec => []BarInvariant`, and so on |
| `FilterTypeCorrect`, `OwnBlocks` | | the filter's types and `FilterSpec => BlocksHaveCause` |
| `FeedsSafe` | | `FeedSpec => []FeedInvariant` |
| `MarketDataSafe` | | all of these of the composition |
| `StrategySafe`, `SweepsSafe`, `MovesSafe`, `BreakoutsNeverSeen`, `EventsSafe` | `SignalGenerationProofs` | `EngineSpec => []StrategyInvariant`, and so on |
| `SignalGenerationSafe` | | all five of the composition |
| `BreakerAgrees` (and one theorem for each part) | `CoreServicesProofs` | `Spec => []BreakerInvariant` |
| `LimitsHold`, `SpacedAdmitted` | | `RateSpec => []RateInvariant`, `RateSpec => SpacedRequestsAreAdmitted` |
| `BulkheadSafe`, `RetrySafe`, `TrailSafe`, `BackupsSafe` | | `BulkSpec => []BulkheadInvariant`, and so on |
| `CoreServicesSafe` | | all of these of the composition |

`CollectionLemmas` holds what the proofs need of finite sets and sequences and the libraries do not state: a finite set of
integers has a greatest and a least element, what `Append`, `RemoveAt`, `SubSeq` and concatenation do to the elements, their order
and the length, that a sequence without repetitions is as long as its range is large.

**The trading system.** The inductive invariant is `IInv == TypeOK /\ StatusMatchesFills /\
PositionBackedByFill /\ TradedSymbolsArePriced`; no conjunct is inductive alone. That a
fill produces a valid position needs the order's type and `StatusMatchesFills` (the task in
progress fills at least one and no more than was ordered); that a position stays backed
needs that the order behind it is `done` and that no action moves a done order's fill; that a fill finds a
price needs `TradedSymbolsArePriced`, whose second conjunct (orders in phase `filling`)
exists for the step that opens a position. `BotStepKinds` sorts the steps of `BotNext` by
what they do to the book; the two ledger invariants and `ExposedShrinks` (the exposure can grow only by an
admitted order, which the switch forbids) rest on it.

**The refinement.** `ImplementsBook` needs one more invariant, `Quoted`: every last price and every price a fill has settled on was quoted by the
market, and every order goes back to a signal. `QuotedStep` proves it beside `IInv`. Then there is one lemma for each kind of step on the book:
`AcceptOnBook` (an admission), `FillOnBook` (a settlement, in its cases), `DropOnBook` and `CloseOnBook` (a holding leaves), `TickOnBook` (a
tick changes unrealized values only, so the book stutters). `BookStep` puts them together, action by action.

**The websockets.** The parts of `TablesAgree` are inductive together. The proof works client by client (`Good`): each method of
the manager changes one client's row of each table (`RegisterDoes` and its kin), every other row stays (`SameGood`).

**The event bus.** `BusIInv` says of the lists that each holds its own subscribers once (`ListsOK`), and then what makes the order
right. Call *gone* what was handed to somebody or is being dispatched. Everything gone was queued before all that is in the queue,
and differs from it; everything handed out was queued before the event of the dispatch; everything was sent (`OrderOK`). Nobody at or behind the index, and
no global subscriber while the list of the type is walked, was handed the event yet (`NotYetHanded`). An event is published once,
so what is new comes after all that was sent (`PublishStep`). The heart is `CallNextStep`: a callback leaves the list as it was, appends a newcomer, or
takes the entry at `k` out (`ReactionChanges`). In the last case the entries behind `k` move up by one: none that was to be called gets in front of
the index except the one that slides under it, and then `left` has grown, so the skipped entries inject into those skipped before and one more
(`SkippedOnlyByRemoval`). `DeliveryStep` maps the steps: `Publish` to `Publish`, `CallNext` to `Deliver` with whatever its reaction does to the members, `Subscribe`
and `Unsubscribe` to `Join` and `Leave`; all others leave log, members and received alone.

**Market data.** `BarIInv` says of each interval (`IntervalOK`) that its bar starts at a multiple of the interval that has come, after the last
one emitted or with it if that was forced, and that the ticks emitted and those in the bar are all that came; each step is proved for one interval and then
for all. `BeatIInv` adds that a callback is awaited for an unhealthy feed only: while one is, time passes that the sleep
does not measure, and no "healthy" verdict may age in it. `WatchIInv`
adds that both monitors remember the same last price while the detector has any; with it the manager's thresholds imply the detector's by arithmetic on products of
prices (`TotalNat`: the sum of a window, a recursive function, is a natural number, by its least counterexample). `OwnBlocks` needs of the filter only its types.

**Feeds.** `FeedIInv` says of each feed that has not escaped (`FeedOK`): while it runs it is registered and the manager has not stopped; its generators are those of its newest
receive loop; a loop that has not begun yet has none; it is connected only while it runs or `stop` waits for it. Of all feeds (`StatusOK`): the stored
status is healthy only if the feed is connected, and disconnected only if it is not, whoever stored it.

**Strategy, detectors, events.** `EngineIInv`: the history has no signal twice and only stored ones, `generated` counts the stored. `SweepIInv`: a
level and the sweep of it agree in price and time or the level lies further in; the time of a sweep lies between its symbol's last tick minus the timeout and
that tick. `MovesIInv`: the moves lie in order of time and none is newer than the clock, so those
behind an early return are at least as young as the one it answered. `BreakoutIInv` needs only that the window holds the newest bar (`NewestKeeps`); the theorem shows that the finding of `doc_breakout` does not hang on its bounds. `EventIInv`: what is scheduled was told
nothing, what is tracked was told to approach and nothing else, and is tracked once; an event in the calendar has an index. A check that fails changes none of it.

**The breaker.** `TypeOK`, `OpenIffTripped` and `HalfOpenIsProbing` are inductive together. `NotWedged` adds
`ProbesAccounted`: while every end is recorded, each probe handed out in this half-open period is
running or among the successes. The count of running probes is a cardinality, hence the lemmas on
`Probes`.

**Limiter.** `RateCounts` states for every length of time, up to the window's, that the credit there is now and the price of the requests admitted in that
time are together at most a full bucket and what is regained in it, and that the window counts at least what was admitted. `RateSpacing`, for
`SpacedAdmitted`: a bucket charged less than a token's time ago was asked then or is full, a time without requests records none, and
requests as far apart as the rate wants are recorded at most at the rate, whichever part refused them.

**Bulkhead, retry, audit, backups.** `BulkIInv`: the line of waiters is the set of the waiting, each once; permits free, running and granted add up; the counter lies between the queued
minus the failures and the queued plus the cancellations. `RetryIInv` counts calls and naps in each phase. `AuditIInv` speaks of all rows ever written, deleted or not: a row that continues another carries its hash
(`RowsLinked`), and what a logger remembers is the hash of its latest row (`LoggersAgree`). `BackupIInv`: no file is newer than the clock, and while the last success is not spoilt it is the newest, so a
clean-up that keeps anything keeps it.

**Only model-checked:** liveness, that is `OrdersSettle`, `StopsAreHonoured`, `DroppedAreForgotten`, `QueueDrains`, `FeedProgress`, `OnlyPendingSpikesHold`, `EventProgress`,
`BreakerProgress` and `LossIsReported` (the prover has no fairness reasoning); and the type of `peakBalance`, a sum over a set. `ServiceHealth` promises
only something that happens in the end, so nothing of it is proved.

## 7. Where code and documentation disagree

Each of these is a run that TLC ends with a counterexample.

| Run | Documentation | Code |
|---|---|---|
| `doc_max_positions` | `risk/models.py:33` maximum concurrent positions | orders in flight are not counted at admission (`risk/manager.py:96`) |
| `doc_api_halt` | `api/system.py:228` prevents new order submissions | no part of the trading path reads the flag (`api/system.py:275`) |
| `doc_redis_reconnect` | `core/redis_client.py:5` automatic reconnection on failures | nothing connects a client that failed one ping (`core/redis_client.py:194`) |
| `doc_breakout` | `strategy/detectors/breakout.py:57-59` identify a range, detect a breakout beyond it, confirm with volume | the range holds the bar it is compared with (`strategy/detectors/breakout.py:148`) |
| `doc_event_offset` | `events/engine.py:25` monitors economic events; `api/events.py:89` scheduled time in ISO format | a time with an offset makes every check raise (`events/calendar.py:124`) |

The models follow the code in the following too, and no run is spent on them. What the code does
is stated by properties that hold in spite of it, or makes a branch unreachable.

*Trading.* Every tick on an open position counts as an opening (`execution/engine.py:305`), so `open_positions` covers the positions and does
not count them. A close through the engine is recorded twice (`execution/engine.py:230`). A fill asleep overwrites a cancellation
(`execution/brokers/paper.py:184`), so an order answered as cancelled may be filled. `per_trade_risk` is tested at the signal's price and the
order filled at the market's (`execution/brokers/paper.py:153`).

*Market data.* The health loop calls the property `is_stale` as a method (`market_data/feed_manager.py:411`) and never gets past it.

*Strategy.* The spike filter is documented to wait for other feeds (`strategy/detectors/fake_spike_filter.py:22-23`, 45-49: "If other feeds
don't show similar move within timeout, flag as fake"); it flags and blocks at once, and never looks at a confirmation that comes within the timeout. An expired spike stays in the deque and renews its "temporary" block at every tick (`strategy/detectors/fake_spike_filter.py:294`). A
reclaimed sweep raises instead of signalling (`strategy/detectors/liquidity_sweep.py:404`); with the breakouts never seen,
only the correlation detector can emit a signal. Signals never expire.

*Events.* The callbacks' announcements end in an AttributeError (`events/engine.py:182`). The phase
"active" is documented (`events/models.py:202`), has a status and a handler (`events/engine.py:191`), and `get_current_phase` never returns it: callbacks hear of
an event before it and after it.

*Bus and wiring.* `main.py:220` and `main.py:275` read fields of `settings.features` that do not exist; an annotation at `market_data/aggregator.py:283` uses `Any`, which
is not imported, so the module does not load; `strategy/engine.py:139` calls a `to_dict` that `FeedAnomaly` does not have, so an unconfirmed spike raises out of `on_tick` when there is a bus.
The Redis loop ends at once (`event_bus/bus.py:210`); `main.py:308` swaps the arguments of `subscribe`; `main.py:147` calls a name
that is not imported; `core/redis_client.py` names a class in an annotation before it defines it.

*Core.* A verification of the audit chain from a row on reports its first row (`core/audit_logger.py:234`) unless a life begins there. A half-open breaker whose probes are cancelled, or raise what is not an `expected_exception`, hands out no further call and stays half-open
(`core/circuit_breaker.py:121`); `ProbingEnds` and `NeverWedged` make the exception explicit. A reachable database fails its health check
(`core/database.py:278` awaits an integer), so readiness is never reported. On PostgreSQL timestamps come back with a zone, so the hash `verify_chain`
computes of a row is not the one that was written; the model speaks of the links only. Retention enters an async generator as a context
manager (`core/data_retention.py:142`), which raises.

## 8. What is left out

- **Of the trading path:** the order rate limit (`_recent_orders` is never appended to, so the gate never
  closes); `total_exposure`, `status` and the breach log, read by nothing but status reports; publication
  on the event bus and to websockets; market and stop orders, trailing stops, take-profits that nothing
  acts on; the spread and slippage checks, which have no caller. A branch kept though
  unreachable: `EngineClose` without a price (`TradedSymbolsArePriced` is the reason).
- **Of the feeds:** the hooks `inject_*` and price generation.
- **Of the events:** the generation of schedules, which is date arithmetic; adjusted sizes and trading windows, which nothing
  that trades reads.
- **Of the core services:** the distributed limiter and the middleware that constructs it in production (`main.py:414-420`,
  `core/security_middleware.py:276`): it calls a pipeline method `RedisClient` does not have (`core/rate_limiter.py:282`), so every request ends in the handler that admits it;
  enforcement of retention, which cannot run; statistics and registries, which look objects up.
- **Numerics:** decimals are integers, slippage a whole percentage rounded down, confidence scores and the correlation
  coefficient sets of outcomes.
- **Wrappers** around PostgreSQL and Vault, request middleware, dashboards, endpoints that read, configuration, logging
  and the database schema: I/O and formatting with no state the properties could speak of.
