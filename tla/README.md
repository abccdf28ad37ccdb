# TLA+ models of the Python bot SDK runtime

This directory holds TLA+ models of `src/bots/python/sdk/`, the runtime that drives
a trading bot through cycles of control-message handling, market-data polling,
strategy invocation, order publication and heartbeats until it is stopped.
TLC checks them. Every definition is translated from the Python source. The
source line ranges are recorded under `"map"` in `PROJECT.json`.

## 1. Inventory

### Components

| Component | Source | State | Operations |
|---|---|---|---|
| **BotRuntime** (orchestrator) | `runtime.py` 36-190 | `_stop_event`, `_stop_reason`, `_shutdown_future`, `_signal_handlers_installed`, `stats`, locals of `_main_loop` (`next_heartbeat`, `tick_started`) | `run_forever`, `stop`, `_main_loop`, `_publish_intents`, `_drain_control_messages`, `_emit_heartbeat`, `_shutdown`, `_install_signal_handlers`, `_wait_for_shutdown` |
| **RuntimeConfig** | `runtime.py` 15-22 | poll / heartbeat interval, max consecutive errors, graceful timeout (unused by the code) | none (immutable) |
| **RuntimeStats** | `runtime.py` 25-33 | ticks, orders_published, consecutive_errors, last_error, last_heartbeat_at | written only by the loop |
| **BotBase** (lifecycle contract) | `base.py` | `config`, `secrets` (copies of the caller's mappings), `ctx`, user state | `__init__`; hooks `on_start`, `on_tick`, `on_event`, `on_stop`, `health` |
| **BotContext** (wiring) | `context.py` | ids, five connectors (control and heartbeat optional), logger, `extras` dict | `with_logger` (shallow clone, extras copied), `add_extra`, `get_extra` |
| **Connectors** | `connectors.py`, which is not among the sources | queues and lists in the in-memory variants, Redis clients | `fetch`, `publish`, `receive`, `put` |
| Package exports | `__init__.py` | none | none |

### How the components interact

A single asyncio task runs `run_forever`. The strategy's hooks are called
through `ensure_async`. Every connector call is an `await`, and so is the
interruptible sleep `wait_for(_stop_event.wait(), timeout)`. At each `await`,
other tasks of the same event loop may run. Other tasks touch the runtime only
by calling `stop(reason)`:

- external callers;
- the tasks that the SIGTERM/SIGINT handlers create once
  `_install_signal_handlers` has run.

The loop also calls `stop()` on itself in two places:

- the control drain, when a `stop`/`bot.stop` command arrives (line 150);
- the error escalation (line 116).

`stop()` sets the event, or leaves the reason alone if the event is already
set. It then awaits `_shutdown_future`, a task that waits on the same event.

### What is hard

- **Interleaving of stop requests.** Four sources race: a caller, a signal, a
  stop command and the escalation. Only the `is_set()` test in `stop()`
  decides which reason wins.
- **Stop observed between awaits.** The loop tests the event only in three
  places: the `while`, after the drain, and in the sleep. A stop that arrives
  during a fetch still lets that tick publish, but no new fetch may start.
- **Failure paths.** Each of these raises from a different place, and each ends
  differently:
  - `on_start`: before the `try`, so there is no shutdown;
  - fetch, `on_tick` or publish: counted and escalated;
  - `on_event`: ends the loop;
  - `health` or the heartbeat publish: ends the loop;
  - `on_stop`: swallowed.
- **Self-waiting.** The loop awaits `stop()`, which awaits a future. If that
  future waited for the shutdown, the loop would wait for itself forever.
- **Time.** The heartbeat schedule (`next_heartbeat = now + interval`) and the
  poll sleep (`poll_interval - elapsed`) depend on how long connector calls
  take.

### Properties that make each component correct

- BotRuntime:
  - the first stop reason wins (part of the lifecycle refinement);
  - a stop is acted on even while control messages keep arriving (spec.md §5);
  - no cycle starts after a stop, and the loop observes a stop once the
    connector call in flight returns (spec.md §5);
  - escalation happens at exactly `max_consecutive_errors`;
  - every stop latched after `on_start` returned leads to exactly one
    `on_stop` call and to the end of `run_forever`;
  - failing bots keep sending heartbeats;
  - the lifecycle moves strictly forward (Starting → Running → Stopping →
    Stopped);
  - `stop()` callers are released only after shutdown, and none gets an
    exception it did not cause (spec.md §4.1, §8);
  - the reason logged at shutdown is the one `on_stop` got;
  - `orders_published` counts what was forwarded (spec.md §4.1);
  - handler failures do not lose a stop command (spec.md §4.1).
- BotBase: the bot's `config` and `secrets` are its own; writes by the
  embedding process after `__init__` do not reach them, nor the other way.
- BotContext: the clone made by `with_logger` has its own `extras`, while the
  connectors stay shared.
- Connectors: the control queue is FIFO, and each message is received once.

## 2. Plan

Modules, in order of importance:

1. **`BotRuntime.tla`** (done). The orchestrator task, the stop callers
   (external and signal), the control-channel producer and the clock. The
   hooks and connectors are the environment.
2. **`RuntimeLifecycle.tla`** (done). The abstract lifecycle: phases and the
   stop latch. `BotRuntime` is shown to implement it through
   `INSTANCE ... WITH` (`LifecycleRefined`).
3. **`MCBotRuntime.tla`** and its cfgs (done).
4. Second sitting (done):
   - `_shutdown` split at the `await on_stop`, with the logged reason as a
     variable, which shows the stale read at line 173;
   - cancellation of the `run_forever` task and of `stop()` callers, with the
     shared `_shutdown_future` task as a variable;
   - liveness of the abstract lifecycle under the runtime's fairness. It was
     removed later: it added nothing to `StopLeadsToShutdown` and
     `LifecycleRefined`, and its mutant was caught only through the
     `MaxCycles` bound on the sleep's timeout;
   - a run without control channel or heartbeat sink and with
     `max_consecutive_errors = 1`.
   An empty control message (`if not message`) was left out: spec.md §2
   defines a message as having a `type` field.
   Third sitting (done):
   - a control producer that streams messages without end
     (`ControlStream`), which shows that the drain starves a stop;
   - `FirstReasonWins` removed. It only restated `stop()`'s guard, and
     `LifecycleRefined` implies it.
   Fourth sitting (done):
   - `StopObservedAfterInFlightCall`, which shows that a stop made during
     `fetch()` still has the tick's orders published;
   - `BotBase.tla`, which models `BotBase.__init__`.
5. **`BotContext.tla`** (done). Contexts as references to `extras` dicts,
   with `with_logger`/`dataclass_replace` copying the dict and sharing the
   connectors. Property: writes through one context's `add_extra` are never
   seen by `get_extra` on a clone.
6. **`ControlChannel.tla`**: not written. `connectors.py` is not among the
   sources, and spec.md says of the channel only `receive(timeout) ->
   Message-or-empty`. The FIFO that `BotRuntime` keeps as a script prefix
   (with the optional stream) is all the spec supports.

## 3. The modules

### `BotRuntime.tla`

The variables correspond to the code as follows:

| Variable | Code |
|---|---|
| `pc` | where the `run_forever` task is or is suspended: `init`, `drain` (awaiting `receive`/`on_event`), `drain_stop` (in the drain's `await self.stop`), `fetch` (awaiting `fetch`/`on_tick`), `publish` (in `_publish_intents`), `error_stop` (in `await self.stop("max-errors")`), `hb` (in `_emit_heartbeat`), `sleep`, `shutdown`, `done`, `raised` |
| `stopSet`, `stopReason` | `_stop_event`, `_stop_reason` |
| `future` | `_shutdown_future`: none yet, pending (created, not yet run), done, or cancelled |
| `ticks`, `ordersPublished`, `consecErrors`, `lastError` | `RuntimeStats` (`lastError` records only whether an error was set) |
| `pending`, `pubCount` | the iterator and `count` of `_publish_intents` |
| `hbLeft`, `elapsed` | `next_heartbeat - now` and `now - tick_started`, in units of 0.05 s, clipped so the state space stays finite |
| `ctrlSent`, `ctrlRead` | the control channel as a prefix of `CtrlScript`; with `ControlStream`, one more `StreamMsg` queued after it (`ctrlSent = Len(CtrlScript) + 1`), which `Drain` takes off again |
| `forwarded` | the intents the order publisher accepted |
| `caller` | each `stop()` caller: idle, waiting, returned, cancelled (its own task was cancelled) or aborted (it got the `CancelledError` of the shared future) |
| `onStopCalls`, `onStopReason` | what `on_stop` saw |
| `loggedReason` | the reason `_shutdown` logs after `on_stop` returned |
| `raised` | the exception leaving the loop, which `run_forever` re-raises after `finally` |

Each runtime action is the code between two awaits:

- `Start`;
- `Drain` (one `receive` and the handling of its message);
- `DrainStopReturns`;
- `Fetch`;
- `Publish` (one iteration, or the return and the stats update);
- `PublishFails`;
- `TickFailed` (the `except` branch, shared by `Fetch` and `PublishFails`);
- `ErrorStopReturns`;
- `Heartbeat`;
- `Wake` (the end of `wait_for`);
- `Shutdown` (the call of `on_stop`, up to its `await`);
- `ShutdownLog` (after `on_stop`: `_stop_reason` read again for the log).

`DrainStopReturns` and `ErrorStopReturns` also take the case where the
awaited `_shutdown_future` was cancelled. Its `CancelledError` leaves the loop,
is caught at line 70, and the `finally` shuts down.

The other actors are:

- `CallStop(c)`: a caller or a signal task runs `stop()`;
- `StopReturns(c)`: its `_wait_for_shutdown` completes, or raises because
  the shared future was cancelled;
- `FutureRuns`: the event loop runs the `_shutdown_future` task;
- `CancelRuntime`: another task cancels `run_forever` where it is suspended.
  The effect depends on where: in `on_start` no shutdown runs; in the loop the
  cancel is swallowed at line 70 and shuts down; in `on_stop` the log is
  skipped;
- `CancelCaller(c)`: an external caller's task is cancelled while it waits,
  which also cancels the shared future if that has not run yet;
- `SendControl`: the producer enqueues the next script message. Once the
  script is out, and if `ControlStream`, it enqueues a stream message whenever
  none is queued;
- `TimePasses`: `monotonic()` advances while the task awaits `fetch` or sleeps.

### `BotContext.tla`

Python objects are references. The model therefore keeps two maps:

- `extrasOf[c]` and `storeOf[c]` give the identities of context `c`'s dict and
  state store;
- `dicts[d]` holds the contents of dict `d`.

The actions are:

- `AddExtra(c, k, v)`: `self.extras[key] = value`;
- `WithLogger(c, l)`: `dataclass_replace`, which creates a fresh dict holding a
  copy of the original's, keeps the same store and sets the new logger.

`GetExtra` is an operator. The ghost variable `writer` records which context
the last `add_extra` wrote through.

`ExtrasIsolated` states that `add_extra` through one context never changes
what `get_extra` returns through another. It is checked in the run
`wiring_isolation` (see `MCBotWiring.tla` below).

### `BotBase.tla`

`BotBase.__init__` keeps `dict(config)`, `dict(secrets)` and `ctx`. As in
`BotContext.tla`, dicts are references:

- `held[<<h, f>>]` is the identity of the dict that holder `h` (the embedding
  process or the bot) uses as field `f` (config or secrets);
- `store[<<d, f>>]` is the contents of dict `d`. `"passed"` is the mapping the
  embedding process passed, and `"copy"` is the bot's own.

The actions are:

- `Construct`: `__init__`, which points the bot at fresh copies;
- `Write(h, f, k, v)`: a holder assigns a key through its own reference. The
  bot writes only once it exists.

The ghost variable `wrote` is what each holder was given or last wrote, and
`Given` sets the bot's entry when `__init__` runs. `Read` and `Write` model
Python's dict semantics, not code of the repository, so only `Construct` is
in the map. The hooks of `BotBase` are abstract or empty defaults and are
`BotRuntime`'s environment. `ConfigIsolated` states that after `__init__`
each holder reads exactly what it was given or last wrote. Nested values are
model values, so the shallow copy's sharing of nested objects is not
represented.

### `MCBotWiring.tla`

The embedding process holds its contexts and its bot side by side.
`MCBotWiring` instantiates `BotContext` and `BotBase` together. Each step is a
step of one of them and leaves the other's variables unchanged. The bounds
are:

- one key and two values;
- two loggers;
- up to three contexts, so a clone of a clone is reached;
- one bot.

The run `wiring_isolation` checks `ExtrasIsolated` and `ConfigIsolated`
(100,116 states).

### `RuntimeLifecycle.tla`

The promise of spec.md §4.1 and §3, without the loop. It has a phase, a latch
set at most once, a failed flag, and the reason given to the stop hook. A stop
requested before `on_start` returns takes the run straight from Starting to
Stopping. A raising `on_start` goes from Starting to Stopped, because that is
what `run_forever` does. `BotRuntime` is checked against `Spec` in
`LifecycleRefined`. The abstract spec says nothing about progress: the
runtime's progress is `StopLeadsToShutdown`, stated on `BotRuntime` itself.

## 4. Runs

All runs except `wiring_isolation` use
`MCBotRuntime.tla` with these bounds:

- two stop callers (`ext` and the signal task `sig`);
- a control script of `fill` followed by `BOT.STOP` with no reason, which
  exercises `.lower()` and the default `stop-command` reason;
- `on_tick` results `<<>>`, `<<None, order>>` and `<<order, order>>`;
- `max_consecutive_errors = 2`;
- `poll_interval = 0`, which the code clamps to one unit;
- a heartbeat interval of 2 units, so some cycles send a heartbeat and some
  do not;
- `MaxCycles = 3`;
- `CanCancel = TRUE` in the passing runtime runs and in
  `shared_future_cancelled`. A cancel may hit every await point, and only the
  external caller's task can be cancelled: nobody holds the signal tasks.

These bounds are enough for the cases that matter:

- two consecutive failures reach the escalation;
- a success can fall between failures;
- every stop source can race every other;
- every `pc` can be hit by a stop.

`CHECK_DEADLOCK FALSE` is set in every runtime cfg because `run_forever` really
returns. A behaviour that has used its `MaxCycles` cycles sleeps until a stop,
which is the end of the bounded run.

| Run | Expect | Properties | Shows |
|---|---|---|---|
| `runtime_safety` | pass | `TypeOK`, `EscalationExact`, `NoFetchAfterStop`, `LifecycleRefined`, `HeartbeatEveryDueCycle` | Under every failure the environment can raise, a streaming control producer, and `run_forever` and stop() callers cancelled at any await: no fetch starts after a stop, escalation is exact, failing cycles still heartbeat, and the runtime implements the abstract lifecycle, whose latch keeps the first reason (2,894,452 states). |
| `runtime_liveness` | pass | `StopLeadsToShutdown` | Every stop latched once `on_start` has returned, from any source and at any await, leads to exactly one `on_stop` call and to the end of `run_forever`, cancellations included (2,046,054 states). A stop before `on_start` returns is left out, because a raising `on_start` or a cancel there skips `_shutdown` (`start_failure_skips_shutdown`). |
| `runtime_edge_config` | pass | `EscalationExact`, `LifecycleRefined` | With no control channel, no heartbeat sink and `max_consecutive_errors = 1`, the first failure stops the bot and the lifecycle still refines. |
| `logged_reason_stale` | violation | `LoggedReasonIsHookReason` | A heartbeat failure ends the loop with no stop. A `stop()` during `on_stop` then changes the reason that `_shutdown` logs. |
| `stop_starved_by_control_stream` | violation | `StopLeadsToShutdown` | A producer keeps one fill queued, so the drain never finds the channel empty. A `stop()` made during the drain is never acted on, though the runtime is fairly scheduled. |
| `shared_future_cancelled` | violation | `StopCallersUnblocked` | A stop() caller is cancelled before the shared `_shutdown_future` task has run. That cancels the task, and the next stop() caller gets `CancelledError`. |
| `stop_returns_before_shutdown` | violation | `StopWaitsForShutdown` | `stop()` returns before `on_stop` has run. |
| `start_failure_skips_shutdown` | violation | `ShutdownOnEveryExit` | A raising `on_start` means `on_stop` never runs. |
| `event_failure_loses_stop` | violation | `StopCommandHonoured` | A raising `on_event` on a stop command ends the run without setting the stop event. |
| `stop_observed_late` | violation | `StopObservedAfterInFlightCall` | A `stop()` made while `fetch()` is awaited is followed by `orders.publish` of the tick's intents, and by a heartbeat if one is due. Spec.md §5 says the loop observes the stop once the in-flight call returns. |
| `wiring_isolation` | pass | `ExtrasIsolated`, `ConfigIsolated` | Contexts made by `with_logger` keep their own `extras`. After `BotBase.__init__`, the bot's `config` and `secrets` and the mappings the embedding process passed never see each other's writes. |
| `orders_undercounted` | violation | `OrdersCountAccurate` | An intent that was accepted before a later publish failed is never counted. |

Each violation is recorded as a finding in `PROJECT.json`. The most
interesting is the first: making `stop()` wait for the shutdown, as spec.md
asks, would deadlock the loop's own `stop()` calls. The mutant
`ShutdownFutureDoneAfterOnStop` makes `StopLeadsToShutdown` fail.

Each property of a passing run also has a mutant: a plausible bug in a mapped
definition that TLC catches under the run's cfg. The mutants are listed under
`"mutants"` in `PROJECT.json`.

## 5. Fairness

The liveness run assumes weak fairness for these:

- the runtime task: the event loop runs a ready task, and connector calls
  return;
- the clock;
- the `_shutdown_future` task (`FutureRuns`), which the event loop runs once
  it is created;
- each waiting `stop()` caller, which resumes once that task has run.

Callers, signals, cancelling tasks and the control producer get no fairness, because they may
never act. The liveness run uses a finite control script, so the producer
does stop sending. With an endless stream (`stop_starved_by_control_stream`)
the same fairness is not enough for a stop to be acted on. The assumption that connector calls return is exactly what the code
relies on: it has no timeout of its own, and `graceful_shutdown_timeout` is
never used. See the `timeout_retry` hazard: `stop_observed_late` shows
that the latency after a stop covers the rest of the cycle, not only the call
in flight.

## 6. Not modelled

- Logging, apart from the stop reason `_shutdown` logs.
- The text of `last_error`.
- `last_heartbeat_at`.
- The health payload.
- The Redis connectors and the state store, which are pure I/O and are not
  used by the runtime.
- `run_forever` called twice on one instance: spec.md requires a fresh
  instance per run.
- A hanging connector call: the code has no timeout to model.
- `on_stop` failing: it only produces a log line, so it needs no separate
  choice.
- An empty control message (`{}`), which `if not message` treats as an
  empty queue: spec.md §2 gives every message a `type` field.
- Python before 3.8, where `CancelledError` is an `Exception` and the tick's
  `except` would count a cancel as a failed tick.
