----------------------------- MODULE BotRuntime -----------------------------
(***************************************************************************)
(* The runtime orchestrator of the Python bot SDK,                         *)
(* src/bots/python/sdk/runtime.py, class BotRuntime.                       *)
(*                                                                         *)
(* One asyncio task runs run_forever(): on_start, then _main_loop (drain   *)
(* the control channel, fetch market data, on_tick, publish intents,       *)
(* heartbeat, interruptible sleep), then _shutdown (on_stop).  Other tasks *)
(* of the same event loop call stop(reason) at any await point: external  *)
(* callers and the SIGTERM/SIGINT handlers installed by                    *)
(* _install_signal_handlers.  Every runtime action below is the code      *)
(* between two awaits, so other tasks interleave exactly where asyncio    *)
(* lets them.                                                              *)
(*                                                                         *)
(* The strategy (BotBase hooks) and the connectors are the environment:   *)
(* each hook or connector call either returns one of a small set of       *)
(* results or raises, as the constant Failures allows.                     *)
(***************************************************************************)
EXTENDS Naturals, Sequences, SequencesExt

CONSTANTS
    Callers,        \* tasks that call runtime.stop(reason): external callers and signal handlers
    Signals,        \* the callers that are the signal-handler tasks (subset of Callers)
    CallerReason,   \* [Callers -> reason string] the reason each caller passes to stop()
    CtrlScript,     \* the control messages the control channel delivers, in order
    MsgTypes,       \* the "type" fields the messages carry
    LowerOf,        \* [MsgTypes -> string]: str(type).lower()
    NoReason,       \* model value: a message without a "reason" field
    Order, NullIntent, \* an order intent, and a None entry in on_tick's result
    IntentLists,    \* the results on_tick may return (None is the empty list)
    Failures,       \* the calls that may raise, a subset of FailurePoints
    HasControl,     \* ctx.control is not None
    HasHeartbeat,   \* ctx.heartbeat is not None
    MaxErrors,      \* config.max_consecutive_errors
    PollInterval,   \* config.poll_interval, in time units of 0.05 s
    HeartbeatInterval, \* config.heartbeat_interval, in time units of 0.05 s
    MaxCycles,      \* bound: loop cycles a behaviour may start
    CanCancel,      \* some task may cancel the run_forever task or a stop() caller
    ControlStream,  \* after the script, the producer keeps one more message queued
    StreamMsg       \* the message it keeps queued (a non-stop event such as a fill)

FailurePoints == {"on_start", "tick", "publish", "on_event", "heartbeat"}

ASSUME
    /\ Signals \subseteq Callers
    /\ CallerReason \in [Callers -> STRING]
    /\ LowerOf \in [MsgTypes -> STRING]
    /\ CtrlScript \in Seq([type : MsgTypes, reason : STRING \cup {NoReason}])
    /\ IntentLists \subseteq Seq({Order, NullIntent})
    /\ Failures \subseteq FailurePoints
    /\ HasControl \in BOOLEAN /\ HasHeartbeat \in BOOLEAN
    /\ MaxErrors \in Nat /\ PollInterval \in Nat /\ HeartbeatInterval \in Nat
    /\ MaxCycles \in Nat \ {0}
    /\ CanCancel \in BOOLEAN /\ ControlStream \in BOOLEAN
    /\ StreamMsg \in [type : MsgTypes, reason : STRING \cup {NoReason}]

(* max(config.poll_interval, 0.05) and max(config.heartbeat_interval, 0.1) *)
PollIv == IF PollInterval < 1 THEN 1 ELSE PollInterval
HeartbeatIv == IF HeartbeatInterval < 2 THEN 2 ELSE HeartbeatInterval

VARIABLES
    pc,             \* where the run_forever task is, or is suspended
    stopSet,        \* _stop_event.is_set()
    stopReason,     \* _stop_reason
    future,         \* _shutdown_future: "none", "pending", "done" or "cancelled"
    ticks, ordersPublished, consecErrors, lastError,  \* RuntimeStats
    pending,        \* intents of this tick not yet iterated by _publish_intents
    pubCount,       \* _publish_intents' local count
    hbLeft,         \* next_heartbeat - now, floored at 0
    elapsed,        \* now - tick_started, capped at the poll interval
    cycles,         \* loop cycles started (bounded by MaxCycles)
    ctrlSent,       \* control messages put on the channel so far
    ctrlRead,       \* control messages received by the runtime so far
    forwarded,      \* intents the order publisher accepted (the connector's record)
    caller,         \* state of each stop() caller
    onStopCalls,    \* how often on_stop ran
    onStopReason,   \* the reason on_stop was given
    loggedReason,   \* the reason _shutdown logged after on_stop returned
    raised          \* the exception propagating out of the loop, or "none"

stats == <<ticks, ordersPublished, consecErrors, lastError>>
vars == <<pc, stopSet, stopReason, future, stats, pending, pubCount, hbLeft, elapsed,
          cycles, ctrlSent, ctrlRead, forwarded, caller, onStopCalls,
          onStopReason, loggedReason, raised>>

Halted == {"done", "raised", "cancelled"}
Unset == "runtime_shutdown"

-----------------------------------------------------------------------------
(* stop(reason): the first caller sets the event and wins the reason;     *)
(* _wait_for_shutdown then creates the shared _shutdown_future task, which *)
(* only that first caller finds missing.                                   *)
RequestStop(r) ==
    IF stopSet THEN UNCHANGED <<stopSet, stopReason, future>>
    ELSE /\ stopSet' = TRUE
         /\ stopReason' = r
         /\ future' = "pending"

(* Mutation of ShutdownFutureDone: the future completes only after on_stop *)
(* ran, as spec 4.1 asks of stop().                                        *)
ShutdownFutureDoneAfterOnStop == onStopCalls > 0

(* _wait_for_shutdown: the awaited future is a task on _stop_event.wait(), *)
(* done once it has run; awaiting it after it was cancelled raises.        *)
ShutdownFutureDone == future = "done"

(* The while condition, then the start of a cycle (tick_started).          *)
LoopTop ==
    IF stopSet
    THEN /\ pc' = "shutdown"
         /\ UNCHANGED <<elapsed, cycles>>
    ELSE /\ pc' = IF HasControl THEN "drain" ELSE "fetch"
         /\ elapsed' = 0
         /\ cycles' = cycles + 1

(* Mutation of AfterDrain: the is_set() test after the drain left out.      *)
AfterDrainUnchecked == "fetch"

(* After _drain_control_messages returns: break if the event is set.       *)
AfterDrain == IF stopSet THEN "shutdown" ELSE "fetch"

(* Mutation of EscalationDue: > instead of >=.                             *)
EscalationDueLate(n) == MaxErrors # 0 /\ n > MaxErrors

(* Escalation test of the except branch.                                   *)
EscalationDue(n) == MaxErrors # 0 /\ n >= MaxErrors

(* The heartbeat check that ends the try/except of a cycle.                *)
HeartbeatCheck ==
    pc' = IF HasHeartbeat /\ hbLeft = 0 THEN "hb" ELSE "sleep"

IsStop(m) == LowerOf[m.type] \in {"bot.stop", "stop"}
ReasonOf(m) == IF m.reason = NoReason THEN "stop-command" ELSE m.reason

(* The i-th message put on the control channel: the script, then the      *)
(* stream.  A stream message is taken off again when received, so at most  *)
(* one is queued (ctrlSent = Len(CtrlScript) + 1).                         *)
Msg(i) == IF i <= Len(CtrlScript) THEN CtrlScript[i] ELSE StreamMsg

-----------------------------------------------------------------------------
Init ==
    /\ pc = "init"
    /\ stopSet = FALSE
    /\ stopReason = Unset
    /\ ticks = 0 /\ ordersPublished = 0 /\ consecErrors = 0 /\ lastError = FALSE
    /\ pending = <<>> /\ pubCount = 0
    /\ hbLeft = 0 /\ elapsed = 0 /\ cycles = 0
    /\ ctrlSent = 0 /\ ctrlRead = 0 /\ forwarded = 0
    /\ caller = [c \in Callers |-> "idle"]
    /\ future = "none"
    /\ onStopCalls = 0 /\ onStopReason = Unset /\ loggedReason = Unset
    /\ raised = "none"

(* run_forever up to the loop: install handlers, await on_start.  A raise *)
(* from on_start leaves run_forever before the try, so no _shutdown.       *)
Start ==
    /\ pc = "init"
    /\ \/ /\ hbLeft' = 0          \* next_heartbeat = monotonic()
          /\ LoopTop
          /\ UNCHANGED raised
       \/ /\ "on_start" \in Failures
          /\ pc' = "raised"
          /\ raised' = "on_start"
          /\ UNCHANGED <<hbLeft, elapsed, cycles>>
    /\ UNCHANGED <<stopSet, stopReason, future, stats, pending, pubCount, ctrlSent,
                   ctrlRead, forwarded, caller, onStopCalls, onStopReason,
                   loggedReason>>

(* One receive(timeout=0) of _drain_control_messages and what follows.     *)
Drain ==
    /\ pc = "drain"
    /\ IF ctrlRead = ctrlSent
       THEN /\ pc' = AfterDrain
            /\ UNCHANGED <<ctrlRead, ctrlSent, stopSet, stopReason, future, raised>>
       ELSE LET m == Msg(ctrlRead + 1) IN
            /\ IF ctrlRead < Len(CtrlScript)
               THEN ctrlRead' = ctrlRead + 1 /\ UNCHANGED ctrlSent
               ELSE ctrlSent' = ctrlSent - 1 /\ UNCHANGED ctrlRead
            /\ \/ /\ "on_event" \in Failures
                  /\ raised' = "on_event"
                  /\ pc' = "shutdown"
                  /\ UNCHANGED <<stopSet, stopReason, future>>
               \/ /\ IsStop(m)
                  /\ RequestStop(ReasonOf(m))
                  /\ pc' = "drain_stop"
                  /\ UNCHANGED raised
               \/ /\ ~IsStop(m)
                  /\ pc' = "drain"
                  /\ UNCHANGED <<stopSet, stopReason, future, raised>>
    /\ UNCHANGED <<stats, pending, pubCount, hbLeft, elapsed, cycles,
                   forwarded, caller, onStopCalls, onStopReason,
                   loggedReason>>

(* The drain's own await self.stop(reason) returns and breaks the drain,   *)
(* or raises the CancelledError of a cancelled _shutdown_future, which     *)
(* run_forever catches (line 70) before its finally.                       *)
DrainStopReturns ==
    /\ pc = "drain_stop"
    /\ \/ ShutdownFutureDone /\ pc' = AfterDrain /\ UNCHANGED raised
       \/ future = "cancelled" /\ pc' = "shutdown" /\ raised' = "cancelled"
    /\ UNCHANGED <<stopSet, stopReason, future, stats, pending, pubCount, hbLeft,
                   elapsed, cycles, ctrlSent, ctrlRead, forwarded, caller,
                   onStopCalls, onStopReason, loggedReason>>

(* Mutation of TickFailed: the heartbeat check only on the success path,  *)
(* a failed cycle goes straight to the sleep.                              *)
TickFailedNoHeartbeat ==
    /\ consecErrors' = consecErrors + 1
    /\ lastError' = TRUE
    /\ pending' = <<>>
    /\ pubCount' = 0
    /\ IF EscalationDue(consecErrors + 1)
       THEN /\ RequestStop("max-errors")
            /\ pc' = "error_stop"
       ELSE /\ pc' = "sleep"
            /\ UNCHANGED <<stopSet, stopReason, future>>
    /\ UNCHANGED <<ticks, ordersPublished>>

(* The except branch: count the error, escalate at the threshold.          *)
TickFailed ==
    /\ consecErrors' = consecErrors + 1
    /\ lastError' = TRUE
    /\ pending' = <<>>
    /\ pubCount' = 0
    /\ IF EscalationDue(consecErrors + 1)
       THEN /\ RequestStop("max-errors")
            /\ pc' = "error_stop"
       ELSE /\ HeartbeatCheck
            /\ UNCHANGED <<stopSet, stopReason, future>>
    /\ UNCHANGED <<ticks, ordersPublished>>

(* await market_data.fetch(), then on_tick(market).                       *)
Fetch ==
    /\ pc = "fetch"
    /\ \/ \E is \in IntentLists :
            /\ pending' = is
            /\ pubCount' = 0
            /\ pc' = "publish"
            /\ UNCHANGED <<stopSet, stopReason, future, stats>>
       \/ /\ "tick" \in Failures
          /\ TickFailed
    /\ UNCHANGED <<hbLeft, elapsed, cycles, ctrlSent, ctrlRead, forwarded,
                   caller, onStopCalls, onStopReason, loggedReason, raised>>

(* One iteration of _publish_intents, or its return and the stats update. *)
Publish ==
    /\ pc = "publish"
    /\ \/ /\ pending = <<>>
          /\ ordersPublished' = ordersPublished + pubCount
          /\ consecErrors' = 0
          /\ ticks' = ticks + 1
          /\ HeartbeatCheck
          /\ UNCHANGED <<pending, pubCount, lastError, forwarded>>
       \/ /\ pending # <<>>
          /\ Head(pending) = NullIntent
          /\ pending' = Tail(pending)
          /\ UNCHANGED <<pc, stats, pubCount, forwarded>>
       \/ /\ pending # <<>>
          /\ Head(pending) = Order
          /\ pending' = Tail(pending)
          /\ pubCount' = pubCount + 1
          /\ forwarded' = forwarded + 1
          /\ UNCHANGED <<pc, stats>>
    /\ UNCHANGED <<stopSet, stopReason, future>>
    /\ UNCHANGED <<hbLeft, elapsed, cycles, ctrlSent, ctrlRead, caller,
                   onStopCalls, onStopReason, loggedReason, raised>>

(* await orders.publish(intent) raises.                                    *)
PublishFails ==
    /\ pc = "publish"
    /\ pending # <<>>
    /\ Head(pending) = Order
    /\ "publish" \in Failures
    /\ TickFailed
    /\ UNCHANGED <<hbLeft, elapsed, cycles, ctrlSent, ctrlRead, forwarded,
                   caller, onStopCalls, onStopReason, loggedReason, raised>>

(* The except branch's await self.stop("max-errors") returns and the loop  *)
(* breaks, or it raises CancelledError as in DrainStopReturns.             *)
ErrorStopReturns ==
    /\ pc = "error_stop"
    /\ \/ ShutdownFutureDone /\ UNCHANGED raised
       \/ future = "cancelled" /\ raised' = "cancelled"
    /\ pc' = "shutdown"
    /\ UNCHANGED <<stopSet, stopReason, future, stats, pending, pubCount, hbLeft,
                   elapsed, cycles, ctrlSent, ctrlRead, forwarded, caller,
                   onStopCalls, onStopReason, loggedReason>>

(* _emit_heartbeat: await health(), await heartbeat.publish(payload); then *)
(* next_heartbeat = now + heartbeat_interval.  A raise leaves the loop.    *)
Heartbeat ==
    /\ pc = "hb"
    /\ \/ /\ pc' = "sleep"
          /\ hbLeft' = HeartbeatIv
          /\ UNCHANGED raised
       \/ /\ "heartbeat" \in Failures
          /\ pc' = "shutdown"
          /\ raised' = "heartbeat"
          /\ UNCHANGED hbLeft
    /\ UNCHANGED <<stopSet, stopReason, future, stats, pending, pubCount, elapsed,
                   cycles, ctrlSent, ctrlRead, forwarded, caller, onStopCalls,
                   onStopReason, loggedReason>>

(* wait_for(_stop_event.wait(), timeout=sleep_for) ends: the event was set *)
(* or the poll interval since tick_started has passed; back to the while.  *)
Wake ==
    /\ pc = "sleep"
    /\ \/ stopSet
       \/ elapsed >= PollIv /\ cycles < MaxCycles
    /\ LoopTop
    /\ UNCHANGED <<stopSet, stopReason, future, stats, pending, pubCount, hbLeft,
                   ctrlSent, ctrlRead, forwarded, caller, onStopCalls,
                   onStopReason, loggedReason, raised>>

(* Mutation of Shutdown: on_stop is given the reason as it was when the   *)
(* run started, cached in a local, instead of _stop_reason.                *)
ShutdownCachedReason ==
    /\ pc = "shutdown"
    /\ onStopCalls' = onStopCalls + 1
    /\ onStopReason' = Unset
    /\ pc' = "on_stop"
    /\ UNCHANGED <<stopSet, stopReason, future, stats, pending, pubCount, hbLeft,
                   elapsed, cycles, ctrlSent, ctrlRead, forwarded, caller,
                   loggedReason, raised>>

(* Mutation of Shutdown: on_stop also run from the stop() path, so a run    *)
(* stopped by request calls it a second time.                              *)
ShutdownReentrant ==
    /\ pc = "shutdown"
    /\ onStopCalls' = onStopCalls + 1
    /\ onStopReason' = stopReason
    /\ pc' = IF stopSet /\ onStopCalls = 0 THEN "shutdown" ELSE "on_stop"
    /\ UNCHANGED <<stopSet, stopReason, future, stats, pending, pubCount, hbLeft,
                   elapsed, cycles, ctrlSent, ctrlRead, forwarded, caller,
                   loggedReason, raised>>

(* _shutdown in the finally: call on_stop(_stop_reason) and await it.     *)
Shutdown ==
    /\ pc = "shutdown"
    /\ onStopCalls' = onStopCalls + 1
    /\ onStopReason' = stopReason
    /\ pc' = "on_stop"
    /\ UNCHANGED <<stopSet, stopReason, future, stats, pending, pubCount, hbLeft,
                   elapsed, cycles, ctrlSent, ctrlRead, forwarded, caller,
                   loggedReason, raised>>

(* on_stop returned or raised (its failure is logged), then _stop_reason  *)
(* is read again for the log; run_forever returns, or re-raises the       *)
(* loop's exception.                                                       *)
ShutdownLog ==
    /\ pc = "on_stop"
    /\ loggedReason' = stopReason
    /\ pc' = IF raised \in {"none", "cancelled"} THEN "done" ELSE "raised"
    /\ UNCHANGED <<stopSet, stopReason, future, stats, pending, pubCount, hbLeft,
                   elapsed, cycles, ctrlSent, ctrlRead, forwarded, caller,
                   onStopCalls, onStopReason, raised>>

RuntimeStep ==
    \/ Start \/ Drain \/ DrainStopReturns \/ Fetch \/ Publish \/ PublishFails
    \/ ErrorStopReturns \/ Heartbeat \/ Wake \/ Shutdown \/ ShutdownLog

-----------------------------------------------------------------------------
(* Other tasks.                                                            *)

(* A task calls stop(reason); a signal handler only once installed.       *)
CallStop(c) ==
    /\ caller[c] = "idle"
    /\ c \in Signals => pc # "init"
    /\ RequestStop(CallerReason[c])
    /\ caller' = [caller EXCEPT ![c] = "waiting"]
    /\ UNCHANGED <<pc, stats, pending, pubCount, hbLeft, elapsed, cycles,
                   ctrlSent, ctrlRead, forwarded, onStopCalls, onStopReason,
                   loggedReason, raised>>

(* Its await self._wait_for_shutdown() returns, or raises CancelledError  *)
(* because the shared future was cancelled through another waiter.         *)
StopReturns(c) ==
    /\ caller[c] = "waiting"
    /\ \/ ShutdownFutureDone /\ caller' = [caller EXCEPT ![c] = "returned"]
       \/ future = "cancelled" /\ caller' = [caller EXCEPT ![c] = "aborted"]
    /\ UNCHANGED <<pc, stopSet, stopReason, future, stats, pending, pubCount, hbLeft,
                   elapsed, cycles, ctrlSent, ctrlRead, forwarded, onStopCalls,
                   onStopReason, loggedReason, raised>>

(* The event loop runs the _shutdown_future task: _stop_event is set, so   *)
(* its wait() returns at once.                                             *)
FutureRuns ==
    /\ future = "pending"
    /\ future' = "done"
    /\ UNCHANGED <<pc, stopSet, stopReason, stats, pending, pubCount, hbLeft,
                   elapsed, cycles, ctrlSent, ctrlRead, forwarded, caller,
                   onStopCalls, onStopReason, loggedReason, raised>>

(* Cancelling a task suspended in await self._shutdown_future cancels the  *)
(* awaited task too, unless it already ran.                                *)
CancelAwaited ==
    future' = IF future = "pending" THEN "cancelled" ELSE future

(* Where the run_forever task is suspended, so a cancel can reach it.      *)
Awaiting == {"init", "drain", "drain_stop", "fetch", "publish", "error_stop",
             "hb", "sleep", "on_stop"}

(* Another task cancels the run_forever task (task.cancel(), a wait_for    *)
(* timeout, asyncio.run on an interrupt).  CancelledError is no Exception:  *)
(* in on_start it leaves run_forever before the try; in the loop it passes *)
(* the tick's except, is caught at line 70 and the finally shuts down;     *)
(* in on_stop it escapes _shutdown, so nothing is logged.                  *)
CancelRuntime ==
    /\ CanCancel
    /\ pc \in Awaiting
    /\ \/ /\ pc = "init"
          /\ pc' = "cancelled" /\ raised' = "cancelled"
          /\ UNCHANGED future
       \/ /\ pc = "on_stop"
          /\ pc' = "cancelled"
          /\ UNCHANGED <<future, raised>>
       \/ /\ pc \notin {"init", "on_stop"}
          /\ pc' = "shutdown" /\ raised' = "cancelled"
          /\ IF pc \in {"drain_stop", "error_stop"} THEN CancelAwaited
             ELSE UNCHANGED future
    /\ UNCHANGED <<stopSet, stopReason, stats, pending, pubCount, hbLeft,
                   elapsed, cycles, ctrlSent, ctrlRead, forwarded, caller,
                   onStopCalls, onStopReason, loggedReason>>

(* The task of an external stop() caller is cancelled while it awaits the  *)
(* shared _shutdown_future (e.g. wait_for(stop(), timeout)).                *)
CancelCaller(c) ==
    /\ CanCancel
    /\ c \notin Signals
    /\ caller[c] = "waiting"
    /\ caller' = [caller EXCEPT ![c] = "cancelled"]
    /\ CancelAwaited
    /\ UNCHANGED <<pc, stopSet, stopReason, stats, pending, pubCount, hbLeft,
                   elapsed, cycles, ctrlSent, ctrlRead, forwarded, onStopCalls,
                   onStopReason, loggedReason, raised>>

(* The control channel's producer puts the next scripted message, or, once *)
(* the script is out, a stream message whenever none is queued.            *)
SendControl ==
    /\ ctrlSent < Len(CtrlScript) + (IF ControlStream THEN 1 ELSE 0)
    /\ ctrlSent' = ctrlSent + 1
    /\ UNCHANGED <<pc, stopSet, stopReason, future, stats, pending, pubCount, hbLeft,
                   elapsed, cycles, ctrlRead, forwarded, caller, onStopCalls,
                   onStopReason, loggedReason, raised>>

(* monotonic() advances while the task awaits fetch() or sleeps.           *)
TimePasses ==
    /\ \/ pc = "sleep" /\ elapsed < PollIv
       \/ pc = "fetch" /\ (elapsed < PollIv \/ hbLeft > 0)
    /\ elapsed' = IF elapsed < PollIv THEN elapsed + 1 ELSE elapsed
    /\ hbLeft' = IF hbLeft > 0 THEN hbLeft - 1 ELSE 0
    /\ UNCHANGED <<pc, stopSet, stopReason, future, stats, pending, pubCount, cycles,
                   ctrlSent, ctrlRead, forwarded, caller, onStopCalls,
                   onStopReason, loggedReason, raised>>

Next ==
    \/ RuntimeStep
    \/ \E c \in Callers : CallStop(c) \/ StopReturns(c) \/ CancelCaller(c)
    \/ FutureRuns \/ CancelRuntime
    \/ SendControl
    \/ TimePasses

(* The event loop runs every ready task, connector calls return, and the  *)
(* clock advances; callers, cancellers and the control producer need not  *)
(* act.                                                                    *)
Fairness ==
    /\ WF_vars(RuntimeStep)
    /\ WF_vars(FutureRuns)
    /\ WF_vars(TimePasses)
    /\ \A c \in Callers : WF_vars(StopReturns(c))

Spec == Init /\ [][Next]_vars
FairSpec == Spec /\ Fairness

-----------------------------------------------------------------------------
TypeOK ==
    /\ pc \in {"init", "drain", "drain_stop", "fetch", "publish", "error_stop",
               "hb", "sleep", "shutdown", "on_stop"} \cup Halted
    /\ stopSet \in BOOLEAN
    /\ future \in {"none", "pending", "done", "cancelled"}
    /\ ticks \in 0..MaxCycles /\ consecErrors \in 0..MaxCycles
    /\ ordersPublished \in Nat /\ forwarded \in Nat /\ lastError \in BOOLEAN
    /\ pending \in Seq({Order, NullIntent}) /\ pubCount \in Nat
    /\ hbLeft \in 0..HeartbeatIv /\ elapsed \in 0..PollIv
    /\ cycles \in 0..MaxCycles
    /\ ctrlRead \in 0..ctrlSent /\ ctrlSent \in 0..Len(CtrlScript) + 1
    /\ caller \in [Callers -> {"idle", "waiting", "returned", "cancelled", "aborted"}]
    /\ onStopCalls \in 0..1
    /\ raised \in {"none", "cancelled"} \cup FailurePoints

(* Once a stop has been requested the loop never starts another market     *)
(* fetch: the while test, and the is_set() test after a control drain      *)
(* that may itself have processed a stop command, both run before fetch.   *)
NoFetchAfterStop ==
    [][(pc' = "fetch" /\ pc # "fetch") => ~stopSet']_vars

(* The escalation policy: with max_consecutive_errors = k > 0 the count    *)
(* never exceeds k, no cycle is attempted after k consecutive failures,    *)
(* and a stop for "max-errors" happens with exactly k counted.             *)
EscalationExact ==
    MaxErrors > 0 =>
        /\ consecErrors <= MaxErrors
        /\ pc \in {"fetch", "publish"} => consecErrors < MaxErrors
        /\ (onStopCalls > 0 /\ onStopReason = "max-errors")
               => consecErrors = MaxErrors

(* A bot whose ticks fail keeps reporting liveness: every cycle that       *)
(* reaches the sleep has sent the heartbeat if one was due, whether its    *)
(* tick succeeded or raised (the heartbeat check follows the try/except).  *)
HeartbeatEveryDueCycle ==
    [][(pc' = "sleep" /\ pc # "sleep") => (~HasHeartbeat \/ hbLeft' > 0)]_vars

(* A stop latched once on_start has returned ends in on_stop: whether it  *)
(* came from a caller, a signal, a stop command or the escalation, and     *)
(* wherever the loop was suspended (drain, fetch, publish, heartbeat,      *)
(* sleep), run_forever reaches _shutdown, calls on_stop once, and returns  *)
(* (or re-raises, or is cancelled in on_stop).  A stop before on_start     *)
(* returns is not covered: a raising on_start skips _shutdown.             *)
StopLeadsToShutdown ==
    (stopSet /\ pc \notin {"init"} \cup Halted) ~> (pc \in Halted /\ onStopCalls = 1)

(* The lifecycle phase each location of run_forever is in; the abstract   *)
(* Finish is the call of on_stop, so awaiting it is already Stopped.      *)
Phase ==
    CASE pc = "init"      -> "Starting"
      [] pc = "shutdown"  -> "Stopping"
      [] pc \in Halted \cup {"on_stop"} -> "Stopped"
      [] OTHER            -> "Running"

StopReasons ==
    {CallerReason[c] : c \in Callers} \cup {"max-errors"}
        \cup {ReasonOf(CtrlScript[i]) : i \in 1..Len(CtrlScript)}

Lifecycle == INSTANCE RuntimeLifecycle
    WITH phase <- Phase, latched <- stopSet, reason <- stopReason,
         failed <- (raised # "none"), hookReason <- onStopReason,
         Reasons <- StopReasons, Unset <- Unset

(* BotRuntime implements RuntimeLifecycle: the phases only move forward,  *)
(* the loop is left only once the stop event is set or an exception        *)
(* escaped it, the first stop() fixes the reason, and _shutdown hands      *)
(* on_stop the reason recorded when it runs.                               *)
LifecycleRefined == Lifecycle!Spec

-----------------------------------------------------------------------------
(* What spec.md says and the code does not do (checked for a violation). *)

(* spec 4.1 stop(): "the call blocks the caller until the shutdown         *)
(* sequence has completed": no stop() caller returns before on_stop ran.   *)
StopWaitsForShutdown ==
    \A c \in Callers : caller[c] = "returned" => onStopCalls > 0

(* spec 4.1 run(): a start hook that throws aborts the run "via the        *)
(* shutdown sequence": whenever run_forever has ended, on_stop has run.    *)
ShutdownOnEveryExit == pc \in Halted => onStopCalls = 1

(* spec 4.1 control drain: handler failures are logged and not propagated, *)
(* so a stop command read from the channel always sets the stop event      *)
(* before run_forever ends.                                                *)
StopCommandHonoured ==
    (pc \in Halted /\ \E i \in 1..ctrlRead : IsStop(CtrlScript[i])) => stopSet

(* spec 4.1 step 4: ordersPublished grows by the count actually forwarded: *)
(* outside a publish in progress the statistic equals what the order       *)
(* publisher accepted.                                                     *)
OrdersCountAccurate ==
    ordersPublished + (IF pc = "publish" THEN pubCount ELSE 0) = forwarded

(* spec 4.1 shutdown sequence: on_stop is invoked "with the recorded stop *)
(* reason" and the final stop reason is logged: the reason _shutdown logs  *)
(* is the one on_stop was given, though _stop_reason is read again after   *)
(* on_stop was awaited.                                                    *)
LoggedReasonIsHookReason == pc \in Halted /\ onStopCalls > 0 => loggedReason = onStopReason

(* spec 4.1 stop(): "regardless of whether this call set it, the call     *)
(* blocks the caller until the shutdown sequence has completed", and spec  *)
(* 8 "all callers unblock once": a stop() caller that was not itself       *)
(* cancelled never gets a CancelledError from the shared _shutdown_future. *)
StopCallersUnblocked == \A c \in Callers : caller[c] # "aborted"

(* _publish_intents hands the next non-None intent to orders.publish.     *)
PublishStarts ==
    /\ pc' = "publish" /\ pending' # pending
    /\ pending' # <<>> /\ Head(pending') = Order

(* The heartbeat check finds one due and _emit_heartbeat begins.           *)
HeartbeatStarts == pc' = "hb" /\ pc # "hb"

(* spec 5: a stop requested during a blocking connector call is not       *)
(* preemptive, but "the loop finishes the current connector call before    *)
(* observing the new Stop Signal": once the stop event is set, no further  *)
(* order publish or heartbeat begins.  _main_loop tests the event only at  *)
(* the while and after the drain, so a stop made during fetch() still has  *)
(* the tick's orders published and a due heartbeat sent.                   *)
StopObservedAfterInFlightCall == [][stopSet => ~(PublishStarts \/ HeartbeatStarts)]_vars

=============================================================================
