\* Without a control channel or heartbeat sink and with max_consecutive_errors = 1, the first failing tick stops the bot.
CONSTANTS
    ext = ext
    sig = sig
    NoReason = NoReason
    Order = Order
    NullIntent = NullIntent
    Callers <- MCCallers
    Signals <- MCSignals
    CallerReason <- MCCallerReason
    CtrlScript <- MCCtrlScript
    MsgTypes <- MCMsgTypes
    LowerOf <- MCLowerOf
    IntentLists <- MCIntentLists
    Failures = {"on_start", "tick", "publish", "on_event", "heartbeat"}
    HasControl = FALSE
    HasHeartbeat = FALSE
    MaxErrors = 1
    PollInterval = 0
    HeartbeatInterval = 2
    MaxCycles = 3
    StreamMsg <- MCStreamMsg
    ControlStream = FALSE
    CanCancel = TRUE
SPECIFICATION Spec
INVARIANT EscalationExact
PROPERTY LifecycleRefined
\* run_forever returns, and a behaviour that has started MaxCycles cycles
\* sleeps until a stop: both are ends of the program, not deadlocks.
CHECK_DEADLOCK FALSE
