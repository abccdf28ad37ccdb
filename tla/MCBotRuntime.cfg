\* Safety of the stop latch and the escalation policy under every failure
\* the hooks and connectors can raise.
CONSTANTS
    ext = ext
    sig = sig
    NoReason = NoReason
    Order = Order
    NullIntent = NullIntent
    Callers <- MCCallers
    Signals <- MCSignals
    CallerReason <- MCCallerReason
    CtrlScript <- MCCtrlScript
    MsgTypes <- MCMsgTypes
    LowerOf <- MCLowerOf
    IntentLists <- MCIntentLists
    Failures = {"on_start", "tick", "publish", "on_event", "heartbeat"}
    HasControl = TRUE
    HasHeartbeat = TRUE
    MaxErrors = 2
    PollInterval = 0
    HeartbeatInterval = 2
    MaxCycles = 3
    StreamMsg <- MCStreamMsg
    ControlStream = TRUE
    CanCancel = TRUE
SPECIFICATION Spec
INVARIANT TypeOK
INVARIANT EscalationExact
PROPERTY NoFetchAfterStop
PROPERTY LifecycleRefined
PROPERTY HeartbeatEveryDueCycle
\* run_forever returns, and a behaviour that has started MaxCycles cycles
\* sleeps until a stop: both are ends of the program, not deadlocks.
CHECK_DEADLOCK FALSE
