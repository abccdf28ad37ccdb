\* Every stop latched after on_start returned ends in on_stop and the end of run_forever.
CONSTANTS
    ext = ext
    sig = sig
    NoReason = NoReason
    Order = Order
    NullIntent = NullIntent
    Callers <- MCCallers
    Signals <- MCSignals
    CallerReason <- MCCallerReason
    CtrlScript <- MCCtrlScript
    MsgTypes <- MCMsgTypes
    LowerOf <- MCLowerOf
    IntentLists <- MCIntentLists
    Failures = {"on_start", "tick", "publish", "on_event", "heartbeat"}
    HasControl = TRUE
    HasHeartbeat = TRUE
    MaxErrors = 2
    PollInterval = 0
    HeartbeatInterval = 2
    MaxCycles = 3
    StreamMsg <- MCStreamMsg
    ControlStream = FALSE
    CanCancel = TRUE
SPECIFICATION FairSpec
PROPERTY StopLeadsToShutdown
\* run_forever returns, and a behaviour that has started MaxCycles cycles
\* sleeps until a stop: both are ends of the program, not deadlocks.
CHECK_DEADLOCK FALSE
