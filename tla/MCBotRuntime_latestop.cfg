\* A stop made during fetch() is followed by order publishes and a heartbeat.
CONSTANTS
    ext = ext
    sig = sig
    NoReason = NoReason
    Order = Order
    NullIntent = NullIntent
    Callers <- MCCallers
    Signals <- MCSignals
    CallerReason <- MCCallerReason
    CtrlScript <- MCCtrlScript
    MsgTypes <- MCMsgTypes
    LowerOf <- MCLowerOf
    IntentLists <- MCIntentLists
    Failures = {}
    HasControl = TRUE
    HasHeartbeat = TRUE
    MaxErrors = 2
    PollInterval = 0
    HeartbeatInterval = 2
    MaxCycles = 3
    StreamMsg <- MCStreamMsg
    ControlStream = FALSE
    CanCancel = FALSE
SPECIFICATION Spec
PROPERTY StopObservedAfterInFlightCall
\* run_forever returns, and a behaviour that has started MaxCycles cycles
\* sleeps until a stop: both are ends of the program, not deadlocks.
CHECK_DEADLOCK FALSE
