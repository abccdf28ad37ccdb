-------------------------- MODULE RuntimeLifecycle --------------------------
(***************************************************************************)
(* What BotRuntime promises about its lifecycle, with no loop inside:     *)
(* the phases Starting -> Running -> Stopping -> Stopped, strictly         *)
(* forward; a stop latch set at most once whose first reason stays;        *)
(* Running is left only through the latch or an exception escaping the     *)
(* loop; and on_stop, run in Stopping, is told the latched reason.  A      *)
(* raising on_start ends the run at once (run_forever raises it).          *)
(***************************************************************************)
CONSTANTS Reasons, Unset

VARIABLES phase, latched, reason, failed, hookReason

lvars == <<phase, latched, reason, failed, hookReason>>

Init ==
    /\ phase = "Starting"
    /\ latched = FALSE
    /\ reason = Unset
    /\ failed = FALSE
    /\ hookReason = Unset

(* stop(r), at any time: only the first request records its reason.       *)
Request(r) ==
    /\ ~latched
    /\ latched' = TRUE
    /\ reason' = r
    /\ UNCHANGED <<phase, failed, hookReason>>

(* on_start returned: the loop runs.                                       *)
Begin ==
    /\ phase = "Starting"
    /\ phase' = "Running"
    /\ UNCHANGED <<latched, reason, failed, hookReason>>

(* on_start raised: run_forever raises without a shutdown.                *)
AbortStart ==
    /\ phase = "Starting"
    /\ phase' = "Stopped"
    /\ failed' = TRUE
    /\ UNCHANGED <<latched, reason, hookReason>>

(* The loop ends because a stop was requested; a stop requested before    *)
(* on_start returned ends the run before its first cycle ...               *)
Exit ==
    /\ phase \in {"Starting", "Running"}
    /\ latched
    /\ phase' = "Stopping"
    /\ UNCHANGED <<latched, reason, failed, hookReason>>

(* ... or because an exception escaped it.                                 *)
Fail ==
    /\ phase = "Running"
    /\ ~failed
    /\ phase' = "Stopping"
    /\ failed' = TRUE
    /\ UNCHANGED <<latched, reason, hookReason>>

(* The shutdown sequence: on_stop gets the reason recorded so far.        *)
Finish ==
    /\ phase = "Stopping"
    /\ phase' = "Stopped"
    /\ hookReason' = reason
    /\ UNCHANGED <<latched, reason, failed>>

Next ==
    \/ \E r \in Reasons : Request(r)
    \/ Begin \/ AbortStart \/ Exit \/ Fail \/ Finish

Spec == Init /\ [][Next]_lvars

=============================================================================
