---------------------------- MODULE MCBotRuntime ----------------------------
(* Instantiates BotRuntime for TLC: one external stop() caller and the     *)
(* SIGTERM handler, a control channel carrying an event and a stop         *)
(* command, on_tick results with a None entry and with two orders.         *)
EXTENDS BotRuntime, TLC

CONSTANTS ext, sig

MCCallers == {ext, sig}
MCSignals == {sig}
MCCallerReason == ext :> "external-request" @@ sig :> "signal-sigterm"
MCMsgTypes == {"fill", "BOT.STOP"}
MCLowerOf == "fill" :> "fill" @@ "BOT.STOP" :> "bot.stop"
MCCtrlScript == << [type |-> "fill", reason |-> NoReason],
                   [type |-> "BOT.STOP", reason |-> NoReason] >>
\* A script with no stop command, and the message a streaming producer keeps queued.
MCFillScript == << [type |-> "fill", reason |-> NoReason] >>
MCStreamMsg == [type |-> "fill", reason |-> NoReason]
MCIntentLists == {<<>>, <<NullIntent, Order>>, <<Order, Order>>}
=============================================================================
