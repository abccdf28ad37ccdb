----------------------------- MODULE MCBotWiring ----------------------------
(* Instantiates BotContext and BotBase side by side, as the embedding      *)
(* process holds them: one key, two values, two loggers, up to three       *)
(* contexts (a clone of a clone), and one bot.  Each step is a step of one *)
(* of the two; neither touches the other's state.                          *)
EXTENDS Naturals
CONSTANTS k1, v1, v2, l1, l2, Absent
VARIABLES made, extrasOf, storeOf, loggerOf, dicts, writer, built, held, store, wrote

Ctx == INSTANCE BotContext
          WITH Keys <- {k1}, Vals <- {v1, v2}, Loggers <- {l1, l2}, MaxContexts <- 3
Bot == INSTANCE BotBase WITH Keys <- {k1}, Vals <- {v1, v2}

cvars == <<made, extrasOf, storeOf, loggerOf, dicts, writer>>
bvars == <<built, held, store, wrote>>

Next ==
    \/ Ctx!Next /\ UNCHANGED bvars
    \/ Bot!Next /\ UNCHANGED cvars

Spec == Ctx!Init /\ Bot!Init /\ [][Next]_<<cvars, bvars>>

(* with_logger clones keep their own extras: add_extra through one context *)
(* never changes what get_extra returns through another.                  *)
ExtrasIsolated == Ctx!ExtrasIsolated

(* BotBase.__init__ copies config and secrets: after it, the bot and the   *)
(* embedding process each read exactly what they were given or last wrote. *)
ConfigIsolated == Bot!ConfigIsolated
=============================================================================
