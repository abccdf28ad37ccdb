----------------------------- MODULE BotContext -----------------------------
(***************************************************************************)
(* BotContext (src/bots/python/sdk/context.py): the wiring handed to a bot *)
(* and to the runtime.  Python objects are references, so a context holds  *)
(* the identity of its extras dict and of its connectors, and the dicts    *)
(* hold the contents.  with_logger clones a context through                *)
(* dataclass_replace: the connectors are shared, extras is copied.         *)
(***************************************************************************)
EXTENDS Naturals

CONSTANTS
    Keys,           \* extras keys
    Vals,           \* extras values
    Loggers,        \* loggers a clone may be given
    Absent,         \* model value: key not in the dict
    MaxContexts     \* bound: contexts created, the first one included

ASSUME MaxContexts \in Nat \ {0}

Ids == 1..MaxContexts

VARIABLES
    made,           \* number of contexts (and of extras dicts) created
    extrasOf,       \* context -> identity of its extras dict
    storeOf,        \* context -> identity of its state store (a connector)
    loggerOf,       \* context -> its logger
    dicts,          \* dict identity -> its contents
    writer          \* context written by the last add_extra, or 0

cvars == <<made, extrasOf, storeOf, loggerOf, dicts, writer>>

EmptyDict == [k \in Keys |-> Absent]

(* get_extra(key, default): extras.get(key, default).                      *)
GetExtra(c, k, d) ==
    IF dicts[extrasOf[c]][k] = Absent THEN d ELSE dicts[extrasOf[c]][k]

(* BotContext(bot_id, account_id): the default factories give a fresh      *)
(* state store and an empty extras dict.                                   *)
Init ==
    /\ made = 1
    /\ extrasOf = [i \in Ids |-> 1]
    /\ storeOf = [i \in Ids |-> 1]
    /\ \E l \in Loggers : loggerOf = [i \in Ids |-> l]
    /\ dicts = [i \in Ids |-> EmptyDict]
    /\ writer = 0

(* add_extra(key, value): self.extras[key] = value.                         *)
AddExtra(c, k, v) ==
    /\ dicts' = [dicts EXCEPT ![extrasOf[c]][k] = v]
    /\ writer' = c
    /\ UNCHANGED <<made, extrasOf, storeOf, loggerOf>>

(* Mutation of WithLogger: the clone keeps a reference to the same extras  *)
(* dict (extras=ctx.extras).                                               *)
WithLoggerSharedExtras(c, l) ==
    LET n == made + 1 IN
    /\ made < MaxContexts
    /\ made' = n
    /\ extrasOf' = [extrasOf EXCEPT ![n] = extrasOf[c]]
    /\ storeOf' = [storeOf EXCEPT ![n] = storeOf[c]]
    /\ loggerOf' = [loggerOf EXCEPT ![n] = l]
    /\ writer' = 0
    /\ UNCHANGED dicts

(* with_logger(logger): dataclass_replace builds a new context with the   *)
(* same connectors and dict(ctx.extras), then sets the logger.             *)
WithLogger(c, l) ==
    LET n == made + 1 IN
    /\ made < MaxContexts
    /\ made' = n
    /\ extrasOf' = [extrasOf EXCEPT ![n] = n]
    /\ dicts' = [dicts EXCEPT ![n] = dicts[extrasOf[c]]]
    /\ storeOf' = [storeOf EXCEPT ![n] = storeOf[c]]
    /\ loggerOf' = [loggerOf EXCEPT ![n] = l]
    /\ writer' = 0

Next ==
    \E c \in 1..made :
        \/ \E k \in Keys, v \in Vals : AddExtra(c, k, v)
        \/ \E l \in Loggers : WithLogger(c, l)

Spec == Init /\ [][Next]_cvars

(* A context and its clones keep separate extras: add_extra through one    *)
(* context never changes what get_extra returns through another, though    *)
(* the clone started with a copy of the original's extras.                 *)
ExtrasIsolated ==
    [][writer' # 0 =>
        \A c \in 1..made, k \in Keys :
            c # writer' => GetExtra(c, k, Absent)' = GetExtra(c, k, Absent)]_cvars

=============================================================================
