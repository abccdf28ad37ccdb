------------------------------ MODULE BotBase ------------------------------
(***************************************************************************)
(* BotBase.__init__ (src/bots/python/sdk/base.py): a bot keeps             *)
(* dict(config) and dict(secrets), shallow copies of the mappings the      *)
(* embedding process passed, and a reference to its context.  Python      *)
(* dicts are references, so each holder points at a dict identity and the *)
(* contents live in store.  The embedding process keeps writing to the     *)
(* mappings it passed; the bot writes to its own attributes.  The hooks    *)
(* are user code with no state of BotBase and are BotRuntime's environment.*)
(***************************************************************************)
EXTENDS Naturals

CONSTANTS
    Keys,           \* keys of config and secrets
    Vals,           \* values stored under them
    Absent          \* model value: key not in the mapping

Fields == {"config", "secrets"}
Holders == {"embedder", "bot"}
Dict == [Keys -> Vals \cup {Absent}]

VARIABLES
    built,          \* BotBase.__init__ has run
    held,           \* [Holders \X Fields -> identity of the dict it refers to]
    store,          \* [identity -> contents]; "passed" is the embedder's, "copy" the bot's
    wrote           \* [Holders \X Fields -> Dict]: what each holder last wrote or was given

bvars == <<built, held, store, wrote>>

(* self.config[k] / mapping[k] as the holder sees it.                      *)
Read(h, f) == store[<<held[<<h, f>>], f>>]

Init ==
    /\ built = FALSE
    /\ \E d \in [Fields -> Dict] :
          /\ store = [p \in {"passed", "copy"} \X Fields |-> d[p[2]]]
          /\ wrote = [p \in Holders \X Fields |-> d[p[2]]]
    /\ held = [p \in Holders \X Fields |-> "passed"]

(* Mutation of Construct: self.config = config, keeping a reference to     *)
(* the caller's mapping instead of a copy.                                 *)
ConstructAliased ==
    /\ ~built
    /\ built' = TRUE
    /\ UNCHANGED <<held, store>>

(* __init__: self.config = dict(config); self.secrets = dict(secrets).     *)
Construct ==
    /\ ~built
    /\ built' = TRUE
    /\ held' = [p \in Holders \X Fields |->
                   IF p[1] = "bot" THEN "copy" ELSE "passed"]
    /\ store' = [p \in DOMAIN store |->
                   IF p[1] = "copy" THEN store[<<"passed", p[2]>>] ELSE store[p]]

(* What the bot was given: the mappings as they were when __init__ ran.    *)
Given ==
    wrote' = [p \in Holders \X Fields |->
                 IF p[1] = "bot" THEN Read("embedder", p[2]) ELSE wrote[p]]

(* A holder assigns mapping[k] = v through its own reference.             *)
Write(h, f, k, v) ==
    /\ h = "bot" => built
    /\ store' = [store EXCEPT ![<<held[<<h, f>>], f>>][k] = v]
    /\ wrote' = [wrote EXCEPT ![<<h, f>>] = store'[<<held[<<h, f>>], f>>]]
    /\ UNCHANGED <<built, held>>

Next ==
    \/ Construct /\ Given
    \/ \E h \in Holders, f \in Fields, k \in Keys, v \in Vals \cup {Absent} :
          Write(h, f, k, v)

Spec == Init /\ [][Next]_bvars

(* After construction the bot's config and secrets and the embedder's      *)
(* mappings evolve independently: each holder reads exactly what it was   *)
(* given or last wrote, whatever the other wrote since __init__ copied.    *)
ConfigIsolated ==
    built => \A h \in Holders, f \in Fields : Read(h, f) = wrote[<<h, f>>]

=============================================================================
