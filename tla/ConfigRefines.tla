---------------------------- MODULE ConfigRefines ----------------------------
(***************************************************************************)
(* ApDaemon implements ConfigStore. The order for a key is the job of the  *)
(* thread that is at it: on its way to the database until its statement is *)
(* executed, then on its way to the kernel until the message is sent. The  *)
(* local thread has none before it has read the database; its orders are   *)
(* for what was active before, to be so again.                             *)
(***************************************************************************)
EXTENDS ApDaemon

Carrying == Doing \ {"fetch"}
At(t, k) == job[t].key = k /\ pc[t] \in Carrying
Storing == {"wipe", "wiped", "print", "exec"}

OrderOf(t) ==
  [to |-> IF pc[t] \in Storing THEN "database" ELSE IF t = "lc" THEN "again" ELSE "kernel",
   val |-> job[t].val]

Ordered ==
  [k \in Keys |-> CASE At("hb", k) -> OrderOf("hb")
                    [] At("rx", k) -> OrderOf("rx")
                    [] At("lc", k) -> OrderOf("lc")
                    [] OTHER -> [to |-> "nowhere", val |-> "bare"]]

C == INSTANCE ConfigStore
       WITH Start <- [k \in Keys |-> IF k \in Switches THEN "off" ELSE "zero"],
            Listed <- {"white"}, Named <- {"portal"}, Least <- "bare",
            Garbage <- "garbled", sealed <- IF framed THEN {"portal"} ELSE {},
            stored <- store, active <- kernel, order <- Ordered, mixed <- clash

\* [C!Next]_(C!vars), the cheaper half first.
ConfigStep == UNCHANGED C!vars \/ C!Next

\* Every step of the four threads is a step of the configuration store or leaves it
\* alone, until two of them clash: although an order passes through an SQL text and a
\* message that all of them share, what is stored and what becomes active for a key
\* is what was ordered for it, but for a portal of the AC that is made active again,
\* which is never what was stored, and a list of the AC, which may be another.
ImplementsConfig == [][ConfigStep]_vars
=============================================================================
