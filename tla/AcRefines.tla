----------------------------- MODULE AcRefines ------------------------------
(***************************************************************************)
(* In ADMIN mode AcServer implements AcRegistry. An entry of the registry  *)
(* is the node a lookup would find; the step at which an operation takes   *)
(* effect is the one that uses the node found, inside its bucket's lock.   *)
(***************************************************************************)
EXTENDS AcServer

Node(m) == CHOOSE n \in live : apmac[n] = m

Registry ==
  [m \in AllMacs |->
    IF \E n \in live : apmac[n] = m
    THEN [state |-> status[Node(m)], users |-> users[Node(m)], queue |-> cmds[Node(m)]]
    ELSE [state |-> "ABSENT", users |-> {}, queue |-> <<>>]]

R == INSTANCE AcRegistry
       WITH Macs <- AllMacs, Users <- AllUsers, Cmds <- AllCmds, reg <- Registry

\* Every step of the threaded server is a step of the registry or leaves it
\* alone: the lookups and updates of the workers and the ageing thread are
\* atomic, and an AP is told exactly what the registry holds for it.
ImplementsRegistry == [][R!Next]_(R!vars)
=============================================================================
