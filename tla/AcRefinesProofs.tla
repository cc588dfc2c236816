--------------------------- MODULE AcRefinesProofs ---------------------------
(***************************************************************************)
(* In ADMIN mode AcServer implements AcRegistry. The registry is read off  *)
(* the table node by node; the invariants that make this a function of the *)
(* MAC, and every handler's node the one of its MAC, are those of          *)
(* AcTableProofs and AcAdminProofs.                                        *)
(***************************************************************************)
EXTENDS AcRefines, AcAdminProofs

USE ConstantsOK

-----------------------------------------------------------------------------
(* The registry, from the nodes.                                           *)

\* What a node says of its AP.
EntryOf(n) == R!Ap(status[n], users[n], cmds[n])

\* The registry has an entry for every node, and no others.
MirrorsTable ==
  /\ Registry = [m \in AllMacs |-> Registry[m]]
  /\ \A n \in live : apmac[n] \in AllMacs /\ Registry[apmac[n]] = EntryOf(n)
  /\ \A m \in AllMacs : (\A n \in live : apmac[n] # m) => Registry[m] = R!Absent

LEMMA RegistryIsTheTable == NodeTypes /\ UniqueMac => MirrorsTable
<1> SUFFICES ASSUME NodeTypes, UniqueMac PROVE MirrorsTable
  OBVIOUS
<1>1. Registry = [m \in AllMacs |-> Registry[m]]
  BY DEF Registry
<1>2. ASSUME NEW n \in live PROVE apmac[n] \in AllMacs /\ Registry[apmac[n]] = EntryOf(n)
  <2>1. apmac[n] \in AllMacs
    BY <1>2 DEF NodeTypes
  <2>2. Node(apmac[n]) \in live /\ apmac[Node(apmac[n])] = apmac[n]
    BY <1>2 DEF Node
  <2>3. Node(apmac[n]) = n
    BY <1>2, <2>2 DEF UniqueMac
  <2> QED
    BY <1>2, <2>1, <2>3 DEF Registry, EntryOf, R!Ap
<1>3. ASSUME NEW m \in AllMacs, \A n \in live : apmac[n] # m
      PROVE  Registry[m] = R!Absent
  BY <1>3 DEF Registry, R!Absent, R!Ap
<1> QED
  BY <1>1, <1>2, <1>3 DEF MirrorsTable

LEMMA RegistryIsTheTableAfter ==
  ASSUME TypeOK', UniqueMac'
  PROVE  MirrorsTable'
<1>1. (NodeTypes /\ UniqueMac => MirrorsTable)'
  BY RegistryIsTheTable, PTL
<1> QED
  BY <1>1 DEF TypeOK

\* The fields of an AP.
LEMMA ApFields ==
  ASSUME NEW st, NEW us, NEW q
  PROVE  R!Ap(st, us, q).state = st /\ R!Ap(st, us, q).users = us /\ R!Ap(st, us, q).queue = q
BY DEF R!Ap

\* An AP with a node is known to the registry.
LEMMA NodesAreKnown ==
  ASSUME NodeTypes, MirrorsTable, NEW n \in live
  PROVE  R!Known(apmac[n])
<1>1. Registry[apmac[n]].state = status[n]
  BY ApFields DEF MirrorsTable, EntryOf
<1>2. status[n] # "ABSENT"
  BY DEF NodeTypes, Status
<1> QED
  BY <1>1, <1>2 DEF R!Known

-----------------------------------------------------------------------------
(* How the registry changes with the table.                                *)

\* A node that is neither changed nor moved to another AP.
SameNode(x) ==
  /\ apmac'[x] = apmac[x] /\ status'[x] = status[x]
  /\ users'[x] = users[x] /\ cmds'[x] = cmds[x]

LEMMA SameEntry ==
  ASSUME NEW x, SameNode(x)
  PROVE  apmac'[x] = apmac[x] /\ EntryOf(x)' = EntryOf(x)
BY DEF SameNode, EntryOf

LEMMA SameTable ==
  ASSUME MirrorsTable, MirrorsTable', live' = live, \A x \in live : SameNode(x)
  PROVE  Registry' = Registry
<1>1. ASSUME NEW m \in AllMacs PROVE Registry'[m] = Registry[m]
  <2>1. CASE \A n \in live : apmac[n] # m
    BY <2>1, SameEntry DEF MirrorsTable, R!Absent
  <2>2. CASE \E n \in live : apmac[n] = m
    BY <2>2, SameEntry DEF MirrorsTable
  <2> QED
    BY <2>1, <2>2
<1> QED
  BY <1>1 DEF MirrorsTable

\* One node is new, or changes what it says of its AP.
LEMMA OneNode ==
  ASSUME MirrorsTable, MirrorsTable', NEW n, NEW m \in AllMacs,
         live' = live \cup {n}, apmac'[n] = m, n \in live => apmac[n] = m,
         \A x \in live \ {n} : SameNode(x)
  PROVE  Registry' = [Registry EXCEPT ![m] = EntryOf(n)']
<1>1. Registry'[m] = EntryOf(n)'
  BY DEF MirrorsTable
<1>2. ASSUME NEW k \in AllMacs \ {m} PROVE Registry'[k] = Registry[k]
  <2>1. CASE \A x \in live : apmac[x] # k
    BY <1>2, <2>1, SameEntry DEF MirrorsTable, R!Absent
  <2>2. CASE \E x \in live : apmac[x] = k
    BY <1>2, <2>2, SameEntry DEF MirrorsTable
  <2> QED
    BY <2>1, <2>2
<1> QED
  BY <1>1, <1>2 DEF MirrorsTable

\* One node is freed: no other has its MAC.
LEMMA NodeGone ==
  ASSUME MirrorsTable, MirrorsTable', UniqueMac, NEW n \in live, live' = live \ {n},
         \A x \in live \ {n} : SameNode(x)
  PROVE  Registry' = [Registry EXCEPT ![apmac[n]] = R!Absent]
<1>1. apmac[n] \in AllMacs
  BY DEF MirrorsTable
<1>2. Registry'[apmac[n]] = R!Absent
  <2>1. \A x \in live' : apmac'[x] # apmac[n]
    BY DEF SameNode, UniqueMac
  <2> QED
    BY <1>1, <2>1 DEF MirrorsTable, R!Absent
<1>3. ASSUME NEW k \in AllMacs \ {apmac[n]} PROVE Registry'[k] = Registry[k]
  <2>1. CASE \A x \in live : apmac[x] # k
    BY <1>3, <2>1, SameEntry DEF MirrorsTable, R!Absent
  <2>2. CASE \E x \in live : apmac[x] = k
    BY <1>3, <2>2, SameEntry DEF MirrorsTable
  <2> QED
    BY <2>1, <2>2
<1> QED
  BY <1>1, <1>2, <1>3 DEF MirrorsTable

-----------------------------------------------------------------------------
(* Each step of the server, as a step of the registry.                     *)

\* The table is left alone and nothing is sent.
LEMMA QuietStep ==
  ASSUME MirrorsTable, MirrorsTable', UNCHANGED nodeVars, out' = <<>>
  PROVE  R!Next
<1>1. Registry' = Registry
  BY SameTable DEF nodeVars, SameNode
<1> QED
  BY <1>1 DEF R!Next, R!Quiet

LEMMA MainRefines ==
  ASSUME AdminOnly, TableInv, Main, MirrorsTable, MirrorsTable'
  PROVE  R!Next
<1>1. UNCHANGED nodeVars /\ out' = <<>>
  BY DEF TableInv, NotWiping, Main, Recv, Spawn, SwitchToOpen, SwitchToAdmin, WipeBucket
<1> QED
  BY <1>1, QuietStep

LEMMA PrepareRefines ==
  ASSUME TypeOK, NEW w \in Workers, MirrorsTable, MirrorsTable',
         Prepare(w) \/ DeadFrame(w) \/ Lock(w) \/ Find(w) \/ Unlock(w)
  PROVE  R!Next
<1>1. UNCHANGED nodeVars
  BY DEF Prepare, CopyAddr, CopyData, ReadMode1, ReadMode2, HashSetMac, DeadFrame, Lock, Find,
         Unlock
<1>2. CASE out' = <<>>
  BY <1>1, <1>2, QuietStep
<1>3. CASE out' # <<>>
  <2>1. out' = <<R!Tell(peer[w], res[w])>>
    BY <1>3 DEF Prepare, CopyAddr, CopyData, ReadMode1, ReadMode2, HashSetMac, DeadFrame, Lock,
                Find, Unlock, Tell, R!Tell
  <2>2. peer[w] \in Clients /\ res[w] \in {"RES_OK", "RES_FAIL"}
    BY DEF TypeOK, WorkTypes
  <2>3. Registry' = Registry
    BY <1>1, SameTable DEF nodeVars, SameNode
  <2> QED
    BY <2>1, <2>2, <2>3 DEF R!Next, R!Confirm
<1> QED
  BY <1>2, <1>3

\* What a worker found, in the registry's words.
LEMMA FoundEntry ==
  ASSUME TypeOK, TableInv, AdminInv, MirrorsTable, NEW w \in Workers,
         pc[w] = "act", tgt[w] # None
  PROVE  LET n == tgt[w] IN
         /\ n \in live /\ n \in Nodes /\ apmac[n] \in AllMacs
         /\ Registry[apmac[n]] = R!Ap(status[n], users[n], cmds[n])
         /\ kind[w] # "SET" => apmac[n] = arg[w].mac
         /\ kind[w] \in {"SET", "USER"} => status[n] = "ON_LINE"
<1>1. FoundOK(w) /\ AdminHandler(w)
  BY DEF TableInv, AdminInv
<1>2. tgt[w] \in live /\ live \subseteq Nodes /\ status \in [Nodes -> Status]
  BY <1>1 DEF FoundOK, TypeOK, NodeTypes
<1>3. kind[w] \in {"SET", "USER"} => status[tgt[w]] = "ON_LINE"
  BY <1>1, <1>2 DEF AdminHandler, Status
<1> QED
  BY <1>1, <1>2, <1>3 DEF FoundOK, MirrorsTable, EntryOf

\* What a handler does to the node it found, and what it sends, is what the
\* registry does to the AP, whoever else ran between the lookup and now.
LEMMA ActRefines ==
  ASSUME TypeOK, TableInv, AdminInv, MirrorsTable, MirrorsTable', NEW w \in Workers, Act(w)
  PROVE  R!Next
<1> SUFFICES ASSUME NEW n, n = tgt[w], NEW m, m = apmac[n] PROVE R!Next
  OBVIOUS
<1>0. /\ pc[w] = "act" /\ hnd[w] = "ADMIN" /\ ~UseFreed(w) /\ None \notin live
      /\ peer[w] \in Clients /\ arg[w] \in Report /\ buf.cmd \in AllCmds
  <2>1. pc[w] = "act"
    BY DEF Act, UseFreed, Heartbeat, NewAp, UserReport, QueueCommand, SendInfo, AddNode,
           DelNode, At
  <2>2. hnd[w] = "ADMIN" /\ FoundOK(w)
    BY <2>1 DEF AdminInv, AdminHandler, TableInv
  <2>3. ~UseFreed(w)
    BY <2>2 DEF UseFreed, FoundOK, Found
  <2> QED
    BY <2>1, <2>2, <2>3 DEF TypeOK, MainTypes, NodeTypes, WorkTypes, Buffer
<1>1. CASE UNCHANGED nodeVars /\ out' = <<>>
  BY <1>1, QuietStep
<1>2. CASE Heartbeat(w)
  <2>1. n \in live /\ n \in Nodes /\ m \in AllMacs /\ m = arg[w].mac
      /\ Registry[m] = R!Ap(status[n], users[n], cmds[n])
    BY <1>0, <1>2, FoundEntry DEF Heartbeat, At, Found
  <2>2. /\ live' = live /\ apmac' = [apmac EXCEPT ![n] = m] /\ users' = users
        /\ status' = [status EXCEPT ![n] = "ON_LINE"] /\ cmds' = [cmds EXCEPT ![n] = <<>>]
    BY <1>0, <1>2, <2>1 DEF Heartbeat
  <2>3. EntryOf(n)' = R!Ap("ON_LINE", users[n], <<>>)
    BY <2>1, <2>2 DEF EntryOf, TypeOK, NodeTypes
  <2>4. Registry' = [Registry EXCEPT ![m] = EntryOf(n)']
    <3>1. \A x \in live \ {n} : SameNode(x)
      BY <2>1, <2>2 DEF SameNode, TypeOK, NodeTypes
    <3>2. apmac'[n] = m /\ live' = live \cup {n}
      BY <2>1, <2>2 DEF TypeOK, NodeTypes
    <3> QED
      BY <2>1, <3>1, <3>2, OneNode
  <2>5. Registry' = [Registry EXCEPT ![m] = R!Ap("ON_LINE", Registry[m].users, <<>>)]
    <3>1. Registry[m].users = users[n]
      BY <2>1, ApFields
    <3> QED
      BY <2>3, <2>4, <3>1
  <2>6. out' = (IF R!Online(m) THEN <<>> ELSE <<R!Tell(peer[w], "SET_ON")>>)
                 \o <<R!Tell(peer[w], "HEART_BEAT")>> \o R!Commands(peer[w], Registry[m].queue)
    <3>1. Registry[m].state = status[n] /\ Registry[m].queue = cmds[n]
      BY <2>1, ApFields
    <3>2. status[n] = "OFF_LINE" <=> ~R!Online(m)
      BY <2>1, <3>1 DEF TypeOK, NodeTypes, Status, R!Online
    <3>3. Commands(w, n) = R!Commands(peer[w], Registry[m].queue)
      BY <3>1 DEF Commands, R!Commands, Tell, R!Tell
    <3> QED
      BY <1>0, <1>2, <3>2, <3>3 DEF Heartbeat, Tell, R!Tell
  <2>7. R!Heartbeat(m, peer[w])
    <3>1. R!Known(m)
      BY <2>1, NodesAreKnown DEF TypeOK
    <3> QED
      BY <2>5, <2>6, <3>1 DEF R!Heartbeat
  <2> QED
    BY <1>0, <2>1, <2>7 DEF R!Next
<1>3. CASE NewAp(w)
  BY <1>0, <1>1, <1>3 DEF NewAp
<1>4. CASE UserReport(w) /\ n # None
  <2>1. n \in live /\ n \in Nodes /\ m \in AllMacs /\ status[n] = "ON_LINE"
      /\ Registry[m] = R!Ap("ON_LINE", users[n], cmds[n])
    BY <1>0, <1>4, FoundEntry DEF UserReport, At
  <2>2. PICK us \in UserLists(users[n], arg[w].user, arg[w].down) :
          users' = [users EXCEPT ![n] = us]
    BY <1>4 DEF UserReport
  <2>3. us \in SUBSET (Registry[m].users \cup {arg[w].user}) /\ arg[w].user \in AllUsers
    <3>1. Registry[m].users = users[n]
      BY <2>1, ApFields
    <3> QED
      BY <1>0, <3>1 DEF UserLists, Report
  <2>4. UNCHANGED <<live, apmac, status, cmds>> /\ out' = <<>>
    BY <1>4 DEF UserReport
  <2>5. EntryOf(n)' = R!Ap("ON_LINE", us, cmds[n])
    BY <2>1, <2>2, <2>4 DEF EntryOf, TypeOK, NodeTypes
  <2>6. Registry' = [Registry EXCEPT ![m] = EntryOf(n)']
    <3>1. \A x \in live \ {n} : SameNode(x)
      BY <2>1, <2>2, <2>4 DEF SameNode, TypeOK, NodeTypes
    <3> QED
      BY <2>1, <2>4, <3>1, OneNode
  <2>7. R!Report(m, arg[w].user)
    <3>1. R!Online(m)
      BY <2>1, ApFields DEF R!Online
    <3>2. Registry[m].queue = cmds[n]
      BY <2>1, ApFields
    <3> QED
      BY <2>3, <2>4, <2>5, <2>6, <3>1, <3>2 DEF R!Report
  <2> QED
    BY <2>1, <2>3, <2>7 DEF R!Next
<1>5. CASE UserReport(w) /\ n = None
  <2>1. UNCHANGED nodeVars /\ out' = <<>>
    BY <1>0, <1>5 DEF UserReport, Found, nodeVars
  <2> QED
    BY <1>1, <2>1
<1>6. CASE QueueCommand(w) /\ cmds' # cmds
  <2>1. n # None /\ cmds' = [cmds EXCEPT ![n] = <<buf.cmd>> \o @]
    BY <1>0, <1>6 DEF QueueCommand, Found
  <2>2. n \in live /\ n \in Nodes /\ m \in AllMacs /\ status[n] = "ON_LINE"
      /\ Registry[m] = R!Ap("ON_LINE", users[n], cmds[n])
    BY <1>0, <1>6, <2>1, FoundEntry DEF QueueCommand, At
  <2>3. UNCHANGED <<live, apmac, status, users>> /\ out' = <<>>
    BY <1>6 DEF QueueCommand
  <2>4. EntryOf(n)' = R!Ap("ON_LINE", users[n], <<buf.cmd>> \o cmds[n])
    BY <2>1, <2>2, <2>3 DEF EntryOf, TypeOK, NodeTypes
  <2>5. Registry' = [Registry EXCEPT ![m] = EntryOf(n)']
    <3>1. \A x \in live \ {n} : SameNode(x)
      BY <2>1, <2>2, <2>3 DEF SameNode, TypeOK, NodeTypes
    <3> QED
      BY <2>2, <2>3, <3>1, OneNode
  <2>6. R!Queue(m, buf.cmd)
    <3>1. R!Online(m)
      BY <2>2, ApFields DEF R!Online
    <3>2. Registry[m].users = users[n] /\ Registry[m].queue = cmds[n]
      BY <2>2, ApFields
    <3> QED
      BY <2>3, <2>4, <2>5, <3>1, <3>2 DEF R!Queue
  <2> QED
    BY <1>0, <2>2, <2>6 DEF R!Next
<1>7. CASE QueueCommand(w) /\ cmds' = cmds
  BY <1>1, <1>7 DEF QueueCommand, nodeVars
<1>8. CASE SendInfo(w) /\ n # None
  <2>1. n \in live /\ m \in AllMacs /\ Registry[m] = R!Ap(status[n], users[n], cmds[n])
    BY <1>0, <1>8, FoundEntry DEF SendInfo, At
  <2>2. out' = <<[R!Tell(peer[w], "AP_INFO") EXCEPT !.users = Registry[m].users],
                 R!Tell(peer[w], "RES_OK")>>
    BY <1>8, <2>1, ApFields DEF SendInfo, Tell, R!Tell
  <2>3. Registry' = Registry
    BY <1>8, SameTable DEF SendInfo, nodeVars, SameNode
  <2>4. R!Inform(m, peer[w])
    <3>1. R!Known(m)
      BY <2>1, NodesAreKnown DEF TypeOK
    <3> QED
      BY <2>2, <2>3, <3>1 DEF R!Inform
  <2> QED
    BY <1>0, <2>1, <2>4 DEF R!Next
<1>9. CASE SendInfo(w) /\ n = None
  BY <1>0, <1>1, <1>9 DEF SendInfo, Found
<1>10. CASE AddNode(w) /\ live' # live
  <2> DEFINE k == arg[w].mac
  <2>1. PICK x \in Nodes \ live : Link(x, k, "OFF_LINE", TRUE)
    BY <1>10 DEF AddNode, nodeVars
  <2>2. tgt[w] = None /\ kind[w] = "ADD" /\ out' = <<>> /\ k \in AllMacs
    BY <1>0, <1>10 DEF AddNode, At, nodeVars, Report
  <2>3. Registry[k] = R!Absent
    BY <1>0, <2>2 DEF TableInv, MissedOK, MirrorsTable
  <2>4. EntryOf(x)' = R!Registered
    BY <2>1 DEF Link, EntryOf, R!Registered, TypeOK, NodeTypes
  <2>5. Registry' = [Registry EXCEPT ![k] = EntryOf(x)']
    <3>1. \A y \in live \ {x} : SameNode(y)
      BY <2>1 DEF Link, SameNode, TypeOK, NodeTypes
    <3>2. apmac'[x] = k /\ live' = live \cup {x} /\ x \notin live
      BY <2>1 DEF Link, TypeOK, NodeTypes
    <3> QED
      BY <2>2, <3>1, <3>2, OneNode
  <2>6. R!Register(k)
    BY <2>2, <2>3, <2>4, <2>5, ApFields DEF R!Register, R!Known, R!Absent
  <2> QED
    BY <2>2, <2>6 DEF R!Next
<1>11. CASE AddNode(w) /\ live' = live
  <2>1. UNCHANGED nodeVars /\ out' = <<>>
    BY <1>11 DEF AddNode, Link
  <2> QED
    BY <1>1, <2>1
<1>12. CASE DelNode(w) /\ n # None
  <2>1. n \in live /\ m \in AllMacs /\ Registry[m] = R!Ap(status[n], users[n], cmds[n])
    BY <1>0, <1>12, FoundEntry DEF DelNode, At
  <2>2. live' = live \ {n} /\ UNCHANGED <<apmac, status, users, cmds>> /\ out' = <<>>
    BY <1>12 DEF DelNode
  <2>3. \A x \in live \ {n} : SameNode(x)
    BY <2>2 DEF SameNode
  <2>4. Registry' = [Registry EXCEPT ![m] = R!Absent]
    BY <2>1, <2>2, <2>3, NodeGone DEF TableInv
  <2>5. R!Remove(m)
    BY <2>1, <2>2, <2>4, NodesAreKnown DEF R!Remove, TypeOK
  <2> QED
    BY <2>1, <2>5 DEF R!Next
<1>13. CASE DelNode(w) /\ n = None
  <2>1. UNCHANGED nodeVars /\ out' = <<>>
    BY <1>0, <1>13 DEF DelNode, Found, nodeVars
  <2> QED
    BY <1>1, <2>1
<1> QED
  BY <1>0, <1>2, <1>3, <1>4, <1>5, <1>6, <1>7, <1>8, <1>9, <1>10, <1>11, <1>12, <1>13 DEF Act

\* The ageing thread: a bucket's overdue APs go off-line together.
LEMMA AgeRefines ==
  ASSUME TypeOK, UniqueMac, AdminInv, MirrorsTable, MirrorsTable', Age \/ Elapse
  PROVE  R!Next
<1>1. CASE UNCHANGED <<live, apmac, status, users, cmds>>
  <2>1. out' = <<>>
    BY DEF Age, AgeMode1, AgeMode2, AgeLock, AgeBucket, Elapse
  <2>2. Registry' = Registry
    BY <1>1, SameTable DEF SameNode
  <2> QED
    BY <2>1, <2>2 DEF R!Next, R!Quiet
<1>2. CASE AgeBucket
  <2> DEFINE S == {apmac[n] : n \in Late}
  <2>1. /\ live' = live /\ apmac' = apmac /\ Late \subseteq live /\ live \subseteq Nodes
        /\ out' = <<>>
        /\ \A n \in Nodes \ Late : SameNode(n)
        /\ \A n \in Nodes \cap Late : status'[n] = "OFF_LINE" /\ users'[n] = {} /\ cmds'[n] = <<>>
    BY <1>2 DEF AgeBucket, AdminInv, AdminPass, TypeOK, NodeTypes, Late, Chain, SameNode
  <2>2. \A n \in Nodes \cap Late : EntryOf(n)' = R!Registered
    BY <2>1 DEF EntryOf, R!Registered
  <2>3. S \in SUBSET AllMacs /\ \A m \in S : R!Known(m)
    <3>1. \A n \in live : R!Known(apmac[n])
      BY NodesAreKnown DEF TypeOK
    <3> QED
      BY <2>1, <3>1 DEF MirrorsTable
  <2>4. ASSUME NEW m \in AllMacs
        PROVE  Registry'[m] = IF m \in S THEN R!Registered ELSE Registry[m]
    <3>1. CASE \A n \in live : apmac[n] # m
      BY <2>1, <3>1 DEF MirrorsTable, R!Absent
    <3>2. ASSUME NEW n \in live, apmac[n] = m
          PROVE  Registry'[m] = IF m \in S THEN R!Registered ELSE Registry[m]
      <4>1. n \in Late <=> m \in S
        BY <2>1, <3>2 DEF UniqueMac
      <4>2. Registry'[m] = EntryOf(n)' /\ Registry[m] = EntryOf(n)
        BY <2>1, <3>2 DEF MirrorsTable
      <4> QED
        BY <2>1, <2>2, <3>2, <4>1, <4>2, SameEntry
    <3> QED
      BY <3>1, <3>2
  <2>5. Registry' = [m \in AllMacs |-> IF m \in S THEN R!Registered ELSE Registry[m]]
    BY <2>4 DEF MirrorsTable
  <2>6. R!Expire(S)
    BY <2>1, <2>3, <2>5 DEF R!Expire
  <2> QED
    BY <2>3, <2>6 DEF R!Next
<1> QED
  BY <1>1, <1>2 DEF Age, AgeMode1, AgeMode2, AgeLock, Elapse, nodeVars

-----------------------------------------------------------------------------
\* In ADMIN mode, for any numbers of APs, threads, cells and buckets, the cw_admin_
\* handlers and the ageing of cloud_wlan_ap_info_list.c are a registry: every step of
\* the threads is one operation of the registry, with its answers, or a stutter.
THEOREM ServerIsARegistry ==
  ASSUME AdminOnly
  PROVE  Spec => R!Spec /\ ImplementsRegistry
<1> DEFINE Inv == TypeOK /\ TableInv /\ AdminInv
<1>1. Init => R!Init
  BY DEF Init, R!Init, Registry, R!Absent, R!Ap
<1>2. Inv /\ Inv' /\ [Next]_vars => [R!Next]_(R!vars)
  <2> SUFFICES ASSUME Inv, Inv', [Next]_vars PROVE [R!Next]_(R!vars)
    OBVIOUS
  <2>1. MirrorsTable
    BY RegistryIsTheTable DEF TypeOK, TableInv
  <2>2. MirrorsTable'
    BY RegistryIsTheTableAfter DEF TableInv
  <2>3. CASE UNCHANGED vars
    <3>1. Registry' = Registry
      BY <2>1, <2>2, <2>3, SameTable DEF vars, nodeVars, SameNode
    <3> QED
      BY <2>3, <3>1 DEF vars, R!vars
  <2>4. CASE Next
    BY <2>1, <2>2, <2>4, MainRefines, PrepareRefines, ActRefines, AgeRefines
       DEF Next, Worker, TableInv
  <2> QED
    BY <2>3, <2>4
<1>3. NeverWiped
  BY DEF NeverWiped
<1>4. Spec => []Inv
  BY <1>3, TypeCorrect, TableSound, AdminSound, PTL
<1> QED
  BY <1>1, <1>2, <1>4, PTL DEF Spec, R!Spec, ImplementsRegistry
=============================================================================
