---------------------------- MODULE AcAdminProofs ----------------------------
(***************************************************************************)
(* What holds when the server stays in ADMIN mode, and, in any mode, what  *)
(* the ageing thread leaves alone.                                         *)
(***************************************************************************)
EXTENDS AcTableProofs

USE ConstantsOK

-----------------------------------------------------------------------------
(* The ageing thread's clock.                                              *)

\* Whatever a pass may act on is still overdue: a heartbeat and a new node take
\* their cell out of the running pass, too.
DueAreLate == due \subseteq overdue

LEMMA DueStep ==
  ASSUME DueAreLate, [Next]_vars
  PROVE  DueAreLate'
<1> USE DEF DueAreLate
<1>1. CASE UNCHANGED <<overdue, due>>
  BY <1>1
<1>2. CASE Age \/ Elapse
  BY <1>2 DEF Age, AgeMode1, AgeMode2, StartPass, AgeLock, AgeBucket, Elapse, nodeVars
<1>3. ASSUME NEW w \in Workers, Act(w) PROVE DueAreLate'
  BY <1>3 DEF Act, UseFreed, Heartbeat, NewAp, UserReport, QueueCommand, SendInfo, AddNode,
              DelNode, Link, nodeVars
<1>4. ASSUME NEW w \in Workers, Prepare(w) \/ DeadFrame(w) \/ Lock(w) \/ Find(w) \/ Unlock(w)
      PROVE  UNCHANGED <<overdue, due>>
  BY <1>4 DEF Prepare, CopyAddr, CopyData, ReadMode1, ReadMode2, HashSetMac, DeadFrame, Lock,
              Find, Unlock, nodeVars
<1>5. CASE Main
  BY <1>5 DEF Main, Recv, Spawn, SwitchToOpen, SwitchToAdmin, WipeBucket, nodeVars
<1>6. CASE UNCHANGED vars
  BY <1>6 DEF vars, nodeVars
<1> QED
  BY <1>1, <1>2, <1>3, <1>4, <1>5, <1>6 DEF Next, Worker

\* In every mode, across mode switches and the lock-free walk, a pass of the
\* ageing thread touches no AP that has been heard since the pass began.
THEOREM AgeingSparesFreshNodes == Spec => FreshNodesSurviveAgeing
<1>1. Init => DueAreLate
  BY DEF Init, DueAreLate
<1>2. ASSUME TypeOK, DueAreLate, Age, NEW n \in live \ overdue
      PROVE  n \in live' /\ status'[n] = status[n]
  <2>1. n \notin Late /\ n \in Nodes
    BY <1>2 DEF DueAreLate, Late, TypeOK, NodeTypes
  <2> QED
    BY <1>2, <2>1 DEF Age, AgeMode1, AgeMode2, AgeLock, AgeBucket, nodeVars
<1>3. TypeOK /\ DueAreLate /\ [Next]_vars =>
        [Age => \A n \in live \ overdue : n \in live' /\ status'[n] = status[n]]_vars
  BY <1>2
<1> QED
  BY <1>1, <1>3, DueStep, TypeCorrect, PTL DEF Spec, FreshNodesSurviveAgeing

-----------------------------------------------------------------------------
(* ADMIN mode.                                                             *)

\* Nobody runs a handler of another mode, and a handler that refuses off-line
\* nodes has one that is not.
AdminHandler(w) ==
  /\ pc[w] # "relock"
  /\ pc[w] \in {"key", "lock", "find", "act", "unlock"} => hnd[w] = "ADMIN"
  /\ pc[w] = "act" /\ tgt[w] # None /\ kind[w] \in {"SET", "USER"} =>
       status[tgt[w]] # "OFF_LINE"

AdminPass == apc \in {"lock", "scan"} => amode = "ADMIN"

AdminInv ==
  AdminPass /\ OfflineIsEmpty /\ \A w \in Workers : AdminHandler(w)

LEMMA AdminInit == Init => AdminInv
BY DEF Init, AdminInv, AdminPass, OfflineIsEmpty, AdminHandler

\* A worker in another bucket keeps what it knows.
LEMMA AdminElsewhere ==
  ASSUME NEW v \in Workers, SameLocals(v), hnd'[v] = hnd[v], AdminHandler(v),
         pc[v] = "act" /\ tgt[v] # None => status'[tgt[v]] = status[tgt[v]]
  PROVE  AdminHandler(v)'
BY DEF AdminHandler, SameLocals

LEMMA AdminMain ==
  ASSUME TypeOK, TableInv, AdminInv, Main
  PROVE  AdminInv'
<1>1. UNCHANGED <<live, status, users, cmds, apc, amode, hnd, tgt, arg, bkt>>
  BY DEF TableInv, NotWiping, Main, Recv, Spawn, SwitchToOpen, SwitchToAdmin, WipeBucket,
         nodeVars, workVars, agerVars
<1>2. AdminPass' /\ OfflineIsEmpty'
  BY <1>1 DEF AdminInv, AdminPass, OfflineIsEmpty
<1>3. ASSUME NEW v \in Workers PROVE AdminHandler(v)'
  <2>1. pc'[v] = "addr" \/ (pc'[v] = pc[v] /\ kind'[v] = kind[v])
    BY DEF Main, Recv, Spawn, SwitchToOpen, SwitchToAdmin, WipeBucket, Goto, workVars,
           TypeOK, WorkTypes
  <2> QED
    BY <1>1, <2>1 DEF AdminInv, AdminHandler
<1> QED
  BY <1>2, <1>3 DEF AdminInv

LEMMA AdminPrepare ==
  ASSUME AdminOnly, TypeOK, TableInv, AdminInv, NEW w \in Workers,
         Prepare(w) \/ DeadFrame(w) \/ Lock(w) \/ Find(w) \/ Unlock(w)
  PROVE  AdminInv'
<1>1. UNCHANGED <<live, status, users, cmds, apc, amode>>
  BY DEF Prepare, CopyAddr, CopyData, ReadMode1, ReadMode2, HashSetMac, DeadFrame, Lock, Find,
         Unlock, nodeVars, agerVars
<1>2. AdminPass' /\ OfflineIsEmpty'
  BY <1>1 DEF AdminInv, AdminPass, OfflineIsEmpty
<1>3. ASSUME NEW v \in Workers \ {w} PROVE AdminHandler(v)'
  <2>1. SameLocals(v) /\ hnd'[v] = hnd[v]
    BY DEF Prepare, CopyAddr, CopyData, ReadMode1, ReadMode2, HashSetMac, DeadFrame, Lock, Find,
           Unlock, Return, Goto, workVars, SameLocals, TypeOK, WorkTypes
  <2> QED
    BY <1>1, <2>1, AdminElsewhere DEF AdminInv
<1>4. AdminHandler(w)'
  <2>1. /\ pc \in [Workers -> Labels] /\ hnd \in [Workers -> Modes]
        /\ tgt \in [Workers -> Nodes \cup {None}] /\ AdminHandler(w) /\ mode = "ADMIN"
        /\ LocalOK(w)
    BY DEF TypeOK, WorkTypes, AdminInv, TableInv, NotWiping
  <2> USE <2>1 DEF AdminHandler, Goto
  <2>2. CASE CopyAddr(w)
    BY <2>2 DEF CopyAddr
  <2>3. CASE CopyData(w)
    BY <2>3 DEF CopyData
  <2>4. CASE ReadMode1(w)
    BY <2>4 DEF ReadMode1
  <2>5. CASE ReadMode2(w)
    BY <2>5 DEF ReadMode2
  <2>6. CASE HashSetMac(w)
    BY <2>6 DEF HashSetMac
  <2>7. CASE DeadFrame(w)
    BY <1>1, <2>7 DEF DeadFrame, workVars
  <2>8. CASE Lock(w)
    BY <1>1, <2>8 DEF Lock
  <2>9. CASE Find(w)
    <3>1. tgt[w] = None
      BY <2>9 DEF Find, LocalOK
    <3>2. tgt'[w] = None \/ (tgt'[w] \in Nodes /\ Usable(w, tgt'[w]))
      BY <2>9, <3>1 DEF Find, Chain, TypeOK, NodeTypes
    <3> QED
      BY <1>1, <2>9, <3>2 DEF Find, Usable
  <2>10. CASE Unlock(w)
    BY <2>10 DEF Unlock, Return
  <2> QED
    BY <2>2, <2>3, <2>4, <2>5, <2>6, <2>7, <2>8, <2>9, <2>10 DEF Prepare
<1> QED
  BY <1>2, <1>3, <1>4 DEF AdminInv

\* A handler that gives a node users or commands has checked that it is on-line,
\* and nobody can have set it off-line since.
LEMMA AdminAct ==
  ASSUME TypeOK, LocksMatchSections, TableInv, AdminInv, NEW w \in Workers, Act(w)
  PROVE  AdminInv'
<1>0. /\ FoundOK(w) /\ AdminHandler(w) /\ OfflineIsEmpty /\ ~UseFreed(w)
      /\ pc \in [Workers -> Labels] /\ live \subseteq Nodes /\ None \notin Nodes
      /\ status \in [Nodes -> Status] /\ users \in [Nodes -> SUBSET AllUsers]
      /\ cmds \in [Nodes -> Seq(AllCmds)]
  BY DEF TableInv, AdminInv, UseFreed, FoundOK, Found, TypeOK, WorkTypes, NodeTypes
<1>1. UNCHANGED <<apc, amode, kind, arg, hnd, bkt, tgt>>
  BY DEF Act, UseFreed, Heartbeat, NewAp, UserReport, QueueCommand, SendInfo, AddNode,
         DelNode, agerVars
<1>2. /\ pc[w] = "act" /\ hnd[w] = "ADMIN" /\ pc'[w] = "unlock"
      /\ \A v \in Workers \ {w} : pc'[v] = pc[v]
  <2>1. pc[w] = "act"
    BY DEF Act, UseFreed, Heartbeat, NewAp, UserReport, QueueCommand, SendInfo, AddNode,
           DelNode, At
  <2>2. hnd[w] = "ADMIN"
    BY <1>0, <2>1 DEF AdminHandler
  <2>3. pc' = [pc EXCEPT ![w] = "unlock"]
    BY <1>0, <2>2 DEF Act, Heartbeat, NewAp, UserReport, QueueCommand, SendInfo, AddNode,
                      DelNode, Leave, Goto
  <2> QED
    BY <1>0, <2>1, <2>2, <2>3
<1>3. OfflineIsEmpty'
  <2>1. CASE Heartbeat(w)
    BY <1>0, <1>2, <2>1 DEF Heartbeat, OfflineIsEmpty, Found
  <2>2. CASE NewAp(w) \/ SendInfo(w)
    BY <1>0, <1>2, <2>2 DEF NewAp, SendInfo, OfflineIsEmpty, nodeVars
  <2>3. CASE UserReport(w)
    <3>1. tgt[w] # None => status[tgt[w]] # "OFF_LINE"
      BY <1>0, <1>2, <2>3 DEF UserReport, At, AdminHandler
    <3>2. \A n \in live : status[n] = "OFF_LINE" => users'[n] = users[n]
      BY <1>0, <2>3, <3>1 DEF UserReport, Found
    <3> QED
      BY <1>0, <2>3, <3>2 DEF UserReport, OfflineIsEmpty
  <2>4. CASE QueueCommand(w)
    <3>1. tgt[w] # None => status[tgt[w]] # "OFF_LINE"
      BY <1>0, <1>2, <2>4 DEF QueueCommand, At, AdminHandler
    <3>2. \A n \in live : status[n] = "OFF_LINE" => cmds'[n] = cmds[n]
      BY <1>0, <2>4, <3>1 DEF QueueCommand, Found
    <3> QED
      BY <1>0, <2>4, <3>2 DEF QueueCommand, OfflineIsEmpty
  <2>5. CASE AddNode(w)
    BY <1>0, <2>5 DEF AddNode, Link, OfflineIsEmpty, nodeVars
  <2>6. CASE DelNode(w)
    BY <1>0, <2>6 DEF DelNode, OfflineIsEmpty
  <2> QED
    BY <1>0, <2>1, <2>2, <2>3, <2>4, <2>5, <2>6 DEF Act
<1>4. ASSUME NEW v \in Workers PROVE AdminHandler(v)'
  <2>1. CASE v = w
    BY <1>1, <1>2, <2>1 DEF AdminHandler
  <2>2. CASE v # w
    <3>1. SameLocals(v) /\ hnd'[v] = hnd[v] /\ AdminHandler(v) /\ FoundOK(v)
      BY <1>1, <1>2, <2>2 DEF SameLocals, AdminInv, TableInv
    <3>2. ASSUME pc[v] = "act", tgt[v] # None
          PROVE  status'[tgt[v]] = status[tgt[v]]
      <4>1. bkt[v] # bkt[w]
        BY <1>2, <2>2, <3>2, Apart DEF InSection
      <4>2. tgt[v] \in live /\ home[tgt[v]] = bkt[v]
        BY <3>1, <3>2 DEF FoundOK
      <4>3. CASE Heartbeat(w)
        <5>1. tgt[w] # tgt[v]
          BY <1>0, <1>2, <4>1, <4>2, <4>3 DEF Heartbeat, FoundOK, Found
        <5> QED
          BY <1>0, <4>2, <4>3, <5>1 DEF Heartbeat
      <4>4. CASE ~Heartbeat(w)
        BY <1>0, <1>2, <4>2, <4>4 DEF Act, NewAp, UserReport, QueueCommand, SendInfo, AddNode,
                                      DelNode, Link, nodeVars
      <4> QED
        BY <4>3, <4>4
    <3> QED
      BY <3>1, <3>2, AdminElsewhere
  <2> QED
    BY <2>1, <2>2
<1> QED
  BY <1>1, <1>3, <1>4 DEF AdminInv, AdminPass

LEMMA AdminAge ==
  ASSUME AdminOnly, TypeOK, LocksMatchSections, TableInv, AdminInv, Age \/ Elapse
  PROVE  AdminInv'
<1>1. UNCHANGED <<pc, kind, arg, hnd, bkt, tgt>> /\ mode = "ADMIN"
  BY DEF Age, AgeMode1, AgeMode2, AgeLock, AgeBucket, Elapse, workVars, TableInv, NotWiping
<1>2. AdminPass'
  BY <1>1 DEF Age, AgeMode1, AgeMode2, StartPass, AgeLock, AgeBucket, Elapse, agerVars,
              AdminInv, AdminPass
<1>3. CASE UNCHANGED <<live, status, users, cmds>>
  BY <1>1, <1>2, <1>3, AdminElsewhere DEF AdminInv, OfflineIsEmpty, SameLocals
<1>4. CASE AgeBucket
  <2>1. /\ live' = live /\ live \subseteq Nodes
        /\ \A n \in Nodes \ Late :
             status'[n] = status[n] /\ users'[n] = users[n] /\ cmds'[n] = cmds[n]
        /\ \A n \in Nodes \cap Late : users'[n] = {} /\ cmds'[n] = <<>>
    BY <1>4 DEF AgeBucket, AdminInv, AdminPass, TypeOK, NodeTypes
  <2>2. OfflineIsEmpty'
    BY <2>1 DEF OfflineIsEmpty, AdminInv
  <2>3. ASSUME NEW v \in Workers, pc[v] = "act", tgt[v] # None
        PROVE  status'[tgt[v]] = status[tgt[v]]
    <3>1. abkt \in Buckets /\ mutex[abkt] = Ager
      BY <1>4 DEF TypeOK, AgerTypes, AgeBucket, LocksMatchSections
    <3>2. bkt[v] # abkt
      BY <2>3, <3>1 DEF LocksMatchSections, InSection
    <3>3. tgt[v] \in live /\ tgt[v] \notin Late
      BY <2>3, <3>2 DEF TableInv, FoundOK, Late, Chain
    <3> QED
      BY <2>1, <3>3
  <2> QED
    BY <1>1, <1>2, <2>2, <2>3, AdminElsewhere DEF AdminInv, SameLocals
<1> QED
  BY <1>3, <1>4 DEF Age, AgeMode1, AgeMode2, AgeLock, Elapse, nodeVars

LEMMA AdminStep ==
  ASSUME AdminOnly, TypeOK, LocksMatchSections, TableInv, AdminInv, [Next]_vars
  PROVE  AdminInv'
<1>1. CASE UNCHANGED vars
  BY <1>1, AdminElsewhere DEF vars, nodeVars, workVars, agerVars, SameLocals, AdminInv,
                              AdminPass, OfflineIsEmpty
<1> QED
  BY <1>1, AdminMain, AdminPrepare, AdminAct, AdminAge DEF Next, Worker

LEMMA AdminSound ==
  ASSUME AdminOnly
  PROVE  Spec => []AdminInv
<1>1. NeverWiped
  BY DEF NeverWiped
<1> QED
  BY <1>1, AdminInit, AdminStep, TypeCorrect, SectionsAreLocked, TableSound, PTL DEF Spec

\* In ADMIN mode an AP that is off-line has neither users nor queued commands,
\* although the check of its status and the update are two steps of a worker.
THEOREM OfflineApsHoldNothing ==
  ASSUME AdminOnly
  PROVE  Spec => []OfflineIsEmpty
<1>1. AdminInv => OfflineIsEmpty
  BY DEF AdminInv
<1> QED
  BY <1>1, AdminSound, PTL

\* In ADMIN mode a node leaves the table only by a WEB_DEL_AP_NODE for its MAC.
THEOREM OnlyTheWebRemoves ==
  ASSUME AdminOnly
  PROVE  Spec => RegisteredApsStay
<1>1. ASSUME TypeOK, TableInv, AdminInv, Next, NEW n \in live \ live'
      PROVE  \E w \in Workers : kind[w] = "DEL" /\ pc[w] = "act" /\ arg[w].mac = apmac[n]
  <2>1. ~Main /\ ~Age /\ ~Elapse
    BY <1>1 DEF Main, Recv, Spawn, SwitchToOpen, SwitchToAdmin, WipeBucket, TableInv, NotWiping,
                Age, AgeMode1, AgeMode2, AgeLock, AgeBucket, Elapse, nodeVars, AdminInv, AdminPass
  <2>2. PICK w \in Workers : Act(w)
    BY <1>1, <2>1 DEF Next, Worker, Prepare, CopyAddr, CopyData, ReadMode1, ReadMode2,
                      HashSetMac, DeadFrame, Lock, Find, Unlock, nodeVars
  <2>3. Frees(w)
    BY <1>1, <2>2, ActEffect DEF Adds
  <2>4. pc[w] = "act"
    BY <2>2 DEF Act, UseFreed, Heartbeat, NewAp, UserReport, QueueCommand, SendInfo, AddNode,
                DelNode, At
  <2>5. tgt[w] = n /\ tgt[w] # None
    BY <1>1, <2>3 DEF Frees, TypeOK, NodeTypes
  <2> QED
    BY <1>1, <2>3, <2>4, <2>5 DEF Frees, TableInv, FoundOK
<1>2. TypeOK /\ TableInv /\ AdminInv /\ [Next]_vars =>
        [\A n \in live \ live' :
           \E w \in Workers : kind[w] = "DEL" /\ pc[w] = "act" /\ arg[w].mac = apmac[n]]_vars
  BY <1>1
<1>3. NeverWiped
  BY DEF NeverWiped
<1> QED
  BY <1>2, <1>3, AdminSound, TableSound, TypeCorrect, PTL DEF Spec, RegisteredApsStay
=============================================================================
