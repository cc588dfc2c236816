--------------------------- MODULE AcServerProofs ---------------------------
(***************************************************************************)
(* Theorems about AcServer, for any number of threads, heap cells, APs,    *)
(* buckets and sections.                                                   *)
(***************************************************************************)
EXTENDS AcServer, TLAPS

USE ConstantsOK

-----------------------------------------------------------------------------
(* Lemmas about the operators of the model.                                *)

\* The ageing thread's start bucket is in the table for every section key.
LEMMA FirstBucketInTable ==
  ASSUME akey \in 0 .. Sections - 1
  PROVE  FirstBucket \in Buckets
<1> DEFINE s == HashLen \div Sections
<1>1. s \in Nat /\ s * Sections <= HashLen
  OBVIOUS
<1>2. s >= 1
  OBVIOUS
<1>3. akey * s < Sections * s
  BY <1>1, <1>2
<1>4. akey * s \in Nat
  BY <1>1
<1> QED
  BY <1>1, <1>3, <1>4 DEF FirstBucket, Step, Buckets

\* The section key wraps around.
LEMMA NextSectionInRange ==
  ASSUME akey \in 0 .. Sections - 1
  PROVE  NextSection \in 0 .. Sections - 1
BY DEF NextSection

\* Every MAC hashes to a bucket of the table.
LEMMA BucketInTable == \A m \in AllMacs : Bucket[m] \in Buckets
BY DEF Buckets

\* What a datagram leaves in the receive buffer is a buffer.
LEMMA OverlayType ==
  ASSUME buf \in Buffer, NEW m \in Msgs
  PROVE  Overlay(m) \in Buffer /\ m.from \in Clients
BY DEF Overlay, Buffer, Datagram, Kinds, SwitchKinds, SpawnKinds, AllMacs, AllUsers,
       AllCmds, Report, JunkReport

\* A reply built by Tell is one, whatever command or users it carries.
LEMMA TellType ==
  ASSUME NEW c \in Clients, NEW type \in ReplyTypes
  PROVE  /\ Tell(c, type) \in Reply
         /\ \A x \in AllCmds : [Tell(c, type) EXCEPT !.cmd = x] \in Reply
         /\ \A us \in SUBSET AllUsers : [Tell(c, type) EXCEPT !.users = us] \in Reply
BY DEF Tell, Reply, AllCmds

\* One such reply, or none, is a sequence of replies.
LEMMA OneReply ==
  ASSUME NEW c \in Clients, NEW type \in ReplyTypes
  PROVE  <<Tell(c, type)>> \in Seq(Reply) /\ <<>> \in Seq(Reply)
<1>1. Tell(c, type) \in Reply
  BY TellType
<1> QED
  BY <1>1

\* The commands a heartbeat is answered with are replies.
LEMMA CommandsType ==
  ASSUME NodeTypes, WorkTypes, NEW w \in Workers, NEW n \in Nodes
  PROVE  Commands(w, n) \in Seq(Reply)
<1>1. cmds[n] \in Seq(AllCmds) /\ peer[w] \in Clients
  BY DEF NodeTypes, WorkTypes
<1>2. \A i \in 1 .. Len(cmds[n]) : [Tell(peer[w], "CMD") EXCEPT !.cmd = cmds[n][i]] \in Reply
  BY <1>1, TellType DEF ReplyTypes
<1>3. Len(cmds[n]) \in Nat
  BY <1>1
<1> QED
  BY <1>2, <1>3 DEF Commands

\* The constants a worker's locals are reset to have the right types.
LEMMA ResetTypes ==
  /\ Idle \in Clients /\ JunkReport \in Report /\ JunkMac \in AllMacs
  /\ NoCmd \in AllCmds /\ 0 \in Buckets /\ 0 \in 0 .. Sections - 1
BY DEF Idle, JunkReport, Report, AllMacs, AllUsers, AllCmds, Buckets

-----------------------------------------------------------------------------
(* Type correctness, one group of variables at a time.                     *)

LEMMA TypeInit == Init => TypeOK
<1> SUFFICES ASSUME Init PROVE TypeOK
  OBVIOUS
<1>1. MainTypes
  BY ResetTypes DEF Init, MainTypes, Buffer, Kinds, SpawnKinds
<1>2. NodeTypes
  <2>1. <<>> \in Seq(AllCmds)
    OBVIOUS
  <2> QED
    BY <2>1, ResetTypes DEF Init, NodeTypes, Status
<1>3. WorkTypes
  BY ResetTypes DEF Init, WorkTypes, SpawnKinds, Modes, Labels
<1>4. AgerTypes
  BY ResetTypes DEF Init, AgerTypes, Modes
<1>5. mutex \in [Buckets -> Threads \cup {None}] /\ out \in Seq(Reply)
  BY DEF Init
<1> QED
  BY <1>1, <1>2, <1>3, <1>4, <1>5 DEF TypeOK

LEMMA TypeMain ==
  ASSUME TypeOK, Main
  PROVE  TypeOK'
<1> USE DEF TypeOK
<1>1. CASE Recv
  <2>1. MainTypes'
    BY <1>1, OverlayType DEF Recv, MainTypes
  <2> QED
    BY <1>1, <2>1 DEF Recv, NodeTypes, WorkTypes, AgerTypes, nodeVars, workVars, agerVars
<1>2. CASE Spawn
  <2>1. MainTypes'
    BY <1>2 DEF Spawn, MainTypes
  <2>2. WorkTypes'
    <3>1. CASE UNCHANGED <<pc, kind>>
      BY <1>2, <3>1 DEF Spawn, WorkTypes
    <3>2. CASE \E w \in Workers : Goto(w, "addr") /\ kind' = [kind EXCEPT ![w] = buf.kind]
      BY <1>2, <3>2 DEF Spawn, Goto, WorkTypes, Labels
    <3> QED
      BY <1>2, <3>1, <3>2 DEF Spawn
  <2> QED
    BY <1>2, <2>1, <2>2 DEF Spawn, NodeTypes, AgerTypes, nodeVars, agerVars
<1>3. CASE SwitchToOpen
  <2>1. <<Tell(src, "RES_OK")>> \in Seq(Reply) /\ <<>> \in Seq(Reply)
    BY OneReply DEF MainTypes, ReplyTypes
  <2>2. MainTypes'
    BY <1>3 DEF SwitchToOpen, MainTypes, Modes
  <2>3. out' \in Seq(Reply)
    BY <1>3, <2>1 DEF SwitchToOpen
  <2> QED
    BY <1>3, <2>2, <2>3 DEF SwitchToOpen, NodeTypes, WorkTypes, AgerTypes,
                            nodeVars, workVars, agerVars
<1>4. CASE SwitchToAdmin
  <2>1. MainTypes'
    BY <1>4, ResetTypes DEF SwitchToAdmin, MainTypes, Modes
  <2> QED
    BY <1>4, <2>1 DEF SwitchToAdmin, NodeTypes, WorkTypes, AgerTypes,
                      nodeVars, workVars, agerVars
<1>5. CASE WipeBucket
  <2>1. <<Tell(src, "RES_OK")>> \in Seq(Reply) /\ <<>> \in Seq(Reply)
    BY OneReply DEF MainTypes, ReplyTypes
  <2>2. (wipe + 1) % HashLen \in Buckets
    BY DEF MainTypes, Buckets
  <2>3. MainTypes'
    BY <1>5, <2>2 DEF WipeBucket, MainTypes, Crash
  <2>4. NodeTypes'
    BY <1>5 DEF WipeBucket, NodeTypes
  <2>5. out' = <<>> \/ out' = <<Tell(src, "RES_OK")>>
    BY <1>5 DEF WipeBucket
  <2> QED
    BY <1>5, <2>1, <2>3, <2>4, <2>5 DEF WipeBucket, WorkTypes, AgerTypes, workVars, agerVars
<1> QED
  BY <1>1, <1>2, <1>3, <1>4, <1>5 DEF Main

\* A thread may be sent to any label, and its locals may be reset.
LEMMA GotoType ==
  ASSUME WorkTypes, NEW w \in Workers, NEW l \in Labels, Goto(w, l)
  PROVE  pc' \in [Workers -> Labels]
BY DEF WorkTypes, Goto

LEMMA ReturnType ==
  ASSUME WorkTypes, NEW w \in Workers, Return(w)
  PROVE  WorkTypes'
BY ResetTypes DEF Return, Goto, WorkTypes, Labels, SpawnKinds, Modes

LEMMA LeaveType ==
  ASSUME WorkTypes, NEW w \in Workers, NEW r \in BOOLEAN, Leave(w, r)
  PROVE  pc' \in [Workers -> Labels]
BY DEF WorkTypes, Leave, Goto, Labels

\* Linking a node into a cell keeps the cells' types.
LEMMA LinkType ==
  ASSUME NodeTypes, NEW n \in Nodes, NEW m \in AllMacs, NEW st \in Status,
         NEW late \in BOOLEAN, Link(n, m, st, late)
  PROVE  NodeTypes'
<1>1. <<>> \in Seq(AllCmds)
  OBVIOUS
<1> QED
  BY <1>1, BucketInTable DEF Link, NodeTypes

LEMMA TypePrepare ==
  ASSUME TypeOK, NEW w \in Workers, Prepare(w) \/ DeadFrame(w)
  PROVE  TypeOK'
<1> USE DEF TypeOK
<1>1. CASE CopyAddr(w)
  <2>1. WorkTypes'
    BY <1>1 DEF CopyAddr, Goto, WorkTypes, Labels, MainTypes
  <2> QED
    BY <1>1, <2>1 DEF CopyAddr, MainTypes, NodeTypes, AgerTypes, mainVars, nodeVars, agerVars
<1>2. CASE CopyData(w)
  <2> DEFINE r == IF kind[w] = "USER" THEN buf.rep
                  ELSE [JunkReport EXCEPT !.mac = buf.pre]
  <2>1. buf.rep \in Report /\ buf.pre \in AllMacs
    BY DEF MainTypes, Buffer
  <2>2. r \in Report
    BY <2>1 DEF JunkReport, Report, AllUsers
  <2>3. Bucket[r.mac] \in Buckets
    BY <2>2, BucketInTable DEF Report
  <2>4. arg' \in [Workers -> Report] /\ bkt' \in [Workers -> Buckets]
    BY <1>2, <2>2, <2>3 DEF CopyData, WorkTypes
  <2>5. pc' \in [Workers -> Labels] /\ hnd' \in [Workers -> Modes]
    BY <1>2 DEF CopyData, Goto, WorkTypes, Labels, Modes
  <2>6. WorkTypes'
    BY <1>2, <2>4, <2>5 DEF CopyData, WorkTypes
  <2> QED
    BY <1>2, <2>6 DEF CopyData, MainTypes, NodeTypes, AgerTypes, mainVars, nodeVars, agerVars
<1>3. CASE ReadMode1(w)
  <2>1. WorkTypes'
    BY <1>3 DEF ReadMode1, Goto, WorkTypes, Labels, Modes
  <2> QED
    BY <1>3, <2>1 DEF ReadMode1, MainTypes, NodeTypes, AgerTypes, mainVars, nodeVars, agerVars
<1>4. CASE ReadMode2(w)
  <2>1. WorkTypes'
    BY <1>4, ReturnType DEF ReadMode2, Goto, WorkTypes, Labels, Modes
  <2>2. up' \in BOOLEAN
    BY <1>4 DEF ReadMode2, MainTypes
  <2> QED
    BY <1>4, <2>1, <2>2 DEF ReadMode2, MainTypes, NodeTypes, AgerTypes,
                            mainVars, nodeVars, agerVars
<1>5. CASE HashSetMac(w)
  <2>1. Bucket[buf.pre] \in Buckets
    BY BucketInTable DEF MainTypes, Buffer
  <2>2. WorkTypes'
    BY <1>5, <2>1 DEF HashSetMac, Goto, WorkTypes, Labels
  <2> QED
    BY <1>5, <2>2 DEF HashSetMac, MainTypes, NodeTypes, AgerTypes, mainVars, nodeVars, agerVars
<1>6. CASE DeadFrame(w)
  <2>1. MainTypes'
    BY <1>6 DEF DeadFrame, Crash, MainTypes, mainVars
  <2> QED
    BY <1>6, <2>1 DEF DeadFrame, NodeTypes, WorkTypes, AgerTypes, nodeVars, workVars, agerVars
<1> QED
  BY <1>1, <1>2, <1>3, <1>4, <1>5, <1>6 DEF Prepare

LEMMA TypeLockFind ==
  ASSUME TypeOK, NEW w \in Workers, Lock(w) \/ Find(w) \/ Unlock(w)
  PROVE  TypeOK'
<1> USE DEF TypeOK
<1>1. CASE Lock(w)
  <2>1. pc' \in [Workers -> Labels]
    BY <1>1 DEF Lock, Goto, WorkTypes, Labels
  <2>2. mutex' \in [Buckets -> Threads \cup {None}]
    BY <1>1 DEF Lock, Threads
  <2>3. MainTypes'
    BY <1>1 DEF Lock, Crash, MainTypes, mainVars
  <2> QED
    BY <1>1, <2>1, <2>2, <2>3 DEF Lock, NodeTypes, WorkTypes, AgerTypes, nodeVars, agerVars
<1>2. CASE Find(w)
  <2>1. tgt' \in [Workers -> Nodes \cup {None}]
    BY <1>2 DEF Find, WorkTypes, NodeTypes, Chain
  <2>2. pc' \in [Workers -> Labels]
    BY <1>2 DEF Find, Goto, WorkTypes, Labels
  <2> QED
    BY <1>2, <2>1, <2>2 DEF Find, MainTypes, NodeTypes, WorkTypes, AgerTypes,
                            mainVars, nodeVars, agerVars
<1>3. CASE Unlock(w)
  <2>1. WorkTypes'
    BY <1>3, ReturnType DEF Unlock
  <2>2. mutex' \in [Buckets -> Threads \cup {None}]
    BY <1>3 DEF Unlock, Release
  <2>3. <<Tell(peer[w], res[w])>> \in Seq(Reply) /\ <<>> \in Seq(Reply)
    BY OneReply DEF WorkTypes, ReplyTypes
  <2>4. out' \in Seq(Reply)
    BY <1>3, <2>3 DEF Unlock
  <2> QED
    BY <1>3, <2>1, <2>2, <2>4 DEF Unlock, MainTypes, NodeTypes, AgerTypes,
                                  mainVars, nodeVars, agerVars
<1> QED
  BY <1>1, <1>2, <1>3

\* What every handler leaves alone, and the label it goes to.
LEMMA TypeActFrame ==
  ASSUME TypeOK, NEW w \in Workers, Act(w)
  PROVE  MainTypes' /\ WorkTypes' /\ AgerTypes' /\ mutex' \in [Buckets -> Threads \cup {None}]
<1> USE DEF TypeOK
<1>1. AgerTypes' /\ mutex' \in [Buckets -> Threads \cup {None}]
  BY DEF Act, UseFreed, Heartbeat, NewAp, UserReport, QueueCommand, SendInfo, AddNode,
         DelNode, AgerTypes, agerVars
<1>2. MainTypes'
  BY DEF Act, UseFreed, Heartbeat, NewAp, UserReport, QueueCommand, SendInfo, AddNode,
         DelNode, MainTypes, mainVars, Crash
<1>3. pc' \in [Workers -> Labels]
  BY LeaveType DEF Act, UseFreed, Heartbeat, NewAp, UserReport, QueueCommand, SendInfo,
                   AddNode, DelNode, WorkTypes
<1>4. UNCHANGED <<kind, peer, arg, hnd, bkt, tgt>>
  BY DEF Act, UseFreed, Heartbeat, NewAp, UserReport, QueueCommand, SendInfo, AddNode, DelNode
<1>5. res' \in [Workers -> {"RES_OK", "RES_FAIL"}]
  BY DEF Act, UseFreed, Heartbeat, NewAp, UserReport, QueueCommand, SendInfo, AddNode,
         DelNode, WorkTypes
<1> QED
  BY <1>1, <1>2, <1>3, <1>4, <1>5 DEF WorkTypes

LEMMA TypeAct ==
  ASSUME TypeOK, NEW w \in Workers, Act(w)
  PROVE  TypeOK'
<1> USE DEF TypeOK
<1> SUFFICES NodeTypes' /\ out' \in Seq(Reply)
  BY TypeActFrame
<1>0. arg[w].mac \in AllMacs /\ arg[w].user \in AllUsers /\ peer[w] \in Clients
  BY DEF WorkTypes, Report
<1>1. CASE UseFreed(w)
  BY <1>1 DEF UseFreed, NodeTypes, nodeVars
<1>2. CASE Heartbeat(w)
  <2>1. tgt[w] \in Nodes
    BY <1>2 DEF Heartbeat, Found, NodeTypes
  <2>2. Commands(w, tgt[w]) \in Seq(Reply)
    BY <2>1, CommandsType
  <2>3. /\ <<Tell(peer[w], "SET_ON")>> \in Seq(Reply) /\ <<>> \in Seq(Reply)
        /\ <<Tell(peer[w], "HEART_BEAT")>> \in Seq(Reply)
    BY <1>0, OneReply DEF ReplyTypes
  <2>4. out' \in Seq(Reply)
    <3> DEFINE on == IF hnd[w] = "ADMIN" /\ status[tgt[w]] = "OFF_LINE"
                     THEN <<Tell(peer[w], "SET_ON")>> ELSE <<>>
    <3>1. on \in Seq(Reply)
      BY <2>3
    <3>2. out' = on \o <<Tell(peer[w], "HEART_BEAT")>> \o Commands(w, tgt[w])
      BY <1>2 DEF Heartbeat
    <3> HIDE DEF on
    <3> QED
      BY <2>2, <2>3, <3>1, <3>2
  <2>5. <<>> \in Seq(AllCmds)
    OBVIOUS
  <2>6. NodeTypes'
    BY <1>0, <1>2, <2>1, <2>5 DEF Heartbeat, NodeTypes, Status
  <2> QED
    BY <2>4, <2>6
<1>3. CASE NewAp(w)
  <2>1. CASE UNCHANGED nodeVars
    BY <1>3, <2>1 DEF NewAp, NodeTypes, nodeVars
  <2>2. CASE \E n \in Nodes \ live, st \in Status : Link(n, arg[w].mac, st, FALSE)
    <3>1. NodeTypes'
      BY <1>0, <2>2, LinkType
    <3> QED
      BY <1>3, <3>1 DEF NewAp
  <2> QED
    BY <1>3, <2>1, <2>2 DEF NewAp
<1>4. CASE UserReport(w)
  <2>1. CASE tgt[w] = None /\ users' = users
    BY <1>4, <2>1 DEF UserReport, NodeTypes
  <2>2. CASE /\ Found(w)
             /\ \E us \in UserLists(users[tgt[w]], arg[w].user, arg[w].down) :
                  users' = [users EXCEPT ![tgt[w]] = us]
    <3>1. users[tgt[w]] \subseteq AllUsers
      BY <2>2 DEF Found, NodeTypes
    <3>2. \A us \in UserLists(users[tgt[w]], arg[w].user, arg[w].down) : us \subseteq AllUsers
      BY <1>0, <3>1 DEF UserLists
    <3>3. users' \in [Nodes -> SUBSET AllUsers]
      BY <2>2, <3>2 DEF NodeTypes
    <3> QED
      BY <1>4, <3>3 DEF UserReport, NodeTypes
  <2> QED
    BY <1>4, <2>1, <2>2 DEF UserReport
<1>5. CASE QueueCommand(w)
  <2>1. buf.cmd \in AllCmds
    BY DEF MainTypes, Buffer
  <2>2. \A n \in Nodes : <<buf.cmd>> \o cmds[n] \in Seq(AllCmds)
    BY <2>1 DEF NodeTypes
  <2>3. cmds' \in [Nodes -> Seq(AllCmds)]
    <3>1. CASE cmds' = cmds
      BY <3>1 DEF NodeTypes
    <3>2. CASE Found(w) /\ cmds' = [cmds EXCEPT ![tgt[w]] = <<buf.cmd>> \o @]
      <4>1. tgt[w] \in Nodes /\ cmds \in [Nodes -> Seq(AllCmds)]
        BY <3>2 DEF Found, NodeTypes
      <4>2. <<buf.cmd>> \o cmds[tgt[w]] \in Seq(AllCmds)
        BY <2>2, <4>1
      <4> QED
        BY <3>2, <4>1, <4>2
    <3> QED
      BY <1>5, <3>1, <3>2 DEF QueueCommand
  <2> QED
    BY <1>5, <2>3 DEF QueueCommand, NodeTypes
<1>6. CASE SendInfo(w)
  <2>1. Found(w) => [Tell(peer[w], "AP_INFO") EXCEPT !.users = users[tgt[w]]] \in Reply
    BY <1>0, TellType DEF Found, NodeTypes, ReplyTypes
  <2>2. Tell(peer[w], "RES_OK") \in Reply
    BY <1>0, TellType DEF ReplyTypes
  <2>3. CASE tgt[w] = None /\ out' = <<>>
    BY <1>6, <2>3 DEF SendInfo, NodeTypes, nodeVars
  <2>4. CASE /\ Found(w)
             /\ out' = << [Tell(peer[w], "AP_INFO") EXCEPT !.users = users[tgt[w]]],
                          Tell(peer[w], "RES_OK") >>
    <3>1. out' \in Seq(Reply)
      BY <2>1, <2>2, <2>4
    <3> QED
      BY <1>6, <3>1 DEF SendInfo, NodeTypes, nodeVars
  <2> QED
    BY <1>6, <2>3, <2>4 DEF SendInfo
<1>7. CASE AddNode(w)
  <2>1. CASE UNCHANGED nodeVars
    BY <1>7, <2>1 DEF AddNode, NodeTypes, nodeVars
  <2>2. CASE \E n \in Nodes \ live : Link(n, arg[w].mac, "OFF_LINE", TRUE)
    <3>1. NodeTypes'
      BY <1>0, <2>2, LinkType DEF Status
    <3> QED
      BY <1>7, <3>1 DEF AddNode
  <2> QED
    BY <1>7, <2>1, <2>2 DEF AddNode
<1>8. CASE DelNode(w)
  BY <1>8 DEF DelNode, NodeTypes
<1> QED
  BY <1>1, <1>2, <1>3, <1>4, <1>5, <1>6, <1>7, <1>8 DEF Act

LEMMA TypeAge ==
  ASSUME TypeOK, Age \/ Elapse
  PROVE  TypeOK'
<1> USE DEF TypeOK
<1>1. FirstBucket \in Buckets /\ NextSection \in 0 .. Sections - 1
  BY FirstBucketInTable, NextSectionInRange DEF AgerTypes
<1>2. CASE AgeMode1
  <2>1. AgerTypes' /\ due' \subseteq Nodes
    BY <1>1, <1>2 DEF AgeMode1, StartPass, AgerTypes, Modes, NodeTypes
  <2> QED
    BY <1>2, <2>1 DEF AgeMode1, MainTypes, NodeTypes, WorkTypes, mainVars, workVars
<1>3. CASE AgeMode2
  <2>1. AgerTypes' /\ due' \subseteq Nodes
    BY <1>1, <1>3 DEF AgeMode2, StartPass, AgerTypes, Modes, NodeTypes
  <2> QED
    BY <1>3, <2>1 DEF AgeMode2, MainTypes, NodeTypes, WorkTypes, mainVars, workVars
<1>4. CASE AgeLock
  <2>1. mutex' \in [Buckets -> Threads \cup {None}]
    BY <1>4 DEF AgeLock, Crash, Threads
  <2>2. up' \in BOOLEAN /\ AgerTypes'
    BY <1>4 DEF AgeLock, Crash, AgerTypes, MainTypes
  <2> QED
    BY <1>4, <2>1, <2>2 DEF AgeLock, MainTypes, NodeTypes, WorkTypes,
                            mainVars, nodeVars, workVars
<1>5. CASE AgeBucket
  <2>1. mutex' \in [Buckets -> Threads \cup {None}]
    BY <1>5 DEF AgeBucket
  <2>2. AgerTypes'
    BY <1>1, <1>5 DEF AgeBucket, AgerTypes, Buckets
  <2>3. <<>> \in Seq(AllCmds)
    OBVIOUS
  <2>4. NodeTypes'
    <3>1. /\ live' \subseteq Nodes /\ status' \in [Nodes -> Status]
          /\ users' \in [Nodes -> SUBSET AllUsers]
      BY <1>5 DEF AgeBucket, NodeTypes, Status
    <3>2. cmds' \in [Nodes -> Seq(AllCmds)]
      BY <1>5, <2>3 DEF AgeBucket, NodeTypes
    <3> QED
      BY <1>5, <3>1, <3>2 DEF AgeBucket, NodeTypes
  <2> QED
    BY <1>5, <2>1, <2>2, <2>4 DEF AgeBucket, MainTypes, WorkTypes, mainVars, workVars
<1>6. CASE Elapse
  <2>1. NodeTypes'
    BY <1>6 DEF Elapse, NodeTypes
  <2> QED
    BY <1>6, <2>1 DEF Elapse, MainTypes, WorkTypes, AgerTypes, mainVars, workVars, agerVars
<1> QED
  BY <1>2, <1>3, <1>4, <1>5, <1>6 DEF Age

\* Nothing changes in a stuttering step.
LEMMA TypeStutter ==
  ASSUME TypeOK, UNCHANGED vars
  PROVE  TypeOK'
<1> USE DEF TypeOK
<1>1. MainTypes' /\ AgerTypes'
  BY DEF vars, mainVars, agerVars, MainTypes, AgerTypes
<1>2. NodeTypes' /\ WorkTypes'
  BY DEF vars, nodeVars, workVars, NodeTypes, WorkTypes
<1> QED
  BY <1>1, <1>2 DEF vars

\* In every mode, with every datagram, race and crash the model has, the
\* server's variables keep their types.
THEOREM TypeCorrect == Spec => []TypeOK
<1>1. TypeOK /\ [Next]_vars => TypeOK'
  BY TypeMain, TypePrepare, TypeLockFind, TypeAct, TypeAge, TypeStutter DEF Next, Worker
<1> QED
  BY TypeInit, <1>1, PTL DEF Spec

-----------------------------------------------------------------------------
(* Mutual exclusion: LocksMatchSections is inductive with TypeOK.          *)

\* A step that takes and releases no mutex, and moves no thread into, out of or
\* within a critical section to another bucket, cannot break the match.
LEMMA LocksFrame ==
  ASSUME LocksMatchSections, UNCHANGED mutex,
         apc' = "scan" <=> apc = "scan", apc = "scan" => abkt' = abkt,
         \A w \in Workers : InSection(w)' <=> InSection(w),
         \A w \in Workers : InSection(w) => bkt'[w] = bkt[w]
  PROVE  LocksMatchSections'
BY DEF LocksMatchSections

LEMMA LocksInit == Init => LocksMatchSections
BY DEF Init, LocksMatchSections, InSection, Threads

\* Main takes no mutex: it neither respects nor disturbs the sections.
LEMMA LocksMain ==
  ASSUME TypeOK, LocksMatchSections, Main
  PROVE  LocksMatchSections'
<1>1. UNCHANGED <<mutex, apc, abkt, bkt>>
  BY DEF Main, Recv, Spawn, SwitchToOpen, SwitchToAdmin, WipeBucket, agerVars, workVars
<1>2. \A w \in Workers : InSection(w)' <=> InSection(w)
  <2>1. CASE UNCHANGED pc
    BY <2>1 DEF InSection
  <2>2. CASE Spawn /\ ~UNCHANGED pc
    BY <2>2 DEF Spawn, Goto, InSection, TypeOK, WorkTypes
  <2> QED
    BY <2>1, <2>2 DEF Main, Recv, SwitchToOpen, SwitchToAdmin, WipeBucket, workVars
<1> QED
  BY <1>1, <1>2, LocksFrame

\* A worker that prepares is in no section.
LEMMA LocksPrepare ==
  ASSUME TypeOK, LocksMatchSections, NEW w \in Workers, Prepare(w) \/ DeadFrame(w)
  PROVE  LocksMatchSections'
<1>1. UNCHANGED <<mutex, apc, abkt>>
  BY DEF Prepare, CopyAddr, CopyData, ReadMode1, ReadMode2, HashSetMac, DeadFrame, agerVars
<1>2. ~InSection(w) /\ ~InSection(w)'
  BY DEF Prepare, CopyAddr, CopyData, ReadMode1, ReadMode2, HashSetMac, DeadFrame, workVars,
         InSection, Goto, Return, TypeOK, WorkTypes
<1>3. \A v \in Workers \ {w} : pc'[v] = pc[v] /\ bkt'[v] = bkt[v]
  BY DEF Prepare, CopyAddr, CopyData, ReadMode1, ReadMode2, HashSetMac, DeadFrame, workVars,
         Goto, Return, TypeOK, WorkTypes
<1> QED
  BY <1>1, <1>2, <1>3, LocksFrame DEF InSection

\* A handler stays in its section.
LEMMA LocksAct ==
  ASSUME TypeOK, LocksMatchSections, NEW w \in Workers, Find(w) \/ Act(w)
  PROVE  LocksMatchSections'
<1>1. UNCHANGED <<mutex, apc, abkt, bkt>>
  BY DEF Find, Act, UseFreed, Heartbeat, NewAp, UserReport, QueueCommand, SendInfo, AddNode,
         DelNode, agerVars
<1>2. InSection(w) /\ InSection(w)'
  BY DEF Find, Act, UseFreed, Heartbeat, NewAp, UserReport, QueueCommand, SendInfo, AddNode,
         DelNode, At, Leave, Goto, InSection, TypeOK, WorkTypes
<1>3. \A v \in Workers \ {w} : pc'[v] = pc[v]
  BY DEF Find, Act, UseFreed, Heartbeat, NewAp, UserReport, QueueCommand, SendInfo, AddNode,
         DelNode, Leave, Goto, TypeOK, WorkTypes
<1> QED
  BY <1>1, <1>2, <1>3, LocksFrame DEF InSection

LEMMA LocksLock ==
  ASSUME TypeOK, LocksMatchSections, NEW w \in Workers, Lock(w) \/ Unlock(w)
  PROVE  LocksMatchSections'
<1>0. /\ mutex \in [Buckets -> Threads \cup {None}] /\ bkt[w] \in Buckets
      /\ pc \in [Workers -> Labels] /\ bkt \in [Workers -> Buckets]
  BY DEF TypeOK, WorkTypes
<1>1. CASE Lock(w) /\ UNCHANGED <<mutex, pc>>
  BY <1>1, LocksFrame DEF Lock, InSection, agerVars
<1>2. CASE Lock(w) /\ ~UNCHANGED <<mutex, pc>>
  <2>1. /\ mutex[bkt[w]] = None /\ mutex' = [mutex EXCEPT ![bkt[w]] = w]
        /\ pc[w] = "lock" /\ pc' = [pc EXCEPT ![w] = "find"]
        /\ UNCHANGED <<bkt, apc, abkt>>
    BY <1>2 DEF Lock, CanEnter, Goto, agerVars
  <2> QED
    BY <1>0, <2>1 DEF LocksMatchSections, InSection, Threads
<1>3. CASE Unlock(w)
  <2>1. /\ pc[w] = "unlock" /\ mutex' = [mutex EXCEPT ![bkt[w]] = None]
        /\ pc' = [pc EXCEPT ![w] = "idle"] /\ bkt' = [bkt EXCEPT ![w] = 0]
        /\ UNCHANGED <<apc, abkt>>
    BY <1>3 DEF Unlock, Release, Return, Goto, agerVars
  <2> QED
    BY <1>0, <2>1 DEF LocksMatchSections, InSection, Threads
<1> QED
  BY <1>1, <1>2, <1>3

LEMMA LocksAge ==
  ASSUME TypeOK, LocksMatchSections, Age \/ Elapse
  PROVE  LocksMatchSections'
<1>0. /\ mutex \in [Buckets -> Threads \cup {None}] /\ abkt \in Buckets
      /\ UNCHANGED <<pc, bkt>>
  BY DEF TypeOK, AgerTypes, Age, AgeMode1, AgeMode2, AgeLock, AgeBucket, Elapse, workVars
<1>1. CASE AgeMode1 \/ AgeMode2 \/ Elapse
  <2>1. UNCHANGED mutex /\ (apc' = "scan" <=> apc = "scan") /\ (apc = "scan" => abkt' = abkt)
    BY <1>1 DEF AgeMode1, AgeMode2, StartPass, Elapse, agerVars
  <2> QED
    BY <1>0, <2>1, LocksFrame DEF InSection
<1>2. CASE AgeLock
  <2>1. CASE table
    <3>1. /\ mutex[abkt] = None /\ mutex' = [mutex EXCEPT ![abkt] = Ager]
          /\ apc = "lock" /\ apc' = "scan" /\ abkt' = abkt
      BY <1>2, <2>1 DEF AgeLock, CanEnter
    <3> QED
      BY <1>0, <3>1 DEF LocksMatchSections, InSection, Threads
  <2>2. CASE ~table
    <3>1. UNCHANGED <<mutex, apc, abkt>>
      BY <1>2, <2>2 DEF AgeLock
    <3> QED
      BY <1>0, <3>1, LocksFrame DEF InSection
  <2> QED
    BY <2>1, <2>2
<1>3. CASE AgeBucket
  <2>1. /\ mutex' = [mutex EXCEPT ![abkt] = None]
        /\ apc = "scan" /\ apc' # "scan"
    BY <1>3 DEF AgeBucket
  <2> QED
    BY <1>0, <2>1 DEF LocksMatchSections, InSection, Threads
<1> QED
  BY <1>1, <1>2, <1>3 DEF Age

LEMMA LocksStep ==
  ASSUME TypeOK, LocksMatchSections, [Next]_vars
  PROVE  LocksMatchSections'
<1>1. CASE UNCHANGED vars
  BY <1>1, LocksFrame DEF vars, workVars, agerVars, InSection
<1> QED
  BY <1>1, LocksMain, LocksPrepare, LocksAct, LocksLock, LocksAge DEF Next, Worker

\* In every mode, through every race and mode switch, a bucket's mutex is held by
\* exactly the thread between its lock and unlock: no handler can return and
\* leave a bucket locked, and none works in a bucket it has not locked.
THEOREM SectionsAreLocked == Spec => []LocksMatchSections
<1>1. Init => LocksMatchSections
  BY LocksInit
<1> QED
  BY TypeCorrect, LocksStep, <1>1, PTL DEF Spec
=============================================================================
