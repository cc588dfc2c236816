---------------------------- MODULE AcTableProofs ----------------------------
(***************************************************************************)
(* Why the AC's table is sound as long as nothing empties it behind the    *)
(* mutexes: the inductive invariant behind FoundNodesStay and UniqueMac,   *)
(* and behind CommandsAreForTheirAp as long as main's buffer is kept too.  *)
(***************************************************************************)
EXTENDS AcServerProofs

USE ConstantsOK

\* Main is not in the lock-free walk, and is not about to enter it.
NotWiping ==
  /\ mpc # "wipe"
  /\ (\A m \in Msgs : m.kind # "TO_ADMIN") => buf.kind # "TO_ADMIN"
  /\ AdminOnly => mode = "ADMIN" /\ buf.kind # "TO_OPEN"

\* A node is in the list its MAC hashes to.
Placed == \A n \in live : home[n] = Bucket[apmac[n]]

\* A worker's locals: nothing is found before the lookup, and the bucket it
\* locks is that of the MAC it works for (a SET worker's comes from main's buf).
LocalOK(w) ==
  /\ tgt[w] # None => pc[w] \in {"act", "unlock", "relock"}
  /\ pc[w] = "key" => kind[w] = "SET"
  /\ pc[w] \in {"mode1", "mode2", "lock", "find", "act"} /\ kind[w] # "SET" =>
       bkt[w] = Bucket[arg[w].mac]

\* What the lookup found is still there, and is what was looked for.
FoundOK(w) ==
  pc[w] = "act" /\ tgt[w] # None =>
    /\ tgt[w] \in live /\ home[tgt[w]] = bkt[w]
    /\ kind[w] # "SET" => apmac[tgt[w]] = arg[w].mac

\* What the lookup of a handler that may add a node did not find is still not
\* there.
MissedOK(w) ==
  pc[w] = "act" /\ tgt[w] = None /\ kind[w] \in {"HB", "ADD"} =>
    \A n \in live : apmac[n] # arg[w].mac

TableInv ==
  /\ NotWiping /\ Placed /\ UniqueMac
  /\ \A w \in Workers : LocalOK(w) /\ FoundOK(w) /\ MissedOK(w)

LEMMA TableInit == Init => TableInv
BY DEF Init, TableInv, NotWiping, AdminOnly, Placed, UniqueMac, LocalOK, FoundOK, MissedOK

-----------------------------------------------------------------------------
(* The table seen from a worker that is not the one that changes it.       *)

\* Nodes come and go in bucket b only, and the others stay as they are.
Confined(b) ==
  /\ \A n \in live \ live' : home[n] = b
  /\ \A n \in live' \ live : home'[n] = b /\ Bucket[apmac'[n]] = b
  /\ \A n \in live \cap live' : home'[n] = home[n] /\ apmac'[n] = apmac[n]

SameLocals(v) ==
  pc'[v] = pc[v] /\ kind'[v] = kind[v] /\ arg'[v] = arg[v] /\ bkt'[v] = bkt[v]
    /\ tgt'[v] = tgt[v]

\* A worker in the critical section of one bucket does not notice what happens
\* in another.
LEMMA Elsewhere ==
  ASSUME NEW v \in Workers, NEW b \in Buckets, LocalOK(v), FoundOK(v), MissedOK(v),
         SameLocals(v), Confined(b), pc[v] = "act" => bkt[v] # b
  PROVE  LocalOK(v)' /\ FoundOK(v)' /\ MissedOK(v)'
<1>1. LocalOK(v)'
  BY DEF LocalOK, SameLocals
<1>2. FoundOK(v)'
  BY DEF FoundOK, SameLocals, Confined
<1>3. MissedOK(v)'
  <2> SUFFICES ASSUME pc[v] = "act", tgt[v] = None, kind[v] \in {"HB", "ADD"},
                      NEW n \in live'
               PROVE  apmac'[n] # arg[v].mac
    BY DEF MissedOK, SameLocals
  <2>1. bkt[v] = Bucket[arg[v].mac]
    BY DEF LocalOK
  <2>2. CASE n \in live
    BY <2>2 DEF MissedOK, Confined
  <2>3. CASE n \notin live
    BY <2>1, <2>3 DEF Confined
  <2> QED
    BY <2>2, <2>3
<1> QED
  BY <1>1, <1>2, <1>3

\* A step that leaves the table and a worker alone leaves its facts alone.
LEMMA Untouched ==
  ASSUME NEW v \in Workers, LocalOK(v), FoundOK(v), MissedOK(v), SameLocals(v),
         UNCHANGED <<live, home, apmac>>
  PROVE  LocalOK(v)' /\ FoundOK(v)' /\ MissedOK(v)'
BY DEF LocalOK, FoundOK, MissedOK, SameLocals

\* Two threads are not in one bucket.
LEMMA Apart ==
  ASSUME TypeOK, LocksMatchSections, NEW w \in Workers, NEW v \in Workers \ {w},
         InSection(w), InSection(v)
  PROVE  bkt[v] # bkt[w]
BY DEF TypeOK, WorkTypes, LocksMatchSections

-----------------------------------------------------------------------------
(* The steps.                                                              *)

\* Main never gets to the walk that frees nodes.
LEMMA TableMain ==
  ASSUME NeverWiped, TypeOK, TableInv, Main
  PROVE  TableInv'
<1>1. ~WipeBucket
  BY DEF TableInv, NotWiping, WipeBucket
<1>2. UNCHANGED <<live, home, apmac, arg, bkt, tgt>>
  BY <1>1 DEF Main, Recv, Spawn, SwitchToOpen, SwitchToAdmin, nodeVars, workVars
<1>3. NotWiping'
  <2>1. CASE Recv
    BY <2>1 DEF Recv, Overlay, TableInv, NotWiping, AdminOnly
  <2>2. CASE Spawn
    BY <2>2 DEF Spawn, TableInv, NotWiping
  <2>3. CASE SwitchToOpen
    BY <2>3 DEF SwitchToOpen, TableInv, NotWiping
  <2>4. CASE SwitchToAdmin
    BY <2>4 DEF SwitchToAdmin, TableInv, NotWiping, NeverWiped
  <2> QED
    BY <1>1, <2>1, <2>2, <2>3, <2>4 DEF Main
<1>4. Placed' /\ UniqueMac'
  BY <1>2 DEF TableInv, Placed, UniqueMac
<1>5. ASSUME NEW v \in Workers PROVE LocalOK(v)' /\ FoundOK(v)' /\ MissedOK(v)'
  <2>1. CASE UNCHANGED <<pc, kind>>
    BY <1>2, <2>1, Untouched DEF SameLocals, TableInv
  <2>2. CASE Spawn /\ ~UNCHANGED <<pc, kind>>
    <3>1. PICK w \in Workers : /\ pc[w] = "idle" /\ pc' = [pc EXCEPT ![w] = "addr"]
                               /\ kind' = [kind EXCEPT ![w] = buf.kind]
      BY <2>2 DEF Spawn, Goto
    <3>2. CASE v = w
      BY <1>2, <3>1, <3>2 DEF TableInv, LocalOK, FoundOK, MissedOK, TypeOK, WorkTypes
    <3>3. CASE v # w
      BY <1>2, <3>1, <3>3, Untouched DEF SameLocals, TableInv, TypeOK, WorkTypes
    <3> QED
      BY <3>2, <3>3
  <2> QED
    BY <1>1, <2>1, <2>2 DEF Main, Recv, SwitchToOpen, SwitchToAdmin, workVars
<1> QED
  BY <1>3, <1>4, <1>5 DEF TableInv

\* Workers and the ageing thread do not decide what main does next.
LEMMA NotWipingStays ==
  ASSUME NotWiping, UNCHANGED <<mpc, buf, mode>>
  PROVE  NotWiping'
BY DEF NotWiping

LEMMA TablePrepare ==
  ASSUME TypeOK, TableInv, NEW w \in Workers, Prepare(w) \/ DeadFrame(w) \/ Lock(w) \/ Unlock(w)
  PROVE  TableInv'
<1>1. UNCHANGED <<live, home, apmac, mpc, buf, mode>>
  BY DEF Prepare, CopyAddr, CopyData, ReadMode1, ReadMode2, HashSetMac, DeadFrame, Lock, Unlock,
         nodeVars, mainVars
<1>2. NotWiping' /\ Placed' /\ UniqueMac'
  BY <1>1, NotWipingStays DEF TableInv, Placed, UniqueMac
<1>3. \A v \in Workers \ {w} : SameLocals(v)
  BY DEF Prepare, CopyAddr, CopyData, ReadMode1, ReadMode2, HashSetMac, DeadFrame, Lock, Unlock,
         Return, Goto, workVars, SameLocals, TypeOK, WorkTypes
<1>4. LocalOK(w) /\ FoundOK(w) /\ MissedOK(w)
  BY DEF TableInv
<1>5. FoundOK(w)' /\ MissedOK(w)'
  <2>1. CASE DeadFrame(w) \/ (Lock(w) /\ UNCHANGED pc)
    BY <1>1, <1>4, <2>1, Untouched DEF DeadFrame, Lock, workVars, SameLocals
  <2>2. CASE pc'[w] # "act"
    BY <2>2 DEF FoundOK, MissedOK
  <2>3. pc \in [Workers -> Labels]
    BY DEF TypeOK, WorkTypes
  <2>4. CASE Lock(w) /\ ~UNCHANGED pc
    BY <2>2, <2>3, <2>4 DEF Lock, Goto
  <2>5. CASE Prepare(w) \/ Unlock(w)
    BY <2>2, <2>3, <2>5 DEF Prepare, CopyAddr, CopyData, ReadMode1, ReadMode2, HashSetMac,
                            Unlock, Return, Goto
  <2> QED
    BY <2>1, <2>4, <2>5
<1>6. LocalOK(w)'
  <2> USE <1>4 DEF LocalOK, Goto, TypeOK, WorkTypes
  <2>1. CASE CopyAddr(w)
    BY <2>1 DEF CopyAddr
  <2>2. CASE CopyData(w)
    BY <2>2 DEF CopyData
  <2>3. CASE ReadMode1(w)
    BY <2>3 DEF ReadMode1
  <2>4. CASE ReadMode2(w)
    BY <2>4 DEF ReadMode2, Return
  <2>5. CASE HashSetMac(w)
    BY <2>5 DEF HashSetMac
  <2>6. CASE DeadFrame(w)
    BY <2>6 DEF DeadFrame, workVars
  <2>7. CASE Lock(w)
    BY <2>7 DEF Lock
  <2>8. CASE Unlock(w)
    BY <2>8 DEF Unlock, Return
  <2> QED
    BY <2>1, <2>2, <2>3, <2>4, <2>5, <2>6, <2>7, <2>8 DEF Prepare
<1>7. ASSUME NEW v \in Workers PROVE LocalOK(v)' /\ FoundOK(v)' /\ MissedOK(v)'
  <2>1. CASE v # w
    BY <1>1, <1>3, <2>1, Untouched DEF TableInv
  <2> QED
    BY <1>5, <1>6, <2>1
<1> QED
  BY <1>2, <1>7 DEF TableInv

\* A lookup finds the node of the MAC it looks for, or there is none: the MAC's
\* bucket is the only place it can be.
LEMMA TableFind ==
  ASSUME TypeOK, TableInv, NEW w \in Workers, Find(w)
  PROVE  TableInv'
<1>1. UNCHANGED <<live, home, apmac, mpc, buf, mode, kind, arg, bkt>>
  BY DEF Find, nodeVars, mainVars
<1>2. NotWiping' /\ Placed' /\ UniqueMac'
  BY <1>1, NotWipingStays DEF TableInv, Placed, UniqueMac
<1>3. /\ pc \in [Workers -> Labels] /\ tgt \in [Workers -> Nodes \cup {None}]
      /\ None \notin live
  BY DEF TypeOK, WorkTypes, NodeTypes
<1>4. \A v \in Workers \ {w} : SameLocals(v)
  BY <1>1, <1>3 DEF Find, Goto, SameLocals
<1>5. pc[w] = "find" /\ pc'[w] = "act" /\ tgt[w] = None /\ LocalOK(w)
  BY <1>3 DEF Find, Goto, TableInv, LocalOK
<1>6. LocalOK(w)'
  BY <1>1, <1>5 DEF LocalOK
<1>7. CASE \A n \in Chain(bkt[w]) : ~Matches(w, n)
  <2>1. tgt' = tgt
    BY <1>7 DEF Find
  <2>2. FoundOK(w)'
    BY <1>5, <2>1 DEF FoundOK
  <2>3. ASSUME kind[w] \in {"HB", "ADD"}, NEW n \in live
        PROVE  apmac[n] # arg[w].mac
    <3>1. bkt[w] = Bucket[arg[w].mac]
      BY <1>5, <2>3 DEF LocalOK
    <3>2. home[n] = Bucket[apmac[n]]
      BY DEF TableInv, Placed
    <3> QED
      BY <1>7, <2>3, <3>1, <3>2 DEF Chain, Matches, Wanted
  <2>4. MissedOK(w)'
    BY <1>1, <2>3 DEF MissedOK
  <2> QED
    BY <1>1, <1>2, <1>4, <1>6, <2>2, <2>4, Untouched DEF TableInv
<1>8. CASE \E n \in Chain(bkt[w]) : Matches(w, n)
  <2>1. PICK n \in Chain(bkt[w]) :
          /\ Matches(w, n)
          /\ tgt' = [tgt EXCEPT ![w] = IF Usable(w, n) THEN n ELSE None]
    BY <1>8 DEF Find
  <2>2. tgt'[w] = IF Usable(w, n) THEN n ELSE None
    BY <1>3, <2>1
  <2>3. FoundOK(w)'
    BY <1>1, <2>1, <2>2 DEF FoundOK, Chain, Matches, Wanted
  <2>4. MissedOK(w)'
    BY <1>1, <1>3, <2>1, <2>2 DEF MissedOK, Usable, Chain
  <2> QED
    BY <1>1, <1>2, <1>4, <1>6, <2>3, <2>4, Untouched DEF TableInv
<1> QED
  BY <1>7, <1>8

\* What a handler can do to the table: free the node it found, link a node for
\* its own MAC that it did not find, or neither.
Frees(w) ==
  /\ kind[w] = "DEL" /\ tgt[w] \in live /\ live' = live \ {tgt[w]}
  /\ UNCHANGED <<home, apmac>>

Adds(w, n) ==
  /\ n \in Nodes \ live /\ tgt[w] = None /\ kind[w] \in {"HB", "ADD"}
  /\ live' = live \cup {n} /\ home' = [home EXCEPT ![n] = Bucket[arg[w].mac]]
  /\ apmac' = [apmac EXCEPT ![n] = arg[w].mac]

LEMMA ActEffect ==
  ASSUME TypeOK, TableInv, NEW w \in Workers, Act(w)
  PROVE  \/ UNCHANGED <<live, home, apmac>>
         \/ Frees(w)
         \/ \E n \in Nodes : Adds(w, n)
<1>1. FoundOK(w)
  BY DEF TableInv
<1>2. ~UseFreed(w)
  BY <1>1 DEF UseFreed, FoundOK, Found
<1>3. CASE Heartbeat(w)
  <2>1. tgt[w] \in live /\ tgt[w] # None
    BY <1>3 DEF Heartbeat, Found, TypeOK, NodeTypes
  <2>2. apmac[tgt[w]] = arg[w].mac
    BY <1>1, <1>3, <2>1 DEF Heartbeat, At, FoundOK
  <2>3. apmac' = [apmac EXCEPT ![tgt[w]] = arg[w].mac] /\ UNCHANGED <<live, home>>
    BY <1>3 DEF Heartbeat
  <2> QED
    BY <2>1, <2>2, <2>3 DEF TypeOK, NodeTypes
<1>4. CASE NewAp(w)
  BY <1>4 DEF NewAp, At, Link, Adds, nodeVars
<1>5. CASE AddNode(w)
  BY <1>5 DEF AddNode, At, Link, Adds, nodeVars
<1>6. CASE DelNode(w)
  BY <1>6 DEF DelNode, At, Found, Frees
<1>7. CASE UserReport(w) \/ QueueCommand(w) \/ SendInfo(w)
  BY <1>7 DEF UserReport, QueueCommand, SendInfo, nodeVars
<1> QED
  BY <1>2, <1>3, <1>4, <1>5, <1>6, <1>7 DEF Act

LEMMA TableAct ==
  ASSUME TypeOK, LocksMatchSections, TableInv, NEW w \in Workers, Act(w)
  PROVE  TableInv'
<1>1. UNCHANGED <<mpc, buf, mode, kind, arg, bkt, tgt>>
  BY DEF Act, UseFreed, Heartbeat, NewAp, UserReport, QueueCommand, SendInfo, AddNode,
         DelNode, mainVars
<1>2. pc \in [Workers -> Labels] /\ ~UseFreed(w)
  BY DEF TypeOK, WorkTypes, TableInv, UseFreed, FoundOK, Found
<1>3. /\ pc[w] = "act" /\ pc'[w] \in {"unlock", "relock"}
      /\ \A v \in Workers \ {w} : pc'[v] = pc[v]
  BY <1>2 DEF Act, Heartbeat, NewAp, UserReport, QueueCommand, SendInfo, AddNode,
         DelNode, At, Leave, Goto
<1>4. LocalOK(w)' /\ FoundOK(w)' /\ MissedOK(w)'
  BY <1>1, <1>3 DEF LocalOK, FoundOK, MissedOK
<1>5. LocalOK(w) /\ FoundOK(w) /\ MissedOK(w) /\ Placed /\ UniqueMac /\ NotWiping
  BY DEF TableInv
<1>6. Placed' /\ UniqueMac' /\ Confined(bkt[w])
  <2>1. CASE UNCHANGED <<live, home, apmac>>
    BY <1>5, <2>1 DEF Placed, UniqueMac, Confined
  <2>2. CASE Frees(w)
    BY <1>3, <1>5, <2>2 DEF Frees, Placed, UniqueMac, Confined, FoundOK, TypeOK, NodeTypes
  <2>3. ASSUME NEW n \in Nodes, Adds(w, n) PROVE Placed' /\ UniqueMac' /\ Confined(bkt[w])
    <3>1. /\ home \in [Nodes -> Buckets] /\ apmac \in [Nodes -> AllMacs]
          /\ live \subseteq Nodes
      BY DEF TypeOK, NodeTypes
    <3>2. bkt[w] = Bucket[arg[w].mac] /\ \A x \in live : apmac[x] # arg[w].mac
      BY <1>3, <1>5, <2>3 DEF LocalOK, MissedOK, Adds
    <3>3. /\ n \notin live /\ live' = live \cup {n}
          /\ home'[n] = bkt[w] /\ apmac'[n] = arg[w].mac
          /\ \A x \in live : home'[x] = home[x] /\ apmac'[x] = apmac[x]
      BY <2>3, <3>1, <3>2 DEF Adds
    <3>4. Placed'
      BY <1>5, <3>2, <3>3 DEF Placed
    <3>5. UniqueMac'
      BY <1>5, <3>2, <3>3 DEF UniqueMac
    <3>6. Confined(bkt[w])
      BY <3>2, <3>3 DEF Confined
    <3> QED
      BY <3>4, <3>5, <3>6
  <2> QED
    BY <2>1, <2>2, <2>3, ActEffect
<1>7. ASSUME NEW v \in Workers PROVE LocalOK(v)' /\ FoundOK(v)' /\ MissedOK(v)'
  <2>1. CASE v = w
    BY <1>4, <2>1
  <2>2. CASE v # w
    <3>1. SameLocals(v) /\ LocalOK(v) /\ FoundOK(v) /\ MissedOK(v)
      BY <1>1, <1>3, <2>2 DEF SameLocals, TableInv
    <3>2. pc[v] = "act" => bkt[v] # bkt[w]
      BY <1>3, <2>2, Apart DEF InSection
    <3>3. bkt[w] \in Buckets
      BY DEF TypeOK, WorkTypes
    <3> QED
      BY <1>6, <3>1, <3>2, <3>3, Elsewhere
  <2> QED
    BY <2>1, <2>2
<1> QED
  BY <1>1, <1>5, <1>6, <1>7, NotWipingStays DEF TableInv

\* The ageing thread frees nodes of the bucket it has locked only.
LEMMA TableAge ==
  ASSUME TypeOK, LocksMatchSections, TableInv, Age \/ Elapse
  PROVE  TableInv'
<1>1. UNCHANGED <<mpc, buf, mode, home, apmac, pc, kind, arg, bkt, tgt>>
  BY DEF Age, AgeMode1, AgeMode2, AgeLock, AgeBucket, Elapse, mainVars, nodeVars, workVars
<1>2. live' \subseteq live
  BY DEF Age, AgeMode1, AgeMode2, AgeLock, AgeBucket, Elapse, nodeVars
<1>3. NotWiping' /\ Placed' /\ UniqueMac'
  BY <1>1, <1>2, NotWipingStays DEF TableInv, Placed, UniqueMac
<1>4. ASSUME NEW v \in Workers PROVE LocalOK(v)' /\ FoundOK(v)' /\ MissedOK(v)'
  <2>1. SameLocals(v) /\ LocalOK(v) /\ FoundOK(v) /\ MissedOK(v)
    BY <1>1 DEF SameLocals, TableInv
  <2>2. CASE live' = live
    BY <1>1, <2>1, <2>2, Untouched
  <2>3. CASE AgeBucket /\ live' # live
    <3>1. Confined(abkt)
      BY <1>1, <1>2, <2>3 DEF AgeBucket, Late, Chain, Confined
    <3>2. abkt \in Buckets /\ mutex[abkt] = Ager
      BY <2>3 DEF TypeOK, AgerTypes, AgeBucket, LocksMatchSections
    <3>3. pc[v] = "act" => bkt[v] # abkt
      BY <3>2 DEF LocksMatchSections, InSection
    <3> QED
      BY <2>1, <3>1, <3>2, <3>3, Elsewhere
  <2> QED
    BY <2>2, <2>3 DEF Age, AgeMode1, AgeMode2, AgeLock, Elapse, nodeVars
<1> QED
  BY <1>3, <1>4 DEF TableInv

LEMMA TableStep ==
  ASSUME NeverWiped, TypeOK, LocksMatchSections, TableInv, [Next]_vars
  PROVE  TableInv'
<1>1. CASE UNCHANGED vars
  <2>1. NotWiping' /\ Placed' /\ UniqueMac'
    BY <1>1 DEF vars, mainVars, nodeVars, TableInv, NotWiping, Placed, UniqueMac
  <2> QED
    BY <1>1, <2>1, Untouched DEF vars, nodeVars, workVars, SameLocals, TableInv
<1> QED
  BY <1>1, TableMain, TablePrepare, TableFind, TableAct, TableAge DEF Next, Worker

LEMMA TableSound ==
  ASSUME NeverWiped
  PROVE  Spec => []TableInv
BY TableInit, TableStep, TypeCorrect, SectionsAreLocked, PTL DEF Spec

-----------------------------------------------------------------------------
\* As long as nobody makes the server empty its table, no handler touches a
\* freed node: what a lookup found stays until the bucket is unlocked.
THEOREM NoUseAfterFree ==
  ASSUME NeverWiped
  PROVE  Spec => []FoundNodesStay
<1>1. TableInv => FoundNodesStay
  BY DEF TableInv, FoundOK, FoundNodesStay
<1> QED
  BY <1>1, TableSound, PTL

\* Nor does an AP ever get a second node, whoever adds it: two heartbeats, two
\* requests of the web, or one of each.
THEOREM OneNodePerMac ==
  ASSUME NeverWiped
  PROVE  Spec => []UniqueMac
<1>1. TableInv => UniqueMac
  BY DEF TableInv
<1> QED
  BY <1>1, TableSound, PTL

-----------------------------------------------------------------------------
(* Commands, if main leaves the bytes of a SET worker alone.               *)

\* What is in the buffer of a SET worker was sent by the web, and the node it has
\* found is the one whose MAC is there.
SetOK(w) ==
  pc[w] # "idle" /\ kind[w] = "SET" =>
    /\ Meant(buf.pre, buf.cmd)
    /\ pc[w] = "act" /\ tgt[w] # None => apmac[tgt[w]] = buf.pre

SentByWeb == mpc = "branch" /\ buf.kind = "SET" => Meant(buf.pre, buf.cmd)

SetInv == SentByWeb /\ CommandsAreForTheirAp /\ \A w \in Workers : SetOK(w)

LEMMA SetInit == Init => SetInv
BY DEF Init, SetInv, SentByWeb, CommandsAreForTheirAp, SetOK

\* A node keeps its MAC and its commands, has none left, or is gone.
NoneQueued ==
  \A n \in live' :
    \/ cmds'[n] = <<>>
    \/ n \in live /\ cmds'[n] = cmds[n] /\ apmac'[n] = apmac[n]

LEMMA FewerCommands ==
  ASSUME CommandsAreForTheirAp, NoneQueued
  PROVE  CommandsAreForTheirAp'
<1> SUFFICES ASSUME NEW n \in live', NEW i \in 1 .. Len(cmds'[n])
             PROVE  Meant(apmac'[n], cmds'[n][i])
  BY DEF CommandsAreForTheirAp, Meant
<1>1. cmds'[n] # <<>>
  OBVIOUS
<1> QED
  BY <1>1 DEF CommandsAreForTheirAp, NoneQueued

LEMMA SetMain ==
  ASSUME TypeOK, TableInv, SetInv, BytesKept, Main
  PROVE  SetInv'
<1>1. ~WipeBucket
  BY DEF TableInv, NotWiping, WipeBucket
<1>2. UNCHANGED <<live, apmac, cmds, tgt>>
  BY <1>1 DEF Main, Recv, Spawn, SwitchToOpen, SwitchToAdmin, nodeVars, workVars
<1>3. CommandsAreForTheirAp'
  BY <1>2 DEF SetInv, CommandsAreForTheirAp, Meant
<1>4. SentByWeb'
  <2>1. CASE Recv
    <3>1. PICK m \in Msgs : buf' = Overlay(m)
      BY <2>1 DEF Recv
    <3>2. buf'.kind = m.kind
      BY <3>1 DEF Overlay
    <3>3. CASE m.kind = "SET"
      <4>1. buf'.pre = m.mac /\ buf'.cmd = m.cmd
        BY <3>1, <3>3 DEF Overlay, SwitchKinds
      <4> QED
        BY <3>3, <4>1 DEF SentByWeb, Meant
    <3> QED
      BY <3>2, <3>3 DEF SentByWeb
  <2> QED
    BY <1>1, <2>1 DEF Main, Spawn, SwitchToOpen, SwitchToAdmin, SentByWeb
<1>5. ASSUME NEW v \in Workers PROVE SetOK(v)'
  <2>1. CASE UNCHANGED <<pc, kind>>
    BY <1>2, <2>1 DEF SetInv, SetOK, BytesKept
  <2>2. CASE Spawn /\ ~UNCHANGED <<pc, kind>>
    <3>1. PICK w \in Workers : /\ pc' = [pc EXCEPT ![w] = "addr"]
                               /\ kind' = [kind EXCEPT ![w] = buf.kind]
      BY <2>2 DEF Spawn, Goto
    <3>2. buf' = buf /\ mpc = "branch"
      BY <2>2 DEF Spawn
    <3>3. CASE v = w
      BY <3>1, <3>2, <3>3 DEF SetInv, SentByWeb, SetOK, TypeOK, WorkTypes
    <3>4. CASE v # w
      BY <1>2, <3>1, <3>2, <3>4 DEF SetInv, SetOK, TypeOK, WorkTypes
    <3> QED
      BY <3>3, <3>4
  <2> QED
    BY <1>1, <2>1, <2>2 DEF Main, Recv, SwitchToOpen, SwitchToAdmin, workVars
<1> QED
  BY <1>3, <1>4, <1>5 DEF SetInv

\* Only the lookup brings a worker to where its node matters, and it compares
\* with the MAC in the buffer.
LEMMA SetPrepare ==
  ASSUME TypeOK, TableInv, SetInv, NEW w \in Workers,
         Prepare(w) \/ DeadFrame(w) \/ Lock(w) \/ Find(w) \/ Unlock(w)
  PROVE  SetInv'
<1>1. UNCHANGED <<live, apmac, cmds, mpc, buf>>
  BY DEF Prepare, CopyAddr, CopyData, ReadMode1, ReadMode2, HashSetMac, DeadFrame, Lock, Find,
         Unlock, nodeVars, mainVars
<1>2. CommandsAreForTheirAp' /\ SentByWeb'
  BY <1>1 DEF SetInv, CommandsAreForTheirAp, SentByWeb
<1>3. \A v \in Workers \ {w} : SameLocals(v)
  BY DEF Prepare, CopyAddr, CopyData, ReadMode1, ReadMode2, HashSetMac, DeadFrame, Lock, Find,
         Unlock, Return, Goto, workVars, SameLocals, TypeOK, WorkTypes
<1>4. \A v \in Workers \ {w} : SetOK(v)'
  BY <1>1, <1>3 DEF SetInv, SetOK, SameLocals
<1>5. SetOK(w)'
  <2>1. pc \in [Workers -> Labels] /\ kind \in [Workers -> SpawnKinds] /\ SetOK(w)
    BY DEF TypeOK, WorkTypes, SetInv
  <2>2. CASE UNCHANGED <<pc, kind, tgt>>
    BY <1>1, <2>1, <2>2 DEF SetOK
  <2>3. CASE pc'[w] = "idle"
    BY <2>3 DEF SetOK
  <2>4. CASE pc[w] # "idle" /\ kind'[w] = kind[w] /\ pc'[w] # "act"
    BY <1>1, <2>1, <2>4 DEF SetOK
  <2>5. CASE Find(w)
    <3>1. pc[w] = "find" /\ kind'[w] = kind[w] /\ tgt[w] = None
      BY <2>5 DEF Find, TableInv, LocalOK
    <3>2. kind[w] = "SET" /\ tgt'[w] # None => apmac[tgt'[w]] = buf.pre
      BY <2>5, <3>1 DEF Find, Matches, Wanted, TypeOK, WorkTypes
    <3> QED
      BY <1>1, <2>1, <3>1, <3>2 DEF SetOK
  <2> QED
    BY <2>1, <2>2, <2>3, <2>4, <2>5
    DEF Prepare, CopyAddr, CopyData, ReadMode1, ReadMode2, HashSetMac, DeadFrame, Lock, Unlock,
        Return, Goto, workVars
<1> QED
  BY <1>2, <1>4, <1>5 DEF SetInv

\* A handler queues what is in the buffer for the node it has found, and no other
\* handler gives a node commands or another MAC.
LEMMA SetAct ==
  ASSUME TypeOK, TableInv, SetInv, NEW w \in Workers, Act(w)
  PROVE  SetInv'
<1>1. /\ pc \in [Workers -> Labels] /\ live \subseteq Nodes /\ None \notin Nodes
      /\ cmds \in [Nodes -> Seq(AllCmds)] /\ apmac \in [Nodes -> AllMacs]
      /\ FoundOK(w) /\ SetOK(w) /\ ~UseFreed(w)
  BY DEF TypeOK, NodeTypes, WorkTypes, TableInv, SetInv, UseFreed, FoundOK, Found
<1>2. UNCHANGED <<mpc, buf, kind, tgt>>
  BY DEF Act, UseFreed, Heartbeat, NewAp, UserReport, QueueCommand, SendInfo, AddNode,
         DelNode, mainVars
<1>3. /\ pc[w] = "act" /\ pc'[w] \in {"unlock", "relock"}
      /\ \A v \in Workers \ {w} : pc'[v] = pc[v]
  BY <1>1 DEF Act, Heartbeat, NewAp, UserReport, QueueCommand, SendInfo, AddNode,
         DelNode, At, Leave, Goto
<1>4. \A n \in live : apmac'[n] = apmac[n]
  BY <1>1, ActEffect DEF Frees, Adds
<1>5. ASSUME NEW v \in Workers PROVE SetOK(v)'
  <2>1. FoundOK(v) /\ SetOK(v)
    BY DEF TableInv, SetInv
  <2>2. CASE v = w
    BY <1>2, <1>3, <2>1, <2>2 DEF SetOK
  <2>3. CASE v # w
    BY <1>2, <1>3, <1>4, <2>1, <2>3 DEF SetOK, FoundOK
  <2> QED
    BY <2>2, <2>3
<1>6. CommandsAreForTheirAp'
  <2>1. CASE Heartbeat(w)
    <3>1. live' = live /\ cmds' = [cmds EXCEPT ![tgt[w]] = <<>>]
      BY <2>1 DEF Heartbeat
    <3>2. NoneQueued
      BY <1>1, <1>4, <3>1 DEF NoneQueued
    <3> QED
      BY <3>2, FewerCommands DEF SetInv
  <2>2. CASE NewAp(w) \/ AddNode(w)
    <3>1. CASE UNCHANGED nodeVars
      BY <3>1 DEF nodeVars, SetInv, CommandsAreForTheirAp, Meant
    <3>2. ASSUME NEW n \in Nodes \ live, NEW st, NEW late, Link(n, arg[w].mac, st, late)
          PROVE  NoneQueued
      <4>1. live' = live \cup {n} /\ cmds' = [cmds EXCEPT ![n] = <<>>]
        BY <3>2 DEF Link
      <4> QED
        BY <1>1, <1>4, <4>1 DEF NoneQueued
    <3> QED
      BY <2>2, <3>1, <3>2, FewerCommands DEF NewAp, AddNode, SetInv
  <2>3. CASE UserReport(w) \/ SendInfo(w) \/ DelNode(w)
    <3>1. NoneQueued
      BY <1>1, <1>4, <2>3 DEF UserReport, SendInfo, DelNode, nodeVars, NoneQueued
    <3> QED
      BY <3>1, FewerCommands DEF SetInv
  <2>4. CASE QueueCommand(w)
    <3>1. live' = live /\ apmac' = apmac /\ kind[w] = "SET"
      BY <2>4 DEF QueueCommand, At
    <3>2. CASE cmds' = cmds
      BY <1>4, <3>1, <3>2, FewerCommands DEF NoneQueued, SetInv
    <3>3. CASE tgt[w] \in live /\ cmds' = [cmds EXCEPT ![tgt[w]] = <<buf.cmd>> \o @]
      <4> SUFFICES ASSUME NEW n \in live, NEW i \in 1 .. Len(cmds'[n])
                   PROVE  Meant(apmac[n], cmds'[n][i])
        BY <3>1 DEF CommandsAreForTheirAp, Meant
      <4>1. CASE n # tgt[w]
        BY <1>1, <3>3, <4>1 DEF SetInv, CommandsAreForTheirAp
      <4>2. CASE n = tgt[w]
        <5>1. Meant(apmac[n], buf.cmd)
          BY <1>1, <1>3, <3>1, <3>3, <4>2 DEF SetOK
        <5>2. buf.cmd \in AllCmds /\ cmds[n] \in Seq(AllCmds) /\ cmds'[n] = <<buf.cmd>> \o cmds[n]
          BY <1>1, <3>3, <4>2 DEF TypeOK, MainTypes, Buffer
        <5>3. \/ cmds'[n][i] = buf.cmd
              \/ i - 1 \in 1 .. Len(cmds[n]) /\ cmds'[n][i] = cmds[n][i - 1]
          BY <5>2
        <5> QED
          BY <5>1, <5>3 DEF SetInv, CommandsAreForTheirAp
      <4> QED
        BY <4>1, <4>2
    <3> QED
      BY <2>4, <3>2, <3>3 DEF QueueCommand, Found
  <2> QED
    BY <1>1, <2>1, <2>2, <2>3, <2>4 DEF Act
<1>7. SentByWeb'
  BY <1>2 DEF SetInv, SentByWeb
<1> QED
  BY <1>5, <1>6, <1>7 DEF SetInv

LEMMA SetAge ==
  ASSUME TypeOK, SetInv, Age \/ Elapse
  PROVE  SetInv'
<1>1. UNCHANGED <<mpc, buf, apmac, pc, kind, tgt>>
  BY DEF Age, AgeMode1, AgeMode2, AgeLock, AgeBucket, Elapse, mainVars, nodeVars, workVars
<1>2. NoneQueued
  <2>1. CASE UNCHANGED cmds
    <3>1. live' \subseteq live
      BY DEF Age, AgeMode1, AgeMode2, AgeLock, AgeBucket, Elapse, nodeVars
    <3> QED
      BY <1>1, <2>1, <3>1 DEF NoneQueued
  <2>2. CASE ~UNCHANGED cmds
    <3>1. /\ live' = live
          /\ cmds' = [n \in Nodes |-> IF n \in Late THEN <<>> ELSE cmds[n]]
      BY <2>2 DEF Age, AgeMode1, AgeMode2, AgeLock, AgeBucket, Elapse, nodeVars
    <3> QED
      BY <1>1, <3>1 DEF NoneQueued, TypeOK, NodeTypes
  <2> QED
    BY <2>1, <2>2
<1>3. CommandsAreForTheirAp'
  BY <1>2, FewerCommands DEF SetInv
<1> QED
  BY <1>1, <1>3 DEF SetInv, SentByWeb, SetOK

LEMMA SetStep ==
  ASSUME TypeOK, TableInv, SetInv, [Next]_vars, [BytesKept]_vars
  PROVE  SetInv'
<1>1. CASE UNCHANGED vars
  BY <1>1 DEF vars, mainVars, nodeVars, workVars, SetInv, SentByWeb, CommandsAreForTheirAp,
              SetOK, Meant
<1>2. CASE Main /\ BytesKept
  BY <1>2, SetMain
<1> QED
  BY <1>1, <1>2, SetPrepare, SetAct, SetAge DEF Next, Worker

\* The shared buffer is all there is to finding 2: as long as nobody makes the
\* server empty its table, and main's buffer keeps the bytes of every SET worker
\* until it returns, every queued command was sent by the web for that AP.
THEOREM KeptBytesKeepCommands ==
  ASSUME NeverWiped
  PROVE  Spec /\ BufferIsKept => []CommandsAreForTheirAp
<1>1. SetInv => CommandsAreForTheirAp
  BY DEF SetInv
<1> QED
  BY <1>1, SetInit, SetStep, TableSound, TypeCorrect, PTL DEF Spec, BufferIsKept
=============================================================================
