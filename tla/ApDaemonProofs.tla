--------------------------- MODULE ApDaemonProofs ---------------------------
(***************************************************************************)
(* Proofs about ApDaemon for every set of lists, URLs, intervals and       *)
(* commands and every value of the bounds: its types, that the portal is   *)
(* given up only after a silence and not long after one, that the stored   *)
(* configuration is the active one unless two threads clash, that reports  *)
(* are whole, and that the daemon implements ConfigStore.                  *)
(***************************************************************************)
EXTENDS ConfigRefines, TLAPS, WellFoundedInduction

\* What each writer may be carrying out where, and that an update stores a value of
\* the kind its key has.
KeyOfPart == IF part = "bare" THEN "white" ELSE part

Sorted ==
  /\ job["hb"].key = "switch" /\ job["hb"].val \in {"on", "off"}
  /\ pc["rx"] \in Storing => job["rx"].val \in Values[job["rx"].key]
  /\ pc["rx"] \in {"wipe", "wiped"} => job["rx"].key = "white"
  /\ pc["rx"] \in {"resolve", "ips"} => job["rx"].key \notin Switches
  /\ pc["lc"] \in {"ask", "fetch", "resolve", "ips"} => part # "bare"
  /\ pc["lc"] \in {"fetch", "resolve", "ips", "type", "data", "send"} => job["lc"].key = KeyOfPart
  /\ sql.op = "set" => sql.val \in Values[sql.key]

Typed == TypeOK /\ Sorted

\* Steps that move no thread, but for the last one of the daemon.
Still == AcFails \/ AcReturns \/ \E t \in Writers : Fault(t)

\* The cases of a step.
LEMMA NextCases ==
  ASSUME Next
  PROVE  \/ up /\ \E t \in Writers : Step(t)
         \/ up /\ (Heartbeat \/ Receive \/ Local \/ Reporter \/ Still \/ Tick)
         \/ ~up /\ Gone
BY DEF Next, Still

LEMMA StillFacts ==
  ASSUME Still
  PROVE  UNCHANGED <<beat, stall, pc, job, part, shared, passing, work, clash, unsure>>
BY DEF Still, AcFails, AcReturns, Fault

LEMMA GoneFacts ==
  ASSUME Gone
  PROVE  /\ UNCHANGED <<stall, pc, job, part, shared, passing, life, work, clash, unsure>>
         /\ UNCHANGED <<answered, sinceGood, timer, interval, flag>>
BY DEF Gone

\* The values of each key.
LEMMA ValuesFacts ==
  /\ \A k \in Keys : Values[k] \subseteq Anything
  /\ Values["switch"] = {"on", "off"} /\ Values["klog"] = {"on", "off"}
  /\ "bare" \in Values["white"] /\ "none" \in Values["portal"]
  /\ {"zero", "report", "garbled", "mixed", "none", "bare", "on", "off"} \subseteq Anything
<1>1. \A k \in Keys : Values[k] = CASE k = "white" -> Lists \cup {"bare"}
                                 [] k = "portal" -> Urls \cup {"none"}
                                 [] OTHER -> {"on", "off"}
  BY DEF Values
<1>2. /\ Values["switch"] = {"on", "off"} /\ Values["klog"] = {"on", "off"}
      /\ Values["white"] = Lists \cup {"bare"} /\ Values["portal"] = Urls \cup {"none"}
  BY <1>1 DEF Keys
<1>3. \A k \in Keys : Values[k] \subseteq Anything
  BY DEF Anything
<1>4. "bare" \in Anything /\ "none" \in Anything /\ "on" \in Anything /\ "off" \in Anything
  BY <1>2, <1>3 DEF Keys
<1>5. {"zero", "report", "garbled", "mixed"} \subseteq Anything
  BY DEF Anything
<1> QED BY <1>2, <1>3, <1>4, <1>5

\* Types hold at the start.
LEMMA InitTyped == ASSUME Init PROVE Typed
<1> USE DaemonConstantsOK, ValuesFacts DEF Init, Cmd
<1>1. sinceGood \in 0 .. Far /\ quiet \in 0 .. Far /\ stall \in 0 .. Stall /\ work \in 0 .. Work
  OBVIOUS
<1>2. pc \in [Threads -> HbPlaces \cup RxPlaces \cup LcPlaces \cup RpPlaces]
  BY DEF HbPlaces, RxPlaces, LcPlaces, RpPlaces, Threads
<1>3. /\ pc["hb"] = "sleep" /\ pc["rx"] = "idle" /\ pc["lc"] = "idle" /\ pc["rp"] = "clear"
  BY DEF Threads, Writers
<1>4. /\ job \in [Writers -> Cmds] /\ sql \in [op : {"set", "read"}, key : Keys, val : Anything]
      /\ nl \in [type : MsgTypes, data : Anything] /\ rtype \in MsgTypes
      /\ kernel \in [Keys -> Anything]
  BY DEF Cmds, MsgTypes, Keys, Zero
<1>5. job["hb"] = Cmd("switch", "off") /\ job["rx"] = Cmd("switch", "off") /\ sql.op = "read"
  BY DEF Writers
<1>6. TypeOK
  BY <1>1, <1>2, <1>3, <1>4 DEF TypeOK, HbPlaces, RxPlaces, LcPlaces, RpPlaces
<1>7. Sorted
  BY <1>3, <1>5 DEF Sorted, Storing
<1> QED BY <1>6, <1>7 DEF Typed

\* What a thread that asks for names leaves of the jobs: none changes its key, and one
\* whose addresses nobody overwrites stays as it was.
LEMMA AskTyped ==
  ASSUME Typed, NEW t \in Writers, NEW v \in Texts(t), NEW got \in {v, "bare"}, Ask(t, v, got)
  PROVE  /\ job' \in [Writers -> Cmds] /\ \A u \in Writers : job'[u].key = job[u].key
         /\ job'[t].val = got /\ clash' \in BOOLEAN
<1>1. v \in Anything
  BY ValuesFacts DEF Texts, Rereads, Typed, TypeOK, Cmds, Keys
<1>2. got \in Anything /\ "mixed" \in Anything
  BY <1>1, ValuesFacts
<1> QED BY <1>1, <1>2 DEF Ask, Typed, TypeOK, Cmds

LEMMA AskKeeps ==
  ASSUME Typed, NEW t \in Writers, NEW v, NEW got, Ask(t, v, got)
  PROVE  /\ \A u \in Writers : u # t /\ pc[u] # "ips" => job'[u] = job[u]
         /\ ~clash' => \A u \in Writers : u # t => job'[u] = job[u]
BY DEF Ask, Overwrites

LEMMA ResolveAsks ==
  ASSUME NEW t \in Writers, Resolve(t)
  PROVE  \E v \in Texts(t) : \E got \in {v, "bare"} : Ask(t, v, got)
BY DEF Resolve

\* Types under a step that any of the writers takes.
LEMMA StepTyped == ASSUME Typed, NEW t \in Writers, Step(t) PROVE Typed'
<1> USE DaemonConstantsOK, ValuesFacts
<1> USE DEF Typed, TypeOK, Sorted, KeyOfPart, HbPlaces, RxPlaces, LcPlaces, RpPlaces, Threads,
            Writers, Goto, beat, db, passing, life, Cmds, Cmd, Storing
<1>1. CASE PrintSql(t)
  <2>1. CASE pc[t] = "wipe"
    <3>1. /\ t = "rx" /\ pc' = [pc EXCEPT ![t] = "wiped"]
          /\ sql' = [op |-> "set", key |-> "white", val |-> "bare"] /\ clash' \in BOOLEAN
          /\ UNCHANGED <<beat, stall, job, part, nl, db, kernel, passing, life, work, unsure>>
      BY <1>1, <2>1 DEF PrintSql, WriteSql
    <3> QED BY <2>1, <3>1 DEF Keys
  <2>2. CASE pc[t] = "print"
    <3>1. /\ t \in {"hb", "rx"} /\ pc' = [pc EXCEPT ![t] = "exec"]
          /\ sql' = [op |-> "set", key |-> job[t].key, val |-> job[t].val] /\ clash' \in BOOLEAN
          /\ UNCHANGED <<beat, stall, job, part, nl, db, kernel, passing, life, work, unsure>>
      BY <1>1, <2>2 DEF PrintSql, WriteSql
    <3>2. job[t].val \in Values[job[t].key]
      <4>1. CASE t = "hb" BY <4>1
      <4>2. CASE t = "rx" BY <2>2, <4>2
      <4> QED BY <3>1, <4>1, <4>2
    <3>3. sql' \in [op : {"set", "read"}, key : Keys, val : Anything]
      BY <3>1
    <3> QED BY <2>2, <3>1, <3>2, <3>3
  <2> QED BY <1>1, <2>1, <2>2 DEF PrintSql
<1>2. CASE Exec(t)
  <2>1. /\ store' \in [Keys -> Anything] /\ (\A k \in Keys : store'[k] \in Values[k])
        /\ framed' \in BOOLEAN
    <3>1. framed' \in BOOLEAN BY <1>2, Zenon DEF Exec, Framed, Binds
    <3>2. Binds(t) /\ pc[t] \in {"wiped", "exec"} => job[t].val \in Values["portal"]
      BY DEF Binds
    <3> QED BY <1>2, <3>1, <3>2 DEF Exec, Executed
  <2>2. /\ UNCHANGED <<beat, stall, job, part, sql, nl, kernel, passing, life, work, clash>>
        /\ unsure' \subseteq Keys
    BY <1>2 DEF Exec
  <2>3. CASE t = "hb"
    BY <1>2, <2>1, <2>2, <2>3 DEF Exec, Switches
  <2>4. CASE t = "rx"
    BY <1>2, <2>1, <2>2, <2>4 DEF Exec
  <2>5. CASE t = "lc"
    BY <1>2, <2>5 DEF Exec
  <2> QED BY <2>3, <2>4, <2>5
<1>3. CASE Resolve(t)
  <2>1. UNCHANGED <<beat, stall, shared, passing, life, work>>
    BY <1>3 DEF Resolve
  <2>2. /\ job' \in [Writers -> Cmds] /\ \A u \in Writers : job'[u].key = job[u].key
        /\ \A u \in Writers : u # t /\ pc[u] # "ips" => job'[u] = job[u]
        /\ clash' \in BOOLEAN
    <3>1. PICK v \in Texts(t) : \E got \in {v, "bare"} : Ask(t, v, got)
      BY <1>3, ResolveAsks
    <3>2. Typed OBVIOUS
    <3> HIDE DEF Typed
    <3> QED BY <3>1, <3>2, AskTyped, AskKeeps
  <2>4. unsure' \subseteq Keys
    BY <1>3 DEF Resolve
  <2>5. CASE t = "rx"
    BY <1>3, <2>1, <2>2, <2>4, <2>5 DEF Resolve, Finish, shared, Keys, Switches
  <2>6. CASE t = "lc"
    BY <1>3, <2>1, <2>2, <2>4, <2>6 DEF Resolve, Finish, NextPart, shared, Keys
  <2>7. CASE t = "hb"
    BY <1>3, <2>7 DEF Resolve
  <2> QED BY <2>5, <2>6, <2>7
<1>4. CASE SetType(t)
  <2>1. /\ pc[t] = "type" /\ pc' = [pc EXCEPT ![t] = "data"] /\ clash' \in BOOLEAN
        /\ \E c \in Cmds : nl' = [nl EXCEPT !.type = c]
        /\ UNCHANGED <<beat, stall, job, part, sql, db, kernel, passing, life, work, unsure>>
    BY <1>4 DEF SetType, WriteNl, MsgType
  <2>2. nl' \in [type : MsgTypes, data : Anything]
    BY <2>1 DEF MsgTypes
  <2> QED BY <2>1, <2>2
<1>5. CASE SetData(t)
  <2>1. /\ pc[t] = "data" /\ pc' = [pc EXCEPT ![t] = "send"] /\ clash' \in BOOLEAN
        /\ \E v \in Anything : nl' \in {nl, [nl EXCEPT !.data = v]}
        /\ UNCHANGED <<beat, stall, job, part, sql, db, kernel, passing, life, work, unsure>>
    BY <1>5 DEF SetData, WriteNl
  <2> QED BY <2>1
<1>6. CASE SendData(t)
  <2>1. kernel' \in [Keys -> Anything]
    BY <1>6 DEF SendData, Applied, MsgTypes
  <2>2. UNCHANGED <<beat, stall, job, sql, nl, db, passing, life, work, clash, unsure>>
    BY <1>6 DEF SendData
  <2>3. CASE t = "hb"
    BY <1>6, <2>1, <2>2, <2>3 DEF SendData, Finish
  <2>4. CASE t = "rx"
    BY <1>6, <2>1, <2>2, <2>4 DEF SendData, Finish
  <2>5. CASE t = "lc"
    BY <1>6, <2>1, <2>2, <2>5 DEF SendData, Finish, NextPart
  <2> QED BY <2>3, <2>4, <2>5
<1>7. CASE CopyIps(t)
  BY <1>7 DEF CopyIps, shared
<1> QED BY <1>1, <1>2, <1>3, <1>4, <1>5, <1>6, <1>7 DEF Step

\* A command is begun with a value of the kind its key has.
LEMMA CommandBegins ==
  ASSUME NEW c \in Commands, RecvCommand(c)
  PROVE  \E v \in Values[c.key] :
           /\ c.key \in Keys /\ Begin("rx", Cmd(c.key, v)) /\ Cmd(c.key, v) \in Cmds
           /\ c.key # "white" => v = c.val
<1>1. c \in Cmds /\ c.val \in Values[c.key] /\ c.key \in Keys
  BY DaemonConstantsOK DEF Cmds
<1>2. PICK v \in IF c.key = "white" THEN Values["white"] ELSE {c.val} : Begin("rx", Cmd(c.key, v))
  BY DEF RecvCommand
<1>3. v \in Values[c.key]
  BY <1>1
<1>4. Cmd(c.key, v) \in Cmds
  BY <1>1, <1>3, ValuesFacts DEF Cmd, Cmds
<1> QED BY <1>1, <1>2, <1>3, <1>4

\* Types under every other step.
LEMMA OtherTyped ==
  ASSUME Typed,
         Heartbeat \/ Receive \/ Local \/ Reporter \/ Still \/ Tick
  PROVE  Typed'
<1> USE DaemonConstantsOK, ValuesFacts
<1> USE DEF Typed, TypeOK, Sorted, KeyOfPart, HbPlaces, RxPlaces, LcPlaces, RpPlaces, Threads,
            Writers, Goto, beat, db, shared, passing, life, Cmds, Cmd, Storing
<1>1. CASE Heartbeat
  <2>1. CASE Beat BY <2>1 DEF Beat
  <2>2. CASE Test
    <3>1. /\ \E l \in {"print", "clear", "late"} : pc' = [pc EXCEPT !["hb"] = l]
          /\ job' \in {job, [job EXCEPT !["hb"] = Cmd("switch", "on")]} /\ clash' \in BOOLEAN
          /\ UNCHANGED <<beat, stall, part, shared, passing, life, work, unsure>>
      BY <2>2 DEF Test, Begin
    <3> QED BY <3>1 DEF Keys
  <2>3. CASE Late
    <3>1. /\ \E l \in {"print", "nap"} : pc' = [pc EXCEPT !["hb"] = l]
          /\ job' \in {job, [job EXCEPT !["hb"] = Cmd("switch", "off")]} /\ clash' \in BOOLEAN
          /\ flag' \in {"on", "off"} /\ UNCHANGED <<answered, sinceGood, timer, interval, quiet>>
          /\ UNCHANGED <<stall, part, shared, passing, life, work, unsure>>
      BY <2>3 DEF Late, Begin
    <3> QED BY <3>1 DEF Keys
  <2>4. CASE Clear
    <3>1. answered' \in BOOLEAN /\ flag' = "on" BY <2>4, Zenon DEF Clear
    <3>2. /\ pc' = [pc EXCEPT !["hb"] = "nap"] /\ sinceGood' = stall
          /\ UNCHANGED <<timer, interval, quiet>>
          /\ UNCHANGED <<stall, job, part, shared, passing, life, work, clash, unsure>>
      BY <2>4 DEF Clear
    <3> QED BY <3>1, <3>2
  <2>5. CASE Nap BY <2>5 DEF Nap
  <2> QED BY <1>1, <2>1, <2>2, <2>3, <2>4, <2>5 DEF Heartbeat
<1>2. CASE Receive
  <2>1. CASE RecvHeartBeat BY <2>1 DEF RecvHeartBeat
  <2>2. ASSUME NEW i \in Intervals, RecvInterval(i) PROVE Typed'
    BY <2>2 DEF RecvInterval
  <2>3. ASSUME NEW c \in Commands, RecvCommand(c) PROVE Typed'
    <3>1. PICK v \in Values[c.key] : c.key \in Keys /\ Begin("rx", Cmd(c.key, v))
      BY <2>3, CommandBegins
    <3> QED BY <2>3, <3>1 DEF RecvCommand, Begin
  <2> QED BY <1>2, <2>1, <2>2, <2>3 DEF Receive
<1>3. CASE Local
  <2>1. CASE NetworkChanges BY <2>1 DEF NetworkChanges, Begin, Keys
  <2>2. CASE Select BY <2>2 DEF Select, Keys
  <2>3. CASE Fetch
    <3>1. store' \in [Keys -> Anything] /\ \A k \in Keys : store'[k] \in Values[k]
      BY <2>3 DEF Fetch, Executed, Binds
    <3>2. \A v \in Fetched : v \in Anything
      BY DEF Fetched, Keys
    <3>3. PICK v \in Anything : job' = [job EXCEPT !["lc"].val = v]
      BY <2>3, <3>2 DEF Fetch
    <3>4. /\ job' \in [Writers -> Cmds] /\ job'["hb"] = job["hb"] /\ job'["rx"] = job["rx"]
          /\ job'["lc"].key = job["lc"].key
      BY <3>3
    <3>5. framed' \in BOOLEAN BY <2>3, Zenon DEF Fetch, Framed, Binds
    <3>6. /\ pc["lc"] = "fetch" /\ pc' = [pc EXCEPT !["lc"] = "resolve"]
          /\ UNCHANGED <<beat, stall, part, sql, nl, kernel, passing, life, work, clash, unsure>>
      BY <2>3 DEF Fetch
    <3> QED BY <3>1, <3>4, <3>5, <3>6
  <2> QED BY <1>3, <2>1, <2>2, <2>3 DEF Local
<1>4. CASE Reporter
  <2>1. CASE RecvKmod
    <3>1. came' \in BOOLEAN BY <2>1, Zenon DEF RecvKmod
    <3>2. nl' \in [type : MsgTypes, data : Anything] /\ clash' \in BOOLEAN
      BY <2>1 DEF RecvKmod, WriteNl, Zero, MsgTypes
    <3>3. /\ pc' = [pc EXCEPT !["rp"] = "recv"]
          /\ UNCHANGED <<beat, stall, job, part, sql, store, framed, kernel, rtype, life, work,
                         unsure>>
      BY <2>1 DEF RecvKmod
    <3> QED BY <3>1, <3>2, <3>3
  <2>2. CASE ReportComes
    <3>1. came' \in BOOLEAN BY <2>2, Zenon DEF ReportComes
    <3>2. nl' \in [type : MsgTypes, data : Anything] /\ clash' \in BOOLEAN
      BY <2>2 DEF ReportComes, WriteNl, Report, MsgTypes
    <3>3. /\ pc' = [pc EXCEPT !["rp"] = "take"] /\ work' \in 0 .. Work
          /\ UNCHANGED <<beat, stall, job, part, sql, store, framed, kernel, rtype, life, unsure>>
      BY <2>2 DEF ReportComes
    <3> QED BY <3>1, <3>2, <3>3
  <2>3. CASE RecvFails BY <2>3 DEF RecvFails
  <2>4. CASE TakeType BY <2>4 DEF TakeType
  <2>5. CASE PassOn BY <2>5 DEF PassOn
  <2> QED BY <1>4, <2>1, <2>2, <2>3, <2>4, <2>5 DEF Reporter
<1>5. CASE Still
  <2>1. up' \in BOOLEAN /\ acUp' \in BOOLEAN
    <3>1. CASE AcFails BY <3>1, Zenon DEF AcFails
    <3>2. CASE AcReturns BY <3>2, Zenon DEF AcReturns
    <3>3. ASSUME NEW t \in Writers, Fault(t) PROVE up' \in BOOLEAN /\ acUp' \in BOOLEAN
      BY <3>3, Zenon DEF Fault
    <3> QED BY <1>5, <3>1, <3>2, <3>3 DEF Still
  <2> QED BY <1>5, <2>1, StillFacts
<1>6. CASE Tick
  <2>1. /\ UNCHANGED <<answered, interval, flag>>
        /\ UNCHANGED <<pc, job, part, shared, passing, life, work, clash, unsure>>
    BY <1>6 DEF Tick
  <2>2. sinceGood' \in 0 .. Far /\ quiet' \in 0 .. Far /\ stall' \in 0 .. Stall /\ timer' \in Nat
    BY <1>6 DEF Tick, Older
  <2> QED BY <2>1, <2>2
<1> QED BY <1>1, <1>2, <1>3, <1>4, <1>5, <1>6

LEMMA GoneTyped == ASSUME Typed, Gone PROVE Typed'
<1>1. quiet' \in 0 .. Far
  BY DaemonConstantsOK DEF Gone, Older, Typed, TypeOK
<1> QED BY <1>1, GoneFacts DEF Typed, TypeOK, Sorted, KeyOfPart, shared, db, passing, life

LEMMA StutterTyped == ASSUME Typed, UNCHANGED vars PROVE Typed'
BY DEF Typed, TypeOK, Sorted, KeyOfPart, vars, beat, shared, db, passing, life

LEMMA NextTyped == ASSUME Typed, Next PROVE Typed'
BY NextCases, StepTyped, OtherTyped, GoneTyped

\* Every variable has its type, and every thread is where its code can be.
THEOREM DaemonTypes == Spec => []TypeOK
<1>1. Init => Typed BY InitTyped
<1>2. Typed /\ [Next]_vars => Typed'
  BY NextTyped, StutterTyped
<1>3. Typed => TypeOK BY DEF Typed
<1> QED BY <1>1, <1>2, <1>3, PTL DEF Spec

-----------------------------------------------------------------------------
\* An answer is waited for since the clock was read before the last one was taken; one
\* that waits while the thread is at Late has come since it read the clock.
Waiting ==
  /\ flag = "on" /\ ~answered => quiet + Stall >= sinceGood
  /\ pc["hb"] = "late" /\ answered => quiet <= stall

\* Writers leave the times alone, and none of their steps leads to Late.
LEMMA StepWaiting ==
  ASSUME Typed, Waiting, NEW t \in Writers, Step(t)
  PROVE  Waiting' /\ UNCHANGED <<beat, stall>>
<1>1. UNCHANGED <<beat, stall>>
  BY DEF Step, PrintSql, Exec, Resolve, CopyIps, SetType, SetData, SendData
<1>2. \E p \in {"wiped", "exec", "print", "type", "resolve", "data", "send", "clear", "nap",
               "idle", "ask", "ips"} : pc' = [pc EXCEPT ![t] = p]
  BY DEF Step, PrintSql, Exec, Resolve, CopyIps, SetType, SetData, SendData, Finish, Goto
<1>3. pc'["hb"] = "late" => pc["hb"] = "late"
  BY <1>2 DEF Typed, TypeOK, Threads, Writers
<1> QED BY <1>1, <1>3 DEF Waiting, beat

LEMMA OtherWaiting ==
  ASSUME Typed, Waiting,
         Heartbeat \/ Receive \/ Local \/ Reporter \/ Still \/ Tick
  PROVE  Waiting'
<1> USE DaemonConstantsOK DEF Typed, TypeOK, Waiting, beat, Goto, Threads, Writers
<1>1. CASE Heartbeat
  <2>1. CASE Beat
    <3>1. pc'["hb"] = "test" BY <2>1 DEF Beat
    <3> QED BY <2>1, <3>1 DEF Beat
  <2>2. CASE Test
    <3>1. pc'["hb"] = "late" => ~answered BY <2>2 DEF Test
    <3> QED BY <2>2, <3>1 DEF Test
  <2>3. CASE Late
    <3>1. pc'["hb"] # "late" BY <2>3 DEF Late
    <3>2. UNCHANGED <<answered, sinceGood, quiet>> /\ flag' \in {flag, "off"}
      BY <2>3 DEF Late
    <3> QED BY <3>1, <3>2
  <2>4. CASE Clear
    <3>1. pc'["hb"] = "nap" BY <2>4 DEF Clear
    <3>2. sinceGood' = stall /\ quiet' = quiet BY <2>4 DEF Clear
    <3>3. quiet + Stall >= stall OBVIOUS
    <3> QED BY <3>1, <3>2, <3>3
  <2>5. CASE Nap
    <3>1. pc'["hb"] = "sleep" BY <2>5 DEF Nap
    <3> QED BY <2>5, <3>1 DEF Nap
  <2> QED BY <1>1, <2>1, <2>2, <2>3, <2>4, <2>5 DEF Heartbeat
<1>2. CASE Receive
  <2>1. CASE RecvHeartBeat
    <3>1. quiet' = 0 /\ answered' /\ UNCHANGED <<stall, pc, sinceGood, flag>>
      BY <2>1 DEF RecvHeartBeat
    <3> QED BY <3>1
  <2>2. ASSUME NEW i \in Intervals, RecvInterval(i) PROVE Waiting'
    BY <2>2 DEF RecvInterval
  <2>3. ASSUME NEW c \in Commands, RecvCommand(c) PROVE Waiting'
    <3>1. pc'["hb"] = pc["hb"] BY <2>3 DEF RecvCommand
    <3> QED BY <2>3, <3>1 DEF RecvCommand
  <2> QED BY <1>2, <2>1, <2>2, <2>3 DEF Receive
<1>3. CASE Local \/ Reporter
  <2>1. pc'["hb"] = pc["hb"]
    BY <1>3 DEF Local, Reporter, NetworkChanges, Select, Fetch, RecvKmod, ReportComes,
                RecvFails, TakeType, PassOn
  <2>2. UNCHANGED <<beat, stall>>
    BY <1>3 DEF Local, Reporter, NetworkChanges, Select, Fetch, RecvKmod, ReportComes,
                RecvFails, TakeType, PassOn
  <2> QED BY <2>1, <2>2
<1>4. CASE Still
  BY <1>4, StillFacts
<1>5. CASE Tick
  <2>1. UNCHANGED <<answered, flag, pc>> BY <1>5 DEF Tick
  <2>2. quiet + Stall >= sinceGood => quiet' + Stall >= sinceGood'
    BY <1>5 DEF Tick, Older
  <2>3. pc["hb"] = "late" /\ quiet <= stall => quiet' <= stall'
    BY <1>5 DEF Tick, Older
  <2> QED BY <2>1, <2>2, <2>3
<1> QED BY <1>1, <1>2, <1>3, <1>4, <1>5

\* The heartbeat thread gives the AC up only after three silent intervals, and ignores
\* no answer but one that came while it was deciding.
THEOREM PortalNeedsSilence == Spec => TimeoutNeedsSilence
<1> DEFINE A == flag = "on" /\ flag' = "off" =>
                  quiet <= stall \/ quiet + Stall > 3 * interval + stall
           Inv == Typed /\ (~up \/ Waiting)
<1>1. Init => Inv
  BY InitTyped, DaemonConstantsOK DEF Init, Waiting, Threads
<1>2. ASSUME Inv, [Next]_vars PROVE Inv'
  <2>1. CASE UNCHANGED vars
    BY <1>2, <2>1, StutterTyped DEF Waiting, vars, beat, life
  <2>2. CASE up /\ Next
    <3>1. Waiting' BY <1>2, <2>2, NextCases, StepWaiting, OtherWaiting
    <3> QED BY <1>2, <2>2, <3>1, NextTyped
  <2>3. CASE ~up /\ Next
    <3>1. up' = up BY <2>3, NextCases, GoneFacts DEF life
    <3> QED BY <1>2, <2>3, <3>1, NextTyped
  <2> QED BY <1>2, <2>1, <2>2, <2>3
<1>3. ASSUME Inv, [Next]_vars PROVE [A]_vars
  <2>0. SUFFICES ASSUME up, Next PROVE A
    BY <1>3, NextCases, GoneFacts
  <2>1. ASSUME Late PROVE A
    <3>1. SUFFICES ASSUME flag = "on", flag' = "off"
                   PROVE  quiet <= stall \/ quiet + Stall > 3 * interval + stall
      OBVIOUS
    <3>2. Overdue /\ pc["hb"] = "late" BY <2>1, <3>1 DEF Late
    <3> QED BY <1>3, <2>0, <3>1, <3>2, DaemonConstantsOK DEF Overdue, Waiting, Typed, TypeOK
  <2>2. ASSUME NEW t \in Writers, Step(t) PROVE A
    BY <2>2 DEF Step, PrintSql, Exec, Resolve, CopyIps, SetType, SetData, SendData, beat
  <2>3. ASSUME Beat \/ Test \/ Clear \/ Nap PROVE A
    BY <2>3 DEF Beat, Test, Clear, Nap, beat
  <2>4. ASSUME Receive \/ Local \/ Reporter \/ Tick PROVE A
    BY <2>4 DEF Receive, RecvHeartBeat, RecvInterval, RecvCommand, Local, NetworkChanges,
                Select,
                Fetch, Reporter, RecvKmod, ReportComes, RecvFails, TakeType, PassOn, Tick, beat
  <2>5. ASSUME Still PROVE A
    BY <2>5, StillFacts DEF beat
  <2> QED BY <2>0, <2>1, <2>2, <2>3, <2>4, <2>5, NextCases DEF Heartbeat
<1> QED BY <1>1, <1>2, <1>3, PTL DEF Spec, TimeoutNeedsSilence

-----------------------------------------------------------------------------
\* While no two threads have clashed: no two work on one key or have filled one buffer,
\* a buffer holds what the thread that filled it put there, a thread on its way to the
\* kernel carries what is stored, and what nobody works on is active.
Apart ==
  /\ \A t, u \in Writers : t # u => ~(HoldsSql(t) /\ HoldsSql(u))
  /\ \A t, u \in Threads : t # u => ~(HoldsNl(t) /\ HoldsNl(u))
  /\ \A t, u \in Writers : t # u => \A k \in Keys : ~(On(t, k) /\ On(u, k))

InSql(t) ==
  /\ pc[t] = "wiped" => sql = [op |-> "set", key |-> "white", val |-> "bare"]
  /\ pc[t] = "exec" => sql = [op |-> "set", key |-> job[t].key, val |-> job[t].val]
  /\ pc[t] = "fetch" => sql = [op |-> "read", key |-> part, val |-> "zero"]

InNl(t) ==
  /\ pc[t] \in {"data", "send"} => nl.type = MsgType(job[t])
  /\ pc[t] = "send" /\ job[t].key \notin Switches => nl.data = job[t].val

Carries(t) ==
  /\ pc[t] = "resolve" =>
       Rereads(t) \/ job[t].val = "garbled" \/ store[job[t].key] = job[t].val
  /\ pc[t] \in {"ips", "type", "data", "send"} =>
       job[t].key \in unsure \/ store[job[t].key] = job[t].val

Reporting ==
  /\ pc["rp"] = "recv" => ~came /\ nl.type # Report.type
  /\ pc["rp"] = "take" => IF came THEN nl = Report ELSE nl.type # Report.type
  /\ pc["rp"] = "copy" /\ (came \/ rtype = Report.type) =>
       came /\ rtype = Report.type /\ nl.data = Report.data

Active ==
  \A k \in Keys : k \in unsure \/ (\E t \in Writers : On(t, k)) \/ kernel[k] = store[k]

Tidy == /\ Apart /\ Active /\ Reporting
        /\ \A t \in Writers : InSql(t) /\ InNl(t) /\ Carries(t)

\* Only one thread moves: the others are where they were, and stay apart if it takes
\* nothing that another has.
LEMMA ApartKept ==
  ASSUME Typed, Apart, NEW t \in Threads, NEW p, pc' = [pc EXCEPT ![t] = p],
         \A u \in Writers : u # t => job'[u] = job[u],
         t \in Writers => (HoldsSql(t)' => HoldsSql(t) \/ \A u \in Writers : u # t => ~HoldsSql(u)),
         t # "rp" => came' = came,
         HoldsNl(t)' => HoldsNl(t) \/ \A u \in Threads : u # t => ~HoldsNl(u),
         t \in Writers => \A k \in Keys :
           On(t, k)' => On(t, k) \/ \A u \in Writers : u # t => ~On(u, k)
  PROVE  Apart'
<1>1. \A u \in Threads : u # t => pc'[u] = pc[u]
  BY DEF Typed, TypeOK
<1>2. \A u \in Writers : u # t => (HoldsSql(u)' <=> HoldsSql(u))
  BY <1>1 DEF HoldsSql, Threads
<1>3. \A u \in Threads : u # t => (HoldsNl(u)' <=> HoldsNl(u))
  BY <1>1 DEF HoldsNl
<1>4. \A u \in Writers, k \in Keys : u # t => (On(u, k)' <=> On(u, k))
  BY <1>1 DEF On, Threads
<1>5. (\A a, b \in Writers : a # b => ~(HoldsSql(a) /\ HoldsSql(b)))'
  BY <1>2 DEF Apart
<1>6. (\A a, b \in Threads : a # b => ~(HoldsNl(a) /\ HoldsNl(b)))'
  BY <1>3 DEF Apart
<1>7. (\A a, b \in Writers : a # b => \A k \in Keys : ~(On(a, k) /\ On(b, k)))'
  BY <1>4 DEF Apart
<1> QED BY <1>5, <1>6, <1>7 DEF Apart

\* A writer fills the SQL buffer.
LEMMA PrintTidy ==
  ASSUME Typed, Tidy, NEW t \in Writers, PrintSql(t), ~clash' PROVE Tidy'
<1> USE DEF Typed, TypeOK, Tidy, db, passing
<1>1. /\ \A u \in Writers : u # t => ~HoldsSql(u)
      /\ UNCHANGED <<job, part, nl, db, kernel, passing, unsure>>
  BY DEF PrintSql, WriteSql
<1>2. PICK p \in {"wiped", "exec"} :
        /\ pc' = [pc EXCEPT ![t] = p]
        /\ pc[t] = (IF p = "wiped" THEN "wipe" ELSE "print")
        /\ p = "wiped" => sql' = [op |-> "set", key |-> "white", val |-> "bare"]
        /\ p = "exec" => sql' = [op |-> "set", key |-> job[t].key, val |-> job[t].val]
  BY DEF PrintSql, WriteSql, Goto, Cmd
<1>3. pc'[t] = p /\ \A u \in Threads : u # t => pc'[u] = pc[u]
  BY <1>2 DEF Threads
<1>4. Apart'
  <2>1. ~HoldsNl(t)' BY <1>2, <1>3 DEF HoldsNl, Writers
  <2>2. \A k \in Keys : On(t, k)' => On(t, k) BY <1>1, <1>2 DEF On, Doing
  <2>3. Typed /\ Apart /\ t \in Threads BY DEF Threads
  <2> HIDE DEF Typed, TypeOK, Tidy
  <2> QED BY <1>1, <1>2, <2>1, <2>2, <2>3, ApartKept
<1>5. Active'
  <2>1. \A u \in Writers, k \in Keys : On(u, k) => On(u, k)'
    BY <1>1, <1>2, <1>3 DEF On, Doing, Threads
  <2> QED BY <1>1, <2>1 DEF Active
<1>6. Reporting'
  BY <1>1, <1>3 DEF Reporting, Threads, Writers
<1>7. ASSUME NEW u \in Writers PROVE (InSql(u) /\ InNl(u) /\ Carries(u))'
  <2>1. CASE u = t
    BY <1>1, <1>2, <1>3, <2>1 DEF InSql, InNl, Carries
  <2>2. CASE u # t
    BY <1>1, <1>3, <2>2 DEF InSql, InNl, Carries, Rereads, HoldsSql, Threads
  <2> QED BY <2>1, <2>2
<1> QED BY <1>4, <1>5, <1>6, <1>7

\* A writer executes its own statement.
LEMMA ExecTidy ==
  ASSUME Typed, Tidy, NEW t \in Writers, Exec(t), ~clash' PROVE Tidy'
<1> USE DEF Typed, TypeOK, Tidy, passing
<1>0. pc[t] = "wiped" => t = "rx" /\ job[t].key = "white"
  BY DEF Sorted, Writers, HbPlaces, LcPlaces
<1>1. UNCHANGED <<job, part, sql, nl, kernel, passing>> /\ pc[t] \in {"wiped", "exec"}
  BY DEF Exec
<1>2. PICK p \in {"print", "type", "resolve"} :
        /\ pc' = [pc EXCEPT ![t] = p] /\ (p = "print" => pc[t] = "wiped")
        /\ p = "type" => pc[t] = "exec" /\ job[t].key \in Switches
  BY <1>0 DEF Exec, Goto, Switches
<1>3. pc'[t] = p /\ \A u \in Threads : u # t => pc'[u] = pc[u]
  BY <1>2 DEF Threads
<1>4. On(t, job[t].key) /\ On(t, job[t].key)' /\ job[t].key \in Keys
  BY <1>1, <1>2, <1>3 DEF On, Doing, Cmds
<1>5. /\ unsure' \subseteq unsure
      /\ \A k \in Keys : k # job[t].key => (k \in unsure' <=> k \in unsure) /\ store'[k] = store[k]
      /\ pc[t] = "exec" \/ p = "resolve" => store'[job[t].key] = job[t].val
  <2>1. /\ unsure' \subseteq unsure
        /\ \A k \in Keys : k # job[t].key => (k \in unsure' <=> k \in unsure)
    BY DEF Exec
  <2>2. sql.op = "set" /\ sql.key = job[t].key /\ (pc[t] = "exec" => sql.val = job[t].val)
    <3>1. CASE pc[t] = "exec" BY <3>1 DEF InSql
    <3>2. CASE pc[t] = "wiped"
      <4>1. t = "rx"
        BY <3>2 DEF Writers, HbPlaces, LcPlaces
      <4> QED BY <3>2, <4>1 DEF InSql, Sorted
    <3> QED BY <1>1, <3>1, <3>2
  <2>3. store' = [store EXCEPT ![job[t].key] =
          IF job[t].key # "portal" THEN sql.val
          ELSE IF t = "rx" THEN job[t].val ELSE "none"]
    BY <2>2 DEF Exec, Executed, Binds
  <2>4. job[t].key = "portal" => t = "rx"
    BY <1>1 DEF Sorted, Writers, LcPlaces
  <2>5. pc[t] = "wiped" /\ p = "resolve" =>
          sql.val = "bare" /\ job[t].val = "bare" /\ job[t].key = "white"
    <3>1. pc[t] = "wiped" /\ p = "resolve" => job[t].val = "bare"
      BY <1>3 DEF Exec, Goto, Threads
    <3> QED BY <1>0, <3>1 DEF InSql
  <2> QED BY <1>1, <1>4, <2>1, <2>2, <2>3, <2>4, <2>5
<1>6. \A u \in Writers : u # t => ~On(u, job[t].key)
  BY <1>4 DEF Apart
<1>7. Apart'
  <2>1. ~HoldsNl(t)' /\ ~HoldsSql(t)' BY <1>2, <1>3 DEF HoldsNl, HoldsSql, Writers
  <2>2. \A k \in Keys : On(t, k)' => On(t, k) BY <1>1, <1>4 DEF On
  <2>3. Typed /\ Apart /\ t \in Threads BY DEF Threads
  <2> HIDE DEF Typed, TypeOK, Tidy
  <2> QED BY <1>1, <1>2, <2>1, <2>2, <2>3, ApartKept
<1>8. Active'
  <2>1. \A u \in Writers, k \in Keys : On(u, k) => On(u, k)'
    BY <1>1, <1>3, <1>4 DEF On, Threads
  <2>2. ASSUME NEW k \in Keys
        PROVE  k \in unsure' \/ (\E u \in Writers : On(u, k)') \/ kernel'[k] = store'[k]
    <3>1. CASE k = job[t].key BY <1>1, <1>4, <3>1 DEF On
    <3>2. CASE k # job[t].key BY <1>1, <1>5, <2>1, <3>2 DEF Active
    <3> QED BY <3>1, <3>2
  <2> QED BY <2>2 DEF Active
<1>9. Reporting'
  BY <1>1, <1>3 DEF Reporting, Threads, Writers
<1>10. ASSUME NEW u \in Writers PROVE (InSql(u) /\ InNl(u) /\ Carries(u))'
  <2>1. CASE u = t
    BY <1>1, <1>2, <1>3, <1>5, <2>1 DEF InSql, InNl, Carries
  <2>2. CASE u # t
    <3>1. InSql(u)' /\ InNl(u)'
      BY <1>1, <1>3, <2>2 DEF InSql, InNl, Threads
    <3>2. job[u].key \in Keys BY DEF Cmds
    <3>3. pc[u] \in {"resolve", "ips", "type", "data", "send"} => job[u].key # job[t].key
      BY <1>6, <2>2 DEF On, Doing
    <3>4. Carries(u)'
      BY <1>1, <1>3, <1>5, <2>2, <3>2, <3>3 DEF Carries, Rereads, Threads
    <3> QED BY <3>1, <3>4
  <2> QED BY <2>1, <2>2
<1> QED BY <1>7, <1>8, <1>9, <1>10

\* The names of a portal or of a list are looked up.
LEMMA ResolveTidy ==
  ASSUME Typed, Tidy, NEW t \in Writers, Resolve(t), ~clash' PROVE Tidy'
<1> USE DEF Typed, TypeOK, Tidy, passing
<1>1. UNCHANGED <<sql, nl, store, kernel, passing>> /\ pc[t] = "resolve"
  BY DEF Resolve, shared, db
<1>2. PICK p \in {"ips", "type", "idle", "ask"} : pc' = [pc EXCEPT ![t] = p]
  BY DEF Resolve, Finish, Goto, Writers, HbPlaces
<1>3. pc'[t] = p /\ \A u \in Threads : u # t => pc'[u] = pc[u]
  BY <1>2 DEF Threads
<1>4. On(t, job[t].key) /\ job[t].key \in Keys
  BY <1>1 DEF On, Doing, Cmds
<1>5. /\ \A u \in Writers : u # t => job'[u] = job[u]
      /\ job'[t].key = job[t].key /\ (t # "lc" => part' = part)
      /\ \A k \in Keys : k # job[t].key => (k \in unsure' <=> k \in unsure)
  <2>1. \A u \in Writers : (u # t => job'[u] = job[u]) /\ job'[u].key = job[u].key
    <3>1. PICK v \in Texts(t) : \E got \in {v, "bare"} : Ask(t, v, got)
      BY ResolveAsks
    <3>2. Typed OBVIOUS
    <3> HIDE DEF Typed
    <3> QED BY <3>1, <3>2, AskTyped, AskKeeps
  <2>2. t # "lc" => part' = part
    BY DEF Resolve, Finish
  <2>3. \A k \in Keys : k # job[t].key => (k \in unsure' <=> k \in unsure)
    BY DEF Resolve
  <2> QED BY <2>1, <2>2, <2>3
<1>6. p \in {"ips", "type"} => job[t].key \in unsure' \/ store[job[t].key] = job'[t].val
  <2>1. SUFFICES ASSUME p \in {"ips", "type"}, job[t].key \notin unsure'
                 PROVE  store[job[t].key] = job'[t].val
    OBVIOUS
  <2>2. PICK v \in Texts(t) : v # "garbled" /\ ~Rereads(t) /\ Ask(t, v, v)
    BY <1>3, <2>1 DEF Resolve, Finish, Goto
  <2>3. job'[t].val = v
    <3>1. Typed OBVIOUS
    <3> HIDE DEF Typed
    <3> QED BY <2>2, <3>1, AskTyped
  <2>4. v = job[t].val
    BY <2>2 DEF Texts
  <2> QED BY <1>1, <2>2, <2>3, <2>4 DEF Carries
<1>7. p \in {"idle", "ask"} => job[t].key \in unsure'
  BY <1>3 DEF Resolve, Goto
<1>8. \A u \in Writers : u # t => ~On(u, job[t].key)
  BY <1>4 DEF Apart
<1>9. Apart'
  <2>1. ~HoldsNl(t)' /\ ~HoldsSql(t)' BY <1>3 DEF HoldsNl, HoldsSql, Writers
  <2>2. \A k \in Keys : On(t, k)' => On(t, k) BY <1>4, <1>5 DEF On
  <2>3. Typed /\ Apart /\ t \in Threads BY DEF Threads
  <2> HIDE DEF Typed, TypeOK, Tidy
  <2> QED BY <1>1, <1>2, <1>5, <2>1, <2>2, <2>3, ApartKept
<1>10. Active'
  <2>1. ASSUME NEW k \in Keys
        PROVE  k \in unsure' \/ (\E u \in Writers : On(u, k)') \/ kernel'[k] = store'[k]
    <3>1. CASE k = job[t].key /\ p \in {"ips", "type"}
      BY <1>3, <1>5, <3>1 DEF On, Doing
    <3>2. CASE k = job[t].key /\ p \in {"idle", "ask"}
      BY <1>7, <3>2
    <3>3. CASE k # job[t].key
      <4>1. \A u \in Writers : On(u, k) => On(u, k)'
        BY <1>3, <1>5, <3>3 DEF On, Threads
      <4> QED BY <1>1, <1>5, <3>3, <4>1 DEF Active
    <3> QED BY <3>1, <3>2, <3>3
  <2> QED BY <2>1 DEF Active
<1>11. Reporting'
  BY <1>1, <1>3 DEF Reporting, Threads, Writers
<1>12. ASSUME NEW u \in Writers PROVE (InSql(u) /\ InNl(u) /\ Carries(u))'
  <2>1. CASE u = t
    <3>1. InSql(u)' /\ InNl(u)' BY <1>3, <2>1 DEF InSql, InNl
    <3>2. Carries(u)' BY <1>1, <1>3, <1>5, <1>6, <2>1 DEF Carries
    <3> QED BY <3>1, <3>2
  <2>2. CASE u # t
    <3>1. InNl(u)' BY <1>1, <1>3, <1>5, <2>2 DEF InNl, Threads
    <3>2. InSql(u)'
      <4>1. pc'[u] = pc[u] /\ job'[u] = job[u] /\ sql' = sql 
        BY <1>1, <1>3, <1>5, <2>2 DEF Threads
      <4>2. pc[u] = "fetch" => u = "lc" BY DEF Writers, HbPlaces, RxPlaces
      <4> QED BY <1>5, <2>2, <4>1, <4>2 DEF InSql
    <3>3. job[u].key \in Keys BY DEF Cmds
    <3>4. pc[u] \in {"resolve", "ips", "type", "data", "send"} => job[u].key # job[t].key
      BY <1>8, <2>2 DEF On, Doing
    <3>5. Carries(u)'
      BY <1>1, <1>3, <1>5, <2>2, <3>3, <3>4 DEF Carries, Rereads, Threads
    <3> QED BY <3>1, <3>2, <3>5
  <2> QED BY <2>1, <2>2
<1> QED BY <1>9, <1>10, <1>11, <1>12

\* A writer copies the addresses out.
LEMMA CopyIpsTidy ==
  ASSUME Typed, Tidy, NEW t \in Writers, CopyIps(t), ~clash' PROVE Tidy'
<1> USE DEF Typed, TypeOK, Tidy, shared, db, passing
<1>1. /\ pc[t] = "ips" /\ pc' = [pc EXCEPT ![t] = "type"]
      /\ UNCHANGED <<job, part, shared, passing, unsure>>
  BY DEF CopyIps, Goto
<1>2. pc'[t] = "type" /\ \A u \in Threads : u # t => pc'[u] = pc[u]
  BY <1>1 DEF Threads
<1>3. \A u \in Writers, k \in Keys : On(u, k) <=> On(u, k)'
  BY <1>1, <1>2 DEF On, Doing, Threads
<1>4. Apart'
  <2>1. ~HoldsNl(t)' /\ ~HoldsSql(t)' BY <1>2 DEF HoldsNl, HoldsSql, Writers
  <2>2. Typed /\ Apart /\ t \in Threads BY DEF Threads
  <2> HIDE DEF Typed, TypeOK, Tidy
  <2> QED BY <1>1, <1>3, <2>1, <2>2, ApartKept
<1>5. Active' BY <1>1, <1>3 DEF Active
<1>6. Reporting' BY <1>1, <1>2 DEF Reporting, Threads, Writers
<1>7. \A u \in Writers : (InSql(u) /\ InNl(u) /\ Carries(u))'
  BY <1>1, <1>2 DEF InSql, InNl, Carries, Rereads, Threads
<1> QED BY <1>4, <1>5, <1>6, <1>7

\* A writer fills the netlink message: its type, then its data.
LEMMA SetTidy ==
  ASSUME Typed, Tidy, NEW t \in Writers, SetType(t) \/ SetData(t), ~clash' PROVE Tidy'
<1> USE DEF Typed, TypeOK, Tidy, db, passing
<1>1. UNCHANGED <<job, part, sql, db, kernel, passing, unsure>>
  BY DEF SetType, SetData
<1>2. PICK p \in {"data", "send"} :
        /\ pc' = [pc EXCEPT ![t] = p] /\ pc[t] = (IF p = "data" THEN "type" ELSE "data")
        /\ p = "data" => nl' = [nl EXCEPT !.type = MsgType(job[t])]
        /\ p = "send" => nl' = (IF job[t].key \notin Switches THEN [nl EXCEPT !.data = job[t].val]
                                                            ELSE nl)
  BY DEF SetType, SetData, Goto, WriteNl, DataCopied
<1>3. pc'[t] = p /\ \A u \in Threads : u # t => pc'[u] = pc[u]
  BY <1>2 DEF Threads
<1>4. \A u \in Threads : u # t => ~HoldsNl(u)
  <2>1. CASE p = "data"
    <3>1. SetType(t) BY <1>2, <2>1 DEF SetType, SetData
    <3> QED BY <3>1 DEF SetType, WriteNl
  <2>2. CASE p = "send"
    <3>1. HoldsNl(t) BY <1>2, <2>2 DEF HoldsNl, Writers
    <3> QED BY <3>1 DEF Apart, Threads
  <2> QED BY <2>1, <2>2
<1>5. Apart'
  <2>1. ~HoldsSql(t)' BY <1>3 DEF HoldsSql
  <2>2. \A k \in Keys : On(t, k)' => On(t, k) BY <1>1, <1>2 DEF On, Doing
  <2>3. Typed /\ Apart /\ t \in Threads BY DEF Threads
  <2> HIDE DEF Typed, TypeOK, Tidy
  <2> QED BY <1>1, <1>2, <1>4, <2>1, <2>2, <2>3, ApartKept
<1>6. Active'
  <2>1. \A u \in Writers, k \in Keys : On(u, k) => On(u, k)'
    BY <1>1, <1>3 DEF On, Doing, Threads
  <2> QED BY <1>1, <2>1 DEF Active
<1>7. Reporting'
  <2>1. pc["rp"] \in {"take", "copy"} => ~came
    BY <1>4 DEF HoldsNl, Threads, Writers
  <2>2. pc'["rp"] = pc["rp"]
    BY <1>3 DEF Threads, Writers
  <2>3. nl'.type \in {nl.type, MsgType(job[t])} /\ MsgType(job[t]) # Report.type
    BY <1>2 DEF MsgType, Cmds, Cmd, Keys, Report
  <2> QED BY <1>1, <2>1, <2>2, <2>3 DEF Reporting
<1>8. ASSUME NEW u \in Writers PROVE (InSql(u) /\ InNl(u) /\ Carries(u))'
  <2>1. CASE u = t
    BY <1>1, <1>2, <1>3, <2>1 DEF InSql, InNl, Carries, Rereads
  <2>2. CASE u # t
    <3>1. pc'[u] = pc[u] /\ pc[u] \notin {"data", "send"}
      BY <1>3, <1>4, <2>2 DEF HoldsNl, Threads, Writers
    <3> QED BY <1>1, <3>1 DEF InSql, InNl, Carries, Rereads
  <2> QED BY <2>1, <2>2
<1> QED BY <1>5, <1>6, <1>7, <1>8

\* The kernel is set as the thread that sends the message means it.
LEMMA KernelObeys ==
  ASSUME Typed, Tidy, NEW t \in Writers, SendData(t)
  PROVE  kernel' = [kernel EXCEPT ![job[t].key] = job[t].val]
<1> USE DEF Typed, TypeOK, Tidy
<1>1. pc[t] = "send" /\ job[t].key \in Keys
  BY DEF SendData, Cmds
<1>2. /\ nl.type = MsgType(job[t])
      /\ job[t].key \notin Switches => nl.data = job[t].val
  BY <1>1 DEF InNl
<1>3. nl.type.key = job[t].key /\ (job[t].key \in Switches => nl.type.val = job[t].val)
  BY <1>2 DEF MsgType, Cmd
<1> QED BY <1>1, <1>2, <1>3 DEF SendData, Applied

\* The kernel obeys: it now runs what the thread carried.
LEMMA SendTidy ==
  ASSUME Typed, Tidy, NEW t \in Writers, SendData(t), ~clash' PROVE Tidy'
<1> USE DEF Typed, TypeOK, Tidy, db, passing
<1>1. UNCHANGED <<job, sql, nl, db, passing, unsure>> /\ pc[t] = "send"
  BY DEF SendData
<1>2. PICK p \in {"clear", "nap", "idle", "ask"} : pc' = [pc EXCEPT ![t] = p]
  BY DEF SendData, Finish, Goto
<1>3. pc'[t] = p /\ (\A u \in Threads : u # t => pc'[u] = pc[u]) /\ (t # "lc" => part' = part)
  BY <1>2 DEF Threads, SendData, Finish
<1>4. On(t, job[t].key) /\ job[t].key \in Keys /\ job[t].val \in Anything
  BY <1>1 DEF On, Doing, Cmds
<1>5. kernel' = [kernel EXCEPT ![job[t].key] = job[t].val]
  BY KernelObeys
<1>6. \A u \in Writers : u # t => ~On(u, job[t].key)
  BY <1>4 DEF Apart
<1>7. Apart'
  <2>1. ~HoldsNl(t)' /\ ~HoldsSql(t)' BY <1>3 DEF HoldsNl, HoldsSql, Writers
  <2>2. \A k \in Keys : ~On(t, k)' BY <1>3 DEF On, Doing
  <2>3. Typed /\ Apart /\ t \in Threads BY DEF Threads
  <2> HIDE DEF Typed, TypeOK, Tidy
  <2> QED BY <1>1, <1>2, <2>1, <2>2, <2>3, ApartKept
<1>8. Active'
  <2>1. ASSUME NEW k \in Keys
        PROVE  k \in unsure' \/ (\E u \in Writers : On(u, k)') \/ kernel'[k] = store'[k]
    <3>1. CASE k = job[t].key
      BY <1>1, <1>4, <1>5, <3>1 DEF Carries
    <3>2. CASE k # job[t].key
      <4>1. \A u \in Writers : On(u, k) => On(u, k)'
        BY <1>1, <1>3, <3>2 DEF On, Threads
      <4> QED BY <1>1, <1>5, <3>2, <4>1 DEF Active
    <3> QED BY <3>1, <3>2
  <2> QED BY <2>1 DEF Active
<1>9. Reporting'
  BY <1>1, <1>3 DEF Reporting, Threads, Writers
<1>10. ASSUME NEW u \in Writers PROVE (InSql(u) /\ InNl(u) /\ Carries(u))'
  <2>1. CASE u = t
    BY <1>3, <2>1 DEF InSql, InNl, Carries
  <2>2. CASE u # t
    <3>1. pc'[u] = pc[u] BY <1>3, <2>2 DEF Threads
    <3>2. pc[u] = "fetch" => u = "lc" BY DEF Writers, HbPlaces, RxPlaces
    <3> QED BY <1>1, <1>3, <2>2, <3>1, <3>2 DEF InSql, InNl, Carries, Rereads
  <2> QED BY <2>1, <2>2
<1> QED BY <1>7, <1>8, <1>9, <1>10

\* Steps that change no buffer, no copy of the configuration and no job.
LEMMA IdleTidy ==
  ASSUME Typed, Tidy, ~clash', NEW t \in Threads, NEW p, pc' = [pc EXCEPT ![t] = p],
         p \notin Doing \cup {"recv", "take", "copy"},
         t = "rp" => pc[t] \in {"clear", "recv", "copy"},
         t \in Writers => pc[t] \notin Doing,
         UNCHANGED <<job, part, shared, passing, unsure>>
  PROVE  Tidy'
<1> USE DEF Typed, TypeOK, Tidy, shared, db, passing
<1>1. pc'[t] = p /\ \A u \in Threads : u # t => pc'[u] = pc[u]
  OBVIOUS
<1>2. Apart'
  <2>1. ~HoldsNl(t)' /\ ~HoldsSql(t)' BY <1>1 DEF HoldsNl, HoldsSql, Doing
  <2>2. \A k \in Keys : ~On(t, k)' BY <1>1 DEF On
  <2> QED BY <2>1, <2>2, ApartKept
<1>3. Active'
  <2>1. \A u \in Writers, k \in Keys : On(u, k) => On(u, k)'
    BY <1>1 DEF On, Threads
  <2> QED BY <2>1 DEF Active
<1>4. Reporting' BY <1>1 DEF Reporting, Threads
<1>5. \A u \in Writers : (InSql(u) /\ InNl(u) /\ Carries(u))'
  BY <1>1 DEF InSql, InNl, Carries, Rereads, Threads, Doing
<1> QED BY <1>2, <1>3, <1>4, <1>5

\* A thread begins on a key that no other is at.
LEMMA BeginTidy ==
  ASSUME Typed, Tidy, ~clash', NEW t \in Writers, NEW c \in Cmds, Begin(t, c),
         NEW p \in {"wipe", "print", "type"}, pc' = [pc EXCEPT ![t] = p], pc[t] \notin Doing,
         p = "type" => c.key \in unsure', t # "lc" => part' = part,
         unsure \subseteq unsure',
         \A k \in Keys : k # c.key => (k \in unsure' <=> k \in unsure),
         UNCHANGED <<shared, passing>>
  PROVE  Tidy'
<1> USE DEF Typed, TypeOK, Tidy, shared, db, passing
<1>1. /\ pc'[t] = p /\ job'[t] = c /\ \A u \in Threads : u # t => pc'[u] = pc[u]
      /\ \A u \in Writers : u # t => job'[u] = job[u] /\ ~On(u, c.key)
  BY DEF Begin, Threads
<1>2. Apart'
  <2>1. ~HoldsNl(t)' /\ ~HoldsSql(t)' BY <1>1 DEF HoldsNl, HoldsSql, Writers
  <2>2. \A k \in Keys : On(t, k)' => \A u \in Writers : u # t => ~On(u, k)
    BY <1>1 DEF On
  <2>3. Typed /\ Apart /\ t \in Threads BY DEF Threads
  <2> HIDE DEF Typed, TypeOK, Tidy
  <2> QED BY <1>1, <2>1, <2>2, <2>3, ApartKept
<1>3. Active'
  <2>1. \A u \in Writers, k \in Keys : On(u, k) => On(u, k)'
    BY <1>1 DEF On, Threads
  <2> QED BY <2>1 DEF Active
<1>4. Reporting' BY <1>1 DEF Reporting, Threads, Writers
<1>5. ASSUME NEW u \in Writers PROVE (InSql(u) /\ InNl(u) /\ Carries(u))'
  <2>1. CASE u = t BY <1>1, <2>1 DEF InSql, InNl, Carries
  <2>2. CASE u # t
    <3>1. pc'[u] = pc[u] /\ job'[u] = job[u] BY <1>1, <2>2 DEF Threads
    <3>2. pc[u] = "fetch" => u = "lc" BY DEF Writers, HbPlaces, RxPlaces
    <3> QED BY <2>2, <3>1, <3>2 DEF InSql, InNl, Carries, Rereads
  <2> QED BY <2>1, <2>2
<1> QED BY <1>2, <1>3, <1>4, <1>5

\* The heartbeat thread decides.
LEMMA HeartbeatTidy == ASSUME Typed, Tidy, Heartbeat, ~clash' PROVE Tidy'
<1> USE DEF Goto, Threads, Writers
<1>1. CASE Beat
  BY <1>1, IdleTidy DEF Beat, Doing
<1>2. CASE Test
  <2>1. CASE answered /\ flag = "off"
    <3>1. Cmd("switch", "on") \in Cmds BY ValuesFacts DEF Cmd, Cmds, Keys
    <3>2. /\ Begin("hb", Cmd("switch", "on")) /\ pc' = [pc EXCEPT !["hb"] = "print"]
          /\ pc["hb"] = "test" /\ UNCHANGED <<part, shared, passing, unsure>>
      BY <1>2, <2>1 DEF Test
    <3> QED BY <3>1, <3>2, BeginTidy DEF Doing
  <2>2. CASE ~(answered /\ flag = "off")
    <3>1. /\ \E p \in {"clear", "late"} : pc' = [pc EXCEPT !["hb"] = p]
          /\ pc["hb"] = "test" /\ UNCHANGED <<job, part, shared, passing, unsure>>
      BY <1>2, <2>2 DEF Test
    <3> QED BY <3>1, IdleTidy DEF Doing
  <2> QED BY <2>1, <2>2
<1>3. CASE Late
  <2>1. CASE Overdue /\ flag = "on"
    <3>1. Cmd("switch", "off") \in Cmds BY ValuesFacts DEF Cmd, Cmds, Keys
    <3>2. /\ Begin("hb", Cmd("switch", "off")) /\ pc' = [pc EXCEPT !["hb"] = "print"]
          /\ pc["hb"] = "late" /\ UNCHANGED <<part, shared, passing, unsure>>
      BY <1>3, <2>1 DEF Late
    <3> QED BY <3>1, <3>2, BeginTidy DEF Doing
  <2>2. CASE ~(Overdue /\ flag = "on")
    <3>1. /\ pc' = [pc EXCEPT !["hb"] = "nap"]
          /\ pc["hb"] = "late" /\ UNCHANGED <<job, part, shared, passing, unsure>>
      BY <1>3, <2>2 DEF Late
    <3> QED BY <3>1, IdleTidy DEF Doing
  <2> QED BY <2>1, <2>2
<1>4. CASE Clear
  BY <1>4, IdleTidy DEF Clear, Doing
<1>5. CASE Nap
  BY <1>5, IdleTidy DEF Nap, Doing
<1> QED BY <1>1, <1>2, <1>3, <1>4, <1>5 DEF Heartbeat

\* Steps that move no thread and touch nothing of the configuration.
LEMMA ElsewhereTidy ==
  ASSUME Tidy, UNCHANGED <<pc, job, part, shared, passing, unsure>> PROVE Tidy'
BY DEF Tidy, Apart, Active, Reporting, InSql, InNl, Carries, HoldsSql, HoldsNl, On, Rereads,
       shared, db, passing

\* The receive thread takes a message.
LEMMA ReceiveTidy == ASSUME Typed, Tidy, Receive, ~clash' PROVE Tidy'
<1>1. CASE RecvHeartBeat
  BY <1>1, ElsewhereTidy DEF RecvHeartBeat
<1>2. ASSUME NEW i \in Intervals, RecvInterval(i) PROVE Tidy'
  BY <1>2, ElsewhereTidy DEF RecvInterval
<1>3. ASSUME NEW c \in Commands, RecvCommand(c) PROVE Tidy'
  <2>1. PICK p \in {"wipe", "print"} : pc' = [pc EXCEPT !["rx"] = p]
    BY <1>3 DEF RecvCommand, Goto
  <2>2. PICK v \in Values[c.key] : Begin("rx", Cmd(c.key, v)) /\ Cmd(c.key, v) \in Cmds
    BY <1>3, CommandBegins
  <2>3. pc["rx"] = "idle" /\ UNCHANGED <<part, shared, passing, unsure>>
    BY <1>3 DEF RecvCommand
  <2> QED BY <2>1, <2>2, <2>3, BeginTidy DEF Doing, Writers
<1> QED BY <1>1, <1>2, <1>3 DEF Receive

\* The local thread sends what is stored.
LEMMA LocalTidy == ASSUME Typed, Tidy, Local, ~clash' PROVE Tidy'
<1>1. CASE NetworkChanges
  <2>1. Cmd("white", "bare") \in Cmds BY ValuesFacts DEF Cmd, Cmds, Keys
  <2>2. /\ Begin("lc", Cmd("white", "bare")) /\ pc' = [pc EXCEPT !["lc"] = "type"]
        /\ pc["lc"] = "idle" /\ unsure' = unsure \cup {"white"}
        /\ UNCHANGED <<shared, passing>> /\ Cmd("white", "bare").key = "white"
    BY <1>1 DEF NetworkChanges, Goto, Cmd
  <2> QED BY <2>1, <2>2, BeginTidy DEF Doing, Writers
<1>2. CASE Select
  <2> USE DEF Typed, TypeOK, Tidy, db, passing
  <2>1. /\ pc["lc"] = "ask" /\ pc' = [pc EXCEPT !["lc"] = "fetch"]
        /\ job' = [job EXCEPT !["lc"] = Cmd(part, "none")]
        /\ sql' = [op |-> "read", key |-> part, val |-> "zero"]
        /\ \A u \in Writers \ {"lc"} : ~HoldsSql(u) /\ ~On(u, part)
        /\ UNCHANGED <<part, nl, db, kernel, passing, unsure>>
    BY <1>2 DEF Select, Goto
  <2>2. /\ pc'["lc"] = "fetch" /\ job'["lc"].key = part
        /\ \A u \in Threads : u # "lc" => pc'[u] = pc[u]
        /\ \A u \in Writers : u # "lc" => job'[u] = job[u]
    BY <2>1 DEF Cmd, Threads, Writers
  <2>3. Apart'
    <3>1. ~HoldsNl("lc")' BY <2>2 DEF HoldsNl
    <3>2. \A k \in Keys : On("lc", k)' => \A u \in Writers : u # "lc" => ~On(u, k)
      BY <2>1, <2>2 DEF On
    <3> QED BY <2>1, <2>2, <3>1, <3>2, ApartKept DEF Threads, Writers
  <2>4. Active'
    <3>1. \A u \in Writers, k \in Keys : On(u, k) => On(u, k)'
      BY <2>1, <2>2 DEF On, Threads, Doing
    <3> QED BY <2>1, <3>1 DEF Active
  <2>5. Reporting' BY <2>1, <2>2 DEF Reporting, Threads
  <2>6. ASSUME NEW u \in Writers PROVE (InSql(u) /\ InNl(u) /\ Carries(u))'
    <3>1. CASE u = "lc" BY <2>1, <2>2, <3>1 DEF InSql, InNl, Carries, Rereads
    <3>2. CASE u # "lc"
      <4>1. pc'[u] = pc[u] /\ job'[u] = job[u] /\ pc[u] \notin {"wiped", "exec", "fetch"}
        BY <2>1, <2>2, <3>2 DEF HoldsSql, Threads
      <4> QED BY <2>1, <4>1 DEF InSql, InNl, Carries, Rereads
    <3> QED BY <3>1, <3>2
  <2> QED BY <2>3, <2>4, <2>5, <2>6
<1>3. CASE Fetch
  <2> USE DEF Typed, TypeOK, Tidy, passing
  <2>1. /\ pc["lc"] = "fetch" /\ pc' = [pc EXCEPT !["lc"] = "resolve"]
        /\ UNCHANGED <<part, sql, nl, kernel, passing, unsure>>
    BY <1>3 DEF Fetch, Goto
  <2>2. sql.op = "read"
    BY <2>1 DEF InSql, Writers
  <2>3. PICK v :
          /\ v = "garbled" \/ v = store[part]
          /\ store' = store /\ job' = [job EXCEPT !["lc"].val = v]
    BY <1>3, <2>1, <2>2 DEF Fetch, Fetched, Executed, Sorted
  <2>4. job["lc"].key = part /\ part \in Keys
    BY <2>1 DEF Sorted, KeyOfPart, Keys
  <2>5. /\ pc'["lc"] = "resolve" /\ job'["lc"].key = part /\ job'["lc"].val = v
        /\ \A u \in Threads : u # "lc" => pc'[u] = pc[u]
        /\ \A u \in Writers : u # "lc" => job'[u] = job[u]
    BY <2>1, <2>3, <2>4 DEF Threads, Writers, Cmds
  <2>6. \A u \in Writers, k \in Keys : On(u, k)' <=> On(u, k)
    BY <2>1, <2>4, <2>5 DEF On, Threads, Doing
  <2>7. Apart'
    <3>1. ~HoldsNl("lc")' /\ ~HoldsSql("lc")' BY <2>5 DEF HoldsNl, HoldsSql
    <3> QED BY <2>1, <2>5, <2>6, <3>1, ApartKept DEF Threads, Writers
  <2>8. Active' BY <2>1, <2>3, <2>6 DEF Active
  <2>9. Reporting' BY <2>1, <2>5 DEF Reporting, Threads
  <2>10. ASSUME NEW u \in Writers PROVE (InSql(u) /\ InNl(u) /\ Carries(u))'
    <3>1. CASE u = "lc" BY <2>3, <2>5, <3>1 DEF InSql, InNl, Carries
    <3>2. CASE u # "lc"
      <4>1. pc'[u] = pc[u] /\ job'[u] = job[u] BY <2>5, <3>2 DEF Threads
      <4> QED BY <2>1, <2>3, <4>1 DEF InSql, InNl, Carries, Rereads
    <3> QED BY <3>1, <3>2
  <2> QED BY <2>7, <2>8, <2>9, <2>10
<1> QED BY <1>1, <1>2, <1>3 DEF Local

\* The report thread.
LEMMA ReporterTidy == ASSUME Typed, Tidy, Reporter, ~clash' PROVE Tidy'
<1> USE DEF Goto
<1>1. CASE PassOn
  BY <1>1, IdleTidy DEF PassOn, Threads, Writers, Doing
<1>2. ASSUME NEW m, NEW p, WriteNl("rp", m), pc' = [pc EXCEPT !["rp"] = p],
             \/ p = "recv" /\ m = Zero /\ ~came'
             \/ p = "take" /\ m = Report /\ came',
             UNCHANGED <<job, part, sql, store, kernel, unsure>>
      PROVE  Tidy'
  <2> USE DEF Typed, TypeOK, Tidy
  <2>1. /\ \A u \in Writers : pc'[u] = pc[u] /\ ~HoldsNl(u)
        /\ pc'["rp"] = p /\ nl' = m
    BY <1>2 DEF WriteNl, Threads, Writers
  <2>2. Apart'
    BY <1>2, <2>1, ApartKept DEF Threads, Writers
  <2>3. Active' BY <1>2, <2>1 DEF Active, On
  <2>4. Reporting' BY <1>2, <2>1 DEF Reporting, Zero, Report
  <2>5. \A u \in Writers : (InSql(u) /\ InNl(u) /\ Carries(u))'
    BY <1>2, <2>1 DEF InSql, InNl, Carries, Rereads, HoldsNl, Writers
  <2> QED BY <2>2, <2>3, <2>4, <2>5
<1>3. CASE RecvKmod
  BY <1>2, <1>3 DEF RecvKmod, db
<1>4. CASE ReportComes
  BY <1>2, <1>4 DEF ReportComes, db
<1>6. CASE RecvFails
  <2> USE DEF Typed, TypeOK, Tidy, shared, db, passing
  <2>1. /\ pc["rp"] = "recv" /\ pc' = [pc EXCEPT !["rp"] = "take"]
        /\ UNCHANGED <<job, part, shared, passing, unsure>>
    BY <1>6 DEF RecvFails
  <2>2. pc'["rp"] = "take" /\ (\A u \in Writers : pc'[u] = pc[u]) /\ ~came
    BY <2>1 DEF Threads, Writers, Reporting
  <2>3. Apart'
    <3>1. ~HoldsNl("rp")' BY <2>1, <2>2 DEF HoldsNl
    <3> QED BY <2>1, <3>1, ApartKept DEF Threads, Writers
  <2>4. Active' BY <2>1, <2>2 DEF Active, On
  <2>5. Reporting' BY <2>1, <2>2 DEF Reporting
  <2>6. \A u \in Writers : (InSql(u) /\ InNl(u) /\ Carries(u))'
    BY <2>1, <2>2 DEF InSql, InNl, Carries, Rereads
  <2> QED BY <2>3, <2>4, <2>5, <2>6
<1>5. CASE TakeType
  <2> USE DEF Typed, TypeOK, Tidy, shared, db
  <2>1. /\ pc["rp"] = "take" /\ pc' = [pc EXCEPT !["rp"] = "copy"] /\ rtype' = nl.type
        /\ UNCHANGED <<job, part, shared, came, unsure>>
    BY <1>5 DEF TakeType
  <2>2. pc'["rp"] = "copy" /\ \A u \in Writers : pc'[u] = pc[u]
    BY <2>1 DEF Threads, Writers
  <2>3. Apart'
    <3>1. HoldsNl("rp")' => HoldsNl("rp") BY <2>1 DEF HoldsNl
    <3> QED BY <2>1, <3>1, ApartKept DEF Threads, Writers
  <2>4. Active' BY <2>1, <2>2 DEF Active, On
  <2>5. Reporting' BY <2>1, <2>2 DEF Reporting, Report
  <2>6. \A u \in Writers : (InSql(u) /\ InNl(u) /\ Carries(u))'
    BY <2>1, <2>2 DEF InSql, InNl, Carries, Rereads
  <2> QED BY <2>3, <2>4, <2>5, <2>6
<1> QED BY <1>1, <1>3, <1>4, <1>5, <1>6 DEF Reporter

\* Once two threads have clashed they have.
LEMMA ClashStays == ASSUME Typed, [Next]_vars, clash PROVE clash'
<1>1. CASE UNCHANGED vars BY <1>1 DEF vars
<1>2. ASSUME NEW t \in Writers, Step(t) PROVE clash'
  BY <1>2 DEF Step, PrintSql, Exec, Resolve, CopyIps, Ask, SetType, SetData,
              SendData, WriteSql, WriteNl
<1>3. CASE Heartbeat
  BY <1>3 DEF Heartbeat, Beat, Test, Late, Clear, Nap, Begin
<1>4. CASE Receive
  BY <1>4 DEF Receive, RecvHeartBeat, RecvInterval, RecvCommand, Begin
<1>5. CASE Local \/ Reporter
  BY <1>5 DEF Local, NetworkChanges, Select, Fetch, Begin, Reporter, RecvKmod, ReportComes,
              RecvFails, TakeType, PassOn, WriteNl
<1>6. CASE Tick BY <1>6 DEF Tick
<1>7. CASE Still \/ Gone BY <1>7, StillFacts, GoneFacts
<1> QED BY <1>1, <1>2, <1>3, <1>4, <1>5, <1>6, <1>7, NextCases

Undisturbed == Typed /\ (clash \/ Tidy)

\* The inductive invariant: everything is tidy as long as no two threads have clashed.
LEMMA UndisturbedHolds == Spec => []Undisturbed
<1>1. ASSUME Init PROVE Undisturbed
  <2>1. pc["rp"] = "clear" /\ \A t \in Writers : pc[t] \notin Doing
    BY <1>1 DEF Init, Threads, Writers, Doing
  <2>2. Tidy
    BY <1>1, <2>1 DEF Init, Tidy, Apart, Active, Reporting, InSql, InNl, Carries, HoldsSql,
                      HoldsNl, On, Doing, Threads
  <2> QED BY <1>1, <2>2, InitTyped DEF Undisturbed
<1>2. ASSUME Undisturbed, [Next]_vars PROVE Undisturbed'
  <2>1. Typed'
    BY <1>2, NextTyped, StutterTyped DEF Undisturbed
  <2>2. CASE clash' BY <2>1, <2>2 DEF Undisturbed
  <2>3. CASE ~clash'
    <3>1. Typed /\ Tidy BY <1>2, <2>3, ClashStays DEF Undisturbed
    <3>2. ASSUME UNCHANGED vars PROVE Tidy'
      BY <3>1, <3>2, ElsewhereTidy DEF vars
    <3>3. ASSUME NEW t \in Writers, Step(t) PROVE Tidy'
      BY <2>3, <3>1, <3>3, PrintTidy, ExecTidy, ResolveTidy, CopyIpsTidy, SetTidy, SendTidy
         DEF Step
    <3>4. ASSUME Still \/ Gone \/ Tick PROVE Tidy'
      BY <3>1, <3>4, ElsewhereTidy, StillFacts, GoneFacts DEF Tick
    <3>5. Tidy'
      BY <1>2, <2>3, <3>1, <3>2, <3>3, <3>4, NextCases, HeartbeatTidy, ReceiveTidy, LocalTidy,
         ReporterTidy
    <3> QED BY <2>1, <3>5 DEF Undisturbed
  <2> QED BY <2>1, <2>2, <2>3 DEF Typed, TypeOK
<1> QED BY <1>1, <1>2, PTL DEF Spec

\* The kernel runs what is stored, as long as no two threads have clashed.
THEOREM StoredConfigIsActive == Spec => []StoredIsActive
<1>1. Undisturbed => StoredIsActive
  BY DEF Undisturbed, StoredIsActive, Tidy, Active
<1> QED BY <1>1, UndisturbedHolds, PTL

\* What is passed on is what the kernel reported, as long as no two threads have clashed.
THEOREM ReportsPassWhole == Spec => []ReportsAreWhole
<1>1. Undisturbed => ReportsAreWhole
  BY DEF Undisturbed, ReportsAreWhole, Tidy, Reporting
<1> QED BY <1>1, UndisturbedHolds, PTL

-----------------------------------------------------------------------------
\* There is a longest interval.
LEMMA LongestFacts == Longest \in Intervals /\ \A i \in Intervals : i <= Longest
<1> DEFINE Slack == {n \in 0 .. Far : Far - n \in Intervals}
           Less == OpToRel(<, Nat)
<1>1. /\ \A i \in Intervals : i \in Nat /\ i <= Far /\ Far - (Far - i) = i /\ Far - i \in 0 .. Far
  BY DaemonConstantsOK
<1>2. Slack \subseteq Nat /\ Slack # {}
  <2>1. PICK i \in Intervals : Far - i \in Slack
    BY <1>1, DaemonConstantsOK
  <2>2. Slack \subseteq 0 .. Far
    OBVIOUS
  <2>3. 0 .. Far \subseteq Nat
    BY DaemonConstantsOK
  <2> HIDE DEF Slack
  <2> QED BY <2>1, <2>2, <2>3
<1>3. PICK n \in Slack : \A m \in Slack : <<m, n>> \notin Less
  <2> HIDE DEF Slack
  <2> QED BY <1>2, NatLessThanWellFounded, WFMin
<1>4. \A m \in Slack : ~(m < n)
  BY <1>2, <1>3 DEF OpToRel
<1>5. \A i \in Intervals : i <= Far - n
  BY <1>1, <1>4, DaemonConstantsOK
<1>6. Far - n \in Intervals
  OBVIOUS
<1> HIDE DEF Slack
<1> QED BY <1>5, <1>6 DEF Longest

\* The heartbeat thread is switching the portal on or off.
Switching(v) == pc["hb"] \in Doing /\ job["hb"].val = v

\* How long ago the AC was heard, for each place of the heartbeat thread: with an
\* answer it has not seen yet, and without. The age of the time-out's clock is bounded
\* while the portal is taken for on, as each round that finds it overdue ends that.
Timely ==
  /\ timer <= Longest + 1
  /\ Switching("on") \/ pc["hb"] = "clear" => answered
  /\ pc["hb"] \in Doing => flag = "off"
  /\ answered =>
       /\ pc["hb"] = "sleep" => quiet + timer <= Longest + 1 + Stall
       /\ pc["hb"] \in {"test", "clear"} \/ Switching("on") =>
            quiet <= Longest + 1 + Stall + stall
       /\ pc["hb"] \in {"late", "nap"} \/ Switching("off") => quiet <= stall
  /\ flag = "on" /\ ~answered => quiet <= sinceGood + Longest + 1 + Stall
  /\ flag = "on" =>
       /\ pc["hb"] = "sleep" => sinceGood + timer <= 4 * Longest + 1 + Stall
       /\ pc["hb"] \in {"test", "late", "clear"} =>
            sinceGood <= 4 * Longest + 1 + Stall + stall
       /\ pc["hb"] = "nap" => sinceGood <= 3 * Longest + stall
  /\ Switching("off") => quiet <= 5 * Longest + 2 + 2 * Stall + stall

\* The ranges of what Timely adds up.
LEMMA Ages ==
  ASSUME Typed
  PROVE  /\ Longest \in Nat /\ Stall \in Nat /\ Far \in Nat
         /\ interval \in Nat /\ interval <= Longest
         /\ sinceGood \in Nat /\ quiet \in Nat /\ timer \in Nat
         /\ stall \in Nat /\ stall <= Stall /\ sinceGood <= Far /\ quiet <= Far
         /\ pc["hb"] \in HbPlaces /\ job["hb"].val \in {"on", "off"}
<1>1. interval \in Intervals /\ timer \in Nat /\ sinceGood \in 0 .. Far /\ quiet \in 0 .. Far
      /\ stall \in 0 .. Stall /\ pc["hb"] \in HbPlaces
  BY DEF Typed, TypeOK
<1>2. job["hb"].val \in {"on", "off"}
  BY DEF Typed, Sorted
<1>3. /\ Longest \in Nat /\ Stall \in Nat /\ Far \in Nat
      /\ interval \in Nat /\ interval <= Longest
  BY <1>1, LongestFacts, DaemonConstantsOK
<1> QED BY <1>1, <1>2, <1>3

\* A switch takes no time of its own, and ends at Clear or at Nap.
LEMMA StepTimely ==
  ASSUME Typed, Timely, NEW t \in Writers, Step(t) PROVE Timely'
<1>1. UNCHANGED <<beat, stall>>
  BY DEF Step, PrintSql, Exec, Resolve, CopyIps, SetType, SetData, SendData
<1>2. CASE t # "hb"
  <2>1. job'["hb"] = job["hb"]
    <3>1. CASE Resolve(t)
      <4>1. pc["hb"] # "ips" /\ "hb" \in Writers
        BY DEF Typed, TypeOK, HbPlaces, Writers
      <4> QED BY <1>2, <3>1, <4>1, ResolveAsks, AskKeeps
    <3>2. CASE ~Resolve(t)
      BY <3>2 DEF Step, PrintSql, Exec, CopyIps, SetType, SetData, SendData
    <3> QED BY <3>1, <3>2
  <2>2. pc'["hb"] = pc["hb"]
    BY <1>2 DEF Step, PrintSql, Exec, Resolve, CopyIps, SetType, SetData, SendData, Finish,
                Goto, Typed, TypeOK, Threads, Writers
  <2> QED BY <1>1, <2>1, <2>2 DEF Timely, Switching, beat
<1>3. CASE t = "hb"
  <2>1. pc["hb"] \in Doing /\ pc["hb"] \notin {"resolve", "ips"}
    BY <1>3 DEF Step, PrintSql, Exec, Resolve, CopyIps, SetType, SetData, SendData, Doing,
                Typed, TypeOK, HbPlaces
  <2>2. job' = job
    BY <1>3, <2>1 DEF Step, PrintSql, Exec, Resolve, CopyIps, SetType, SetData, SendData
  <2>3. \/ pc'["hb"] \in Doing
        \/ Switching("on") /\ pc'["hb"] = "clear"
        \/ Switching("off") /\ pc'["hb"] = "nap"
    <3>1. ASSUME NEW p, Goto("hb", p) PROVE pc'["hb"] = p
      BY <3>1 DEF Goto, Typed, TypeOK, Threads, Writers
    <3>2. CASE SendData("hb")
      BY <2>1, <3>1, <3>2, Ages DEF SendData, Finish, Switching
    <3>3. CASE ~SendData("hb")
      BY <1>3, <2>1, <3>1, <3>3
         DEF Step, PrintSql, Exec, Resolve, CopyIps, SetType, SetData, Doing
    <3> QED BY <3>2, <3>3
  <2> QED BY <1>1, <2>1, <2>2, <2>3, Ages DEF Timely, Switching, beat, Doing
<1> QED BY <1>2, <1>3

\* The heartbeat thread decides.
LEMMA HeartbeatTimely == ASSUME Typed, Timely, Heartbeat PROVE Timely'
<1> USE Ages DEF Timely, Switching, Doing
<1>0. ASSUME NEW p, Goto("hb", p) PROVE pc'["hb"] = p
  BY <1>0 DEF Goto, Typed, TypeOK, Threads, Writers
<1>1. CASE Beat
  <2>1. pc["hb"] = "sleep" /\ pc'["hb"] = "test" /\ timer = 0 /\ stall' = 0 /\ UNCHANGED beat
    BY <1>0, <1>1 DEF Beat
  <2> QED BY <2>1 DEF beat
<1>2. CASE Test
  <2>1. pc["hb"] = "test" /\ UNCHANGED <<beat, stall>> BY <1>2 DEF Test
  <2>2. CASE answered /\ flag = "off"
    <3>1. pc'["hb"] = "print" /\ job'["hb"].val = "on"
      BY <1>0, <1>2, <2>2 DEF Test, Begin, Cmd, Typed, TypeOK, Writers
    <3> QED BY <2>1, <2>2, <3>1 DEF beat
  <2>3. CASE ~(answered /\ flag = "off")
    <3>1. pc'["hb"] = IF answered THEN "clear" ELSE "late"
      BY <1>0, <1>2, <2>3 DEF Test
    <3> QED BY <2>1, <2>3, <3>1 DEF beat
  <2> QED BY <2>2, <2>3
<1>3. CASE Late
  <2>1. pc["hb"] = "late" /\ UNCHANGED <<answered, sinceGood, timer, interval, quiet, stall>>
    BY <1>3 DEF Late
  <2>2. CASE Overdue /\ flag = "on"
    <3>1. pc'["hb"] = "print" /\ job'["hb"].val = "off" /\ flag' = "off"
      BY <1>0, <1>3, <2>2 DEF Late, Begin, Cmd, Typed, TypeOK, Writers
    <3> QED BY <2>1, <2>2, <3>1
  <2>3. CASE ~(Overdue /\ flag = "on")
    <3>1. pc'["hb"] = "nap" /\ UNCHANGED flag
      BY <1>0, <1>3, <2>3 DEF Late
    <3> QED BY <2>1, <2>3, <3>1 DEF Overdue
  <2> QED BY <2>2, <2>3
<1>4. CASE Clear
  <2>1. /\ pc["hb"] = "clear" /\ pc'["hb"] = "nap" /\ flag' = "on" /\ answered' = FALSE
        /\ sinceGood' = stall /\ UNCHANGED <<timer, quiet, stall>>
    BY <1>0, <1>4 DEF Clear
  <2> QED BY <2>1
<1>5. CASE Nap
  <2>1. /\ pc["hb"] = "nap" /\ pc'["hb"] = "sleep" /\ timer' = interval + 1 /\ stall' = 0
        /\ UNCHANGED <<answered, sinceGood, flag, quiet>>
    BY <1>0, <1>5 DEF Nap
  <2> QED BY <2>1
<1> QED BY <1>1, <1>2, <1>3, <1>4, <1>5 DEF Heartbeat

\* Time passes, and what the other threads do.
LEMMA OtherTimely ==
  ASSUME Typed, Timely, Receive \/ Local \/ Reporter \/ Still \/ Tick
  PROVE  Timely'
<1>1. CASE Tick
  <2>1. UNCHANGED <<answered, flag, pc, job>> BY <1>1 DEF Tick
  <2>2. /\ sinceGood' \in {sinceGood, sinceGood + 1} /\ quiet' \in {quiet, quiet + 1}
        /\ quiet <= sinceGood + Longest + 1 + Stall =>
             quiet' <= sinceGood' + Longest + 1 + Stall
    BY <1>1, Ages DEF Tick, Older
  <2>3. CASE pc["hb"] = "sleep"
    <3>1. timer' = timer - 1 /\ timer > 0 /\ stall' = stall
      BY <1>1, <2>3 DEF Tick
    <3> QED BY <2>1, <2>2, <2>3, <3>1, Ages DEF Timely, Switching, Doing
  <2>4. CASE pc["hb"] # "sleep"
    <3>1. stall' = stall + 1 /\ timer' = timer
      BY <1>1, <2>4 DEF Tick
    <3> QED BY <2>1, <2>2, <2>4, <3>1, Ages DEF Timely, Switching
  <2> QED BY <2>3, <2>4
<1>2. CASE RecvHeartBeat
  <2>1. answered' /\ quiet' = 0 /\ UNCHANGED <<sinceGood, timer, flag, stall, pc, job>>
    BY <1>2 DEF RecvHeartBeat
  <2> QED BY <2>1, Ages DEF Timely, Switching
<1>3. ASSUME UNCHANGED <<answered, sinceGood, timer, flag, quiet, stall>>,
             pc'["hb"] = pc["hb"], job'["hb"] = job["hb"]
      PROVE  Timely'
  BY <1>3 DEF Timely, Switching
<1>4. ASSUME NEW i \in Intervals, RecvInterval(i) PROVE Timely'
  BY <1>3, <1>4 DEF RecvInterval
<1>5. ASSUME NEW c \in Commands, RecvCommand(c) PROVE Timely'
  BY <1>3, <1>5 DEF RecvCommand, Begin, Goto, beat, Typed, TypeOK, Threads, Writers
<1>6. CASE Local
  BY <1>3, <1>6 DEF Local, NetworkChanges, Select, Fetch, Begin, Goto, beat, Typed, TypeOK,
                    Threads, Writers
<1>7. CASE Reporter
  BY <1>3, <1>7 DEF Reporter, RecvKmod, ReportComes, RecvFails, TakeType, PassOn, Goto, beat,
                    Typed, TypeOK, Threads, Writers
<1>8. CASE Still
  BY <1>3, <1>8, StillFacts DEF beat
<1> QED BY <1>1, <1>2, <1>4, <1>5, <1>6, <1>7, <1>8 DEF Receive

\* A portal that is on is one the heartbeat thread has switched on or is switching: of
\* the others only the receive thread touches it, and only to switch it off.
Attended ==
  /\ job["rx"].key = "switch" => job["rx"].val = "off"
  /\ kernel["switch"] = "off" \/ flag = "on" \/ On("hb", "switch") \/ pc["hb"] = "clear"

LEMMA StepAttended ==
  ASSUME Typed, Tidy, Attended, NEW t \in Writers, Step(t) PROVE Attended'
<1>1. job'["rx"].key = "switch" => job'["rx"].val = "off"
  <2>1. CASE Resolve(t)
    <3>1. PICK v \in Texts(t) : \E got \in {v, "bare"} : Ask(t, v, got)
      BY <2>1, ResolveAsks
    <3>2. job'["rx"].key = job["rx"].key
      BY <3>1, AskTyped DEF Writers
    <3>3. CASE t # "rx" /\ pc["rx"] # "ips"
      <4>1. job'["rx"] = job["rx"] BY <3>1, <3>3, AskKeeps DEF Writers
      <4> QED BY <4>1 DEF Attended
    <3>4. CASE t = "rx" \/ pc["rx"] = "ips"
      <4>1. job["rx"].key # "switch"
        BY <2>1, <3>4 DEF Resolve, Typed, Sorted, Switches
      <4> QED BY <3>2, <4>1
    <3> QED BY <3>3, <3>4
  <2>2. CASE ~Resolve(t)
    <3>1. job' = job
      BY <2>2 DEF Step, PrintSql, Exec, CopyIps, SetType, SetData, SendData
    <3> QED BY <3>1 DEF Attended
  <2> QED BY <2>1, <2>2
<1>2. flag' = flag
  BY DEF Step, PrintSql, Exec, Resolve, CopyIps, SetType, SetData, SendData, beat
<1>3. CASE SendData(t)
  <2>1. kernel' = [kernel EXCEPT ![job[t].key] = job[t].val]
    BY <1>3, KernelObeys
  <2>2. CASE t = "hb"
    <3>1. job["hb"].key = "switch" /\ job["hb"].val \in {"on", "off"}
      BY DEF Typed, Sorted
    <3>2. job["hb"].val = "on" => pc'["hb"] = "clear"
      BY <1>3, <2>2 DEF SendData, Finish, Goto, Typed, TypeOK, Threads, Writers
    <3>3. job["hb"].val = "off" => kernel'["switch"] = "off"
      BY <2>1, <2>2, <3>1 DEF Typed, TypeOK, Keys
    <3> QED BY <1>1, <3>1, <3>2, <3>3 DEF Attended
  <2>3. CASE t # "hb"
    <3>1. pc'["hb"] = pc["hb"] /\ job' = job
      BY <1>3, <2>3 DEF SendData, Finish, Goto, Typed, TypeOK, Threads, Writers
    <3>2. job[t].key = "switch" => job[t].val = "off"
      <4>1. CASE t = "lc"
        BY <1>3, <4>1 DEF SendData, Typed, TypeOK, Sorted, KeyOfPart
      <4>2. CASE t = "rx"
        BY <4>2 DEF Attended
      <4> QED BY <2>3, <4>1, <4>2 DEF Writers
    <3>3. kernel'["switch"] \in {kernel["switch"], "off"}
      BY <2>1, <3>2 DEF Typed, TypeOK, Keys
    <3> QED BY <1>1, <1>2, <3>1, <3>3 DEF Attended, On
  <2> QED BY <2>2, <2>3
<1>4. CASE ~SendData(t)
  <2>1. kernel' = kernel
    BY <1>4 DEF Step, PrintSql, Exec, Resolve, CopyIps, SetType, SetData, shared, db
  <2>2. CASE t = "hb"
    <3>1. job' = job /\ job["hb"].key = "switch" /\ pc'["hb"] \in Doing
      BY <1>4, <2>2 DEF Step, PrintSql, Exec, Resolve, CopyIps, SetType, SetData, Goto,
                        Doing, Typed, TypeOK, Sorted, HbPlaces, Threads, Writers
    <3> QED BY <1>1, <3>1 DEF Attended, On
  <2>3. CASE t # "hb"
    <3>1. pc'["hb"] = pc["hb"]
      BY <1>4, <2>3 DEF Step, PrintSql, Exec, Resolve, CopyIps, SetType, SetData, Finish, Goto,
                        Typed, TypeOK, Threads, Writers
    <3>2. job'["hb"].key = job["hb"].key
      <4>1. CASE Resolve(t) BY <4>1, ResolveAsks, AskTyped DEF Writers
      <4>2. CASE ~Resolve(t)
        BY <1>4, <4>2 DEF Step, PrintSql, Exec, CopyIps, SetType, SetData
      <4> QED BY <4>1, <4>2
    <3> QED BY <1>1, <1>2, <2>1, <3>1, <3>2 DEF Attended, On
  <2> QED BY <2>2, <2>3
<1> QED BY <1>3, <1>4

LEMMA OtherAttended ==
  ASSUME NoSetOn, Typed, Attended,
         Heartbeat \/ Receive \/ Local \/ Reporter \/ Still \/ Tick
  PROVE  Attended'
<1> USE DEF Attended, On
<1>0. ASSUME NEW p, Goto("hb", p) PROVE pc'["hb"] = p
  BY <1>0 DEF Goto, Typed, TypeOK, Threads, Writers
<1>1. CASE Heartbeat
  <2>1. kernel' = kernel /\ job'["rx"] = job["rx"]
    BY <1>1 DEF Heartbeat, Beat, Test, Late, Clear, Nap, Begin, shared, db, Typed, TypeOK,
                Writers
  <2>2. CASE Beat \/ Nap
    BY <1>0, <2>1, <2>2 DEF Beat, Nap, beat, Doing
  <2>3. CASE Test
    <3>1. CASE answered /\ flag = "off"
      <4>1. pc'["hb"] = "print" /\ job'["hb"].key = "switch"
        BY <1>0, <2>3, <3>1 DEF Test, Begin, Cmd, Typed, TypeOK, Writers
      <4> QED BY <2>1, <4>1 DEF Doing
    <3>2. CASE ~(answered /\ flag = "off")
      BY <2>1, <2>3, <3>2 DEF Test, beat, Doing
    <3> QED BY <3>1, <3>2
  <2>4. CASE Late
    <3>1. CASE Overdue /\ flag = "on"
      <4>1. pc'["hb"] = "print" /\ job'["hb"].key = "switch"
        BY <1>0, <2>4, <3>1 DEF Late, Begin, Cmd, Typed, TypeOK, Writers
      <4> QED BY <2>1, <4>1 DEF Doing
    <3>2. CASE ~(Overdue /\ flag = "on")
      BY <2>1, <2>4, <3>2 DEF Late, Doing
    <3> QED BY <3>1, <3>2
  <2>5. CASE Clear
    BY <2>1, <2>5 DEF Clear
  <2> QED BY <1>1, <2>2, <2>3, <2>4, <2>5 DEF Heartbeat
<1>2. ASSUME UNCHANGED <<kernel, flag>>, pc'["hb"] = pc["hb"], job'["hb"] = job["hb"],
             job'["rx"].key = "switch" => job'["rx"].val = "off"
      PROVE  Attended'
  BY <1>2
<1>3. ASSUME NEW c \in Commands, RecvCommand(c) PROVE Attended'
  <2>1. c.key = "switch" => c.val = "off"
    <3>1. SUFFICES ASSUME c.key = "switch", c.val = "on" PROVE FALSE
      BY DaemonConstantsOK, ValuesFacts
    <3>2. c = Cmd("switch", "on")
      BY <3>1, DaemonConstantsOK DEF Cmds, Cmd
    <3> QED BY <3>2 DEF NoSetOn
  <2>2. PICK v \in Values[c.key] :
          /\ Begin("rx", Cmd(c.key, v))
          /\ c.key # "white" => v = c.val
    BY <1>3, CommandBegins
  <2>3. /\ job' = [job EXCEPT !["rx"] = Cmd(c.key, v)]
        /\ UNCHANGED <<kernel, flag>> /\ pc'["hb"] = pc["hb"]
    BY <1>3, <2>2 DEF RecvCommand, Begin, Goto, beat, shared, db, Typed, TypeOK, Threads,
                      Writers
  <2>4. job'["rx"].key = "switch" => job'["rx"].val = "off"
    <3>1. job'["rx"] = Cmd(c.key, v) BY <2>3 DEF Typed, TypeOK, Writers
    <3> QED BY <2>1, <2>2, <3>1 DEF Cmd
  <2> QED BY <1>2, <2>3, <2>4 DEF Typed, TypeOK, Writers
<1>4. ASSUME RecvHeartBeat \/ \E i \in Intervals : RecvInterval(i) PROVE Attended'
  BY <1>4 DEF RecvHeartBeat, RecvInterval, shared
<1>5. CASE Local
  BY <1>2, <1>5 DEF Local, NetworkChanges, Select, Fetch, Begin, Goto, beat, shared, Typed,
                    TypeOK, Threads, Writers
<1>6. CASE Reporter
  BY <1>2, <1>6 DEF Reporter, RecvKmod, ReportComes, RecvFails, TakeType, PassOn, Goto, beat,
                    shared, Typed, TypeOK, Threads, Writers
<1>7. CASE Still \/ Tick
  BY <1>7, StillFacts DEF Tick, beat, shared
<1> QED BY <1>1, <1>3, <1>4, <1>5, <1>6, <1>7 DEF Receive

\* Neither lets a portal be on for longer than the bound after the latest answer.
LEMMA AttendedInTime ==
  ASSUME Typed, Timely, Attended
  PROVE  kernel["switch"] = "off" \/ quiet <= 5 * Longest + 2 + 3 * Stall
<1> USE Ages
<1>1. CASE flag = "on" /\ answered
  <2>1. pc["hb"] \notin Doing BY <1>1 DEF Timely
  <2>2. pc["hb"] \in {"sleep", "test", "late", "clear", "nap"}
    BY <2>1 DEF HbPlaces, Doing
  <2> QED BY <1>1, <2>2 DEF Timely
<1>2. CASE flag = "on" /\ ~answered
  <2>1. pc["hb"] \notin Doing BY <1>2 DEF Timely
  <2>2. pc["hb"] \in {"sleep", "test", "late", "clear", "nap"}
    BY <2>1 DEF HbPlaces, Doing
  <2>3. sinceGood <= 4 * Longest + 1 + 2 * Stall
    BY <1>2, <2>2 DEF Timely
  <2> QED BY <1>2, <2>3 DEF Timely
<1>3. CASE On("hb", "switch")
  <2>1. Switching("on") \/ Switching("off")
    BY <1>3 DEF Switching, On
  <2> QED BY <2>1 DEF Timely
<1>4. CASE pc["hb"] = "clear"
  BY <1>4 DEF Timely
<1> QED BY <1>1, <1>2, <1>3, <1>4 DEF Attended, Typed, TypeOK

\* SET_ON is all there is to finding 4: if the AC never sends it, then until two threads
\* clash or the daemon dies a portal is off no later than the bound after the latest
\* answer of the AC.
THEOREM PortalOutlivesNoAc ==
  ASSUME NoSetOn
  PROVE  Spec => []PortalGivenUpInTime
<1> DEFINE Inv == Undisturbed /\ (~up \/ Timely) /\ (clash \/ Attended)
<1>1. ASSUME Init PROVE Timely /\ Attended
  <2>1. /\ pc["hb"] = "sleep" /\ timer = 1 /\ answered = FALSE /\ flag = "off"
        /\ kernel["switch"] = "off" /\ job["rx"].val = "off"
    BY <1>1 DEF Init, Threads, Writers, Keys, Switches, Cmd
  <2>2. Longest \in Nat
    BY LongestFacts, DaemonConstantsOK
  <2> QED BY <2>1, <2>2 DEF Timely, Attended, Switching, Doing
<1>2. ASSUME Inv, Undisturbed', [Next]_vars PROVE Inv'
  <2>1. Typed BY <1>2 DEF Undisturbed
  <2>2. CASE UNCHANGED vars
    <3>1. (~up \/ Timely)' BY <1>2, <2>2 DEF vars, beat, life, Timely, Switching
    <3>2. (clash \/ Attended)' BY <1>2, <2>2 DEF vars, beat, shared, Attended, On
    <3> QED BY <1>2, <3>1, <3>2
  <2>3. CASE Next
    <3>1. (~up \/ Timely)'
      BY <1>2, <2>1, <2>3, NextCases, StepTimely, HeartbeatTimely, OtherTimely,
         GoneFacts DEF life
    <3>2. CASE clash
      BY <1>2, <2>1, <3>1, <3>2, ClashStays
    <3>3. CASE ~clash
      <4>1. Tidy /\ Attended BY <1>2, <3>3 DEF Undisturbed
      <4>2. ASSUME Gone PROVE Attended'
        BY <4>1, <4>2, GoneFacts DEF Attended, On, shared, db
      <4>3. ASSUME NEW t \in Writers, Step(t) PROVE Attended'
        BY <2>1, <4>1, <4>3, StepAttended
      <4>4. ASSUME Heartbeat \/ Receive \/ Local \/ Reporter \/ Still \/ Tick
            PROVE  Attended'
        BY <2>1, <4>1, <4>4, OtherAttended
      <4> QED BY <1>2, <2>3, <3>1, <4>2, <4>3, <4>4, NextCases
    <3> QED BY <3>2, <3>3
  <2> QED BY <1>2, <2>2, <2>3
<1>3. Inv => PortalGivenUpInTime
  BY AttendedInTime DEF Undisturbed, PortalGivenUpInTime
<1> QED BY <1>1, <1>2, <1>3, UndisturbedHolds, PTL DEF Spec

-----------------------------------------------------------------------------
\* The thread that is at a key carries the order for it.
LEMMA OrderedAt ==
  Apart => \A t \in Writers, k \in Keys : At(t, k) => Ordered[k] = OrderOf(t)
<1> SUFFICES ASSUME Apart, NEW t \in Writers, NEW k \in Keys, At(t, k)
             PROVE  Ordered[k] = OrderOf(t)
  OBVIOUS
<1>1. \A u \in Writers : At(u, k) => u = t
  BY DEF Apart, At, On, Carrying
<1> QED BY <1>1 DEF Ordered, Writers

LEMMA OrderedAtAfter ==
  (Apart => \A t \in Writers, k \in Keys : At(t, k) => Ordered[k] = OrderOf(t))'
BY OrderedAt, PTL

\* A key that nobody is at has none.
LEMMA NotOrdered ==
  \A k \in Keys : (\A t \in Writers : ~At(t, k)) => Ordered[k] = C!Nothing
BY DEF Ordered, Writers, C!Nothing, C!To

LEMMA NotOrderedAfter ==
  (\A k \in Keys : (\A t \in Writers : ~At(t, k)) => Ordered[k] = C!Nothing)'
BY NotOrdered, PTL

\* A step of one thread, at one key before and after it, changes the order for no other.
LEMMA OneOrder ==
  ASSUME NEW t \in Writers, NEW k \in Keys,
         \A u \in Writers : u # t => pc'[u] = pc[u] /\ job'[u] = job[u],
         \A j \in Keys : j # k => ~At(t, j) /\ ~At(t, j)'
  PROVE  Ordered' = [Ordered EXCEPT ![k] = Ordered'[k]]
<1>1. \A u \in Writers, j \in Keys : u # t => (At(u, j)' <=> At(u, j)) /\ OrderOf(u)' = OrderOf(u)
  BY DEF At, OrderOf
<1>2. ASSUME NEW j \in Keys, j # k PROVE Ordered'[j] = Ordered[j]
  <2>1. \A u \in Writers : (At(u, j)' <=> At(u, j)) /\ (At(u, j) => OrderOf(u)' = OrderOf(u))
    BY <1>1, <1>2
  <2> QED BY <2>1 DEF Ordered, Writers
<1>3. Ordered = [j \in Keys |-> Ordered[j]] /\ Ordered' = [j \in Keys |-> Ordered'[j]]
  BY DEF Ordered
<1>4. Ordered'[k] = [Ordered EXCEPT ![k] = Ordered'[k]][k]
  BY <1>3, Zenon
<1> QED BY <1>2, <1>3, <1>4

\* A step that changes no thread's place or job as far as an order goes.
LEMMA SameOrders ==
  ASSUME \A u \in Writers, j \in Keys : At(u, j)' <=> At(u, j),
         \A u \in Writers : pc[u] \in Carrying => OrderOf(u)' = OrderOf(u)
  PROVE  Ordered' = Ordered
<1>1. \A u \in Writers, j \in Keys : At(u, j) => OrderOf(u)' = OrderOf(u)
  BY DEF At
<1>2. ASSUME NEW j \in Keys PROVE Ordered'[j] = Ordered[j]
  BY <1>1 DEF Ordered, Writers
<1> QED BY <1>2 DEF Ordered

\* What makes a step one of the configuration store.
LEMMA IsConfigStep ==
  ASSUME Typed, Typed', ~clash, ~clash', NEW k \in Keys,
         \/ C!Give(k) \/ C!Empty(k) \/ C!Store(k) \/ C!Reread(k) \/ C!Reduce(k) \/ C!Drop(k)
         \/ C!Activate(k) \/ UNCHANGED <<db, kernel, Ordered>>
  PROVE  ConfigStep
<1>1. CASE UNCHANGED <<db, kernel, Ordered>>
  BY <1>1 DEF ConfigStep, C!vars, db, Typed, TypeOK
<1>2. CASE \/ C!Give(k) \/ C!Empty(k) \/ C!Store(k) \/ C!Reread(k) \/ C!Reduce(k) \/ C!Drop(k)
           \/ C!Activate(k)
  BY <1>2, Zenon DEF ConfigStep, C!Next
<1> QED BY <1>1, <1>2

\* A writer takes its order one place further.
LEMMA StepConfig ==
  ASSUME Typed, Tidy, Typed', Tidy', ~clash, ~clash', NEW t \in Writers, Step(t)
  PROVE  ConfigStep
<1> DEFINE k == job[t].key
<1>1. /\ k \in Keys /\ k = job'[t].key /\ At(t, k)
      /\ \A u \in Writers : u # t => pc'[u] = pc[u] /\ job'[u] = job[u]
  <2>1. CASE Resolve(t)
    <3>1. /\ job'[t].key = job[t].key /\ \A u \in Writers : u # t => job'[u] = job[u]
      BY <2>1, ResolveAsks, AskTyped, AskKeeps
    <3> QED BY <2>1, <3>1 DEF Resolve, Finish, Typed, TypeOK, Cmds, At, Carrying, Doing, Goto,
                              Threads, Writers
  <2> USE DEF Typed, TypeOK, Cmds, At, Carrying, Doing, Goto, Threads, Writers
  <2>2. CASE PrintSql(t) BY <2>2 DEF PrintSql
  <2>3. CASE Exec(t) BY <2>3 DEF Exec
  <2>4. CASE CopyIps(t) BY <2>4 DEF CopyIps
  <2>5. CASE SetType(t) BY <2>5 DEF SetType
  <2>6. CASE SetData(t) BY <2>6 DEF SetData
  <2>7. CASE SendData(t) BY <2>7 DEF SendData, Finish
  <2> QED BY <2>2, <2>3, <2>4, <2>5, <2>6, <2>7, <2>1 DEF Step
<1>2. Ordered[k] = OrderOf(t)
  BY <1>1, OrderedAt DEF Tidy
<1>3. Ordered' = [Ordered EXCEPT ![k] = Ordered'[k]]
  <2>1. \A j \in Keys : j # k => ~At(t, j) /\ ~At(t, j)'
    BY <1>1 DEF At
  <2> HIDE DEF k
  <2> QED BY <1>1, <2>1, OneOrder
<1>4. ASSUME pc'[t] \in Carrying PROVE Ordered'[k] = OrderOf(t)'
  <2>1. At(t, k)' BY <1>1, <1>4 DEF At
  <2> QED BY <1>1, <2>1, OrderedAtAfter DEF Tidy
<1>5. ASSUME pc'[t] \notin Carrying PROVE Ordered'[k] = C!Nothing
  <2>1. \A u \in Writers : ~At(u, k)'
    <3>1. ~At(t, k)' BY <1>5 DEF At
    <3>2. \A u \in Writers : u # t => ~At(u, k)
      BY <1>1 DEF Tidy, Apart, At, On, Carrying
    <3> QED BY <1>1, <3>1, <3>2 DEF At
  <2> QED BY <1>1, <2>1, NotOrderedAfter
<1>6. ASSUME NEW p, Goto(t, p) PROVE pc'[t] = p
  BY <1>6 DEF Goto, Typed, TypeOK, Threads, Writers
<1>7. ASSUME pc'[t] \in Carrying, job'[t] = job[t], pc'[t] \in Storing <=> pc[t] \in Storing
      PROVE  Ordered' = Ordered
  <2>1. Ordered'[k] = Ordered[k]
    BY <1>2, <1>4, <1>7 DEF OrderOf
  <2> QED BY <1>3, <2>1 DEF Ordered
<1> HIDE DEF k
<1>8. CASE PrintSql(t)
  <2>1. pc'[t] \in {"wiped", "exec"} /\ pc[t] \in {"wipe", "print"} /\ UNCHANGED <<job, db, kernel>>
    BY <1>6, <1>8 DEF PrintSql
  <2> QED BY <1>1, <1>7, <2>1, IsConfigStep DEF Carrying, Doing, Storing
<1>9. CASE Exec(t)
  <2>1. store' = Executed(t) /\ framed' = Framed(t) /\ UNCHANGED <<job, kernel>>
    BY <1>9 DEF Exec
  <2>2. CASE pc[t] = "wiped"
    <3>1. t = "rx" /\ k = "white"
      BY <2>2 DEF k, Typed, TypeOK, Sorted, Writers, HbPlaces, LcPlaces
    <3>2. store' = [store EXCEPT ![k] = "bare"] /\ framed' = framed
      <4>1. sql = [op |-> "set", key |-> "white", val |-> "bare"]
        BY <2>2 DEF Tidy, InSql
      <4> QED BY <2>1, <3>1, <4>1 DEF Executed, Framed
    <3>3. Ordered[k] = [to |-> "database", val |-> job[t].val]
      BY <1>2, <2>2 DEF OrderOf, Storing
    <3>4. CASE job[t].val # "bare"
      <4>1. Ordered' = Ordered
        BY <1>6, <1>7, <1>9, <2>1, <2>2, <3>4 DEF Exec, Carrying, Doing, Storing
      <4>2. C!Empty(k)
        BY <2>1, <3>1, <3>2, <3>3, <4>1 DEF C!Empty
      <4> QED BY <1>1, <4>2, IsConfigStep
    <3>5. CASE job[t].val = "bare"
      <4>1. pc'[t] = "resolve"
        BY <1>6, <1>9, <2>2, <3>1, <3>5 DEF Exec, Switches, k
      <4>2. Ordered'[k] = [to |-> "kernel", val |-> job[t].val]
        BY <1>4, <2>1, <3>1, <4>1 DEF OrderOf, Storing, Carrying, Doing
      <4>3. C!Store(k)
        BY <1>3, <2>1, <3>1, <3>2, <3>3, <3>5, <4>2 DEF C!Store
      <4> QED BY <1>1, <4>3, IsConfigStep
    <3> QED BY <3>4, <3>5
  <2>3. CASE pc[t] = "exec"
    <3>1. t \in {"hb", "rx"} /\ sql = [op |-> "set", key |-> k, val |-> job[t].val]
      BY <2>3 DEF k, Typed, TypeOK, Writers, LcPlaces, Tidy, InSql
    <3>2. k = "portal" => t = "rx"
      BY <3>1 DEF k, Typed, Sorted
    <3>3. /\ store' = [store EXCEPT ![k] = job[t].val]
          /\ framed' = IF k = "portal" THEN TRUE ELSE framed
      BY <2>1, <3>1, <3>2 DEF Executed, Framed, Binds, k
    <3>4. pc'[t] \in {"type", "resolve"}
      BY <1>6, <1>9, <2>3 DEF Exec
    <3>5. Ordered[k] = [to |-> "database", val |-> job[t].val]
      BY <1>2, <2>3 DEF OrderOf, Storing
    <3>6. Ordered'[k] = [to |-> "kernel", val |-> job[t].val]
      BY <1>4, <2>1, <3>1, <3>4 DEF OrderOf, Storing, Carrying, Doing
    <3>7. (IF framed' THEN {"portal"} ELSE {}) =
             (IF framed THEN {"portal"} ELSE {}) \cup ({k} \cap {"portal"})
      <4>1. CASE k = "portal" BY <3>3, <4>1
      <4>2. CASE k # "portal" BY <3>3, <4>2
      <4> QED BY <4>1, <4>2
    <3>8. /\ Ordered[k].to = "database" /\ store' = [store EXCEPT ![k] = Ordered[k].val]
          /\ Ordered' = [Ordered EXCEPT ![k].to = "kernel"]
      BY <1>3, <3>3, <3>5, <3>6
    <3>9. C!Store(k)
      BY <2>1, <3>7, <3>8 DEF C!Store
    <3> QED BY <1>1, <3>9, IsConfigStep
  <2> QED BY <1>9, <2>2, <2>3 DEF Exec
<1>10. CASE Resolve(t)
  <2>1. pc[t] = "resolve" /\ UNCHANGED <<db, kernel>> /\ job[t] \in Cmds /\ job'[t] \in Cmds
    BY <1>10 DEF Resolve, shared, Typed, TypeOK
  <2>2. /\ Ordered[k] = [to |-> Ordered[k].to, val |-> job[t].val]
        /\ Ordered[k].to = IF t = "lc" THEN "again" ELSE "kernel"
    BY <1>2, <2>1 DEF OrderOf, Storing
  <2>3. ASSUME pc'[t] \in {"ips", "type"}
        PROVE  Ordered'[k] = [to |-> Ordered[k].to, val |-> job'[t].val]
    BY <1>4, <2>2, <2>3 DEF OrderOf, Storing, Carrying, Doing
  <2>4. ASSUME NEW v \in Texts(t), Ask(t, v, v), pc'[t] \in {"ips", "type"}
        PROVE  ConfigStep
    <3>1. job'[t].val = v BY <2>4, AskTyped
    <3>2. CASE Rereads(t)
      <4>1. C!Reread(k)
        BY <1>3, <2>1, <2>2, <2>3, <2>4, <3>1, <3>2
           DEF C!Reread, Rereads, Texts, k, db
      <4> QED BY <1>1, <4>1, IsConfigStep
    <3>3. CASE ~Rereads(t)
      <4>1. v = job[t].val
        BY <1>1, <2>4, <3>3 DEF Texts, Tidy, Apart, Keys
      <4>2. Ordered' = Ordered
        BY <1>3, <2>2, <2>3, <2>4, <3>1, <4>1 DEF Ordered
      <4> QED BY <1>1, <2>1, <4>2, IsConfigStep
    <3> QED BY <3>2, <3>3
  <2>5. ASSUME k = "white", pc'[t] = "type", job'[t].val = "bare"
        PROVE  ConfigStep
    <3>1. C!Reduce(k)
      BY <1>3, <2>1, <2>2, <2>3, <2>5 DEF C!Reduce, db
    <3> QED BY <1>1, <3>1, IsConfigStep
  <2>6. ASSUME k = "portal", Finish(t)
        PROVE  ConfigStep
    <3>1. pc'[t] \notin Carrying
      BY <1>6, <2>6 DEF Finish, Carrying, Doing
    <3>2. C!Drop(k)
      BY <1>3, <1>5, <2>1, <2>2, <2>6, <3>1 DEF C!Drop, db
    <3> QED BY <1>1, <3>2, IsConfigStep
  <2>7. PICK v \in Texts(t) :
          \/ Ask(t, v, v) /\ (Goto(t, "ips") \/ Goto(t, "type"))
          \/ k = "white" /\ Ask(t, v, "bare") /\ Goto(t, "type")
          \/ k = "portal" /\ Finish(t)
    BY <1>10 DEF Resolve, k
  <2>8. CASE Ask(t, v, v) /\ (Goto(t, "ips") \/ Goto(t, "type"))
    BY <1>6, <2>4, <2>8
  <2>9. CASE k = "white" /\ Ask(t, v, "bare") /\ Goto(t, "type")
    BY <1>6, <2>5, <2>9, AskTyped
  <2> QED BY <2>6, <2>7, <2>8, <2>9
<1>11. CASE CopyIps(t) \/ SetType(t) \/ SetData(t)
  <2>1. /\ pc'[t] \in {"type", "data", "send"} /\ pc[t] \in {"ips", "type", "data"}
        /\ UNCHANGED <<job, db, kernel>>
    BY <1>6, <1>11 DEF CopyIps, SetType, SetData, shared
  <2> QED BY <1>1, <1>7, <2>1, IsConfigStep DEF Carrying, Doing, Storing
<1>12. CASE SendData(t)
  <2>1. kernel' = [kernel EXCEPT ![k] = job[t].val]
    BY <1>12, KernelObeys DEF k
  <2>2. Ordered[k].to \in {"kernel", "again"} /\ Ordered[k].val = job[t].val
    BY <1>2, <1>12 DEF SendData, OrderOf, Storing
  <2>3. pc'[t] \notin Carrying
    BY <1>6, <1>12 DEF SendData, Finish, Carrying, Doing
  <2>4. C!Activate(k)
    BY <1>3, <1>5, <1>12, <2>1, <2>2, <2>3 DEF C!Activate, SendData, db
  <2> QED BY <1>1, <2>4, IsConfigStep
<1> QED BY <1>8, <1>9, <1>10, <1>11, <1>12 DEF Step

\* Threads that carry no order before or after the step.
LEMMA IdleConfig ==
  ASSUME Typed, Typed', ~clash, ~clash', UNCHANGED <<db, kernel>>,
         \A u \in Writers : \/ pc'[u] = pc[u] /\ job'[u] = job[u]
                            \/ pc[u] \notin Carrying /\ pc'[u] \notin Carrying
  PROVE  ConfigStep
<1>1. /\ \A u \in Writers, j \in Keys : At(u, j)' <=> At(u, j)
      /\ \A u \in Writers : pc[u] \in Carrying => OrderOf(u)' = OrderOf(u)
  BY DEF At, OrderOf
<1>2. Ordered' = Ordered
  BY <1>1, SameOrders
<1> QED BY <1>2, IsConfigStep DEF Keys

\* A thread takes an order on.
LEMMA GiveConfig ==
  ASSUME Typed, Tidy, Typed', Tidy', ~clash, ~clash', UNCHANGED <<db, kernel>>,
         NEW t \in Writers, NEW c \in Cmds, NEW p \in Carrying, pc[t] \notin Carrying,
         pc' = [pc EXCEPT ![t] = p], job' = [job EXCEPT ![t] = c],
         \A u \in Writers : u # t => ~On(u, c.key),
         IF p \in Storing THEN c.val \in Values[c.key]
         ELSE /\ t = "lc"
              /\ \/ c.val = store[c.key] /\ (c.key = "portal" => ~framed)
                 \/ c.key = "white" /\ c.val = "bare"
                 \/ c.key = "portal" /\ c.val = "garbled"
  PROVE  ConfigStep
<1>1. /\ c.key \in Keys /\ pc'[t] = p /\ job'[t] = c
      /\ \A u \in Writers : u # t => pc'[u] = pc[u] /\ job'[u] = job[u]
  BY DEF Typed, TypeOK, Threads, Cmds
<1>2. \A u \in Writers : ~At(u, c.key)
  BY DEF At, On, Carrying
<1>3. Ordered[c.key] = C!Nothing
  BY <1>1, <1>2, NotOrdered
<1>4. Ordered' = [Ordered EXCEPT ![c.key] = Ordered'[c.key]]
  <2>1. \A j \in Keys : j # c.key => ~At(t, j) /\ ~At(t, j)'
    BY <1>1 DEF At
  <2> QED BY <1>1, <2>1, OneOrder
<1>5. Ordered'[c.key] = [to |-> IF p \in Storing THEN "database" ELSE "again", val |-> c.val]
  <2>1. At(t, c.key)' BY <1>1 DEF At
  <2>2. Ordered'[c.key] = OrderOf(t)'
    BY <1>1, <2>1, OrderedAtAfter DEF Tidy
  <2> QED BY <1>1, <2>2 DEF OrderOf
<1>6. C!IsOrder(c.key, Ordered'[c.key])
  BY <1>5 DEF C!IsOrder, C!Readable
<1>7. C!Give(c.key)
  BY <1>3, <1>4, <1>6 DEF C!Give, db
<1> QED BY <1>1, <1>7, IsConfigStep

LEMMA OtherConfig ==
  ASSUME Typed, Tidy, Typed', Tidy', ~clash, ~clash',
         Heartbeat \/ Receive \/ Local \/ Reporter \/ Still \/ Tick
  PROVE  ConfigStep
<1>0. ASSUME NEW t \in Threads, NEW p, Goto(t, p)
      PROVE  pc'[t] = p /\ \A u \in Threads : u # t => pc'[u] = pc[u]
  BY <1>0 DEF Goto, Typed, TypeOK
<1>1. ASSUME NEW t \in Writers, NEW c \in Cmds, Begin(t, c)
      PROVE  job' = [job EXCEPT ![t] = c] /\ \A u \in Writers : u # t => ~On(u, c.key)
  BY <1>1 DEF Begin
<1>2. CASE Heartbeat
  <2>1. Cmd("switch", "on") \in Cmds /\ Cmd("switch", "off") \in Cmds
    BY ValuesFacts DEF Cmd, Cmds, Keys
  <2>2. /\ \A u \in Threads : u # "hb" => pc'[u] = pc[u]
        /\ pc["hb"] \in {"sleep", "test", "late", "clear", "nap"}
        /\ UNCHANGED <<db, kernel>>
    BY <1>0, <1>2 DEF Heartbeat, Beat, Test, Late, Clear, Nap, shared, Threads, Writers
  <2>3. ASSUME NEW v \in {"on", "off"}, Begin("hb", Cmd("switch", v)), Goto("hb", "print")
        PROVE  ConfigStep
    <3>1. Cmd("switch", v) \in Cmds /\ Cmd("switch", v).key = "switch" /\ Cmd("switch", v).val = v
      BY <2>1 DEF Cmd
    <3>2. /\ "print" \in Carrying /\ "print" \in Storing /\ "hb" \in Writers
          /\ pc["hb"] \notin Carrying /\ v \in Values["switch"]
      BY <2>2, ValuesFacts DEF Carrying, Doing, Storing, Writers
    <3>3. pc' = [pc EXCEPT !["hb"] = "print"]
      BY <2>3 DEF Goto
    <3>4. /\ job' = [job EXCEPT !["hb"] = Cmd("switch", v)]
          /\ \A u \in Writers : u # "hb" => ~On(u, "switch")
      BY <1>1, <2>3, <3>1, <3>2
    <3> QED BY <2>2, <3>1, <3>2, <3>3, <3>4, GiveConfig
  <2>4. ASSUME UNCHANGED job, pc'["hb"] \in {"sleep", "test", "late", "clear", "nap"}
        PROVE  ConfigStep
    BY <2>2, <2>4, IdleConfig DEF Carrying, Doing, Threads, Writers
  <2>5. CASE Beat \/ Clear \/ Nap
    BY <1>0, <2>4, <2>5 DEF Beat, Clear, Nap, Threads, Writers
  <2>6. CASE Test
    BY <1>0, <2>3, <2>4, <2>6 DEF Test, Threads, Writers
  <2>7. CASE Late
    BY <1>0, <2>3, <2>4, <2>7 DEF Late, Threads, Writers
  <2> QED BY <1>2, <2>5, <2>6, <2>7 DEF Heartbeat
<1>3. CASE Receive
  <2>1. ASSUME RecvHeartBeat \/ \E i \in Intervals : RecvInterval(i) PROVE ConfigStep
    BY <2>1, IdleConfig DEF RecvHeartBeat, RecvInterval, shared
  <2>2. ASSUME NEW c \in Commands, RecvCommand(c) PROVE ConfigStep
    <3>1. PICK v \in Values[c.key] : Begin("rx", Cmd(c.key, v)) /\ Cmd(c.key, v) \in Cmds
      BY <2>2, CommandBegins
    <3>2. PICK p \in {"wipe", "print"} : pc' = [pc EXCEPT !["rx"] = p]
      BY <2>2 DEF RecvCommand, Goto
    <3>3. pc["rx"] = "idle" /\ UNCHANGED <<db, kernel>>
      BY <2>2 DEF RecvCommand, shared
    <3>4. Cmd(c.key, v).key = c.key /\ Cmd(c.key, v).val = v
      BY DEF Cmd
    <3>5. p \in Carrying /\ p \in Storing /\ pc["rx"] \notin Carrying /\ "rx" \in Writers
      BY <3>3 DEF Carrying, Doing, Storing, Writers
    <3>6. /\ job' = [job EXCEPT !["rx"] = Cmd(c.key, v)]
          /\ \A u \in Writers : u # "rx" => ~On(u, Cmd(c.key, v).key)
      BY <1>1, <3>1, <3>5
    <3> QED BY <3>1, <3>2, <3>3, <3>4, <3>5, <3>6, GiveConfig
  <2> QED BY <1>3, <2>1, <2>2 DEF Receive
<1>4. CASE NetworkChanges
  <2>1. /\ Cmd("white", "bare") \in Cmds /\ Cmd("white", "bare").key = "white"
        /\ Cmd("white", "bare").val = "bare"
    BY ValuesFacts DEF Cmd, Cmds, Keys
  <2>2. /\ pc["lc"] = "idle" /\ Begin("lc", Cmd("white", "bare"))
        /\ pc' = [pc EXCEPT !["lc"] = "type"] /\ UNCHANGED <<db, kernel>>
    BY <1>4 DEF NetworkChanges, Goto, shared
  <2> QED BY <1>1, <2>1, <2>2, GiveConfig DEF Carrying, Doing, Storing, Writers
<1>5. CASE Select
  <2>1. /\ pc["lc"] = "ask" /\ pc'["lc"] = "fetch" /\ UNCHANGED <<db, kernel>>
        /\ \A u \in Threads : u # "lc" => pc'[u] = pc[u]
        /\ \A u \in Writers : u # "lc" => job'[u] = job[u]
    BY <1>0, <1>5 DEF Select, Threads, Writers
  <2> QED BY <2>1, IdleConfig DEF Carrying, Doing, Threads
<1>6. CASE Fetch
  <2>1. pc["lc"] = "fetch" /\ sql.op = "read" /\ job["lc"].key = part /\ part \in Keys
    BY <1>6 DEF Fetch, Tidy, InSql, Writers, Typed, TypeOK, Sorted, KeyOfPart, Keys
  <2>2. UNCHANGED <<db, kernel>> /\ pc' = [pc EXCEPT !["lc"] = "resolve"]
    BY <1>6, <2>1 DEF Fetch, Executed, Framed, Goto, db
  <2>3. PICK v \in Anything :
          /\ job' = [job EXCEPT !["lc"].val = v]
          /\ \/ v = store[part] /\ (part = "portal" => ~framed)
             \/ part = "portal" /\ v = "garbled"
    <3>1. PICK v \in Fetched : job' = [job EXCEPT !["lc"].val = v]
      BY <1>6 DEF Fetch
    <3>2. part \in {"portal", "white"}
      BY <1>6 DEF Fetch, Typed, TypeOK, Sorted
    <3>3. \/ v = store[part] /\ (part = "portal" => ~framed)
          \/ part = "portal" /\ v = "garbled"
      BY <2>1, <3>2 DEF Fetched
    <3>4. v \in Anything
      BY <2>1, <3>3, ValuesFacts DEF Typed, TypeOK
    <3> QED BY <3>1, <3>3, <3>4
  <2> DEFINE c == [key |-> part, val |-> v]
  <2>4. job' = [job EXCEPT !["lc"] = c]
    <3>1. job' = [job EXCEPT !["lc"] = [job["lc"] EXCEPT !.val = v]]
      BY <2>3
    <3>2. job["lc"] \in Cmds
      BY DEF Typed, TypeOK, Writers
    <3>3. [job["lc"] EXCEPT !.val = v] = c
      BY <2>1, <3>2 DEF Cmds
    <3> QED BY <3>1, <3>3
  <2>5. c \in Cmds /\ c.key = part /\ c.val = v
    BY <2>1 DEF Cmds
  <2>6. \A u \in Writers : u # "lc" => ~On(u, part)
    BY <2>1 DEF Tidy, Apart, On, Doing, Writers
  <2> HIDE DEF c
  <2> QED BY <2>1, <2>2, <2>4, <2>5, <2>6, <2>3, GiveConfig DEF Carrying, Doing, Storing,
                                                                Writers
<1>7. CASE Reporter
  <2>1. job' = job /\ UNCHANGED <<db, kernel>> /\ \A u \in Writers : pc'[u] = pc[u]
    BY <1>0, <1>7 DEF Reporter, RecvKmod, ReportComes, RecvFails, TakeType, PassOn, shared,
                      Threads, Writers
  <2> QED BY <2>1, IdleConfig
<1>8. CASE Still \/ Tick
  BY <1>8, StillFacts, IdleConfig DEF Tick, shared
<1> QED BY <1>2, <1>3, <1>4, <1>5, <1>6, <1>7, <1>8 DEF Local

\* Two threads clash only if one of them carries an order.
LEMMA MixUpConfig == ASSUME Typed, Typed', [Next]_vars, clash' PROVE C!MixUp
<1>1. CASE clash BY <1>1 DEF C!MixUp
<1>2. CASE ~clash
  <2>1. SUFFICES \E t \in Writers : pc[t] \in Carrying \/ pc'[t] \in Carrying
    <3>1. \A t \in Writers : job[t].key \in Keys /\ job'[t].key \in Keys
      BY DEF Typed, TypeOK, Cmds
    <3>2. \A t \in Writers : OrderOf(t) # C!Nothing /\ OrderOf(t)' # C!Nothing
      BY DEF OrderOf, C!Nothing, C!To
    <3>3. \A t \in Writers, k \in Keys : At(t, k) => Ordered[k] # C!Nothing
      BY <3>2 DEF Ordered, Writers
    <3>4. \A t \in Writers, k \in Keys : At(t, k)' => Ordered'[k] # C!Nothing
      BY <3>2 DEF Ordered, Writers
    <3> QED BY <3>1, <3>3, <3>4 DEF At, C!MixUp
  <2>2. CASE UNCHANGED vars BY <1>2, <2>2 DEF vars
  <2>3. ASSUME NEW t \in Writers, Step(t) PROVE pc[t] \in Carrying
    BY <2>3 DEF Step, PrintSql, Exec, Resolve, CopyIps, SetType, SetData, SendData, Carrying,
                Doing
  <2>4. CASE Heartbeat
    BY <1>2, <2>4 DEF Heartbeat, Beat, Test, Late, Clear, Nap, Goto, Carrying, Doing, Typed,
                      TypeOK, Threads, Writers
  <2>5. CASE Receive
    BY <1>2, <2>5 DEF Receive, RecvHeartBeat, RecvInterval, RecvCommand, Goto, Carrying, Doing,
                      Typed, TypeOK, Threads, Writers
  <2>6. CASE Local
    BY <1>2, <2>6 DEF Local, NetworkChanges, Select, Fetch, Goto, HoldsSql, On, Carrying, Doing,
                      Typed, TypeOK, Threads, Writers, HbPlaces, RxPlaces
  <2>7. CASE Reporter
    BY <1>2, <2>7 DEF Reporter, RecvKmod, ReportComes, RecvFails, TakeType, PassOn, WriteNl,
                      HoldsNl, Carrying, Doing, Threads, Writers
  <2>8. CASE Still \/ Gone \/ Tick
    BY <1>2, <2>8, StillFacts, GoneFacts DEF Tick
  <2> QED BY <2>2, <2>3, <2>4, <2>5, <2>6, <2>7, <2>8, NextCases
<1> QED BY <1>1, <1>2

\* The daemon implements the configuration store: from the start, and with every step.
THEOREM DaemonIsAConfigStore == Spec => C!Spec /\ ImplementsConfig
<1>1. ASSUME Init PROVE C!Init
  <2>1. \A t \in Writers : pc[t] \notin Carrying
    BY <1>1 DEF Init, Threads, Writers, Carrying, Doing
  <2>2. Ordered = [k \in Keys |-> C!Nothing]
    BY <2>1 DEF Ordered, At, Writers, C!Nothing, C!To
  <2>3. /\ store \in [Keys -> UNION {Values[k] : k \in Keys}]
        /\ \A k \in Keys : store[k] \in Values[k]
    BY <1>1, DaemonConstantsOK DEF Init
  <2> QED BY <1>1, <2>2, <2>3 DEF Init, C!Init
<1>2. ASSUME Undisturbed, Undisturbed', [Next]_vars PROVE ConfigStep
  <2>1. CASE UNCHANGED vars
    <3>1. Ordered' = Ordered
      BY <2>1 DEF vars, Ordered, At, OrderOf
    <3> QED BY <2>1, <3>1 DEF vars, shared, db, ConfigStep, C!vars
  <2>2. CASE clash'
    BY <1>2, <2>2, MixUpConfig DEF ConfigStep, C!Next, Undisturbed
  <2>3. CASE Next /\ ~clash'
    <3>1. ~clash /\ Typed /\ Tidy /\ Typed' /\ Tidy'
      BY <1>2, <2>3, ClashStays DEF Undisturbed
    <3>2. ASSUME Gone PROVE ConfigStep
      BY <2>3, <3>1, <3>2, GoneFacts, IdleConfig DEF shared
    <3> QED BY <2>3, <3>1, <3>2, StepConfig, OtherConfig, NextCases
  <2> QED BY <1>2, <2>1, <2>2, <2>3
<1>3. ASSUME ConfigStep PROVE [C!Next]_(C!vars)
  BY <1>3 DEF ConfigStep
<1> QED BY <1>1, <1>2, <1>3, UndisturbedHolds, PTL DEF Spec, C!Spec, ImplementsConfig
=============================================================================
