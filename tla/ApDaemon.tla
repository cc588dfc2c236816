------------------------------ MODULE ApDaemon ------------------------------
(***************************************************************************)
(* The daemon of an AP, umod/src/cloud_wlan_cfg_update.c: the heartbeat    *)
(* thread ("hb") switches the portal on when the AC answers and off when   *)
(* it is silent, the receive thread ("rx") obeys the AC, the local thread  *)
(* ("lc") sends the stored configuration again when the network changes,   *)
(* and the report thread ("rp") passes on what the kernel reports. They    *)
(* share, without a lock, the buffer g_cw_sql of SQL texts and the one     *)
(* netlink message g_cw_nl_info.nlh, which is sent from and received into. *)
(*                                                                         *)
(* Configuration is a map from keys to values, one in the database and one *)
(* in the kernel. A list or a URL is a value, an SQL text the statement it *)
(* holds; a write of either buffer is one step. Times are ages in seconds. *)
(* SQL statements succeed, messages to the kernel arrive.                  *)
(***************************************************************************)
EXTENDS Naturals

CONSTANTS
  Lists,      \* the white lists the AC may send
  Urls,       \* the portal URLs the AC may send
  Intervals,  \* the heartbeat intervals in use, in seconds
  Commands,   \* the configuration commands the AC sends
  Databases,  \* bound: what may be stored when the daemon starts
  Stall,      \* bound: seconds the heartbeat thread takes to decide and to switch
  Far,        \* bound: ages are counted up to this many seconds
  Work        \* bound: commands, network changes and returns of recvmsg in a behaviour

Writers == {"hb", "rx", "lc"}
Threads == Writers \cup {"rp"}
Switches == {"switch", "klog"}
Keys == {"switch", "klog", "white", "portal"}
\* "bare": no entry but the router itself; "none": no URL. A text decrypted from the
\* wrong place is "garbled", an address of another thread's name "mixed".
Values == [k \in Keys |-> CASE k = "white" -> Lists \cup {"bare"}
                            [] k = "portal" -> Urls \cup {"none"}
                            [] OTHER -> {"on", "off"}]
Anything == {"zero", "report", "garbled", "mixed"} \cup UNION {Values[k] : k \in Keys}
Cmds == [key : Keys, val : Anything]
MsgTypes == [key : Keys \cup {"zero", "report"}, val : Anything]

ASSUME DaemonConstantsOK ==
  /\ Intervals \subseteq Nat /\ Intervals # {}
  /\ \A c \in Commands : c \in Cmds /\ c.val \in Values[c.key]
  /\ Databases \subseteq [Keys -> Anything]
  /\ \A d \in Databases, k \in Keys : d[k] \in Values[k]
  /\ Stall \in Nat /\ Work \in Nat /\ Far \in Nat
  /\ \A i \in Intervals : Far > 3 * i + Stall

VARIABLES
  answered,  \* g_recv_heart_beat_time # 0
  sinceGood, \* age of g_send_heart_beat_time
  stall,     \* age of current_time in cw_ap_heartbeat_set_cwlan_switch_status
  timer,     \* seconds the heartbeat thread sleeps on
  interval,  \* g_ap_heart_beat_interval
  flag,      \* k_flag
  pc,        \* where each thread is
  job,       \* the command each writer is carrying out
  part,      \* which of its three commands the local thread is at
  sql,       \* g_cw_sql: the statement in it
  nl,        \* g_cw_nl_info.nlh: type and data
  rtype,     \* buff->type of the report thread
  store,     \* the database
  framed,    \* whether the length stands before the portal that is stored
  kernel,    \* what the kernel module runs with
  up,        \* whether the daemon is there
  acUp,      \* whether the AC is there to be received from
  work,      \* commands, network changes and returns of recvmsg so far
  \* History, which no action reads:
  quiet,     \* age of the latest heartbeat answer received
  came,      \* a report has come since the message was zeroed
  clash,     \* two threads have been in each other's way
  unsure     \* keys not set since the start, whose names did not resolve, or that were
             \* read otherwise than they were stored

beat == <<answered, sinceGood, timer, interval, flag, quiet>>
db == <<store, framed>>
shared == <<sql, nl, db, kernel>>
passing == <<rtype, came>>
life == <<up, acUp>>
vars == <<beat, stall, pc, job, part, shared, passing, life, work, clash, unsure>>

Zero == [type |-> [key |-> "zero", val |-> "zero"], data |-> "zero"]
Report == [type |-> [key |-> "report", val |-> "zero"], data |-> "report"]
Cmd(k, v) == [key |-> k, val |-> v]

\* cw_cfg_dynamic_update_init has made the threads; the stored switches are read
\* but not sent to the kernel, whose module starts with everything off. The message
\* holds the session times sent last, which are no key's: Zero stands for them.
Init ==
  /\ answered = FALSE /\ sinceGood = 0 /\ stall = 0 /\ timer = 1
  /\ interval \in Intervals /\ flag = "off" /\ quiet = Far
  /\ pc = [t \in Threads |-> CASE t = "hb" -> "sleep" [] t = "rp" -> "clear" [] OTHER -> "idle"]
  /\ job = [t \in Writers |-> Cmd("switch", "off")] /\ part = "white"
  /\ sql = [op |-> "read", key |-> "switch", val |-> "zero"]
  /\ nl = Zero /\ rtype = Zero.type
  /\ store \in Databases /\ framed \in BOOLEAN
  /\ kernel = [k \in Keys |-> IF k \in Switches THEN "off" ELSE "zero"]
  /\ up = TRUE /\ acUp = TRUE /\ work = 0
  /\ came = FALSE /\ clash = FALSE /\ unsure = Keys

-----------------------------------------------------------------------------
\* What a thread is in the middle of.
Doing == {"wipe", "wiped", "print", "exec", "fetch", "resolve", "ips", "type", "data", "send"}
On(t, k) == pc[t] \in Doing /\ job[t].key = k
HoldsSql(t) == pc[t] \in {"wiped", "exec", "fetch"}
HoldsNl(t) == IF t = "rp" THEN pc[t] \in {"take", "copy"} /\ came ELSE pc[t] \in {"data", "send"}

Goto(t, l) == pc' = [pc EXCEPT ![t] = l]
\* Writing a buffer another thread has filled and not used yet.
WriteSql(t, op, c) ==
  /\ sql' = [op |-> op, key |-> c.key, val |-> c.val]
  /\ clash' = (clash \/ \E u \in Writers \ {t} : HoldsSql(u))
WriteNl(t, m) ==
  /\ nl' = m /\ clash' = (clash \/ \E u \in Threads \ {t} : HoldsNl(u))
\* Starting on a key another thread is at.
Begin(t, c) ==
  /\ job' = [job EXCEPT ![t] = c]
  /\ clash' = (clash \/ \E u \in Writers \ {t} : On(u, c.key))

-----------------------------------------------------------------------------
\* snprintf(g_cw_sql, ...). A white list is deleted before it is inserted.
PrintSql(t) ==
  \/ /\ pc[t] = "wipe" /\ Goto(t, "wiped") /\ WriteSql(t, "set", Cmd("white", "bare"))
     /\ UNCHANGED <<beat, stall, job, part, nl, db, kernel, passing, life, work, unsure>>
  \/ /\ pc[t] = "print" /\ Goto(t, "exec") /\ WriteSql(t, "set", job[t])
     /\ UNCHANGED <<beat, stall, job, part, nl, db, kernel, passing, life, work, unsure>>

\* The database after t executes what is in g_cw_sql. The URL of a portal is not in
\* the text but bound to it by the receive thread, with its length before it; unbound
\* it is NULL.
Binds(t) == t = "rx" /\ job[t].key = "portal"

ExecutedUnbound(t) ==  \* mutant: the URL is bound to no statement
  IF sql.op = "read" THEN store
  ELSE [store EXCEPT ![sql.key] = IF sql.key # "portal" THEN sql.val ELSE "none"]

Executed(t) ==
  IF sql.op = "read" THEN store
  ELSE [store EXCEPT ![sql.key] =
          IF sql.key # "portal" THEN sql.val ELSE IF Binds(t) THEN job[t].val ELSE "none"]
Framed(t) == IF sql.op = "set" /\ sql.key = "portal" THEN Binds(t) ELSE framed

\* An empty list is not inserted.
Exec(t) ==
  /\ pc[t] \in {"wiped", "exec"} /\ store' = Executed(t) /\ framed' = Framed(t)
  /\ Goto(t, IF pc[t] = "wiped" /\ job[t].val # "bare" THEN "print"
             ELSE IF job[t].key \in Switches THEN "type" ELSE "resolve")
  /\ unsure' = IF job[t].key \in Switches THEN unsure \ {job[t].key} ELSE unsure
  /\ UNCHANGED <<beat, stall, job, part, sql, nl, kernel, passing, life, work, clash>>

\* Where a thread goes on after a command.
NextPartOver ==  \* mutant: goes on after the last part
  CASE part = "bare" -> "portal" [] part = "portal" -> "white" [] OTHER -> "end"
NextPart == IF part = "bare" THEN "portal" ELSE "white"
Finish(t) ==
  /\ Goto(t, CASE t = "hb" -> (IF job[t].val = "on" THEN "clear" ELSE "nap")
               [] t = "rx" -> "idle"
               [] OTHER -> (IF part = "white" THEN "idle" ELSE "ask"))
  /\ part' = IF t = "lc" THEN NextPart ELSE part

\* The texts cw_get_url_dns may be given. The AC's list is read once more through the
\* pointers it has sent; DES_Act decrypts two portals at a time in one static buffer.
Rereads(t) == t = "rx" /\ job[t].key = "white"
Texts(t) ==
  IF Rereads(t) THEN Values["white"]
  ELSE {job[t].val} \cup
         {v \in {"garbled"} : On(t, "portal") /\ \E u \in Writers \ {t} : On(u, "portal")}

\* gethostbyname2 answers in static memory, where a thread that has not copied its
\* own addresses out yet finds the new ones. The router's name is not asked for.
Overwrites(t, v, u) == v # "bare" /\ u # t /\ pc[u] = "ips"
Ask(t, v, got) ==
  /\ job' = [u \in Writers |-> IF u = t THEN [job[u] EXCEPT !.val = got]
                               ELSE IF Overwrites(t, v, u) THEN [job[u] EXCEPT !.val = "mixed"]
                               ELSE job[u]]
  /\ clash' = (clash \/ \E u \in Writers : Overwrites(t, v, u))

\* cw_get_url_dns. A portal that does not resolve is not sent, a white list is sent
\* without the names that do not.
Resolve(t) ==
  /\ pc[t] = "resolve"
  /\ \E v \in Texts(t) :
       \/ /\ v # "none" /\ Ask(t, v, v) /\ Goto(t, IF v = "bare" THEN "type" ELSE "ips")
          /\ unsure' = IF Rereads(t) \/ v = "garbled" THEN unsure \cup {job[t].key}
                                                    ELSE unsure \ {job[t].key}
          /\ UNCHANGED part
       \/ /\ v # "bare" /\ job[t].key = "white" /\ Ask(t, v, "bare") /\ Goto(t, "type")
          /\ unsure' = unsure \cup {"white"} /\ UNCHANGED part
       \/ /\ job[t].key = "portal" /\ Ask(t, v, v) /\ Finish(t)
          /\ unsure' = unsure \cup {"portal"}
  /\ UNCHANGED <<beat, stall, shared, passing, life, work>>

CopyIps(t) ==
  /\ pc[t] = "ips" /\ Goto(t, "type")
  /\ UNCHANGED <<beat, stall, job, part, shared, passing, life, work, clash, unsure>>

\* What a white list of the AC points at may not be there, and a URL be longer than the
\* 128 bytes strcpy has on the stack: the daemon dies.
Fault(t) ==
  /\ \/ pc[t] = "print" /\ Rereads(t)
     \/ pc[t] = "resolve" /\ (Rereads(t) \/ job[t].val \notin {"none", "bare"})
  /\ up' = FALSE
  /\ UNCHANGED <<beat, stall, pc, job, part, shared, passing, acUp, work, clash, unsure>>

\* cloud_wlan_sendto_kmod: a switch command is all in the type and leaves the data.
MsgType(c) == IF c.key \in Switches THEN c ELSE Cmd(c.key, "zero")

SetType(t) ==
  /\ pc[t] = "type" /\ Goto(t, "data") /\ WriteNl(t, [nl EXCEPT !.type = MsgType(job[t])])
  /\ UNCHANGED <<beat, stall, job, part, sql, db, kernel, passing, life, work, unsure>>

NoDataCopied(t) == FALSE  \* mutant: the payload stays what it was
DataCopied(t) == job[t].key \notin Switches

SetData(t) ==
  /\ pc[t] = "data" /\ Goto(t, "send")
  /\ IF DataCopied(t) THEN WriteNl(t, [nl EXCEPT !.data = job[t].val])
                      ELSE UNCHANGED <<nl, clash>>
  /\ UNCHANGED <<beat, stall, job, part, sql, db, kernel, passing, life, work, unsure>>

\* cloud_wlan_nl_console_branch, run by sendmsg.
Applied ==
  IF nl.type.key \notin Keys THEN kernel
  ELSE [kernel EXCEPT ![nl.type.key] =
          IF nl.type.key \in Switches THEN nl.type.val ELSE nl.data]

SendData(t) ==
  /\ pc[t] = "send" /\ Finish(t) /\ kernel' = Applied
  /\ UNCHANGED <<beat, stall, job, sql, nl, db, passing, life, work, clash, unsure>>

-----------------------------------------------------------------------------
\* cw_ap_sendto_ac_heartbeat wakes, sends a heartbeat and reads the clock.
Beat ==
  /\ pc["hb"] = "sleep" /\ timer = 0 /\ Goto("hb", "test") /\ stall' = 0
  /\ UNCHANGED <<beat, job, part, shared, passing, life, work, clash, unsure>>

\* cw_ap_heartbeat_set_cwlan_switch_status: has an answer come?
Test ==
  /\ pc["hb"] = "test"
  /\ IF answered /\ flag = "off"
     THEN Goto("hb", "print") /\ Begin("hb", Cmd("switch", "on"))
     ELSE Goto("hb", IF answered THEN "clear" ELSE "late") /\ UNCHANGED <<job, clash>>
  /\ UNCHANGED <<beat, stall, part, shared, passing, life, work, unsure>>

OverdueTwo == sinceGood > 2 * interval + stall  \* mutant: two intervals, not three
OverdueFour == sinceGood > 4 * interval + stall  \* mutant: four intervals
Overdue == sinceGood > 3 * interval + stall

\* No answer: is it too long ago?
LateKeepsFlag ==  \* mutant: switched off, but k_flag stays
  /\ pc["hb"] = "late" /\ flag' = flag
  /\ IF Overdue /\ flag = "on"
     THEN Goto("hb", "print") /\ Begin("hb", Cmd("switch", "off"))
     ELSE Goto("hb", "nap") /\ UNCHANGED <<job, clash>>
  /\ UNCHANGED <<answered, sinceGood, timer, interval, quiet>>
  /\ UNCHANGED <<stall, part, shared, passing, life, work, unsure>>

Late ==
  /\ pc["hb"] = "late"
  /\ IF Overdue /\ flag = "on"
     THEN /\ Goto("hb", "print") /\ Begin("hb", Cmd("switch", "off"))
          /\ flag' = "off"
     ELSE Goto("hb", "nap") /\ UNCHANGED <<job, clash, flag>>
  /\ UNCHANGED <<answered, sinceGood, timer, interval, quiet>>
  /\ UNCHANGED <<stall, part, shared, passing, life, work, unsure>>

\* g_recv_heart_beat_time = 0, whatever has come since it was tested.
Clear ==
  /\ pc["hb"] = "clear" /\ Goto("hb", "nap")
  /\ flag' = "on" /\ answered' = FALSE /\ sinceGood' = stall
  /\ UNCHANGED <<timer, interval, quiet>>
  /\ UNCHANGED <<stall, job, part, shared, passing, life, work, clash, unsure>>

\* sleep(g_ap_heart_beat_interval), and a second in cw_get_ap_local_info.
NapStamped ==  \* mutant: the time of the sending is kept, not of the answer
  /\ pc["hb"] = "nap" /\ Goto("hb", "sleep") /\ timer' = interval + 1 /\ stall' = 0
  /\ sinceGood' = 0 /\ UNCHANGED <<answered, interval, flag, quiet>>
  /\ UNCHANGED <<job, part, shared, passing, life, work, clash, unsure>>

Nap ==
  /\ pc["hb"] = "nap" /\ Goto("hb", "sleep") /\ timer' = interval + 1 /\ stall' = 0
  /\ UNCHANGED <<answered, sinceGood, interval, flag, quiet>>
  /\ UNCHANGED <<job, part, shared, passing, life, work, clash, unsure>>

-----------------------------------------------------------------------------
\* cw_recv_ac_info_branch.
RecvHeartBeat ==
  /\ acUp /\ pc["rx"] = "idle" /\ answered' = TRUE /\ quiet' = 0
  /\ UNCHANGED <<sinceGood, timer, interval, flag>>
  /\ UNCHANGED <<stall, pc, job, part, shared, passing, life, work, clash, unsure>>

RecvInterval(i) ==
  /\ acUp /\ pc["rx"] = "idle" /\ interval' = i
  /\ UNCHANGED <<answered, sinceGood, timer, flag, quiet>>
  /\ UNCHANGED <<stall, pc, job, part, shared, passing, life, work, clash, unsure>>

\* The entries of a white list are pointers: the list is what they point at.
RecvCommand(c) ==
  /\ acUp /\ pc["rx"] = "idle" /\ work < Work /\ work' = work + 1
  /\ \E v \in IF c.key = "white" THEN Values["white"] ELSE {c.val} : Begin("rx", Cmd(c.key, v))
  /\ Goto("rx", IF c.key = "white" THEN "wipe" ELSE "print")
  /\ UNCHANGED <<beat, stall, part, shared, passing, life, unsure>>

AcFails ==
  /\ acUp /\ acUp' = FALSE
  /\ UNCHANGED <<beat, stall, pc, job, part, shared, passing, up, work, clash, unsure>>

AcReturns ==
  /\ ~acUp /\ acUp' = TRUE
  /\ UNCHANGED <<beat, stall, pc, job, part, shared, passing, up, work, clash, unsure>>

-----------------------------------------------------------------------------
\* cw_ap_local_cfg_dynamic_update finds the network file changed: the white list is
\* cut down to the router, then the stored portal and the stored list are sent.
NetworkChanges ==
  /\ pc["lc"] = "idle" /\ work < Work /\ work' = work + 1
  /\ Begin("lc", Cmd("white", "bare")) /\ Goto("lc", "type")
  /\ part' = "bare" /\ unsure' = unsure \cup {"white"}
  /\ UNCHANGED <<beat, stall, shared, passing, life>>

\* The interface is up: cw_ap_local_update_portal_wl, cw_ap_local_update_url_wl.
Select ==
  /\ pc["lc"] = "ask" /\ Goto("lc", "fetch")
  /\ job' = [job EXCEPT !["lc"] = Cmd(part, "none")]
  /\ sql' = [op |-> "read", key |-> part, val |-> "zero"]
  /\ clash' = (clash \/ \E u \in Writers \ {"lc"} : HoldsSql(u) \/ On(u, part))
  /\ UNCHANGED <<beat, stall, part, nl, db, kernel, passing, life, work, unsure>>

\* Another thread's statement in g_cw_sql is executed and gives no row. A portal is
\* decrypted from its first byte, also if that is of the length stored before it, and
\* after sqlite3_finalize has freed it.
Fetched ==
  IF sql.op # "read" THEN {IF part = "white" THEN "bare" ELSE "none"}
  ELSE IF part = "white" THEN {store["white"]}
  ELSE IF framed THEN {"garbled"}
  ELSE IF store["portal"] = "none" THEN {"none"} ELSE {store["portal"], "garbled"}

Fetch ==
  /\ pc["lc"] = "fetch" /\ Goto("lc", "resolve")
  /\ store' = Executed("lc") /\ framed' = Framed("lc")
  /\ \E v \in Fetched : job' = [job EXCEPT !["lc"].val = v]
  /\ UNCHANGED <<beat, stall, part, sql, nl, kernel, passing, life, work, clash, unsure>>

-----------------------------------------------------------------------------
\* cloud_wlan_nl_recv_kmod: the message is zeroed, then recvmsg waits for a report and
\* puts it there; type and data are copied out one after the other. So they are if
\* recvmsg fails, whose result is not looked at.
RecvKmodUncleared ==  \* mutant: the message is not zeroed
  /\ pc["rp"] = "clear" /\ Goto("rp", "recv") /\ came' = FALSE /\ UNCHANGED <<nl, clash>>
  /\ UNCHANGED <<beat, stall, job, part, sql, db, kernel, rtype, life, work, unsure>>

RecvKmod ==
  /\ pc["rp"] = "clear" /\ Goto("rp", "recv") /\ came' = FALSE /\ WriteNl("rp", Zero)
  /\ UNCHANGED <<beat, stall, job, part, sql, db, kernel, rtype, life, work, unsure>>

ReportComes ==
  /\ pc["rp"] = "recv" /\ work < Work /\ work' = work + 1
  /\ Goto("rp", "take") /\ came' = TRUE /\ WriteNl("rp", Report)
  /\ UNCHANGED <<beat, stall, job, part, sql, db, kernel, rtype, life, unsure>>

RecvFails ==
  /\ pc["rp"] = "recv" /\ work < Work /\ work' = work + 1 /\ Goto("rp", "take")
  /\ UNCHANGED <<beat, stall, job, part, shared, passing, life, clash, unsure>>

TakeType ==
  /\ pc["rp"] = "take" /\ Goto("rp", "copy") /\ rtype' = nl.type
  /\ UNCHANGED <<beat, stall, job, part, shared, came, life, work, clash, unsure>>

\* Data are copied and cw_recv_kmod_info_branch sends them to the AC if rtype says so.
PassOn ==
  /\ pc["rp"] = "copy" /\ Goto("rp", "clear")
  /\ UNCHANGED <<beat, stall, job, part, shared, passing, life, work, clash, unsure>>

-----------------------------------------------------------------------------
\* A second passes. The report thread is done with its report by then, the
\* heartbeat thread, if it is not asleep, within Stall.
Older(n) == IF n < Far THEN n + 1 ELSE n

Tick ==
  /\ pc["rp"] = "recv"
  /\ IF pc["hb"] = "sleep" THEN timer > 0 /\ timer' = timer - 1 /\ stall' = stall
                           ELSE stall < Stall /\ stall' = stall + 1 /\ timer' = timer
  /\ sinceGood' = Older(sinceGood) /\ quiet' = Older(quiet)
  /\ UNCHANGED <<answered, interval, flag>>
  /\ UNCHANGED <<pc, job, part, shared, passing, life, work, clash, unsure>>

\* A daemon that has died stays dead.
Gone ==
  /\ quiet' = Older(quiet) /\ UNCHANGED <<answered, sinceGood, timer, interval, flag>>
  /\ UNCHANGED <<stall, pc, job, part, shared, passing, life, work, clash, unsure>>

Step(t) ==
  PrintSql(t) \/ Exec(t) \/ Resolve(t) \/ CopyIps(t) \/ SetType(t) \/ SetData(t) \/ SendData(t)
Heartbeat == Beat \/ Test \/ Late \/ Clear \/ Nap
Receive ==
  RecvHeartBeat \/ (\E i \in Intervals : RecvInterval(i)) \/ (\E c \in Commands : RecvCommand(c))
Local == NetworkChanges \/ Select \/ Fetch
Reporter == RecvKmod \/ ReportComes \/ RecvFails \/ TakeType \/ PassOn

Next ==
  \/ /\ up
     /\ \/ \E t \in Writers : Step(t) \/ Fault(t)
        \/ Heartbeat \/ Receive \/ Local \/ Reporter \/ AcFails \/ AcReturns \/ Tick
  \/ ~up /\ Gone

\* Threads run and time passes. An AC that is there goes on answering.
Fairness ==
  /\ \A t \in Writers : WF_vars(up /\ Step(t))
  /\ WF_vars(up /\ Heartbeat) /\ WF_vars(up /\ (Select \/ Fetch))
  /\ WF_vars(up /\ (RecvKmod \/ TakeType \/ PassOn))
  /\ WF_vars(up /\ Tick) /\ WF_vars(up /\ RecvHeartBeat)

Spec == Init /\ [][Next]_vars
FairSpec == Spec /\ Fairness

-----------------------------------------------------------------------------
\* Types, and where each thread can be.
HbPlaces == {"sleep", "test", "late", "print", "exec", "type", "data", "send", "clear", "nap"}
RxPlaces == {"idle", "wipe", "wiped", "print", "exec", "resolve", "ips", "type", "data", "send"}
LcPlaces == {"idle", "type", "data", "send", "ask", "fetch", "resolve", "ips"}
RpPlaces == {"clear", "recv", "take", "copy"}

TypeOK ==
  /\ answered \in BOOLEAN /\ flag \in {"on", "off"} /\ interval \in Intervals
  /\ sinceGood \in 0 .. Far /\ quiet \in 0 .. Far /\ stall \in 0 .. Stall /\ timer \in Nat
  /\ pc \in [Threads -> HbPlaces \cup RxPlaces \cup LcPlaces \cup RpPlaces]
  /\ pc["hb"] \in HbPlaces /\ pc["rx"] \in RxPlaces
  /\ pc["lc"] \in LcPlaces /\ pc["rp"] \in RpPlaces
  /\ job \in [Writers -> Cmds] /\ part \in {"bare", "portal", "white"}
  /\ sql \in [op : {"set", "read"}, key : Keys, val : Anything]
  /\ nl \in [type : MsgTypes, data : Anything] /\ rtype \in MsgTypes
  /\ store \in [Keys -> Anything] /\ (\A k \in Keys : store[k] \in Values[k])
  /\ kernel \in [Keys -> Anything] /\ framed \in BOOLEAN /\ came \in BOOLEAN
  /\ up \in BOOLEAN /\ acUp \in BOOLEAN /\ work \in 0 .. Work
  /\ clash \in BOOLEAN /\ unsure \subseteq Keys

\* The heartbeat thread takes the portal for lost only if the AC has been silent for
\* three intervals, but for the time the thread itself may take; it may overlook no
\* answer but one that came while it was making up its mind.
TimeoutNeedsSilence ==
  [][flag = "on" /\ flag' = "off" =>
       quiet <= stall \/ quiet + Stall > 3 * interval + stall]_vars

\* The longest interval in use, and that the AC never sends SET_ON.
Longest == CHOOSE i \in Intervals : \A j \in Intervals : j <= i
NoSetOn == Cmd("switch", "on") \notin Commands

\* The other way round, a portal does not outlive its AC: while it is on and the daemon
\* is there, the AC has answered within five of the longest intervals, a second for each
\* of two rounds, and three times what the thread may take: the answer waits one round
\* for the thread to see it, three intervals pass, and the thread looks one round too
\* late. Not so if the AC switched it on (NoSetOn), or two threads have been in each
\* other's way.
PortalGivenUpInTime ==
  clash \/ ~up \/ kernel["switch"] = "off" \/ quiet <= 5 * Longest + 2 + 3 * Stall

\* The kernel runs what is stored, unless the key was never set, its names did not
\* resolve or it was read otherwise than it was stored (unsure), a thread is at work on
\* it, or two threads have filled one buffer at the same time or worked on one key at
\* the same time.
StoredIsActive ==
  \A k \in Keys : clash \/ k \in unsure \/ (\E t \in Writers : On(t, k))
                  \/ kernel[k] = store[k]

\* The report thread passes on to the AC every report of the kernel, whole, and none
\* that has not come, although failures of recvmsg go unnoticed; unless two threads
\* have been in each other's way. A type other than Report.type is not passed on.
ReportsAreWhole ==
  pc["rp"] = "copy" /\ (came \/ rtype = Report.type) =>
    clash \/ (came /\ rtype = Report.type /\ nl.data = Report.data)

\* An AP whose AC stays silent ends with its portal off, unless the daemon dies.
PortalClosesWhenSilent == []up /\ <>[]~acUp => <>[](kernel["switch"] = "off")

\* An AP whose AC answers has its portal on again and again, unless the daemon dies.
PortalOpensWhenAnswered == []up /\ <>[]acUp => []<>(kernel["switch"] = "on")
=============================================================================
