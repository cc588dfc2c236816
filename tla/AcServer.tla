------------------------------ MODULE AcServer ------------------------------
(***************************************************************************)
(* The AC server of cloud_wlan_ac/src in its memory modes: the receive     *)
(* loop, the detached worker thread started for each datagram, the ageing  *)
(* thread, the service mode they read without a lock, and the hash table   *)
(* of AP nodes they share, one mutex per bucket.                           *)
(*                                                                         *)
(* What is kept: every step at which two of these threads can interleave.  *)
(* The receive buffer and the client address live on main's stack and are  *)
(* overwritten by the next recvfrom while a worker may still be copying    *)
(* them; a worker reads the mode twice; it looks a node up and uses it in  *)
(* two steps; main empties the table without taking any mutex.             *)
(*                                                                         *)
(* What is abstracted: time is "is this node overdue", a MAC, a user, a    *)
(* command and a client are values, and a payload read under the layout of *)
(* another message type yields JunkMac, JunkUser or NoCmd.                 *)
(***************************************************************************)
EXTENDS Naturals, Sequences

CONSTANTS
  Workers,       \* threads that can be alive at once (pthread_create limit)
  Ager,          \* the ageing thread
  Nodes,         \* heap cells a cwlan_ap_node_t can occupy
  None,          \* no node, no owner
  Macs, JunkMac, \* AP addresses; what another message's bytes read as
  Users, JunkUser,
  Cmds, NoCmd,   \* opaque command bodies of WEB_SET_AP_CONFIG
  Clients,       \* source addresses of datagrams (APs and the web)
  HashLen,       \* CWLAN_AP_INFO_HASH_LEN
  Sections,      \* CWLAN_AP_INFO_HASH_LEN_SECTION
  Bucket,        \* get_hash_key(mac, CWLAN_AP_INFO_HASH_LEN - 1)
  InitModes,     \* the ac_service_mode a configuration file may set
  Msgs,          \* the datagrams that can arrive
  MaxRecv,       \* bound: how many of them do
  FrameSurvives  \* do the two words of a dead pthread_para stay intact?

Modes == {"DB", "ADMIN", "OPEN"}
SpawnKinds == {"HB", "USER", "SET", "GET", "ADD", "DEL"}
SwitchKinds == {"TO_OPEN", "TO_ADMIN"}
Kinds == SpawnKinds \cup SwitchKinds
Status == {"ON_LINE", "OFF_LINE"}
AllMacs == Macs \cup {JunkMac}
AllUsers == Users \cup {JunkUser}
AllCmds == Cmds \cup {NoCmd}
Buckets == 0 .. HashLen - 1
Threads == Workers \cup {Ager}

\* A user report: online_user_info_t without its clock and address.
Report == [mac: AllMacs, user: AllUsers, down: BOOLEAN]
JunkReport == [mac |-> JunkMac, user |-> JunkUser, down |-> FALSE]

\* A datagram on the wire. Fields its kind does not use are don't-cares.
Datagram == [kind: Kinds, from: Clients, mac: Macs, user: Users,
             down: BOOLEAN, cmd: Cmds]

\* main's buf, read in its three layouts: a MAC prefix (HB, SET, GET, ADD,
\* DEL), a user report, and the command that follows the MAC of a SET.
Buffer == [kind: Kinds, pre: AllMacs, rep: Report, cmd: AllCmds]

ReplyTypes == {"HEART_BEAT", "SET_ON", "CMD", "AP_INFO", "RES_OK", "RES_FAIL"}
Reply == [to: Clients, type: ReplyTypes, cmd: AllCmds, users: SUBSET AllUsers]

ASSUME ConstantsOK ==
  /\ HashLen \in Nat /\ HashLen >= 2
  /\ Sections \in Nat /\ 1 <= Sections /\ Sections <= HashLen
  /\ Bucket \in [AllMacs -> 0 .. HashLen - 2]
  /\ InitModes \subseteq Modes
  /\ Msgs \subseteq Datagram
  /\ MaxRecv \in Nat
  /\ FrameSurvives \in BOOLEAN
  /\ Ager \notin Workers /\ None \notin Threads /\ None \notin Nodes
  /\ NoCmd \notin Cmds /\ Clients # {}

VARIABLES
  up,        \* FALSE once a thread has faulted: the handler exits the process
  mode,      \* g_ac_service_mode
  table,     \* is g_ap_info_hash allocated (otherwise the MySQL connection is)
  mpc,       \* main: "recv", "branch" (in cw_recv_info_branch) or "wipe"
  buf,       \* main's buf
  src,       \* main's client_addr
  wipe,      \* bucket cw_web_del_all_ap_info_list_node is at
  nrecv,     \* datagrams received so far (bounded by MaxRecv)
  live,      \* cells that hold a node linked into the table
  home,      \* the bucket a cell was linked into
  apmac,     \* ap_info.apmac of a cell
  status,    \* online_status of a cell
  users,     \* user_hlist of a cell
  cmds,      \* cmd_hlist of a cell, head first
  overdue,   \* cells whose update_timer is more than 9 s old
  mutex,     \* owner of each bucket's mutex
  pc,        \* where each worker is
  kind,      \* which dispose function it runs
  peer,      \* its copy of the client address
  arg,       \* its copy of the payload
  hnd,       \* the mode it picked its handler for
  bkt,       \* its hash_key
  tgt,       \* the node it found
  res,       \* buff.type of its reply
  apc,       \* ageing thread: "mode1", "mode2", "lock", "scan" or "db"
  akey,      \* its section key
  abkt,      \* the bucket it is at
  amode,     \* the mode it picked this pass's handler for
  due,       \* cells overdue by the current_timer it took when the pass began
  out        \* datagrams sent by the latest step, in order

mainVars == <<mpc, buf, src, wipe, nrecv>>
nodeVars == <<live, home, apmac, status, users, cmds, overdue, due>>
workVars == <<pc, kind, peer, arg, hnd, bkt, tgt, res>>
agerVars == <<apc, akey, abkt, amode>>
vars == <<up, mode, table, mainVars, nodeVars, mutex, workVars, agerVars, out>>

-----------------------------------------------------------------------------
(* Initial state: main after cw_ac_com_init, which allocates the table for *)
(* a memory mode or opens the database for DB mode, and the ageing thread. *)

Idle == CHOOSE c \in Clients : TRUE

Init ==
  /\ up = TRUE /\ mode \in InitModes /\ table = (mode # "DB")
  /\ mpc = "recv" /\ src = Idle /\ wipe = 0 /\ nrecv = 0
  /\ buf = [kind |-> "HB", pre |-> JunkMac, rep |-> JunkReport, cmd |-> NoCmd]
  /\ live = {} /\ overdue = {} /\ due = {}
  /\ home = [n \in Nodes |-> 0]
  /\ apmac = [n \in Nodes |-> JunkMac]
  /\ status = [n \in Nodes |-> "OFF_LINE"]
  /\ users = [n \in Nodes |-> {}]
  /\ cmds = [n \in Nodes |-> <<>>]
  /\ mutex = [b \in Buckets |-> None]
  /\ pc = [w \in Workers |-> "idle"]
  /\ kind = [w \in Workers |-> "HB"]
  /\ peer = [w \in Workers |-> Idle]
  /\ arg = [w \in Workers |-> JunkReport]
  /\ hnd = [w \in Workers |-> "DB"]
  /\ bkt = [w \in Workers |-> 0]
  /\ tgt = [w \in Workers |-> None]
  /\ res = [w \in Workers |-> "RES_OK"]
  /\ apc = "mode1" /\ akey = 0 /\ abkt = 0 /\ amode = "DB"
  /\ out = <<>>

-----------------------------------------------------------------------------
(* Small ideas the actions share.                                          *)

Tell(c, type) == [to |-> c, type |-> type, cmd |-> NoCmd, users |-> {}]
Crash == up' = FALSE
Goto(w, l) == pc' = [pc EXCEPT ![w] = l]

\* Two of a switch statement's views of one buffer: what a datagram leaves in
\* buf. recvfrom overwrites only as many bytes as arrive, and buf is never
\* cleared: a GET, ADD or DEL rewrites the MAC prefix and leaves the command
\* behind it, a switch request has no payload and leaves everything.
Overlay(m) ==
  [kind |-> m.kind,
   pre  |-> CASE m.kind = "USER" -> JunkMac
              [] m.kind \in SwitchKinds -> buf.pre
              [] OTHER -> m.mac,
   rep  |-> CASE m.kind = "USER" ->
                   [mac |-> m.mac, user |-> m.user, down |-> m.down]
              [] m.kind \in SwitchKinds -> buf.rep
              [] OTHER -> JunkReport,
   cmd  |-> CASE m.kind = "SET" -> m.cmd
              [] m.kind \in {"HB", "USER"} -> NoCmd
              [] OTHER -> buf.cmd]

\* The nodes of the list of bucket b.
Chain(b) == {n \in live : home[n] = b}

\* A new node in cell n: cell contents, empty lists, linked into the table.
Link(n, m, st, late) ==
  /\ live' = live \cup {n}
  /\ home' = [home EXCEPT ![n] = Bucket[m]]
  /\ apmac' = [apmac EXCEPT ![n] = m]
  /\ status' = [status EXCEPT ![n] = st]
  /\ users' = [users EXCEPT ![n] = {}]
  /\ cmds' = [cmds EXCEPT ![n] = <<>>]
  /\ overdue' = IF late THEN overdue \cup {n} ELSE overdue \ {n}
  /\ due' = IF late THEN due \cup {n} ELSE due \ {n}

-----------------------------------------------------------------------------
(* The main thread.                                                        *)

\* recvfrom returns a datagram. No other thread is waited for: the workers of
\* earlier datagrams may not have copied buf and client_addr yet.
Recv ==
  /\ up /\ mpc = "recv" /\ nrecv < MaxRecv
  /\ \E m \in Msgs : buf' = Overlay(m) /\ src' = m.from
  /\ mpc' = "branch" /\ nrecv' = nrecv + 1 /\ out' = <<>>
  /\ UNCHANGED <<up, mode, table, wipe, nodeVars, mutex, workVars, agerVars>>

\* The worker kinds: pthread_create with pointers to main's stack, or, when it
\* fails, nothing but a log line.
Spawn ==
  /\ up /\ mpc = "branch" /\ buf.kind \in SpawnKinds
  /\ \/ \E w \in Workers :
          /\ pc[w] = "idle"
          /\ Goto(w, "addr") /\ kind' = [kind EXCEPT ![w] = buf.kind]
     \/ UNCHANGED <<pc, kind>>
  /\ mpc' = "recv" /\ out' = <<>>
  /\ UNCHANGED <<up, mode, table, buf, src, wipe, nrecv, nodeVars, mutex,
                 peer, arg, hnd, bkt, tgt, res, agerVars>>

\* cw_ac_auth_switch_to_open: keeps every node.
SwitchToOpen ==
  /\ up /\ mpc = "branch" /\ buf.kind = "TO_OPEN"
  /\ mode' = "OPEN" /\ mpc' = "recv"
  /\ out' = IF mode = "OPEN" THEN <<>> ELSE <<Tell(src, "RES_OK")>>
  /\ UNCHANGED <<up, table, buf, src, wipe, nrecv, nodeVars, mutex, workVars, agerVars>>

\* cw_ac_auth_switch_to_admin: no reply at all if the mode is already ADMIN,
\* otherwise the new mode first and then the walk over all buckets.
SwitchToAdmin ==
  /\ up /\ mpc = "branch" /\ buf.kind = "TO_ADMIN"
  /\ mode' = "ADMIN" /\ wipe' = 0 /\ out' = <<>>
  /\ mpc' = IF mode = "ADMIN" THEN "recv" ELSE "wipe"
  /\ UNCHANGED <<up, table, buf, src, nrecv, nodeVars, mutex, workVars, agerVars>>

\* One bucket of cw_web_del_all_ap_info_list_node, without its mutex. The list
\* heads are at NULL when there is no table; freeing a list another thread
\* walks or links into is a data race, whose outcomes include a fault.
WipeBucket ==
  /\ up /\ mpc = "wipe"
  /\ \/ /\ table
        /\ live' = live \ Chain(wipe)
        /\ wipe' = (wipe + 1) % HashLen
        /\ IF wipe + 1 = HashLen
           THEN mpc' = "recv" /\ out' = <<Tell(src, "RES_OK")>>
           ELSE mpc' = mpc /\ out' = <<>>
        /\ up' = up
     \/ /\ ~table \/ mutex[wipe] # None
        /\ Crash /\ out' = <<>> /\ UNCHANGED <<live, wipe, mpc>>
  /\ UNCHANGED <<mode, table, buf, src, nrecv, home, apmac, status, users, cmds,
                 overdue, due, mutex, workVars, agerVars>>

Main == Recv \/ Spawn \/ SwitchToOpen \/ SwitchToAdmin \/ WipeBucket

-----------------------------------------------------------------------------
(* A worker: copy the arguments, pick the handler, lock, find, act, answer. *)

\* The thread returns. Its locals die with it.
Return(w) ==
  /\ Goto(w, "idle")
  /\ kind' = [kind EXCEPT ![w] = "HB"] /\ peer' = [peer EXCEPT ![w] = Idle]
  /\ arg' = [arg EXCEPT ![w] = JunkReport] /\ hnd' = [hnd EXCEPT ![w] = "DB"]
  /\ bkt' = [bkt EXCEPT ![w] = 0] /\ tgt' = [tgt EXCEPT ![w] = None]
  /\ res' = [res EXCEPT ![w] = "RES_OK"]

\* memcpy of *client_info. A SET worker then keeps a pointer into buf instead
\* of copying the payload.
CopyAddr(w) ==
  /\ up /\ pc[w] = "addr"
  /\ peer' = [peer EXCEPT ![w] = src]
  /\ Goto(w, IF kind[w] = "SET" THEN "mode1" ELSE "data")
  /\ out' = <<>>
  /\ UNCHANGED <<up, mode, table, mainVars, nodeVars, mutex,
                 kind, arg, hnd, bkt, tgt, res, agerVars>>

\* memcpy of the payload, under the layout of this worker's kind. ADD and DEL
\* have one handler and do not look at the mode.
CopyData(w) ==
  /\ up /\ pc[w] = "data"
  /\ LET r == IF kind[w] = "USER" THEN buf.rep
              ELSE [JunkReport EXCEPT !.mac = buf.pre]
     IN /\ arg' = [arg EXCEPT ![w] = r]
        /\ bkt' = [bkt EXCEPT ![w] = Bucket[r.mac]]
  /\ IF kind[w] \in {"ADD", "DEL"}
     THEN Goto(w, "lock") /\ hnd' = [hnd EXCEPT ![w] = "ADMIN"]
     ELSE Goto(w, "mode1") /\ hnd' = hnd
  /\ out' = <<>>
  /\ UNCHANGED <<up, mode, table, mainVars, nodeVars, mutex,
                 kind, peer, tgt, res, agerVars>>

\* pthread_para is on the stack of a cw_recv_info_branch that has returned:
\* unless its two words survive, the copies go through wild pointers.
DeadFrame(w) ==
  /\ up /\ pc[w] \in {"addr", "data"} /\ ~FrameSurvives
  /\ Crash /\ out' = <<>>
  /\ UNCHANGED <<mode, table, mainVars, nodeVars, mutex, workVars, agerVars>>

\* First read of g_ac_service_mode.
ReadMode1(w) ==
  /\ up /\ pc[w] = "mode1"
  /\ IF mode = "OPEN"
     THEN /\ hnd' = [hnd EXCEPT ![w] = "OPEN"]
          /\ Goto(w, IF kind[w] = "SET" THEN "key" ELSE "lock")
     ELSE /\ hnd' = hnd
          /\ Goto(w, "mode2")
  /\ out' = <<>>
  /\ UNCHANGED <<up, mode, table, mainVars, nodeVars, mutex,
                 kind, peer, arg, bkt, tgt, res, agerVars>>

\* Second read. Whatever is not ADMIN by now takes the database branch: empty
\* for HB, SET and GET, an INSERT for USER, which faults on the connection that
\* only a server configured for DB mode has opened.
ReadMode2(w) ==
  /\ up /\ pc[w] = "mode2" /\ out' = <<>>
  /\ \/ /\ mode = "ADMIN"
        /\ hnd' = [hnd EXCEPT ![w] = "ADMIN"]
        /\ Goto(w, IF kind[w] = "SET" THEN "key" ELSE "lock")
        /\ UNCHANGED <<up, kind, peer, arg, bkt, tgt, res>>
     \/ /\ mode # "ADMIN"
        /\ up' = (kind[w] = "USER" => ~table)
        /\ Return(w)
  /\ UNCHANGED <<mode, table, mainVars, nodeVars, mutex, agerVars>>

\* A SET worker hashes the MAC that is in buf now.
HashSetMac(w) ==
  /\ up /\ pc[w] = "key"
  /\ bkt' = [bkt EXCEPT ![w] = Bucket[buf.pre]]
  /\ Goto(w, "lock") /\ out' = <<>>
  /\ UNCHANGED <<up, mode, table, mainVars, nodeVars, mutex,
                 kind, peer, arg, hnd, tgt, res, agerVars>>

\* pthread_mutex_lock of a bucket can return.
CanEnterUnlocked(b) == TRUE  \* mutant: the lock call is missing
CanEnter(b) == mutex[b] = None

\* Lock the bucket; there is none to lock without a table.
Lock(w) ==
  /\ up /\ pc[w] = "lock" /\ out' = <<>>
  /\ IF table
     THEN /\ CanEnter(bkt[w])
          /\ mutex' = [mutex EXCEPT ![bkt[w]] = w]
          /\ Goto(w, "find") /\ up' = up
     ELSE Crash /\ UNCHANGED <<mutex, pc>>
  /\ UNCHANGED <<mode, table, mainVars, nodeVars, kind, peer, arg, hnd, bkt, tgt, res,
                 agerVars>>

\* The walk. A SET worker compares with the MAC that is in buf now. The ADMIN
\* handlers of SET and USER leave an off-line node alone.
Wanted(w) == IF kind[w] = "SET" THEN buf.pre ELSE arg[w].mac

MatchesButAdd(w, n) == kind[w] # "ADD" /\ apmac[n] = Wanted(w)  \* mutant: ADD does not look
Matches(w, n) == apmac[n] = Wanted(w)

UsableOffline(w, n) == TRUE  \* mutant: online_status is not looked at
Usable(w, n) ==
  (hnd[w] = "ADMIN" /\ kind[w] \in {"SET", "USER"}) => status[n] # "OFF_LINE"

Find(w) ==
  /\ up /\ pc[w] = "find"
  /\ LET hits == {n \in Chain(bkt[w]) : Matches(w, n)}
     IN \/ hits = {} /\ tgt' = tgt
        \/ \E n \in hits : tgt' = [tgt EXCEPT ![w] = IF Usable(w, n) THEN n ELSE None]
  /\ Goto(w, "act") /\ out' = <<>>
  /\ UNCHANGED <<up, mode, table, mainVars, nodeVars, mutex,
                 kind, peer, arg, hnd, bkt, res, agerVars>>

At(w, k) == up /\ pc[w] = "act" /\ kind[w] = k
Found(w) == tgt[w] \in live

\* The open-mode HB (new node) and USER handlers end in pthread_mutex_lock on
\* the mutex they hold: "relock" is a state no step leaves.
Leave(w, relock) == Goto(w, IF relock THEN "relock" ELSE "unlock")

\* A node main freed since it was found, through tgt or a list link: the access
\* faults, or hits the dead cell and changes nothing in the table.
UseFreed(w) ==
  /\ up /\ pc[w] = "act" /\ tgt[w] # None /\ ~Found(w)
  /\ \/ Crash /\ pc' = pc
     \/ up' = up /\ Leave(w, kind[w] = "USER" /\ hnd[w] = "OPEN")
  /\ out' = <<>>
  /\ UNCHANGED <<mode, table, mainVars, nodeVars, mutex, kind, peer, arg, hnd, bkt, tgt,
                 res, agerVars>>

\* cw_check_cmd_list: the queue is sent from its head and emptied.
CommandsButLast(w, n) ==  \* mutant: the tail of the list is freed unsent
  [i \in 1 .. Len(cmds[n]) - 1 |-> [Tell(peer[w], "CMD") EXCEPT !.cmd = cmds[n][i]]]
Commands(w, n) ==
  [i \in 1 .. Len(cmds[n]) |-> [Tell(peer[w], "CMD") EXCEPT !.cmd = cmds[n][i]]]

\* A heartbeat of a known AP: fresh, in ADMIN also on-line, answered, and sent
\* everything queued for it, to whatever address the worker copied.
Heartbeat(w) ==
  /\ At(w, "HB") /\ Found(w)
  /\ LET n == tgt[w]
         on == IF hnd[w] = "ADMIN" /\ status[n] = "OFF_LINE"
               THEN <<Tell(peer[w], "SET_ON")>> ELSE <<>>
     IN /\ apmac' = [apmac EXCEPT ![n] = arg[w].mac]
        /\ overdue' = overdue \ {n} /\ due' = due \ {n}
        /\ status' = IF hnd[w] = "ADMIN"
                     THEN [status EXCEPT ![n] = "ON_LINE"] ELSE status
        /\ cmds' = [cmds EXCEPT ![n] = <<>>]
        /\ out' = on \o <<Tell(peer[w], "HEART_BEAT")>> \o Commands(w, n)
  /\ Leave(w, FALSE)
  /\ UNCHANGED <<up, mode, table, mainVars, live, home, users, mutex,
                 kind, peer, arg, hnd, bkt, tgt, res, agerVars>>

\* A heartbeat of an unknown AP: nothing in ADMIN. In OPEN a node, if malloc
\* finds a cell, whose online_status is whatever the cell held.
NewAp(w) ==
  /\ At(w, "HB") /\ tgt[w] = None
  /\ \/ /\ hnd[w] = "OPEN"
        /\ \E n \in Nodes \ live, st \in Status : Link(n, arg[w].mac, st, FALSE)
     \/ UNCHANGED nodeVars
  /\ Leave(w, hnd[w] = "OPEN") /\ out' = <<>>
  /\ UNCHANGED <<up, mode, table, mainVars, mutex, kind, peer, arg, hnd, bkt, tgt, res,
                 agerVars>>

\* cw_check_user_list: other users unheard of for a minute are dropped; a known
\* user is removed by a down report and refreshed by any other; an unknown one
\* is added whatever its status, if malloc finds memory.
UserLists(old, u, down) ==
  LET self == IF u \notin old THEN {{u}, {}} ELSE IF down THEN {{}} ELSE {{u}}
  IN {stay \cup own : stay \in SUBSET (old \ {u}), own \in self}

UserReport(w) ==
  /\ At(w, "USER")
  /\ \/ tgt[w] = None /\ users' = users
     \/ /\ Found(w)
        /\ \E us \in UserLists(users[tgt[w]], arg[w].user, arg[w].down) :
             users' = [users EXCEPT ![tgt[w]] = us]
  /\ Leave(w, hnd[w] = "OPEN") /\ out' = <<>>
  /\ UNCHANGED <<up, mode, table, mainVars, live, home, apmac, status, cmds, overdue, due,
                 mutex, kind, peer, arg, hnd, bkt, tgt, res, agerVars>>

\* WEB_SET_AP_CONFIG: the command that is in buf now goes to the head of the
\* node's queue, unless malloc fails.
QueueCommand(w) ==
  /\ At(w, "SET")
  /\ \/ /\ Found(w)
        /\ cmds' = [cmds EXCEPT ![tgt[w]] = <<buf.cmd>> \o @]
     \/ tgt[w] \in live \cup {None} /\ cmds' = cmds
  /\ Leave(w, FALSE) /\ out' = <<>>
  /\ UNCHANGED <<up, mode, table, mainVars, live, home, apmac, status, users, overdue, due,
                 mutex, kind, peer, arg, hnd, bkt, tgt, res, agerVars>>

\* WEB_GET_AP_INFO: the AP's record and its users, then RES_OK.
SendInfo(w) ==
  /\ At(w, "GET")
  /\ \/ tgt[w] = None /\ out' = <<>>
     \/ /\ Found(w)
        /\ out' = << [Tell(peer[w], "AP_INFO") EXCEPT !.users = users[tgt[w]]],
                     Tell(peer[w], "RES_OK") >>
  /\ Leave(w, FALSE)
  /\ UNCHANGED <<up, mode, table, mainVars, nodeVars, mutex,
                 kind, peer, arg, hnd, bkt, tgt, res, agerVars>>

\* WEB_ADD_AP_NODE: an off-line node with update_timer 0, unless it exists.
AddNode(w) ==
  /\ At(w, "ADD")
  /\ \/ Found(w) /\ UNCHANGED <<nodeVars, res>>
     \/ /\ tgt[w] = None
        /\ \E n \in Nodes \ live : Link(n, arg[w].mac, "OFF_LINE", TRUE)
        /\ UNCHANGED res
     \/ /\ tgt[w] = None
        /\ UNCHANGED nodeVars /\ res' = [res EXCEPT ![w] = "RES_FAIL"]
  /\ Leave(w, FALSE) /\ out' = <<>>
  /\ UNCHANGED <<up, mode, table, mainVars, mutex, kind, peer, arg, hnd, bkt, tgt, agerVars>>

\* WEB_DEL_AP_NODE: the node and its lists are freed, no word to the AP.
DelNode(w) ==
  /\ At(w, "DEL")
  /\ \/ tgt[w] = None /\ live' = live
     \/ Found(w) /\ live' = live \ {tgt[w]}
  /\ Leave(w, FALSE) /\ out' = <<>>
  /\ UNCHANGED <<up, mode, table, mainVars, home, apmac, status, users, cmds, overdue, due,
                 mutex, kind, peer, arg, hnd, bkt, tgt, res, agerVars>>

\* Unlock, then the web's answer: ADD and DEL, and the ADMIN handlers of SET
\* and GET, which set buff.type to RES_OK whatever they found.
Answers(w) ==
  \/ kind[w] \in {"ADD", "DEL"}
  \/ kind[w] \in {"SET", "GET"} /\ hnd[w] = "ADMIN"

ReleaseRelock(w) ==  \* mutant: the open mode's second lock, in every HB handler
  mutex' = IF kind[w] = "HB" THEN mutex ELSE [mutex EXCEPT ![bkt[w]] = None]
Release(w) == mutex' = [mutex EXCEPT ![bkt[w]] = None]

Unlock(w) ==
  /\ up /\ pc[w] = "unlock" /\ Release(w)
  /\ out' = IF Answers(w) THEN <<Tell(peer[w], res[w])>> ELSE <<>>
  /\ Return(w)
  /\ UNCHANGED <<up, mode, table, mainVars, nodeVars, agerVars>>

Act(w) == \/ UseFreed(w) \/ Heartbeat(w) \/ NewAp(w) \/ UserReport(w)
          \/ QueueCommand(w) \/ SendInfo(w) \/ AddNode(w) \/ DelNode(w)

Prepare(w) == CopyAddr(w) \/ CopyData(w) \/ ReadMode1(w) \/ ReadMode2(w) \/ HashSetMac(w)

Worker(w) == Prepare(w) \/ Lock(w) \/ Find(w) \/ Act(w) \/ Unlock(w)

-----------------------------------------------------------------------------
(* The ageing thread.                                                      *)

Step == HashLen \div Sections
FirstBucketSkip == (akey + 1) * Step  \* mutant: sections counted from one
FirstBucket == akey * Step
NextSectionUnbounded == akey + 1  \* mutant: key % CWLAN_AP_INFO_HASH_LEN_SECTION is missing
NextSection == (akey + 1) % Sections

\* A pass over the table begins with the time. Its handler's loop condition,
\* hash_key < hash_key + step_length, is always true: pass akey runs from its
\* section to the end of the table.
StartPassOpen(m) ==  \* mutant: both modes call the OPEN handler
  /\ amode' = "OPEN" /\ due' = overdue
  /\ abkt' = FirstBucket /\ akey' = akey /\ apc' = "lock"
StartPass(m) ==
  /\ amode' = m /\ due' = overdue
  /\ abkt' = FirstBucket /\ akey' = akey /\ apc' = "lock"

\* First read of the mode, after the sleep.
AgeMode1 ==
  /\ up /\ apc = "mode1" /\ out' = <<>>
  /\ \/ mode = "OPEN" /\ StartPass("OPEN")
     \/ mode # "OPEN" /\ apc' = "mode2" /\ UNCHANGED <<amode, due, abkt, akey>>
  /\ UNCHANGED <<up, mode, table, mainVars, live, home, apmac, status, users, cmds, overdue,
                 mutex, workVars>>

\* The later reads. cw_admin_db_online_user_age_del never returns.
AgeMode2 ==
  /\ up /\ apc = "mode2" /\ out' = <<>>
  /\ \/ mode = "ADMIN" /\ StartPass("ADMIN")
     \/ mode = "DB" /\ apc' = "db" /\ UNCHANGED <<amode, due, abkt, akey>>
     \/ /\ mode = "OPEN"
        /\ apc' = "mode1" /\ akey' = NextSection /\ UNCHANGED <<amode, due, abkt>>
  /\ UNCHANGED <<up, mode, table, mainVars, live, home, apmac, status, users, cmds, overdue,
                 mutex, workVars>>

\* As for a worker, there may be no table: the server was started in DB mode and
\* switched before this thread first read the mode.
AgeLock ==
  /\ up /\ apc = "lock" /\ out' = <<>>
  /\ IF table
     THEN /\ CanEnter(abkt)
          /\ mutex' = [mutex EXCEPT ![abkt] = Ager]
          /\ apc' = "scan" /\ up' = up
     ELSE Crash /\ UNCHANGED <<mutex, apc>>
  /\ UNCHANGED <<mode, table, mainVars, nodeVars, workVars, akey, abkt, amode>>

LateAny == Chain(abkt)  \* mutant: the age is not compared
Late == Chain(abkt) \cap due

\* One bucket: its overdue nodes are freed in OPEN, and in ADMIN set off-line,
\* with update_timer 0 and empty lists. Then unlock and go on.
AgeBucket ==
  /\ up /\ apc = "scan"
  /\ IF amode = "OPEN"
     THEN live' = live \ Late /\ UNCHANGED <<status, users, cmds>>
     ELSE /\ status' = [n \in Nodes |-> IF n \in Late THEN "OFF_LINE" ELSE status[n]]
          /\ users' = [n \in Nodes |-> IF n \in Late THEN {} ELSE users[n]]
          /\ cmds' = [n \in Nodes |-> IF n \in Late THEN <<>> ELSE cmds[n]]
          /\ live' = live
  /\ mutex' = [mutex EXCEPT ![abkt] = None]
  /\ IF abkt + 1 < HashLen
     THEN apc' = "lock" /\ abkt' = abkt + 1 /\ akey' = akey
     ELSE apc' = "mode1" /\ abkt' = 0 /\ akey' = NextSection
  /\ out' = <<>>
  /\ UNCHANGED <<up, mode, table, mainVars, home, apmac, overdue, due, workVars, amode>>

Age == AgeMode1 \/ AgeMode2 \/ AgeLock \/ AgeBucket

\* Time: a node goes more than 9 seconds without a heartbeat.
Elapse ==
  /\ up /\ \E n \in live \ overdue : overdue' = overdue \cup {n}
  /\ out' = <<>>
  /\ UNCHANGED <<up, mode, table, mainVars, live, home, apmac, status, users, cmds, due,
                 mutex, workVars, agerVars>>

-----------------------------------------------------------------------------
Next == Main \/ Age \/ Elapse \/ \E w \in Workers : Worker(w) \/ DeadFrame(w)

Spec == Init /\ [][Next]_vars

\* Every thread that can run does. A worker that competes with the ageing
\* thread for a mutex gets it: that thread sleeps two seconds between passes.
Fairness ==
  /\ WF_vars(Spawn \/ SwitchToOpen \/ SwitchToAdmin \/ WipeBucket)
  /\ WF_vars(Age)
  /\ \A w \in Workers : WF_vars(Worker(w)) /\ SF_vars(Lock(w))

FairSpec == Spec /\ Fairness

-----------------------------------------------------------------------------
(* Properties.                                                             *)

Labels == {"idle", "addr", "data", "mode1", "mode2", "key", "lock", "find", "act",
           "unlock", "relock"}

MainTypes ==
  /\ up \in BOOLEAN /\ mode \in Modes /\ table \in BOOLEAN
  /\ mpc \in {"recv", "branch", "wipe"} /\ buf \in Buffer /\ src \in Clients
  /\ wipe \in Buckets /\ nrecv \in 0 .. MaxRecv

NodeTypes ==
  /\ live \subseteq Nodes /\ overdue \subseteq Nodes /\ due \subseteq Nodes
  /\ home \in [Nodes -> Buckets] /\ apmac \in [Nodes -> AllMacs]
  /\ status \in [Nodes -> Status] /\ users \in [Nodes -> SUBSET AllUsers]
  /\ cmds \in [Nodes -> Seq(AllCmds)]

WorkTypes ==
  /\ pc \in [Workers -> Labels]
  /\ kind \in [Workers -> SpawnKinds] /\ peer \in [Workers -> Clients]
  /\ arg \in [Workers -> Report] /\ hnd \in [Workers -> Modes]
  /\ bkt \in [Workers -> Buckets] /\ tgt \in [Workers -> Nodes \cup {None}]
  /\ res \in [Workers -> {"RES_OK", "RES_FAIL"}]

AgerTypes ==
  /\ apc \in {"mode1", "mode2", "lock", "scan", "db"}
  /\ akey \in 0 .. Sections - 1 /\ abkt \in Buckets /\ amode \in Modes

\* Every variable keeps its type.
TypeOK ==
  /\ MainTypes /\ NodeTypes /\ WorkTypes /\ AgerTypes
  /\ mutex \in [Buckets -> Threads \cup {None}]
  /\ out \in Seq(Reply)

InSection(w) == pc[w] \in {"find", "act", "unlock", "relock"}

\* A mutex is held by exactly the thread that is between its lock and unlock of
\* that bucket: no two threads are in one bucket's list at a time, and no path
\* through a handler leaves a bucket locked behind it.
LocksMatchSections ==
  \A b \in Buckets :
    /\ \A w \in Workers : mutex[b] = w <=> InSection(w) /\ bkt[w] = b
    /\ mutex[b] = Ager <=> apc = "scan" /\ abkt = b

\* The server starts in ADMIN mode and nobody asks for OPEN.
AdminOnly ==
  InitModes = {"ADMIN"} /\ \A m \in Msgs : m.kind # "TO_OPEN"

\* The switch to ADMIN is what empties the table without the mutexes. It cannot
\* happen when nobody asks for it, or when the server is in ADMIN all along.
NeverWiped == AdminOnly \/ \A m \in Msgs : m.kind # "TO_ADMIN"

\* Between the lookup and the use of a node nobody frees or moves it, so no
\* handler touches a freed node.
FoundNodesStay ==
  \A w \in Workers : pc[w] = "act" /\ tgt[w] # None =>
    tgt[w] \in live /\ home[tgt[w]] = bkt[w]

\* The table has at most one node for a MAC: looking it up and adding it are one
\* critical section, although they are two steps of a thread.
UniqueMac ==
  \A m, n \in live : apmac[m] = apmac[n] => m = n

\* An AP that is off-line has no users and no queued commands: a command or user
\* report accepted before the AP vanished never reaches it when it comes back.
OfflineIsEmpty ==
  \A n \in live : status[n] = "OFF_LINE" => users[n] = {} /\ cmds[n] = <<>>

\* The ageing thread takes the time once per pass. A node whose heartbeat comes
\* while the pass is under way is neither freed nor set off-line by it.
FreshNodesSurviveAgeing ==
  [][Age => \A n \in live \ overdue : n \in live' /\ status'[n] = status[n]]_vars

\* In ADMIN mode the web decides which APs exist: a node leaves the table only
\* through a WEB_DEL_AP_NODE for its own MAC, whatever the ageing thread does.
RegisteredApsStay ==
  [][\A n \in live \ live' :
       \E w \in Workers : kind[w] = "DEL" /\ pc[w] = "act" /\ arg[w].mac = apmac[n]]_vars

\* A queued command was meant for the AP it is queued for.
Meant(m, c) == \E g \in Msgs : g.kind = "SET" /\ g.mac = m /\ g.cmd = c

CommandsAreForTheirAp ==
  \A n \in live : \A i \in 1 .. Len(cmds[n]) : Meant(apmac[n], cmds[n][i])

\* What a SET worker takes for granted: until it returns, main's buffer keeps the
\* MAC and the command it was started for. Nothing in the code sees to it.
BytesKept ==
  \A w \in Workers : pc[w] # "idle" /\ kind[w] = "SET" =>
    buf'.pre = buf.pre /\ buf'.cmd = buf.cmd

BufferIsKept == [][BytesKept]_vars

\* Every worker returns, unless the process dies.
WorkersReturn ==
  \A w \in Workers : pc[w] # "idle" ~> pc[w] = "idle" \/ ~up

\* An AP that stays silent is noticed: its node goes off-line or away.
SilentApIsNoticed ==
  \A n \in Nodes :
    n \in live \cap overdue /\ status[n] = "ON_LINE"
      ~> n \notin live \cap overdue \/ status[n] = "OFF_LINE" \/ ~up
=============================================================================
