------------------------------ MODULE PacketHook ------------------------------
(***************************************************************************)
(* The kernel module of an AP from insmod to rmmod: the packet hooks of    *)
(* kmod/src/cloud_wlan_main.c on several CPUs, the netlink messages of     *)
(* cloud_wlan_nl_k_if.c that change what the hooks read, in the context of *)
(* the user threads that send them, the ageing timer, and module init and  *)
(* exit, which bring all of that up and down one piece after the other.    *)
(*                                                                         *)
(* Nothing here takes the lock g_rwlock: a hook reads one slot of a list   *)
(* at a time while a message is copied into the list word by word, in any  *)
(* order, so each of the two is a step. Sessions are those of FlowSession, *)
(* cut down to their status.                                               *)
(***************************************************************************)
EXTENDS HttpReply

CONSTANTS
  Cpus,        \* CPUs that run the hooks
  Senders,     \* user threads that send netlink messages
  Stations,    \* users: a MAC and an address
  Addrs,       \* addresses of servers, in the order of the network
  Swapped,     \* the same words with their bytes turned round
  NoAddr,      \* the word 0
  Slots,       \* CW_LOCATION_URL_IP_MAX
  Size,        \* CW_WHITE_LIST_MAX
  NoUrl, DefaultUrl,  \* an empty Location, and CW_LOCATION_URL_DATA
  Urls,        \* the URLs of portals
  LongUrls,    \* those with which a page and its headers may exceed packet[512]
  Portals,     \* the portal configurations the daemon may send
  Whites,      \* the white lists it may send
  InPackets, OutPackets,  \* what the two hooks are given
  NoPacket

Lists == {"portal", "white"}
\* The words of a list: of the portal Location in 0 and destIp behind it, of the
\* white list number in 0 and list behind it.
Places(l) == IF l = "portal" THEN 0 .. Slots ELSE 0 .. Size
Zeroed(l) == [i \in Places(l) |->
  IF i > 0 THEN NoAddr ELSE IF l = "portal" THEN NoUrl ELSE 0]
Default == [Zeroed("portal") EXCEPT ![0] = DefaultUrl]
Versions(l) == {Zeroed(l)} \cup (IF l = "portal" THEN Portals \cup {Default} ELSE Whites)
\* The words that are addresses of a list.
Filled(l, f) == IF l = "portal" THEN 1 .. Slots ELSE 1 .. f[0]

Values == Nat \cup Addrs \cup Urls \cup {NoAddr, NoUrl, DefaultUrl}
Ports == Nat
Dev == {"br-lan", "other"}
Proto == {"tcp", "udp", "icmp"}

ASSUME HookConstantsOK ==
  /\ Swapped \in [Addrs -> Addrs] /\ NoAddr \notin Addrs
  /\ Slots \in Nat \ {0} /\ Size \in Nat \ {0}
  /\ NoUrl \notin Urls /\ LongUrls \subseteq Urls \cup {DefaultUrl}
  /\ Portals \subseteq [0 .. Slots -> Values] /\ Whites \subseteq [0 .. Size -> Values]
  /\ \A f \in Portals : f[0] \in Urls
  /\ \A f \in Whites :
       f[0] \in 0 .. Size /\ \A i \in 1 .. Size : i > f[0] => f[i] = NoAddr
  /\ NoPacket \notin InPackets \cup OutPackets
  /\ InPackets \subseteq [dev : Dev, proto : Proto, port : Ports, sta : Stations, dst : Addrs,
                          flags : SUBSET Flags, seq : Seqs, ack : Seqs, len : Nat,
                          get : BOOLEAN, head : Heads]
  /\ OutPackets \subseteq [port : Ports, src : Addrs, syn : BOOLEAN, sta : Stations, head : Heads]

VARIABLES
  mpc,      \* how far module init or exit has come
  sk,       \* whether the netlink socket is there
  hash,     \* g_cw_fs_hash: "null", "ready" or "freed"
  timer,    \* g_flow_ageing_timer: "off", "armed" or "running"
  switch, klog,  \* g_cloud_wlan_switch, g_cloud_wlan_klog_switch
  mem,      \* g_portal_config and g_cloud_wlan_white_list
  handler,  \* the memcpy each sender's message is in
  session,  \* status of each user's session
  hook,     \* where the hook of each CPU is
  fault,    \* what brought the kernel down, or "none"
  \* History, which no action reads:
  now,      \* the versions of each list that words in memory may be of
  seen      \* those that were so during the hook each CPU runs

life == <<mpc, sk, hash, timer>>
conf == <<switch, klog, mem, handler, now>>
run == <<hook, seen>>
hookVars == <<life, conf, session, run, fault>>

NoJob == [list |-> "none", new |-> Zeroed("white"), left |-> {}, alone |-> TRUE]
Free == [pc |-> "free", pkt |-> NoPacket, idx |-> 0]
Unseen == [l \in Lists |-> {}]

\* insmod: the data of the module are fresh.
Fresh ==
  /\ hash' = "null" /\ timer' = "off" /\ switch' = FALSE /\ klog' = FALSE
  /\ mem' = [l \in Lists |-> Zeroed(l)] /\ now' = [l \in Lists |-> {Zeroed(l)}]
  /\ session' = [u \in Stations |-> "NONE"]

HookInit ==
  /\ mpc = "out" /\ sk = FALSE /\ hash = "null" /\ timer = "off"
  /\ switch = FALSE /\ klog = FALSE
  /\ mem = [l \in Lists |-> Zeroed(l)] /\ now = [l \in Lists |-> {Zeroed(l)}]
  /\ handler = [s \in Senders |-> NoJob]
  /\ session = [u \in Stations |-> "NONE"]
  /\ hook = [c \in Cpus |-> Free] /\ seen = [c \in Cpus |-> Unseen] /\ fault = "none"

Breaks(f) == fault' = f
\* Which CPUs are in which hook.
InPcs == {"portal", "white", "match", "reply"}
OutPcs == {"scan", "parse", "up"}
InBusy == \E c \in Cpus : hook[c].pc \in InPcs
OutBusy == \E c \in Cpus : hook[c].pc \in OutPcs

-----------------------------------------------------------------------------
(* Module init and exit.                                                   *)

\* cloud_wlan_nl_init. That there may be no socket is not acted upon.
NlInit ==
  /\ mpc = "out" /\ timer = "off" /\ mpc' = "nl" /\ sk' \in BOOLEAN /\ Fresh
  /\ UNCHANGED <<handler, run, fault>>

\* flow_sesison_init: no memory leaves the hash NULL and the timer off.
SessionInit ==
  /\ mpc = "nl" /\ mpc' = "fs"
  /\ \/ hash' = "ready" /\ timer' = "armed"
     \/ UNCHANGED <<hash, timer>>
  /\ UNCHANGED <<sk, conf, session, run, fault>>

\* reply_http_redirector_init, with whatever an early message has left there.
RedirectorInit ==
  /\ mpc = "fs" /\ mpc' = "rd"
  /\ mem' = [mem EXCEPT !["portal"] = [@ EXCEPT ![0] = DefaultUrl, ![1] = NoAddr]]
  /\ now' = [now EXCEPT !["portal"] =
       IF @ = {Zeroed("portal")} THEN {Default} ELSE @ \cup {Default}]
  /\ handler' = [s \in Senders |->
       [handler[s] EXCEPT !.alone = @ /\ handler[s].list # "portal"]]
  /\ UNCHANGED <<sk, hash, timer, switch, klog, session, run, fault>>

Advance(from, to) == mpc = from /\ mpc' = to
\* kmod_hook_init.
HookIn == Advance("rd", "in") /\ UNCHANGED <<sk, hash, timer, conf, session, run, fault>>
HookOut == Advance("in", "run") /\ UNCHANGED <<sk, hash, timer, conf, session, run, fault>>

\* cloud_module_exit. rmmod is refused while a user has a netlink socket open, and
\* opens are refused after it, so no message is being handled from here on.
SwitchOff ==
  /\ Advance("run", "off") /\ \A s \in Senders : handler[s] = NoJob
  /\ switch' = FALSE
  /\ UNCHANGED <<sk, hash, timer, klog, mem, handler, now, session, run, fault>>

\* kmod_hook_exit: nf_unregister_hook ends when no CPU is in the hook any more.
UnhookIn == Advance("off", "unin") /\ UNCHANGED <<sk, hash, timer, conf, session, run, fault>>
UnhookOutAtOnce ==  \* mutant: nobody waits for the CPUs in the hook
  Advance("unin", "unout") /\ UNCHANGED <<sk, hash, timer, conf, session, run, fault>>
UnhookOut ==
  /\ Advance("unin", "unout") /\ ~InBusy
  /\ UNCHANGED <<sk, hash, timer, conf, session, run, fault>>

\* cloud_wlan_nl_exit.
NlExit ==
  /\ Advance("unout", "unnl") /\ ~OutBusy
  /\ sk' = FALSE /\ UNCHANGED <<hash, timer, conf, session, run, fault>>

\* flow_session_exit: the sessions, the hash, and only then the timer, which del_timer
\* does not wait for.
DelAll ==
  /\ Advance("unnl", "deleted")
  /\ session' = [u \in Stations |-> "NONE"]
  /\ IF hash = "ready" THEN UNCHANGED fault ELSE Breaks("hash")
  /\ UNCHANGED <<sk, hash, timer, conf, run>>
FreeHash ==
  /\ Advance("deleted", "freed") /\ hash' = "freed"
  /\ UNCHANGED <<sk, timer, conf, session, run, fault>>
DelTimer ==
  /\ Advance("freed", "out") /\ timer' = IF timer = "armed" THEN "off" ELSE timer
  /\ UNCHANGED <<sk, hash, conf, session, run, fault>>

-----------------------------------------------------------------------------
(* The ageing timer, flow_session_del_overtime.                            *)

TimerFires ==
  /\ timer = "armed" /\ timer' = "running"
  /\ UNCHANGED <<mpc, sk, hash, conf, session, run, fault>>

\* cloud_wlan_sendto_umod, for a session there is: the socket is not looked at.
SendsNowhere == ~sk /\ \E u \in Stations : session[u] # "NONE"

\* Sessions go DOWN or away; those that stay are reported. It breaks on a hash or a
\* socket that is gone, and once its own code is gone.
Walk ==
  /\ timer = "running"
  /\ IF mpc = "out" \/ hash # "ready" \/ SendsNowhere
     THEN Breaks("timer") /\ UNCHANGED session
     ELSE /\ session' \in [Stations -> {"NONE", "DOWN", "UP"}]
          /\ \A u \in Stations :
               \/ session'[u] \in {session[u], "NONE"}
               \/ session[u] = "UP" /\ session'[u] = "DOWN"
          /\ UNCHANGED fault
  /\ UNCHANGED <<life, conf, run>>

\* mod_timer.
Rearm ==
  /\ timer = "running"
  /\ IF mpc = "out" THEN Breaks("timer") /\ UNCHANGED timer
                    ELSE timer' = "armed" /\ UNCHANGED fault
  /\ UNCHANGED <<mpc, sk, hash, conf, session, run>>

-----------------------------------------------------------------------------
(* Netlink, cloud_wlan_nl_console_branch, run by the thread that sends.    *)

Listening == sk /\ mpc \in {"nl", "fs", "rd", "in", "run"}
Sends(s) == Listening /\ handler[s] = NoJob

SetSwitch(s, b) ==
  /\ Sends(s) /\ switch' = b
  /\ UNCHANGED <<life, klog, mem, handler, now, session, run, fault>>
SetKlog(s, b) ==
  /\ Sends(s) /\ klog' = b
  /\ UNCHANGED <<life, switch, mem, handler, now, session, run, fault>>

\* cloud_wlan_nl_cw_show_online_user locks the buckets, of which there may be none.
ShowOnlineUser(s) ==
  /\ Sends(s) /\ hash # "ready" /\ Breaks("hash")
  /\ UNCHANGED <<life, conf, session, run>>

\* cloud_wlan_nl_cw_update_white_list and _update_portal_url: memcpy begins.
Update(s, l, f) ==
  LET others == {t \in Senders : handler[t].list = l}
  IN /\ Sends(s)
     /\ handler' = [t \in Senders |->
          IF t = s THEN [list |-> l, new |-> f, left |-> Places(l), alone |-> others = {}]
          ELSE IF t \in others THEN [handler[t] EXCEPT !.alone = FALSE] ELSE handler[t]]
     /\ now' = [now EXCEPT ![l] = @ \cup {f}]
     /\ seen' = [c \in Cpus |-> IF hook[c].pc = "free" THEN seen[c]
                                ELSE [seen[c] EXCEPT ![l] = @ \cup {f}]]
     /\ UNCHANGED <<life, switch, klog, mem, session, hook, fault>>

\* One word of it; when it was the last, and no other message or init was copied into
\* the same list meanwhile, this is the version in memory.
CopiedButLast(j, i) == j.left \ {i, 1}  \* mutant: the first address is not copied
Copied(j, i) == j.left \ {i}

CopyWord(s) ==
  LET j == handler[s]
  IN /\ \E i \in j.left :
          /\ mem' = [mem EXCEPT ![j.list] = [@ EXCEPT ![i] = j.new[i]]]
          /\ LET left == Copied(j, i)
             IN /\ handler' = [handler EXCEPT ![s] = IF left = {} THEN NoJob ELSE [j EXCEPT !.left = left]]
                /\ now' = IF left = {} /\ j.alone THEN [now EXCEPT ![j.list] = {j.new}] ELSE now
     /\ UNCHANGED <<life, switch, klog, session, run, fault>>

-----------------------------------------------------------------------------
(* The hook on packets that come in, cwlan_in_hook_prer.                   *)

Goto(c, l) == hook' = [hook EXCEPT ![c].pc = l] /\ UNCHANGED seen
Leave(c) == hook' = [hook EXCEPT ![c] = Free] /\ seen' = [seen EXCEPT ![c] = Unseen]
Enter(c, l, p) ==
  /\ hook' = [hook EXCEPT ![c] = [pc |-> l, pkt |-> p, idx |-> 1]]
  /\ seen' = [seen EXCEPT ![c] = now]

\* ntohl of an address, which is compared with words of the lists.
Ntohl(a) == IF BigEndian THEN a ELSE Swapped[a]
Wanted(c) == Ntohl(hook[c].pkt.dst)

\* cloud_wlan_packet_transparent_forward: DNS, DHCP, CAPWAP, SNMP and SSH pass.
ExemptPorts == {53, 67, 68, 5246, 5247, 161, 162, 22}
Transparent(p) ==
  ~switch \/ p.dev # "br-lan" \/ p.proto = "icmp" \/ p.port \in ExemptPorts

InHook(c, p) ==
  /\ mpc \in {"in", "run", "off"} /\ hook[c] = Free /\ ~Transparent(p)
  /\ Enter(c, "portal", p)
  /\ UNCHANGED <<life, conf, session, fault>>

\* The two loops over addresses; a hit passes the packet.
LastSlotShort == Slots - 1  \* mutant: the loop ends one slot early
LastSlotOver == Slots + 1  \* mutant: <= for <
LastSlot == Slots

ScanPortal(c) ==
  LET i == hook[c].idx
  IN /\ hook[c].pc = "portal"
     /\ IF mem["portal"][i] = Wanted(c) THEN Leave(c)
        ELSE /\ hook' = IF i < LastSlot THEN [hook EXCEPT ![c].idx = i + 1]
                        ELSE [hook EXCEPT ![c] = [pc |-> "white", pkt |-> @.pkt, idx |-> 1]]
             /\ UNCHANGED seen
     /\ UNCHANGED <<life, conf, session, fault>>

\* number is read again on every round.
InList(i) == i <= mem["white"][0]

MissPasses(c) == Leave(c)  \* mutant: a miss passes the packet like a hit
Miss(c) == Goto(c, "match")

ScanWhite(c) ==
  LET i == hook[c].idx
  IN /\ hook[c].pc = "white"
     /\ IF ~InList(i) THEN Miss(c)
        ELSE IF mem["white"][i] = Wanted(c) THEN Leave(c)
        ELSE hook' = [hook EXCEPT ![c].idx = i + 1] /\ UNCHANGED seen
     /\ UNCHANGED <<life, conf, session, fault>>

\* cloud_wlan_generate_klog_main: what the search for the host to be logged comes to.
Logged(p) == IF klog /\ p.port = 80 THEN ParseRequest(p) ELSE {"none"}

\* flow_session_match_online_list, and what follows from the status. A user who is UP
\* passes, a request may be logged. Of others HTTP goes on to be answered.
Match(c) ==
  LET p == hook[c].pkt
  IN /\ hook[c].pc = "match"
     /\ IF hash # "ready" THEN Breaks("hash") /\ UNCHANGED <<session, run>>
        ELSE \/ /\ session[p.sta] = "UP"
                /\ \E r \in Logged(p) :
                     IF r = "fault" THEN Breaks("parse") /\ UNCHANGED run
                                    ELSE Leave(c) /\ UNCHANGED fault
                /\ UNCHANGED session
             \/ /\ session[p.sta] # "UP" /\ session' = [session EXCEPT ![p.sta] = "DOWN"]
                /\ IF p.proto = "tcp" /\ p.port = 80 THEN Goto(c, "reply") ELSE Leave(c)
                /\ UNCHANGED fault
             \/ /\ session[p.sta] = "NONE" /\ Leave(c)  \* kmalloc fails
                /\ UNCHANGED <<session, fault>>
     /\ UNCHANGED <<life, conf>>

\* reply_http_redirector: an answer is sent, or there is none to send, no memory, no
\* device or no route. The packet is dropped.
Redirect(c) ==
  /\ hook[c].pc = "reply" /\ Answer(hook[c].pkt).kind # "DROP" /\ Leave(c)
  /\ UNCHANGED <<life, conf, session, fault>>
NoRedirect(c) ==
  /\ hook[c].pc = "reply" /\ Leave(c)
  /\ UNCHANGED <<life, conf, session, fault>>
\* reply_packet_buffer_data may write 1024 bytes behind the headers in a buffer of 512
\* on the stack.
Overflow(c) ==
  /\ hook[c].pc = "reply" /\ Answer(hook[c].pkt).kind = "DATA"
  /\ mem["portal"][0] \in LongUrls /\ Breaks("stack")
  /\ UNCHANGED <<life, conf, session, run>>

-----------------------------------------------------------------------------
(* The hook on packets that go out, cwlan_out_hook_prer.                   *)

OutHook(c, p) ==
  /\ mpc \in {"run", "off", "unin"} /\ hook[c] = Free
  /\ switch /\ p.port \in {80, 8080}
  /\ Enter(c, "scan", p)
  /\ UNCHANGED <<life, conf, session, fault>>

ScanOut(c) ==
  LET p == hook[c].pkt  i == hook[c].idx
  IN /\ hook[c].pc = "scan"
     /\ IF mem["portal"][i] = Ntohl(p.src) /\ ~p.syn THEN Goto(c, "parse")
        ELSE IF i < LastSlot THEN hook' = [hook EXCEPT ![c].idx = i + 1] /\ UNCHANGED seen
        ELSE Leave(c)
     /\ UNCHANGED <<life, conf, session, fault>>

Parse(c) ==
  /\ hook[c].pc = "parse"
  /\ \E r \in ParseReply(hook[c].pkt) :
       CASE r = "found" -> Goto(c, "up") /\ UNCHANGED fault
         [] r = "none" -> Leave(c) /\ UNCHANGED fault
         [] OTHER -> Breaks("parse") /\ UNCHANGED run
  /\ UNCHANGED <<life, conf, session>>

\* flow_session_up_node, for the MAC of the neighbour; without a neighbour the MAC is
\* whatever the packet has in front, and nobody's.
Up(c) ==
  LET u == hook[c].pkt.sta
  IN /\ hook[c].pc = "up"
     /\ IF hash # "ready" THEN Breaks("hash") /\ UNCHANGED <<session, run>>
        ELSE /\ Leave(c) /\ UNCHANGED fault
             /\ \/ session[u] # "NONE" /\ session' = [session EXCEPT ![u] = "UP"]
                \/ UNCHANGED session
     /\ UNCHANGED <<life, conf>>

-----------------------------------------------------------------------------
(* The module among any messages and packets.                              *)

Load == NlInit \/ SessionInit \/ RedirectorInit \/ HookIn \/ HookOut
Unload == SwitchOff \/ UnhookIn \/ UnhookOut \/ NlExit \/ DelAll \/ FreeHash \/ DelTimer
Timer == TimerFires \/ Walk \/ Rearm
Command(s) == (\E b \in BOOLEAN : SetSwitch(s, b) \/ SetKlog(s, b)) \/ ShowOnlineUser(s)
UpdateAny(s) ==
  \/ \E f \in Portals : Update(s, "portal", f)
  \/ \E f \in Whites : Update(s, "white", f)
HookStep(c) ==
  \/ ScanPortal(c) \/ ScanWhite(c) \/ Match(c)
  \/ ScanOut(c) \/ Parse(c) \/ Up(c)
Packet(c) == (\E p \in InPackets : InHook(c, p)) \/ (\E p \in OutPackets : OutHook(c, p))

HookNext ==
  /\ fault = "none"
  /\ \/ Load \/ Unload \/ Timer
     \/ \E s \in Senders : Command(s) \/ UpdateAny(s) \/ CopyWord(s)
     \/ \E c \in Cpus : Packet(c) \/ HookStep(c) \/ Redirect(c) \/ NoRedirect(c) \/ Overflow(c)

HookSpec == HookInit /\ [][HookNext]_hookVars

-----------------------------------------------------------------------------
(* Properties.                                                             *)

Jobs == [list : Lists \cup {"none"}, new : UNION {Versions(l) : l \in Lists},
         left : SUBSET (0 .. Slots \cup 0 .. Size), alone : BOOLEAN]

\* Every variable keeps its type, a hook the packets and the indices of its place.
TypeOK ==
  /\ mpc \in {"out", "nl", "fs", "rd", "in", "run", "off", "unin", "unout", "unnl",
              "deleted", "freed"}
  /\ sk \in BOOLEAN /\ hash \in {"null", "ready", "freed"}
  /\ timer \in {"off", "armed", "running"} /\ switch \in BOOLEAN /\ klog \in BOOLEAN
  /\ DOMAIN mem = Lists /\ \A l \in Lists : mem[l] \in [Places(l) -> Values]
  /\ handler \in [Senders -> Jobs]
  /\ \A s \in Senders :
       IF handler[s].list = "none" THEN handler[s].left = {}
       ELSE /\ handler[s].new \in Versions(handler[s].list)
            /\ handler[s].left \subseteq Places(handler[s].list)
  /\ session \in [Stations -> {"NONE", "DOWN", "UP"}]
  /\ hook \in [Cpus -> [pc : {"free"} \cup InPcs \cup OutPcs,
                        pkt : InPackets \cup OutPackets \cup {NoPacket}, idx : Nat]]
  /\ \A c \in Cpus :
       /\ hook[c].pc = "free" => hook[c] = Free
       /\ hook[c].pc \in InPcs => hook[c].pkt \in InPackets
       /\ hook[c].pc \in OutPcs => hook[c].pkt \in OutPackets
       /\ hook[c].pc \in {"portal", "scan"} => hook[c].idx \in 1 .. Slots
       /\ hook[c].pc = "white" => hook[c].idx \in 1 .. Size + 1
  /\ DOMAIN now = Lists /\ \A l \in Lists : now[l] \subseteq Versions(l)
  /\ DOMAIN seen = Cpus
  /\ \A c \in Cpus : DOMAIN seen[c] = Lists /\ \A l \in Lists : seen[c][l] \subseteq Versions(l)
  /\ fault \in {"none", "hash", "timer", "parse", "stack"}

\* The module is taken down under nobody's feet: a hook in progress has the sessions
\* and the socket, unless there never was memory for the sessions.
HooksFindTheirData ==
  \A c \in Cpus : hook[c].pc # "free" => sk /\ hash # "freed" /\ mpc # "out"

\* Of everything that is freed on exit only the timer can find a thing gone, after the
\* socket was released; a hook, a message or exit itself breaks on the hash only if
\* there was no memory for it or flow_sesison_init had not run yet.
OnlyTheTimerIsLate ==
  /\ fault = "timer" => mpc \in {"unnl", "deleted", "freed", "out"}
  /\ fault = "hash" => hash = "null"

\* A list in memory is the version sent last, word by word, when that was copied in
\* with no other one being copied, in time or in the place of init.
ConfigIsLastSent ==
  \A l \in Lists : \A f \in Versions(l) : now[l] = {f} => mem[l] = f

\* A packet passes the scan, or an answer is looked into, only for an address some
\* version of the list has had during this very hook.
Listed(c, l, a) == \E f \in seen[c][l] : \E i \in Filled(l, f) : f[i] = a

PassIsListed(c) ==
  LET at(pc) == hook[c].pc = pc
      to(pc) == hook'[c].pc = pc
  IN /\ at("portal") /\ to("free") => Listed(c, "portal", Wanted(c))
     /\ at("white") /\ to("free") => Listed(c, "white", Wanted(c))
     /\ at("scan") /\ to("parse") => Listed(c, "portal", Ntohl(hook[c].pkt.src))

HitsWereListed == [][\A c \in Cpus : PassIsListed(c)]_hookVars

\* No address is missed that had its slot in every version of the list there was
\* during the hook: whoever comes to be redirected is on his way to no such address.
Stable(c, l, i, a) == \A f \in seen[c][l] : i \in Filled(l, f) /\ f[i] = a

StableEntriesHit ==
  \A c \in Cpus, l \in Lists : hook[c].pc \in {"match", "reply"} =>
    ~\E i \in Places(l) : Stable(c, l, i, Wanted(c))
=============================================================================
