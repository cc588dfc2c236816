# Formal models of cloud_wlan: the access controller and its access points

cloud_wlan turns OpenWrt routers into centrally managed access points. An *AP*
sends a heartbeat to the *AC* (access controller) every few seconds; as long as
the AC answers, the AP's kernel module redirects the HTTP requests of unknown
users to a portal page. The AC keeps a table of its APs and their users, and the
web front end adds and removes APs, queues commands for them and asks for their
users. This directory holds TLA+ modules of that system, TLC configurations that
check them on small instances, and TLAPS proofs of what matters most for every
instance.

Source paths below are relative to `src/`; the sources are encoded in GB18030.

## 1. Inventory

### 1.1 AC server (`cloud_wlan_ac/src`)

| Part | State | Operations | Interacts with |
|---|---|---|---|
| receive loop and dispatch (`cloud_wlan_ac_com.c`, `cloud_wlan_recv_info_branch.c`) | one receive buffer `buf` and one `client_addr` on main's stack | `recvfrom`, then by message type: start a detached thread with pointers to both (HEART_BEAT, CWLAN_ONLINE_USER, WEB_SET_AP_CONFIG, WEB_GET_AP_INFO, WEB_ADD_AP_NODE, WEB_DEL_AP_NODE), or switch the service mode | every worker reads the buffer it overwrites; UDP socket |
| table of APs (`cloud_wlan_ap_info_list.c`) | hash table of AP nodes (MAC, status, time of the last heartbeat, list of users, queue of commands), one mutex per bucket | one handler per message and mode; ageing; emptying the whole table | workers, ageing thread and (without any mutex) main |
| ageing thread (`recv_info_branch.c:156-186`) | section key, current bucket, time taken at the start of a pass | sleeps 2 s, then walks the table from its section on | the same table; reads the mode |
| service mode | `g_ac_service_mode`: DB, ADMIN or OPEN | `cw_ac_auth_switch_to_open`, `cw_ac_auth_switch_to_admin` | read without a lock by every thread |
| database mode (`cloud_wlan_ap_info_list_db.c`, `cloud_wlan_db_cmd_parser.c`) | one MySQL connection | user reports become INSERTs, an ageing loop deletes old ones | chosen when the mode is neither OPEN nor ADMIN |

The three modes (`document/`): in OPEN mode any AP that sends a heartbeat is
entered into the table and removed when it falls silent; in ADMIN mode only the
web enters and removes APs and a silent one is set off-line; in DB mode the
state lives in MySQL.

*Hard behaviours.* Up to one thread per datagram, all on one table; a receive
buffer shared by main and the workers; a mode read more than once by a thread
that then acts on it; a walk that frees every node without a mutex; handlers
that look a node up and use it later; an ageing pass that compares a time taken
at its start with heartbeats that come during it; process exit while detached
workers run.

*What makes it correct.* A bucket's mutex is held exactly by the thread in that
bucket's critical section, and is always released. A node that was found is not
freed before it has been used. One AP has one node. An off-line AP holds no users
and no commands. Only the web removes APs in ADMIN mode. A command reaches the
AP it was meant for. A silent AP is noticed; one that was just heard is spared.
Seen from outside, each request takes effect in one step.

### 1.2 AP kernel module (`package/cloud_wlan/kmod/src`)

| Part | State | Operations | Interacts with |
|---|---|---|---|
| user sessions (`cloud_wlan_session.c`) | hash of users (a MAC and an address): last access in jiffies, UP or DOWN; a rwlock per bucket; the times over_time, interval_timer and del_time | a packet refreshes or makes a session, a login sets it UP, the timer sets it DOWN after over_time and frees it after del_time, and reports the others on every pass | packet hooks (softirq), ageing timer, netlink; through the daemon the AC's lists of users |
| packet hooks and portal (`cloud_wlan_main.c`, `cloud_wlan_http_reply.c`, `cloud_wlan_hhparse.c`) | on/off switch, portal URL, white list | in: pass, drop, or answer a segment in the name of the site, the request with a redirect; out: find the login in an answer of the portal | sessions; configuration written by netlink |
| netlink, kernel side (`cloud_wlan_nl_k_if.c`, `cloud_wlan_log.c`) | port of the daemon | configuration messages in, user reports out | AP daemon |
| module life cycle (`cloud_wlan_main.c`) | what is registered | init and exit order | all of the above |

*Hard behaviours.* Softirq, timer and netlink context on several CPUs over the
session hash; configuration copied while the hooks read it; u32 jiffies; init
and exit orders in which a callback can run before its data exist or after they
are freed; a TCP connection answered segment by segment without any memory of it,
over a network that loses and repeats. *What makes it correct.* Idle times are right across
the wrap of the clock. A user who sends nothing does not stay UP. The AC is told
that a user is DOWN before the session is freed, and its list shows who may pass.
No session is used after it was freed. What passes, and what is redirected, follows
from the lists although they change under the scan; a user who is redirected gets
the page.

### 1.3 AP daemon (`package/cloud_wlan/umod/src`)

| Part | State | Operations | Interacts with |
|---|---|---|---|
| heartbeat thread (`cloud_wlan_cfg_update.c`) | whether an answer has come, when it was last noticed, `k_flag` (the switch this thread sent last) | wake, send a heartbeat, decide: an answer has come, switch the portal on unless it did so last; none for three intervals, switch it off if it had switched it on | AC over UDP; kernel by netlink; SQLite |
| receive thread | one buffer | HEART_BEAT (an answer), the interval, SET_ON, SET_OFF, klog, white list and portal from the AC: store, resolve names, send to the kernel | kernel, SQLite |
| local thread | time of the DNS file | when it changes: white list down to the router, wait for the interface, then send the stored portal and white list | kernel, SQLite |
| report thread (`cloud_wlan_nl_u_if.c`) | its own buffer | receive from the kernel into the one netlink message, copy, send to the AC | kernel, AC |
| shared by all of them | `g_cw_sql` (text of the next SQL statement), `g_cw_nl_info.nlh` (the one netlink message, for sending and receiving), the database | none of it has a lock | |
| command line, SQLite wrapper (`cloud_wlan_cmd.c`, `cloud_wlan_sqlite.c`) | configuration file | I/O | daemon |

*Hard behaviours.* Heartbeats and answers are unnumbered UDP datagrams that can
be lost, late or duplicated; the time-out races with a late answer; `k_flag` and
the kernel's switch are changed by different threads; threads share an SQL
buffer, a netlink message and the static memory of the resolver and of DES; what is
stored is not read back in the form it was stored in. *What makes it correct.* The portal is off when the
AC is not heard for long and on when it is, the stored configuration is the
active one, and a report reaches the AC as the kernel made it.

### 1.4 The rest

DES (`cloud_wlan_des.c`, twice) is a textbook cipher for the portal URL; that its arrays
are static matters to the daemon's threads. The
directories `web_test`, `web_admin_test` and `wheart_beat&recv_test`, and
`udp_*_test.c`, are manual test clients (the last is a copy of the AP daemon).

`PROJECT.json` lists every part with its status, and every hazard with the line
where it bites and the properties that cover it.

## 2. Plan

In order of importance, with what composes what:

1. `AcServer`: the AC's threads, table and modes (memory modes). **Done.**
2. `AcRegistry`, `AcRefines`: what ADMIN mode promises, and that `AcServer`
   implements it. **Done**.
3. `AcServerProofs`, `AcTableProofs`, `AcAdminProofs`, `AcRefinesProofs`: type
   correctness, lock discipline, no use after free, one node per AP, ageing, off-line
   APs, who may remove, and the refinement. **Done.**
4. `FlowSession`, `FlowSessionProofs`: the kernel's sessions, the timer, the clock
   and the reports; `UserLease`, `LeaseRefines`: what they are for, the right to
   pass as a lease in real time, and that `FlowSession` implements it. **Done.**
5. `HttpReply`, `PacketHook`, `Captive` and their proofs: the hooks' scan of the
   portal's addresses and of the white list while new ones are copied into them
   without the lock that is commented out (`cloud_wlan_main.c:170`); the order of
   init (`cloud_wlan_main.c:340-355`) and exit against messages, hooks and the
   timer; the answers to a user's TCP. **Done**, and with it what was planned as
   `KmodLifecycle`.
6. `ApDaemon`, `ApDaemonProofs`: the four threads of the daemon, `k_flag`, the
   heartbeat time-out, the netlink message that the report thread clears while
   another thread fills it (`cloud_wlan_nl_u_if.c:111-144`), the shared SQL buffer,
   the stored configuration against the kernel's; `ConfigStore`, `ConfigRefines`: what
   they do for the configuration, seen from outside. **Done.**
7. `ApAc`: `AcRegistry` and an abstract `ApDaemon` over a network that loses,
   duplicates and reorders datagrams: an AP the AC answers keeps its portal, one
   it does not answer turns it off, the last configuration wins (or does not), and
   the reports of `FlowSession` may be lost.
8. Theorems for 7.

The database branch of the AC stays out: what it does is SQL.

## 3. Modules

| Module | What it is |
|---|---|
| `AcServer` | the AC's memory modes: state, actions, fairness, properties |
| `AcRegistry` | abstract specification of ADMIN mode: a map from AP to what is known of it, one step per operation |
| `AcRefines` | the refinement mapping from `AcServer` to `AcRegistry` |
| `MCAc` | TLC instances: two APs, messages, initial states, symmetry |
| `AcServerProofs` | proofs of `TypeOK` and `LocksMatchSections` |
| `AcTableProofs` | proofs of `FoundNodesStay` and `UniqueMac`, and of `CommandsAreForTheirAp` for a buffer that is kept |
| `FlowSession` | the kernel's sessions, their timer, and the AC's list of this AP's users |
| `MCSession` | TLC instances: two users in two of three buckets, two configurations or one |
| `UserLease` | abstract specification of a session: a lease that packets renew and silence ends, and an AC that knows who holds one |
| `LeaseRefines` | the refinement mapping from `FlowSession` to `UserLease` |
| `FlowSessionProofs` | proofs of the five invariants of `FlowSession`, of when a login lasts, and that `FlowSession` implements `UserLease` |
| `AcAdminProofs` | proofs of `FreshNodesSurviveAgeing`, `OfflineIsEmpty`, `RegisteredApsStay` |
| `AcRefinesProofs` | proof that `AcServer` implements `AcRegistry` in ADMIN mode |
| `ApDaemon` | the daemon's four threads, its buffers, the database and what the kernel runs with |
| `ConfigStore` | abstract specification of the AP's configuration: each key has one order at a time, which is stored, then active |
| `ConfigRefines` | the refinement mapping from `ApDaemon` to `ConfigStore` |
| `MCDaemon` | TLC instances: one white list, one URL, commands |
| `ApDaemonProofs` | proofs of the five safety properties of `ApDaemon`, and that it implements `ConfigStore` |
| `HttpReply` | what the kernel module answers to one segment, its checksum, the search in HTTP headers: operators only |
| `PacketHook` | the kernel module from insmod to rmmod: both hooks on several CPUs, the messages, the timer; among any packets and messages |
| `Captive` | `PacketHook` with scripts of what comes by, and a user who opens a connection over a bad network |
| `MCHook` | TLC instances: two CPUs, two senders, two users, lists of two addresses; `csum` against its definition |
| `PacketHookProofs` | proofs of the six safety properties of `PacketHook` |
| `CaptiveProofs` | proofs of `RepliesFit`, and that `Captive` implements `PacketHook` |

### 3.1 State of `AcServer` and the code

| Variables | Code |
|---|---|
| `buf`, `src` | `buf` and `client_addr` of `main` |
| `mpc`, `wipe` | main: in `recvfrom`, in `cw_recv_info_branch`, or in bucket `wipe` of `cw_web_del_all_ap_info_list_node` |
| `mode`, `table` | `g_ac_service_mode`; whether `g_ap_info_hash` was allocated (not in a server started in DB mode) |
| `live`, `home`, `apmac`, `status`, `users`, `cmds` | heap cells linked into the table: bucket, and fields of `cwlan_ap_node_t` |
| `overdue`, `due` | cells whose last heartbeat is more than 9 s old, now and by the time the current ageing pass took |
| `mutex` | owner of each bucket's mutex |
| `pc`, `kind`, `peer`, `arg`, `hnd`, `bkt`, `tgt`, `res` | a worker: where it is, which `cw_pthread_*_dispose` it runs, its copies of address and payload, the mode it chose its handler for, its `hash_key`, the node found, the type of its reply |
| `apc`, `akey`, `abkt`, `amode` | the ageing thread |
| `out` | datagrams the latest step sent |
| `up` | FALSE once a thread has faulted |

### 3.2 Actions and the code

Main: `Recv` (`recvfrom`), `Spawn` (`pthread_create`, which may fail),
`SwitchToOpen`, `SwitchToAdmin`, `WipeBucket` (one bucket of the walk without
mutexes). A worker: `CopyAddr`, `CopyData` (the `memcpy`s from main's stack),
`DeadFrame` (the same through a frame that is gone), `ReadMode1`, `ReadMode2`
(the two tests of the mode), `HashSetMac`, `Lock`, `Find` (the search of the
bucket), one action per handler for what it does with what it found (`Heartbeat`,
`NewAp`, `UserReport`, `QueueCommand`, `SendInfo`, `AddNode`, `DelNode`,
`UseFreed`), and `Unlock` with the answer. Ageing: `AgeMode1`, `AgeMode2`,
`AgeLock`, `AgeBucket`. Time: `Elapse`.

The steps are cut where another thread can interleave with a visible effect: a
read of shared memory that no mutex protects is a step of its own, and what is
done under a bucket's mutex is cut in two (search, use) because main's walk does
not take the mutex. Lookup and use being one critical section is then a property
(`FoundNodesStay`, `UniqueMac`), not an assumption.

### 3.3 State and actions of `FlowSession`

| Variables | Code |
|---|---|
| `jiffies` | the kernel's clock; an idle time is the difference of two values modulo `Wrap`, divided by `HZ` |
| `cfg` | `g_cw_fs_cfg`: over_time, interval_timer, del_time |
| `st`, `last` | `status` and `last_access_time` of a node; no node is status NONE |
| `togo`, `bkt`, `slip` | ticks until `g_flow_ageing_timer` expires, `hash_key` of the pass, ticks the pass is late |
| `listed`, `age` | the MACs in `user_hlist` of this AP's node at the AC, and ticks since the AP stamped what the AC keeps as their `time` |
| `told`, `silent`, `fresh` | history: the latest report of each user, ticks since the last access, users set UP since the timer came by |

`Packet` is `flow_session_match_online_list`, `Login` is `flow_session_up_node`,
`AgeStart` and `AgeBucket` are `flow_session_del_overtime` (one step for what it does
under one bucket's lock), `CopyWord` one word of the `memcpy` of a new configuration,
`Tick` the clock. `Report` is `flow_session_sendto_node_status_info` and what
`cw_check_user_list` does with it at the AC: the two are joined here because only
together do they say whether the list is right.

`UserLease` has no jiffies, no buckets and no passes: a user's `state`, the `silence`
since the latest packet in ticks that never wrap, and the users `known` to the AC. A
lease ends only after one of `Terms` of silence, a device is forgotten only after one
of `Memories`, and time passes only while no holder's silence has reached the last of
`Limits`. `LeaseRefines` maps the silence to the idle time the code computes from two
values of its wrapping clock, `known` to the latest reports, the four bounds to
over_time, del_time and these plus the longest time between two visits to a bucket.

### 3.4 State and actions of `ApDaemon`

| Variables | Code |
|---|---|
| `answered` | `g_recv_heart_beat_time # 0`: the code never looks at the time itself |
| `sinceGood`, `stall` | age of `g_send_heart_beat_time`, which is the time an answer was last noticed; age of `current_time` while the heartbeat thread decides |
| `timer`, `interval`, `flag` | the sleep of the heartbeat thread, `g_ap_heart_beat_interval`, `k_flag` |
| `pc`, `job`, `part`, `rtype` | where each thread is, the command it carries out, which of its three the local thread is at, `buff->type` of the report thread |
| `sql`, `nl` | `g_cw_sql` and `g_cw_nl_info.nlh` |
| `store`, `framed`, `kernel` | the database; whether the portal in it has its length before it (`dns_protal_url_t`), as the one an AC sent has; `g_cloud_wlan_switch`, `g_cloud_wlan_klog_switch`, `g_cloud_wlan_white_list` and `g_portal_config` of the kernel module |
| `up`, `acUp`, `work` | FALSE once the daemon has died; whether answers can arrive; bound |
| `quiet`, `came`, `clash`, `unsure` | history: seconds since the latest answer, whether a report has come since the message was zeroed, whether two threads got in each other's way, keys never set, not resolved or not read as they were stored |

A writer (heartbeat, receive or local thread) goes through `PrintSql` (`snprintf` into
`g_cw_sql`), `Exec` (the SQL call), `Resolve` and `CopyIps` (`cw_get_url_dns`: the question, and
when the addresses are copied out of the resolver's static memory), `SetType`, `SetData`,
`SendData` (the three steps of `cloud_wlan_sendto_kmod`; the kernel's handler runs in
`sendmsg`). The heartbeat thread: `Beat`, `Test`, `Late`, `Clear`, `Nap`. The receive thread:
`RecvHeartBeat`, `RecvInterval`, `RecvCommand`. The local thread: `NetworkChanges`,
`Select`, `Fetch`. The report thread: `RecvKmod` (the message is zeroed), `ReportComes` or
`RecvFails` (`recvmsg` returns, and nobody looks at its result), `TakeType`, `PassOn`. Time:
`Tick`. `Fault`: the daemon dies, of a pointer in a white list or of a long URL. A step is a read or a write of what another thread uses too.

`clash` becomes TRUE when a thread writes a buffer that another has filled and not yet
used, asks the resolver while another has not yet copied its answer, or begins on a key another
is at. Nothing in the code prevents any of these; what
follows is in the model (a text is executed by the wrong thread, a message leaves
with another's type, a name gets the addresses of another), and properties that it would refute say `clash \/ ...`.

`ConfigStore` has no threads, no texts and no messages: only what is `stored`, what is
`active`, and for each key the one `order` it is being set to. `ConfigRefines` takes for
the order of a key the job of the thread that is at that key: "database" until its statement
has been executed, "kernel" until its message is sent; an order of the local thread is for what was
active to be so "again". Two operations are there because the code has them: a portal an AC ordered
is `sealed`, so that "again" finds `Garbage`, and a list may be another one when it is read for
the second time (`Reread`). `mixed` is `clash`, after which the
abstract specification allows anything.

### 3.5 State and actions of `PacketHook` and `Captive`

| Variables | Code |
|---|---|
| `mpc` | how far `cloud_module_init` or `cloud_module_exit` has come |
| `sk`, `hash`, `timer` | `sk` of `cloud_wlan_nl_k_if.c`; `g_cw_fs_hash`: NULL, allocated or freed; `g_flow_ageing_timer`: not set, set, or its function running |
| `switch`, `klog` | `g_cloud_wlan_switch`, `g_cloud_wlan_klog_switch` |
| `mem` | `g_portal_config.rehttp_conf` (word 0: Location; then destIp) and `g_cloud_wlan_white_list` (word 0: number; then list) |
| `handler` | for each thread in `sendmsg` on a netlink socket: the `memcpy` its message is in, and the words still to copy |
| `session` | status of a user's session |
| `hook` | for each CPU: where its hook is, the packet, the index `i` |
| `fault` | what brought the kernel down |
| `now`, `seen` | history: the versions of a list that words in memory may be of, now and at any time during the hook a CPU runs |
| `cl`, `isn`, `cut`, `rcv`, `sent`, `replies` | `Captive`: the user's connection, its request and the network both ways |
| `plan` | `Captive`: what the script still holds |

Init and exit are one action per thing they create or free, in the order of the code:
`NlInit`, `SessionInit`, `RedirectorInit`, `HookIn`, `HookOut`; `SwitchOff`, `UnhookIn`,
`UnhookOut`, `NlExit`, `DelAll`, `FreeHash`, `DelTimer`. The timer: `TimerFires`, `Walk`,
`Rearm`. Messages: `SetSwitch`, `SetKlog`, `ShowOnlineUser`, `Update` and, word by word,
`CopyWord`. The hook on packets that come in: `InHook` (with
`cloud_wlan_packet_transparent_forward`), `ScanPortal` and `ScanWhite` (one slot each), `Match`
(the session, the log and what follows), `Redirect` or `NoRedirect`. The hook on packets
that go out: `OutHook`, `ScanOut`, `Parse`, `Up`. The user: `Connect`, `TakeSynAck`,
`TakePage`, `TakeLastAck`; this is TCP as RFC 793 has it, not code of the repository.

### 3.6 What is abstracted

* Time is whether a node is overdue. `Elapse` makes a live node overdue, a
  heartbeat makes it fresh, and a pass decides by the nodes that were overdue when
  it took the time (`due`), as the code compares with the `current_timer` it reads
  once. A heartbeat handler reads the clock before it takes the mutex; that second
  of difference is below the 9 s threshold and is not modelled.
* A MAC, a user, a command and a client are values. The last bucket of the table
  is never used because the code hashes modulo `CWLAN_AP_INFO_HASH_LEN - 1`; the
  assumption on `Bucket` says so.
* The receive buffer is seen in the layouts the handlers give it. A payload read
  under another message's layout yields `JunkMac`, `JunkUser` or `NoCmd`; bytes
  the latest datagram did not reach keep their old value (`Overlay`).
* `pthread_para` lives on the stack of a function that has returned.
  `FrameSurvives` says whether its two words are intact when the worker reads
  them: TRUE keeps that defect from hiding everything else, FALSE lets every such
  read fault.
* Users another report drops after a minute of silence are any subset of the
  others (`UserLists`).
* `cw_check_and_send_ap_info` copies the AP's record from the address of a pointer;
  the record's content is not modelled, the users sent after it are.
* Unlocking and the answer that follows it are one step: nothing of the shared
  state is read between them.
* A fault, or a signal, ends the model (`up = FALSE`). In the program the handler
  frees the table while other threads go on; that exit path is not modelled.
* The database branch is where threads go when the mode is neither OPEN nor ADMIN:
  its SQL is not modelled, that its connection is missing in a server started in
  another mode is.

In `FlowSession`:

* What a handler does under its bucket's lock is one step: every access to a node is
  under it. The configuration is read without, so it changes between any two steps,
  word by word.
* Time passes in ticks. A pass of the timer may be late, by `Slack` ticks from its
  expiry to its end; without a bound nothing could be said of when anybody goes DOWN.
* Reports arrive, in order. Their loss is for `ApAc`.
* The portal's answer to a login is an event of the environment. It comes within
  `LoginWithin` ticks of the session's last access; what happens without such a bound
  is finding 3.
* The switch of the portal is on; when it is off no packet comes to the sessions.
* The AC drops a user it has not been told of for a minute by its own clock, in unsigned
  arithmetic. `Skew` is the difference of the two clocks, in either direction; their
  seconds begin at different moments, so one age has two `Differences`. `HalfStamp` is an
  AP whose `time_t` fills half of the field (`cfg_update.c:836`). Ages count up to `Oldest`.
* kmalloc may fail; the packet is then dropped and nothing changes. The AC's malloc for a
  user it has not listed does not fail.

In `ApDaemon`:

* A configuration value is an element of a set; a white list that several INSERTs
  store is one statement. A list from the AC has at least one name; its entries are
  pointers (`nl.h:125`), so it is any list, possibly another when it is read again, or the
  death of the daemon.
* A URL from the wrong bytes is `garbled`, an address of another thread's name `mixed`. A
  portal stored otherwise than by the AC may be read right or, as the statement is finalized
  first, `garbled`. What `strcpy` does to `t[128]` is the death of the daemon or nothing.
* Every SQL statement succeeds. malloc does. Messages to the kernel arrive; the
  kernel copies one in one step (that hooks see it half copied is for `PacketHook`).
* The portal of the receive thread resolves or not, a white list resolves whole or
  down to the router.
* Time is an age in whole seconds, counted up to `Far`. The daemon is started once
  with a fresh kernel module; the message with the session times sent at the start is
  in `FlowSession`.
* After its death time goes on (`Gone`) and nothing else.
* A second passes (`Tick`) only if the report thread waits in `recvmsg`, and the
  heartbeat thread sleeps or has taken at most `Stall` seconds since it read the
  clock: the first copies one message, the second runs one SQL statement and
  one `sendmsg`. The other threads may take any time.
* Loss of an answer and an AC that is down look the same to the AP: no
  `RecvHeartBeat`. A duplicated or late answer is another `RecvHeartBeat`.
* `fork`ed programs (reboot, uci, tftp), log files, the debug switch and the exit
  handler are left out.

In `HttpReply`, `PacketHook` and `Captive`:

* An address is a value, and so is the URL (in the code 1024 bytes that may be torn
  like the rest); the page is its length, by the URL. The HTTP headers in
  a packet (`Heads`) have the line looked for, have it not, or are cut in a line.
* What waits for what is the kernel's: `nf_unregister_hook` returns when no CPU is in
  the hook, `rmmod` is refused while a netlink socket is open, `del_timer` does not
  wait, a message is handled in `sendmsg` of the thread that sends it.
* Idle times are in `FlowSession`. Here `Walk` takes sessions DOWN or away at will, in
  one step for all buckets, and reports are sent or find no socket.
* The lengths of IP and TCP header are one constant; numbers wrap at `SeqMod`.
* A Host line longer than its 256 bytes (`Heads` "long") and a page that does not fit into
  `packet[512]` (`LongUrls`, `Overflow`) may bring the kernel down or not.
* A request whose first segment has five bytes or less is taken for no GET
  (`http_reply.c:143`) and never answered; the cuts in `Captive` are longer.
* A fault stops the model.
* In `Captive` whatever was sent stays in a set, from which any of it may be delivered at
  any time, any number of times or never: loss, duplication, delay and reordering at
  once. One user has one connection, whose request comes in one or two segments.
* Packets of others and messages come by a script (`Plans`); `PacketHook` by itself
  allows any, and `Captive` is shown to implement it.

## 4. Runs

Common to the runs of `AcServer`: HashLen is 3, with `a` in bucket 0, everything else in bucket 1,
and bucket 2 empty as in the code. `Sections` is 1 or 2 (in `live`, so that
passes start at different buckets). Two workers and the ageing thread are every
pair, and one triple, of threads that can meet in a critical section: each
bucket's mutex makes the rest wait. Two cells let one AP be in the table while a
request tries to add it again, or another takes a freed cell. `MaxRecv` bounds
the datagrams received; `Warm` starts a server that has been up for a while (AP
`a` on-line with a user, its heartbeat still in the buffer) and counts that
heartbeat, so that two or three more datagrams reach what would take five from
scratch. Safety runs start from `Init` or `Warm` and use symmetry of workers and
cells; runs with liveness do not.

| Run | Question | Shows |
|---|---|---|
| `admin` (`AcAdmin.cfg`) | Is the table sound in ADMIN mode whatever the interleaving? | Every property of section 5.1 and the refinement of `AcRegistry`, for heartbeat, user report, command, query, add and delete of one AP. 745 thousand states. |
| `live` (`AcLive.cfg`) | Does every worker return, and is a silent AP noticed? | Yes, under the fairness below, with passes starting at two sections and workers competing for the mutexes. |
| `switch` (`AcSwitch.cfg`) | What survives mode switches, a server started in any mode, the walk without mutexes and wild pointers? | Mutexes still match critical sections and an ageing pass still spares the APs it heard. 2.4 million states. |
| `open_stuck` (`AcOpenStuck.cfg`), violation | Does a worker return in OPEN mode? | No: finding 1. |
| `shared_buffer` (`AcSharedBuffer.cfg`), violation | Is a queued command one that was sent for that AP? | No: finding 2. |
| `sessions` (`Sessions.cfg`) | Are the kernel's sessions, their ages and the reports right? | The five invariants of `FlowSession` and the refinement of `UserLease`, with two users, every phase of the clock, late passes and configurations that change under a pass. 1.1 million states. |
| `late_login` (`LateLogin.cfg`), violation | Does a login keep its user UP until over_time? | No: finding 3. |
| `hook` (`Hook.cfg`) | Does the kernel module pass, drop and redirect by its lists, whatever happens under it? | Yes: five safety properties, the fit of every answer, and that the user gets the page. In turn: messages that race with scans, the module removed and inserted, a login, a user's connection. 233 thousand states, liveness. |
| `odd_reply` (`OddReply.cfg`), violation | Does the user accept every page? | No: finding 5. |
| `daemon` (`Daemon.cfg`) | Does the kernel run what is stored, and does the AC get whole reports? | Yes, for what can be read back as it was stored, until two threads clash; and the daemon implements `ConfigStore`. 1.7 million states. |
| `portal` (`Portal.cfg`) | Does the portal follow the AC? | The time-out needs three silent intervals, and the portal is on at most five and some seconds after an answer; it ends off when the AC stays silent and comes back when it answers. 32 thousand states, liveness. |
| `late_on` (`LateOn.cfg`), violation | Does it, when the AC may also send SET_ON? | No: finding 4. |

The runs of `FlowSession` have two users in the first and the last of three buckets, so
that a tick, a packet or a word of a configuration can come between two visits, and
a bucket nobody is in. A second is two ticks, for a division that rounds; the clock
has 12 or 16 values, so that it wraps several times in the life of a session. The
times in `TwoCfgs` are the smallest for which the conditions of section 6 hold with
nothing to spare and a pass can mix two values of over_time. The AP's clock is a tick behind the
AC's and `Minute` is the least that `ClocksAgree` allows.

`Daemon.cfg` is about the buffers and has the least of time (interval 0, `Stall` 0,
ages up to 1): the heartbeat thread may then switch off and on at any tick. `Work` 2
lets any two of a command, a network change and a return of `recvmsg`, with a report or without, meet at every phase of
each and of the heartbeat thread's own switching; each kind of command
occurs but SET_KLOG, which takes the way of the switch. The database holds a list and a portal at the start, or neither. Its constraint stops at
a clash, after which its invariants say nothing; the step that clashes is
checked. It also stops where the AC fails, as that only takes steps away. `Portal.cfg` is about time: intervals 1 and 2, which the AC may change at any
moment, `Stall` 1, and ages up to 16, one more than the bound of `PortalGivenUpInTime`,
which is reached: with one second less TLC finds a counterexample.
It has no commands, `LateOn.cfg` has one SET_ON.

`Hook.cfg` has two CPUs and two senders, lists of two slots, three addresses (two of
portals and the site) and two versions of each list, in which one address keeps its
slot and the other moves or is gone; the page of one of the URLs may overflow. Two slots are enough for a scan to be before, at
and beyond the slot that is copied; the third address is on no list. The scripts are
`Races` (two threads that update one list, or one thread that updates it twice, under
a scan), `Reloads` (the module removed with both CPUs in hooks, or while messages come,
and inserted again), `Logins` and `Visits`. The user's numbers begin at `SeqMod - 2`, so
they wrap in the request; the request is one segment of 12 bytes, or 8 and 4. Two
assumptions of `MCHook` are evaluated in the same run: that `csum` is the internet checksum for every sequence
of up to four bytes out of 0, 1, 128 and 255, on either byte order, except for a last
odd byte on a big-endian one; and that `data_len` is wrong for every segment on a
little-endian one. The instance is big-endian, as the MIPS toolchain of `umod/src/Makefile`.

`AcSwitch.cfg`, `AcOpenStuck.cfg`, `Hook.cfg` and `OddReply.cfg` set `CHECK_DEADLOCK FALSE`: after a fault
the process or the kernel is gone, when every thread waits for a mutex that was locked
twice nothing moves, and a script ends. All others check for deadlock; the loop of
the ageing thread, or the clock and the timer, must always be able to go on.

**Fairness of the AC** (`live` and `open_stuck`). Every thread that can run eventually does: weak fairness of main's
dispatch, of the ageing thread and of each worker. No datagram need ever arrive
(`Recv` is not fair) and no AP need fall silent (`Elapse` is not fair). A worker
that waits for a mutex gets it eventually (strong fairness of `Lock`): the only
thread that takes a mutex over and over is the ageing thread, and it sleeps two
seconds between two passes (`recv_info_branch.c:165`), in which a waiting worker
is scheduled. Nothing of the kind is assumed of the ageing thread itself.

**Fairness of the daemon** (`portal` and `late_on`). Weak fairness of the steps of each
writer, of the heartbeat thread, of the local thread once it has begun and of the
report thread once it has a message: no thread waits for another, each is
scheduled. Time passes (`Tick`). An AC that is there goes on answering
(`RecvHeartBeat`): it answers every heartbeat, and the receive thread calls `recvfrom`
in a loop. No command need arrive, no network change, no report, and the AC need
neither fail nor return. Both liveness properties say in their premise whether the AC
is there in the end.

**Fairness of the hooks** (`hook`). Weak fairness of each CPU's hook: a hook is not
interrupted for ever. The client's TCP takes what it can (weak), and sends a segment
that is not answered again: strong fairness of its delivery, of finding memory for a
session, and of finding memory for the answer, each for the segment whose answer the
user waits for only. Nothing is assumed of messages, of other packets, of init or
exit, or of the timer. `RedirectCompletes` says in its premise that the module is in use
in the end, that its lists lie still, and that the user is not logged in.

The check of all runs takes some minutes; each run less than four on two cores.

## 5. Properties

### 5.1 What the runs check

* `TypeOK`: types; the one type invariant.
* `LocksMatchSections`: a mutex is owned by exactly the thread between lock and
  unlock of that bucket.
* `FoundNodesStay`: no handler uses a node that was freed, or moved to another
  bucket, since the handler found it.
* `UniqueMac`: one node for an AP, although search and insertion are two steps.
* `OfflineIsEmpty`: an AP that is off-line has neither users nor commands, so no
  command accepted before it vanished reaches it when it comes back.
* `FreshNodesSurviveAgeing`: a pass neither frees nor sets off-line an AP heard
  since the pass began.
* `RegisteredApsStay`: in ADMIN mode a node leaves only by a deletion of that AP.
* `ImplementsRegistry`: with the mapping of `AcRefines`, every step of the threads
  is a step of `AcRegistry` or leaves it alone. The step that uses the node found
  is where an operation takes effect.
* `WorkersReturn`, `SilentApIsNoticed`: liveness.
* `CommandsAreForTheirAp`: violated, finding 2; proved for a buffer that is kept
  (`BufferIsKept`).

Of `FlowSession`:

* `TypeOK`: types.
* `IdleIsExact`: the idle time computed from the wrapping clock is the real one.
* `AcKnowsWhoPasses`: the latest report of a user says UP exactly if the session is
  UP. A session is freed without a report, so this needs every session to have been
  found DOWN before.
* `UpUsersAreListed`: whoever may pass is on the AC's list, whosever reports make it drop users
  it finds too old, if `OneAddressEach` and `ClocksAgree`: the AP's clock is not ahead of the
  AC's, fills the whole field, and the next report comes within the minute, delays and the
  difference of the clocks included.
* `NobodyStaysUp`: a silent user is not UP for longer than over_time, or since a late
  login, and one interval between passes.
* `ImplementsLease`: with the mapping of `LeaseRefines`, every step of packets, logins,
  timer and clock is a step of `UserLease` or leaves it alone. A tick is one only if
  the silence read off the wrapping clock grows by exactly one and nobody is overdue;
  a visit to a bucket only if those set DOWN were silent for over_time and the AC is
  told in that step. The bounds are the least: with one tick less TLC finds a
  counterexample.
* `LoginSticks`: violated, finding 3.

Of `ApDaemon`:

* `TypeOK`: types, and the places each thread can be at.
* `StoredIsActive`: until two threads clash, every key that was set, whose names
  resolved and that was read as it was stored has in the kernel the value stored in the database, unless a thread is
  at work on it. It fails at once if a step leaves a stale payload in the message.
* `ImplementsConfig`: with the mapping of `ConfigRefines`, every step of the threads is a step
  of `ConfigStore` or leaves it alone. An order passes through an SQL text and a message that
  three other threads use as well; what reaches the database and the kernel is still the value
  that was ordered, for the key it was ordered for, and that thread's work is the only one
  on the key. What is active again after a network change is what is stored, but for a portal
  of the AC: the property says that this one is garbage or dropped, never the portal ordered. The abstract specification may mix up only while some key is worked on.
* `ReportsAreWhole`: until two threads clash, type and data the report thread passes
  on are those of one report, and that report has come. The result of `recvmsg` is dropped
  (`nl_u_if.c:113-117`), so a failure goes the way of a report; what keeps it from being sent
  to the AC is only that the message was zeroed before, so that it has no type then, or that of a
  command another thread has put there since.
* `TimeoutNeedsSilence`: the heartbeat thread takes the AC for lost only if no answer
  has come for three intervals, less the seconds it may itself take, or one came
  while it was deciding. The code notices an answer at most once an interval and
  clears the flag after it has switched, so an answer in between is lost: this is
  the race of line 567, and the property says what is left of it.
* `PortalGivenUpInTime`: the other way round, a portal that is on has had an answer within
  five of the longest intervals, two seconds and three times `Stall`. (Until threads clash, or the daemon dies and leaves the portal as it is.) The code promises
  three intervals; an answer waits up to one more for the thread to notice it, and the
  thread finds the time-out over up to one more too late. With the 3 seconds
  the code starts with this is 17 seconds and the time the thread itself takes, not 9.
* `PortalClosesWhenSilent`, `PortalOpensWhenAnswered`: liveness, both ways of the switch, for a daemon
  that does not die.
  The first is violated if a SET_ON may arrive, finding 4.

Of `PacketHook` and `Captive`:

* `TypeOK`: types, and the packets and indices of each place in a hook.
* `HooksFindTheirData`: a hook in progress has the socket and a hash that is not freed, so
  the module is not taken down under it.
* `OnlyTheTimerIsLate`: the one thing that meets freed memory is the timer, and only after the
  socket was released; whoever else meets no hash meets one that never was there.
* `ConfigIsLastSent`: a version copied in while nobody else copied into its list is in
  memory word by word. (Two messages at a time leave a mix for good.)
* `HitsWereListed`: a scan passes a packet, or has an answer looked into, only for an address
  that some version had during this very hook. It rests on words being copied whole.
* `StableEntriesHit`: an address that had the same slot in all of those versions is never
  missed. (One that moves can be: each slot is read once.)
* `RepliesFit`: every answer begins where the user's TCP expects it and acknowledges all
  of one segment the user sent, with numbers that wrap and a length that is recomputed
  from the headers.
* `RedirectCompletes`: liveness; the connection of a user who is not logged in gets the
  page and ends, whatever was lost or repeated on the way.
* `RepliesVerify`: violated, finding 5.

Each property of a passing run has a mutant in `PROJECT.json`: a definition
changed as a plausible bug would change it (a lock not released, a lookup left
out, the newest command dropped, the wrong ageing handler), under which TLC
finds that property violated.

`FoundNodesStay`, `UniqueMac`, `OfflineIsEmpty` and `RegisteredApsStay` are not
claimed of runs with a switch to ADMIN after OPEN: main then frees every node
without a mutex, and a worker that chose its OPEN handler before the switch adds
a node of unknown status after it. The model contains both.

### 5.2 Findings

1. *A worker never returns in OPEN mode* (`open_stuck`). `cw_update_ap_info_list`
   for a new AP (`cloud_wlan_ap_info_list.c:293`) and `cw_update_user_info_list`
   (line 329) lock the mutex they already hold where every other path unlocks. The
   worker waits for itself, the bucket stays locked, the first heartbeat is never
   answered, and the ageing thread stops at that bucket. The comment at line 330
   (AP not found: do nothing and return) and `recv_info_branch.c:57` say otherwise.
2. *A command is queued for the wrong AP* (`shared_buffer`). A WEB_SET_AP_CONFIG
   worker works on main's receive buffer itself (`recv_info_branch.c:82`), hashing
   the MAC, comparing it and copying the command at different moments, while main
   receives the next datagram into the same bytes. Nothing else is wrong: as long as
   main receives nothing into the bytes a command worker still reads (`BufferIsKept`), and
   nobody makes the server empty its table, every queued command was sent for that AP
   (theorem `KeptBytesKeepCommands`).
3. *A late login does not last* (`late_login`). `flow_session_up_node` does not refresh
   `last_access_time`, and packets to the portal are accepted before the session is
   looked at (`cloud_wlan_main.c:171-177`). A user who is on the portal's page for
   longer than over_time (300 s) and then logs in is set DOWN by the next pass,
   3 seconds later at most, unless another packet of the user comes first. If the
   login comes just before del_time has passed since the last access, the session is even freed and the AC
   is never told (the condition on `LoginWithin` in `Spaced`). A login does last if it
   comes within over_time, less the time between two passes, of the latest access
   (`LoginsAreEarly`, theorem `EarlyLoginsStick`); in the instance of this run one
   tick more is too late.
4. *A portal that nothing switches off* (`late_on`). SET_ON switches the portal on without
   telling the heartbeat thread (`cfg_update.c:667`), whose time-out acts only if
   `k_flag` says it switched it on itself (line 575). The AC sends SET_ON and the answer
   to a heartbeat as two datagrams; if the second is lost and the AC then stays
   silent, the portal redirects users for ever, in the branch whose comment says
   that no answer was received (line 572). Nothing else keeps a portal on: if the AC never
   sends SET_ON, it is off within the bound of `PortalGivenUpInTime`, until two threads
   clash (theorem `PortalOutlivesNoAc`).
5. *Pages of odd length* (`odd_reply`). `csum` adds a last odd byte as the low byte of a
   word (`cloud_wlan_http_reply.c:104`). On a big-endian AP it should be the high one, and the
   checksum of every page of odd length is wrong. The page holds the URL and the
   user's address in digits, so it is odd for some users, whose TCP drops it for ever.
   On a little-endian AP `csum` is right, but `data_len` is read without `ntohs` (line 210).

More defects are in the model, with no run of their own.

*The AC's list of users.* A DOWN report of a user the AC does not list adds that user
(`ListAfter`, `cloud_wlan_ap_info_list.c:112`). The age of a user is an unsigned difference of
two clocks (line 80): an AP whose clock is a second ahead of the AC's, or a minute
behind, makes each report drop all other users of the AP, and so does one that writes
its 32-bit `time_t` into one half of the 64-bit field (`cfg_update.c:836`). `UpUsersAreListed` is
checked and proved under `ClocksAgree`, and TLC refutes it without.

*The stored portal.* The receive thread stores the portal with the four bytes of its length before
the ciphertext (`cfg_update.c:303`, `nl.h:114-118`) and decrypts it without them (line 318); the local
thread decrypts what is stored from the first byte (line 363), out of a row that
`sqlite3_finalize` has freed (`sqlite.c:121-124`). So after a network change the portal an AC
ordered is garbage. If the resolver finds no name in it the old portal stays; if it does, the
kernel redirects users to garbage.

*Other memory of the daemon.* The entries of a white list are pointers taken from the datagram
(`cfg_update.c:224`, `nl.h:125`); a URL is copied into `t[128]` whatever its length (line 177); the
answer of `gethostbyname2` (line 180) and the arrays of `DES_Act` are shared by threads
without a lock; the result of `recvmsg` is dropped (`nl_u_if.c:116`).

*The kernel module.* A Host line is copied into `host[256]` whatever its length
(`cloud_wlan_hhparse.c:54-56`), and the page is written with a limit of 1024 behind the
headers in `packet[512]` (`cloud_wlan_http_reply.c:463`).

*The AC's modes.* A server started in DB mode and switched to another has no table: every
handler and the ageing thread (`AgeLock`) then fault at their first lock.

## 6. Proofs

### 6.1 The AC

All theorems hold for every value of the constants that satisfies `ConstantsOK`
(any number of workers, cells, APs, buckets, messages; either value of
`FrameSurvives`).

| Theorem | States | Further assumption |
|---|---|---|
| `TypeCorrect` | `[]TypeOK` | none |
| `SectionsAreLocked` | `[]LocksMatchSections` | none |
| `NoUseAfterFree` | `[]FoundNodesStay` | `NeverWiped` |
| `OneNodePerMac` | `[]UniqueMac` | `NeverWiped` |
| `KeptBytesKeepCommands` | `BufferIsKept => []CommandsAreForTheirAp` | `NeverWiped` |
| `AgeingSparesFreshNodes` | `FreshNodesSurviveAgeing` | none |
| `OfflineApsHoldNothing` | `[]OfflineIsEmpty` | `AdminOnly` |
| `OnlyTheWebRemoves` | `RegisteredApsStay` | `AdminOnly` |
| `ServerIsARegistry` | `R!Spec` and `ImplementsRegistry` | `AdminOnly` |

`AdminOnly`: the server starts in ADMIN mode and nobody asks for OPEN.
`NeverWiped`: that, or nobody asks for ADMIN, so that main never empties the table.
Both are conditions on the constants, so what they exclude is named in the theorem.

*The argument.* `TypeOK` is inductive by itself. `LocksMatchSections` is
inductive given `TypeOK`: an action changes a mutex and the label of the thread
that owns it together, and two threads cannot own one mutex. For the table,
`FoundNodesStay` is not inductive alone: that a found node stays needs to know
that only a thread inside the bucket changes it, that a node is in the bucket its
MAC hashes to (`Placed`), and that a thread's hash key is the one of the MAC it
looks for (`LocalOK`). `UniqueMac` needs in addition that a worker about to add a
MAC has seen that it is not there (`MissedOK`), and that it looked in the only
bucket where it could be. Their conjunction `TableInv` is inductive given the
first two; `NeverWiped` gives `NotWiping`, without which the walk breaks it. Two
frame lemmas (`Confined`: a step of one thread changes only nodes of the bucket it
is in; `SameLocals`) keep the proof at one case per kind of action. For ageing,
`due` is always a part of `overdue` (`DueAreLate`). For ADMIN mode the mode is
ADMIN, every handler chosen is the ADMIN one, and a worker about to queue a
command or a user has found an on-line AP (`AdminInv`).

`KeptBytesKeepCommands` has a premise about steps, `BufferIsKept`, beside the one about
constants. `SetInv` says that while a command worker is there main's buffer holds a MAC
and a command the web sent together, and that the node the worker has found is of that MAC
(`SetOK`): the premise keeps the first, and the lookup, which reads the buffer, gives the
second.

For `ServerIsARegistry` the refinement mapping picks the node of a MAC by CHOOSE;
`UniqueMac` makes that node the only one, so the registry has an entry for every node
and no others (`MirrorsTable`). Three lemmas say how the registry changes when no
node does, when one is new or changes, and when one is freed; a found node that is
still there (`FoundOK`), is on-line where the handler asked for it (`AdminHandler`),
and a missed MAC that is still missing (`MissedOK`) then give the guard of the operation
that the step of the handler is. Every other step is silent, or sends the web its answer.

### 6.2 The kernel's sessions

For every value of the constants that satisfies `SessionConstantsOK`: any number of
users and buckets, any width and rate of the clock, any set of configurations.

| Theorem | States | Further assumption |
|---|---|---|
| `SessionTypes` | `[]TypeOK` | none |
| `IdleTimesAreExact` | `[]IdleIsExact` | `NoWrap` |
| `SilentUsersGoDown` | `[]NobodyStaysUp` | `NoWrap` |
| `AcIsToldWhoPasses` | `[]AcKnowsWhoPasses` | `NoWrap`, `Spaced` |
| `UpUsersStayListed` | `[]UpUsersAreListed` | `OneAddressEach`, `ClocksAgree` |
| `EarlyLoginsStick` | `LoginSticks` | `NoWrap`, `LoginsAreEarly` |
| `SessionsAreLeases` | `L!Spec` and `ImplementsLease` | `NoWrap`, `Spaced` |

`NoWrap`: over_time, del_time and interval_timer of any two configurations together fit
into one round of the clock. With 32 bits and 100 ticks a second that is 497 days.
`Spaced`: del_time exceeds over_time, and the idle time at a login, by an interval
between passes. With the values the code starts with (300, 3 and 3000 seconds) that
allows logins until about the 2997th second of silence; the condition fails only for a configuration that sets del_time close to over_time.

*The argument.* Neither `IdleIsExact` nor `NobodyStaysUp` nor `AcKnowsWhoPasses` is inductive: that a session was idle for less
than del_time says nothing of how idle it will be when the timer comes by. `Seen(u, b)`
does: if u had been silent for fewer than b ticks when its bucket was visited, or when
it was accessed after that, then its silence and what is left of the way to the
next visit (until the timer expires, until the pass comes to the bucket, or the lateness
of the pass that has been there) are below b plus one interval. A tick takes from one
what it adds to the other (`SeenTick`), and a visit starts it anew (`SeenVisit`), with b
the ticks of over_time for a session left UP and of del_time for any it leaves
(`SpareIsRecent`). Those bounds, with every configuration word being one of some
configuration (`CfgWords`), make `AgeInv`, which is inductive under `NoWrap`. That an UP
session is never freed (`UpIsNotDead`) follows from it and `Spaced`.

`EarlyLoginsStick` is about one step, but its reason is a login some steps ago:
`FreshLogins` says that a user set UP since the last visit was silent for at most
`LoginWithin` when that visit came or at the login, so the next visit comes at most
`LoginWithin` and a gap after the latest access, and under
`LoginsAreEarly` does not find the user late (`FreshIsNotLate`). For
`SessionsAreLeases` the idle time is the silence (`MeasuredIsReal`, from `IdleIsExact` and
`NoWrap`) also after the step, so a tick adds one to it; the reports say who is UP before
and after each step (`ToldIsUp`); `BoundsBefore` turns the bound `Seen` gives at one
visit into the limit that the clock must not reach (`TickIsInTime`).

### 6.3 The daemon

For every value of the constants that satisfies `DaemonConstantsOK`: any lists, URLs,
intervals and commands, any bounds.

| Theorem | States | Further assumption |
|---|---|---|
| `DaemonTypes` | `[]TypeOK` | none |
| `PortalNeedsSilence` | `TimeoutNeedsSilence` | none |
| `PortalOutlivesNoAc` | `[]PortalGivenUpInTime` | `NoSetOn` |
| `StoredConfigIsActive` | `[]StoredIsActive` | none |
| `ReportsPassWhole` | `[]ReportsAreWhole` | none |
| `DaemonIsAConfigStore` | `C!Spec` and `ImplementsConfig` | none |

*The argument.* `TypeOK` needs to know which command a writer may be carrying out at
which place (`Typed`). `TimeoutNeedsSilence` is about one step, but its reason lies
earlier: while the flag is ON and no answer waits to be noticed, the last answer is older
than the last notice, but for `Stall` seconds, and an answer that waits when the thread has
already decided there is none came since it read the clock (`Waiting`). When the daemon has died
ages grow and nothing looks at them, so `Waiting` and `Timely` are invariant as long as it is
`up`, and both properties say so or are about a step it can then not take (`GoneFacts`). `StoredIsActive` is not inductive: between the first
and the last step of a command its value is on the way, in `g_cw_sql`, then in the
database, then in type and data of the message. `Tidy` says for each writer
where its value is at each place of the thread, and that no two are in one
buffer or at one key (`Apart`); it is inductive until a step clashes, and
`clash` never becomes FALSE again (`ClashStays`), so `Undisturbed`, which is `Typed` and
`clash` or `Tidy`, is inductive. What a thread may have in
hand after it asked the resolver depends on who asks meanwhile: `AskKeeps` says that without a
clash only its own value changes. `ReportsAreWhole` follows from the same invariant, in which a
message that the report thread takes is the report (`came`), or is not of a report's type.

`PortalGivenUpInTime` adds up three bounds, each for every place of the heartbeat thread
(`Timely`): how old an answer can be that the thread has not noticed, how much older than the
time-out's clock the latest answer can be once it has, and how old that clock can be
before a round finds it overdue. In a sleep a second leaves `timer` as it enters the ages,
so their sum is what stays bounded. `Timely` holds whatever threads clash while the daemon lives; that a kernel
which redirects belongs to a thread that knows it (`Attended`) needs `Tidy`, for the kernel
to do what the thread that sends the message means (`KernelObeys`), and `NoSetOn`. The
longest interval is defined by CHOOSE; that there is one is `LongestFacts`.

For `DaemonIsAConfigStore` the order of a key is a CASE over the threads that may be at it;
`Apart` makes that thread unique, so its job is the order (`OrderedAt`), and a step of
one thread changes the order of its own key only (`OneOrder`). `Tidy` then gives the values
where they matter: the text that `Exec` finds and the message that `SendData` sends are the
order's. What `Fetch` and `Resolve` may make of a value are the abstract `Garbage`, `Reread`, `Reduce` and
`Drop`. Two threads can clash only if one of them has an order (`MixUpConfig`), and a
step after a clash is `MixUp` whatever it does.

### 6.4 The packet hooks

For every value of the constants that satisfies `HookConstantsOK` (and `ReplyConstantsOK`,
`CaptiveConstantsOK`): any number of CPUs, senders, users and slots, any lists and packets,
either byte order.

| Theorem | States | Further assumption |
|---|---|---|
| `HookTypesAlways` | `HookSpec => []TypeOK` | none |
| `HooksHaveTheirData` | `HookSpec => []HooksFindTheirData` | none |
| `TheTimerAloneIsLate` | `HookSpec => []OnlyTheTimerIsLate` | none |
| `LastSentIsInMemory` | `HookSpec => []ConfigIsLastSent` | none |
| `OnlyListedPass` | `HookSpec => HitsWereListed` | none |
| `StableEntriesAreHit` | `HookSpec => []StableEntriesHit` | none |
| `CaptiveIsHook` | `Spec => HookSpec` | none |
| `AnswersFit` | `Spec => []RepliesFit` | `BigEndian` |

`HookSpec` is the module among any messages and packets, insertions and removals, so
these theorems hold in any use of it; `CaptiveIsHook` (every step of `Captive` is a step of
`PacketHook` or leaves it alone) carries them over to `Captive`.

*The argument.* The invariant `HookInv` has four parts. `Phases`: in which stretch of the
module's life a hook may be at all, a message be handled, the switch be on, and what
then exists; exit waits for each hook before it frees what that hook needs, except
for the timer. `ListsOK`: every word in memory is a word of one of the versions in
`now`, and a message being copied has put in place the words it has no more to copy,
unless somebody else copies too. `HooksOK`: `seen` of a hook includes `now`, and a scan
that has come to index i has passed no slot with the address it looks for in all
of `seen`. `StableEntriesHit` is the last of these at the end of the scan. For `AnswersFit`
the invariant adds that a segment which opens or closes the connection has no data;
that the answer to any other acknowledges its data is then the arithmetic of `DataLen`.

### 6.5 What is not proved

*Only model-checked.* Liveness (`WorkersReturn`, `SilentApIsNoticed`,
`PortalClosesWhenSilent`, `PortalOpensWhenAnswered`, `RedirectCompletes`: it rests on
fairness), and that `csum` is the internet checksum
(a sum over data of any length, which needs induction; the assumption of `MCHook` evaluates it
for short ones).

## 7. Not modelled

The exit handler of the AC, configuration parsing, SQL, logging and DES, for the
reasons given in `PROJECT.json`. Of the AP: programs the daemon starts, its log files
and the command line program; in the kernel module the port of the daemon, the debug
switch, the text of the page and the layout of reports. The network between AP and AC
is in `ApDaemon` as answers that come or not, and in `FlowSession` as reports that arrive; one that
loses and reorders between the whole of both is next in the plan (`ApAc`).
