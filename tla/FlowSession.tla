----------------------------- MODULE FlowSession -----------------------------
(***************************************************************************)
(* The user sessions of an AP's kernel module, kmod/src/                   *)
(* cloud_wlan_session.c: a hash of users, one lock per bucket, touched by  *)
(* the packet hooks, set UP by the portal's answer to a login, and aged by *)
(* a timer that walks the buckets and reports every session to the AC.     *)
(*                                                                         *)
(* What is kept: jiffies is a counter that wraps, an idle time is the wrap-*)
(* around difference of two of its values divided by HZ, the timer takes   *)
(* one bucket's lock after the other, and a new configuration is copied    *)
(* word by word under none. Each handler runs inside its bucket's lock, so *)
(* it is one step; a user is a pair of source MAC and source address. What *)
(* the AC makes of the reports is part of the module, every one arriving.  *)
(***************************************************************************)
EXTENDS Integers

CONSTANTS
  Users,       \* the users a session can be for
  HashLen,     \* CWLAN_FLOW_SESSION_HASH_LEN
  Bucket,      \* get_tuple_hash
  Mac,         \* usermac: two addresses of one device share it
  HZ,          \* ticks per second
  Wrap,        \* number of values of jiffies (2^32)
  Cfgs,        \* the cwlan_flow_session_cfg_t the AP may be given
  Minute,      \* the 60 seconds in cw_check_user_list
  Skew,        \* ticks the AC's clock is ahead of the AP's, which stamps the
               \* reports; below 0 if it is behind
  HalfStamp,   \* whether the AP's time_t fills half of a report's u64 time only
  Slack,       \* bound: ticks a pass may be late, from its expiry to its end
  LoginWithin  \* bound: idle ticks after which a portal answers no login

Words == {"over", "interval", "del"}
Status == {"UP", "DOWN"}

ASSUME SessionConstantsOK ==
  /\ HashLen \in Nat /\ HashLen >= 1 /\ Bucket \in [Users -> 0 .. HashLen - 1]
  /\ HZ \in Nat /\ HZ >= 1 /\ Wrap \in Nat /\ Wrap >= 1
  /\ \A u, v \in Users : u # v /\ Mac[u] = Mac[v] => Bucket[u] # Bucket[v]
  /\ Cfgs # {} /\ Cfgs \subseteq [Words -> Nat]
  /\ Minute \in Nat /\ Skew \in Int /\ HalfStamp \in BOOLEAN
  /\ Slack \in Nat /\ LoginWithin \in Nat

VARIABLES
  jiffies,  \* the kernel's clock
  cfg,      \* g_cw_fs_cfg
  st,       \* node->status, or "NONE" where there is no node
  last,     \* node->last_access_time
  togo,     \* ticks until g_flow_ageing_timer expires
  bkt,      \* hash_key of flow_session_del_overtime, HashLen when not running
  slip,     \* ticks the pass is late by
  listed,   \* the MACs in user_hlist of this AP's node at the AC
  age,      \* ticks since the AP stamped what the AC has as node.time, 0 if not listed
  \* History, which no action reads:
  told,     \* the latest report of each user, or "NONE"
  silent,   \* ticks since the latest access, counted up to Wrap
  fresh     \* users set UP since the timer last came to their bucket

timer == <<togo, bkt, slip>>
list == <<listed, age>>
vars == <<jiffies, cfg, st, last, timer, list, told, silent, fresh>>

Macs == {Mac[u] : u \in Users}
Nobody == [u \in Users |-> "NONE"]

\* flow_sesison_init.
Init ==
  /\ jiffies \in 0 .. Wrap - 1 /\ cfg \in Cfgs
  /\ st = Nobody /\ last = [u \in Users |-> 0]
  /\ togo = cfg["interval"] * HZ /\ bkt = HashLen /\ slip = 0
  /\ listed = {} /\ age = [m \in Macs |-> 0] /\ told = Nobody
  /\ silent = [u \in Users |-> 0] /\ fresh = {}

\* The AC's cw_check_user_list, for the report s of a user of MAC m: a known user
\* is removed by a down report and kept by any other, an unknown one is added by
\* either.
ListDownOnly(m, s, known) == s = "DOWN" /\ m \in known  \* mutant: an up report adds nobody
ListAfter(m, s, known) == s = "DOWN" => m \notin known

\* current_timer - user_node->node.time: whole seconds of two clocks, whose seconds
\* begin at different moments. The difference is unsigned, so that a negative one is
\* as good as a large one; another user it is not within a minute of is dropped.
Differences(a) == LET n == (a + Skew) \div HZ IN {n, n + 1}
MayLapse(a) == \E n \in Differences(a) : n \notin 0 .. Minute
MustLapse(a) == \A n \in Differences(a) : n \notin 0 .. Minute

\* From this age on nothing changes any more: a bound. A stamp of which one half was
\* never written is as far away as that.
Oldest == LET n == (Minute + 1) * HZ - Skew IN IF n > 0 THEN n ELSE 0
Stamps == IF HalfStamp THEN {0, Oldest} ELSE {0}

\* flow_session_sendto_node_status_info, for the users r maps to a status. Each
\* report drops others it finds too old: `gone` before any report of their own, `lost`
\* after it.
Report(r) ==
  LET heard == {u \in Users : r[u] # "NONE"}
      named == {Mac[u] : u \in heard}
      Others(m) == named \ {m}
  IN /\ told' = [u \in Users |-> IF r[u] = "NONE" THEN told[u] ELSE r[u]]
     /\ \E stamp \in [named -> Stamps],
           gone \in SUBSET {m \in listed : Others(m) # {} /\ MayLapse(age[m])} :
          /\ \A m \in listed \ named : Others(m) # {} /\ MustLapse(age[m]) => m \in gone
          /\ \E lost \in SUBSET {m \in named : Others(m) # {} /\ MayLapse(stamp[m])} :
               listed' = (((listed \ gone) \ named)
                            \cup {Mac[u] : u \in {x \in heard :
                                     ListAfter(Mac[x], r[x], listed \ gone)}}) \ lost
          /\ age' = [m \in Macs |-> IF m \notin listed' THEN 0
                                     ELSE IF m \in named THEN stamp[m] ELSE age[m]]

\* jiffies - node->last_access_time, in 32 bits.
Idle(u) ==
  IF jiffies >= last[u] THEN jiffies - last[u] ELSE jiffies + Wrap - last[u]

Seconds(u) == Idle(u) \div HZ

-----------------------------------------------------------------------------
\* flow_session_match_online_list: a packet that is not exempt. The session is
\* refreshed, or made with status DOWN if kmalloc finds memory.
Packet(u) ==
  /\ \/ /\ st' = [st EXCEPT ![u] = IF @ = "NONE" THEN "DOWN" ELSE @]
        /\ last' = [last EXCEPT ![u] = jiffies]
        /\ silent' = [silent EXCEPT ![u] = 0]
     \/ st[u] = "NONE" /\ UNCHANGED <<st, last, silent>>
  /\ UNCHANGED <<jiffies, cfg, timer, fresh, list, told>>

\* flow_session_up_node: the portal accepts a login. The session, if there is
\* one, is UP; its last access stays when it was.
LoginUntold(u) == UNCHANGED <<list, told>>  \* mutant: set UP without a report
LoginTold(u) == Report([Nobody EXCEPT ![u] = "UP"])

Login(u) ==
  /\ st[u] # "NONE" /\ silent[u] <= LoginWithin
  /\ st' = [st EXCEPT ![u] = "UP"] /\ LoginTold(u)
  /\ fresh' = fresh \cup {u}
  /\ UNCHANGED <<jiffies, cfg, last, timer, silent>>

-----------------------------------------------------------------------------
\* flow_session_del_overtime begins.
FirstBucketSkip == 1 % HashLen  \* mutant: the walk starts at the second bucket
FirstBucket == 0

AgeStart ==
  /\ bkt = HashLen /\ togo = 0 /\ bkt' = FirstBucket
  /\ UNCHANGED <<jiffies, cfg, st, last, togo, slip, silent, fresh, list, told>>

Here == {u \in Users : Bucket[u] = bkt /\ st[u] # "NONE"}
LateTooSoon == {u \in Here : Seconds(u) >= cfg["over"]}  \* mutant: an off-by-one
Late == {u \in Here : Seconds(u) > cfg["over"]}
DeadNever == {}  \* mutant: nothing is ever deleted
Dead == {u \in Late : Seconds(u) > cfg["del"]}

\* Past the last bucket: mod_timer.
NextBucketTooFar == bkt + 2  \* mutant: hash_key is counted twice
NextBucket == bkt + 1

\* One bucket under its lock: sessions idle for longer than over_time are set
\* DOWN, for longer than del_time freed, the ones that stay are reported.
AgeBucket ==
  /\ bkt < HashLen
  /\ st' = [u \in Users |-> IF u \in Dead THEN "NONE"
                            ELSE IF u \in Late THEN "DOWN" ELSE st[u]]
  /\ Report([u \in Users |-> IF u \in Here \ Dead THEN st'[u] ELSE "NONE"])
  /\ last' = [u \in Users |-> IF u \in Dead THEN 0 ELSE last[u]]
  /\ silent' = [u \in Users |-> IF u \in Dead THEN 0 ELSE silent[u]]
  /\ fresh' = fresh \ Here
  /\ bkt' = NextBucket
  /\ IF NextBucket < HashLen
     THEN UNCHANGED <<togo, slip>>
     ELSE togo' = cfg["interval"] * HZ /\ slip' = 0
  /\ UNCHANGED <<jiffies, cfg>>

Age == AgeStart \/ AgeBucket

\* cloud_wlan_nl_cw_update_session_cfg: one word of its memcpy. Between two of
\* them the timer may see a mix of two configurations.
CopyWord ==
  /\ \E f \in Words : \E w \in {c[f] : c \in Cfgs} \ {cfg[f]} : cfg' = [cfg EXCEPT ![f] = w]
  /\ UNCHANGED <<jiffies, st, last, timer, silent, fresh, list, told>>

\* One tick. The timer softirq runs at most Slack ticks late.
Tick ==
  /\ jiffies' = IF jiffies + 1 < Wrap THEN jiffies + 1 ELSE 0
  /\ silent' = [u \in Users |-> IF st[u] = "NONE" THEN 0
                                ELSE IF silent[u] < Wrap THEN silent[u] + 1 ELSE Wrap]
  /\ \/ bkt = HashLen /\ togo > 0 /\ togo' = togo - 1 /\ slip' = slip
     \/ /\ bkt < HashLen \/ togo = 0
        /\ slip < Slack /\ slip' = slip + 1 /\ togo' = togo
  /\ age' = [m \in Macs |-> IF m \in listed /\ age[m] < Oldest THEN age[m] + 1 ELSE age[m]]
  /\ UNCHANGED <<cfg, st, last, bkt, fresh, listed, told>>

Next == Tick \/ Age \/ CopyWord \/ \E u \in Users : Packet(u) \/ Login(u)

Spec == Init /\ [][Next]_vars

-----------------------------------------------------------------------------
(* Properties.                                                             *)

\* The idle ticks that still count as at most t seconds are below this, and two
\* visits to one bucket are at most Gap ticks apart.
AllowedBy(t) == (t + 1) * HZ
Gap(c) == c["interval"] * HZ + 2 * Slack

\* No configuration, nor any mix of two, frees a session before a pass has seen
\* it between over_time and del_time, and no login comes too late for that.
Spaced ==
  \A c, d, e \in Cfgs :
    /\ AllowedBy(c["over"]) + Gap(d) <= AllowedBy(e["del"])
    /\ LoginWithin + Gap(d) < AllowedBy(e["del"])

\* Sessions are freed before jiffies comes round: over_time, del_time and
\* interval_timer are far from 2^32 ticks.
NoWrap ==
  \A d, e \in Cfgs, f \in {"over", "del"} : AllowedBy(e[f]) + Gap(d) <= Wrap

\* Nobody logs in who has been silent for longer than over_time, less the time
\* between two passes.
LoginsAreEarly ==
  \A c, d \in Cfgs : LoginWithin + Gap(d) < AllowedBy(c["over"])

\* No device has two addresses: the AC's list is by MAC, the sessions are not.
OneAddressEach == \A u, v \in Users : Mac[u] = Mac[v] => u = v

\* Reports are stamped whole, by a clock that is not ahead of the AC's, and the next
\* one comes well within a minute.
ClocksAgree ==
  /\ ~HalfStamp /\ Skew >= 0
  /\ \A c \in Cfgs : Gap(c) + Skew < Minute * HZ

\* Every variable keeps its type.
TypeOK ==
  /\ jiffies \in 0 .. Wrap - 1 /\ cfg \in [Words -> Nat]
  /\ st \in [Users -> Status \cup {"NONE"}]
  /\ last \in [Users -> 0 .. Wrap - 1]
  /\ togo \in Nat /\ bkt \in 0 .. HashLen /\ slip \in 0 .. Slack
  /\ listed \subseteq Macs /\ age \in [Macs -> 0 .. Oldest]
  /\ told \in [Users -> Status \cup {"NONE"}]
  /\ silent \in [Users -> 0 .. Wrap] /\ fresh \subseteq Users

\* The 32-bit difference is the time a session has really been idle for: the
\* timer frees a session before jiffies comes round to its last access.
IdleIsExact ==
  \A u \in Users : st[u] # "NONE" => Idle(u) = silent[u]

\* The AC was last told UP of exactly the users whose packets pass. In
\* particular no session is freed while the AC takes its user to be on-line.
AcKnowsWhoPasses ==
  \A u \in Users : told[u] = "UP" <=> st[u] = "UP"

\* Every user who may pass is on the AC's list: whoever's reports make the AC look for
\* users to drop, the last report of one who is UP is recent enough by both clocks.
\* (Devices have one address each, and ClocksAgree.)
UpUsersAreListed ==
  \A u \in Users : st[u] = "UP" => Mac[u] \in listed

\* A user who sends nothing does not stay UP: at the latest after over_time, or
\* since a late login, the next pass to visit the bucket sets the session DOWN.
NobodyStaysUp ==
  \A u \in Users : st[u] = "UP" =>
    \E c, d \in Cfgs :
      \/ silent[u] < AllowedBy(c["over"]) + Gap(d)
      \/ silent[u] <= LoginWithin + Gap(d)

\* A login counts as an access: the first pass after it does not set the user
\* DOWN again (over_time being longer than the time between two passes).
LoginSticks ==
  [][\A u \in fresh : u \notin fresh' => st'[u] = "UP"]_vars
=============================================================================
