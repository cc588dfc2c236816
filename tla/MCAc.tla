-------------------------------- MODULE MCAc --------------------------------
(***************************************************************************)
(* Small instances of AcServer for TLC: two APs, a table of three buckets  *)
(* whose last one, as in the code, no MAC hashes to.                       *)
(***************************************************************************)
EXTENDS AcRefines, TLC

CONSTANTS a, b, web, u, c, d

MCBucket == [m \in AllMacs |-> IF m = a THEN 0 ELSE 1]

Gram(k, from, m) == [kind |-> k, from |-> from, mac |-> m, user |-> u,
                     down |-> FALSE, cmd |-> c]
Beat(m) == Gram("HB", m, m)
Seen(m) == Gram("USER", m, m)
Left(m) == [Gram("USER", m, m) EXCEPT !.down = TRUE]
Set(m, x) == [Gram("SET", web, m) EXCEPT !.cmd = x]
Web(k, m) == Gram(k, web, m)

AdminMsgs == {Beat(a), Seen(a), Set(a, c), Web("GET", a), Web("ADD", a), Web("DEL", a)}

\* A server that has been up for a while: a was added and has sent heartbeats,
\* the last of them, one of the MaxRecv datagrams, is still in main's buf, and
\* it has one user.
Warm ==
  /\ up = TRUE /\ mode \in InitModes \ {"DB"} /\ table = TRUE
  /\ mpc = "recv" /\ src = a /\ wipe = 0 /\ nrecv = 1
  /\ buf = [kind |-> "HB", pre |-> a, rep |-> JunkReport, cmd |-> NoCmd]
  /\ \E n \in Nodes :
       /\ live = {n}
       /\ home = [x \in Nodes |-> IF x = n THEN Bucket[a] ELSE 0]
       /\ apmac = [x \in Nodes |-> IF x = n THEN a ELSE JunkMac]
       /\ status = [x \in Nodes |-> IF x = n THEN "ON_LINE" ELSE "OFF_LINE"]
       /\ users = [x \in Nodes |-> IF x = n THEN {u} ELSE {}]
  /\ cmds = [x \in Nodes |-> <<>>]
  /\ overdue = {} /\ due = {}
  /\ mutex = [x \in Buckets |-> None]
  /\ pc = [w \in Workers |-> "idle"]
  /\ kind = [w \in Workers |-> "HB"]
  /\ peer = [w \in Workers |-> Idle]
  /\ arg = [w \in Workers |-> JunkReport]
  /\ hnd = [w \in Workers |-> "DB"]
  /\ bkt = [w \in Workers |-> 0]
  /\ tgt = [w \in Workers |-> None]
  /\ res = [w \in Workers |-> "RES_OK"]
  /\ apc = "mode1" /\ akey = 0 /\ abkt = 0 /\ amode = "DB"
  /\ out = <<>>

WarmFairSpec == Warm /\ [][Next]_vars /\ Fairness

LiveMsgs == {Beat(a), Set(a, c), Web("DEL", a)}

OpenMsgs == {Beat(a), Seen(a), Set(a, c)}

TwoApMsgs == {Beat(a), Beat(b), Set(a, c), Set(b, d)}

SwitchMsgs == {Beat(a), Left(a), Set(a, c), Web("ADD", b),
               Web("TO_OPEN", a), Web("TO_ADMIN", a)}

WarmSpec == (Init \/ Warm) /\ [][Next]_vars

Threadwise == Permutations(Workers) \cup Permutations(Nodes)
=============================================================================
