----------------------------- MODULE AcRegistry -----------------------------
(***************************************************************************)
(* What the AC promises in ADMIN mode, without threads, buckets, mutexes   *)
(* or heap cells: a registry of APs whose every operation is one step.     *)
(* AcServer implements it (cloud_wlan_ap_info_list.c, the cw_admin_ half). *)
(***************************************************************************)
EXTENDS Naturals, Sequences

CONSTANTS Macs, Users, Cmds, NoCmd, Clients

VARIABLES
  reg,  \* what the AC knows of each AP
  out   \* the datagrams of the latest step, in order

vars == <<reg, out>>

Ap(st, us, q) == [state |-> st, users |-> us, queue |-> q]
Absent == Ap("ABSENT", {}, <<>>)
Registered == Ap("OFF_LINE", {}, <<>>)
Known(m) == reg[m].state # "ABSENT"
Online(m) == reg[m].state = "ON_LINE"

Tell(c, type) == [to |-> c, type |-> type, cmd |-> NoCmd, users |-> {}]
Commands(c, q) == [i \in 1 .. Len(q) |-> [Tell(c, "CMD") EXCEPT !.cmd = q[i]]]

Init == reg = [m \in Macs |-> Absent] /\ out = <<>>

\* The web adds an AP: known, off-line.
Register(m) ==
  ~Known(m) /\ reg' = [reg EXCEPT ![m] = Registered] /\ out' = <<>>

\* The web deletes an AP, whatever it had.
Remove(m) ==
  Known(m) /\ reg' = [reg EXCEPT ![m] = Absent] /\ out' = <<>>

\* A registered AP reports in: switched on if it was off-line, answered, and
\* sent the commands that wait for it. An unregistered one hears nothing.
Heartbeat(m, c) ==
  /\ Known(m)
  /\ reg' = [reg EXCEPT ![m] = Ap("ON_LINE", reg[m].users, <<>>)]
  /\ out' = (IF Online(m) THEN <<>> ELSE <<Tell(c, "SET_ON")>>)
              \o <<Tell(c, "HEART_BEAT")>> \o Commands(c, reg[m].queue)

\* An on-line AP reports a user: others may be dropped, this one comes or goes.
Report(m, u) ==
  /\ Online(m)
  /\ \E us \in SUBSET (reg[m].users \cup {u}) :
       reg' = [reg EXCEPT ![m] = Ap("ON_LINE", us, reg[m].queue)]
  /\ out' = <<>>

\* A command for an on-line AP waits at the front of its queue.
Queue(m, c) ==
  /\ Online(m)
  /\ reg' = [reg EXCEPT ![m] = Ap("ON_LINE", reg[m].users, <<c>> \o reg[m].queue)]
  /\ out' = <<>>

\* Silent APs go off-line and lose what they had.
Expire(S) ==
  /\ \A m \in S : Known(m)
  /\ reg' = [m \in Macs |-> IF m \in S THEN Registered ELSE reg[m]] /\ out' = <<>>

\* What the web is told: an AP's users, or that a request was carried out.
Inform(m, c) ==
  /\ Known(m) /\ UNCHANGED reg
  /\ out' = <<[Tell(c, "AP_INFO") EXCEPT !.users = reg[m].users], Tell(c, "RES_OK")>>
Confirm(c) ==
  UNCHANGED reg /\ \E type \in {"RES_OK", "RES_FAIL"} : out' = <<Tell(c, type)>>
Quiet == UNCHANGED reg /\ out' = <<>>

Next ==
  \/ Quiet
  \/ \E m \in Macs :
       \/ Register(m) \/ Remove(m)
       \/ \E u \in Users : Report(m, u)
       \/ \E c \in Cmds : Queue(m, c)
       \/ \E c \in Clients : Heartbeat(m, c) \/ Inform(m, c)
  \/ \E S \in SUBSET Macs : Expire(S)
  \/ \E c \in Clients : Confirm(c)

Spec == Init /\ [][Next]_vars
=============================================================================
