----------------------------- MODULE UserLease -------------------------------
(***************************************************************************)
(* What an AP promises about its users, with neither jiffies, buckets nor  *)
(* passes: the right to pass is a lease. A login grants it, every packet   *)
(* renews it, and it ends by itself, neither early nor late, in real time. *)
(* A device it has ended for is forgotten later, and the AC knows at every *)
(* moment who holds one. FlowSession implements it (LeaseRefines).         *)
(***************************************************************************)
EXTENDS Naturals

CONSTANTS
  Users,
  Terms,       \* the silences, in ticks, one of which must be over to end a lease
  Memories,    \* those one of which must be over to forget a device
  Limits,      \* one of these a holder's silence never reaches
  Horizons,    \* one of these no silence reaches before the device is forgotten
  LoginWithin  \* bound: the silence after which no login comes

VARIABLES
  state,   \* "NONE", "DOWN", or "UP": the user holds a lease
  silence, \* ticks since the latest packet, a natural number that never wraps
  known    \* the users the AC takes to be UP

vars == <<state, silence, known>>

Present(u) == state[u] # "NONE"
Over(u, bounds) == \E t \in bounds : silence[u] >= t

Init ==
  /\ state = [u \in Users |-> "NONE"] /\ silence = [u \in Users |-> 0] /\ known = {}

\* A packet: the device is entered, or its silence ends.
Access(u) ==
  /\ state' = [state EXCEPT ![u] = IF Present(u) THEN @ ELSE "DOWN"]
  /\ silence' = [silence EXCEPT ![u] = 0] /\ UNCHANGED known

\* The portal accepts a login, and the AC is told.
Grant(u) ==
  /\ Present(u) /\ silence[u] <= LoginWithin
  /\ state' = [state EXCEPT ![u] = "UP"] /\ known' = known \cup {u}
  /\ UNCHANGED silence

\* Leases end, the AC is told; devices that hold none are forgotten.
Expire(ended, gone) ==
  /\ \A u \in ended : state[u] = "UP" /\ Over(u, Terms)
  /\ \A u \in gone : state[u] = "DOWN" /\ Over(u, Memories)
  /\ state' = [u \in Users |-> IF u \in gone THEN "NONE"
                               ELSE IF u \in ended THEN "DOWN" ELSE state[u]]
  /\ silence' = [u \in Users |-> IF u \in gone THEN 0 ELSE silence[u]]
  /\ known' = known \ ended

\* Time passes, but not beyond a limit: who is due must have been dealt with.
InTime(u) ==
  /\ state[u] = "UP" => \E t \in Limits : silence[u] + 1 < t
  /\ \E t \in Horizons : silence[u] + 1 < t

Tick ==
  /\ \A u \in Users : Present(u) => InTime(u)
  /\ silence' = [u \in Users |-> IF Present(u) THEN silence[u] + 1 ELSE 0]
  /\ UNCHANGED <<state, known>>

Next ==
  \/ Tick
  \/ \E u \in Users : Access(u) \/ Grant(u)
  \/ \E ended, gone \in SUBSET Users : Expire(ended, gone)

Spec == Init /\ [][Next]_vars
=============================================================================
