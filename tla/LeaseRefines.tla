---------------------------- MODULE LeaseRefines -----------------------------
(***************************************************************************)
(* FlowSession implements UserLease. The silence of the lease is read off  *)
(* what the kernel has, two values of a counter that wraps, and what the   *)
(* AC knows off the latest reports.                                        *)
(***************************************************************************)
EXTENDS FlowSession

Measured == [u \in Users |-> IF st[u] = "NONE" THEN 0 ELSE Idle(u)]

ToldUp == {u \in Users : told[u] = "UP"}

OverTimes == {AllowedBy(c["over"]) : c \in Cfgs}
DelTimes == {AllowedBy(c["del"]) : c \in Cfgs}
LateLogins == LoginWithin + 1
\* A bound on a silence at one visit, and a gap later the next visit has come.
Before(bounds) == {b + Gap(d) : b \in bounds, d \in Cfgs}
HoldLimits == Before(OverTimes \cup {LateLogins})
KeepLimits == Before(OverTimes \cup DelTimes)

L == INSTANCE UserLease
       WITH Terms <- OverTimes, Memories <- DelTimes,
            Limits <- HoldLimits, Horizons <- KeepLimits,
            state <- st, silence <- Measured, known <- ToldUp

\* [L!Next]_(L!vars), the cheaper half first.
LeaseStep == UNCHANGED L!vars \/ L!Next

\* Every step of packets, logins, the timer and the clock is one of the lease or
\* leaves it alone: nobody is set DOWN who was heard within over_time, nobody
\* stays UP for a gap longer, and the AC is told in the same step, although the
\* clock wraps, the timer walks bucket by bucket and the times change under it.
ImplementsLease == [][LeaseStep]_vars
=============================================================================
