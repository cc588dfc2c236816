------------------------------ MODULE MCSession ------------------------------
(***************************************************************************)
(* Small instances of FlowSession: two users in two buckets of three, two  *)
(* ticks a second, times of a few seconds. TwoCfgs have different over_time*)
(* values, so that one pass can go by the old one in a bucket and by the   *)
(* new one in the next, and are as close to del_time as Spaced allows; the *)
(* next report comes as close to Minute as ClocksAgree allows.             *)
(***************************************************************************)
EXTENDS LeaseRefines

CONSTANTS a, b

Cfg(o, i, d) == [f \in Words |-> CASE f = "over" -> o [] f = "interval" -> i [] OTHER -> d]

MCBucket == [x \in Users |-> IF x = a THEN 0 ELSE HashLen - 1]
\* Each user has a device of its own.
MCMac == [x \in Users |-> x]

TwoCfgs == {Cfg(1, 1, 3), Cfg(0, 1, 3)}
OneCfg == {Cfg(2, 1, 4)}
=============================================================================
