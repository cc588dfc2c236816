------------------------------ MODULE MCDaemon ------------------------------
(***************************************************************************)
(* Small instances of ApDaemon: one white list, one URL, a few commands.   *)
(***************************************************************************)
EXTENDS ConfigRefines

CONSTANTS l, u

\* A command for each kind of key; that of klog takes the way of the switch.
AllCommands ==
  {Cmd("switch", "on"), Cmd("switch", "off"), Cmd("white", l), Cmd("portal", u)}
SwitchOn == {Cmd("switch", "on")}
NoCommands == {}

\* A list and a portal are stored, or neither. Stored switches are not sent to the kernel
\* again, so that one value of them will do.
Stored(w, p) == [k \in Keys |-> CASE k = "white" -> w [] k = "portal" -> p [] OTHER -> "off"]
SomeStored == {Stored(l, u), Stored("bare", "none")}
OneStored == {Stored(l, u)}

\* What follows a clash is not explored: the invariants say nothing of it. Nor is an AC
\* that is not there: what the threads do then they also do while it sends nothing.
Undisturbed == ~clash /\ acUp
=============================================================================
