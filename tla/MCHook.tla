-------------------------------- MODULE MCHook --------------------------------
(***************************************************************************)
(* Small instances of Captive: two CPUs, two threads that send messages,   *)
(* lists of two addresses, two users. The first two addresses are of       *)
(* portals, the third is the site the client looks for.                    *)
(***************************************************************************)
EXTENDS Captive, TLC

CONSTANTS a, b, site, none, empty, default, u1, u2, s1, s2, cl1, guest

Turned == (a :> b) @@ (b :> site) @@ (site :> a)

Portal(url, x, y) == (0 :> url) @@ (1 :> x) @@ (2 :> y)
White(n, x, y) == (0 :> n) @@ (1 :> x) @@ (2 :> y)

\* One address keeps its slot, the other changes it or is gone.
PortalAB == Portal(u1, a, b)
PortalBB == Portal(u2, b, b)
WhiteAB == White(2, a, b)
WhiteB == White(1, b, none)
TwoPortals == {PortalAB, PortalBB}
TwoWhites == {WhiteAB, WhiteB}

\* Packets of the other user.
In(proto, port, dst, head) ==
  [dev |-> "br-lan", proto |-> proto, port |-> port, sta |-> guest, dst |-> dst,
   flags |-> {"ACK"}, seq |-> 0, ack |-> 0, len |-> 20, get |-> TRUE, head |-> head]
Out(src, syn, head) == [port |-> 80, src |-> src, syn |-> syn, sta |-> guest, head |-> head]

SomeIn == OfClient \cup
  {In("tcp", 80, b, "plain"), In("tcp", 80, site, "cut"), In("tcp", 80, site, "long"),
   In("udp", 500, a, "plain")}
SomeOut == {Out(a, FALSE, "sought"), Out(b, FALSE, "cut"), Out(b, TRUE, "plain")}

Is(op, arg) == [op |-> op, arg |-> arg]
Script(cpus, t1, t2, probes, conns, loads, unload) ==
  [cpus |-> cpus, todo |-> (s1 :> t1) @@ (s2 :> t2), probes |-> probes, conns |-> conns,
   loads |-> loads, unload |-> unload]

\* Two threads change the lists while packets come by.
Races ==
  {Script({1}, <<Is("switch", TRUE), Is("portal", PortalAB)>>, <<Is("portal", PortalBB)>>,
          1, 0, 1, FALSE),
   Script({1}, <<Is("switch", TRUE), Is("white", WhiteAB), Is("white", WhiteB)>>, <<>>,
          1, 0, 1, FALSE)}
\* The module is removed, and inserted again, with packets and messages on their way.
Reloads ==
  {Script(Cpus, <<Is("switch", TRUE)>>, <<Is("klog", TRUE)>>, 3, 0, 2, TRUE),
   Script({1}, <<Is("switch", TRUE), Is("show", TRUE)>>, <<Is("portal", PortalAB)>>, 0, 0, 2, TRUE)}
\* A user logs in, with the log of requests on.
Logins ==
  {Script({1}, <<Is("portal", PortalAB), Is("klog", TRUE), Is("switch", TRUE)>>, <<>>,
          3, 0, 1, FALSE)}
\* A user opens a connection.
Visits == {Script({1}, <<Is("switch", TRUE)>>, <<>>, 0, 1, 1, FALSE)}
AllPlans == Races \cup Reloads \cup Logins \cup Visits

Lengths == (default :> 20) @@ (u1 :> 20) @@ (u2 :> 22) @@ (empty :> 18)
OddLengths == [u \in DOMAIN Lengths |-> Lengths[u] + 1]

WrapIsns == {SeqMod - 2}
TwoCuts == {<<12>>, <<8, 4>>}

-----------------------------------------------------------------------------
\* csum over all short sequences of some bytes, on a big-endian and on a little-endian
\* processor: on the first it is right but for a last odd byte that is not zero.
Big == INSTANCE HttpReply WITH BigEndian <- TRUE
Little == INSTANCE HttpReply WITH BigEndian <- FALSE
Bytes == {0, 1, 128, 255}
Short == UNION {[1 .. n -> Bytes] : n \in 0 .. 4}

ASSUME CsumIsTheInternetChecksum ==
  /\ \A s \in Short : Big!Verifies(s) <=> (Len(s) % 2 = 0 \/ s[Len(s)] = 0)
  /\ \A s \in Short : Little!Verifies(s)

\* The length of the data is wrong on a little-endian one.
ASSUME DataLenNeedsNtohs == \A n \in 0 .. 100 : Little!DataLen([len |-> n]) # n
=============================================================================
