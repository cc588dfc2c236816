------------------------------- MODULE Captive -------------------------------
(***************************************************************************)
(* PacketHook in use: the daemon's threads send it their messages, packets *)
(* come by, the module may be removed, and a user who is not logged in     *)
(* opens a TCP connection to some web site. The hook answers as if it were *)
(* the site. The user's TCP is not of this repository: it is what RFC 793  *)
(* has it do with the answers, as far as getting the page is concerned.    *)
(*                                                                         *)
(* Between the two, segments are lost, duplicated, delayed and reordered:  *)
(* whatever was sent may be delivered at any time, any number of times, or *)
(* never. What the others do is a script, chosen at the start.             *)
(***************************************************************************)
EXTENDS PacketHook

CONSTANTS
  Client, Server,  \* the user, and the site
  Isns,     \* initial sequence numbers of the client
  Cuts,     \* lengths of the segments a request may come in
  PageLen,  \* length of the page for this user, by the URL in it
  Plans     \* bound: what else happens in a behaviour

\* A segment of the client.
Segment(flags, seq, ack, len, get) ==
  [dev |-> "br-lan", proto |-> "tcp", port |-> 80, sta |-> Client, dst |-> Server,
   flags |-> flags, seq |-> seq, ack |-> ack, len |-> len, get |-> get, head |-> "plain"]

\* Where the request of a connection that began with n, cut as k, ends after i parts.
Border(n, k, i) ==
  Plus(Plus(n, 1), IF i = 0 THEN 0 ELSE IF i = 1 THEN k[1] ELSE k[1] + k[2])
Parts(n, k, ack) ==
  {Segment(IF i = Len(k) THEN {"PSH", "ACK"} ELSE {"ACK"}, Border(n, k, i - 1), ack, k[i], i = 1) :
     i \in DOMAIN k}
Closing(n, k, ack) ==
  {Segment(f, Border(n, k, Len(k)), ack, 0, FALSE) : f \in {{"ACK"}, {"FIN", "ACK"}}}

\* All it may send, the ends of all pages considered.
OfConnection(n, k, u) ==
  {Segment({"SYN"}, n, 0, 0, FALSE), Segment({"ACK"}, Border(n, k, 0), 1, 0, FALSE)}
  \cup Parts(n, k, 1) \cup Closing(n, k, Plus(1, PageLen[u] + 1))
OfClient == UNION {OfConnection(n, k, u) : n \in Isns, k \in Cuts, u \in DOMAIN PageLen}

Commands ==
  [op : {"switch", "klog", "show"}, arg : BOOLEAN]
  \cup [op : {"portal"}, arg : Portals] \cup [op : {"white"}, arg : Whites]
Scripts ==
  [cpus : SUBSET Cpus, todo : [Senders -> Seq(Commands)], probes : Nat, conns : Nat,
   loads : Nat, unload : BOOLEAN]

ASSUME CaptiveConstantsOK ==
  /\ Client \in Stations /\ Server \in Addrs /\ Isns \subseteq Seqs
  /\ \A k \in Cuts : k \in Seq(Nat) /\ Len(k) \in {1, 2}
  /\ PageLen \in [Urls \cup {NoUrl, DefaultUrl} -> Nat]
  /\ OfClient \subseteq InPackets /\ Plans \subseteq Scripts

VARIABLES
  plan,     \* what is left of the script
  cl,       \* the client's connection
  isn, cut, rcv,  \* its initial number, its request, the number it expects next
  sent,     \* the segments it has sent
  replies   \* the answers it has been sent

client == <<cl, isn, cut, rcv, sent, replies>>
vars == <<hookVars, plan, client>>

Init ==
  /\ HookInit /\ plan \in Plans
  /\ cl = "closed" /\ isn = 0 /\ cut = <<>> /\ rcv = 0 /\ sent = {} /\ replies = {}

-----------------------------------------------------------------------------
Connect ==
  /\ cl = "closed" /\ plan.conns > 0 /\ plan' = [plan EXCEPT !.conns = @ - 1]
  /\ cl' = "syn" /\ isn' \in Isns /\ cut' \in Cuts /\ rcv' = 0
  /\ sent' = {Segment({"SYN"}, isn', 0, 0, FALSE)} /\ replies' = {}
  /\ UNCHANGED hookVars

\* The client takes an answer whose checksum verifies, in the order of its numbers.
Take(r) == /\ r \in replies /\ r.sound /\ r.seq = rcv
           /\ UNCHANGED <<hookVars, plan, isn, cut, replies>>

TakeSynAck ==
  /\ cl = "syn" /\ cl' = "open" /\ rcv' = 1
  /\ \E r \in replies : Take(r) /\ r.flags = {"SYN", "ACK"} /\ r.ack = Border(isn, cut, 0)
  /\ sent' = sent \cup {Segment({"ACK"}, Border(isn, cut, 0), 1, 0, FALSE)} \cup Parts(isn, cut, 1)

TakePage ==
  /\ cl = "open" /\ cl' = "got"
  /\ \E r \in replies :
       /\ Take(r) /\ "FIN" \in r.flags /\ r.ack \in {Border(isn, cut, i) : i \in DOMAIN cut}
       /\ rcv' = Plus(rcv, r.len + 1)
  /\ sent' = sent \cup Closing(isn, cut, rcv')

TakeLastAck ==
  /\ cl = "got" /\ cl' = "done" /\ UNCHANGED <<rcv, sent>>
  /\ \E r \in replies : Take(r) /\ r.flags = {"ACK"} /\ r.ack = Plus(Border(isn, cut, Len(cut)), 1)

ClientStep == Connect \/ TakeSynAck \/ TakePage \/ TakeLastAck

-----------------------------------------------------------------------------
\* What reply_http_redirector sends: without memory for it the checksum is zero.
Reply(p, memory) ==
  LET ans == Answer(p)
      n == IF ans.kind = "DATA" THEN PageLen[mem["portal"][0]] ELSE 0
  IN [flags |-> ans.flags, seq |-> p.ack, ack |-> ans.ack, len |-> n, sound |-> memory /\ Sound(n)]

Delivered(s) ==
  /\ s \in sent /\ \E c \in plan.cpus : InHook(c, s)
  /\ UNCHANGED <<plan, client>>

\* An answer to the client goes into the network, to anybody else it is let go.
Answers(c, memory) ==
  /\ Redirect(c)
  /\ replies' = IF hook[c].pkt \in sent THEN replies \cup {Reply(hook[c].pkt, memory)}
                                        ELSE replies
  /\ UNCHANGED <<plan, cl, isn, cut, rcv, sent>>

\* The script: messages of the daemon, packets of others, removal, insertion again.
Obey(s, m) ==
  CASE m.op = "switch" -> SetSwitch(s, m.arg)
    [] m.op = "klog" -> SetKlog(s, m.arg)
    [] m.op = "show" -> ShowOnlineUser(s)
    [] OTHER -> Update(s, m.op, m.arg)

Send(s) ==
  /\ plan.todo[s] # <<>> /\ Obey(s, Head(plan.todo[s]))
  /\ plan' = [plan EXCEPT !.todo[s] = Tail(@)] /\ UNCHANGED client

Probe(c) ==
  /\ c \in plan.cpus /\ plan.probes > 0 /\ plan' = [plan EXCEPT !.probes = @ - 1]
  /\ \/ \E p \in InPackets : p.sta # Client /\ InHook(c, p)
     \/ \E p \in OutPackets : OutHook(c, p)
  /\ UNCHANGED client

Insert == /\ NlInit /\ plan.loads > 0 /\ plan' = [plan EXCEPT !.loads = @ - 1]
          /\ UNCHANGED client
Remove == SwitchOff /\ plan.unload /\ UNCHANGED <<plan, client>>

LoadOn == SessionInit \/ RedirectorInit \/ HookIn \/ HookOut
UnloadOn == UnhookIn \/ UnhookOut \/ NlExit \/ DelAll \/ FreeHash \/ DelTimer
Quietly == UNCHANGED <<plan, client>>

Next ==
  /\ fault = "none"
  /\ \/ ClientStep
     \/ Insert \/ (LoadOn /\ Quietly) \/ Remove \/ (UnloadOn /\ Quietly)
     \/ (Timer /\ Quietly)
     \/ \E s \in Senders : Send(s) \/ (CopyWord(s) /\ Quietly)
     \/ \E s \in sent : Delivered(s)
     \/ \E c \in Cpus :
          \/ Probe(c) \/ (HookStep(c) /\ Quietly) \/ (NoRedirect(c) /\ Quietly)
          \/ (Overflow(c) /\ Quietly)
          \/ \E memory \in BOOLEAN : Answers(c, memory)

Spec == Init /\ [][Next]_vars

\* The segment whose answer the client waits for.
Awaited(s) ==
  /\ s \in sent
  /\ CASE cl = "syn" -> s.flags = {"SYN"} [] cl = "open" -> s.get [] OTHER -> "FIN" \in s.flags

\* A CPU goes on with its hook, the client takes what it can. What the client sends
\* again and again is delivered again and again, and memory is not always short: for
\* the session, and for the answer.
Found(c) == Awaited(hook[c].pkt) /\ Match(c) /\ session'[hook[c].pkt.sta] # "NONE" /\ Quietly
Answered(c) == Awaited(hook[c].pkt) /\ Answers(c, TRUE)
Fairness ==
  /\ \A c \in Cpus : WF_vars((HookStep(c) \/ NoRedirect(c)) /\ Quietly)
  /\ SF_vars(\E s \in sent : Awaited(s) /\ Delivered(s))
  /\ SF_vars(\E c \in Cpus : Found(c)) /\ SF_vars(\E c \in Cpus : Answered(c))
  /\ WF_vars(TakeSynAck \/ TakePage \/ TakeLastAck)

FairSpec == Spec /\ Fairness

-----------------------------------------------------------------------------
(* Properties.                                                             *)

\* The module is in use, its lists lie still, the user has not logged in and the site
\* is on no list.
Serving ==
  /\ mpc = "run" /\ hash = "ready" /\ switch /\ fault = "none" /\ session[Client] # "UP"
  /\ \A s \in Senders : handler[s] = NoJob
  /\ \A l \in Lists : \A i \in Places(l) \ {0} : mem[l][i] # Ntohl(Server)

\* Every answer fits into the client's connection: it begins where the client expects
\* and acknowledges all of one segment the client has sent, FIN and SYN included.
Extent(s) == s.len + (IF s.flags \cap {"SYN", "FIN"} = {} THEN 0 ELSE 1)

RepliesFit ==
  \A r \in replies : \E s \in sent : r.seq = s.ack /\ r.ack = Plus(s.seq, Extent(s))

\* A user who is not logged in gets the page that redirects him, and his connection
\* ends, whatever was lost on the way.
RedirectCompletes == <>[]Serving => (cl = "syn" ~> cl = "done")

\* The checksum of every answer for which there was memory is one the user accepts.
RepliesVerify == \A n \in {r.len : r \in replies} : Sound(n)
=============================================================================
