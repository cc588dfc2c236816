---------------------------- MODULE CaptiveProofs ----------------------------
(***************************************************************************)
(* Proofs about the answers a user who is not logged in gets. That they fit*)
(* into his connection needs one fact about what he sends: a segment that  *)
(* opens or closes the connection holds no data.                           *)
(***************************************************************************)
EXTENDS Captive, PacketHookProofs

SegmentsOK ==
  /\ cut = <<>> \/ cut \in Cuts
  /\ \A s \in sent : s.len \in Nat /\ (s.flags \cap {"SYN", "FIN"} # {} => s.len = 0)

FitInv == SegmentsOK /\ RepliesFit

\* The data are as long as they are, on a big-endian processor.
LEMMA LengthIsRight ==
  ASSUME BigEndian, NEW s, s.len \in Nat
  PROVE  DataLen(s) = s.len
BY ReplyConstantsOK DEF DataLen, Ntohs, Minus

LEMMA AnswerFits ==
  ASSUME BigEndian, NEW p, p.len \in Nat, p.flags \cap {"SYN", "FIN"} # {} => p.len = 0,
         Answer(p).kind # "DROP"
  PROVE  Answer(p).ack = Plus(p.seq, Extent(p))
<1>1. DataLen(p) = p.len
  BY LengthIsRight
<1>2. CASE p.flags = {"SYN"}
  <2>1. p.flags \cap {"SYN", "FIN"} # {}
    BY <1>2
  <2>2. Answer(p).ack = Plus(p.seq, 1)
    BY <1>2 DEF Answer
  <2>3. Extent(p) = 1
    BY <2>1 DEF Extent
  <2> QED
    BY <2>2, <2>3
<1>3. CASE p.flags \in {{"ACK"}, {"PSH", "ACK"}} /\ IsGet(p)
  <2>1. p.flags # {"SYN"} /\ p.flags \cap {"SYN", "FIN"} = {}
    BY <1>3
  <2>2. Answer(p).ack = Plus(p.seq, DataLen(p))
    BY <1>3, <2>1 DEF Answer
  <2>3. Extent(p) = p.len
    BY <2>1 DEF Extent
  <2> QED
    BY <1>1, <2>2, <2>3
<1>4. CASE p.flags \in {{"FIN"}, {"FIN", "ACK"}}
  <2>1. /\ p.flags # {"SYN"} /\ p.flags \notin {{"ACK"}, {"PSH", "ACK"}}
        /\ p.flags \cap {"SYN", "FIN"} # {}
    BY <1>4
  <2>2. Answer(p).ack = Plus(p.seq, 1)
    BY <1>4, <2>1 DEF Answer
  <2>3. Extent(p) = 1
    BY <2>1 DEF Extent
  <2> QED
    BY <2>2, <2>3
<1> QED
  BY <1>2, <1>3, <1>4 DEF Answer, Drop

\* Nobody but the client and the hook that answers touches the connection.
LEMMA ConnectionMoves ==
  ASSUME Next
  PROVE  \/ Connect \/ TakeSynAck \/ TakePage \/ TakeLastAck
         \/ \E c \in Cpus, memory \in BOOLEAN : Answers(c, memory)
         \/ UNCHANGED client
BY DEF Next, ClientStep, Insert, Remove, Send, Delivered, Probe, Quietly

LEMMA FitStep ==
  ASSUME BigEndian, FitInv, [Next]_vars
  PROVE  FitInv'
<1> USE DEF FitInv
<1>1. CASE Connect
  BY <1>1 DEF Connect, SegmentsOK, RepliesFit, Segment
<1>2. CASE TakeSynAck
  <2>1. \A k \in DOMAIN cut : cut[k] \in Nat
    BY CaptiveConstantsOK DEF SegmentsOK
  <2>2. \A s \in Parts(isn, cut, 1) : s.len \in Nat /\ s.flags \cap {"SYN", "FIN"} = {}
    BY <2>1 DEF Parts, Segment
  <2>3. cut' = cut /\ replies' = replies /\ sent \subseteq sent'
        /\ sent' = sent \cup {Segment({"ACK"}, Border(isn, cut, 0), 1, 0, FALSE)} \cup Parts(isn, cut, 1)
    BY <1>2 DEF TakeSynAck, Take
  <2> QED
    BY <2>2, <2>3 DEF SegmentsOK, RepliesFit, Segment
<1>3. CASE TakePage
  BY <1>3 DEF TakePage, Closing, Take, SegmentsOK, RepliesFit, Segment
<1>4. CASE TakeLastAck
  BY <1>4 DEF TakeLastAck, Take, SegmentsOK, RepliesFit
<1>5. ASSUME NEW c \in Cpus, NEW memory \in BOOLEAN, Answers(c, memory)
      PROVE  FitInv'
  <2> DEFINE p == hook[c].pkt
  <2>1. UNCHANGED <<cut, sent>> /\ Answer(p).kind # "DROP"
    BY <1>5 DEF Answers, Redirect
  <2>2. replies' = IF p \in sent THEN replies \cup {Reply(p, memory)} ELSE replies
    BY <1>5 DEF Answers
  <2>3. p \in sent => /\ Reply(p, memory).seq = p.ack
                      /\ Reply(p, memory).ack = Plus(p.seq, Extent(p))
    BY <2>1, AnswerFits DEF Reply, SegmentsOK
  <2> QED
    BY <2>1, <2>2, <2>3 DEF SegmentsOK, RepliesFit
<1>6. CASE UNCHANGED client
  BY <1>6 DEF client, SegmentsOK, RepliesFit
<1> QED
  BY <1>1, <1>2, <1>3, <1>4, <1>5, <1>6, ConnectionMoves DEF vars, client

\* Whatever is lost, doubled or late, every answer begins where the client expects
\* and acknowledges one of its segments, if the AP is big-endian.
THEOREM AnswersFit == BigEndian => (Spec => []RepliesFit)
<1> SUFFICES ASSUME BigEndian  PROVE Spec => []RepliesFit
  OBVIOUS
<1>1. Init => FitInv
  BY DEF Init, FitInv, SegmentsOK, RepliesFit
<1>2. FitInv /\ [Next]_vars => FitInv'
  BY FitStep
<1>3. FitInv => RepliesFit
  BY DEF FitInv
<1> QED
  BY <1>1, <1>2, <1>3, PTL DEF Spec

-----------------------------------------------------------------------------
(* The module in use does what PacketHook allows.                          *)

\* The script stays one, and the client keeps to the segments it may send: it closes
\* at the end of some page.
UseInv ==
  /\ plan \in Scripts
  /\ sent \subseteq OfClient
  /\ cl # "closed" => isn \in Isns /\ cut \in Cuts
  /\ cl = "open" => rcv = 1
  /\ \A r \in replies : "FIN" \in r.flags => \E u \in DOMAIN PageLen : r.len = PageLen[u]

\* What a message of a script does is what some message may do.
LEMMA ObeyedIsSent ==
  ASSUME NEW s \in Senders, NEW m \in Commands, Obey(s, m)
  PROVE  Command(s) \/ UpdateAny(s)
<1>1. CASE m.op = "switch"
  BY <1>1 DEF Obey, Commands, Command
<1>2. CASE m.op = "klog"
  BY <1>2 DEF Obey, Commands, Command
<1>3. CASE m.op = "show"
  BY <1>3 DEF Obey, Commands, Command
<1>4. CASE m.op = "portal"
  BY <1>4 DEF Obey, Commands, UpdateAny
<1>5. CASE m.op = "white"
  BY <1>5 DEF Obey, Commands, UpdateAny
<1> QED
  BY <1>1, <1>2, <1>3, <1>4, <1>5 DEF Commands

LEMMA NextIsHookNext ==
  ASSUME UseInv, [Next]_vars
  PROVE  [HookNext]_hookVars
<1> USE DEF HookNext
<1>1. CASE ClientStep
  BY <1>1 DEF ClientStep, Connect, TakeSynAck, TakePage, TakeLastAck, Take
<1>2. CASE fault = "none" /\ (Insert \/ LoadOn \/ Remove \/ UnloadOn \/ Timer)
  BY <1>2 DEF Insert, LoadOn, Remove, UnloadOn, Load, Unload
<1>3. ASSUME NEW s \in Senders, fault = "none", Send(s) \/ CopyWord(s)  PROVE HookNext
  <2>1. CASE Send(s)
    <3>1. plan.todo[s] \in Seq(Commands) /\ plan.todo[s] # <<>>
      BY <2>1 DEF Send, UseInv, Scripts
    <3>2. Head(plan.todo[s]) \in Commands
      BY <3>1
    <3> QED
      BY <1>3, <2>1, <3>2, ObeyedIsSent DEF Send
  <2> QED
    BY <1>3, <2>1
<1>4. ASSUME NEW s \in sent, fault = "none", Delivered(s)  PROVE HookNext
  <2>1. s \in InPackets /\ plan.cpus \subseteq Cpus
    BY CaptiveConstantsOK DEF UseInv, Scripts
  <2> QED
    BY <1>4, <2>1 DEF Delivered, Packet
<1>5. ASSUME NEW c \in Cpus, fault = "none",
             \/ Probe(c) \/ HookStep(c) \/ NoRedirect(c) \/ Overflow(c)
             \/ \E memory \in BOOLEAN : Answers(c, memory)
      PROVE  HookNext
  BY <1>5 DEF Probe, Packet, Answers
<1>6. CASE UNCHANGED vars
  BY <1>6 DEF vars
<1> QED
  BY <1>1, <1>2, <1>3, <1>4, <1>5, <1>6 DEF Next

\* The page in an answer is one of those the lengths are given of.
LEMMA PageIsKnown ==
  ASSUME HookInv
  PROVE  mem["portal"][0] \in DOMAIN PageLen
<1>1. PICK f \in now["portal"] : mem["portal"][0] = f[0]
  BY ListPlaces DEF HookInv, ListsOK, WordsOK, Lists
<1>2. f \in Portals \cup {Default, Zeroed("portal")}
  BY <1>1 DEF HookInv, TypeOK, Versions, Lists
<1>3. Default[0] = DefaultUrl /\ Zeroed("portal")[0] = NoUrl
  BY ListPlaces DEF Default, Zeroed
<1> QED
  BY <1>1, <1>2, <1>3, HookConstantsOK, CaptiveConstantsOK

\* Only an answer with data has FIN set.
LEMMA FinIsData ==
  ASSUME NEW p, "FIN" \in Answer(p).flags
  PROVE  Answer(p).kind = "DATA"
BY DEF Answer, Drop

LEMMA ConnectionsAreOfClient ==
  ASSUME NEW n \in Isns, NEW k \in Cuts, NEW u \in DOMAIN PageLen
  PROVE  OfConnection(n, k, u) \subseteq OfClient
BY DEF OfClient

\* A script that is counted down, or one of whose messages was sent, is one.
LEMMA CountsGoOn ==
  ASSUME plan \in Scripts, NEW i \in Nat
  PROVE  /\ plan.conns \in Nat /\ plan.probes \in Nat /\ plan.loads \in Nat
         /\ [plan EXCEPT !.conns = i] \in Scripts
         /\ [plan EXCEPT !.probes = i] \in Scripts
         /\ [plan EXCEPT !.loads = i] \in Scripts
<1>1. plan.conns \in Nat /\ plan.probes \in Nat /\ plan.loads \in Nat
  BY DEF Scripts
<1>2. [plan EXCEPT !.conns = i] \in Scripts
  BY DEF Scripts
<1>3. [plan EXCEPT !.probes = i] \in Scripts
  BY DEF Scripts
<1>4. [plan EXCEPT !.loads = i] \in Scripts
  BY DEF Scripts
<1> QED
  BY <1>1, <1>2, <1>3, <1>4

LEMMA MessagesGoOn ==
  ASSUME plan \in Scripts, NEW s \in Senders, NEW q \in Seq(Commands)
  PROVE  [plan EXCEPT !.todo[s] = q] \in Scripts
BY DEF Scripts

LEMMA UseInvStep ==
  ASSUME UseInv, HookInv, [Next]_vars
  PROVE  UseInv'
<1>1. CASE Connect
  <2>1. plan' \in Scripts
    <3>1. plan.conns \in Nat /\ plan.conns > 0 /\ plan' = [plan EXCEPT !.conns = plan.conns - 1]
      BY <1>1, CountsGoOn DEF UseInv, Connect
    <3>2. plan.conns - 1 \in Nat
      BY <3>1
    <3> QED
      BY <3>1, <3>2, CountsGoOn DEF UseInv
  <2>2. isn' \in Isns /\ cut' \in Cuts /\ cl' = "syn" /\ replies' = {}
        /\ sent' = {Segment({"SYN"}, isn', 0, 0, FALSE)}
    BY <1>1 DEF Connect
  <2>3. DefaultUrl \in DOMAIN PageLen
    BY CaptiveConstantsOK
  <2>4. sent' \subseteq OfClient
    <3>1. OfConnection(isn', cut', DefaultUrl) \subseteq OfClient
      BY <2>2, <2>3, ConnectionsAreOfClient
    <3> QED
      BY <2>2, <3>1 DEF OfConnection
  <2> QED
    BY <2>1, <2>2, <2>4 DEF UseInv
<1>2. CASE TakeSynAck
  <2>1. /\ cl = "syn" /\ cl' = "open" /\ rcv' = 1 /\ UNCHANGED <<plan, isn, cut, replies>>
        /\ sent' = sent \cup {Segment({"ACK"}, Border(isn, cut, 0), 1, 0, FALSE)} \cup Parts(isn, cut, 1)
    BY <1>2 DEF TakeSynAck, Take
  <2>2. isn \in Isns /\ cut \in Cuts /\ DefaultUrl \in DOMAIN PageLen
    BY <2>1, CaptiveConstantsOK DEF UseInv
  <2>3. sent' \subseteq OfClient
    <3>1. OfConnection(isn, cut, DefaultUrl) \subseteq OfClient
      BY <2>2, ConnectionsAreOfClient
    <3>2. sent \subseteq OfClient
      BY DEF UseInv
    <3> QED
      BY <2>1, <3>1, <3>2 DEF OfConnection
  <2> QED
    BY <2>1, <2>2, <2>3 DEF UseInv
<1>3. CASE TakePage
  <2>1. PICK r \in replies : /\ Take(r) /\ "FIN" \in r.flags /\ rcv' = Plus(rcv, r.len + 1)
    BY <1>3 DEF TakePage
  <2>2. PICK u \in DOMAIN PageLen : r.len = PageLen[u]
    BY <2>1 DEF UseInv
  <2>3. /\ cl = "open" /\ cl' = "got" /\ UNCHANGED <<plan, isn, cut, replies>>
        /\ sent' = sent \cup Closing(isn, cut, rcv')
    BY <1>3, <2>1 DEF TakePage, Take
  <2>4. rcv' = Plus(1, PageLen[u] + 1) /\ isn \in Isns /\ cut \in Cuts
    BY <2>1, <2>2, <2>3 DEF UseInv
  <2>5. sent' \subseteq OfClient
    <3>1. OfConnection(isn, cut, u) \subseteq OfClient
      BY <2>4, ConnectionsAreOfClient
    <3>2. sent \subseteq OfClient
      BY DEF UseInv
    <3> QED
      BY <2>3, <2>4, <3>1, <3>2 DEF OfConnection
  <2> QED
    BY <2>3, <2>4, <2>5 DEF UseInv
<1>4. CASE TakeLastAck
  BY <1>4 DEF TakeLastAck, Take, UseInv
<1>5. ASSUME NEW c \in Cpus, NEW memory \in BOOLEAN, Answers(c, memory)
      PROVE  UseInv'
  <2> DEFINE p == hook[c].pkt
  <2>1. /\ UNCHANGED <<plan, cl, isn, cut, rcv, sent>>
        /\ replies' \subseteq replies \cup {Reply(p, memory)}
    BY <1>5 DEF Answers
  <2>2. "FIN" \in Reply(p, memory).flags => \E u \in DOMAIN PageLen : Reply(p, memory).len = PageLen[u]
    BY FinIsData, PageIsKnown DEF Reply
  <2> QED
    BY <2>1, <2>2 DEF UseInv
<1>6. CASE UNCHANGED client /\ plan' \in Scripts
  BY <1>6 DEF UseInv, client
<1>7. ASSUME UNCHANGED client, Next \/ UNCHANGED vars, ~ClientStep  PROVE plan' \in Scripts
  <2>1. plan \in Scripts
    BY DEF UseInv
  <2>2. CASE Insert
    <3>1. plan.loads \in Nat /\ plan.loads > 0 /\ plan' = [plan EXCEPT !.loads = plan.loads - 1]
      BY <2>1, <2>2, CountsGoOn DEF Insert
    <3>2. plan.loads - 1 \in Nat
      BY <3>1
    <3> QED
      BY <2>1, <3>1, <3>2, CountsGoOn
  <2>3. ASSUME NEW s \in Senders, Send(s)  PROVE plan' \in Scripts
    <3>1. plan.todo \in [Senders -> Seq(Commands)] /\ plan.todo[s] # <<>>
      BY <2>1, <2>3 DEF Send, Scripts
    <3>2. Tail(plan.todo[s]) \in Seq(Commands)
      BY <3>1
    <3> QED
      BY <2>1, <2>3, <3>2, MessagesGoOn DEF Send
  <2>4. ASSUME NEW c \in Cpus, Probe(c)  PROVE plan' \in Scripts
    <3>1. plan.probes \in Nat /\ plan.probes > 0 /\ plan' = [plan EXCEPT !.probes = plan.probes - 1]
      BY <2>1, <2>4, CountsGoOn DEF Probe
    <3>2. plan.probes - 1 \in Nat
      BY <3>1
    <3> QED
      BY <2>1, <3>1, <3>2, CountsGoOn
  <2>5. CASE UNCHANGED plan
    BY <2>1, <2>5
  <2> QED
    BY <1>7, <2>2, <2>3, <2>4, <2>5 DEF Next, Remove, Quietly, Delivered, Answers, vars
<1> QED
  BY <1>1, <1>2, <1>3, <1>4, <1>5, <1>6, <1>7, ConnectionMoves DEF ClientStep, vars, client

\* With its scripts and its client, the module takes no step and is in no state that
\* PacketHook does not have: its theorems hold of the composition.
THEOREM CaptiveIsHook == Spec => HookSpec
<1>1. Init => HookInit /\ HookInv /\ UseInv
  BY HookInvInit, CaptiveConstantsOK DEF Init, UseInv
<1>2. UseInv /\ HookInv /\ [Next]_vars => [HookNext]_hookVars /\ (UseInv /\ HookInv)'
  BY NextIsHookNext, UseInvStep, HookInvStep
<1> QED
  BY <1>1, <1>2, PTL DEF Spec, HookSpec
=============================================================================
