--------------------------- MODULE PacketHookProofs ---------------------------
(***************************************************************************)
(* Proofs about the kernel module as PacketHook has it, among any messages *)
(* and packets. Three things are carried along: how far module init and    *)
(* exit have come bounds what may be in progress (Phases); each word of a  *)
(* list is a word of some version that may be in memory (ListsOK); and a   *)
(* hook has seen these versions and no address that keeps its slot in all  *)
(* of them among those it has passed (HooksOK).                            *)
(***************************************************************************)
EXTENDS PacketHook, TLAPS

Serves == {"nl", "fs", "rd", "in", "run"}
Late == {"unnl", "deleted", "freed", "out"}
Gone == {"freed", "out"}

Phases ==
  /\ \A c \in Cpus : hook[c].pc \in InPcs => mpc \in {"in", "run", "off", "unin"}
  /\ \A c \in Cpus : hook[c].pc \in OutPcs => mpc \in {"run", "off", "unin", "unout"}
  /\ \A c \in Cpus : hook[c].pc # "free" => sk
  /\ switch => sk /\ mpc \in Serves
  /\ mpc \notin Serves => \A s \in Senders : handler[s] = NoJob
  /\ hash = "freed" => mpc \in Gone
  /\ mpc = "nl" => timer = "off"
  /\ timer # "off" => hash = "ready" \/ mpc \in Gone
  /\ ~sk => mpc \in Late \/ \A u \in Stations : session[u] = "NONE"
  /\ OnlyTheTimerIsLate

\* A message that is alone has put its words where it has been.
JobOK(s) ==
  LET j == handler[s]
  IN j.list # "none" =>
       /\ j.new \in now[j.list]
       /\ j.list = "portal" => j.new \in Portals
       /\ j.alone => /\ \A i \in Places(j.list) \ j.left : mem[j.list][i] = j.new[i]
                     /\ \A t \in Senders \ {s} : handler[t].list # j.list

WordsOK == \A l \in Lists : \A i \in Places(l) : \E f \in now[l] : mem[l][i] = f[i]

ListsOK == WordsOK /\ \A s \in Senders : JobOK(s)

\* The addresses in front of where the hook has come.
Passed(c, l) ==
  CASE hook[c].pc = l -> {j \in Places(l) : j < hook[c].idx}
    [] hook[c].pc \in {"match", "reply"} \/ (hook[c].pc = "white" /\ l = "portal") -> Places(l)
    [] OTHER -> {}

HooksOK ==
  \A c \in Cpus, l \in Lists : hook[c].pc # "free" =>
    /\ now[l] \subseteq seen[c][l]
    /\ \A j \in Passed(c, l) : ~Stable(c, l, j, Wanted(c))

HookInv == TypeOK /\ Phases /\ ListsOK /\ HooksOK

-----------------------------------------------------------------------------
(* Constants.                                                              *)

LEMMA ListPlaces ==
  /\ Places("portal") = 0 .. Slots /\ Places("white") = 0 .. Size
  /\ Slots \in Nat \ {0} /\ Size \in Nat \ {0}
  /\ \A l \in Lists : 0 \in Places(l) /\ 1 \in Places(l)
BY HookConstantsOK DEF Places, Lists

\* Every version of a list is a function to values, and the default one too.
LEMMA VersionsTyped ==
  ASSUME NEW l \in Lists
  PROVE  /\ Versions(l) \subseteq [Places(l) -> Values]
         /\ Zeroed(l) \in Versions(l) /\ Default \in Versions("portal")
         /\ Portals \subseteq Versions("portal") /\ Whites \subseteq Versions("white")
<1>1. Zeroed("portal") \in [0 .. Slots -> Values] /\ Zeroed("white") \in [0 .. Size -> Values]
  BY ListPlaces DEF Zeroed, Values
<1>2. Default \in [0 .. Slots -> Values]
  BY <1>1, ListPlaces DEF Default, Values
<1> QED
  BY <1>1, <1>2, HookConstantsOK, ListPlaces DEF Versions, Lists

\* In a version of the white list the number is one, and what is behind it empty.
LEMMA WhiteVersions ==
  ASSUME NEW f \in Versions("white")
  PROVE  f[0] \in 0 .. Size /\ \A i \in 1 .. Size : i > f[0] => f[i] = NoAddr
<1>1. Zeroed("white")[0] = 0 /\ \A i \in 1 .. Size : Zeroed("white")[i] = NoAddr
  BY ListPlaces DEF Zeroed
<1> QED
  BY <1>1, HookConstantsOK DEF Versions

LEMMA NoJobTyped == NoJob \in Jobs /\ NoJob.list = "none"
BY VersionsTyped DEF NoJob, Jobs, Lists

\* What is looked for is an address.
LEMMA AddressWanted ==
  /\ \A a \in Addrs : Ntohl(a) \in Addrs
  /\ \A p \in InPackets : p.dst \in Addrs
  /\ \A p \in OutPackets : p.src \in Addrs
BY HookConstantsOK DEF Ntohl

-----------------------------------------------------------------------------
(* Steps.                                                                  *)

\* Every step is one of these.
LEMMA Cases ==
  ASSUME HookNext
  PROVE  \/ Load \/ Unload \/ Timer
         \/ \E s \in Senders : Command(s) \/ UpdateAny(s) \/ CopyWord(s)
         \/ \E c \in Cpus : \/ Packet(c) \/ HookStep(c)
                             \/ Redirect(c) \/ NoRedirect(c) \/ Overflow(c)
BY DEF HookNext

\* What a step does to the hooks: one of them enters, goes on or leaves.
LEMMA HooksMove ==
  ASSUME TypeOK, NEW c \in Cpus,
         Packet(c) \/ HookStep(c) \/ Redirect(c) \/ NoRedirect(c) \/ Overflow(c)
  PROVE  /\ UNCHANGED <<life, conf>>
         /\ \A d \in Cpus \ {c} : hook'[d] = hook[d] /\ seen'[d] = seen[d]
         /\ \/ /\ hook'[c].pc \in InPcs
               /\ \/ hook[c].pc \in InPcs
                  \/ hook[c] = Free /\ mpc \in {"in", "run", "off"} /\ switch
            \/ /\ hook'[c].pc \in OutPcs
               /\ \/ hook[c].pc \in OutPcs
                  \/ hook[c] = Free /\ mpc \in {"run", "off", "unin"} /\ switch
            \/ hook'[c] = Free /\ hook[c].pc # "free"
<1>1. CASE Packet(c)
  BY <1>1 DEF Packet, InHook, OutHook, Transparent, Enter, TypeOK, InPcs, OutPcs
<1>2. CASE ScanPortal(c)
  BY <1>2 DEF ScanPortal, Leave, TypeOK, InPcs, OutPcs
<1>3. CASE ScanWhite(c)
  BY <1>3 DEF ScanWhite, Miss, Goto, Leave, TypeOK, InPcs, OutPcs
<1>4. CASE Match(c)
  BY <1>4 DEF Match, Goto, Leave, TypeOK, InPcs, OutPcs, run
<1>5. CASE ScanOut(c)
  BY <1>5 DEF ScanOut, Goto, Leave, TypeOK, InPcs, OutPcs
<1>6. CASE Parse(c)
  BY <1>6 DEF Parse, Goto, Leave, TypeOK, InPcs, OutPcs, run
<1>7. CASE Up(c)
  BY <1>7 DEF Up, Leave, TypeOK, InPcs, OutPcs, run
<1>8. CASE Redirect(c) \/ NoRedirect(c) \/ Overflow(c)
  BY <1>8 DEF Redirect, NoRedirect, Overflow, Leave, TypeOK, InPcs, OutPcs, run
<1> QED
  BY <1>1, <1>2, <1>3, <1>4, <1>5, <1>6, <1>7, <1>8 DEF HookStep

\* Phases are kept.
LEMMA PhasesStep ==
  ASSUME TypeOK, Phases, HookNext
  PROVE  Phases'
<1> USE DEF Serves, Late, Gone
<1>0. fault = "none"
  BY DEF HookNext
<1>1. CASE Load
  <2>1. CASE NlInit
    BY <1>0, <2>1 DEF NlInit, Fresh, Phases, OnlyTheTimerIsLate, run, TypeOK, InPcs, OutPcs
  <2>2. CASE SessionInit
    BY <1>0, <2>2 DEF SessionInit, Phases, OnlyTheTimerIsLate, run, conf
  <2>3. CASE RedirectorInit
    BY <1>0, <2>3 DEF RedirectorInit, Phases, OnlyTheTimerIsLate, run
  <2>4. CASE HookIn \/ HookOut
    BY <1>0, <2>4 DEF HookIn, HookOut, Advance, Phases, OnlyTheTimerIsLate, run, conf
  <2> QED
    BY <1>1, <2>1, <2>2, <2>3, <2>4 DEF Load
<1>2. CASE Unload
  <2>1. CASE SwitchOff
    BY <1>0, <2>1 DEF SwitchOff, Advance, Phases, OnlyTheTimerIsLate, run
  <2>2. CASE UnhookIn
    BY <1>0, <2>2 DEF UnhookIn, Advance, Phases, OnlyTheTimerIsLate, run, conf
  <2>3. CASE UnhookOut
    BY <1>0, <2>3 DEF UnhookOut, InBusy, Advance, Phases, OnlyTheTimerIsLate, run, conf
  <2>4. CASE NlExit
    <3>1. \A c \in Cpus : hook[c].pc = "free"
      BY <2>4 DEF NlExit, Advance, OutBusy, Phases, TypeOK
    <3> QED
      BY <1>0, <2>4, <3>1 DEF NlExit, Advance, Phases, OnlyTheTimerIsLate, run, conf, InPcs, OutPcs
  <2>5. CASE DelAll
    BY <1>0, <2>5 DEF DelAll, Breaks, Advance, Phases, OnlyTheTimerIsLate, run, conf, TypeOK
  <2>6. CASE FreeHash \/ DelTimer
    BY <1>0, <2>6 DEF FreeHash, DelTimer, Advance, Phases, OnlyTheTimerIsLate, run, conf, TypeOK
  <2> QED
    BY <1>2, <2>1, <2>2, <2>3, <2>4, <2>5, <2>6 DEF Unload
<1>3. CASE Timer
  <2>1. CASE TimerFires
    BY <1>0, <2>1 DEF TimerFires, Phases, OnlyTheTimerIsLate, run, conf
  <2>2. CASE Walk
    BY <1>0, <2>2 DEF Walk, SendsNowhere, Breaks, Phases, OnlyTheTimerIsLate, run, conf, life
  <2>3. CASE Rearm
    BY <1>0, <2>3 DEF Rearm, Breaks, Phases, OnlyTheTimerIsLate, run, conf
  <2> QED
    BY <1>3, <2>1, <2>2, <2>3 DEF Timer
<1>4. ASSUME NEW s \in Senders, Command(s) \/ UpdateAny(s) \/ CopyWord(s)  PROVE Phases'
  <2>1. CASE Command(s)
    BY <1>0, <2>1 DEF Command, SetSwitch, SetKlog, ShowOnlineUser, Breaks, Sends, Listening, Phases,
       OnlyTheTimerIsLate, run, conf, life, TypeOK
  <2>2. CASE UpdateAny(s)
    BY <1>0, <2>2 DEF UpdateAny, Update, Sends, Listening, Phases, OnlyTheTimerIsLate, life
  <2>3. CASE CopyWord(s)
    <3>1. mpc \in Serves
      BY <2>3 DEF CopyWord, Phases, NoJob
    <3> QED
      BY <1>0, <2>3, <3>1 DEF CopyWord, Phases, OnlyTheTimerIsLate, life, run
  <2> QED
    BY <1>4, <2>1, <2>2, <2>3
<1>5. ASSUME NEW c \in Cpus, Packet(c) \/ HookStep(c) \/ Redirect(c) \/ NoRedirect(c) \/ Overflow(c)
      PROVE  Phases'
  <2>1. /\ fault' = "hash" => hash = "null"
        /\ fault' # "timer"
        /\ ~sk => UNCHANGED session
    <3>1. hook[c].pc # "free" => sk /\ hash # "freed"
      BY DEF Phases, TypeOK
    <3> QED
      BY <1>0, <1>5, <3>1 DEF Packet, InHook, OutHook, HookStep, ScanPortal, ScanWhite, Match,
         ScanOut, Parse, Up, Redirect, NoRedirect, Overflow, Breaks, TypeOK
  <2> QED
    BY <1>5, <2>1, HooksMove DEF Phases, OnlyTheTimerIsLate, life, conf, Free, InPcs, OutPcs
<1> QED
  BY <1>1, <1>2, <1>3, <1>4, <1>5, Cases

\* What a step does to the lists in memory, if anything.
LEMMA ListsMove ==
  ASSUME HookNext
  PROVE  \/ NlInit \/ RedirectorInit
         \/ \E s \in Senders, l \in Lists : \E f \in Versions(l) :
              Update(s, l, f) /\ (l = "portal" => f \in Portals)
         \/ \E s \in Senders : CopyWord(s)
         \/ UNCHANGED <<mem, now, handler>>
<1>1. CASE Load
  BY <1>1 DEF Load, SessionInit, HookIn, HookOut, conf
<1>2. CASE Unload
  BY <1>2 DEF Unload, SwitchOff, UnhookIn, UnhookOut, NlExit, DelAll, FreeHash, DelTimer, conf
<1>3. CASE Timer
  BY <1>3 DEF Timer, TimerFires, Walk, Rearm, conf
<1>4. ASSUME NEW s \in Senders, Command(s)  PROVE UNCHANGED <<mem, now, handler>>
  BY <1>4 DEF Command, SetSwitch, SetKlog, ShowOnlineUser, conf
<1>5. ASSUME NEW s \in Senders, UpdateAny(s)
      PROVE  \E l \in Lists : \E f \in Versions(l) : Update(s, l, f) /\ (l = "portal" => f \in Portals)
  BY <1>5, VersionsTyped DEF UpdateAny, Lists
<1>6. ASSUME NEW c \in Cpus, Packet(c) \/ HookStep(c) \/ Redirect(c) \/ NoRedirect(c) \/ Overflow(c)
      PROVE  UNCHANGED <<mem, now, handler>>
  BY <1>6 DEF Packet, InHook, OutHook, HookStep, ScanPortal, ScanWhite, Match, ScanOut, Parse, Up,
     Redirect, NoRedirect, Overflow, conf
<1> QED
  BY <1>1, <1>2, <1>3, <1>4, <1>5, <1>6, Cases

LEMMA FreshLists ==
  ASSUME NEW m, NEW v, m = [l \in Lists |-> Zeroed(l)], v = [l \in Lists |-> {Zeroed(l)}]
  PROVE  \A l \in Lists : \A i \in Places(l) : \E f \in v[l] : m[l][i] = f[i]
OBVIOUS

LEMMA ListsStep ==
  ASSUME TypeOK, Phases, ListsOK, HookNext
  PROVE  ListsOK'
<1>1. CASE NlInit
  <2>1. WordsOK'
    BY <1>1, FreshLists DEF NlInit, Fresh, WordsOK
  <2>2. \A s \in Senders : handler'[s].list = "none"
    BY <1>1, NoJobTyped DEF NlInit, Phases, Serves
  <2> QED
    BY <2>1, <2>2 DEF ListsOK, JobOK
<1>2. CASE RedirectorInit
  <2>1. /\ mem'["white"] = mem["white"] /\ now'["white"] = now["white"]
        /\ mem'["portal"][0] = DefaultUrl /\ mem'["portal"][1] = NoAddr
        /\ \A i \in 2 .. Slots : mem'["portal"][i] = mem["portal"][i]
        /\ now'["portal"] = IF now["portal"] = {Zeroed("portal")} THEN {Default}
                            ELSE now["portal"] \cup {Default}
    BY <1>2, ListPlaces DEF RedirectorInit, TypeOK, Lists
  <2>2. Default[0] = DefaultUrl /\ \A i \in 1 .. Slots : Default[i] = NoAddr /\ Zeroed("portal")[i] = NoAddr
    BY ListPlaces DEF Default, Zeroed
  <2>3. Default \in now'["portal"]
    BY <2>1
  <2>4. WordsOK'
    <3>1. \A i \in Places("white") : \E f \in now'["white"] : mem'["white"][i] = f[i]
      BY <2>1 DEF ListsOK, WordsOK, Lists
    <3>2. \A i \in {0, 1} : mem'["portal"][i] = Default[i]
      BY <2>1, <2>2, ListPlaces
    <3>3. ASSUME NEW i \in 2 .. Slots  PROVE \E f \in now'["portal"] : mem'["portal"][i] = f[i]
      <4>1. PICK f \in now["portal"] : mem["portal"][i] = f[i]
        BY <3>3, ListPlaces DEF ListsOK, WordsOK, Lists
      <4>2. CASE now["portal"] = {Zeroed("portal")}
        BY <4>1, <4>2, <2>1, <2>2, <2>3, ListPlaces
      <4>3. CASE now["portal"] # {Zeroed("portal")}
        BY <4>1, <4>3, <2>1
      <4> QED
        BY <4>2, <4>3
    <3> QED
      BY <3>1, <3>2, <3>3, <2>3, ListPlaces DEF WordsOK, Lists
  <2>5. ASSUME NEW s \in Senders  PROVE JobOK(s)'
    <3>1. /\ handler'[s].list = handler[s].list /\ handler'[s].new = handler[s].new
          /\ handler'[s].left = handler[s].left
          /\ handler'[s].alone => handler[s].alone /\ handler[s].list # "portal"
      BY <1>2 DEF RedirectorInit, TypeOK, Jobs
    <3>2. \A t \in Senders : handler'[t].list = handler[t].list
      BY <1>2 DEF RedirectorInit, TypeOK, Jobs
    <3>3. JobOK(s)
      BY DEF ListsOK
    <3>4. handler[s].list \in {"none", "portal", "white"}
      BY DEF TypeOK, Jobs, Lists
    <3>5. CASE handler[s].list = "portal"
      <4>1. handler[s].new \in Portals /\ handler[s].new \in now["portal"]
        BY <3>3, <3>5 DEF JobOK
      <4>2. handler[s].new # Zeroed("portal")
        BY <4>1, HookConstantsOK, ListPlaces DEF Zeroed
      <4>3. handler[s].new \in now'["portal"]
        BY <4>1, <4>2, <2>1
      <4> QED
        BY <3>1, <3>5, <4>1, <4>3 DEF JobOK
    <3>6. CASE handler[s].list = "white"
      BY <3>1, <3>2, <3>3, <3>6, <2>1 DEF JobOK
    <3> QED
      BY <3>1, <3>4, <3>5, <3>6 DEF JobOK
  <2> QED
    BY <2>4, <2>5 DEF ListsOK
<1>3. ASSUME NEW s \in Senders, NEW l \in Lists, NEW f \in Versions(l),
             Update(s, l, f), l = "portal" => f \in Portals
      PROVE  ListsOK'
  <2>1. /\ mem' = mem /\ now'[l] = now[l] \cup {f}
        /\ \A k \in Lists \ {l} : now'[k] = now[k]
    BY <1>3 DEF Update, TypeOK
  <2>2. /\ handler'[s] = [list |-> l, new |-> f, left |-> Places(l),
                          alone |-> \A t \in Senders : handler[t].list # l]
        /\ \A t \in Senders \ {s} :
             /\ handler'[t].list = handler[t].list /\ handler'[t].new = handler[t].new
             /\ handler'[t].left = handler[t].left
             /\ handler'[t].alone => handler[t].alone /\ handler[t].list # l
    <3>1. handler' = [t \in Senders |->
            IF t = s THEN [list |-> l, new |-> f, left |-> Places(l),
                           alone |-> {r \in Senders : handler[r].list = l} = {}]
            ELSE IF handler[t].list = l THEN [handler[t] EXCEPT !.alone = FALSE] ELSE handler[t]]
      BY <1>3 DEF Update
    <3>2. ({r \in Senders : handler[r].list = l} = {}) <=> \A t \in Senders : handler[t].list # l
      OBVIOUS
    <3>3. ({r \in Senders : handler[r].list = l} = {}) = (\A t \in Senders : handler[t].list # l)
      BY <3>2
    <3>4. \A t \in Senders : handler[t] \in Jobs
      BY DEF TypeOK
    <3>5. ASSUME NEW t \in Senders \ {s}
          PROVE  /\ handler'[t].list = handler[t].list /\ handler'[t].new = handler[t].new
                 /\ handler'[t].left = handler[t].left
                 /\ handler'[t].alone => handler[t].alone /\ handler[t].list # l
      BY <3>1, <3>4 DEF Jobs
    <3> QED
      BY <3>1, <3>3, <3>5
  <2>3. WordsOK'
    BY <2>1 DEF WordsOK, ListsOK
  <2>4. JobOK(s)'
    BY <1>3, <2>1, <2>2 DEF JobOK
  <2>5. ASSUME NEW t \in Senders \ {s}  PROVE JobOK(t)'
    <3>1. JobOK(t) /\ handler[t].list \in Lists \cup {"none"}
      BY DEF ListsOK, TypeOK, Jobs
    <3> QED
      BY <3>1, <2>1, <2>2 DEF JobOK
  <2> QED
    BY <2>3, <2>4, <2>5 DEF ListsOK
<1>4. ASSUME NEW s \in Senders, CopyWord(s)  PROVE ListsOK'
  <2> DEFINE j == handler[s]  l == j.list
  <2>1. PICK i \in j.left :
          /\ mem' = [mem EXCEPT ![l] = [@ EXCEPT ![i] = j.new[i]]]
          /\ handler' = [handler EXCEPT ![s] =
               IF j.left \ {i} = {} THEN NoJob ELSE [j EXCEPT !.left = j.left \ {i}]]
          /\ now' = IF j.left \ {i} = {} /\ j.alone THEN [now EXCEPT ![l] = {j.new}] ELSE now
    BY <1>4 DEF CopyWord, Copied
  <2>2. j \in Jobs /\ l \in Lists /\ i \in Places(l) /\ JobOK(s)
    BY <2>1 DEF TypeOK, Jobs, ListsOK
  <2>3. /\ mem'[l][i] = j.new[i]
        /\ \A k \in Places(l) \ {i} : mem'[l][k] = mem[l][k]
        /\ \A m \in Lists \ {l} : mem'[m] = mem[m] /\ now'[m] = now[m]
    BY <2>1, <2>2 DEF TypeOK
  <2>4. \A t \in Senders \ {s} : handler'[t] = handler[t]
    BY <2>1
  <2>5. j.new \in now[l] /\ now'[l] \in {now[l], {j.new}}
    BY <2>1, <2>2 DEF JobOK, TypeOK, Lists
  <2>6. \A m \in Places(l) : j.alone /\ j.left \ {i} = {} => mem'[l][m] = j.new[m]
    BY <2>2, <2>3 DEF JobOK, Lists
  <2>7. WordsOK'
    <3>1. ASSUME NEW k \in Places(l)  PROVE \E f \in now'[l] : mem'[l][k] = f[k]
      <4>1. CASE j.left \ {i} = {} /\ j.alone
        BY <4>1, <2>1, <2>2, <2>6 DEF TypeOK
      <4>2. CASE ~(j.left \ {i} = {} /\ j.alone)
        <5>1. now' = now
          BY <4>2, <2>1
        <5> QED
          BY <5>1, <2>2, <2>3, <2>5 DEF ListsOK, WordsOK
      <4> QED
        BY <4>1, <4>2
    <3> QED
      BY <3>1, <2>3 DEF ListsOK, WordsOK
  <2>8. JobOK(s)'
    <3>1. CASE j.left \ {i} = {}
      <4>1. handler'[s].list = "none"
        BY <3>1, <2>1, NoJobTyped DEF TypeOK
      <4> QED
        BY <4>1 DEF JobOK
    <3>2. CASE j.left \ {i} # {}
      <4>1. /\ handler'[s].list = l /\ handler'[s].new = j.new /\ handler'[s].alone = j.alone
            /\ handler'[s].left = j.left \ {i}
            /\ now' = now
        BY <3>2, <2>1, <2>2 DEF TypeOK, Jobs
      <4> QED
        BY <4>1, <2>2, <2>3, <2>4 DEF JobOK, Lists
    <3> QED
      BY <3>1, <3>2
  <2>9. ASSUME NEW t \in Senders \ {s}  PROVE JobOK(t)'
    <3>1. JobOK(t) /\ handler[t].list \in Lists \cup {"none"} /\ handler[t] \in Jobs
      BY DEF ListsOK, TypeOK, Jobs
    <3>2. handler'[s].list \in {l, "none"}
      BY <2>1, <2>2, NoJobTyped DEF TypeOK, Jobs
    <3>3. CASE handler[t].list = l
      <4>1. ~j.alone /\ ~handler[t].alone
        BY <3>1, <3>3, <2>2 DEF JobOK, Lists
      <4>2. now' = now
        BY <4>1, <2>1
      <4> QED
        BY <3>1, <3>3, <4>1, <4>2, <2>2, <2>4 DEF JobOK, Lists
    <3>4. CASE handler[t].list \in Lists \ {l}
      <4>1. handler'[t] = handler[t] /\ now'[handler[t].list] = now[handler[t].list]
            /\ mem'[handler[t].list] = mem[handler[t].list]
        BY <3>4, <2>3, <2>4
      <4>2. \A r \in Senders \ {t} : handler[r].list # handler[t].list =>
                                     handler'[r].list # handler[t].list
        BY <3>2, <3>4, <2>4 DEF Lists
      <4> QED
        BY <3>1, <3>4, <4>1, <4>2 DEF JobOK, Lists
    <3>5. CASE handler[t].list = "none"
      BY <3>5, <2>4 DEF JobOK
    <3> QED
      BY <3>1, <3>3, <3>4, <3>5
  <2> QED
    BY <2>7, <2>8, <2>9 DEF ListsOK
<1> QED
  BY <1>1, <1>2, <1>3, <1>4, ListsMove DEF ListsOK, WordsOK, JobOK

\* number in memory is one of the white list's.
LEMMA NumberInMemory ==
  ASSUME TypeOK, WordsOK
  PROVE  mem["white"][0] \in 0 .. Size
<1>1. PICK f \in now["white"] : mem["white"][0] = f[0]
  BY ListPlaces DEF WordsOK, Lists
<1>2. f \in Versions("white")
  BY <1>1 DEF TypeOK, Lists
<1> QED
  BY <1>1, <1>2, WhiteVersions

\* The types of the lists and of the messages.
ListTypes ==
  /\ handler \in [Senders -> Jobs]
  /\ \A s \in Senders :
       IF handler[s].list = "none" THEN handler[s].left = {}
       ELSE /\ handler[s].new \in Versions(handler[s].list)
            /\ handler[s].left \subseteq Places(handler[s].list)
  /\ DOMAIN mem = Lists /\ \A l \in Lists : mem[l] \in [Places(l) -> Values]
  /\ DOMAIN now = Lists /\ \A l \in Lists : now[l] \subseteq Versions(l)

LEMMA ListTypesStep ==
  ASSUME TypeOK, HookNext
  PROVE  ListTypes'
<1>0. ListTypes
  BY DEF TypeOK, ListTypes
<1> USE DEF ListTypes
<1>1. CASE NlInit
  BY <1>0, <1>1, VersionsTyped DEF NlInit, Fresh, Lists
<1>2. CASE RedirectorInit
  <2>1. handler' \in [Senders -> Jobs]
    <3>1. ASSUME NEW s \in Senders, NEW b \in BOOLEAN  PROVE [handler[s] EXCEPT !.alone = b] \in Jobs
      BY <1>0 DEF Jobs
    <3>2. \A s \in Senders : (handler[s].alone /\ handler[s].list # "portal") \in BOOLEAN
      OBVIOUS
    <3>3. handler' = [s \in Senders |->
            [handler[s] EXCEPT !.alone = handler[s].alone /\ handler[s].list # "portal"]]
      BY <1>2 DEF RedirectorInit
    <3> QED
      BY <3>1, <3>2, <3>3
  <2>2. \A s \in Senders : /\ handler'[s].list = handler[s].list
                           /\ handler'[s].new = handler[s].new /\ handler'[s].left = handler[s].left
    BY <1>0, <1>2 DEF RedirectorInit, Jobs
  <2>3. DOMAIN mem' = Lists /\ \A l \in Lists : mem'[l] \in [Places(l) -> Values]
    BY <1>0, <1>2, ListPlaces DEF RedirectorInit, Lists, Values
  <2>4. DOMAIN now' = Lists /\ \A l \in Lists : now'[l] \subseteq Versions(l)
    BY <1>0, <1>2, VersionsTyped DEF RedirectorInit, Lists
  <2> QED
    BY <1>0, <2>1, <2>2, <2>3, <2>4
<1>3. ASSUME NEW s \in Senders, NEW l \in Lists, NEW f \in Versions(l), Update(s, l, f)
      PROVE  ListTypes'
  <2>1. [list |-> l, new |-> f, left |-> Places(l),
         alone |-> {t \in Senders : handler[t].list = l} = {}] \in Jobs
    BY ListPlaces DEF Jobs, Lists
  <2>2. handler' \in [Senders -> Jobs]
    <3>1. \A t \in Senders : [handler[t] EXCEPT !.alone = FALSE] \in Jobs
      BY <1>0 DEF Jobs
    <3> QED
      BY <1>0, <1>3, <2>1, <3>1 DEF Update
  <2>3. l # "none"
    BY DEF Lists
  <2>4. ASSUME NEW t \in Senders
        PROVE  IF handler'[t].list = "none" THEN handler'[t].left = {}
               ELSE /\ handler'[t].new \in Versions(handler'[t].list)
                    /\ handler'[t].left \subseteq Places(handler'[t].list)
    BY <1>0, <1>3, <2>3 DEF Update, Jobs
  <2> QED
    BY <1>0, <1>3, <2>2, <2>4 DEF Update
<1>4. ASSUME NEW s \in Senders, CopyWord(s)  PROVE ListTypes'
  <2> DEFINE j == handler[s]  l == j.list
  <2>1. PICK i \in j.left :
          /\ mem' = [mem EXCEPT ![l] = [@ EXCEPT ![i] = j.new[i]]]
          /\ handler' = [handler EXCEPT ![s] =
               IF j.left \ {i} = {} THEN NoJob ELSE [j EXCEPT !.left = j.left \ {i}]]
          /\ now' = IF j.left \ {i} = {} /\ j.alone THEN [now EXCEPT ![l] = {j.new}] ELSE now
    BY <1>4 DEF CopyWord, Copied
  <2>2. j \in Jobs /\ l \in Lists /\ i \in Places(l) /\ j.new \in Versions(l)
    BY <1>0, <2>1 DEF Jobs
  <2>3. j.new[i] \in Values
    BY <2>2, VersionsTyped
  <2>4. \A t \in Senders \ {s} : handler'[t] = handler[t]
    BY <2>1
  <2>5. handler' \in [Senders -> Jobs]
    BY <1>0, <2>1, <2>2, NoJobTyped DEF Jobs
  <2>6. IF handler'[s].list = "none" THEN handler'[s].left = {}
        ELSE /\ handler'[s].new \in Versions(handler'[s].list)
             /\ handler'[s].left \subseteq Places(handler'[s].list)
    BY <1>0, <2>1, <2>2 DEF NoJob, Jobs, Lists
  <2>7. DOMAIN mem' = Lists /\ \A m \in Lists : mem'[m] \in [Places(m) -> Values]
    BY <1>0, <2>1, <2>2, <2>3
  <2>8. DOMAIN now' = Lists /\ \A m \in Lists : now'[m] \subseteq Versions(m)
    BY <1>0, <2>1, <2>2
  <2> QED
    BY <1>0, <2>4, <2>5, <2>6, <2>7, <2>8
<1>5. CASE UNCHANGED <<mem, now, handler>>
  BY <1>0, <1>5
<1> QED
  BY <1>1, <1>2, <1>3, <1>4, <1>5, ListsMove

\* The types of the hooks and of what they have seen.
HookTypes ==
  /\ hook \in [Cpus -> [pc : {"free"} \cup InPcs \cup OutPcs,
                        pkt : InPackets \cup OutPackets \cup {NoPacket}, idx : Nat]]
  /\ \A c \in Cpus :
       /\ hook[c].pc = "free" => hook[c] = Free
       /\ hook[c].pc \in InPcs => hook[c].pkt \in InPackets
       /\ hook[c].pc \in OutPcs => hook[c].pkt \in OutPackets
       /\ hook[c].pc \in {"portal", "scan"} => hook[c].idx \in 1 .. Slots
       /\ hook[c].pc = "white" => hook[c].idx \in 1 .. Size + 1
  /\ DOMAIN seen = Cpus
  /\ \A c \in Cpus : DOMAIN seen[c] = Lists /\ \A l \in Lists : seen[c][l] \subseteq Versions(l)

\* Outside the hooks only a message changes what they have seen.
LEMMA HooksRest ==
  ASSUME HookNext
  PROVE  \/ \E c \in Cpus : Packet(c) \/ HookStep(c) \/ Redirect(c) \/ NoRedirect(c) \/ Overflow(c)
         \/ hook' = hook /\ seen' = seen
         \/ \E s \in Senders, l \in Lists : \E f \in Versions(l) : Update(s, l, f)
<1>1. CASE Load
  BY <1>1 DEF Load, NlInit, SessionInit, RedirectorInit, HookIn, HookOut, run
<1>2. CASE Unload
  BY <1>2 DEF Unload, SwitchOff, UnhookIn, UnhookOut, NlExit, DelAll, FreeHash, DelTimer, run
<1>3. CASE Timer
  BY <1>3 DEF Timer, TimerFires, Walk, Rearm, run
<1>4. ASSUME NEW s \in Senders, Command(s) \/ CopyWord(s)  PROVE hook' = hook /\ seen' = seen
  BY <1>4 DEF Command, SetSwitch, SetKlog, ShowOnlineUser, CopyWord, run
<1>5. ASSUME NEW s \in Senders, UpdateAny(s)
      PROVE  \E l \in Lists : \E f \in Versions(l) : Update(s, l, f)
  BY <1>5, VersionsTyped DEF UpdateAny, Lists
<1> QED
  BY <1>1, <1>2, <1>3, <1>4, <1>5, Cases

LEMMA FreeTyped ==
  Free \in [pc : {"free"} \cup InPcs \cup OutPcs,
            pkt : InPackets \cup OutPackets \cup {NoPacket}, idx : Nat]
BY DEF Free

LEMMA HookTypesStep ==
  ASSUME TypeOK, WordsOK, HookNext
  PROVE  HookTypes'
<1>0. HookTypes
  BY DEF TypeOK, HookTypes
<1>1. ASSUME NEW c \in Cpus, Packet(c) \/ HookStep(c) \/ Redirect(c) \/ NoRedirect(c) \/ Overflow(c)
      PROVE  HookTypes'
  <2>1. CASE Leave(c)
    BY <1>0, <2>1, FreeTyped DEF HookTypes, Leave, Unseen, InPcs, OutPcs, Free
  <2>2. CASE Packet(c)
    <3>1. ASSUME NEW l, NEW p, Enter(c, l, p),
                 (l = "portal" /\ p \in InPackets) \/ (l = "scan" /\ p \in OutPackets)
          PROVE  HookTypes'
      <4>1. [pc |-> l, pkt |-> p, idx |-> 1] \in
              [pc : {"free"} \cup InPcs \cup OutPcs,
               pkt : InPackets \cup OutPackets \cup {NoPacket}, idx : Nat]
        BY <3>1 DEF InPcs, OutPcs
      <4>2. DOMAIN now = Lists /\ \A k \in Lists : now[k] \subseteq Versions(k)
        BY DEF TypeOK
      <4> QED
        BY <1>0, <3>1, <4>1, <4>2, ListPlaces DEF HookTypes, Enter, InPcs, OutPcs
    <3>2. ASSUME NEW p \in InPackets, InHook(c, p)  PROVE HookTypes'
      <4>1. Enter(c, "portal", p)
        BY <3>2 DEF InHook
      <4> QED
        BY <3>1, <4>1
    <3>3. ASSUME NEW p \in OutPackets, OutHook(c, p)  PROVE HookTypes'
      <4>1. Enter(c, "scan", p)
        BY <3>3 DEF OutHook
      <4> QED
        BY <3>1, <4>1
    <3> QED
      BY <2>2, <3>2, <3>3 DEF Packet
  <2>3. ASSUME NEW l \in {"match", "reply"}, Goto(c, l), hook[c].pc \in InPcs  PROVE HookTypes'
    BY <1>0, <2>3 DEF HookTypes, Goto, InPcs, OutPcs
  <2>4. ASSUME NEW l \in {"parse", "up"}, Goto(c, l), hook[c].pc \in OutPcs  PROVE HookTypes'
    BY <1>0, <2>4 DEF HookTypes, Goto, InPcs, OutPcs
  <2>5. CASE hook' = hook /\ seen' = seen
    BY <1>0, <2>5 DEF HookTypes
  <2>6. CASE ScanPortal(c)
    <3>1. ASSUME hook' = [hook EXCEPT ![c].idx = hook[c].idx + 1], seen' = seen,
                 hook[c].pc = "portal", hook[c].idx < Slots
          PROVE  HookTypes'
      BY <1>0, <3>1, ListPlaces DEF HookTypes, InPcs, OutPcs
    <3>2. ASSUME hook' = [hook EXCEPT ![c] = [pc |-> "white", pkt |-> @.pkt, idx |-> 1]], seen' = seen,
                 hook[c].pc = "portal"
          PROVE  HookTypes'
      BY <1>0, <3>2, ListPlaces DEF HookTypes, InPcs, OutPcs
    <3> QED
      BY <2>1, <2>6, <3>1, <3>2 DEF ScanPortal, LastSlot
  <2>7. CASE ScanWhite(c)
    <3>1. mem["white"][0] \in 0 .. Size
      BY NumberInMemory
    <3>2. ASSUME hook' = [hook EXCEPT ![c].idx = hook[c].idx + 1], seen' = seen,
                 hook[c].pc = "white", hook[c].idx <= mem["white"][0]
          PROVE  HookTypes'
      BY <1>0, <3>1, <3>2, ListPlaces DEF HookTypes, InPcs, OutPcs
    <3> QED
      BY <2>1, <2>3, <2>7, <3>2 DEF ScanWhite, InList, Miss, InPcs
  <2>8. CASE Match(c)
    BY <2>1, <2>3, <2>5, <2>8 DEF Match, InPcs, run
  <2>9. CASE ScanOut(c)
    <3>1. ASSUME hook' = [hook EXCEPT ![c].idx = hook[c].idx + 1], seen' = seen,
                 hook[c].pc = "scan", hook[c].idx < Slots
          PROVE  HookTypes'
      BY <1>0, <3>1, ListPlaces DEF HookTypes, InPcs, OutPcs
    <3> QED
      BY <2>1, <2>4, <2>9, <3>1 DEF ScanOut, LastSlot, OutPcs
  <2>10. CASE Parse(c)
    BY <2>1, <2>4, <2>5, <2>10 DEF Parse, OutPcs, run
  <2>11. CASE Up(c)
    BY <2>1, <2>5, <2>11 DEF Up, run
  <2>12. CASE Redirect(c) \/ NoRedirect(c) \/ Overflow(c)
    BY <2>1, <2>5, <2>12 DEF Redirect, NoRedirect, Overflow, run
  <2> QED
    BY <1>1, <2>2, <2>6, <2>7, <2>8, <2>9, <2>10, <2>11, <2>12 DEF HookStep
<1>2. CASE hook' = hook /\ seen' = seen
  BY <1>0, <1>2 DEF HookTypes
<1>3. ASSUME NEW s \in Senders, NEW l \in Lists, NEW f \in Versions(l), Update(s, l, f)
      PROVE  HookTypes'
  <2>1. hook' = hook /\ DOMAIN seen' = Cpus
    BY <1>3 DEF Update
  <2>2. \A c \in Cpus : DOMAIN seen'[c] = Lists
    BY <1>0, <1>3 DEF Update, HookTypes
  <2>3. \A c \in Cpus, k \in Lists : seen'[c][k] \subseteq seen[c][k] \cup (IF k = l THEN {f} ELSE {})
    BY <1>0, <1>3 DEF Update, HookTypes
  <2> QED
    BY <1>0, <2>1, <2>2, <2>3 DEF HookTypes
<1> QED
  BY <1>1, <1>2, <1>3, HooksRest

\* Every variable keeps its type.
LEMMA TypesStep ==
  ASSUME TypeOK, WordsOK, HookNext
  PROVE  TypeOK'
<1>1. ListTypes' /\ HookTypes'
  BY ListTypesStep, HookTypesStep
<1> DEFINE Rest == /\ mpc \in {"out", "nl", "fs", "rd", "in", "run", "off", "unin", "unout",
                               "unnl", "deleted", "freed"}
                   /\ sk \in BOOLEAN /\ hash \in {"null", "ready", "freed"}
                   /\ timer \in {"off", "armed", "running"}
                   /\ switch \in BOOLEAN /\ klog \in BOOLEAN
                   /\ session \in [Stations -> {"NONE", "DOWN", "UP"}]
                   /\ fault \in {"none", "hash", "timer", "parse", "stack"}
<1>2. Rest
  BY DEF TypeOK
<1>3. Rest'
  <2>1. CASE Load
    BY <1>2, <2>1 DEF Load, NlInit, Fresh, SessionInit, RedirectorInit, HookIn, HookOut, Advance, conf
  <2>2. CASE Unload
    BY <1>2, <2>2 DEF Unload, SwitchOff, UnhookIn, UnhookOut, NlExit, DelAll, FreeHash, DelTimer,
       Advance, Breaks, conf
  <2>3. CASE Timer
    BY <1>2, <2>3 DEF Timer, TimerFires, Walk, Rearm, Breaks, conf, life
  <2>4. ASSUME NEW s \in Senders, Command(s) \/ UpdateAny(s) \/ CopyWord(s)  PROVE Rest'
    BY <1>2, <2>4 DEF Command, SetSwitch, SetKlog, ShowOnlineUser, UpdateAny, Update, CopyWord,
       Breaks, conf, life
  <2>5. ASSUME NEW c \in Cpus, Packet(c) \/ HookStep(c) \/ Redirect(c) \/ NoRedirect(c) \/ Overflow(c)
        PROVE  Rest'
    BY <1>2, <2>5 DEF Packet, InHook, OutHook, HookStep, ScanPortal, ScanWhite, Match, ScanOut,
       Parse, Up, Redirect, NoRedirect, Overflow, Breaks, conf, life
  <2> QED
    BY <2>1, <2>2, <2>3, <2>4, <2>5, Cases
<1> QED
  BY <1>1, <1>3 DEF TypeOK, ListTypes, HookTypes

-----------------------------------------------------------------------------
(* What a hook has seen and passed.                                        *)

\* The part of HooksOK for one CPU.
Honest(c) ==
  hook[c].pc # "free" => \A l \in Lists :
    /\ now[l] \subseteq seen[c][l]
    /\ \A j \in Passed(c, l) : ~Stable(c, l, j, Wanted(c))

\* A word that differs from what is looked for has so in some version now in memory.
LEMMA MissIsUnstable ==
  ASSUME WordsOK, NEW c \in Cpus, NEW l \in Lists, now[l] \subseteq seen[c][l],
         NEW i \in Places(l), NEW a, mem[l][i] # a
  PROVE  ~Stable(c, l, i, a)
BY DEF WordsOK, Stable

\* The first word is no address.
LEMMA FirstIsUnstable ==
  ASSUME TypeOK, WordsOK, NEW c \in Cpus, NEW l \in Lists, now[l] \subseteq seen[c][l], NEW a
  PROVE  ~Stable(c, l, 0, a)
<1>1. PICK f \in now[l] : mem[l][0] = f[0]
  BY ListPlaces DEF WordsOK
<1>2. 0 \notin Filled(l, f)
  BY DEF Filled
<1> QED
  BY <1>1, <1>2 DEF Stable

\* Nor is what lies behind the number in memory.
LEMMA TailIsUnstable ==
  ASSUME TypeOK, WordsOK, NEW c \in Cpus, now["white"] \subseteq seen[c]["white"],
         NEW i \in Nat, ~InList(i), NEW j \in Nat, j >= i, NEW a
  PROVE  ~Stable(c, "white", j, a)
<1>1. PICK f \in now["white"] : mem["white"][0] = f[0]
  BY ListPlaces DEF WordsOK, Lists
<1>2. f[0] \in 0 .. Size
  BY <1>1, WhiteVersions DEF TypeOK, Lists
<1>3. j \notin Filled("white", f)
  BY <1>1, <1>2 DEF Filled, InList
<1> QED
  BY <1>1, <1>3 DEF Stable

\* A hook that moves stays honest.
LEMMA MoveStaysHonest ==
  ASSUME TypeOK, WordsOK, NEW c \in Cpus, Honest(c),
         Packet(c) \/ HookStep(c) \/ Redirect(c) \/ NoRedirect(c) \/ Overflow(c)
  PROVE  Honest(c)'
<1>0. mem' = mem /\ now' = now
  BY HooksMove DEF conf
<1>1. CASE hook'[c].pc = "free"
  BY <1>1 DEF Honest
<1>2. CASE Packet(c)
  <2>1. PICK p \in InPackets \cup OutPackets, k \in {"portal", "scan"} : Enter(c, k, p)
    BY <1>2 DEF Packet, InHook, OutHook
  <2>2. hook'[c] = [pc |-> k, pkt |-> p, idx |-> 1] /\ seen'[c] = now
    BY <2>1 DEF Enter, TypeOK
  <2>3. ASSUME NEW l \in Lists, NEW j \in Passed(c, l)'
        PROVE  ~Stable(c, l, j, Wanted(c))'
    <3>1. j = 0
      BY <2>2, <2>3, ListPlaces DEF Passed, Lists
    <3>2. \E f \in now[l] : 0 \notin Filled(l, f)
      BY ListPlaces DEF WordsOK, Filled
    <3> QED
      BY <2>2, <3>1, <3>2 DEF Stable
  <2> QED
    BY <1>0, <2>2, <2>3 DEF Honest
<1>3. ASSUME ~Packet(c), hook'[c].pc # "free"
      PROVE  /\ seen'[c] = seen[c] /\ hook[c].pc # "free" /\ hook'[c].pkt = hook[c].pkt
             /\ Wanted(c)' = Wanted(c)
             /\ \A l \in Lists : /\ now[l] \subseteq seen[c][l]
                                 /\ \A j \in Passed(c, l) : ~Stable(c, l, j, Wanted(c))
             /\ \A l, j : Stable(c, l, j, Wanted(c))' <=> Stable(c, l, j, Wanted(c))
  <2>1. seen'[c] = seen[c] /\ hook[c].pc # "free" /\ hook'[c].pkt = hook[c].pkt
    BY <1>3 DEF HookStep, ScanPortal, ScanWhite, Match, ScanOut, Parse, Up,
       Redirect, NoRedirect, Overflow, Goto, Leave, Miss, Free, TypeOK, run
  <2>2. Wanted(c)' = Wanted(c)
    BY <2>1 DEF Wanted
  <2> QED
    BY <2>1, <2>2 DEF Honest, Stable
<1>4. CASE ~Packet(c) /\ hook'[c].pc # "free"
  <2>1. \A l \in Lists : \A j \in Passed(c, l)' :
           j \notin Passed(c, l) => ~Stable(c, l, j, Wanted(c))
    <3> DEFINE i == hook[c].idx
    <3>0. \A l \in Lists : now[l] \subseteq seen[c][l]
      BY <1>3, <1>4
    <3>1. CASE ScanPortal(c)
      <4>1. hook[c].pc = "portal" /\ i \in 1 .. Slots /\ mem["portal"][i] # Wanted(c)
        BY <1>4, <3>1 DEF ScanPortal, Leave, Free, TypeOK
      <4>2. ~Stable(c, "portal", i, Wanted(c))
        BY <3>0, <4>1, MissIsUnstable, ListPlaces DEF Lists
      <4>3. ~Stable(c, "white", 0, Wanted(c))
        BY <3>0, FirstIsUnstable DEF Lists
      <4>4. \/ i < Slots /\ hook'[c].pc = "portal" /\ hook'[c].idx = i + 1
            \/ i = Slots /\ hook'[c].pc = "white" /\ hook'[c].idx = 1
        BY <3>1, <4>1, ListPlaces DEF ScanPortal, LastSlot, TypeOK
      <4>5. \A j \in Passed(c, "portal")' : j \in Passed(c, "portal") \/ j = i
        BY <4>1, <4>4, ListPlaces DEF Passed
      <4>6. \A j \in Passed(c, "white")' : j = 0
        BY <4>4, ListPlaces DEF Passed
      <4> QED
        BY <4>2, <4>3, <4>5, <4>6 DEF Lists
    <3>2. CASE ScanWhite(c)
      <4>1. hook[c].pc = "white" /\ i \in 1 .. Size + 1
        BY <3>2 DEF ScanWhite, TypeOK
      <4>2. Passed(c, "portal") = Places("portal")
        BY <4>1 DEF Passed
      <4>3. Passed(c, "portal")' \subseteq Places("portal")
        BY DEF Passed
      <4>4. CASE ~InList(i)
        <5>1. Passed(c, "white")' \subseteq Places("white")
          BY DEF Passed
        <5>2. \A j \in Places("white") : j \in Passed(c, "white") \/ j >= i
          BY <4>1, ListPlaces DEF Passed
        <5>3. \A j \in Places("white") : j >= i => ~Stable(c, "white", j, Wanted(c))
          BY <3>0, <4>1, <4>4, TailIsUnstable, ListPlaces DEF Lists
        <5> QED
          BY <4>2, <4>3, <5>1, <5>2, <5>3 DEF Lists
      <4>5. CASE InList(i)
        <5>1. /\ mem["white"][i] # Wanted(c)
              /\ hook'[c].pc = "white" /\ hook'[c].idx = i + 1
          BY <1>4, <3>2, <4>1, <4>5 DEF ScanWhite, Leave, Free, TypeOK
        <5>2. i \in Places("white")
          BY <4>1, <4>5, NumberInMemory, ListPlaces DEF InList
        <5>3. ~Stable(c, "white", i, Wanted(c))
          BY <3>0, <5>1, <5>2, MissIsUnstable DEF Lists
        <5>4. \A j \in Passed(c, "white")' : j \in Passed(c, "white") \/ j = i
          BY <4>1, <5>1, ListPlaces DEF Passed
        <5> QED
          BY <4>2, <4>3, <5>3, <5>4 DEF Lists
      <4> QED
        BY <4>4, <4>5
    <3>3. CASE Match(c)
      <4>1. hook[c].pc = "match"
        BY <3>3 DEF Match
      <4>2. \A l \in Lists : Passed(c, l) = Places(l) /\ Passed(c, l)' \subseteq Places(l)
        BY <4>1 DEF Passed, Lists
      <4> QED
        BY <4>2
    <3>4. CASE ScanOut(c) \/ Parse(c) \/ Up(c)
      <4>1. hook'[c].pc \in {"scan", "parse", "up"}
        BY <1>4, <3>4 DEF ScanOut, Parse, Up, Goto, Leave, Free, TypeOK, run
      <4>2. \A l \in Lists : Passed(c, l)' = {}
        BY <4>1 DEF Passed, Lists
      <4> QED
        BY <4>2
    <3>5. CASE Redirect(c) \/ NoRedirect(c) \/ Overflow(c)
      <4>1. hook' = hook
        BY <1>4, <3>5 DEF Redirect, NoRedirect, Overflow, Leave, Free, TypeOK, run
      <4>2. \A l \in Lists : Passed(c, l)' = Passed(c, l)
        BY <4>1 DEF Passed
      <4> QED
        BY <4>2
    <3> QED
      BY <1>4, <3>1, <3>2, <3>3, <3>4, <3>5 DEF HookStep
  <2> QED
    BY <1>0, <1>3, <1>4, <2>1 DEF Honest
<1> QED
  BY <1>1, <1>2, <1>4

LEMMA HooksStep ==
  ASSUME HookInv, HookNext
  PROVE  HooksOK'
<1>0. TypeOK /\ Phases /\ WordsOK /\ ListsOK /\ \A c \in Cpus : Honest(c)
  BY DEF HookInv, ListsOK, HooksOK, Honest
<1>1. ASSUME NEW c \in Cpus, Packet(c) \/ HookStep(c) \/ Redirect(c) \/ NoRedirect(c) \/ Overflow(c)
      PROVE  \A d \in Cpus : Honest(d)'
  <2>1. Honest(c)'
    BY <1>0, <1>1, MoveStaysHonest
  <2>2. ASSUME NEW d \in Cpus \ {c}  PROVE Honest(d)'
    <3>1. now' = now /\ hook'[d] = hook[d] /\ seen'[d] = seen[d]
      BY <1>0, <1>1, HooksMove DEF conf
    <3> QED
      BY <1>0, <3>1 DEF Honest, Passed, Stable, Wanted
  <2> QED
    BY <2>1, <2>2
<1>2. ASSUME NEW s \in Senders, NEW l \in Lists, NEW f \in Versions(l), Update(s, l, f)
      PROVE  \A d \in Cpus : Honest(d)'
  <2>1. /\ hook' = hook /\ now' = [now EXCEPT ![l] = @ \cup {f}]
        /\ seen' = [c \in Cpus |-> IF hook[c].pc = "free" THEN seen[c]
                                   ELSE [seen[c] EXCEPT ![l] = @ \cup {f}]]
    BY <1>2 DEF Update
  <2> SUFFICES ASSUME NEW d \in Cpus, hook[d].pc # "free"  PROVE Honest(d)'
    BY <2>1 DEF Honest
  <2>2. \A k \in Lists : now[k] \subseteq seen[d][k]
    BY <1>0 DEF Honest
  <2>3. DOMAIN now = Lists /\ DOMAIN seen[d] = Lists
    BY <1>0 DEF TypeOK
  <2>4. \A k \in Lists : now'[k] \subseteq seen'[d][k] /\ seen[d][k] \subseteq seen'[d][k]
    BY <2>1, <2>2, <2>3
  <2>5. \A k \in Lists : \A j : Stable(d, k, j, Wanted(d))' => Stable(d, k, j, Wanted(d))
    BY <2>1, <2>4 DEF Stable, Wanted
  <2> QED
    BY <1>0, <2>1, <2>4, <2>5 DEF Honest, Passed
<1>3. ASSUME hook' = hook /\ seen' = seen  PROVE \A d \in Cpus : Honest(d)'
  <2>1. CASE NlInit \/ RedirectorInit
    <3>1. \A c \in Cpus : hook[c].pc = "free"
      BY <1>0, <2>1 DEF NlInit, RedirectorInit, Phases, TypeOK
    <3> QED
      BY <1>3, <3>1 DEF Honest
  <2>2. ASSUME \A l \in Lists : now'[l] \subseteq now[l], NEW d \in Cpus  PROVE Honest(d)'
    <3>1. hook'[d] = hook[d] /\ seen'[d] = seen[d]
      BY <1>3
    <3>2. \A l \in Lists : Passed(d, l)' = Passed(d, l)
      BY <3>1 DEF Passed
    <3>3. \A l, j : Stable(d, l, j, Wanted(d))' <=> Stable(d, l, j, Wanted(d))
      BY <3>1 DEF Stable, Wanted
    <3> QED
      BY <1>0, <2>2, <3>1, <3>2, <3>3 DEF Honest
  <2>3. ASSUME NEW s \in Senders, CopyWord(s), NEW l \in Lists  PROVE now'[l] \subseteq now[l]
    <3> DEFINE j == handler[s]
    <3>1. j.left # {} /\ now' \in {now, [now EXCEPT ![j.list] = {j.new}]}
      BY <2>3 DEF CopyWord
    <3>2. j.list # "none" /\ j.list \in Lists
      BY <1>0, <3>1 DEF TypeOK, Jobs
    <3>3. j.new \in now[j.list]
      BY <1>0, <3>2 DEF ListsOK, JobOK
    <3> QED
      BY <1>0, <3>1, <3>2, <3>3 DEF TypeOK
  <2>4. CASE UNCHANGED <<mem, now, handler>>
    BY <2>2, <2>4
  <2> QED
    BY <1>2, <2>1, <2>2, <2>3, <2>4, ListsMove
<1>4. \A d \in Cpus : Honest(d)'
  BY <1>1, <1>2, <1>3, HooksRest
<1> QED
  BY <1>4 DEF HooksOK, Honest

-----------------------------------------------------------------------------
(* Theorems.                                                               *)

LEMMA HookInvInit ==
  ASSUME HookInit
  PROVE  HookInv
<1>1. TypeOK
  <2>1. handler \in [Senders -> Jobs] /\ \A s \in Senders : handler[s].list = "none" /\ handler[s].left = {}
    BY NoJobTyped DEF HookInit, NoJob
  <2>2. /\ DOMAIN mem = Lists /\ \A l \in Lists : mem[l] \in [Places(l) -> Values]
        /\ DOMAIN now = Lists /\ \A l \in Lists : now[l] \subseteq Versions(l)
    BY VersionsTyped DEF HookInit
  <2> QED
    BY <2>1, <2>2, FreeTyped DEF HookInit, TypeOK, Free, Unseen, InPcs, OutPcs
<1>2. Phases
  BY DEF HookInit, Phases, OnlyTheTimerIsLate, Serves, Late, Gone, Free, InPcs, OutPcs
<1>3. ListsOK
  BY FreshLists, NoJobTyped DEF HookInit, ListsOK, WordsOK, JobOK
<1>4. HooksOK
  BY DEF HookInit, HooksOK, Free
<1> QED
  BY <1>1, <1>2, <1>3, <1>4 DEF HookInv

LEMMA HookInvStep ==
  ASSUME HookInv, [HookNext]_hookVars
  PROVE  HookInv'
<1>1. CASE HookNext
  BY <1>1, PhasesStep, ListsStep, TypesStep, HooksStep DEF HookInv, ListsOK
<1>2. CASE UNCHANGED hookVars
  <2>1. TypeOK'
    BY <1>2 DEF HookInv, TypeOK, hookVars, life, conf, run
  <2>2. Phases'
    BY <1>2 DEF HookInv, Phases, OnlyTheTimerIsLate, hookVars, life, conf, run
  <2>3. ListsOK'
    BY <1>2 DEF HookInv, ListsOK, WordsOK, JobOK, hookVars, life, conf, run
  <2>4. HooksOK'
    BY <1>2 DEF HookInv, HooksOK, Passed, Stable, Wanted, hookVars, life, conf, run
  <2> QED
    BY <2>1, <2>2, <2>3, <2>4 DEF HookInv
<1> QED
  BY <1>1, <1>2

LEMMA HookInvAlways == HookSpec => []HookInv
BY HookInvInit, HookInvStep, PTL DEF HookSpec

\* Every variable of the kernel module keeps its type: hooks, messages, lists and the
\* indices of the scans, whatever words of two lists they meet.
THEOREM HookTypesAlways == HookSpec => []TypeOK
<1>1. HookInv => TypeOK
  BY DEF HookInv
<1> QED
  BY <1>1, HookInvAlways, PTL

\* Unregistering the hooks, one after the other, before anything is freed leaves no
\* hook without the socket and the sessions.
THEOREM HooksHaveTheirData == HookSpec => []HooksFindTheirData
<1>1. HookInv => HooksFindTheirData
  BY DEF HookInv, TypeOK, Phases, HooksFindTheirData, Gone
<1> QED
  BY <1>1, HookInvAlways, PTL

\* Only the ageing timer can find a thing gone that was there.
THEOREM TheTimerAloneIsLate == HookSpec => []OnlyTheTimerIsLate
<1>1. HookInv => OnlyTheTimerIsLate
  BY DEF HookInv, Phases
<1> QED
  BY <1>1, HookInvAlways, PTL

\* Whatever was copied before, and by however many threads, a list copied alone is
\* the version sent.
THEOREM LastSentIsInMemory == HookSpec => []ConfigIsLastSent
<1>1. ASSUME HookInv  PROVE ConfigIsLastSent
  <2> SUFFICES ASSUME NEW l \in Lists, NEW f \in Versions(l), now[l] = {f}  PROVE mem[l] = f
    BY DEF ConfigIsLastSent
  <2>1. \A i \in Places(l) : mem[l][i] = f[i]
    BY <1>1 DEF HookInv, ListsOK, WordsOK
  <2>2. mem[l] \in [Places(l) -> Values] /\ f \in [Places(l) -> Values]
    BY <1>1, VersionsTyped DEF HookInv, TypeOK
  <2> QED
    BY <2>1, <2>2
<1> QED
  BY <1>1, HookInvAlways, PTL

\* A word that is an address is listed in some version the hook has seen.
LEMMA HitIsListed ==
  ASSUME HookInv, NEW c \in Cpus, hook[c].pc # "free", NEW l \in Lists, NEW i \in Places(l) \ {0},
         mem[l][i] \in Addrs
  PROVE  Listed(c, l, mem[l][i])
<1>1. PICK f \in now[l] : mem[l][i] = f[i]
  BY DEF HookInv, ListsOK, WordsOK
<1>2. f \in seen[c][l] /\ f \in Versions(l)
  BY <1>1 DEF HookInv, HooksOK, TypeOK
<1>3. i \in Filled(l, f)
  <2>1. CASE l = "portal"
    BY <2>1, ListPlaces DEF Filled
  <2>2. CASE l = "white"
    <3>1. f[0] \in 0 .. Size /\ i \in 1 .. Size /\ (i > f[0] => f[i] = NoAddr)
      BY <1>2, <2>2, WhiteVersions, ListPlaces
    <3>2. f[i] # NoAddr
      BY <1>1, HookConstantsOK
    <3> QED
      BY <2>2, <3>1, <3>2 DEF Filled
  <2> QED
    BY <2>1, <2>2 DEF Lists
<1> QED
  BY <1>1, <1>2, <1>3 DEF Listed

LEMMA PassesAreListed ==
  ASSUME HookInv, HookNext, NEW c \in Cpus
  PROVE  PassIsListed(c)
<1>0. TypeOK
  BY DEF HookInv
<1>1. CASE ScanPortal(c)
  <2>1. SUFFICES ASSUME hook[c].pc = "portal", hook'[c].pc = "free"
                 PROVE  Listed(c, "portal", Wanted(c))
    BY <1>1 DEF PassIsListed, ScanPortal
  <2>2. mem["portal"][hook[c].idx] = Wanted(c) /\ hook[c].idx \in 1 .. Slots
    BY <1>0, <1>1, <2>1 DEF ScanPortal, TypeOK
  <2>3. Wanted(c) \in Addrs
    BY <1>0, <2>1, AddressWanted DEF Wanted, TypeOK, InPcs
  <2> QED
    BY <2>1, <2>2, <2>3, HitIsListed, ListPlaces DEF Lists
<1>2. CASE ScanWhite(c)
  <2>1. SUFFICES ASSUME hook[c].pc = "white", hook'[c].pc = "free"
                 PROVE  Listed(c, "white", Wanted(c))
    BY <1>2 DEF PassIsListed, ScanWhite
  <2>2. hook[c].idx \in 1 .. Size + 1 /\ mem["white"][0] \in 0 .. Size
    BY <1>0, <2>1, NumberInMemory DEF TypeOK, HookInv, ListsOK
  <2>3. InList(hook[c].idx) /\ mem["white"][hook[c].idx] = Wanted(c)
    BY <1>0, <1>2, <2>1 DEF ScanWhite, Miss, Goto, TypeOK
  <2>4. hook[c].idx \in Places("white") \ {0}
    BY <2>2, <2>3, ListPlaces DEF InList
  <2>5. Wanted(c) \in Addrs
    BY <1>0, <2>1, AddressWanted DEF Wanted, TypeOK, InPcs
  <2> QED
    BY <2>1, <2>3, <2>4, <2>5, HitIsListed DEF Lists
<1>3. CASE ScanOut(c)
  <2>1. SUFFICES ASSUME hook[c].pc = "scan", hook'[c].pc = "parse"
                 PROVE  Listed(c, "portal", Ntohl(hook[c].pkt.src))
    BY <1>3 DEF PassIsListed, ScanOut
  <2>2. mem["portal"][hook[c].idx] = Ntohl(hook[c].pkt.src) /\ hook[c].idx \in 1 .. Slots
    BY <1>0, <1>3, <2>1 DEF ScanOut, Leave, Free, TypeOK
  <2>3. Ntohl(hook[c].pkt.src) \in Addrs
    BY <1>0, <2>1, AddressWanted DEF TypeOK, OutPcs
  <2> QED
    BY <2>1, <2>2, <2>3, HitIsListed, ListPlaces DEF Lists
<1>4. CASE Match(c) \/ Parse(c) \/ Up(c) \/ Redirect(c) \/ NoRedirect(c) \/ Overflow(c)
  BY <1>4 DEF PassIsListed, Match, Parse, Up, Redirect, NoRedirect, Overflow
<1>5. CASE Packet(c)
  BY <1>5 DEF PassIsListed, Packet, InHook, OutHook, Free
<1>6. CASE hook'[c] = hook[c]
  BY <1>6 DEF PassIsListed
<1>7. hook'[c] = hook[c] \/ Packet(c) \/ HookStep(c) \/ Redirect(c) \/ NoRedirect(c) \/ Overflow(c)
  BY <1>0, HooksRest, HooksMove DEF Update
<1> QED
  BY <1>1, <1>2, <1>3, <1>4, <1>5, <1>6, <1>7 DEF HookStep

\* A packet that passes a scan, or is looked into, has an address that was listed.
THEOREM OnlyListedPass == HookSpec => HitsWereListed
<1>1. ASSUME HookInv, [HookNext]_hookVars  PROVE [\A c \in Cpus : PassIsListed(c)]_hookVars
  BY <1>1, PassesAreListed
<1> QED
  BY <1>1, HookInvAlways, PTL DEF HookSpec, HitsWereListed

\* Whoever comes to be matched is not on his way to an address that kept its slot.
THEOREM StableEntriesAreHit == HookSpec => []StableEntriesHit
<1>1. HookInv => StableEntriesHit
  BY DEF HookInv, HooksOK, StableEntriesHit, Passed
<1> QED
  BY <1>1, HookInvAlways, PTL
=============================================================================
