-------------------------- MODULE FlowSessionProofs --------------------------
(***************************************************************************)
(* Proofs about the kernel's user sessions. What has to be strengthened is *)
(* the time a session may have been silent for by the time the timer comes *)
(* to its bucket (Seen): a property of the state in terms of how far the   *)
(* timer and the pass still have to go.                                    *)
(***************************************************************************)
EXTENDS LeaseRefines, TLAPS

\* The ticks of interval_timer, without the delays of the passes.
Span(d) == d["interval"] * HZ

\* If a time x that grows with the clock was below b when the bucket of u was visited
\* last, or was set back after that, then this is what it and the rest of the way to
\* the next visit add up to.
Waiting(u, x, b) ==
  bkt = HashLen => \E d \in Cfgs : x + togo + Slack < b + Gap(d) + slip
Ahead(u, x, b) ==
  bkt <= Bucket[u] => \E d \in Cfgs : x + Slack < b + Gap(d) + slip
Behind(u, x, b) ==
  bkt > Bucket[u] /\ bkt < HashLen => x < b + slip

Due(u, x, b) == Waiting(u, x, b) /\ Ahead(u, x, b) /\ Behind(u, x, b)

\* So it is for the silence of u, and for the age of what the AC has of u's device,
\* which every visit sets back.
Seen(u, b) == Due(u, silent[u], b)
Heard(u) == Due(u, age[Mac[u]], 1)

\* A user who is UP was within over_time at the last visit, or has logged in since.
UpInTime(u) ==
  \/ \E c \in Cfgs : Seen(u, AllowedBy(c["over"]))
  \/ Seen(u, LoginWithin + 1)

\* A session was within over_time or del_time at the last visit.
LiveInTime(u) == \E e \in Cfgs, f \in {"over", "del"} : Seen(u, AllowedBy(e[f]))

\* Every word in use is one of some configuration.
CfgWords ==
  /\ \A f \in Words : \E c \in Cfgs : cfg[f] = c[f]
  /\ \E d \in Cfgs : togo <= Span(d)

AgeInv ==
  /\ TypeOK
  /\ CfgWords
  /\ IdleIsExact
  /\ \A u \in Users : st[u] # "NONE" => LiveInTime(u)
  /\ \A u \in Users : st[u] = "UP" => UpInTime(u)

-----------------------------------------------------------------------------
(* Arithmetic.                                                             *)

\* A number of ticks is at most t whole seconds exactly if it is below t + 1.
LEMMA WholeSeconds ==
  ASSUME NEW x \in Nat, NEW t \in Nat, NEW z \in Nat, z >= 1
  PROVE  (x \div z <= t) <=> x < (t + 1) * z
BY SMT

LEMMA TimesNat ==
  ASSUME NEW x \in Nat, NEW y \in Nat
  PROVE  x * y \in Nat
BY SMT

LEMMA AllowedPositive ==
  ASSUME NEW t \in Nat
  PROVE  AllowedBy(t) \in Nat /\ AllowedBy(t) >= 1
<1>1. HZ \in Nat /\ HZ >= 1
  BY SessionConstantsOK
<1>2. \A x, z \in Nat : z >= 1 => (x + 1) * z \in Nat /\ (x + 1) * z >= 1
  BY SMT
<1> QED BY <1>1, <1>2 DEF AllowedBy

\* What a configuration is made of, and the natural numbers got from it.
LEMMA CfgType ==
  ASSUME NEW c \in Cfgs
  PROVE  /\ c["over"] \in Nat /\ c["interval"] \in Nat /\ c["del"] \in Nat
         /\ Span(c) \in Nat /\ Gap(c) \in Nat /\ Gap(c) = Span(c) + 2 * Slack
         /\ AllowedBy(c["over"]) \in Nat /\ AllowedBy(c["over"]) >= 1
         /\ AllowedBy(c["del"]) \in Nat /\ AllowedBy(c["del"]) >= 1
<1>1. c \in [Words -> Nat] /\ HZ \in Nat /\ Slack \in Nat
  BY SessionConstantsOK
<1>2. c["over"] \in Nat /\ c["interval"] \in Nat /\ c["del"] \in Nat
  BY <1>1 DEF Words
<1>3. Span(c) \in Nat
  BY <1>1, <1>2, TimesNat DEF Span
<1>4. Gap(c) = Span(c) + 2 * Slack
  BY DEF Gap, Span
<1>5. Gap(c) \in Nat
  BY <1>1, <1>3, <1>4
<1> QED BY <1>2, <1>3, <1>4, <1>5, AllowedPositive

-----------------------------------------------------------------------------
(* Type correctness.                                                       *)

\* The bound on ages.
LEMMA OldestNat == Oldest \in Nat
<1>1. Minute \in Nat /\ HZ \in Nat /\ Skew \in Int
  BY SessionConstantsOK
<1>2. (Minute + 1) * HZ \in Nat
  BY <1>1, TimesNat
<1> QED BY <1>1, <1>2 DEF Oldest

LEMMA TypeInit == Init => TypeOK
<1> SUFFICES ASSUME Init PROVE TypeOK
  OBVIOUS
<1> USE SessionConstantsOK DEF Init
<1>1. cfg \in [Words -> Nat]
  OBVIOUS
<1>2. togo \in Nat
  BY CfgType DEF Span
<1>3. last \in [Users -> 0 .. Wrap - 1] /\ silent \in [Users -> 0 .. Wrap]
  OBVIOUS
<1>4. st \in [Users -> Status \cup {"NONE"}] /\ told \in [Users -> Status \cup {"NONE"}]
  BY DEF Nobody, Status
<1>5. age \in [Macs -> 0 .. Oldest]
  BY OldestNat
<1> QED BY <1>1, <1>2, <1>3, <1>4, <1>5 DEF TypeOK

\* A report about some users leaves told and the AC's list well-typed.
LEMMA ReportType ==
  ASSUME TypeOK, NEW r \in [Users -> Status \cup {"NONE"}], Report(r)
  PROVE  /\ told' \in [Users -> Status \cup {"NONE"}]
         /\ listed' \subseteq Macs /\ age' \in [Macs -> 0 .. Oldest]
<1> DEFINE heard == {u \in Users : r[u] # "NONE"}
           named == {Mac[u] : u \in heard}
           Others(m) == named \ {m}
<1>1. told' = [u \in Users |-> IF r[u] = "NONE" THEN told[u] ELSE r[u]]
  BY DEF Report
<1>2. PICK stamp \in [named -> Stamps],
           gone \in SUBSET {m \in listed : Others(m) # {} /\ MayLapse(age[m])} :
          /\ \E lost \in SUBSET {m \in named : Others(m) # {} /\ MayLapse(stamp[m])} :
               listed' = (((listed \ gone) \ named)
                            \cup {Mac[u] : u \in {x \in heard :
                                     ListAfter(Mac[x], r[x], listed \ gone)}}) \ lost
          /\ age' = [m \in Macs |-> IF m \notin listed' THEN 0
                                     ELSE IF m \in named THEN stamp[m] ELSE age[m]]
  BY DEF Report
<1>3. Stamps \subseteq 0 .. Oldest
  BY OldestNat DEF Stamps
<1>4. \A m \in named : stamp[m] \in 0 .. Oldest
  BY <1>3
<1>5. listed' \subseteq Macs
  BY <1>2 DEF Macs, TypeOK
<1>6. age' \in [Macs -> 0 .. Oldest]
  BY <1>2, <1>4, OldestNat DEF TypeOK
<1> QED BY <1>1, <1>5, <1>6 DEF TypeOK

LEMMA TypeStep == TypeOK /\ [Next]_vars => TypeOK'
<1> SUFFICES ASSUME TypeOK, [Next]_vars PROVE TypeOK'
  OBVIOUS
<1> USE SessionConstantsOK
<1>1. CASE Tick
  <2>1. age' \in [Macs -> 0 .. Oldest]
    BY <1>1, OldestNat DEF Tick, TypeOK
  <2> QED BY <1>1, <2>1 DEF Tick, TypeOK, Status
<1>2. CASE AgeStart
  BY <1>2 DEF AgeStart, TypeOK, FirstBucket, list
<1>3. CASE AgeBucket
  <2>1. st' \in [Users -> Status \cup {"NONE"}] /\ last' \in [Users -> 0 .. Wrap - 1]
        /\ silent' \in [Users -> 0 .. Wrap] /\ fresh' \subseteq Users
    BY <1>3 DEF AgeBucket, TypeOK, Status
  <2>2. [u \in Users |-> IF u \in Here \ Dead THEN st'[u] ELSE "NONE"]
          \in [Users -> Status \cup {"NONE"}]
    BY <2>1
  <2>3. told' \in [Users -> Status \cup {"NONE"}] /\ listed' \subseteq Macs
        /\ age' \in [Macs -> 0 .. Oldest]
    BY <1>3, <2>2, ReportType DEF AgeBucket
  <2>4. cfg["interval"] * HZ \in Nat
    BY TimesNat DEF TypeOK, Words
  <2>5. bkt' \in 0 .. HashLen /\ togo' \in Nat /\ slip' \in 0 .. Slack
    BY <1>3, <2>4 DEF AgeBucket, NextBucket, TypeOK
  <2> QED BY <1>3, <2>1, <2>3, <2>5 DEF AgeBucket, TypeOK
<1>4. CASE CopyWord
  <2>1. PICK f \in Words, c \in Cfgs : cfg' = [cfg EXCEPT ![f] = c[f]]
    BY <1>4 DEF CopyWord
  <2>2. c[f] \in Nat
    BY <2>1
  <2> QED BY <1>4, <2>1, <2>2 DEF CopyWord, timer, list, TypeOK
<1>5. ASSUME NEW u \in Users, Packet(u) PROVE TypeOK'
  BY <1>5 DEF Packet, timer, list, TypeOK, Status
<1>6. ASSUME NEW u \in Users, Login(u) PROVE TypeOK'
  <2>1. [Nobody EXCEPT ![u] = "UP"] \in [Users -> Status \cup {"NONE"}]
    BY DEF Nobody, Status
  <2>2. told' \in [Users -> Status \cup {"NONE"}] /\ listed' \subseteq Macs
        /\ age' \in [Macs -> 0 .. Oldest]
    BY <1>6, <2>1, ReportType DEF Login, LoginTold
  <2> QED BY <1>6, <2>2 DEF Login, timer, TypeOK, Status
<1>7. CASE UNCHANGED vars
  BY <1>7 DEF vars, timer, list, TypeOK
<1> QED BY <1>1, <1>2, <1>3, <1>4, <1>5, <1>6, <1>7 DEF Next, Age

\* The variables of the session table, the timer and the AC's list keep their
\* types, for any clock width, number of buckets and set of configurations.
THEOREM SessionTypes == Spec => []TypeOK
<1>1. Init => TypeOK
  BY TypeInit
<1>2. TypeOK /\ [Next]_vars => TypeOK'
  BY TypeStep
<1> QED BY <1>1, <1>2, PTL DEF Spec
-----------------------------------------------------------------------------
(* How each action moves Due.                                              *)

\* What is set back below b.
LEMMA DueFresh ==
  ASSUME TypeOK, CfgWords, NEW u \in Users, NEW x \in Nat, NEW b \in Nat,
         UNCHANGED timer, x < b
  PROVE  Due(u, x, b)'
<1>1. PICK d \in Cfgs : togo <= Span(d)
  BY DEF CfgWords
<1>2. Gap(d) = Span(d) + 2 * Slack /\ Span(d) \in Nat
  BY CfgType
<1>3. togo' = togo /\ bkt' = bkt /\ slip' = slip /\ togo \in Nat /\ slip \in Nat /\ Slack \in Nat
  BY SessionConstantsOK DEF timer, TypeOK
<1>4. x + togo + Slack < b + Gap(d) + slip
  BY <1>1, <1>2, <1>3
<1>5. x + Slack < b + Gap(d) + slip
  BY <1>2, <1>3
<1>6. x < b + slip
  BY <1>3
<1> QED BY <1>3, <1>4, <1>5, <1>6 DEF Due, Waiting, Ahead, Behind, Gap

LEMMA DueFrame ==
  ASSUME NEW u \in Users, NEW x \in Nat, NEW b \in Nat, UNCHANGED timer, Due(u, x, b)
  PROVE  Due(u, x, b)'
BY DEF timer, Due, Waiting, Ahead, Behind, Gap

\* A tick uses up one of the way, and there was one left.
LEMMA DueTick ==
  ASSUME TypeOK, NEW u \in Users, NEW x \in Nat, NEW b \in Nat, Tick, Due(u, x, b)
  PROVE  Due(u, x + 1, b)' /\ \E d \in Cfgs : x + 1 < b + Gap(d)
<1> USE SessionConstantsOK
<1>1. x \in Nat /\ togo \in Nat /\ slip \in Nat /\ Slack \in Nat /\ bkt' = bkt
      /\ HashLen \in Nat /\ bkt \in Nat /\ Bucket[u] \in Nat /\ Bucket[u] < HashLen
  BY DEF TypeOK, Tick
<1>2. CASE bkt = HashLen
  <2>1. PICK d \in Cfgs : x + togo + Slack < b + Gap(d) + slip
    BY <1>2 DEF Due, Waiting
  <2>2. Gap(d) \in Nat
    BY CfgType
  <2>3. \/ togo' = togo - 1 /\ slip' = slip /\ togo > 0
        \/ togo' = togo /\ slip' = slip + 1 /\ slip < Slack
    BY <1>2 DEF Tick
  <2>4. x + 1 + togo' + Slack < b + Gap(d) + slip'
    BY <1>1, <2>1, <2>2, <2>3
  <2>5. x + 1 < b + Gap(d)
    <3>1. slip <= Slack
      BY DEF TypeOK
    <3> QED BY <1>1, <2>1, <2>2, <2>3, <3>1
  <2> QED BY <1>1, <1>2, <2>4, <2>5 DEF Due, Waiting, Ahead, Behind, Gap
<1>3. CASE bkt # HashLen
  <2>1. slip' = slip + 1 /\ slip < Slack
    BY <1>3 DEF Tick
  <2>2. CASE bkt <= Bucket[u]
    <3>1. PICK d \in Cfgs : x + Slack < b + Gap(d) + slip
      BY <2>2 DEF Due, Ahead
    <3>2. Gap(d) \in Nat
      BY CfgType
    <3>3. x + 1 + Slack < b + Gap(d) + slip' /\ x + 1 < b + Gap(d)
      BY <1>1, <2>1, <3>1, <3>2
    <3> QED BY <1>1, <1>3, <2>2, <3>3 DEF Due, Waiting, Ahead, Behind, Gap
  <2>3. CASE bkt > Bucket[u]
    <3>1. x < b + slip
      BY <1>1, <1>3, <2>3 DEF Due, Behind, TypeOK
    <3>2. PICK d \in Cfgs : TRUE
      OBVIOUS
    <3>3. Gap(d) = Span(d) + 2 * Slack /\ Span(d) \in Nat
      BY CfgType
    <3>4. x + 1 < b + slip' /\ x + 1 < b + Gap(d)
      BY <1>1, <2>1, <3>1, <3>3
    <3> QED BY <1>1, <1>3, <2>3, <3>4 DEF Due, Waiting, Ahead, Behind, Gap
  <2> QED BY <1>1, <2>2, <2>3
<1> QED BY <1>2, <1>3

LEMMA DueStart ==
  ASSUME TypeOK, NEW u \in Users, NEW x \in Nat, NEW b \in Nat, AgeStart, Due(u, x, b)
  PROVE  Due(u, x, b)'
<1>1. bkt = HashLen /\ togo = 0 /\ bkt' = 0 /\ slip' = slip
      /\ Bucket[u] \in Nat /\ HashLen \in Nat /\ HashLen >= 1
      /\ x \in Nat /\ Slack \in Nat
  BY SessionConstantsOK DEF AgeStart, FirstBucket, TypeOK
<1>2. PICK d \in Cfgs : x + togo + Slack < b + Gap(d) + slip
  BY <1>1 DEF Due, Waiting
<1>3. x + Slack < b + Gap(d) + slip'
  BY <1>1, <1>2
<1> QED BY <1>1, <1>3 DEF Due, Waiting, Ahead, Behind, Gap

\* The visit of the session's own bucket, and of another.
LEMMA DueVisit ==
  ASSUME TypeOK, CfgWords, NEW u \in Users, NEW x \in Nat, NEW b \in Nat, AgeBucket,
         \/ Bucket[u] = bkt /\ x < b
         \/ Bucket[u] # bkt /\ Due(u, x, b)
  PROVE  Due(u, x, b)'
<1> USE SessionConstantsOK
<1>1. x \in Nat /\ togo \in Nat /\ slip \in Nat /\ Slack \in Nat /\ bkt' = bkt + 1
      /\ HashLen \in Nat /\ bkt \in Nat /\ bkt < HashLen
      /\ Bucket[u] \in Nat /\ Bucket[u] < HashLen
  BY DEF TypeOK, AgeBucket, NextBucket
<1>2. bkt' > Bucket[u] => x < b + slip
  BY <1>1 DEF Due, Behind
<1>3. CASE bkt' < HashLen
  <2>1. UNCHANGED <<togo, slip>>
    BY <1>1, <1>3 DEF AgeBucket, NextBucket
  <2>2. Ahead(u, x, b)'
    BY <1>1, <2>1 DEF Due, Ahead, Gap
  <2> QED BY <1>1, <1>2, <1>3, <2>1, <2>2 DEF Due, Waiting, Behind
<1>4. CASE bkt' = HashLen
  <2>1. togo' = cfg["interval"] * HZ /\ slip' = 0
    BY <1>1, <1>4 DEF AgeBucket, NextBucket
  <2>2. PICK d \in Cfgs : cfg["interval"] = d["interval"]
    BY DEF CfgWords, Words
  <2>3. togo' = Span(d) /\ Span(d) \in Nat /\ Gap(d) = Span(d) + 2 * Slack /\ slip <= Slack
    BY <2>1, <2>2, CfgType DEF Span, TypeOK
  <2>4. x + togo' + Slack < b + Gap(d) + slip'
    BY <1>1, <1>2, <1>4, <2>1, <2>3
  <2> QED BY <1>1, <1>4, <2>4 DEF Due, Waiting, Ahead, Behind, Gap
<1> QED BY <1>1, <1>3, <1>4

LEMMA DueBound ==
  ASSUME TypeOK, NEW u \in Users, NEW x \in Nat, NEW b \in Nat, Due(u, x, b)
  PROVE  \E d \in Cfgs : x < b + Gap(d)
<1> USE SessionConstantsOK
<1>1. x \in Nat /\ togo \in Nat /\ slip \in Nat /\ Slack \in Nat /\ slip <= Slack
      /\ HashLen \in Nat /\ bkt \in Nat /\ bkt <= HashLen /\ Bucket[u] \in Nat
  BY DEF TypeOK
<1>2. PICK d \in Cfgs : \/ x + togo + Slack < b + Gap(d) + slip
                        \/ x + Slack < b + Gap(d) + slip
                        \/ x < b + slip
  BY <1>1 DEF Due, Waiting, Ahead, Behind
<1>3. Gap(d) = Span(d) + 2 * Slack /\ Span(d) \in Nat
  BY CfgType
<1>4. x < b + Gap(d)
  BY <1>1, <1>2, <1>3
<1> QED BY <1>4
-----------------------------------------------------------------------------
(* The same of silences.                                                   *)

\* An access, or a login, b ticks or less before which there was another.
LEMMA SeenFresh ==
  ASSUME TypeOK, CfgWords, NEW u \in Users, NEW b \in Nat,
         UNCHANGED timer, silent'[u] \in Nat, silent'[u] < b
  PROVE  Seen(u, b)'
BY DueFresh DEF Seen, Due, Waiting, Ahead, Behind

LEMMA SeenFrame ==
  ASSUME TypeOK, NEW u \in Users, NEW b \in Nat, UNCHANGED timer, silent'[u] = silent[u],
         Seen(u, b)
  PROVE  Seen(u, b)'
BY DEF timer, Seen, Due, Waiting, Ahead, Behind, Gap

LEMMA SeenTick ==
  ASSUME TypeOK, NEW u \in Users, NEW b \in Nat, Tick, Seen(u, b),
         silent'[u] = silent[u] + 1
  PROVE  Seen(u, b)' /\ \E d \in Cfgs : silent[u] + 1 < b + Gap(d)
<1>1. silent[u] \in Nat
  BY SessionConstantsOK DEF TypeOK
<1> QED BY <1>1, DueTick DEF Seen, Due, Waiting, Ahead, Behind

LEMMA SeenStart ==
  ASSUME TypeOK, NEW u \in Users, NEW b \in Nat, AgeStart, Seen(u, b)
  PROVE  Seen(u, b)'
<1>1. silent[u] \in Nat /\ silent'[u] = silent[u]
  BY SessionConstantsOK DEF TypeOK, AgeStart
<1> QED BY <1>1, DueStart DEF Seen, Due, Waiting, Ahead, Behind

LEMMA SeenVisit ==
  ASSUME TypeOK, CfgWords, NEW u \in Users, NEW b \in Nat, AgeBucket,
         silent'[u] = silent[u],
         \/ Bucket[u] = bkt /\ silent[u] < b
         \/ Bucket[u] # bkt /\ Seen(u, b)
  PROVE  Seen(u, b)'
<1>1. silent[u] \in Nat
  BY SessionConstantsOK DEF TypeOK
<1> QED BY <1>1, DueVisit DEF Seen, Due, Waiting, Ahead, Behind

LEMMA SeenBound ==
  ASSUME TypeOK, NEW u \in Users, NEW b \in Nat, Seen(u, b)
  PROVE  \E d \in Cfgs : silent[u] < b + Gap(d)
<1>1. silent[u] \in Nat
  BY SessionConstantsOK DEF TypeOK
<1> QED BY <1>1, DueBound DEF Seen
-----------------------------------------------------------------------------
(* The ageing invariant.                                                   *)

\* A session whose silence is bounded has not been silent for a round of jiffies.
LEMMA SilentBelowWrap ==
  ASSUME NoWrap, TypeOK, NEW u \in Users, LiveInTime(u)
  PROVE  silent[u] < Wrap
<1>1. PICK e \in Cfgs, f \in {"over", "del"} : Seen(u, AllowedBy(e[f]))
  BY DEF LiveInTime
<1>2. AllowedBy(e[f]) \in Nat
  BY CfgType
<1>3. PICK d \in Cfgs : silent[u] < AllowedBy(e[f]) + Gap(d)
  BY <1>1, <1>2, SeenBound
<1>4. AllowedBy(e[f]) + Gap(d) <= Wrap /\ Gap(d) \in Nat
  BY CfgType DEF NoWrap
<1> QED BY <1>2, <1>3, <1>4, SessionConstantsOK DEF TypeOK

\* A session that a visit leaves where it is was within one of the two times.
LEMMA SpareIsRecent ==
  ASSUME TypeOK, CfgWords, IdleIsExact, NEW u \in Here
  PROVE  /\ u \notin Dead => \E e \in Cfgs, f \in {"over", "del"} : silent[u] < AllowedBy(e[f])
         /\ u \notin Late => \E c \in Cfgs : silent[u] < AllowedBy(c["over"])
         /\ u \in Late => \E c \in Cfgs : silent[u] >= AllowedBy(c["over"])
         /\ u \in Dead => \E e \in Cfgs : silent[u] >= AllowedBy(e["del"])
<1> USE SessionConstantsOK
<1>1. Idle(u) = silent[u] /\ silent[u] \in Nat /\ HZ \in Nat /\ HZ >= 1
  BY DEF IdleIsExact, TypeOK, Here
<1>2. ASSUME NEW f \in {"over", "del"}
      PROVE  \E c \in Cfgs : /\ Seconds(u) > cfg[f] => silent[u] >= AllowedBy(c[f])
                             /\ ~(Seconds(u) > cfg[f]) => silent[u] < AllowedBy(c[f])
  <2>1. PICK c \in Cfgs : cfg[f] = c[f]
    BY DEF CfgWords, Words
  <2>2. cfg[f] \in Nat
    BY DEF TypeOK, Words
  <2>3. Seconds(u) <= cfg[f] <=> silent[u] < AllowedBy(c[f])
    BY <1>1, <2>1, <2>2, WholeSeconds DEF Seconds, AllowedBy
  <2>4. Seconds(u) \in Nat /\ AllowedBy(c[f]) \in Nat
    <3>1. \A x, z \in Nat : z >= 1 => x \div z \in Nat
      BY SMT
    <3> QED BY <1>1, <3>1, CfgType DEF Seconds
  <2>5. /\ Seconds(u) > cfg[f] => silent[u] >= AllowedBy(c[f])
        /\ ~(Seconds(u) > cfg[f]) => silent[u] < AllowedBy(c[f])
    BY <1>1, <2>2, <2>3, <2>4
  <2> QED BY <2>5
<1> QED BY <1>2 DEF Dead, Late

LEMMA WordsInit == Init => CfgWords
<1> SUFFICES ASSUME Init PROVE CfgWords
  OBVIOUS
<1>1. Span(cfg) \in Nat /\ togo = Span(cfg) /\ cfg \in Cfgs
  BY CfgType DEF Init, Span
<1>2. togo <= Span(cfg)
  BY <1>1
<1> QED BY <1>1, <1>2 DEF CfgWords

\* The ageing invariant holds at first.
LEMMA AgeInit == NoWrap /\ Init => AgeInv
<1> SUFFICES ASSUME NoWrap, Init PROVE AgeInv
  OBVIOUS
<1>1. TypeOK
  BY TypeInit
<1>2. CfgWords
  BY WordsInit
<1> QED BY <1>1, <1>2 DEF Init, Nobody, AgeInv, IdleIsExact

\* A step that keeps the status and moves every bound of the sessions it keeps.
LEMMA BoundsMove ==
  ASSUME AgeInv, NEW u \in Users, st'[u] # "NONE", st'[u] = st[u],
         \A b \in Nat : Seen(u, b) => Seen(u, b)'
  PROVE  LiveInTime(u)' /\ (st'[u] = "UP" => UpInTime(u)')
<1>1. \A c \in Cfgs : AllowedBy(c["over"]) \in Nat /\ AllowedBy(c["del"]) \in Nat
  BY CfgType
<1>2. LiveInTime(u)'
  <2>1. PICK e \in Cfgs, f \in {"over", "del"} : Seen(u, AllowedBy(e[f]))
    BY DEF AgeInv, LiveInTime
  <2>2. Seen(u, AllowedBy(e[f]))'
    BY <1>1, <2>1 DEF AllowedBy
  <2> QED BY <2>2 DEF LiveInTime
<1>3. ASSUME st'[u] = "UP" PROVE UpInTime(u)'
  <2>1. UpInTime(u)
    BY <1>3 DEF AgeInv
  <2>2. ASSUME NEW c \in Cfgs, Seen(u, AllowedBy(c["over"])) PROVE UpInTime(u)'
    BY <1>1, <2>2 DEF UpInTime, AllowedBy
  <2>3. ASSUME Seen(u, LoginWithin + 1) PROVE UpInTime(u)'
    BY <2>3, SessionConstantsOK DEF UpInTime
  <2> QED BY <2>1, <2>2, <2>3 DEF UpInTime
<1> QED BY <1>2, <1>3

\* Every word the timer or a copy uses stays one of some configuration.
LEMMA WordsStep == TypeOK /\ CfgWords /\ [Next]_vars => CfgWords'
<1> SUFFICES ASSUME TypeOK, CfgWords, [Next]_vars PROVE CfgWords'
  OBVIOUS
<1>1. CASE Tick
  <2>1. PICK d \in Cfgs : togo <= Span(d)
    BY DEF CfgWords
  <2>2. togo' <= Span(d)
    BY <1>1, <2>1, CfgType DEF Tick, TypeOK
  <2> QED BY <1>1, <2>2 DEF CfgWords, Tick, Span
<1>2. CASE AgeBucket
  <2>1. PICK d \in Cfgs : cfg["interval"] = d["interval"]
    BY DEF CfgWords, Words
  <2>2. PICK e \in Cfgs : togo <= Span(e)
    BY DEF CfgWords
  <2>3. togo' <= Span(d) \/ togo' <= Span(e)
    BY <1>2, <2>1, <2>2, CfgType DEF AgeBucket, Span
  <2> QED BY <1>2, <2>3 DEF CfgWords, AgeBucket, Span
<1>3. CASE CopyWord
  <2>1. PICK f \in Words, c \in Cfgs : cfg' = [cfg EXCEPT ![f] = c[f]]
    BY <1>3 DEF CopyWord
  <2> QED BY <1>3, <2>1 DEF CfgWords, CopyWord, TypeOK, timer, Span
<1>4. CASE UNCHANGED <<cfg, togo>>
  BY <1>4 DEF CfgWords, Span
<1> QED BY <1>1, <1>2, <1>3, <1>4
        DEF Next, Age, AgeStart, Packet, Login, vars, timer

\* Any step keeps the ageing invariant.
LEMMA AgeStep == NoWrap /\ AgeInv /\ [Next]_vars => AgeInv'
<1> SUFFICES ASSUME NoWrap, AgeInv, [Next]_vars PROVE AgeInv'
  OBVIOUS
<1> USE SessionConstantsOK
<1>0. TypeOK /\ TypeOK' /\ CfgWords /\ CfgWords' /\ IdleIsExact
  BY TypeStep, WordsStep DEF AgeInv
<1>a. \A c \in Cfgs : /\ AllowedBy(c["over"]) \in Nat /\ AllowedBy(c["over"]) >= 1
                      /\ AllowedBy(c["del"]) \in Nat /\ AllowedBy(c["del"]) >= 1
  BY CfgType
\* It is enough to look at one session.
<1>b. ASSUME \A u \in Users : st'[u] # "NONE" =>
               /\ Idle(u)' = silent'[u] /\ LiveInTime(u)'
               /\ st'[u] = "UP" => UpInTime(u)'
      PROVE  AgeInv'
  BY <1>0, <1>b DEF AgeInv, IdleIsExact
<1>1. CASE Tick
  <2>1. ASSUME NEW u \in Users, st'[u] # "NONE"
        PROVE  /\ Idle(u)' = silent'[u] /\ LiveInTime(u)'
               /\ st'[u] = "UP" => UpInTime(u)'
    <3>1. st'[u] = st[u] /\ st[u] # "NONE" /\ LiveInTime(u)
      BY <1>1, <2>1 DEF Tick, AgeInv
    <3>2. silent'[u] = silent[u] + 1
      BY <1>0, <1>1, <3>1, SilentBelowWrap DEF Tick
    <3>3. \A b \in Nat : Seen(u, b) => Seen(u, b)' /\ \E d \in Cfgs : silent[u] + 1 < b + Gap(d)
      BY <1>0, <1>1, <3>2, SeenTick
    <3>4. PICK e \in Cfgs, f \in {"over", "del"} : Seen(u, AllowedBy(e[f]))
      BY <3>1 DEF LiveInTime
    <3>5. PICK d \in Cfgs : silent[u] + 1 < AllowedBy(e[f]) + Gap(d)
      BY <1>a, <3>3, <3>4
    <3>6. AllowedBy(e[f]) + Gap(d) <= Wrap /\ Gap(d) \in Nat
      BY CfgType DEF NoWrap
    <3>7. silent[u] + 1 < Wrap
      BY <1>0, <1>a, <3>5, <3>6 DEF TypeOK
    <3>8. Idle(u) = silent[u] /\ last' = last /\ last[u] \in 0 .. Wrap - 1
          /\ jiffies \in 0 .. Wrap - 1
          /\ jiffies' = IF jiffies + 1 < Wrap THEN jiffies + 1 ELSE 0
      BY <1>0, <1>1, <3>1 DEF IdleIsExact, Tick, TypeOK
    <3>9. Idle(u)' = silent'[u]
      BY <3>2, <3>7, <3>8 DEF Idle
    <3> QED BY <2>1, <3>1, <3>3, <3>9, BoundsMove
  <2> QED BY <1>b, <2>1
<1>2. CASE AgeStart
  <2>1. \A u \in Users : \A b \in Nat : Seen(u, b) => Seen(u, b)'
    BY <1>0, <1>2, SeenStart
  <2>2. IdleIsExact' /\ st' = st
    BY <1>0, <1>2 DEF AgeStart, IdleIsExact, Idle
  <2> QED BY <1>b, <2>1, <2>2, BoundsMove DEF IdleIsExact
<1>3. CASE AgeBucket
  <2>1. ASSUME NEW u \in Users, st'[u] # "NONE"
        PROVE  /\ Idle(u)' = silent'[u] /\ LiveInTime(u)'
               /\ st'[u] = "UP" => UpInTime(u)'
    <3>1. /\ st[u] # "NONE" /\ u \notin Dead /\ silent'[u] = silent[u]
          /\ last'[u] = last[u] /\ jiffies' = jiffies
          /\ st'[u] = IF u \in Late THEN "DOWN" ELSE st[u]
      <4>1. u \in Late => st[u] # "NONE"
        BY DEF Late, Here
      <4>2. st'[u] = IF u \in Dead THEN "NONE" ELSE IF u \in Late THEN "DOWN" ELSE st[u]
        BY <1>3 DEF AgeBucket
      <4>3. st[u] # "NONE" /\ u \notin Dead
        BY <2>1, <4>1, <4>2
      <4> QED BY <1>3, <4>2, <4>3 DEF AgeBucket
    <3>2. Idle(u)' = silent'[u]
      BY <1>0, <3>1 DEF IdleIsExact, Idle
    <3>3. CASE Bucket[u] = bkt
      <4>1. u \in Here
        BY <3>1, <3>3 DEF Here
      <4>2. \A b \in Nat : silent[u] < b => Seen(u, b)'
        <5>1. ASSUME NEW b \in Nat, silent[u] < b PROVE Seen(u, b)'
          <6>1. Bucket[u] = bkt /\ silent[u] < b
            BY <3>3, <5>1
          <6>2. TypeOK /\ CfgWords /\ silent'[u] = silent[u]
            BY <1>0, <3>1
          <6> QED BY <1>3, <6>1, <6>2, SeenVisit
        <5> QED BY <5>1
      <4>3. PICK e \in Cfgs, f \in {"over", "del"} : silent[u] < AllowedBy(e[f])
        BY <1>0, <3>1, <4>1, SpareIsRecent
      <4>4. Seen(u, AllowedBy(e[f]))'
        BY <1>a, <4>2, <4>3 DEF AllowedBy
      <4>5. ASSUME st'[u] = "UP" PROVE UpInTime(u)'
        <5>1. u \notin Late
          BY <3>1, <4>5
        <5>2. PICK c \in Cfgs : silent[u] < AllowedBy(c["over"])
          BY <1>0, <4>1, <5>1, SpareIsRecent
        <5>3. Seen(u, AllowedBy(c["over"]))'
          BY <1>a, <4>2, <5>2 DEF AllowedBy
        <5> QED BY <5>3 DEF UpInTime
      <4> QED BY <3>2, <4>4, <4>5 DEF LiveInTime
    <3>4. CASE Bucket[u] # bkt
      <4>1. st'[u] = st[u]
        BY <3>1, <3>4 DEF Late, Here
      <4>2. \A b \in Nat : Seen(u, b) => Seen(u, b)'
        BY <1>0, <1>3, <3>1, <3>4, SeenVisit
      <4> QED BY <2>1, <3>2, <4>1, <4>2, BoundsMove
    <3> QED BY <3>3, <3>4
  <2> QED BY <1>b, <2>1
<1>4. CASE CopyWord
  <2>1. UNCHANGED <<jiffies, st, last, timer, silent>>
    BY <1>4 DEF CopyWord
  <2>2. \A u \in Users : \A b \in Nat : Seen(u, b) => Seen(u, b)'
    BY <1>0, <2>1, SeenFrame
  <2>3. IdleIsExact'
    BY <1>0, <2>1 DEF IdleIsExact, Idle
  <2> QED BY <1>b, <2>1, <2>2, <2>3, BoundsMove DEF IdleIsExact
<1>5. ASSUME NEW u \in Users, Packet(u) PROVE AgeInv'
  <2>1. ASSUME NEW v \in Users, st'[v] # "NONE"
        PROVE  /\ Idle(v)' = silent'[v] /\ LiveInTime(v)'
               /\ st'[v] = "UP" => UpInTime(v)'
    <3>1. UNCHANGED <<jiffies, cfg, timer>>
      BY <1>5 DEF Packet
    <3>2. CASE last'[v] = jiffies /\ silent'[v] = 0
      <4>1. \A b \in Nat : b >= 1 => Seen(v, b)'
        BY <1>0, <3>1, <3>2, SeenFresh
      <4>2. PICK c \in Cfgs : TRUE
        OBVIOUS
      <4>3. Seen(v, AllowedBy(c["over"]))'
        BY <1>a, <4>1 DEF AllowedBy
      <4>4. Idle(v)' = silent'[v]
        BY <1>0, <3>1, <3>2 DEF Idle, TypeOK
      <4> QED BY <4>3, <4>4 DEF LiveInTime, UpInTime
    <3>3. CASE st'[v] = st[v] /\ last'[v] = last[v] /\ silent'[v] = silent[v]
      <4>1. \A b \in Nat : Seen(v, b) => Seen(v, b)'
        BY <1>0, <3>1, <3>3, SeenFrame
      <4>2. Idle(v)' = silent'[v]
        BY <1>0, <2>1, <3>1, <3>3 DEF Idle, IdleIsExact
      <4> QED BY <2>1, <3>3, <4>1, <4>2, BoundsMove
    <3> QED BY <1>0, <1>5, <3>2, <3>3 DEF Packet, TypeOK
  <2> QED BY <1>b, <2>1
<1>6. ASSUME NEW u \in Users, Login(u) PROVE AgeInv'
  <2>1. UNCHANGED <<jiffies, cfg, last, timer, silent>>
    BY <1>6 DEF Login
  <2>2. \A v \in Users : \A b \in Nat : Seen(v, b) => Seen(v, b)'
    BY <1>0, <2>1, SeenFrame
  <2>3. IdleIsExact'
    BY <1>0, <1>6, <2>1 DEF IdleIsExact, Idle, Login, TypeOK
  <2>4. ASSUME NEW v \in Users, st'[v] # "NONE"
        PROVE  LiveInTime(v)' /\ (st'[v] = "UP" => UpInTime(v)')
    <3>1. CASE v = u
      <4>1. silent'[u] < LoginWithin + 1 /\ silent'[u] \in Nat /\ LoginWithin + 1 \in Nat
        BY <1>0, <1>6 DEF Login, TypeOK
      <4>2. Seen(u, LoginWithin + 1)'
        BY <1>0, <2>1, <4>1, SeenFresh
      <4>3. PICK e \in Cfgs, f \in {"over", "del"} : Seen(u, AllowedBy(e[f]))
        BY <1>6 DEF AgeInv, LiveInTime, Login
      <4>4. Seen(u, AllowedBy(e[f]))'
        BY <1>a, <2>2, <4>3 DEF AllowedBy
      <4> QED BY <3>1, <4>2, <4>4 DEF LiveInTime, UpInTime
    <3>2. CASE v # u
      <4>1. st'[v] = st[v]
        BY <1>0, <1>6, <3>2 DEF Login, TypeOK
      <4> QED BY <2>2, <2>4, <4>1, BoundsMove
    <3> QED BY <3>1, <3>2
  <2> QED BY <1>b, <2>3, <2>4 DEF IdleIsExact
<1>7. CASE UNCHANGED vars
  <2>1. UNCHANGED <<jiffies, cfg, st, last, timer, silent>>
    BY <1>7 DEF vars
  <2>2. \A u \in Users : \A b \in Nat : Seen(u, b) => Seen(u, b)'
    BY <1>0, <2>1, SeenFrame
  <2>3. IdleIsExact'
    BY <1>0, <2>1 DEF IdleIsExact, Idle
  <2> QED BY <1>b, <2>1, <2>2, <2>3, BoundsMove DEF IdleIsExact
<1> QED BY <1>1, <1>2, <1>3, <1>4, <1>5, <1>6, <1>7 DEF Next, Age

-----------------------------------------------------------------------------
(* The theorems.                                                           *)

\* The idle time the timer computes from two values of jiffies is the time since
\* the session's last access, whatever the clock's width, as long as the times
\* configured are within one round of it.
THEOREM IdleTimesAreExact == NoWrap => (Spec => []IdleIsExact)
<1> SUFFICES ASSUME NoWrap PROVE Spec => []IdleIsExact
  OBVIOUS
<1>1. Init => AgeInv
  BY AgeInit
<1>2. AgeInv /\ [Next]_vars => AgeInv'
  BY AgeStep
<1>3. AgeInv => IdleIsExact
  BY DEF AgeInv
<1> QED BY <1>1, <1>2, <1>3, PTL DEF Spec

\* A user who is UP has not been silent for longer than over_time, or since a
\* login, and the time from one pass to the next.
LEMMA UpIsRecent ==
  ASSUME AgeInv, NEW u \in Users, st[u] = "UP"
  PROVE  \E c, d \in Cfgs : \/ silent[u] < AllowedBy(c["over"]) + Gap(d)
                            \/ silent[u] <= LoginWithin + Gap(d)
<1>0. TypeOK /\ UpInTime(u) /\ silent[u] \in Nat /\ LoginWithin \in Nat
  BY SessionConstantsOK DEF AgeInv, TypeOK
<1>1. ASSUME NEW c \in Cfgs, Seen(u, AllowedBy(c["over"]))
      PROVE  \E d \in Cfgs : silent[u] < AllowedBy(c["over"]) + Gap(d)
  BY <1>0, <1>1, SeenBound, CfgType
<1>2. ASSUME Seen(u, LoginWithin + 1)
      PROVE  \E d \in Cfgs : silent[u] <= LoginWithin + Gap(d)
  <2>1. PICK d \in Cfgs : silent[u] < LoginWithin + 1 + Gap(d)
    BY <1>0, <1>2, SeenBound
  <2>2. silent[u] <= LoginWithin + Gap(d)
    BY <1>0, <2>1, CfgType
  <2> QED BY <2>2
<1> QED BY <1>0, <1>1, <1>2 DEF UpInTime

\* A user who sends nothing is set DOWN by the pass after over_time has gone by,
\* or after a late login.
THEOREM SilentUsersGoDown == NoWrap => (Spec => []NobodyStaysUp)
<1> SUFFICES ASSUME NoWrap PROVE Spec => []NobodyStaysUp
  OBVIOUS
<1>1. Init => AgeInv
  BY AgeInit
<1>2. AgeInv /\ [Next]_vars => AgeInv'
  BY AgeStep
<1>3. AgeInv => NobodyStaysUp
  BY UpIsRecent DEF NobodyStaysUp
<1> QED BY <1>1, <1>2, <1>3, PTL DEF Spec

\* A session that is UP is not freed by the pass that finds it: there was one
\* before, or there is this one, that sets it DOWN.
LEMMA UpIsNotDead ==
  ASSUME Spaced, AgeInv, NEW u \in Here, st[u] = "UP"
  PROVE  u \notin Dead
<1>1. TypeOK /\ CfgWords /\ IdleIsExact /\ silent[u] \in Nat /\ LoginWithin \in Nat
  BY SessionConstantsOK DEF AgeInv, TypeOK, Here
<1>2. PICK c, d \in Cfgs : \/ silent[u] < AllowedBy(c["over"]) + Gap(d)
                           \/ silent[u] <= LoginWithin + Gap(d)
  BY UpIsRecent DEF Here
<1>3. \A e \in Cfgs : silent[u] < AllowedBy(e["del"])
  <2>1. TAKE e \in Cfgs
  <2>2. /\ AllowedBy(c["over"]) + Gap(d) <= AllowedBy(e["del"])
        /\ LoginWithin + Gap(d) < AllowedBy(e["del"])
    BY DEF Spaced
  <2>3. Gap(d) \in Nat /\ AllowedBy(c["over"]) \in Nat /\ AllowedBy(e["del"]) \in Nat
    BY CfgType
  <2> QED BY <1>1, <1>2, <2>2, <2>3
<1>4. \A e \in Cfgs : AllowedBy(e["del"]) \in Nat
  BY CfgType
<1> QED BY <1>1, <1>3, <1>4, SpareIsRecent

\* What a report tells: the status it gives of a user it mentions.
LEMMA Told ==
  ASSUME NEW r, Report(r), NEW u \in Users
  PROVE  told'[u] = IF r[u] = "NONE" THEN told[u] ELSE r[u]
BY DEF Report

LEMMA KnownStep == Spaced /\ AgeInv /\ AcKnowsWhoPasses /\ [Next]_vars => AcKnowsWhoPasses'
<1> SUFFICES ASSUME Spaced, AgeInv, AcKnowsWhoPasses, [Next]_vars,
                    NEW u \in Users
             PROVE  (told[u] = "UP" <=> st[u] = "UP")'
  BY DEF AcKnowsWhoPasses
<1>0. TypeOK /\ (told[u] = "UP" <=> st[u] = "UP")
  BY DEF AgeInv, AcKnowsWhoPasses
<1>1. CASE Tick
  BY <1>0, <1>1 DEF Tick
<1>2. CASE AgeStart
  BY <1>0, <1>2 DEF AgeStart
<1>3. CASE AgeBucket
  <2>1. st'[u] = IF u \in Dead THEN "NONE" ELSE IF u \in Late THEN "DOWN" ELSE st[u]
    BY <1>3 DEF AgeBucket
  <2>2. told'[u] = LET r == IF u \in Here \ Dead THEN st'[u] ELSE "NONE"
                   IN IF r = "NONE" THEN told[u] ELSE r
    BY <1>3, Told DEF AgeBucket
  <2>3. u \in Dead \/ u \in Late => u \in Here
    BY DEF Dead, Late
  <2>4. u \in Dead => st[u] # "UP"
    BY <2>3, UpIsNotDead
  <2> QED BY <1>0, <2>1, <2>2, <2>3, <2>4
<1>4. CASE CopyWord
  BY <1>0, <1>4 DEF CopyWord
<1>5. ASSUME NEW v \in Users, Packet(v) PROVE (told[u] = "UP" <=> st[u] = "UP")'
  BY <1>0, <1>5 DEF Packet, TypeOK
<1>6. ASSUME NEW v \in Users, Login(v) PROVE (told[u] = "UP" <=> st[u] = "UP")'
  <2>1. st'[u] = IF u = v THEN "UP" ELSE st[u]
    BY <1>0, <1>6 DEF Login, TypeOK
  <2>2. told'[u] = IF u = v THEN "UP" ELSE told[u]
    BY <1>6, Told DEF Login, LoginTold, Nobody
  <2> QED BY <1>0, <2>1, <2>2
<1>7. CASE UNCHANGED vars
  BY <1>0, <1>7 DEF vars
<1> QED BY <1>1, <1>2, <1>3, <1>4, <1>5, <1>6, <1>7 DEF Next, Age

\* The AC was last told UP of exactly the users whose packets pass: no session is
\* freed before the AC was told that it is DOWN, whatever order configuration
\* words, packets, logins and passes come in.
THEOREM AcIsToldWhoPasses == NoWrap /\ Spaced => (Spec => []AcKnowsWhoPasses)
<1> SUFFICES ASSUME NoWrap, Spaced PROVE Spec => []AcKnowsWhoPasses
  OBVIOUS
<1>1. Init => AgeInv /\ AcKnowsWhoPasses
  BY AgeInit DEF Init, Nobody, AcKnowsWhoPasses
<1>2. AgeInv /\ AcKnowsWhoPasses /\ [Next]_vars => (AgeInv /\ AcKnowsWhoPasses)'
  BY AgeStep, KnownStep
<1> QED BY <1>1, <1>2, PTL DEF Spec

\* What the AC has of a user who is UP was on its list at the last visit or is newer.
UpIsHeard == \A u \in Users : st[u] = "UP" => Mac[u] \in listed /\ Heard(u)

\* The next report comes before the AC counts more than a minute.
LEMMA HeardIsRecent ==
  ASSUME ClocksAgree, NEW x \in Nat, NEW d \in Cfgs, x <= Gap(d)
  PROVE  ~MayLapse(x) /\ x < Oldest
<1>1. /\ Skew \in Int /\ Skew >= 0 /\ HZ \in Nat /\ HZ >= 1 /\ Minute \in Nat
      /\ Gap(d) \in Nat /\ Gap(d) + Skew < Minute * HZ
  BY SessionConstantsOK, CfgType DEF ClocksAgree
<1>2. x + Skew \in Nat /\ x + Skew < Minute * HZ /\ Minute * HZ \in Nat
  BY <1>1, TimesNat
<1>3. Minute >= 1
  BY <1>1, <1>2
<1>4. (x + Skew) \div HZ <= Minute - 1
  <2>1. (Minute - 1) + 1 = Minute /\ Minute - 1 \in Nat
    BY <1>1, <1>3
  <2> QED BY <1>1, <1>2, <2>1, WholeSeconds
<1>5. (x + Skew) \div HZ \in Nat
  <2>1. \A n, z \in Nat : z >= 1 => n \div z \in Nat
    BY SMT
  <2> QED BY <1>1, <1>2, <2>1
<1>6. ~MayLapse(x)
  BY <1>1, <1>4, <1>5 DEF MayLapse, Differences
<1>7. x < Oldest
  <2>1. (Minute + 1) * HZ = Minute * HZ + HZ
    BY <1>1
  <2> QED BY <1>1, <1>2, <2>1 DEF Oldest
<1> QED BY <1>6, <1>7

\* What a report leaves of the AC's list: a user it calls UP is on it, with a stamp of
\* now; a user it does not mention, of whom the AC has heard lately, stays.
LEMMA ListedAfter ==
  ASSUME OneAddressEach, ClocksAgree, TypeOK, NEW r, Report(r), NEW u \in Users
  PROVE  /\ r[u] = "UP" => Mac[u] \in listed' /\ age'[Mac[u]] = 0
         /\ r[u] = "NONE" /\ Mac[u] \in listed /\ ~MayLapse(age[Mac[u]])
              => Mac[u] \in listed' /\ age'[Mac[u]] = age[Mac[u]]
<1> DEFINE heard == {x \in Users : r[x] # "NONE"}
           named == {Mac[x] : x \in heard}
           Others(m) == named \ {m}
<1>1. PICK stamp \in [named -> Stamps],
           gone \in SUBSET {m \in listed : Others(m) # {} /\ MayLapse(age[m])} :
          /\ \E lost \in SUBSET {m \in named : Others(m) # {} /\ MayLapse(stamp[m])} :
               listed' = (((listed \ gone) \ named)
                            \cup {Mac[x] : x \in {y \in heard :
                                     ListAfter(Mac[y], r[y], listed \ gone)}}) \ lost
          /\ age' = [m \in Macs |-> IF m \notin listed' THEN 0
                                     ELSE IF m \in named THEN stamp[m] ELSE age[m]]
  BY DEF Report
<1>2. PICK lost \in SUBSET {m \in named : Others(m) # {} /\ MayLapse(stamp[m])} :
        listed' = (((listed \ gone) \ named)
                     \cup {Mac[x] : x \in {y \in heard :
                              ListAfter(Mac[y], r[y], listed \ gone)}}) \ lost
  BY <1>1
<1>3. \A m \in named : stamp[m] = 0
  BY <1>1 DEF Stamps, ClocksAgree
<1>4. ~MayLapse(0)
  <2>1. PICK d \in Cfgs : TRUE
    BY SessionConstantsOK
  <2> QED BY <2>1, CfgType, HeardIsRecent
<1>5. lost = {}
  BY <1>2, <1>3, <1>4
<1>6. Mac[u] \in Macs
  BY DEF Macs
<1>7. CASE r[u] = "UP"
  <2>1. Mac[u] \in named /\ u \in heard
    BY <1>7
  <2>2. ListAfter(Mac[u], r[u], listed \ gone)
    BY <1>7 DEF ListAfter
  <2>3. Mac[u] \in listed'
    BY <1>2, <1>5, <2>1, <2>2
  <2>4. age'[Mac[u]] = 0
    BY <1>1, <1>3, <1>6, <2>1, <2>3
  <2> QED BY <1>7, <2>3, <2>4
<1>8. CASE r[u] = "NONE" /\ Mac[u] \in listed /\ ~MayLapse(age[Mac[u]])
  <2>1. Mac[u] \notin named
    BY <1>8 DEF OneAddressEach
  <2>2. Mac[u] \notin gone
    BY <1>8
  <2>3. Mac[u] \in listed'
    BY <1>2, <1>5, <1>8, <2>1, <2>2
  <2>4. age'[Mac[u]] = age[Mac[u]]
    BY <1>1, <1>6, <2>1, <2>3
  <2> QED BY <1>8, <2>3, <2>4
<1> QED BY <1>7, <1>8

LEMMA ListedStep ==
  OneAddressEach /\ ClocksAgree /\ TypeOK /\ CfgWords /\ UpIsHeard /\ [Next]_vars
    => UpIsHeard'
<1> SUFFICES ASSUME OneAddressEach, ClocksAgree, TypeOK, CfgWords, UpIsHeard, [Next]_vars,
                    NEW u \in Users, st'[u] = "UP"
             PROVE  Mac[u] \in listed' /\ Heard(u)'
  BY DEF UpIsHeard
<1> DEFINE a == age[Mac[u]]
<1>0. /\ st[u] = "UP" => Mac[u] \in listed /\ Heard(u)
      /\ Mac[u] \in Macs /\ a \in Nat /\ age'[Mac[u]] = age'[Mac[u]]
  BY OldestNat DEF UpIsHeard, Macs, TypeOK
<1>a. ASSUME Heard(u) PROVE ~MayLapse(a) /\ a < Oldest
  <2>1. PICK d \in Cfgs : a < 1 + Gap(d)
    BY <1>0, <1>a, DueBound DEF Heard
  <2>2. a <= Gap(d)
    BY <1>0, <2>1, CfgType
  <2> QED BY <1>0, <2>2, HeardIsRecent
\* What the AC has stays as old as it is, or is new.
<1>b. ASSUME UNCHANGED timer, age'[Mac[u]] = a, Heard(u) PROVE Heard(u)'
  BY <1>0, <1>b, DueFrame DEF Heard, Due, Waiting, Ahead, Behind
<1>c. ASSUME UNCHANGED timer, age'[Mac[u]] = 0 PROVE Heard(u)'
  BY <1>c, DueFresh DEF Heard, Due, Waiting, Ahead, Behind
<1>1. CASE Tick
  <2>1. Mac[u] \in listed /\ Heard(u) /\ listed' = listed
    BY <1>0, <1>1 DEF Tick
  <2>2. age'[Mac[u]] = a + 1
    BY <1>0, <1>1, <1>a, <2>1 DEF Tick
  <2>3. Heard(u)'
    BY <1>0, <1>1, <2>1, <2>2, DueTick DEF Heard, Due, Waiting, Ahead, Behind
  <2> QED BY <2>1, <2>3
<1>2. CASE AgeStart
  <2>1. Mac[u] \in listed /\ Heard(u) /\ UNCHANGED <<listed, age>>
    BY <1>0, <1>2 DEF AgeStart, list
  <2>2. Heard(u)'
    BY <1>0, <1>2, <2>1, DueStart DEF Heard, Due, Waiting, Ahead, Behind
  <2> QED BY <2>1, <2>2
<1>3. CASE AgeBucket
  <2> DEFINE r == [x \in Users |-> IF x \in Here \ Dead THEN st'[x] ELSE "NONE"]
  <2>1. Report(r)
    BY <1>3 DEF AgeBucket
  <2>2. u \notin Dead /\ u \notin Late /\ st[u] = "UP"
    <3>1. st' = [x \in Users |-> IF x \in Dead THEN "NONE"
                                 ELSE IF x \in Late THEN "DOWN" ELSE st[x]]
      BY <1>3 DEF AgeBucket
    <3> QED BY <3>1
  <2>3. CASE Bucket[u] = bkt
    <3>1. r[u] = "UP"
      BY <2>2, <2>3 DEF Here
    <3> HIDE DEF r
    <3>2. Mac[u] \in listed' /\ age'[Mac[u]] = 0
      BY <2>1, <3>1, ListedAfter
    <3>3. Heard(u)'
      BY <1>3, <2>3, <3>2, DueVisit DEF Heard, Due, Waiting, Ahead, Behind
    <3> QED BY <3>2, <3>3
  <2>4. CASE Bucket[u] # bkt
    <3>1. r[u] = "NONE"
      BY <2>4 DEF Here
    <3> HIDE DEF r
    <3>2. Mac[u] \in listed' /\ age'[Mac[u]] = a
      BY <1>0, <1>a, <2>1, <2>2, <3>1, ListedAfter
    <3>3. Heard(u)'
      BY <1>0, <1>3, <2>2, <2>4, <3>2, DueVisit DEF Heard, Due, Waiting, Ahead, Behind
    <3> QED BY <3>2, <3>3
  <2> QED BY <2>3, <2>4
<1>4. CASE CopyWord
  BY <1>0, <1>4, <1>b DEF CopyWord, list
<1>5. ASSUME NEW v \in Users, Packet(v) PROVE Mac[u] \in listed' /\ Heard(u)'
  BY <1>0, <1>5, <1>b DEF Packet, TypeOK, list
<1>6. ASSUME NEW v \in Users, Login(v) PROVE Mac[u] \in listed' /\ Heard(u)'
  <2> DEFINE r == [Nobody EXCEPT ![v] = "UP"]
  <2>1. Report(r) /\ UNCHANGED timer
    BY <1>6 DEF Login, LoginTold
  <2>2. r[u] = IF u = v THEN "UP" ELSE "NONE"
    BY DEF Nobody
  <2> HIDE DEF r
  <2>3. CASE u = v
    BY <1>c, <2>1, <2>2, <2>3, ListedAfter
  <2>4. CASE u # v
    <3>1. Mac[u] \in listed /\ Heard(u)
      BY <1>0, <1>6, <2>4 DEF Login, TypeOK
    <3> QED BY <1>a, <1>b, <2>1, <2>2, <2>4, <3>1, ListedAfter
  <2> QED BY <2>3, <2>4
<1>7. CASE UNCHANGED vars
  BY <1>0, <1>7, <1>b DEF vars, list
<1> QED BY <1>1, <1>2, <1>3, <1>4, <1>5, <1>6, <1>7 DEF Next, Age

\* Every user who may pass is on the AC's list, if reports are stamped whole, the AP's
\* clock is not ahead, and the time between two passes, with the delays and what the
\* clocks differ by, is below the minute: then no report of another user finds the
\* latest one about them too old by the AC's unsigned difference.
THEOREM UpUsersStayListed ==
  OneAddressEach /\ ClocksAgree => (Spec => []UpUsersAreListed)
<1> SUFFICES ASSUME OneAddressEach, ClocksAgree PROVE Spec => []UpUsersAreListed
  OBVIOUS
<1>1. Init => TypeOK /\ CfgWords /\ UpIsHeard
  BY TypeInit, WordsInit DEF Init, Nobody, UpIsHeard
<1>2. TypeOK /\ CfgWords /\ UpIsHeard /\ [Next]_vars => (TypeOK /\ CfgWords /\ UpIsHeard)'
  BY TypeStep, WordsStep, ListedStep
<1>3. UpIsHeard => UpUsersAreListed
  BY DEF UpIsHeard, UpUsersAreListed
<1> QED BY <1>1, <1>2, <1>3, PTL DEF Spec

-----------------------------------------------------------------------------
(* Logins that stay.                                                       *)

\* A user set UP since the last visit is still UP, and the next visit is as near as
\* if the login had been a visit.
FreshLogins == \A u \in fresh : st[u] = "UP" /\ Seen(u, LoginWithin + 1)

LEMMA FreshStep == NoWrap /\ AgeInv /\ FreshLogins /\ [Next]_vars => FreshLogins'
<1> SUFFICES ASSUME NoWrap, AgeInv, FreshLogins, [Next]_vars, NEW u \in fresh'
             PROVE  st'[u] = "UP" /\ Seen(u, LoginWithin + 1)'
  BY DEF FreshLogins
<1> DEFINE b == LoginWithin + 1
<1>0. /\ TypeOK /\ CfgWords /\ b \in Nat /\ b >= 1
      /\ u \in fresh => u \in Users /\ st[u] = "UP" /\ Seen(u, b)
  BY SessionConstantsOK DEF AgeInv, FreshLogins, TypeOK
<1>1. CASE Tick
  <2>1. u \in Users /\ st[u] = "UP" /\ Seen(u, b) /\ st' = st
    BY <1>0, <1>1 DEF Tick
  <2>2. silent'[u] = silent[u] + 1
    BY <1>0, <1>1, <2>1, SilentBelowWrap DEF Tick, AgeInv
  <2>3. Seen(u, b)'
    BY <1>0, <1>1, <2>1, <2>2, SeenTick
  <2> QED BY <2>1, <2>3
<1>2. CASE AgeStart
  <2>1. u \in Users /\ st[u] = "UP" /\ Seen(u, b) /\ st' = st
    BY <1>0, <1>2 DEF AgeStart
  <2>2. Seen(u, b)'
    BY <1>0, <1>2, <2>1, SeenStart
  <2> QED BY <2>1, <2>2
<1>3. CASE AgeBucket
  <2>1. u \in Users /\ u \notin Here /\ st[u] = "UP" /\ Seen(u, b)
    BY <1>0, <1>3 DEF AgeBucket
  <2>2. Bucket[u] # bkt /\ u \notin Late /\ u \notin Dead
    BY <2>1 DEF Here, Late, Dead
  <2>3. st'[u] = st[u] /\ silent'[u] = silent[u]
    BY <1>3, <2>1, <2>2 DEF AgeBucket
  <2>4. Seen(u, b)'
    BY <1>0, <1>3, <2>1, <2>2, <2>3, SeenVisit
  <2> QED BY <2>1, <2>3, <2>4
<1>4. CASE CopyWord
  <2>1. u \in Users /\ st[u] = "UP" /\ Seen(u, b) /\ UNCHANGED <<st, timer, silent>>
    BY <1>0, <1>4 DEF CopyWord
  <2>2. Seen(u, b)'
    BY <1>0, <2>1, SeenFrame
  <2> QED BY <2>1, <2>2
<1>5. ASSUME NEW v \in Users, Packet(v) PROVE st'[u] = "UP" /\ Seen(u, b)'
  <2>1. u \in Users /\ st[u] = "UP" /\ Seen(u, b) /\ st'[u] = st[u] /\ UNCHANGED timer
    BY <1>0, <1>5 DEF Packet, TypeOK
  <2>2. CASE silent'[u] = 0
    <3>1. silent'[u] \in Nat /\ silent'[u] < b
      BY <1>0, <2>2
    <3>2. Seen(u, b)'
      BY <1>0, <2>1, <3>1, SeenFresh
    <3> QED BY <2>1, <3>2
  <2>3. CASE silent'[u] = silent[u]
    BY <1>0, <2>1, <2>3, SeenFrame
  <2> QED BY <1>0, <1>5, <2>2, <2>3 DEF Packet, TypeOK
<1>6. ASSUME NEW v \in Users, Login(v) PROVE st'[u] = "UP" /\ Seen(u, b)'
  <2>1. UNCHANGED <<timer, silent>> /\ u \in Users
    BY <1>0, <1>6 DEF Login
  <2>2. CASE u = v
    <3>1. silent'[u] \in Nat /\ silent'[u] < b
      BY <1>0, <1>6, <2>1, <2>2, SessionConstantsOK DEF Login, TypeOK
    <3>2. Seen(u, b)'
      BY <1>0, <2>1, <3>1, SeenFresh
    <3>3. st'[u] = "UP"
      BY <1>0, <1>6, <2>2 DEF Login, TypeOK
    <3> QED BY <3>2, <3>3
  <2>3. CASE u # v
    <3>1. st[u] = "UP" /\ Seen(u, b) /\ st'[u] = st[u]
      BY <1>0, <1>6, <2>3 DEF Login, TypeOK
    <3>2. Seen(u, b)'
      BY <1>0, <2>1, <3>1, SeenFrame
    <3> QED BY <3>1, <3>2
  <2> QED BY <2>2, <2>3
<1>7. CASE UNCHANGED vars
  <2>1. u \in Users /\ st[u] = "UP" /\ Seen(u, b) /\ UNCHANGED <<st, timer, silent>>
    BY <1>0, <1>7 DEF vars
  <2>2. Seen(u, b)'
    BY <1>0, <2>1, SeenFrame
  <2> QED BY <2>1, <2>2
<1> QED BY <1>1, <1>2, <1>3, <1>4, <1>5, <1>6, <1>7 DEF Next, Age

\* The visit that comes after a login finds the user within over_time.
LEMMA FreshIsNotLate ==
  ASSUME LoginsAreEarly, AgeInv, FreshLogins, NEW u \in fresh
  PROVE  u \notin Late
<1>1. TypeOK /\ CfgWords /\ IdleIsExact /\ u \in Users /\ silent[u] \in Nat
      /\ LoginWithin \in Nat /\ Seen(u, LoginWithin + 1)
  BY SessionConstantsOK DEF AgeInv, FreshLogins, TypeOK
<1>2. PICK d \in Cfgs : silent[u] < LoginWithin + 1 + Gap(d)
  BY <1>1, SeenBound
<1>3. \A c \in Cfgs : silent[u] < AllowedBy(c["over"])
  BY <1>1, <1>2, CfgType DEF LoginsAreEarly
<1>4. \A c \in Cfgs : AllowedBy(c["over"]) \in Nat
  BY CfgType
<1>5. u \in Late => u \in Here
  BY DEF Late
<1> QED BY <1>1, <1>3, <1>4, <1>5, SpareIsRecent

\* A login lasts, if the user was heard at most over_time less one interval between
\* passes before it: the condition under which flow_session_up_node may leave
\* last_access_time as it was.
THEOREM EarlyLoginsStick == NoWrap /\ LoginsAreEarly => (Spec => LoginSticks)
<1> SUFFICES ASSUME NoWrap, LoginsAreEarly PROVE Spec => LoginSticks
  OBVIOUS
<1>1. Init => AgeInv /\ FreshLogins
  BY AgeInit DEF Init, FreshLogins
<1>2. AgeInv /\ FreshLogins /\ [Next]_vars => (AgeInv /\ FreshLogins)'
  BY AgeStep, FreshStep
<1>3. AgeInv /\ FreshLogins /\ [Next]_vars
        => [\A u \in fresh : u \notin fresh' => st'[u] = "UP"]_vars
  <2> SUFFICES ASSUME AgeInv, FreshLogins, Next, NEW u \in fresh, u \notin fresh'
               PROVE  st'[u] = "UP"
    BY DEF vars
  <2>1. AgeBucket
    BY DEF Next, Age, Tick, AgeStart, CopyWord, Packet, Login
  <2>2. u \in Users /\ st[u] = "UP" /\ u \notin Late
    BY FreshIsNotLate DEF FreshLogins, AgeInv, TypeOK
  <2>3. u \notin Dead
    BY <2>2 DEF Dead
  <2> QED BY <2>1, <2>2, <2>3 DEF AgeBucket
<1> QED BY <1>1, <1>2, <1>3, PTL DEF Spec, LoginSticks

-----------------------------------------------------------------------------
(* The sessions are leases.                                                *)

\* The silence of the lease, by the history instead of the clock.
Silence == [u \in Users |-> IF st[u] = "NONE" THEN 0 ELSE silent[u]]

LEMMA MeasuredIsReal == AgeInv => Measured = Silence
BY DEF AgeInv, IdleIsExact, Measured, Silence

LEMMA MeasuredIsRealAfter ==
  ASSUME AgeInv'
  PROVE  Measured' = Silence'
<1>1. (AgeInv => Measured = Silence)'
  BY MeasuredIsReal, PTL
<1> QED BY <1>1

\* The AC's knowledge, by the status.
LEMMA ToldIsUp == AcKnowsWhoPasses => ToldUp = {u \in Users : st[u] = "UP"}
BY DEF AcKnowsWhoPasses, ToldUp

LEMMA ToldIsUpAfter ==
  ASSUME AcKnowsWhoPasses'
  PROVE  ToldUp' = {u \in Users : st'[u] = "UP"}
<1>1. (AcKnowsWhoPasses => ToldUp = {u \in Users : st[u] = "UP"})'
  BY ToldIsUp, PTL
<1> QED BY <1>1

LEMMA BoundsBefore ==
  ASSUME NEW S, NEW b \in S, NEW d \in Cfgs
  PROVE  b + Gap(d) \in Before(S)
BY DEF Before

\* The clock ticks only while every session is within its limits.
LEMMA TickIsInTime ==
  ASSUME AgeInv, Tick, NEW u \in Users, st[u] # "NONE", silent'[u] = silent[u] + 1
  PROVE  L!InTime(u)
<1>1. TypeOK /\ LiveInTime(u) /\ (st[u] = "UP" => UpInTime(u)) /\ Measured[u] = silent[u]
      /\ LoginWithin + 1 \in Nat
  BY SessionConstantsOK, MeasuredIsReal DEF AgeInv, Silence
<1>2. \A b \in Nat : Seen(u, b) => \E d \in Cfgs : silent[u] + 1 < b + Gap(d)
  BY <1>1, SeenTick
<1>3. \E t \in Before(OverTimes \cup DelTimes) : silent[u] + 1 < t
  <2>1. PICK e \in Cfgs, f \in {"over", "del"} : Seen(u, AllowedBy(e[f]))
    BY <1>1 DEF LiveInTime
  <2>2. AllowedBy(e[f]) \in OverTimes \cup DelTimes /\ AllowedBy(e[f]) \in Nat
    BY CfgType DEF OverTimes, DelTimes
  <2>3. PICK d \in Cfgs : silent[u] + 1 < AllowedBy(e[f]) + Gap(d)
    BY <1>2, <2>1, <2>2
  <2> QED BY <2>2, <2>3, BoundsBefore
<1>4. ASSUME st[u] = "UP"
      PROVE  \E t \in Before(OverTimes \cup {LateLogins}) : silent[u] + 1 < t
  <2>1. PICK b \in OverTimes \cup {LateLogins} : Seen(u, b)
    BY <1>1, <1>4 DEF UpInTime, OverTimes, LateLogins
  <2>2. b \in Nat
    BY <1>1, CfgType DEF OverTimes, LateLogins
  <2>3. PICK d \in Cfgs : silent[u] + 1 < b + Gap(d)
    BY <1>2, <2>1, <2>2
  <2> QED BY <2>1, <2>3, BoundsBefore
<1> QED BY <1>1, <1>3, <1>4 DEF L!InTime, HoldLimits, KeepLimits

LEMMA TickRefines ==
  ASSUME NoWrap, AgeInv, AgeInv', Tick
  PROVE  L!Tick
<1>1. Measured = Silence /\ Measured' = Silence'
  BY MeasuredIsReal, MeasuredIsRealAfter
<1>2. UNCHANGED <<st, told>> /\ ToldUp' = ToldUp
  BY DEF Tick, ToldUp
<1>3. ASSUME NEW u \in Users, st[u] # "NONE"
      PROVE  silent'[u] = silent[u] + 1
  BY <1>3, SilentBelowWrap DEF Tick, AgeInv
<1>4. \A u \in Users : L!Present(u) => L!InTime(u)
  BY <1>3, TickIsInTime DEF L!Present
<1>5. Measured' = [u \in Users |-> IF L!Present(u) THEN Measured[u] + 1 ELSE 0]
  BY <1>1, <1>2, <1>3 DEF Silence, L!Present
<1> QED BY <1>2, <1>4, <1>5 DEF L!Tick

\* One bucket of a pass: who goes DOWN was silent for over_time, who is freed was
\* DOWN and silent for del_time, and the AC learns it in the same step.
LEMMA BucketRefines ==
  ASSUME Spaced, AgeInv, AgeInv', AcKnowsWhoPasses, AcKnowsWhoPasses', AgeBucket
  PROVE  \E ended, gone \in SUBSET Users : L!Expire(ended, gone)
<1> DEFINE ended == {u \in Late \ Dead : st[u] = "UP"}
<1>0. /\ TypeOK /\ CfgWords /\ IdleIsExact
      /\ Late \subseteq Here /\ Dead \subseteq Late /\ Here \subseteq Users
      /\ Measured = Silence /\ Measured' = Silence'
  BY MeasuredIsReal, MeasuredIsRealAfter DEF AgeInv, Late, Dead, Here
<1>1. ASSUME NEW u \in ended PROVE st[u] = "UP" /\ L!Over(u, OverTimes)
  <2>1. u \in Here /\ u \in Late /\ st[u] = "UP" /\ Measured[u] = silent[u]
    BY <1>0 DEF Silence
  <2>2. \E t \in OverTimes : silent[u] >= t
    BY <1>0, <2>1, SpareIsRecent DEF OverTimes
  <2> QED BY <2>1, <2>2 DEF L!Over
<1>2. ASSUME NEW u \in Dead PROVE st[u] = "DOWN" /\ L!Over(u, DelTimes)
  <2>1. u \in Here /\ st[u] # "NONE"
    BY <1>0 DEF Here
  <2>2. st[u] = "DOWN"
    BY <1>0, <2>1, UpIsNotDead DEF TypeOK, Status
  <2>3. \E t \in DelTimes : silent[u] >= t
    BY <1>0, <2>1, SpareIsRecent DEF DelTimes
  <2>4. Measured[u] = silent[u]
    BY <1>0, <2>1 DEF Silence
  <2> QED BY <2>2, <2>3, <2>4 DEF L!Over
<1>3. st' = [u \in Users |-> IF u \in Dead THEN "NONE"
                            ELSE IF u \in ended THEN "DOWN" ELSE st[u]]
  <2>1. ASSUME NEW u \in Late \ Dead, st[u] # "UP" PROVE st[u] = "DOWN"
    BY <1>0, <2>1 DEF TypeOK, Status, Here
  <2> QED BY <2>1 DEF AgeBucket
<1>4. Measured' = [u \in Users |-> IF u \in Dead THEN 0 ELSE Measured[u]]
  <2>1. ASSUME NEW u \in Users
        PROVE  Silence'[u] = IF u \in Dead THEN 0 ELSE Silence[u]
    <3>1. u \in Dead => st'[u] = "NONE"
      BY <1>3
    <3>2. u \notin Dead => (st'[u] = "NONE" <=> st[u] = "NONE") /\ silent'[u] = silent[u]
      BY <1>3 DEF AgeBucket
    <3> QED BY <3>1, <3>2 DEF Silence
  <2> QED BY <1>0, <2>1 DEF Silence
<1>5. ToldUp' = ToldUp \ ended
  <2>1. ToldUp = {u \in Users : st[u] = "UP"} /\ ToldUp' = {u \in Users : st'[u] = "UP"}
    BY ToldIsUp, ToldIsUpAfter
  <2>2. ASSUME NEW u \in Users PROVE st'[u] = "UP" <=> st[u] = "UP" /\ u \notin ended
    BY <1>2, <1>3
  <2> QED BY <2>1, <2>2
<1>6. L!Expire(ended, Dead)
  <2> HIDE DEF ended
  <2> QED BY <1>1, <1>2, <1>3, <1>4, <1>5 DEF L!Expire
<1> QED BY <1>0, <1>6

LEMMA UserRefines ==
  ASSUME AgeInv, AgeInv', NEW u \in Users, Packet(u) \/ Login(u)
  PROVE  L!Access(u) \/ L!Grant(u) \/ UNCHANGED L!vars
<1>0. TypeOK /\ Measured = Silence /\ Measured' = Silence'
  BY MeasuredIsReal, MeasuredIsRealAfter DEF AgeInv
<1>1. CASE Packet(u) /\ UNCHANGED <<st, silent>>
  <2>1. Silence' = Silence /\ ToldUp' = ToldUp
    BY <1>1 DEF Packet, Silence, ToldUp
  <2> QED BY <1>0, <1>1, <2>1 DEF L!vars
<1>2. CASE /\ Packet(u) /\ st' = [st EXCEPT ![u] = IF @ = "NONE" THEN "DOWN" ELSE @]
           /\ silent' = [silent EXCEPT ![u] = 0]
  <2>1. ToldUp' = ToldUp
    BY <1>2 DEF Packet, ToldUp
  <2>2. Silence' = [Silence EXCEPT ![u] = 0]
    BY <1>0, <1>2 DEF Silence, TypeOK
  <2>3. st' = [st EXCEPT ![u] = IF L!Present(u) THEN @ ELSE "DOWN"]
    BY <1>0, <1>2 DEF L!Present, TypeOK
  <2> QED BY <1>0, <2>1, <2>2, <2>3 DEF L!Access
<1>3. CASE Login(u)
  <2>1. /\ st[u] # "NONE" /\ silent[u] <= LoginWithin /\ st' = [st EXCEPT ![u] = "UP"]
        /\ silent' = silent
    BY <1>3 DEF Login
  <2>2. \A v \in Users : told'[v] = IF v = u THEN "UP" ELSE told[v]
    BY <1>3, Told DEF Login, LoginTold, Nobody
  <2>3. ToldUp' = ToldUp \cup {u}
    BY <2>2 DEF ToldUp
  <2>4. Silence' = Silence /\ Silence[u] = silent[u]
    BY <1>0, <2>1 DEF Silence, TypeOK
  <2> QED BY <1>0, <2>1, <2>3, <2>4 DEF L!Grant, L!Present
<1> QED BY <1>1, <1>2, <1>3 DEF Packet

\* The sessions of the kernel module, with their 32-bit clock, bucket by bucket timer,
\* late passes, word by word configuration and reports, are leases in real time that
\* the AC is always told of: every step is one of UserLease or a stutter.
THEOREM SessionsAreLeases ==
  NoWrap /\ Spaced => (Spec => L!Spec /\ ImplementsLease)
<1> SUFFICES ASSUME NoWrap, Spaced PROVE Spec => L!Spec /\ ImplementsLease
  OBVIOUS
<1> DEFINE Inv == AgeInv /\ AcKnowsWhoPasses
<1>1. Init => Inv /\ L!Init
  BY AgeInit DEF Init, Nobody, AcKnowsWhoPasses, L!Init, Measured, ToldUp
<1>2. Inv /\ [Next]_vars => Inv'
  BY AgeStep, KnownStep
<1>3. Inv /\ Inv' /\ [Next]_vars => [LeaseStep]_vars /\ [L!Next]_(L!vars)
  <2> SUFFICES ASSUME Inv, Inv', [Next]_vars PROVE [L!Next]_(L!vars)
    BY DEF LeaseStep
  <2>1. CASE Tick
    BY <2>1, TickRefines DEF L!Next
  <2>2. CASE UNCHANGED <<jiffies, st, last, told>>
    BY <2>2 DEF L!vars, Measured, ToldUp, Idle
  <2>3. CASE AgeBucket
    BY <2>3, BucketRefines DEF L!Next
  <2>4. ASSUME NEW u \in Users, Packet(u) \/ Login(u) PROVE [L!Next]_(L!vars)
    BY <2>4, UserRefines DEF L!Next
  <2> QED BY <2>1, <2>2, <2>3, <2>4 DEF Next, Age, AgeStart, CopyWord, vars
<1> QED BY <1>1, <1>2, <1>3, PTL DEF Spec, L!Spec, ImplementsLease
=============================================================================
