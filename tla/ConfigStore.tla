----------------------------- MODULE ConfigStore -----------------------------
(***************************************************************************)
(* What the daemon promises about the configuration of its AP, until its   *)
(* threads mix up their work: a key is worked on for one order at a time;  *)
(* what was ordered is stored, and that very thing becomes active, but for *)
(* names that do not resolve. What is stored can be made active again, but *)
(* some orders are stored in a form that reads as garbage, and the members *)
(* of a list may have changed between storing and activating them.         *)
(***************************************************************************)
CONSTANTS
  Keys,    \* what can be configured
  Values,  \* the values of each key
  Start,   \* what is active at the start
  Listed,  \* the keys of which only the part that resolves becomes active
  Named,   \* the keys that do not become active unless they resolve
  Least,   \* what is left of a list of which no name resolves
  Garbage  \* what a value in the wrong form reads as

VARIABLES
  stored,  \* the database
  sealed,  \* the keys stored in a form that is not read
  active,  \* what the kernel runs with
  order,   \* what each key is being set to, and how far that is
  mixed    \* threads have mixed up their work

vars == <<stored, sealed, active, order, mixed>>

To(place, v) == [to |-> place, val |-> v]
Nothing == To("nowhere", Least)

Init ==
  /\ stored \in [Keys -> UNION {Values[k] : k \in Keys}]
  /\ \A k \in Keys : stored[k] \in Values[k]
  /\ sealed \subseteq Named
  /\ active = Start /\ order = [k \in Keys |-> Nothing] /\ mixed = FALSE

\* Somebody orders v for k; or what is stored, or the least, to be active again.
Readable(k) == IF k \in sealed THEN {} ELSE {stored[k]}
IsOrder(k, o) ==
  \/ o.to = "database" /\ o.val \in Values[k]
  \/ /\ o.to = "again"
     /\ \/ o.val \in Readable(k)
        \/ k \in Listed /\ o.val = Least
        \/ k \in Named /\ o.val = Garbage

Give(k) ==
  /\ order[k] = Nothing /\ IsOrder(k, order'[k])
  /\ order' = [order EXCEPT ![k] = order'[k]]
  /\ UNCHANGED <<stored, sealed, active>>

\* A list is emptied before it is stored.
Empty(k) ==
  /\ k \in Listed /\ order[k].to = "database"
  /\ stored' = [stored EXCEPT ![k] = Least] /\ UNCHANGED <<sealed, active, order>>

Store(k) ==
  /\ order[k].to = "database"
  /\ stored' = [stored EXCEPT ![k] = order[k].val]
  /\ sealed' = sealed \cup ({k} \cap Named)
  /\ order' = [order EXCEPT ![k].to = "kernel"] /\ UNCHANGED active

\* The list ordered is looked at once more.
Reread(k) ==
  /\ k \in Listed /\ order[k].to = "kernel"
  /\ \E v \in Values[k] : order' = [order EXCEPT ![k].val = v]
  /\ UNCHANGED <<stored, sealed, active>>

\* Names do not resolve.
Reduce(k) ==
  /\ k \in Listed /\ order[k].to \in {"kernel", "again"}
  /\ order' = [order EXCEPT ![k].val = Least] /\ UNCHANGED <<stored, sealed, active>>
Drop(k) ==
  /\ k \in Named /\ order[k].to \in {"kernel", "again"}
  /\ order' = [order EXCEPT ![k] = Nothing] /\ UNCHANGED <<stored, sealed, active>>

Activate(k) ==
  /\ order[k].to \in {"kernel", "again"}
  /\ active' = [active EXCEPT ![k] = order[k].val]
  /\ order' = [order EXCEPT ![k] = Nothing] /\ UNCHANGED <<stored, sealed>>

\* Threads can mix up their work only while some key is worked on; after that nothing
\* is promised.
MixUp ==
  mixed' /\ (mixed \/ \E k \in Keys : order[k] # Nothing \/ order'[k] # Nothing)

Next ==
  \/ MixUp
  \/ /\ ~mixed /\ ~mixed'
     /\ \E k \in Keys :
          \/ Give(k) \/ Empty(k) \/ Store(k)
          \/ Reread(k) \/ Reduce(k) \/ Drop(k) \/ Activate(k)

Spec == Init /\ [][Next]_vars
=============================================================================
