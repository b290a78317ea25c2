---------------------------- MODULE ProjectLeases ----------------------------
(***************************************************************************)
(* What src/daemon/project_lock.h promises the operations of a process: a  *)
(* project's lock key has one owner, and the owner of "*" is the owner of  *)
(* every project.  Of locks, their parts and the order in which they are   *)
(* taken and given back the promise says nothing.                          *)
(***************************************************************************)
CONSTANTS
  Workers,   \* processes
  Keys       \* lock keys of projects

VARIABLES
  owned,     \* the keys that each worker owns
  all        \* workers that own every project

table == <<owned, all>>

Init == owned = [w \in Workers |-> {}] /\ all = {}

Own(w, k) ==
  /\ all = {} /\ \A v \in Workers : k \notin owned[v]
  /\ owned' = [owned EXCEPT ![w] = @ \cup {k}]
  /\ UNCHANGED all

OwnAll(w) ==
  /\ all = {} /\ \A v \in Workers : owned[v] = {}
  /\ all' = {w}
  /\ UNCHANGED owned

Disown(w, k) ==
  /\ k \in owned[w]
  /\ owned' = [owned EXCEPT ![w] = @ \ {k}]
  /\ UNCHANGED all

DisownAll(w) ==
  /\ w \in all
  /\ all' = all \ {w}
  /\ UNCHANGED owned

(* A process dies with all that it owns.                                   *)
Die(w) ==
  /\ owned' = [owned EXCEPT ![w] = {}]
  /\ all' = all \ {w}

Next ==
  \E w \in Workers :
    \/ OwnAll(w) \/ DisownAll(w) \/ Die(w)
    \/ \E k \in Keys : Own(w, k) \/ Disown(w, k)

Spec == Init /\ [][Next]_table
=============================================================================
