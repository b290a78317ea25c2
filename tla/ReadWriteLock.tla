---------------------------- MODULE ReadWriteLock ----------------------------
(***************************************************************************)
(* What src/foundation/lock_registry.h promises for one resource key: a    *)
(* lease is shared or exclusive, an exclusive one is alone, and nobody but *)
(* its holder (or the death of the holder's process) ends a lease.         *)
(***************************************************************************)
CONSTANT Threads

VARIABLES
  readers,   \* threads that hold a shared lease
  writers    \* threads that hold an exclusive lease

leases == <<readers, writers>>

Init == readers = {} /\ writers = {}

AcquireShared(t) ==
  /\ t \notin readers
  /\ writers = {}
  /\ readers' = readers \cup {t}
  /\ UNCHANGED writers

AcquireExclusive(t) ==
  /\ readers = {} /\ writers = {}
  /\ writers' = {t}
  /\ UNCHANGED readers

Release(t) ==
  /\ t \in readers \cup writers
  /\ readers' = readers \ {t}
  /\ writers' = writers \ {t}

(* A process dies with the leases of its threads.                          *)
Abandon(dead) ==
  /\ readers' = readers \ dead
  /\ writers' = writers \ dead

Next ==
  \/ \E t \in Threads : AcquireShared(t) \/ AcquireExclusive(t) \/ Release(t)
  \/ \E dead \in SUBSET Threads : Abandon(dead)

Spec == Init /\ [][Next]_leases
=============================================================================
