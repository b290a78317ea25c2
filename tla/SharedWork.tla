----------------------------- MODULE SharedWork -----------------------------
(***************************************************************************)
(* What src/daemon/application.h promises the sessions of a daemon about   *)
(* the work on their projects: one physical index job per project, within  *)
(* a limit, for all sessions that need it; cancelled for good when nobody  *)
(* needs it any more or the daemon stops, and for no other reason; and a   *)
(* project database that is written by that job alone, and removed only    *)
(* under a reservation, which excludes both jobs and other reservations.   *)
(* Of job objects, subscriptions, their counters, watches and threads the  *)
(* promise says nothing.                                                   *)
(***************************************************************************)
EXTENDS Naturals, FiniteSets

CONSTANTS
  Sessions,   \* client sessions
  Mutators,   \* the threads that change projects themselves
  Projects,   \* projects that can be indexed
  Star,       \* the key of all projects
  NoKey,      \* no reservation
  Indexed,    \* the projects whose database exists at the start
  Limit       \* of physical jobs

VARIABLES
  open,       \* the daemon accepts work
  waiting,    \* projects whose job waits for mutations to end
  working,    \* projects whose job may write the database
  ending,     \* projects whose job has yet to publish its end
  cancelled,  \* projects whose job is cancelled
  needs,      \* the sessions that need the job of each project
  reserved,   \* the key that each mutator has reserved
  indexed     \* the projects that have a database

promise == <<open, waiting, working, ending, cancelled, needs, reserved, indexed>>

Busy == waiting \cup working \cup ending

Conflict(k, l) == k = l \/ k = Star \/ l = Star

Free(k) == \A m \in Mutators : reserved[m] # NoKey => ~Conflict(reserved[m], k)

Init ==
  /\ open = TRUE
  /\ waiting = {} /\ working = {} /\ ending = {} /\ cancelled = {}
  /\ needs = [p \in Projects |-> {}]
  /\ reserved = [m \in Mutators |-> NoKey]
  /\ indexed = Indexed

(* Sessions come to need a job and let it go in all steps.                 *)
Needs ==
  /\ needs' \in [Projects -> SUBSET Sessions]
  /\ \A p \in Projects \ Busy' : needs'[p] = {}
  /\ cancelled' = {p \in Busy' : p \in cancelled \/ needs'[p] = {} \/ ~open'}

Begin(p) ==
  /\ open /\ p \notin Busy /\ Cardinality(Busy) < Limit
  /\ waiting' = waiting \cup {p}
  /\ UNCHANGED <<open, working, ending, reserved, indexed>>

Start(p) ==
  /\ p \in waiting /\ p \notin cancelled /\ Free(p)
  /\ waiting' = waiting \ {p}
  /\ working' = working \cup {p}
  /\ UNCHANGED <<open, ending, reserved, indexed>>

Index(p) ==
  /\ p \in working
  /\ indexed' = indexed \cup {p}
  /\ UNCHANGED <<open, waiting, working, ending, reserved>>

(* A job that was cancelled in time has not started.                       *)
Settle(p) ==
  /\ p \in working \/ p \in waiting \cap cancelled
  /\ waiting' = waiting \ {p}
  /\ working' = working \ {p}
  /\ ending' = ending \cup {p}
  /\ UNCHANGED <<open, reserved, indexed>>

End(p) ==
  /\ p \in ending
  /\ ending' = ending \ {p}
  /\ UNCHANGED <<open, waiting, working, reserved, indexed>>

Reserve(m, k) ==
  /\ open /\ reserved[m] = NoKey /\ Free(k)
  /\ \A p \in Busy : ~Conflict(k, p)
  /\ reserved' = [reserved EXCEPT ![m] = k]
  /\ UNCHANGED <<open, waiting, working, ending, indexed>>

Remove(m) ==
  /\ indexed' = indexed \ {reserved[m]}
  /\ UNCHANGED <<open, waiting, working, ending, reserved>>

Unreserve(m) ==
  /\ reserved' = [reserved EXCEPT ![m] = NoKey]
  /\ UNCHANGED <<open, waiting, working, ending, indexed>>

Stop ==
  /\ open' = FALSE
  /\ UNCHANGED <<waiting, working, ending, reserved, indexed>>

Change ==
  \/ UNCHANGED <<open, waiting, working, ending, reserved, indexed>>
  \/ Stop
  \/ \E p \in Projects : Begin(p) \/ Start(p) \/ Index(p) \/ Settle(p) \/ End(p)
  \/ \E m \in Mutators :
       Remove(m) \/ Unreserve(m) \/ \E k \in Projects \cup {Star} : Reserve(m, k)

Next == Needs /\ Change

Spec == Init /\ [][Next]_promise
=============================================================================
