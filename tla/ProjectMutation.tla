-------------------------- MODULE ProjectMutation --------------------------
(***************************************************************************)
(* Mutations of projects by processes that run tools themselves: the       *)
(* project lock of src/daemon/project_lock.c, taken with the retry loop of *)
(* src/main.c by the cross-repo operation of src/mcp/mcp.c, which holds    *)
(* several projects at once (an index run holds one).                      *)
(*                                                                         *)
(* A named project is an exclusive lock on its case-folded key under a     *)
(* shared lock on the project set; "*" is an exclusive lock on the set.    *)
(* The set's lock is the registry's (module LockRegistry): a turn and a rw *)
(* file, and the turn is what makes a waiting "*" shut out named projects, *)
(* also those of an operation that holds other projects already.  Project  *)
(* keys are only ever locked exclusively, so a key has one owner.          *)
(***************************************************************************)
EXTENDS Integers, FiniteSets

CONSTANTS
  Workers,        \* processes
  Projects,       \* project names as callers spell them
  Star,           \* the name "*"
  Keys,           \* lock keys
  Fold,           \* the case-folded key of each name
  Order,          \* position of each name: by folded key, then spelling
  MaxOperations   \* bound of the model: operations of each worker

ASSUME MutationAssumption ==
  /\ Star \notin Projects
  /\ Fold \in [Projects -> Keys]
  /\ Order \in [Projects -> Nat]
  /\ \A n, m \in Projects : Order[n] = Order[m] => n = m
  /\ MaxOperations \in Nat

VARIABLES
  wanted,      \* lease_keys of the operation not yet acquired
  current,     \* the name whose lease is being acquired or released
  leases,      \* the names whose lease is held
  setTurn,     \* how a worker holds the turn of the project set
  setHeld,     \* workers whose current lease holds the project set
  keyHeld,     \* workers whose current lease holds its project's key
  pc,
  operations   \* operations begun so far

vars == <<wanted, current, leases, setTurn, setHeld, keyHeld, pc, operations>>
-----------------------------------------------------------------------------
Name == Projects \cup {Star}

NoName == "none"

(* The names of the leases that hold the set, or a key, for a worker: a    *)
(* complete lease holds what it needs, the current one perhaps a part.     *)
UnderSet(w) ==
  leases[w] \cup (IF w \in setHeld THEN {current[w]} ELSE {})
UnderKey(w) ==
  (leases[w] \cup (IF w \in keyHeld THEN {current[w]} ELSE {})) \ {Star}

KeysOf(names) == {Fold[n] : n \in names}

(* handle_cross_repo_mode keeps one spelling of each key.                  *)
LeaseKeys(names) ==
  {n \in names : \A m \in names :
     n # Star /\ Fold[m] = Fold[n] => Order[n] <= Order[m]}

(* It takes the leases in one order, and gives them back in reverse.       *)
FirstOf(names) ==
  {n \in names : n = Star \/ \A m \in names : Order[n] <= Order[m]}

LastOf(names) ==
  {n \in names : n = Star \/ \A m \in names : Order[m] <= Order[n]}

Goto(w, where) == pc' = [pc EXCEPT ![w] = where]
-----------------------------------------------------------------------------
Init ==
  /\ wanted = [w \in Workers |-> {}]
  /\ current = [w \in Workers |-> NoName]
  /\ leases = [w \in Workers |-> {}]
  /\ setTurn = [w \in Workers |-> "none"]
  /\ setHeld = {}
  /\ keyHeld = {}
  /\ pc = [w \in Workers |-> "idle"]
  /\ operations = [w \in Workers |-> 0]

(* handle_cross_repo_mode, and handle_index_repository with one name.      *)
BeginOperation(w, names) ==
  /\ pc[w] = "idle"
  /\ operations[w] < MaxOperations
  /\ operations' = [operations EXCEPT ![w] = @ + 1]
  /\ wanted' = [wanted EXCEPT ![w] = LeaseKeys(names)]
  /\ Goto(w, "next")
  /\ UNCHANGED <<current, leases, setTurn, setHeld, keyHeld>>

NextLease(w, n) ==
  /\ pc[w] = "next"
  /\ n \in FirstOf(wanted[w])
  /\ current' = [current EXCEPT ![w] = n]
  /\ wanted' = [wanted EXCEPT ![w] = @ \ {n}]
  /\ Goto(w, "turn")
  /\ UNCHANGED <<leases, setTurn, setHeld, keyHeld, operations>>

StartWork(w) ==
  /\ pc[w] = "next"
  /\ wanted[w] = {}
  /\ Goto(w, "work")
  /\ UNCHANGED <<wanted, current, leases, setTurn, setHeld, keyHeld, operations>>
-----------------------------------------------------------------------------
(* pmm_project_lock_acquire.  A named project reads the set.               *)
TurnMode(n) == IF n = Star THEN "SH" ELSE "EX"

TakeSetTurn(w) ==
  /\ pc[w] = "turn"
  /\ \A v \in Workers \ {w} :
       IF TurnMode(current[w]) = "SH" THEN setTurn[v] # "EX"
                                      ELSE setTurn[v] = "none"
  /\ setTurn' = [setTurn EXCEPT ![w] = TurnMode(current[w])]
  /\ Goto(w, "set")
  /\ UNCHANGED <<wanted, current, leases, setHeld, keyHeld, operations>>

(* Variant: the set is taken without looking.                              *)
SetFreeAlways(w) == TRUE

(* An exclusive rw for "*", a shared one otherwise.                        *)
SetFree(w) ==
  \A v \in Workers \ {w} :
    IF current[w] = Star THEN UnderSet(v) = {} ELSE Star \notin UnderSet(v)

(* The set is locked; a reader gives the turn back.  "*" is complete.      *)
TakeSet(w) ==
  /\ pc[w] = "set"
  /\ SetFree(w)
  /\ setHeld' = setHeld \cup {w}
  /\ setTurn' = IF current[w] = Star THEN setTurn
                                     ELSE [setTurn EXCEPT ![w] = "none"]
  /\ Goto(w, IF current[w] = Star THEN "done" ELSE "key")
  /\ UNCHANGED <<wanted, current, leases, keyHeld, operations>>

TakeKey(w) ==
  /\ pc[w] = "key"
  /\ \A v \in Workers : Fold[current[w]] \notin KeysOf(UnderKey(v))
  /\ keyHeld' = keyHeld \cup {w}
  /\ Goto(w, "done")
  /\ UNCHANGED <<wanted, current, leases, setTurn, setHeld, operations>>

(* main_local_cli_mutation_begin records the lease.                        *)
RecordLease(w) ==
  /\ pc[w] = "done"
  /\ leases' = [leases EXCEPT ![w] = @ \cup {current[w]}]
  /\ current' = [current EXCEPT ![w] = NoName]
  /\ setHeld' = setHeld \ {w}
  /\ keyHeld' = keyHeld \ {w}
  /\ Goto(w, "next")
  /\ UNCHANGED <<wanted, setTurn, operations>>

(* What an acquisition holds is given back; it is retried or given up.     *)
AbandonRound(w, where) ==
  /\ pc[w] \in {"turn", "set", "key"}
  /\ setTurn' = [setTurn EXCEPT ![w] = "none"]
  /\ setHeld' = setHeld \ {w}
  /\ Goto(w, where)
  /\ UNCHANGED <<wanted, leases, keyHeld, operations>>

(* Variant: a round has no deadline.                                       *)
RoundEndsNever(w) == FALSE /\ UNCHANGED vars

(* The deadline of a round passes: BUSY, and the loop tries again.         *)
RoundEnds(w) == AbandonRound(w, "turn") /\ UNCHANGED current

(* Any other failure ends the operation: the held leases are given back.   *)
LockFails(w) ==
  /\ AbandonRound(w, "giveback")
  /\ current' = [current EXCEPT ![w] = NoName]
-----------------------------------------------------------------------------
(* The work is done, cancelled or failed.                                  *)
EndWork(w) ==
  /\ pc[w] = "work"
  /\ Goto(w, "giveback")
  /\ UNCHANGED <<wanted, current, leases, setTurn, setHeld, keyHeld, operations>>

(* pmm_project_lock_lease_release of the last lease: the key (its rw and   *)
(* turn), then the set.                                                    *)
BeginRelease(w, n) ==
  /\ pc[w] = "giveback"
  /\ n \in LastOf(leases[w])
  /\ leases' = [leases EXCEPT ![w] = @ \ {n}]
  /\ current' = [current EXCEPT ![w] = n]
  /\ setHeld' = setHeld \cup {w}
  /\ keyHeld' = IF n = Star THEN keyHeld ELSE keyHeld \cup {w}
  /\ Goto(w, "release")
  /\ UNCHANGED <<wanted, setTurn, operations>>

(* Variant: the set is released first.                                     *)
ReleaseSetFirst(w) ==
  IF w \in setHeld THEN setHeld' = setHeld \ {w} /\ UNCHANGED keyHeld
                   ELSE keyHeld' = keyHeld \ {w} /\ UNCHANGED setHeld

(* The key is released first; a failure leaves the rest for a retry.       *)
ReleasePart(w) ==
  IF w \in keyHeld THEN keyHeld' = keyHeld \ {w} /\ UNCHANGED setHeld
                   ELSE setHeld' = setHeld \ {w} /\ UNCHANGED keyHeld

ReleaseStep(w) ==
  /\ pc[w] = "release"
  /\ w \in keyHeld \cup setHeld
  /\ ReleasePart(w)
  /\ UNCHANGED <<wanted, current, leases, setTurn, pc, operations>>

(* A "*" lease gives its turn back after rw.                               *)
EndRelease(w) ==
  /\ pc[w] = "release"
  /\ w \notin keyHeld \cup setHeld
  /\ setTurn' = [setTurn EXCEPT ![w] = "none"]
  /\ current' = [current EXCEPT ![w] = NoName]
  /\ Goto(w, "giveback")
  /\ UNCHANGED <<wanted, leases, setHeld, keyHeld, operations>>

EndOperation(w) ==
  /\ pc[w] = "giveback"
  /\ leases[w] = {}
  /\ wanted' = [wanted EXCEPT ![w] = {}]
  /\ Goto(w, "idle")
  /\ UNCHANGED <<current, leases, setTurn, setHeld, keyHeld, operations>>

(* The process dies and the kernel drops its locks.                        *)
Crash(w) ==
  /\ pc[w] # "idle"
  /\ wanted' = [wanted EXCEPT ![w] = {}]
  /\ current' = [current EXCEPT ![w] = NoName]
  /\ leases' = [leases EXCEPT ![w] = {}]
  /\ setTurn' = [setTurn EXCEPT ![w] = "none"]
  /\ setHeld' = setHeld \ {w}
  /\ keyHeld' = keyHeld \ {w}
  /\ Goto(w, "idle")
  /\ UNCHANGED operations
-----------------------------------------------------------------------------
Request == {{Star}} \cup (SUBSET Projects \ {{}})

Next ==
  \/ \E w \in Workers, names \in Request : BeginOperation(w, names)
  \/ \E w \in Workers, n \in Name : NextLease(w, n)
  \/ \E w \in Workers : StartWork(w)
  \/ \E w \in Workers : TakeSetTurn(w)
  \/ \E w \in Workers : TakeSet(w)
  \/ \E w \in Workers : TakeKey(w)
  \/ \E w \in Workers : RecordLease(w)
  \/ \E w \in Workers : RoundEnds(w)
  \/ \E w \in Workers : LockFails(w)
  \/ \E w \in Workers : EndWork(w)
  \/ \E w \in Workers, n \in Name : BeginRelease(w, n)
  \/ \E w \in Workers : ReleaseStep(w)
  \/ \E w \in Workers : EndRelease(w)
  \/ \E w \in Workers : EndOperation(w)
  \/ \E w \in Workers : Crash(w)

Spec == Init /\ [][Next]_vars

OwnStep(w) ==
  \/ \E n \in Name : NextLease(w, n) \/ BeginRelease(w, n)
  \/ StartWork(w) \/ RecordLease(w) \/ EndWork(w)
  \/ ReleaseStep(w) \/ EndRelease(w) \/ EndOperation(w)

(* Rounds end after 100 ms.  Native tries are repeated every millisecond,  *)
(* so each hits one of infinitely many free moments.                       *)
Fairness ==
  \A w \in Workers :
    /\ WF_vars(OwnStep(w)) /\ WF_vars(RoundEnds(w))
    /\ SF_vars(TakeSetTurn(w)) /\ SF_vars(TakeSet(w)) /\ SF_vars(TakeKey(w))

FairSpec == Spec /\ Fairness
-----------------------------------------------------------------------------
Place == {"idle", "next", "turn", "set", "key", "done", "work", "giveback",
          "release"}

(* Types of all variables.                                                 *)
TypeOK ==
  /\ wanted \in [Workers -> SUBSET Name]
  /\ current \in [Workers -> Name \cup {NoName}]
  /\ leases \in [Workers -> SUBSET Name]
  /\ setTurn \in [Workers -> {"none", "SH", "EX"}]
  /\ setHeld \subseteq Workers
  /\ keyHeld \subseteq setHeld
  /\ pc \in [Workers -> Place]
  /\ operations \in [Workers -> 0 .. MaxOperations]

(* Two processes never work on one project, whatever its spelling, and     *)
(* nobody works on a project while somebody works on all of them.          *)
WorkIsDisjoint ==
  \A v, w \in Workers : v # w /\ pc[v] = "work" /\ pc[w] = "work" =>
    /\ Star \in leases[v] => leases[w] = {}
    /\ KeysOf(leases[v] \ {Star}) \cap KeysOf(leases[w] \ {Star}) = {}

(* Whoever has locked the whole set finds every project's key free: a key  *)
(* is released before the set, on all paths.                               *)
StarOwnsEverything ==
  \A v, w \in Workers : v # w /\ Star \in UnderSet(w) =>
    UnderSet(v) = {} /\ UnderKey(v) = {}

(* Operations exclude each other as their leases say.                      *)
OperationsExclude == WorkIsDisjoint /\ StarOwnsEverything

(* The set's lock and the keys' locks together are a table of exclusive    *)
(* leases in which "*" conflicts with every project: each lock operation   *)
(* gains or gives up what project_lock.h promises, or nothing.             *)
Promise == INSTANCE ProjectLeases WITH
  owned <- [w \in Workers |-> KeysOf(UnderKey(w))],
  all <- {w \in Workers : Star \in UnderSet(w)}

ImplementsProjectLeases == Promise!Spec

(* Every operation comes to an end although operations take several        *)
(* projects one by one while others wait for all of them: neither the      *)
(* order of the projects nor the writer preference of the set deadlocks.   *)
OperationEnds == \A w \in Workers : (pc[w] # "idle") ~> (pc[w] = "idle")
=============================================================================
