---------------------------- MODULE LockRegistry ----------------------------
(***************************************************************************)
(* The lock registry, src/foundation/lock_registry.c, for one resource     *)
(* key: a FIFO of waiting threads in each process, over two native files,  *)
(* ".turn" and ".rw", that all processes share.                            *)
(*                                                                         *)
(* The thread at the head of its process's queue attempts the native       *)
(* locks.  A writer keeps a shared turn while it waits for the exclusive   *)
(* rw, a reader takes the turn exclusively but only for the moment in      *)
(* which it takes rw shared; so a waiting writer shuts readers out.        *)
(*                                                                         *)
(* A block under the registry's mutex is one step, and so is one native    *)
(* operation.  A thread that waits on the condition is in `asleep' until   *)
(* a broadcast of its registry; the bounded park between two native tries  *)
(* is a stuttering step.                                                   *)
(***************************************************************************)
EXTENDS Integers, Sequences, FiniteSets

CONSTANTS
  Processes,   \* each has one registry
  Threads,
  Home,        \* the process of each thread
  NoThread,
  MaxCalls     \* bound of the model: acquisitions of each thread

ASSUME RegistryAssumption ==
  /\ Home \in [Threads -> Processes]
  /\ NoThread \notin Threads
  /\ MaxCalls \in Nat

VARIABLES
  turn, rw,    \* mode in which each thread's handle holds the native file
  queue,       \* entry->waiter_head .. waiter_tail of each process
  attempt,     \* entry->attempt_waiter
  reading,     \* entry->active_readers
  writing,     \* entry->writer_active
  pending,     \* registry->pending_cleanup_count
  freed,       \* processes that have freed their registry
  asleep,      \* threads that wait on the registry's condition
  pc,
  mode,        \* SH or EX, the mode of the current acquisition
  once,        \* threads inside try_acquire
  cancel,      \* the cancellation token and its canceller
  calls        \* acquisitions begun so far

nativeVars   == <<turn, rw>>
countVars    == <<reading, writing>>
requestVars  == <<mode, once, calls>>
registryVars == <<queue, attempt, countVars, pending, freed>>
vars == <<nativeVars, registryVars, asleep, pc, requestVars, cancel>>
-----------------------------------------------------------------------------
Native == {"none", "SH", "EX"}

(* Where a thread is.  "retained" and "cleanup" are cleanup-only leases.   *)
Waiting   == {"queued", "turn", "rw", "unturn", "ready", "abort"}
Releasing == {"unlock_turn", "settle"}
Place     == Waiting \cup Releasing \cup {"idle", "held", "retained", "cleanup"}

Peers(t)   == {u \in Threads : Home[u] = Home[t]}
Goto(t, where) == pc' = [pc EXCEPT ![t] = where]

(* pmm_private_file_lock_try_acquire would not answer BUSY.                *)
Grantable(file, t, m) ==
  \A u \in Threads \ {t} :
    IF m = "SH" THEN file[u] # "EX" ELSE file[u] = "none"

(* lock_registry_broadcast_locked, by thread t.                            *)
Broadcast(t) == asleep' = asleep \ Peers(t)

(* The list q without the waiter t, which is in it once.                   *)
Without(q, t) ==
  LET i == CHOOSE j \in DOMAIN q : q[j] = t
  IN  [j \in 1 .. Len(q) - 1 |-> q[IF j < i THEN j ELSE j + 1]]

(* lock_registry_waiter_remove, which broadcasts.                          *)
Dequeue(t) ==
  /\ queue' = [queue EXCEPT ![Home[t]] = Without(queue[Home[t]], t)]
  /\ Broadcast(t)

(* Variant: the attempt outlives its waiter.                               *)
EndAttemptNot(t) == UNCHANGED attempt

(* The attempt of a waiter that leaves is over.                            *)
EndAttempt(t) ==
  attempt' = [attempt EXCEPT ![Home[t]] = IF @ = t THEN NoThread ELSE @]

HoldsNative(t) == turn[t] # "none" \/ rw[t] # "none"

(* A thread that is running inside acquire, at one of the given places.    *)
At(t, where) == pc[t] = where /\ t \notin asleep
-----------------------------------------------------------------------------
Init ==
  /\ turn = [t \in Threads |-> "none"]
  /\ rw = [t \in Threads |-> "none"]
  /\ queue = [p \in Processes |-> <<>>]
  /\ attempt = [p \in Processes |-> NoThread]
  /\ reading = [p \in Processes |-> 0]
  /\ writing = [p \in Processes |-> FALSE]
  /\ pending = [p \in Processes |-> 0]
  /\ freed = {}
  /\ asleep = {}
  /\ pc = [t \in Threads |-> "idle"]
  /\ mode = [t \in Threads |-> "SH"]
  /\ once = {}
  /\ cancel = [t \in Threads |-> "no"]
  /\ calls = [t \in Threads |-> 0]

(* lock_registry_acquire_internal pushes a waiter.  The token is a fresh   *)
(* one, so nobody is busy cancelling.                                      *)
Begin(t, m, tryOnce) ==
  /\ pc[t] = "idle"
  /\ Home[t] \notin freed
  /\ cancel[t] # "stored"
  /\ calls[t] < MaxCalls
  /\ calls' = [calls EXCEPT ![t] = @ + 1]
  /\ mode' = [mode EXCEPT ![t] = m]
  /\ once' = IF tryOnce THEN once \cup {t} ELSE once \ {t}
  /\ cancel' = [cancel EXCEPT ![t] = "no"]
  /\ queue' = [queue EXCEPT ![Home[t]] = Append(@, t)]
  /\ Goto(t, "queued")
  /\ UNCHANGED <<nativeVars, attempt, countVars, pending, freed, asleep>>

(* pmm_lock_registry_request_cancel: the token first, the wake-up in a     *)
(* second step.                                                            *)
RequestCancel(t) ==
  /\ pc[t] \in Waiting
  /\ t \notin once
  /\ cancel[t] = "no"
  /\ cancel' = [cancel EXCEPT ![t] = "stored"]
  /\ UNCHANGED <<nativeVars, registryVars, asleep, pc, requestVars>>

WakeCancelled(t) ==
  /\ cancel[t] = "stored"
  /\ cancel' = [cancel EXCEPT ![t] = "done"]
  /\ Broadcast(t)
  /\ UNCHANGED <<nativeVars, registryVars, pc, requestVars>>
-----------------------------------------------------------------------------
(* The queue.                                                              *)

(* Variant: whoever finds no attempt under way begins one.                 *)
CanAttemptAnyone(t) == attempt[Home[t]] = NoThread

CanAttempt(t) == Head(queue[Home[t]]) = t /\ attempt[Home[t]] = NoThread

(* Variant: its wait is not ended.                                         *)
LeaveQueueAsleep(t) ==
  /\ queue' = [queue EXCEPT ![Home[t]] = Without(queue[Home[t]], t)]
  /\ Goto(t, "idle")
  /\ UNCHANGED <<nativeVars, attempt, countVars, pending, freed, asleep,
                 requestVars, cancel>>

(* A waiter leaves the queue with BUSY and owns nothing.                   *)
LeaveQueue(t) ==
  /\ Dequeue(t)
  /\ Goto(t, "idle")
  /\ UNCHANGED <<nativeVars, attempt, countVars, pending, freed, requestVars,
                 cancel>>

QueueAttempt(t) ==
  /\ At(t, "queued")
  /\ CanAttempt(t)
  /\ attempt' = [attempt EXCEPT ![Home[t]] = t]
  /\ Goto(t, "turn")
  /\ UNCHANGED <<nativeVars, queue, countVars, pending, freed, asleep,
                 requestVars, cancel>>

QueueTryFails(t) ==
  /\ At(t, "queued")
  /\ t \in once
  /\ ~CanAttempt(t)
  /\ LeaveQueue(t)

(* Variant: the token is not looked at again under the mutex.              *)
MayWaitDeaf(t) == t \notin once

(* A thread goes to sleep only while it is not cancelled.                  *)
MayWait(t) == t \notin once /\ cancel[t] = "no"

QueueWait(t) ==
  /\ At(t, "queued")
  /\ ~CanAttempt(t)
  /\ MayWait(t)
  /\ asleep' = asleep \cup {t}
  /\ UNCHANGED <<nativeVars, registryVars, pc, requestVars, cancel>>

(* The wait itself fails: acquire answers IO and hands out a lease that    *)
(* still occupies the queue.                                               *)
QueueWaitFails(t) ==
  /\ pc[t] = "queued"
  /\ t \in asleep
  /\ asleep' = asleep \ {t}
  /\ Goto(t, "retained")
  /\ UNCHANGED <<nativeVars, registryVars, requestVars, cancel>>
-----------------------------------------------------------------------------
(* The native attempt of the head of the queue.                            *)

(* Variant: a reader shares the turn.                                      *)
TurnModeShared(m) == "SH"

(* A reader takes the turn alone, writers share it.                        *)
TurnMode(m) == IF m = "SH" THEN "EX" ELSE "SH"

TakeTurn(t) ==
  /\ pc[t] = "turn"
  /\ Grantable(turn, t, TurnMode(mode[t]))
  /\ turn' = [turn EXCEPT ![t] = TurnMode(mode[t])]
  /\ Goto(t, "rw")
  /\ UNCHANGED <<rw, registryVars, asleep, requestVars, cancel>>

(* Variant: every lease shares rw.                                         *)
RwModeShared(m) == "SH"

RwMode(m) == m

TakeRw(t) ==
  /\ pc[t] = "rw"
  /\ Grantable(rw, t, RwMode(mode[t]))
  /\ rw' = [rw EXCEPT ![t] = RwMode(mode[t])]
  /\ Goto(t, IF mode[t] = "SH" THEN "unturn" ELSE "ready")
  /\ UNCHANGED <<turn, registryVars, asleep, requestVars, cancel>>

ReleaseTurn(t) ==
  /\ pc[t] = "unturn"
  /\ turn' = [turn EXCEPT ![t] = "none"]
  /\ Goto(t, "ready")
  /\ UNCHANGED <<rw, registryVars, asleep, requestVars, cancel>>

(* The attempt has failed; its waiter is still queued.                     *)
FailAttempt(t) ==
  /\ Goto(t, "abort")
  /\ asleep' = asleep \ {t}
  /\ UNCHANGED <<nativeVars, registryVars, requestVars, cancel>>

TryBusy(t) ==
  /\ t \in once
  /\ \/ pc[t] = "turn" /\ ~Grantable(turn, t, TurnMode(mode[t]))
     \/ pc[t] = "rw" /\ ~Grantable(rw, t, RwMode(mode[t]))
  /\ FailAttempt(t)

(* A native operation, or the wait of a ready thread, answers IO.          *)
AttemptFails(t) ==
  /\ \/ pc[t] \in {"turn", "rw", "unturn"}
     \/ pc[t] = "ready" /\ t \in asleep
  /\ FailAttempt(t)

(* What the threads of this process still have to be rid of: the native    *)
(* locks are released before the counters are, and both must agree.        *)
LocalReady(t) ==
  /\ ~writing[Home[t]]
  /\ mode[t] = "EX" => reading[Home[t]] = 0

Grant(t) ==
  /\ At(t, "ready")
  /\ attempt[Home[t]] = t
  /\ Head(queue[Home[t]]) = t
  /\ LocalReady(t)
  /\ Dequeue(t)
  /\ attempt' = [attempt EXCEPT ![Home[t]] = NoThread]
  /\ IF mode[t] = "SH"
       THEN reading' = [reading EXCEPT ![Home[t]] = @ + 1] /\ UNCHANGED writing
       ELSE writing' = [writing EXCEPT ![Home[t]] = TRUE] /\ UNCHANGED reading
  /\ Goto(t, "held")
  /\ UNCHANGED <<nativeVars, pending, freed, requestVars, cancel>>

ReadyWait(t) ==
  /\ At(t, "ready")
  /\ ~LocalReady(t)
  /\ MayWait(t)
  /\ asleep' = asleep \cup {t}
  /\ UNCHANGED <<nativeVars, registryVars, pc, requestVars, cancel>>

ReadyTryFails(t) ==
  /\ At(t, "ready")
  /\ ~LocalReady(t)
  /\ t \in once
  /\ FailAttempt(t)

(* lock_registry_should_stop: a cancelled thread stops when it looks, and  *)
(* a deadline also ends a wait.                                            *)
StopWaiting(t) ==
  \/ pc[t] = "queued" /\ LeaveQueue(t)
  \/ pc[t] \in {"turn", "rw", "ready"} /\ FailAttempt(t)

CancelStop(t) ==
  /\ t \notin once \cup asleep
  /\ cancel[t] # "no"
  /\ StopWaiting(t)

DeadlineStop(t) == t \notin once /\ StopWaiting(t)

(* lock_registry_abort_attempt under the mutex: the waiter goes, native    *)
(* locks it holds become a pending cleanup.                                *)
AbortAttempt(t) ==
  /\ pc[t] = "abort"
  /\ Dequeue(t)
  /\ EndAttempt(t)
  /\ pending' = [pending EXCEPT ![Home[t]] = IF HoldsNative(t) THEN @ + 1 ELSE @]
  /\ Goto(t, IF HoldsNative(t) THEN "cleanup" ELSE "idle")
  /\ UNCHANGED <<nativeVars, countVars, freed, requestVars, cancel>>
-----------------------------------------------------------------------------
(* pmm_lock_lease_release.                                                 *)
ReleaseRw(t) ==
  /\ pc[t] = "held"
  /\ rw' = [rw EXCEPT ![t] = "none"]
  /\ Goto(t, IF mode[t] = "EX" THEN "unlock_turn" ELSE "settle")
  /\ UNCHANGED <<turn, registryVars, asleep, requestVars, cancel>>

(* The writer's turn; its release may fail and is retried as a cleanup.    *)
UnlockTurn(t, failed) ==
  /\ pc[t] = "unlock_turn"
  /\ turn' = IF failed THEN turn ELSE [turn EXCEPT ![t] = "none"]
  /\ Goto(t, "settle")
  /\ UNCHANGED <<rw, registryVars, asleep, requestVars, cancel>>

(* Variant: nobody is woken.                                               *)
SettleWakeNobody(t) == UNCHANGED asleep

(* The threads that wait for this lease's counters to go look again.       *)
SettleWake(t) == Broadcast(t)

SettleLease(t) ==
  /\ pc[t] = "settle"
  /\ IF mode[t] = "SH"
       THEN reading' = [reading EXCEPT ![Home[t]] = @ - 1] /\ UNCHANGED writing
       ELSE writing' = [writing EXCEPT ![Home[t]] = FALSE] /\ UNCHANGED reading
  /\ pending' = [pending EXCEPT ![Home[t]] = IF HoldsNative(t) THEN @ + 1 ELSE @]
  /\ Goto(t, IF HoldsNative(t) THEN "cleanup" ELSE "idle")
  /\ SettleWake(t)
  /\ UNCHANGED <<nativeVars, queue, attempt, freed, requestVars, cancel>>

(* A cleanup-only lease: rw before turn, then the count.                   *)
CleanupNative(t) ==
  /\ pc[t] = "cleanup"
  /\ IF rw[t] # "none"
       THEN rw' = [rw EXCEPT ![t] = "none"] /\ UNCHANGED turn
       ELSE turn[t] # "none" /\ turn' = [turn EXCEPT ![t] = "none"] /\ UNCHANGED rw
  /\ UNCHANGED <<registryVars, asleep, pc, requestVars, cancel>>

EndCleanup(t) ==
  /\ pc[t] = "cleanup"
  /\ ~HoldsNative(t)
  /\ pending' = [pending EXCEPT ![Home[t]] = @ - 1]
  /\ Goto(t, "idle")
  /\ Broadcast(t)
  /\ UNCHANGED <<nativeVars, queue, attempt, countVars, freed, requestVars, cancel>>

(* A cleanup-only lease that still occupies the queue.                     *)
ReleaseRetained(t) ==
  /\ pc[t] = "retained"
  /\ Dequeue(t)
  /\ EndAttempt(t)
  /\ Goto(t, "idle")
  /\ UNCHANGED <<nativeVars, countVars, pending, freed, requestVars, cancel>>

RegistryIdle(p) ==
  /\ queue[p] = <<>> /\ attempt[p] = NoThread
  /\ reading[p] = 0 /\ ~writing[p]
  /\ pending[p] = 0

RegistryFree(p) ==
  /\ p \notin freed
  /\ RegistryIdle(p)
  /\ freed' = freed \cup {p}
  /\ UNCHANGED <<nativeVars, queue, attempt, countVars, pending, asleep, pc,
                 requestVars, cancel>>

(* The process dies: the kernel drops its locks, and its successor starts  *)
(* with a fresh registry.                                                  *)
Crash(p) ==
  LET dead == {t \in Threads : Home[t] = p}
      Reset(f, v) == [t \in Threads |-> IF t \in dead THEN v ELSE f[t]]
  IN /\ turn' = Reset(turn, "none")
     /\ rw' = Reset(rw, "none")
     /\ pc' = Reset(pc, "idle")
     /\ cancel' = Reset(cancel, "no")
     /\ queue' = [queue EXCEPT ![p] = <<>>]
     /\ attempt' = [attempt EXCEPT ![p] = NoThread]
     /\ reading' = [reading EXCEPT ![p] = 0]
     /\ writing' = [writing EXCEPT ![p] = FALSE]
     /\ pending' = [pending EXCEPT ![p] = 0]
     /\ freed' = freed \ {p}
     /\ asleep' = asleep \ dead
     /\ UNCHANGED requestVars
-----------------------------------------------------------------------------
Next ==
  \/ \E t \in Threads, m \in {"SH", "EX"}, tryOnce \in BOOLEAN : Begin(t, m, tryOnce)
  \/ \E t \in Threads : RequestCancel(t)
  \/ \E t \in Threads : WakeCancelled(t)
  \/ \E t \in Threads : QueueAttempt(t)
  \/ \E t \in Threads : QueueTryFails(t)
  \/ \E t \in Threads : QueueWait(t)
  \/ \E t \in Threads : QueueWaitFails(t)
  \/ \E t \in Threads : TakeTurn(t)
  \/ \E t \in Threads : TakeRw(t)
  \/ \E t \in Threads : ReleaseTurn(t)
  \/ \E t \in Threads : TryBusy(t)
  \/ \E t \in Threads : AttemptFails(t)
  \/ \E t \in Threads : Grant(t)
  \/ \E t \in Threads : ReadyWait(t)
  \/ \E t \in Threads : ReadyTryFails(t)
  \/ \E t \in Threads : CancelStop(t)
  \/ \E t \in Threads : DeadlineStop(t)
  \/ \E t \in Threads : AbortAttempt(t)
  \/ \E t \in Threads : ReleaseRw(t)
  \/ \E t \in Threads, failed \in BOOLEAN : UnlockTurn(t, failed)
  \/ \E t \in Threads : SettleLease(t)
  \/ \E t \in Threads : CleanupNative(t)
  \/ \E t \in Threads : EndCleanup(t)
  \/ \E t \in Threads : ReleaseRetained(t)
  \/ \E p \in Processes : RegistryFree(p)
  \/ \E p \in Processes : Crash(p)

Spec == Init /\ [][Next]_vars

(* The steps a thread takes by itself once it is inside a call.            *)
OwnStep(t) ==
  \/ QueueAttempt(t) \/ QueueTryFails(t) \/ QueueWait(t) \/ ReleaseTurn(t)
  \/ TryBusy(t) \/ Grant(t) \/ ReadyWait(t) \/ ReadyTryFails(t)
  \/ CancelStop(t) \/ AbortAttempt(t) \/ UnlockTurn(t, FALSE)
  \/ SettleLease(t) \/ CleanupNative(t) \/ EndCleanup(t)

(* Native tries are repeated every millisecond, so each hits one of        *)
(* infinitely many free moments.                                           *)
Fairness ==
  \A t \in Threads :
    /\ WF_vars(OwnStep(t)) /\ WF_vars(WakeCancelled(t))
    /\ SF_vars(TakeTurn(t)) /\ SF_vars(TakeRw(t))

FairSpec == Spec /\ Fairness

(* Callers give their leases back, cleanup-only ones too.                  *)
LeasesEnd ==
  \A t \in Threads : WF_vars(ReleaseRw(t)) /\ WF_vars(ReleaseRetained(t))
-----------------------------------------------------------------------------
Holders(m) == {t \in Threads : pc[t] = "held" /\ mode[t] = m}

(* Types of all variables.                                                 *)
TypeOK ==
  /\ turn \in [Threads -> Native] /\ rw \in [Threads -> Native]
  /\ queue \in [Processes -> Seq(Threads)]
  /\ attempt \in [Processes -> Threads \cup {NoThread}]
  /\ reading \in [Processes -> Nat] /\ writing \in [Processes -> BOOLEAN]
  /\ pending \in [Processes -> Nat]
  /\ freed \subseteq Processes
  /\ asleep \subseteq {t \in Threads : pc[t] \in {"queued", "ready"}}
  /\ pc \in [Threads -> Place]
  /\ mode \in [Threads -> {"SH", "EX"}]
  /\ once \subseteq Threads
  /\ cancel \in [Threads -> {"no", "stored", "done"}]
  /\ calls \in [Threads -> 0 .. MaxCalls]

(* A call that has answered without a lease has left nothing behind: no    *)
(* queue entry, no attempt that blocks the queue, no native lock; and the  *)
(* counters that registry_free relies on add up, so that it frees a        *)
(* registry only when none of its threads will touch it again.             *)
NothingLeftBehind ==
  /\ \A t \in Threads : pc[t] = "idle" =>
       /\ ~HoldsNative(t)
       /\ attempt[Home[t]] # t
       /\ \A i \in DOMAIN queue[Home[t]] : queue[Home[t]][i] # t
  /\ \A p \in Processes :
       pending[p] = Cardinality({t \in Threads : Home[t] = p /\ pc[t] = "cleanup"})
  /\ \A t \in Threads : Home[t] \in freed => pc[t] = "idle"

(* A reader does not get rw while a writer of any process waits for it     *)
(* with the turn in its hand: readers cannot starve a writer.              *)
WriterNotOvertaken ==
  [][\A r, w \in Threads :
       /\ pc[r] = "rw" /\ pc'[r] = "unturn"
       /\ mode[w] = "EX" /\ turn[w] # "none"
       => pc[w] \notin {"rw", "ready"}]_vars

(* An attempt belongs to the first in the queue until it is granted or     *)
(* aborted, whatever leaves the queue meanwhile: leases of a process are   *)
(* granted in order, and acquire's "lost my attempt" branch is dead code.  *)
FirstComeFirstServed ==
  \A t \in Threads : pc[t] \in Waiting \ {"queued"} =>
    attempt[Home[t]] = t /\ Head(queue[Home[t]]) = t

(* The two native files and the queues implement a read/write lock.        *)
Promise == INSTANCE ReadWriteLock WITH
  readers <- Holders("SH"), writers <- Holders("EX")

ImplementsReadWriteLock == Promise!Spec

(* A cancelled acquisition answers, although nobody releases a lease: the  *)
(* wake-up cannot slip between a thread's last look at its token and its   *)
(* sleep.                                                                  *)
CancelAnswered ==
  \A t \in Threads : (cancel[t] # "no" /\ pc[t] \in Waiting)
                       ~> (pc[t] \notin Waiting)

(* If leases end, every acquisition answers: no broadcast is missing, no   *)
(* abandoned attempt blocks the queue, and the two files do not deadlock.  *)
AcquireAnswered ==
  LeasesEnd => \A t \in Threads : (pc[t] \in Waiting) ~> (pc[t] \notin Waiting)

(* No thread sleeps through the event that should wake it.                 *)
EveryWaitAnswered == CancelAnswered /\ AcquireAnswered
=============================================================================
