------------------------- MODULE LockRegistryProofs -------------------------
(***************************************************************************)
(* Proofs about LockRegistry for any processes and threads.  The native    *)
(* files alone make its leases a read/write lock that prefers writers; the *)
(* queue serves in order, and the counters add up, without the files.      *)
(***************************************************************************)
EXTENDS LockRegistry, FiniteSetTheorems, TLAPS

(* Types of what belongs to a thread.                                      *)
NativeTypes ==
  /\ turn \in [Threads -> Native] /\ rw \in [Threads -> Native]
  /\ pc \in [Threads -> Place]
  /\ mode \in [Threads -> {"SH", "EX"}]
  /\ once \subseteq Threads
  /\ asleep \subseteq {t \in Threads : pc[t] \in {"queued", "ready"}}
  /\ cancel \in [Threads -> {"no", "stored", "done"}]
  /\ calls \in [Threads -> 0 .. MaxCalls]

(* A file that is held exclusively is held by one handle.                  *)
NativeExclusion ==
  \A t, u \in Threads : t # u =>
    /\ turn[t] = "EX" => turn[u] = "none"
    /\ rw[t] = "EX" => rw[u] = "none"

(* What a thread holds at least, by its place, and where it holds nothing. *)
NativeLayout ==
  \A t \in Threads :
    /\ pc[t] \in {"idle", "queued", "retained"} => ~HoldsNative(t)
    /\ pc[t] \in {"rw", "unturn"} => turn[t] = TurnMode(mode[t])
    /\ pc[t] = "unturn" => mode[t] = "SH"
    /\ pc[t] \in {"unturn", "ready", "held"} => rw[t] = mode[t]

NativeInv == NativeTypes /\ NativeExclusion /\ NativeLayout
-----------------------------------------------------------------------------
(* Every step keeps the locks exclusive, and each thread's hold on them.   *)
LEMMA NativeInvStep == NativeInv /\ [Next]_vars => NativeInv'
<1> SUFFICES ASSUME NativeInv, [Next]_vars
             PROVE  NativeInv'
  OBVIOUS
<1> USE RegistryAssumption DEF NativeInv, NativeTypes, NativeExclusion, NativeLayout, Native,
      Place, Waiting, Releasing, TurnMode, Goto, At, Dequeue, Broadcast, nativeVars, requestVars, HoldsNative, Peers
<1>1. ASSUME NEW t \in Threads, NEW m \in {"SH", "EX"}, NEW tryOnce \in BOOLEAN, Begin(t, m, tryOnce)
      PROVE  NativeInv'
  BY <1>1 DEF Begin
<1>2. ASSUME NEW t \in Threads, RequestCancel(t)
      PROVE  NativeInv'
  BY <1>2 DEF RequestCancel
<1>3. ASSUME NEW t \in Threads, WakeCancelled(t)
      PROVE  NativeInv'
  BY <1>3 DEF WakeCancelled
<1>4. ASSUME NEW t \in Threads, QueueAttempt(t)
      PROVE  NativeInv'
  BY <1>4 DEF QueueAttempt
<1>5. ASSUME NEW t \in Threads, QueueTryFails(t)
      PROVE  NativeInv'
  BY <1>5 DEF QueueTryFails, LeaveQueue
<1>6. ASSUME NEW t \in Threads, QueueWait(t)
      PROVE  NativeInv'
  BY <1>6 DEF QueueWait
<1>7. ASSUME NEW t \in Threads, QueueWaitFails(t)
      PROVE  NativeInv'
  BY <1>7 DEF QueueWaitFails
<1>8. ASSUME NEW t \in Threads, TakeTurn(t)
      PROVE  NativeInv'
  BY <1>8 DEF TakeTurn, TurnMode, Grantable
<1>9. ASSUME NEW t \in Threads, TakeRw(t)
      PROVE  NativeInv'
  BY <1>9 DEF TakeRw, RwMode, Grantable
<1>10. ASSUME NEW t \in Threads, ReleaseTurn(t)
      PROVE  NativeInv'
  BY <1>10 DEF ReleaseTurn
<1>11. ASSUME NEW t \in Threads, TryBusy(t)
      PROVE  NativeInv'
  BY <1>11 DEF TryBusy, FailAttempt
<1>12. ASSUME NEW t \in Threads, AttemptFails(t)
      PROVE  NativeInv'
  BY <1>12 DEF AttemptFails, FailAttempt
<1>13. ASSUME NEW t \in Threads, Grant(t)
      PROVE  NativeInv'
  BY <1>13 DEF Grant
<1>14. ASSUME NEW t \in Threads, ReadyWait(t)
      PROVE  NativeInv'
  BY <1>14 DEF ReadyWait
<1>15. ASSUME NEW t \in Threads, ReadyTryFails(t)
      PROVE  NativeInv'
  BY <1>15 DEF ReadyTryFails, FailAttempt
<1>16. ASSUME NEW t \in Threads, CancelStop(t)
      PROVE  NativeInv'
  BY <1>16 DEF CancelStop, StopWaiting, LeaveQueue, FailAttempt
<1>17. ASSUME NEW t \in Threads, DeadlineStop(t)
      PROVE  NativeInv'
  BY <1>17 DEF DeadlineStop, StopWaiting, LeaveQueue, FailAttempt
<1>18. ASSUME NEW t \in Threads, AbortAttempt(t)
      PROVE  NativeInv'
  BY <1>18 DEF AbortAttempt
<1>19. ASSUME NEW t \in Threads, ReleaseRw(t)
      PROVE  NativeInv'
  BY <1>19 DEF ReleaseRw
<1>20. ASSUME NEW t \in Threads, NEW failed \in BOOLEAN, UnlockTurn(t, failed)
      PROVE  NativeInv'
  BY <1>20 DEF UnlockTurn
<1>21. ASSUME NEW t \in Threads, SettleLease(t)
      PROVE  NativeInv'
  BY <1>21 DEF SettleLease, SettleWake
<1>22. ASSUME NEW t \in Threads, CleanupNative(t)
      PROVE  NativeInv'
  BY <1>22 DEF CleanupNative
<1>23. ASSUME NEW t \in Threads, EndCleanup(t)
      PROVE  NativeInv'
  BY <1>23 DEF EndCleanup
<1>24. ASSUME NEW t \in Threads, ReleaseRetained(t)
      PROVE  NativeInv'
  BY <1>24 DEF ReleaseRetained
<1>25. ASSUME NEW p \in Processes, RegistryFree(p)
      PROVE  NativeInv'
  BY <1>25 DEF RegistryFree
<1>26. ASSUME NEW p \in Processes, Crash(p)
      PROVE  NativeInv'
  BY <1>26 DEF Crash
<1>27. CASE UNCHANGED vars
  BY <1>27 DEF vars, nativeVars, requestVars
<1> QED
  BY SMTT(30), <1>1, <1>2, <1>3, <1>4, <1>5, <1>6, <1>7, <1>8, <1>9, <1>10,
     <1>11, <1>12, <1>13, <1>14, <1>15, <1>16, <1>17, <1>18, <1>19, <1>20,
     <1>21, <1>22, <1>23, <1>24, <1>25, <1>26, <1>27 DEF Next

(* NativeInv holds in every state of the registry.                         *)
THEOREM NativeInvariance == Spec => []NativeInv
<1>1. Init => NativeInv
  BY RegistryAssumption DEF Init, NativeInv, NativeTypes, NativeExclusion, NativeLayout, Native, Place,
     Waiting, Releasing, HoldsNative
<1>2. NativeInv /\ [Next]_vars => NativeInv'
  BY NativeInvStep
<1> QED
  BY <1>1, <1>2, PTL DEF Spec

(* Only a reader moves on to give its turn back.                           *)
LEMMA OnlyReadersUnturn ==
  ASSUME NativeInv, [Next]_vars, NEW r \in Threads, pc[r] = "rw", pc'[r] = "unturn"
  PROVE  mode[r] = "SH"
<1> USE DEF NativeInv, NativeTypes, Goto, Place, Waiting, Releasing
<1>1. ASSUME NEW t \in Threads, NEW m \in {"SH", "EX"}, NEW tryOnce \in BOOLEAN, Begin(t, m, tryOnce)
      PROVE  mode[r] = "SH"
  BY <1>1 DEF Begin
<1>2. ASSUME NEW t \in Threads, RequestCancel(t)
      PROVE  mode[r] = "SH"
  BY <1>2 DEF RequestCancel
<1>3. ASSUME NEW t \in Threads, WakeCancelled(t)
      PROVE  mode[r] = "SH"
  BY <1>3 DEF WakeCancelled
<1>4. ASSUME NEW t \in Threads, QueueAttempt(t)
      PROVE  mode[r] = "SH"
  BY <1>4 DEF QueueAttempt
<1>5. ASSUME NEW t \in Threads, QueueTryFails(t)
      PROVE  mode[r] = "SH"
  BY <1>5 DEF QueueTryFails, LeaveQueue
<1>6. ASSUME NEW t \in Threads, QueueWait(t)
      PROVE  mode[r] = "SH"
  BY <1>6 DEF QueueWait
<1>7. ASSUME NEW t \in Threads, QueueWaitFails(t)
      PROVE  mode[r] = "SH"
  BY <1>7 DEF QueueWaitFails
<1>8. ASSUME NEW t \in Threads, TakeTurn(t)
      PROVE  mode[r] = "SH"
  BY <1>8 DEF TakeTurn
<1>9. ASSUME NEW t \in Threads, TakeRw(t)
      PROVE  mode[r] = "SH"
  BY <1>9 DEF TakeRw, RwMode, Grantable
<1>10. ASSUME NEW t \in Threads, ReleaseTurn(t)
      PROVE  mode[r] = "SH"
  BY <1>10 DEF ReleaseTurn
<1>11. ASSUME NEW t \in Threads, TryBusy(t)
      PROVE  mode[r] = "SH"
  BY <1>11 DEF TryBusy, FailAttempt
<1>12. ASSUME NEW t \in Threads, AttemptFails(t)
      PROVE  mode[r] = "SH"
  BY <1>12 DEF AttemptFails, FailAttempt
<1>13. ASSUME NEW t \in Threads, Grant(t)
      PROVE  mode[r] = "SH"
  BY <1>13 DEF Grant
<1>14. ASSUME NEW t \in Threads, ReadyWait(t)
      PROVE  mode[r] = "SH"
  BY <1>14 DEF ReadyWait
<1>15. ASSUME NEW t \in Threads, ReadyTryFails(t)
      PROVE  mode[r] = "SH"
  BY <1>15 DEF ReadyTryFails, FailAttempt
<1>16. ASSUME NEW t \in Threads, CancelStop(t)
      PROVE  mode[r] = "SH"
  BY <1>16 DEF CancelStop, StopWaiting, LeaveQueue, FailAttempt
<1>17. ASSUME NEW t \in Threads, DeadlineStop(t)
      PROVE  mode[r] = "SH"
  BY <1>17 DEF DeadlineStop, StopWaiting, LeaveQueue, FailAttempt
<1>18. ASSUME NEW t \in Threads, AbortAttempt(t)
      PROVE  mode[r] = "SH"
  BY <1>18 DEF AbortAttempt
<1>19. ASSUME NEW t \in Threads, ReleaseRw(t)
      PROVE  mode[r] = "SH"
  BY <1>19 DEF ReleaseRw
<1>20. ASSUME NEW t \in Threads, NEW failed \in BOOLEAN, UnlockTurn(t, failed)
      PROVE  mode[r] = "SH"
  BY <1>20 DEF UnlockTurn
<1>21. ASSUME NEW t \in Threads, SettleLease(t)
      PROVE  mode[r] = "SH"
  BY <1>21 DEF SettleLease
<1>22. ASSUME NEW t \in Threads, CleanupNative(t)
      PROVE  mode[r] = "SH"
  BY <1>22 DEF CleanupNative
<1>23. ASSUME NEW t \in Threads, EndCleanup(t)
      PROVE  mode[r] = "SH"
  BY <1>23 DEF EndCleanup
<1>24. ASSUME NEW t \in Threads, ReleaseRetained(t)
      PROVE  mode[r] = "SH"
  BY <1>24 DEF ReleaseRetained
<1>25. ASSUME NEW p \in Processes, RegistryFree(p)
      PROVE  mode[r] = "SH"
  BY <1>25 DEF RegistryFree
<1>26. ASSUME NEW p \in Processes, Crash(p)
      PROVE  mode[r] = "SH"
  BY <1>26 DEF Crash
<1>27. CASE UNCHANGED vars
  BY <1>27 DEF vars
<1> QED
  BY <1>1, <1>2, <1>3, <1>4, <1>5, <1>6, <1>7, <1>8, <1>9, <1>10,
     <1>11, <1>12, <1>13, <1>14, <1>15, <1>16, <1>17, <1>18, <1>19, <1>20,
     <1>21, <1>22, <1>23, <1>24, <1>25, <1>26, <1>27 DEF Next

(* No reader takes rw while a writer of any process waits for it with the  *)
(* turn in its hand (lock_registry_attempt_native).                        *)
THEOREM WritersAreNotOvertaken == Spec => WriterNotOvertaken
<1>1. NativeInv /\ [Next]_vars =>
        [\A r, w \in Threads :
           /\ pc[r] = "rw" /\ pc'[r] = "unturn"
           /\ mode[w] = "EX" /\ turn[w] # "none"
           => pc[w] \notin {"rw", "ready"}]_vars
  <2> SUFFICES ASSUME NativeInv, [Next]_vars, NEW r \in Threads, NEW w \in Threads,
                      pc[r] = "rw", pc'[r] = "unturn", mode[w] = "EX", turn[w] # "none"
               PROVE  FALSE
    OBVIOUS
  <2>1. mode[r] = "SH"
    BY OnlyReadersUnturn
  <2>2. turn[r] = "EX"
    BY <2>1 DEF NativeInv, NativeLayout, TurnMode
  <2> QED
    BY <2>1, <2>2 DEF NativeInv, NativeExclusion
<1> QED
  BY <1>1, NativeInvariance, PTL DEF Spec, WriterNotOvertaken
-----------------------------------------------------------------------------
(* A step by which nobody gets or gives back a lease.                      *)
SameHolders == UNCHANGED <<Holders("SH"), Holders("EX")>>

(* Shared and exclusive leases of all processes exclude each other.        *)
LEMMA LeasesExclude ==
  ASSUME NativeInv, NEW t \in Threads, NEW u \in Threads, t # u,
         pc[t] \in {"ready", "held"}, pc[u] = "held"
  PROVE  mode[t] = "SH" /\ mode[u] = "SH"
BY DEF NativeInv, NativeTypes, NativeExclusion, NativeLayout

(* Each step of the registry is a step of the abstract lock or none.       *)
LEMMA StepsImplement ==
  NativeInv /\ [Next]_vars => [Promise!Next]_(Promise!leases)
<1> SUFFICES ASSUME NativeInv, [Next]_vars
             PROVE  SameHolders \/ Promise!Next
  BY DEF SameHolders, Promise!leases
<1> USE DEF NativeInv, NativeTypes, Goto, Place, Waiting, Releasing
<1>1. ASSUME NEW t \in Threads, NEW m \in {"SH", "EX"}, NEW tryOnce \in BOOLEAN, Begin(t, m, tryOnce)
      PROVE  SameHolders
  BY <1>1 DEF SameHolders, Holders, Begin, At, requestVars
<1>2. ASSUME NEW t \in Threads, RequestCancel(t)
      PROVE  SameHolders
  BY <1>2 DEF SameHolders, Holders, RequestCancel, At, requestVars
<1>3. ASSUME NEW t \in Threads, WakeCancelled(t)
      PROVE  SameHolders
  BY <1>3 DEF SameHolders, Holders, WakeCancelled, At, requestVars
<1>4. ASSUME NEW t \in Threads, QueueAttempt(t)
      PROVE  SameHolders
  BY <1>4 DEF SameHolders, Holders, QueueAttempt, At, requestVars
<1>5. ASSUME NEW t \in Threads, QueueTryFails(t)
      PROVE  SameHolders
  BY <1>5 DEF SameHolders, Holders, QueueTryFails, At, requestVars, LeaveQueue
<1>6. ASSUME NEW t \in Threads, QueueWait(t)
      PROVE  SameHolders
  BY <1>6 DEF SameHolders, Holders, QueueWait, At, requestVars
<1>7. ASSUME NEW t \in Threads, QueueWaitFails(t)
      PROVE  SameHolders
  BY <1>7 DEF SameHolders, Holders, QueueWaitFails, At, requestVars
<1>8. ASSUME NEW t \in Threads, TakeTurn(t)
      PROVE  SameHolders
  BY <1>8 DEF SameHolders, Holders, TakeTurn, At, requestVars
<1>9. ASSUME NEW t \in Threads, TakeRw(t)
      PROVE  SameHolders
  BY <1>9 DEF SameHolders, Holders, TakeRw, At, requestVars
<1>10. ASSUME NEW t \in Threads, ReleaseTurn(t)
      PROVE  SameHolders
  BY <1>10 DEF SameHolders, Holders, ReleaseTurn, At, requestVars
<1>11. ASSUME NEW t \in Threads, TryBusy(t)
      PROVE  SameHolders
  BY <1>11 DEF SameHolders, Holders, TryBusy, At, requestVars, FailAttempt
<1>12. ASSUME NEW t \in Threads, AttemptFails(t)
      PROVE  SameHolders
  BY <1>12 DEF SameHolders, Holders, AttemptFails, At, requestVars, FailAttempt
<1>13. ASSUME NEW t \in Threads, Grant(t)
      PROVE  Promise!Next
  <2>1. t \in Threads /\ pc[t] = "ready" /\ pc' = [pc EXCEPT ![t] = "held"] /\ mode' = mode
    BY <1>13 DEF Grant, At, requestVars
  <2>2. CASE mode[t] = "SH"
    <3>1. Holders("EX") = {} /\ Holders("EX")' = {}
      BY <2>1, <2>2, LeasesExclude DEF Holders
    <3>2. Holders("SH")' = Holders("SH") \cup {t} /\ t \notin Holders("SH")
      BY <2>1, <2>2 DEF Holders
    <3> QED
      BY <2>1, <3>1, <3>2 DEF Promise!Next, Promise!AcquireShared
  <2>3. CASE mode[t] = "EX"
    <3>1. Holders("EX") = {} /\ Holders("SH") = {}
      BY <2>1, <2>3, LeasesExclude DEF Holders
    <3>2. Holders("SH")' = {} /\ Holders("EX")' = {t}
      BY <2>1, <2>3, <3>1 DEF Holders
    <3> QED
      BY <2>1, <3>1, <3>2 DEF Promise!Next, Promise!AcquireExclusive
  <2> QED
    BY <2>1, <2>2, <2>3
<1>14. ASSUME NEW t \in Threads, ReadyWait(t)
      PROVE  SameHolders
  BY <1>14 DEF SameHolders, Holders, ReadyWait, At, requestVars
<1>15. ASSUME NEW t \in Threads, ReadyTryFails(t)
      PROVE  SameHolders
  BY <1>15 DEF SameHolders, Holders, ReadyTryFails, At, requestVars, FailAttempt
<1>16. ASSUME NEW t \in Threads, CancelStop(t)
      PROVE  SameHolders
  BY <1>16 DEF SameHolders, Holders, CancelStop, At, requestVars, StopWaiting, LeaveQueue, FailAttempt
<1>17. ASSUME NEW t \in Threads, DeadlineStop(t)
      PROVE  SameHolders
  BY <1>17 DEF SameHolders, Holders, DeadlineStop, At, requestVars, StopWaiting, LeaveQueue, FailAttempt
<1>18. ASSUME NEW t \in Threads, AbortAttempt(t)
      PROVE  SameHolders
  BY <1>18 DEF SameHolders, Holders, AbortAttempt, At, requestVars
<1>19. ASSUME NEW t \in Threads, ReleaseRw(t)
      PROVE  Promise!Next
  <2>1. pc[t] = "held" /\ mode' = mode
    BY <1>19 DEF ReleaseRw, requestVars
  <2>2. Holders("SH")' = Holders("SH") \ {t} /\ Holders("EX")' = Holders("EX") \ {t}
    BY <1>19, <2>1 DEF ReleaseRw, Holders
  <2>3. t \in Holders("SH") \cup Holders("EX")
    BY <2>1 DEF Holders
  <2> QED
    BY <2>2, <2>3 DEF Promise!Next, Promise!Release
<1>20. ASSUME NEW t \in Threads, NEW failed \in BOOLEAN, UnlockTurn(t, failed)
      PROVE  SameHolders
  BY <1>20 DEF SameHolders, Holders, UnlockTurn, At, requestVars
<1>21. ASSUME NEW t \in Threads, SettleLease(t)
      PROVE  SameHolders
  BY <1>21 DEF SameHolders, Holders, SettleLease, At, requestVars
<1>22. ASSUME NEW t \in Threads, CleanupNative(t)
      PROVE  SameHolders
  BY <1>22 DEF SameHolders, Holders, CleanupNative, At, requestVars
<1>23. ASSUME NEW t \in Threads, EndCleanup(t)
      PROVE  SameHolders
  BY <1>23 DEF SameHolders, Holders, EndCleanup, At, requestVars
<1>24. ASSUME NEW t \in Threads, ReleaseRetained(t)
      PROVE  SameHolders
  BY <1>24 DEF SameHolders, Holders, ReleaseRetained, At, requestVars
<1>25. ASSUME NEW p \in Processes, RegistryFree(p)
      PROVE  SameHolders
  BY <1>25 DEF SameHolders, Holders, RegistryFree, At, requestVars
<1>26. ASSUME NEW p \in Processes, Crash(p)
      PROVE  Promise!Next
  <2> DEFINE dead == {t \in Threads : Home[t] = p}
  <2>1. mode' = mode /\ pc' = [t \in Threads |-> IF t \in dead THEN "idle" ELSE pc[t]]
    BY <1>26 DEF Crash, requestVars
  <2>2. Holders("SH")' = Holders("SH") \ dead /\ Holders("EX")' = Holders("EX") \ dead
    BY <2>1 DEF Holders
  <2> QED
    BY <2>2 DEF Promise!Next, Promise!Abandon
<1>27. CASE UNCHANGED vars
  BY <1>27 DEF vars, requestVars, SameHolders, Holders
<1> QED
  BY <1>1, <1>2, <1>3, <1>4, <1>5, <1>6, <1>7, <1>8, <1>9, <1>10,
     <1>11, <1>12, <1>13, <1>14, <1>15, <1>16, <1>17, <1>18, <1>19, <1>20,
     <1>21, <1>22, <1>23, <1>24, <1>25, <1>26, <1>27 DEF Next

(* The queues and native files implement a read/write lock.                *)
THEOREM RegistryImplementsLock == Spec => ImplementsReadWriteLock
<1>1. Init => Promise!Init
  BY DEF Init, Promise!Init, Holders
<1>2. NativeInv /\ [Next]_vars => [Promise!Next]_(Promise!leases)
  BY StepsImplement
<1> QED
  BY <1>1, <1>2, NativeInvariance, PTL DEF Spec, ImplementsReadWriteLock, Promise!Spec
-----------------------------------------------------------------------------
(* The threads that occupy the queue, and those of them that attempt.      *)
InQueue    == Waiting \cup {"retained"}
Attempting == Waiting \ {"queued"}

(* A process's queue holds each of its waiters once, and nobody else.      *)
QueueExact ==
  /\ queue \in [Processes -> Seq(Threads)]
  /\ \A p \in Processes : \A i \in DOMAIN queue[p] :
       /\ Home[queue[p][i]] = p /\ pc[queue[p][i]] \in InQueue
       /\ \A j \in DOMAIN queue[p] : queue[p][i] = queue[p][j] => i = j
  /\ \A t \in Threads : pc[t] \in InQueue =>
       \E i \in DOMAIN queue[Home[t]] : queue[Home[t]][i] = t

(* An attempt belongs to the first waiter, and to nobody after it is over. *)
AttemptExact ==
  /\ attempt \in [Processes -> Threads \cup {NoThread}]
  /\ \A t \in Threads : pc[t] \in Attempting =>
       attempt[Home[t]] = t /\ queue[Home[t]][1] = t
  /\ \A t \in Threads : attempt[Home[t]] = t => pc[t] \in Attempting

(* The threads of a process that each counter counts.                      *)
Sharing(p)  == {t \in Threads : /\ Home[t] = p /\ mode[t] = "SH"
                                /\ pc[t] \in {"held", "settle"}}
Writers(p)  == {t \in Threads : /\ Home[t] = p /\ mode[t] = "EX"
                                /\ pc[t] \in {"held", "unlock_turn", "settle"}}
Cleaning(p) == {t \in Threads : Home[t] = p /\ pc[t] = "cleanup"}

CountsExact ==
  /\ reading \in [Processes -> Nat] /\ writing \in [Processes -> BOOLEAN]
  /\ pending \in [Processes -> Nat]
  /\ \A p \in Processes :
       /\ IsFiniteSet(Sharing(p)) /\ reading[p] = Cardinality(Sharing(p))
       /\ IsFiniteSet(Cleaning(p)) /\ pending[p] = Cardinality(Cleaning(p))
       /\ Writers(p) # {} <=> writing[p]
       /\ \A t, u \in Writers(p) : t = u
  /\ \A t \in Threads : pc[t] = "unlock_turn" => mode[t] = "EX"

(* Nobody is inside a registry that has been freed.                        *)
FreedUnused ==
  /\ freed \subseteq Processes
  /\ \A t \in Threads : Home[t] \in freed => pc[t] = "idle"

RegistryInv == QueueExact /\ AttemptExact /\ CountsExact /\ FreedUnused

(* What a step does to the places, the queues and the counters.            *)
RestSame == UNCHANGED <<mode, registryVars>>
NoStep == UNCHANGED pc /\ RestSame

(* A thread goes on, in the queue or out of it.                            *)
Moves(t) ==
  \E w \in Place :
    /\ Goto(t, w) /\ RestSame
    /\ \/ pc[t] \in Attempting /\ w \in Attempting
       \/ pc[t] = "queued" /\ w = "retained"
       \/ pc[t] = "held" /\ w = (IF mode[t] = "EX" THEN "unlock_turn" ELSE "settle")
       \/ pc[t] = "unlock_turn" /\ w = "settle"

(* It leaves the queue without a lease.                                    *)
Leaves(t) ==
  /\ pc[t] \in {"queued", "retained"} /\ Dequeue(t) /\ Goto(t, "idle")
  /\ attempt' = attempt \/ EndAttempt(t)
  /\ UNCHANGED <<countVars, pending, freed, mode>>

LEMMA StepKinds ==
  ASSUME NativeInv, [Next]_vars
  PROVE  \/ NoStep
         \/ \E t \in Threads :
              \/ Moves(t) \/ Leaves(t) \/ QueueAttempt(t) \/ Grant(t)
              \/ AbortAttempt(t) \/ SettleLease(t) \/ EndCleanup(t)
              \/ \E m \in {"SH", "EX"}, tryOnce \in BOOLEAN : Begin(t, m, tryOnce)
         \/ \E p \in Processes : RegistryFree(p) \/ Crash(p)
<1> DEFINE quiet == NoStep
           moves == \E t \in Threads : Moves(t)
           leaves == \E t \in Threads : Leaves(t)
<1> USE DEF RestSame, registryVars, requestVars
<1>1. ASSUME NEW t \in Threads, \/ RequestCancel(t) \/ WakeCancelled(t) \/ QueueWait(t)
                               \/ ReadyWait(t) \/ CleanupNative(t)
      PROVE  quiet
  BY <1>1 DEF NoStep, RequestCancel, WakeCancelled, QueueWait, ReadyWait, CleanupNative
<1>2. ASSUME NEW t \in Threads, pc[t] \in Attempting, FailAttempt(t)
      PROVE  moves
  BY <1>2 DEF Moves, FailAttempt, Attempting, Waiting, Place
<1>3. ASSUME NEW t \in Threads, TakeTurn(t) \/ ReleaseTurn(t)
      PROVE  moves
  BY <1>3 DEF Moves, TakeTurn, ReleaseTurn, Attempting, Waiting, Place
<1>4. ASSUME NEW t \in Threads, TakeRw(t)
      PROVE  moves
  BY <1>4 DEF Moves, TakeRw, Attempting, Waiting, Place
<1>5. ASSUME NEW t \in Threads, TryBusy(t) \/ AttemptFails(t) \/ ReadyTryFails(t)
      PROVE  moves
  BY <1>2, <1>5 DEF TryBusy, AttemptFails, ReadyTryFails, At, Attempting, Waiting
<1>6. ASSUME NEW t \in Threads, QueueWaitFails(t)
      PROVE  moves
  BY <1>6 DEF Moves, QueueWaitFails, Place
<1>7. ASSUME NEW t \in Threads, ReleaseRw(t)
      PROVE  moves
  BY <1>7 DEF Moves, ReleaseRw, Place, Releasing
<1>8. ASSUME NEW t \in Threads, NEW failed \in BOOLEAN, UnlockTurn(t, failed)
      PROVE  moves
  BY <1>8 DEF Moves, UnlockTurn, Place, Releasing
<1>9. ASSUME NEW t \in Threads, pc[t] = "queued", LeaveQueue(t)
      PROVE  leaves
  BY <1>9 DEF LeaveQueue, Leaves
<1>10. ASSUME NEW t \in Threads, QueueTryFails(t) \/ ReleaseRetained(t)
       PROVE  leaves
  BY <1>9, <1>10 DEF QueueTryFails, At, ReleaseRetained, Leaves
<1>11. ASSUME NEW t \in Threads, CancelStop(t) \/ DeadlineStop(t)
       PROVE  moves \/ leaves
  BY <1>2, <1>9, <1>11 DEF CancelStop, DeadlineStop, StopWaiting, Attempting, Waiting
<1>12. CASE UNCHANGED vars
  BY <1>12 DEF vars, NoStep
<1> DEFINE others ==
      \/ \E t \in Threads :
           \/ QueueAttempt(t) \/ Grant(t) \/ AbortAttempt(t) \/ SettleLease(t) \/ EndCleanup(t)
           \/ \E m \in {"SH", "EX"}, tryOnce \in BOOLEAN : Begin(t, m, tryOnce)
      \/ \E p \in Processes : RegistryFree(p) \/ Crash(p)
<1>13. ASSUME Next, ~others
       PROVE  quiet \/ moves \/ leaves
  <2> HIDE DEF quiet, moves, leaves
  <2> QED
    BY <1>13, <1>1, <1>3, <1>4, <1>5, <1>6, <1>7, <1>8, <1>10, <1>11 DEF Next
<1> QED
  BY <1>12, <1>13

-----------------------------------------------------------------------------
(* The queue.                                                              *)
LEMMA SeqFacts ==
  ASSUME NEW q \in Seq(Threads)
  PROVE  /\ Len(q) \in Nat /\ DOMAIN q = 1 .. Len(q)
         /\ \A i \in DOMAIN q : q[i] \in Threads
         /\ q = <<>> \/ (1 \in DOMAIN q /\ Head(q) = q[1])
  OBVIOUS

(* A waiter is taken out of the list, the others keep their order.         *)
LEMMA WithoutFacts ==
  ASSUME NEW q \in Seq(Threads), NEW i \in DOMAIN q,
         \A j, k \in DOMAIN q : q[j] = q[k] => j = k
  PROVE  LET r == Without(q, q[i]) IN
         /\ r \in Seq(Threads) /\ Len(r) = Len(q) - 1
         /\ \A j \in DOMAIN r : r[j] = q[IF j < i THEN j ELSE j + 1]
<1> DEFINE r == Without(q, q[i])
           n == Len(q) - 1
<1>1. q \in [1 .. Len(q) -> Threads] /\ Len(q) \in Nat /\ i \in 1 .. Len(q)
  BY SeqFacts
<1>2. (CHOOSE j \in DOMAIN q : q[j] = q[i]) = i
  OBVIOUS
<1>3. r = [j \in 1 .. n |-> q[IF j < i THEN j ELSE j + 1]]
  BY <1>2 DEF Without
<1>4. n \in Nat
  BY <1>1
<1>5. \A j \in 1 .. n : (IF j < i THEN j ELSE j + 1) \in 1 .. Len(q)
  BY <1>1
<1>6. r \in [1 .. n -> Threads]
  BY <1>1, <1>3, <1>5
<1>7. r \in Seq(Threads) /\ Len(r) = n /\ DOMAIN r = 1 .. n
  BY <1>4, <1>6
<1> QED
  BY <1>3, <1>7

(* The waiters of a queue after one has left, and where they stand.        *)
LEMMA DequeueFacts ==
  ASSUME QueueExact, NEW t \in Threads, pc[t] \in InQueue, Dequeue(t)
  PROVE  /\ queue' \in [Processes -> Seq(Threads)]
         /\ \A p \in Processes : p # Home[t] => queue'[p] = queue[p]
         /\ \A k \in DOMAIN queue'[Home[t]] : \E j \in DOMAIN queue[Home[t]] :
              queue'[Home[t]][k] = queue[Home[t]][j] /\ queue[Home[t]][j] # t
         /\ \A k, l \in DOMAIN queue'[Home[t]] :
              queue'[Home[t]][k] = queue'[Home[t]][l] => k = l
         /\ \A j \in DOMAIN queue[Home[t]] : queue[Home[t]][j] # t =>
              \E k \in DOMAIN queue'[Home[t]] : queue'[Home[t]][k] = queue[Home[t]][j]
         /\ queue[Home[t]][1] # t => queue'[Home[t]][1] = queue[Home[t]][1]
<1> DEFINE q == queue[Home[t]]
           r == Without(q, t)
<1>1. Home[t] \in Processes /\ q \in Seq(Threads)
  BY RegistryAssumption DEF QueueExact
<1>2. PICK i \in DOMAIN q : q[i] = t
  BY DEF QueueExact
<1>3. \A j, k \in DOMAIN q : q[j] = q[k] => j = k
  BY <1>1 DEF QueueExact
<1>4. /\ r \in Seq(Threads) /\ Len(r) = Len(q) - 1
      /\ \A j \in DOMAIN r : r[j] = q[IF j < i THEN j ELSE j + 1]
  BY <1>1, <1>2, <1>3, WithoutFacts
<1>5. queue' = [queue EXCEPT ![Home[t]] = r]
  BY DEF Dequeue
<1>6. /\ queue' \in [Processes -> Seq(Threads)] /\ queue'[Home[t]] = r
      /\ \A p \in Processes : p # Home[t] => queue'[p] = queue[p]
  BY <1>1, <1>4, <1>5 DEF QueueExact
<1> HIDE DEF q, r
<1>7. /\ DOMAIN q = 1 .. Len(q) /\ DOMAIN r = 1 .. Len(q) - 1
      /\ Len(q) \in Nat /\ i \in 1 .. Len(q)
  BY <1>1, <1>2, <1>4, SeqFacts
<1>8. \A k \in DOMAIN r :
        LET j == IF k < i THEN k ELSE k + 1 IN j \in DOMAIN q /\ j # i /\ r[k] = q[j]
  BY <1>4, <1>7
<1>9. \A k \in DOMAIN r : \E j \in DOMAIN q : r[k] = q[j] /\ q[j] # t
  BY <1>2, <1>3, <1>8
<1>10. \A k, l \in DOMAIN r : r[k] = r[l] => k = l
  BY <1>3, <1>7, <1>8
<1>11. \A j \in DOMAIN q : q[j] # t => \E k \in DOMAIN r : r[k] = q[j]
  <2> SUFFICES ASSUME NEW j \in DOMAIN q, q[j] # t
               PROVE  \E k \in DOMAIN r : r[k] = q[j]
    OBVIOUS
  <2>1. CASE j < i
    BY <1>4, <1>7, <2>1
  <2>2. CASE ~(j < i)
    <3>1. j > i
      BY <1>2, <1>7, <2>2
    <3>2. j - 1 \in DOMAIN r /\ ~(j - 1 < i) /\ (j - 1) + 1 = j
      BY <1>7, <3>1
    <3> QED
      BY <1>4, <3>2
  <2> QED
    BY <2>1, <2>2
<1>12. q[1] # t => r[1] = q[1]
  <2> SUFFICES ASSUME q[1] # t PROVE r[1] = q[1]
    OBVIOUS
  <2>1. 1 < i
    BY <1>2, <1>7
  <2>2. 1 \in DOMAIN r
    BY <1>7, <2>1
  <2> QED
    BY <1>4, <2>1, <2>2
<1> QED
  BY <1>6, <1>9, <1>10, <1>11, <1>12 DEF q

(* Whoever else waited still waits.                                        *)
LEMMA OthersStayQueued ==
  ASSUME QueueExact, NEW t \in Threads, pc[t] \in InQueue, Dequeue(t),
         NEW j \in DOMAIN queue[Home[t]], queue[Home[t]][j] # t
  PROVE  \E k \in DOMAIN queue'[Home[t]] : queue'[Home[t]][k] = queue[Home[t]][j]
<1>1. \A l \in DOMAIN queue[Home[t]] : queue[Home[t]][l] # t =>
        \E k \in DOMAIN queue'[Home[t]] : queue'[Home[t]][k] = queue[Home[t]][l]
  BY DequeueFacts
<1> QED
  BY <1>1

(* A waiter has left the queue, and its place.                             *)
LEMMA QueueAfterLeave ==
  ASSUME NativeInv, QueueExact, NEW t \in Threads, pc[t] \in InQueue,
         Dequeue(t), NEW w \in Place \ InQueue, Goto(t, w)
  PROVE  QueueExact'
<1> DEFINE h == Home[t]
<1>1. /\ h \in Processes /\ pc'[t] = w /\ w \notin InQueue
      /\ \A u \in Threads : u # t => pc'[u] = pc[u]
  BY RegistryAssumption DEF NativeInv, NativeTypes, Goto
<1>2. \A p \in Processes : \A j \in DOMAIN queue[p] : queue[p][j] \in Threads
  BY DEF QueueExact
<1>3. ASSUME NEW p \in Processes, NEW i \in DOMAIN queue'[p]
      PROVE  /\ Home[queue'[p][i]] = p /\ pc'[queue'[p][i]] \in InQueue
             /\ \A j \in DOMAIN queue'[p] : queue'[p][i] = queue'[p][j] => i = j
  <2>1. CASE p = h
    <3>1. PICK j \in DOMAIN queue[h] : queue'[h][i] = queue[h][j] /\ queue[h][j] # t
      BY <2>1, DequeueFacts
    <3>2. Home[queue[h][j]] = h /\ pc'[queue[h][j]] \in InQueue
      BY <1>1, <1>2, <3>1 DEF QueueExact
    <3> QED
      BY <2>1, <3>1, <3>2, DequeueFacts
  <2>2. CASE p # h
    <3>1. queue'[p] = queue[p]
      BY <2>2, DequeueFacts
    <3>2. Home[queue[p][i]] = p /\ queue[p][i] # t /\ queue[p][i] \in Threads
      BY <1>2, <2>2, <3>1 DEF QueueExact
    <3> QED
      BY <1>1, <3>1, <3>2 DEF QueueExact
  <2> QED
    BY <2>1, <2>2
<1>4. ASSUME NEW u \in Threads, pc'[u] \in InQueue
      PROVE  \E i \in DOMAIN queue'[Home[u]] : queue'[Home[u]][i] = u
  <2>1. u # t /\ pc[u] \in InQueue /\ Home[u] \in Processes
    BY <1>1, <1>4, RegistryAssumption
  <2>2. PICK j \in DOMAIN queue[Home[u]] : queue[Home[u]][j] = u
    BY <2>1 DEF QueueExact
  <2>3. CASE Home[u] = h
    <3>1. j \in DOMAIN queue[h] /\ queue[h][j] = u /\ u # t
      BY <2>1, <2>2, <2>3
    <3>2. \E k \in DOMAIN queue'[h] : queue'[h][k] = queue[h][j]
      BY <3>1, OthersStayQueued
    <3> QED
      BY <2>3, <3>1, <3>2
  <2>4. CASE Home[u] # h
    BY <2>1, <2>2, <2>4, DequeueFacts
  <2> QED
    BY <2>3, <2>4
<1>5. queue' \in [Processes -> Seq(Threads)]
  BY DequeueFacts
<1> QED
  BY <1>3, <1>4, <1>5 DEF QueueExact

(* No queue changes, and nobody enters or leaves one.                      *)
LEMMA QueueKept ==
  ASSUME QueueExact, UNCHANGED queue,
         \A u \in Threads : pc'[u] \in InQueue <=> pc[u] \in InQueue
  PROVE  QueueExact'
<1>1. \A p \in Processes : \A j \in DOMAIN queue[p] : queue[p][j] \in Threads
  BY DEF QueueExact
<1> QED
  BY <1>1 DEF QueueExact

LEMMA BeginFacts ==
  ASSUME QueueExact, NEW t \in Threads, NEW m, NEW tryOnce, Begin(t, m, tryOnce)
  PROVE  LET q == queue[Home[t]] IN
         /\ q \in Seq(Threads) /\ Len(q) \in Nat /\ DOMAIN q = 1 .. Len(q)
         /\ queue' \in [Processes -> Seq(Threads)]
         /\ \A p \in Processes : p # Home[t] => queue'[p] = queue[p]
         /\ DOMAIN queue'[Home[t]] = 1 .. Len(q) + 1
         /\ \A j \in DOMAIN q : queue'[Home[t]][j] = q[j]
         /\ queue'[Home[t]][Len(q) + 1] = t
<1> DEFINE q == queue[Home[t]]
           r == Append(q, t)
<1>1. Home[t] \in Processes /\ q \in Seq(Threads)
  BY RegistryAssumption DEF QueueExact
<1>2. queue' = [queue EXCEPT ![Home[t]] = r]
  BY DEF Begin
<1>3. /\ r \in Seq(Threads) /\ DOMAIN r = 1 .. Len(q) + 1
      /\ \A j \in DOMAIN q : r[j] = q[j]
      /\ r[Len(q) + 1] = t
  BY <1>1
<1>4. Len(q) \in Nat /\ DOMAIN q = 1 .. Len(q)
  BY <1>1
<1>5. /\ queue' \in [Processes -> Seq(Threads)] /\ queue'[Home[t]] = r
      /\ \A p \in Processes : p # Home[t] => queue'[p] = queue[p]
  <2> HIDE DEF r
  <2> QED
    BY <1>1, <1>2, <1>3 DEF QueueExact
<1> QED
  BY <1>1, <1>3, <1>4, <1>5

LEMMA QueueStep ==
  ASSUME NativeInv, QueueExact, AttemptExact, [Next]_vars
  PROVE  QueueExact'
<1> USE DEF RestSame, registryVars
<1>0. pc \in [Threads -> Place]
  BY DEF NativeInv, NativeTypes
<1>1. CASE NoStep \/ \E p \in Processes : RegistryFree(p)
  BY <1>1, QueueKept DEF NoStep, RegistryFree
<1>2. ASSUME NEW t \in Threads,
             Moves(t) \/ QueueAttempt(t) \/ SettleLease(t) \/ EndCleanup(t)
      PROVE  QueueExact'
  <2>1. UNCHANGED queue
    BY <1>2 DEF Moves, QueueAttempt, SettleLease, EndCleanup
  <2>2. \E w \in Place : Goto(t, w) /\ (pc[t] \in InQueue <=> w \in InQueue)
    <3>1. CASE Moves(t)
      <4>1. PICK w \in Place : /\ Goto(t, w)
                             /\ \/ pc[t] \in Attempting /\ w \in Attempting
                                \/ pc[t] = "queued" /\ w = "retained"
                                \/ pc[t] \in {"held", "unlock_turn"} /\ w \in {"unlock_turn", "settle"}
        BY <3>1 DEF Moves
      <4> QED
        BY <4>1 DEF InQueue, Attempting, Waiting
    <3>2. CASE QueueAttempt(t)
      BY <3>2 DEF QueueAttempt, At, InQueue, Waiting, Place
    <3>3. CASE SettleLease(t) \/ EndCleanup(t)
      BY <3>3 DEF SettleLease, EndCleanup, InQueue, Waiting, Place
    <3> QED
      BY <1>2, <3>1, <3>2, <3>3
  <2> QED
    BY <1>0, <2>1, <2>2, QueueKept DEF Goto
<1>3. ASSUME NEW t \in Threads, Leaves(t) \/ Grant(t) \/ AbortAttempt(t)
      PROVE  QueueExact'
  <2>1. pc[t] \in InQueue /\ Dequeue(t)
    BY <1>3 DEF Leaves, Grant, AbortAttempt, At, InQueue, Waiting
  <2>2. \E w \in Place \ InQueue : Goto(t, w)
    BY <1>3 DEF Leaves, Grant, AbortAttempt, InQueue, Waiting, Place
  <2> QED
    BY <2>1, <2>2, QueueAfterLeave
<1>4. ASSUME NEW t \in Threads, NEW m \in {"SH", "EX"}, NEW tryOnce \in BOOLEAN, Begin(t, m, tryOnce)
      PROVE  QueueExact'
  <2> DEFINE h == Home[t]
             n == Len(queue[h])
  <2>1. /\ pc[t] \notin InQueue /\ pc'[t] \in InQueue
        /\ \A u \in Threads : u # t => pc'[u] = pc[u]
    BY <1>0, <1>4 DEF Begin, Goto, InQueue, Waiting
  <2>2. \A p \in Processes : \A j \in DOMAIN queue[p] : queue[p][j] \in Threads
    BY DEF QueueExact
  <2>3. /\ n \in Nat /\ DOMAIN queue[h] = 1 .. n /\ DOMAIN queue'[h] = 1 .. n + 1
        /\ \A j \in 1 .. n : queue'[h][j] = queue[h][j]
        /\ queue'[h][n + 1] = t /\ h \in Processes
        /\ queue' \in [Processes -> Seq(Threads)]
        /\ \A p \in Processes : p # h => queue'[p] = queue[p]
    BY <1>4, BeginFacts, RegistryAssumption
  <2> HIDE DEF n
  <2>4. \A j \in 1 .. n : queue[h][j] \in Threads /\ queue[h][j] # t
    BY <2>1, <2>2, <2>3 DEF QueueExact
  <2>5. ASSUME NEW p \in Processes, NEW i \in DOMAIN queue'[p]
        PROVE  /\ Home[queue'[p][i]] = p /\ pc'[queue'[p][i]] \in InQueue
               /\ \A j \in DOMAIN queue'[p] : queue'[p][i] = queue'[p][j] => i = j
    <3>1. CASE p # h
      BY <2>1, <2>2, <2>3, <2>5, <3>1 DEF QueueExact
    <3>2. CASE p = h /\ i = n + 1
      <4>1. \A j \in 1 .. n + 1 : j \in 1 .. n \/ j = n + 1
        BY <2>3
      <4>2. \A j \in 1 .. n + 1 : queue'[h][i] = queue'[h][j] => i = j
        BY <2>3, <2>4, <3>2, <4>1
      <4>3. Home[queue'[h][i]] = h /\ pc'[queue'[h][i]] \in InQueue
        BY <2>1, <2>3, <3>2
      <4> QED
        BY <2>3, <3>2, <4>2, <4>3
    <3>3. CASE p = h /\ i # n + 1
      <4>1. i \in 1 .. n
        BY <2>3, <2>5, <3>3
      <4>2. Home[queue[h][i]] = h /\ pc[queue[h][i]] \in InQueue
        BY <2>3, <4>1 DEF QueueExact
      <4>3. \A j \in 1 .. n : queue[h][i] = queue[h][j] => i = j
        BY <2>3, <4>1 DEF QueueExact
      <4>4. pc'[queue[h][i]] \in InQueue
        BY <2>1, <2>4, <4>1, <4>2
      <4>5. \A j \in 1 .. n + 1 : queue'[h][i] = queue'[h][j] => i = j
        <5>1. \A j \in 1 .. n + 1 : j \in 1 .. n \/ j = n + 1
          BY <2>3
        <5> QED
          BY <2>3, <2>4, <4>1, <4>3, <5>1
      <4> QED
        BY <2>3, <3>3, <4>1, <4>2, <4>4, <4>5
    <3> QED
      BY <3>1, <3>2, <3>3
  <2>6. ASSUME NEW u \in Threads, pc'[u] \in InQueue
        PROVE  \E i \in DOMAIN queue'[Home[u]] : queue'[Home[u]][i] = u
    <3>1. CASE u = t
      <4>1. n + 1 \in 1 .. n + 1
        BY <2>3
      <4> QED
        BY <2>3, <3>1, <4>1
    <3>2. CASE u # t
      <4>1. Home[u] \in Processes /\ pc[u] \in InQueue
        BY <2>1, <2>6, <3>2, RegistryAssumption
      <4>2. PICK i \in DOMAIN queue[Home[u]] : queue[Home[u]][i] = u
        BY <4>1 DEF QueueExact
      <4>3. CASE Home[u] = h
        <5>1. i \in 1 .. n /\ i \in 1 .. n + 1
          BY <2>3, <4>2, <4>3
        <5> QED
          BY <2>3, <4>2, <4>3, <5>1
      <4> QED
        BY <2>3, <4>1, <4>2, <4>3
    <3> QED
      BY <3>1, <3>2
  <2> QED
    BY <2>3, <2>5, <2>6 DEF QueueExact
<1>5. ASSUME NEW p \in Processes, Crash(p)
      PROVE  QueueExact'
  <2>1. /\ queue' = [queue EXCEPT ![p] = <<>>]
        /\ \A u \in Threads : pc'[u] = IF Home[u] = p THEN "idle" ELSE pc[u]
    BY <1>5 DEF Crash
  <2>2. /\ queue' \in [Processes -> Seq(Threads)] /\ queue'[p] = <<>>
        /\ \A o \in Processes : o # p => queue'[o] = queue[o]
    BY <2>1 DEF QueueExact
  <2>3. \A o \in Processes : \A j \in DOMAIN queue[o] : queue[o][j] \in Threads
    BY DEF QueueExact
  <2>4. ASSUME NEW o \in Processes, NEW i \in DOMAIN queue'[o]
        PROVE  /\ Home[queue'[o][i]] = o /\ pc'[queue'[o][i]] \in InQueue
               /\ \A j \in DOMAIN queue'[o] : queue'[o][i] = queue'[o][j] => i = j
    BY <2>1, <2>2, <2>3, <2>4 DEF QueueExact
  <2>5. ASSUME NEW u \in Threads, pc'[u] \in InQueue
        PROVE  \E i \in DOMAIN queue'[Home[u]] : queue'[Home[u]][i] = u
    <3>1. Home[u] # p /\ pc[u] \in InQueue /\ Home[u] \in Processes
      BY <2>1, <2>5, RegistryAssumption DEF InQueue, Waiting
    <3> QED
      BY <2>2, <3>1 DEF QueueExact
  <2> QED
    BY <2>2, <2>4, <2>5 DEF QueueExact
<1> QED
  BY <1>1, <1>2, <1>3, <1>4, <1>5, StepKinds
(* An attempt under way shuts out every other attempt of its process.      *)
LEMMA AttemptStep ==
  ASSUME NativeInv, QueueExact, AttemptExact, [Next]_vars
  PROVE  AttemptExact'
<1> USE DEF RestSame, registryVars
<1>0. /\ pc \in [Threads -> Place] /\ attempt \in [Processes -> Threads \cup {NoThread}]
      /\ \A u \in Threads : Home[u] \in Processes
      /\ NoThread \notin Threads
  BY RegistryAssumption DEF NativeInv, NativeTypes, AttemptExact
<1>kept. ASSUME UNCHANGED <<queue, attempt>>,
                \A u \in Threads : pc'[u] \in Attempting <=> pc[u] \in Attempting
         PROVE  AttemptExact'
  BY <1>kept DEF AttemptExact
<1>1. CASE NoStep \/ \E p \in Processes : RegistryFree(p)
  BY <1>1, <1>kept DEF NoStep, RegistryFree
<1>2. ASSUME NEW t \in Threads, Moves(t) \/ SettleLease(t) \/ EndCleanup(t)
      PROVE  AttemptExact'
  <2>1. UNCHANGED <<queue, attempt>>
    BY <1>2 DEF Moves, SettleLease, EndCleanup
  <2>2. \E w \in Place : Goto(t, w) /\ (pc[t] \in Attempting <=> w \in Attempting)
    <3>1. CASE Moves(t)
      <4>1. PICK w \in Place : /\ Goto(t, w)
                             /\ \/ pc[t] \in Attempting /\ w \in Attempting
                                \/ pc[t] = "queued" /\ w = "retained"
                                \/ pc[t] \in {"held", "unlock_turn"} /\ w \in {"unlock_turn", "settle"}
        BY <3>1 DEF Moves
      <4> QED
        BY <4>1 DEF Attempting, Waiting
    <3>2. CASE SettleLease(t) \/ EndCleanup(t)
      BY <3>2 DEF SettleLease, EndCleanup, Attempting, Waiting, Place
    <3> QED
      BY <1>2, <3>1, <3>2
  <2> QED
    BY <1>0, <1>kept, <2>1, <2>2 DEF Goto
<1>3. ASSUME NEW t \in Threads, QueueAttempt(t)
      PROVE  AttemptExact'
  <2>1. /\ attempt[Home[t]] = NoThread /\ Head(queue[Home[t]]) = t /\ pc[t] \in InQueue
        /\ attempt' = [attempt EXCEPT ![Home[t]] = t] /\ UNCHANGED queue
        /\ pc' = [pc EXCEPT ![t] = "turn"]
    BY <1>3 DEF QueueAttempt, CanAttempt, At, Goto, InQueue, Waiting
  <2>2. queue[Home[t]][1] = t
    <3>1. queue[Home[t]] \in Seq(Threads) /\ DOMAIN queue[Home[t]] # {}
      BY <1>0, <2>1 DEF QueueExact
    <3> QED
      BY <2>1, <3>1, SeqFacts
  <2>3. \A u \in Threads : u # t => pc'[u] = pc[u]
    BY <1>0, <2>1
  <2>4. \A u \in Threads : Home[u] = Home[t] => pc[u] \notin Attempting
    BY <1>0, <2>1 DEF AttemptExact
  <2>5. pc'[t] \in Attempting /\ attempt'[Home[t]] = t
    BY <1>0, <2>1 DEF Attempting, Waiting
  <2>6. \A u \in Threads : Home[u] # Home[t] => attempt'[Home[u]] = attempt[Home[u]]
    BY <1>0, <2>1
  <2>7. attempt' \in [Processes -> Threads \cup {NoThread}]
    BY <1>0, <2>1
  <2>8. \A u \in Threads : pc'[u] \in Attempting =>
          attempt'[Home[u]] = u /\ queue'[Home[u]][1] = u
    BY <2>1, <2>2, <2>3, <2>4, <2>5, <2>6 DEF AttemptExact
  <2>9. \A u \in Threads : attempt'[Home[u]] = u => pc'[u] \in Attempting
    BY <2>3, <2>5, <2>6 DEF AttemptExact
  <2> QED
    BY <2>7, <2>8, <2>9 DEF AttemptExact
<1>4. ASSUME NEW t \in Threads, Leaves(t) \/ Grant(t) \/ AbortAttempt(t)
      PROVE  AttemptExact'
  <2>1. /\ pc[t] \in InQueue /\ Dequeue(t)
        /\ \A u \in Threads : u # t => pc'[u] = pc[u]
        /\ pc'[t] \notin Attempting
    BY <1>0, <1>4 DEF Leaves, Grant, AbortAttempt, At, Goto, InQueue, Attempting, Waiting
  <2>2. CASE attempt[Home[t]] = t
    <3>1. pc[t] \in Attempting
      BY <1>0, <2>2 DEF AttemptExact
    <3>2. attempt' = [attempt EXCEPT ![Home[t]] = NoThread]
      BY <1>0, <1>4, <2>2, <3>1 DEF Leaves, Grant, AbortAttempt, EndAttempt, Attempting, Waiting
    <3>3. \A u \in Threads : Home[u] = Home[t] => attempt'[Home[u]] = NoThread
      BY <1>0, <3>2
    <3>4. \A u \in Threads : Home[u] # Home[t] =>
            attempt'[Home[u]] = attempt[Home[u]] /\ queue'[Home[u]] = queue[Home[u]]
      BY <1>0, <2>1, <3>2, DequeueFacts
    <3>5. \A u \in Threads : u # t /\ Home[u] = Home[t] => pc[u] \notin Attempting
      BY <2>2 DEF AttemptExact
    <3>6. attempt' \in [Processes -> Threads \cup {NoThread}]
      BY <1>0, <3>2
    <3> QED
      BY <1>0, <2>1, <3>3, <3>4, <3>5, <3>6 DEF AttemptExact
  <2>3. CASE attempt[Home[t]] # t
    <3>1. pc[t] \notin Attempting
      BY <2>3 DEF AttemptExact
    <3>2. UNCHANGED attempt
      <4>1. ~Grant(t) /\ ~AbortAttempt(t)
        BY <3>1 DEF Grant, AbortAttempt, At, Attempting, Waiting
      <4>2. EndAttempt(t) => attempt' = [attempt EXCEPT ![Home[t]] = attempt[Home[t]]]
        BY <2>3 DEF EndAttempt
      <4> QED
        BY <1>0, <1>4, <4>1, <4>2 DEF Leaves
    <3>3. \A u \in Threads : pc[u] \in Attempting => queue'[Home[u]][1] = u
      <4> SUFFICES ASSUME NEW u \in Threads, pc[u] \in Attempting
                   PROVE  queue'[Home[u]][1] = u
        OBVIOUS
      <4>1. queue[Home[u]][1] = u /\ u # t
        BY <3>1 DEF AttemptExact
      <4>2. CASE Home[u] = Home[t]
        BY <2>1, <4>1, <4>2, DequeueFacts
      <4>3. CASE Home[u] # Home[t]
        BY <1>0, <2>1, <4>1, <4>3, DequeueFacts
      <4> QED
        BY <4>2, <4>3
    <3> QED
      BY <2>1, <3>1, <3>2, <3>3 DEF AttemptExact
  <2> QED
    BY <2>2, <2>3
<1>5. ASSUME NEW t \in Threads, NEW m \in {"SH", "EX"}, NEW tryOnce \in BOOLEAN, Begin(t, m, tryOnce)
      PROVE  AttemptExact'
  <2>1. /\ pc[t] \notin Attempting /\ pc'[t] \notin Attempting /\ UNCHANGED attempt
        /\ \A u \in Threads : u # t => pc'[u] = pc[u]
    BY <1>0, <1>5 DEF Begin, Goto, Attempting, Waiting
  <2>2. ASSUME NEW u \in Threads, pc[u] \in Attempting
        PROVE  queue'[Home[u]][1] = u
    <3>1. queue[Home[u]][1] = u /\ pc[u] \in InQueue
      BY <2>2 DEF AttemptExact, InQueue, Attempting
    <3>2. PICK i \in DOMAIN queue[Home[u]] : queue[Home[u]][i] = u
      BY <3>1 DEF QueueExact
    <3>3. CASE Home[u] = Home[t]
      <4>1. 1 \in DOMAIN queue[Home[t]]
        BY <1>5, <3>2, <3>3, BeginFacts
      <4> QED
        <5>1. queue'[Home[t]][1] = queue[Home[t]][1]
          BY <1>5, <4>1, BeginFacts
        <5> QED
          BY <3>1, <3>3, <5>1
    <3>4. CASE Home[u] # Home[t]
      BY <1>0, <1>5, <3>1, <3>4, BeginFacts
    <3> QED
      BY <3>3, <3>4
  <2> QED
    BY <2>1, <2>2 DEF AttemptExact
<1>6. ASSUME NEW p \in Processes, Crash(p)
      PROVE  AttemptExact'
  <2>1. /\ queue' = [queue EXCEPT ![p] = <<>>]
        /\ attempt' = [attempt EXCEPT ![p] = NoThread]
        /\ \A u \in Threads : pc'[u] = IF Home[u] = p THEN "idle" ELSE pc[u]
    BY <1>6 DEF Crash
  <2>2. /\ \A o \in Processes : o # p => queue'[o] = queue[o] /\ attempt'[o] = attempt[o]
        /\ attempt'[p] = NoThread /\ attempt' \in [Processes -> Threads \cup {NoThread}]
    BY <1>0, <2>1 DEF QueueExact
  <2>3. "idle" \notin Attempting
    BY DEF Attempting, Waiting
  <2> QED
    BY <1>0, <2>1, <2>2, <2>3 DEF AttemptExact
<1> QED
  BY <1>1, <1>2, <1>3, <1>4, <1>5, <1>6, StepKinds
-----------------------------------------------------------------------------
(* The counters.                                                           *)

(* The threads that count for a process are the same as before.            *)
LEMMA CountsKept ==
  ASSUME CountsExact, NEW p \in Processes,
         reading'[p] = reading[p], writing'[p] = writing[p], pending'[p] = pending[p],
         Sharing(p)' = Sharing(p), Writers(p)' = Writers(p), Cleaning(p)' = Cleaning(p)
  PROVE  /\ IsFiniteSet(Sharing(p)') /\ reading'[p] = Cardinality(Sharing(p)')
         /\ IsFiniteSet(Cleaning(p)') /\ pending'[p] = Cardinality(Cleaning(p)')
         /\ Writers(p)' # {} <=> writing'[p]
         /\ \A t, u \in Writers(p)' : t = u
  BY DEF CountsExact

(* One more thread of a process cleans up, or none.                        *)
LEMMA CleaningStep ==
  ASSUME NativeInv, CountsExact, NEW t \in Threads, pc[t] # "cleanup",
         pending' = [pending EXCEPT ![Home[t]] = IF HoldsNative(t) THEN @ + 1 ELSE @],
         Goto(t, IF HoldsNative(t) THEN "cleanup" ELSE "idle")
  PROVE  /\ pending' \in [Processes -> Nat]
         /\ \A p \in Processes :
              IsFiniteSet(Cleaning(p)') /\ pending'[p] = Cardinality(Cleaning(p)')
<1> DEFINE h == Home[t]
<1>1. /\ h \in Processes /\ pc \in [Threads -> Place] /\ pending \in [Processes -> Nat]
      /\ \A p \in Processes : IsFiniteSet(Cleaning(p)) /\ pending[p] = Cardinality(Cleaning(p))
  BY RegistryAssumption DEF NativeInv, NativeTypes, CountsExact
<1>2. \A p \in Processes : p # h => Cleaning(p)' = Cleaning(p) /\ pending'[p] = pending[p]
  BY <1>1 DEF Cleaning, Goto
<1>3. CASE HoldsNative(t)
  <2>1. Cleaning(h)' = Cleaning(h) \cup {t} /\ t \notin Cleaning(h)
    BY <1>1, <1>3 DEF Cleaning, Goto
  <2>2. pending' = [pending EXCEPT ![h] = pending[h] + 1]
    BY <1>3
  <2>3. pending'[h] = pending[h] + 1 /\ pending' \in [Processes -> Nat]
    BY <1>1, <2>2
  <2>4. IsFiniteSet(Cleaning(h)') /\ Cardinality(Cleaning(h)') = pending[h] + 1
    BY <1>1, <2>1, FS_AddElement
  <2> QED
    BY <1>1, <1>2, <2>3, <2>4
<1>4. CASE ~HoldsNative(t)
  <2>1. Cleaning(h)' = Cleaning(h)
    BY <1>1, <1>4 DEF Cleaning, Goto
  <2>2. pending' = [pending EXCEPT ![h] = pending[h]]
    BY <1>4
  <2>3. pending' = pending
    BY <1>1, <2>2
  <2> QED
    BY <1>1, <1>2, <2>1, <2>3
<1> QED
  BY <1>3, <1>4

LEMMA CountsStep ==
  ASSUME NativeInv, CountsExact, [Next]_vars
  PROVE  CountsExact'
<1> USE DEF RestSame, registryVars, countVars, requestVars
<1>0. /\ pc \in [Threads -> Place] /\ mode \in [Threads -> {"SH", "EX"}]
      /\ \A u \in Threads : Home[u] \in Processes
      /\ reading \in [Processes -> Nat] /\ writing \in [Processes -> BOOLEAN]
      /\ pending \in [Processes -> Nat]
      /\ \A u \in Threads : pc[u] = "unlock_turn" => mode[u] = "EX"
  BY RegistryAssumption DEF NativeInv, NativeTypes, CountsExact
<1>kept. ASSUME UNCHANGED <<reading, writing, pending>>,
                \A p \in Processes : /\ Sharing(p)' = Sharing(p) /\ Writers(p)' = Writers(p)
                                     /\ Cleaning(p)' = Cleaning(p),
                \A u \in Threads : pc'[u] = "unlock_turn" => mode'[u] = "EX"
         PROVE  CountsExact'
  <2>1. \A p \in Processes :
          /\ IsFiniteSet(Sharing(p)') /\ reading'[p] = Cardinality(Sharing(p)')
          /\ IsFiniteSet(Cleaning(p)') /\ pending'[p] = Cardinality(Cleaning(p)')
          /\ Writers(p)' # {} <=> writing'[p]
          /\ \A t, u \in Writers(p)' : t = u
    BY <1>kept, CountsKept
  <2> QED
    BY <1>0, <1>kept, <2>1 DEF CountsExact
<1>one. ASSUME NEW h \in Processes,
               reading' \in [Processes -> Nat], writing' \in [Processes -> BOOLEAN],
               pending' \in [Processes -> Nat],
               \A p \in Processes :
                 IsFiniteSet(Cleaning(p)') /\ pending'[p] = Cardinality(Cleaning(p)'),
               \A p \in Processes : p # h =>
                 /\ Sharing(p)' = Sharing(p) /\ Writers(p)' = Writers(p)
                 /\ reading'[p] = reading[p] /\ writing'[p] = writing[p],
               IsFiniteSet(Sharing(h)'), reading'[h] = Cardinality(Sharing(h)'),
               Writers(h)' # {} <=> writing'[h], \A t, u \in Writers(h)' : t = u,
               \A u \in Threads : pc'[u] = "unlock_turn" => mode'[u] = "EX"
        PROVE  CountsExact'
  <2>1. ASSUME NEW p \in Processes
        PROVE  /\ IsFiniteSet(Sharing(p)') /\ reading'[p] = Cardinality(Sharing(p)')
               /\ Writers(p)' # {} <=> writing'[p]
               /\ \A t, u \in Writers(p)' : t = u
    <3>1. CASE p = h
      BY <1>one, <3>1
    <3>2. CASE p # h
      <4>1. /\ IsFiniteSet(Sharing(p)) /\ reading[p] = Cardinality(Sharing(p))
            /\ Writers(p) # {} <=> writing[p]
            /\ \A t, u \in Writers(p) : t = u
        BY DEF CountsExact
      <4>2. /\ Sharing(p)' = Sharing(p) /\ Writers(p)' = Writers(p)
            /\ reading'[p] = reading[p] /\ writing'[p] = writing[p]
        BY <1>one, <3>2
      <4> QED
        BY <4>1, <4>2
    <3> QED
      BY <3>1, <3>2
  <2> QED
    BY <1>one, <2>1 DEF CountsExact
<1>1. CASE NoStep \/ \E p \in Processes : RegistryFree(p)
  BY <1>0, <1>1, <1>kept DEF NoStep, RegistryFree, Sharing, Writers, Cleaning
<1>2. ASSUME NEW t \in Threads, Moves(t)
      PROVE  CountsExact'
  <2>1. PICK w \in Place :
          /\ pc' = [pc EXCEPT ![t] = w] /\ UNCHANGED <<mode, reading, writing, pending>>
          /\ \/ pc[t] \in Attempting /\ w \in Attempting
             \/ pc[t] = "queued" /\ w = "retained"
             \/ pc[t] = "held" /\ w = (IF mode[t] = "EX" THEN "unlock_turn" ELSE "settle")
             \/ pc[t] = "unlock_turn" /\ w = "settle"
    BY <1>2 DEF Moves, Goto
  <2>2. /\ \A u \in Threads : pc'[u] = IF u = t THEN w ELSE pc[u]
        /\ mode'[t] = mode[t] /\ mode[t] \in {"SH", "EX"}
    BY <1>0, <2>1
  <2>3. \A p \in Processes : Sharing(p)' = Sharing(p)
    BY <1>0, <2>1, <2>2 DEF Sharing, Attempting, Waiting
  <2>4. \A p \in Processes : Writers(p)' = Writers(p)
    BY <1>0, <2>1, <2>2 DEF Writers, Attempting, Waiting
  <2>5. \A p \in Processes : Cleaning(p)' = Cleaning(p)
    BY <1>0, <2>1, <2>2 DEF Cleaning, Attempting, Waiting
  <2>6. \A u \in Threads : pc'[u] = "unlock_turn" => mode'[u] = "EX"
    BY <1>0, <2>1, <2>2 DEF Attempting, Waiting
  <2> QED
    BY <1>kept, <2>1, <2>3, <2>4, <2>5, <2>6
<1>3. ASSUME NEW t \in Threads,
             \/ Leaves(t) \/ QueueAttempt(t)
             \/ \E m \in {"SH", "EX"}, tryOnce \in BOOLEAN : Begin(t, m, tryOnce)
      PROVE  CountsExact'
  <2>1. /\ pc[t] \in {"idle", "queued", "retained"}
        /\ pc'[t] \in {"idle", "queued", "turn"}
        /\ \A u \in Threads : u # t => pc'[u] = pc[u] /\ mode'[u] = mode[u]
        /\ UNCHANGED <<reading, writing, pending>>
    BY <1>0, <1>3 DEF Leaves, QueueAttempt, Begin, At, Goto
  <2>2. \A p \in Processes : /\ Sharing(p)' = Sharing(p) /\ Writers(p)' = Writers(p)
                             /\ Cleaning(p)' = Cleaning(p)
    BY <1>0, <2>1 DEF Sharing, Writers, Cleaning
  <2> QED
    BY <1>0, <1>kept, <2>1, <2>2
<1>4. ASSUME NEW t \in Threads, Grant(t)
      PROVE  CountsExact'
  <2> DEFINE h == Home[t]
  <2>1. /\ pc[t] = "ready" /\ pc' = [pc EXCEPT ![t] = "held"] /\ UNCHANGED <<mode, pending>>
        /\ ~writing[h] /\ h \in Processes
        /\ IF mode[t] = "SH"
             THEN reading' = [reading EXCEPT ![h] = @ + 1] /\ UNCHANGED writing
             ELSE writing' = [writing EXCEPT ![h] = TRUE] /\ UNCHANGED reading
    BY <1>0, <1>4 DEF Grant, At, Goto, LocalReady
  <2>2. \A u \in Threads : pc'[u] = IF u = t THEN "held" ELSE pc[u]
    BY <1>0, <2>1
  <2>3. \A p \in Processes : /\ Cleaning(p)' = Cleaning(p)
                             /\ p # h => Sharing(p)' = Sharing(p) /\ Writers(p)' = Writers(p)
    BY <1>0, <2>1, <2>2 DEF Sharing, Writers, Cleaning
  <2>4. \A u \in Threads : pc'[u] = "unlock_turn" => mode'[u] = "EX"
    BY <1>0, <2>1, <2>2
  <2>5. Writers(h) = {} /\ IsFiniteSet(Sharing(h)) /\ reading[h] = Cardinality(Sharing(h))
    BY <2>1 DEF CountsExact
  <2>6. \A p \in Processes :
          IsFiniteSet(Cleaning(p)') /\ pending'[p] = Cardinality(Cleaning(p)')
    BY <2>1, <2>3 DEF CountsExact
  <2>7. pending' \in [Processes -> Nat]
    BY <1>0, <2>1
  <2>8. CASE mode[t] = "SH"
    <3>1. Sharing(h)' = Sharing(h) \cup {t} /\ t \notin Sharing(h) /\ Writers(h)' = Writers(h)
      BY <1>0, <2>1, <2>2, <2>8 DEF Sharing, Writers
    <3>2. /\ reading' \in [Processes -> Nat] /\ reading'[h] = reading[h] + 1
          /\ \A p \in Processes : p # h => reading'[p] = reading[p]
          /\ UNCHANGED writing
      BY <1>0, <2>1, <2>8
    <3>3. IsFiniteSet(Sharing(h)') /\ Cardinality(Sharing(h)') = reading[h] + 1
      BY <2>5, <3>1, FS_AddElement
    <3> QED
      <4>1. /\ reading' \in [Processes -> Nat] /\ writing' \in [Processes -> BOOLEAN]
            /\ pending' \in [Processes -> Nat] /\ h \in Processes
        BY <1>0, <2>1, <2>5, <2>7, <2>8, <3>1, <3>2, <3>3
      <4>2. \A p \in Processes : p # h =>
              /\ Sharing(p)' = Sharing(p) /\ Writers(p)' = Writers(p)
              /\ reading'[p] = reading[p] /\ writing'[p] = writing[p]
        BY <2>1, <2>3, <2>5, <2>7, <2>8, <3>1, <3>2, <3>3
      <4>3. IsFiniteSet(Sharing(h)') /\ reading'[h] = Cardinality(Sharing(h)')
        BY <2>1, <2>5, <2>7, <2>8, <3>1, <3>2, <3>3
      <4>4. (Writers(h)' # {} <=> writing'[h]) /\ \A u, v \in Writers(h)' : u = v
        BY <2>1, <2>5, <2>7, <2>8, <3>1, <3>2, <3>3
      <4> QED
        BY <1>one, <2>4, <2>6, <4>1, <4>2, <4>3, <4>4
  <2>9. CASE mode[t] = "EX"
    <3>1. Writers(h)' = {t} /\ Sharing(h)' = Sharing(h)
      BY <1>0, <2>1, <2>2, <2>5, <2>9 DEF Sharing, Writers
    <3>2. /\ writing' \in [Processes -> BOOLEAN] /\ writing'[h]
          /\ \A p \in Processes : p # h => writing'[p] = writing[p]
          /\ UNCHANGED reading
      BY <1>0, <2>1, <2>9
    <3> QED
      <4>1. /\ reading' \in [Processes -> Nat] /\ writing' \in [Processes -> BOOLEAN]
            /\ pending' \in [Processes -> Nat] /\ h \in Processes
        BY <1>0, <2>1, <2>5, <2>7, <2>9, <3>1, <3>2
      <4>2. \A p \in Processes : p # h =>
              /\ Sharing(p)' = Sharing(p) /\ Writers(p)' = Writers(p)
              /\ reading'[p] = reading[p] /\ writing'[p] = writing[p]
        BY <2>1, <2>3, <2>5, <2>7, <2>9, <3>1, <3>2
      <4>3. IsFiniteSet(Sharing(h)') /\ reading'[h] = Cardinality(Sharing(h)')
        BY <2>1, <2>5, <2>7, <2>9, <3>1, <3>2
      <4>4. (Writers(h)' # {} <=> writing'[h]) /\ \A u, v \in Writers(h)' : u = v
        BY <2>1, <2>5, <2>7, <2>9, <3>1, <3>2
      <4> QED
        BY <1>one, <2>4, <2>6, <4>1, <4>2, <4>3, <4>4
  <2> QED
    BY <1>0, <2>8, <2>9
<1>5. ASSUME NEW t \in Threads, AbortAttempt(t)
      PROVE  CountsExact'
  <2>1. /\ pc[t] = "abort" /\ UNCHANGED <<mode, reading, writing>>
        /\ pc' = [pc EXCEPT ![t] = IF HoldsNative(t) THEN "cleanup" ELSE "idle"]
    BY <1>5 DEF AbortAttempt, Goto
  <2>2. \A u \in Threads : pc'[u] = IF u = t THEN (IF HoldsNative(t) THEN "cleanup" ELSE "idle") ELSE pc[u]
    BY <1>0, <2>1
  <2>3. \A p \in Processes : Sharing(p)' = Sharing(p) /\ Writers(p)' = Writers(p)
    BY <1>0, <2>1, <2>2 DEF Sharing, Writers
  <2>4. \A u \in Threads : pc'[u] = "unlock_turn" => mode'[u] = "EX"
    BY <1>0, <2>1, <2>2
  <2>5. /\ pending' \in [Processes -> Nat]
        /\ \A p \in Processes :
             IsFiniteSet(Cleaning(p)') /\ pending'[p] = Cardinality(Cleaning(p)')
    BY <1>5, <2>1, CleaningStep DEF AbortAttempt
  <2> QED
    BY <1>0, <2>1, <2>3, <2>4, <2>5 DEF CountsExact
<1>6. ASSUME NEW t \in Threads, SettleLease(t)
      PROVE  CountsExact'
  <2> DEFINE h == Home[t]
  <2>1. /\ pc[t] = "settle" /\ UNCHANGED mode /\ h \in Processes
        /\ pc' = [pc EXCEPT ![t] = IF HoldsNative(t) THEN "cleanup" ELSE "idle"]
        /\ IF mode[t] = "SH"
             THEN reading' = [reading EXCEPT ![h] = @ - 1] /\ UNCHANGED writing
             ELSE writing' = [writing EXCEPT ![h] = FALSE] /\ UNCHANGED reading
    BY <1>0, <1>6 DEF SettleLease, Goto
  <2>2. \A u \in Threads : pc'[u] = IF u = t THEN (IF HoldsNative(t) THEN "cleanup" ELSE "idle") ELSE pc[u]
    BY <1>0, <2>1
  <2>3. \A p \in Processes : p # h => Sharing(p)' = Sharing(p) /\ Writers(p)' = Writers(p)
    BY <1>0, <2>1, <2>2 DEF Sharing, Writers
  <2>4. \A u \in Threads : pc'[u] = "unlock_turn" => mode'[u] = "EX"
    BY <1>0, <2>1, <2>2
  <2>5. /\ pending' \in [Processes -> Nat]
        /\ \A p \in Processes :
             IsFiniteSet(Cleaning(p)') /\ pending'[p] = Cardinality(Cleaning(p)')
    BY <1>6, <2>1, CleaningStep DEF SettleLease
  <2>6. IsFiniteSet(Sharing(h)) /\ reading[h] = Cardinality(Sharing(h)) /\ reading[h] \in Nat
    BY <1>0, <2>1 DEF CountsExact
  <2>7. CASE mode[t] = "SH"
    <3>0. (Writers(h) # {} <=> writing[h]) /\ \A u, v \in Writers(h) : u = v
      BY <2>1 DEF CountsExact
    <3>1. Sharing(h)' = Sharing(h) \ {t} /\ t \in Sharing(h) /\ Writers(h)' = Writers(h)
      BY <1>0, <2>1, <2>2, <2>7 DEF Sharing, Writers
    <3>2. IsFiniteSet(Sharing(h)') /\ Cardinality(Sharing(h)') = reading[h] - 1
      BY <2>6, <3>1, FS_RemoveElement
    <3>3. reading[h] - 1 \in Nat
      BY <3>2, FS_CardinalityType
    <3>4. /\ reading' \in [Processes -> Nat] /\ reading'[h] = reading[h] - 1
          /\ \A p \in Processes : p # h => reading'[p] = reading[p]
          /\ UNCHANGED writing
      BY <1>0, <2>1, <2>7, <3>3
    <3> QED
      <4>1. /\ reading' \in [Processes -> Nat] /\ writing' \in [Processes -> BOOLEAN]
            /\ pending' \in [Processes -> Nat] /\ h \in Processes
        BY <1>0, <2>1, <2>5, <2>7, <3>0, <3>1, <3>2, <3>4
      <4>2. \A p \in Processes : p # h =>
              /\ Sharing(p)' = Sharing(p) /\ Writers(p)' = Writers(p)
              /\ reading'[p] = reading[p] /\ writing'[p] = writing[p]
        BY <2>1, <2>3, <2>5, <2>7, <3>0, <3>1, <3>2, <3>4
      <4>3. IsFiniteSet(Sharing(h)') /\ reading'[h] = Cardinality(Sharing(h)')
        BY <2>1, <2>5, <2>7, <3>0, <3>1, <3>2, <3>4
      <4>4. (Writers(h)' # {} <=> writing'[h]) /\ \A u, v \in Writers(h)' : u = v
        BY <2>1, <2>5, <2>7, <3>0, <3>1, <3>2, <3>4
      <4> QED
        BY <1>one, <2>4, <2>5, <4>1, <4>2, <4>3, <4>4
  <2>8. CASE mode[t] = "EX"
    <3>1. t \in Writers(h) /\ Sharing(h)' = Sharing(h)
      BY <1>0, <2>1, <2>2, <2>8 DEF Sharing, Writers
    <3>2. Writers(h) = {t}
      BY <2>1, <3>1 DEF CountsExact
    <3>3. Writers(h)' = {}
      BY <1>0, <2>1, <2>2, <3>2 DEF Writers
    <3>4. /\ writing' \in [Processes -> BOOLEAN] /\ ~writing'[h]
          /\ \A p \in Processes : p # h => writing'[p] = writing[p]
          /\ UNCHANGED reading
      BY <1>0, <2>1, <2>8
    <3> QED
      <4>1. /\ reading' \in [Processes -> Nat] /\ writing' \in [Processes -> BOOLEAN]
            /\ pending' \in [Processes -> Nat] /\ h \in Processes
        BY <1>0, <2>1, <2>5, <2>6, <2>8, <3>1, <3>3, <3>4
      <4>2. \A p \in Processes : p # h =>
              /\ Sharing(p)' = Sharing(p) /\ Writers(p)' = Writers(p)
              /\ reading'[p] = reading[p] /\ writing'[p] = writing[p]
        BY <2>1, <2>3, <2>5, <2>6, <2>8, <3>1, <3>3, <3>4
      <4>3. IsFiniteSet(Sharing(h)') /\ reading'[h] = Cardinality(Sharing(h)')
        BY <2>1, <2>5, <2>6, <2>8, <3>1, <3>3, <3>4
      <4>4. (Writers(h)' # {} <=> writing'[h]) /\ \A u, v \in Writers(h)' : u = v
        BY <2>1, <2>5, <2>6, <2>8, <3>1, <3>3, <3>4
      <4> QED
        BY <1>one, <2>4, <2>5, <4>1, <4>2, <4>3, <4>4
  <2> QED
    BY <1>0, <2>7, <2>8
<1>7. ASSUME NEW t \in Threads, EndCleanup(t)
      PROVE  CountsExact'
  <2> DEFINE h == Home[t]
  <2>1. /\ pc[t] = "cleanup" /\ UNCHANGED <<mode, reading, writing>> /\ h \in Processes
        /\ pc' = [pc EXCEPT ![t] = "idle"]
        /\ pending' = [pending EXCEPT ![h] = @ - 1]
    BY <1>0, <1>7 DEF EndCleanup, Goto
  <2>2. \A u \in Threads : pc'[u] = IF u = t THEN "idle" ELSE pc[u]
    BY <1>0, <2>1
  <2>3. \A p \in Processes : /\ Sharing(p)' = Sharing(p) /\ Writers(p)' = Writers(p)
                             /\ p # h => Cleaning(p)' = Cleaning(p)
    BY <1>0, <2>1, <2>2 DEF Sharing, Writers, Cleaning
  <2>4. \A u \in Threads : pc'[u] = "unlock_turn" => mode'[u] = "EX"
    BY <1>0, <2>1, <2>2
  <2>5. Cleaning(h)' = Cleaning(h) \ {t} /\ t \in Cleaning(h)
    BY <1>0, <2>1, <2>2 DEF Cleaning
  <2>6. IsFiniteSet(Cleaning(h)) /\ pending[h] = Cardinality(Cleaning(h)) /\ pending[h] \in Nat
    BY <1>0, <2>1 DEF CountsExact
  <2>7. IsFiniteSet(Cleaning(h)') /\ Cardinality(Cleaning(h)') = pending[h] - 1
    BY <2>5, <2>6, FS_RemoveElement
  <2>8. pending[h] - 1 \in Nat
    BY <2>7, FS_CardinalityType
  <2>9. /\ pending' \in [Processes -> Nat] /\ pending'[h] = pending[h] - 1
        /\ \A p \in Processes : p # h => pending'[p] = pending[p]
    BY <1>0, <2>1, <2>8
  <2> QED
    BY <1>0, <2>1, <2>3, <2>4, <2>7, <2>9 DEF CountsExact
<1>8. ASSUME NEW p \in Processes, Crash(p)
      PROVE  CountsExact'
  <2>1. /\ reading' = [reading EXCEPT ![p] = 0] /\ writing' = [writing EXCEPT ![p] = FALSE]
        /\ pending' = [pending EXCEPT ![p] = 0] /\ UNCHANGED mode
        /\ \A u \in Threads : pc'[u] = IF Home[u] = p THEN "idle" ELSE pc[u]
    BY <1>8 DEF Crash
  <2>2. Sharing(p)' = {} /\ Writers(p)' = {} /\ Cleaning(p)' = {}
    BY <2>1 DEF Sharing, Writers, Cleaning
  <2>3. \A o \in Processes : o # p =>
          Sharing(o)' = Sharing(o) /\ Writers(o)' = Writers(o) /\ Cleaning(o)' = Cleaning(o)
    BY <2>1 DEF Sharing, Writers, Cleaning
  <2>4. /\ reading' \in [Processes -> Nat] /\ writing' \in [Processes -> BOOLEAN]
        /\ pending' \in [Processes -> Nat]
        /\ reading'[p] = 0 /\ ~writing'[p] /\ pending'[p] = 0
        /\ \A o \in Processes : o # p => /\ reading'[o] = reading[o] /\ writing'[o] = writing[o]
                                         /\ pending'[o] = pending[o]
    BY <1>0, <2>1
  <2>5. \A u \in Threads : pc'[u] = "unlock_turn" => mode'[u] = "EX"
    BY <1>0, <2>1
  <2> QED
    BY <2>2, <2>3, <2>4, <2>5, FS_EmptySet DEF CountsExact
<1> QED
  BY <1>1, <1>2, <1>3, <1>4, <1>5, <1>6, <1>7, <1>8, StepKinds
(* A registry that its free finds idle has no thread inside.               *)
LEMMA IdleIsUnused ==
  ASSUME NativeInv, QueueExact, CountsExact, NEW p \in Processes, RegistryIdle(p),
         NEW t \in Threads, Home[t] = p
  PROVE  pc[t] = "idle"
<1>1. pc[t] \notin InQueue
  BY DEF QueueExact, RegistryIdle
<1>2. Sharing(p) = {} /\ Cleaning(p) = {}
  BY FS_EmptySet DEF CountsExact, RegistryIdle
<1>3. Writers(p) = {}
  BY DEF CountsExact, RegistryIdle
<1>4. /\ pc[t] \in Place /\ mode[t] \in {"SH", "EX"}
      /\ pc[t] = "unlock_turn" => mode[t] = "EX"
  BY DEF NativeInv, NativeTypes, CountsExact
<1>5. pc[t] \notin {"held", "settle", "unlock_turn", "cleanup"}
  BY <1>2, <1>3, <1>4 DEF Sharing, Cleaning, Writers
<1> QED
  BY <1>1, <1>4, <1>5 DEF Place, InQueue, Releasing

LEMMA FreedStep ==
  ASSUME NativeInv, RegistryInv, [Next]_vars
  PROVE  FreedUnused'
<1> USE DEF RestSame, registryVars, countVars
<1>0. /\ pc \in [Threads -> Place] /\ freed \subseteq Processes
      /\ \A t \in Threads : Home[t] \in freed => pc[t] = "idle"
  BY DEF NativeInv, NativeTypes, RegistryInv, FreedUnused
<1>1. CASE NoStep
  BY <1>0, <1>1 DEF NoStep, FreedUnused
<1>2. ASSUME NEW t \in Threads,
             \/ Moves(t) \/ Leaves(t) \/ QueueAttempt(t) \/ Grant(t)
             \/ AbortAttempt(t) \/ SettleLease(t) \/ EndCleanup(t)
             \/ \E m \in {"SH", "EX"}, tryOnce \in BOOLEAN : Begin(t, m, tryOnce)
      PROVE  FreedUnused'
  <2>1. Home[t] \notin freed
    BY <1>0, <1>2 DEF Moves, Leaves, QueueAttempt, Grant, AbortAttempt, SettleLease,
       EndCleanup, Begin, At, Attempting, Waiting
  <2>2. UNCHANGED freed
    BY <1>2 DEF Moves, Leaves, QueueAttempt, Grant, AbortAttempt, SettleLease, EndCleanup, Begin
  <2>3. \A u \in Threads : u # t => pc'[u] = pc[u]
    BY <1>0, <1>2 DEF Moves, Leaves, QueueAttempt, Grant, AbortAttempt, SettleLease,
       EndCleanup, Begin, Goto
  <2> QED
    BY <1>0, <2>1, <2>2, <2>3 DEF FreedUnused
<1>3. ASSUME NEW p \in Processes, RegistryFree(p)
      PROVE  FreedUnused'
  <2>1. RegistryIdle(p) /\ freed' = freed \cup {p} /\ UNCHANGED pc
    BY <1>3 DEF RegistryFree
  <2>2. \A t \in Threads : Home[t] = p => pc[t] = "idle"
    BY <2>1, IdleIsUnused DEF RegistryInv
  <2> QED
    BY <1>0, <2>1, <2>2 DEF FreedUnused
<1>4. ASSUME NEW p \in Processes, Crash(p)
      PROVE  FreedUnused'
  BY <1>0, <1>4 DEF Crash, FreedUnused
<1> QED
  BY <1>1, <1>2, <1>3, <1>4, StepKinds

LEMMA RegistryInit == Init => RegistryInv
<1> SUFFICES ASSUME Init PROVE RegistryInv
  OBVIOUS
<1>1. QueueExact
  BY DEF Init, QueueExact, InQueue, Waiting
<1>2. AttemptExact
  BY RegistryAssumption DEF Init, AttemptExact, Attempting, Waiting
<1>3. CountsExact
  <2>1. \A p \in Processes : Sharing(p) = {} /\ Writers(p) = {} /\ Cleaning(p) = {}
    BY DEF Init, Sharing, Writers, Cleaning
  <2> QED
    BY <2>1, FS_EmptySet DEF Init, CountsExact
<1>4. FreedUnused
  BY DEF Init, FreedUnused
<1> QED
  BY <1>1, <1>2, <1>3, <1>4 DEF RegistryInv

-----------------------------------------------------------------------------
(* Queues, attempts, counters and freed registries are exact in every      *)
(* state, whatever acquisitions, cancellations, failed operations, deaths  *)
(* and frees come in what order.                                           *)
THEOREM RegistryInvariance == Spec => []RegistryInv
<1>1. Init => RegistryInv
  BY RegistryInit
<1>2. NativeInv /\ RegistryInv /\ [Next]_vars => RegistryInv'
  BY QueueStep, AttemptStep, CountsStep, FreedStep DEF RegistryInv
<1> QED
  BY <1>1, <1>2, NativeInvariance, PTL DEF Spec

(* Every variable of the registry keeps its type; a thread sleeps only     *)
(* while it is queued or ready.                                            *)
THEOREM TypeCorrect == Spec => []TypeOK
<1>1. NativeInv /\ RegistryInv => TypeOK
  BY DEF NativeInv, NativeTypes, RegistryInv, QueueExact, AttemptExact, CountsExact,
     FreedUnused, TypeOK
<1> QED
  BY <1>1, NativeInvariance, RegistryInvariance, PTL

(* An attempt under way is that of the first waiter of its process, also   *)
(* while others leave the queue: acquire never meets its branch for a lost *)
(* attempt.                                                                *)
THEOREM FirstIsAlwaysServed == Spec => []FirstComeFirstServed
<1>1. RegistryInv => FirstComeFirstServed
  <2> SUFFICES ASSUME RegistryInv, NEW t \in Threads, pc[t] \in Waiting \ {"queued"}
               PROVE  attempt[Home[t]] = t /\ Head(queue[Home[t]]) = t
    BY DEF FirstComeFirstServed
  <2>1. attempt[Home[t]] = t /\ queue[Home[t]][1] = t
    BY DEF RegistryInv, AttemptExact, Attempting
  <2>2. queue[Home[t]] \in Seq(Threads) /\ DOMAIN queue[Home[t]] # {}
    BY RegistryAssumption DEF RegistryInv, QueueExact, InQueue
  <2> QED
    BY <2>1, <2>2, SeqFacts
<1> QED
  BY <1>1, RegistryInvariance, PTL

(* An answer without a lease leaves no waiter, no attempt and no native    *)
(* lock; the counts of registry_free are right, and a registry is freed    *)
(* only when no thread is inside it.                                       *)
THEOREM NothingIsLeftBehind == Spec => []NothingLeftBehind
<1>1. NativeInv /\ RegistryInv => NothingLeftBehind
  <2> SUFFICES ASSUME NativeInv, RegistryInv PROVE NothingLeftBehind
    OBVIOUS
  <2>1. ASSUME NEW t \in Threads, pc[t] = "idle"
        PROVE  /\ ~HoldsNative(t)
               /\ attempt[Home[t]] # t
               /\ \A i \in DOMAIN queue[Home[t]] : queue[Home[t]][i] # t
    <3>1. ~HoldsNative(t)
      BY <2>1 DEF NativeInv, NativeLayout
    <3>2. attempt[Home[t]] # t
      BY <2>1 DEF RegistryInv, AttemptExact, Attempting, Waiting
    <3>3. \A i \in DOMAIN queue[Home[t]] : queue[Home[t]][i] # t
      BY <2>1, RegistryAssumption DEF RegistryInv, QueueExact, InQueue, Waiting
    <3> QED
      BY <3>1, <3>2, <3>3
  <2>2. \A p \in Processes :
          pending[p] = Cardinality({t \in Threads : Home[t] = p /\ pc[t] = "cleanup"})
    BY DEF RegistryInv, CountsExact, Cleaning
  <2>3. \A t \in Threads : Home[t] \in freed => pc[t] = "idle"
    BY DEF RegistryInv, FreedUnused
  <2> QED
    BY <2>1, <2>2, <2>3 DEF NothingLeftBehind
<1> QED
  BY <1>1, NativeInvariance, RegistryInvariance, PTL
=============================================================================
