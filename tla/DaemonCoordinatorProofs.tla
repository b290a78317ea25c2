---------------------- MODULE DaemonCoordinatorProofs ----------------------
(***************************************************************************)
(* Proofs about DaemonCoordinator for any projects, threads and limits:    *)
(* subscriptions and the work they keep alive stay exact, an object is     *)
(* freed once and by whoever sees it last, and a coordinator that lets the *)
(* daemon exit has nothing left to do.                                     *)
(***************************************************************************)
EXTENDS DaemonCoordinator, FiniteSetTheorems, TLAPS

(* Ids that were not issued yet name no object and no subscription.        *)
IdsIssued ==
  /\ \A s \in jobSubs \cup watchSubs : s.id <= lastSubscriptionId
  /\ \A o \in SubscriptionId : o > lastSubscriptionId =>
       jobs[o].place = "unused" /\ watches[o].place = "unused"

(* The subscriptions of the coordinator and the ids they draw on.          *)
Exact == IdsIssued /\ SubscriptionsExact

(* Some thread owes this hook for this object.                             *)
Due(hook, o) == \E p \in pending : p.hook = hook /\ p.object = o

(* A job whose cancel hook is owed has been cancelled and is not freed.    *)
CancelOwed ==
  \A o \in SubscriptionId :
    /\ jobs[o].inflight <=> Due("cancel_job", o)
    /\ jobs[o].inflight => /\ jobs[o].place \in {"listed", "detached"}
                           /\ jobs[o].state # "RUNNING"
    /\ jobs[o].place = "detached" => jobs[o].inflight

(* The released watches are those whose release hook is owed.              *)
ReleaseOwed ==
  \A o \in SubscriptionId : watches[o].place = "released" <=> Due("release_watch", o)

(* A hook is owed at most once for an object, and the debts are counted.   *)
OwedOnce ==
  /\ \A p, q \in pending : p.hook = q.hook /\ p.object = q.object => p = q
  /\ IsFiniteSet(pending)
  /\ CallbackAccounting

(* The hooks that are owed, and what they are owed for.                    *)
Hooked == CancelOwed /\ ReleaseOwed /\ OwedOnce

IInv == TypeOK /\ Exact /\ Hooked
-----------------------------------------------------------------------------
(* What a thread is made to owe, and that there are finitely many of them. *)
LEMMA OwedHooks ==
  ASSUME NEW t \in Threads, NEW hook \in {"cancel_job", "release_watch"},
         NEW orphans \in SUBSET SubscriptionId
  PROVE  /\ Owed(t, hook, orphans) \subseteq Callback
         /\ IsFiniteSet(Owed(t, hook, orphans))
         /\ \A p \in Owed(t, hook, orphans) : p.hook = hook /\ p.object \in orphans
         /\ \A p, q \in Owed(t, hook, orphans) : p.object = q.object => p = q
         /\ hook \in hooks =>
              \A o \in orphans : \E p \in Owed(t, hook, orphans) : p.object = o
         /\ hook \notin hooks => Owed(t, hook, orphans) = {}
<1> DEFINE call(o) == [thread |-> t, hook |-> hook, object |-> o, stage |-> "queued"]
           calls == {call(o) : o \in orphans}
<1>1. IsFiniteSet(orphans)
  <2>1. IsFiniteSet(1 .. MaxSubscriptionId)
    BY CoordinatorAssumption, FS_Interval
  <2> QED
    BY <2>1, FS_Subset DEF SubscriptionId
<1>2. Owed(t, hook, orphans) = IF hook \in hooks THEN calls ELSE {}
  <2> DEFINE records == [thread : {t}, hook : {hook}, object : orphans, stage : {"queued"}]
  <2>1. ASSUME NEW r \in records PROVE r = call(r.object) /\ r.object \in orphans
    OBVIOUS
  <2>2. ASSUME NEW o \in orphans PROVE call(o) \in records
    OBVIOUS
  <2>3. records = calls
    BY <2>1, <2>2
  <2> QED
    BY <2>3 DEF Owed
<1>3. IsFiniteSet(calls)
  <2>1. [o \in orphans |-> call(o)] \in Surjection(orphans, calls)
    BY DEF Surjection
  <2> QED
    BY <1>1, <2>1, FS_Surjection
<1>4. IsFiniteSet(Owed(t, hook, orphans))
  BY <1>2, <1>3, FS_EmptySet
<1>5. calls \subseteq Callback
  BY DEF Callback
<1>6. Owed(t, hook, orphans) \subseteq calls
  BY <1>2
<1>7. \A p \in calls : p.hook = hook /\ p = call(p.object) /\ p.object \in orphans
  OBVIOUS
<1>8. hook \in hooks => \A o \in orphans : \E p \in Owed(t, hook, orphans) : p.object = o
  <2>1. \A o \in orphans : call(o) \in calls /\ call(o).object = o
    OBVIOUS
  <2> HIDE DEF call, calls
  <2> QED
    BY <1>2, <2>1
<1>9. \A p, q \in Owed(t, hook, orphans) : p.object = q.object => p = q
  BY <1>6, <1>7
<1>10. hook \notin hooks => Owed(t, hook, orphans) = {}
  BY <1>2
<1>11. \A p \in Owed(t, hook, orphans) : p.hook = hook /\ p.object \in orphans
  BY <1>6, <1>7
<1>12. Owed(t, hook, orphans) \subseteq Callback
  BY <1>5, <1>6
<1> QED
  BY <1>4, <1>8, <1>9, <1>10, <1>11, <1>12

(* TypeOK holds initially.                                                 *)
LEMMA TypeInit == Init => TypeOK
<1> SUFFICES ASSUME Init
             PROVE  TypeOK
  OBVIOUS
<1>1. NoJob \in Job /\ NoWatch \in Watch
  BY DEF NoJob, NoWatch, Job, Watch
<1>2. jobs \in [SubscriptionId -> Job] /\ watches \in [SubscriptionId -> Watch]
  BY <1>1 DEF Init
<1>3. heartbeat \in [ClientId -> Clock]
  BY CoordinatorAssumption DEF Init, Clock
<1>4. lastClientId \in 0 .. MaxClientId /\ lastSubscriptionId \in 0 .. MaxSubscriptionId
  BY CoordinatorAssumption DEF Init
<1> QED
  BY <1>2, <1>3, <1>4 DEF Init, TypeOK

(* What request_job_cancel_locked does to each job.                        *)
LEMMA CancelledJobs ==
  ASSUME TypeOK, NEW orphans, RequestJobCancel(orphans)
  PROVE  /\ jobs' \in [SubscriptionId -> Job]
         /\ \A o \in SubscriptionId :
              /\ jobs'[o].place = jobs[o].place /\ jobs'[o].key = jobs[o].key
              /\ o \in orphans => /\ jobs'[o].state = "CANCEL_REQUESTED"
                                  /\ jobs'[o].inflight = ("cancel_job" \in hooks)
              /\ o \notin orphans => jobs'[o] = jobs[o]
<1>1. \A r \in Job, b \in BOOLEAN :
        LET q == [r EXCEPT !.state = "CANCEL_REQUESTED", !.inflight = b]
        IN  /\ q \in Job /\ q.place = r.place /\ q.key = r.key
            /\ q.state = "CANCEL_REQUESTED" /\ q.inflight = b
  BY DEF Job
<1>2. \A o \in SubscriptionId : jobs[o] \in Job
  BY DEF TypeOK
<1> DEFINE b == "cancel_job" \in hooks
<1>3. b \in BOOLEAN
  OBVIOUS
<1>4. jobs' = [o \in SubscriptionId |->
                 IF o \in orphans
                   THEN [jobs[o] EXCEPT !.state = "CANCEL_REQUESTED", !.inflight = b]
                   ELSE jobs[o]]
  BY DEF RequestJobCancel
<1> HIDE DEF b
<1>5. /\ jobs' \in [SubscriptionId -> Job]
      /\ \A o \in SubscriptionId :
           /\ jobs'[o].place = jobs[o].place /\ jobs'[o].key = jobs[o].key
           /\ o \in orphans => jobs'[o].state = "CANCEL_REQUESTED" /\ jobs'[o].inflight = b
           /\ o \notin orphans => jobs'[o] = jobs[o]
  BY <1>1, <1>2, <1>3, <1>4
<1> QED
  BY <1>5 DEF b

(* What queue_watch_release_locked does to each watch.                     *)
LEMMA ReleasedWatches ==
  ASSUME TypeOK, NEW orphans, QueueWatchRelease(orphans)
  PROVE  /\ watches' \in [SubscriptionId -> Watch]
         /\ \A o \in SubscriptionId :
              /\ watches'[o].key = watches[o].key
              /\ o \in orphans => watches'[o].place =
                                    IF "release_watch" \in hooks THEN "released" ELSE "freed"
              /\ o \notin orphans => watches'[o] = watches[o]
<1>1. \A r \in Watch, w \in {"released", "freed"} :
        LET q == [r EXCEPT !.place = w]
        IN  q \in Watch /\ q.key = r.key /\ q.place = w
  BY DEF Watch
<1>2. \A o \in SubscriptionId : watches[o] \in Watch
  BY DEF TypeOK
<1> DEFINE w == IF "release_watch" \in hooks THEN "released" ELSE "freed"
<1>3. w \in {"released", "freed"}
  OBVIOUS
<1>4. watches' = [o \in SubscriptionId |->
                    IF o \in orphans THEN [watches[o] EXCEPT !.place = w] ELSE watches[o]]
  BY DEF QueueWatchRelease
<1> HIDE DEF w
<1>5. /\ watches' \in [SubscriptionId -> Watch]
      /\ \A o \in SubscriptionId :
           /\ watches'[o].key = watches[o].key
           /\ o \in orphans => watches'[o].place = w
           /\ o \notin orphans => watches'[o] = watches[o]
  BY <1>1, <1>2, <1>3, <1>4
<1> QED
  BY <1>5 DEF w

(* What a thread owes after it left the mutex with a batch.                *)
LEMMA QueuedCallbacks ==
  ASSUME TypeOK, Hooked, NEW t \in Threads,
         NEW oj \in SUBSET SubscriptionId, NEW ow \in SUBSET SubscriptionId,
         QueueCallbacks(t, oj, ow),
         \A o \in oj : ~Due("cancel_job", o), \A o \in ow : ~Due("release_watch", o)
  PROVE  /\ pending' \subseteq Callback /\ OwedOnce'
         /\ \A o \in SubscriptionId :
              /\ Due("cancel_job", o)' <=>
                   Due("cancel_job", o) \/ (o \in oj /\ "cancel_job" \in hooks)
              /\ Due("release_watch", o)' <=>
                   Due("release_watch", o) \/ (o \in ow /\ "release_watch" \in hooks)
<1> DEFINE J == Owed(t, "cancel_job", oj)
           W == Owed(t, "release_watch", ow)
<1>1. /\ pending' = pending \cup (J \cup W)
      /\ callbackCount' = callbackCount + Cardinality(J \cup W)
  BY DEF QueueCallbacks
<1>2. /\ J \subseteq Callback /\ IsFiniteSet(J)
      /\ \A p \in J : p.hook = "cancel_job" /\ p.object \in oj
      /\ \A p, q \in J : p.object = q.object => p = q
      /\ "cancel_job" \in hooks => \A o \in oj : \E p \in J : p.object = o
      /\ "cancel_job" \notin hooks => J = {}
  BY OwedHooks
<1>3. /\ W \subseteq Callback /\ IsFiniteSet(W)
      /\ \A p \in W : p.hook = "release_watch" /\ p.object \in ow
      /\ \A p, q \in W : p.object = q.object => p = q
      /\ "release_watch" \in hooks => \A o \in ow : \E p \in W : p.object = o
      /\ "release_watch" \notin hooks => W = {}
  BY OwedHooks
<1> HIDE DEF J, W
<1>4. IsFiniteSet(J \cup W)
  BY <1>2, <1>3, FS_Union
<1>5. pending \cap (J \cup W) = {}
  BY <1>2, <1>3 DEF Due
<1>6. IsFiniteSet(pending')
  BY <1>1, <1>4, FS_Union DEF Hooked, OwedOnce
<1>7. CallbackAccounting'
  <2>1. Cardinality(pending') =
          Cardinality(pending) + Cardinality(J \cup W) - Cardinality(pending \cap (J \cup W))
    BY <1>1, <1>4, FS_Union DEF Hooked, OwedOnce
  <2>2. Cardinality(pending \cap (J \cup W)) = 0
    BY <1>5, FS_EmptySet
  <2>3. Cardinality(pending) \in Nat /\ Cardinality(J \cup W) \in Nat
    BY <1>4, FS_CardinalityType DEF Hooked, OwedOnce
  <2> QED
    BY <1>1, <2>1, <2>2, <2>3 DEF Hooked, OwedOnce, CallbackAccounting
<1>8. \A p, q \in pending' : p.hook = q.hook /\ p.object = q.object => p = q
  BY <1>1, <1>2, <1>3 DEF Hooked, OwedOnce, Due
<1>9. \A o \in SubscriptionId :
        Due("cancel_job", o)' <=> Due("cancel_job", o) \/ (o \in oj /\ "cancel_job" \in hooks)
  BY <1>1, <1>2, <1>3 DEF Due
<1>10. \A o \in SubscriptionId :
        Due("release_watch", o)' <=>
          Due("release_watch", o) \/ (o \in ow /\ "release_watch" \in hooks)
  BY <1>1, <1>2, <1>3 DEF Due
<1> QED
  BY <1>1, <1>2, <1>3, <1>6, <1>7, <1>8, <1>9, <1>10 DEF OwedOnce, TypeOK

(* A batch for cancelled jobs and released watches is a batch of new debts.*)
LEMMA BatchIsNew ==
  ASSUME IInv, NEW t \in Threads,
         NEW oj \in SUBSET Listed(jobs), NEW ow \in SUBSET Listed(watches),
         \A o \in oj : jobs[o].state = "RUNNING",
         RequestJobCancel(oj), QueueWatchRelease(ow), QueueCallbacks(t, oj, ow)
  PROVE  Hooked' /\ pending' \subseteq Callback
<1>1. oj \in SUBSET SubscriptionId /\ ow \in SUBSET SubscriptionId
  BY DEF Listed
<1>2. \A o \in oj : ~Due("cancel_job", o)
  BY <1>1 DEF IInv, Hooked, CancelOwed
<1>3. \A o \in ow : ~Due("release_watch", o)
  BY <1>1 DEF IInv, Hooked, ReleaseOwed, Listed
<1>4. /\ pending' \subseteq Callback /\ OwedOnce'
      /\ \A o \in SubscriptionId :
           /\ Due("cancel_job", o)' <=>
                Due("cancel_job", o) \/ (o \in oj /\ "cancel_job" \in hooks)
           /\ Due("release_watch", o)' <=>
                Due("release_watch", o) \/ (o \in ow /\ "release_watch" \in hooks)
  BY <1>1, <1>2, <1>3, QueuedCallbacks DEF IInv
<1>5. CancelOwed'
  <2> SUFFICES ASSUME NEW o \in SubscriptionId
               PROVE  /\ jobs'[o].inflight <=> Due("cancel_job", o)'
                      /\ jobs'[o].inflight => /\ jobs'[o].place \in {"listed", "detached"}
                                             /\ jobs'[o].state # "RUNNING"
                      /\ jobs'[o].place = "detached" => jobs'[o].inflight
    BY DEF CancelOwed
  <2>1. /\ jobs'[o].place = jobs[o].place
        /\ o \in oj => /\ jobs'[o].state = "CANCEL_REQUESTED"
                       /\ jobs'[o].inflight = ("cancel_job" \in hooks)
        /\ o \notin oj => jobs'[o] = jobs[o]
    BY CancelledJobs DEF IInv
  <2>2. /\ jobs[o].inflight <=> Due("cancel_job", o)
        /\ jobs[o].inflight => /\ jobs[o].place \in {"listed", "detached"}
                              /\ jobs[o].state # "RUNNING"
        /\ jobs[o].place = "detached" => jobs[o].inflight
    BY DEF IInv, Hooked, CancelOwed
  <2>3. CASE o \in oj
    BY <1>2, <1>4, <2>1, <2>2, <2>3 DEF Listed
  <2>4. CASE o \notin oj
    BY <1>4, <2>1, <2>2, <2>4
  <2> QED
    BY <2>3, <2>4
<1>6. ReleaseOwed'
  <2> SUFFICES ASSUME NEW o \in SubscriptionId
               PROVE  watches'[o].place = "released" <=> Due("release_watch", o)'
    BY DEF ReleaseOwed
  <2>1. /\ o \in ow => watches'[o].place =
                        IF "release_watch" \in hooks THEN "released" ELSE "freed"
        /\ o \notin ow => watches'[o] = watches[o]
    BY ReleasedWatches DEF IInv
  <2>2. watches[o].place = "released" <=> Due("release_watch", o)
    BY DEF IInv, Hooked, ReleaseOwed
  <2> QED
    BY <1>3, <1>4, <2>1, <2>2
<1> QED
  BY <1>4, <1>5, <1>6 DEF Hooked

(* A step that leaves jobs, watches and debts alone disturbs no hook.     *)
LEMMA SameHooked ==
  ASSUME Hooked, UNCHANGED <<jobs, watches, pending, callbackCount>>
  PROVE  Hooked'
  BY DEF Hooked, CancelOwed, ReleaseOwed, OwedOnce, CallbackAccounting, Due

(* Clients that leave make the thread owe a batch.                         *)
LEMMA ReleaseHooked ==
  ASSUME IInv, NEW t \in Threads, NEW gone, ReleaseClients(t, gone)
  PROVE  Hooked' /\ pending' \subseteq Callback
<1> DEFINE oj == Orphaned(Listed(jobs), RemoveClientSubs(jobSubs, gone))
           ow == Unwatched(Listed(watches), RemoveClientSubs(watchSubs, gone))
<1>1. RequestJobCancel(oj) /\ QueueWatchRelease(ow) /\ QueueCallbacks(t, oj, ow)
  BY DEF ReleaseClients
<1>2. /\ oj \in SUBSET Listed(jobs) /\ ow \in SUBSET Listed(watches)
      /\ \A o \in oj : jobs[o].state = "RUNNING"
  BY DEF Orphaned, Unwatched
<1> HIDE DEF oj, ow
<1> QED
  BY <1>1, <1>2, BatchIsNew

(* A terminal report leaves an object to the hook that is owed for it.     *)
LEMMA TerminalHooked ==
  ASSUME IInv, NEW o \in Listed(jobs), TerminalJob(o)
  PROVE  Hooked'
<1>1. /\ jobs' = [jobs EXCEPT ![o].place = PlaceAfterTerminal(o)]
      /\ pending' = pending /\ callbackCount' = callbackCount /\ watches' = watches
      /\ o \in SubscriptionId
  BY DEF TerminalJob, watchVars, callbackVars, Listed
<1>2. /\ jobs'[o].place = PlaceAfterTerminal(o) /\ jobs'[o].state = jobs[o].state
      /\ jobs'[o].inflight = jobs[o].inflight
      /\ \A k \in SubscriptionId \ {o} : jobs'[k] = jobs[k]
  BY <1>1 DEF IInv, TypeOK, Job
<1>3. CancelOwed'
  BY <1>1, <1>2 DEF IInv, Hooked, CancelOwed, Due, PlaceAfterTerminal
<1> QED
  BY <1>1, <1>3 DEF IInv, Hooked, ReleaseOwed, OwedOnce, CallbackAccounting, Due

(* A hook that returned is no longer owed, and nothing else changes.       *)
LEMMA PaidOff ==
  ASSUME Hooked, NEW p \in pending,
         pending' = pending \ {p}, callbackCount' = callbackCount - 1
  PROVE  /\ OwedOnce'
         /\ \A hook, o :
              Due(hook, o)' <=> Due(hook, o) /\ ~(hook = p.hook /\ o = p.object)
<1>1. IsFiniteSet(pending') /\ Cardinality(pending') = Cardinality(pending) - 1
  BY FS_RemoveElement DEF Hooked, OwedOnce
<1>2. OwedOnce'
  BY <1>1 DEF Hooked, OwedOnce, CallbackAccounting
<1>3. \A q \in pending : q # p => ~(q.hook = p.hook /\ q.object = p.object)
  BY DEF Hooked, OwedOnce
<1> QED
  BY <1>2, <1>3 DEF Due

(* Every step keeps the account of hooks.                                  *)
LEMMA HookedStep == IInv /\ [Next]_vars => Hooked'
<1> SUFFICES ASSUME IInv, [Next]_vars
             PROVE  Hooked'
  OBVIOUS
<1> USE DEF IInv
<1>1. ASSUME NEW flag \in BOOLEAN, SetPermanent(flag) PROVE Hooked'
  BY <1>1, SameHooked DEF SetPermanent, callbackVars, jobVars, watchVars
<1>2. ASSUME NEW installed \in SUBSET {"cancel_job", "release_watch"}, SetHooks(installed)
      PROVE  Hooked'
  BY <1>2, SameHooked DEF SetHooks, callbackVars, jobVars, watchVars
<1>3. ASSUME NEW now \in Clock, ClientConnected(now) PROVE Hooked'
  BY <1>3, SameHooked DEF ClientConnected, callbackVars, jobVars, watchVars
<1>4. ASSUME NEW c \in ClientId, NEW now \in Clock, ClientHeartbeat(c, now) PROVE Hooked'
  BY <1>4, SameHooked DEF ClientHeartbeat, callbackVars, jobVars, watchVars
<1>5. ASSUME NEW t \in Threads, NEW c \in ClientId, ClientDisconnected(t, c) PROVE Hooked'
  BY <1>5, ReleaseHooked DEF ClientDisconnected
<1>6. ASSUME NEW t \in Threads, NEW now \in Clock, ExpireLeases(t, now) PROVE Hooked'
  BY <1>6, ReleaseHooked DEF ExpireLeases
<1>7. ASSUME NEW c \in ClientId, NEW key \in ProjectKeys, JobSubscribeStart(c, key)
      PROVE  Hooked'
  <2> DEFINE new == lastSubscriptionId'
  <2>1. /\ new \in SubscriptionId /\ new > lastSubscriptionId
        /\ jobs' = [jobs EXCEPT ![new] = [place |-> "listed", key |-> key,
                                         state |-> "RUNNING", inflight |-> FALSE]]
        /\ pending' = pending /\ callbackCount' = callbackCount /\ watches' = watches
    BY <1>7, CoordinatorAssumption DEF JobSubscribeStart, IssueSubscriptionId, TypeOK,
         SubscriptionId, callbackVars, watchVars
  <2> HIDE DEF new
  <2>2. jobs[new].place = "unused"
    BY <2>1 DEF Exact, IdsIssued
  <2>3. ~Due("cancel_job", new)
    BY <2>1, <2>2 DEF Hooked, CancelOwed
  <2>4. CancelOwed'
    BY <2>1, <2>3 DEF Hooked, CancelOwed, Due, TypeOK
  <2> QED
    BY <2>1, <2>4 DEF Hooked, ReleaseOwed, OwedOnce, CallbackAccounting, Due
<1>8. ASSUME NEW c \in ClientId, NEW key \in ProjectKeys, JobSubscribeJoin(c, key)
      PROVE  Hooked'
  BY <1>8, SameHooked DEF JobSubscribeJoin, callbackVars, jobVars, watchVars
<1>9. ASSUME NEW c \in ClientId, NEW key \in ProjectKeys, WatchSubscribeStart(c, key)
      PROVE  Hooked'
  <2> DEFINE new == lastSubscriptionId'
  <2>1. /\ new \in SubscriptionId /\ new > lastSubscriptionId
        /\ watches' = [watches EXCEPT ![new] = [place |-> "listed", key |-> key]]
        /\ pending' = pending /\ callbackCount' = callbackCount /\ jobs' = jobs
    BY <1>9, CoordinatorAssumption DEF WatchSubscribeStart, IssueSubscriptionId, TypeOK,
         SubscriptionId, callbackVars, jobVars
  <2> HIDE DEF new
  <2>2. watches[new].place = "unused"
    BY <2>1 DEF Exact, IdsIssued
  <2>3. ~Due("release_watch", new)
    BY <2>1, <2>2 DEF Hooked, ReleaseOwed
  <2>4. ReleaseOwed'
    BY <2>1, <2>3 DEF Hooked, ReleaseOwed, Due, TypeOK
  <2> QED
    BY <2>1, <2>4 DEF Hooked, CancelOwed, OwedOnce, CallbackAccounting, Due
<1>10. ASSUME NEW c \in ClientId, NEW key \in ProjectKeys, WatchSubscribeJoin(c, key)
      PROVE  Hooked'
  BY <1>10, SameHooked DEF WatchSubscribeJoin, callbackVars, jobVars, watchVars
<1>11. ASSUME NEW t \in Threads, NEW c \in ClientId, NEW id \in SubscriptionId, JobUnsubscribe(t, c, id)
      PROVE  Hooked'
  <2>1. PICK s \in jobSubs :
          /\ RequestJobCancel(Orphaned({s.object}, jobSubs \ {s}))
          /\ QueueCallbacks(t, Orphaned({s.object}, jobSubs \ {s}), {})
    BY <1>11 DEF JobUnsubscribe
  <2> DEFINE orphans == Orphaned({s.object}, jobSubs \ {s})
  <2>2. orphans \in SUBSET Listed(jobs) /\ \A o \in orphans : jobs[o].state = "RUNNING"
    BY DEF Orphaned, Exact, SubscriptionsExact, NoDanglingSubscription
  <2>3. QueueWatchRelease({})
    BY <1>11 DEF JobUnsubscribe, QueueWatchRelease, watchVars, TypeOK
  <2> QED
    BY <2>1, <2>2, <2>3, BatchIsNew
<1>12. ASSUME NEW t \in Threads, NEW c \in ClientId, NEW id \in SubscriptionId, WatchUnsubscribe(t, c, id)
      PROVE  Hooked'
  <2>1. PICK s \in watchSubs :
          /\ QueueWatchRelease(Unwatched({s.object}, watchSubs \ {s}))
          /\ QueueCallbacks(t, {}, Unwatched({s.object}, watchSubs \ {s}))
    BY <1>12 DEF WatchUnsubscribe
  <2> DEFINE orphans == Unwatched({s.object}, watchSubs \ {s})
  <2>2. orphans \in SUBSET Listed(watches)
    BY DEF Unwatched, Exact, SubscriptionsExact, NoDanglingSubscription
  <2>3. RequestJobCancel({})
    BY <1>12 DEF WatchUnsubscribe, RequestJobCancel, jobVars, TypeOK
  <2> QED
    BY <2>1, <2>2, <2>3, BatchIsNew
<1>13. ASSUME NEW key \in ProjectKeys, JobReaping(key) PROVE Hooked'
  <2>1. PICK o \in SubscriptionId :
          jobs[o].state = "CANCEL_REQUESTED" /\ jobs' = [jobs EXCEPT ![o].state = "REAPING"]
    BY <1>13 DEF JobReaping, JobFor, Listed
  <2>2. /\ jobs[o] \in Job /\ pending' = pending /\ callbackCount' = callbackCount
        /\ watches' = watches
    BY <1>13 DEF JobReaping, callbackVars, watchVars, TypeOK
  <2>3. CancelOwed'
    BY <2>1, <2>2 DEF Hooked, CancelOwed, Due, TypeOK, Job
  <2> QED
    BY <2>2, <2>3 DEF Hooked, ReleaseOwed, OwedOnce, CallbackAccounting, Due
<1>14. ASSUME NEW key \in ProjectKeys, JobReaped(key) PROVE Hooked'
  BY <1>14, TerminalHooked DEF JobReaped, JobFor
<1>15. ASSUME NEW key \in ProjectKeys, JobCompleted(key) PROVE Hooked'
  BY <1>15, TerminalHooked DEF JobCompleted, JobFor
<1>16. ASSUME NEW p \in pending, CallHook(p) PROVE Hooked'
  <2> DEFINE q == [p EXCEPT !.stage = "called"]
  <2>1. q.hook = p.hook /\ q.object = p.object /\ q # p
    BY <1>16 DEF CallHook, TypeOK, Callback
  <2>2. /\ pending' = (pending \ {p}) \cup {q} /\ callbackCount' = callbackCount
        /\ jobs' = jobs /\ watches' = watches
    BY <1>16 DEF CallHook, jobVars, watchVars
  <2> HIDE DEF q
  <2>3. q \notin pending
    BY <2>1 DEF Hooked, OwedOnce
  <2>4. IsFiniteSet(pending') /\ Cardinality(pending') = Cardinality(pending)
    <3>1. IsFiniteSet(pending \ {p}) /\ Cardinality(pending \ {p}) = Cardinality(pending) - 1
      BY FS_RemoveElement DEF Hooked, OwedOnce
    <3>2. /\ IsFiniteSet(pending')
          /\ Cardinality(pending') = Cardinality(pending \ {p}) + 1
      BY <2>2, <2>3, <3>1, FS_AddElement
    <3>3. Cardinality(pending) \in Nat
      BY FS_CardinalityType DEF Hooked, OwedOnce
    <3> QED
      BY <3>1, <3>2, <3>3
  <2>5. OwedOnce'
    BY <2>1, <2>2, <2>4 DEF Hooked, OwedOnce, CallbackAccounting
  <2>6. \A hook, o : Due(hook, o)' <=> Due(hook, o)
    BY <2>1, <2>2 DEF Due
  <2> QED
    BY <2>2, <2>5, <2>6 DEF Hooked, CancelOwed, ReleaseOwed
<1>17. ASSUME NEW p \in pending, FinishCancelJob(p) PROVE Hooked'
  <2>1. /\ pending' = pending \ {p} /\ callbackCount' = callbackCount - 1
        /\ jobs' = [jobs EXCEPT ![p.object].inflight = FALSE,
                               ![p.object].place = PlaceAfterHook(p.object)]
        /\ watches' = watches /\ p.hook = "cancel_job" /\ p.object \in SubscriptionId
    BY <1>17 DEF FinishCancelJob, watchVars, TypeOK, Callback
  <2>2. OwedOnce' /\ \A hook, o : Due(hook, o)' <=> Due(hook, o) /\ ~(hook = p.hook /\ o = p.object)
    BY <2>1, PaidOff
  <2>3. /\ jobs'[p.object].inflight = FALSE
        /\ jobs'[p.object].place = PlaceAfterHook(p.object)
        /\ \A o \in SubscriptionId \ {p.object} : jobs'[o] = jobs[o]
    BY <2>1 DEF TypeOK, Job
  <2>4. ASSUME NEW o \in SubscriptionId
        PROVE  /\ jobs'[o].inflight <=> Due("cancel_job", o)'
               /\ jobs'[o].inflight => /\ jobs'[o].place \in {"listed", "detached"}
                                      /\ jobs'[o].state # "RUNNING"
               /\ jobs'[o].place = "detached" => jobs'[o].inflight
    <3>1. CASE o = p.object
      <4>1. ~Due("cancel_job", o)'
        BY <2>1, <2>2, <3>1
      <4>2. jobs'[o].place # "detached"
        BY <2>3, <3>1 DEF PlaceAfterHook
      <4> QED
        BY <2>3, <3>1, <4>1, <4>2
    <3>2. CASE o # p.object
      <4>1. Due("cancel_job", o)' <=> Due("cancel_job", o)
        BY <2>2, <3>2
      <4> QED
        BY <2>3, <3>2, <4>1 DEF Hooked, CancelOwed
    <3> QED
      BY <3>1, <3>2
  <2>5. CancelOwed'
    BY <2>4 DEF CancelOwed
  <2> QED
    BY <2>1, <2>2, <2>5 DEF Hooked, ReleaseOwed
<1>18. ASSUME NEW p \in pending, FinishReleaseWatch(p) PROVE Hooked'
  <2>1. /\ pending' = pending \ {p} /\ callbackCount' = callbackCount - 1
        /\ watches' = [watches EXCEPT ![p.object].place = "freed"]
        /\ jobs' = jobs /\ p.hook = "release_watch" /\ p.object \in SubscriptionId
    BY <1>18 DEF FinishReleaseWatch, jobVars, TypeOK, Callback
  <2>2. OwedOnce' /\ \A hook, o : Due(hook, o)' <=> Due(hook, o) /\ ~(hook = p.hook /\ o = p.object)
    BY <2>1, PaidOff
  <2>3. /\ watches'[p.object].place = "freed"
        /\ \A o \in SubscriptionId \ {p.object} : watches'[o] = watches[o]
    BY <2>1 DEF TypeOK, Watch
  <2>4. ReleaseOwed'
    BY <2>1, <2>2, <2>3 DEF Hooked, ReleaseOwed
  <2> QED
    BY <2>1, <2>2, <2>4 DEF Hooked, CancelOwed
<1>19. CASE CoordinatorFree
  <2>1. pending = {}
    BY <1>19 DEF CoordinatorFree, Idle, TypeOK, Callback
  <2>2. /\ pending' = pending /\ callbackCount' = callbackCount
        /\ jobs' = [o \in SubscriptionId |->
                     IF o \in Listed(jobs) THEN [jobs[o] EXCEPT !.place = "freed"] ELSE jobs[o]]
        /\ watches' = [o \in SubscriptionId |->
                         IF o \in Listed(watches) THEN [watches[o] EXCEPT !.place = "freed"]
                                                  ELSE watches[o]]
    BY <1>19 DEF CoordinatorFree, callbackVars
  <2>3. \A o \in SubscriptionId :
          /\ jobs'[o].inflight = jobs[o].inflight
          /\ jobs'[o].place = "detached" => jobs[o].place = "detached"
          /\ watches'[o].place = "released" <=> watches[o].place = "released"
    BY <2>2 DEF TypeOK, Job, Watch, Listed
  <2> QED
    BY <2>1, <2>2, <2>3 DEF Hooked, CancelOwed, ReleaseOwed, OwedOnce, CallbackAccounting, Due
<1>20. CASE UNCHANGED vars
  BY <1>20, SameHooked DEF vars, callbackVars, jobVars, watchVars
<1> QED
  BY <1>1, <1>2, <1>3, <1>4, <1>5, <1>6, <1>7, <1>8, <1>9, <1>10, <1>11,
     <1>12, <1>13, <1>14, <1>15, <1>16, <1>17, <1>18, <1>19, <1>20 DEF Next

(* Steps that leave the hooks' account in Nat.                          *)
LEMMA CountedDebts == Hooked' => callbackCount' \in Nat
  BY FS_CardinalityType DEF Hooked, OwedOnce, CallbackAccounting

(* A batch consists of hooks that a thread owes for objects.               *)
LEMMA BatchTypes ==
  ASSUME TypeOK, NEW t \in Threads,
         NEW oj \in SUBSET SubscriptionId, NEW ow \in SUBSET SubscriptionId,
         QueueCallbacks(t, oj, ow)
  PROVE  pending' \subseteq Callback
  BY OwedHooks DEF QueueCallbacks, TypeOK

(* Clients that leave keep the types.                                      *)
LEMMA ReleaseTypes ==
  ASSUME IInv, Hooked', NEW t \in Threads, NEW gone,
         ReleaseClients(t, gone), UNCHANGED <<setupVars, idVars>>
  PROVE  TypeOK'
<1> DEFINE oj == Orphaned(Listed(jobs), RemoveClientSubs(jobSubs, gone))
           ow == Unwatched(Listed(watches), RemoveClientSubs(watchSubs, gone))
<1>1. RequestJobCancel(oj) /\ QueueWatchRelease(ow)
  BY DEF ReleaseClients
<1> HIDE DEF oj, ow
<1>2. jobs' \in [SubscriptionId -> Job] /\ watches' \in [SubscriptionId -> Watch]
  BY <1>1, CancelledJobs, ReleasedWatches DEF IInv
<1>3. pending' \subseteq Callback
  BY ReleaseHooked
<1>4. callbackCount' \in Nat
  BY CountedDebts
<1>5. heartbeat' \in [ClientId -> Clock]
  BY CoordinatorAssumption DEF ReleaseClients, IInv, TypeOK, Clock
<1>6. /\ jobSubs' \subseteq jobSubs /\ watchSubs' \subseteq watchSubs
      /\ clients' \subseteq clients /\ state' \in {state, "STOPPING"}
  BY DEF ReleaseClients, RemoveClientSubs
<1> QED
  BY <1>2, <1>3, <1>4, <1>5, <1>6 DEF IInv, TypeOK, setupVars, idVars

(* A terminal report keeps the types.                                      *)
LEMMA TerminalTypes ==
  ASSUME TypeOK, NEW o \in Listed(jobs), TerminalJob(o)
  PROVE  TypeOK'
<1>1. PlaceAfterTerminal(o) \in {"detached", "freed"} /\ o \in SubscriptionId
  BY DEF PlaceAfterTerminal, Listed
<1>2. \A r \in Job, w \in {"detached", "freed"} : [r EXCEPT !.place = w] \in Job
  BY DEF Job
<1>3. jobs' = [jobs EXCEPT ![o] = [@ EXCEPT !.place = PlaceAfterTerminal(o)]]
  BY DEF TerminalJob
<1>4. jobs' \in [SubscriptionId -> Job]
  BY <1>1, <1>2, <1>3 DEF TypeOK
<1> QED
  BY <1>4 DEF TypeOK, TerminalJob, setupVars, clientVars, idVars, watchVars, callbackVars

(* A subscription gets the next id.                                        *)
LEMMA NextId ==
  ASSUME TypeOK, IssueSubscriptionId
  PROVE  /\ lastSubscriptionId' = lastSubscriptionId + 1
         /\ lastSubscriptionId' \in SubscriptionId
         /\ lastSubscriptionId' \in 0 .. MaxSubscriptionId
  BY CoordinatorAssumption DEF TypeOK, IssueSubscriptionId, SubscriptionId

(* Every step keeps the types; the account of hooks keeps the count from   *)
(* falling below zero.                                                     *)
LEMMA TypeStep == IInv /\ Hooked' /\ [Next]_vars => TypeOK'
<1> SUFFICES ASSUME IInv, Hooked', [Next]_vars
             PROVE  TypeOK'
  OBVIOUS
<1> USE CountedDebts
      DEF IInv, TypeOK, setupVars, clientVars, idVars, jobVars, watchVars, callbackVars
<1>1. ASSUME NEW flag \in BOOLEAN, SetPermanent(flag) PROVE TypeOK'
  BY <1>1 DEF SetPermanent
<1>2. ASSUME NEW installed \in SUBSET {"cancel_job", "release_watch"}, SetHooks(installed)
      PROVE  TypeOK'
  BY <1>2 DEF SetHooks
<1>3. ASSUME NEW now \in Clock, ClientConnected(now) PROVE TypeOK'
  <2>1. lastClientId' \in ClientId /\ lastClientId' = lastClientId + 1
    BY <1>3, CoordinatorAssumption DEF ClientConnected, IssueClientId, ClientId
  <2>2. heartbeat' \in [ClientId -> Clock]
    BY <1>3, <2>1 DEF ClientConnected
  <2>3. clients' \subseteq 1 .. lastClientId' /\ lastClientId' \in 0 .. MaxClientId
    BY <1>3, <2>1, CoordinatorAssumption DEF ClientConnected, ClientId
  <2> QED
    BY <1>3, <2>2, <2>3 DEF ClientConnected
<1>4. ASSUME NEW c \in ClientId, NEW now \in Clock, ClientHeartbeat(c, now) PROVE TypeOK'
  BY <1>4 DEF ClientHeartbeat
<1>5. ASSUME NEW t \in Threads, NEW c \in ClientId, ClientDisconnected(t, c) PROVE TypeOK'
  <2>1. ReleaseClients(t, {c}) /\ UNCHANGED <<setupVars, idVars>>
    BY <1>5 DEF ClientDisconnected
  <2> QED
    BY <2>1, ReleaseTypes
<1>6. ASSUME NEW t \in Threads, NEW now \in Clock, ExpireLeases(t, now) PROVE TypeOK'
  <2>1. ReleaseClients(t, {c \in clients : LeaseExpired(c, now)}) /\ UNCHANGED <<setupVars, idVars>>
    BY <1>6 DEF ExpireLeases
  <2> QED
    BY <2>1, ReleaseTypes
<1>7. ASSUME NEW c \in ClientId, NEW key \in ProjectKeys, JobSubscribeStart(c, key)
      PROVE  TypeOK'
  <2> DEFINE new == lastSubscriptionId'
             fresh == [place |-> "listed", key |-> key, state |-> "RUNNING", inflight |-> FALSE]
             sub == [id |-> new, client |-> c, object |-> new]
  <2>1. /\ new \in SubscriptionId
        /\ jobs' = [jobs EXCEPT ![new] = fresh] /\ jobSubs' = jobSubs \cup {sub}
    BY <1>7, NextId DEF JobSubscribeStart
  <2>2. fresh \in Job
    BY DEF Job
  <2>3. sub \in Subscription
    BY <2>1 DEF Subscription
  <2> HIDE DEF fresh, sub
  <2>4. jobs' \in [SubscriptionId -> Job] /\ jobSubs' \subseteq Subscription
    BY <2>1, <2>2, <2>3
  <2> QED
    BY <1>7, <2>4, NextId DEF JobSubscribeStart
<1>8. ASSUME NEW c \in ClientId, NEW key \in ProjectKeys, JobSubscribeJoin(c, key)
      PROVE  TypeOK'
  <2>1. PICK o \in SubscriptionId :
          jobSubs' = jobSubs \cup {[id |-> lastSubscriptionId', client |-> c, object |-> o]}
    BY <1>8 DEF JobSubscribeJoin, JobFor, Listed
  <2>2. lastSubscriptionId' \in SubscriptionId
    BY <1>8, NextId DEF JobSubscribeJoin
  <2>3. jobSubs' \subseteq Subscription
    BY <2>1, <2>2 DEF Subscription
  <2> QED
    BY <1>8, <2>3, NextId DEF JobSubscribeJoin
<1>9. ASSUME NEW c \in ClientId, NEW key \in ProjectKeys, WatchSubscribeStart(c, key)
      PROVE  TypeOK'
  <2> DEFINE new == lastSubscriptionId'
             fresh == [place |-> "listed", key |-> key]
             sub == [id |-> new, client |-> c, object |-> new]
  <2>1. /\ new \in SubscriptionId
        /\ watches' = [watches EXCEPT ![new] = fresh] /\ watchSubs' = watchSubs \cup {sub}
    BY <1>9, NextId DEF WatchSubscribeStart
  <2>2. fresh \in Watch
    BY DEF Watch
  <2>3. sub \in Subscription
    BY <2>1 DEF Subscription
  <2> HIDE DEF fresh, sub
  <2>4. watches' \in [SubscriptionId -> Watch] /\ watchSubs' \subseteq Subscription
    BY <2>1, <2>2, <2>3
  <2> QED
    BY <1>9, <2>4, NextId DEF WatchSubscribeStart
<1>10. ASSUME NEW c \in ClientId, NEW key \in ProjectKeys, WatchSubscribeJoin(c, key)
      PROVE  TypeOK'
  <2>1. PICK o \in SubscriptionId :
          watchSubs' = watchSubs \cup {[id |-> lastSubscriptionId', client |-> c, object |-> o]}
    BY <1>10 DEF WatchSubscribeJoin, WatchFor, Listed
  <2>2. lastSubscriptionId' \in SubscriptionId
    BY <1>10, NextId DEF WatchSubscribeJoin
  <2>3. watchSubs' \subseteq Subscription
    BY <2>1, <2>2 DEF Subscription
  <2> QED
    BY <1>10, <2>3, NextId DEF WatchSubscribeJoin
<1>11. ASSUME NEW t \in Threads, NEW c \in ClientId, NEW id \in SubscriptionId, JobUnsubscribe(t, c, id)
      PROVE  TypeOK'
  <2>1. PICK s \in jobSubs :
          /\ jobSubs' = jobSubs \ {s}
          /\ RequestJobCancel(Orphaned({s.object}, jobSubs \ {s}))
          /\ QueueCallbacks(t, Orphaned({s.object}, jobSubs \ {s}), {})
    BY <1>11 DEF JobUnsubscribe
  <2>2. jobs' \in [SubscriptionId -> Job]
    BY <2>1, CancelledJobs
  <2> DEFINE orphans == Orphaned({s.object}, jobSubs \ {s})
  <2>3. orphans \in SUBSET SubscriptionId /\ {} \in SUBSET SubscriptionId
    BY DEF Orphaned, Subscription
  <2>4. pending' \subseteq Callback
    <3>1. QueueCallbacks(t, orphans, {})
      BY <2>1
    <3> HIDE DEF orphans, TypeOK
    <3> QED
      BY <2>3, <3>1, BatchTypes
  <2>5. UNCHANGED <<setupVars, clientVars, idVars, watchVars>>
    BY <1>11 DEF JobUnsubscribe
  <2> QED
    BY <2>1, <2>2, <2>4, <2>5
<1>12. ASSUME NEW t \in Threads, NEW c \in ClientId, NEW id \in SubscriptionId, WatchUnsubscribe(t, c, id)
      PROVE  TypeOK'
  <2>1. PICK s \in watchSubs :
          /\ watchSubs' = watchSubs \ {s}
          /\ QueueWatchRelease(Unwatched({s.object}, watchSubs \ {s}))
          /\ QueueCallbacks(t, {}, Unwatched({s.object}, watchSubs \ {s}))
    BY <1>12 DEF WatchUnsubscribe
  <2>2. watches' \in [SubscriptionId -> Watch]
    BY <2>1, ReleasedWatches
  <2> DEFINE orphans == Unwatched({s.object}, watchSubs \ {s})
  <2>3. orphans \in SUBSET SubscriptionId /\ {} \in SUBSET SubscriptionId
    BY DEF Unwatched, Subscription
  <2>4. pending' \subseteq Callback
    <3>1. QueueCallbacks(t, {}, orphans)
      BY <2>1
    <3> HIDE DEF orphans, TypeOK
    <3> QED
      BY <2>3, <3>1, BatchTypes
  <2>5. UNCHANGED <<setupVars, clientVars, idVars, jobVars>>
    BY <1>12 DEF WatchUnsubscribe
  <2> QED
    BY <2>1, <2>2, <2>4, <2>5
<1>13. ASSUME NEW key \in ProjectKeys, JobReaping(key) PROVE TypeOK'
  <2>1. PICK o \in SubscriptionId : jobs' = [jobs EXCEPT ![o].state = "REAPING"]
    BY <1>13 DEF JobReaping, JobFor, Listed
  <2>2. [jobs[o] EXCEPT !.state = "REAPING"] \in Job
    BY DEF Job
  <2>3. jobs' \in [SubscriptionId -> Job]
    BY <2>1, <2>2
  <2> QED
    BY <1>13, <2>3 DEF JobReaping
<1>14. ASSUME NEW key \in ProjectKeys, JobReaped(key) PROVE TypeOK'
  BY <1>14, TerminalTypes DEF JobReaped, JobFor
<1>15. ASSUME NEW key \in ProjectKeys, JobCompleted(key) PROVE TypeOK'
  BY <1>15, TerminalTypes DEF JobCompleted, JobFor
<1>16. ASSUME NEW p \in pending, CallHook(p) PROVE TypeOK'
  <2>1. [p EXCEPT !.stage = "called"] \in Callback
    BY DEF Callback
  <2> QED
    BY <1>16, <2>1 DEF CallHook
<1>17. ASSUME NEW p \in pending, FinishCancelJob(p) PROVE TypeOK'
  <2>1. PlaceAfterHook(p.object) \in {"unused", "listed", "detached", "freed"}
    BY DEF PlaceAfterHook, Callback, Job
  <2> DEFINE w == PlaceAfterHook(p.object)
  <2>2. \A r \in Job : [r EXCEPT !.inflight = FALSE, !.place = w] \in Job
    BY <2>1 DEF Job
  <2>3. jobs' = [jobs EXCEPT ![p.object].inflight = FALSE, ![p.object].place = w]
    BY <1>17 DEF FinishCancelJob
  <2> HIDE DEF w
  <2>a. jobs' = [o \in SubscriptionId |->
                   IF o = p.object THEN [jobs[o] EXCEPT !.inflight = FALSE, !.place = w] ELSE jobs[o]]
    BY <2>3 DEF Callback
  <2>4. jobs' \in [SubscriptionId -> Job]
    BY <2>2, <2>a
  <2> QED
    BY <1>17, <2>4 DEF FinishCancelJob
<1>18. ASSUME NEW p \in pending, FinishReleaseWatch(p) PROVE TypeOK'
  <2>1. \A r \in Watch : [r EXCEPT !.place = "freed"] \in Watch
    BY DEF Watch
  <2>2. watches' \in [SubscriptionId -> Watch]
    BY <1>18, <2>1 DEF FinishReleaseWatch, Callback
  <2> QED
    BY <1>18, <2>2 DEF FinishReleaseWatch
<1>19. CASE CoordinatorFree
  <2>1. /\ \A r \in Watch : [r EXCEPT !.place = "freed"] \in Watch
        /\ \A r \in Job : [r EXCEPT !.place = "freed"] \in Job
    BY DEF Watch, Job
  <2>2. watches' \in [SubscriptionId -> Watch] /\ jobs' \in [SubscriptionId -> Job]
    BY <1>19, <2>1 DEF CoordinatorFree
  <2>3. heartbeat' \in [ClientId -> Clock]
    BY <1>19, CoordinatorAssumption DEF CoordinatorFree, Clock
  <2> QED
    BY <1>19, <2>2, <2>3 DEF CoordinatorFree
<1>20. CASE UNCHANGED vars
  BY <1>20 DEF vars, setupVars, clientVars, idVars, jobVars, watchVars, callbackVars
<1> QED
  BY <1>1, <1>2, <1>3, <1>4, <1>5, <1>6, <1>7, <1>8, <1>9, <1>10, <1>11,
     <1>12, <1>13, <1>14, <1>15, <1>16, <1>17, <1>18, <1>19, <1>20 DEF Next

(* What keeps the objects' places keeps subscriptions exact.             *)
LEMMA SameExact ==
  ASSUME Exact, clients \subseteq clients',
         UNCHANGED <<lastSubscriptionId, jobSubs, watchSubs>>,
         \A o \in SubscriptionId :
           /\ jobs'[o].place = "listed" <=> jobs[o].place = "listed"
           /\ jobs[o].place = "unused" => jobs'[o].place = "unused"
           /\ jobs'[o].key = jobs[o].key
           /\ jobs'[o].state = "RUNNING" <=> jobs[o].state = "RUNNING",
         \A o \in SubscriptionId :
           /\ watches'[o].place = "listed" <=> watches[o].place = "listed"
           /\ watches[o].place = "unused" => watches'[o].place = "unused"
           /\ watches'[o].key = watches[o].key
  PROVE  Exact'
<1>1. Listed(jobs') = Listed(jobs) /\ Listed(watches') = Listed(watches)
  BY DEF Listed
<1>2. IdsIssued'
  BY DEF Exact, IdsIssued
<1>3. NoDanglingSubscription'
  BY <1>1 DEF Exact, SubscriptionsExact, NoDanglingSubscription
<1>4. WorkIffSubscribed'
  BY <1>1 DEF Exact, SubscriptionsExact, WorkIffSubscribed, SubsOf, Listed
<1>5. OneObjectPerKey'
  BY <1>1 DEF Exact, SubscriptionsExact, OneObjectPerKey
<1>6. UniqueHandles'
  BY DEF Exact, SubscriptionsExact, UniqueHandles
<1> QED
  BY <1>2, <1>3, <1>4, <1>5, <1>6 DEF Exact, SubscriptionsExact

(* Subscriptions that go, with the jobs and watches they leave orphaned    *)
(* cancelled and released, leave the others exact.                         *)
LEMMA FewerExact ==
  ASSUME TypeOK, Exact, lastSubscriptionId' = lastSubscriptionId,
         NEW J \in SUBSET Listed(jobs), NEW W \in SUBSET Listed(watches),
         jobSubs' \subseteq jobSubs, watchSubs' \subseteq watchSubs,
         \A s \in jobSubs' \cup watchSubs' : s.client \in clients',
         \A o \in Listed(jobs) \ J : SubsOf(jobSubs', o) = SubsOf(jobSubs, o),
         \A o \in Listed(watches) \ W : SubsOf(watchSubs', o) = SubsOf(watchSubs, o),
         RequestJobCancel(Orphaned(J, jobSubs')),
         QueueWatchRelease(Unwatched(W, watchSubs'))
  PROVE  Exact'
<1> DEFINE oj == Orphaned(J, jobSubs')
           ow == Unwatched(W, watchSubs')
<1>1. \A o \in SubscriptionId :
        /\ jobs'[o].place = jobs[o].place /\ jobs'[o].key = jobs[o].key
        /\ o \in oj => jobs'[o].state = "CANCEL_REQUESTED"
        /\ o \notin oj => jobs'[o] = jobs[o]
  BY CancelledJobs
<1>2. \A o \in SubscriptionId :
        /\ watches'[o].key = watches[o].key
        /\ o \in ow => watches'[o].place # "listed"
        /\ o \notin ow => watches'[o] = watches[o]
  BY ReleasedWatches
<1>3. oj = {o \in J : jobs[o].state = "RUNNING" /\ SubsOf(jobSubs', o) = {}}
  BY DEF Orphaned
<1>4. ow = {o \in W : SubsOf(watchSubs', o) = {}}
  BY DEF Unwatched
<1> HIDE DEF oj, ow
<1>5. Listed(jobs') = Listed(jobs) /\ Listed(watches') = Listed(watches) \ ow
  BY <1>1, <1>2 DEF Listed
<1>6. IdsIssued'
  BY <1>1, <1>2, <1>4 DEF Exact, IdsIssued, Listed
<1>7. NoDanglingSubscription'
  <2>1. \A s \in watchSubs' : s \in SubsOf(watchSubs', s.object)
    BY DEF SubsOf
  <2>2. \A s \in watchSubs' : s.object \in Listed(watches) \ ow
    BY <1>4, <2>1 DEF Exact, SubscriptionsExact, NoDanglingSubscription
  <2> QED
    BY <1>5, <2>2 DEF Exact, SubscriptionsExact, NoDanglingSubscription
<1>8. WorkIffSubscribed'
  <2>1. ASSUME NEW o \in Listed(jobs)
        PROVE  jobs'[o].state = "RUNNING" <=> SubsOf(jobSubs', o) # {}
    <3>1. jobs[o].state = "RUNNING" <=> SubsOf(jobSubs, o) # {}
      BY DEF Exact, SubscriptionsExact, WorkIffSubscribed
    <3>2. SubsOf(jobSubs', o) \subseteq SubsOf(jobSubs, o) /\ o \in SubscriptionId
      BY DEF SubsOf, Listed
    <3>3. CASE o \in oj
      BY <1>1, <1>3, <3>2, <3>3
    <3>4. CASE o \notin oj
      BY <1>1, <1>3, <3>1, <3>2, <3>4
    <3> QED
      BY <3>3, <3>4
  <2>2. ASSUME NEW o \in Listed(watches) \ ow
        PROVE  SubsOf(watchSubs', o) # {}
    BY <1>4 DEF Exact, SubscriptionsExact, WorkIffSubscribed
  <2> QED
    BY <1>5, <2>1, <2>2 DEF WorkIffSubscribed
<1>9. OneObjectPerKey'
  BY <1>1, <1>2, <1>5 DEF Exact, SubscriptionsExact, OneObjectPerKey
<1>10. UniqueHandles'
  BY DEF Exact, SubscriptionsExact, UniqueHandles
<1> QED
  BY <1>6, <1>7, <1>8, <1>9, <1>10 DEF Exact, SubscriptionsExact

(* Clients that leave take their subscriptions along.                      *)
LEMMA ReleaseExact ==
  ASSUME IInv, NEW t \in Threads, NEW gone, ReleaseClients(t, gone), UNCHANGED idVars
  PROVE  Exact'
<1>1. /\ jobSubs' = RemoveClientSubs(jobSubs, gone)
      /\ watchSubs' = RemoveClientSubs(watchSubs, gone) /\ clients' = clients \ gone
      /\ RequestJobCancel(Orphaned(Listed(jobs), jobSubs'))
      /\ QueueWatchRelease(Unwatched(Listed(watches), watchSubs'))
  BY DEF ReleaseClients
<1>2. \A s \in jobSubs' \cup watchSubs' : s.client \in clients'
  BY <1>1 DEF RemoveClientSubs, IInv, Exact, SubscriptionsExact, NoDanglingSubscription
<1>3. jobSubs' \subseteq jobSubs /\ watchSubs' \subseteq watchSubs
  BY <1>1 DEF RemoveClientSubs
<1> QED
  BY <1>1, <1>2, <1>3, FewerExact DEF IInv, idVars

(* A terminal report takes the job off the list with its subscriptions.    *)
LEMMA TerminalExact ==
  ASSUME IInv, NEW o \in Listed(jobs), TerminalJob(o)
  PROVE  Exact'
<1> USE DEF IInv
<1>1. /\ jobSubs' = jobSubs \ SubsOf(jobSubs, o)
      /\ UNCHANGED <<clients, lastSubscriptionId, watches, watchSubs>>
  BY DEF TerminalJob, clientVars, idVars, watchVars
<1>2. o \in SubscriptionId /\ jobs[o].place = "listed"
  BY DEF Listed
<1>3. /\ jobs'[o].place \in {"detached", "freed"}
      /\ \A k \in SubscriptionId \ {o} : jobs'[k] = jobs[k]
  BY <1>2 DEF TerminalJob, PlaceAfterTerminal, TypeOK, Job
<1>4. Listed(jobs') = Listed(jobs) \ {o} /\ Listed(watches') = Listed(watches)
  BY <1>1, <1>3 DEF Listed
<1>5. IdsIssued'
  BY <1>1, <1>2, <1>3 DEF Exact, IdsIssued
<1>6. NoDanglingSubscription'
  BY <1>1, <1>4 DEF Exact, SubscriptionsExact, NoDanglingSubscription, SubsOf
<1>7. WorkIffSubscribed'
  <2>1. \A k \in Listed(jobs) \ {o} : SubsOf(jobSubs', k) = SubsOf(jobSubs, k)
    BY <1>1 DEF SubsOf
  <2> QED
    BY <1>1, <1>3, <1>4, <2>1 DEF Exact, SubscriptionsExact, WorkIffSubscribed, Listed
<1>8. OneObjectPerKey'
  BY <1>1, <1>3, <1>4 DEF Exact, SubscriptionsExact, OneObjectPerKey
<1>9. UniqueHandles'
  BY <1>1 DEF Exact, SubscriptionsExact, UniqueHandles
<1> QED
  BY <1>5, <1>6, <1>7, <1>8, <1>9 DEF Exact, SubscriptionsExact

(* Nothing is subscribed under the next id.                              *)
LEMMA NextIsFree ==
  ASSUME TypeOK, Exact, IssueSubscriptionId
  PROVE  LET new == lastSubscriptionId'
         IN  /\ new \in SubscriptionId /\ new = lastSubscriptionId + 1
             /\ jobs[new].place = "unused" /\ watches[new].place = "unused"
             /\ \A x \in jobSubs \cup watchSubs : x.id # new /\ x.object # new /\ x.id <= new
             /\ \A x \in SubscriptionId : x > new => x > lastSubscriptionId /\ x # new
<1> DEFINE new == lastSubscriptionId'
<1>1. new \in SubscriptionId /\ new = lastSubscriptionId + 1 /\ lastSubscriptionId \in Nat
  BY NextId DEF TypeOK
<1> HIDE DEF new
<1>2. jobs[new].place = "unused" /\ watches[new].place = "unused"
  BY <1>1 DEF Exact, IdsIssued, SubscriptionId
<1>3. \A x \in jobSubs \cup watchSubs : x.id # new /\ x.id <= new
  BY <1>1 DEF Exact, IdsIssued, TypeOK, Subscription, SubscriptionId
<1>4. \A x \in jobSubs \cup watchSubs : x.object # new
  BY <1>2 DEF Exact, SubscriptionsExact, NoDanglingSubscription, Listed
<1>5. \A x \in SubscriptionId : x > new => x > lastSubscriptionId /\ x # new
  BY <1>1 DEF SubscriptionId
<1> QED
  BY <1>1, <1>2, <1>3, <1>4, <1>5 DEF new

(* Every step keeps subscriptions exact.                                   *)
LEMMA ExactStep == IInv /\ [Next]_vars => Exact'
<1> SUFFICES ASSUME IInv, [Next]_vars
             PROVE  Exact'
  OBVIOUS
<1> USE DEF IInv
<1>1. ASSUME NEW flag \in BOOLEAN, SetPermanent(flag) PROVE Exact'
  BY <1>1, SameExact DEF SetPermanent, idVars, clientVars, jobVars, watchVars
<1>2. ASSUME NEW installed \in SUBSET {"cancel_job", "release_watch"}, SetHooks(installed)
      PROVE  Exact'
  BY <1>2, SameExact DEF SetHooks, idVars, clientVars, jobVars, watchVars
<1>3. ASSUME NEW now \in Clock, ClientConnected(now) PROVE Exact'
  <2>1. clients \subseteq clients' /\ lastSubscriptionId' = lastSubscriptionId
    BY <1>3 DEF ClientConnected
  <2> QED
    BY <1>3, <2>1, SameExact DEF ClientConnected, jobVars, watchVars
<1>4. ASSUME NEW c \in ClientId, NEW now \in Clock, ClientHeartbeat(c, now) PROVE Exact'
  BY <1>4, SameExact DEF ClientHeartbeat, idVars, clientVars, jobVars, watchVars
<1>5. ASSUME NEW t \in Threads, NEW c \in ClientId, ClientDisconnected(t, c) PROVE Exact'
  BY <1>5, ReleaseExact DEF ClientDisconnected
<1>6. ASSUME NEW t \in Threads, NEW now \in Clock, ExpireLeases(t, now) PROVE Exact'
  BY <1>6, ReleaseExact DEF ExpireLeases
<1>7. ASSUME NEW c \in ClientId, NEW key \in ProjectKeys, JobSubscribeStart(c, key)
      PROVE  Exact'
  <2> DEFINE new == lastSubscriptionId'
             sub == [id |-> new, client |-> c, object |-> new]
  <2>1. /\ jobs' = [jobs EXCEPT ![new] = [place |-> "listed", key |-> key, state |-> "RUNNING", inflight |-> FALSE]]
        /\ jobSubs' = jobSubs \cup {sub} /\ c \in clients /\ JobFor(key) = {}
        /\ UNCHANGED <<clients, watches, watchSubs>>
    BY <1>7 DEF JobSubscribeStart, clientVars, watchVars
  <2>2. /\ new \in SubscriptionId /\ new = lastSubscriptionId + 1
        /\ jobs[new].place = "unused" /\ watches[new].place = "unused"
        /\ \A x \in jobSubs \cup watchSubs : x.id # new /\ x.object # new /\ x.id <= new
        /\ \A x \in SubscriptionId : x > new => x > lastSubscriptionId /\ x # new
    BY <1>7, NextIsFree DEF JobSubscribeStart
  <2>3. sub.id = new /\ sub.client = c /\ sub.object = new
    OBVIOUS
  <2>b. lastSubscriptionId' = new
    OBVIOUS
  <2> HIDE DEF new, sub
  <2>4. /\ jobs'[new].place = "listed" /\ jobs'[new].key = key /\ jobs'[new].state = "RUNNING"
        /\ \A x \in SubscriptionId \ {new} : jobs'[x] = jobs[x]
    BY <2>1, <2>2 DEF TypeOK
  <2>5. Listed(jobs') = Listed(jobs) \cup {new} /\ Listed(watches') = Listed(watches) /\ new \notin Listed(jobs)
    BY <2>1, <2>2, <2>4 DEF Listed
  <2>6. IdsIssued'
    <3>1. \A x \in jobSubs' \cup watchSubs' : x.id <= lastSubscriptionId'
      <4>1. \A x \in jobSubs \cup watchSubs : x.id <= new
        BY <2>2
      <4>2. sub.id <= new
        BY <2>2, <2>3 DEF SubscriptionId
      <4>3. jobSubs' \cup watchSubs' = jobSubs \cup watchSubs \cup {sub}
        BY <2>1
      <4> QED
        BY <2>b, <4>1, <4>2, <4>3
    <3>2. \A x \in SubscriptionId : x > lastSubscriptionId' =>
            jobs'[x].place = "unused" /\ watches'[x].place = "unused"
      BY <2>1, <2>b, <2>2, <2>4 DEF Exact, IdsIssued
    <3> QED
      BY <3>1, <3>2 DEF IdsIssued
  <2>7. NoDanglingSubscription'
    BY <2>1, <2>3, <2>5 DEF Exact, SubscriptionsExact, NoDanglingSubscription
  <2>8. WorkIffSubscribed'
    <3>1. SubsOf(jobSubs', new) # {} /\ \A x \in Listed(jobs) : SubsOf(jobSubs', x) = SubsOf(jobSubs, x)
      BY <2>1, <2>3, <2>5 DEF SubsOf
    <3> QED
      BY <2>1, <2>4, <2>5, <3>1 DEF Exact, SubscriptionsExact, WorkIffSubscribed, Listed
  <2>9. OneObjectPerKey'
    <3>1. \A x \in Listed(jobs) : jobs[x].key # key
      BY <2>1 DEF JobFor
    <3> QED
      BY <2>1, <2>4, <2>5, <3>1 DEF Exact, SubscriptionsExact, OneObjectPerKey, Listed
  <2>10. UniqueHandles'
    BY <2>1, <2>2, <2>3 DEF Exact, SubscriptionsExact, UniqueHandles
  <2> QED
    BY <2>6, <2>7, <2>8, <2>9, <2>10 DEF Exact, SubscriptionsExact
<1>8. ASSUME NEW c \in ClientId, NEW key \in ProjectKeys, JobSubscribeJoin(c, key)
      PROVE  Exact'
  <2> DEFINE new == lastSubscriptionId'
  <2>1. PICK o \in Listed(jobs) :
          jobSubs' = jobSubs \cup {[id |-> new, client |-> c, object |-> o]} /\ jobs[o].state = "RUNNING"
    BY <1>8 DEF JobSubscribeJoin, JobFor
  <2>a. c \in clients /\ UNCHANGED <<clients, jobs, watches, watchSubs>>
    BY <1>8 DEF JobSubscribeJoin, clientVars, watchVars
  <2> DEFINE sub == [id |-> new, client |-> c, object |-> o]
  <2>2. /\ new \in SubscriptionId /\ new = lastSubscriptionId + 1
        /\ \A x \in jobSubs \cup watchSubs : x.id # new /\ x.id <= new
        /\ \A x \in SubscriptionId : x > new => x > lastSubscriptionId
    BY <1>8, NextIsFree DEF JobSubscribeJoin
  <2>3. sub.id = new /\ sub.client = c /\ sub.object = o
    OBVIOUS
  <2>4. jobSubs' = jobSubs \cup {sub}
    BY <2>1
  <2>b. lastSubscriptionId' = new
    OBVIOUS
  <2> HIDE DEF new, sub
  <2>5. Listed(jobs') = Listed(jobs) /\ Listed(watches') = Listed(watches)
    BY <2>a
  <2>6. IdsIssued'
    <3>1. \A x \in jobSubs' \cup watchSubs' : x.id <= lastSubscriptionId'
      <4>1. \A x \in jobSubs \cup watchSubs : x.id <= new
        BY <2>2
      <4>2. sub.id <= new
        BY <2>2, <2>3 DEF SubscriptionId
      <4>3. jobSubs' \cup watchSubs' = jobSubs \cup watchSubs \cup {sub}
        BY <2>a, <2>4
      <4> QED
        BY <2>b, <4>1, <4>2, <4>3
    <3>2. \A x \in SubscriptionId : x > lastSubscriptionId' =>
            jobs'[x].place = "unused" /\ watches'[x].place = "unused"
      BY <2>a, <2>b, <2>2 DEF Exact, IdsIssued
    <3> QED
      BY <3>1, <3>2 DEF IdsIssued
  <2>7. NoDanglingSubscription'
    BY <2>a, <2>3, <2>4, <2>5 DEF Exact, SubscriptionsExact, NoDanglingSubscription
  <2>8. WorkIffSubscribed'
    <3>1. /\ SubsOf(jobSubs', o) # {}
          /\ \A x \in Listed(jobs) \ {o} : SubsOf(jobSubs', x) = SubsOf(jobSubs, x)
      BY <2>3, <2>4 DEF SubsOf
    <3> QED
      BY <2>1, <2>a, <2>5, <3>1 DEF Exact, SubscriptionsExact, WorkIffSubscribed
  <2>9. OneObjectPerKey'
    BY <2>a, <2>5 DEF Exact, SubscriptionsExact, OneObjectPerKey
  <2>10. UniqueHandles'
    BY <2>a, <2>2, <2>3, <2>4 DEF Exact, SubscriptionsExact, UniqueHandles
  <2> QED
    BY <2>6, <2>7, <2>8, <2>9, <2>10 DEF Exact, SubscriptionsExact
<1>9. ASSUME NEW c \in ClientId, NEW key \in ProjectKeys, WatchSubscribeStart(c, key)
      PROVE  Exact'
  <2> DEFINE new == lastSubscriptionId'
             sub == [id |-> new, client |-> c, object |-> new]
  <2>1. /\ watches' = [watches EXCEPT ![new] = [place |-> "listed", key |-> key]]
        /\ watchSubs' = watchSubs \cup {sub} /\ c \in clients /\ WatchFor(key) = {}
        /\ UNCHANGED <<clients, jobs, jobSubs>>
    BY <1>9 DEF WatchSubscribeStart, clientVars, jobVars
  <2>2. /\ new \in SubscriptionId /\ new = lastSubscriptionId + 1
        /\ watches[new].place = "unused" /\ jobs[new].place = "unused"
        /\ \A x \in jobSubs \cup watchSubs : x.id # new /\ x.object # new /\ x.id <= new
        /\ \A x \in SubscriptionId : x > new => x > lastSubscriptionId /\ x # new
    BY <1>9, NextIsFree DEF WatchSubscribeStart
  <2>3. sub.id = new /\ sub.client = c /\ sub.object = new
    OBVIOUS
  <2>b. lastSubscriptionId' = new
    OBVIOUS
  <2> HIDE DEF new, sub
  <2>4. /\ watches'[new].place = "listed" /\ watches'[new].key = key
        /\ \A x \in SubscriptionId \ {new} : watches'[x] = watches[x]
    BY <2>1, <2>2 DEF TypeOK
  <2>5. Listed(watches') = Listed(watches) \cup {new} /\ Listed(jobs') = Listed(jobs) /\ new \notin Listed(watches)
    BY <2>1, <2>2, <2>4 DEF Listed
  <2>6. IdsIssued'
    <3>1. \A x \in jobSubs' \cup watchSubs' : x.id <= lastSubscriptionId'
      <4>1. \A x \in jobSubs \cup watchSubs : x.id <= new
        BY <2>2
      <4>2. sub.id <= new
        BY <2>2, <2>3 DEF SubscriptionId
      <4>3. jobSubs' \cup watchSubs' = jobSubs \cup watchSubs \cup {sub}
        BY <2>1
      <4> QED
        BY <2>b, <4>1, <4>2, <4>3
    <3>2. \A x \in SubscriptionId : x > lastSubscriptionId' =>
            jobs'[x].place = "unused" /\ watches'[x].place = "unused"
      BY <2>1, <2>b, <2>2, <2>4 DEF Exact, IdsIssued
    <3> QED
      BY <3>1, <3>2 DEF IdsIssued
  <2>7. NoDanglingSubscription'
    BY <2>1, <2>3, <2>5 DEF Exact, SubscriptionsExact, NoDanglingSubscription
  <2>8. WorkIffSubscribed'
    <3>1. SubsOf(watchSubs', new) # {} /\ \A x \in Listed(watches) : SubsOf(watchSubs', x) = SubsOf(watchSubs, x)
      BY <2>1, <2>3, <2>5 DEF SubsOf
    <3> QED
      BY <2>1, <2>4, <2>5, <3>1 DEF Exact, SubscriptionsExact, WorkIffSubscribed, Listed
  <2>9. OneObjectPerKey'
    <3>1. \A x \in Listed(watches) : watches[x].key # key
      BY <2>1 DEF WatchFor
    <3> QED
      BY <2>1, <2>4, <2>5, <3>1 DEF Exact, SubscriptionsExact, OneObjectPerKey, Listed
  <2>10. UniqueHandles'
    BY <2>1, <2>2, <2>3 DEF Exact, SubscriptionsExact, UniqueHandles
  <2> QED
    BY <2>6, <2>7, <2>8, <2>9, <2>10 DEF Exact, SubscriptionsExact
<1>10. ASSUME NEW c \in ClientId, NEW key \in ProjectKeys, WatchSubscribeJoin(c, key)
      PROVE  Exact'
  <2> DEFINE new == lastSubscriptionId'
  <2>1. PICK o \in Listed(watches) :
          watchSubs' = watchSubs \cup {[id |-> new, client |-> c, object |-> o]}
    BY <1>10 DEF WatchSubscribeJoin, WatchFor
  <2>a. c \in clients /\ UNCHANGED <<clients, jobs, watches, jobSubs>>
    BY <1>10 DEF WatchSubscribeJoin, clientVars, jobVars
  <2> DEFINE sub == [id |-> new, client |-> c, object |-> o]
  <2>2. /\ new \in SubscriptionId /\ new = lastSubscriptionId + 1
        /\ \A x \in jobSubs \cup watchSubs : x.id # new /\ x.id <= new
        /\ \A x \in SubscriptionId : x > new => x > lastSubscriptionId
    BY <1>10, NextIsFree DEF WatchSubscribeJoin
  <2>3. sub.id = new /\ sub.client = c /\ sub.object = o
    OBVIOUS
  <2>4. watchSubs' = watchSubs \cup {sub}
    BY <2>1
  <2>b. lastSubscriptionId' = new
    OBVIOUS
  <2> HIDE DEF new, sub
  <2>5. Listed(jobs') = Listed(jobs) /\ Listed(watches') = Listed(watches)
    BY <2>a
  <2>6. IdsIssued'
    <3>1. \A x \in jobSubs' \cup watchSubs' : x.id <= lastSubscriptionId'
      <4>1. \A x \in jobSubs \cup watchSubs : x.id <= new
        BY <2>2
      <4>2. sub.id <= new
        BY <2>2, <2>3 DEF SubscriptionId
      <4>3. jobSubs' \cup watchSubs' = jobSubs \cup watchSubs \cup {sub}
        BY <2>a, <2>4
      <4> QED
        BY <2>b, <4>1, <4>2, <4>3
    <3>2. \A x \in SubscriptionId : x > lastSubscriptionId' =>
            jobs'[x].place = "unused" /\ watches'[x].place = "unused"
      BY <2>a, <2>b, <2>2 DEF Exact, IdsIssued
    <3> QED
      BY <3>1, <3>2 DEF IdsIssued
  <2>7. NoDanglingSubscription'
    BY <2>a, <2>3, <2>4, <2>5 DEF Exact, SubscriptionsExact, NoDanglingSubscription
  <2>8. WorkIffSubscribed'
    <3>1. /\ SubsOf(watchSubs', o) # {}
          /\ \A x \in Listed(watches) \ {o} : SubsOf(watchSubs', x) = SubsOf(watchSubs, x)
      BY <2>3, <2>4 DEF SubsOf
    <3> QED
      BY <2>1, <2>a, <2>5, <3>1 DEF Exact, SubscriptionsExact, WorkIffSubscribed
  <2>9. OneObjectPerKey'
    BY <2>a, <2>5 DEF Exact, SubscriptionsExact, OneObjectPerKey
  <2>10. UniqueHandles'
    BY <2>a, <2>2, <2>3, <2>4 DEF Exact, SubscriptionsExact, UniqueHandles
  <2> QED
    BY <2>6, <2>7, <2>8, <2>9, <2>10 DEF Exact, SubscriptionsExact
<1>11. ASSUME NEW t \in Threads, NEW c \in ClientId, NEW id \in SubscriptionId, JobUnsubscribe(t, c, id)
      PROVE  Exact'
  <2>1. PICK s \in jobSubs :
          /\ jobSubs' = jobSubs \ {s} /\ RequestJobCancel(Orphaned({s.object}, jobSubs \ {s}))
    BY <1>11 DEF JobUnsubscribe
  <2>2. UNCHANGED <<clients, lastSubscriptionId, watches, watchSubs>>
    BY <1>11 DEF JobUnsubscribe, clientVars, idVars, watchVars
  <2>3. QueueWatchRelease(Unwatched({}, watchSubs'))
    BY <2>2 DEF QueueWatchRelease, Unwatched, TypeOK
  <2>4. {s.object} \in SUBSET Listed(jobs) /\ {} \in SUBSET Listed(watches)
    BY DEF Exact, SubscriptionsExact, NoDanglingSubscription
  <2>5. \A x \in Listed(jobs) \ {s.object} : SubsOf(jobSubs', x) = SubsOf(jobSubs, x)
    BY <2>1 DEF SubsOf
  <2>6. \A x \in jobSubs' \cup watchSubs' : x.client \in clients'
    BY <2>1, <2>2 DEF Exact, SubscriptionsExact, NoDanglingSubscription
  <2>7. RequestJobCancel(Orphaned({s.object}, jobSubs')) /\ jobSubs' \subseteq jobSubs
    BY <2>1
  <2> QED
    BY <2>2, <2>3, <2>4, <2>5, <2>6, <2>7, FewerExact
<1>12. ASSUME NEW t \in Threads, NEW c \in ClientId, NEW id \in SubscriptionId, WatchUnsubscribe(t, c, id)
      PROVE  Exact'
  <2>1. PICK s \in watchSubs :
          /\ watchSubs' = watchSubs \ {s} /\ QueueWatchRelease(Unwatched({s.object}, watchSubs \ {s}))
    BY <1>12 DEF WatchUnsubscribe
  <2>2. UNCHANGED <<clients, lastSubscriptionId, jobs, jobSubs>>
    BY <1>12 DEF WatchUnsubscribe, clientVars, idVars, jobVars
  <2>3. RequestJobCancel(Orphaned({}, jobSubs'))
    BY <2>2 DEF RequestJobCancel, Orphaned, TypeOK
  <2>4. {s.object} \in SUBSET Listed(watches) /\ {} \in SUBSET Listed(jobs)
    BY DEF Exact, SubscriptionsExact, NoDanglingSubscription
  <2>5. \A x \in Listed(watches) \ {s.object} : SubsOf(watchSubs', x) = SubsOf(watchSubs, x)
    BY <2>1 DEF SubsOf
  <2>6. \A x \in jobSubs' \cup watchSubs' : x.client \in clients'
    BY <2>1, <2>2 DEF Exact, SubscriptionsExact, NoDanglingSubscription
  <2>7. QueueWatchRelease(Unwatched({s.object}, watchSubs')) /\ watchSubs' \subseteq watchSubs
    BY <2>1
  <2> QED
    BY <2>2, <2>3, <2>4, <2>5, <2>6, <2>7, FewerExact
<1>13. ASSUME NEW key \in ProjectKeys, JobReaping(key) PROVE Exact'
  <2>1. PICK o \in SubscriptionId :
          jobs[o].state = "CANCEL_REQUESTED" /\ jobs' = [jobs EXCEPT ![o].state = "REAPING"]
    BY <1>13 DEF JobReaping, JobFor, Listed
  <2>2. \A k \in SubscriptionId :
          /\ jobs'[k].place = jobs[k].place /\ jobs'[k].key = jobs[k].key
          /\ jobs'[k].state = "RUNNING" <=> jobs[k].state = "RUNNING"
    BY <2>1 DEF TypeOK, Job
  <2> QED
    BY <1>13, <2>2, SameExact DEF JobReaping, clientVars, idVars, watchVars
<1>14. ASSUME NEW key \in ProjectKeys, JobReaped(key) PROVE Exact'
  BY <1>14, TerminalExact DEF JobReaped, JobFor
<1>15. ASSUME NEW key \in ProjectKeys, JobCompleted(key) PROVE Exact'
  BY <1>15, TerminalExact DEF JobCompleted, JobFor
<1>16. ASSUME NEW p \in pending, CallHook(p) PROVE Exact'
  BY <1>16, SameExact DEF CallHook, idVars, clientVars, jobVars, watchVars
<1>17. ASSUME NEW p \in pending, FinishCancelJob(p) PROVE Exact'
  <2>1. \A k \in SubscriptionId :
          /\ jobs'[k].place = "listed" <=> jobs[k].place = "listed"
          /\ jobs[k].place = "unused" => jobs'[k].place = "unused"
          /\ jobs'[k].key = jobs[k].key /\ jobs'[k].state = jobs[k].state
    BY <1>17 DEF FinishCancelJob, PlaceAfterHook, TypeOK, Job, Callback
  <2> QED
    BY <1>17, <2>1, SameExact DEF FinishCancelJob, clientVars, idVars, watchVars
<1>18. ASSUME NEW p \in pending, FinishReleaseWatch(p) PROVE Exact'
  <2>1. p.object \in SubscriptionId /\ watches[p.object].place = "released"
    BY <1>18 DEF FinishReleaseWatch, TypeOK, Callback, Hooked, ReleaseOwed, Due
  <2>2. \A k \in SubscriptionId :
          /\ watches'[k].place = "listed" <=> watches[k].place = "listed"
          /\ watches[k].place = "unused" => watches'[k].place = "unused"
          /\ watches'[k].key = watches[k].key
    BY <1>18, <2>1 DEF FinishReleaseWatch, TypeOK, Watch
  <2> QED
    BY <1>18, <2>2, SameExact DEF FinishReleaseWatch, clientVars, idVars, jobVars
<1>19. CASE CoordinatorFree
  <2>1. /\ jobSubs' = {} /\ watchSubs' = {} /\ lastSubscriptionId' = lastSubscriptionId
        /\ jobs' = [o \in SubscriptionId |->
                     IF o \in Listed(jobs) THEN [jobs[o] EXCEPT !.place = "freed"] ELSE jobs[o]]
        /\ watches' = [o \in SubscriptionId |->
                         IF o \in Listed(watches) THEN [watches[o] EXCEPT !.place = "freed"]
                                                  ELSE watches[o]]
    BY <1>19 DEF CoordinatorFree, idVars
  <2>2. \A o \in SubscriptionId :
          /\ jobs'[o].place # "listed" /\ watches'[o].place # "listed"
          /\ jobs[o].place = "unused" => jobs'[o].place = "unused"
          /\ watches[o].place = "unused" => watches'[o].place = "unused"
    BY <2>1 DEF TypeOK, Job, Watch, Listed
  <2>3. Listed(jobs') = {} /\ Listed(watches') = {}
    BY <2>2 DEF Listed
  <2>4. IdsIssued'
    BY <2>1, <2>2 DEF Exact, IdsIssued
  <2> QED
    BY <2>1, <2>3, <2>4 DEF Exact, SubscriptionsExact, NoDanglingSubscription,
         WorkIffSubscribed, OneObjectPerKey, UniqueHandles
<1>20. CASE UNCHANGED vars
  BY <1>20, SameExact DEF vars, idVars, clientVars, jobVars, watchVars
<1> QED
  BY <1>1, <1>2, <1>3, <1>4, <1>5, <1>6, <1>7, <1>8, <1>9, <1>10, <1>11,
     <1>12, <1>13, <1>14, <1>15, <1>16, <1>17, <1>18, <1>19, <1>20 DEF Next
-----------------------------------------------------------------------------
(* A new coordinator has no clients, subscriptions or objects.             *)
LEMMA InvInit == Init => IInv
<1> SUFFICES ASSUME Init
             PROVE  IInv
  OBVIOUS
<1>1. TypeOK
  BY TypeInit
<1>2. \A o \in SubscriptionId :
        jobs[o].place = "unused" /\ jobs[o].inflight = FALSE /\ watches[o].place = "unused"
  BY DEF Init, NoJob, NoWatch
<1>3. Listed(jobs) = {} /\ Listed(watches) = {}
  BY <1>2 DEF Listed
<1>4. Exact
  BY <1>2, <1>3 DEF Init, Exact, IdsIssued, SubscriptionsExact, NoDanglingSubscription,
     WorkIffSubscribed, OneObjectPerKey, UniqueHandles
<1>5. OwedOnce
  BY FS_EmptySet DEF Init, OwedOnce, CallbackAccounting
<1>6. Hooked
  BY <1>2, <1>5 DEF Init, Hooked, CancelOwed, ReleaseOwed, Due
<1> QED
  BY <1>1, <1>4, <1>6 DEF IInv

(* The inductive invariant holds in every reachable state.                 *)
THEOREM Invariance == Spec => []IInv
<1>1. IInv /\ [Next]_vars => IInv'
  BY HookedStep, TypeStep, ExactStep DEF IInv
<1> QED
  BY InvInit, <1>1, PTL DEF Spec

(* TypeOK: clients, objects, subscriptions and debts have their types, and *)
(* callback_count never falls below zero.                                  *)
THEOREM TypeCorrect == Spec => []TypeOK
<1>1. IInv => TypeOK
  BY DEF IInv
<1> QED
  BY Invariance, <1>1, PTL

(* SubscriptionsExact: however subscribers leave, nothing is subscribed to *)
(* what is gone, work runs exactly as long as somebody asks for it, and    *)
(* clients of one project share it.                                        *)
THEOREM SubscriptionsAlwaysExact == Spec => []SubscriptionsExact
<1>1. IInv => SubscriptionsExact
  BY DEF IInv, Exact
<1> QED
  BY Invariance, <1>1, PTL

(* ObjectLifetimes: terminal_job_locked and callback_batch_run agree on    *)
(* who frees an object, so that it is neither used after it nor leaked.    *)
THEOREM ObjectsAreFreedOnce == Spec => []ObjectLifetimes
<1>1. IInv => ObjectLifetimes
  <2> SUFFICES ASSUME IInv
               PROVE  ObjectLifetimes
    OBVIOUS
  <2>1. NoUseAfterFree
    <3> SUFFICES ASSUME NEW p \in pending
                 PROVE  IF p.hook = "cancel_job"
                          THEN jobs[p.object].place \in {"listed", "detached"}
                          ELSE watches[p.object].place = "released"
      BY DEF NoUseAfterFree
    <3>1. p.hook \in {"cancel_job", "release_watch"} /\ p.object \in SubscriptionId
      BY DEF IInv, TypeOK, Callback
    <3>2. Due(p.hook, p.object)
      BY DEF Due
    <3> QED
      BY <3>1, <3>2 DEF IInv, Hooked, CancelOwed, ReleaseOwed
  <2>2. NothingLeaks
    BY DEF NothingLeaks, IInv, Hooked, CancelOwed, ReleaseOwed, Due
  <2> QED
    BY <2>1, <2>2 DEF ObjectLifetimes, IInv, Hooked, OwedOnce
<1> QED
  BY Invariance, <1>1, PTL

(* ExitMeansQuiescent: pmm_daemon_should_exit never answers true while a   *)
(* thread owes a hook or an object waits to be freed.                      *)
THEOREM ExitIsAlwaysQuiescent == Spec => []ExitMeansQuiescent
<1>1. IInv => ExitMeansQuiescent
  <2> SUFFICES ASSUME IInv, ShouldExit
               PROVE  /\ pending = {} /\ jobSubs = {} /\ watchSubs = {}
                      /\ \A o \in SubscriptionId : /\ jobs[o].place \in {"unused", "freed"}
                                                   /\ watches[o].place \in {"unused", "freed"}
    BY DEF ExitMeansQuiescent
  <2>1. pending = {}
    BY FS_EmptySet DEF ShouldExit, IInv, Hooked, OwedOnce, CallbackAccounting
  <2>2. jobSubs = {} /\ watchSubs = {}
    BY DEF ShouldExit, IInv, Exact, SubscriptionsExact, NoDanglingSubscription
  <2>3. ASSUME NEW o \in SubscriptionId
        PROVE  jobs[o].place \in {"unused", "freed"} /\ watches[o].place \in {"unused", "freed"}
    <3>1. /\ jobs[o].place \in {"unused", "listed", "detached", "freed"}
          /\ watches[o].place \in {"unused", "listed", "released", "freed"}
      BY DEF IInv, TypeOK, Job, Watch
    <3>2. jobs[o].place # "listed" /\ watches[o].place # "listed"
      BY DEF ShouldExit, Listed
    <3>3. jobs[o].place # "detached" /\ watches[o].place # "released"
      BY <2>1 DEF IInv, Hooked, CancelOwed, ReleaseOwed, Due
    <3> QED
      BY <3>1, <3>2, <3>3
  <2> QED
    BY <2>1, <2>2, <2>3
<1> QED
  BY Invariance, <1>1, PTL

(* SweepSparesFreshClients: pmm_daemon_expire_leases only takes clients    *)
(* that have been silent for the timeout, although its subtraction is one  *)
(* of unsigned numbers.                                                    *)
THEOREM SweepAlwaysSparesFreshClients == Spec => SweepSparesFreshClients
<1> DEFINE Fair == \A t \in Threads, now \in Clock :
                      ExpireLeases(t, now) =>
                        \A c \in clients \ clients' : heartbeat[c] + LeaseTimeout <= now
<1>1. TypeOK /\ [Next]_vars => [Fair]_vars
  <2> SUFFICES ASSUME TypeOK, NEW t \in Threads, NEW now \in Clock, ExpireLeases(t, now),
                      NEW c \in clients \ clients'
               PROVE  heartbeat[c] + LeaseTimeout <= now
    BY DEF Fair
  <2>1. LeaseExpired(c, now)
    BY DEF ExpireLeases, ReleaseClients
  <2>2. heartbeat[c] \in Nat /\ now \in 0 .. MaxNow
    BY CoordinatorAssumption DEF TypeOK, ClientId, Clock
  <2>3. now - heartbeat[c] \in 0 .. MaxNow
    BY <2>1, <2>2, CoordinatorAssumption DEF LeaseExpired
  <2>4. Elapsed(now, heartbeat[c]) = now - heartbeat[c]
    BY <2>3, CoordinatorAssumption DEF Elapsed
  <2> QED
    BY <2>1, <2>2, <2>4, CoordinatorAssumption DEF LeaseExpired
<1> QED
  BY TypeCorrect, <1>1, PTL DEF Spec, SweepSparesFreshClients
=============================================================================
