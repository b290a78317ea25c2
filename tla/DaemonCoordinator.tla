------------------------- MODULE DaemonCoordinator -------------------------
(***************************************************************************)
(* The in-memory coordinator of the shared daemon, src/daemon/daemon.c.    *)
(* Clients subscribe to per-project jobs and watches; losing the last      *)
(* subscriber of a job requests its cancellation, losing the last          *)
(* subscriber of a watch releases it, losing the last client stops a       *)
(* coordinator that is not permanent.                                      *)
(*                                                                         *)
(* Every entry point holds coordinator->mutex for its whole state change,  *)
(* so one entry point is one action.  The two hooks are the exception:     *)
(* callback_batch_run invokes them after the mutex was released and takes  *)
(* it again after each call, so other threads run in between.  A hook      *)
(* that is owed is a member of `pending': "queued" until the thread calls  *)
(* it, "called" until the thread has taken the mutex again.                *)
(*                                                                         *)
(* A job or watch object is named by the id of the subscription that       *)
(* started it, which stands for its address; `place' says whether the      *)
(* object is on the coordinator's list, only held by a hook that is owed,  *)
(* or freed.                                                               *)
(***************************************************************************)
EXTENDS Integers, FiniteSets

CONSTANTS
  ProjectKeys,        \* canonical project keys
  NoKey,              \* key of an object that was never started
  Threads,            \* daemon threads that enter the coordinator
  MaxClientId,        \* stands for UINT64_MAX in issue_client_id_locked
  MaxSubscriptionId,  \* stands for UINT64_MAX in issue_subscription_id_locked
  MaxNow,             \* largest value of the unsigned millisecond clock
  LeaseTimeout        \* lease_timeout_ms

ASSUME CoordinatorAssumption ==
  /\ NoKey \notin ProjectKeys
  /\ MaxClientId \in Nat
  /\ MaxSubscriptionId \in Nat
  /\ MaxNow \in Nat
  /\ LeaseTimeout \in Nat

VARIABLES
  state,              \* coordinator->state, or "FREED" after coordinator_free
  permanent,          \* coordinator->permanent
  hooks,              \* the hooks that are not NULL
  clients,            \* ids on coordinator->clients
  heartbeat,          \* client->last_heartbeat_ms of each connected client
  lastClientId,
  lastSubscriptionId,
  jobs,               \* job objects by address
  jobSubs,            \* the subscription lists of all jobs
  watches,            \* watch objects by address
  watchSubs,          \* the subscription lists of all watches
  pending,            \* hook invocations that a thread still owes
  callbackCount       \* coordinator->callback_count

setupVars    == <<permanent, hooks>>
clientVars   == <<state, clients, heartbeat>>
idVars       == <<lastClientId, lastSubscriptionId>>
jobVars      == <<jobs, jobSubs>>
watchVars    == <<watches, watchSubs>>
callbackVars == <<pending, callbackCount>>
vars == <<setupVars, clientVars, idVars, jobVars, watchVars, callbackVars>>
-----------------------------------------------------------------------------
ClientId       == 1 .. MaxClientId
SubscriptionId == 1 .. MaxSubscriptionId
Clock          == 0 .. MaxNow

Job   == [place    : {"unused", "listed", "detached", "freed"},
          key      : ProjectKeys \cup {NoKey},
          state    : {"NONE", "RUNNING", "CANCEL_REQUESTED", "REAPING"},
          inflight : BOOLEAN]
Watch == [place : {"unused", "listed", "released", "freed"},
          key   : ProjectKeys \cup {NoKey}]

NoJob   == [place |-> "unused", key |-> NoKey, state |-> "NONE",
            inflight |-> FALSE]
NoWatch == [place |-> "unused", key |-> NoKey]

Subscription == [id : SubscriptionId, client : ClientId, object : SubscriptionId]
Callback     == [thread : Threads, hook : {"cancel_job", "release_watch"},
                 object : SubscriptionId, stage : {"queued", "called"}]

Listed(objects)   == {o \in SubscriptionId : objects[o].place = "listed"}
SubsOf(subs, o)   == {s \in subs : s.object = o}
Idle(t)           == \A p \in pending : p.thread # t
-----------------------------------------------------------------------------
Init ==
  /\ state = "RUNNING"
  /\ permanent = FALSE
  /\ hooks = {}
  /\ clients = {}
  /\ heartbeat = [c \in ClientId |-> 0]
  /\ lastClientId = 0
  /\ lastSubscriptionId = 0
  /\ jobs = [o \in SubscriptionId |-> NoJob]
  /\ jobSubs = {}
  /\ watches = [o \in SubscriptionId |-> NoWatch]
  /\ watchSubs = {}
  /\ pending = {}
  /\ callbackCount = 0

(* set_permanent and set_hooks are called while the generation is set up,  *)
(* before it serves a connection.                                          *)
SetPermanent(flag) ==
  /\ state # "FREED"
  /\ lastClientId = 0
  /\ permanent' = flag
  /\ UNCHANGED <<hooks, clientVars, idVars, jobVars, watchVars, callbackVars>>

SetHooks(installed) ==
  /\ state # "FREED"
  /\ lastClientId = 0
  /\ hooks' = installed
  /\ UNCHANGED <<permanent, clientVars, idVars, jobVars, watchVars,
                 callbackVars>>
-----------------------------------------------------------------------------
(* Variant: the limit is not checked.                                      *)
IssueClientIdUnchecked == lastClientId' = lastClientId + 1

IssueClientId ==
  /\ lastClientId # MaxClientId
  /\ lastClientId' = lastClientId + 1

IssueSubscriptionId ==
  /\ lastSubscriptionId # MaxSubscriptionId
  /\ lastSubscriptionId' = lastSubscriptionId + 1

Admitting == state = "RUNNING"

ClientConnected(now) ==
  /\ Admitting
  /\ IssueClientId
  /\ clients' = clients \cup {lastClientId'}
  /\ heartbeat' = [heartbeat EXCEPT ![lastClientId'] = now]
  /\ UNCHANGED <<state, setupVars, lastSubscriptionId, jobVars, watchVars,
                 callbackVars>>

NewerHeartbeat(c, now) == now > heartbeat[c]

ClientHeartbeat(c, now) ==
  /\ c \in clients
  /\ NewerHeartbeat(c, now)
  /\ heartbeat' = [heartbeat EXCEPT ![c] = now]
  /\ UNCHANGED <<state, clients, setupVars, idVars, jobVars, watchVars,
                 callbackVars>>
-----------------------------------------------------------------------------
(* Variant: any leaving subscriber cancels the job.                        *)
OrphanedByAnyone(candidates, keptSubs) ==
  {o \in candidates : jobs[o].state = "RUNNING" /\ SubsOf(jobSubs, o) # {}}

(* request_job_cancel_locked on every job of `candidates': the running     *)
(* ones that keep no subscription lose their state, and with a cancel hook *)
(* installed each of them is put on the batch of the calling thread.       *)
Orphaned(candidates, keptSubs) ==
  {o \in candidates : jobs[o].state = "RUNNING" /\ SubsOf(keptSubs, o) = {}}

RequestJobCancel(orphans) ==
  jobs' = [o \in SubscriptionId |->
             IF o \in orphans
               THEN [jobs[o] EXCEPT !.state = "CANCEL_REQUESTED",
                                    !.inflight = "cancel_job" \in hooks]
               ELSE jobs[o]]

Unwatched(candidates, keptSubs) ==
  {o \in candidates : SubsOf(keptSubs, o) = {}}

(* Unlinking an unwatched watch and queue_watch_release_locked; without a  *)
(* release hook the same call of callback_batch_run only frees it.         *)
QueueWatchRelease(orphans) ==
  watches' = [o \in SubscriptionId |->
                IF o \in orphans
                  THEN [watches[o] EXCEPT !.place =
                          IF "release_watch" \in hooks THEN "released"
                                                       ELSE "freed"]
                  ELSE watches[o]]

Owed(t, hook, orphans) ==
  IF hook \in hooks
    THEN [thread : {t}, hook : {hook}, object : orphans, stage : {"queued"}]
    ELSE {}

(* The batch a thread leaves the mutex with, and its account.              *)
QueueCallbacks(t, orphanJobs, orphanWatches) ==
  LET batch == Owed(t, "cancel_job", orphanJobs)
               \cup Owed(t, "release_watch", orphanWatches)
  IN  /\ pending' = pending \cup batch
      /\ callbackCount' = callbackCount + Cardinality(batch)

(* remove_client_subscriptions_locked for every client of `gone'.          *)
RemoveClientSubs(subs, gone) == {s \in subs : s.client \notin gone}

(* release_client_locked for every client of `gone', in one critical       *)
(* section: subscriptions are dropped, orphans cancelled or released, and  *)
(* the last client of a coordinator that is not permanent stops it.        *)
ReleaseClients(t, gone) ==
  LET keptJobSubs   == RemoveClientSubs(jobSubs, gone)
      keptWatchSubs == RemoveClientSubs(watchSubs, gone)
      orphanJobs    == Orphaned(Listed(jobs), keptJobSubs)
      orphanWatches == Unwatched(Listed(watches), keptWatchSubs)
  IN  /\ clients' = clients \ gone
      /\ heartbeat' = [c \in ClientId |-> IF c \in gone THEN 0 ELSE heartbeat[c]]
      /\ jobSubs' = keptJobSubs
      /\ watchSubs' = keptWatchSubs
      /\ RequestJobCancel(orphanJobs)
      /\ QueueWatchRelease(orphanWatches)
      /\ QueueCallbacks(t, orphanJobs, orphanWatches)
      /\ state' = IF clients' = {} /\ ~permanent THEN "STOPPING" ELSE state

ClientDisconnected(t, c) ==
  /\ Idle(t)
  /\ c \in clients
  /\ ReleaseClients(t, {c})
  /\ UNCHANGED <<setupVars, idVars>>

(* The unsigned subtraction of pmm_daemon_expire_leases.                   *)
Elapsed(now, then) == (now - then) % (MaxNow + 1)

(* Variant: a clock read before the heartbeat wraps around.                *)
LeaseExpiredWrapping(c, now) == Elapsed(now, heartbeat[c]) >= LeaseTimeout

LeaseExpired(c, now) ==
  /\ now >= heartbeat[c]
  /\ Elapsed(now, heartbeat[c]) >= LeaseTimeout

ExpireLeases(t, now) ==
  /\ Idle(t)
  /\ \E c \in clients : LeaseExpired(c, now)
  /\ ReleaseClients(t, {c \in clients : LeaseExpired(c, now)})
  /\ UNCHANGED <<setupVars, idVars>>
-----------------------------------------------------------------------------
JobFor(key)   == {o \in Listed(jobs) : jobs[o].key = key}
WatchFor(key) == {o \in Listed(watches) : watches[o].key = key}

JobSubscribeStart(c, key) ==
  /\ Admitting
  /\ c \in clients
  /\ JobFor(key) = {}
  /\ IssueSubscriptionId
  /\ LET id == lastSubscriptionId' IN
       /\ jobs' = [jobs EXCEPT ![id] = [place |-> "listed", key |-> key,
                                        state |-> "RUNNING", inflight |-> FALSE]]
       /\ jobSubs' = jobSubs \cup {[id |-> id, client |-> c, object |-> id]}
  /\ UNCHANGED <<setupVars, clientVars, lastClientId, watchVars, callbackVars>>

JobSubscribeJoin(c, key) ==
  /\ Admitting
  /\ c \in clients
  /\ \E o \in JobFor(key) :
       /\ jobs[o].state = "RUNNING"
       /\ IssueSubscriptionId
       /\ jobSubs' = jobSubs \cup
            {[id |-> lastSubscriptionId', client |-> c, object |-> o]}
  /\ UNCHANGED <<setupVars, clientVars, lastClientId, jobs, watchVars,
                 callbackVars>>

WatchSubscribeStart(c, key) ==
  /\ Admitting
  /\ c \in clients
  /\ WatchFor(key) = {}
  /\ IssueSubscriptionId
  /\ LET id == lastSubscriptionId' IN
       /\ watches' = [watches EXCEPT ![id] = [place |-> "listed", key |-> key]]
       /\ watchSubs' = watchSubs \cup {[id |-> id, client |-> c, object |-> id]}
  /\ UNCHANGED <<setupVars, clientVars, lastClientId, jobVars, callbackVars>>

WatchSubscribeJoin(c, key) ==
  /\ Admitting
  /\ c \in clients
  /\ \E o \in WatchFor(key) :
       /\ IssueSubscriptionId
       /\ watchSubs' = watchSubs \cup
            {[id |-> lastSubscriptionId', client |-> c, object |-> o]}
  /\ UNCHANGED <<setupVars, clientVars, lastClientId, jobVars, watches,
                 callbackVars>>

JobUnsubscribe(t, c, id) ==
  /\ Idle(t)
  /\ c \in clients
  /\ \E s \in jobSubs :
       /\ s.id = id
       /\ s.client = c
       /\ LET orphans == Orphaned({s.object}, jobSubs \ {s}) IN
            /\ jobSubs' = jobSubs \ {s}
            /\ RequestJobCancel(orphans)
            /\ QueueCallbacks(t, orphans, {})
  /\ UNCHANGED <<setupVars, clientVars, idVars, watchVars>>

WatchUnsubscribe(t, c, id) ==
  /\ Idle(t)
  /\ c \in clients
  /\ \E s \in watchSubs :
       /\ s.id = id
       /\ s.client = c
       /\ LET orphans == Unwatched({s.object}, watchSubs \ {s}) IN
            /\ watchSubs' = watchSubs \ {s}
            /\ QueueWatchRelease(orphans)
            /\ QueueCallbacks(t, {}, orphans)
  /\ UNCHANGED <<setupVars, clientVars, idVars, jobVars>>
-----------------------------------------------------------------------------
JobReaping(key) ==
  /\ \E o \in JobFor(key) :
       /\ jobs[o].state = "CANCEL_REQUESTED"
       /\ jobs' = [jobs EXCEPT ![o].state = "REAPING"]
  /\ UNCHANGED <<setupVars, clientVars, idVars, jobSubs, watchVars,
                 callbackVars>>

(* Variant: the supervisor frees a job whose cancel hook is still owed.    *)
FreedAtOnce(o) == "freed"

PlaceAfterTerminal(o) == IF jobs[o].inflight THEN "detached" ELSE "freed"

(* terminal_job_locked: the job leaves the list with its subscriptions; a  *)
(* job whose cancel hook is owed is left for callback_batch_run to free.   *)
TerminalJob(o) ==
  /\ jobs' = [jobs EXCEPT ![o].place = PlaceAfterTerminal(o)]
  /\ jobSubs' = jobSubs \ SubsOf(jobSubs, o)
  /\ UNCHANGED <<setupVars, clientVars, idVars, watchVars, callbackVars>>

(* Variant: reaping must have been reported first.                         *)
JobReapedAfterReaping(key) ==
  \E o \in JobFor(key) : jobs[o].state = "REAPING" /\ TerminalJob(o)

JobReaped(key) ==
  \E o \in JobFor(key) : jobs[o].state # "RUNNING" /\ TerminalJob(o)

JobCompleted(key) ==
  \E o \in JobFor(key) : TerminalJob(o)
-----------------------------------------------------------------------------
(* callback_batch_run: jobs first, then watches, one hook at a time.  The  *)
(* order within one kind is the order of the intrusive lists and is left   *)
(* open here.                                                              *)
CallHook(p) ==
  /\ p.stage = "queued"
  /\ \A q \in pending : q.thread = p.thread =>
       /\ q.stage = "queued"
       /\ p.hook = "release_watch" => q.hook = "release_watch"
  /\ pending' = (pending \ {p}) \cup {[p EXCEPT !.stage = "called"]}
  /\ UNCHANGED <<setupVars, clientVars, idVars, jobVars, watchVars,
                 callbackCount>>

PlaceAfterHook(o) == IF jobs[o].place = "detached" THEN "freed" ELSE jobs[o].place

FinishCancelJob(p) ==
  /\ p.stage = "called"
  /\ p.hook = "cancel_job"
  /\ pending' = pending \ {p}
  /\ callbackCount' = callbackCount - 1
  /\ jobs' = [jobs EXCEPT ![p.object].inflight = FALSE,
                          ![p.object].place = PlaceAfterHook(p.object)]
  /\ UNCHANGED <<setupVars, clientVars, idVars, jobSubs, watchVars>>

FinishReleaseWatch(p) ==
  /\ p.stage = "called"
  /\ p.hook = "release_watch"
  /\ pending' = pending \ {p}
  /\ callbackCount' = callbackCount - 1
  /\ watches' = [watches EXCEPT ![p.object].place = "freed"]
  /\ UNCHANGED <<setupVars, clientVars, idVars, jobVars, watchSubs>>

(* Variant: hooks that are still owed do not delay the exit.               *)
ShouldExitEarly ==
  /\ state = "STOPPING"
  /\ clients = {}
  /\ Listed(jobs) = {}
  /\ Listed(watches) = {}

ShouldExit ==
  /\ state = "STOPPING"
  /\ clients = {}
  /\ Listed(jobs) = {}
  /\ Listed(watches) = {}
  /\ callbackCount = 0

(* coordinator_free; its caller has joined every thread that may enter.    *)
CoordinatorFree ==
  /\ state # "FREED"
  /\ \A t \in Threads : Idle(t)
  /\ state' = "FREED"
  /\ clients' = {}
  /\ heartbeat' = [c \in ClientId |-> 0]
  /\ jobSubs' = {}
  /\ watchSubs' = {}
  /\ jobs' = [o \in SubscriptionId |->
                IF o \in Listed(jobs) THEN [jobs[o] EXCEPT !.place = "freed"]
                                      ELSE jobs[o]]
  /\ watches' = [o \in SubscriptionId |->
                   IF o \in Listed(watches)
                     THEN [watches[o] EXCEPT !.place = "freed"]
                     ELSE watches[o]]
  /\ UNCHANGED <<setupVars, idVars, callbackVars>>

Next ==
  \/ \E flag \in BOOLEAN : SetPermanent(flag)
  \/ \E installed \in SUBSET {"cancel_job", "release_watch"} : SetHooks(installed)
  \/ \E now \in Clock : ClientConnected(now)
  \/ \E c \in ClientId, now \in Clock : ClientHeartbeat(c, now)
  \/ \E t \in Threads, c \in ClientId : ClientDisconnected(t, c)
  \/ \E t \in Threads, now \in Clock : ExpireLeases(t, now)
  \/ \E c \in ClientId, key \in ProjectKeys : JobSubscribeStart(c, key)
  \/ \E c \in ClientId, key \in ProjectKeys : JobSubscribeJoin(c, key)
  \/ \E c \in ClientId, key \in ProjectKeys : WatchSubscribeStart(c, key)
  \/ \E c \in ClientId, key \in ProjectKeys : WatchSubscribeJoin(c, key)
  \/ \E t \in Threads, c \in ClientId, id \in SubscriptionId : JobUnsubscribe(t, c, id)
  \/ \E t \in Threads, c \in ClientId, id \in SubscriptionId : WatchUnsubscribe(t, c, id)
  \/ \E key \in ProjectKeys : JobReaping(key)
  \/ \E key \in ProjectKeys : JobReaped(key)
  \/ \E key \in ProjectKeys : JobCompleted(key)
  \/ \E p \in pending : CallHook(p)
  \/ \E p \in pending : FinishCancelJob(p)
  \/ \E p \in pending : FinishReleaseWatch(p)
  \/ CoordinatorFree

Spec == Init /\ [][Next]_vars

(* A thread that owes hooks keeps running, a hook returns, and the         *)
(* supervisor of a job that is being cancelled reports it reaped.          *)
Fairness ==
  /\ \A t \in Threads :
       /\ WF_vars(\E p \in pending : p.thread = t /\ CallHook(p))
       /\ WF_vars(\E p \in pending : p.thread = t /\ FinishCancelJob(p))
       /\ WF_vars(\E p \in pending : p.thread = t /\ FinishReleaseWatch(p))
  /\ \A key \in ProjectKeys : WF_vars(JobReaped(key))

FairSpec == Spec /\ Fairness
-----------------------------------------------------------------------------
(* Types of all variables.                                                 *)
TypeOK ==
  /\ state \in {"RUNNING", "STOPPING", "FREED"}
  /\ permanent \in BOOLEAN
  /\ hooks \subseteq {"cancel_job", "release_watch"}
  /\ clients \subseteq 1 .. lastClientId
  /\ heartbeat \in [ClientId -> Clock]
  /\ lastClientId \in 0 .. MaxClientId
  /\ lastSubscriptionId \in 0 .. MaxSubscriptionId
  /\ jobs \in [SubscriptionId -> Job]
  /\ jobSubs \subseteq Subscription
  /\ watches \in [SubscriptionId -> Watch]
  /\ watchSubs \subseteq Subscription
  /\ pending \subseteq Callback
  /\ callbackCount \in Nat

(* A subscription belongs to a connected client and to an object that is   *)
(* still on its list: no client leaves, and no object is unlinked, with a  *)
(* subscription left behind that points to it.                             *)
NoDanglingSubscription ==
  /\ \A s \in jobSubs \cup watchSubs : s.client \in clients
  /\ \A s \in jobSubs : s.object \in Listed(jobs)
  /\ \A s \in watchSubs : s.object \in Listed(watches)

(* A job runs exactly as long as somebody is subscribed to it, whichever   *)
(* way its subscribers left: unsubscribe, disconnect or expired lease.  A  *)
(* watch is on the list exactly as long as it is subscribed.               *)
WorkIffSubscribed ==
  /\ \A o \in Listed(jobs) :
       jobs[o].state = "RUNNING" <=> SubsOf(jobSubs, o) # {}
  /\ \A o \in Listed(watches) : SubsOf(watchSubs, o) # {}

(* Two clients that ask for one project share one job and one watch.       *)
OneObjectPerKey ==
  \A o1, o2 \in SubscriptionId :
    /\ {o1, o2} \subseteq Listed(jobs) /\ jobs[o1].key = jobs[o2].key => o1 = o2
    /\ {o1, o2} \subseteq Listed(watches) /\ watches[o1].key = watches[o2].key
         => o1 = o2

(* A handle names one subscription of one kind, so an unsubscribe cannot   *)
(* remove the subscription of somebody else, even at the id limit.         *)
UniqueHandles ==
  \A s1, s2 \in jobSubs \cup watchSubs :
    s1.id = s2.id => s1 = s2 /\ ~(s1 \in jobSubs /\ s2 \in watchSubs)

(* Subscriptions, and with them the work of the daemon, are exact.         *)
SubscriptionsExact ==
  NoDanglingSubscription /\ WorkIffSubscribed /\ OneObjectPerKey /\ UniqueHandles

(* The hook that callback_batch_run is about to call, or has called and    *)
(* not accounted for, refers to an object that nobody has freed: the       *)
(* supervisor's terminal report and the hook agree on who frees a job.     *)
NoUseAfterFree ==
  \A p \in pending :
    IF p.hook = "cancel_job" THEN jobs[p.object].place \in {"listed", "detached"}
                             ELSE watches[p.object].place = "released"

(* An unlinked object that is not freed yet has a hook that will free it.  *)
NothingLeaks ==
  \A o \in SubscriptionId :
    /\ jobs[o].place = "detached" =>
         \E p \in pending : p.hook = "cancel_job" /\ p.object = o
    /\ watches[o].place = "released" =>
         \E p \in pending : p.hook = "release_watch" /\ p.object = o

(* callback_count is the number of hooks that are owed by all threads.     *)
CallbackAccounting == callbackCount = Cardinality(pending)

(* An object is freed once, by whoever sees it last, and every hook that   *)
(* is owed is known to should_exit.                                        *)
ObjectLifetimes == NoUseAfterFree /\ NothingLeaks /\ CallbackAccounting

(* pmm_daemon_should_exit answers true only when nothing of the            *)
(* generation is left: no thread owes a hook, not even for a job that the  *)
(* supervisor has already unlinked, and no object waits to be freed.       *)
ExitMeansQuiescent ==
  ShouldExit =>
    /\ pending = {}
    /\ jobSubs = {} /\ watchSubs = {}
    /\ \A o \in SubscriptionId : /\ jobs[o].place \in {"unused", "freed"}
                                 /\ watches[o].place \in {"unused", "freed"}

(* The lease sweep only takes clients whose last heartbeat is really       *)
(* LeaseTimeout old, although the clock it was given may have been read    *)
(* before a heartbeat that is already recorded.                            *)
SweepSparesFreshClients ==
  [][\A t \in Threads, now \in Clock :
       ExpireLeases(t, now) =>
         \A c \in clients \ clients' : heartbeat[c] + LeaseTimeout <= now]_vars

(* Once the last client has left, the generation becomes ready to exit.    *)
StoppingLeadsToExit == (state = "STOPPING") ~> (ShouldExit \/ state = "FREED")
=============================================================================
