------------------------- MODULE DaemonApplication -------------------------
(***************************************************************************)
(* The daemon's application layer, src/src/daemon/application.c: client    *)
(* sessions with at most one request each, physical index jobs shared by   *)
(* their subscribers, project mutations that exclude jobs, logical         *)
(* watches, background auto-indexing with its retry, and shutdown.         *)
(*                                                                         *)
(* Every action but the worker's own is one critical section under         *)
(* application->mutex.  The one loop that runs under the mutex and admits  *)
(* further jobs, the retry at the end of a publication, takes a step per   *)
(* session; unvisited holds the sessions it has still to visit, and while  *)
(* it is not empty the mutex is owned and no other critical section runs.  *)
(* The loop follows the session list; the model lets it take any order.    *)
(*                                                                         *)
(* A project stands for a project key and its root; a session's context    *)
(* fixes its project, Home[s].  All sessions have the full tool profile.   *)
(***************************************************************************)
EXTENDS Naturals, FiniteSets

CONSTANTS
  Sessions,     \* client sessions
  Projects,     \* projects that can be indexed
  Star,         \* the key "*", which conflicts with every key
  Home,         \* the project of a session's context
  Watcher,      \* the watcher's polling thread
  Nothing,      \* the null pointer
  Indexed,      \* the projects whose database exists at the start
  MaxJob,       \* job objects that can be linked at a time
  JobLimit,     \* physical_job_limit
  MaxAttempts,  \* worker attempts of one job (first run and recoveries)
  Requests,     \* what the requests of a session may ask for
  MaxRequests,  \* requests of one session: a bound of the model
  MaxPolls,     \* polls of the watcher's thread: a bound of the model
  MaxFaults,    \* failed subscriptions and allocations: a bound of the model
  Permanent     \* the daemon was started with "daemon start"

Jobs == 1..MaxJob
Actors == Sessions \cup {Watcher}
Keys == Projects \cup {Star}
Options == {"default", "custom"}
Kinds == {"initialize", "index", "mutate"}

ASSUME ConstantsAssumption ==
  /\ IsFiniteSet(Sessions)
  /\ Home \in [Sessions -> Projects]
  /\ Watcher \notin Sessions
  /\ Requests \in [Sessions -> SUBSET [kind : Kinds, key : Keys, options : Options]]
  /\ \A s \in Sessions : \A r \in Requests[s] : r.kind = "index" => r.key \in Projects
  /\ Star \notin Projects /\ Nothing \notin Projects /\ Indexed \subseteq Projects
  /\ Nothing \notin Jobs
  /\ MaxJob \in Nat /\ JobLimit \in Nat \ {0} /\ MaxAttempts \in Nat \ {0}
  /\ MaxRequests \in Nat /\ MaxPolls \in Nat /\ MaxFaults \in Nat
  /\ Permanent \in BOOLEAN

VARIABLES
  stopping,    \* application->stopping
  session,     \* the session objects
  job,         \* the job objects and where their threads are
  owners,      \* application->watch_job_subscriptions
  pc,          \* where the thread of an actor is
  arg,         \* what it works on
  lease,       \* it owns the native project lock
  leaving,     \* the connection thread: a session's disconnect
  host,        \* pmm_daemon_application_shutdown
  db,          \* the project database exists
  polls,       \* polls the watcher's thread has made
  unvisited,   \* sessions the publishing thread has still to visit
  faults

vars == <<stopping, session, job, owners, pc, arg, lease, leaving,
          host, db, polls, unvisited, faults>>

-----------------------------------------------------------------------------
NoSession ==
  [life |-> "new", cancelled |-> FALSE, issued |-> 0, token |-> 0,
   cancelToken |-> 0, active |-> Nothing, auto |-> Nothing, initialize |-> FALSE,
   eligible |-> FALSE, evaluated |-> FALSE, retry |-> FALSE, watch |-> FALSE]

NoJob ==
  [linked |-> FALSE, project |-> Nothing, options |-> "default", subs |-> 0,
   waiter |-> FALSE, cancelReq |-> FALSE, terminal |-> FALSE,
   successful |-> FALSE, thread |-> "none", result |-> "none", attempt |-> 0]

NoArg == [key |-> Nothing, options |-> "default", job |-> Nothing]

Threads == {"none", "waiting", "starting", "running", "ended", "publishing", "done"}

Session ==
  [life : {"new", "open", "closed"}, cancelled : BOOLEAN, issued : 0..MaxRequests,
   token : 0..MaxRequests, cancelToken : 0..MaxRequests,
   active : Jobs \cup {Nothing}, auto : Jobs \cup {Nothing}, initialize : BOOLEAN,
   eligible : BOOLEAN, evaluated : BOOLEAN, retry : BOOLEAN, watch : BOOLEAN]

Job ==
  [linked : BOOLEAN, project : Projects \cup {Nothing}, options : Options,
   subs : Nat, waiter : BOOLEAN, cancelReq : BOOLEAN, terminal : BOOLEAN,
   successful : BOOLEAN, thread : Threads,
   result : {"none", "success", "crash", "killed", "cancelled", "failed"},
   attempt : 0..MaxAttempts]

TypeOK ==
  /\ stopping \in BOOLEAN
  /\ session \in [Sessions -> Session]
  /\ job \in [Jobs -> Job]
  /\ owners \subseteq Sessions \X Jobs
  /\ pc \in [Actors -> {"idle", "admitted", "subscribe", "bind", "wait", "reserve",
                        "lease", "held", "pruned", "release", "refresh", "finish",
                        "probe", "background", "rewatch"}]
  /\ arg \in [Actors -> [key : Keys \cup {Nothing}, options : Options,
                         job : Jobs \cup {Nothing}]]
  /\ lease \in [Actors -> BOOLEAN]
  /\ leaving \in [Sessions -> [pc : {"no", "joining", "left"}, job : Jobs \cup {Nothing}]]
  /\ host \in {"running", "draining", "quiet"}
  /\ db \in [Projects -> BOOLEAN]
  /\ polls \in 0..MaxPolls
  /\ unvisited \subseteq Sessions
  /\ faults \in 0..MaxFaults

Init ==
  /\ stopping = FALSE
  /\ session = [s \in Sessions |-> NoSession]
  /\ job = [j \in Jobs |-> NoJob]
  /\ owners = {}
  /\ pc = [a \in Actors |-> "idle"]
  /\ arg = [a \in Actors |-> NoArg]
  /\ lease = [a \in Actors |-> FALSE]
  /\ leaving = [s \in Sessions |-> [pc |-> "no", job |-> Nothing]]
  /\ host = "running"
  /\ db = [p \in Projects |-> p \in Indexed]
  /\ polls = 0
  /\ unvisited = {}
  /\ faults = 0

MutexFree == unvisited = {}
Linked(s) == session[s].life = "open"

Conflict(k, l) == k = l \/ k = Star \/ l = Star

\* application_request_cancelled_locked
RequestCancelled(s) ==
  \/ session[s].cancelled
  \/ session[s].token # 0 /\ session[s].cancelToken = session[s].token

Active(js) == {j \in Jobs : js[j].linked /\ ~js[j].terminal}
ActiveOf(js, p) == {j \in Active(js) : js[j].project = p}

\* The reservations of application->mutations, by the thread that made them.
Reserved(a) == pc[a] \in {"lease", "held", "pruned", "release"}
MutationConflicts(k) == \E a \in Actors : Reserved(a) /\ Conflict(arg[a].key, k)
JobReserves(k) == \E j \in Active(job) : Conflict(job[j].project, k)

\* application_job_unsubscribe_locked, n times on one job.
Unsubscribed(r, n) ==
  [r EXCEPT !.subs = IF @ > n THEN @ - n ELSE 0,
            !.cancelReq = @ \/ (r.subs \in 1..n /\ ~r.terminal)]

\* application_jobs_reap_completed
Reaped(js) ==
  [j \in Jobs |-> IF js[j].thread = "done" /\ js[j].subs = 0 /\ ~js[j].waiter
                  THEN NoJob ELSE js[j]]

-----------------------------------------------------------------------------
(* application_job_subscribe_locked: the possible outcomes of asking for a *)
(* job of project p with options o.                                        *)

Refused(js, status) == [job |-> Nothing, status |-> status, jobs |-> js]

Created(js, p, o) ==
  LET j == CHOOSE i \in Jobs : ~js[i].linked
  IN  [job |-> j, status |-> "ok",
       jobs |-> [js EXCEPT ![j] = [NoJob EXCEPT !.linked = TRUE, !.project = p,
                                                !.options = o, !.subs = 1,
                                                !.thread = "waiting"]]]

Subscriptions(js, p, o) ==
  LET current == ActiveOf(js, p)
  IN  CASE stopping -> {Refused(js, "unavailable")}
        [] ~stopping /\ current # {} ->
             {IF js[j].cancelReq THEN Refused(js, "cancelling")
              ELSE IF js[j].options # o THEN Refused(js, "conflict")
              ELSE [job |-> j, status |-> "ok", jobs |-> [js EXCEPT ![j].subs = @ + 1]] :
                j \in current}
        [] ~stopping /\ current = {} /\ Cardinality(Active(js)) >= JobLimit ->
             {Refused(js, "busy")}
        [] OTHER ->
             (IF \E j \in Jobs : ~js[j].linked THEN {Created(js, p, o)} ELSE {})
               \cup (IF faults < MaxFaults THEN {Refused(js, "failed")} ELSE {})

FaultsAfter(x) == IF x.status = "failed" THEN faults + 1 ELSE faults

-----------------------------------------------------------------------------
(* Watches.  watch entry of p = the sessions of p whose watch flag is set. *)
(* The operators below map a record of the session objects, the job        *)
(* objects and the watch-job subscriptions.                                *)

Watchers(ss, p) == {s \in Sessions : ss[s].watch /\ Home[s] = p}

(* Variant: a session that leaves cancels the watcher's job it owns.        *)
DisownedCancelling(st, S) ==
  LET gone == {o \in st.owners : o[1] \in S}
  IN  [st EXCEPT !.owners = @ \ gone,
                 !.job = [j \in Jobs |->
                    LET n == Cardinality({o \in gone : o[2] = j})
                    IN  IF n = 0 THEN st.job[j]
                        ELSE [Unsubscribed(st.job[j], n) EXCEPT
                                !.cancelReq = @ \/ ~st.job[j].terminal]]]

\* application_watch_job_unsubscribe_session_locked, for the sessions of S
Disowned(st, S) ==
  LET gone == {o \in st.owners : o[1] \in S}
  IN  [st EXCEPT !.owners = @ \ gone,
                 !.job = [j \in Jobs |->
                    LET n == Cardinality({o \in gone : o[2] = j})
                    IN  IF n = 0 THEN st.job[j] ELSE Unsubscribed(st.job[j], n)]]

\* The sessions of S lose their watch: application_release_session_watch_locked
\* for one session, application_remove_watch_entry_locked for all of a project.
Unwatched(st, S) ==
  LET d == Disowned(st, {s \in S : st.session[s].watch})
  IN  [d EXCEPT !.session = [s \in Sessions |->
         IF s \in S THEN [st.session[s] EXCEPT !.watch = FALSE] ELSE st.session[s]]]

\* application_watch_job_subscribe_sessions_locked and its late form: the
\* sessions of S become owners of j.
Owned(st, S, j) ==
  LET new == {s \in S : <<s, j>> \notin st.owners}
  IN  [st EXCEPT !.owners = @ \cup {<<s, j>> : s \in new}, 
                    !.job = [st.job EXCEPT ![j].subs = @ + Cardinality(new)]]

(* Variant: the new watchers do not join the watcher's running job.        *)
RefreshedWithoutJob(st, S, p) ==
  LET able == {s \in S : /\ st.session[s].auto = Nothing
                         /\ ~stopping /\ ~RequestCancelled(s)}
  IN  CASE able = {} -> st
        [] able # {} /\ ~db[p] -> Unwatched(st, Watchers(st.session, p))
        [] OTHER -> [st EXCEPT !.session = [s \in Sessions |->
                       IF s \in able THEN [st.session[s] EXCEPT !.watch = TRUE]
                       ELSE st.session[s]]]

\* application_refresh_watch_locked, for sessions S of one project p
Refreshed(st, S, p) ==
  LET able == {s \in S : /\ st.session[s].auto = Nothing
                         /\ ~stopping /\ ~RequestCancelled(s)}
      new  == {s \in able : ~st.session[s].watch}
      late == {j \in ActiveOf(st.job, p) : st.job[j].waiter}
      base == IF Watchers(st.session, p) # {} /\ late # {}
              THEN Owned(st, new, CHOOSE j \in late : TRUE) ELSE st
  IN  CASE able = {} -> st
        [] able # {} /\ ~db[p] -> Unwatched(st, Watchers(st.session, p))
        [] OTHER -> [base EXCEPT !.session = [s \in Sessions |->
                       IF s \in new THEN [st.session[s] EXCEPT !.watch = TRUE]
                       ELSE st.session[s]]]

Shared == [session |-> session, job |-> job, owners |-> owners]
Install(st) == session' = st.session /\ job' = st.job /\ owners' = st.owners

-----------------------------------------------------------------------------
(* Sessions and requests.                                                  *)

\* application_session_open, and the SET_CONTEXT request that follows
SessionOpen(s) ==
  /\ MutexFree
  /\ session[s].life = "new" /\ ~stopping
  /\ session' = [session EXCEPT ![s].life = "open"]
  /\ UNCHANGED <<stopping, job, owners, pc, arg, lease, leaving, host, db, polls, unvisited, faults>>

\* runtime_worker_handle_application starts the thread of a request whose
\* token is new, once the thread before it has ended.
RequestAdmit(s) ==
  /\ Linked(s) /\ leaving[s].pc = "no"
  /\ pc[s] = "idle" /\ session[s].issued < MaxRequests
  /\ session' = [session EXCEPT ![s].issued = @ + 1]
  /\ pc' = [pc EXCEPT ![s] = "admitted"]
  /\ UNCHANGED <<stopping, job, owners, arg, lease, leaving, host, db, polls, unvisited, faults>>

\* application_request up to its dispatch
RequestEnter(s) ==
  LET token == session[s].issued
      entered == [session EXCEPT ![s].token = token,
                    ![s].cancelToken = IF @ = token THEN @ ELSE 0]
  IN
  /\ pc[s] = "admitted" /\ MutexFree
  /\ \/ /\ stopping \/ session[s].cancelled
        /\ pc' = [pc EXCEPT ![s] = "idle"]
        /\ UNCHANGED <<session, arg>>
     \/ /\ ~stopping /\ ~session[s].cancelled
        /\ session[s].cancelToken = token
        /\ session' = entered
        /\ pc' = [pc EXCEPT ![s] = "finish"]
        /\ UNCHANGED arg
     \/ /\ ~stopping /\ ~session[s].cancelled
        /\ session[s].cancelToken # token
        /\ \E r \in Requests[s] :
             /\ session' = [entered EXCEPT ![s].initialize = r.kind = "initialize"]
             /\ pc' = [pc EXCEPT ![s] = CASE r.kind = "initialize" -> "refresh"
                                          [] r.kind = "index" -> "subscribe"
                                          [] r.kind = "mutate" -> "reserve"]
             /\ arg' = IF r.kind = "initialize" THEN arg
                       ELSE [arg EXCEPT ![s] = [NoArg EXCEPT !.key = r.key,
                                                             !.options = r.options]]
  /\ UNCHANGED <<stopping, job, owners, lease, leaving, host, db, polls, unvisited, faults>>

\* application_index_execute: a busy or cancelling answer is asked again
\* until the request is cancelled.
IndexSubscribe(s) ==
  /\ pc[s] = "subscribe" /\ MutexFree
  /\ \E x \in Subscriptions(Reaped(job), arg[s].key, arg[s].options) :
       /\ job' = x.jobs
       /\ faults' = FaultsAfter(x)
       /\ \/ /\ x.status \in {"busy", "cancelling"}
             /\ RequestCancelled(s)
             /\ pc' = [pc EXCEPT ![s] = "refresh"]
             /\ arg' = [arg EXCEPT ![s] = NoArg]
          \/ /\ x.status \in {"unavailable", "conflict", "failed"}
             /\ pc' = [pc EXCEPT ![s] = "refresh"]
             /\ arg' = [arg EXCEPT ![s] = NoArg]
          \/ /\ x.status = "ok"
             /\ pc' = [pc EXCEPT ![s] = "bind"]
             /\ arg' = [arg EXCEPT ![s].job = x.job]
  /\ UNCHANGED <<stopping, session, owners, lease, leaving, host, db, polls, unvisited>>

(* Variant: a cancelled request forgets the subscription it just made.     *)
IndexBindForgetful(s) ==
  /\ pc[s] = "bind" /\ MutexFree
  /\ IF RequestCancelled(s) \/ session[s].active # Nothing
     THEN /\ pc' = [pc EXCEPT ![s] = "refresh"]
          /\ arg' = [arg EXCEPT ![s] = NoArg]
          /\ UNCHANGED <<session, job>>
     ELSE /\ session' = [session EXCEPT ![s].active = arg[s].job]
          /\ pc' = [pc EXCEPT ![s] = "wait"]
          /\ UNCHANGED <<job, arg>>
  /\ UNCHANGED <<stopping, owners, lease, leaving, host, db, polls, unvisited, faults>>

\* The second critical section of application_index_execute
IndexBind(s) ==
  /\ pc[s] = "bind" /\ MutexFree
  /\ IF RequestCancelled(s) \/ session[s].active # Nothing
     THEN /\ job' = [job EXCEPT ![arg[s].job] = Unsubscribed(@, 1)]
          /\ pc' = [pc EXCEPT ![s] = "refresh"]
          /\ arg' = [arg EXCEPT ![s] = NoArg]
          /\ UNCHANGED session
     ELSE /\ session' = [session EXCEPT ![s].active = arg[s].job]
          /\ pc' = [pc EXCEPT ![s] = "wait"]
          /\ UNCHANGED <<job, arg>>
  /\ UNCHANGED <<stopping, owners, lease, leaving, host, db, polls, unvisited, faults>>

(* Variant: a request answers only from a job that succeeded.               *)
IndexWaitForSuccess(s) ==
  LET j == arg[s].job
      over == [session EXCEPT ![s].active = Nothing]
  IN
  /\ pc[s] = "wait" /\ MutexFree
  /\ \/ /\ session[s].active # j
        /\ UNCHANGED <<session, job>>
     \/ /\ session[s].active = j /\ job[j].terminal /\ job[j].successful
        /\ session' = over
        /\ job' = Reaped([job EXCEPT ![j] = Unsubscribed(@, 1)])
  /\ pc' = [pc EXCEPT ![s] = "refresh"]
  /\ arg' = [arg EXCEPT ![s] = NoArg]
  /\ UNCHANGED <<stopping, owners, lease, leaving, host, db, polls, unvisited, faults>>

\* application_job_wait_for_session
IndexWait(s) ==
  LET j == arg[s].job
      over == [session EXCEPT ![s].active = Nothing]
  IN
  /\ pc[s] = "wait" /\ MutexFree
  /\ \/ /\ session[s].active # j
        /\ UNCHANGED <<session, job>>
     \/ /\ session[s].active = j /\ job[j].terminal
        /\ session' = over
        /\ job' = Reaped([job EXCEPT ![j] = Unsubscribed(@, 1)])
  /\ pc' = [pc EXCEPT ![s] = "refresh"]
  /\ arg' = [arg EXCEPT ![s] = NoArg]
  /\ UNCHANGED <<stopping, owners, lease, leaving, host, db, polls, unvisited, faults>>

\* application_refresh_watch, at the end of application_mcp_request and of
\* application_background_initialize
RequestRefresh(s) ==
  /\ pc[s] \in {"refresh", "rewatch"} /\ MutexFree
  /\ Install(Refreshed(Shared, {s}, Home[s]))
  /\ pc' = [pc EXCEPT ![s] = IF @ = "refresh" THEN "finish" ELSE "idle"]
  /\ UNCHANGED <<stopping, arg, lease, leaving, host, db, polls, unvisited, faults>>

\* The last critical section of application_request.  No update provider is
\* installed, so every successful request of an eligible session activates
\* the background work.
RequestFinish(s) ==
  LET token == session[s].token
      cancelled == session[s].cancelled \/ session[s].cancelToken = token
      activate == ~cancelled /\ (session[s].initialize \/ session[s].eligible)
  IN
  /\ pc[s] = "finish" /\ MutexFree
  /\ session' = [session EXCEPT ![s].token = 0, ![s].initialize = FALSE,
                   ![s].cancelToken = IF @ = token THEN 0 ELSE @]
  /\ pc' = [pc EXCEPT ![s] = IF activate THEN "probe" ELSE "idle"]
  /\ UNCHANGED <<stopping, job, owners, arg, lease, leaving, host, db, polls, unvisited, faults>>

\* application_background_initialize_impl looks for the database before it
\* takes the mutex; key is set iff an index will be asked for.
BackgroundProbe(s) ==
  /\ pc[s] = "probe"
  /\ arg' = [arg EXCEPT ![s].key = IF db[Home[s]] THEN Nothing ELSE Home[s]]
  /\ pc' = [pc EXCEPT ![s] = "background"]
  /\ UNCHANGED <<stopping, session, job, owners, lease, leaving, host, db, polls,
                 unvisited, faults>>

\* Its critical section
BackgroundInitialize(s) ==
  LET attempt == /\ session[s].auto = Nothing
                 /\ ~session[s].evaluated \/ session[s].retry
      wanted == arg[s].key # Nothing
  IN
  /\ pc[s] = "background" /\ MutexFree
  /\ arg' = [arg EXCEPT ![s] = NoArg]
  /\ \/ /\ stopping \/ RequestCancelled(s)
        /\ job' = Reaped(job)
        /\ pc' = [pc EXCEPT ![s] = "idle"]
        /\ UNCHANGED <<session, faults>>
     \/ /\ ~stopping /\ ~RequestCancelled(s) /\ ~(attempt /\ wanted)
        /\ session' = [session EXCEPT ![s].eligible = TRUE,
                         ![s].evaluated = @ \/ attempt,
                         ![s].retry = @ /\ ~attempt]
        /\ job' = Reaped(job)
        /\ pc' = [pc EXCEPT ![s] = "rewatch"]
        /\ UNCHANGED faults
     \/ /\ ~stopping /\ ~RequestCancelled(s) /\ attempt /\ wanted
        /\ \E x \in Subscriptions(Reaped(job), Home[s], "default") :
             /\ session' = [session EXCEPT ![s].eligible = TRUE, ![s].evaluated = TRUE,
                              ![s].auto = x.job, ![s].retry = x.job = Nothing]
             /\ job' = x.jobs
             /\ faults' = FaultsAfter(x)
        /\ pc' = [pc EXCEPT ![s] = "rewatch"]
  /\ UNCHANGED <<stopping, owners, lease, leaving, host, db, polls, unvisited>>

\* runtime_worker_handle_application_cancel on the connection thread: the
\* token is that of the newest request, whose thread may have ended since.
RequestCancel(s) ==
  LET token == session[s].issued
      active == session[s].active
  IN
  /\ MutexFree /\ Linked(s) /\ leaving[s].pc = "no"
  /\ token # 0 /\ session[s].cancelToken # token
  /\ session[s].token \in {0, token}
  /\ session' = [session EXCEPT ![s].cancelToken = token,
                   ![s].active = IF session[s].token = token THEN Nothing ELSE @]
  /\ job' = IF session[s].token = token /\ active # Nothing
            THEN [job EXCEPT ![active] = Unsubscribed(@, 1)] ELSE job
  /\ UNCHANGED <<stopping, owners, pc, arg, lease, leaving, host, db, polls, unvisited, faults>>

\* What session_cancel and session_close release: the active job, the
\* auto-index job, which is kept for a join when this is its last
\* subscription, and the watch.
Detached(st, s) ==
  LET active == st.session[s].active
      auto == st.session[s].auto
      js == IF active = Nothing THEN st.job
            ELSE [st.job EXCEPT ![active] = Unsubscribed(@, 1)]
      last == auto # Nothing /\ ~js[auto].terminal /\ js[auto].subs = 1
  IN  [join |-> IF last THEN auto ELSE Nothing,
       st |-> Unwatched([st EXCEPT
                !.session = [st.session EXCEPT ![s].active = Nothing, ![s].auto = Nothing],
                !.job = IF auto = Nothing THEN js
                        ELSE IF last THEN [js EXCEPT ![auto].cancelReq = TRUE]
                        ELSE [js EXCEPT ![auto] = Unsubscribed(@, 1)]], {s})]

\* application_cancel_jobs_locked
AllCancelled(js) ==
  [j \in Jobs |-> IF j \in Active(js) THEN [js[j] EXCEPT !.cancelReq = TRUE] ELSE js[j]]

\* application_session_cancel up to the join of the auto-index job
SessionCancel(s) ==
  LET d == Detached(Shared, s)
      final == ~Permanent /\ \A t \in Sessions \ {s} : Linked(t) => session[t].cancelled
      js == IF final THEN AllCancelled(d.st.job) ELSE d.st.job
  IN
  /\ MutexFree /\ Linked(s) /\ leaving[s].pc = "no"
  /\ session' = [d.st.session EXCEPT ![s].cancelled = TRUE,
                   ![s].cancelToken = IF session[s].token # 0 THEN session[s].token ELSE @]
  /\ owners' = d.st.owners
  /\ stopping' = (stopping \/ final)
  /\ leaving' = [leaving EXCEPT ![s] =
                   [pc |-> IF d.join = Nothing THEN "left" ELSE "joining", job |-> d.join]]
  /\ job' = IF d.join = Nothing THEN Reaped(js) ELSE js
  /\ UNCHANGED <<pc, arg, lease, host, db, polls, unvisited, faults>>

\* application_auto_index_cancel_join
AutoIndexJoined(s) ==
  LET j == leaving[s].job IN
  /\ leaving[s].pc = "joining" /\ MutexFree
  /\ job[j].terminal /\ job[j].thread = "done"
  /\ job' = Reaped([job EXCEPT ![j] = Unsubscribed(@, 1)])
  /\ leaving' = [leaving EXCEPT ![s] = [pc |-> "left", job |-> Nothing]]
  /\ UNCHANGED <<stopping, session, owners, pc, arg, lease, host, db, polls, unvisited, faults>>

\* application_session_close, after runtime_worker_finish has joined the
\* thread of the request
SessionClose(s) ==
  LET d == Detached(Shared, s) IN
  /\ MutexFree /\ Linked(s) /\ leaving[s].pc = "left" /\ pc[s] = "idle"
  /\ session' = [d.st.session EXCEPT ![s] = [NoSession EXCEPT !.life = "closed"]]
  /\ job' = Reaped(d.st.job)
  /\ owners' = d.st.owners
  /\ UNCHANGED <<stopping, pc, arg, lease, leaving, host, db, polls, unvisited, faults>>

-----------------------------------------------------------------------------
(* Project mutations, by the threads of requests, of the watcher (a prune  *)
(* of a vanished root) and of the user interface.                          *)

Unwanted(a) == stopping \/ (a \in Sessions /\ RequestCancelled(a))
Resume(a) == IF a \in Sessions THEN "refresh" ELSE "idle"

\* The reservation of application_mutation_begin_internal.  Only a request
\* waits for it.
MutationReserve(a, k) ==
  /\ \/ pc[a] = "reserve" /\ k = arg[a].key
     \/ /\ pc[a] = "idle" /\ a = Watcher /\ polls < MaxPolls
        /\ k \in {Home[s] : s \in Sessions}
  /\ MutexFree /\ ~Unwanted(a) /\ ~MutationConflicts(k) /\ ~JobReserves(k)
  /\ pc' = [pc EXCEPT ![a] = "lease"]
  /\ arg' = [arg EXCEPT ![a].key = k]
  /\ polls' = IF pc[a] = "idle" THEN polls + 1 ELSE polls
  /\ UNCHANGED <<stopping, session, job, owners, lease, leaving, host, db,
                 unvisited, faults>>

MutationRefuse(s) ==
  /\ pc[s] = "reserve" /\ MutexFree /\ Unwanted(s)
  /\ pc' = [pc EXCEPT ![s] = "refresh"]
  /\ arg' = [arg EXCEPT ![s] = NoArg]
  /\ UNCHANGED <<stopping, session, job, owners, lease, leaving, host, db, polls,
                 unvisited, faults>>

\* The native project lock is granted and the caller still wants it.
LeaseGranted(a) ==
  /\ pc[a] = "lease" /\ MutexFree /\ ~Unwanted(a)
  /\ lease' = [lease EXCEPT ![a] = TRUE]
  /\ pc' = [pc EXCEPT ![a] = "held"]
  /\ UNCHANGED <<stopping, session, job, owners, arg, leaving, host, db, polls,
                 unvisited, faults>>

\* It is busy for a caller that does not wait, it fails, or the caller was
\* cancelled: the reservation is withdrawn.
LeaseFailed(a) ==
  /\ pc[a] = "lease" /\ MutexFree
  /\ pc' = [pc EXCEPT ![a] = Resume(a)]
  /\ arg' = [arg EXCEPT ![a] = NoArg]
  /\ UNCHANGED <<stopping, session, job, owners, lease, leaving, host, db, polls,
                 unvisited, faults>>

\* The guarded work removes the project, or finds nothing to do.
MutationWork(a) ==
  /\ pc[a] = "held"
  /\ \/ /\ arg[a].key \in Projects
        /\ db' = [db EXCEPT ![arg[a].key] = FALSE]
        /\ pc' = [pc EXCEPT ![a] = IF a = Watcher THEN "pruned" ELSE "release"]
     \/ /\ pc' = [pc EXCEPT ![a] = "release"]
        /\ UNCHANGED db
  /\ UNCHANGED <<stopping, session, job, owners, arg, lease, leaving, host, polls,
                 unvisited, faults>>

\* application_watcher_project_pruned
ProjectPruned ==
  /\ pc[Watcher] = "pruned" /\ MutexFree
  /\ Install(Unwatched(Shared, Watchers(session, arg[Watcher].key)))
  /\ pc' = [pc EXCEPT ![Watcher] = "release"]
  /\ UNCHANGED <<stopping, arg, lease, leaving, host, db, polls, unvisited, faults>>

\* pmm_daemon_application_project_mutation_end: the reservation is marked and
\* the native lease released, then the reservation is unlinked.
MutationRelease(a) ==
  /\ pc[a] = "release" /\ MutexFree /\ lease[a]
  /\ lease' = [lease EXCEPT ![a] = FALSE]
  /\ UNCHANGED <<stopping, session, job, owners, pc, arg, leaving, host, db, polls,
                 unvisited, faults>>

MutationEnd(a) ==
  /\ pc[a] = "release" /\ MutexFree /\ ~lease[a]
  /\ pc' = [pc EXCEPT ![a] = Resume(a)]
  /\ arg' = [arg EXCEPT ![a] = NoArg]
  /\ UNCHANGED <<stopping, session, job, owners, lease, leaving, host, db, polls,
                 unvisited, faults>>

-----------------------------------------------------------------------------
(* pmm_daemon_application_watcher_index: the watcher's thread asks for a   *)
(* job for a live watch.  The watch's sessions own the job, and the thread *)
(* only keeps its object until it is terminal.                             *)

WatcherIndex(p) ==
  /\ pc[Watcher] = "idle" /\ MutexFree /\ polls < MaxPolls
  /\ polls' = polls + 1
  /\ \/ /\ Watchers(session, p) = {}
        /\ job' = Reaped(job)
        /\ UNCHANGED <<owners, pc, arg, faults>>
     \/ /\ Watchers(session, p) # {}
        /\ \E x \in Subscriptions(Reaped(job), p, "default") :
             \/ /\ x.job = Nothing
                /\ job' = x.jobs /\ faults' = FaultsAfter(x)
                /\ UNCHANGED <<owners, pc, arg>>
             \/ /\ x.job # Nothing
                /\ LET st == Owned([Shared EXCEPT !.job = x.jobs],
                                   Watchers(session, p), x.job)
                   IN  /\ job' = [st.job EXCEPT ![x.job] =
                                    Unsubscribed([st.job[x.job] EXCEPT !.waiter = TRUE], 1)]
                       /\ owners' = st.owners
                /\ pc' = [pc EXCEPT ![Watcher] = "wait"]
                /\ arg' = [arg EXCEPT ![Watcher] = [NoArg EXCEPT !.key = p, !.job = x.job]]
                /\ UNCHANGED faults
     \/ \* the records of the owners cannot be allocated
        /\ Watchers(session, p) # {} /\ faults < MaxFaults
        /\ \E x \in Subscriptions(Reaped(job), p, "default") :
             /\ x.job # Nothing
             /\ job' = [x.jobs EXCEPT ![x.job] = Unsubscribed(@, 1)]
        /\ faults' = faults + 1
        /\ UNCHANGED <<owners, pc, arg>>
  /\ UNCHANGED <<stopping, session, lease, leaving, host, db, unvisited>>

WatcherIndexed ==
  LET j == arg[Watcher].job
      mine == {o \in owners : o[2] = j}
  IN
  /\ pc[Watcher] = "wait" /\ MutexFree /\ job[j].terminal
  /\ owners' = owners \ mine
  /\ job' = Reaped([job EXCEPT ![j] =
               Unsubscribed([job[j] EXCEPT !.waiter = FALSE], Cardinality(mine))])
  /\ pc' = [pc EXCEPT ![Watcher] = "idle"]
  /\ arg' = [arg EXCEPT ![Watcher] = NoArg]
  /\ UNCHANGED <<stopping, session, lease, leaving, host, db, polls, unvisited, faults>>

-----------------------------------------------------------------------------
(* The thread of a job.                                                    *)

Unneeded(j) == job[j].cancelReq \/ stopping

JobStep(j, to) ==
  /\ job' = [job EXCEPT ![j] = to]
  /\ UNCHANGED <<stopping, session, owners, pc, arg, lease, leaving, host, polls,
                 unvisited, faults>>

(* Variant: the job does not wait for the mutations of its project.        *)
JobWaitImpatient(j) ==
  /\ job[j].thread = "waiting" /\ MutexFree
  /\ \/ /\ Unneeded(j)
        /\ JobStep(j, [job[j] EXCEPT !.thread = "publishing", !.result = "cancelled"])
     \/ /\ ~Unneeded(j)
        /\ JobStep(j, [job[j] EXCEPT !.thread = "starting"])
  /\ UNCHANGED db

\* application_job_wait_for_mutations
JobWait(j) ==
  /\ job[j].thread = "waiting" /\ MutexFree
  /\ \/ /\ Unneeded(j)
        /\ JobStep(j, [job[j] EXCEPT !.thread = "publishing", !.result = "cancelled"])
     \/ /\ ~Unneeded(j) /\ ~MutationConflicts(job[j].project)
        /\ JobStep(j, [job[j] EXCEPT !.thread = "starting"])
  /\ UNCHANGED db

\* application_job_run_attempt up to the start of the worker process
JobStart(j) ==
  /\ job[j].thread = "starting" /\ MutexFree
  /\ \/ /\ Unneeded(j)
        /\ JobStep(j, [job[j] EXCEPT !.thread = "publishing", !.result = "cancelled"])
     \/ /\ ~Unneeded(j)
        /\ JobStep(j, [job[j] EXCEPT !.thread = "running", !.attempt = @ + 1])
     \/ /\ ~Unneeded(j)
        /\ JobStep(j, [job[j] EXCEPT !.thread = "publishing", !.result = "failed"])
  /\ UNCHANGED db

\* The worker process ends: it has written the database, or it crashed, or
\* the cancellation that run_attempt repeats has stopped it.
WorkerEnd(j) ==
  /\ job[j].thread = "running"
  /\ \/ /\ db' = [db EXCEPT ![job[j].project] = TRUE]
        /\ JobStep(j, [job[j] EXCEPT !.thread = "ended", !.result = "success"])
     \/ /\ JobStep(j, [job[j] EXCEPT !.thread = "ended", !.result = "crash"])
        /\ UNCHANGED db
     \/ /\ Unneeded(j)
        /\ JobStep(j, [job[j] EXCEPT !.thread = "ended", !.result = "killed"])
        /\ UNCHANGED db

(* Variant: one recovery too many.                                         *)
JobCollectAgain(j) ==
  LET r == job[j].result IN
  /\ job[j].thread = "ended" /\ MutexFree
  /\ \/ /\ Unneeded(j)
        /\ JobStep(j, [job[j] EXCEPT !.thread = "publishing", !.result = "cancelled"])
     \/ /\ ~Unneeded(j) /\ r = "crash" /\ job[j].attempt <= MaxAttempts
        /\ JobStep(j, [job[j] EXCEPT !.thread = "starting", !.result = "none"])
     \/ /\ ~Unneeded(j) /\ ~(r = "crash" /\ job[j].attempt <= MaxAttempts)
        /\ JobStep(j, [job[j] EXCEPT !.thread = "publishing"])
  /\ UNCHANGED db

\* The end of run_attempt and application_consume_attempt: a cancellation
\* overrides the result, a crash is recovered by a further attempt.
JobCollect(j) ==
  LET r == job[j].result IN
  /\ job[j].thread = "ended" /\ MutexFree
  /\ \/ /\ Unneeded(j)
        /\ JobStep(j, [job[j] EXCEPT !.thread = "publishing", !.result = "cancelled"])
     \/ /\ ~Unneeded(j) /\ r = "crash" /\ job[j].attempt < MaxAttempts
        /\ JobStep(j, [job[j] EXCEPT !.thread = "starting", !.result = "none"])
     \/ /\ ~Unneeded(j) /\ ~(r = "crash" /\ job[j].attempt < MaxAttempts)
        /\ JobStep(j, [job[j] EXCEPT !.thread = "publishing"])
  /\ UNCHANGED db

(* Variant: the publication does not ask again for pending auto-indexing.   *)
JobPublishAlone(j) ==
  LET p == job[j].project
      success == job[j].result = "success"
      auto == {s \in Sessions : Linked(s) /\ session[s].auto = j}
      st == [session |-> [s \in Sessions |-> IF s \in auto
                            THEN [session[s] EXCEPT !.auto = Nothing] ELSE session[s]],
             job |-> [job EXCEPT ![j] = Unsubscribed(
                        [job[j] EXCEPT !.terminal = TRUE, !.successful = success,
                                  !.thread = "done", !.result = "none",
                                  !.attempt = 0], Cardinality(auto))],
             owners |-> owners]
  IN
  /\ job[j].thread = "publishing" /\ MutexFree
  /\ Install(IF success THEN Refreshed(st, auto, p) ELSE st)
  /\ unvisited' = {}
  /\ UNCHANGED <<stopping, pc, arg, lease, leaving, host, db, polls, faults>>

\* application_job_publish up to its retry
JobPublish(j) ==
  LET p == job[j].project
      success == job[j].result = "success"
      auto == {s \in Sessions : Linked(s) /\ session[s].auto = j}
      st == [session |-> [s \in Sessions |-> IF s \in auto
                            THEN [session[s] EXCEPT !.auto = Nothing] ELSE session[s]],
             job |-> [job EXCEPT ![j] = Unsubscribed(
                        [job[j] EXCEPT !.terminal = TRUE, !.successful = success,
                                  !.thread = "done", !.result = "none",
                                  !.attempt = 0], Cardinality(auto))],
             owners |-> owners]
  IN
  /\ job[j].thread = "publishing" /\ MutexFree
  /\ Install(IF success THEN Refreshed(st, auto, p) ELSE st)
  /\ unvisited' = IF stopping THEN {} ELSE {s \in Sessions : Linked(s)}
  /\ UNCHANGED <<stopping, pc, arg, lease, leaving, host, db, polls, faults>>

\* One session of application_auto_index_retry_pending_locked
AutoIndexRetry ==
  \E s \in unvisited :
  LET p == Home[s]
      due == /\ session[s].retry /\ session[s].auto = Nothing /\ ~session[s].cancelled
  IN
  /\ \/ /\ ~due
        /\ unvisited' = unvisited \ {s}
        /\ UNCHANGED <<session, job, owners, faults>>
     \/ /\ due /\ db[p]
        /\ Install(Refreshed([Shared EXCEPT !.session =
                              [session EXCEPT ![s].retry = FALSE]], {s}, p))
        /\ unvisited' = unvisited \ {s}
        /\ UNCHANGED faults
     \/ /\ due /\ ~db[p]
        /\ \E x \in Subscriptions(job, p, "default") :
             /\ session' = IF x.job = Nothing THEN session
                           ELSE [session EXCEPT ![s].auto = x.job, ![s].retry = FALSE]
             /\ job' = x.jobs
             /\ faults' = FaultsAfter(x)
             /\ unvisited' = IF x.status = "busy" THEN {} ELSE unvisited \ {s}
        /\ UNCHANGED owners
  /\ UNCHANGED <<stopping, pc, arg, lease, leaving, host, db, polls>>

-----------------------------------------------------------------------------
(* pmm_daemon_application_shutdown                                         *)

ShutdownBegin ==
  LET auto(j) == Cardinality({s \in Sessions : Linked(s) /\ session[s].auto = j})
      dropped == [j \in Jobs |-> IF auto(j) = 0 THEN job[j]
                                 ELSE Unsubscribed(job[j], auto(j))]
  IN
  /\ host = "running" /\ MutexFree
  /\ host' = "draining"
  /\ stopping' = TRUE
  /\ session' = [s \in Sessions |-> [session[s] EXCEPT !.auto = Nothing]]
  /\ job' = AllCancelled(dropped)
  /\ UNCHANGED <<owners, pc, arg, lease, leaving, db, polls, unvisited, faults>>

(* Variant: the wait loop looks at the jobs and the requests alone.         *)
AllDoneButMutations ==
  /\ \A s \in Sessions : session[s].token = 0
  /\ \A j \in Jobs : job[j].linked =>
        job[j].thread = "done" /\ job[j].subs = 0 /\ ~job[j].waiter

\* The wait loop finds everything done.
AllDone ==
  /\ \A a \in Actors : ~Reserved(a)
  /\ \A s \in Sessions : session[s].token = 0
  /\ \A j \in Jobs : job[j].linked =>
        job[j].thread = "done" /\ job[j].subs = 0 /\ ~job[j].waiter

ShutdownDone ==
  /\ host = "draining" /\ MutexFree /\ AllDone
  /\ host' = "quiet"
  /\ job' = Reaped(job)
  /\ UNCHANGED <<stopping, session, owners, pc, arg, lease, leaving, db, polls,
                 unvisited, faults>>

-----------------------------------------------------------------------------
RequestStep(s) ==
  \/ RequestEnter(s) \/ IndexSubscribe(s) \/ IndexBind(s) \/ IndexWait(s)
  \/ RequestRefresh(s) \/ RequestFinish(s) \/ BackgroundProbe(s)
  \/ BackgroundInitialize(s) \/ MutationRefuse(s)

MutationStep(a) ==
  \/ LeaseGranted(a) \/ LeaseFailed(a) \/ MutationWork(a)
  \/ MutationRelease(a) \/ MutationEnd(a)

JobThread(j) ==
  \/ JobWait(j) \/ JobStart(j) \/ WorkerEnd(j) \/ JobCollect(j) \/ JobPublish(j)

Next ==
  \/ \E s \in Sessions :
       \/ SessionOpen(s) \/ RequestAdmit(s) \/ RequestStep(s) \/ RequestCancel(s)
       \/ SessionCancel(s) \/ AutoIndexJoined(s) \/ SessionClose(s)
  \/ \E a \in Actors : MutationStep(a) \/ \E k \in Keys : MutationReserve(a, k)
  \/ ProjectPruned
  \/ WatcherIndexed \/ \E p \in Projects : WatcherIndex(p)
  \/ \E j \in Jobs : JobThread(j)
  \/ AutoIndexRetry \/ ShutdownBegin \/ ShutdownDone

Spec == Init /\ [][Next]_vars

(* What the threads of the daemon do once clients, polls and the operator  *)
(* have asked: native locks are granted or refused and workers end.        *)
DaemonStep ==
  \/ \E j \in Jobs : JobThread(j)
  \/ AutoIndexRetry \/ ShutdownDone \/ WatcherIndexed \/ ProjectPruned
  \/ \E a \in Actors : MutationStep(a)
  \/ \E s \in Sessions :
       \/ RequestStep(s) \/ AutoIndexJoined(s) \/ SessionClose(s)
       \/ \E k \in Keys : MutationReserve(s, k)

-----------------------------------------------------------------------------
(* Properties                                                              *)

\* The references to a job: a request between its subscription and the end
\* of its wait, the session's active and auto-index pointers, a disconnect
\* that joins the job, the user interface, and the owners by watch.
References(j) ==
  {<<s, "request">> : s \in {t \in Sessions : pc[t] = "bind" /\ arg[t].job = j}}
  \cup {<<s, "active">> : s \in {t \in Sessions : session[t].active = j}}
  \cup {<<s, "auto">> : s \in {t \in Sessions : session[t].auto = j}}
  \cup {<<s, "leaving">> : s \in {t \in Sessions : leaving[t].job = j}}
  \cup {<<o[1], "watch">> : o \in {q \in owners : q[2] = j}}

\* job->subscribers is the number of references to the job, however the
\* disconnects, late watches, publications and cancellations interleave: a
\* job is never freed under a reference nor kept without one, and a job that
\* nobody wants any more is being cancelled.
SubscribersCounted ==
  \A j \in Jobs :
    /\ job[j].subs = Cardinality(References(j))
    /\ job[j].waiter <=> (pc[Watcher] = "wait" /\ arg[Watcher].job = j)
    /\ References(j) # {} \/ job[j].waiter => job[j].linked
    /\ j \in Active(job) /\ job[j].subs = 0 => job[j].cancelReq

\* The sessions that own a watcher's job by their watch hold that watch, and
\* the job belongs to its project: a session that left, or whose project was
\* removed, cannot keep a job of the watcher alive.  Of the sessions that
\* watch the project of such a job at most one is not among its owners: the
\* one that set the watch up anew, after all earlier owners had gone and
\* while a request still kept the job.
OwnersWatch ==
  /\ \A o \in owners : /\ session[o[1]].watch /\ Linked(o[1])
                       /\ job[o[2]].project = Home[o[1]]
  /\ \A j \in Active(job) : job[j].waiter =>
       \A s, t \in Watchers(session, job[j].project) :
         s = t \/ <<s, j>> \in owners \/ <<t, j>> \in owners

\* The registers of who wants a job agree with the sessions, threads and
\* watches that refer to it.
ReferencesExact == SubscribersCounted /\ OwnersWatch

\* "Closing one session cancels work owned only by that session, while work
\* still needed by another session continues" (README): while the daemon
\* keeps running, a job is cancelled only in a step after which nobody
\* refers to it but a disconnect that waits for its end; and a session that
\* joins a watch refers from then on to the watcher's job of the project, so
\* that the owners before it can leave.
NeededWorkContinues ==
  [][/\ \A j \in Jobs :
          ~job[j].cancelReq /\ job'[j].cancelReq /\ ~stopping'
            => \A r \in References(j)' : r[2] = "leaving"
     /\ \A s \in Sessions :
          /\ ~session[s].watch /\ session'[s].watch
          /\ Watchers(session, Home[s]) # {}
          => \A j \in ActiveOf(job', Home[s]) :
               job'[j].waiter => <<s, j>> \in owners']_vars

\* While a worker process can write a project, no other job of the project
\* exists, no mutation owns or awaits the lock of a conflicting key, and the
\* number of jobs respects the limit.
WorkersExcludeMutations ==
  /\ \A a \in Actors :
       /\ lease[a] => Reserved(a)
       /\ \A b \in Actors \ {a} : Reserved(a) /\ Reserved(b)
            => ~Conflict(arg[a].key, arg[b].key)
       /\ \A j \in Jobs : Reserved(a) /\ job[j].thread \in {"starting", "running"}
            => ~Conflict(arg[a].key, job[j].project)
  /\ \A i, j \in Active(job) : job[i].project = job[j].project => i = j
  /\ Cardinality(Active(job)) <= JobLimit

\* Once pmm_daemon_application_shutdown has answered, nothing of the
\* application runs any more, and nothing starts.
QuietIsFinal ==
  host = "quiet" =>
    /\ \A j \in Jobs : ~job[j].linked
    /\ \A a \in Actors : ~lease[a] /\ ~Reserved(a)
    /\ \A s \in Sessions : session[s].token = 0 /\ session[s].auto = Nothing

\* The sessions that need the job of p: a disconnect that waits for the end
\* of the job it has cancelled does not.
Needing(p) ==
  {r[1] : r \in {q \in UNION {References(j) : j \in ActiveOf(job, p)} :
                   q[2] # "leaving"}}

\* The projects that have a job at one of these places.
At(places) == {job[j].project : j \in {k \in Active(job) : job[k].thread \in places}}

\* The job objects, their counters and the threads together keep the promise
\* of application.h: a job per project for all that need it, cancelled when
\* nobody does, and a database that is written by the job and removed under
\* a reservation, never at the same time.
Promise == INSTANCE SharedWork WITH
  Mutators <- Actors, NoKey <- Nothing, Limit <- JobLimit,
  open <- ~stopping,
  waiting <- At({"waiting"}),
  working <- At({"starting", "running", "ended"}),
  ending <- At({"publishing"}),
  cancelled <- {job[j].project : j \in {k \in Active(job) : job[k].cancelReq}},
  needs <- [p \in Projects |-> Needing(p)],
  reserved <- [a \in Actors |-> IF Reserved(a) THEN arg[a].key ELSE Nothing],
  indexed <- {p \in Projects : db[p]}

ImplementsSharedWork == Promise!Spec

\* The waits of the daemon's threads under the mutex, each a loop that polls:
\* a request for its job (application_job_wait_for_session) or for the
\* reservation of a mutation, the watcher's thread for its job, a job's thread
\* for the mutations, a disconnect for the job it joins.
WaitsForJob(a) ==
  /\ pc[a] = "wait" /\ ~job[arg[a].job].terminal
  /\ a \in Sessions => session[a].active = arg[a].job
WaitsToReserve(a) ==
  /\ pc[a] = "reserve" /\ ~Unwanted(a)
  /\ MutationConflicts(arg[a].key) \/ JobReserves(arg[a].key)
JobWaits(j) ==
  job[j].thread = "waiting" /\ ~Unneeded(j) /\ MutationConflicts(job[j].project)
JoinWaits(s) == leaving[s].pc = "joining" /\ ~job[leaving[s].job].terminal

\* Some thread is on its way and waits for nothing but the mutex.
SomebodyRuns ==
  \/ unvisited # {}
  \/ \E a \in Actors : pc[a] # "idle" /\ ~WaitsForJob(a) /\ ~WaitsToReserve(a)
  \/ \E j \in Jobs : job[j].thread \notin {"none", "done"} /\ ~JobWaits(j)
  \/ \E s \in Sessions : leaving[s].pc = "joining" /\ ~JoinWaits(s)
  \/ host = "draining" /\ AllDone

\* Every request, poll and disconnect has returned, every job has ended, a
\* shutdown has answered, and no session is left with a pending auto-index,
\* unless it was cancelled or an allocation failed.
AllSettled ==
  /\ \A a \in Actors : pc[a] = "idle"
  /\ \A s \in Sessions :
       /\ leaving[s].pc # "joining"
       /\ session[s].retry => session[s].cancelled \/ stopping \/ faults > 0
  /\ Active(job) = {}
  /\ host # "draining"

\* The waits of the daemon's threads for each other never close a circle:
\* whenever none of them runs, nothing is left undone.
NobodyStuck == AllSettled \/ SomebodyRuns

\* A thread that waits for nothing can take a step: the actions ask for
\* nothing beyond the waits listed above.
RunnersRun == SomebodyRuns => ENABLED DaemonStep

=============================================================================
