--------------------- MODULE DaemonApplicationInvariants ---------------------
(***************************************************************************)
(* The invariants of DaemonApplication, with which its theorems are proved *)
(* in DaemonApplicationProofs, and the kinds of steps its actions fall in. *)
(*                                                                         *)
(* IInv, the exclusion and the shutdown: a step keeps the job objects, or  *)
(* links a new one (Kept, Grown), and it takes no active job away but by   *)
(* that job's own thread (Lasting).                                        *)
(*                                                                         *)
(* RegInv, the registers of who wants a job: the references to a job are a *)
(* set (Held) and its counter is their number (Backed).  A step is quiet,  *)
(* gains one reference, gives some up (Releases), hands one on (Swaps) or  *)
(* refreshes the watches.                                                  *)
(*                                                                         *)
(* WaitInv: for all that is pending somebody is at work.                   *)
(*                                                                         *)
(* CancelInv: what the daemon lets go of is cancelled.                     *)
(***************************************************************************)
EXTENDS DaemonApplication

-----------------------------------------------------------------------------
(* Job objects: what a step leaves of them, and the exclusion of workers.  *)

JobMap == [Jobs -> Job]
SharedState == [session : [Sessions -> Session], job : JobMap,
                owners : SUBSET (Sessions \X Jobs)]

(* Two job objects that agree on what the exclusion depends on.            *)
Alike(r, q) ==
  /\ r.linked = q.linked /\ r.project = q.project
  /\ r.terminal = q.terminal /\ r.thread = q.thread

(* A job object that goes on: its attempts, and its cancellation.          *)
Carried(r, q) ==
  Alike(r, q) /\ r.attempt = q.attempt /\ (q.cancelReq => r.cancelReq)

(* A run of attempts is counted before it starts.                          *)
Attempts(r) == r.thread \in {"waiting", "starting"} => r.attempt < MaxAttempts

(* Jobs keep what the exclusion depends on, or are freed after their end.  *)
Kept(js, ks) ==
  \A j \in Jobs :
    \/ Carried(ks[j], js[j])
    \/ js[j].thread = "done" /\ Alike(ks[j], NoJob)

(* One new job of p is linked besides.                                     *)
Grown(js, ks, p) ==
  \E i \in Jobs :
    /\ js[i].thread \in {"none", "done"}
    /\ ks[i].linked /\ ks[i].project = p /\ ~ks[i].terminal
    /\ ks[i].thread = "waiting" /\ ks[i].attempt = 0
    /\ \A j \in Jobs \ {i} :
         \/ Carried(ks[j], js[j])
         \/ js[j].thread = "done" /\ Alike(ks[j], NoJob)
    /\ ActiveOf(js, p) = {}
    /\ Cardinality(Active(js)) < JobLimit

(* What a job object's thread says of its flags.                           *)
Shaped(js) ==
  \A j \in Jobs :
    /\ js[j].linked <=> js[j].thread # "none"
    /\ js[j].terminal <=> js[j].thread = "done"
    /\ js[j].linked => js[j].project \in Projects
    /\ Attempts(js[j])

(* One job per project, and no more jobs than the limit.                   *)
Limited(js) ==
  /\ \A i, j \in Active(js) : js[i].project = js[j].project => i = j
  /\ Cardinality(Active(js)) <= JobLimit

(* A job is cancelled when its last subscription goes.                     *)
Spent(js, ks) ==
  \A j \in Jobs : ks[j].cancelReq => js[j].cancelReq \/ ks[j].subs = 0

(* Sessions keep their requests and their auto-index jobs.                 *)
Settled(ss, tt) ==
  \A s \in Sessions : tt[s].token = ss[s].token /\ tt[s].auto = ss[s].auto

(* What session_cancel and session_close release.                          *)
Quieter(ss, tt) ==
  \A s \in Sessions : /\ tt[s].token \in {0, ss[s].token}
                      /\ tt[s].auto \in {Nothing, ss[s].auto}

Working == {"starting", "running", "ended"}
Owning == {"held", "pruned", "release"}

(* The lock's owners have reserved, requests for an index name a project,  *)
(* and reservations conflict neither with each other nor with a worker.    *)
Claimed(a) ==
  /\ lease[a] => pc[a] \in Owning
  /\ pc[a] = "subscribe" => arg[a].key \in Projects

Apart(a, b) == Reserved(a) /\ Reserved(b) => ~Conflict(arg[a].key, arg[b].key)

Away(a, j) ==
  Reserved(a) /\ job[j].thread \in Working => ~Conflict(arg[a].key, job[j].project)

Excluded ==
  \A a \in Actors : /\ Claimed(a)
                    /\ \A b \in Actors \ {a} : Apart(a, b)
                    /\ \A j \in Jobs : Away(a, j)

(* A shutdown has taken the auto-index jobs away, and nothing is left when *)
(* it answers.                                                             *)
Drained ==
  /\ host # "running" => stopping /\ \A s \in Sessions : session[s].auto = Nothing
  /\ host = "quiet" => /\ \A j \in Jobs : ~job[j].linked
                       /\ \A a \in Actors : ~Reserved(a)
                       /\ \A s \in Sessions : session[s].token = 0

IInv == TypeOK /\ Shaped(job) /\ Limited(job) /\ Excluded /\ Drained

(* What the steps that are neither a reservation, nor the start of an      *)
(* attempt, nor a step of the shutdown, leave as it is.                    *)
JobsSafe ==
  /\ Shaped(job') /\ Limited(job')
  /\ \A j \in Jobs : job'[j].thread \in Working
       => job[j].thread \in Working /\ job'[j].project = job[j].project
  /\ stopping /\ (\A j \in Jobs : ~job[j].linked) => \A j \in Jobs : ~job'[j].linked

(* Only the steps of a job's own thread move it: all others leave an active*)
(* job where it is and never take its cancellation back, and a job becomes *)
(* active only while the daemon accepts work and no other has its project. *)
(* It takes an object that nobody subscribes to, and is not cancelled as   *)
(* long as somebody subscribes to it.                                      *)
Fresh(j) ==
  /\ job[j].linked => job[j].subs = 0
  /\ job'[j].cancelReq => job'[j].subs = 0

Lasting ==
  /\ \A j \in Active(job) : j \in Active(job') /\ Carried(job'[j], job[j])
  /\ \A i, j \in Active(job') \ Active(job) : i = j
  /\ \A j \in Active(job') \ Active(job) :
       /\ ~stopping /\ job'[j].thread = "waiting"
       /\ ActiveOf(job, job'[j].project) = {}
       /\ Fresh(j)

JobsCalm == JobsSafe /\ Lasting

ActorCalm(a) ==
  /\ pc'[a] \in {"lease"} \cup Owning
       => pc[a] \in {"lease"} \cup Owning /\ arg'[a].key = arg[a].key
  /\ lease'[a] => pc'[a] \in Owning
  /\ pc'[a] = "subscribe" => arg'[a].key \in Projects

ActorsCalm == \A a \in Actors : ActorCalm(a)

HostCalm ==
  /\ host' = host /\ (stopping => stopping')
  /\ stopping => Quieter(session, session')

-----------------------------------------------------------------------------
(* The references to jobs, and the registers that count them.              *)

Arguments == [key : Keys \cup {Nothing}, options : Options, job : Jobs \cup {Nothing}]

Tags == {"request", "active", "auto", "leaving", "watch"}

(* Who may refer to a job: sessions in five ways, and for the length of a  *)
(* critical section the thread that asks for it.                           *)
Referrers == Actors \X (Tags \cup {"caller"})

(* References(j), by membership: B and L say which job the thread of a     *)
(* session is about to bind and which one its disconnect joins.            *)
Held(B, L, ss, os, j) ==
  {r \in Sessions \X Tags :
     \/ r[2] = "request" /\ B[r[1]] = j
     \/ r[2] = "active" /\ ss[r[1]].active = j
     \/ r[2] = "auto" /\ ss[r[1]].auto = j
     \/ r[2] = "leaving" /\ L[r[1]] = j
     \/ r[2] = "watch" /\ <<r[1], j>> \in os}

Binding == [s \in Sessions |-> IF pc[s] = "bind" THEN arg[s].job ELSE Nothing]
Joining == [s \in Sessions |-> leaving[s].job]

(* A job's counter is the number of its references H.                      *)
Backed(r, H) ==
  /\ r.subs = Cardinality(H)
  /\ H # {} => r.linked
  /\ r.linked /\ ~r.terminal /\ r.subs = 0 => r.cancelReq

(* What neither a subscription nor its release touches.                    *)
Same(r, q) == Alike(q, r) /\ q.waiter = r.waiter /\ q.options = r.options

Counted(st, B, L) ==
  \A j \in Jobs : Backed(st.job[j], Held(B, L, st.session, st.owners, j))

(* The owners of a job watch its project.                                  *)
Rightful(st) ==
  \A s \in Sessions, j \in Jobs : <<s, j>> \in st.owners =>
    st.session[s].watch /\ st.job[j].project = Home[s]

(* All but one of a project's watchers own the watcher's job.              *)
OneNewcomer(st) ==
  \A j \in Active(st.job) : st.job[j].waiter =>
    \A s, t \in Watchers(st.session, st.job[j].project) :
      s = t \/ <<s, j>> \in st.owners \/ <<t, j>> \in st.owners

(* A session's auto-index job is one of its project.                       *)
AutoAtHome(st) ==
  \A s \in Sessions : st.session[s].auto # Nothing =>
    st.job[st.session[s].auto].project = Home[s]

(* The registers agree with each other.                                    *)
Kempt(st, B, L) ==
  Counted(st, B, L) /\ Rightful(st) /\ OneNewcomer(st) /\ AutoAtHome(st)

(* A session object that changes in its watch at most.                     *)
Still(q, r) ==
  /\ r.active = q.active /\ r.auto = q.auto /\ r.life = q.life
  /\ r.cancelled = q.cancelled

(* A job is cancelled only if nobody refers to it any more.                *)
Spared(js, ks, H) ==
  \A j \in Jobs : ks[j].cancelReq => js[j].cancelReq \/ H[j] = {}

HeldBy(st, B, L) == [j \in Jobs |-> Held(B, L, st.session, st.owners, j)]

(* A session whose request is not cancelled, nor its daemon stopping.      *)
Welcome(q, s) == q.auto = Nothing /\ ~stopping /\ ~RequestCancelled(s)

(* A session that is not open refers to nothing, and one that disconnects  *)
(* has let go of everything but the job its disconnect joins.              *)
Clear(s) == session[s].active = Nothing /\ session[s].auto = Nothing /\ ~session[s].watch

(* What the place of a thread says of the job it is about to use.          *)
PostedAt(s) ==
  /\ ~Linked(s) => Clear(s) /\ pc[s] = "idle" /\ s \notin unvisited
  /\ leaving[s].pc # "no" => Clear(s) /\ (Linked(s) => session[s].cancelled)
  /\ session[s].life = "new" => leaving[s].pc = "no"
  /\ leaving[s].job # Nothing <=> leaving[s].pc = "joining"
  /\ pc[s] \in {"bind", "wait"} => arg[s].job \in Jobs

Posted == \A s \in Sessions : PostedAt(s)

(* The watcher's thread waits for the job that its flag keeps.             *)
Awaited ==
  /\ \A j \in Jobs : /\ job[j].waiter <=> pc[Watcher] = "wait" /\ arg[Watcher].job = j
                     /\ job[j].waiter => job[j].linked
  /\ pc[Watcher] = "wait" => arg[Watcher].job \in Jobs

Registers == Kempt(Shared, Binding, Joining)

(* The invariant of the registers.                                         *)
RegInv == Registers /\ Posted /\ Awaited

(* What a step may do to the work that others need.                        *)
Spares ==
  \A j \in Jobs :
    ~job[j].cancelReq /\ job'[j].cancelReq /\ ~stopping' =>
      \A r \in Held(Binding', Joining', session', owners', j) : r[2] = "leaving"

(* A session that joins a watch becomes an owner of the watcher's job.     *)
Takes ==
  \A s \in Sessions :
    /\ ~session[s].watch /\ session'[s].watch
    /\ Watchers(session, Home[s]) # {}
    => \A j \in ActiveOf(job', Home[s]) : job'[j].waiter => <<s, j>> \in owners'

(* The job objects agree on all that the registers depend on.              *)
SameCount(r, q) ==
  /\ q.subs = r.subs /\ q.linked = r.linked /\ q.terminal = r.terminal
  /\ q.cancelReq = r.cancelReq /\ q.project = r.project /\ q.waiter = r.waiter

SameHold(q, r) == r.active = q.active /\ r.auto = q.auto /\ r.watch = q.watch

(* Steps that leave the references and the jobs' counters alone.           *)
Quiet ==
  /\ owners' = owners /\ leaving' = leaving
  /\ \A s \in Sessions : SameHold(session[s], session'[s])
  /\ \A s \in Sessions : \/ pc'[s] = pc[s] /\ arg'[s] = arg[s]
                         \/ pc[s] # "bind" /\ pc'[s] # "bind"
  /\ \A j \in Jobs : SameCount(job[j], job'[j])

(* A job keeps its project and its waiter, and does not become active.     *)
Steady(r, q) ==
  /\ q.project = r.project /\ q.waiter = r.waiter
  /\ q.linked /\ ~q.terminal => r.linked /\ ~r.terminal

(* The answer x to the request for a job: its caller, y, holds one of the  *)
(* subscribers of the job that it names.                                   *)
Granted(js, H, p, x, y) ==
  /\ x.job \in Jobs \cup {Nothing}
  /\ x.job = Nothing => x.jobs = js
  /\ x.job # Nothing <=> x.status = "ok"
  /\ x.job # Nothing =>
       /\ Backed(x.jobs[x.job], H[x.job] \cup {y})
       /\ x.jobs[x.job].linked /\ ~x.jobs[x.job].terminal
       /\ ~x.jobs[x.job].cancelReq /\ x.jobs[x.job].project = p
       /\ \/ Same(js[x.job], x.jobs[x.job])
          \/ H[x.job] = {} /\ ~js[x.job].linked /\ ~x.jobs[x.job].waiter
       /\ \A j \in Jobs \ {x.job} : x.jobs[j] = js[j]

(* The same of a state of sessions, jobs and owners.                       *)
Asked(st, B, L, p, x, y) ==
  LET H(j) == Held(B, L, st.session, st.owners, j)
  IN  /\ x.job \in Jobs \cup {Nothing}
      /\ x.job # Nothing <=> x.status = "ok"
      /\ x.job = Nothing => x.jobs = st.job
      /\ \A j \in Jobs :
           /\ j # x.job => x.jobs[j] = st.job[j]
           /\ j = x.job =>
                /\ Backed(x.jobs[j], H(j) \cup {y})
                /\ x.jobs[j].linked /\ ~x.jobs[j].cancelReq /\ x.jobs[j].project = p
           /\ \/ Steady(st.job[j], x.jobs[j])
              \/ H(j) = {} /\ ~st.job[j].linked /\ ~x.jobs[j].waiter

(* The states st, B, L and u, C, M agree but on the references to job i.   *)
Besides(st, B, L, u, C, M, i, G) ==
  /\ u.owners = st.owners
  /\ \A s \in Sessions : /\ u.session[s].watch = st.session[s].watch
                         /\ u.session[s].auto \in {Nothing, st.session[s].auto}
  /\ \A j \in Jobs \ {i} :
       /\ u.job[j] = st.job[j]
       /\ Held(C, M, u.session, u.owners, j) = Held(B, L, st.session, st.owners, j)
  /\ Held(C, M, u.session, u.owners, i) = G

(* A reference x is released, or becomes another one, y.                   *)
Loses(st, B, L, u, C, M, i, x) ==
  /\ x \in Held(B, L, st.session, st.owners, i)
  /\ u.job[i] = Unsubscribed(st.job[i], 1)
  /\ Besides(st, B, L, u, C, M, i, Held(B, L, st.session, st.owners, i) \ {x})

(* The reference y takes the place of x, and the counter stays.            *)
Swaps(st, B, L, u, C, M, i, x, y) ==
  /\ x \in Held(B, L, st.session, st.owners, i)
  /\ y \notin Held(B, L, st.session, st.owners, i)
  /\ u.job[i] = st.job[i]
  /\ Besides(st, B, L, u, C, M, i, (Held(B, L, st.session, st.owners, i) \ {x}) \cup {y})

(* Jobs are cancelled only when nobody refers to them.                     *)
Mild(st, u, C, M) ==
  \A j \in Jobs : u.job[j].cancelReq =>
    st.job[j].cancelReq \/ Held(C, M, u.session, u.owners, j) = {}

(* A session asks for a job, and refers to the one that it gets.           *)
Gains(js, p, o, x, y) ==
  /\ js = job \/ js = Reaped(job)
  /\ x \in Subscriptions(js, p, o) /\ job' = x.jobs /\ owners' = owners
  /\ y \in Referrers
  /\ \A j \in Jobs : y \notin Held(Binding, Joining, session, owners, j)
  /\ \A s \in Sessions : session'[s].watch = session[s].watch
  /\ \A s \in Sessions : \/ session'[s].auto \in {Nothing, session[s].auto}
                         \/ session'[s].auto = x.job /\ p = Home[s]
  /\ \A j \in Jobs : Held(Binding', Joining', session', owners', j)
                       = IF j = x.job
                         THEN Held(Binding, Joining, session, owners, j) \cup {y}
                         ELSE Held(Binding, Joining, session, owners, j)

(* What the threads and the sessions to visit may do while watches change. *)
Moves ==
  /\ Binding' = Binding /\ Joining' = Joining /\ leaving' = leaving /\ arg' = arg
  /\ \A s \in unvisited' : s \in unvisited \/ Linked(s)
  /\ \A s \in Sessions : pc'[s] = pc[s] \/ (Linked(s) /\ pc'[s] \notin {"bind", "wait"})

(* Sessions keep what the threads and disconnects rely on.                 *)
Steers(q, r, s) ==
  /\ r.life = q.life /\ r.cancelled = q.cancelled /\ r.active = q.active
  /\ r.auto \in {Nothing, q.auto}
  /\ r.watch => q.watch \/ (Linked(s) /\ ~q.cancelled)

(* The state st from which the sessions of S refresh the watch of p.       *)
Readied(st, S, p) ==
  /\ Kempt(st, Binding, Joining) /\ st.owners = owners
  /\ \A s \in Sessions : /\ Steers(session[s], st.session[s], s)
                         /\ st.session[s].watch = session[s].watch
  /\ \A j \in Jobs : /\ st.job[j].cancelReq => job[j].cancelReq
                     /\ st.job[j].waiter = job[j].waiter
                     /\ st.job[j].linked = job[j].linked
  /\ \A s \in S : Home[s] = p /\ Linked(s)
  /\ ActiveOf(st.job, p) = {} \/ \A s, t \in S : s = t
  /\ \A i, j \in Active(st.job) : st.job[i].project = st.job[j].project => i = j

(* Clearing the auto-index pointers of sessions.                           *)
Cleared(old, S) ==
  [s \in Sessions |-> IF s \in S THEN [old[s] EXCEPT !.auto = Nothing] ELSE old[s]]

(* A job becomes terminal: its auto-index subscribers leave it, and it is  *)
(* not cancelled thereby.                                                  *)
Ends(r, q) ==
  /\ q.subs = r.subs /\ q.linked = r.linked /\ q.cancelReq = r.cancelReq
  /\ q.project = r.project /\ q.waiter = r.waiter /\ q.terminal

(* The publication of j takes the auto-index references to it away.        *)
EndsTo(j, r, S, st) ==
  /\ Ends(job[j], r)
  /\ S = {s \in Sessions : Linked(s) /\ session[s].auto = j}
  /\ st.owners = owners /\ st.session = Cleared(session, S)
  /\ st.job = [job EXCEPT ![j] = Unsubscribed(r, Cardinality(S))]

(* The sessions that watch the project own the watcher's job.              *)
Takers(p, j) == {s \in Watchers(session, p) : <<s, j>> \notin owners}

(* The job with n more subscriptions and the flag of the watcher.          *)
Taken(r, n) == [[r EXCEPT !.subs = @ + n] EXCEPT !.waiter = TRUE]

(* The watcher's poll joins or makes a job and hands it to the watches.    *)
TakesJob(p, x) ==
  /\ x \in Subscriptions(Reaped(job), p, "default") /\ x.job # Nothing
  /\ job' = [x.jobs EXCEPT ![x.job] =
               Unsubscribed(Taken(x.jobs[x.job], Cardinality(Takers(p, x.job))), 1)]
  /\ owners' = owners \cup {<<s, x.job>> : s \in Takers(p, x.job)}

(* The state u, in which the disconnects join M, comes from st, in which   *)
(* they join L, by releasing references or turning them into such a join.  *)
Releases(st, L, u, M, B) ==
  /\ u \in SharedState /\ Kempt(u, B, M)
  /\ \A j \in Jobs :
       /\ Same(st.job[j], u.job[j])
       /\ u.job[j].cancelReq =>
            \/ st.job[j].cancelReq
            \/ \A r \in Held(B, M, u.session, u.owners, j) : r[2] = "leaving"
       /\ \A r \in Held(B, M, u.session, u.owners, j) :
            r[2] = "leaving" \/ r \in Held(B, L, st.session, st.owners, j)

(* The session object without its active job, without its auto-index job.  *)
Idled(ss, s) == [ss EXCEPT ![s].active = Nothing]
Freed(ss, s) == [ss EXCEPT ![s].auto = Nothing]

(* The parts of Detached: first the index job of a request is released,    *)
WithoutActive(st, s) ==
  [session |-> Idled(st.session, s),
   job     |-> IF st.session[s].active = Nothing THEN st.job
               ELSE [st.job EXCEPT ![st.session[s].active] = Unsubscribed(@, 1)],
   owners  |-> st.owners]

(* then the auto-index job, which is joined if nobody else refers to it.   *)
LastAuto(st, s) ==
  LET auto == st.session[s].auto
  IN  auto # Nothing /\ ~st.job[auto].terminal /\ st.job[auto].subs = 1

WithoutAuto(st, s) ==
  [session |-> Freed(st.session, s),
   job     |-> LET auto == st.session[s].auto
               IN  IF auto = Nothing THEN st.job
                   ELSE IF LastAuto(st, s) THEN [st.job EXCEPT ![auto].cancelReq = TRUE]
                   ELSE [st.job EXCEPT ![auto] = Unsubscribed(@, 1)],
   owners  |-> st.owners]

JoinOf(st, s) == IF LastAuto(st, s) THEN st.session[s].auto ELSE Nothing

(* Neither its active job, nor its auto-index job, nor its watch keeps a   *)
(* session's reference to a job when it is detached.                       *)
Quitted(st, s, u) ==
  /\ \A t \in Sessions \ {s} : /\ Still(st.session[t], u.session[t])
                               /\ u.session[t].watch = st.session[t].watch
  /\ u.session[s].active = Nothing /\ u.session[s].auto = Nothing
  /\ u.session[s].watch = FALSE /\ u.session[s].life = st.session[s].life

(* The daemon goes on from w, or cancels everything and stops.             *)
Goes(w, ks) ==
  /\ ks = w.job \/ (stopping' /\ ks = AllCancelled(w.job))
  /\ job' = ks \/ job' = Reaped(ks)

(* The sessions hold the jobs that w leaves them, and gain no watch.       *)
Keeps(w) ==
  \A t \in Sessions : /\ SameHold(w.session[t], session'[t])
                      /\ session'[t].watch => session[t].watch

(* A step in which references are given up.                                *)
Leaves(w, ks) ==
  /\ Releases(Shared, Joining, w, Joining', Binding) /\ Binding' = Binding
  /\ owners' = w.owners /\ Keeps(w) /\ Goes(w, ks)

-----------------------------------------------------------------------------
(* The waits of the threads for each other.                                *)

(* The places of a request's thread, between its entry and its answer.     *)
Serving == {"subscribe", "bind", "wait", "reserve", "lease", "held", "pruned", "release",
            "refresh", "finish"}

(* A request in progress has its thread at work, the session's job is the  *)
(* one its thread waits for, and a pending auto-index has no job yet.      *)
DueAt(s) ==
  /\ session[s].token # 0 => pc[s] \in Serving
  /\ session[s].active # Nothing => pc[s] = "wait" /\ arg[s].job = session[s].active
  /\ session[s].retry => session[s].auto = Nothing /\ Linked(s)

(* Somebody will ask again for a pending auto-index: the thread of a job   *)
(* that has not published yet, or the retry that is under way.             *)
RetryDue(s) ==
  session[s].retry /\ ~session[s].cancelled /\ ~stopping /\ faults = 0
    => Active(job) # {} \/ s \in unvisited

(* The watches own only jobs for which the watcher's thread waits.         *)
WaitInv ==
  /\ \A s \in Sessions : DueAt(s) /\ RetryDue(s)
  /\ \A o \in owners : job[o[2]].waiter

(* What a step leaves of a session whose thread does not move.             *)
Eased(t) ==
  /\ session'[t].token # 0 => session[t].token # 0
  /\ session'[t].active \in {session[t].active, Nothing}
  /\ session'[t].auto \in {session[t].auto, Nothing}
  /\ session'[t].retry => session[t].retry
  /\ session[t].life = "open" => session'[t].life = "open"
  /\ pc'[t] = pc[t] /\ arg'[t] = arg[t]

(* Nobody else becomes pending, and what a pending one waits for stays.    *)
Unhurried ==
  /\ stopping => stopping'
  /\ faults' = 0 => faults = 0
  /\ unvisited \subseteq unvisited'
  /\ Active(job) # {} => Active(job') # {}
  /\ \A t \in Sessions : session'[t].retry /\ ~session'[t].cancelled
                           => session[t].retry /\ ~session[t].cancelled

(* The watcher's thread neither begins nor ends a wait.                    *)
WatcherStays ==
  \/ pc'[Watcher] = pc[Watcher] /\ arg'[Watcher] = arg[Watcher]
  \/ pc[Watcher] # "wait" /\ pc'[Watcher] # "wait"

(* Two session objects that agree on all that the waits depend on.         *)
SameWork(r, q) ==
  /\ q.token = r.token /\ q.active = r.active /\ q.auto = r.auto
  /\ q.retry = r.retry /\ q.life = r.life /\ q.cancelled = r.cancelled

(* The watch alone changes, and only a job with a waiter gets new owners.  *)
OnlyWatch(st, tt) ==
  /\ \A s \in Sessions : SameWork(st.session[s], tt.session[s])
  /\ \A o \in tt.owners : o \in st.owners \/ st.job[o[2]].waiter

-----------------------------------------------------------------------------
(* Cancellations, and the steps of the promise.                            *)

(* Whom the daemon lets go of is cancelled: every job once it stops, and a *)
(* job whose end a disconnect waits for.                                   *)
CancelInv ==
  /\ stopping => \A j \in Active(job) : job[j].cancelReq
  /\ \A s \in Sessions : leaving[s].job \in Active(job) => job[leaving[s].job].cancelReq

(* An active job was active before and has not lost its cancellation, or   *)
(* it is the new job of its project.                                       *)
Onward ==
  \A j \in Active(job') :
    \/ /\ j \in Active(job) /\ job'[j].project = job[j].project
       /\ job[j].cancelReq => job'[j].cancelReq
    \/ /\ j \notin Active(job) /\ ~stopping
       /\ ActiveOf(job, job'[j].project) = {} /\ Fresh(j)

Refers(j) == Held(Binding, Joining, session, owners, j)

Reservation == [a \in Actors |-> IF Reserved(a) THEN arg[a].key ELSE Nothing]

(* The daemon, the databases and the reservations stay.                     *)
Undisturbed ==
  /\ stopping' = stopping /\ db' = db
  /\ \A a \in Actors : Reserved(a)' = Reserved(a) /\ (Reserved(a) => arg'[a] = arg[a])

Unmoved == \A P \in SUBSET Threads : At(P)' = At(P)

Places == {{"waiting"}, {"starting", "running", "ended"}, {"publishing"}}
=============================================================================
