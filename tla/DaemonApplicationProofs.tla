---------------------- MODULE DaemonApplicationProofs ----------------------
(***************************************************************************)
(* Theorems of DaemonApplication, for any sessions, projects, requests and *)
(* limits, in four parts: the types, the exclusion of workers and mutations*)
(* and the finality of a shutdown (IInv); the registers of who wants a job *)
(* (RegInv), with a lemma for each kind of step and a lemma for each action*)
(* that shows of which kind it is; the waits of the threads for each other *)
(* (WaitInv), which never close a circle (WaitsEnd); and the promise of    *)
(* SharedWork: the needs and cancellations change as promised (NeedsStep), *)
(* and a step moves at most one job, to a place the promise allows         *)
(* (Changes).                                                              *)
(***************************************************************************)
EXTENDS DaemonApplicationInvariants, FiniteSetTheorems, TLAPS

-----------------------------------------------------------------------------
(* The operators on job objects.                                           *)

(* Sets of jobs and of sessions can be counted.                            *)
LEMMA Counting ==
  /\ \A S \in SUBSET Jobs : IsFiniteSet(S) /\ Cardinality(S) \in Nat
  /\ \A S \in SUBSET Sessions : IsFiniteSet(S) /\ Cardinality(S) \in Nat
<1>1. IsFiniteSet(Jobs)
  BY ConstantsAssumption, FS_Interval DEF Jobs
<1>2. IsFiniteSet(Sessions)
  BY ConstantsAssumption
<1> QED BY <1>1, <1>2, FS_Subset, FS_CardinalityType

(* A fresh job object has its type.                                        *)
LEMMA NoJobType == NoJob \in Job /\ NoSession \in Session
  BY ConstantsAssumption DEF NoJob, Job, NoSession, Session, Options, Threads

(* Releasing subscriptions only touches the counter and the cancellation.  *)
LEMMA UnsubscribedKeeps ==
  ASSUME NEW r \in Job, NEW n \in Nat
  PROVE  /\ Unsubscribed(r, n) \in Job
         /\ Carried(Unsubscribed(r, n), r)
<1> DEFINE k == IF r.subs > n THEN r.subs - n ELSE 0
           c == r.cancelReq \/ (r.subs \in 1..n /\ ~r.terminal)
<1>1. k \in Nat
  BY DEF Job
<1>2. c \in BOOLEAN
  OBVIOUS
<1>3. Unsubscribed(r, n) = [r EXCEPT !.subs = k, !.cancelReq = c]
  BY DEF Unsubscribed
<1>4. r.cancelReq => c
  OBVIOUS
<1> HIDE DEF k, c
<1>5. Unsubscribed(r, n) \in Job /\ Alike(Unsubscribed(r, n), r)
  BY <1>1, <1>2, <1>3 DEF Job, Alike
<1>6. Unsubscribed(r, n).attempt = r.attempt /\ Unsubscribed(r, n).cancelReq = c
  BY <1>1, <1>2, <1>3 DEF Job
<1> QED BY <1>4, <1>5, <1>6 DEF Carried

LEMMA UnsubscribedSpent ==
  ASSUME NEW r \in Job, NEW n \in Nat
  PROVE  Unsubscribed(r, n).cancelReq => r.cancelReq \/ Unsubscribed(r, n).subs = 0
<1> DEFINE k == IF r.subs > n THEN r.subs - n ELSE 0
           c == r.cancelReq \/ (r.subs \in 1..n /\ ~r.terminal)
<1>1. Unsubscribed(r, n) = [r EXCEPT !.subs = k, !.cancelReq = c]
  BY DEF Unsubscribed
<1>2. c => r.cancelReq \/ k = 0
  BY DEF Job
<1> HIDE DEF k, c
<1> QED BY <1>1, <1>2 DEF Job

LEMMA JobSpent ==
  ASSUME NEW js \in JobMap, NEW j \in Jobs, NEW r \in Job, NEW n \in Nat,
         r.cancelReq = js[j].cancelReq, NEW ks, ks = [js EXCEPT ![j] = Unsubscribed(r, n)]
  PROVE  Spent(js, ks)
<1>1. Unsubscribed(r, n).cancelReq => r.cancelReq \/ Unsubscribed(r, n).subs = 0
  BY UnsubscribedSpent
<1>2. ks[j] = Unsubscribed(r, n) /\ \A i \in Jobs \ {j} : ks[i] = js[i]
  BY DEF JobMap
<1> QED BY <1>1, <1>2 DEF Spent

(* Reaping frees finished jobs.                                            *)
LEMMA ReapedKeeps ==
  ASSUME NEW js \in JobMap
  PROVE  Reaped(js) \in JobMap /\ Kept(js, Reaped(js))
  BY NoJobType DEF Reaped, JobMap, Kept, Alike, Carried

(* A cancellation of jobs changes none of what the exclusion depends on.   *)
LEMMA CancelKeeps ==
  ASSUME NEW js \in JobMap
  PROVE  AllCancelled(js) \in JobMap /\ Kept(js, AllCancelled(js))
<1>1. \A r \in Job :
        LET c == [r EXCEPT !.cancelReq = TRUE]
        IN  c \in Job /\ Carried(c, r)
  BY DEF Job, Alike, Carried
<1>2. \A j \in Jobs :
        /\ AllCancelled(js)[j] \in Job
        /\ Carried(AllCancelled(js)[j], js[j])
  BY <1>1 DEF AllCancelled, JobMap, Alike, Carried
<1> QED BY <1>2 DEF AllCancelled, JobMap, Kept

(* A fresh job object has neither a thread nor an end.                     *)
LEMMA NoJobFields ==
  /\ NoJob.thread = "none" /\ NoJob.linked = FALSE /\ NoJob.terminal = FALSE
  /\ NoJob.attempt = 0
  BY DEF NoJob

(* Keeping is transitive.                                                  *)
LEMMA KeptTwice ==
  ASSUME NEW js, NEW ks, NEW ls, Kept(js, ks), Kept(ks, ls)
  PROVE  Kept(js, ls)
<1> SUFFICES ASSUME NEW j \in Jobs
             PROVE  \/ Carried(ls[j], js[j])
                    \/ js[j].thread = "done" /\ Alike(ls[j], NoJob)
  BY DEF Kept
<1> QED BY NoJobFields DEF Kept, Alike, Carried

(* Freed and kept objects do not matter before or after a new one.         *)
LEMMA GrownFromKept ==
  ASSUME NEW js, NEW ks, NEW ls, NEW p, Shaped(js), Kept(js, ks), Grown(ks, ls, p)
  PROVE  Grown(js, ls, p)
<1>1. Active(ks) = Active(js) /\ ActiveOf(ks, p) = ActiveOf(js, p)
  BY DEF Shaped, Kept, Alike, Carried, NoJob, Active, ActiveOf
<1> QED BY <1>1, NoJobFields DEF Kept, Grown, Alike, Carried

LEMMA KeptFromGrown ==
  ASSUME NEW js, NEW ks, NEW ls, NEW p, Grown(js, ks, p), Kept(ks, ls)
  PROVE  Grown(js, ls, p)
<1>1. PICK i \in Jobs :
        /\ js[i].thread \in {"none", "done"}
        /\ ks[i].linked /\ ks[i].project = p /\ ~ks[i].terminal
        /\ ks[i].thread = "waiting" /\ ks[i].attempt = 0
        /\ \A j \in Jobs \ {i} :
             \/ Carried(ks[j], js[j])
             \/ js[j].thread = "done" /\ Alike(ks[j], NoJob)
        /\ ActiveOf(js, p) = {}
        /\ Cardinality(Active(js)) < JobLimit
  BY DEF Grown
<1>2. Carried(ls[i], ks[i])
  BY <1>1 DEF Kept
<1>3. \A j \in Jobs \ {i} :
        \/ Carried(ls[j], js[j])
        \/ js[j].thread = "done" /\ Alike(ls[j], NoJob)
  BY <1>1, NoJobFields DEF Kept, Alike, Carried
<1>4. /\ ls[i].linked /\ ls[i].project = p /\ ~ls[i].terminal
      /\ ls[i].thread = "waiting" /\ ls[i].attempt = 0
  BY <1>1, <1>2 DEF Alike, Carried
<1> QED BY <1>1, <1>3, <1>4 DEF Grown

(* Kept and grown jobs stay well-shaped and within the limits.             *)
LEMMA KeptIsSafe ==
  ASSUME NEW js, NEW ks, Shaped(js), Limited(js), Kept(js, ks)
  PROVE  Shaped(ks) /\ Limited(ks) /\ Active(ks) = Active(js)
<1>1. Shaped(ks)
  <2>1. ASSUME NEW j \in Jobs
        PROVE  /\ ks[j].linked <=> ks[j].thread # "none"
               /\ ks[j].terminal <=> ks[j].thread = "done"
               /\ ks[j].linked => ks[j].project \in Projects
               /\ Attempts(ks[j])
    <3>1. CASE Carried(ks[j], js[j])
      BY <3>1 DEF Shaped, Alike, Carried, Attempts
    <3>2. CASE Alike(ks[j], NoJob)
      BY <3>2, NoJobFields DEF Alike, Carried, Attempts
    <3> QED BY <3>1, <3>2 DEF Kept
  <2> QED BY <2>1 DEF Shaped
<1>2. Active(ks) = Active(js)
  BY DEF Shaped, Kept, Alike, Carried, NoJob, Active
<1>3. \A j \in Active(js) : ks[j].project = js[j].project
  BY DEF Shaped, Kept, Alike, Carried, Active
<1> QED BY <1>1, <1>2, <1>3 DEF Limited

LEMMA GrownIsSafe ==
  ASSUME NEW js, NEW ks, NEW p \in Projects, Shaped(js), Limited(js), Grown(js, ks, p)
  PROVE  Shaped(ks) /\ Limited(ks)
<1>1. PICK i \in Jobs :
        /\ js[i].thread \in {"none", "done"}
        /\ ks[i].linked /\ ks[i].project = p /\ ~ks[i].terminal
        /\ ks[i].thread = "waiting" /\ ks[i].attempt = 0
        /\ \A j \in Jobs \ {i} :
             \/ Carried(ks[j], js[j])
             \/ js[j].thread = "done" /\ Alike(ks[j], NoJob)
        /\ ActiveOf(js, p) = {}
        /\ Cardinality(Active(js)) < JobLimit
  BY DEF Grown
<1>2. Shaped(ks)
  <2>1. ASSUME NEW j \in Jobs \ {i}
        PROVE  /\ ks[j].linked <=> ks[j].thread # "none"
               /\ ks[j].terminal <=> ks[j].thread = "done"
               /\ ks[j].linked => ks[j].project \in Projects
               /\ Attempts(ks[j])
    BY <1>1, NoJobFields DEF Shaped, Alike, Carried, Attempts
  <2>2. 0 < MaxAttempts
    BY ConstantsAssumption
  <2> QED BY <1>1, <2>1, <2>2 DEF Shaped, Attempts
<1>3. i \notin Active(js) /\ Active(ks) = Active(js) \cup {i}
  BY <1>1 DEF Shaped, Alike, Carried, NoJob, Active
<1>4. \A j \in Active(js) : ks[j].project = js[j].project /\ js[j].project # p
  BY <1>1, <1>3 DEF Shaped, Alike, Carried, Active, ActiveOf
<1>5. Cardinality(Active(ks)) = Cardinality(Active(js)) + 1
  BY <1>3, Counting, FS_AddElement DEF Active
<1>6. Cardinality(Active(ks)) <= JobLimit
  BY <1>1, <1>5, Counting, ConstantsAssumption DEF Active
<1>7. \A j, k \in Active(ks) : ks[j].project = ks[k].project => j = k
  BY <1>1, <1>3, <1>4 DEF Limited
<1> QED BY <1>2, <1>6, <1>7 DEF Limited

-----------------------------------------------------------------------------
(* application_job_subscribe_locked.                                       *)

(* Asking for a job keeps the jobs, or links one new job of the project.   *)
LEMMA SubscribeKeeps ==
  ASSUME NEW js \in JobMap, Shaped(js), NEW p \in Projects, NEW o \in Options,
         NEW x \in Subscriptions(js, p, o), stopping \in BOOLEAN,
         faults \in 0..MaxFaults
  PROVE  /\ x.jobs \in JobMap
         /\ x.job \in Jobs \cup {Nothing}
         /\ FaultsAfter(x) \in 0..MaxFaults
         /\ Kept(js, x.jobs) \/ (~stopping /\ Grown(js, x.jobs, p))
         /\ stopping => x.job = Nothing
         /\ \A j \in Active(x.jobs) \ Active(js) : ~js[j].linked /\ ~x.jobs[j].cancelReq
<1> DEFINE Goal == /\ x.jobs \in JobMap
                   /\ x.job \in Jobs \cup {Nothing}
                   /\ FaultsAfter(x) \in 0..MaxFaults
                   /\ Kept(js, x.jobs) \/ (~stopping /\ Grown(js, x.jobs, p))
                   /\ stopping => x.job = Nothing
                   /\ \A j \in Active(x.jobs) \ Active(js) :
                        ~js[j].linked /\ ~x.jobs[j].cancelReq
<1>1. ASSUME NEW t, x = Refused(js, t), t = "failed" => faults < MaxFaults
      PROVE  Goal
  <2>1. x.jobs = js /\ x.job = Nothing /\ x.status = t
    BY <1>1 DEF Refused
  <2>2. Kept(js, js)
    BY DEF Kept, Alike, Carried
  <2>3. FaultsAfter(x) \in 0..MaxFaults
    BY <1>1, <2>1, ConstantsAssumption DEF FaultsAfter
  <2> QED BY <2>1, <2>2, <2>3
<1>2. ASSUME ~stopping, NEW j \in Jobs,
             x = [job |-> j, status |-> "ok", jobs |-> [js EXCEPT ![j].subs = @ + 1]]
      PROVE  Goal
  <2>1. x.jobs = [js EXCEPT ![j].subs = @ + 1] /\ x.job = j /\ x.status = "ok"
    BY <1>2
  <2>2. x.jobs \in JobMap /\ Kept(js, x.jobs)
    BY <2>1 DEF JobMap, Job, Kept, Alike, Carried
  <2>3. Active(x.jobs) = Active(js)
    BY <2>1 DEF JobMap, Job, Active
  <2> QED BY <1>2, <2>1, <2>2, <2>3 DEF FaultsAfter
<1>3. ASSUME ~stopping, ActiveOf(js, p) = {}, Cardinality(Active(js)) < JobLimit,
             NEW i \in Jobs, ~js[i].linked, x = Created(js, p, o)
      PROVE  Goal
  <2> DEFINE j == CHOOSE k \in Jobs : ~js[k].linked
             new == [NoJob EXCEPT !.linked = TRUE, !.project = p, !.options = o,
                                  !.subs = 1, !.thread = "waiting"]
  <2>1. j \in Jobs /\ ~js[j].linked
    BY <1>3
  <2>2. /\ new \in Job
        /\ new.linked = TRUE /\ new.project = p /\ new.terminal = FALSE
        /\ new.thread = "waiting" /\ new.attempt = 0 /\ new.cancelReq = FALSE
    <3>1. \A r \in Job : LET q == [r EXCEPT !.linked = TRUE, !.project = p, !.options = o,
                                            !.subs = 1, !.thread = "waiting"]
                         IN  /\ q \in Job /\ q.linked = TRUE /\ q.project = p
                             /\ q.terminal = r.terminal /\ q.thread = "waiting"
                             /\ q.attempt = r.attempt /\ q.cancelReq = r.cancelReq
      BY DEF Job, Threads
    <3>2. NoJob.cancelReq = FALSE
      BY DEF NoJob
    <3> QED BY <3>1, <3>2, NoJobType, NoJobFields
  <2>3. x.jobs = [js EXCEPT ![j] = new] /\ x.job = j /\ x.status = "ok"
    BY <1>3 DEF Created, new
  <2> HIDE DEF j
  <2>4. x.jobs \in JobMap
    BY <2>1, <2>2, <2>3 DEF JobMap
  <2>5. js[j].thread \in {"none", "done"}
    BY <2>1 DEF Shaped
  <2>6. x.jobs[j] = new /\ \A k \in Jobs \ {j} : x.jobs[k] = js[k]
    BY <2>1, <2>3 DEF JobMap
  <2>7. Grown(js, x.jobs, p)
    <3>1. \A k \in Jobs \ {j} : Carried(x.jobs[k], js[k])
      BY <2>6 DEF Carried, Alike
    <3>2. /\ x.jobs[j].linked /\ x.jobs[j].project = p /\ ~x.jobs[j].terminal
          /\ x.jobs[j].thread = "waiting" /\ x.jobs[j].attempt = 0
      BY <2>2, <2>6
    <3> HIDE DEF new
    <3> QED BY <1>3, <2>1, <2>5, <3>1, <3>2 DEF Grown
  <2>8. \A k \in Active(x.jobs) \ Active(js) : ~js[k].linked /\ ~x.jobs[k].cancelReq
    BY <2>1, <2>2, <2>6 DEF Active
  <2> QED
    BY <1>3, <2>1, <2>3, <2>4, <2>7, <2>8 DEF FaultsAfter
<1>4. CASE stopping
  BY <1>1, <1>4 DEF Subscriptions
<1>5. CASE ~stopping /\ ActiveOf(js, p) # {}
  <2>1. PICK j \in ActiveOf(js, p) :
          x = IF js[j].cancelReq THEN Refused(js, "cancelling")
              ELSE IF js[j].options # o THEN Refused(js, "conflict")
              ELSE [job |-> j, status |-> "ok", jobs |-> [js EXCEPT ![j].subs = @ + 1]]
    BY <1>5 DEF Subscriptions
  <2>2. j \in Jobs
    BY DEF ActiveOf, Active
  <2> QED BY <1>1, <1>2, <1>5, <2>1, <2>2
<1>6. CASE ~stopping /\ ActiveOf(js, p) = {} /\ Cardinality(Active(js)) >= JobLimit
  BY <1>1, <1>6 DEF Subscriptions
<1>7. CASE ~stopping /\ ActiveOf(js, p) = {} /\ ~(Cardinality(Active(js)) >= JobLimit)
  <2>1. Cardinality(Active(js)) < JobLimit
    BY <1>7, Counting, ConstantsAssumption DEF Active
  <2>2. \/ (\E i \in Jobs : ~js[i].linked) /\ x = Created(js, p, o)
        \/ faults < MaxFaults /\ x = Refused(js, "failed")
    BY <1>7 DEF Subscriptions
  <2> QED BY <1>1, <1>3, <1>7, <2>1, <2>2
<1> QED BY <1>4, <1>5, <1>6, <1>7

-----------------------------------------------------------------------------
(* The operators on sessions, jobs and owners together.                    *)

LEMMA OwnedKeeps ==
  ASSUME NEW st \in SharedState, NEW S \in SUBSET Sessions, NEW j \in Jobs
  PROVE  /\ Owned(st, S, j) \in SharedState
         /\ Owned(st, S, j).session = st.session
         /\ Kept(st.job, Owned(st, S, j).job)
<1> DEFINE new == {s \in S : <<s, j>> \notin st.owners}
           n == Cardinality(new)
           js == [st.job EXCEPT ![j].subs = @ + n]
           os == st.owners \cup {<<s, j>> : s \in new}
<1>1. n \in Nat
  BY Counting
<1>2. os \in SUBSET (Sessions \X Jobs)
  <2>1. \A s \in new : <<s, j>> \in Sessions \X Jobs
    OBVIOUS
  <2>2. st.owners \subseteq Sessions \X Jobs
    BY DEF SharedState
  <2> HIDE DEF new
  <2> QED BY <2>1, <2>2
<1>3. Owned(st, S, j) = [st EXCEPT !.owners = os, !.job = js]
  BY DEF Owned
<1> HIDE DEF new, n, os
<1>4. js \in JobMap /\ Kept(st.job, js)
  BY <1>1 DEF SharedState, JobMap, Job, Kept, Alike, Carried
<1> QED BY <1>2, <1>3, <1>4 DEF SharedState

LEMMA DisownedKeeps ==
  ASSUME NEW st \in SharedState, NEW S \in SUBSET Sessions
  PROVE  /\ Disowned(st, S) \in SharedState
         /\ Disowned(st, S).session = st.session
         /\ Kept(st.job, Disowned(st, S).job)
<1> DEFINE gone == {o \in st.owners : o[1] \in S}
           n(j) == Cardinality({o \in gone : o[2] = j})
           js == [j \in Jobs |-> IF n(j) = 0 THEN st.job[j]
                                 ELSE Unsubscribed(st.job[j], n(j))]
<1>1. \A j \in Jobs : n(j) \in Nat
  <2>1. IsFiniteSet(Sessions \X Jobs)
    BY Counting, FS_Product
  <2> QED
    BY <2>1, FS_Subset, FS_CardinalityType DEF SharedState
<1>2. Disowned(st, S) = [st EXCEPT !.owners = st.owners \ gone, !.job = js]
  BY DEF Disowned
<1>3. st.owners \ gone \in SUBSET (Sessions \X Jobs)
  BY DEF SharedState
<1> HIDE DEF gone, n
<1>4. ASSUME NEW j \in Jobs
      PROVE  js[j] \in Job /\ Carried(js[j], st.job[j])
  <2>1. st.job[j] \in Job
    BY DEF SharedState, JobMap
  <2> QED
    BY <1>1, <2>1, UnsubscribedKeeps DEF Alike, Carried
<1>5. js \in JobMap /\ Kept(st.job, js)
  BY <1>4 DEF JobMap, Kept
<1> HIDE DEF js
<1> QED BY <1>2, <1>3, <1>5 DEF SharedState

(* Setting the watch of some sessions.                                     *)
LEMMA WatchKeeps ==
  ASSUME NEW old \in [Sessions -> Session], NEW S, NEW b \in BOOLEAN
  PROVE  LET ss == [s \in Sessions |-> IF s \in S THEN [old[s] EXCEPT !.watch = b]
                                       ELSE old[s]]
         IN  ss \in [Sessions -> Session] /\ Settled(old, ss)
<1>1. \A r \in Session : /\ [r EXCEPT !.watch = b] \in Session
                         /\ [r EXCEPT !.watch = b].token = r.token
                         /\ [r EXCEPT !.watch = b].auto = r.auto
  BY DEF Session
<1> QED BY <1>1 DEF Settled

LEMMA UnwatchedKeeps ==
  ASSUME NEW st \in SharedState, NEW S \in SUBSET Sessions
  PROVE  /\ Unwatched(st, S) \in SharedState
         /\ Settled(st.session, Unwatched(st, S).session)
         /\ Kept(st.job, Unwatched(st, S).job)
<1> DEFINE d == Disowned(st, {s \in S : st.session[s].watch})
           ss == [s \in Sessions |->
                    IF s \in S THEN [st.session[s] EXCEPT !.watch = FALSE]
                    ELSE st.session[s]]
<1>1. d \in SharedState /\ Kept(st.job, d.job)
  BY DisownedKeeps
<1>2. Unwatched(st, S) = [d EXCEPT !.session = ss]
  BY DEF Unwatched
<1> HIDE DEF d
<1>3. ss \in [Sessions -> Session] /\ Settled(st.session, ss)
  <2>1. st.session \in [Sessions -> Session]
    BY DEF SharedState
  <2> QED BY <2>1, WatchKeeps
<1> QED BY <1>1, <1>2, <1>3 DEF SharedState

LEMMA RefreshedKeeps ==
  ASSUME NEW st \in SharedState, NEW S \in SUBSET Sessions, NEW p
  PROVE  /\ Refreshed(st, S, p) \in SharedState
         /\ Settled(st.session, Refreshed(st, S, p).session)
         /\ Kept(st.job, Refreshed(st, S, p).job)
<1> DEFINE able == {s \in S : /\ st.session[s].auto = Nothing
                              /\ ~stopping /\ ~RequestCancelled(s)}
           new  == {s \in able : ~st.session[s].watch}
           late == {j \in ActiveOf(st.job, p) : st.job[j].waiter}
           base == IF Watchers(st.session, p) # {} /\ late # {}
                   THEN Owned(st, new, CHOOSE j \in late : TRUE) ELSE st
           ss == [s \in Sessions |->
                    IF s \in new THEN [st.session[s] EXCEPT !.watch = TRUE]
                    ELSE st.session[s]]
           full == [base EXCEPT !.session = ss]
           gone == Unwatched(st, Watchers(st.session, p))
<1>1. Refreshed(st, S, p) \in {st, gone, full}
  BY DEF Refreshed
<1>2. base \in SharedState /\ Kept(st.job, base.job)
  <2>1. Kept(st.job, st.job)
    BY DEF Kept, Alike, Carried
  <2>2. late # {} => (CHOOSE j \in late : TRUE) \in Jobs
    BY DEF ActiveOf, Active
  <2>3. new \in SUBSET Sessions
    OBVIOUS
  <2> QED BY <2>1, <2>2, <2>3, OwnedKeeps
<1>3. ss \in [Sessions -> Session] /\ Settled(st.session, ss)
  <2>1. st.session \in [Sessions -> Session]
    BY DEF SharedState
  <2> QED BY <2>1, WatchKeeps
<1>4. gone \in SharedState /\ Settled(st.session, gone.session) /\ Kept(st.job, gone.job)
  BY UnwatchedKeeps DEF Watchers
<1>5. Settled(st.session, st.session) /\ Kept(st.job, st.job)
  BY DEF Settled, Kept, Alike, Carried
<1> HIDE DEF base, ss, gone
<1>6. full \in SharedState /\ Settled(st.session, full.session) /\ Kept(st.job, full.job)
  BY <1>2, <1>3 DEF SharedState
<1> HIDE DEF full
<1> QED BY <1>1, <1>4, <1>5, <1>6

LEMMA UnsubscribedJob ==
  ASSUME NEW js \in JobMap, NEW j
  PROVE  LET ks == [js EXCEPT ![j] = Unsubscribed(@, 1)]
         IN  ks \in JobMap /\ Kept(js, ks)
<1>1. \A i \in Jobs : js[i] \in Job
  BY DEF JobMap
<1>2. \A i \in Jobs : /\ Unsubscribed(js[i], 1) \in Job
                      /\ Carried(Unsubscribed(js[i], 1), js[i])
  BY <1>1, UnsubscribedKeeps
<1> QED BY <1>1, <1>2 DEF JobMap, Kept, Alike, Carried

LEMMA DetachedKeeps ==
  ASSUME NEW st \in SharedState, NEW s \in Sessions
  PROVE  /\ Detached(st, s).st \in SharedState
         /\ Detached(st, s).join \in Jobs \cup {Nothing}
         /\ Quieter(st.session, Detached(st, s).st.session)
         /\ Kept(st.job, Detached(st, s).st.job)
<1> DEFINE active == st.session[s].active
           auto == st.session[s].auto
           js == IF active = Nothing THEN st.job
                 ELSE [st.job EXCEPT ![active] = Unsubscribed(@, 1)]
           last == auto # Nothing /\ ~js[auto].terminal /\ js[auto].subs = 1
           ss == [st.session EXCEPT ![s].active = Nothing, ![s].auto = Nothing]
           ks == IF auto = Nothing THEN js
                 ELSE IF last THEN [js EXCEPT ![auto].cancelReq = TRUE]
                 ELSE [js EXCEPT ![auto] = Unsubscribed(@, 1)]
           mid == [st EXCEPT !.session = ss, !.job = ks]
<1>1. /\ st.job \in JobMap /\ st.session \in [Sessions -> Session]
      /\ st.session[s] \in Session
  BY DEF SharedState
<1>2. auto \in Jobs \cup {Nothing}
  BY <1>1 DEF Session
<1>3. js \in JobMap /\ Kept(st.job, js)
  <2> DEFINE ms == [st.job EXCEPT ![active] = Unsubscribed(@, 1)]
  <2>1. ms \in JobMap /\ Kept(st.job, ms)
    BY <1>1, UnsubscribedJob
  <2>2. Kept(st.job, st.job)
    BY DEF Kept, Alike, Carried
  <2>3. js \in {st.job, ms}
    OBVIOUS
  <2> HIDE DEF ms, js
  <2> QED BY <1>1, <2>1, <2>2, <2>3
<1> HIDE DEF active, js
<1>4. ks \in JobMap /\ Kept(js, ks)
  <2>1. CASE auto = Nothing
    BY <1>3, <2>1 DEF Kept, Alike, Carried
  <2>2. CASE auto # Nothing /\ last
    <3>1. \A i \in Jobs : js[i] \in Job
      BY <1>3 DEF JobMap
    <3>2. \A r \in Job : /\ [r EXCEPT !.cancelReq = TRUE] \in Job
                         /\ Carried([r EXCEPT !.cancelReq = TRUE], r)
      BY DEF Job, Alike, Carried
    <3>3. ks = [js EXCEPT ![auto] = [@ EXCEPT !.cancelReq = TRUE]]
      BY <2>2
    <3> HIDE DEF auto, last, ks
    <3>4. \A i \in Jobs : /\ ks[i] \in Job /\ Carried(ks[i], js[i])
      <4>1. DOMAIN js = Jobs
        BY <1>3 DEF JobMap
      <4> QED BY <3>1, <3>2, <3>3, <4>1 DEF Alike, Carried
    <3>5. ks \in [Jobs -> Job]
      BY <1>3, <3>3, <3>4 DEF JobMap
    <3> QED BY <3>4, <3>5 DEF JobMap, Kept
  <2>3. CASE auto # Nothing /\ ~last
    BY <1>3, <2>3, UnsubscribedJob
  <2> QED BY <2>1, <2>2, <2>3
<1>5. ss \in [Sessions -> Session] /\ Quieter(st.session, ss)
  <2>1. \A r \in Session : LET q == [r EXCEPT !.active = Nothing, !.auto = Nothing]
                           IN  q \in Session /\ q.token = r.token /\ q.auto = Nothing
    BY DEF Session
  <2>2. ss = [st.session EXCEPT ![s] = [@ EXCEPT !.active = Nothing, !.auto = Nothing]]
    OBVIOUS
  <2> HIDE DEF ss
  <2> QED BY <1>1, <2>1, <2>2 DEF Quieter
<1>6. /\ Detached(st, s).st = Unwatched(mid, {s})
      /\ Detached(st, s).join \in {Nothing, auto}
  BY DEF Detached, js, active
<1> HIDE DEF auto, last, ss, ks
<1>7. mid \in SharedState /\ mid.session = ss /\ mid.job = ks
  BY <1>4, <1>5 DEF SharedState
<1> HIDE DEF mid
<1>8. /\ Unwatched(mid, {s}) \in SharedState
      /\ Settled(ss, Unwatched(mid, {s}).session)
      /\ Kept(ks, Unwatched(mid, {s}).job)
  BY <1>7, UnwatchedKeeps
<1>9. Quieter(st.session, Unwatched(mid, {s}).session)
  BY <1>5, <1>8 DEF Quieter, Settled
<1> QED BY <1>2, <1>3, <1>4, <1>6, <1>8, <1>9, KeptTwice

-----------------------------------------------------------------------------
(* The inductive invariant.                                                *)

(* Calm steps keep the invariant: the argument of most actions.            *)
LEMMA SafeStep ==
  ASSUME IInv, TypeOK', JobsSafe, ActorsCalm, HostCalm
  PROVE  IInv'
<1>1. \A a \in Actors : Reserved(a)' => Reserved(a) /\ arg'[a].key = arg[a].key
  BY DEF ActorsCalm, ActorCalm, Reserved, Owning
<1>2. ASSUME NEW a \in Actors
      PROVE  /\ Claimed(a)'
             /\ \A b \in Actors \ {a} : Apart(a, b)'
             /\ \A j \in Jobs : Away(a, j)'
  <2>1. Claimed(a)'
    BY DEF ActorsCalm, ActorCalm, Claimed
  <2>2. ASSUME NEW b \in Actors \ {a}
        PROVE  Apart(a, b)'
    <3>1. Apart(a, b)
      BY DEF IInv, Excluded
    <3> QED BY <1>1, <3>1 DEF Apart
  <2>3. ASSUME NEW j \in Jobs
        PROVE  Away(a, j)'
    <3>1. Away(a, j)
      BY DEF IInv, Excluded
    <3> QED BY <1>1, <3>1 DEF Away, JobsSafe
  <2> QED BY <2>1, <2>2, <2>3
<1>3. Drained'
  <2>1. host' # "running" => stopping' /\ \A s \in Sessions : session'[s].auto = Nothing
    BY DEF IInv, Drained, HostCalm, Quieter
  <2>2. ASSUME host' = "quiet"
        PROVE  /\ \A j \in Jobs : ~job'[j].linked
               /\ \A a \in Actors : ~Reserved(a)'
               /\ \A s \in Sessions : session'[s].token = 0
    BY <1>1, <2>2 DEF IInv, Drained, HostCalm, JobsSafe, Quieter
  <2> QED BY <2>1, <2>2 DEF Drained
<1> QED BY <1>2, <1>3 DEF IInv, JobsSafe, Excluded

LEMMA CalmStep ==
  ASSUME IInv, TypeOK', JobsCalm, ActorsCalm, HostCalm
  PROVE  IInv' /\ Lasting
  BY SafeStep DEF JobsCalm

LEMMA KeptIsCalm ==
  ASSUME IInv, Kept(job, job')
  PROVE  JobsCalm
<1>1. Shaped(job') /\ Limited(job') /\ Active(job') = Active(job)
  BY KeptIsSafe DEF IInv
<1>2. \A j \in Jobs : /\ job'[j].thread \in Working
                       => job[j].thread \in Working /\ job'[j].project = job[j].project
  BY NoJobFields DEF Kept, Alike, Carried, Working
<1>3. \A j \in Jobs : ~job[j].linked => ~job'[j].linked
  BY NoJobFields DEF Kept, Alike, Carried
<1>4. ASSUME NEW j \in Active(job)
      PROVE  Carried(job'[j], job[j])
  BY DEF IInv, Shaped, Active, Kept
<1> QED
  BY <1>1, <1>2, <1>3, <1>4 DEF JobsCalm, JobsSafe, Lasting

LEMMA GrownIsCalm ==
  ASSUME IInv, ~stopping, NEW p \in Projects, Grown(job, job', p),
         \A j \in Active(job') \ Active(job) : Fresh(j)
  PROVE  JobsCalm
<1>1. Shaped(job') /\ Limited(job')
  BY GrownIsSafe DEF IInv
<1>2. \A j \in Jobs : job'[j].thread \in Working
                       => job[j].thread \in Working /\ job'[j].project = job[j].project
  BY NoJobFields DEF Grown, Alike, Carried, Working
<1>3. PICK i \in Jobs :
        /\ job[i].thread \in {"none", "done"}
        /\ job'[i].project = p /\ job'[i].thread = "waiting"
        /\ \A j \in Jobs \ {i} :
             \/ Carried(job'[j], job[j])
             \/ job[j].thread = "done" /\ Alike(job'[j], NoJob)
        /\ ActiveOf(job, p) = {}
  BY DEF Grown
<1>4. ASSUME NEW j \in Active(job)
      PROVE  j \in Active(job') /\ Carried(job'[j], job[j])
  <2>1. j \in Jobs /\ job[j].linked /\ ~job[j].terminal /\ job[j].thread \notin {"none", "done"}
    BY DEF Active, IInv, Shaped
  <2>2. Carried(job'[j], job[j])
    BY <1>3, <2>1
  <2> QED BY <2>1, <2>2 DEF Active, Alike, Carried
<1>5. ASSUME NEW j \in Active(job') \ Active(job)
      PROVE  j = i
  BY <1>3, NoJobFields DEF Active, Alike, Carried
<1> QED
  BY <1>1, <1>2, <1>3, <1>4, <1>5 DEF JobsCalm, JobsSafe, Lasting

LEMMA SameJobs ==
  ASSUME IInv, job' = job
  PROVE  JobsCalm
<1>1. Kept(job, job')
  BY DEF Kept, Alike, Carried
<1> QED BY <1>1, KeptIsCalm

LEMMA SameActors ==
  ASSUME IInv, pc' = pc, arg' = arg, lease' = lease
  PROVE  ActorsCalm
  BY DEF IInv, Excluded, Claimed, ActorsCalm, ActorCalm

LEMMA SameSessions ==
  ASSUME stopping' = stopping, host' = host, session' = session
  PROVE  HostCalm
  BY DEF HostCalm, Quieter

(* One actor moves on, and nobody else.                                    *)
LEMMA OneActor ==
  ASSUME IInv, NEW a \in Actors, NEW to, pc' = [pc EXCEPT ![a] = to], lease' = lease,
         \A b \in Actors \ {a} : arg'[b] = arg[b],
         ActorCalm(a)
  PROVE  ActorsCalm
<1>1. \A b \in Actors \ {a} : pc'[b] = pc[b]
  BY DEF IInv, TypeOK
<1> QED
  BY <1>1 DEF IInv, Excluded, Claimed, ActorsCalm, ActorCalm

-----------------------------------------------------------------------------
(* Sessions and requests keep the invariant.                               *)

LEMMA NoArgType == NoArg \in Arguments /\ NoArg.key = Nothing
  BY DEF NoArg, Arguments, Options

(* The state of the objects, as the operators on it take it.               *)
LEMMA SharedType ==
  ASSUME TypeOK
  PROVE  /\ Shared \in SharedState /\ Shared.session = session
         /\ Shared.job = job /\ Shared.owners = owners
  BY DEF TypeOK, Shared, SharedState, JobMap

(* One session object changes.                                             *)
LEMMA OneSession ==
  ASSUME TypeOK, NEW s \in Sessions, NEW q \in Session,
         session' = [session EXCEPT ![s] = q],
         q.token \in {0, session[s].token} \/ ~stopping,
         q.auto \in {Nothing, session[s].auto} \/ ~stopping
  PROVE  /\ session' \in [Sessions -> Session]
         /\ stopping => Quieter(session, session')
<1>1. session \in [Sessions -> Session]
  BY DEF TypeOK
<1>2. session' \in [Sessions -> Session]
  BY <1>1
<1> QED BY <1>1, <1>2 DEF Quieter

LEMMA SessionOpenStep ==
  ASSUME IInv, NEW s \in Sessions, SessionOpen(s)
  PROVE  IInv' /\ Lasting
<1> DEFINE q == [session[s] EXCEPT !.life = "open"]
<1>1. session[s] \in Session
  BY DEF IInv, TypeOK
<1>2. q \in Session /\ q.token = session[s].token /\ q.auto = session[s].auto
  BY <1>1 DEF Session
<1>3. session' = [session EXCEPT ![s] = q]
  BY DEF SessionOpen
<1> HIDE DEF q
<1>4. session' \in [Sessions -> Session] /\ (stopping => Quieter(session, session'))
  BY <1>2, <1>3, OneSession DEF IInv
<1>5. JobsCalm /\ ActorsCalm
  BY SameJobs, SameActors DEF SessionOpen
<1>6. TypeOK'
  BY <1>4 DEF IInv, TypeOK, SessionOpen
<1> QED
  BY <1>4, <1>5, <1>6, CalmStep DEF HostCalm, SessionOpen

LEMMA RequestAdmitStep ==
  ASSUME IInv, NEW s \in Sessions, RequestAdmit(s)
  PROVE  IInv' /\ Lasting
<1> DEFINE q == [session[s] EXCEPT !.issued = @ + 1]
<1>1. session[s] \in Session
  BY DEF IInv, TypeOK
<1>2. session[s].issued + 1 \in 0..MaxRequests
  BY <1>1, ConstantsAssumption DEF RequestAdmit, Session
<1>3. q \in Session /\ q.token = session[s].token /\ q.auto = session[s].auto
  BY <1>1, <1>2 DEF Session
<1>4. session' = [session EXCEPT ![s] = q]
  BY DEF RequestAdmit
<1> HIDE DEF q
<1>5. session' \in [Sessions -> Session] /\ (stopping => Quieter(session, session'))
  BY <1>3, <1>4, OneSession DEF IInv
<1>6. JobsCalm
  BY SameJobs DEF RequestAdmit
<1>7. s \in Actors
  BY DEF Actors
<1>8. TypeOK'
  BY <1>5 DEF IInv, TypeOK, RequestAdmit
<1>9. ActorCalm(s)
  BY <1>7 DEF ActorCalm, IInv, TypeOK, Excluded, Claimed, RequestAdmit, Owning
<1>10. ActorsCalm
  BY <1>7, <1>9, OneActor DEF RequestAdmit
<1> QED
  BY <1>5, <1>6, <1>8, <1>10, CalmStep DEF HostCalm, RequestAdmit

LEMMA RequestEnterStep ==
  ASSUME IInv, NEW s \in Sessions, RequestEnter(s)
  PROVE  IInv' /\ Lasting
<1> DEFINE token == session[s].issued
           left == IF session[s].cancelToken = token THEN token ELSE 0
           q == [session[s] EXCEPT !.token = token, !.cancelToken = left]
           z(b) == [session[s] EXCEPT !.token = token, !.cancelToken = left,
                                      !.initialize = b]
<1>1. session[s] \in Session /\ s \in Actors
  BY DEF IInv, TypeOK, Actors
<1>2. token \in 0..MaxRequests /\ left \in 0..MaxRequests
  BY <1>1, ConstantsAssumption DEF Session
<1>3. /\ q \in Session /\ q.auto = session[s].auto
      /\ \A b \in BOOLEAN : z(b) \in Session /\ z(b).auto = session[s].auto
  <2> HIDE DEF token, left
  <2> QED BY <1>1, <1>2 DEF Session
<1>4. JobsCalm
  BY SameJobs DEF RequestEnter
<1>5. CASE stopping \/ session[s].cancelled
  <2>1. session' = session /\ arg' = arg /\ pc' = [pc EXCEPT ![s] = "idle"]
    BY <1>5 DEF RequestEnter
  <2>2. TypeOK'
    BY <2>1 DEF IInv, TypeOK, RequestEnter
  <2>a. ~lease'[s] /\ pc'[s] = "idle"
    BY <1>1, <2>1 DEF IInv, TypeOK, Excluded, Claimed, RequestEnter, Owning
  <2>3. ActorCalm(s)
    BY <2>a DEF ActorCalm, Owning
  <2>4. ActorsCalm
    BY <1>1, <2>1, <2>3, OneActor DEF RequestEnter
  <2> QED
    BY <1>4, <2>1, <2>2, <2>4, SameSessions, CalmStep DEF RequestEnter
<1>6. CASE ~stopping /\ ~session[s].cancelled /\ session[s].cancelToken = token
  <2>1. /\ session' = [session EXCEPT ![s] = q]
        /\ arg' = arg /\ pc' = [pc EXCEPT ![s] = "finish"]
    BY <1>1, <1>6 DEF RequestEnter
  <2> HIDE DEF q
  <2>2. session' \in [Sessions -> Session]
    BY <1>3, <1>6, <2>1, OneSession DEF IInv
  <2>3. TypeOK'
    BY <2>1, <2>2 DEF IInv, TypeOK, RequestEnter
  <2>a. ~lease'[s] /\ pc'[s] = "finish"
    BY <1>1, <2>1 DEF IInv, TypeOK, Excluded, Claimed, RequestEnter, Owning
  <2>4. ActorCalm(s)
    BY <2>a DEF ActorCalm, Owning
  <2>5. ActorsCalm
    BY <1>1, <2>1, <2>4, OneActor DEF RequestEnter
  <2> QED
    BY <1>4, <1>6, <2>3, <2>5, CalmStep DEF HostCalm, RequestEnter
<1>7. CASE ~stopping /\ ~session[s].cancelled /\ session[s].cancelToken # token
  <2> DEFINE e == [session EXCEPT ![s].token = token,
                     ![s].cancelToken = IF @ = token THEN @ ELSE 0]
  <2>a. PICK r \in Requests[s] :
          /\ session' = [e EXCEPT ![s].initialize = r.kind = "initialize"]
          /\ pc' = [pc EXCEPT ![s] = CASE r.kind = "initialize" -> "refresh"
                                       [] r.kind = "index" -> "subscribe"
                                       [] r.kind = "mutate" -> "reserve"]
          /\ arg' = IF r.kind = "initialize" THEN arg
                    ELSE [arg EXCEPT ![s] = [NoArg EXCEPT !.key = r.key,
                                                          !.options = r.options]]
    BY <1>7 DEF RequestEnter
  <2>b. e = [session EXCEPT ![s] = q]
    BY DEF IInv, TypeOK
  <2>c. \A b \in BOOLEAN : [e EXCEPT ![s].initialize = b] = [session EXCEPT ![s] = z(b)]
    BY <1>1, <2>b DEF IInv, TypeOK
  <2> HIDE DEF e, q, z
  <2>1. /\ session' = [session EXCEPT ![s] = z(r.kind = "initialize")]
          /\ pc' = [pc EXCEPT ![s] = CASE r.kind = "initialize" -> "refresh"
                                       [] r.kind = "index" -> "subscribe"
                                       [] r.kind = "mutate" -> "reserve"]
          /\ arg' = IF r.kind = "initialize" THEN arg
                    ELSE [arg EXCEPT ![s] = [NoArg EXCEPT !.key = r.key,
                                                          !.options = r.options]]
    BY <2>a, <2>c
  <2>2. /\ r.kind \in Kinds /\ r.key \in Keys /\ r.options \in Options
        /\ r.kind = "index" => r.key \in Projects
    BY ConstantsAssumption
  <2>3. session' \in [Sessions -> Session]
    <3> DEFINE y == z(r.kind = "initialize")
    <3>1. y \in Session
      BY <1>3
    <3>2. session' = [session EXCEPT ![s] = y]
      BY <2>1
    <3> HIDE DEF y
    <3> QED BY <1>7, <3>1, <3>2, OneSession DEF IInv
  <2> DEFINE w == [NoArg EXCEPT !.key = r.key, !.options = r.options]
  <2>4. w \in Arguments /\ w.key = r.key
    BY <2>2 DEF NoArg, Arguments
  <2>5. arg' \in [Actors -> Arguments]
    BY <1>1, <2>1, <2>4 DEF IInv, TypeOK, Arguments
  <2>6. TypeOK'
    BY <2>1, <2>2, <2>3, <2>5 DEF IInv, TypeOK, Arguments, RequestEnter, Kinds
  <2>7. pc'[s] \in {"refresh", "subscribe", "reserve"}
        /\ (pc'[s] = "subscribe" => r.kind = "index")
    BY <1>1, <2>1, <2>2 DEF IInv, TypeOK, Kinds
  <2>8. r.kind = "index" => arg'[s].key \in Projects
    BY <1>1, <2>1, <2>2, <2>4 DEF IInv, TypeOK
  <2>9. ~lease'[s]
    BY <1>1 DEF IInv, Excluded, Claimed, RequestEnter, Owning
  <2>10. ActorCalm(s)
    BY <2>7, <2>8, <2>9 DEF ActorCalm, Owning
  <2>11. \A b \in Actors \ {s} : arg'[b] = arg[b]
    BY <2>1 DEF IInv, TypeOK
  <2>12. ActorsCalm
    BY <1>1, <2>1, <2>10, <2>11, OneActor DEF RequestEnter
  <2> QED
    BY <1>4, <1>7, <2>6, <2>12, CalmStep DEF HostCalm, RequestEnter
<1> QED BY <1>5, <1>6, <1>7

(* An actor that owns no lock moves to a place without a claim.            *)
LEMMA MovesOn ==
  ASSUME IInv, NEW a \in Actors, NEW to, to \notin {"lease", "subscribe"} \cup Owning,
         pc[a] \notin Owning, pc' = [pc EXCEPT ![a] = to], lease' = lease,
         \A b \in Actors \ {a} : arg'[b] = arg[b]
  PROVE  ActorsCalm
<1>1. pc'[a] = to /\ ~lease'[a]
  BY DEF IInv, TypeOK, Excluded, Claimed
<1>2. ActorCalm(a)
  BY <1>1 DEF ActorCalm
<1> QED BY <1>2, OneActor

(* A subscription that releases nothing but what it just took.             *)
LEMMA SubscribeCalm ==
  ASSUME IInv, NEW p \in Projects, NEW o \in Options,
         NEW x \in Subscriptions(Reaped(job), p, o), Kept(x.jobs, job'),
         Spent(x.jobs, job')
  PROVE  /\ x.jobs \in JobMap /\ x.job \in Jobs \cup {Nothing}
         /\ FaultsAfter(x) \in 0..MaxFaults
         /\ stopping => x.job = Nothing
         /\ JobsCalm
<1>1. job \in JobMap /\ Shaped(job) /\ Limited(job)
      /\ stopping \in BOOLEAN /\ faults \in 0..MaxFaults
  BY DEF IInv, TypeOK, JobMap
<1>2. /\ Reaped(job) \in JobMap /\ Kept(job, Reaped(job)) /\ Shaped(Reaped(job))
      /\ Active(Reaped(job)) = Active(job)
  BY <1>1, ReapedKeeps, KeptIsSafe
<1>3. /\ x.jobs \in JobMap /\ x.job \in Jobs \cup {Nothing}
      /\ FaultsAfter(x) \in 0..MaxFaults
      /\ stopping => x.job = Nothing
      /\ Kept(Reaped(job), x.jobs) \/ (~stopping /\ Grown(Reaped(job), x.jobs, p))
      /\ \A j \in Active(x.jobs) \ Active(job) :
           ~Reaped(job)[j].linked /\ ~x.jobs[j].cancelReq
  BY <1>1, <1>2, SubscribeKeeps
<1>4. CASE Kept(Reaped(job), x.jobs)
  BY <1>2, <1>3, <1>4, KeptTwice, KeptIsCalm
<1>5. CASE ~stopping /\ Grown(Reaped(job), x.jobs, p)
  <2>1. Grown(job, x.jobs, p)
    BY <1>1, <1>2, <1>5, GrownFromKept
  <2>2. Grown(job, job', p)
    BY <2>1, KeptFromGrown
  <2>3. ASSUME NEW j \in Active(job') \ Active(job)
        PROVE  Fresh(j)
    <3>1. j \in Active(x.jobs)
      BY NoJobFields DEF Active, Kept, Carried, Alike
    <3>2. ~Reaped(job)[j].linked /\ ~x.jobs[j].cancelReq /\ j \in Jobs
      BY <1>3, <3>1 DEF Active
    <3>3. job[j].linked => job[j].subs = 0
      BY <3>2 DEF Reaped
    <3> QED BY <3>2, <3>3 DEF Fresh, Spent
  <2> QED BY <1>3, <1>5, <2>2, <2>3, GrownIsCalm
<1> QED BY <1>3, <1>4, <1>5

(* Jobs whose subscriptions are released and which are reaped, or not.     *)
LEMMA ReleaseCalm ==
  ASSUME IInv, NEW j, NEW ks, ks = [job EXCEPT ![j] = Unsubscribed(@, 1)],
         job' \in {ks, Reaped(ks), Reaped(job)}
  PROVE  job' \in JobMap /\ JobsCalm
<1>1. job \in JobMap
  BY DEF IInv, TypeOK, JobMap
<1>2. ks \in JobMap /\ Kept(job, ks)
  BY <1>1, UnsubscribedJob
<1>3. Reaped(ks) \in JobMap /\ Kept(job, Reaped(ks))
  BY <1>2, ReapedKeeps, KeptTwice
<1>4. Reaped(job) \in JobMap /\ Kept(job, Reaped(job))
  BY <1>1, ReapedKeeps
<1>5. job' \in JobMap /\ Kept(job, job')
  BY <1>2, <1>3, <1>4
<1> QED BY <1>5, KeptIsCalm

LEMMA IndexSubscribeStep ==
  ASSUME IInv, NEW s \in Sessions, IndexSubscribe(s)
  PROVE  IInv' /\ Lasting
<1>1. s \in Actors /\ pc[s] = "subscribe"
  BY DEF Actors, IndexSubscribe
<1>2. arg[s] \in Arguments /\ arg[s].key \in Projects
  BY <1>1 DEF IInv, TypeOK, Excluded, Claimed, Arguments
<1>3. PICK x \in Subscriptions(Reaped(job), arg[s].key, arg[s].options) :
        /\ job' = x.jobs /\ faults' = FaultsAfter(x)
        /\ \/ pc' = [pc EXCEPT ![s] = "refresh"] /\ arg' = [arg EXCEPT ![s] = NoArg]
           \/ pc' = [pc EXCEPT ![s] = "bind"] /\ arg' = [arg EXCEPT ![s].job = x.job]
  BY DEF IndexSubscribe
<1>4. arg[s].options \in Options
  BY <1>2 DEF Arguments
<1>5. /\ x.jobs \in JobMap /\ x.job \in Jobs \cup {Nothing}
      /\ FaultsAfter(x) \in 0..MaxFaults
      /\ JobsCalm
  <2>1. Kept(x.jobs, job')
    BY <1>3 DEF Kept, Alike, Carried
  <2> QED BY <1>2, <1>3, <1>4, <2>1, SubscribeCalm DEF Spent
<1>6. arg' \in [Actors -> Arguments] /\ \A b \in Actors \ {s} : arg'[b] = arg[b]
  <2>1. arg \in [Actors -> Arguments]
    BY DEF IInv, TypeOK, Arguments
  <2>2. [arg[s] EXCEPT !.job = x.job] \in Arguments
    BY <1>2, <1>5 DEF Arguments
  <2> QED BY <1>1, <1>3, <2>1, <2>2, NoArgType
<1>7. TypeOK'
  BY <1>1, <1>3, <1>5, <1>6 DEF IInv, TypeOK, JobMap, Arguments, IndexSubscribe
<1>8. ActorsCalm
  <2>1. pc[s] \notin Owning
    BY <1>1 DEF Owning
  <2>2. PICK to \in {"refresh", "bind"} : pc' = [pc EXCEPT ![s] = to]
    BY <1>3
  <2>3. to \notin {"lease", "subscribe"} \cup Owning
    BY DEF Owning
  <2> QED
    BY <1>1, <1>6, <2>1, <2>2, <2>3, MovesOn DEF IndexSubscribe
<1> QED
  BY <1>5, <1>7, <1>8, SameSessions, CalmStep DEF IndexSubscribe

LEMMA IndexBindStep ==
  ASSUME IInv, NEW s \in Sessions, IndexBind(s)
  PROVE  IInv' /\ Lasting
<1> DEFINE q == [session[s] EXCEPT !.active = arg[s].job]
<1>1. s \in Actors /\ pc[s] = "bind" /\ pc[s] \notin Owning
  BY DEF Actors, IndexBind, Owning
<1>2. /\ session[s] \in Session /\ arg[s].job \in Jobs \cup {Nothing}
      /\ arg \in [Actors -> Arguments]
  BY <1>1 DEF IInv, TypeOK, Arguments
<1>3. q \in Session /\ q.token = session[s].token /\ q.auto = session[s].auto
  BY <1>2 DEF Session
<1>4. CASE RequestCancelled(s) \/ session[s].active # Nothing
  <2>1. /\ job' = [job EXCEPT ![arg[s].job] = Unsubscribed(@, 1)]
        /\ pc' = [pc EXCEPT ![s] = "refresh"] /\ arg' = [arg EXCEPT ![s] = NoArg]
        /\ session' = session
    BY <1>4 DEF IndexBind
  <2>2. job' \in JobMap /\ JobsCalm
    BY <2>1, ReleaseCalm
  <2>3. arg' \in [Actors -> Arguments] /\ \A b \in Actors \ {s} : arg'[b] = arg[b]
    BY <1>1, <1>2, <2>1, NoArgType
  <2>4. TypeOK'
    BY <1>1, <2>1, <2>2, <2>3 DEF IInv, TypeOK, JobMap, Arguments, IndexBind
  <2>5. ActorsCalm
    BY <1>1, <2>1, <2>3, MovesOn DEF IndexBind, Owning
  <2> QED
    BY <2>1, <2>2, <2>4, <2>5, SameSessions, CalmStep DEF IndexBind
<1>5. CASE ~(RequestCancelled(s) \/ session[s].active # Nothing)
  <2>1. /\ session' = [session EXCEPT ![s] = q]
        /\ pc' = [pc EXCEPT ![s] = "wait"] /\ arg' = arg /\ job' = job
    BY <1>5 DEF IndexBind
  <2> HIDE DEF q
  <2>2. session' \in [Sessions -> Session] /\ (stopping => Quieter(session, session'))
    BY <1>3, <2>1, OneSession DEF IInv
  <2>3. TypeOK'
    BY <1>1, <2>1, <2>2 DEF IInv, TypeOK, IndexBind
  <2>4. ActorsCalm
    BY <1>1, <2>1, MovesOn DEF IndexBind, Owning
  <2> QED
    BY <2>1, <2>2, <2>3, <2>4, SameJobs, CalmStep DEF IndexBind, HostCalm
<1> QED BY <1>4, <1>5

LEMMA IndexWaitStep ==
  ASSUME IInv, NEW s \in Sessions, IndexWait(s)
  PROVE  IInv' /\ Lasting
<1> DEFINE q == [session[s] EXCEPT !.active = Nothing]
<1>1. s \in Actors /\ pc[s] \notin Owning
  BY DEF Actors, IndexWait, Owning
<1>2. session[s] \in Session /\ arg \in [Actors -> Arguments]
  BY <1>1 DEF IInv, TypeOK, Arguments
<1>3. q \in Session /\ q.token = session[s].token /\ q.auto = session[s].auto
  BY <1>2 DEF Session
<1>4. /\ session' \in [Sessions -> Session] /\ (stopping => Quieter(session, session'))
      /\ job' \in JobMap /\ JobsCalm
  <2>1. CASE session' = session /\ job' = job
    BY <2>1, SameJobs DEF IInv, TypeOK, JobMap, Quieter
  <2>2. CASE /\ session' = [session EXCEPT ![s] = q]
             /\ job' = Reaped([job EXCEPT ![arg[s].job] = Unsubscribed(@, 1)])
    <3> HIDE DEF q
    <3> QED BY <1>3, <2>2, OneSession, ReleaseCalm DEF IInv
  <2> QED BY <2>1, <2>2 DEF IndexWait
<1>5. /\ pc' = [pc EXCEPT ![s] = "refresh"] /\ arg' = [arg EXCEPT ![s] = NoArg]
  BY DEF IndexWait
<1>6. arg' \in [Actors -> Arguments] /\ \A b \in Actors \ {s} : arg'[b] = arg[b]
  BY <1>1, <1>2, <1>5, NoArgType
<1>7. TypeOK'
  BY <1>1, <1>4, <1>5, <1>6 DEF IInv, TypeOK, JobMap, Arguments, IndexWait
<1>8. ActorsCalm
  BY <1>1, <1>5, <1>6, MovesOn DEF IndexWait, Owning
<1> QED
  BY <1>4, <1>7, <1>8, CalmStep DEF IndexWait, HostCalm

(* Sessions, jobs and owners after one of the operators on them.           *)
LEMMA InstallCalm ==
  ASSUME IInv, NEW st \in SharedState, Install(st), Kept(job, st.job),
         Settled(session, st.session) \/ Quieter(session, st.session)
  PROVE  /\ session' \in [Sessions -> Session] /\ Quieter(session, session')
         /\ job' \in JobMap /\ owners' \subseteq Sessions \X Jobs
         /\ JobsCalm
<1>1. /\ session' \in [Sessions -> Session] /\ Quieter(session, session')
      /\ job' \in JobMap /\ owners' \subseteq Sessions \X Jobs
  BY DEF Install, SharedState, Settled, Quieter
<1>2. JobsCalm
  BY KeptIsCalm DEF Install
<1> QED BY <1>1, <1>2

LEMMA RequestRefreshStep ==
  ASSUME IInv, NEW s \in Sessions, RequestRefresh(s)
  PROVE  IInv' /\ Lasting
<1> DEFINE st == Refreshed(Shared, {s}, Home[s])
<1>1. s \in Actors /\ pc[s] \notin Owning
  BY DEF Actors, RequestRefresh, Owning
<1>2. st \in SharedState /\ Settled(session, st.session) /\ Kept(job, st.job)
  <2>1. Shared \in SharedState /\ Shared.session = session /\ Shared.job = job
    BY SharedType DEF IInv
  <2> QED BY <2>1, RefreshedKeeps
<1>3. Install(st)
  BY DEF RequestRefresh
<1> HIDE DEF st
<1>4. /\ session' \in [Sessions -> Session] /\ Quieter(session, session')
      /\ job' \in JobMap /\ owners' \subseteq Sessions \X Jobs
      /\ JobsCalm
  BY <1>2, <1>3, InstallCalm
<1>5. PICK to \in {"finish", "idle"} : pc' = [pc EXCEPT ![s] = to]
  BY <1>1 DEF RequestRefresh, IInv, TypeOK
<1>6. TypeOK'
  BY <1>1, <1>4, <1>5 DEF IInv, TypeOK, JobMap, RequestRefresh
<1>7. ActorsCalm
  <2>1. to \notin {"lease", "subscribe"} \cup Owning
    BY DEF Owning
  <2> QED BY <1>1, <1>5, <2>1, MovesOn DEF RequestRefresh
<1> QED
  BY <1>4, <1>6, <1>7, CalmStep DEF RequestRefresh, HostCalm

LEMMA RequestFinishStep ==
  ASSUME IInv, NEW s \in Sessions, RequestFinish(s)
  PROVE  IInv' /\ Lasting
<1> DEFINE token == session[s].token
           left == IF session[s].cancelToken = token THEN 0 ELSE session[s].cancelToken
           q == [session[s] EXCEPT !.token = 0, !.initialize = FALSE, !.cancelToken = left]
<1>1. s \in Actors /\ pc[s] \notin Owning /\ session[s] \in Session
  BY DEF Actors, RequestFinish, Owning, IInv, TypeOK
<1>2. left \in 0..MaxRequests /\ 0 \in 0..MaxRequests
  BY <1>1, ConstantsAssumption DEF Session
<1>3. session' = [session EXCEPT ![s] = q]
  BY <1>1 DEF RequestFinish, IInv, TypeOK
<1> HIDE DEF token, left
<1>4. q \in Session /\ q.token = 0 /\ q.auto = session[s].auto
  BY <1>1, <1>2 DEF Session
<1> HIDE DEF q
<1>5. session' \in [Sessions -> Session] /\ (stopping => Quieter(session, session'))
  BY <1>3, <1>4, OneSession DEF IInv
<1>6. PICK to \in {"probe", "idle"} : pc' = [pc EXCEPT ![s] = to]
  BY <1>1 DEF RequestFinish
<1>7. TypeOK'
  BY <1>1, <1>5, <1>6 DEF IInv, TypeOK, RequestFinish
<1>8. ActorsCalm
  <2>1. to \notin {"lease", "subscribe"} \cup Owning
    BY DEF Owning
  <2> QED BY <1>1, <1>6, <2>1, MovesOn DEF RequestFinish
<1> QED
  BY <1>5, <1>7, <1>8, SameJobs, CalmStep DEF RequestFinish, HostCalm

LEMMA BackgroundProbeStep ==
  ASSUME IInv, NEW s \in Sessions, BackgroundProbe(s)
  PROVE  IInv' /\ Lasting
<1>1. s \in Actors /\ pc[s] \notin Owning /\ Home[s] \in Keys
  BY ConstantsAssumption DEF Actors, BackgroundProbe, Owning, Keys
<1>2. PICK k \in Keys \cup {Nothing} : arg' = [arg EXCEPT ![s] = [@ EXCEPT !.key = k]]
  BY <1>1 DEF BackgroundProbe
<1>3. arg' \in [Actors -> Arguments] /\ \A b \in Actors \ {s} : arg'[b] = arg[b]
  <2>1. arg \in [Actors -> Arguments]
    BY DEF IInv, TypeOK, Arguments
  <2>2. \A r \in Arguments : [r EXCEPT !.key = k] \in Arguments
    BY DEF Arguments
  <2> QED BY <1>1, <1>2, <2>1, <2>2
<1>4. TypeOK'
  BY <1>1, <1>3 DEF IInv, TypeOK, Arguments, BackgroundProbe
<1>5. ActorsCalm
  BY <1>1, <1>3, MovesOn DEF BackgroundProbe, Owning
<1> QED
  BY <1>4, <1>5, SameJobs, SameSessions, CalmStep DEF BackgroundProbe

LEMMA MutationRefuseStep ==
  ASSUME IInv, NEW s \in Sessions, MutationRefuse(s)
  PROVE  IInv' /\ Lasting
<1>1. s \in Actors /\ pc[s] \notin Owning
  BY DEF Actors, MutationRefuse, Owning
<1>2. arg' \in [Actors -> Arguments] /\ \A b \in Actors \ {s} : arg'[b] = arg[b]
  BY <1>1, NoArgType DEF IInv, TypeOK, Arguments, MutationRefuse
<1>3. TypeOK'
  BY <1>1, <1>2 DEF IInv, TypeOK, Arguments, MutationRefuse
<1>4. ActorsCalm
  BY <1>1, <1>2, MovesOn DEF MutationRefuse, Owning
<1> QED
  BY <1>3, <1>4, SameJobs, SameSessions, CalmStep DEF MutationRefuse

LEMMA BackgroundInitializeStep ==
  ASSUME IInv, NEW s \in Sessions, BackgroundInitialize(s)
  PROVE  IInv' /\ Lasting
<1> DEFINE old == session[s]
           quiet(e, r) == [old EXCEPT !.eligible = TRUE, !.evaluated = e, !.retry = r]
           asked(j, r) == [old EXCEPT !.eligible = TRUE, !.evaluated = TRUE,
                                      !.auto = j, !.retry = r]
<1>1. s \in Actors /\ pc[s] \notin Owning /\ old \in Session
  BY DEF Actors, BackgroundInitialize, Owning, IInv, TypeOK
<1>2. arg' \in [Actors -> Arguments] /\ \A b \in Actors \ {s} : arg'[b] = arg[b]
  BY <1>1, NoArgType DEF IInv, TypeOK, Arguments, BackgroundInitialize
<1>3. PICK to \in {"rewatch", "idle"} : pc' = [pc EXCEPT ![s] = to]
  BY <1>1 DEF BackgroundInitialize
<1>4. ActorsCalm
  <2>1. to \notin {"lease", "subscribe"} \cup Owning
    BY DEF Owning
  <2> QED
    BY <1>1, <1>2, <1>3, <2>1, MovesOn DEF BackgroundInitialize
<1>5. \A e \in BOOLEAN, r \in BOOLEAN, j \in Jobs \cup {Nothing} :
        /\ quiet(e, r) \in Session /\ asked(j, r) \in Session
        /\ quiet(e, r).token = old.token /\ asked(j, r).token = old.token
        /\ quiet(e, r).auto = old.auto /\ asked(j, r).auto = j
  <2> HIDE DEF old
  <2>1. \A e \in BOOLEAN, r \in BOOLEAN :
          quiet(e, r) \in Session /\ quiet(e, r).token = old.token
            /\ quiet(e, r).auto = old.auto
    BY <1>1 DEF Session
  <2>2. \A r \in BOOLEAN, j \in Jobs \cup {Nothing} :
          asked(j, r) \in Session /\ asked(j, r).token = old.token
            /\ asked(j, r).auto = j
    BY <1>1 DEF Session
  <2> HIDE DEF quiet, asked
  <2> QED BY <2>1, <2>2
<1>6. CASE stopping \/ RequestCancelled(s)
  <2>1. job' = Reaped(job) /\ session' = session /\ faults' = faults
    BY <1>6 DEF BackgroundInitialize
  <2>2. job' \in JobMap /\ JobsCalm
    BY <2>1, ReleaseCalm
  <2>3. TypeOK'
    BY <1>1, <1>2, <1>3, <2>1, <2>2 DEF IInv, TypeOK, JobMap, Arguments, BackgroundInitialize
  <2> QED
    BY <1>4, <2>1, <2>2, <2>3, SameSessions, CalmStep DEF BackgroundInitialize
<1>7. CASE ~stopping /\ ~RequestCancelled(s)
  <2>1. /\ session' \in [Sessions -> Session] /\ job' \in JobMap /\ JobsCalm
        /\ faults' \in 0..MaxFaults
    <3> DEFINE attempt == /\ session[s].auto = Nothing
                          /\ ~session[s].evaluated \/ session[s].retry
    <3>1. CASE /\ session' = [session EXCEPT ![s].eligible = TRUE,
                                ![s].evaluated = @ \/ attempt, ![s].retry = @ /\ ~attempt]
               /\ job' = Reaped(job) /\ faults' = faults
      <4> DEFINE e == old.evaluated \/ attempt
                 r == old.retry /\ ~attempt
      <4>1. session' = [session EXCEPT ![s] = quiet(e, r)]
        BY <1>1, <3>1 DEF IInv, TypeOK
      <4>2. e \in BOOLEAN /\ r \in BOOLEAN
        OBVIOUS
      <4> HIDE DEF e, r, quiet, old
      <4>3. session' \in [Sessions -> Session]
        BY <1>1, <1>5, <4>1, <4>2, ConstantsAssumption DEF IInv, TypeOK
      <4>4. job' \in JobMap /\ JobsCalm
        BY <3>1, ReleaseCalm
      <4> QED BY <3>1, <4>3, <4>4 DEF IInv, TypeOK
    <3>2. CASE \E x \in Subscriptions(Reaped(job), Home[s], "default") :
                 /\ session' = [session EXCEPT ![s].eligible = TRUE, ![s].evaluated = TRUE,
                                  ![s].auto = x.job, ![s].retry = x.job = Nothing]
                 /\ job' = x.jobs
                 /\ faults' = FaultsAfter(x)
      <4>1. PICK x \in Subscriptions(Reaped(job), Home[s], "default") :
                 /\ session' = [session EXCEPT ![s].eligible = TRUE, ![s].evaluated = TRUE,
                                  ![s].auto = x.job, ![s].retry = x.job = Nothing]
                 /\ job' = x.jobs
                 /\ faults' = FaultsAfter(x)
        BY <3>2
      <4>2. /\ x.jobs \in JobMap /\ x.job \in Jobs \cup {Nothing}
            /\ FaultsAfter(x) \in 0..MaxFaults /\ JobsCalm
        <5>1. Kept(x.jobs, job')
          BY <4>1 DEF Kept, Alike, Carried
        <5>2. Home[s] \in Projects /\ "default" \in Options
          BY ConstantsAssumption DEF Options
        <5> QED BY <4>1, <5>1, <5>2, SubscribeCalm DEF Spent
      <4> DEFINE r == x.job = Nothing
      <4>3. session' = [session EXCEPT ![s] = asked(x.job, r)]
        BY <1>1, <4>1 DEF IInv, TypeOK
      <4>4. r \in BOOLEAN
        OBVIOUS
      <4> HIDE DEF r, asked, old
      <4>5. session' \in [Sessions -> Session]
        BY <1>1, <1>5, <4>2, <4>3, <4>4 DEF IInv, TypeOK
      <4> QED BY <4>1, <4>2, <4>5
    <3> QED BY <1>7, <3>1, <3>2 DEF BackgroundInitialize
  <2>2. TypeOK'
    BY <1>1, <1>2, <1>3, <2>1 DEF IInv, TypeOK, JobMap, Arguments, BackgroundInitialize
  <2> QED
    BY <1>4, <1>7, <2>1, <2>2, CalmStep DEF BackgroundInitialize, HostCalm
<1> QED BY <1>6, <1>7

LEMMA RequestCancelStep ==
  ASSUME IInv, NEW s \in Sessions, RequestCancel(s)
  PROVE  IInv' /\ Lasting
<1> DEFINE token == session[s].issued
           gone == IF session[s].token = token THEN Nothing ELSE session[s].active
           q == [session[s] EXCEPT !.cancelToken = token, !.active = gone]
<1>1. session[s] \in Session
  BY DEF IInv, TypeOK
<1>2. token \in 0..MaxRequests /\ gone \in Jobs \cup {Nothing}
  BY <1>1 DEF Session
<1>3. session' = [session EXCEPT ![s] = q]
  BY <1>1 DEF RequestCancel, IInv, TypeOK
<1>4. job' = job \/ job' = [job EXCEPT ![session[s].active] = Unsubscribed(@, 1)]
  BY DEF RequestCancel
<1> HIDE DEF token, gone
<1>5. q \in Session /\ q.token = session[s].token /\ q.auto = session[s].auto
  BY <1>1, <1>2 DEF Session
<1> HIDE DEF q
<1>6. session' \in [Sessions -> Session] /\ (stopping => Quieter(session, session'))
  BY <1>3, <1>5, OneSession DEF IInv
<1>7. job' \in JobMap /\ JobsCalm
  <2>1. CASE job' = job
    BY <2>1, SameJobs DEF IInv, TypeOK, JobMap
  <2>2. CASE job' = [job EXCEPT ![session[s].active] = Unsubscribed(@, 1)]
    BY <2>2, ReleaseCalm
  <2> QED BY <1>4, <2>1, <2>2
<1>8. TypeOK'
  BY <1>6, <1>7 DEF IInv, TypeOK, JobMap, RequestCancel
<1> QED
  BY <1>6, <1>7, <1>8, SameActors, CalmStep DEF RequestCancel, HostCalm

LEMMA SessionCancelStep ==
  ASSUME IInv, NEW s \in Sessions, SessionCancel(s)
  PROVE  IInv' /\ Lasting /\ Kept(job, job')
<1> DEFINE d == Detached(Shared, s)
           final == ~Permanent /\ \A t \in Sessions \ {s} : Linked(t) => session[t].cancelled
           js == IF final THEN AllCancelled(d.st.job) ELSE d.st.job
           mark == IF session[s].token # 0 THEN session[s].token
                   ELSE d.st.session[s].cancelToken
           q == [d.st.session[s] EXCEPT !.cancelled = TRUE, !.cancelToken = mark]
<1>1. /\ d.st \in SharedState /\ d.join \in Jobs \cup {Nothing}
      /\ Quieter(session, d.st.session) /\ Kept(job, d.st.job)
  <2>1. Shared \in SharedState /\ Shared.session = session /\ Shared.job = job
    BY SharedType DEF IInv
  <2> QED BY <2>1, DetachedKeeps
<1>2. /\ session' = [d.st.session EXCEPT ![s].cancelled = TRUE,
                   ![s].cancelToken = IF session[s].token # 0 THEN session[s].token ELSE @]
      /\ owners' = d.st.owners
      /\ stopping' = (stopping \/ final)
      /\ leaving' = [leaving EXCEPT ![s] =
                   [pc |-> IF d.join = Nothing THEN "left" ELSE "joining", job |-> d.join]]
      /\ job' = IF d.join = Nothing THEN Reaped(js) ELSE js
  BY DEF SessionCancel
<1> HIDE DEF d, final
<1>3. /\ d.st.session \in [Sessions -> Session] /\ d.st.job \in JobMap
      /\ d.st.owners \subseteq Sessions \X Jobs
      /\ session[s] \in Session /\ d.st.session[s] \in Session
  BY <1>1 DEF SharedState, IInv, TypeOK
<1>4. session' = [d.st.session EXCEPT ![s] = q]
  BY <1>2, <1>3
<1>5. mark \in 0..MaxRequests
  BY <1>3 DEF Session
<1> HIDE DEF mark
<1>6. q \in Session /\ q.token = d.st.session[s].token /\ q.auto = d.st.session[s].auto
  BY <1>3, <1>5 DEF Session
<1> HIDE DEF q
<1>7. session' \in [Sessions -> Session] /\ Quieter(session, session')
  <2>1. session' \in [Sessions -> Session]
    BY <1>3, <1>4, <1>6
  <2>2. \A t \in Sessions : /\ session'[t].token = d.st.session[t].token
                            /\ session'[t].auto = d.st.session[t].auto
    BY <1>3, <1>4, <1>6
  <2> QED BY <1>1, <2>1, <2>2 DEF Quieter
<1>8. js \in JobMap /\ Kept(job, js)
  BY <1>1, <1>3, CancelKeeps, KeptTwice
<1> HIDE DEF js
<1>9. job' \in JobMap /\ Kept(job, job')
  BY <1>2, <1>8, ReapedKeeps, KeptTwice
<1>10. JobsCalm
  BY <1>9, KeptIsCalm
<1>11. stopping' \in BOOLEAN /\ (stopping => stopping')
  BY <1>2
<1>12. leaving' \in [Sessions -> [pc : {"no", "joining", "left"}, job : Jobs \cup {Nothing}]]
  BY <1>1, <1>2 DEF IInv, TypeOK
<1>13. TypeOK'
  BY <1>2, <1>3, <1>7, <1>9, <1>11, <1>12 DEF IInv, TypeOK, JobMap, SessionCancel
<1> QED
  BY <1>7, <1>9, <1>10, <1>11, <1>13, SameActors, CalmStep DEF SessionCancel, HostCalm

LEMMA AutoIndexJoinedStep ==
  ASSUME IInv, NEW s \in Sessions, AutoIndexJoined(s)
  PROVE  IInv' /\ Lasting
<1>1. job' = Reaped([job EXCEPT ![leaving[s].job] = Unsubscribed(@, 1)])
  BY DEF AutoIndexJoined
<1>2. job' \in JobMap /\ JobsCalm
  BY <1>1, ReleaseCalm
<1>3. TypeOK'
  BY <1>2 DEF IInv, TypeOK, JobMap, AutoIndexJoined
<1> QED
  BY <1>2, <1>3, SameActors, SameSessions, CalmStep DEF AutoIndexJoined

LEMMA SessionCloseStep ==
  ASSUME IInv, NEW s \in Sessions, SessionClose(s)
  PROVE  IInv' /\ Lasting
<1> DEFINE d == Detached(Shared, s)
           q == [NoSession EXCEPT !.life = "closed"]
<1>1. /\ d.st \in SharedState
      /\ Quieter(session, d.st.session) /\ Kept(job, d.st.job)
  <2>1. Shared \in SharedState /\ Shared.session = session /\ Shared.job = job
    BY SharedType DEF IInv
  <2> QED BY <2>1, DetachedKeeps
<1>2. /\ session' = [d.st.session EXCEPT ![s] = q]
      /\ job' = Reaped(d.st.job) /\ owners' = d.st.owners
  BY DEF SessionClose
<1> HIDE DEF d
<1>3. q \in Session /\ q.token = 0 /\ q.auto = Nothing
  <2>1. NoSession.token = 0 /\ NoSession.auto = Nothing
    BY DEF NoSession
  <2>2. \A r \in Session : LET z == [r EXCEPT !.life = "closed"]
                           IN  z \in Session /\ z.token = r.token /\ z.auto = r.auto
    BY DEF Session
  <2> QED BY <2>1, <2>2, NoJobType
<1> HIDE DEF q
<1>4. /\ d.st.session \in [Sessions -> Session] /\ d.st.job \in JobMap
      /\ d.st.owners \subseteq Sessions \X Jobs
  BY <1>1 DEF SharedState
<1>5. session' \in [Sessions -> Session] /\ Quieter(session, session')
  BY <1>1, <1>2, <1>3, <1>4 DEF Quieter
<1>6. job' \in JobMap /\ Kept(job, job')
  BY <1>1, <1>2, <1>4, ReapedKeeps, KeptTwice
<1>7. JobsCalm
  BY <1>6, KeptIsCalm
<1>8. TypeOK'
  BY <1>2, <1>4, <1>5, <1>6 DEF IInv, TypeOK, JobMap, SessionClose
<1> QED
  BY <1>5, <1>7, <1>8, SameActors, CalmStep DEF SessionClose, HostCalm

-----------------------------------------------------------------------------
(* Mutations keep the invariant.                                           *)

LEMMA MutationReserveStep ==
  ASSUME IInv, NEW a \in Actors, NEW k \in Keys, MutationReserve(a, k)
  PROVE  IInv' /\ Lasting
<1>1. /\ pc' = [pc EXCEPT ![a] = "lease"] /\ arg' = [arg EXCEPT ![a].key = k]
      /\ pc[a] \in {"reserve", "idle"} /\ ~stopping
      /\ ~MutationConflicts(k) /\ ~JobReserves(k)
      /\ UNCHANGED <<stopping, session, job, owners, lease, leaving, host, db,
                     unvisited, faults>>
  BY DEF MutationReserve, Unwanted
<1>2. /\ arg \in [Actors -> Arguments] /\ pc'[a] = "lease"
      /\ \A b \in Actors \ {a} : pc'[b] = pc[b]
  BY <1>1 DEF IInv, TypeOK, Arguments
<1>3. /\ arg' \in [Actors -> Arguments] /\ arg'[a].key = k
      /\ \A b \in Actors \ {a} : arg'[b] = arg[b]
  <2>1. \A r \in Arguments : /\ [r EXCEPT !.key = k] \in Arguments
                             /\ [r EXCEPT !.key = k].key = k
    BY DEF Arguments
  <2>2. arg' = [arg EXCEPT ![a] = [@ EXCEPT !.key = k]]
    BY <1>1
  <2> QED BY <1>2, <2>1, <2>2
<1>4. polls' \in 0..MaxPolls
  <2>1. polls' = polls \/ (polls' = polls + 1 /\ polls < MaxPolls)
    BY DEF MutationReserve
  <2> QED BY <2>1, ConstantsAssumption DEF IInv, TypeOK
<1>5. TypeOK'
  BY <1>1, <1>2, <1>3, <1>4 DEF IInv, TypeOK, Arguments
<1>6. /\ \A b \in Actors \ {a} : Reserved(b) => ~Conflict(arg[b].key, k)
      /\ ~Reserved(a)
      /\ \A b \in Actors \ {a} : Reserved(b)' <=> Reserved(b)
  BY <1>1, <1>2 DEF MutationConflicts, Reserved
<1>7. \A j \in Jobs : job[j].thread \in Working => ~Conflict(k, job[j].project)
  BY <1>1 DEF JobReserves, Active, IInv, Shaped, Working, Conflict
<1>8. ASSUME NEW b \in Actors
      PROVE  /\ Claimed(b)'
             /\ \A c \in Actors \ {b} : Apart(b, c)'
             /\ \A j \in Jobs : Away(b, j)'
  <2>1. /\ Claimed(b) /\ \A c \in Actors \ {b} : Apart(b, c)
        /\ \A j \in Jobs : Away(b, j)
    BY DEF IInv, Excluded
  <2>2. Claimed(b)'
    BY <1>1, <1>2, <1>3, <2>1 DEF Claimed, Owning
  <2>3. ASSUME NEW c \in Actors \ {b}
        PROVE  Apart(b, c)'
    <3>1. Apart(b, c)
      BY <2>1
    <3>2. CASE b = a
      BY <1>3, <1>6, <3>2 DEF Apart, Conflict
    <3>3. CASE c = a
      BY <1>3, <1>6, <3>3 DEF Apart
    <3>4. CASE b # a /\ c # a
      BY <1>3, <1>6, <3>1, <3>4 DEF Apart
    <3> QED BY <3>2, <3>3, <3>4
  <2>4. ASSUME NEW j \in Jobs
        PROVE  Away(b, j)'
    <3>1. Away(b, j)
      BY <2>1
    <3> QED BY <1>1, <1>3, <1>6, <1>7, <3>1 DEF Away
  <2> QED BY <2>2, <2>3, <2>4
<1>9. Excluded'
  BY <1>8 DEF Excluded
<1>10. Drained'
  BY <1>1 DEF IInv, Drained
<1>11. Lasting
  BY <1>1, SameJobs DEF JobsCalm
<1> QED BY <1>1, <1>5, <1>9, <1>10, <1>11 DEF IInv

LEMMA MutationSteps ==
  ASSUME IInv, NEW a \in Actors, MutationStep(a)
  PROVE  IInv' /\ Lasting
<1>1. arg \in [Actors -> Arguments]
  BY DEF IInv, TypeOK, Arguments
<1>2. Resume(a) \in {"refresh", "idle"}
  BY DEF Resume
<1>3. ASSUME pc[a] \in {"lease", "release"}, ~lease[a],
             pc' = [pc EXCEPT ![a] = Resume(a)], arg' = [arg EXCEPT ![a] = NoArg],
             UNCHANGED <<stopping, session, job, owners, lease, leaving, host, db, polls,
                         unvisited, faults>>
      PROVE  IInv' /\ Lasting
  <2>1. arg' \in [Actors -> Arguments] /\ \A b \in Actors \ {a} : arg'[b] = arg[b]
    BY <1>1, <1>3, NoArgType
  <2>2. TypeOK'
    BY <1>2, <1>3, <2>1 DEF IInv, TypeOK, Arguments
  <2>3. pc'[a] \in {"refresh", "idle"}
    BY <1>2, <1>3 DEF IInv, TypeOK
  <2>4. ActorCalm(a)
    BY <1>3, <2>3 DEF ActorCalm, Owning
  <2>5. ActorsCalm
    BY <1>3, <2>1, <2>4, OneActor
  <2> QED
    BY <1>3, <2>2, <2>5, SameJobs, SameSessions, CalmStep
<1>4. CASE LeaseGranted(a)
  <2>1. TypeOK'
    BY <1>4 DEF IInv, TypeOK, LeaseGranted
  <2>2. /\ pc[a] = "lease" /\ pc'[a] = "held" /\ arg' = arg
        /\ \A b \in Actors \ {a} : pc'[b] = pc[b] /\ lease'[b] = lease[b]
    BY <1>4 DEF IInv, TypeOK, LeaseGranted
  <2>3. ActorsCalm
    BY <2>2 DEF IInv, Excluded, Claimed, ActorsCalm, ActorCalm, Owning
  <2> QED
    BY <1>4, <2>1, <2>3, SameJobs, SameSessions, CalmStep DEF LeaseGranted
<1>5. CASE LeaseFailed(a)
  <2>1. ~lease[a]
    BY <1>5 DEF IInv, Excluded, Claimed, Owning, LeaseFailed
  <2> QED BY <1>3, <1>5, <2>1 DEF LeaseFailed
<1>6. CASE MutationWork(a)
  <2>1. PICK to \in {"pruned", "release"} : pc' = [pc EXCEPT ![a] = to]
    BY <1>6 DEF MutationWork
  <2>2. TypeOK'
    BY <1>6, <2>1 DEF IInv, TypeOK, MutationWork
  <2>3. /\ pc[a] = "held" /\ pc'[a] = to /\ arg' = arg
        /\ \A b \in Actors \ {a} : pc'[b] = pc[b]
    BY <1>6, <2>1 DEF IInv, TypeOK, MutationWork
  <2>4. ActorCalm(a)
    BY <2>3 DEF ActorCalm, Owning
  <2>5. ActorsCalm
    BY <1>6, <2>1, <2>3, <2>4, OneActor DEF MutationWork
  <2> QED
    BY <1>6, <2>2, <2>5, SameJobs, SameSessions, CalmStep DEF MutationWork
<1>7. CASE MutationRelease(a)
  <2>1. TypeOK'
    BY <1>7 DEF IInv, TypeOK, MutationRelease
  <2>2. /\ ~lease'[a] /\ arg' = arg /\ pc' = pc
        /\ \A b \in Actors \ {a} : lease'[b] = lease[b]
    BY <1>7 DEF IInv, TypeOK, MutationRelease
  <2>3. ActorsCalm
    BY <2>2 DEF IInv, Excluded, Claimed, ActorsCalm, ActorCalm
  <2> QED
    BY <1>7, <2>1, <2>3, SameJobs, SameSessions, CalmStep DEF MutationRelease
<1>8. CASE MutationEnd(a)
  BY <1>3, <1>8 DEF MutationEnd
<1> QED BY <1>4, <1>5, <1>6, <1>7, <1>8 DEF MutationStep

-----------------------------------------------------------------------------
(* The watcher's calls keep the invariant.                                 *)

LEMMA ProjectPrunedStep ==
  ASSUME IInv, ProjectPruned
  PROVE  IInv' /\ Lasting
<1> DEFINE st == Unwatched(Shared, Watchers(session, arg[Watcher].key))
<1>1. st \in SharedState /\ Settled(session, st.session) /\ Kept(job, st.job)
  <2>1. Shared \in SharedState /\ Shared.session = session /\ Shared.job = job
    BY SharedType DEF IInv
  <2>2. Watchers(session, arg[Watcher].key) \in SUBSET Sessions
    BY DEF Watchers
  <2> QED BY <2>1, <2>2, UnwatchedKeeps
<1>2. Install(st)
  BY DEF ProjectPruned
<1> HIDE DEF st
<1>3. /\ session' \in [Sessions -> Session] /\ Quieter(session, session')
      /\ job' \in JobMap /\ owners' \subseteq Sessions \X Jobs
      /\ JobsCalm
  BY <1>1, <1>2, InstallCalm
<1>4. TypeOK'
  BY <1>3 DEF IInv, TypeOK, JobMap, ProjectPruned
<1>5. Watcher \in Actors
  BY DEF Actors
<1>6. /\ pc'[Watcher] = "release" /\ pc[Watcher] = "pruned"
  BY <1>5 DEF IInv, TypeOK, ProjectPruned
<1>7. ActorCalm(Watcher)
  BY <1>6 DEF ActorCalm, Owning, ProjectPruned
<1>8. ActorsCalm
  BY <1>5, <1>7, OneActor DEF ProjectPruned
<1> QED
  BY <1>3, <1>4, <1>8, CalmStep DEF ProjectPruned, HostCalm

(* The watcher's mark on the job, and the release of a subscription.       *)
LEMMA WaiterKeeps ==
  ASSUME NEW js \in JobMap, NEW j \in Jobs, NEW b \in BOOLEAN, NEW n \in Nat
  PROVE  LET ks == [js EXCEPT ![j] = Unsubscribed([js[j] EXCEPT !.waiter = b], n)]
         IN  ks \in JobMap /\ Kept(js, ks)
<1> DEFINE r == [js[j] EXCEPT !.waiter = b]
           q == Unsubscribed(r, n)
           ks == [js EXCEPT ![j] = q]
<1>1. js[j] \in Job
  BY DEF JobMap
<1>2. r \in Job /\ Carried(r, js[j])
  BY <1>1 DEF Job, Alike, Carried
<1> HIDE DEF r
<1>3. q \in Job /\ Carried(q, r)
  BY <1>2, UnsubscribedKeeps
<1> HIDE DEF q
<1>4. ks \in JobMap /\ Kept(js, ks)
  BY <1>2, <1>3 DEF JobMap, Kept, Alike, Carried
<1> QED BY <1>4 DEF q, r

LEMMA WatcherIndexStep ==
  ASSUME IInv, NEW p \in Projects, WatcherIndex(p)
  PROVE  IInv' /\ Lasting
<1>1. Watcher \in Actors /\ pc[Watcher] = "idle" /\ pc[Watcher] \notin Owning
  BY DEF Actors, WatcherIndex, Owning
<1>2. polls' \in 0..MaxPolls
  <2>1. polls < MaxPolls /\ polls' = polls + 1
    BY DEF WatcherIndex
  <2> QED BY <2>1, ConstantsAssumption DEF IInv, TypeOK
<1>3. UNCHANGED <<stopping, session, lease, leaving, host, db, unvisited>>
  BY DEF WatcherIndex
<1>4. arg \in [Actors -> Arguments] /\ "default" \in Options
  BY DEF IInv, TypeOK, Arguments, Options
<1>5. ASSUME job' \in JobMap, JobsCalm, owners' \subseteq Sessions \X Jobs,
             faults' \in 0..MaxFaults, pc' = pc, arg' = arg
      PROVE  IInv' /\ Lasting
  <2>1. TypeOK'
    BY <1>2, <1>3, <1>5 DEF IInv, TypeOK, JobMap
  <2> QED
    BY <1>3, <1>5, <2>1, SameActors, SameSessions, CalmStep
<1>6. owners \subseteq Sessions \X Jobs /\ faults \in 0..MaxFaults
  BY DEF IInv, TypeOK
<1>7. CASE job' = Reaped(job) /\ UNCHANGED <<owners, pc, arg, faults>>
  BY <1>5, <1>6, <1>7, ReleaseCalm
<1>8. CASE \E x \in Subscriptions(Reaped(job), p, "default") :
             /\ job' = x.jobs /\ faults' = FaultsAfter(x)
             /\ UNCHANGED <<owners, pc, arg>>
  <2>1. PICK x \in Subscriptions(Reaped(job), p, "default") :
             /\ job' = x.jobs /\ faults' = FaultsAfter(x)
             /\ UNCHANGED <<owners, pc, arg>>
    BY <1>8
  <2>2. Kept(x.jobs, job')
    BY <2>1 DEF Kept, Alike, Carried
  <2> QED
    BY <1>4, <1>5, <1>6, <2>1, <2>2, SubscribeCalm DEF Spent
<1>9. CASE \E x \in Subscriptions(Reaped(job), p, "default") :
             /\ x.job # Nothing
             /\ job' = [x.jobs EXCEPT ![x.job] = Unsubscribed(@, 1)]
             /\ faults < MaxFaults /\ faults' = faults + 1
             /\ UNCHANGED <<owners, pc, arg>>
  <2>1. PICK x \in Subscriptions(Reaped(job), p, "default") :
             /\ x.job # Nothing
             /\ job' = [x.jobs EXCEPT ![x.job] = Unsubscribed(@, 1)]
             /\ faults < MaxFaults /\ faults' = faults + 1
             /\ UNCHANGED <<owners, pc, arg>>
    BY <1>9
  <2>2. x.jobs \in JobMap /\ x.job \in Jobs
    <3>1. /\ job \in JobMap /\ Shaped(job) /\ Limited(job) /\ stopping \in BOOLEAN
      BY DEF IInv, TypeOK, JobMap
    <3>2. Reaped(job) \in JobMap /\ Shaped(Reaped(job))
      BY <3>1, ReapedKeeps, KeptIsSafe
    <3>3. x.jobs \in JobMap /\ x.job \in Jobs \cup {Nothing}
      BY <1>4, <1>6, <3>1, <3>2, SubscribeKeeps
    <3> QED BY <2>1, <3>3
  <2>3. job' \in JobMap /\ Kept(x.jobs, job')
    BY <2>1, <2>2, UnsubscribedJob
  <2>5. Spent(x.jobs, job')
    <3>1. /\ x.jobs[x.job] \in Job
          /\ job' = [x.jobs EXCEPT ![x.job] = Unsubscribed(x.jobs[x.job], 1)]
      BY <2>1, <2>2 DEF JobMap
    <3> QED BY <2>2, <3>1, JobSpent
  <2>4. faults' \in 0..MaxFaults
    BY <1>6, <2>1, ConstantsAssumption
  <2> QED
    BY <1>4, <1>5, <1>6, <2>1, <2>3, <2>4, <2>5, SubscribeCalm
<1>10. CASE \E x \in Subscriptions(Reaped(job), p, "default") :
             /\ x.job # Nothing
             /\ LET st == Owned([Shared EXCEPT !.job = x.jobs],
                                Watchers(session, p), x.job)
                IN  /\ job' = [st.job EXCEPT ![x.job] =
                                 Unsubscribed([st.job[x.job] EXCEPT !.waiter = TRUE], 1)]
                    /\ owners' = st.owners
             /\ pc' = [pc EXCEPT ![Watcher] = "wait"]
             /\ arg' = [arg EXCEPT ![Watcher] = [NoArg EXCEPT !.key = p, !.job = x.job]]
             /\ UNCHANGED faults
  <2>1. PICK x \in Subscriptions(Reaped(job), p, "default") :
             /\ x.job # Nothing
             /\ LET st == Owned([Shared EXCEPT !.job = x.jobs],
                                Watchers(session, p), x.job)
                IN  /\ job' = [st.job EXCEPT ![x.job] =
                                 Unsubscribed([st.job[x.job] EXCEPT !.waiter = TRUE], 1)]
                    /\ owners' = st.owners
             /\ pc' = [pc EXCEPT ![Watcher] = "wait"]
             /\ arg' = [arg EXCEPT ![Watcher] = [NoArg EXCEPT !.key = p, !.job = x.job]]
             /\ UNCHANGED faults
    BY <1>10
  <2> DEFINE before == [Shared EXCEPT !.job = x.jobs]
             st == Owned(before, Watchers(session, p), x.job)
  <2>2. x.jobs \in JobMap /\ x.job \in Jobs
    <3>1. /\ job \in JobMap /\ Shaped(job) /\ Limited(job) /\ stopping \in BOOLEAN
      BY DEF IInv, TypeOK, JobMap
    <3>2. Reaped(job) \in JobMap /\ Shaped(Reaped(job))
      BY <3>1, ReapedKeeps, KeptIsSafe
    <3>3. x.jobs \in JobMap /\ x.job \in Jobs \cup {Nothing}
      BY <1>4, <1>6, <3>1, <3>2, SubscribeKeeps
    <3> QED BY <2>1, <3>3
  <2>3. before \in SharedState /\ before.job = x.jobs
    BY <2>2, SharedType DEF SharedState, IInv
  <2>4. st \in SharedState /\ Kept(x.jobs, st.job)
    <3>1. Watchers(session, p) \in SUBSET Sessions
      BY DEF Watchers
    <3> HIDE DEF before
    <3> QED BY <2>2, <2>3, <3>1, OwnedKeeps
  <2>a. \A i \in Jobs : st.job[i].cancelReq = x.jobs[i].cancelReq
    <3>1. \E n : st.job = [x.jobs EXCEPT ![x.job].subs = @ + n]
      BY <2>3 DEF Owned, SharedState
    <3> QED BY <2>2, <3>1 DEF JobMap, Job
  <2> HIDE DEF st
  <2>5. st.job \in JobMap /\ st.owners \subseteq Sessions \X Jobs
    BY <2>4 DEF SharedState
  <2>6. job' \in JobMap /\ Kept(st.job, job') /\ owners' \subseteq Sessions \X Jobs
    <3>1. job' = [st.job EXCEPT ![x.job] =
                    Unsubscribed([st.job[x.job] EXCEPT !.waiter = TRUE], 1)]
          /\ owners' = st.owners
      BY <2>1 DEF st
    <3> QED BY <2>2, <2>5, <3>1, WaiterKeeps
  <2>7. JobsCalm
    <3>1. Kept(x.jobs, job')
      BY <2>4, <2>6, KeptTwice
    <3> DEFINE r == [st.job[x.job] EXCEPT !.waiter = TRUE]
    <3>2. r \in Job /\ r.cancelReq = st.job[x.job].cancelReq
      <4>1. \A q \in Job : LET w == [q EXCEPT !.waiter = TRUE]
                           IN  w \in Job /\ w.cancelReq = q.cancelReq
        BY DEF Job
      <4>2. st.job[x.job] \in Job
        BY <2>2, <2>5 DEF JobMap
      <4> QED BY <4>1, <4>2
    <3>5. job' = [st.job EXCEPT ![x.job] = Unsubscribed(r, 1)]
      BY <2>1 DEF st
    <3> HIDE DEF r
    <3>3. Spent(st.job, job')
      BY <2>2, <2>5, <3>2, <3>5, JobSpent
    <3>4. Spent(x.jobs, job')
      BY <2>a, <3>3 DEF Spent
    <3> QED BY <1>4, <3>1, <3>4, SubscribeCalm
  <2>8. [NoArg EXCEPT !.key = p, !.job = x.job] \in Arguments
    BY <2>2, NoArgType DEF Arguments, Keys
  <2>9. arg' \in [Actors -> Arguments] /\ \A b \in Actors \ {Watcher} : arg'[b] = arg[b]
    BY <1>1, <1>4, <2>1, <2>8
  <2>10. TypeOK'
    BY <1>1, <1>2, <1>3, <2>1, <2>6, <2>9 DEF IInv, TypeOK, JobMap, Arguments
  <2>11. ActorsCalm
    BY <1>1, <1>3, <2>1, <2>9, MovesOn DEF Owning
  <2> QED
    BY <1>3, <2>7, <2>10, <2>11, SameSessions, CalmStep
<1> QED BY <1>7, <1>8, <1>9, <1>10 DEF WatcherIndex

LEMMA WatcherIndexedStep ==
  ASSUME IInv, WatcherIndexed
  PROVE  IInv' /\ Lasting
<1> DEFINE j == arg[Watcher].job
           mine == {o \in owners : o[2] = j}
           ks == [job EXCEPT ![j] =
                    Unsubscribed([job[j] EXCEPT !.waiter = FALSE], Cardinality(mine))]
<1>1. /\ Watcher \in Actors /\ pc[Watcher] \notin Owning
      /\ arg \in [Actors -> Arguments] /\ job \in JobMap
  BY DEF Actors, WatcherIndexed, Owning, IInv, TypeOK, Arguments, JobMap
<1>2. j \in Jobs \cup {Nothing}
  BY <1>1 DEF Arguments
<1>3. Cardinality(mine) \in Nat /\ owners' \subseteq Sessions \X Jobs
  <2>1. IsFiniteSet(Sessions \X Jobs)
    BY Counting, FS_Product
  <2>2. mine \subseteq Sessions \X Jobs
    BY DEF IInv, TypeOK
  <2>3. owners' \subseteq Sessions \X Jobs
    BY DEF IInv, TypeOK, WatcherIndexed
  <2> QED BY <2>1, <2>2, <2>3, FS_Subset, FS_CardinalityType
<1>4. job' = Reaped(ks)
  BY DEF WatcherIndexed
<1> HIDE DEF j, mine
<1>5. ks \in JobMap /\ Kept(job, ks)
  <2>1. CASE j \in Jobs
    BY <1>1, <1>3, <2>1, WaiterKeeps
  <2>2. CASE j \notin Jobs
    <3>1. ks = job
      BY <1>1, <2>2 DEF JobMap
    <3> QED BY <1>1, <3>1 DEF Kept, Alike, Carried
  <2> QED BY <2>1, <2>2
<1> HIDE DEF ks
<1>6. job' \in JobMap /\ Kept(job, job')
  BY <1>4, <1>5, ReapedKeeps, KeptTwice
<1>7. arg' \in [Actors -> Arguments] /\ \A b \in Actors \ {Watcher} : arg'[b] = arg[b]
  BY <1>1, NoArgType DEF WatcherIndexed
<1>8. TypeOK'
  BY <1>1, <1>3, <1>6, <1>7 DEF IInv, TypeOK, JobMap, Arguments, WatcherIndexed
<1>9. ActorsCalm
  BY <1>1, <1>7, MovesOn DEF WatcherIndexed, Owning
<1> QED
  BY <1>6, <1>8, <1>9, KeptIsCalm, SameSessions, CalmStep DEF WatcherIndexed

-----------------------------------------------------------------------------
(* The jobs' threads keep the invariant.                                   *)

(* The job object of a thread that has not published yet.                  *)
LEMMA ThreadMoves ==
  ASSUME IInv, NEW j \in Jobs, NEW to \in Job, job' = [job EXCEPT ![j] = to],
         job[j].thread \notin {"none", "done"},
         to.linked = job[j].linked, to.project = job[j].project,
         to.terminal = job[j].terminal, to.thread \notin {"none", "done"}, Attempts(to)
  PROVE  /\ job' \in JobMap /\ Shaped(job') /\ Limited(job')
         /\ job[j].linked /\ job'[j] = to
         /\ \A i \in Jobs \ {j} : job'[i] = job[i]
<1>1. /\ job \in JobMap /\ Shaped(job) /\ Limited(job)
  BY DEF IInv, TypeOK, JobMap
<1>2. /\ job' \in JobMap /\ job'[j] = to
      /\ \A i \in Jobs \ {j} : job'[i] = job[i]
  BY <1>1 DEF JobMap
<1>3. job[j].linked /\ ~job[j].terminal /\ job[j].project \in Projects
  BY <1>1 DEF Shaped
<1>4. Shaped(job')
  <2>a. to.linked /\ ~to.terminal
    BY <1>3
  <2>1. ASSUME NEW i \in Jobs
        PROVE  /\ job'[i].linked <=> job'[i].thread # "none"
               /\ job'[i].terminal <=> job'[i].thread = "done"
               /\ job'[i].linked => job'[i].project \in Projects
               /\ Attempts(job'[i])
    <3>1. CASE i = j
      BY <1>2, <1>3, <2>a, <3>1
    <3>2. CASE i # j
      BY <1>1, <1>2, <3>2 DEF Shaped
    <3> QED BY <3>1, <3>2
  <2> QED BY <2>1 DEF Shaped
<1>5. \A i \in Jobs : /\ job'[i].linked = job[i].linked /\ job'[i].terminal = job[i].terminal
                      /\ job'[i].project = job[i].project
  BY <1>2
<1>6. Active(job') = Active(job)
  BY <1>5 DEF Active
<1>7. Limited(job')
  <2>1. Active(job) \subseteq Jobs
    BY DEF Active
  <2>2. \A i, k \in Active(job') : job'[i].project = job'[k].project => i = k
    <3> SUFFICES ASSUME NEW i \in Active(job), NEW k \in Active(job),
                        job'[i].project = job'[k].project
                 PROVE  i = k
      BY <1>6
    <3>1. job[i].project = job[k].project
      BY <1>5, <2>1
    <3> QED BY <1>1, <3>1 DEF Limited
  <2>3. Cardinality(Active(job')) <= JobLimit
    BY <1>1, <1>6 DEF Limited
  <2> QED BY <2>2, <2>3 DEF Limited
<1> QED BY <1>2, <1>3, <1>4, <1>7

LEMMA ThreadCalm ==
  ASSUME IInv, NEW j \in Jobs, NEW to \in Job, JobStep(j, to),
         db' \in [Projects -> BOOLEAN], job[j].thread \notin {"none", "done"},
         to.linked = job[j].linked, to.project = job[j].project,
         to.terminal = job[j].terminal, to.thread \notin {"none", "done"}, Attempts(to),
         to.thread \in Working => job[j].thread \in Working
  PROVE  IInv'
<1>1. /\ job' \in JobMap /\ Shaped(job') /\ Limited(job')
      /\ job[j].linked /\ job'[j] = to
      /\ \A i \in Jobs \ {j} : job'[i] = job[i]
  BY ThreadMoves DEF JobStep
<1>2. JobsSafe
  BY <1>1 DEF JobsSafe
<1>3. TypeOK'
  BY <1>1 DEF IInv, TypeOK, JobMap, JobStep
<1> QED
  BY <1>2, <1>3, SameActors, SameSessions, SafeStep DEF JobStep

(* A thread's work is over, or was never begun.                            *)
LEMMA ThreadPublishes ==
  ASSUME IInv, NEW j \in Jobs, db' \in [Projects -> BOOLEAN],
         job[j].thread \notin {"none", "done"},
         \/ JobStep(j, [job[j] EXCEPT !.thread = "publishing", !.result = "cancelled"])
         \/ JobStep(j, [job[j] EXCEPT !.thread = "publishing", !.result = "failed"])
         \/ JobStep(j, [job[j] EXCEPT !.thread = "publishing"])
  PROVE  IInv'
<1>1. job[j] \in Job
  BY DEF IInv, TypeOK
<1>2. \A r \in Job, v \in {"cancelled", "failed"} :
        LET z == [r EXCEPT !.thread = "publishing", !.result = v]
        IN  /\ z \in Job /\ z.linked = r.linked /\ z.project = r.project
            /\ z.terminal = r.terminal /\ z.thread = "publishing"
  BY DEF Job, Threads
<1>a. \A r \in Job :
        LET y == [r EXCEPT !.thread = "publishing"]
        IN  /\ y \in Job /\ y.linked = r.linked /\ y.project = r.project
            /\ y.terminal = r.terminal /\ y.thread = "publishing"
  BY DEF Job, Threads
<1>3. PICK to \in Job :
        /\ JobStep(j, to)
        /\ to.linked = job[j].linked /\ to.project = job[j].project
        /\ to.terminal = job[j].terminal /\ to.thread = "publishing"
  BY <1>1, <1>2, <1>a
<1> QED BY <1>3, ThreadCalm DEF Attempts, Working

LEMMA JobWaitStep ==
  ASSUME IInv, NEW j \in Jobs, JobWait(j)
  PROVE  IInv'
<1> DEFINE old == job[j]
<1>1. /\ old \in Job /\ old.attempt \in 0..MaxAttempts /\ Attempts(old)
      /\ old.thread = "waiting" /\ db \in [Projects -> BOOLEAN]
      /\ old.result \in {"none", "success", "crash", "killed", "cancelled", "failed"}
  BY DEF IInv, TypeOK, Job, Shaped, JobWait
<1>2. CASE JobStep(j, [old EXCEPT !.thread = "publishing", !.result = "cancelled"])
           /\ UNCHANGED db
  BY <1>1, <1>2, ThreadPublishes
<1>3. CASE /\ ~Unneeded(j) /\ ~MutationConflicts(old.project)
           /\ JobStep(j, [old EXCEPT !.thread = "starting"]) /\ UNCHANGED db
  <2> DEFINE z == [old EXCEPT !.thread = "starting"]
  <2>1. /\ z \in Job /\ z.linked = old.linked /\ z.project = old.project
        /\ z.terminal = old.terminal /\ z.thread = "starting" /\ z.attempt = old.attempt
    BY <1>1 DEF Job, Threads
  <2>2. job' = [job EXCEPT ![j] = z]
    BY <1>3 DEF JobStep
  <2> HIDE DEF z
  <2>3. Attempts(z)
    BY <1>1, <2>1 DEF Attempts
  <2>4. /\ job' \in JobMap /\ Shaped(job') /\ Limited(job')
        /\ old.linked /\ job'[j] = z
        /\ \A i \in Jobs \ {j} : job'[i] = job[i]
    BY <1>1, <2>1, <2>2, <2>3, ThreadMoves
  <2>5. UNCHANGED <<stopping, session, owners, pc, arg, lease, leaving, host, polls,
                    unvisited, faults, db>>
    BY <1>3 DEF JobStep
  <2>6. TypeOK'
    BY <1>1, <2>4, <2>5 DEF IInv, TypeOK, JobMap
  <2>7. ASSUME NEW a \in Actors
        PROVE  /\ Claimed(a)'
               /\ \A b \in Actors \ {a} : Apart(a, b)'
               /\ \A i \in Jobs : Away(a, i)'
    <3>1. /\ Claimed(a) /\ \A b \in Actors \ {a} : Apart(a, b)
          /\ \A i \in Jobs : Away(a, i)
      BY DEF IInv, Excluded
    <3>2. Claimed(a)' /\ \A b \in Actors \ {a} : Apart(a, b)'
      BY <2>5, <3>1 DEF Claimed, Apart, Reserved
    <3>3. ASSUME NEW i \in Jobs \ {j}
          PROVE  Away(a, i)'
      BY <2>4, <2>5, <3>1 DEF Away, Reserved
    <3>4. Away(a, j)'
      BY <1>3, <2>1, <2>4, <2>5 DEF Away, Reserved, MutationConflicts
    <3> QED BY <3>2, <3>3, <3>4
  <2>8. Excluded'
    BY <2>7 DEF Excluded
  <2>9. Drained'
    BY <1>3, <2>5 DEF IInv, Drained, Unneeded
  <2> QED BY <2>4, <2>6, <2>8, <2>9 DEF IInv
<1> QED BY <1>2, <1>3 DEF JobWait

LEMMA JobStartStep ==
  ASSUME IInv, NEW j \in Jobs, JobStart(j)
  PROVE  IInv'
<1>1. /\ job[j] \in Job /\ job[j].thread = "starting" /\ db' = db
      /\ db \in [Projects -> BOOLEAN] /\ job[j].attempt < MaxAttempts
  BY DEF IInv, TypeOK, JobStart, Shaped, Attempts
<1>2. CASE JobStep(j, [job[j] EXCEPT !.thread = "running", !.attempt = @ + 1])
  <2> DEFINE z == [job[j] EXCEPT !.thread = "running", !.attempt = @ + 1]
  <2>1. job[j].attempt + 1 \in 0..MaxAttempts
    BY <1>1, ConstantsAssumption DEF Job
  <2>2. /\ z \in Job /\ z.linked = job[j].linked /\ z.project = job[j].project
        /\ z.terminal = job[j].terminal /\ z.thread = "running"
    BY <1>1, <2>1 DEF Job, Threads
  <2>3. JobStep(j, z)
    BY <1>2
  <2> HIDE DEF z
  <2> QED
    BY <1>1, <2>2, <2>3, ThreadCalm DEF Attempts, Working
<1>3. CASE \/ JobStep(j, [job[j] EXCEPT !.thread = "publishing", !.result = "cancelled"])
           \/ JobStep(j, [job[j] EXCEPT !.thread = "publishing", !.result = "failed"])
  BY <1>1, <1>3, ThreadPublishes
<1> QED BY <1>2, <1>3 DEF JobStart

LEMMA WorkerEndStep ==
  ASSUME IInv, NEW j \in Jobs, WorkerEnd(j)
  PROVE  IInv'
<1>1. /\ job[j] \in Job /\ job[j].thread = "running"
      /\ db' \in [Projects -> BOOLEAN]
  BY DEF IInv, TypeOK, WorkerEnd
<1>2. PICK v \in {"success", "crash", "killed"} :
        JobStep(j, [job[j] EXCEPT !.thread = "ended", !.result = v])
  BY DEF WorkerEnd
<1> DEFINE z == [job[j] EXCEPT !.thread = "ended", !.result = v]
<1>3. /\ z \in Job /\ z.linked = job[j].linked /\ z.project = job[j].project
      /\ z.terminal = job[j].terminal /\ z.thread = "ended"
  BY <1>1 DEF Job, Threads
<1>4. JobStep(j, z)
  BY <1>2
<1> HIDE DEF z
<1> QED
  BY <1>1, <1>3, <1>4, ThreadCalm DEF Attempts, Working

LEMMA JobCollectStep ==
  ASSUME IInv, NEW j \in Jobs, JobCollect(j)
  PROVE  IInv'
<1>1. /\ job[j] \in Job /\ job[j].thread = "ended" /\ db' = db
      /\ db \in [Projects -> BOOLEAN]
  BY DEF IInv, TypeOK, JobCollect
<1>2. CASE /\ job[j].attempt < MaxAttempts
           /\ JobStep(j, [job[j] EXCEPT !.thread = "starting", !.result = "none"])
  <2> DEFINE z == [job[j] EXCEPT !.thread = "starting", !.result = "none"]
  <2>1. /\ z \in Job /\ z.linked = job[j].linked /\ z.project = job[j].project
        /\ z.terminal = job[j].terminal /\ z.thread = "starting"
        /\ z.attempt = job[j].attempt
    BY <1>1 DEF Job, Threads
  <2>2. JobStep(j, z)
    BY <1>2
  <2> HIDE DEF z
  <2> QED
    BY <1>1, <1>2, <2>1, <2>2, ThreadCalm DEF Attempts, Working
<1>3. CASE \/ JobStep(j, [job[j] EXCEPT !.thread = "publishing", !.result = "cancelled"])
           \/ JobStep(j, [job[j] EXCEPT !.thread = "publishing"])
  BY <1>1, <1>3, ThreadPublishes
<1> QED BY <1>2, <1>3 DEF JobCollect

LEMMA JobPublishStep ==
  ASSUME IInv, NEW j \in Jobs, JobPublish(j)
  PROVE  IInv'
<1> DEFINE p == job[j].project
           success == job[j].result = "success"
           auto == {s \in Sessions : Linked(s) /\ session[s].auto = j}
           n == Cardinality(auto)
           r == [job[j] EXCEPT !.terminal = TRUE, !.successful = success,
                               !.thread = "done", !.result = "none", !.attempt = 0]
           q == Unsubscribed(r, n)
           js == [job EXCEPT ![j] = q]
           ss == [s \in Sessions |-> IF s \in auto
                    THEN [session[s] EXCEPT !.auto = Nothing] ELSE session[s]]
           st == [session |-> ss, job |-> js, owners |-> owners]
           to == IF success THEN Refreshed(st, auto, p) ELSE st
<1>1. /\ Install(to) /\ job[j].thread = "publishing"
      /\ unvisited' = IF stopping THEN {} ELSE {s \in Sessions : Linked(s)}
      /\ UNCHANGED <<stopping, pc, arg, lease, leaving, host, db, polls, faults>>
  BY DEF JobPublish
<1>2. /\ job \in JobMap /\ job[j] \in Job /\ Shaped(job) /\ Limited(job)
      /\ job[j].linked /\ job[j].project \in Projects
      /\ session \in [Sessions -> Session]
  BY <1>1 DEF IInv, TypeOK, JobMap, Shaped
<1>3. r \in Job /\ r.linked = TRUE /\ r.project = job[j].project
      /\ r.terminal = TRUE /\ r.thread = "done"
  <2>1. success \in BOOLEAN /\ 0 \in 0..MaxAttempts /\ job[j].linked = TRUE
    BY <1>2, ConstantsAssumption DEF Job
  <2> HIDE DEF success
  <2> QED BY <1>2, <2>1 DEF Job, Threads
<1>4. n \in Nat
  BY Counting
<1> HIDE DEF r, n
<1>5. /\ q \in Job /\ q.linked = TRUE /\ q.project = job[j].project
      /\ q.terminal = TRUE /\ q.thread = "done"
  BY <1>3, <1>4, UnsubscribedKeeps DEF Alike, Carried
<1> HIDE DEF q
<1>6. /\ js \in JobMap /\ js[j] = q
      /\ \A i \in Jobs \ {j} : js[i] = job[i]
  BY <1>2, <1>5 DEF JobMap
<1> HIDE DEF js
<1>7. Shaped(js)
  <2>1. Attempts(q)
    BY <1>5 DEF Attempts
  <2> QED BY <1>2, <1>5, <1>6, <2>1 DEF Shaped
<1>8. Limited(js)
  <2>1. Active(js) \subseteq Active(job) /\ Active(job) \subseteq Jobs
    BY <1>5, <1>6 DEF Active
  <2>2. \A i \in Active(js) : js[i].project = job[i].project
    BY <1>5, <1>6, <2>1
  <2>3. Cardinality(Active(js)) <= Cardinality(Active(job))
    BY <2>1, Counting, FS_Subset
  <2>4. /\ Cardinality(Active(js)) \in Nat /\ Cardinality(Active(job)) \in Nat
        /\ JobLimit \in Nat
    BY <2>1, Counting, ConstantsAssumption
  <2> QED BY <1>2, <2>1, <2>2, <2>3, <2>4 DEF Limited
<1>9. ss \in [Sessions -> Session] /\ Quieter(session, ss)
  <2>1. \A x \in Session : LET y == [x EXCEPT !.auto = Nothing]
                           IN  y \in Session /\ y.token = x.token /\ y.auto = Nothing
    BY DEF Session
  <2> HIDE DEF auto
  <2> QED BY <1>2, <2>1 DEF Quieter
<1> HIDE DEF ss
<1>10. st \in SharedState /\ st.session = ss /\ st.job = js
  BY <1>6, <1>9 DEF SharedState, IInv, TypeOK
<1> HIDE DEF st
<1>11. /\ to \in SharedState /\ Settled(ss, to.session) /\ Kept(js, to.job)
  <2>1. CASE success
    <3>1. auto \in SUBSET Sessions
      OBVIOUS
    <3> HIDE DEF success, auto
    <3> QED BY <1>10, <2>1, <3>1, RefreshedKeeps
  <2>2. CASE ~success
    BY <1>10, <2>2 DEF Settled, Kept, Alike, Carried
  <2> QED BY <2>1, <2>2
<1> HIDE DEF to
<1>12. /\ session' = to.session /\ job' = to.job /\ owners' = to.owners
       /\ session' \in [Sessions -> Session] /\ Quieter(session, session')
       /\ job' \in JobMap /\ owners' \subseteq Sessions \X Jobs
  BY <1>1, <1>9, <1>11 DEF Install, SharedState, Settled, Quieter
<1>13. JobsSafe
  <2>1. Shaped(job') /\ Limited(job')
    BY <1>7, <1>8, <1>11, <1>12, KeptIsSafe
  <2>2. \A i \in Jobs : job'[i].thread \in Working
          => job[i].thread \in Working /\ job'[i].project = job[i].project
    <3>1. \A i \in Jobs : job'[i].thread \in Working
            => js[i].thread \in Working /\ job'[i].project = js[i].project
      BY <1>11, <1>12, NoJobFields DEF Kept, Alike, Carried, Working
    <3> QED BY <1>5, <1>6, <3>1 DEF Working
  <2> QED BY <1>2, <2>1, <2>2 DEF JobsSafe
<1>14. TypeOK'
  BY <1>1, <1>12 DEF IInv, TypeOK, JobMap
<1>15. ActorsCalm
  BY <1>1, SameActors
<1> QED
  BY <1>1, <1>12, <1>13, <1>14, <1>15, SafeStep DEF HostCalm

LEMMA JobThreadSteps ==
  ASSUME IInv, NEW j \in Jobs, JobThread(j)
  PROVE  IInv'
  BY JobWaitStep, JobStartStep, WorkerEndStep, JobCollectStep, JobPublishStep DEF JobThread

LEMMA AutoIndexRetryStep ==
  ASSUME IInv, AutoIndexRetry
  PROVE  IInv' /\ Lasting
<1>1. PICK s \in unvisited :
        \/ /\ UNCHANGED <<session, job, owners, faults>>
           /\ unvisited' = unvisited \ {s}
        \/ /\ Install(Refreshed([Shared EXCEPT !.session =
                              [session EXCEPT ![s].retry = FALSE]], {s}, Home[s]))
           /\ unvisited' = unvisited \ {s}
           /\ UNCHANGED faults
        \/ /\ \E x \in Subscriptions(job, Home[s], "default") :
                /\ session' = IF x.job = Nothing THEN session
                              ELSE [session EXCEPT ![s].auto = x.job, ![s].retry = FALSE]
                /\ job' = x.jobs
                /\ faults' = FaultsAfter(x)
                /\ unvisited' = IF x.status = "busy" THEN {} ELSE unvisited \ {s}
           /\ UNCHANGED owners
  BY DEF AutoIndexRetry
<1>2. UNCHANGED <<stopping, pc, arg, lease, leaving, host, db, polls>>
  BY DEF AutoIndexRetry
<1>3. /\ s \in Sessions /\ session[s] \in Session /\ session \in [Sessions -> Session]
      /\ job \in JobMap /\ Shaped(job) /\ stopping \in BOOLEAN
      /\ faults \in 0..MaxFaults /\ unvisited' \subseteq Sessions
      /\ owners \subseteq Sessions \X Jobs
  BY <1>1 DEF IInv, TypeOK, JobMap
<1>4. ActorsCalm
  BY <1>2, SameActors
<1>5. ASSUME session' \in [Sessions -> Session], stopping => Quieter(session, session'),
             job' \in JobMap, owners' \subseteq Sessions \X Jobs, faults' \in 0..MaxFaults,
             JobsCalm
      PROVE  IInv' /\ Lasting
  <2>1. TypeOK'
    BY <1>2, <1>3, <1>5 DEF IInv, TypeOK, JobMap
  <2> QED BY <1>2, <1>4, <1>5, <2>1, CalmStep DEF HostCalm
<1>6. CASE UNCHANGED <<session, job, owners, faults>>
  BY <1>3, <1>5, <1>6, SameJobs DEF Quieter
<1>7. CASE /\ Install(Refreshed([Shared EXCEPT !.session =
                              [session EXCEPT ![s].retry = FALSE]], {s}, Home[s]))
           /\ UNCHANGED faults
  <2> DEFINE q == [session[s] EXCEPT !.retry = FALSE]
             ss == [session EXCEPT ![s].retry = FALSE]
             before == [Shared EXCEPT !.session = ss]
             st == Refreshed(before, {s}, Home[s])
  <2>1. q \in Session /\ q.token = session[s].token /\ q.auto = session[s].auto
    BY <1>3 DEF Session
  <2>2. ss = [session EXCEPT ![s] = q]
    BY <1>3
  <2> HIDE DEF ss, q
  <2>3. ss \in [Sessions -> Session] /\ Settled(session, ss)
    BY <1>3, <2>1, <2>2 DEF Settled
  <2>4. before \in SharedState /\ before.session = ss /\ before.job = job
    BY <1>3, <2>3, SharedType DEF SharedState, IInv
  <2> HIDE DEF before
  <2>5. st \in SharedState /\ Settled(ss, st.session) /\ Kept(job, st.job)
    BY <1>3, <2>4, RefreshedKeeps
  <2>6. Install(st)
    BY <1>7 DEF before, ss
  <2> HIDE DEF st
  <2>7. Settled(session, st.session)
    BY <2>3, <2>5 DEF Settled
  <2> QED BY <1>3, <1>5, <1>7, <2>5, <2>6, <2>7, InstallCalm
<1>8. CASE /\ \E x \in Subscriptions(job, Home[s], "default") :
                /\ session' = IF x.job = Nothing THEN session
                              ELSE [session EXCEPT ![s].auto = x.job, ![s].retry = FALSE]
                /\ job' = x.jobs
                /\ faults' = FaultsAfter(x)
           /\ UNCHANGED owners
  <2>1. PICK x \in Subscriptions(job, Home[s], "default") :
                /\ session' = IF x.job = Nothing THEN session
                              ELSE [session EXCEPT ![s].auto = x.job, ![s].retry = FALSE]
                /\ job' = x.jobs
                /\ faults' = FaultsAfter(x)
    BY <1>8
  <2>2. Home[s] \in Projects /\ "default" \in Options
    BY <1>3, ConstantsAssumption DEF Options
  <2>3. /\ x.jobs \in JobMap /\ x.job \in Jobs \cup {Nothing}
        /\ FaultsAfter(x) \in 0..MaxFaults
        /\ Kept(job, x.jobs) \/ (~stopping /\ Grown(job, x.jobs, Home[s]))
        /\ stopping => x.job = Nothing
        /\ \A j \in Active(job') \ Active(job) : ~job[j].linked /\ ~job'[j].cancelReq
    BY <1>3, <2>1, <2>2, SubscribeKeeps
  <2>4. JobsCalm
    BY <2>1, <2>2, <2>3, KeptIsCalm, GrownIsCalm DEF Fresh
  <2> DEFINE q == [session[s] EXCEPT !.auto = x.job, !.retry = FALSE]
  <2>5. q \in Session
    BY <1>3, <2>3 DEF Session
  <2>6. session' = session \/ (~stopping /\ session' = [session EXCEPT ![s] = q])
    BY <1>3, <2>1, <2>3
  <2> HIDE DEF q
  <2>7. session' \in [Sessions -> Session] /\ (stopping => Quieter(session, session'))
    BY <1>3, <2>5, <2>6 DEF Quieter
  <2> QED BY <1>3, <1>5, <1>8, <2>1, <2>3, <2>4, <2>7
<1> QED BY <1>1, <1>6, <1>7, <1>8

-----------------------------------------------------------------------------
(* The shutdown keeps the invariant.                                       *)

LEMMA ShutdownBeginStep ==
  ASSUME IInv, ShutdownBegin
  PROVE  IInv' /\ Lasting /\ Kept(job, job')
<1> DEFINE auto(j) == Cardinality({s \in Sessions : Linked(s) /\ session[s].auto = j})
           dropped == [j \in Jobs |-> IF auto(j) = 0 THEN job[j]
                                      ELSE Unsubscribed(job[j], auto(j))]
<1>1. /\ host' = "draining" /\ stopping' = TRUE
      /\ session' = [s \in Sessions |-> [session[s] EXCEPT !.auto = Nothing]]
      /\ job' = AllCancelled(dropped)
      /\ UNCHANGED <<owners, pc, arg, lease, leaving, db, polls, unvisited, faults>>
  BY DEF ShutdownBegin
<1>2. /\ session \in [Sessions -> Session] /\ job \in JobMap
      /\ Shaped(job) /\ Limited(job)
  BY DEF IInv, TypeOK, JobMap
<1>3. \A j \in Jobs : auto(j) \in Nat
  BY Counting
<1> HIDE DEF auto
<1>4. dropped \in JobMap /\ Kept(job, dropped)
  <2>1. ASSUME NEW j \in Jobs
        PROVE  /\ dropped[j] \in Job /\ Carried(dropped[j], job[j])
    <3>1. job[j] \in Job
      BY <1>2 DEF JobMap
    <3> QED
      BY <1>3, <3>1, UnsubscribedKeeps DEF Alike, Carried
  <2> QED BY <2>1 DEF JobMap, Kept
<1> HIDE DEF dropped
<1>5. job' \in JobMap /\ Kept(job, job')
  BY <1>1, <1>4, CancelKeeps, KeptTwice
<1>6. JobsCalm
  BY <1>5, KeptIsCalm
<1>7. /\ session' \in [Sessions -> Session]
      /\ \A s \in Sessions : session'[s].auto = Nothing
  <2>1. \A x \in Session : [x EXCEPT !.auto = Nothing] \in Session
                           /\ [x EXCEPT !.auto = Nothing].auto = Nothing
    BY DEF Session
  <2> QED BY <1>1, <1>2, <2>1
<1>8. TypeOK'
  BY <1>1, <1>5, <1>7 DEF IInv, TypeOK, JobMap
<1>9. Drained'
  BY <1>1, <1>7 DEF Drained
<1>10. ASSUME NEW a \in Actors
       PROVE  /\ Claimed(a)'
              /\ \A b \in Actors \ {a} : Apart(a, b)'
              /\ \A j \in Jobs : Away(a, j)'
  <2>1. /\ Claimed(a) /\ \A b \in Actors \ {a} : Apart(a, b)
        /\ \A j \in Jobs : Away(a, j)
    BY DEF IInv, Excluded
  <2>2. Claimed(a)' /\ \A b \in Actors \ {a} : Apart(a, b)'
    BY <1>1, <2>1 DEF Claimed, Apart, Reserved
  <2>3. ASSUME NEW j \in Jobs
        PROVE  Away(a, j)'
    BY <1>1, <1>6, <2>1 DEF Away, Reserved, JobsCalm, JobsSafe
  <2> QED BY <2>2, <2>3
<1>11. Excluded'
  BY <1>10 DEF Excluded
<1> QED
  BY <1>5, <1>6, <1>8, <1>9, <1>11 DEF IInv, JobsCalm, JobsSafe

LEMMA ShutdownDoneStep ==
  ASSUME IInv, ShutdownDone
  PROVE  IInv' /\ Lasting
<1>1. /\ host = "draining" /\ AllDone /\ host' = "quiet" /\ job' = Reaped(job)
      /\ UNCHANGED <<stopping, session, owners, pc, arg, lease, leaving, db, polls,
                     unvisited, faults>>
  BY DEF ShutdownDone
<1>2. job' \in JobMap /\ JobsCalm
  BY <1>1, ReleaseCalm
<1>3. TypeOK'
  BY <1>1, <1>2 DEF IInv, TypeOK, JobMap
<1>4. \A j \in Jobs : ~job'[j].linked
  BY <1>1, NoJobFields DEF AllDone, Reaped
<1>5. Drained'
  <2>1. stopping' /\ \A s \in Sessions : session'[s].auto = Nothing
    BY <1>1 DEF IInv, Drained
  <2>2. \A a \in Actors : ~Reserved(a)'
    BY <1>1 DEF AllDone, Reserved
  <2>3. \A s \in Sessions : session'[s].token = 0
    BY <1>1 DEF AllDone
  <2> QED BY <1>4, <2>1, <2>2, <2>3 DEF Drained
<1>6. ASSUME NEW a \in Actors
      PROVE  /\ Claimed(a)'
             /\ \A b \in Actors \ {a} : Apart(a, b)'
             /\ \A j \in Jobs : Away(a, j)'
  <2>1. Claimed(a) /\ ~Reserved(a)
    BY <1>1 DEF IInv, Excluded, AllDone
  <2>2. Claimed(a)' /\ ~Reserved(a)'
    BY <1>1, <2>1 DEF Claimed, Reserved
  <2> QED BY <2>2 DEF Apart, Away
<1>7. Excluded'
  BY <1>6 DEF Excluded
<1> QED
  BY <1>2, <1>3, <1>5, <1>7 DEF IInv, JobsCalm, JobsSafe

-----------------------------------------------------------------------------
(* The theorems.                                                           *)

(* The application is created without sessions, jobs and requests.         *)
LEMMA Initially == Init => IInv
<1> SUFFICES ASSUME Init PROVE IInv
  OBVIOUS
<1>1. /\ 0 \in 0..MaxPolls /\ 0 \in 0..MaxFaults
  BY ConstantsAssumption
<1>2. TypeOK
  <2>1. /\ session \in [Sessions -> Session] /\ job \in [Jobs -> Job]
        /\ arg \in [Actors -> Arguments]
    BY NoJobType, NoArgType DEF Init
  <2>2. /\ pc = [a \in Actors |-> "idle"] /\ lease \in [Actors -> BOOLEAN]
        /\ leaving \in [Sessions -> [pc : {"no", "joining", "left"}, job : Jobs \cup {Nothing}]]
    BY DEF Init
  <2>3. /\ stopping \in BOOLEAN /\ owners = {} /\ host = "running" /\ unvisited = {}
        /\ polls = 0 /\ faults = 0
    BY DEF Init
  <2>4. db \in [Projects -> BOOLEAN]
    BY DEF Init
  <2> QED
    BY <1>1, <2>1, <2>2, <2>3, <2>4 DEF TypeOK, Arguments
<1>3. \A j \in Jobs : job[j] = NoJob
  BY DEF Init
<1>4. Shaped(job)
  BY <1>3, NoJobFields DEF Shaped, Attempts
<1>5. Active(job) = {}
  BY <1>3, NoJobFields DEF Active
<1>6. Limited(job)
  BY <1>5, FS_EmptySet, ConstantsAssumption DEF Limited
<1>7. Excluded
  <2>1. \A a \in Actors : pc[a] = "idle" /\ ~lease[a]
    BY DEF Init
  <2> QED
    BY <2>1 DEF Excluded, Claimed, Apart, Away, Reserved
<1>8. Drained
  BY DEF Init, Drained
<1> QED BY <1>2, <1>4, <1>6, <1>7, <1>8 DEF IInv

(* Each step keeps the invariant, and only a job's own thread moves it.    *)
LEMMA Steps ==
  ASSUME IInv, Next
  PROVE  IInv' /\ (Lasting \/ \E j \in Jobs : JobThread(j))
<1>1. ASSUME NEW s \in Sessions, RequestStep(s)
      PROVE  IInv' /\ Lasting
  BY <1>1, RequestEnterStep, IndexSubscribeStep, IndexBindStep, IndexWaitStep,
     RequestRefreshStep, RequestFinishStep, BackgroundProbeStep,
     BackgroundInitializeStep, MutationRefuseStep DEF RequestStep
<1>2. ASSUME NEW s \in Sessions,
             \/ SessionOpen(s) \/ RequestAdmit(s) \/ RequestStep(s) \/ RequestCancel(s)
             \/ SessionCancel(s) \/ AutoIndexJoined(s) \/ SessionClose(s)
      PROVE  IInv' /\ Lasting
  BY <1>1, <1>2, SessionOpenStep, RequestAdmitStep, RequestCancelStep, SessionCancelStep,
     AutoIndexJoinedStep, SessionCloseStep
<1>3. ASSUME NEW a \in Actors,
             MutationStep(a) \/ \E k \in Keys : MutationReserve(a, k)
      PROVE  IInv' /\ Lasting
  BY <1>3, MutationSteps, MutationReserveStep
<1>4. CASE ProjectPruned \/ WatcherIndexed \/ \E p \in Projects : WatcherIndex(p)
  BY <1>4, ProjectPrunedStep, WatcherIndexedStep, WatcherIndexStep
<1>5. CASE \E j \in Jobs : JobThread(j)
  BY <1>5, JobThreadSteps
<1>6. CASE AutoIndexRetry \/ ShutdownBegin \/ ShutdownDone
  BY <1>6, AutoIndexRetryStep, ShutdownBeginStep, ShutdownDoneStep
<1> QED BY <1>2, <1>3, <1>4, <1>5, <1>6 DEF Next

LEMMA Inductive == IInv /\ [Next]_vars => IInv'
<1> SUFFICES ASSUME IInv, [Next]_vars PROVE IInv'
  OBVIOUS
<1>1. CASE Next
  BY <1>1, Steps
<1>2. CASE UNCHANGED vars
  <2>1. UNCHANGED <<stopping, session, job, owners, pc, arg, lease, leaving,
                    host, db, polls, unvisited, faults>>
    BY <1>2 DEF vars
  <2>2. TypeOK'
    BY <2>1 DEF IInv, TypeOK
  <2> QED
    BY <2>1, <2>2, SameJobs, SameActors, SameSessions, CalmStep
<1> QED BY <1>1, <1>2

(* The types, the shape of the job objects, their limits, and the exclusion*)
(* of workers and mutations hold together in every reachable state.        *)
THEOREM Invariance == Spec => []IInv
  BY Initially, Inductive, PTL DEF Spec

(* Sessions, jobs, owners and threads have their types in every reachable  *)
(* state, whatever the sessions ask and in whatever order they leave.      *)
THEOREM TypeCorrect == Spec => []TypeOK
<1>1. IInv => TypeOK
  BY DEF IInv
<1> QED BY <1>1, Invariance, PTL

(* No worker process writes a project that a mutation has reserved or      *)
(* owns, no two mutations of conflicting keys overlap, a project has one   *)
(* job at a time, and the limit on physical jobs holds, for any number of  *)
(* sessions, projects and attempts.                                        *)
THEOREM WorkersAlwaysExcludeMutations == Spec => []WorkersExcludeMutations
<1>1. IInv => WorkersExcludeMutations
  <2> SUFFICES ASSUME IInv PROVE WorkersExcludeMutations
    OBVIOUS
  <2>1. ASSUME NEW a \in Actors
        PROVE  /\ lease[a] => Reserved(a)
               /\ \A b \in Actors \ {a} : Reserved(a) /\ Reserved(b)
                    => ~Conflict(arg[a].key, arg[b].key)
               /\ \A j \in Jobs : Reserved(a) /\ job[j].thread \in {"starting", "running"}
                    => ~Conflict(arg[a].key, job[j].project)
    <3>1. lease[a] => Reserved(a)
      BY DEF IInv, Excluded, Claimed, Owning, Reserved
    <3>2. \A b \in Actors \ {a} : Reserved(a) /\ Reserved(b)
            => ~Conflict(arg[a].key, arg[b].key)
      BY DEF IInv, Excluded, Apart
    <3>3. \A j \in Jobs : Reserved(a) /\ job[j].thread \in {"starting", "running"}
            => ~Conflict(arg[a].key, job[j].project)
      BY DEF IInv, Excluded, Away, Working
    <3> QED BY <3>1, <3>2, <3>3
  <2> QED BY <2>1 DEF IInv, Limited, WorkersExcludeMutations
<1> QED BY <1>1, Invariance, PTL

(* After pmm_daemon_application_shutdown has answered, no job object, no   *)
(* reservation, no native lease and no request is left, and none appears.  *)
THEOREM QuietIsAlwaysFinal == Spec => []QuietIsFinal
<1>1. IInv => QuietIsFinal
  <2> SUFFICES ASSUME IInv, host = "quiet"
               PROVE  /\ \A j \in Jobs : ~job[j].linked
                      /\ \A a \in Actors : ~lease[a] /\ ~Reserved(a)
                      /\ \A s \in Sessions : session[s].token = 0 /\ session[s].auto = Nothing
    BY DEF QuietIsFinal
  <2>1. \A a \in Actors : ~lease[a] /\ ~Reserved(a)
    BY DEF IInv, Drained, Excluded, Claimed, Owning, Reserved
  <2>2. /\ \A j \in Jobs : ~job[j].linked
        /\ \A s \in Sessions : session[s].token = 0 /\ session[s].auto = Nothing
    BY DEF IInv, Drained
  <2> QED BY <2>1, <2>2
<1> QED BY <1>1, Invariance, PTL

-----------------------------------------------------------------------------
(* References and their number.                                            *)

(* References are finitely many and can be counted.                        *)
LEMMA ReferrersFinite ==
  /\ IsFiniteSet(Referrers)
  /\ \A H \in SUBSET Referrers : IsFiniteSet(H) /\ Cardinality(H) \in Nat
<1>1. IsFiniteSet(Sessions)
  BY ConstantsAssumption
<1>2. IsFiniteSet(Actors)
  BY <1>1, FS_AddElement DEF Actors
<1>3. IsFiniteSet(Tags \cup {"caller"})
  <2>1. IsFiniteSet({"request"})
    BY FS_Singleton
  <2>2. IsFiniteSet({"request"} \cup {"active"})
    BY <2>1, FS_AddElement
  <2>3. IsFiniteSet({"request"} \cup {"active"} \cup {"auto"})
    BY <2>2, FS_AddElement
  <2>4. IsFiniteSet({"request"} \cup {"active"} \cup {"auto"} \cup {"leaving"})
    BY <2>3, FS_AddElement
  <2>5. IsFiniteSet({"request"} \cup {"active"} \cup {"auto"} \cup {"leaving"} \cup {"watch"})
    BY <2>4, FS_AddElement
  <2>6. IsFiniteSet({"request"} \cup {"active"} \cup {"auto"} \cup {"leaving"} \cup {"watch"}
                      \cup {"caller"})
    BY <2>5, FS_AddElement
  <2>7. Tags \cup {"caller"} =
          {"request"} \cup {"active"} \cup {"auto"} \cup {"leaving"} \cup {"watch"}
            \cup {"caller"}
    BY DEF Tags
  <2> QED BY <2>6, <2>7
<1>4. IsFiniteSet(Referrers)
  BY <1>2, <1>3, FS_Product DEF Referrers
<1> QED BY <1>4, FS_Subset, FS_CardinalityType

LEMMA HeldType ==
  ASSUME NEW B, NEW L, NEW ss, NEW os, NEW j
  PROVE  /\ Held(B, L, ss, os, j) \in SUBSET Referrers
         /\ Held(B, L, ss, os, j) \in SUBSET (Sessions \X Tags)
  BY DEF Held, Referrers, Actors

(* The definition of the model, by membership.                             *)
LEMMA ReferencesHeld ==
  ASSUME TypeOK, NEW j \in Jobs
  PROVE  References(j) = Held(Binding, Joining, session, owners, j)
<1> DEFINE H == Held(Binding, Joining, session, owners, j)
<1>1. \A s \in Sessions : Binding[s] = j <=> pc[s] = "bind" /\ arg[s].job = j
  BY ConstantsAssumption DEF Binding, Jobs
<1>2. \A s \in Sessions : Joining[s] = leaving[s].job
  BY DEF Joining
<1>3. owners \subseteq Sessions \X Jobs
  BY DEF TypeOK
<1>4. ASSUME NEW r \in H
      PROVE  r \in References(j)
  <2>1. PICK s \in Sessions, t \in Tags : r = <<s, t>>
    BY DEF Held
  <2>2. CASE t = "request" /\ Binding[s] = j
    BY <1>1, <2>1, <2>2 DEF References
  <2>3. CASE t = "active" /\ session[s].active = j
    BY <2>1, <2>3 DEF References
  <2>4. CASE t = "auto" /\ session[s].auto = j
    BY <2>1, <2>4 DEF References
  <2>5. CASE t = "leaving" /\ Joining[s] = j
    BY <1>2, <2>1, <2>5 DEF References
  <2>6. CASE t = "watch" /\ <<s, j>> \in owners
    <3>1. <<s, j>> \in {q \in owners : q[2] = j}
      BY <2>6
    <3>2. <<<<s, j>>[1], "watch">> \in {<<o[1], "watch">> : o \in {q \in owners : q[2] = j}}
      BY <3>1
    <3> QED BY <2>1, <2>6, <3>2 DEF References
  <2> QED BY <2>1, <2>2, <2>3, <2>4, <2>5, <2>6 DEF Held
<1>5. ASSUME NEW r \in References(j)
      PROVE  r \in H
  <2>1. CASE \E s \in Sessions : r = <<s, "request">> /\ pc[s] = "bind" /\ arg[s].job = j
    BY <1>1, <2>1 DEF Held, Tags
  <2>2. CASE \E s \in Sessions : r = <<s, "active">> /\ session[s].active = j
    BY <2>2 DEF Held, Tags
  <2>3. CASE \E s \in Sessions : r = <<s, "auto">> /\ session[s].auto = j
    BY <2>3 DEF Held, Tags
  <2>4. CASE \E s \in Sessions : r = <<s, "leaving">> /\ leaving[s].job = j
    BY <1>2, <2>4 DEF Held, Tags
  <2>5. CASE \E o \in owners : o[2] = j /\ r = <<o[1], "watch">>
    <3>1. PICK o \in owners : o[2] = j /\ r = <<o[1], "watch">>
      BY <2>5
    <3>2. o = <<o[1], j>> /\ o[1] \in Sessions
      BY <1>3, <3>1
    <3> QED BY <3>1, <3>2 DEF Held, Tags
  <2> QED BY <2>1, <2>2, <2>3, <2>4, <2>5 DEF References
<1> QED BY <1>4, <1>5

(* Releasing the subscriptions of G, joining those of N.                   *)
LEMMA Dropped ==
  ASSUME NEW r \in Job, NEW H \in SUBSET Referrers, Backed(r, H), NEW G \in SUBSET H,
         NEW n, n = Cardinality(G)
  PROVE  /\ Unsubscribed(r, n) \in Job
         /\ Same(r, Unsubscribed(r, n))
         /\ Backed(Unsubscribed(r, n), H \ G)
         /\ Unsubscribed(r, n).cancelReq => r.cancelReq \/ H \ G = {}
         /\ r.cancelReq => Unsubscribed(r, n).cancelReq
<1>1. /\ IsFiniteSet(H) /\ Cardinality(H) \in Nat /\ IsFiniteSet(G) /\ n \in Nat
      /\ n <= Cardinality(H) /\ IsFiniteSet(H \ G)
      /\ Cardinality(H \ G) = Cardinality(H) - n
  <2>1. IsFiniteSet(H) /\ Cardinality(H) \in Nat
    BY ReferrersFinite
  <2>2. IsFiniteSet(G) /\ Cardinality(G) \in Nat /\ Cardinality(G) <= Cardinality(H)
    BY <2>1, FS_Subset, FS_CardinalityType
  <2>3. H \cap G = G
    OBVIOUS
  <2>4. IsFiniteSet(H \ G) /\ Cardinality(H \ G) = Cardinality(H) - Cardinality(G)
    BY <2>1, <2>3, FS_Difference
  <2> QED BY <2>1, <2>2, <2>4
<1> DEFINE k == IF r.subs > n THEN r.subs - n ELSE 0
           c == r.cancelReq \/ (r.subs \in 1..n /\ ~r.terminal)
           q == [r EXCEPT !.subs = k, !.cancelReq = c]
<1>2. Unsubscribed(r, n) = q
  BY DEF Unsubscribed
<1>3. k = Cardinality(H \ G) /\ k \in Nat /\ c \in BOOLEAN /\ r.subs = Cardinality(H)
  BY <1>1 DEF Backed, Job
<1>4. Cardinality(H \ G) = 0 <=> H \ G = {}
  BY <1>1, FS_EmptySet
<1>5. /\ H \ G # {} => r.linked
      /\ r.linked /\ ~r.terminal /\ k = 0 => c
      /\ c => r.cancelReq \/ H \ G = {}
  <2>1. H \ G # {} => r.linked
    BY DEF Backed
  <2>2. r.linked /\ ~r.terminal /\ k = 0 => c
    <3>1. k = 0 => r.subs = 0 \/ r.subs \in 1..n
      BY <1>1, <1>3
    <3> QED BY <3>1 DEF Backed
  <2>3. r.subs \in 1..n => k = 0
    BY <1>1
  <2> QED BY <1>3, <1>4, <2>1, <2>2, <2>3
<1> HIDE DEF k, c
<1>6. /\ q \in Job /\ Same(r, q) /\ q.subs = k /\ q.cancelReq = c
      /\ q.linked = r.linked /\ q.terminal = r.terminal
  BY <1>3 DEF Job, Same, Alike
<1>7. r.cancelReq => c
  BY DEF c
<1> QED BY <1>2, <1>3, <1>5, <1>6, <1>7 DEF Backed

LEMMA Joined ==
  ASSUME NEW r \in Job, NEW H \in SUBSET Referrers, Backed(r, H), r.linked,
         NEW N \in SUBSET Referrers, N \cap H = {}, NEW n, n = Cardinality(N)
  PROVE  /\ [r EXCEPT !.subs = @ + n] \in Job
         /\ Same(r, [r EXCEPT !.subs = @ + n])
         /\ Backed([r EXCEPT !.subs = @ + n], H \cup N)
         /\ [r EXCEPT !.subs = @ + n].cancelReq = r.cancelReq
<1>1. IsFiniteSet(H) /\ Cardinality(H) \in Nat /\ IsFiniteSet(N) /\ n \in Nat
  BY ReferrersFinite
<1>2. Cardinality(H \cup N) = Cardinality(H) + n
  <2>1. H \cap N = {}
    OBVIOUS
  <2> QED BY <1>1, <2>1, FS_Union, FS_EmptySet
<1> DEFINE q == [r EXCEPT !.subs = r.subs + n]
<1>3. r.subs + n \in Nat /\ r.subs = Cardinality(H)
  BY <1>1 DEF Backed
<1>4. /\ q \in Job /\ Same(r, q) /\ q.subs = r.subs + n /\ q.linked = r.linked
      /\ q.terminal = r.terminal /\ q.cancelReq = r.cancelReq
  BY <1>3 DEF Job, Same, Alike
<1>5. q.subs = 0 => r.subs = 0
  BY <1>1, <1>3, <1>4
<1>6. Backed(q, H \cup N)
  BY <1>2, <1>3, <1>4, <1>5 DEF Backed
<1> QED BY <1>4, <1>6

(* One subscription changes its kind.                                      *)
LEMMA Exchanged ==
  ASSUME NEW r, NEW H \in SUBSET Referrers, Backed(r, H), NEW x \in H, NEW y,
         y \notin H
  PROVE  Backed(r, (H \ {x}) \cup {y})
<1>1. IsFiniteSet(H) /\ Cardinality(H) \in Nat
  BY ReferrersFinite
<1>2. IsFiniteSet(H \ {x}) /\ Cardinality(H \ {x}) = Cardinality(H) - 1
  BY <1>1, FS_RemoveElement
<1> DEFINE K == H \ {x}
<1>3. y \notin K /\ Cardinality(K) = Cardinality(H) - 1 /\ IsFiniteSet(K)
  BY <1>2
<1> HIDE DEF K
<1>4. Cardinality(K \cup {y}) = Cardinality(K) + 1
  BY <1>3, FS_AddElement
<1>5. Cardinality(K \cup {y}) = Cardinality(H) /\ K \cup {y} # {} /\ H # {}
  BY <1>1, <1>3, <1>4
<1> QED BY <1>5 DEF Backed, K

(* A one-to-one correspondence keeps the number.                           *)
LEMMA Paired ==
  ASSUME NEW S, IsFiniteSet(S), NEW T, NEW f \in [S -> T],
         \A a, b \in S : f[a] = f[b] => a = b, \A t \in T : \E s \in S : f[s] = t
  PROVE  Cardinality(T) = Cardinality(S)
<1>1. f \in Bijection(S, T)
  BY DEF Bijection, Injection, Surjection, IsInjective
<1> QED BY <1>1, FS_Bijection DEF ExistsBijection

(* The same number of sessions, or of owners, and of references.           *)
LEMMA Tagged ==
  ASSUME NEW S \in SUBSET Sessions, NEW t \in Tags
  PROVE  Cardinality({r \in Sessions \X Tags : r[1] \in S /\ r[2] = t}) = Cardinality(S)
<1> DEFINE T == {r \in Sessions \X Tags : r[1] \in S /\ r[2] = t}
           f == [s \in S |-> <<s, t>>]
<1>1. f \in [S -> T]
  OBVIOUS
<1>2. \A a, b \in S : f[a] = f[b] => a = b
  OBVIOUS
<1>3. \A r \in T : \E s \in S : f[s] = r
  OBVIOUS
<1>4. IsFiniteSet(S)
  BY Counting
<1> HIDE DEF f, T
<1>5. Cardinality(T) = Cardinality(S)
  BY <1>1, <1>2, <1>3, <1>4, Paired
<1> QED BY <1>5 DEF T

LEMMA Watching ==
  ASSUME NEW O \in SUBSET (Sessions \X Jobs), NEW j \in Jobs
  PROVE  Cardinality({r \in Sessions \X Tags : <<r[1], j>> \in O /\ r[2] = "watch"})
           = Cardinality({o \in O : o[2] = j})
<1> DEFINE T == {r \in Sessions \X Tags : <<r[1], j>> \in O /\ r[2] = "watch"}
           W == {o \in O : o[2] = j}
           f == [o \in W |-> <<o[1], "watch">>]
<1>1. \A o \in W : o = <<o[1], j>> /\ o[1] \in Sessions
  OBVIOUS
<1>2. f \in [W -> T]
  BY <1>1 DEF Tags
<1>3. \A a, b \in W : f[a] = f[b] => a = b
  BY <1>1
<1>4. \A r \in T : \E o \in W : f[o] = r
  <2> SUFFICES ASSUME NEW r \in T PROVE \E o \in W : f[o] = r
    OBVIOUS
  <2>1. <<r[1], j>> \in W /\ r = <<r[1], "watch">>
    OBVIOUS
  <2> QED BY <2>1
<1>5. IsFiniteSet(W)
  <2>1. IsFiniteSet(Sessions \X Jobs)
    BY Counting, FS_Product
  <2> QED BY <2>1, FS_Subset
<1> HIDE DEF f, T, W
<1>6. Cardinality(T) = Cardinality(W)
  BY <1>2, <1>3, <1>4, <1>5, Paired
<1> QED BY <1>6 DEF T, W

(* Reaping takes jobs without references.                                  *)
LEMMA ReapedBacked ==
  ASSUME NEW js \in JobMap, NEW j \in Jobs, NEW H \in SUBSET Referrers, Backed(js[j], H)
  PROVE  /\ Backed(Reaped(js)[j], H)
         /\ Reaped(js)[j].cancelReq => js[j].cancelReq
         /\ H # {} \/ js[j].waiter => Reaped(js)[j] = js[j]
         /\ Reaped(js)[j].waiter = js[j].waiter
<1>1. Reaped(js)[j] = js[j] \/ (Reaped(js)[j] = NoJob /\ js[j].subs = 0 /\ ~js[j].waiter)
  BY DEF Reaped
<1>2. CASE Reaped(js)[j] = js[j]
  BY <1>2
<1>3. CASE Reaped(js)[j] = NoJob /\ js[j].subs = 0 /\ ~js[j].waiter
  <2>1. H = {} /\ Cardinality(H) = 0
    BY <1>3, ReferrersFinite, FS_EmptySet DEF Backed
  <2>2. NoJob.subs = 0 /\ ~NoJob.linked /\ ~NoJob.cancelReq /\ NoJob.waiter = FALSE
    BY DEF NoJob
  <2>3. js[j].waiter = FALSE
    BY <1>3 DEF JobMap, Job
  <2> QED BY <1>3, <2>1, <2>2, <2>3 DEF Backed
<1> QED BY <1>1, <1>2, <1>3

LEMMA CancelledBacked ==
  ASSUME NEW js \in JobMap, NEW j \in Jobs, NEW H, Backed(js[j], H)
  PROVE  /\ Backed(AllCancelled(js)[j], H)
         /\ Same(js[j], AllCancelled(js)[j])
<1>1. js[j] \in Job
  BY DEF JobMap
<1> DEFINE q == [js[j] EXCEPT !.cancelReq = TRUE]
<1>2. /\ q.subs = js[j].subs /\ q.linked = js[j].linked /\ q.cancelReq = TRUE
      /\ Same(js[j], q)
  BY <1>1 DEF Job, Same, Alike
<1>3. AllCancelled(js)[j] \in {js[j], q}
  BY DEF AllCancelled
<1> HIDE DEF q
<1> QED BY <1>2, <1>3 DEF Backed, Same, Alike

-----------------------------------------------------------------------------
(* Watches and the owners of the watcher's jobs.                           *)

(* Setting or clearing a watch.                                            *)
LEMMA WatchStill ==
  ASSUME NEW old \in [Sessions -> Session], NEW S, NEW b \in BOOLEAN,
         NEW ss, ss = [s \in Sessions |-> IF s \in S THEN [old[s] EXCEPT !.watch = b]
                                          ELSE old[s]]
  PROVE  /\ ss \in [Sessions -> Session]
         /\ \A s \in Sessions : /\ Still(old[s], ss[s])
                                /\ s \in S => ss[s].watch = b
                                /\ s \notin S => ss[s].watch = old[s].watch
<1>1. \A r \in Session : /\ [r EXCEPT !.watch = b] \in Session
                         /\ [r EXCEPT !.watch = b].watch = b
                         /\ Still(r, [r EXCEPT !.watch = b])
  BY DEF Session, Still
<1>2. \A s \in Sessions : old[s] \in Session /\ Still(old[s], old[s])
  BY DEF Still
<1> QED BY <1>1, <1>2

LEMMA UnwatchedKempt ==
  ASSUME NEW st \in SharedState, NEW B, NEW L, Kempt(st, B, L),
         NEW S \in SUBSET Sessions, NEW u, u = Unwatched(st, S)
  PROVE  /\ u \in SharedState
         /\ Kempt(u, B, L)
         /\ \A j \in Jobs : Same(st.job[j], u.job[j])
         /\ Spared(st.job, u.job, HeldBy(u, B, L))
         /\ u.owners = {o \in st.owners : o[1] \notin S}
         /\ \A s \in Sessions : /\ Still(st.session[s], u.session[s])
                                /\ u.session[s].watch <=> st.session[s].watch /\ s \notin S
<1> DEFINE W == {s \in S : st.session[s].watch}
           gone == {o \in st.owners : o[1] \in W}
           n(j) == Cardinality({o \in gone : o[2] = j})
           d == [st EXCEPT !.owners = @ \ gone,
                           !.job = [j \in Jobs |-> IF n(j) = 0 THEN st.job[j]
                                                   ELSE Unsubscribed(st.job[j], n(j))]]
           ss == [s \in Sessions |->
                    IF s \in S THEN [st.session[s] EXCEPT !.watch = FALSE]
                    ELSE st.session[s]]
<1>1. /\ st.session \in [Sessions -> Session] /\ st.job \in JobMap
      /\ st.owners \subseteq Sessions \X Jobs
  BY DEF SharedState
<1>2. u \in SharedState
  BY UnwatchedKeeps
<1>3. u = [d EXCEPT !.session = ss]
  BY DEF Unwatched, Disowned
<1>4. gone = {o \in st.owners : o[1] \in S}
  <2>1. \A o \in st.owners : o[1] \in Sessions /\ st.session[o[1]].watch
    <3> SUFFICES ASSUME NEW o \in st.owners
                 PROVE  o[1] \in Sessions /\ st.session[o[1]].watch
      OBVIOUS
    <3>1. o[1] \in Sessions /\ o[2] \in Jobs /\ o = <<o[1], o[2]>>
      BY <1>1
    <3> QED BY <3>1 DEF Kempt, Rightful
  <2> QED BY <2>1
<1> DEFINE js == [j \in Jobs |-> IF n(j) = 0 THEN st.job[j]
                                 ELSE Unsubscribed(st.job[j], n(j))]
<1>5. u.session = ss /\ u.owners = st.owners \ gone /\ u.job = js
  BY <1>3 DEF SharedState
<1>6. \A s \in Sessions : /\ Still(st.session[s], ss[s])
                          /\ ss[s].watch <=> st.session[s].watch /\ s \notin S
  <2>1. \A s \in Sessions : st.session[s].watch \in BOOLEAN
    BY <1>1 DEF Session
  <2> HIDE DEF ss
  <2>2. \A s \in Sessions : /\ Still(st.session[s], ss[s])
                            /\ s \in S => ss[s].watch = FALSE
                            /\ s \notin S => ss[s].watch = st.session[s].watch
    BY <1>1, WatchStill DEF ss
  <2> SUFFICES ASSUME NEW s \in Sessions
               PROVE  /\ Still(st.session[s], ss[s])
                      /\ ss[s].watch <=> st.session[s].watch /\ s \notin S
    OBVIOUS
  <2>3. CASE s \in S
    BY <2>2, <2>3
  <2>4. CASE s \notin S
    BY <2>2, <2>4
  <2> QED BY <2>3, <2>4
<1>7. u.owners = {o \in st.owners : o[1] \notin S}
  BY <1>4, <1>5
<1> HIDE DEF W, gone, d, ss
<1>8. ASSUME NEW j \in Jobs
      PROVE  /\ Backed(u.job[j], Held(B, L, u.session, u.owners, j))
             /\ Same(st.job[j], u.job[j])
             /\ u.job[j].cancelReq => \/ st.job[j].cancelReq
                                      \/ Held(B, L, u.session, u.owners, j) = {}
  <2> DEFINE H == Held(B, L, st.session, st.owners, j)
             G == {r \in Sessions \X Tags : <<r[1], j>> \in gone /\ r[2] = "watch"}
             r0 == st.job[j]
             m == n(j)
  <2>1. H \in SUBSET Referrers /\ Backed(r0, H) /\ r0 \in Job
    BY <1>1, HeldType DEF Kempt, Counted, JobMap
  <2>2. gone \in SUBSET (Sessions \X Jobs) /\ gone \subseteq st.owners
    BY <1>1, <1>4
  <2>3. G \in SUBSET H
    BY <2>2 DEF Held
  <2>4. m = Cardinality(G)
    BY <2>2, Watching
  <2>5. Held(B, L, u.session, u.owners, j) = H \ G
    <3>1. \A s \in Sessions : /\ u.session[s].active = st.session[s].active
                              /\ u.session[s].auto = st.session[s].auto
      BY <1>5, <1>6 DEF Still
    <3>2. u.owners = st.owners \ gone
      BY <1>5
    <3> QED BY <3>1, <3>2 DEF Held
  <2>6. CASE m = 0
    <3>1. G = {}
      BY <2>1, <2>3, <2>4, <2>6, ReferrersFinite, FS_EmptySet
    <3>2. u.job[j] = r0
      BY <1>5, <2>6
    <3> QED BY <2>1, <2>5, <3>1, <3>2 DEF Same, Alike
  <2>7. CASE m # 0
    <3>1. u.job[j] = Unsubscribed(r0, m)
      BY <1>5, <2>7
    <3> HIDE DEF H, G, m, r0
    <3>2. /\ Same(r0, Unsubscribed(r0, m))
          /\ Backed(Unsubscribed(r0, m), H \ G)
          /\ Unsubscribed(r0, m).cancelReq => r0.cancelReq \/ H \ G = {}
      BY <2>1, <2>3, <2>4, Dropped
    <3> QED BY <2>5, <3>1, <3>2 DEF r0
  <2> QED BY <2>6, <2>7
<1> HIDE DEF js
<1>9. Rightful(u)
  BY <1>5, <1>6, <1>7, <1>8 DEF Kempt, Rightful, Same, Alike
<1>10. Active(u.job) = Active(st.job)
  BY <1>8 DEF Active, Same, Alike
<1>11. \A p : Watchers(u.session, p) = Watchers(st.session, p) \ S
  BY <1>5, <1>6 DEF Watchers
<1>12. OneNewcomer(u)
  <2> SUFFICES ASSUME NEW j \in Active(u.job), u.job[j].waiter,
                      NEW s \in Watchers(u.session, u.job[j].project),
                      NEW t \in Watchers(u.session, u.job[j].project)
               PROVE  s = t \/ <<s, j>> \in u.owners \/ <<t, j>> \in u.owners
    BY DEF OneNewcomer
  <2>1. j \in Active(st.job) /\ st.job[j].waiter /\ u.job[j].project = st.job[j].project
    BY <1>8, <1>10 DEF Same, Alike, Active
  <2>2. /\ s \in Watchers(st.session, st.job[j].project) /\ s \notin S
        /\ t \in Watchers(st.session, st.job[j].project) /\ t \notin S
    BY <1>11, <2>1
  <2>3. s = t \/ <<s, j>> \in st.owners \/ <<t, j>> \in st.owners
    BY <2>1, <2>2 DEF Kempt, OneNewcomer
  <2> QED BY <1>7, <2>2, <2>3
<1>13. AutoAtHome(u)
  <2>1. \A s \in Sessions : u.session[s].auto = st.session[s].auto
    BY <1>5, <1>6 DEF Still
  <2>2. \A s \in Sessions : st.session[s].auto \in Jobs \cup {Nothing}
    BY <1>1 DEF Session
  <2> QED
    BY <1>8, <2>1, <2>2 DEF Kempt, AutoAtHome, Same, Alike
<1>14. Counted(u, B, L) /\ Spared(st.job, u.job, HeldBy(u, B, L))
  BY <1>8 DEF Counted, Spared, HeldBy
<1> QED
  BY <1>2, <1>5, <1>6, <1>7, <1>8, <1>9, <1>12, <1>13, <1>14 DEF Kempt

(* A refresh by one session, or by sessions of a project without a job.    *)
LEMMA RefreshedKempt ==
  ASSUME NEW st \in SharedState, NEW B, NEW L, Kempt(st, B, L),
         NEW p \in Projects, NEW S \in SUBSET Sessions,
         \A s \in S : Home[s] = p,
         ActiveOf(st.job, p) = {} \/ \A s, t \in S : s = t,
         \A i, j \in Active(st.job) : st.job[i].project = st.job[j].project => i = j,
         \A j \in Active(st.job) : st.job[j].linked,
         NEW u, u = Refreshed(st, S, p)
  PROVE  /\ u \in SharedState
         /\ Kempt(u, B, L)
         /\ \A j \in Jobs : Same(st.job[j], u.job[j])
         /\ Spared(st.job, u.job, HeldBy(u, B, L))
         /\ \A s \in Sessions :
              /\ Still(st.session[s], u.session[s])
              /\ u.session[s].watch /\ ~st.session[s].watch =>
                   /\ s \in S /\ Welcome(st.session[s], s)
                   /\ Watchers(st.session, p) # {} =>
                        \A j \in ActiveOf(st.job, p) :
                          st.job[j].waiter => <<s, j>> \in u.owners
<1> DEFINE able == {s \in S : /\ st.session[s].auto = Nothing
                              /\ ~stopping /\ ~RequestCancelled(s)}
           new  == {s \in able : ~st.session[s].watch}
           late == {j \in ActiveOf(st.job, p) : st.job[j].waiter}
           base == IF Watchers(st.session, p) # {} /\ late # {}
                   THEN Owned(st, new, CHOOSE j \in late : TRUE) ELSE st
           ss == [s \in Sessions |->
                    IF s \in new THEN [st.session[s] EXCEPT !.watch = TRUE]
                    ELSE st.session[s]]
           full == [base EXCEPT !.session = ss]
           gone == Unwatched(st, Watchers(st.session, p))
           Goal(v) ==
             /\ Kempt(v, B, L)
             /\ \A j \in Jobs : Same(st.job[j], v.job[j])
             /\ Spared(st.job, v.job, HeldBy(v, B, L))
             /\ \A s \in Sessions :
                  /\ Still(st.session[s], v.session[s])
                  /\ v.session[s].watch /\ ~st.session[s].watch =>
                       /\ s \in S /\ Welcome(st.session[s], s)
                       /\ Watchers(st.session, p) # {} =>
                            \A j \in ActiveOf(st.job, p) :
                              st.job[j].waiter => <<s, j>> \in v.owners
<1>1. u \in SharedState
  BY RefreshedKeeps
<1>2. u \in {st, gone, full}
  BY DEF Refreshed
<1>3. /\ st.session \in [Sessions -> Session] /\ st.job \in JobMap
      /\ st.owners \subseteq Sessions \X Jobs
      /\ \A j \in Jobs : st.job[j] \in Job
  BY DEF SharedState, JobMap
<1>4. Goal(st)
  BY DEF Same, Alike, Still, Spared
<1>5. Goal(gone)
  <2>1. Watchers(st.session, p) \in SUBSET Sessions
    BY DEF Watchers
  <2> HIDE DEF gone
  <2>2. /\ Kempt(gone, B, L)
        /\ \A j \in Jobs : Same(st.job[j], gone.job[j])
        /\ Spared(st.job, gone.job, HeldBy(gone, B, L))
        /\ \A s \in Sessions :
             /\ Still(st.session[s], gone.session[s])
             /\ gone.session[s].watch <=> st.session[s].watch /\ s \notin Watchers(st.session, p)
    BY <2>1, UnwatchedKempt DEF gone
  <2> QED BY <2>2
<1>6. \A s \in new : s \in S /\ s \in Sessions /\ ~st.session[s].watch
                     /\ Welcome(st.session[s], s) /\ Home[s] = p
  BY DEF Welcome
<1>7. \A s \in Sessions \ new : st.session[s].watch => st.session[s].watch
  OBVIOUS
<1>8. \A s \in Sessions : /\ Still(st.session[s], ss[s])
                          /\ s \in new => ss[s].watch = TRUE
                          /\ s \notin new => ss[s].watch = st.session[s].watch
  <2> HIDE DEF new
  <2>1. \A r \in Session : Still(r, [r EXCEPT !.watch = TRUE])
                           /\ [r EXCEPT !.watch = TRUE].watch = TRUE
    BY DEF Session, Still
  <2>2. \A s \in Sessions : st.session[s] \in Session /\ Still(st.session[s], st.session[s])
    BY <1>3 DEF Still
  <2> QED BY <2>1, <2>2
<1>9. \A q : q # p => Watchers(ss, q) = Watchers(st.session, q)
  <2> HIDE DEF ss, new
  <2> QED BY <1>6, <1>8 DEF Watchers
<1>10. Watchers(ss, p) = Watchers(st.session, p) \cup new
  <2> HIDE DEF ss, new
  <2> QED BY <1>6, <1>8 DEF Watchers
<1>11. \A j \in ActiveOf(st.job, p) : j \in Active(st.job) /\ j \in Jobs /\ st.job[j].project = p
  BY DEF ActiveOf, Active
(* The sessions join the watcher's job.                                    *)
<1>12. ASSUME Watchers(st.session, p) # {}, late # {}
       PROVE  Goal(full)
  <2> DEFINE i == CHOOSE j \in late : TRUE
             n == Cardinality(new)
             js == [st.job EXCEPT ![i].subs = @ + n]
             os == st.owners \cup {<<s, i>> : s \in new}
  <2>1. i \in late /\ i \in Jobs /\ late = {i}
    <3>1. i \in late
      BY <1>12
    <3>2. \A j, k \in late : j = k
      BY <1>11
    <3> QED BY <1>11, <3>1, <3>2
  <2>2. i \in Active(st.job) /\ st.job[i].project = p /\ st.job[i].linked /\ st.job[i].waiter
    BY <1>11, <2>1
  <2> HIDE DEF i
  <2>3. {s \in new : <<s, i>> \notin st.owners} = new
    BY <1>6, <2>1 DEF Kempt, Rightful
  <2>4. base = [st EXCEPT !.owners = os, !.job = js]
    <3>1. base = Owned(st, new, i)
      BY <1>12 DEF i
    <3> QED BY <2>3, <3>1 DEF Owned
  <2>5. full.session = ss /\ full.owners = os /\ full.job = js
    BY <2>4 DEF SharedState
  <2> HIDE DEF late, base, full, ss
  <2>6. new \in SUBSET Sessions
    BY <1>6
  <2> HIDE DEF new, able
  <2>7. ASSUME NEW j \in Jobs
        PROVE  /\ Backed(js[j], Held(B, L, ss, os, j))
               /\ Same(st.job[j], js[j])
               /\ js[j].cancelReq = st.job[j].cancelReq
    <3> DEFINE H == Held(B, L, st.session, st.owners, j)
               N == {r \in Sessions \X Tags : r[1] \in new /\ r[2] = "watch"}
               r0 == st.job[j]
    <3>1. H \in SUBSET Referrers /\ Backed(r0, H) /\ r0 \in Job
      BY <1>3, HeldType DEF Kempt, Counted
    <3>2. CASE j # i
      <4>1. Held(B, L, ss, os, j) = H
        BY <1>8, <3>2 DEF Held, Still
      <4>2. js[j] = r0
        BY <3>2
      <4> QED BY <3>1, <4>1, <4>2 DEF Same, Alike
    <3>3. CASE j = i
      <4>1. n = Cardinality(N)
        BY <2>6, Tagged DEF Tags
      <4>2. N \in SUBSET Referrers /\ N \cap H = {}
        <5>1. \A s \in new : <<s, i>> \notin st.owners
          BY <2>3
        <5> QED BY <3>3, <5>1 DEF Held, Referrers, Actors
      <4>3. Held(B, L, ss, os, j) = H \cup N
        BY <1>8, <2>6, <3>3 DEF Held, Still
      <4>4. js[j] = [r0 EXCEPT !.subs = @ + n]
        BY <1>3, <2>1, <3>3 DEF JobMap
      <4>5. r0.linked
        BY <2>2, <3>3
      <4> HIDE DEF H, N, r0, n, js
      <4>6. /\ Same(r0, [r0 EXCEPT !.subs = @ + n])
            /\ Backed([r0 EXCEPT !.subs = @ + n], H \cup N)
            /\ [r0 EXCEPT !.subs = @ + n].cancelReq = r0.cancelReq
        BY <3>1, <4>1, <4>2, <4>5, Joined
      <4> QED BY <4>3, <4>4, <4>6 DEF r0
    <3> QED BY <3>2, <3>3
  <2> HIDE DEF js, n
  <2>8. Active(js) = Active(st.job)
    BY <2>7 DEF Active, Same, Alike
  <2>9. Rightful(full)
    <3> SUFFICES ASSUME NEW s \in Sessions, NEW j \in Jobs, <<s, j>> \in os
                 PROVE  ss[s].watch /\ js[j].project = Home[s]
      BY <2>5 DEF Rightful
    <3>1. CASE <<s, j>> \in st.owners
      <4>1. st.session[s].watch /\ st.job[j].project = Home[s]
        BY <3>1 DEF Kempt, Rightful
      <4> QED BY <1>6, <1>8, <2>7, <4>1 DEF Same, Alike
    <3>2. CASE s \in new /\ j = i
      BY <1>6, <1>8, <2>2, <2>7, <3>2 DEF Same, Alike
    <3> QED BY <3>1, <3>2
  <2>10. OneNewcomer(full)
    <3> SUFFICES ASSUME NEW j \in Active(js), js[j].waiter,
                        NEW s \in Watchers(ss, js[j].project),
                        NEW t \in Watchers(ss, js[j].project)
                 PROVE  s = t \/ <<s, j>> \in os \/ <<t, j>> \in os
      BY <2>5 DEF OneNewcomer
    <3>1. /\ j \in Jobs /\ j \in Active(st.job) /\ st.job[j].waiter
          /\ js[j].project = st.job[j].project
      BY <2>7, <2>8 DEF Same, Alike, Active
    <3>2. CASE st.job[j].project # p
      <4>1. /\ s \in Watchers(st.session, st.job[j].project)
            /\ t \in Watchers(st.session, st.job[j].project)
        BY <1>9, <3>1, <3>2
      <4>2. s = t \/ <<s, j>> \in st.owners \/ <<t, j>> \in st.owners
        BY <3>1, <4>1 DEF Kempt, OneNewcomer
      <4> QED BY <4>2
    <3>3. CASE st.job[j].project = p
      <4>1. j = i
        BY <2>2, <3>1, <3>3
      <4>2. CASE s \in new \/ t \in new
        BY <4>1, <4>2
      <4>3. CASE s \notin new /\ t \notin new
        <5>1. s \in Watchers(st.session, p) /\ t \in Watchers(st.session, p)
          BY <1>10, <3>1, <3>3, <4>3
        <5>2. s = t \/ <<s, j>> \in st.owners \/ <<t, j>> \in st.owners
          BY <3>1, <3>3, <5>1 DEF Kempt, OneNewcomer
        <5> QED BY <5>2
      <4> QED BY <4>2, <4>3
    <3> QED BY <3>2, <3>3
  <2>11. AutoAtHome(full)
    <3>1. \A s \in Sessions : /\ ss[s].auto = st.session[s].auto
                              /\ st.session[s].auto \in Jobs \cup {Nothing}
      BY <1>3, <1>8 DEF Still, Session
    <3>2. \A j \in Jobs : js[j].project = st.job[j].project
      BY <2>7 DEF Same, Alike
    <3>3. \A s \in Sessions : st.session[s].auto # Nothing =>
            st.job[st.session[s].auto].project = Home[s]
      BY DEF Kempt, AutoAtHome
    <3>4. \A s \in Sessions : ss[s].auto # Nothing => js[ss[s].auto].project = Home[s]
      BY <3>1, <3>2, <3>3
    <3> QED BY <2>5, <3>4 DEF AutoAtHome
  <2>12. Counted(full, B, L)
    BY <2>5, <2>7 DEF Counted
  <2>15. Spared(st.job, full.job, HeldBy(full, B, L))
    BY <2>5, <2>7 DEF Spared
  <2>13. \A s \in new : \A j \in ActiveOf(st.job, p) : st.job[j].waiter => <<s, j>> \in os
    BY <2>1 DEF late
  <2>14. \A s \in Sessions : ss[s].watch /\ ~st.session[s].watch => s \in new
    BY <1>8
  <2>16. \A j \in Jobs : Same(st.job[j], full.job[j])
    BY <2>5, <2>7
  <2>17. Kempt(full, B, L)
    BY <2>9, <2>10, <2>11, <2>12 DEF Kempt
  <2>18. ASSUME NEW s \in Sessions
         PROVE  /\ Still(st.session[s], full.session[s])
                /\ full.session[s].watch /\ ~st.session[s].watch =>
                     /\ s \in S /\ Welcome(st.session[s], s)
                     /\ Watchers(st.session, p) # {} =>
                          \A j \in ActiveOf(st.job, p) :
                            st.job[j].waiter => <<s, j>> \in full.owners
    BY <1>6, <1>8, <2>5, <2>13, <2>14
  <2> HIDE DEF full
  <2> QED BY <2>15, <2>16, <2>17, <2>18
(* They set the watch up, or nothing is to be joined.                      *)
<1>13. ASSUME ~(Watchers(st.session, p) # {} /\ late # {})
       PROVE  Goal(full)
  <2>1. full.session = ss /\ full.owners = st.owners /\ full.job = st.job
    <3>1. base = st
      BY <1>13
    <3> QED BY <3>1 DEF SharedState
  <2>2. \A j \in ActiveOf(st.job, p) : st.job[j].waiter => Watchers(st.session, p) = {}
    BY <1>13
  <2> HIDE DEF base, full, ss, late, new, able
  <2>3. Counted(full, B, L)
    <3>1. \A j \in Jobs : Held(B, L, ss, st.owners, j) = Held(B, L, st.session, st.owners, j)
      BY <1>8 DEF Held, Still
    <3> QED BY <2>1, <3>1 DEF Kempt, Counted
  <2>4. Rightful(full)
    BY <1>6, <1>8, <2>1 DEF Kempt, Rightful
  <2>5. OneNewcomer(full)
    <3> SUFFICES ASSUME NEW j \in Active(st.job), st.job[j].waiter,
                        NEW s \in Watchers(ss, st.job[j].project),
                        NEW t \in Watchers(ss, st.job[j].project)
                 PROVE  s = t \/ <<s, j>> \in st.owners \/ <<t, j>> \in st.owners
      BY <2>1 DEF OneNewcomer
    <3>1. CASE st.job[j].project # p
      BY <1>9, <3>1 DEF Kempt, OneNewcomer
    <3>2. CASE st.job[j].project = p
      <4>1. j \in ActiveOf(st.job, p)
        BY <3>2 DEF ActiveOf
      <4>2. Watchers(st.session, p) = {}
        BY <2>2, <4>1
      <4>3. s \in new /\ t \in new
        BY <1>10, <3>2, <4>2
      <4> QED BY <1>6, <4>1, <4>3
    <3> QED BY <3>1, <3>2
  <2>6. AutoAtHome(full)
    BY <1>8, <2>1 DEF Kempt, AutoAtHome, Still
  <2>7. \A j \in Jobs : Same(st.job[j], full.job[j])
    BY <2>1 DEF Same, Alike
  <2>8. Spared(st.job, full.job, HeldBy(full, B, L))
    BY <2>1 DEF Spared
  <2>9. \A s \in Sessions : ss[s].watch /\ ~st.session[s].watch => s \in new
    BY <1>8
  <2>10. Kempt(full, B, L)
    BY <2>3, <2>4, <2>5, <2>6 DEF Kempt
  <2>11. ASSUME NEW s \in Sessions
         PROVE  /\ Still(st.session[s], full.session[s])
                /\ full.session[s].watch /\ ~st.session[s].watch =>
                     /\ s \in S /\ Welcome(st.session[s], s)
                     /\ Watchers(st.session, p) # {} =>
                          \A j \in ActiveOf(st.job, p) :
                            st.job[j].waiter => <<s, j>> \in full.owners
    BY <1>6, <1>8, <2>1, <2>2, <2>9
  <2> HIDE DEF full
  <2> QED BY <2>7, <2>8, <2>10, <2>11
<1> HIDE DEF Goal, full, gone
<1>14. Goal(u)
  BY <1>2, <1>4, <1>5, <1>12, <1>13

<1> QED BY <1>1, <1>14 DEF Goal

-----------------------------------------------------------------------------
(* The registers of the daemon's state.                                    *)

(* A quiet step keeps the registers.                                       *)
LEMMA QuietStep ==
  ASSUME TypeOK, Registers, Quiet
  PROVE  Registers' /\ Spares /\ Takes
<1>1. Binding' = Binding
  BY DEF Quiet, Binding
<1>2. Joining' = Joining
  BY DEF Quiet, Joining
<1>3. \A j \in Jobs : Held(Binding', Joining', session', owners', j)
                        = Held(Binding, Joining, session, owners, j)
  BY <1>1, <1>2 DEF Quiet, SameHold, Held
<1>4. \A p : Watchers(session', p) = Watchers(session, p)
  BY DEF Watchers, Quiet, SameHold
<1>5. Active(job') = Active(job)
  BY DEF Active, Quiet, SameCount
<1>6. /\ Shared.session = session /\ Shared.job = job /\ Shared.owners = owners
      /\ Shared'.session = session' /\ Shared'.job = job' /\ Shared'.owners = owners'
  BY DEF Shared
<1>7. Counted(Shared', Binding', Joining')
  BY <1>3, <1>6 DEF Registers, Kempt, Counted, Backed, Quiet, SameCount
<1>8. Rightful(Shared')
  BY <1>6 DEF Registers, Kempt, Rightful, Quiet, SameHold, SameCount
<1>9. OneNewcomer(Shared')
  <2>1. \A j \in Active(job) : job'[j].waiter = job[j].waiter /\ job'[j].project = job[j].project
    BY DEF Active, Quiet, SameCount
  <2> QED
    BY <1>4, <1>5, <1>6, <2>1 DEF Registers, Kempt, OneNewcomer, Quiet
<1>10. AutoAtHome(Shared')
  <2>1. \A s \in Sessions : session[s].auto \in Jobs \cup {Nothing}
    BY DEF TypeOK, Session
  <2>2. \A s \in Sessions : session'[s].auto = session[s].auto
    BY DEF Quiet, SameHold
  <2>3. \A j \in Jobs : job'[j].project = job[j].project
    BY DEF Quiet, SameCount
  <2>4. \A s \in Sessions : session[s].auto # Nothing => job[session[s].auto].project = Home[s]
    BY <1>6 DEF Registers, Kempt, AutoAtHome
  <2>5. \A s \in Sessions : session'[s].auto # Nothing => job'[session'[s].auto].project = Home[s]
    BY <2>1, <2>2, <2>3, <2>4
  <2> QED BY <1>6, <2>5 DEF AutoAtHome
<1>11. Registers'
  BY <1>7, <1>8, <1>9, <1>10 DEF Registers, Kempt
<1>12. Spares
  BY DEF Spares, Quiet, SameCount
<1>13. Takes
  BY DEF Takes, Quiet, SameHold
<1> QED BY <1>11, <1>12, <1>13

(* The thread of an actor moves on, holding no job.                        *)
LEMMA ActorQuiet ==
  ASSUME TypeOK, RegInv, NEW a \in Actors, NEW to, to \notin {"bind", "wait"},
         pc[a] \notin {"bind", "wait"}, a \in Sessions => Linked(a),
         pc' = [pc EXCEPT ![a] = to], \A b \in Actors \ {a} : arg'[b] = arg[b],
         \A s \in Sessions : /\ SameHold(session[s], session'[s])
                             /\ session'[s].life = session[s].life
                             /\ session'[s].cancelled = session[s].cancelled,
         job' = job, owners' = owners, leaving' = leaving, unvisited' = unvisited
  PROVE  RegInv' /\ Spares /\ Takes
<1>1. /\ pc'[a] = to /\ \A b \in Actors \ {a} : pc'[b] = pc[b]
      /\ Watcher \in Actors /\ Sessions \subseteq Actors
  BY DEF TypeOK, Actors
<1>2. Quiet
  BY <1>1 DEF Quiet, SameCount, Actors
<1>3. Registers' /\ Spares /\ Takes
  BY <1>2, QuietStep DEF RegInv
<1>4. ASSUME NEW s \in Sessions
      PROVE  PostedAt(s)'
  <2>1. PostedAt(s)
    BY DEF RegInv, Posted
  <2>2. CASE s # a
    <3>1. pc'[s] = pc[s] /\ arg'[s] = arg[s]
      BY <1>1, <2>2
    <3> QED
      BY <2>1, <3>1 DEF PostedAt, Clear, Linked, SameHold
  <2>3. CASE s = a
    BY <1>1, <2>1, <2>3 DEF PostedAt, Clear, Linked, SameHold
  <2> QED BY <2>2, <2>3
<1>5. Awaited'
  <2>1. Awaited
    BY DEF RegInv
  <2>2. CASE a = Watcher
    BY <1>1, <2>1, <2>2 DEF Awaited
  <2>3. CASE a # Watcher
    <3>1. pc'[Watcher] = pc[Watcher] /\ arg'[Watcher] = arg[Watcher]
      BY <1>1, <2>3
    <3> QED BY <2>1, <3>1 DEF Awaited
  <2> QED BY <2>2, <2>3
<1> QED BY <1>3, <1>4, <1>5 DEF RegInv, Posted

(* The thread of a job moves on.                                           *)
LEMMA ThreadQuiet ==
  ASSUME TypeOK, RegInv, \A j \in Jobs : SameCount(job[j], job'[j]), session' = session,
         owners' = owners, pc' = pc, arg' = arg, leaving' = leaving,
         unvisited' = unvisited
  PROVE  RegInv' /\ Spares /\ Takes
<1>1. Quiet
  BY DEF Quiet, SameHold
<1>2. Registers' /\ Spares /\ Takes
  BY <1>1, QuietStep DEF RegInv
<1>3. Posted'
  BY DEF RegInv, Posted, PostedAt, Clear, Linked
<1>4. Awaited'
  BY DEF RegInv, Awaited, SameCount
<1> QED BY <1>2, <1>3, <1>4 DEF RegInv

LEMMA SessionOpenCounts ==
  ASSUME TypeOK, RegInv, NEW s \in Sessions, SessionOpen(s)
  PROVE  RegInv' /\ Spares /\ Takes
<1>1. \A r \in Session : LET q == [r EXCEPT !.life = "open"]
                         IN  SameHold(r, q) /\ q.life = "open" /\ q.cancelled = r.cancelled
  BY DEF Session, SameHold
<1>2. /\ session \in [Sessions -> Session]
      /\ session' = [session EXCEPT ![s] = [session[s] EXCEPT !.life = "open"]]
  BY DEF TypeOK, SessionOpen
<1>3. /\ SameHold(session[s], session'[s]) /\ session'[s].life = "open"
      /\ \A t \in Sessions \ {s} : session'[t] = session[t]
  BY <1>1, <1>2
<1>4. Quiet
  <2>1. \A t \in Sessions : SameHold(session[t], session'[t])
    BY <1>3 DEF SameHold
  <2> QED BY <2>1 DEF Quiet, SessionOpen, SameCount
<1>5. Registers' /\ Spares /\ Takes
  BY <1>4, QuietStep DEF RegInv
<1>6. ASSUME NEW t \in Sessions
      PROVE  PostedAt(t)'
  <2>1. PostedAt(t)
    BY DEF RegInv, Posted
  <2>2. CASE t # s
    BY <1>3, <2>1, <2>2 DEF PostedAt, Clear, Linked, SessionOpen
  <2>3. CASE t = s
    BY <1>3, <2>1, <2>3 DEF PostedAt, Clear, Linked, SessionOpen, SameHold
  <2> QED BY <2>2, <2>3
<1>7. Awaited'
  BY DEF RegInv, Awaited, SessionOpen
<1> QED BY <1>5, <1>6, <1>7 DEF RegInv, Posted

(* A request holds a session.                                              *)
LEMMA Busy ==
  ASSUME RegInv, NEW s \in Sessions, pc[s] # "idle"
  PROVE  Linked(s)
  BY DEF RegInv, Posted, PostedAt

LEMMA RequestAdmitCounts ==
  ASSUME TypeOK, RegInv, NEW s \in Sessions, RequestAdmit(s)
  PROVE  RegInv' /\ Spares /\ Takes
<1>1. \A r \in Session : \A n :
        LET q == [r EXCEPT !.issued = n]
        IN  SameHold(r, q) /\ q.life = r.life /\ q.cancelled = r.cancelled
  BY DEF Session, SameHold
<1>2. /\ session \in [Sessions -> Session] /\ s \in Actors
      /\ session' = [session EXCEPT ![s] = [session[s] EXCEPT !.issued = session[s].issued + 1]]
  BY DEF TypeOK, RequestAdmit, Actors
<1>3. \A t \in Sessions : /\ SameHold(session[t], session'[t])
                          /\ session'[t].life = session[t].life
                          /\ session'[t].cancelled = session[t].cancelled
  BY <1>1, <1>2 DEF SameHold
<1> QED BY <1>2, <1>3, ActorQuiet DEF RequestAdmit

LEMMA RequestEnterCounts ==
  ASSUME TypeOK, RegInv, NEW s \in Sessions, RequestEnter(s)
  PROVE  RegInv' /\ Spares /\ Takes
<1> DEFINE n == session[s].issued
           c == IF session[s].cancelToken = n THEN n ELSE 0
           q == [session[s] EXCEPT !.token = n, !.cancelToken = c]
           z(i) == [session[s] EXCEPT !.token = n, !.cancelToken = c, !.initialize = i]
           e == [session EXCEPT ![s].token = n,
                   ![s].cancelToken = IF @ = n THEN @ ELSE 0]
           Goal == \A t \in Sessions : /\ SameHold(session[t], session'[t])
                                       /\ session'[t].life = session[t].life
                                       /\ session'[t].cancelled = session[t].cancelled
<1>1. /\ SameHold(session[s], q) /\ q.life = session[s].life
      /\ q.cancelled = session[s].cancelled
      /\ \A i : /\ SameHold(session[s], z(i)) /\ z(i).life = session[s].life
                /\ z(i).cancelled = session[s].cancelled
  <2> HIDE DEF n, c
  <2>1. session[s] \in Session
    BY DEF TypeOK
  <2> QED BY <2>1 DEF Session, SameHold
<1>2. session \in [Sessions -> Session] /\ s \in Actors /\ pc[s] = "admitted" /\ Linked(s)
  BY Busy DEF TypeOK, RequestEnter, Actors
<1>3. e = [session EXCEPT ![s] = q]
  BY <1>2
<1>8. \A i : [e EXCEPT ![s].initialize = i] = [session EXCEPT ![s] = z(i)]
  BY <1>2, <1>3
<1>9. \/ session' = session
      \/ session' = e
      \/ \E r \in Requests[s] : session' = [e EXCEPT ![s].initialize = r.kind = "initialize"]
  BY DEF RequestEnter
<1> HIDE DEF e, q, z
<1>4. Goal
  <2>1. CASE session' = session
    BY <2>1 DEF SameHold
  <2>2. CASE session' = [session EXCEPT ![s] = q]
    BY <1>1, <1>2, <2>2 DEF SameHold
  <2>3. ASSUME NEW i, session' = [session EXCEPT ![s] = z(i)]
        PROVE  Goal
    BY <1>1, <1>2, <2>3 DEF SameHold
  <2> QED BY <1>3, <1>8, <1>9, <2>1, <2>2, <2>3
<1>5. \E to \in {"idle", "finish", "refresh", "subscribe", "reserve"} :
        pc' = [pc EXCEPT ![s] = to]
  <2>1. \A r \in Requests[s] : r.kind \in Kinds
    BY ConstantsAssumption
  <2> QED BY <2>1 DEF RequestEnter, Kinds
<1>6. \A b \in Actors \ {s} : arg'[b] = arg[b]
  BY DEF RequestEnter, TypeOK
<1>7. /\ job' = job /\ owners' = owners /\ leaving' = leaving /\ unvisited' = unvisited
  BY DEF RequestEnter
<1> QED BY <1>2, <1>4, <1>5, <1>6, <1>7, ActorQuiet

LEMMA RequestFinishCounts ==
  ASSUME TypeOK, RegInv, NEW s \in Sessions, RequestFinish(s)
  PROVE  RegInv' /\ Spares /\ Takes
<1> DEFINE c == IF session[s].cancelToken = session[s].token THEN 0
                ELSE session[s].cancelToken
           q == [session[s] EXCEPT !.token = 0, !.initialize = FALSE, !.cancelToken = c]
<1>1. /\ session \in [Sessions -> Session] /\ s \in Actors /\ pc[s] = "finish" /\ Linked(s)
      /\ session[s] \in Session
  BY Busy DEF TypeOK, RequestFinish, Actors
<1>2. session' = [session EXCEPT ![s] = q]
  BY <1>1 DEF RequestFinish
<1> HIDE DEF c
<1>3. SameHold(session[s], q) /\ q.life = session[s].life /\ q.cancelled = session[s].cancelled
  BY <1>1 DEF Session, SameHold
<1> HIDE DEF q
<1>4. \A t \in Sessions : /\ SameHold(session[t], session'[t])
                          /\ session'[t].life = session[t].life
                          /\ session'[t].cancelled = session[t].cancelled
  BY <1>1, <1>2, <1>3 DEF SameHold
<1>5. \E to \in {"probe", "idle"} : pc' = [pc EXCEPT ![s] = to]
  BY DEF RequestFinish
<1>6. /\ job' = job /\ owners' = owners /\ leaving' = leaving /\ unvisited' = unvisited
      /\ arg' = arg
  BY DEF RequestFinish
<1> QED BY <1>1, <1>4, <1>5, <1>6, ActorQuiet

LEMMA BackgroundProbeCounts ==
  ASSUME TypeOK, RegInv, NEW s \in Sessions, BackgroundProbe(s)
  PROVE  RegInv' /\ Spares /\ Takes
<1>1. s \in Actors /\ pc[s] = "probe" /\ Linked(s)
  BY Busy DEF BackgroundProbe, Actors
<1>2. \A b \in Actors \ {s} : arg'[b] = arg[b]
  BY DEF BackgroundProbe, TypeOK
<1> QED
  BY <1>1, <1>2, ActorQuiet DEF BackgroundProbe, SameHold

LEMMA MutationReserveCounts ==
  ASSUME TypeOK, RegInv, NEW a \in Actors, NEW k \in Keys, MutationReserve(a, k)
  PROVE  RegInv' /\ Spares /\ Takes
<1>1. pc[a] \in {"reserve", "idle"} /\ (a \in Sessions => pc[a] = "reserve")
  BY ConstantsAssumption DEF MutationReserve
<1>2. a \in Sessions => Linked(a)
  BY <1>1, Busy
<1>3. \A b \in Actors \ {a} : arg'[b] = arg[b]
  BY DEF MutationReserve, TypeOK
<1> QED
  BY <1>1, <1>2, <1>3, ActorQuiet DEF MutationReserve, SameHold

LEMMA MutationRefuseCounts ==
  ASSUME TypeOK, RegInv, NEW s \in Sessions, MutationRefuse(s)
  PROVE  RegInv' /\ Spares /\ Takes
<1>1. s \in Actors /\ pc[s] = "reserve" /\ Linked(s)
  BY Busy DEF MutationRefuse, Actors
<1>2. \A b \in Actors \ {s} : arg'[b] = arg[b]
  BY DEF MutationRefuse, TypeOK
<1> QED
  BY <1>1, <1>2, ActorQuiet DEF MutationRefuse, SameHold

LEMMA MutationCounts ==
  ASSUME TypeOK, RegInv, NEW a \in Actors, MutationStep(a)
  PROVE  RegInv' /\ Spares /\ Takes
<1>1. pc[a] \in {"lease", "held", "release"}
  BY DEF MutationStep, LeaseGranted, LeaseFailed, MutationWork, MutationRelease, MutationEnd
<1>2. a \in Sessions => Linked(a)
  BY <1>1, Busy
<1>3. \A b \in Actors \ {a} : arg'[b] = arg[b]
  BY DEF MutationStep, LeaseGranted, LeaseFailed, MutationWork, MutationRelease,
         MutationEnd, TypeOK
<1>4. \E to \in {"held", "refresh", "idle", "pruned", "release"} : pc' = [pc EXCEPT ![a] = to]
  <2>1. pc = [pc EXCEPT ![a] = pc[a]]
    BY DEF TypeOK
  <2>2. CASE LeaseGranted(a)
    BY <2>2 DEF LeaseGranted
  <2>3. CASE LeaseFailed(a)
    BY <2>3 DEF LeaseFailed, Resume
  <2>4. CASE MutationWork(a)
    BY <2>4 DEF MutationWork
  <2>5. CASE MutationRelease(a)
    BY <2>1, <2>5 DEF MutationRelease
  <2>6. CASE MutationEnd(a)
    BY <2>6 DEF MutationEnd, Resume
  <2> QED BY <2>2, <2>3, <2>4, <2>5, <2>6 DEF MutationStep
<1>5. /\ job' = job /\ owners' = owners /\ leaving' = leaving /\ unvisited' = unvisited
      /\ session' = session
  BY DEF MutationStep, LeaseGranted, LeaseFailed, MutationWork, MutationRelease, MutationEnd
<1> QED
  BY <1>1, <1>2, <1>3, <1>4, <1>5, ActorQuiet DEF SameHold

(* A job's thread moves on and leaves what the references depend on.       *)
LEMMA ThreadSame ==
  ASSUME TypeOK, NEW j \in Jobs,
         JobWait(j) \/ JobStart(j) \/ WorkerEnd(j) \/ JobCollect(j)
  PROVE  \A i \in Jobs : SameCount(job[i], job'[i])
<1>1. job[j] \in Job /\ job \in [Jobs -> Job]
  BY DEF TypeOK
<1>2. \E t, r, n : \/ job' = [job EXCEPT ![j] = [job[j] EXCEPT !.thread = t]]
                   \/ job' = [job EXCEPT ![j] = [job[j] EXCEPT !.thread = t, !.result = r]]
                   \/ job' = [job EXCEPT ![j] = [job[j] EXCEPT !.thread = t, !.attempt = n]]
  BY DEF JobWait, JobStart, WorkerEnd, JobCollect, JobStep
<1>3. PICK t, r, n : \/ job' = [job EXCEPT ![j] = [job[j] EXCEPT !.thread = t]]
                     \/ job' = [job EXCEPT ![j] = [job[j] EXCEPT !.thread = t, !.result = r]]
                     \/ job' = [job EXCEPT ![j] = [job[j] EXCEPT !.thread = t, !.attempt = n]]
  BY <1>2
<1>4. SameCount(job[j], job'[j])
  <2>1. \/ job'[j] = [job[j] EXCEPT !.thread = t]
        \/ job'[j] = [job[j] EXCEPT !.thread = t, !.result = r]
        \/ job'[j] = [job[j] EXCEPT !.thread = t, !.attempt = n]
    BY <1>1, <1>3
  <2> QED BY <1>1, <2>1 DEF Job, SameCount
<1> QED BY <1>1, <1>3, <1>4 DEF SameCount

(* All that the thread of a job does before its publication.               *)
LEMMA ThreadCounts ==
  ASSUME TypeOK, RegInv, NEW j \in Jobs,
         JobWait(j) \/ JobStart(j) \/ WorkerEnd(j) \/ JobCollect(j)
  PROVE  RegInv' /\ Spares /\ Takes
<1>1. /\ session' = session /\ owners' = owners /\ pc' = pc /\ arg' = arg
      /\ leaving' = leaving /\ unvisited' = unvisited
  BY DEF JobWait, JobStart, WorkerEnd, JobCollect, JobStep
<1> QED BY <1>1, ThreadSame, ThreadQuiet

-----------------------------------------------------------------------------
(* Steps that move references.                                             *)

(* With the watches and their owners as they were, the counters decide.    *)
LEMMA LedgerStep ==
  ASSUME NEW st \in SharedState, NEW B, NEW L, Kempt(st, B, L),
         NEW u \in SharedState, NEW C, NEW M, Counted(u, C, M),
         u.owners = st.owners,
         \A s \in Sessions : u.session[s].watch = st.session[s].watch,
         \A j \in Jobs : \/ Steady(st.job[j], u.job[j])
                         \/ /\ Held(B, L, st.session, st.owners, j) = {}
                            /\ ~u.job[j].waiter,
         \A s \in Sessions : \/ u.session[s].auto \in {Nothing, st.session[s].auto}
                             \/ u.job[u.session[s].auto].project = Home[s]
  PROVE  Kempt(u, C, M)
<1>1. \A j \in Jobs : Held(B, L, st.session, st.owners, j) # {} =>
        u.job[j].project = st.job[j].project
  BY DEF Steady
<1>2. Rightful(u)
  <2> SUFFICES ASSUME NEW s \in Sessions, NEW j \in Jobs, <<s, j>> \in u.owners
               PROVE  u.session[s].watch /\ u.job[j].project = Home[s]
    BY DEF Rightful
  <2>1. st.session[s].watch /\ st.job[j].project = Home[s]
    BY DEF Kempt, Rightful
  <2>2. <<s, "watch">> \in Held(B, L, st.session, st.owners, j)
    BY DEF Held, Tags
  <2> QED BY <1>1, <2>1, <2>2
<1>3. OneNewcomer(u)
  <2> SUFFICES ASSUME NEW j \in Active(u.job), u.job[j].waiter,
                      NEW s \in Watchers(u.session, u.job[j].project),
                      NEW t \in Watchers(u.session, u.job[j].project)
               PROVE  s = t \/ <<s, j>> \in u.owners \/ <<t, j>> \in u.owners
    BY DEF OneNewcomer
  <2>1. j \in Jobs /\ u.job[j].linked /\ ~u.job[j].terminal
    BY DEF Active
  <2>2. j \in Active(st.job) /\ st.job[j].waiter /\ u.job[j].project = st.job[j].project
    BY <2>1 DEF Steady, Active
  <2>3. /\ s \in Watchers(st.session, st.job[j].project)
        /\ t \in Watchers(st.session, st.job[j].project)
    BY <2>2 DEF Watchers
  <2> QED BY <2>2, <2>3 DEF Kempt, OneNewcomer
<1>4. AutoAtHome(u)
  <2> SUFFICES ASSUME NEW s \in Sessions, u.session[s].auto # Nothing
               PROVE  u.job[u.session[s].auto].project = Home[s]
    BY DEF AutoAtHome
  <2>1. CASE u.session[s].auto = st.session[s].auto
    <3> DEFINE j == st.session[s].auto
    <3>1. j \in Jobs
      BY <2>1 DEF SharedState, Session
    <3>2. <<s, "auto">> \in Held(B, L, st.session, st.owners, j)
      BY DEF Held, Tags
    <3>3. st.job[j].project = Home[s]
      BY <2>1 DEF Kempt, AutoAtHome
    <3> QED BY <1>1, <2>1, <3>1, <3>2, <3>3
  <2> QED BY <2>1
<1> QED BY <1>2, <1>3, <1>4 DEF Kempt

(* Freeing finished jobs that nobody refers to keeps the registers.        *)
LEMMA ReapedRegisters ==
  ASSUME NEW st \in SharedState, NEW B, NEW L, Kempt(st, B, L), NEW u \in SharedState,
         u.session = st.session, u.owners = st.owners, u.job = Reaped(st.job)
  PROVE  /\ Kempt(u, B, L)
         /\ \A j \in Jobs : /\ u.job[j].cancelReq => st.job[j].cancelReq
                            /\ u.job[j].waiter = st.job[j].waiter
                            /\ st.job[j].waiter => u.job[j] = st.job[j]
<1>1. /\ st.job \in JobMap /\ st.session \in [Sessions -> Session]
  BY DEF SharedState
<1>2. ASSUME NEW j \in Jobs
      PROVE  LET H == Held(B, L, st.session, st.owners, j)
             IN  /\ Backed(Reaped(st.job)[j], H)
                 /\ Reaped(st.job)[j].cancelReq => st.job[j].cancelReq
                 /\ H # {} \/ st.job[j].waiter => Reaped(st.job)[j] = st.job[j]
                 /\ Reaped(st.job)[j].waiter = st.job[j].waiter
  <2> DEFINE H == Held(B, L, st.session, st.owners, j)
  <2>1. H \in SUBSET Referrers /\ Backed(st.job[j], H)
    BY HeldType DEF Kempt, Counted
  <2> HIDE DEF H
  <2>2. /\ Backed(Reaped(st.job)[j], H)
        /\ Reaped(st.job)[j].cancelReq => st.job[j].cancelReq
        /\ H # {} \/ st.job[j].waiter => Reaped(st.job)[j] = st.job[j]
        /\ Reaped(st.job)[j].waiter = st.job[j].waiter
    BY <1>1, <2>1, ReapedBacked
  <2> QED BY <2>2 DEF H
<1>3. Counted(u, B, L)
  BY <1>1, <1>2 DEF Counted
<1>4. \A j \in Jobs : \/ Steady(st.job[j], u.job[j])
                      \/ /\ Held(B, L, st.session, st.owners, j) = {}
                         /\ ~u.job[j].waiter
  BY <1>1, <1>2 DEF Steady
<1>5. Kempt(u, B, L)
  <2>1. \A s \in Sessions : /\ u.session[s].watch = st.session[s].watch
                            /\ u.session[s].auto = st.session[s].auto
    OBVIOUS
  <2> QED BY <1>3, <1>4, <2>1, LedgerStep
<1> QED BY <1>2, <1>5

LEMMA ReapedKempt ==
  ASSUME NEW st \in SharedState, NEW B, NEW L, Kempt(st, B, L),
         NEW u, u = [st EXCEPT !.job = Reaped(st.job)]
  PROVE  /\ u \in SharedState /\ Kempt(u, B, L)
         /\ u.session = st.session /\ u.owners = st.owners /\ u.job = Reaped(st.job)
         /\ \A j \in Jobs : /\ u.job[j].cancelReq => st.job[j].cancelReq
                            /\ u.job[j].waiter = st.job[j].waiter
                            /\ st.job[j].waiter => u.job[j] = st.job[j]
<1>1. /\ st.job \in JobMap /\ st.session \in [Sessions -> Session]
      /\ u.session = st.session /\ u.owners = st.owners /\ u.job = Reaped(st.job)
      /\ u \in SharedState
  BY ReapedKeeps DEF SharedState
<1> QED BY <1>1, ReapedRegisters

(* A subscription keeps the counters, whether it joins a job or links one. *)
LEMMA Subscribed ==
  ASSUME NEW js \in JobMap, NEW H,
         \A j \in Jobs : H[j] \in SUBSET Referrers /\ Backed(js[j], H[j]),
         NEW p \in Projects, NEW o \in Options, NEW x \in Subscriptions(js, p, o),
         NEW y \in Referrers, \A j \in Jobs : y \notin H[j]
  PROVE  Granted(js, H, p, x, y)
<1> DEFINE Goal == Granted(js, H, p, x, y)
<1> USE DEF Granted
<1>0. Nothing \notin Jobs /\ Cardinality({y}) = 1
  BY ConstantsAssumption, FS_Singleton
<1>1. ASSUME NEW t, t # "ok", x = Refused(js, t)
      PROVE  Goal
  BY <1>1 DEF Refused
<1>2. ASSUME NEW j \in ActiveOf(js, p), ~js[j].cancelReq,
             x = [job |-> j, status |-> "ok", jobs |-> [js EXCEPT ![j].subs = @ + 1]]
      PROVE  Goal
  <2> DEFINE r == [js[j] EXCEPT !.subs = @ + 1]
  <2>1. /\ j \in Jobs /\ js[j] \in Job /\ js[j].linked /\ ~js[j].terminal
        /\ js[j].project = p
    BY DEF ActiveOf, Active, JobMap
  <2>2. x.job = j /\ x.jobs = [js EXCEPT ![j] = r] /\ x.status = "ok"
    BY <1>2
  <2>3. x.jobs[j] = r /\ \A i \in Jobs \ {j} : x.jobs[i] = js[i]
    BY <2>1, <2>2 DEF JobMap
  <2>4. H[j] \in SUBSET Referrers /\ Backed(js[j], H[j]) /\ {y} \in SUBSET Referrers
        /\ {y} \cap H[j] = {}
    BY <2>1
  <2>5. Same(js[j], r) /\ Backed(r, H[j] \cup {y}) /\ r.cancelReq = js[j].cancelReq
    BY <1>0, <2>1, <2>4, Joined
  <2> HIDE DEF r
  <2> QED
    BY <1>0, <1>2, <2>1, <2>2, <2>3, <2>5 DEF Same, Alike
<1>3. ASSUME NEW i \in Jobs, ~js[i].linked, x = Created(js, p, o)
      PROVE  Goal
  <2> DEFINE j == CHOOSE k \in Jobs : ~js[k].linked
             new == [NoJob EXCEPT !.linked = TRUE, !.project = p, !.options = o,
                                  !.subs = 1, !.thread = "waiting"]
  <2>1. j \in Jobs /\ ~js[j].linked
    BY <1>3
  <2>2. /\ new.linked = TRUE /\ new.project = p /\ new.terminal = FALSE
        /\ new.waiter = FALSE /\ new.cancelReq = FALSE /\ new.subs = 1
    BY DEF NoJob
  <2>3. x.jobs = [js EXCEPT ![j] = new] /\ x.job = j /\ x.status = "ok"
    BY <1>3 DEF Created, new
  <2> HIDE DEF j, new
  <2>4. x.jobs[j] = new /\ \A k \in Jobs \ {j} : x.jobs[k] = js[k]
    BY <2>1, <2>3 DEF JobMap
  <2>5. H[j] = {} /\ H[j] \cup {y} = {y}
    BY <2>1 DEF Backed
  <2>6. Backed(new, {y})
    BY <1>0, <2>2 DEF Backed
  <2> QED BY <1>0, <2>1, <2>2, <2>3, <2>4, <2>5, <2>6
<1>4. CASE stopping
  BY <1>1, <1>4 DEF Subscriptions
<1>5. CASE ~stopping /\ ActiveOf(js, p) # {}
  <2>1. PICK j \in ActiveOf(js, p) :
          x = IF js[j].cancelReq THEN Refused(js, "cancelling")
              ELSE IF js[j].options # o THEN Refused(js, "conflict")
              ELSE [job |-> j, status |-> "ok", jobs |-> [js EXCEPT ![j].subs = @ + 1]]
    BY <1>5 DEF Subscriptions
  <2> QED BY <1>1, <1>2, <2>1
<1>6. CASE ~stopping /\ ActiveOf(js, p) = {} /\ Cardinality(Active(js)) >= JobLimit
  BY <1>1, <1>6 DEF Subscriptions
<1>7. CASE ~stopping /\ ActiveOf(js, p) = {} /\ ~(Cardinality(Active(js)) >= JobLimit)
  <2>1. \/ (\E i \in Jobs : ~js[i].linked) /\ x = Created(js, p, o)
        \/ x = Refused(js, "failed")
    BY <1>7 DEF Subscriptions
  <2> QED BY <1>1, <1>3, <2>1
<1> QED BY <1>4, <1>5, <1>6, <1>7

(* Within consistent registers a subscription grants what was asked for.   *)
LEMMA SubscribedKempt ==
  ASSUME NEW st \in SharedState, NEW B, NEW L, Kempt(st, B, L),
         NEW p \in Projects, NEW o \in Options, NEW x \in Subscriptions(st.job, p, o),
         NEW y \in Referrers,
         \A j \in Jobs : y \notin Held(B, L, st.session, st.owners, j)
  PROVE  Asked(st, B, L, p, x, y)
<1> DEFINE H == HeldBy(st, B, L)
           js == st.job
<1>1. \A j \in Jobs : H[j] = Held(B, L, st.session, st.owners, j)
  BY DEF HeldBy
<1>2. /\ \A j \in Jobs : H[j] \in SUBSET Referrers /\ Backed(js[j], H[j])
      /\ \A j \in Jobs : y \notin H[j]
  BY <1>1, HeldType DEF Kempt, Counted
<1>3. js \in JobMap /\ x \in Subscriptions(js, p, o)
  BY DEF SharedState
<1> HIDE DEF H, js
<1>4. Granted(js, H, p, x, y)
  BY <1>2, <1>3, Subscribed
<1>5. ASSUME NEW j \in Jobs
      PROVE  /\ j # x.job => x.jobs[j] = js[j]
             /\ j = x.job =>
                  /\ Backed(x.jobs[j], H[j] \cup {y})
                  /\ x.jobs[j].linked /\ ~x.jobs[j].cancelReq /\ x.jobs[j].project = p
             /\ \/ Steady(js[j], x.jobs[j])
                \/ H[j] = {} /\ ~js[j].linked /\ ~x.jobs[j].waiter
  <2>1. CASE x.job = Nothing
    BY <1>4, <2>1, ConstantsAssumption DEF Steady, Granted
  <2>2. CASE x.job # Nothing /\ x.job # j
    BY <1>4, <2>2 DEF Steady, Granted
  <2>3. CASE x.job # Nothing /\ x.job = j
    BY <1>4, <2>3 DEF Steady, Same, Alike, Granted
  <2> QED BY <2>1, <2>2, <2>3
<1> QED BY <1>1, <1>4, <1>5 DEF Asked, Granted, js

(* One reference to a job is released.                                     *)
LEMMA Released ==
  ASSUME NEW js \in JobMap, NEW i \in Jobs, NEW H \in SUBSET Referrers, Backed(js[i], H),
         NEW x \in H
  PROVE  /\ Unsubscribed(js[i], 1) \in Job
         /\ Same(js[i], Unsubscribed(js[i], 1))
         /\ Backed(Unsubscribed(js[i], 1), H \ {x})
         /\ Unsubscribed(js[i], 1).cancelReq => js[i].cancelReq \/ H \ {x} = {}
<1>1. js[i] \in Job /\ {x} \in SUBSET H /\ 1 = Cardinality({x})
  BY FS_Singleton DEF JobMap
<1>2. /\ Unsubscribed(js[i], 1) \in Job
      /\ Same(js[i], Unsubscribed(js[i], 1))
      /\ Backed(Unsubscribed(js[i], 1), H \ {x})
      /\ Unsubscribed(js[i], 1).cancelReq => js[i].cancelReq \/ H \ {x} = {}
  <2> DEFINE G == {x}
             m == 1
             r0 == js[i]
  <2>1. m = Cardinality(G)
    BY <1>1
  <2>2. G \in SUBSET H /\ r0 \in Job /\ Backed(r0, H)
    BY <1>1
  <2> HIDE DEF G, m, r0
  <2>3. /\ Unsubscribed(r0, m) \in Job
        /\ Same(r0, Unsubscribed(r0, m))
        /\ Backed(Unsubscribed(r0, m), H \ G)
        /\ Unsubscribed(r0, m).cancelReq => r0.cancelReq \/ H \ G = {}
    BY <2>1, <2>2, Dropped, SMTT(30)
  <2> QED BY <2>3 DEF G, m, r0
<1> QED BY <1>2

LEMMA SharedPrimed ==
  ASSUME TypeOK'
  PROVE  /\ Shared' \in SharedState /\ Shared'.session = session'
         /\ Shared'.job = job' /\ Shared'.owners = owners'
  BY DEF TypeOK, Shared, SharedState, JobMap

(* One session changes, and what it may hold.                              *)
LEMMA OnePosted ==
  ASSUME Posted, NEW s \in Sessions, PostedAt(s)', unvisited' = unvisited,
         \A t \in Sessions \ {s} : /\ session'[t] = session[t] /\ leaving'[t] = leaving[t]
                                   /\ pc'[t] = pc[t] /\ arg'[t] = arg[t]
  PROVE  Posted'
<1>1. ASSUME NEW t \in Sessions \ {s}
      PROVE  PostedAt(t)'
  BY DEF Posted, PostedAt, Clear, Linked
<1> QED BY <1>1 DEF Posted

(* The watcher's thread stays where it is.                                 *)
LEMMA AwaitedStill ==
  ASSUME Awaited, pc'[Watcher] = pc[Watcher], arg'[Watcher] = arg[Watcher],
         \A j \in Jobs : job'[j].waiter = job[j].waiter,
         \A j \in Jobs : job[j].waiter => job'[j].linked
  PROVE  Awaited'
  BY DEF Awaited

(* A release that gives up one reference keeps the registers.              *)
LEMMA DroppedKempt ==
  ASSUME NEW st \in SharedState, NEW B, NEW L, Kempt(st, B, L),
         NEW u \in SharedState, NEW C, NEW M, NEW i \in Jobs, NEW x,
         Loses(st, B, L, u, C, M, i, x)
  PROVE  /\ Kempt(u, C, M) /\ Mild(st, u, C, M)
         /\ \A j \in Jobs : Same(st.job[j], u.job[j])
<1> DEFINE H == Held(B, L, st.session, st.owners, i)
           js == st.job
<1>1. js \in JobMap /\ H \in SUBSET Referrers /\ Backed(js[i], H)
  BY HeldType DEF SharedState, Kempt, Counted
<1>2. x \in H
  BY DEF Loses
<1> HIDE DEF H, js
<1>3. /\ Same(js[i], Unsubscribed(js[i], 1))
      /\ Backed(Unsubscribed(js[i], 1), H \ {x})
      /\ Unsubscribed(js[i], 1).cancelReq => js[i].cancelReq \/ H \ {x} = {}
  BY <1>1, <1>2, Released
<1>4. /\ u.job[i] = Unsubscribed(js[i], 1) /\ u.owners = st.owners
      /\ \A s \in Sessions : /\ u.session[s].watch = st.session[s].watch
                             /\ u.session[s].auto \in {Nothing, st.session[s].auto}
      /\ \A j \in Jobs \ {i} :
           /\ u.job[j] = js[j]
           /\ Held(C, M, u.session, u.owners, j) = Held(B, L, st.session, st.owners, j)
      /\ Held(C, M, u.session, u.owners, i) = H \ {x}
  BY DEF Loses, Besides, js, H
<1>5. \A j \in Jobs : Same(js[j], u.job[j])
  BY <1>3, <1>4 DEF Same, Alike
<1>6. Counted(u, C, M)
  <2> SUFFICES ASSUME NEW j \in Jobs
               PROVE  Backed(u.job[j], Held(C, M, u.session, u.owners, j))
    BY DEF Counted
  <2>1. CASE j = i
    BY <1>3, <1>4, <2>1
  <2>2. CASE j # i
    BY <1>4, <2>2 DEF Kempt, Counted, js
  <2> QED BY <2>1, <2>2
<1>7. \A j \in Jobs : Steady(st.job[j], u.job[j])
  BY <1>5 DEF Steady, Same, Alike, js
<1>8. Kempt(u, C, M)
  BY <1>4, <1>6, <1>7, LedgerStep
<1>9. Mild(st, u, C, M)
  <2> SUFFICES ASSUME NEW j \in Jobs
               PROVE  u.job[j].cancelReq => \/ st.job[j].cancelReq
                                            \/ Held(C, M, u.session, u.owners, j) = {}
    BY DEF Mild
  <2>1. CASE j = i
    BY <1>3, <1>4, <2>1 DEF js
  <2>2. CASE j # i
    BY <1>4, <2>2 DEF js
  <2> QED BY <2>1, <2>2
<1> QED BY <1>5, <1>8, <1>9 DEF js

LEMMA ExchangedKempt ==
  ASSUME NEW st \in SharedState, NEW B, NEW L, Kempt(st, B, L),
         NEW u \in SharedState, NEW C, NEW M, NEW i \in Jobs, NEW x, NEW y,
         Swaps(st, B, L, u, C, M, i, x, y)
  PROVE  Kempt(u, C, M)
<1> DEFINE H == Held(B, L, st.session, st.owners, i)
           r == st.job[i]
<1>1. H \in SUBSET Referrers /\ Backed(r, H) /\ x \in H /\ y \notin H
  BY HeldType DEF Kempt, Counted, Swaps
<1> HIDE DEF H, r
<1>2. Backed(r, (H \ {x}) \cup {y})
  BY <1>1, Exchanged
<1>3. /\ u.job[i] = r /\ u.owners = st.owners
      /\ \A s \in Sessions : /\ u.session[s].watch = st.session[s].watch
                             /\ u.session[s].auto \in {Nothing, st.session[s].auto}
      /\ \A j \in Jobs \ {i} :
           /\ u.job[j] = st.job[j]
           /\ Held(C, M, u.session, u.owners, j) = Held(B, L, st.session, st.owners, j)
      /\ Held(C, M, u.session, u.owners, i) = (H \ {x}) \cup {y}
  BY DEF Swaps, Besides, r, H
<1>4. Counted(u, C, M)
  <2> SUFFICES ASSUME NEW j \in Jobs
               PROVE  Backed(u.job[j], Held(C, M, u.session, u.owners, j))
    BY DEF Counted
  <2>1. CASE j = i
    BY <1>2, <1>3, <2>1
  <2>2. CASE j # i
    BY <1>3, <2>2 DEF Kempt, Counted
  <2> QED BY <2>1, <2>2
<1>5. \A j \in Jobs : Steady(st.job[j], u.job[j])
  BY <1>3 DEF Steady, r
<1> QED BY <1>3, <1>4, <1>5, LedgerStep

(* The state of the registers, as the lemmas take it.                      *)
LEMMA Register ==
  ASSUME IInv, TypeOK', RegInv
  PROVE  /\ Shared \in SharedState /\ Shared.session = session /\ Shared.job = job
         /\ Shared.owners = owners /\ Kempt(Shared, Binding, Joining)
         /\ Shared' \in SharedState /\ Shared'.session = session'
         /\ Shared'.job = job' /\ Shared'.owners = owners'
         /\ session \in [Sessions -> Session] /\ job \in JobMap
         /\ session' \in [Sessions -> Session] /\ job' \in JobMap
  BY SharedType, SharedPrimed DEF IInv, TypeOK, JobMap, RegInv, Registers

(* A reference is released, and what it kept may be freed.                 *)
LEMMA LossStep ==
  ASSUME IInv, TypeOK', RegInv, NEW i \in Jobs, NEW x,
         x \in Held(Binding, Joining, session, owners, i),
         \/ job' = [job EXCEPT ![i] = Unsubscribed(@, 1)]
         \/ job' = Reaped([job EXCEPT ![i] = Unsubscribed(@, 1)]),
         owners' = owners,
         \A s \in Sessions : /\ session'[s].watch = session[s].watch
                             /\ session'[s].auto = session[s].auto,
         \A j \in Jobs : Held(Binding', Joining', session', owners', j)
                           = IF j = i THEN Held(Binding, Joining, session, owners, j) \ {x}
                             ELSE Held(Binding, Joining, session, owners, j)
  PROVE  /\ Registers' /\ Spares /\ Takes
         /\ \A j \in Jobs : /\ job'[j].waiter = job[j].waiter
                            /\ job[j].waiter => job'[j].linked = job[j].linked
<1> DEFINE ks == [job EXCEPT ![i] = Unsubscribed(@, 1)]
           u == [session |-> session', job |-> ks, owners |-> owners]
<1>1. /\ Shared \in SharedState /\ Shared.session = session /\ Shared.job = job
      /\ Shared.owners = owners /\ Kempt(Shared, Binding, Joining)
      /\ Shared' \in SharedState /\ Shared'.session = session'
      /\ Shared'.job = job' /\ Shared'.owners = owners'
      /\ session' \in [Sessions -> Session] /\ job \in JobMap
  BY Register
<1>2. ks \in JobMap /\ ks[i] = Unsubscribed(job[i], 1) /\ \A j \in Jobs \ {i} : ks[j] = job[j]
  <2>1. ks \in JobMap
    BY <1>1, UnsubscribedJob
  <2> QED BY <1>1, <2>1 DEF JobMap
<1> HIDE DEF ks
<1>3. u \in SharedState /\ u.session = session' /\ u.job = ks /\ u.owners = owners
  BY <1>1, <1>2 DEF SharedState
<1>4. Loses(Shared, Binding, Joining, u, Binding', Joining', i, x)
  BY <1>1, <1>2, <1>3 DEF Loses, Besides
<1> HIDE DEF u
<1>5. /\ Kempt(u, Binding', Joining') /\ Mild(Shared, u, Binding', Joining')
      /\ \A j \in Jobs : Same(job[j], ks[j])
  BY <1>1, <1>3, <1>4, DroppedKempt
<1>6. Takes
  BY DEF Takes
<1>7. CASE job' = ks
  <2>1. Shared' = u
    BY <1>7 DEF Shared, u
  <2>2. Spares
    BY <1>1, <1>5, <2>1 DEF Spares, Mild
  <2> QED
    BY <1>5, <1>6, <1>7, <2>1, <2>2 DEF Registers, Same, Alike
<1>8. CASE job' = Reaped(ks)
  <2>1. Shared' = [u EXCEPT !.job = Reaped(u.job)]
    BY <1>3, <1>8 DEF Shared, u
  <2>2. /\ Kempt(Shared', Binding', Joining')
        /\ \A j \in Jobs : /\ Shared'.job[j].cancelReq => u.job[j].cancelReq
                           /\ Shared'.job[j].waiter = u.job[j].waiter
                           /\ u.job[j].waiter => Shared'.job[j] = u.job[j]
    BY <1>3, <1>5, <2>1, ReapedKempt
  <2>3. Spares
    BY <1>1, <1>3, <1>5, <2>2 DEF Spares, Mild
  <2> QED
    BY <1>1, <1>3, <1>5, <1>6, <2>2, <2>3 DEF Registers, Same, Alike
<1> QED BY <1>7, <1>8 DEF ks

(* The answer to the request for a job.                                    *)
LEMMA Answered ==
  ASSUME NEW js, NEW p, NEW o, NEW x \in Subscriptions(js, p, o), js \in JobMap
  PROVE  x.job \in Jobs \cup {Nothing} /\ (x.job # Nothing <=> x.status = "ok")
<1> DEFINE Goal == x.job \in Jobs \cup {Nothing} /\ (x.job # Nothing <=> x.status = "ok")
<1>1. ASSUME NEW t, t # "ok", x = Refused(js, t)
      PROVE  Goal
  BY <1>1 DEF Refused
<1>2. ASSUME NEW j \in ActiveOf(js, p),
             x = [job |-> j, status |-> "ok", jobs |-> [js EXCEPT ![j].subs = @ + 1]]
      PROVE  Goal
  <2>1. x.job = j /\ x.status = "ok" /\ j \in Jobs
    BY <1>2 DEF ActiveOf, Active
  <2> QED BY <2>1, ConstantsAssumption
<1>3. ASSUME NEW i \in Jobs, ~js[i].linked, x = Created(js, p, o)
      PROVE  Goal
  <2>1. x.job = (CHOOSE k \in Jobs : ~js[k].linked) /\ x.status = "ok"
    BY <1>3 DEF Created
  <2> QED BY <1>3, <2>1, ConstantsAssumption
<1>4. CASE stopping
  BY <1>1, <1>4 DEF Subscriptions
<1>5. CASE ~stopping /\ ActiveOf(js, p) # {}
  <2>1. PICK j \in ActiveOf(js, p) :
          x = IF js[j].cancelReq THEN Refused(js, "cancelling")
              ELSE IF js[j].options # o THEN Refused(js, "conflict")
              ELSE [job |-> j, status |-> "ok", jobs |-> [js EXCEPT ![j].subs = @ + 1]]
    BY <1>5 DEF Subscriptions
  <2> QED BY <1>1, <1>2, <2>1
<1>6. CASE ~stopping /\ ActiveOf(js, p) = {} /\ Cardinality(Active(js)) >= JobLimit
  BY <1>1, <1>6 DEF Subscriptions
<1>7. CASE ~stopping /\ ActiveOf(js, p) = {} /\ ~(Cardinality(Active(js)) >= JobLimit)
  <2>1. \/ (\E i \in Jobs : ~js[i].linked) /\ x = Created(js, p, o)
        \/ x = Refused(js, "failed")
    BY <1>7 DEF Subscriptions
  <2> QED BY <1>1, <1>3, <2>1
<1> QED BY <1>4, <1>5, <1>6, <1>7

(* A step that gains a reference keeps the registers.                      *)
LEMMA GainStep ==
  ASSUME IInv, TypeOK', RegInv, NEW js, NEW p \in Projects, NEW o \in Options,
         NEW x, NEW y, Gains(js, p, o, x, y)
  PROVE  /\ Registers' /\ Spares /\ Takes
         /\ \A j \in Jobs : /\ job'[j].waiter = job[j].waiter
                            /\ job[j].waiter /\ job[j].linked => job'[j].linked
<1>0. /\ js = job \/ js = Reaped(job)
      /\ x \in Subscriptions(js, p, o) /\ job' = x.jobs /\ owners' = owners
      /\ y \in Referrers
      /\ \A j \in Jobs : y \notin Held(Binding, Joining, session, owners, j)
      /\ \A s \in Sessions : session'[s].watch = session[s].watch
      /\ \A s \in Sessions : \/ session'[s].auto \in {Nothing, session[s].auto}
                             \/ session'[s].auto = x.job /\ p = Home[s]
  BY DEF Gains
<1>1. /\ Shared \in SharedState /\ Shared.session = session /\ Shared.job = job
      /\ Shared.owners = owners /\ Kempt(Shared, Binding, Joining)
      /\ Shared' \in SharedState /\ Shared'.session = session'
      /\ Shared'.job = job' /\ Shared'.owners = owners'
      /\ job \in JobMap /\ job' \in JobMap
  BY Register
<1>2. PICK st \in SharedState :
        /\ Kempt(st, Binding, Joining)
        /\ st.session = session /\ st.owners = owners /\ st.job = js
        /\ \A j \in Jobs : /\ st.job[j].cancelReq => job[j].cancelReq
                           /\ st.job[j].waiter = job[j].waiter
                           /\ job[j].waiter => st.job[j] = job[j]
  <2>1. CASE js = job
    BY <1>1, <2>1
  <2>2. CASE js = Reaped(job)
    <3> DEFINE u == [Shared EXCEPT !.job = Reaped(Shared.job)]
    <3>1. u = [Shared EXCEPT !.job = Reaped(Shared.job)]
      OBVIOUS
    <3> HIDE DEF u
    <3>2. /\ u \in SharedState /\ Kempt(u, Binding, Joining)
          /\ u.session = session /\ u.owners = owners /\ u.job = Reaped(job)
          /\ \A j \in Jobs : /\ u.job[j].cancelReq => job[j].cancelReq
                             /\ u.job[j].waiter = job[j].waiter
                             /\ job[j].waiter => u.job[j] = job[j]
      BY <1>1, <3>1, ReapedKempt
    <3> QED BY <2>2, <3>2
  <2> QED BY <1>0, <2>1, <2>2
<1> DEFINE H(j) == Held(Binding, Joining, session, owners, j)
           i == x.job
<1>3. Asked(st, Binding, Joining, p, x, y)
  <2>1. /\ x \in Subscriptions(st.job, p, o)
        /\ \A j \in Jobs : y \notin Held(Binding, Joining, st.session, st.owners, j)
    BY <1>0, <1>2
  <2> QED BY <1>0, <1>2, <2>1, SubscribedKempt
<1>4. /\ i \in Jobs \cup {Nothing}
      /\ \A j \in Jobs :
           /\ j # i => job'[j] = st.job[j]
           /\ j = i => /\ Backed(job'[j], H(j) \cup {y}) /\ job'[j].project = p
                       /\ job'[j].linked /\ ~job'[j].cancelReq
           /\ \/ Steady(st.job[j], job'[j])
              \/ H(j) = {} /\ ~st.job[j].linked /\ ~job'[j].waiter
  BY <1>0, <1>2, <1>3 DEF Asked
<1>5. \A j \in Jobs : Held(Binding', Joining', session', owners', j)
                       = IF j = i THEN H(j) \cup {y} ELSE H(j)
  BY DEF Gains
<1> HIDE DEF i
<1>6. Counted(Shared', Binding', Joining')
  <2> SUFFICES ASSUME NEW j \in Jobs
               PROVE  Backed(job'[j], Held(Binding', Joining', session', owners', j))
    BY <1>1 DEF Counted
  <2>1. CASE j = i
    BY <1>4, <1>5, <2>1
  <2>2. CASE j # i
    <3>1. job'[j] = st.job[j]
      BY <1>4, <2>2
    <3>2. Backed(st.job[j], H(j))
      BY <1>2 DEF Counted, Kempt
    <3> QED BY <1>5, <2>2, <3>1, <3>2
  <2> QED BY <2>1, <2>2
<1>7. \A s \in Sessions : \/ session'[s].auto \in {Nothing, session[s].auto}
                          \/ job'[session'[s].auto].project = Home[s]
  <2> SUFFICES ASSUME NEW s \in Sessions
               PROVE  \/ session'[s].auto \in {Nothing, session[s].auto}
                      \/ job'[session'[s].auto].project = Home[s]
    OBVIOUS
  <2>1. \/ session'[s].auto \in {Nothing, session[s].auto}
        \/ session'[s].auto = x.job /\ p = Home[s]
    BY <1>0
  <2>2. x.job \in Jobs => job'[x.job].project = p
    BY <1>4 DEF i
  <2>3. x.job \in Jobs \cup {Nothing}
    BY <1>4 DEF i
  <2> QED BY <2>1, <2>2, <2>3
<1>8. \A j \in Jobs : \/ Steady(st.job[j], Shared'.job[j])
                       \/ /\ Held(Binding, Joining, st.session, st.owners, j) = {}
                          /\ ~Shared'.job[j].waiter
  BY <1>1, <1>2, <1>4
<1>9. Registers'
  BY <1>0, <1>1, <1>2, <1>6, <1>7, <1>8, LedgerStep DEF Registers
<1>10. Spares /\ Takes
  BY <1>0, <1>2, <1>4 DEF Spares, Takes
<1>11. ASSUME NEW j \in Jobs
       PROVE  /\ job'[j].waiter = job[j].waiter
              /\ job[j].waiter /\ job[j].linked => job'[j].linked
  <2>1. job[j].waiter => job[j].linked
    BY DEF RegInv, Awaited
  <2>2. job[j].waiter \in BOOLEAN /\ job'[j].waiter \in BOOLEAN
    BY <1>1 DEF JobMap, Job
  <2>3. CASE j # i
    <3>1. job'[j] = st.job[j]
      BY <1>4, <2>3
    <3> QED BY <1>2, <3>1
  <2>4. CASE j = i /\ Steady(st.job[j], job'[j])
    BY <1>2, <1>4, <2>4 DEF Steady
  <2>5. CASE j = i /\ ~st.job[j].linked /\ ~job'[j].waiter
    BY <1>2, <2>1, <2>2, <2>5
  <2> QED BY <1>4, <2>3, <2>4, <2>5
<1> QED BY <1>9, <1>10, <1>11

LEMMA IndexSubscribeCounts ==
  ASSUME IInv, TypeOK', RegInv, NEW s \in Sessions, IndexSubscribe(s)
  PROVE  RegInv' /\ Spares /\ Takes
<1>1. /\ pc[s] = "subscribe" /\ Linked(s) /\ s \in Actors /\ s # Watcher
      /\ arg[s].key \in Projects /\ arg[s].options \in Options /\ Binding[s] = Nothing
      /\ PostedAt(s) /\ Reaped(job) \in JobMap
  <2>1. Reaped(job) \in JobMap
    BY ReapedKeeps DEF IInv, TypeOK, JobMap
  <2> QED
    BY <2>1, Busy, ConstantsAssumption
       DEF IInv, TypeOK, Excluded, Claimed, IndexSubscribe, Actors, Binding, RegInv, Posted
<1>2. PICK x \in Subscriptions(Reaped(job), arg[s].key, arg[s].options) :
        /\ job' = x.jobs
        /\ \/ /\ x.status # "ok"
              /\ pc' = [pc EXCEPT ![s] = "refresh"]
              /\ arg' = [arg EXCEPT ![s] = NoArg]
           \/ /\ x.status = "ok"
              /\ pc' = [pc EXCEPT ![s] = "bind"]
              /\ arg' = [arg EXCEPT ![s].job = x.job]
  BY DEF IndexSubscribe
<1>3. /\ session' = session /\ owners' = owners /\ leaving' = leaving
      /\ unvisited' = unvisited /\ Joining' = Joining
  BY DEF IndexSubscribe, Joining
<1> DEFINE H(i) == Held(Binding, Joining, session, owners, i)
           y == <<s, "request">>
           j == x.job
<1>4. j \in Jobs \cup {Nothing} /\ (j # Nothing <=> x.status = "ok")
  BY <1>1, Answered
<1> HIDE DEF j
<1>5. /\ \A t \in Sessions \ {s} : pc'[t] = pc[t] /\ arg'[t] = arg[t]
      /\ pc'[Watcher] = pc[Watcher] /\ arg'[Watcher] = arg[Watcher]
  BY <1>1, <1>2 DEF IInv, TypeOK, Actors
<1>6. /\ pc'[s] \in {"refresh", "bind"} /\ (pc'[s] = "bind" <=> j # Nothing)
      /\ j # Nothing => arg'[s].job = j
  BY <1>1, <1>2, <1>4 DEF IInv, TypeOK, j
<1>7. Binding'[s] = j /\ \A t \in Sessions \ {s} : Binding'[t] = Binding[t]
  BY <1>4, <1>5, <1>6 DEF Binding
<1>8. y \in Referrers /\ \A i \in Jobs : y \notin H(i)
  <2>1. y \in Referrers
    BY <1>1 DEF Referrers, Tags
  <2>2. \A i \in Jobs : y \notin H(i)
    BY <1>1, ConstantsAssumption DEF Held
  <2> QED BY <2>1, <2>2
<1>9. \A i \in Jobs : Held(Binding', Joining', session', owners', i)
                        = IF i = j THEN H(i) \cup {y} ELSE H(i)
  BY <1>1, <1>3, <1>7, ConstantsAssumption DEF Held, Tags
<1>10. /\ Registers' /\ Spares /\ Takes
       /\ \A i \in Jobs : /\ job'[i].waiter = job[i].waiter
                          /\ job[i].waiter /\ job[i].linked => job'[i].linked
  <2> DEFINE p == arg[s].key
             o == arg[s].options
             js == Reaped(job)
  <2>1. /\ p \in Projects /\ o \in Options /\ x \in Subscriptions(js, p, o)
        /\ js = job \/ js = Reaped(job)
    BY <1>1
  <2>2. \A t \in Sessions : /\ session'[t].watch = session[t].watch
                            /\ session'[t].auto \in {Nothing, session[t].auto}
    BY <1>3
  <2>3. Gains(js, p, o, x, y)
    BY <1>2, <1>3, <1>8, <1>9, <2>1, <2>2 DEF Gains, j
  <2> HIDE DEF y, p, o, js
  <2> QED BY <2>1, <2>3, GainStep
<1>11. PostedAt(s)'
  BY <1>1, <1>3, <1>4, <1>6 DEF PostedAt, Clear, Linked
<1>12. Posted'
  BY <1>3, <1>5, <1>11, OnePosted DEF RegInv
<1>13. Awaited'
  BY <1>5, <1>10, AwaitedStill DEF RegInv, Awaited
<1> QED BY <1>10, <1>12, <1>13 DEF RegInv

LEMMA IndexBindCounts ==
  ASSUME IInv, TypeOK', RegInv, NEW s \in Sessions, IndexBind(s)
  PROVE  RegInv' /\ Spares /\ Takes
<1> DEFINE i == arg[s].job
           H(j) == Held(Binding, Joining, session, owners, j)
           x == <<s, "request">>
           y == <<s, "active">>
<1>1. /\ pc[s] = "bind" /\ Linked(s) /\ s \in Actors /\ s # Watcher /\ i \in Jobs
      /\ Binding[s] = i
  BY Busy, ConstantsAssumption DEF IndexBind, Actors, Binding, RegInv, Posted, PostedAt
<1>2. /\ Shared \in SharedState /\ Shared.session = session /\ Shared.job = job
      /\ Shared.owners = owners /\ Kempt(Shared, Binding, Joining)
      /\ Shared' \in SharedState /\ Shared'.session = session'
      /\ Shared'.job = job' /\ Shared'.owners = owners'
      /\ session \in [Sessions -> Session] /\ job \in JobMap
  BY Register
<1>3. owners' = owners /\ leaving' = leaving /\ unvisited' = unvisited /\ Joining' = Joining
  BY DEF IndexBind, Joining
<1>4. x \in H(i)
  BY <1>1 DEF Held, Tags
<1>5. \E to \in {"refresh", "wait"} : pc' = [pc EXCEPT ![s] = to]
  BY DEF IndexBind
<1>6. /\ \A t \in Sessions \ {s} : pc'[t] = pc[t] /\ arg'[t] = arg[t]
      /\ pc'[Watcher] = pc[Watcher] /\ arg'[Watcher] = arg[Watcher]
      /\ Binding'[s] = Nothing /\ \A t \in Sessions \ {s} : Binding'[t] = Binding[t]
  <2>1. \A a \in Actors \ {s} : pc'[a] = pc[a] /\ arg'[a] = arg[a]
    BY <1>5 DEF IndexBind, IInv, TypeOK
  <2>2. pc'[s] # "bind"
    BY <1>1, <1>5 DEF IInv, TypeOK
  <2> QED BY <1>1, <2>1, <2>2 DEF Actors, Binding
<1>7. CASE RequestCancelled(s) \/ session[s].active # Nothing
  <2>1. /\ job' = [job EXCEPT ![i] = Unsubscribed(@, 1)]
        /\ pc' = [pc EXCEPT ![s] = "refresh"] /\ session' = session
    BY <1>7 DEF IndexBind
  <2>2. \A j \in Jobs : Held(Binding', Joining', session', owners', j)
                          = IF j = i THEN H(j) \ {x} ELSE H(j)
    BY <1>1, <1>3, <1>6, <2>1, ConstantsAssumption DEF Held
  <2>3. /\ Registers' /\ Spares /\ Takes
        /\ \A j \in Jobs : /\ job'[j].waiter = job[j].waiter
                           /\ job[j].waiter => job'[j].linked = job[j].linked
    <3> HIDE DEF i, x
    <3> QED BY <1>1, <1>3, <1>4, <2>1, <2>2, LossStep
  <2>5. PostedAt(s)'
    <3>1. pc'[s] = "refresh" /\ PostedAt(s)
      BY <1>1, <2>1 DEF IInv, TypeOK, RegInv, Posted
    <3> QED
      BY <1>1, <1>3, <2>1, <3>1 DEF PostedAt, Clear, Linked
  <2>6. Posted'
    BY <1>3, <1>6, <2>1, <2>5, OnePosted DEF RegInv
  <2>7. Awaited'
    BY <1>6, <2>3, AwaitedStill DEF RegInv, Awaited
  <2> QED BY <2>3, <2>6, <2>7 DEF RegInv
<1>8. CASE ~(RequestCancelled(s) \/ session[s].active # Nothing)
  <2> DEFINE q == [session[s] EXCEPT !.active = i]
  <2>1. /\ session' = [session EXCEPT ![s] = q] /\ job' = job /\ arg' = arg
        /\ pc' = [pc EXCEPT ![s] = "wait"]
    BY <1>2, <1>8 DEF IndexBind
  <2>2. /\ q.active = i /\ q.auto = session[s].auto /\ q.watch = session[s].watch
        /\ q.life = session[s].life /\ q.cancelled = session[s].cancelled
    BY <1>2 DEF Session
  <2> HIDE DEF q, i
  <2>3. session'[s] = q /\ \A t \in Sessions \ {s} : session'[t] = session[t]
    BY <1>2, <2>1
  <2>4. y \notin H(i)
    BY <1>1, <1>8, ConstantsAssumption DEF Held
  <2>5. \A j \in Jobs : Held(Binding', Joining', session', owners', j)
                          = IF j = i THEN (H(j) \ {x}) \cup {y} ELSE H(j)
    BY <1>1, <1>3, <1>6, <1>8, <2>2, <2>3, ConstantsAssumption DEF Held, Tags
  <2>6. \A t \in Sessions : /\ session'[t].watch = session[t].watch
                            /\ session'[t].auto = session[t].auto
    BY <2>2, <2>3
  <2> HIDE DEF x, y
  <2>7. Kempt(Shared', Binding', Joining')
    <3>1. Swaps(Shared, Binding, Joining, Shared', Binding', Joining', i, x, y)
      BY <1>1, <1>2, <1>3, <1>4, <2>1, <2>4, <2>5, <2>6 DEF Swaps, Besides
    <3> QED BY <1>1, <1>2, <3>1, ExchangedKempt
  <2>8. Spares /\ Takes
    BY <2>1, <2>6 DEF Spares, Takes
  <2>9. PostedAt(s)'
    <3>1. pc'[s] = "wait" /\ PostedAt(s)
      BY <1>1, <2>1 DEF IInv, TypeOK, RegInv, Posted
    <3> QED
      BY <1>1, <1>3, <1>8, <2>1, <2>2, <2>3, <3>1
         DEF PostedAt, Clear, Linked, RequestCancelled, i
  <2>10. Posted'
    BY <1>3, <1>6, <2>3, <2>9, OnePosted DEF RegInv
  <2>11. Awaited'
    BY <1>6, <2>1, AwaitedStill DEF RegInv, Awaited
  <2> QED BY <2>7, <2>8, <2>10, <2>11 DEF RegInv, Registers
<1> QED BY <1>7, <1>8

LEMMA IndexWaitCounts ==
  ASSUME IInv, TypeOK', RegInv, NEW s \in Sessions, IndexWait(s)
  PROVE  RegInv' /\ Spares /\ Takes
<1> DEFINE i == arg[s].job
           H(j) == Held(Binding, Joining, session, owners, j)
           x == <<s, "active">>
<1>1. /\ pc[s] = "wait" /\ Linked(s) /\ s \in Actors /\ s # Watcher /\ i \in Jobs
      /\ session \in [Sessions -> Session] /\ PostedAt(s)
  BY Busy, ConstantsAssumption
     DEF IndexWait, Actors, RegInv, Posted, PostedAt, IInv, TypeOK
<1>2. /\ owners' = owners /\ leaving' = leaving /\ unvisited' = unvisited /\ Joining' = Joining
      /\ pc' = [pc EXCEPT ![s] = "refresh"] /\ arg' = [arg EXCEPT ![s] = NoArg]
  BY DEF IndexWait, Joining
<1>3. /\ \A t \in Sessions \ {s} : pc'[t] = pc[t] /\ arg'[t] = arg[t]
      /\ pc'[Watcher] = pc[Watcher] /\ arg'[Watcher] = arg[Watcher] /\ pc'[s] = "refresh"
  <2>1. \A a \in Actors \ {s} : pc'[a] = pc[a] /\ arg'[a] = arg[a]
    BY <1>2 DEF IInv, TypeOK
  <2> QED BY <1>1, <1>2, <2>1 DEF Actors, IInv, TypeOK
<1>4. CASE session[s].active # i /\ session' = session /\ job' = job
  <2>1. Quiet
    BY <1>1, <1>2, <1>3, <1>4 DEF Quiet, SameHold, SameCount
  <2>2. PostedAt(s)'
    BY <1>1, <1>2, <1>3, <1>4 DEF PostedAt, Clear, Linked
  <2>3. Posted'
    BY <1>2, <1>3, <1>4, <2>2, OnePosted DEF RegInv
  <2>4. Awaited'
    BY <1>3, <1>4, AwaitedStill DEF RegInv, Awaited
  <2> QED BY <2>1, <2>3, <2>4, QuietStep DEF RegInv, IInv
<1>5. CASE /\ session[s].active = i /\ session' = [session EXCEPT ![s].active = Nothing]
           /\ job' = Reaped([job EXCEPT ![i] = Unsubscribed(@, 1)])
  <2> DEFINE q == [session[s] EXCEPT !.active = Nothing]
  <2>1. /\ q.active = Nothing /\ q.auto = session[s].auto /\ q.watch = session[s].watch
        /\ q.life = session[s].life /\ q.cancelled = session[s].cancelled
    BY <1>1 DEF Session
  <2>2. session' = [session EXCEPT ![s] = q]
    BY <1>5
  <2> HIDE DEF q
  <2>3. session'[s] = q /\ \A t \in Sessions \ {s} : session'[t] = session[t]
    BY <1>1, <2>2
  <2>4. Binding' = Binding
    BY <1>1, <1>3 DEF Binding
  <2>5. x \in H(i)
    BY <1>1, <1>5 DEF Held, Tags
  <2>6. \A j \in Jobs : Held(Binding', Joining', session', owners', j)
                          = IF j = i THEN H(j) \ {x} ELSE H(j)
    <3> HIDE DEF i
    <3> QED
      BY <1>2, <1>5, <2>1, <2>3, <2>4, ConstantsAssumption DEF Held
  <2>7. \A t \in Sessions : /\ session'[t].watch = session[t].watch
                            /\ session'[t].auto = session[t].auto
    BY <2>1, <2>3
  <2>8. /\ Registers' /\ Spares /\ Takes
        /\ \A j \in Jobs : /\ job'[j].waiter = job[j].waiter
                           /\ job[j].waiter => job'[j].linked = job[j].linked
    <3> HIDE DEF i, x
    <3> QED BY <1>1, <1>2, <1>5, <2>5, <2>6, <2>7, LossStep
  <2>9. PostedAt(s)'
    BY <1>1, <1>2, <1>3, <2>1, <2>3 DEF PostedAt, Clear, Linked
  <2>10. Posted'
    BY <1>2, <1>3, <2>3, <2>9, OnePosted DEF RegInv
  <2>11. Awaited'
    BY <1>3, <2>8, AwaitedStill DEF RegInv, Awaited
  <2> QED BY <2>8, <2>10, <2>11 DEF RegInv
<1> QED BY <1>4, <1>5 DEF IndexWait

LEMMA RequestCancelCounts ==
  ASSUME IInv, TypeOK', RegInv, NEW s \in Sessions, RequestCancel(s)
  PROVE  RegInv' /\ Spares /\ Takes
<1> DEFINE i == session[s].active
           H(j) == Held(Binding, Joining, session, owners, j)
           x == <<s, "active">>
           over == session[s].token = session[s].issued
           left == IF over THEN Nothing ELSE session[s].active
           q == [session[s] EXCEPT !.cancelToken = session[s].issued, !.active = left]
<1>1. session \in [Sessions -> Session] /\ PostedAt(s) /\ Linked(s) /\ session[s] \in Session
  BY DEF RequestCancel, RegInv, Posted, IInv, TypeOK
<1>2. /\ owners' = owners /\ leaving' = leaving /\ unvisited' = unvisited
      /\ Joining' = Joining /\ Binding' = Binding /\ pc' = pc /\ arg' = arg
  BY DEF RequestCancel, Joining, Binding
<1>3. session' = [session EXCEPT ![s] = q]
  BY <1>1 DEF RequestCancel
<1> HIDE DEF left
<1>4. /\ q.active = left /\ q.auto = session[s].auto /\ q.watch = session[s].watch
      /\ q.life = session[s].life /\ q.cancelled = session[s].cancelled
  BY <1>1 DEF Session
<1> HIDE DEF q
<1>5. session'[s] = q /\ \A t \in Sessions \ {s} : session'[t] = session[t]
  BY <1>1, <1>3
<1>6. \A t \in Sessions : /\ session'[t].watch = session[t].watch
                          /\ session'[t].auto = session[t].auto
  BY <1>4, <1>5
<1>7. PostedAt(s)'
  BY <1>1, <1>2, <1>4, <1>5 DEF PostedAt, Clear, Linked, left
<1>8. Posted'
  BY <1>2, <1>5, <1>7, OnePosted DEF RegInv
<1>9. CASE ~over \/ i = Nothing
  <2>1. q.active = session[s].active /\ job' = job
    BY <1>4, <1>9 DEF RequestCancel, left
  <2>2. \A t \in Sessions : SameHold(session[t], session'[t])
    BY <1>4, <1>5, <2>1 DEF SameHold
  <2>3. Quiet
    BY <1>2, <2>1, <2>2 DEF Quiet, SameCount
  <2>4. Awaited'
    BY <1>2, <2>1, AwaitedStill DEF RegInv, Awaited
  <2> QED BY <1>8, <2>3, <2>4, QuietStep DEF RegInv, IInv
<1>10. CASE over /\ i # Nothing
  <2>1. q.active = Nothing /\ job' = [job EXCEPT ![i] = Unsubscribed(@, 1)] /\ i \in Jobs
    BY <1>1, <1>4, <1>10 DEF RequestCancel, left, Session
  <2>2. x \in H(i)
    BY DEF Held, Tags
  <2>3. \A j \in Jobs : Held(Binding', Joining', session', owners', j)
                          = IF j = i THEN H(j) \ {x} ELSE H(j)
    BY <1>2, <1>4, <1>5, <2>1, ConstantsAssumption DEF Held
  <2>4. /\ Registers' /\ Spares /\ Takes
        /\ \A j \in Jobs : /\ job'[j].waiter = job[j].waiter
                           /\ job[j].waiter => job'[j].linked = job[j].linked
    <3> HIDE DEF i, x
    <3> QED BY <1>2, <1>6, <2>1, <2>2, <2>3, LossStep
  <2>5. Awaited'
    BY <1>2, <2>4, AwaitedStill DEF RegInv, Awaited
  <2> QED BY <1>8, <2>4, <2>5 DEF RegInv
<1> QED BY <1>9, <1>10

LEMMA AutoIndexJoinedCounts ==
  ASSUME IInv, TypeOK', RegInv, NEW s \in Sessions, AutoIndexJoined(s)
  PROVE  RegInv' /\ Spares /\ Takes
<1> DEFINE i == leaving[s].job
           H(j) == Held(Binding, Joining, session, owners, j)
           x == <<s, "leaving">>
<1>1. i \in Jobs /\ leaving[s].pc = "joining" /\ PostedAt(s) /\ Joining[s] = i
  BY DEF AutoIndexJoined, RegInv, Posted, PostedAt, IInv, TypeOK, Joining
<1>2. /\ owners' = owners /\ unvisited' = unvisited /\ session' = session
      /\ Binding' = Binding /\ pc' = pc /\ arg' = arg
      /\ job' = Reaped([job EXCEPT ![i] = Unsubscribed(@, 1)])
  BY DEF AutoIndexJoined, Binding
<1>3. /\ leaving'[s].pc = "left" /\ leaving'[s].job = Nothing
      /\ \A t \in Sessions \ {s} : leaving'[t] = leaving[t]
  BY DEF AutoIndexJoined, IInv, TypeOK
<1>4. Joining'[s] = Nothing /\ \A t \in Sessions \ {s} : Joining'[t] = Joining[t]
  BY <1>3 DEF Joining
<1>5. x \in H(i)
  BY <1>1 DEF Held, Tags
<1> HIDE DEF i
<1>6. \A j \in Jobs : Held(Binding', Joining', session', owners', j)
                        = IF j = i THEN H(j) \ {x} ELSE H(j)
  BY <1>1, <1>2, <1>4, ConstantsAssumption DEF Held
<1>7. /\ Registers' /\ Spares /\ Takes
      /\ \A j \in Jobs : /\ job'[j].waiter = job[j].waiter
                         /\ job[j].waiter => job'[j].linked = job[j].linked
  <2> HIDE DEF x
  <2> QED BY <1>1, <1>2, <1>5, <1>6, LossStep
<1>8. PostedAt(s)'
  BY <1>1, <1>2, <1>3 DEF PostedAt, Clear, Linked
<1>9. Posted'
  BY <1>2, <1>3, <1>8, OnePosted DEF RegInv
<1>10. Awaited'
  BY <1>2, <1>7, AwaitedStill DEF RegInv, Awaited
<1> QED BY <1>7, <1>9, <1>10 DEF RegInv

(* Session objects may change in all but what they hold.                   *)
LEMMA SameKempt ==
  ASSUME NEW st \in SharedState, NEW B, NEW L, Kempt(st, B, L), NEW u \in SharedState,
         u.job = st.job, u.owners = st.owners,
         \A s \in Sessions : SameHold(st.session[s], u.session[s])
  PROVE  Kempt(u, B, L)
<1>1. \A j \in Jobs : Held(B, L, u.session, u.owners, j) = Held(B, L, st.session, st.owners, j)
  BY DEF Held, SameHold
<1>2. Counted(u, B, L)
  BY <1>1 DEF Kempt, Counted
<1>3. \A j \in Jobs : Steady(st.job[j], u.job[j])
  BY DEF Steady
<1> QED BY <1>2, <1>3, LedgerStep DEF SameHold

(* Finished jobs are freed, and nobody's references change.                *)
LEMMA ReapStep ==
  ASSUME IInv, TypeOK', RegInv, job' = Reaped(job), owners' = owners,
         \A s \in Sessions : SameHold(session[s], session'[s]),
         Binding' = Binding, Joining' = Joining
  PROVE  /\ Registers' /\ Spares /\ Takes
         /\ \A j \in Jobs : /\ job'[j].waiter = job[j].waiter
                            /\ job[j].waiter => job'[j].linked = job[j].linked
<1> DEFINE u == [Shared EXCEPT !.job = Reaped(Shared.job)]
<1>1. /\ Shared \in SharedState /\ Shared.session = session /\ Shared.job = job
      /\ Shared.owners = owners /\ Kempt(Shared, Binding, Joining)
      /\ Shared' \in SharedState /\ Shared'.session = session'
      /\ Shared'.job = job' /\ Shared'.owners = owners'
  BY Register
<1>2. u = [Shared EXCEPT !.job = Reaped(Shared.job)]
  OBVIOUS
<1> HIDE DEF u
<1>3. /\ u \in SharedState /\ Kempt(u, Binding, Joining)
      /\ u.session = session /\ u.owners = owners /\ u.job = Reaped(job)
      /\ \A j \in Jobs : /\ u.job[j].cancelReq => job[j].cancelReq
                         /\ u.job[j].waiter = job[j].waiter
                         /\ job[j].waiter => u.job[j] = job[j]
  BY <1>1, <1>2, ReapedKempt
<1>4. Kempt(Shared', Binding, Joining)
  BY <1>1, <1>3, SameKempt
<1>5. Spares /\ Takes
  BY <1>3 DEF Spares, Takes, SameHold
<1> QED BY <1>3, <1>4, <1>5 DEF Registers

LEMMA BackgroundInitializeCounts ==
  ASSUME IInv, TypeOK', RegInv, NEW s \in Sessions, BackgroundInitialize(s)
  PROVE  RegInv' /\ Spares /\ Takes
<1> DEFINE Goal == /\ Registers' /\ Spares /\ Takes
                   /\ \A i \in Jobs : /\ job'[i].waiter = job[i].waiter
                                      /\ job[i].waiter /\ job[i].linked => job'[i].linked
           attempt == session[s].auto = Nothing /\ (~session[s].evaluated \/ session[s].retry)
           evaluated == session[s].evaluated \/ attempt
           retry == session[s].retry /\ ~attempt
           q == [session[s] EXCEPT !.eligible = TRUE, !.evaluated = evaluated,
                                   !.retry = retry]
           z(j) == [session[s] EXCEPT !.eligible = TRUE, !.evaluated = TRUE,
                                      !.auto = j, !.retry = j = Nothing]
<1>1. /\ pc[s] = "background" /\ Linked(s) /\ s \in Actors /\ s # Watcher
      /\ session \in [Sessions -> Session] /\ PostedAt(s) /\ Reaped(job) \in JobMap
  <2>1. Reaped(job) \in JobMap
    BY ReapedKeeps DEF IInv, TypeOK, JobMap
  <2> QED
    BY <2>1, Busy, ConstantsAssumption
       DEF BackgroundInitialize, Actors, RegInv, Posted, IInv, TypeOK
<1>2. /\ owners' = owners /\ leaving' = leaving /\ unvisited' = unvisited
      /\ Joining' = Joining /\ arg' = [arg EXCEPT ![s] = NoArg]
  BY DEF BackgroundInitialize, Joining
<1>3. \E to \in {"idle", "rewatch"} : pc' = [pc EXCEPT ![s] = to]
  BY DEF BackgroundInitialize
<1>4. /\ \A t \in Sessions \ {s} : pc'[t] = pc[t] /\ arg'[t] = arg[t]
      /\ pc'[Watcher] = pc[Watcher] /\ arg'[Watcher] = arg[Watcher]
      /\ pc'[s] \in {"idle", "rewatch"}
  <2>1. \A a \in Actors \ {s} : pc'[a] = pc[a] /\ arg'[a] = arg[a]
    BY <1>2, <1>3 DEF IInv, TypeOK
  <2> QED BY <1>1, <1>3, <2>1 DEF Actors, IInv, TypeOK
<1>5. Binding' = Binding
  BY <1>1, <1>4 DEF Binding
<1>6. \/ (stopping \/ RequestCancelled(s)) /\ job' = Reaped(job) /\ session' = session
      \/ /\ ~stopping /\ ~RequestCancelled(s) /\ job' = Reaped(job)
         /\ session' = [session EXCEPT ![s] = q]
      \/ /\ ~stopping /\ ~RequestCancelled(s) /\ session[s].auto = Nothing
         /\ \E x \in Subscriptions(Reaped(job), Home[s], "default") :
              job' = x.jobs /\ session' = [session EXCEPT ![s] = z(x.job)]
  <2>1. CASE stopping \/ RequestCancelled(s)
    BY <2>1 DEF BackgroundInitialize
  <2>2. CASE /\ ~stopping /\ ~RequestCancelled(s) /\ job' = Reaped(job)
             /\ session' = [session EXCEPT ![s].eligible = TRUE,
                              ![s].evaluated = @ \/ attempt, ![s].retry = @ /\ ~attempt]
    BY <1>1, <2>2
  <2>3. ASSUME ~stopping, ~RequestCancelled(s), session[s].auto = Nothing,
               NEW x \in Subscriptions(Reaped(job), Home[s], "default"), job' = x.jobs,
               session' = [session EXCEPT ![s].eligible = TRUE, ![s].evaluated = TRUE,
                              ![s].auto = x.job, ![s].retry = x.job = Nothing]
        PROVE  \E w \in Subscriptions(Reaped(job), Home[s], "default") :
                 job' = w.jobs /\ session' = [session EXCEPT ![s] = z(w.job)]
    <3>1. session' = [session EXCEPT ![s] = z(x.job)]
      BY <1>1, <2>3
    <3> HIDE DEF z
    <3> QED BY <2>3, <3>1
  <2>4. \/ stopping \/ RequestCancelled(s)
        \/ /\ ~stopping /\ ~RequestCancelled(s) /\ job' = Reaped(job)
           /\ session' = [session EXCEPT ![s].eligible = TRUE,
                            ![s].evaluated = @ \/ attempt, ![s].retry = @ /\ ~attempt]
        \/ /\ ~stopping /\ ~RequestCancelled(s) /\ session[s].auto = Nothing
           /\ \E x \in Subscriptions(Reaped(job), Home[s], "default") :
                /\ job' = x.jobs
                /\ session' = [session EXCEPT ![s].eligible = TRUE, ![s].evaluated = TRUE,
                                 ![s].auto = x.job, ![s].retry = x.job = Nothing]
    BY DEF BackgroundInitialize
  <2> HIDE DEF q, z, attempt
  <2> QED BY <2>1, <2>2, <2>3, <2>4
<1> HIDE DEF attempt, evaluated, retry
<1>7. /\ SameHold(session[s], q) /\ q.life = session[s].life
      /\ q.cancelled = session[s].cancelled
      /\ \A j : /\ z(j).auto = j /\ z(j).active = session[s].active
                /\ z(j).watch = session[s].watch /\ z(j).life = session[s].life
                /\ z(j).cancelled = session[s].cancelled
  BY <1>1 DEF Session, SameHold
<1> HIDE DEF q, z
<1>8. /\ session'[s].life = session[s].life /\ session'[s].cancelled = session[s].cancelled
      /\ session'[s].active = session[s].active /\ session'[s].watch = session[s].watch
      /\ \A t \in Sessions \ {s} : session'[t] = session[t]
  <2>1. session' = session \/ session' = [session EXCEPT ![s] = q]
          \/ \E j : session' = [session EXCEPT ![s] = z(j)]
    BY <1>6
  <2>2. CASE session' = session
    BY <2>2
  <2>3. CASE session' = [session EXCEPT ![s] = q]
    BY <1>1, <1>7, <2>3 DEF SameHold
  <2>4. ASSUME NEW j, session' = [session EXCEPT ![s] = z(j)]
        PROVE  /\ session'[s].life = session[s].life
               /\ session'[s].cancelled = session[s].cancelled
               /\ session'[s].active = session[s].active
               /\ session'[s].watch = session[s].watch
               /\ \A t \in Sessions \ {s} : session'[t] = session[t]
    BY <1>1, <1>7, <2>4
  <2> QED BY <2>1, <2>2, <2>3, <2>4
<1>9. Goal /\ (session'[s].auto = session[s].auto \/ ~RequestCancelled(s))
  <2>1. CASE stopping \/ RequestCancelled(s)
    <3>1. job' = Reaped(job) /\ session' = session
      BY <2>1 DEF BackgroundInitialize
    <3>2. Goal
      BY <1>2, <1>5, <3>1, ReapStep DEF SameHold
    <3> QED BY <3>1, <3>2
  <2>2. CASE /\ ~stopping /\ ~RequestCancelled(s) /\ job' = Reaped(job)
             /\ session' = [session EXCEPT ![s] = q]
    <3>1. \A t \in Sessions : SameHold(session[t], session'[t])
      BY <1>1, <1>7, <2>2 DEF SameHold
    <3> QED BY <1>2, <1>5, <2>2, <3>1, ReapStep
  <2>3. ASSUME ~stopping, ~RequestCancelled(s), session[s].auto = Nothing,
               NEW x \in Subscriptions(Reaped(job), Home[s], "default"), job' = x.jobs,
               session' = [session EXCEPT ![s] = z(x.job)]
        PROVE  Goal
    <3> DEFINE p == Home[s]
               o == "default"
               js == Reaped(job)
               y == <<s, "auto">>
               j == x.job
    <3>1. j \in Jobs \cup {Nothing} /\ (j # Nothing <=> x.status = "ok")
      BY <1>1, Answered
    <3>2. /\ session'[s].auto = j
      BY <1>1, <1>7, <2>3
    <3> HIDE DEF j
    <3>3. y \in Referrers /\ \A i \in Jobs : y \notin Held(Binding, Joining, session, owners, i)
      <4>1. y \in Referrers
        BY <1>1 DEF Referrers, Tags
      <4>2. \A i \in Jobs : y \notin Held(Binding, Joining, session, owners, i)
        BY <2>3, ConstantsAssumption DEF Held
      <4> QED BY <4>1, <4>2
    <3>4. \A i \in Jobs : Held(Binding', Joining', session', owners', i)
                            = IF i = j
                              THEN Held(Binding, Joining, session, owners, i) \cup {y}
                              ELSE Held(Binding, Joining, session, owners, i)
      BY <1>2, <1>5, <1>8, <2>3, <3>1, <3>2, ConstantsAssumption DEF Held, Tags
    <3>5. /\ p \in Projects /\ o \in Options /\ x \in Subscriptions(js, p, o)
          /\ js = job \/ js = Reaped(job)
      BY <2>3, ConstantsAssumption DEF Options
    <3>6. /\ \A t \in Sessions : session'[t].watch = session[t].watch
          /\ \A t \in Sessions : \/ session'[t].auto \in {Nothing, session[t].auto}
                                 \/ session'[t].auto = x.job /\ p = Home[t]
      BY <1>8, <3>2 DEF j
    <3>7. Gains(js, p, o, x, y)
      BY <1>2, <2>3, <3>3, <3>4, <3>5, <3>6 DEF Gains, j
    <3> HIDE DEF y, p, o, js
    <3> QED BY <3>5, <3>7, GainStep
  <2> HIDE DEF Goal
  <2> QED BY <1>6, <2>1, <2>2, <2>3
<1>10. PostedAt(s)'
  <2>1. leaving[s].pc # "no" => Clear(s) /\ session[s].cancelled
    BY <1>1 DEF PostedAt
  <2>2. leaving[s].pc # "no" => session'[s].auto = Nothing
    BY <1>9, <2>1 DEF Clear, RequestCancelled
  <2> QED
    BY <1>1, <1>2, <1>4, <1>8, <2>2 DEF PostedAt, Clear, Linked
<1>11. Posted'
  BY <1>2, <1>4, <1>8, <1>10, OnePosted DEF RegInv
<1>12. Awaited'
  BY <1>4, <1>9, AwaitedStill DEF RegInv, Awaited
<1> QED BY <1>9, <1>11, <1>12 DEF RegInv

(* Steps of the watches leave the posts of the threads as they are.        *)
LEMMA WatchPosted ==
  ASSUME Posted, Moves, \A s \in Sessions : Steers(session[s], session'[s], s),
         session' \in [Sessions -> Session]
  PROVE  Posted'
<1> SUFFICES ASSUME NEW s \in Sessions
             PROVE  PostedAt(s)'
  BY DEF Posted
<1>1. PostedAt(s) /\ Steers(session[s], session'[s], s)
  BY DEF Posted
<1>2. (~Linked(s) => Clear(s) /\ pc[s] = "idle" /\ s \notin unvisited)'
  BY <1>1 DEF PostedAt, Steers, Moves, Clear, Linked
<1>3. (leaving[s].pc # "no" => Clear(s) /\ (Linked(s) => session[s].cancelled))'
  BY <1>1 DEF PostedAt, Steers, Moves, Clear, Linked
<1>4. (pc[s] \in {"bind", "wait"} => arg[s].job \in Jobs)'
  BY <1>1 DEF PostedAt, Moves
<1> QED
  BY <1>1, <1>2, <1>3, <1>4 DEF PostedAt, Steers, Moves, Linked

(* A refresh, or its failure, keeps the registers.                         *)
LEMMA RefreshStep ==
  ASSUME IInv, TypeOK', RegInv, NEW st \in SharedState, NEW p \in Projects,
         NEW S \in SUBSET Sessions, Readied(st, S, p),
         Install(st) \/ Install(Refreshed(st, S, p)), Moves, pc'[Watcher] = pc[Watcher]
  PROVE  RegInv' /\ Spares /\ Takes
<1>1. /\ Shared' \in SharedState /\ Shared'.session = session'
      /\ Shared'.job = job' /\ Shared'.owners = owners'
      /\ session' \in [Sessions -> Session]
  BY Register
<1>2. PICK u \in {st, Refreshed(st, S, p)} :
        u.session = session' /\ u.job = job' /\ u.owners = owners'
  BY DEF Install
<1>3. /\ Kempt(st, Binding, Joining)
      /\ \A s \in S : Home[s] = p
      /\ ActiveOf(st.job, p) = {} \/ \A s, t \in S : s = t
      /\ \A i, j \in Active(st.job) : st.job[i].project = st.job[j].project => i = j
      /\ \A j \in Active(st.job) : st.job[j].linked
  BY DEF Readied, Active
<1>5. /\ u \in SharedState
      /\ Kempt(u, Binding, Joining)
      /\ \A j \in Jobs : Same(st.job[j], u.job[j])
      /\ Spared(st.job, u.job, HeldBy(u, Binding, Joining))
      /\ \A s \in Sessions :
           /\ Still(st.session[s], u.session[s])
           /\ u.session[s].watch /\ ~st.session[s].watch =>
                /\ s \in S /\ Welcome(st.session[s], s)
                /\ Watchers(st.session, p) # {} =>
                     \A j \in ActiveOf(st.job, p) :
                       st.job[j].waiter => <<s, j>> \in u.owners
  <2>1. CASE u = st
    <3>1. \A j \in Jobs : Same(st.job[j], u.job[j])
      BY <2>1 DEF Same, Alike
    <3>2. Spared(st.job, u.job, HeldBy(u, Binding, Joining))
      BY <2>1 DEF Spared
    <3>3. \A s \in Sessions : Still(st.session[s], u.session[s])
      BY <2>1 DEF Still
    <3> QED BY <1>3, <2>1, <3>1, <3>2, <3>3
  <2>2. CASE u = Refreshed(st, S, p)
    BY <1>3, <2>2, RefreshedKempt
  <2> QED BY <1>2, <2>1, <2>2
<1>6. Shared' = u
  BY <1>1, <1>2, <1>5 DEF SharedState
<1>7. Registers'
  BY <1>5, <1>6 DEF Registers, Moves
<1>8. Spares
  BY <1>2, <1>5 DEF Spares, Spared, HeldBy, Readied, Moves
<1>9. \A s \in Sessions : /\ st.session[s].watch = session[s].watch
                          /\ Steers(session[s], st.session[s], s)
  BY DEF Readied
<1>10. Takes
  <2> SUFFICES ASSUME NEW s \in Sessions, ~session[s].watch, session'[s].watch,
                      Watchers(session, Home[s]) # {},
                      NEW j \in ActiveOf(job', Home[s]), job'[j].waiter
               PROVE  <<s, j>> \in owners'
    BY DEF Takes
  <2>1. s \in S /\ Home[s] = p
    BY <1>2, <1>3, <1>5, <1>9
  <2>2. Watchers(st.session, p) # {}
    BY <1>9, <2>1 DEF Watchers
  <2>3. j \in ActiveOf(st.job, p) /\ st.job[j].waiter
    BY <1>2, <1>5, <2>1 DEF ActiveOf, Active, Same, Alike
  <2> QED BY <1>2, <1>5, <1>9, <2>2, <2>3
<1>11. ASSUME NEW s \in Sessions
       PROVE  Steers(session[s], session'[s], s)
  <2>1. Still(st.session[s], session'[s]) /\ Steers(session[s], st.session[s], s)
    BY <1>2, <1>5, <1>9
  <2>2. session'[s].watch /\ ~session[s].watch => Linked(s) /\ ~session[s].cancelled
    BY <1>2, <1>5, <1>9 DEF Readied, Welcome, RequestCancelled
  <2> QED BY <2>1, <2>2 DEF Still, Steers
<1>12. Posted'
  BY <1>1, <1>11, WatchPosted DEF RegInv
<1>13. \A j \in Jobs : /\ job'[j].waiter = job[j].waiter
                       /\ job[j].waiter => job'[j].linked
  BY <1>2, <1>5 DEF Readied, Same, Alike, RegInv, Awaited
<1>14. Awaited'
  BY <1>13, AwaitedStill DEF RegInv, Moves
<1> QED BY <1>7, <1>8, <1>10, <1>12, <1>14 DEF RegInv

LEMMA RequestRefreshCounts ==
  ASSUME IInv, TypeOK', RegInv, NEW s \in Sessions, RequestRefresh(s)
  PROVE  RegInv' /\ Spares /\ Takes
<1>1. /\ pc[s] \in {"refresh", "rewatch"} /\ Linked(s) /\ s \in Actors /\ s # Watcher
      /\ Home[s] \in Projects
  BY Busy, ConstantsAssumption DEF RequestRefresh, Actors, RegInv
<1>2. /\ Shared \in SharedState /\ Shared.session = session /\ Shared.job = job
      /\ Shared.owners = owners /\ Kempt(Shared, Binding, Joining)
  BY Register
<1>3. \E to \in {"finish", "idle"} : pc' = [pc EXCEPT ![s] = to]
  BY DEF RequestRefresh
<1>4. /\ leaving' = leaving /\ arg' = arg /\ unvisited' = unvisited
      /\ Install(Refreshed(Shared, {s}, Home[s]))
  BY DEF RequestRefresh
<1>5. \A a \in Actors \ {s} : pc'[a] = pc[a]
  BY <1>3 DEF IInv, TypeOK
<1>6. pc'[s] \in {"finish", "idle"}
  BY <1>1, <1>3 DEF IInv, TypeOK
<1>7. Moves /\ pc'[Watcher] = pc[Watcher]
  BY <1>1, <1>4, <1>5, <1>6 DEF Moves, Binding, Joining, Actors
<1>8. Readied(Shared, {s}, Home[s])
  BY <1>1, <1>2 DEF Readied, Steers, IInv, Limited
<1> DEFINE S == {s}
           p == Home[s]
<1>9. S \in SUBSET Sessions /\ p \in Projects /\ Readied(Shared, S, p)
      /\ Install(Refreshed(Shared, S, p))
  BY <1>1, <1>4, <1>8
<1> HIDE DEF S, p
<1> QED BY <1>2, <1>7, <1>9, RefreshStep

(* The watcher's prune takes the watch from all sessions of the project.   *)
LEMMA ProjectPrunedCounts ==
  ASSUME IInv, TypeOK', RegInv, ProjectPruned
  PROVE  RegInv' /\ Spares /\ Takes
<1> DEFINE S == Watchers(session, arg[Watcher].key)
           u == Unwatched(Shared, S)
<1>1. /\ Shared \in SharedState /\ Shared.session = session /\ Shared.job = job
      /\ Shared.owners = owners /\ Kempt(Shared, Binding, Joining)
      /\ Shared' \in SharedState /\ Shared'.session = session'
      /\ Shared'.job = job' /\ Shared'.owners = owners'
      /\ session' \in [Sessions -> Session]
  BY Register
<1>2. /\ pc[Watcher] = "pruned" /\ pc' = [pc EXCEPT ![Watcher] = "release"]
      /\ leaving' = leaving /\ arg' = arg /\ unvisited' = unvisited
      /\ u.session = session' /\ u.job = job' /\ u.owners = owners'
  BY DEF ProjectPruned, Install
<1>3. pc'[Watcher] = "release" /\ \A s \in Sessions : pc'[s] = pc[s]
  BY <1>2, ConstantsAssumption DEF IInv, TypeOK, Actors
<1>4. S \in SUBSET Sessions /\ u = Unwatched(Shared, S)
  BY DEF Watchers
<1> HIDE DEF S, u
<1>5. /\ u \in SharedState
      /\ Kempt(u, Binding, Joining)
      /\ \A j \in Jobs : Same(job[j], u.job[j])
      /\ Spared(job, u.job, HeldBy(u, Binding, Joining))
      /\ \A s \in Sessions : /\ Still(session[s], u.session[s])
                             /\ u.session[s].watch <=> session[s].watch /\ s \notin S
  BY <1>1, <1>4, UnwatchedKempt
<1>6. Shared' = u
  BY <1>1, <1>2, <1>5 DEF SharedState
<1>7. Moves
  BY <1>2, <1>3 DEF Moves, Binding, Joining
<1>8. Registers'
  BY <1>5, <1>6, <1>7 DEF Registers, Moves
<1>9. Spares
  BY <1>2, <1>5, <1>7 DEF Spares, Spared, HeldBy, Moves
<1>10. Takes
  BY <1>2, <1>5 DEF Takes
<1>11. \A s \in Sessions : Steers(session[s], session'[s], s)
  BY <1>2, <1>5 DEF Steers, Still
<1>12. Posted'
  BY <1>1, <1>7, <1>11, WatchPosted DEF RegInv
<1>13. Awaited'
  BY <1>2, <1>3, <1>5 DEF RegInv, Awaited, Same
<1> QED BY <1>8, <1>9, <1>10, <1>12, <1>13 DEF RegInv

(* One session of the retry sets up its watch, or asks for its index.      *)
LEMMA AutoIndexRetryCounts ==
  ASSUME IInv, TypeOK', RegInv, AutoIndexRetry
  PROVE  RegInv' /\ Spares /\ Takes
<1> DEFINE due(s) == session[s].retry /\ session[s].auto = Nothing /\ ~session[s].cancelled
<1>1. PICK s \in unvisited :
        \/ /\ ~due(s) /\ unvisited' = unvisited \ {s}
           /\ session' = session /\ job' = job /\ owners' = owners
        \/ /\ due(s) /\ unvisited' = unvisited \ {s}
           /\ Install(Refreshed([Shared EXCEPT !.session =
                                  [session EXCEPT ![s].retry = FALSE]], {s}, Home[s]))
        \/ /\ due(s) /\ owners' = owners /\ unvisited' \in {{}, unvisited \ {s}}
           /\ \E x \in Subscriptions(job, Home[s], "default") :
                /\ session' = IF x.job = Nothing THEN session
                              ELSE [session EXCEPT ![s].auto = x.job, ![s].retry = FALSE]
                /\ job' = x.jobs
  BY DEF AutoIndexRetry
<1>2. /\ s \in Sessions /\ Linked(s) /\ Home[s] \in Projects /\ PostedAt(s)
      /\ session \in [Sessions -> Session]
  BY ConstantsAssumption DEF IInv, TypeOK, RegInv, Posted, PostedAt
<1>3. /\ pc' = pc /\ arg' = arg /\ leaving' = leaving
      /\ Binding' = Binding /\ Joining' = Joining
  BY DEF AutoIndexRetry, Binding, Joining
<1>4. /\ Shared \in SharedState /\ Shared.session = session /\ Shared.job = job
      /\ Shared.owners = owners /\ Kempt(Shared, Binding, Joining)
      /\ job \in JobMap /\ session' \in [Sessions -> Session]
  BY Register
<1>5. Moves
  BY <1>1, <1>3 DEF Moves
<1>6. CASE ~due(s) /\ session' = session /\ job' = job /\ owners' = owners
  <2>1. Quiet
    BY <1>3, <1>6 DEF Quiet, SameHold, SameCount
  <2>2. Posted'
    <3>1. \A t \in Sessions : Steers(session[t], session'[t], t)
      BY <1>6 DEF Steers
    <3> QED BY <1>4, <1>5, <3>1, WatchPosted DEF RegInv
  <2>3. Awaited'
    BY <1>3, <1>6, AwaitedStill DEF RegInv, Awaited
  <2> QED BY <2>1, <2>2, <2>3, QuietStep DEF RegInv, IInv
<1>7. CASE Install(Refreshed([Shared EXCEPT !.session =
                                [session EXCEPT ![s].retry = FALSE]], {s}, Home[s]))
  <2> DEFINE ss == [session EXCEPT ![s].retry = FALSE]
             st == [Shared EXCEPT !.session = ss]
             S == {s}
             p == Home[s]
  <2>1. /\ ss \in [Sessions -> Session] /\ st \in SharedState
        /\ st.session = ss /\ st.job = job /\ st.owners = owners
    <3>1. \A q \in Session : [q EXCEPT !.retry = FALSE] \in Session
      BY DEF Session
    <3>2. ss = [session EXCEPT ![s] = [session[s] EXCEPT !.retry = FALSE]]
      OBVIOUS
    <3>3. ss \in [Sessions -> Session]
      BY <1>2, <3>1, <3>2
    <3> HIDE DEF ss
    <3> QED BY <1>4, <3>3 DEF SharedState
  <2>2. \A t \in Sessions : /\ SameHold(session[t], ss[t]) /\ ss[t].life = session[t].life
                            /\ ss[t].cancelled = session[t].cancelled
    <3>1. \A q \in Session : LET r == [q EXCEPT !.retry = FALSE]
                             IN  SameHold(q, r) /\ r.life = q.life /\ r.cancelled = q.cancelled
      BY DEF Session, SameHold
    <3>2. ss = [session EXCEPT ![s] = [session[s] EXCEPT !.retry = FALSE]]
      OBVIOUS
    <3> QED BY <1>2, <3>1, <3>2 DEF SameHold
  <2>3. /\ Install(Refreshed(st, S, p)) /\ S \in SUBSET Sessions /\ p \in Projects
        /\ \A t \in S : Home[t] = p /\ Linked(t)
        /\ \A t, r \in S : t = r
    BY <1>2, <1>7
  <2> HIDE DEF ss, st, S, p
  <2>4. Kempt(st, Binding, Joining)
    BY <1>4, <2>1, <2>2, SameKempt
  <2>5. Readied(st, S, p)
    BY <2>1, <2>2, <2>3, <2>4 DEF Readied, Steers, SameHold, IInv, Limited
  <2> QED BY <1>3, <1>5, <2>1, <2>3, <2>5, RefreshStep
<1>8. ASSUME due(s), owners' = owners, NEW x \in Subscriptions(job, Home[s], "default"),
             session' = IF x.job = Nothing THEN session
                        ELSE [session EXCEPT ![s].auto = x.job, ![s].retry = FALSE],
             job' = x.jobs
      PROVE  RegInv' /\ Spares /\ Takes
  <2> DEFINE p == Home[s]
             o == "default"
             js == job
             y == <<s, "auto">>
             j == x.job
             q == [session[s] EXCEPT !.auto = j, !.retry = FALSE]
  <2>1. j \in Jobs \cup {Nothing}
    BY <1>4, Answered
  <2>2. /\ q.auto = j /\ q.active = session[s].active /\ q.watch = session[s].watch
        /\ q.life = session[s].life /\ q.cancelled = session[s].cancelled
    BY <1>2 DEF Session
  <2>3. (session' = session /\ j = Nothing) \/ session' = [session EXCEPT ![s] = q]
    BY <1>8
  <2> HIDE DEF q, j
  <2>4. /\ session'[s].auto = j /\ session'[s].active = session[s].active
        /\ session'[s].watch = session[s].watch /\ session'[s].life = session[s].life
        /\ session'[s].cancelled = session[s].cancelled
        /\ \A t \in Sessions \ {s} : session'[t] = session[t]
    BY <1>2, <1>8, <2>2, <2>3
  <2>5. y \in Referrers /\ \A i \in Jobs : y \notin Held(Binding, Joining, session, owners, i)
    <3>1. y \in Referrers
      BY <1>2 DEF Referrers, Tags, Actors
    <3>2. \A i \in Jobs : y \notin Held(Binding, Joining, session, owners, i)
      BY <1>8, ConstantsAssumption DEF Held
    <3> QED BY <3>1, <3>2
  <2>6. \A i \in Jobs : Held(Binding', Joining', session', owners', i)
                          = IF i = j
                            THEN Held(Binding, Joining, session, owners, i) \cup {y}
                            ELSE Held(Binding, Joining, session, owners, i)
    BY <1>2, <1>3, <1>8, <2>1, <2>4, ConstantsAssumption DEF Held, Tags
  <2>7. /\ p \in Projects /\ o \in Options /\ x \in Subscriptions(js, p, o)
        /\ js = job \/ js = Reaped(job)
    BY <1>2, <1>8 DEF Options
  <2>8. /\ \A t \in Sessions : session'[t].watch = session[t].watch
        /\ \A t \in Sessions : \/ session'[t].auto \in {Nothing, session[t].auto}
                               \/ session'[t].auto = x.job /\ p = Home[t]
    BY <2>4 DEF j
  <2>9. Gains(js, p, o, x, y)
    BY <1>8, <2>5, <2>6, <2>7, <2>8 DEF Gains, j
  <2> HIDE DEF y, p, o, js
  <2>10. /\ Registers' /\ Spares /\ Takes
         /\ \A i \in Jobs : /\ job'[i].waiter = job[i].waiter
                            /\ job[i].waiter /\ job[i].linked => job'[i].linked
    BY <2>7, <2>9, GainStep
  <2>11. ASSUME NEW t \in Sessions
         PROVE  PostedAt(t)'
    <3>1. PostedAt(t) /\ \A r \in unvisited' : r \in unvisited
      BY <1>1 DEF RegInv, Posted
    <3>2. CASE t = s
      <4>1. leaving[s].pc = "no"
        BY <1>2, <1>8 DEF PostedAt
      <4> QED
        BY <1>2, <1>3, <2>4, <3>1, <3>2, <4>1 DEF PostedAt, Linked
    <3>3. CASE t # s
      BY <1>3, <2>4, <3>1, <3>3 DEF PostedAt, Linked, Clear
    <3> QED BY <3>2, <3>3
  <2>12. Awaited'
    BY <1>3, <2>10, AwaitedStill DEF RegInv, Awaited
  <2> QED BY <2>10, <2>11, <2>12 DEF RegInv, Posted
<1> QED BY <1>1, <1>6, <1>7, <1>8

(* The sessions of S lose their auto-index job and nothing else.           *)
LEMMA AutoCleared ==
  ASSUME NEW old \in [Sessions -> Session], NEW S
  PROVE  /\ Cleared(old, S) \in [Sessions -> Session]
         /\ \A s \in Sessions : LET q == Cleared(old, S)[s]
                               IN  /\ q.active = old[s].active /\ q.watch = old[s].watch
                                   /\ q.life = old[s].life
                                   /\ q.cancelled = old[s].cancelled
                                   /\ s \in S => q.auto = Nothing
                                   /\ s \notin S => q.auto = old[s].auto
<1>1. \A r \in Session : LET q == [r EXCEPT !.auto = Nothing]
                         IN  /\ q \in Session /\ q.active = r.active /\ q.watch = r.watch
                             /\ q.life = r.life /\ q.cancelled = r.cancelled
                             /\ q.auto = Nothing
  BY DEF Session
<1> QED BY <1>1 DEF Cleared

(* The registers agree after a publication, before the retries.            *)
LEMMA EndedKempt ==
  ASSUME IInv, RegInv, NEW j \in Jobs, NEW r \in Job, NEW S, NEW st \in SharedState,
         EndsTo(j, r, S, st)
  PROVE  /\ Kempt(st, Binding, Joining)
         /\ \A i \in Jobs : /\ st.job[i].cancelReq => job[i].cancelReq
                            /\ st.job[i].waiter = job[i].waiter
                            /\ st.job[i].linked = job[i].linked
         /\ st.job[j].terminal /\ \A i \in Jobs \ {j} : st.job[i] = job[i]
<1>1. /\ Shared \in SharedState /\ Shared.session = session /\ Shared.job = job
      /\ Shared.owners = owners /\ Kempt(Shared, Binding, Joining)
      /\ session \in [Sessions -> Session] /\ job \in [Jobs -> Job] /\ job[j] \in Job
  BY SharedType DEF IInv, TypeOK, RegInv, Registers
<1> DEFINE H == Held(Binding, Joining, session, owners, j)
           G == {q \in Sessions \X Tags : q[1] \in S /\ q[2] = "auto"}
           n == Cardinality(S)
           d == Unsubscribed(r, n)
<1>2. S \in SUBSET Sessions /\ S = {s \in Sessions : session[s].auto = j}
  <2>1. \A s \in Sessions : session[s].auto = j => Linked(s)
    BY ConstantsAssumption DEF RegInv, Posted, PostedAt, Clear
  <2> QED BY <2>1 DEF EndsTo
<1>3. H \in SUBSET Referrers /\ Backed(job[j], H)
  BY <1>1, HeldType DEF Kempt, Counted
<1>4. Backed(r, H)
  BY <1>3 DEF Backed, EndsTo, Ends
<1>5. G \in SUBSET H
  BY <1>2 DEF Held
<1>6. n = Cardinality(G) /\ n \in Nat
  BY <1>2, Tagged, Counting DEF Tags
<1> HIDE DEF H, G, n
<1>7. /\ Same(r, d) /\ Backed(d, H \ G)
  BY <1>3, <1>4, <1>5, <1>6, Dropped
<1>8. d.cancelReq => job[j].cancelReq
  <2> DEFINE k == IF r.subs > n THEN r.subs - n ELSE 0
             c == r.cancelReq \/ (r.subs \in 1..n /\ ~r.terminal)
  <2>1. d = [r EXCEPT !.subs = k, !.cancelReq = c]
    BY DEF Unsubscribed
  <2>2. c => job[j].cancelReq
    BY DEF EndsTo, Ends
  <2> HIDE DEF k, c, d
  <2>3. d.cancelReq = c
    BY <2>1 DEF Job
  <2> QED BY <2>2, <2>3
<1> HIDE DEF d
<1>9. st.job[j] = d /\ \A i \in Jobs \ {j} : st.job[i] = job[i]
  BY <1>1 DEF d, n, EndsTo
<1>10. \A s \in Sessions : /\ st.session[s].active = session[s].active
                           /\ st.session[s].watch = session[s].watch
                           /\ s \in S => st.session[s].auto = Nothing
                           /\ s \notin S => st.session[s].auto = session[s].auto
  BY <1>1, AutoCleared DEF EndsTo
<1>11. Counted(st, Binding, Joining)
  <2> SUFFICES ASSUME NEW i \in Jobs
               PROVE  Backed(st.job[i], Held(Binding, Joining, st.session, st.owners, i))
    BY DEF Counted
  <2>1. CASE i = j
    <3>1. Held(Binding, Joining, st.session, st.owners, i) = H \ G
      BY <1>2, <1>10, <2>1, ConstantsAssumption DEF Held, H, G, EndsTo
    <3> QED BY <1>7, <1>9, <2>1, <3>1
  <2>2. CASE i # j
    <3>1. \A s \in Sessions : st.session[s].auto = i <=> session[s].auto = i
      BY <1>2, <1>10, <2>2, ConstantsAssumption
    <3>2. Held(Binding, Joining, st.session, st.owners, i)
            = Held(Binding, Joining, session, owners, i)
      BY <1>10, <3>1 DEF Held, EndsTo
    <3> QED BY <1>1, <1>9, <2>2, <3>2 DEF Kempt, Counted
  <2> QED BY <2>1, <2>2
<1>12. ASSUME NEW i \in Jobs
       PROVE  /\ Steady(job[i], st.job[i])
              /\ st.job[i].cancelReq => job[i].cancelReq
              /\ st.job[i].waiter = job[i].waiter
              /\ st.job[i].linked = job[i].linked
  <2>1. CASE i = j
    BY <1>7, <1>8, <1>9, <2>1 DEF Same, Alike, EndsTo, Ends, Steady
  <2>2. CASE i # j
    BY <1>9, <2>2 DEF Steady
  <2> QED BY <2>1, <2>2
<1>13. st.job[j].terminal
  BY <1>7, <1>9 DEF Same, Alike, EndsTo, Ends
<1>14. \A s \in Sessions : st.session[s].auto \in {Nothing, session[s].auto}
  BY <1>10
<1>15. Kempt(st, Binding, Joining)
  <2>1. /\ st.owners = Shared.owners
        /\ \A s \in Sessions : /\ st.session[s].watch = Shared.session[s].watch
                               /\ st.session[s].auto \in {Nothing, Shared.session[s].auto}
        /\ \A i \in Jobs : Steady(Shared.job[i], st.job[i])
    BY <1>1, <1>10, <1>12, <1>14 DEF EndsTo
  <2> QED BY <1>1, <1>11, <2>1, LedgerStep
<1> QED BY <1>9, <1>12, <1>13, <1>15

(* What a publication installs: the ended job, its sessions without their  *)
(* auto-index, and for a success their watches.                            *)
LEMMA Published ==
  ASSUME IInv, NEW j \in Jobs, JobPublish(j)
  PROVE  \E r \in Job, S \in SUBSET Sessions, st \in SharedState :
           /\ EndsTo(j, r, S, st)
           /\ Install(st) \/ Install(Refreshed(st, S, job[j].project))
<1> DEFINE S == {s \in Sessions : Linked(s) /\ session[s].auto = j}
           r == [job[j] EXCEPT !.terminal = TRUE,
                   !.successful = (job[j].result = "success"),
                   !.thread = "done", !.result = "none", !.attempt = 0]
           ss == Cleared(session, S)
           ks == [job EXCEPT ![j] = Unsubscribed(r, Cardinality(S))]
           st == [session |-> ss, job |-> ks, owners |-> owners]
<1>1. Install(st) \/ Install(Refreshed(st, S, job[j].project))
  BY DEF JobPublish, Cleared
<1>2. /\ session \in [Sessions -> Session] /\ job \in [Jobs -> Job] /\ job[j] \in Job
      /\ owners \subseteq Sessions \X Jobs
  BY DEF IInv, TypeOK
<1>3. r \in Job /\ Ends(job[j], r)
  <2> DEFINE b == job[j].result = "success"
  <2>1. b \in BOOLEAN
    OBVIOUS
  <2>2. r = [job[j] EXCEPT !.terminal = TRUE, !.successful = b, !.thread = "done",
                           !.result = "none", !.attempt = 0]
    OBVIOUS
  <2>3. 0 \in 0..MaxAttempts /\ "done" \in Threads
    BY ConstantsAssumption DEF Threads
  <2> HIDE DEF b, r, st, ks, ss, S
  <2>4. r \in Job
    BY <1>2, <2>1, <2>2, <2>3 DEF Job
  <2>5. Ends(job[j], r)
    BY <1>2, <2>2 DEF Job, Ends
  <2> QED BY <2>4, <2>5
<1>4. S \in SUBSET Sessions /\ Cardinality(S) \in Nat
  BY Counting
<1>5. /\ S = {s \in Sessions : Linked(s) /\ session[s].auto = j}
      /\ ks = [job EXCEPT ![j] = Unsubscribed(r, Cardinality(S))]
      /\ ss = Cleared(session, S)
  OBVIOUS
<1> HIDE DEF r, S, ks, ss
<1>6. ks \in JobMap
  <2>1. Unsubscribed(r, Cardinality(S)) \in Job
    BY <1>3, <1>4, UnsubscribedKeeps
  <2> QED BY <1>2, <1>5, <2>1 DEF JobMap
<1>7. ss \in [Sessions -> Session]
  BY <1>2, <1>5, AutoCleared
<1>8. /\ st.session = ss /\ st.job = ks /\ st.owners = owners
      /\ st \in SharedState
  BY <1>2, <1>6, <1>7 DEF SharedState
<1> HIDE DEF st
<1>9. EndsTo(j, r, S, st)
  BY <1>3, <1>5, <1>8 DEF EndsTo
<1> QED BY <1>1, <1>3, <1>4, <1>8, <1>9

LEMMA JobPublishCounts ==
  ASSUME IInv, TypeOK', RegInv, NEW j \in Jobs, JobPublish(j)
  PROVE  RegInv' /\ Spares /\ Takes
<1> DEFINE p == job[j].project
<1>1. PICK r \in Job, S \in SUBSET Sessions, st \in SharedState :
        EndsTo(j, r, S, st) /\ (Install(st) \/ Install(Refreshed(st, S, p)))
  BY Published
<1>2. /\ job[j].thread = "publishing"
      /\ pc' = pc /\ arg' = arg /\ leaving' = leaving
      /\ \A s \in unvisited' : Linked(s)
  BY DEF JobPublish
<1>3. /\ S = {s \in Sessions : Linked(s) /\ session[s].auto = j}
      /\ session \in [Sessions -> Session] /\ st.session = Cleared(session, S)
      /\ st.owners = owners
  BY <1>1 DEF EndsTo, IInv, TypeOK
<1>4. \A s \in S : Linked(s)
  BY <1>3
<1>5. \A s \in Sessions : /\ st.session[s].active = session[s].active
                          /\ st.session[s].watch = session[s].watch
                          /\ st.session[s].life = session[s].life
                          /\ st.session[s].cancelled = session[s].cancelled
                          /\ s \in S => st.session[s].auto = Nothing
                          /\ s \notin S => st.session[s].auto = session[s].auto
  BY <1>3, AutoCleared
<1>6. /\ Kempt(st, Binding, Joining)
      /\ \A i \in Jobs : /\ st.job[i].cancelReq => job[i].cancelReq
                         /\ st.job[i].waiter = job[i].waiter
                         /\ st.job[i].linked = job[i].linked
      /\ st.job[j].terminal /\ \A i \in Jobs \ {j} : st.job[i] = job[i]
  BY <1>1, EndedKempt
<1>7. j \in Active(job) /\ p \in Projects
  BY <1>2 DEF IInv, Shaped, Active
<1>8. \A i \in Active(st.job) : i \in Active(job) /\ i # j /\ st.job[i] = job[i]
  BY <1>6 DEF Active
<1>9. /\ ActiveOf(st.job, p) = {}
      /\ \A i, k \in Active(st.job) : st.job[i].project = st.job[k].project => i = k
  BY <1>7, <1>8 DEF ActiveOf, IInv, Limited
<1>10. \A s \in S : Home[s] = p
  <2>1. AutoAtHome(Shared)
    BY DEF RegInv, Registers, Kempt
  <2> QED
    BY <1>3, <2>1, ConstantsAssumption DEF AutoAtHome, Shared
<1>11. \A s \in Sessions : /\ Steers(session[s], st.session[s], s)
                           /\ st.session[s].watch = session[s].watch
  BY <1>5 DEF Steers
<1>12. Readied(st, S, p)
  BY <1>3, <1>4, <1>6, <1>9, <1>10, <1>11 DEF Readied
<1>13. Moves
  BY <1>2 DEF Moves, Binding, Joining
<1> HIDE DEF p
<1> QED BY <1>1, <1>2, <1>7, <1>12, <1>13, RefreshStep

(* The shutdown drops all auto-index subscriptions and cancels every job.  *)
LEMMA ShutdownBeginCounts ==
  ASSUME IInv, TypeOK', RegInv, ShutdownBegin
  PROVE  RegInv' /\ Spares /\ Takes
<1> DEFINE S(j) == {s \in Sessions : Linked(s) /\ session[s].auto = j}
           n(j) == Cardinality(S(j))
           ks == [j \in Jobs |-> IF n(j) = 0 THEN job[j] ELSE Unsubscribed(job[j], n(j))]
<1>1. /\ stopping' = TRUE /\ job' = AllCancelled(ks) /\ owners' = owners /\ pc' = pc
      /\ arg' = arg /\ leaving' = leaving /\ unvisited' = unvisited
      /\ Binding' = Binding /\ Joining' = Joining
  BY DEF ShutdownBegin, Binding, Joining
<1>2. session' = Cleared(session, Sessions)
  BY DEF ShutdownBegin, Cleared
<1>3. /\ Shared \in SharedState /\ Shared.session = session /\ Shared.job = job
      /\ Shared.owners = owners /\ Kempt(Shared, Binding, Joining)
      /\ Shared' \in SharedState /\ Shared'.session = session'
      /\ Shared'.job = job' /\ Shared'.owners = owners'
      /\ session \in [Sessions -> Session] /\ job \in JobMap
      /\ session' \in [Sessions -> Session]
  BY Register
<1>4. \A s \in Sessions : /\ session'[s].active = session[s].active
                          /\ session'[s].watch = session[s].watch
                          /\ session'[s].life = session[s].life
                          /\ session'[s].cancelled = session[s].cancelled
                          /\ session'[s].auto = Nothing
  BY <1>2, <1>3, AutoCleared
<1>5. ASSUME NEW j \in Jobs
      PROVE  /\ ks[j] \in Job /\ Same(job[j], ks[j])
             /\ Backed(ks[j], Held(Binding', Joining', session', owners', j))
  <2> DEFINE H == Held(Binding, Joining, session, owners, j)
             G == {q \in Sessions \X Tags : q[1] \in S(j) /\ q[2] = "auto"}
             m == n(j)
             r == job[j]
  <2>1. S(j) \in SUBSET Sessions /\ S(j) = {s \in Sessions : session[s].auto = j}
    <3>1. \A s \in Sessions : session[s].auto = j => Linked(s)
      BY ConstantsAssumption DEF RegInv, Posted, PostedAt, Clear
    <3> QED BY <3>1
  <2>2. H \in SUBSET Referrers /\ Backed(r, H) /\ r \in Job
    BY <1>3, HeldType DEF Kempt, Counted, JobMap
  <2>3. G \in SUBSET H
    BY <2>1 DEF Held
  <2>4. m = Cardinality(G) /\ m \in Nat
    BY <2>1, Tagged, Counting DEF Tags
  <2>5. Held(Binding', Joining', session', owners', j) = H \ G
    BY <1>1, <1>4, <2>1, ConstantsAssumption DEF Held
  <2>6. ks[j] = IF m = 0 THEN r ELSE Unsubscribed(r, m)
    OBVIOUS
  <2> HIDE DEF H, G, m, r, ks
  <2>7. CASE m = 0
    <3>1. G = {}
      BY <2>2, <2>3, <2>4, <2>7, ReferrersFinite, FS_EmptySet
    <3>2. ks[j] = r /\ H \ G = H
      BY <2>6, <2>7, <3>1
    <3> QED BY <2>2, <2>5, <3>2 DEF Same, Alike, r
  <2>8. CASE m # 0
    <3>1. /\ Unsubscribed(r, m) \in Job /\ Same(r, Unsubscribed(r, m))
          /\ Backed(Unsubscribed(r, m), H \ G)
      BY <2>2, <2>3, <2>4, Dropped
    <3> QED BY <2>5, <2>6, <2>8, <3>1 DEF r
  <2> QED BY <2>7, <2>8
<1>6. ks \in JobMap
  BY <1>5 DEF JobMap
<1> HIDE DEF ks
<1>7. ASSUME NEW j \in Jobs
      PROVE  /\ Backed(job'[j], Held(Binding', Joining', session', owners', j))
             /\ Same(job[j], job'[j])
  <2> DEFINE H == Held(Binding', Joining', session', owners', j)
  <2>1. Backed(ks[j], H)
    BY <1>5
  <2> HIDE DEF H
  <2>2. Backed(AllCancelled(ks)[j], H) /\ Same(ks[j], AllCancelled(ks)[j])
    BY <1>6, <2>1, CancelledBacked
  <2> QED BY <1>1, <1>5, <2>2 DEF H, Same, Alike
<1>8. Registers'
  <2>1. Counted(Shared', Binding', Joining')
    BY <1>3, <1>7 DEF Counted
  <2>2. /\ Shared'.owners = Shared.owners
        /\ \A s \in Sessions : /\ Shared'.session[s].watch = Shared.session[s].watch
                               /\ Shared'.session[s].auto \in {Nothing, Shared.session[s].auto}
        /\ \A j \in Jobs : Steady(Shared.job[j], Shared'.job[j])
    BY <1>1, <1>3, <1>4, <1>7 DEF Steady, Same, Alike
  <2> QED BY <1>3, <2>1, <2>2, LedgerStep DEF Registers
<1>9. Spares /\ Takes
  BY <1>1, <1>4 DEF Spares, Takes
<1>10. Posted'
  <2>1. Moves
    BY <1>1 DEF Moves
  <2>2. \A s \in Sessions : Steers(session[s], session'[s], s)
    BY <1>4 DEF Steers
  <2> QED BY <1>3, <2>1, <2>2, WatchPosted DEF RegInv
<1>11. Awaited'
  BY <1>1, <1>7, AwaitedStill DEF RegInv, Awaited, Same, Alike
<1> QED BY <1>8, <1>9, <1>10, <1>11 DEF RegInv

LEMMA ShutdownDoneCounts ==
  ASSUME IInv, TypeOK', RegInv, ShutdownDone
  PROVE  RegInv' /\ Spares /\ Takes
<1>1. /\ job' = Reaped(job) /\ owners' = owners /\ session' = session /\ pc' = pc
      /\ arg' = arg /\ leaving' = leaving /\ unvisited' = unvisited
      /\ Binding' = Binding /\ Joining' = Joining
  BY DEF ShutdownDone, Binding, Joining
<1>2. \A s \in Sessions : SameHold(session[s], session'[s])
  BY <1>1 DEF SameHold
<1>3. /\ Registers' /\ Spares /\ Takes
      /\ \A j \in Jobs : /\ job'[j].waiter = job[j].waiter
                         /\ job[j].waiter => job'[j].linked = job[j].linked
  BY <1>1, <1>2, ReapStep
<1>4. Posted'
  BY <1>1 DEF RegInv, Posted, PostedAt, Clear, Linked
<1>5. Awaited'
  BY <1>1, <1>3, AwaitedStill DEF RegInv, Awaited
<1> QED BY <1>3, <1>4, <1>5 DEF RegInv

(* The watcher's thread lets go of its finished job.                       *)
LEMMA WatcherIndexedCounts ==
  ASSUME IInv, TypeOK', RegInv, WatcherIndexed
  PROVE  RegInv' /\ Spares /\ Takes
<1> DEFINE j == arg[Watcher].job
           mine == {o \in owners : o[2] = j}
           r == [job[j] EXCEPT !.waiter = FALSE]
           n == Cardinality(mine)
           ks == [job EXCEPT ![j] = Unsubscribed(r, n)]
           u == [session |-> session, job |-> ks, owners |-> owners \ mine]
<1>1. /\ pc[Watcher] = "wait" /\ job[j].terminal /\ owners' = owners \ mine
      /\ job' = Reaped(ks) /\ session' = session /\ leaving' = leaving
      /\ unvisited' = unvisited
      /\ pc' = [pc EXCEPT ![Watcher] = "idle"] /\ arg' = [arg EXCEPT ![Watcher] = NoArg]
  BY DEF WatcherIndexed
<1>2. /\ Shared \in SharedState /\ Shared.session = session /\ Shared.job = job
      /\ Shared.owners = owners /\ Kempt(Shared, Binding, Joining)
      /\ session \in [Sessions -> Session] /\ job \in [Jobs -> Job]
      /\ owners \subseteq Sessions \X Jobs /\ job[j] \in Job /\ j \in Jobs
  <2>1. j \in Jobs
    BY <1>1 DEF RegInv, Awaited
  <2> QED
    BY <2>1, SharedType DEF IInv, TypeOK, RegInv, Registers
<1>3. /\ pc'[Watcher] = "idle"
      /\ \A s \in Sessions : pc'[s] = pc[s] /\ arg'[s] = arg[s]
      /\ Binding' = Binding /\ Joining' = Joining
  <2>1. /\ pc'[Watcher] = "idle"
        /\ \A s \in Sessions : pc'[s] = pc[s] /\ arg'[s] = arg[s]
    BY <1>1, ConstantsAssumption DEF IInv, TypeOK, Actors
  <2> QED BY <1>1, <2>1 DEF Binding, Joining
<1>4. /\ r \in Job /\ r.waiter = FALSE /\ r.subs = job[j].subs /\ r.linked = job[j].linked
      /\ r.terminal = job[j].terminal /\ r.cancelReq = job[j].cancelReq
      /\ r.project = job[j].project
  BY <1>2 DEF Job
<1> DEFINE H == Held(Binding, Joining, session, owners, j)
           G == {q \in Sessions \X Tags : <<q[1], j>> \in owners /\ q[2] = "watch"}
<1>5. H \in SUBSET Referrers /\ Backed(job[j], H) /\ G \in SUBSET H
  <2>1. H \in SUBSET Referrers
    BY HeldType
  <2>2. Backed(job[j], H)
    BY <1>2 DEF Kempt, Counted
  <2>3. G \in SUBSET H
    BY DEF Held
  <2> QED BY <2>1, <2>2, <2>3
<1>6. n = Cardinality(G) /\ n \in Nat
  <2>1. n = Cardinality(G)
    <3>1. owners \in SUBSET (Sessions \X Jobs) /\ j \in Jobs
      BY <1>2
    <3> HIDE DEF j
    <3> QED BY <3>1, Watching
  <2> QED BY <1>5, <2>1, ReferrersFinite
<1> HIDE DEF r
<1>7. Backed(r, H)
  BY <1>4, <1>5 DEF Backed
<1> DEFINE q == Unsubscribed(r, n)
<1>8. ks[j] = q /\ \A i \in Jobs \ {j} : ks[i] = job[i]
  BY <1>2
<1> HIDE DEF q, H, G, n, mine
<1>9. /\ q \in Job /\ Same(r, q) /\ Backed(q, H \ G)
      /\ q.cancelReq => r.cancelReq \/ H \ G = {}
  BY <1>4, <1>5, <1>6, <1>7, Dropped DEF q
<1>10. ks \in JobMap
  BY <1>2, <1>8, <1>9 DEF JobMap, q
<1> HIDE DEF ks
<1>11. u \in SharedState /\ u.session = session /\ u.job = ks /\ u.owners = owners \ mine
  BY <1>2, <1>10 DEF SharedState
<1> HIDE DEF u
<1>12. \A i \in Jobs : Held(Binding, Joining, u.session, u.owners, i)
                         = IF i = j THEN H \ G ELSE Held(Binding, Joining, session, owners, i)
  BY <1>2, <1>11 DEF Held, H, G, mine
<1>13. Counted(u, Binding, Joining)
  <2> SUFFICES ASSUME NEW i \in Jobs
               PROVE  Backed(ks[i], Held(Binding, Joining, u.session, u.owners, i))
    BY <1>11 DEF Counted
  <2>1. CASE i = j
    BY <1>8, <1>9, <1>12, <2>1
  <2>2. CASE i # j
    BY <1>2, <1>8, <1>12, <2>2 DEF Kempt, Counted
  <2> QED BY <2>1, <2>2
<1>14. \A i \in Jobs : ks[i].project = job[i].project
  BY <1>4, <1>8, <1>9 DEF Same, Alike
<1>15. Rightful(u)
  BY <1>2, <1>11, <1>14 DEF Kempt, Rightful
<1>16. OneNewcomer(u)
  <2>1. j \notin Active(ks)
    BY <1>1, <1>4, <1>8, <1>9 DEF Active, Same, Alike
  <2> SUFFICES ASSUME NEW i \in Active(ks), ks[i].waiter,
                      NEW s \in Watchers(session, ks[i].project),
                      NEW t \in Watchers(session, ks[i].project)
               PROVE  s = t \/ <<s, i>> \in owners \ mine \/ <<t, i>> \in owners \ mine
    BY <1>11 DEF OneNewcomer
  <2>2. i \in Jobs /\ i # j /\ ks[i] = job[i] /\ i \in Active(job)
    BY <1>8, <2>1 DEF Active
  <2>3. s = t \/ <<s, i>> \in owners \/ <<t, i>> \in owners
    BY <1>2, <2>2 DEF Kempt, OneNewcomer
  <2> QED BY <2>2, <2>3 DEF mine
<1>17. AutoAtHome(u)
  <2>1. \A s \in Sessions : session[s].auto \in Jobs \cup {Nothing}
    BY <1>2 DEF Session
  <2> QED BY <1>2, <1>11, <1>14, <2>1 DEF Kempt, AutoAtHome
<1>18. Kempt(u, Binding, Joining)
  BY <1>13, <1>15, <1>16, <1>17 DEF Kempt
<1> DEFINE v == [u EXCEPT !.job = Reaped(u.job)]
<1>19. v = [u EXCEPT !.job = Reaped(u.job)]
  OBVIOUS
<1> HIDE DEF v
<1>20. /\ Kempt(v, Binding, Joining) /\ v \in SharedState
       /\ v.session = session /\ v.owners = owners' /\ v.job = job'
       /\ \A i \in Jobs : /\ v.job[i].cancelReq => ks[i].cancelReq
                          /\ v.job[i].waiter = ks[i].waiter
  BY <1>1, <1>11, <1>18, <1>19, ReapedKempt
<1>21. Registers'
  <2>1. Shared' = v
    BY <1>1, <1>20 DEF Shared, SharedState
  <2> QED BY <1>3, <1>20, <2>1 DEF Registers
<1>22. Spares
  <2> SUFFICES ASSUME NEW i \in Jobs, ~job[i].cancelReq, job'[i].cancelReq
               PROVE  Held(Binding', Joining', session', owners', i) = {}
    BY DEF Spares
  <2>1. ks[i].cancelReq
    BY <1>20
  <2>2. i = j
    BY <1>8, <2>1
  <2>3. H \ G = {}
    BY <1>4, <1>8, <1>9, <2>1, <2>2
  <2> QED BY <1>1, <1>3, <1>11, <1>12, <2>2, <2>3
<1>23. Takes
  BY <1>1 DEF Takes
<1>24. Posted'
  BY <1>1, <1>3 DEF RegInv, Posted, PostedAt, Clear, Linked
<1>25. Awaited'
  <2>1. \A i \in Jobs : ~job'[i].waiter
    <3> SUFFICES ASSUME NEW i \in Jobs
                 PROVE  ~ks[i].waiter
      BY <1>20
    <3>1. CASE i = j
      BY <1>4, <1>8, <1>9, <3>1 DEF Same
    <3>2. CASE i # j
      BY <1>8, <3>2 DEF RegInv, Awaited, j
    <3> QED BY <3>1, <3>2
  <2> QED BY <1>3, <2>1 DEF Awaited
<1> QED BY <1>21, <1>22, <1>23, <1>24, <1>25 DEF RegInv

(* The answer x is released at once.                                       *)
LEMMA WatcherDropCounts ==
  ASSUME IInv, TypeOK', RegInv, pc[Watcher] = "idle",
         NEW p \in Projects, NEW x \in Subscriptions(Reaped(job), p, "default"),
         x.job # Nothing, job' = [x.jobs EXCEPT ![x.job] = Unsubscribed(@, 1)],
         session' = session, owners' = owners, leaving' = leaving,
         unvisited' = unvisited, pc' = pc, arg' = arg
  PROVE  RegInv' /\ Spares /\ Takes
<1> DEFINE j == x.job
           y == <<Watcher, "caller">>
           o == "default"
           H(i) == Held(Binding, Joining, session, owners, i)
           st == [Shared EXCEPT !.job = Reaped(Shared.job)]
<1>1. /\ Shared \in SharedState /\ Shared.session = session /\ Shared.job = job
      /\ Shared.owners = owners /\ Kempt(Shared, Binding, Joining)
      /\ Shared' \in SharedState /\ Shared'.session = session'
      /\ Shared'.job = job' /\ Shared'.owners = owners'
  BY Register
<1>2. st = [Shared EXCEPT !.job = Reaped(Shared.job)]
  OBVIOUS
<1> HIDE DEF st
<1>3. /\ st \in SharedState /\ Kempt(st, Binding, Joining)
      /\ st.session = session /\ st.owners = owners /\ st.job = Reaped(job)
      /\ \A i \in Jobs : /\ st.job[i].cancelReq => job[i].cancelReq
                         /\ st.job[i].waiter = job[i].waiter
                         /\ job[i].waiter => st.job[i] = job[i]
  BY <1>1, <1>2, ReapedKempt
<1>4. y \in Referrers /\ \A i \in Jobs : y \notin H(i)
  BY ConstantsAssumption DEF Referrers, Actors, Held
<1>5. x \in Subscriptions(st.job, p, o) /\ o \in Options
      /\ \A i \in Jobs : y \notin Held(Binding, Joining, st.session, st.owners, i)
  BY <1>3, <1>4 DEF Options
<1> HIDE DEF y, o
<1>6. Asked(st, Binding, Joining, p, x, y)
  BY <1>3, <1>4, <1>5, SubscribedKempt
<1>7. /\ j \in Jobs /\ x.jobs \in JobMap
      /\ \A i \in Jobs \ {j} : x.jobs[i] = st.job[i]
      /\ Backed(x.jobs[j], H(j) \cup {y}) /\ ~x.jobs[j].cancelReq
      /\ \A i \in Jobs : \/ Steady(st.job[i], x.jobs[i])
                         \/ H(i) = {} /\ ~st.job[i].linked /\ ~x.jobs[i].waiter
  <2>1. x.jobs \in JobMap
    <3>1. /\ job \in JobMap /\ Shaped(job) /\ Limited(job)
          /\ stopping \in BOOLEAN /\ faults \in 0..MaxFaults
      BY DEF IInv, TypeOK, JobMap
    <3>2. st.job \in JobMap /\ Kept(job, st.job)
      BY <1>3, <3>1, ReapedKeeps
    <3>3. Shaped(st.job)
      BY <3>1, <3>2, KeptIsSafe
    <3> QED BY <1>5, <3>1, <3>2, <3>3, SubscribeKeeps
  <2> QED BY <1>3, <1>6, <2>1 DEF Asked
<1> DEFINE K == H(j) \cup {y}
           r == x.jobs[j]
           q == Unsubscribed(r, 1)
<1>8. job'[j] = q /\ \A i \in Jobs \ {j} : job'[i] = st.job[i]
  BY <1>7 DEF JobMap
<1>9. K \in SUBSET Referrers /\ K \ {y} = H(j) /\ y \in K
  BY <1>4, <1>7, HeldType
<1>10. r = x.jobs[j] /\ Backed(r, K) /\ q = Unsubscribed(x.jobs[j], 1)
  BY <1>7
<1> HIDE DEF j, K, r, q
<1>11. /\ Same(r, q) /\ Backed(q, K \ {y}) /\ (q.cancelReq => r.cancelReq \/ K \ {y} = {})
  BY <1>7, <1>9, <1>10, Released
<1>12. Binding' = Binding /\ Joining' = Joining
  BY DEF Binding, Joining
<1>13. \A i \in Jobs : Held(Binding', Joining', session', owners', i) = H(i)
  BY <1>12
<1>14. Counted(Shared', Binding', Joining')
  <2> SUFFICES ASSUME NEW i \in Jobs
               PROVE  Backed(job'[i], H(i))
    BY <1>1, <1>13 DEF Counted
  <2>1. CASE i = j
    BY <1>8, <1>9, <1>11, <2>1
  <2>2. CASE i # j
    BY <1>3, <1>8, <2>2 DEF Kempt, Counted
  <2> QED BY <2>1, <2>2
<1>15. \A i \in Jobs : \/ Steady(st.job[i], job'[i])
                       \/ H(i) = {} /\ ~job'[i].waiter
  BY <1>7, <1>8, <1>10, <1>11 DEF Steady, Same, Alike
<1>16. Registers'
  <2>1. /\ Shared'.owners = st.owners
        /\ \A s \in Sessions : /\ Shared'.session[s].watch = st.session[s].watch
                               /\ Shared'.session[s].auto \in {Nothing, st.session[s].auto}
        /\ \A i \in Jobs : \/ Steady(st.job[i], Shared'.job[i])
                           \/ /\ Held(Binding, Joining, st.session, st.owners, i) = {}
                              /\ ~Shared'.job[i].waiter
    BY <1>1, <1>3, <1>15
  <2>2. Kempt(st, Binding, Joining) /\ Counted(Shared', Binding', Joining')
        /\ st \in SharedState /\ Shared' \in SharedState
    BY <1>1, <1>3, <1>14
  <2>3. Kempt(Shared', Binding', Joining')
    BY <2>1, <2>2, LedgerStep
  <2> QED BY <2>3 DEF Registers
<1>17. Spares
  <2> SUFFICES ASSUME NEW i \in Jobs, ~job[i].cancelReq, job'[i].cancelReq
               PROVE  H(i) = {}
    BY <1>13 DEF Spares
  <2>1. i = j
    BY <1>3, <1>8
  <2> QED BY <1>7, <1>8, <1>9, <1>10, <1>11, <2>1
<1>18. Takes
  BY DEF Takes
<1>19. Posted'
  BY DEF RegInv, Posted, PostedAt, Clear, Linked
<1>20. Awaited'
  <2>1. \A i \in Jobs : ~st.job[i].waiter
    BY <1>3 DEF RegInv, Awaited
  <2>2. ~x.jobs[j].waiter
    BY <1>7, <2>1 DEF Steady
  <2>3. \A i \in Jobs : ~job'[i].waiter
    BY <1>8, <1>10, <1>11, <2>1, <2>2 DEF Same
  <2> QED BY <2>3 DEF Awaited
<1> QED BY <1>16, <1>17, <1>18, <1>19, <1>20 DEF RegInv

LEMMA WatcherJobCounts ==
  ASSUME IInv, TypeOK', RegInv, pc[Watcher] = "idle", NEW p \in Projects, NEW x,
         TakesJob(p, x), session' = session, leaving' = leaving,
         unvisited' = unvisited, pc' = [pc EXCEPT ![Watcher] = "wait"],
         arg' = [arg EXCEPT ![Watcher] = [NoArg EXCEPT !.key = p, !.job = x.job]]
  PROVE  RegInv' /\ Spares /\ Takes
<1> DEFINE j == x.job
           y == <<Watcher, "caller">>
           o == "default"
           H(i) == Held(Binding, Joining, session, owners, i)
           st == [Shared EXCEPT !.job = Reaped(Shared.job)]
           new == Takers(p, j)
           n == Cardinality(new)
<1>0. /\ x \in Subscriptions(Reaped(job), p, "default") /\ x.job # Nothing
      /\ job' = [x.jobs EXCEPT ![j] = Unsubscribed(Taken(x.jobs[j], n), 1)]
      /\ owners' = owners \cup {<<s, j>> : s \in new}
  BY DEF TakesJob
<1>1. /\ Shared \in SharedState /\ Shared.session = session /\ Shared.job = job
      /\ Shared.owners = owners /\ Kempt(Shared, Binding, Joining)
      /\ Shared' \in SharedState /\ Shared'.session = session'
      /\ Shared'.job = job' /\ Shared'.owners = owners'
      /\ session \in [Sessions -> Session]
  BY Register
<1>2. st = [Shared EXCEPT !.job = Reaped(Shared.job)]
  OBVIOUS
<1> HIDE DEF st
<1>3. /\ st \in SharedState /\ Kempt(st, Binding, Joining)
      /\ st.session = session /\ st.owners = owners /\ st.job = Reaped(job)
      /\ \A i \in Jobs : /\ st.job[i].cancelReq => job[i].cancelReq
                         /\ st.job[i].waiter = job[i].waiter
                         /\ job[i].waiter => st.job[i] = job[i]
  BY <1>1, <1>2, ReapedKempt
<1>4. y \in Referrers /\ \A i \in Jobs : y \notin H(i)
  BY ConstantsAssumption DEF Referrers, Actors, Held
<1>5. x \in Subscriptions(st.job, p, o) /\ o \in Options
      /\ \A i \in Jobs : y \notin Held(Binding, Joining, st.session, st.owners, i)
  BY <1>0, <1>3, <1>4 DEF Options
<1> HIDE DEF y, o
<1>6. Asked(st, Binding, Joining, p, x, y)
  BY <1>3, <1>4, <1>5, SubscribedKempt
<1>7. /\ j \in Jobs /\ x.jobs \in JobMap
      /\ \A i \in Jobs \ {j} : x.jobs[i] = st.job[i]
      /\ Backed(x.jobs[j], H(j) \cup {y}) /\ ~x.jobs[j].cancelReq /\ x.jobs[j].linked
      /\ x.jobs[j].project = p
      /\ \A i \in Jobs : \/ Steady(st.job[i], x.jobs[i])
                         \/ H(i) = {} /\ ~st.job[i].linked /\ ~x.jobs[i].waiter
  <2>1. x.jobs \in JobMap
    <3>1. /\ job \in JobMap /\ Shaped(job) /\ Limited(job)
          /\ stopping \in BOOLEAN /\ faults \in 0..MaxFaults
      BY DEF IInv, TypeOK, JobMap
    <3>2. st.job \in JobMap /\ Kept(job, st.job)
      BY <1>3, <3>1, ReapedKeeps
    <3>3. Shaped(st.job)
      BY <3>1, <3>2, KeptIsSafe
    <3> QED BY <1>5, <3>1, <3>2, <3>3, SubscribeKeeps
  <2> QED BY <1>0, <1>3, <1>6, <2>1 DEF Asked
<1>8. /\ new \in SUBSET Sessions /\ n \in Nat
      /\ \A s \in Sessions : s \in new <=> /\ session[s].watch /\ Home[s] = p
                                           /\ <<s, j>> \notin owners
  <2>1. \A s \in Sessions : s \in new <=> /\ session[s].watch /\ Home[s] = p
                                          /\ <<s, j>> \notin owners
    BY DEF Takers, Watchers
  <2>2. new \in SUBSET Sessions
    BY DEF Takers, Watchers
  <2> QED BY <2>1, <2>2, Counting
<1> DEFINE K == H(j) \cup {y}
           N == {a \in Sessions \X Tags : a[1] \in new /\ a[2] = "watch"}
           r == x.jobs[j]
           r1 == [r EXCEPT !.subs = @ + n]
           r2 == [r1 EXCEPT !.waiter = TRUE]
           q == Unsubscribed(r2, 1)
<1>9. /\ K \in SUBSET Referrers /\ y \in K /\ Backed(r, K) /\ r.linked /\ r \in Job
      /\ ~r.cancelReq /\ r.project = p
  BY <1>4, <1>7, HeldType DEF JobMap
<1>10. n = Cardinality(N)
  <2> HIDE DEF new
  <2> QED BY <1>8, Tagged DEF Tags
<1>11. N \in SUBSET Referrers /\ N \cap K = {}
  <2>1. N \in SUBSET Referrers
    BY DEF Referrers, Actors
  <2>2. \A a \in N : a \notin H(j)
    BY <1>8 DEF Held
  <2>3. y \notin N
    BY ConstantsAssumption DEF y
  <2> QED BY <2>1, <2>2, <2>3
<1>12. q = Unsubscribed(Taken(r, n), 1) /\ r2 = Taken(r, n)
  BY DEF Taken
<1>13. job'[j] = q /\ \A i \in Jobs \ {j} : job'[i] = st.job[i]
  BY <1>0, <1>7, <1>12 DEF JobMap
<1>14. /\ K \cup N = H(j) \cup N \cup {y}
       /\ (K \cup N) \ {y} = H(j) \cup N
  <2>1. y \notin N /\ y \notin H(j)
    BY <1>4, <1>7, ConstantsAssumption DEF y
  <2> QED BY <2>1
<1>15. \A s \in Sessions : <<s, j>> \in owners' <=> <<s, j>> \in owners \/ s \in new
  BY <1>0
<1>16. \A s \in Sessions : \A i \in Jobs \ {j} : <<s, i>> \in owners' <=> <<s, i>> \in owners
  BY <1>0
<1>17. Binding' = Binding /\ Joining' = Joining
  <2>1. \A s \in Sessions : pc'[s] = pc[s] /\ arg'[s] = arg[s]
    BY ConstantsAssumption DEF IInv, TypeOK, Actors
  <2> QED BY <2>1 DEF Binding, Joining
<1> HIDE DEF new, n
<1>18. Held(Binding', Joining', session', owners', j) = H(j) \cup N
  BY <1>8, <1>15, <1>17 DEF Held
<1>19. \A i \in Jobs \ {j} : Held(Binding', Joining', session', owners', i) = H(i)
  BY <1>16, <1>17 DEF Held
<1> HIDE DEF j, K, N, r
<1>20. /\ r1 \in Job /\ Same(r, r1) /\ Backed(r1, K \cup N) /\ r1.cancelReq = r.cancelReq
  BY <1>9, <1>10, <1>11, Joined
<1> HIDE DEF r1
<1>21. /\ r2 \in Job /\ Alike(r2, r1) /\ r2.subs = r1.subs /\ r2.cancelReq = r1.cancelReq
       /\ r2.waiter = TRUE
  BY <1>20 DEF Job, Alike
<1> HIDE DEF r2
<1>22. Backed(r2, K \cup N)
  BY <1>20, <1>21 DEF Backed, Alike
<1>23. /\ Same(r2, q) /\ Backed(q, (K \cup N) \ {y})
       /\ q.cancelReq => r2.cancelReq \/ (K \cup N) \ {y} = {}
  <2> DEFINE G == {y}
             M == K \cup N
             m == 1
  <2>1. m = Cardinality(G) /\ G \in SUBSET M /\ M \in SUBSET Referrers
    BY <1>9, <1>11, FS_Singleton
  <2>2. q = Unsubscribed(r2, m) /\ Backed(r2, M)
    BY <1>22
  <2> HIDE DEF G, M, m, q
  <2>3. /\ Same(r2, q) /\ Backed(q, M \ G)
        /\ q.cancelReq => r2.cancelReq \/ M \ G = {}
    BY <1>21, <2>1, <2>2, Dropped
  <2> QED BY <2>3 DEF M, G
<1> HIDE DEF q
<1>24. /\ Backed(job'[j], H(j) \cup N) /\ job'[j].waiter = TRUE /\ job'[j].project = p
       /\ job'[j].linked
       /\ job'[j].cancelReq => H(j) \cup N = {}
  BY <1>9, <1>13, <1>14, <1>20, <1>21, <1>23 DEF Same, Alike
<1>25. \A i \in Jobs : H(i) # {} => job'[i].project = job[i].project
  <2> SUFFICES ASSUME NEW i \in Jobs, H(i) # {}
               PROVE  job'[i].project = job[i].project
    OBVIOUS
  <2>1. st.job[i].project = job[i].project
    <3>1. /\ job \in JobMap /\ H(i) \in SUBSET Referrers /\ Backed(job[i], H(i))
      BY <1>1, HeldType DEF Kempt, Counted, SharedState
    <3> HIDE DEF H
    <3>2. Reaped(job)[i] = job[i]
      BY <3>1, ReapedBacked
    <3> QED BY <1>3, <3>2
  <2>2. Steady(st.job[i], x.jobs[i])
    BY <1>7
  <2>3. job'[i].project = x.jobs[i].project
    BY <1>7, <1>9, <1>13, <1>24
  <2> QED BY <2>1, <2>2, <2>3 DEF Steady
<1>26. Counted(Shared', Binding', Joining')
  <2> SUFFICES ASSUME NEW i \in Jobs
               PROVE  Backed(job'[i], Held(Binding', Joining', session', owners', i))
    BY <1>1 DEF Counted
  <2>1. CASE i = j
    BY <1>18, <1>24, <2>1
  <2>2. CASE i # j
    BY <1>3, <1>13, <1>19, <2>2 DEF Kempt, Counted
  <2> QED BY <2>1, <2>2
<1>27. Rightful(Shared')
  <2> SUFFICES ASSUME NEW s \in Sessions, NEW i \in Jobs, <<s, i>> \in owners'
               PROVE  session[s].watch /\ job'[i].project = Home[s]
    BY <1>1 DEF Rightful
  <2>1. CASE <<s, i>> \in owners
    <3>1. <<s, "watch">> \in H(i)
      BY <2>1 DEF Held, Tags
    <3>2. session[s].watch /\ job[i].project = Home[s]
      BY <1>1, <2>1 DEF Kempt, Rightful
    <3> QED BY <1>25, <3>1, <3>2
  <2>2. CASE i = j /\ s \in new
    BY <1>8, <1>24, <2>2
  <2> QED BY <1>15, <1>16, <2>1, <2>2
<1>28. \A i \in Jobs \ {j} : ~job'[i].waiter
  BY <1>3, <1>13 DEF RegInv, Awaited
<1>29. OneNewcomer(Shared')
  <2> SUFFICES ASSUME NEW i \in Active(job'), job'[i].waiter,
                      NEW s \in Watchers(session, job'[i].project),
                      NEW t \in Watchers(session, job'[i].project)
               PROVE  s = t \/ <<s, i>> \in owners' \/ <<t, i>> \in owners'
    BY <1>1 DEF OneNewcomer
  <2>1. i = j
    BY <1>28 DEF Active
  <2>2. s \in Sessions /\ session[s].watch /\ Home[s] = p
    BY <1>24, <2>1 DEF Watchers
  <2> QED BY <1>8, <1>15, <2>1, <2>2
<1>30. AutoAtHome(Shared')
  <2> SUFFICES ASSUME NEW s \in Sessions, session[s].auto # Nothing
               PROVE  job'[session[s].auto].project = Home[s]
    BY <1>1 DEF AutoAtHome
  <2> DEFINE i == session[s].auto
  <2>1. i \in Jobs /\ job[i].project = Home[s]
    BY <1>1 DEF Session, Kempt, AutoAtHome
  <2>2. <<s, "auto">> \in H(i)
    BY DEF Held, Tags
  <2> QED BY <1>25, <2>1, <2>2
<1>31. Registers'
  BY <1>26, <1>27, <1>29, <1>30 DEF Registers, Kempt
<1>32. Spares
  <2> SUFFICES ASSUME NEW i \in Jobs, ~job[i].cancelReq, job'[i].cancelReq
               PROVE  Held(Binding', Joining', session', owners', i) = {}
    BY DEF Spares
  <2>1. i = j
    BY <1>3, <1>13
  <2> QED BY <1>18, <1>24, <2>1
<1>33. Takes
  BY DEF Takes
<1>34. /\ pc'[Watcher] = "wait" /\ arg'[Watcher].job = j
       /\ \A s \in Sessions : pc'[s] = pc[s] /\ arg'[s] = arg[s]
  BY ConstantsAssumption DEF IInv, TypeOK, Actors, NoArg, j
<1>35. Posted'
  BY <1>34 DEF RegInv, Posted, PostedAt, Clear, Linked
<1>36. Awaited'
  BY <1>7, <1>24, <1>28, <1>34 DEF Awaited
<1> QED BY <1>31, <1>32, <1>33, <1>35, <1>36 DEF RegInv

(* A poll asks for an index of the project that it watches.                *)
LEMMA WatcherIndexCounts ==
  ASSUME IInv, TypeOK', RegInv, NEW p \in Projects, WatcherIndex(p)
  PROVE  RegInv' /\ Spares /\ Takes
<1>1. /\ pc[Watcher] = "idle" /\ session' = session /\ leaving' = leaving
      /\ unvisited' = unvisited /\ Joining' = Joining
  BY DEF WatcherIndex, Joining
<1>2. CASE job' = Reaped(job) /\ owners' = owners /\ pc' = pc /\ arg' = arg
  <2>1. \A s \in Sessions : SameHold(session[s], session'[s])
    BY <1>1 DEF SameHold
  <2>2. Binding' = Binding
    BY <1>2 DEF Binding
  <2>3. /\ Registers' /\ Spares /\ Takes
        /\ \A j \in Jobs : /\ job'[j].waiter = job[j].waiter
                           /\ job[j].waiter => job'[j].linked = job[j].linked
    BY <1>1, <1>2, <2>1, <2>2, ReapStep
  <2>4. Posted'
    BY <1>1, <1>2 DEF RegInv, Posted, PostedAt, Clear, Linked
  <2>5. Awaited'
    BY <1>2, <2>3, AwaitedStill DEF RegInv, Awaited
  <2> QED BY <2>3, <2>4, <2>5 DEF RegInv
<1>3. ASSUME NEW x \in Subscriptions(Reaped(job), p, "default"), x.job = Nothing,
             job' = x.jobs, owners' = owners, pc' = pc, arg' = arg
      PROVE  RegInv' /\ Spares /\ Takes
  <2>1. x.jobs = Reaped(job)
    <3> DEFINE js == Reaped(job)
    <3>1. ASSUME NEW j \in Jobs, x.job = j
          PROVE  FALSE
      BY <1>3, <3>1, ConstantsAssumption
    <3>2. \A t : Refused(js, t).jobs = js
      BY DEF Refused
    <3>3. Created(js, p, "default").job \in Jobs \/ ~\E i \in Jobs : ~js[i].linked
      BY DEF Created
    <3>4. CASE ~stopping /\ ActiveOf(js, p) # {}
      <4>1. PICK j \in ActiveOf(js, p) :
              x = IF js[j].cancelReq THEN Refused(js, "cancelling")
                  ELSE IF js[j].options # "default" THEN Refused(js, "conflict")
                  ELSE [job |-> j, status |-> "ok", jobs |-> [js EXCEPT ![j].subs = @ + 1]]
        BY <1>3, <3>4 DEF Subscriptions
      <4>2. j \in Jobs
        BY DEF ActiveOf, Active
      <4> QED BY <3>1, <3>2, <4>1, <4>2
    <3>5. CASE ~(~stopping /\ ActiveOf(js, p) # {})
      <4>1. \/ \E t : x = Refused(js, t)
            \/ (\E i \in Jobs : ~js[i].linked) /\ x = Created(js, p, "default")
        BY <1>3, <3>5 DEF Subscriptions
      <4> QED BY <3>1, <3>2, <3>3, <4>1
    <3> QED BY <3>4, <3>5
  <2> QED BY <1>2, <1>3, <2>1
<1>4. ASSUME NEW x \in Subscriptions(Reaped(job), p, "default"), x.job # Nothing,
             LET st == Owned([Shared EXCEPT !.job = x.jobs], Watchers(session, p), x.job)
             IN  /\ job' = [st.job EXCEPT ![x.job] =
                              Unsubscribed([st.job[x.job] EXCEPT !.waiter = TRUE], 1)]
                 /\ owners' = st.owners,
             pc' = [pc EXCEPT ![Watcher] = "wait"],
             arg' = [arg EXCEPT ![Watcher] = [NoArg EXCEPT !.key = p, !.job = x.job]]
      PROVE  RegInv' /\ Spares /\ Takes
  <2> DEFINE j == x.job
             n == Cardinality(Takers(p, j))
             st == Owned([Shared EXCEPT !.job = x.jobs], Watchers(session, p), j)
  <2>1. j \in Jobs /\ x.jobs \in JobMap
    <3>1. /\ job \in JobMap /\ Shaped(job) /\ Limited(job)
          /\ stopping \in BOOLEAN /\ faults \in 0..MaxFaults
      BY DEF IInv, TypeOK, JobMap
    <3>2. Reaped(job) \in JobMap /\ Kept(job, Reaped(job))
      BY <3>1, ReapedKeeps
    <3>3. Shaped(Reaped(job))
      BY <3>1, <3>2, KeptIsSafe
    <3>4. "default" \in Options
      BY DEF Options
    <3> QED BY <1>4, <3>1, <3>2, <3>3, <3>4, SubscribeKeeps
  <2>2. /\ st.job = [x.jobs EXCEPT ![j].subs = @ + n]
        /\ st.owners = owners \cup {<<s, j>> : s \in Takers(p, j)}
    BY DEF Owned, Shared, Takers
  <2>3. /\ job' = [st.job EXCEPT ![j] = Unsubscribed([st.job[j] EXCEPT !.waiter = TRUE], 1)]
        /\ owners' = st.owners
    BY <1>4
  <2> DEFINE jt == st.job
             os == st.owners
  <2>4. /\ jt = [x.jobs EXCEPT ![j] = [x.jobs[j] EXCEPT !.subs = @ + n]]
        /\ os = owners \cup {<<s, j>> : s \in Takers(p, j)}
        /\ job' = [jt EXCEPT ![j] = Unsubscribed([jt[j] EXCEPT !.waiter = TRUE], 1)]
        /\ owners' = os
    BY <2>2, <2>3
  <2> HIDE DEF jt, os, st, n, j
  <2>5. jt[j] = [x.jobs[j] EXCEPT !.subs = @ + n]
    BY <2>1, <2>4 DEF JobMap
  <2> DEFINE r == [x.jobs[j] EXCEPT !.subs = @ + n]
             q == Unsubscribed([r EXCEPT !.waiter = TRUE], 1)
  <2>6. job' = [jt EXCEPT ![j] = q] /\ jt = [x.jobs EXCEPT ![j] = r]
    BY <2>4, <2>5
  <2>7. q = Unsubscribed(Taken(x.jobs[j], n), 1)
    BY DEF Taken
  <2> HIDE DEF r, q
  <2>8. job' = [x.jobs EXCEPT ![j] = q]
    BY <2>1, <2>6 DEF JobMap
  <2>9. TakesJob(p, x)
    BY <1>4, <2>4, <2>7, <2>8 DEF TakesJob, j, n
  <2> QED BY <1>1, <1>4, <2>9, WatcherJobCounts
<1>5. ASSUME NEW x \in Subscriptions(Reaped(job), p, "default"), x.job # Nothing,
             job' = [x.jobs EXCEPT ![x.job] = Unsubscribed(@, 1)],
             owners' = owners, pc' = pc, arg' = arg
      PROVE  RegInv' /\ Spares /\ Takes
  BY <1>1, <1>5, WatcherDropCounts
<1>6. CASE Watchers(session, p) = {} /\ job' = Reaped(job) /\ UNCHANGED <<owners, pc, arg>>
  BY <1>2, <1>6
<1> QED BY <1>3, <1>4, <1>5, <1>6 DEF WatcherIndex

-----------------------------------------------------------------------------
(* A session that leaves.                                                  *)

(* Releases compose.                                                       *)
LEMMA ReleasesTwice ==
  ASSUME NEW st, NEW L, NEW u, NEW M, NEW v, NEW N, NEW B,
         Releases(st, L, u, M, B), Releases(u, M, v, N, B)
  PROVE  Releases(st, L, v, N, B)
<1>1. v \in SharedState /\ Kempt(v, B, N)
  BY DEF Releases
<1>2. ASSUME NEW j \in Jobs
      PROVE  /\ Same(st.job[j], v.job[j])
             /\ v.job[j].cancelReq =>
                  \/ st.job[j].cancelReq
                  \/ \A r \in Held(B, N, v.session, v.owners, j) : r[2] = "leaving"
             /\ \A r \in Held(B, N, v.session, v.owners, j) :
                  r[2] = "leaving" \/ r \in Held(B, L, st.session, st.owners, j)
  <2>1. Same(st.job[j], v.job[j])
    BY DEF Releases, Same, Alike
  <2> QED BY <2>1 DEF Releases
<1> QED BY <1>1, <1>2 DEF Releases

(* The release of one reference of a session leaves its other ones.        *)
LEMMA IdledSession ==
  ASSUME NEW ss \in [Sessions -> Session], NEW s \in Sessions
  PROVE  /\ Idled(ss, s) \in [Sessions -> Session]
         /\ Idled(ss, s)[s].active = Nothing /\ Idled(ss, s)[s].auto = ss[s].auto
         /\ Idled(ss, s)[s].watch = ss[s].watch /\ Idled(ss, s)[s].life = ss[s].life
         /\ \A t \in Sessions \ {s} : Idled(ss, s)[t] = ss[t]
<1> DEFINE q == [ss[s] EXCEPT !.active = Nothing]
<1>1. /\ q \in Session /\ q.active = Nothing /\ q.auto = ss[s].auto
      /\ q.watch = ss[s].watch /\ q.life = ss[s].life
  BY DEF Session
<1>2. Idled(ss, s) = [ss EXCEPT ![s] = q]
  BY DEF Idled
<1> HIDE DEF q
<1> QED BY <1>1, <1>2

LEMMA FreedSession ==
  ASSUME NEW ss \in [Sessions -> Session], NEW s \in Sessions
  PROVE  /\ Freed(ss, s) \in [Sessions -> Session]
         /\ Freed(ss, s)[s].auto = Nothing /\ Freed(ss, s)[s].active = ss[s].active
         /\ Freed(ss, s)[s].watch = ss[s].watch /\ Freed(ss, s)[s].life = ss[s].life
         /\ \A t \in Sessions \ {s} : Freed(ss, s)[t] = ss[t]
<1> DEFINE q == [ss[s] EXCEPT !.auto = Nothing]
<1>1. /\ q \in Session /\ q.auto = Nothing /\ q.active = ss[s].active
      /\ q.watch = ss[s].watch /\ q.life = ss[s].life
  BY DEF Session
<1>2. Freed(ss, s) = [ss EXCEPT ![s] = q]
  BY DEF Freed
<1> HIDE DEF q
<1> QED BY <1>1, <1>2

(* An update of two fields is the record of all three.                     *)
LEMMA Rebuilt ==
  ASSUME NEW st \in SharedState, NEW ss, NEW js
  PROVE  [st EXCEPT !.session = ss, !.job = js]
           = [session |-> ss, job |-> js, owners |-> st.owners]
<1> DEFINE l == [st EXCEPT !.session = ss, !.job = js]
           r == [session |-> ss, job |-> js, owners |-> st.owners]
           F == {"session", "job", "owners"}
<1>1. DOMAIN l = F /\ DOMAIN r = F
  BY DEF SharedState
<1>2. l.session = r.session /\ l.job = r.job /\ l.owners = r.owners
  BY DEF SharedState
<1>3. l = [f \in F |-> l[f]] /\ r = [f \in F |-> r[f]]
  BY DEF SharedState
<1> QED BY <1>1, <1>2, <1>3

(* Detached takes its three steps one after the other.                     *)
LEMMA Detachment ==
  ASSUME NEW st \in SharedState, NEW s \in Sessions
  PROVE  LET u == WithoutActive(st, s)
         IN  /\ Detached(st, s).st = Unwatched(WithoutAuto(u, s), {s})
             /\ Detached(st, s).join = JoinOf(u, s)
<1> DEFINE u == WithoutActive(st, s)
           active == st.session[s].active
           auto == st.session[s].auto
           js == IF active = Nothing THEN st.job
                 ELSE [st.job EXCEPT ![active] = Unsubscribed(@, 1)]
           last == auto # Nothing /\ ~js[auto].terminal /\ js[auto].subs = 1
           ss == [st.session EXCEPT ![s].active = Nothing, ![s].auto = Nothing]
           ks == IF auto = Nothing THEN js
                 ELSE IF last THEN [js EXCEPT ![auto].cancelReq = TRUE]
                 ELSE [js EXCEPT ![auto] = Unsubscribed(@, 1)]
           mid == [st EXCEPT !.session = ss, !.job = ks]
<1>1. st.session \in [Sessions -> Session]
  BY DEF SharedState
<1>2. u.session = Idled(st.session, s) /\ u.job = js /\ u.owners = st.owners
  BY DEF WithoutActive
<1>3. u.session[s].auto = auto
  BY <1>1, <1>2, IdledSession
<1>4. Freed(u.session, s) = ss
  BY <1>1, <1>2 DEF Freed, Idled
<1>5. LastAuto(u, s) = last
  BY <1>2, <1>3 DEF LastAuto
<1> HIDE DEF u, js, ss, active, auto
<1>6. WithoutAuto(u, s) = [session |-> ss, job |-> ks, owners |-> st.owners]
  BY <1>2, <1>3, <1>4, <1>5 DEF WithoutAuto
<1>7. mid = [session |-> ss, job |-> ks, owners |-> st.owners]
  <2>1. \A a, b : [st EXCEPT !.session = a, !.job = b]
                   = [session |-> a, job |-> b, owners |-> st.owners]
    BY Rebuilt
  <2> HIDE DEF ks
  <2> QED BY <2>1
<1>8. Detached(st, s).st = Unwatched(mid, {s})
  BY DEF Detached, js, ss, active, auto
<1>9. Detached(st, s).join = IF last THEN auto ELSE Nothing
  BY DEF Detached, js, ss, active, auto
<1>10. JoinOf(u, s) = IF last THEN auto ELSE Nothing
  BY <1>3, <1>5 DEF JoinOf
<1> HIDE DEF last, ks, mid
<1> QED BY <1>6, <1>7, <1>8, <1>9, <1>10 DEF u

LEMMA WithoutActiveReleases ==
  ASSUME NEW st \in SharedState, NEW s \in Sessions, NEW B, NEW L, Kempt(st, B, L)
  PROVE  /\ Releases(st, L, WithoutActive(st, s), L, B)
         /\ WithoutActive(st, s).session = Idled(st.session, s)
         /\ WithoutActive(st, s).owners = st.owners
<1> DEFINE u == WithoutActive(st, s)
           i == st.session[s].active
           x == <<s, "active">>
           H(j) == Held(B, L, st.session, st.owners, j)
           K(j) == Held(B, L, u.session, u.owners, j)
<1>1. /\ st.session \in [Sessions -> Session] /\ st.job \in JobMap
      /\ st.owners \subseteq Sessions \X Jobs /\ i \in Jobs \cup {Nothing}
  BY DEF SharedState, Session
<1>2. /\ u.session = Idled(st.session, s) /\ u.owners = st.owners
      /\ u.job = IF i = Nothing THEN st.job
                 ELSE [st.job EXCEPT ![i] = Unsubscribed(@, 1)]
  BY DEF WithoutActive
<1>3. /\ u.session \in [Sessions -> Session]
      /\ u.session[s].active = Nothing /\ u.session[s].auto = st.session[s].auto
      /\ u.session[s].watch = st.session[s].watch
      /\ \A t \in Sessions \ {s} : u.session[t] = st.session[t]
  BY <1>1, <1>2, IdledSession
<1>4. u.job \in JobMap
  <2>1. [st.job EXCEPT ![i] = Unsubscribed(@, 1)] \in JobMap
    BY <1>1, UnsubscribedJob
  <2> QED BY <1>1, <1>2, <2>1
<1>5. u \in SharedState
  BY <1>1, <1>2, <1>3, <1>4 DEF SharedState, WithoutActive
<1>6. \A j \in Jobs : K(j) = IF j = i THEN H(j) \ {x} ELSE H(j)
  <2> HIDE DEF u, i
  <2>1. \A j \in Jobs : u.session[s].active # j
    BY <1>3, ConstantsAssumption
  <2>2. st.session[s].active = i
    BY DEF i
  <2> QED BY <1>2, <1>3, <2>1, <2>2 DEF Held
<1>7. CASE i = Nothing
  <2>1. u.job = st.job
    BY <1>2, <1>7
  <2>2. \A t \in Sessions : SameHold(st.session[t], u.session[t])
    BY <1>3, <1>7 DEF SameHold
  <2>3. \A j \in Jobs : K(j) = H(j)
    BY <1>6, <1>7, ConstantsAssumption
  <2> HIDE DEF u
  <2>4. Kempt(u, B, L)
    BY <1>2, <1>5, <2>1, <2>2, SameKempt
  <2> QED
    BY <1>2, <1>5, <2>1, <2>3, <2>4 DEF Releases, Same, Alike, u
<1>8. CASE i # Nothing
  <2>1. i \in Jobs /\ u.job = [st.job EXCEPT ![i] = Unsubscribed(@, 1)]
    BY <1>1, <1>2, <1>8
  <2>2. u.job[i] = Unsubscribed(st.job[i], 1) /\ \A j \in Jobs \ {i} : u.job[j] = st.job[j]
    BY <1>1, <2>1 DEF JobMap
  <2>3. x \in H(i)
    BY DEF Held, Tags
  <2>4. Loses(st, B, L, u, B, L, i, x)
    <3> HIDE DEF u, i, x
    <3> QED
      BY <1>2, <1>3, <1>6, <2>1, <2>2, <2>3 DEF Loses, Besides
  <2> HIDE DEF u, i, x
  <2>5. Kempt(u, B, L) /\ Mild(st, u, B, L) /\ \A j \in Jobs : Same(st.job[j], u.job[j])
    BY <1>5, <2>1, <2>4, DroppedKempt
  <2> QED BY <1>2, <1>5, <1>6, <2>5 DEF Releases, Mild, u
<1> QED BY <1>7, <1>8

(* The disconnect joins the auto-index job whose last subscriber leaves.   *)
LEMMA WithoutAutoReleases ==
  ASSUME NEW st \in SharedState, NEW s \in Sessions, NEW B, NEW L, Kempt(st, B, L),
         L[s] = Nothing, NEW M, M[s] = JoinOf(st, s),
         \A t \in Sessions \ {s} : M[t] = L[t]
  PROVE  /\ Releases(st, L, WithoutAuto(st, s), M, B)
         /\ WithoutAuto(st, s).session = Freed(st.session, s)
         /\ WithoutAuto(st, s).owners = st.owners
         /\ M[s] \in Jobs \cup {Nothing}
<1> DEFINE u == WithoutAuto(st, s)
           i == st.session[s].auto
           x == <<s, "auto">>
           y == <<s, "leaving">>
           H(j) == Held(B, L, st.session, st.owners, j)
           K(j) == Held(B, M, u.session, u.owners, j)
           z == [st.job[i] EXCEPT !.cancelReq = TRUE]
<1>1. /\ st.session \in [Sessions -> Session] /\ st.job \in JobMap
      /\ st.owners \subseteq Sessions \X Jobs /\ i \in Jobs \cup {Nothing}
  BY DEF SharedState, Session
<1>2. /\ u.session = Freed(st.session, s) /\ u.owners = st.owners
      /\ i = Nothing => u.job = st.job
      /\ i # Nothing /\ LastAuto(st, s) => u.job = [st.job EXCEPT ![i] = z]
      /\ i # Nothing /\ ~LastAuto(st, s) => u.job = [st.job EXCEPT ![i] = Unsubscribed(@, 1)]
  BY <1>1 DEF WithoutAuto
<1>3. /\ u.session \in [Sessions -> Session]
      /\ u.session[s].auto = Nothing /\ u.session[s].active = st.session[s].active
      /\ u.session[s].watch = st.session[s].watch
      /\ \A t \in Sessions \ {s} : u.session[t] = st.session[t]
  BY <1>1, <1>2, FreedSession
<1>4. i \in Jobs => /\ z \in Job /\ Same(st.job[i], z) /\ z.cancelReq = TRUE
                    /\ z.subs = st.job[i].subs /\ z.linked = st.job[i].linked
  <2>1. \A r \in Job : LET q == [r EXCEPT !.cancelReq = TRUE]
                       IN  /\ q \in Job /\ Same(r, q) /\ q.cancelReq = TRUE
                           /\ q.subs = r.subs /\ q.linked = r.linked
    BY DEF Job, Same, Alike
  <2>2. i \in Jobs => st.job[i] \in Job
    BY <1>1 DEF JobMap
  <2> QED BY <2>1, <2>2
<1> HIDE DEF z
<1>5. u.job \in JobMap
  <2>1. [st.job EXCEPT ![i] = Unsubscribed(@, 1)] \in JobMap
    BY <1>1, UnsubscribedJob
  <2>2. i \in Jobs => [st.job EXCEPT ![i] = z] \in JobMap
    BY <1>1, <1>4 DEF JobMap
  <2> QED BY <1>1, <1>2, <2>1, <2>2
<1>6. u \in SharedState
  BY <1>1, <1>2, <1>3, <1>5 DEF SharedState, WithoutAuto
<1> HIDE DEF u, i
<1>7. /\ \A t \in Sessions : /\ u.session[t].watch = st.session[t].watch
                             /\ u.session[t].auto \in {Nothing, st.session[t].auto}
      /\ st.session[s].auto = i
  BY <1>3 DEF i
<1>8. CASE i = Nothing
  <2>1. M[s] = Nothing /\ u.job = st.job
    BY <1>2, <1>7, <1>8 DEF JoinOf, LastAuto
  <2>2. \A j \in Jobs : K(j) = H(j)
    BY <1>2, <1>3, <1>7, <1>8, <2>1 DEF Held
  <2>3. Counted(u, B, M)
    BY <2>1, <2>2 DEF Kempt, Counted
  <2>4. \A j \in Jobs : Steady(st.job[j], u.job[j])
    BY <2>1 DEF Steady
  <2>5. Kempt(u, B, M)
    BY <1>2, <1>6, <1>7, <2>3, <2>4, LedgerStep
  <2> QED
    BY <1>2, <1>6, <2>1, <2>2, <2>5 DEF Releases, Same, Alike, u
<1>9. CASE i # Nothing /\ ~LastAuto(st, s)
  <2>1. /\ i \in Jobs /\ u.job = [st.job EXCEPT ![i] = Unsubscribed(@, 1)]
        /\ M[s] = Nothing
    BY <1>1, <1>2, <1>9 DEF JoinOf
  <2>2. u.job[i] = Unsubscribed(st.job[i], 1) /\ \A j \in Jobs \ {i} : u.job[j] = st.job[j]
    BY <1>1, <2>1 DEF JobMap
  <2>3. x \in H(i)
    BY <1>7 DEF Held, Tags
  <2>4. \A j \in Jobs : K(j) = IF j = i THEN H(j) \ {x} ELSE H(j)
    <3>1. \A j \in Jobs : u.session[s].auto # j
      BY <1>3, ConstantsAssumption
    <3> QED BY <1>2, <1>3, <1>7, <2>1, <3>1 DEF Held
  <2>5. Loses(st, B, L, u, B, M, i, x)
    <3> HIDE DEF x
    <3> QED
      BY <1>2, <1>7, <2>1, <2>2, <2>3, <2>4 DEF Loses, Besides
  <2> HIDE DEF x
  <2>6. Kempt(u, B, M) /\ Mild(st, u, B, M) /\ \A j \in Jobs : Same(st.job[j], u.job[j])
    BY <1>6, <2>1, <2>5, DroppedKempt
  <2> QED
    BY <1>2, <1>6, <2>1, <2>4, <2>6 DEF Releases, Mild, u
<1>10. CASE i # Nothing /\ LastAuto(st, s)
  <2>1. /\ i \in Jobs /\ u.job = [st.job EXCEPT ![i] = z] /\ M[s] = i
        /\ st.job[i].subs = 1
    BY <1>1, <1>2, <1>7, <1>10 DEF JoinOf, LastAuto
  <2>2. u.job[i] = z /\ \A j \in Jobs \ {i} : u.job[j] = st.job[j]
    BY <1>1, <2>1 DEF JobMap
  <2>3. H(i) = {x} /\ st.job[i].linked
    <3> DEFINE G == H(i)
    <3>1. x \in G
      BY <1>7 DEF Held, Tags
    <3>2. G \in SUBSET Referrers /\ Backed(st.job[i], G)
      BY <2>1, HeldType DEF Kempt, Counted
    <3> HIDE DEF G, x
    <3>3. IsFiniteSet(G) /\ Cardinality(G) = 1
      BY <2>1, <3>2, ReferrersFinite DEF Backed
    <3>4. IsFiniteSet(G \ {x}) /\ Cardinality(G \ {x}) = Cardinality(G) - 1
      BY <3>1, <3>3, FS_RemoveElement
    <3>5. Cardinality(G \ {x}) = 0
      BY <3>3, <3>4
    <3>6. G \ {x} = {}
      BY <3>4, <3>5, FS_EmptySet
    <3>7. G = {x} /\ st.job[i].linked
      BY <3>1, <3>2, <3>6 DEF Backed
    <3> QED BY <3>7 DEF G
  <2>4. \A j \in Jobs : K(j) = IF j = i THEN {y} ELSE H(j)
    <3>1. \A j \in Jobs : u.session[s].auto # j /\ L[s] # j
      BY <1>3, ConstantsAssumption
    <3>2. \A j \in Jobs : K(j) = IF j = i THEN (H(j) \ {x}) \cup {y} ELSE H(j)
      BY <1>2, <1>3, <1>7, <2>1, <3>1 DEF Held, Tags
    <3> QED BY <2>3, <3>2
  <2>5. Backed(u.job[i], {y})
    BY <1>4, <2>1, <2>2, <2>3, FS_Singleton DEF Backed
  <2>6. \A j \in Jobs : Same(st.job[j], u.job[j])
    BY <1>4, <2>1, <2>2 DEF Same, Alike
  <2>7. Counted(u, B, M)
    <3> SUFFICES ASSUME NEW j \in Jobs PROVE Backed(u.job[j], K(j))
      BY DEF Counted
    <3>1. CASE j = i
      BY <2>4, <2>5, <3>1
    <3>2. CASE j # i
      BY <2>2, <2>4, <3>2 DEF Kempt, Counted
    <3> QED BY <3>1, <3>2
  <2>8. \A j \in Jobs : Steady(st.job[j], u.job[j])
    BY <2>6 DEF Steady, Same, Alike
  <2>9. Kempt(u, B, M)
    BY <1>2, <1>6, <1>7, <2>7, <2>8, LedgerStep
  <2>10. ASSUME NEW j \in Jobs
         PROVE  /\ u.job[j].cancelReq =>
                     st.job[j].cancelReq \/ \A r \in K(j) : r[2] = "leaving"
                /\ \A r \in K(j) : r[2] = "leaving" \/ r \in H(j)
    <3>1. CASE j = i
      BY <2>4, <3>1
    <3>2. CASE j # i
      BY <2>2, <2>4, <3>2
    <3> QED BY <3>1, <3>2
  <2> QED
    BY <1>2, <1>6, <2>1, <2>6, <2>9, <2>10 DEF Releases, u
<1> QED BY <1>8, <1>9, <1>10

(* A detachment gives up all references of a session but the joined one.   *)
LEMMA DetachedReleases ==
  ASSUME NEW st \in SharedState, NEW s \in Sessions, NEW B, NEW L, Kempt(st, B, L),
         L[s] = Nothing, NEW M, M[s] = Detached(st, s).join,
         \A t \in Sessions \ {s} : M[t] = L[t]
  PROVE  /\ Releases(st, L, Detached(st, s).st, M, B)
         /\ Quitted(st, s, Detached(st, s).st)
         /\ M[s] \in Jobs \cup {Nothing}
<1> DEFINE u == WithoutActive(st, s)
           v == WithoutAuto(u, s)
           w == Detached(st, s).st
<1>1. w = Unwatched(v, {s}) /\ M[s] = JoinOf(u, s)
  BY Detachment
<1>2. Releases(st, L, u, L, B) /\ u.session = Idled(st.session, s)
  BY WithoutActiveReleases
<1> HIDE DEF u
<1>3. u \in SharedState /\ Kempt(u, B, L)
  BY <1>2 DEF Releases
<1>4. /\ Releases(u, L, v, M, B) /\ v.session = Freed(u.session, s)
      /\ M[s] \in Jobs \cup {Nothing}
  BY <1>1, <1>3, WithoutAutoReleases
<1> HIDE DEF v, w
<1>5. v \in SharedState /\ Kempt(v, B, M)
  BY <1>4 DEF Releases
<1> DEFINE S == {s}
<1>6. S \in SUBSET Sessions /\ w = Unwatched(v, S)
  BY <1>1
<1> HIDE DEF S
<1>7. /\ w \in SharedState /\ Kempt(w, B, M)
      /\ \A j \in Jobs : Same(v.job[j], w.job[j])
      /\ Spared(v.job, w.job, HeldBy(w, B, M))
      /\ w.owners = {o \in v.owners : o[1] \notin S}
      /\ \A t \in Sessions : /\ Still(v.session[t], w.session[t])
                             /\ w.session[t].watch <=> v.session[t].watch /\ t \notin S
  BY <1>5, <1>6, UnwatchedKempt
<1>8. Releases(v, M, w, M, B)
  <2>1. \A j \in Jobs : Held(B, M, w.session, w.owners, j)
                          \subseteq Held(B, M, v.session, v.owners, j)
    BY <1>7 DEF Held, Still
  <2> QED BY <1>7, <2>1 DEF Releases, Spared, HeldBy
<1>9. Releases(st, L, w, M, B)
  BY <1>2, <1>4, <1>8, ReleasesTwice
<1>10. Quitted(st, s, w)
  <2>1. /\ st.session \in [Sessions -> Session] /\ w.session \in [Sessions -> Session]
        /\ u.session \in [Sessions -> Session] /\ v.session \in [Sessions -> Session]
    BY <1>3, <1>5, <1>7 DEF SharedState
  <2>2. /\ \A t \in Sessions \ {s} : u.session[t] = st.session[t]
        /\ u.session[s].active = Nothing /\ u.session[s].life = st.session[s].life
    <3>1. /\ Idled(st.session, s)[s].active = Nothing
          /\ Idled(st.session, s)[s].life = st.session[s].life
          /\ \A t \in Sessions \ {s} : Idled(st.session, s)[t] = st.session[t]
      BY <2>1, IdledSession
    <3> QED BY <1>2, <3>1
  <2>3. /\ \A t \in Sessions \ {s} : v.session[t] = u.session[t]
        /\ v.session[s].active = Nothing /\ v.session[s].life = st.session[s].life
        /\ v.session[s].auto = Nothing
    BY <1>4, <2>1, <2>2, FreedSession
  <2>4. \A t \in Sessions : w.session[t].watch \in BOOLEAN /\ v.session[t].watch \in BOOLEAN
    BY <2>1 DEF Session
  <2>5. ASSUME NEW t \in Sessions \ {s}
        PROVE  /\ Still(st.session[t], w.session[t])
               /\ w.session[t].watch = st.session[t].watch
    BY <1>7, <2>2, <2>3, <2>4 DEF S
  <2>6. /\ w.session[s].active = Nothing /\ w.session[s].auto = Nothing
        /\ w.session[s].watch = FALSE /\ w.session[s].life = st.session[s].life
    BY <1>7, <2>3, <2>4 DEF S, Still
  <2> QED BY <2>5, <2>6 DEF Quitted
<1> QED BY <1>4, <1>9, <1>10 DEF w

(* A step in which references are given up keeps the registers.            *)
LEMMA LeaveStep ==
  ASSUME IInv, TypeOK', RegInv, NEW w, NEW ks, Leaves(w, ks)
  PROVE  /\ Registers' /\ Spares /\ Takes
         /\ \A j \in Jobs : /\ job'[j].waiter = job[j].waiter
                            /\ job[j].waiter => job'[j].linked = job[j].linked
<1> DEFINE u == [session |-> session', job |-> ks, owners |-> owners']
           K(j) == Held(Binding', Joining', session', owners', j)
<1>1. /\ Shared.job = job /\ Shared' \in SharedState /\ Shared'.session = session'
      /\ Shared'.job = job' /\ Shared'.owners = owners'
      /\ session' \in [Sessions -> Session]
  BY Register
<1>2. /\ w \in SharedState /\ Kempt(w, Binding', Joining') /\ w.job \in JobMap
      /\ \A j \in Jobs :
           /\ Same(job[j], w.job[j])
           /\ w.job[j].cancelReq =>
                \/ job[j].cancelReq
                \/ \A r \in Held(Binding', Joining', w.session, w.owners, j) : r[2] = "leaving"
  BY <1>1 DEF Leaves, Releases, SharedState
<1>3. \A j \in Jobs : K(j) = Held(Binding', Joining', w.session, w.owners, j)
  BY DEF Leaves, Keeps, Held, SameHold
<1>4. ks = w.job \/ (stopping' /\ ks = AllCancelled(w.job))
  BY DEF Leaves, Goes
<1>5. ks \in JobMap
  BY <1>2, <1>4, CancelKeeps
<1>6. u \in SharedState /\ u.session = session' /\ u.job = ks /\ u.owners = owners'
  BY <1>1, <1>5 DEF SharedState
<1>7. ASSUME NEW j \in Jobs
      PROVE  /\ Backed(ks[j], K(j)) /\ Same(w.job[j], ks[j])
             /\ ks[j].cancelReq => w.job[j].cancelReq \/ stopping'
  <2>1. Backed(w.job[j], K(j))
    BY <1>2, <1>3 DEF Kempt, Counted
  <2> DEFINE H == K(j)
  <2> HIDE DEF H
  <2>2. Backed(w.job[j], H)
    BY <2>1 DEF H
  <2>3. CASE ks = w.job
    BY <2>1, <2>3 DEF Same, Alike
  <2>4. CASE stopping' /\ ks = AllCancelled(w.job)
    <3>1. Backed(AllCancelled(w.job)[j], H) /\ Same(w.job[j], AllCancelled(w.job)[j])
      BY <1>2, <2>2, CancelledBacked
    <3> QED BY <2>4, <3>1 DEF H
  <2> QED BY <1>4, <2>3, <2>4
<1> HIDE DEF u
<1>8. Kempt(u, Binding', Joining')
  <2>1. Counted(u, Binding', Joining')
    BY <1>6, <1>7 DEF Counted
  <2>2. /\ u.owners = w.owners
        /\ \A t \in Sessions : /\ u.session[t].watch = w.session[t].watch
                               /\ u.session[t].auto \in {Nothing, w.session[t].auto}
    BY <1>6 DEF Leaves, Keeps, SameHold
  <2>3. \A j \in Jobs : Steady(w.job[j], u.job[j])
    BY <1>6, <1>7 DEF Steady, Same, Alike
  <2> QED BY <1>2, <1>6, <2>1, <2>2, <2>3, LedgerStep
<1>9. Takes
  BY DEF Leaves, Keeps, Takes
<1>10. ASSUME NEW j \in Jobs, ks[j].cancelReq, ~stopping', ~job[j].cancelReq
       PROVE  \A r \in K(j) : r[2] = "leaving"
  BY <1>2, <1>3, <1>7, <1>10
<1>11. CASE job' = ks
  <2>1. Shared' = u
    BY <1>11 DEF Shared, u
  <2>2. Spares
    BY <1>10, <1>11 DEF Spares
  <2> QED
    BY <1>2, <1>7, <1>8, <1>9, <1>11, <2>1, <2>2 DEF Registers, Same, Alike
<1>12. CASE job' = Reaped(ks)
  <2>1. Shared' = [u EXCEPT !.job = Reaped(u.job)]
    BY <1>6, <1>12 DEF Shared, u
  <2>2. /\ Kempt(Shared', Binding', Joining')
        /\ \A j \in Jobs : /\ Shared'.job[j].cancelReq => u.job[j].cancelReq
                           /\ Shared'.job[j].waiter = u.job[j].waiter
                           /\ u.job[j].waiter => Shared'.job[j] = u.job[j]
    BY <1>6, <1>8, <2>1, ReapedKempt
  <2>3. Spares
    BY <1>1, <1>6, <1>10, <2>2 DEF Spares
  <2> QED
    BY <1>1, <1>2, <1>6, <1>7, <1>9, <2>2, <2>3 DEF Registers, Same, Alike
<1> QED BY <1>11, <1>12 DEF Leaves, Goes

LEMMA SessionCloseCounts ==
  ASSUME IInv, TypeOK', RegInv, NEW s \in Sessions, SessionClose(s)
  PROVE  RegInv' /\ Spares /\ Takes
<1> DEFINE w == Detached(Shared, s).st
           q == [NoSession EXCEPT !.life = "closed"]
           ks == w.job
<1>1. /\ unvisited = {} /\ Linked(s) /\ leaving[s].pc = "left" /\ pc[s] = "idle"
      /\ session' = [w.session EXCEPT ![s] = q]
      /\ job' = Reaped(w.job) /\ owners' = w.owners
      /\ pc' = pc /\ arg' = arg /\ leaving' = leaving /\ unvisited' = unvisited
      /\ Binding' = Binding /\ Joining' = Joining
  BY DEF SessionClose, MutexFree, Binding, Joining
<1>2. /\ Shared \in SharedState /\ Shared.session = session /\ Shared.job = job
      /\ Kempt(Shared, Binding, Joining) /\ session \in [Sessions -> Session]
  BY Register
<1>3. PostedAt(s) /\ Clear(s) /\ Joining[s] = Nothing
  BY <1>1 DEF RegInv, Posted, PostedAt, Joining
<1>4. Detached(Shared, s).join = Nothing
  <2> DEFINE v == WithoutActive(Shared, s)
  <2>1. v.session = Idled(session, s)
    BY <1>2 DEF WithoutActive
  <2>2. Idled(session, s)[s].auto = session[s].auto
    BY <1>2, IdledSession
  <2> HIDE DEF v
  <2>3. JoinOf(v, s) = Nothing
    BY <1>3, <2>1, <2>2 DEF JoinOf, LastAuto, Clear
  <2> QED BY <1>2, <2>3, Detachment DEF v
<1>5. Releases(Shared, Joining, w, Joining, Binding) /\ Quitted(Shared, s, w)
  <2>1. /\ Joining[s] = Detached(Shared, s).join
        /\ \A t \in Sessions \ {s} : Joining[t] = Joining[t]
    BY <1>3, <1>4
  <2> QED BY <1>2, <1>3, <2>1, DetachedReleases
<1> HIDE DEF w, q
<1>6. q.active = Nothing /\ q.auto = Nothing /\ q.watch = FALSE /\ q.life = "closed"
  BY DEF q, NoSession
<1>7. session'[s] = q /\ \A t \in Sessions \ {s} : session'[t] = w.session[t]
  <2>1. w.session \in [Sessions -> Session]
    BY <1>5 DEF Releases, SharedState
  <2> QED BY <1>1, <2>1
<1>8. Leaves(w, ks)
  <2>1. \A t \in Sessions : /\ SameHold(w.session[t], session'[t])
                            /\ session'[t].watch => session[t].watch
    BY <1>2, <1>5, <1>6, <1>7 DEF Quitted, SameHold
  <2>2. /\ Releases(Shared, Joining, w, Joining', Binding) /\ Binding' = Binding
        /\ owners' = w.owners /\ ks = w.job
        /\ job' = Reaped(ks)
    BY <1>1, <1>5
  <2> HIDE DEF ks
  <2> QED
    <3>1. Keeps(w)
      BY <2>1 DEF Keeps
    <3>2. Goes(w, ks)
      BY <2>2 DEF Goes
    <3> QED BY <2>2, <3>1, <3>2 DEF Leaves
<1> HIDE DEF ks
<1>9. /\ Registers' /\ Spares /\ Takes
      /\ \A j \in Jobs : /\ job'[j].waiter = job[j].waiter
                         /\ job[j].waiter => job'[j].linked = job[j].linked
  BY <1>8, LeaveStep
<1>10. ASSUME NEW t \in Sessions
       PROVE  PostedAt(t)'
  <2>1. PostedAt(t)
    BY DEF RegInv, Posted
  <2>2. CASE t = s
    BY <1>1, <1>3, <1>6, <1>7, <2>2 DEF PostedAt, Clear, Linked
  <2>3. CASE t # s
    <3>1. /\ Still(session[t], session'[t]) /\ session'[t].watch = session[t].watch
      BY <1>2, <1>5, <1>7, <2>3 DEF Quitted
    <3> QED
      BY <1>1, <2>1, <3>1 DEF PostedAt, Clear, Linked, Still
  <2> QED BY <2>2, <2>3
<1>11. Awaited'
  BY <1>1, <1>9, AwaitedStill DEF RegInv, Awaited
<1> QED BY <1>9, <1>10, <1>11 DEF RegInv, Posted

LEMMA SessionCancelCounts ==
  ASSUME IInv, TypeOK', RegInv, NEW s \in Sessions, SessionCancel(s)
  PROVE  RegInv' /\ Spares /\ Takes
<1> DEFINE d == Detached(Shared, s)
           w == d.st
           final == ~Permanent /\ \A t \in Sessions \ {s} : Linked(t) => session[t].cancelled
           ks == IF final THEN AllCancelled(w.job) ELSE w.job
           mark == IF session[s].token # 0 THEN session[s].token
                   ELSE w.session[s].cancelToken
           q == [w.session[s] EXCEPT !.cancelled = TRUE, !.cancelToken = mark]
<1>1. /\ Linked(s) /\ leaving[s].pc = "no"
      /\ session' = [w.session EXCEPT ![s].cancelled = TRUE,
                   ![s].cancelToken = IF session[s].token # 0 THEN session[s].token ELSE @]
      /\ job' = (IF d.join = Nothing THEN Reaped(ks) ELSE ks) /\ owners' = w.owners
      /\ stopping' = (stopping \/ final)
      /\ leaving' = [leaving EXCEPT ![s] =
                      [pc |-> IF d.join = Nothing THEN "left" ELSE "joining", job |-> d.join]]
      /\ pc' = pc /\ arg' = arg /\ unvisited' = unvisited /\ Binding' = Binding
  BY DEF SessionCancel, Binding
<1>2. /\ Shared \in SharedState /\ Shared.session = session /\ Shared.job = job
      /\ Kempt(Shared, Binding, Joining) /\ session \in [Sessions -> Session]
  BY Register
<1>3. PostedAt(s) /\ Joining[s] = Nothing
  BY <1>1 DEF RegInv, Posted, PostedAt, Joining
<1> HIDE DEF d, final
<1>4. /\ leaving'[s].pc = (IF d.join = Nothing THEN "left" ELSE "joining")
      /\ leaving'[s].job = d.join
      /\ \A t \in Sessions \ {s} : leaving'[t] = leaving[t]
  BY <1>1 DEF IInv, TypeOK
<1>5. Joining'[s] = d.join /\ \A t \in Sessions \ {s} : Joining'[t] = Joining[t]
  BY <1>4 DEF Joining
<1>6. Releases(Shared, Joining, w, Joining', Binding) /\ Quitted(Shared, s, w)
  BY <1>2, <1>3, <1>5, DetachedReleases DEF d
<1> HIDE DEF w
<1>7. w.session \in [Sessions -> Session] /\ w.session[s] \in Session
  BY <1>6 DEF Releases, SharedState
<1>8. session' = [w.session EXCEPT ![s] = q]
  BY <1>1, <1>7
<1> HIDE DEF mark
<1>9. /\ q.active = w.session[s].active /\ q.auto = w.session[s].auto
      /\ q.watch = w.session[s].watch /\ q.life = w.session[s].life
      /\ q.cancelled = TRUE
  BY <1>7 DEF Session
<1> HIDE DEF q
<1>10. session'[s] = q /\ \A t \in Sessions \ {s} : session'[t] = w.session[t]
  BY <1>7, <1>8
<1>11. Leaves(w, ks)
  <2>1. \A t \in Sessions : /\ SameHold(w.session[t], session'[t])
                            /\ session'[t].watch => session[t].watch
    BY <1>2, <1>6, <1>9, <1>10 DEF Quitted, SameHold
  <2>2. ks = w.job \/ (stopping' /\ ks = AllCancelled(w.job))
    BY <1>1
  <2> HIDE DEF ks
  <2>3. /\ Releases(Shared, Joining, w, Joining', Binding) /\ Binding' = Binding
        /\ owners' = w.owners
        /\ job' = ks \/ job' = Reaped(ks)
    BY <1>1, <1>6
  <2> QED
    <3>1. Keeps(w)
      BY <2>1 DEF Keeps
    <3>2. Goes(w, ks)
      BY <2>2, <2>3 DEF Goes
    <3> QED BY <2>3, <3>1, <3>2 DEF Leaves
<1> HIDE DEF ks
<1>12. /\ Registers' /\ Spares /\ Takes
       /\ \A j \in Jobs : /\ job'[j].waiter = job[j].waiter
                          /\ job[j].waiter => job'[j].linked = job[j].linked
  BY <1>11, LeaveStep
<1>13. ASSUME NEW t \in Sessions
       PROVE  PostedAt(t)'
  <2>1. PostedAt(t)
    BY DEF RegInv, Posted
  <2>2. CASE t = s
    <3>1. /\ session'[s].life = "open" /\ session'[s].active = Nothing
          /\ session'[s].auto = Nothing /\ session'[s].watch = FALSE
          /\ session'[s].cancelled = TRUE
      BY <1>1, <1>2, <1>6, <1>9, <1>10 DEF Quitted, Linked
    <3> QED
      BY <1>1, <1>3, <1>4, <2>2, <3>1 DEF PostedAt, Clear, Linked
  <2>3. CASE t # s
    <3>1. /\ Still(session[t], session'[t]) /\ session'[t].watch = session[t].watch
      BY <1>2, <1>6, <1>10, <2>3 DEF Quitted
    <3> QED
      BY <1>1, <1>4, <2>1, <2>3, <3>1 DEF PostedAt, Clear, Linked, Still
  <2> QED BY <2>2, <2>3
<1>14. Awaited'
  BY <1>1, <1>12, AwaitedStill DEF RegInv, Awaited
<1> QED BY <1>12, <1>13, <1>14 DEF RegInv, Posted

-----------------------------------------------------------------------------
(* The registers in every reachable state.                                 *)

(* No job, no reference.                                                   *)
LEMMA RegInitially == Init => RegInv
<1> SUFFICES ASSUME Init PROVE RegInv
  OBVIOUS
<1>1. /\ session = [s \in Sessions |-> NoSession] /\ job = [j \in Jobs |-> NoJob]
      /\ owners = {} /\ unvisited = {}
      /\ \A a \in Actors : pc[a] = "idle"
      /\ \A s \in Sessions : leaving[s].pc = "no" /\ leaving[s].job = Nothing
  BY DEF Init
<1>2. /\ NoSession.active = Nothing /\ NoSession.auto = Nothing /\ NoSession.watch = FALSE
      /\ NoSession.life = "new"
      /\ NoJob.subs = 0 /\ NoJob.linked = FALSE /\ NoJob.waiter = FALSE
  BY DEF NoSession, NoJob
<1>3. /\ \A s \in Sessions : /\ session[s].active = Nothing /\ session[s].auto = Nothing
                             /\ session[s].watch = FALSE /\ session[s].life = "new"
                             /\ pc[s] = "idle" /\ Binding[s] = Nothing /\ Joining[s] = Nothing
      /\ \A j \in Jobs : job[j].subs = 0 /\ job[j].linked = FALSE /\ job[j].waiter = FALSE
      /\ pc[Watcher] = "idle"
  BY <1>1, <1>2 DEF Actors, Binding, Joining
<1>4. Shared.session = session /\ Shared.job = job /\ Shared.owners = owners
  BY DEF Shared
<1>5. Counted(Shared, Binding, Joining)
  <2> SUFFICES ASSUME NEW j \in Jobs
               PROVE  Backed(job[j], Held(Binding, Joining, session, owners, j))
    BY <1>4 DEF Counted
  <2>1. Held(Binding, Joining, session, owners, j) = {}
    BY <1>1, <1>3, ConstantsAssumption DEF Held
  <2> QED BY <1>3, <2>1, FS_EmptySet DEF Backed
<1>6. Rightful(Shared) /\ AutoAtHome(Shared)
  BY <1>1, <1>3, <1>4 DEF Rightful, AutoAtHome
<1>7. OneNewcomer(Shared)
  BY <1>3, <1>4 DEF OneNewcomer, Active
<1>8. Posted
  BY <1>1, <1>3, ConstantsAssumption DEF Posted, PostedAt, Clear, Linked
<1>9. Awaited
  BY <1>3 DEF Awaited
<1> QED
  BY <1>5, <1>6, <1>7, <1>8, <1>9 DEF RegInv, Registers, Kempt

(* Each step keeps the registers and does to jobs only what it may.        *)
LEMMA RegSteps ==
  ASSUME IInv, TypeOK', RegInv, Next
  PROVE  RegInv' /\ Spares /\ Takes
<1> DEFINE Goal == RegInv' /\ Spares /\ Takes
<1>0. TypeOK
  BY DEF IInv
<1>1. ASSUME NEW s \in Sessions, RequestStep(s)
      PROVE  Goal
  BY <1>0, <1>1, RequestEnterCounts, IndexSubscribeCounts, IndexBindCounts, IndexWaitCounts,
     RequestRefreshCounts, RequestFinishCounts, BackgroundProbeCounts,
     BackgroundInitializeCounts, MutationRefuseCounts DEF RequestStep
<1>2. ASSUME NEW s \in Sessions,
             \/ SessionOpen(s) \/ RequestAdmit(s) \/ RequestStep(s) \/ RequestCancel(s)
             \/ SessionCancel(s) \/ AutoIndexJoined(s) \/ SessionClose(s)
      PROVE  Goal
  BY <1>0, <1>1, <1>2, SessionOpenCounts, RequestAdmitCounts, RequestCancelCounts,
     SessionCancelCounts, AutoIndexJoinedCounts, SessionCloseCounts
<1>3. ASSUME NEW a \in Actors,
             MutationStep(a) \/ \E k \in Keys : MutationReserve(a, k)
      PROVE  Goal
  BY <1>0, <1>3, MutationCounts, MutationReserveCounts
<1>4. CASE ProjectPruned \/ WatcherIndexed \/ \E p \in Projects : WatcherIndex(p)
  BY <1>4, ProjectPrunedCounts, WatcherIndexedCounts, WatcherIndexCounts
<1>5. ASSUME NEW j \in Jobs, JobThread(j)
      PROVE  Goal
  BY <1>0, <1>5, ThreadCounts, JobPublishCounts DEF JobThread
<1>6. CASE AutoIndexRetry \/ ShutdownBegin \/ ShutdownDone
  BY <1>6, AutoIndexRetryCounts, ShutdownBeginCounts, ShutdownDoneCounts
<1> QED BY <1>2, <1>3, <1>4, <1>5, <1>6 DEF Next

LEMMA RegInductive == IInv /\ IInv' /\ RegInv /\ [Next]_vars => RegInv'
<1> SUFFICES ASSUME IInv, IInv', RegInv, [Next]_vars PROVE RegInv'
  OBVIOUS
<1>1. TypeOK'
  BY DEF IInv
<1>2. CASE Next
  BY <1>1, <1>2, RegSteps
<1>3. CASE UNCHANGED vars
  BY <1>3 DEF vars, RegInv, Registers, Shared, Binding, Joining, Posted, PostedAt, Clear,
              Linked, Awaited, Kempt, Counted, Rightful, OneNewcomer, AutoAtHome
<1> QED BY <1>2, <1>3

(* The registers of who wants a job are exact in every reachable state.    *)
THEOREM RegistersInvariance == Spec => [](IInv /\ RegInv)
<1>1. Init => IInv /\ RegInv
  BY Initially, RegInitially
<1>2. IInv /\ RegInv /\ [Next]_vars => (IInv /\ RegInv)'
  BY Inductive, RegInductive
<1> QED BY <1>1, <1>2, PTL DEF Spec

(* References(j) is Held, by membership.                                   *)
LEMMA AllHeld ==
  TypeOK => \A j \in Jobs : References(j) = Held(Binding, Joining, session, owners, j)
  BY ReferencesHeld

(* What the invariant of the registers says of the references.             *)
LEMMA RegistersExact ==
  ASSUME IInv, RegInv
  PROVE  ReferencesExact
<1>1. /\ TypeOK /\ Kempt(Shared, Binding, Joining)
      /\ Shared.session = session /\ Shared.job = job /\ Shared.owners = owners
  BY DEF IInv, RegInv, Registers, Shared
<1>2. SubscribersCounted
  <2> SUFFICES ASSUME NEW j \in Jobs
               PROVE  /\ job[j].subs = Cardinality(References(j))
                      /\ job[j].waiter <=> (pc[Watcher] = "wait" /\ arg[Watcher].job = j)
                      /\ References(j) # {} \/ job[j].waiter => job[j].linked
                      /\ j \in Active(job) /\ job[j].subs = 0 => job[j].cancelReq
    BY DEF SubscribersCounted
  <2>1. Backed(job[j], References(j))
    BY <1>1, AllHeld DEF Kempt, Counted
  <2>2. /\ job[j].waiter <=> pc[Watcher] = "wait" /\ arg[Watcher].job = j
        /\ job[j].waiter => job[j].linked
    BY DEF RegInv, Awaited
  <2> QED BY <2>1, <2>2 DEF Backed, Active
<1>3. OwnersWatch
  <2>1. ASSUME NEW o \in owners
        PROVE  /\ session[o[1]].watch /\ Linked(o[1])
               /\ job[o[2]].project = Home[o[1]]
    <3>1. o[1] \in Sessions /\ o[2] \in Jobs /\ o = <<o[1], o[2]>>
      BY <1>1 DEF TypeOK
    <3>2. session[o[1]].watch /\ job[o[2]].project = Home[o[1]]
      BY <1>1, <3>1 DEF Kempt, Rightful
    <3>3. Linked(o[1])
      BY <3>1, <3>2 DEF RegInv, Posted, PostedAt, Clear
    <3> QED BY <3>2, <3>3
  <2>2. \A j \in Active(job) : job[j].waiter =>
          \A s, t \in Watchers(session, job[j].project) :
            s = t \/ <<s, j>> \in owners \/ <<t, j>> \in owners
    BY <1>1 DEF Kempt, OneNewcomer
  <2> QED BY <2>1, <2>2 DEF OwnersWatch
<1> QED BY <1>2, <1>3 DEF ReferencesExact

(* job->subscribers is the number of the references to a job, the owners   *)
(* of a watcher's job hold their watch, and at most one watcher of its     *)
(* project is not an owner, however sessions, polls and publications       *)
(* interleave.                                                             *)
THEOREM ReferencesAlwaysExact == Spec => []ReferencesExact
  BY RegistersExact, RegistersInvariance, PTL

(* No step of the running daemon cancels a job that a session still refers *)
(* to, and a session that joins a watch owns the watcher's job at once.    *)
THEOREM NeededWorkAlwaysContinues == Spec => NeededWorkContinues
<1> DEFINE Act ==
      /\ \A j \in Jobs :
           ~job[j].cancelReq /\ job'[j].cancelReq /\ ~stopping'
             => \A r \in References(j)' : r[2] = "leaving"
      /\ \A s \in Sessions :
           /\ ~session[s].watch /\ session'[s].watch
           /\ Watchers(session, Home[s]) # {}
           => \A j \in ActiveOf(job', Home[s]) :
                job'[j].waiter => <<s, j>> \in owners'
<1>1. IInv /\ IInv' /\ RegInv /\ [Next]_vars => [Act]_vars
  <2> SUFFICES ASSUME IInv, IInv', RegInv, Next PROVE Act
    BY DEF vars
  <2>1. TypeOK'
    BY DEF IInv
  <2>2. (TypeOK => \A j \in Jobs : References(j) = Held(Binding, Joining, session, owners, j))'
    BY AllHeld, PTL
  <2>3. \A j \in Jobs : References(j)' = Held(Binding', Joining', session', owners', j)
    BY <2>1, <2>2
  <2>4. Spares /\ Takes
    BY <2>1, RegSteps
  <2> QED BY <2>3, <2>4 DEF Spares, Takes
<1>2. Spec => [](IInv /\ RegInv)
  BY RegistersInvariance
<1> QED BY <1>1, <1>2, PTL DEF Spec, NeededWorkContinues

-----------------------------------------------------------------------------
(* The waits of the threads for each other.                                *)

LEMMA EasedDue ==
  ASSUME NEW t \in Sessions, DueAt(t), Eased(t)
  PROVE  DueAt(t)'
  BY DEF DueAt, Eased, Linked

LEMMA UnhurriedDue ==
  ASSUME \A t \in Sessions : RetryDue(t), Unhurried
  PROVE  \A t \in Sessions : RetryDue(t)'
  BY DEF RetryDue, Unhurried

LEMMA WaiterStays ==
  ASSUME RegInv, RegInv',
         \/ pc'[Watcher] = pc[Watcher] /\ arg'[Watcher] = arg[Watcher]
         \/ pc[Watcher] # "wait" /\ pc'[Watcher] # "wait"
  PROVE  \A j \in Jobs : job'[j].waiter <=> job[j].waiter
  BY DEF RegInv, Awaited

LEMMA WaitFrame ==
  ASSUME IInv', RegInv, RegInv', WaitInv, WatcherStays, NEW a,
         \A t \in Sessions \ {a} : Eased(t), a \in Sessions => DueAt(a)',
         \A t \in Sessions : RetryDue(t)',
         \A o \in owners' : o \in owners \/ job[o[2]].waiter
  PROVE  WaitInv'
<1>1. ASSUME NEW t \in Sessions
      PROVE  DueAt(t)'
  BY EasedDue DEF WaitInv
<1>2. \A o \in owners' : job'[o[2]].waiter
  <2>1. \A o \in owners' : o[2] \in Jobs
    BY DEF IInv, TypeOK
  <2> QED BY <2>1, WaiterStays DEF WatcherStays, WaitInv
<1> QED BY <1>1, <1>2 DEF WaitInv

(* The thread of an actor moves on, the sessions stay as they are.         *)
LEMMA ActorWaits ==
  ASSUME IInv, IInv', RegInv, RegInv', WaitInv, Lasting, NEW a \in Actors, NEW to,
         pc' = [pc EXCEPT ![a] = to], \A b \in Actors \ {a} : arg'[b] = arg[b],
         session' = session, owners' = owners, stopping' = stopping,
         unvisited' = unvisited, faults' = 0 => faults = 0,
         pc[a] # "wait", to # "wait",
         a \in Sessions /\ pc[a] \in Serving => to \in Serving
  PROVE  WaitInv'
<1>1. /\ pc'[a] = to /\ \A b \in Actors \ {a} : pc'[b] = pc[b] /\ arg'[b] = arg[b]
      /\ Watcher \in Actors /\ Sessions \subseteq Actors
  BY DEF IInv, TypeOK, Actors
<1>2. \A t \in Sessions \ {a} : Eased(t)
  BY <1>1 DEF Eased
<1>3. ASSUME a \in Sessions
      PROVE  DueAt(a)'
  BY <1>1, <1>3 DEF WaitInv, DueAt, Linked
<1>4. Unhurried
  BY DEF Unhurried, Lasting
<1>5. WatcherStays
  BY <1>1 DEF WatcherStays
<1> QED
  BY <1>2, <1>3, <1>4, <1>5, UnhurriedDue, WaitFrame DEF WaitInv

(* One session object changes, and the place of its thread.                *)
LEMMA SessionWaits ==
  ASSUME IInv, IInv', RegInv, RegInv', WaitInv, Lasting, NEW s \in Sessions,
         \A t \in Sessions \ {s} : session'[t] = session[t],
         \A b \in Actors \ {s} : pc'[b] = pc[b] /\ arg'[b] = arg[b],
         session'[s].retry /\ ~session'[s].cancelled
           => session[s].retry /\ ~session[s].cancelled,
         owners' = owners, stopping' = stopping, unvisited' = unvisited, faults' = faults,
         DueAt(s)'
  PROVE  WaitInv'
<1>1. Watcher \in Actors \ {s} /\ Sessions \subseteq Actors
  BY ConstantsAssumption DEF Actors
<1>2. \A t \in Sessions \ {s} : Eased(t)
  BY <1>1 DEF Eased
<1>3. Unhurried
  BY DEF Unhurried, Lasting
<1>4. WatcherStays
  BY <1>1 DEF WatcherStays
<1> QED
  BY <1>2, <1>3, <1>4, UnhurriedDue, WaitFrame DEF WaitInv

(* A failure is counted.                                                   *)
LEMMA FaultsGrow ==
  ASSUME TypeOK
  PROVE  /\ \A x : FaultsAfter(x) = 0 => faults = 0 /\ x.status # "failed"
         /\ faults + 1 # 0
<1>1. faults \in Nat
  BY ConstantsAssumption DEF TypeOK
<1> QED BY <1>1 DEF FaultsAfter

LEMMA SessionOpenWaits ==
  ASSUME IInv, IInv', RegInv, RegInv', WaitInv, NEW s \in Sessions, SessionOpen(s)
  PROVE  WaitInv'
<1> DEFINE q == [session[s] EXCEPT !.life = "open"]
<1>1. /\ session[s] \in Session /\ session \in [Sessions -> Session] /\ Lasting
      /\ pc = [pc EXCEPT ![s] = pc[s]] /\ s \in Actors
  BY SessionOpenStep DEF IInv, TypeOK, Actors
<1>2. session' = [session EXCEPT ![s] = q]
  BY DEF SessionOpen
<1>3. /\ q.token = session[s].token /\ q.active = session[s].active
      /\ q.auto = session[s].auto /\ q.retry = session[s].retry
      /\ q.cancelled = session[s].cancelled
  BY <1>1 DEF Session
<1> HIDE DEF q
<1>4. session'[s] = q /\ \A t \in Sessions \ {s} : session'[t] = session[t]
  BY <1>1, <1>2
<1>5. DueAt(s)'
  BY <1>3, <1>4 DEF SessionOpen, WaitInv, DueAt, Linked
<1> QED
  BY <1>1, <1>3, <1>4, <1>5, SessionWaits DEF SessionOpen

LEMMA RequestAdmitWaits ==
  ASSUME IInv, IInv', RegInv, RegInv', WaitInv, NEW s \in Sessions, RequestAdmit(s)
  PROVE  WaitInv'
<1> DEFINE q == [session[s] EXCEPT !.issued = session[s].issued + 1]
<1>1. /\ session[s] \in Session /\ session \in [Sessions -> Session] /\ Lasting
      /\ s \in Actors /\ pc'[s] = "admitted" /\ pc[s] = "idle"
  BY RequestAdmitStep DEF RequestAdmit, IInv, TypeOK, Actors
<1>2. session' = [session EXCEPT ![s] = q]
  BY DEF RequestAdmit
<1>3. /\ q.token = session[s].token /\ q.active = session[s].active
      /\ q.auto = session[s].auto /\ q.retry = session[s].retry
      /\ q.cancelled = session[s].cancelled /\ q.life = session[s].life
  BY <1>1 DEF Session
<1> HIDE DEF q
<1>4. session'[s] = q /\ \A t \in Sessions \ {s} : session'[t] = session[t]
  BY <1>1, <1>2
<1>5. DueAt(s)'
  BY <1>1, <1>3, <1>4 DEF WaitInv, DueAt, Linked, Serving
<1>6. \A b \in Actors \ {s} : pc'[b] = pc[b] /\ arg'[b] = arg[b]
  BY DEF RequestAdmit, IInv, TypeOK
<1> QED
  BY <1>1, <1>3, <1>4, <1>5, <1>6, SessionWaits DEF RequestAdmit

LEMMA RequestEnterWaits ==
  ASSUME IInv, IInv', RegInv, RegInv', WaitInv, NEW s \in Sessions, RequestEnter(s)
  PROVE  WaitInv'
<1> DEFINE n == session[s].issued
           c == IF session[s].cancelToken = n THEN n ELSE 0
           q == [session[s] EXCEPT !.token = n, !.cancelToken = c]
           z(i) == [session[s] EXCEPT !.token = n, !.cancelToken = c, !.initialize = i]
           e == [session EXCEPT ![s].token = n,
                   ![s].cancelToken = IF @ = n THEN @ ELSE 0]
           Like(r) == /\ r.active = session[s].active /\ r.auto = session[s].auto
                      /\ r.retry = session[s].retry /\ r.cancelled = session[s].cancelled
                      /\ r.life = session[s].life
           Goal == /\ \A t \in Sessions \ {s} : session'[t] = session[t]
                   /\ Like(session'[s])
<1>1. Like(session[s]) /\ Like(q) /\ \A i : Like(z(i))
  <2> HIDE DEF n, c
  <2>1. session[s] \in Session
    BY DEF IInv, TypeOK
  <2> QED BY <2>1 DEF Session
<1>2. /\ session \in [Sessions -> Session] /\ s \in Actors /\ pc[s] = "admitted"
      /\ Lasting
  BY RequestEnterStep DEF IInv, TypeOK, RequestEnter, Actors
<1>3. e = [session EXCEPT ![s] = q]
  BY <1>2
<1>4. \A i : [e EXCEPT ![s].initialize = i] = [session EXCEPT ![s] = z(i)]
  BY <1>2, <1>3
<1>5. \/ session' = session /\ pc' = [pc EXCEPT ![s] = "idle"]
      \/ session' = e /\ pc' = [pc EXCEPT ![s] = "finish"]
      \/ \E r \in Requests[s] :
           /\ session' = [e EXCEPT ![s].initialize = r.kind = "initialize"]
           /\ \E to \in {"refresh", "subscribe", "reserve"} : pc' = [pc EXCEPT ![s] = to]
  <2>1. \A r \in Requests[s] : r.kind \in Kinds
    BY ConstantsAssumption
  <2> QED BY <2>1 DEF RequestEnter, Kinds
<1> HIDE DEF e, q, z, Like
<1>6. Goal
  <2>1. CASE session' = session
    BY <1>1, <2>1
  <2>2. CASE session' = [session EXCEPT ![s] = q]
    BY <1>1, <1>2, <2>2
  <2>3. ASSUME NEW i, session' = [session EXCEPT ![s] = z(i)]
        PROVE  Goal
    BY <1>1, <1>2, <2>3
  <2> QED BY <1>3, <1>4, <1>5, <2>1, <2>2, <2>3
<1>7. \/ pc'[s] = "idle" /\ session' = session
      \/ pc'[s] \in Serving
  BY <1>2, <1>5 DEF IInv, TypeOK, Serving
<1>8. DueAt(s)'
  BY <1>2, <1>6, <1>7 DEF DueAt, WaitInv, Linked, Like, Serving
<1>9. \A b \in Actors \ {s} : pc'[b] = pc[b] /\ arg'[b] = arg[b]
  <2>1. arg' = arg \/ \E x : arg' = [arg EXCEPT ![s] = x]
    BY DEF RequestEnter
  <2>2. \E to : pc' = [pc EXCEPT ![s] = to]
    BY <1>5
  <2> QED BY <2>1, <2>2 DEF IInv, TypeOK
<1> QED
  BY <1>2, <1>6, <1>8, <1>9, SessionWaits DEF RequestEnter, Like

LEMMA IndexSubscribeWaits ==
  ASSUME IInv, IInv', RegInv, RegInv', WaitInv, NEW s \in Sessions, IndexSubscribe(s)
  PROVE  WaitInv'
<1>1. s \in Actors /\ pc[s] = "subscribe" /\ Lasting
  BY IndexSubscribeStep DEF Actors, IndexSubscribe
<1>2. PICK to \in {"refresh", "bind"} : pc' = [pc EXCEPT ![s] = to]
  BY DEF IndexSubscribe
<1>3. \A b \in Actors \ {s} : arg'[b] = arg[b]
  BY DEF IndexSubscribe, IInv, TypeOK
<1>4. faults' = 0 => faults = 0
  BY FaultsGrow DEF IndexSubscribe, IInv
<1> QED
  BY <1>1, <1>2, <1>3, <1>4, ActorWaits DEF IndexSubscribe, Serving

LEMMA IndexBindWaits ==
  ASSUME IInv, IInv', RegInv, RegInv', WaitInv, NEW s \in Sessions, IndexBind(s)
  PROVE  WaitInv'
<1> DEFINE q == [session[s] EXCEPT !.active = arg[s].job]
<1>1. /\ s \in Actors /\ pc[s] = "bind" /\ Lasting
      /\ session[s] \in Session /\ session \in [Sessions -> Session]
  BY IndexBindStep DEF Actors, IndexBind, IInv, TypeOK
<1>2. CASE pc' = [pc EXCEPT ![s] = "refresh"] /\ arg' = [arg EXCEPT ![s] = NoArg]
           /\ session' = session
  <2>1. \A b \in Actors \ {s} : arg'[b] = arg[b]
    BY <1>2 DEF IInv, TypeOK
  <2> QED
    BY <1>1, <1>2, <2>1, ActorWaits DEF IndexBind, Serving
<1>3. CASE pc' = [pc EXCEPT ![s] = "wait"] /\ arg' = arg
           /\ session' = [session EXCEPT ![s] = q]
  <2>1. /\ q.token = session[s].token /\ q.active = arg[s].job
        /\ q.auto = session[s].auto /\ q.retry = session[s].retry
        /\ q.cancelled = session[s].cancelled /\ q.life = session[s].life
    BY <1>1 DEF Session
  <2> HIDE DEF q
  <2>2. session'[s] = q /\ \A t \in Sessions \ {s} : session'[t] = session[t]
    BY <1>1, <1>3
  <2>3. pc'[s] = "wait" /\ \A b \in Actors \ {s} : pc'[b] = pc[b] /\ arg'[b] = arg[b]
    BY <1>1, <1>3 DEF IInv, TypeOK
  <2>4. DueAt(s)'
    BY <1>3, <2>1, <2>2, <2>3 DEF DueAt, WaitInv, Linked, Serving
  <2> QED
    BY <1>1, <2>1, <2>2, <2>3, <2>4, SessionWaits DEF IndexBind
<1> QED BY <1>2, <1>3 DEF IndexBind

LEMMA IndexWaitWaits ==
  ASSUME IInv, IInv', RegInv, RegInv', WaitInv, NEW s \in Sessions, IndexWait(s)
  PROVE  WaitInv'
<1> DEFINE q == [session[s] EXCEPT !.active = Nothing]
<1>1. /\ s \in Actors /\ pc[s] = "wait" /\ Lasting
      /\ session[s] \in Session /\ session \in [Sessions -> Session]
  BY IndexWaitStep DEF Actors, IndexWait, IInv, TypeOK
<1>2. /\ q.token = session[s].token /\ q.active = Nothing
      /\ q.auto = session[s].auto /\ q.retry = session[s].retry
      /\ q.cancelled = session[s].cancelled /\ q.life = session[s].life
  BY <1>1 DEF Session
<1>3. \/ session' = session /\ session[s].active # arg[s].job
      \/ session' = [session EXCEPT ![s] = q]
  BY DEF IndexWait
<1> HIDE DEF q
<1>4. /\ pc'[s] = "refresh"
      /\ \A b \in Actors \ {s} : pc'[b] = pc[b] /\ arg'[b] = arg[b]
  BY <1>1 DEF IndexWait, IInv, TypeOK
<1>5. /\ \A t \in Sessions \ {s} : session'[t] = session[t]
      /\ session'[s] \in {session[s], q}
      /\ session'[s].active = Nothing
  BY <1>1, <1>2, <1>3 DEF WaitInv, DueAt
<1>6. DueAt(s)'
  BY <1>1, <1>2, <1>4, <1>5 DEF DueAt, WaitInv, Linked, Serving
<1> QED
  BY <1>1, <1>2, <1>4, <1>5, <1>6, SessionWaits DEF IndexWait

LEMMA WatchSet ==
  ASSUME NEW old \in [Sessions -> Session], NEW S, NEW b
  PROVE  \A s \in Sessions :
           SameWork(old[s], [t \in Sessions |-> IF t \in S THEN [old[t] EXCEPT !.watch = b]
                                               ELSE old[t]][s])
<1>1. \A r \in Session : SameWork(r, [r EXCEPT !.watch = b])
  BY DEF Session, SameWork
<1> QED BY <1>1 DEF SameWork

LEMMA UnwatchedOnly ==
  ASSUME NEW st \in SharedState, NEW S \in SUBSET Sessions
  PROVE  OnlyWatch(st, Unwatched(st, S)) /\ Unwatched(st, S).owners \subseteq st.owners
<1> DEFINE d == Disowned(st, {s \in S : st.session[s].watch})
           ss == [s \in Sessions |->
                    IF s \in S THEN [st.session[s] EXCEPT !.watch = FALSE]
                    ELSE st.session[s]]
<1>1. d \in SharedState /\ \A o \in d.owners : o \in st.owners
  <2>1. d \in SharedState
    BY DisownedKeeps
  <2>2. \A o \in d.owners : o \in st.owners
    BY DEF Disowned, SharedState
  <2> QED BY <2>1, <2>2
<1>2. Unwatched(st, S) = [d EXCEPT !.session = ss]
  BY DEF Unwatched
<1> HIDE DEF d
<1>3. \A s \in Sessions : SameWork(st.session[s], ss[s])
  <2>1. st.session \in [Sessions -> Session]
    BY DEF SharedState
  <2> QED BY <2>1, WatchSet
<1> HIDE DEF ss
<1>4. Unwatched(st, S).session = ss /\ Unwatched(st, S).owners = d.owners
  BY <1>1, <1>2 DEF SharedState
<1> QED BY <1>1, <1>3, <1>4 DEF OnlyWatch

LEMMA OwnedOwners ==
  ASSUME NEW st \in SharedState, NEW S, NEW j
  PROVE  \A o \in Owned(st, S, j).owners : o \in st.owners \/ o[2] = j
<1> DEFINE os == {<<s, j>> : s \in {t \in S : <<t, j>> \notin st.owners}}
           js == [st.job EXCEPT ![j].subs =
                    @ + Cardinality({t \in S : <<t, j>> \notin st.owners})]
<1>1. Owned(st, S, j) = [st EXCEPT !.owners = @ \cup os, !.job = js]
  BY DEF Owned
<1>2. ASSUME NEW o \in os
      PROVE  o[2] = j
  <2>1. \E s \in S : o = <<s, j>>
    BY DEF os
  <2> QED BY <2>1
<1> HIDE DEF os, js
<1>3. Owned(st, S, j).owners = st.owners \cup os
  BY <1>1 DEF SharedState
<1> QED BY <1>2, <1>3

LEMMA RefreshedOnly ==
  ASSUME NEW st \in SharedState, NEW S \in SUBSET Sessions, NEW p
  PROVE  OnlyWatch(st, Refreshed(st, S, p))
<1> DEFINE able == {s \in S : /\ st.session[s].auto = Nothing
                              /\ ~stopping /\ ~RequestCancelled(s)}
           new  == {s \in able : ~st.session[s].watch}
           late == {j \in ActiveOf(st.job, p) : st.job[j].waiter}
           base == IF Watchers(st.session, p) # {} /\ late # {}
                   THEN Owned(st, new, CHOOSE j \in late : TRUE) ELSE st
           ss == [s \in Sessions |->
                    IF s \in new THEN [st.session[s] EXCEPT !.watch = TRUE]
                    ELSE st.session[s]]
           full == [base EXCEPT !.session = ss]
           gone == Unwatched(st, Watchers(st.session, p))
<1>1. Refreshed(st, S, p) \in {st, gone, full}
  BY DEF Refreshed
<1>2. OnlyWatch(st, gone)
  BY UnwatchedOnly DEF Watchers
<1>3. OnlyWatch(st, st)
  BY DEF OnlyWatch, SameWork
<1>4. base \in SharedState /\ \A o \in base.owners : o \in st.owners \/ st.job[o[2]].waiter
  <2>1. CASE base = st
    BY <2>1
  <2>2. CASE late # {} /\ base = Owned(st, new, CHOOSE j \in late : TRUE)
    <3>1. PICK k \in late : base = Owned(st, new, k)
      BY <2>2
    <3>2. k \in Jobs /\ st.job[k].waiter /\ new \in SUBSET Sessions
      BY DEF ActiveOf, Active
    <3> HIDE DEF base, late, new
    <3> QED BY <3>1, <3>2, OwnedKeeps, OwnedOwners
  <2> QED BY <2>1, <2>2
<1>5. \A s \in Sessions : SameWork(st.session[s], ss[s])
  <2>1. st.session \in [Sessions -> Session]
    BY DEF SharedState
  <2> QED BY <2>1, WatchSet
<1> HIDE DEF base, ss, gone
<1>6. full.session = ss /\ full.owners = base.owners
  BY <1>4 DEF SharedState
<1>7. OnlyWatch(st, full)
  BY <1>4, <1>5, <1>6 DEF OnlyWatch
<1> HIDE DEF full
<1> QED BY <1>1, <1>2, <1>3, <1>7

(* What session_cancel and session_close leave of the sessions.            *)
LEMMA DetachedOnly ==
  ASSUME NEW st \in SharedState, NEW s \in Sessions
  PROVE  LET w == Detached(st, s).st
         IN  /\ \A t \in Sessions \ {s} : SameWork(st.session[t], w.session[t])
             /\ SameWork([st.session[s] EXCEPT !.active = Nothing, !.auto = Nothing],
                         w.session[s])
             /\ w.owners \subseteq st.owners
<1> DEFINE u == WithoutAuto(WithoutActive(st, s), s)
           ss == [st.session EXCEPT ![s] =
                    [st.session[s] EXCEPT !.active = Nothing, !.auto = Nothing]]
<1>1. Detached(st, s).st = Unwatched(u, {s})
  BY Detachment
<1> DEFINE v == WithoutActive(st, s)
<1>a. /\ st.session \in [Sessions -> Session] /\ st.job \in JobMap
      /\ st.owners \in SUBSET (Sessions \X Jobs)
  BY DEF SharedState
<1>b. v.session = Idled(st.session, s) /\ v.owners = st.owners /\ v.job \in JobMap
  BY <1>a, UnsubscribedJob DEF WithoutActive
<1>c. v.session \in [Sessions -> Session]
  BY <1>a, <1>b, IdledSession
<1> DEFINE a == v.session[s].auto
           last == [v.job EXCEPT ![a].cancelReq = TRUE]
           less == [v.job EXCEPT ![a] = Unsubscribed(@, 1)]
<1>d. less \in JobMap
  BY <1>b, UnsubscribedJob
<1>e. last \in JobMap
  <2>1. \A r \in Job : [r EXCEPT !.cancelReq = TRUE] \in Job
    BY DEF Job
  <2>2. last = [v.job EXCEPT ![a] = [v.job[a] EXCEPT !.cancelReq = TRUE]]
    BY <1>b
  <2> HIDE DEF v, a, last
  <2> QED BY <1>b, <2>1, <2>2 DEF JobMap
<1>f. /\ u = [session |-> Freed(v.session, s), job |-> u.job, owners |-> v.owners]
      /\ u.job \in {v.job, last, less}
  BY DEF WithoutAuto
<1>2. u \in SharedState
  <2>1. Freed(v.session, s) \in [Sessions -> Session]
    BY <1>c, FreedSession
  <2> HIDE DEF u, v, last, less
  <2> QED
    BY <1>a, <1>b, <1>d, <1>e, <1>f, <2>1 DEF SharedState
<1>3. u.session = ss /\ u.owners = st.owners
  <2>1. Freed(Idled(st.session, s), s) = ss
    BY <1>a DEF Freed, Idled
  <2> HIDE DEF u, v, last, less, ss
  <2> QED BY <1>b, <1>f, <2>1
<1> HIDE DEF u, v, a, last, less
<1>4. /\ \A t \in Sessions : SameWork(u.session[t], Unwatched(u, {s}).session[t])
      /\ Unwatched(u, {s}).owners \subseteq u.owners
  BY <1>2, UnwatchedOnly DEF OnlyWatch
<1>5. /\ ss[s] = [st.session[s] EXCEPT !.active = Nothing, !.auto = Nothing]
      /\ \A t \in Sessions \ {s} : ss[t] = st.session[t]
  BY DEF SharedState
<1> HIDE DEF ss
<1> QED BY <1>1, <1>3, <1>4, <1>5

(* The watches change, and the place of an actor's thread.                 *)
LEMMA WatchWaits ==
  ASSUME IInv, IInv', RegInv, RegInv', WaitInv, Lasting, NEW a \in Actors,
         \A t \in Sessions : SameWork(session[t], session'[t]),
         \A o \in owners' : o \in owners \/ job[o[2]].waiter,
         \A b \in Actors \ {a} : pc'[b] = pc[b] /\ arg'[b] = arg[b],
         stopping' = stopping, unvisited' = unvisited, faults' = faults,
         pc[a] # "wait", pc'[a] # "wait",
         a \in Sessions /\ pc[a] \in Serving => pc'[a] \in Serving
  PROVE  WaitInv'
<1>1. Watcher \in Actors /\ Sessions \subseteq Actors
  BY DEF Actors
<1>2. \A t \in Sessions \ {a} : Eased(t)
  BY <1>1 DEF Eased, SameWork
<1>3. ASSUME a \in Sessions
      PROVE  DueAt(a)'
  BY <1>3 DEF WaitInv, DueAt, Linked, SameWork
<1>4. Unhurried
  BY DEF Unhurried, Lasting, SameWork
<1>5. WatcherStays
  BY <1>1 DEF WatcherStays
<1> QED
  BY <1>2, <1>3, <1>4, <1>5, UnhurriedDue, WaitFrame DEF WaitInv

(* No request moves.                                                       *)
LEMMA RestWaits ==
  ASSUME IInv, IInv', RegInv, RegInv', WaitInv,
         \A t \in Sessions : Eased(t), WatcherStays, Unhurried,
         \A o \in owners' : o \in owners \/ job[o[2]].waiter
  PROVE  WaitInv'
<1>1. Watcher \notin Sessions
  BY ConstantsAssumption
<1> QED BY <1>1, UnhurriedDue, WaitFrame DEF WaitInv

LEMMA RequestRefreshWaits ==
  ASSUME IInv, IInv', RegInv, RegInv', WaitInv, NEW s \in Sessions, RequestRefresh(s)
  PROVE  WaitInv'
<1> DEFINE st == Refreshed(Shared, {s}, Home[s])
<1>1. /\ s \in Actors /\ pc[s] \in {"refresh", "rewatch"} /\ Lasting
      /\ Shared \in SharedState /\ Shared.session = session /\ Shared.job = job
      /\ Shared.owners = owners
  BY RequestRefreshStep, SharedType DEF Actors, RequestRefresh, IInv
<1>2. OnlyWatch(Shared, st)
  BY <1>1, RefreshedOnly
<1>3. session' = st.session /\ owners' = st.owners
  BY DEF RequestRefresh, Install
<1>4. /\ pc'[s] = IF pc[s] = "refresh" THEN "finish" ELSE "idle"
      /\ \A b \in Actors \ {s} : pc'[b] = pc[b] /\ arg'[b] = arg[b]
  BY <1>1 DEF RequestRefresh, IInv, TypeOK
<1> HIDE DEF st
<1> QED
  BY <1>1, <1>2, <1>3, <1>4, WatchWaits DEF OnlyWatch, RequestRefresh, Serving

LEMMA ProjectPrunedWaits ==
  ASSUME IInv, IInv', RegInv, RegInv', WaitInv, ProjectPruned
  PROVE  WaitInv'
<1> DEFINE S == Watchers(session, arg[Watcher].key)
           st == Unwatched(Shared, S)
<1>1. /\ Watcher \in Actors /\ Watcher \notin Sessions /\ pc[Watcher] = "pruned"
      /\ Lasting /\ Shared \in SharedState /\ Shared.session = session
      /\ Shared.job = job /\ Shared.owners = owners
  BY ProjectPrunedStep, SharedType, ConstantsAssumption DEF Actors, ProjectPruned, IInv
<1>2. OnlyWatch(Shared, st)
  <2>1. S \in SUBSET Sessions
    BY DEF Watchers
  <2> HIDE DEF S
  <2> QED BY <1>1, <2>1, UnwatchedOnly
<1>3. session' = st.session /\ owners' = st.owners
  BY DEF ProjectPruned, Install
<1>4. /\ pc'[Watcher] = "release"
      /\ \A b \in Actors \ {Watcher} : pc'[b] = pc[b] /\ arg'[b] = arg[b]
  BY <1>1 DEF ProjectPruned, IInv, TypeOK
<1> HIDE DEF st
<1> QED
  BY <1>1, <1>2, <1>3, <1>4, WatchWaits DEF OnlyWatch, ProjectPruned

LEMMA RequestFinishWaits ==
  ASSUME IInv, IInv', RegInv, RegInv', WaitInv, NEW s \in Sessions, RequestFinish(s)
  PROVE  WaitInv'
<1> DEFINE token == session[s].token
           left == IF session[s].cancelToken = token THEN 0 ELSE session[s].cancelToken
           q == [session[s] EXCEPT !.token = 0, !.initialize = FALSE, !.cancelToken = left]
<1>1. /\ s \in Actors /\ pc[s] = "finish" /\ Lasting
      /\ session[s] \in Session /\ session \in [Sessions -> Session]
  BY RequestFinishStep DEF Actors, RequestFinish, IInv, TypeOK
<1>2. session' = [session EXCEPT ![s] = q]
  BY <1>1 DEF RequestFinish
<1> HIDE DEF token, left
<1>3. /\ q.token = 0 /\ q.active = session[s].active
      /\ q.auto = session[s].auto /\ q.retry = session[s].retry
      /\ q.cancelled = session[s].cancelled /\ q.life = session[s].life
  BY <1>1 DEF Session
<1> HIDE DEF q
<1>4. session'[s] = q /\ \A t \in Sessions \ {s} : session'[t] = session[t]
  BY <1>1, <1>2
<1>5. \A b \in Actors \ {s} : pc'[b] = pc[b] /\ arg'[b] = arg[b]
  BY <1>1 DEF RequestFinish, IInv, TypeOK
<1>6. DueAt(s)'
  BY <1>1, <1>3, <1>4 DEF DueAt, WaitInv, Linked
<1> QED
  BY <1>1, <1>3, <1>4, <1>5, <1>6, SessionWaits DEF RequestFinish

LEMMA BackgroundProbeWaits ==
  ASSUME IInv, IInv', RegInv, RegInv', WaitInv, NEW s \in Sessions, BackgroundProbe(s)
  PROVE  WaitInv'
<1>1. /\ s \in Actors /\ pc[s] = "probe" /\ Lasting
      /\ \A b \in Actors \ {s} : arg'[b] = arg[b]
  BY BackgroundProbeStep DEF Actors, BackgroundProbe, IInv, TypeOK
<1> QED BY <1>1, ActorWaits DEF BackgroundProbe, Serving

LEMMA MutationRefuseWaits ==
  ASSUME IInv, IInv', RegInv, RegInv', WaitInv, NEW s \in Sessions, MutationRefuse(s)
  PROVE  WaitInv'
<1>1. /\ s \in Actors /\ pc[s] = "reserve" /\ Lasting
      /\ \A b \in Actors \ {s} : arg'[b] = arg[b]
  BY MutationRefuseStep DEF Actors, MutationRefuse, IInv, TypeOK
<1> QED BY <1>1, ActorWaits DEF MutationRefuse, Serving

LEMMA MutationReserveWaits ==
  ASSUME IInv, IInv', RegInv, RegInv', WaitInv, NEW a \in Actors, NEW k \in Keys,
         MutationReserve(a, k)
  PROVE  WaitInv'
<1>1. /\ pc[a] \in {"idle", "reserve"} /\ Lasting
      /\ \A b \in Actors \ {a} : arg'[b] = arg[b]
  BY MutationReserveStep DEF MutationReserve, IInv, TypeOK
<1> QED BY <1>1, ActorWaits DEF MutationReserve, Serving

LEMMA MutationWaits ==
  ASSUME IInv, IInv', RegInv, RegInv', WaitInv, NEW a \in Actors, MutationStep(a)
  PROVE  WaitInv'
<1>1. pc[a] \in {"lease", "held", "release"} /\ Lasting
  BY MutationSteps DEF MutationStep, LeaseGranted, LeaseFailed, MutationWork, MutationRelease,
                       MutationEnd
<1>2. \A b \in Actors \ {a} : arg'[b] = arg[b]
  BY DEF MutationStep, LeaseGranted, LeaseFailed, MutationWork, MutationRelease,
         MutationEnd, IInv, TypeOK
<1>3. \E to \in {"held", "refresh", "idle", "pruned", "release"} :
        pc' = [pc EXCEPT ![a] = to] /\ (a \in Sessions => to # "idle")
  <2>1. pc = [pc EXCEPT ![a] = pc[a]]
    BY DEF IInv, TypeOK
  <2>2. CASE LeaseGranted(a)
    BY <2>2 DEF LeaseGranted
  <2>3. CASE LeaseFailed(a)
    BY <2>3 DEF LeaseFailed, Resume
  <2>4. CASE MutationWork(a)
    BY <2>4 DEF MutationWork
  <2>5. CASE MutationRelease(a)
    BY <2>1, <2>5 DEF MutationRelease
  <2>6. CASE MutationEnd(a)
    BY <2>6 DEF MutationEnd, Resume
  <2> QED BY <2>2, <2>3, <2>4, <2>5, <2>6 DEF MutationStep
<1>4. /\ session' = session /\ owners' = owners /\ stopping' = stopping
      /\ unvisited' = unvisited /\ faults' = faults
  BY DEF MutationStep, LeaseGranted, LeaseFailed, MutationWork, MutationRelease, MutationEnd
<1> QED BY <1>1, <1>2, <1>3, <1>4, ActorWaits DEF Serving

LEMMA RequestCancelWaits ==
  ASSUME IInv, IInv', RegInv, RegInv', WaitInv, NEW s \in Sessions, RequestCancel(s)
  PROVE  WaitInv'
<1> DEFINE over == session[s].token = session[s].issued
           left == IF over THEN Nothing ELSE session[s].active
           q == [session[s] EXCEPT !.cancelToken = session[s].issued, !.active = left]
<1>1. /\ session \in [Sessions -> Session] /\ session[s] \in Session /\ Lasting
  BY RequestCancelStep DEF IInv, TypeOK
<1>2. session' = [session EXCEPT ![s] = q]
  BY <1>1 DEF RequestCancel
<1>3. left \in {Nothing, session[s].active}
  OBVIOUS
<1> HIDE DEF left
<1>4. /\ q.token = session[s].token /\ q.active = left
      /\ q.auto = session[s].auto /\ q.retry = session[s].retry
      /\ q.cancelled = session[s].cancelled /\ q.life = session[s].life
  BY <1>1 DEF Session
<1> HIDE DEF q
<1>5. session'[s] = q /\ \A t \in Sessions \ {s} : session'[t] = session[t]
  BY <1>1, <1>2
<1>6. DueAt(s)'
  BY <1>3, <1>4, <1>5 DEF RequestCancel, DueAt, WaitInv, Linked
<1> QED
  BY <1>1, <1>4, <1>5, <1>6, SessionWaits DEF RequestCancel

(* A request for a job that is refused while the daemon accepts work met   *)
(* an active job, or a failure.                                            *)
LEMMA RefusedBusy ==
  ASSUME TypeOK, NEW js, NEW p, NEW o, NEW x \in Subscriptions(js, p, o), ~stopping,
         js \in JobMap, x.job = Nothing, FaultsAfter(x) = 0
  PROVE  x.jobs = js /\ Active(js) # {}
<1>1. ASSUME NEW t, x = Refused(js, t)
      PROVE  x.jobs = js /\ x.status = t
  BY <1>1 DEF Refused
<1>2. CASE ActiveOf(js, p) # {}
  <2>1. PICK j \in ActiveOf(js, p) :
          x = IF js[j].cancelReq THEN Refused(js, "cancelling")
              ELSE IF js[j].options # o THEN Refused(js, "conflict")
              ELSE [job |-> j, status |-> "ok", jobs |-> [js EXCEPT ![j].subs = @ + 1]]
    BY <1>2 DEF Subscriptions
  <2>2. j \in Active(js) /\ j # Nothing
    BY ConstantsAssumption DEF ActiveOf, Active
  <2>3. CASE x = [job |-> j, status |-> "ok", jobs |-> [js EXCEPT ![j].subs = @ + 1]]
    BY <2>2, <2>3
  <2>4. CASE \E t : x = Refused(js, t)
    BY <1>1, <2>2, <2>4
  <2> QED BY <2>1, <2>3, <2>4
<1>3. CASE ActiveOf(js, p) = {} /\ Cardinality(Active(js)) >= JobLimit
  <2>1. x = Refused(js, "busy")
    BY <1>3 DEF Subscriptions
  <2>2. Active(js) # {}
    <3>1. CASE Active(js) = {}
      BY <1>3, <3>1, FS_EmptySet, ConstantsAssumption
    <3> QED BY <3>1
  <2> QED BY <1>1, <2>1, <2>2
<1>4. CASE ActiveOf(js, p) = {} /\ ~(Cardinality(Active(js)) >= JobLimit)
  <2>1. \/ (\E i \in Jobs : ~js[i].linked) /\ x = Created(js, p, o)
        \/ x = Refused(js, "failed")
    BY <1>4 DEF Subscriptions
  <2>2. CASE (\E i \in Jobs : ~js[i].linked) /\ x = Created(js, p, o)
    <3>1. x.job = CHOOSE i \in Jobs : ~js[i].linked
      BY <2>2 DEF Created
    <3>2. x.job \in Jobs
      BY <2>2, <3>1
    <3> QED BY <3>2, ConstantsAssumption
  <2>3. CASE x = Refused(js, "failed")
    BY <1>1, <2>3, FaultsGrow
  <2> QED BY <2>1, <2>2, <2>3
<1> QED BY <1>2, <1>3, <1>4

LEMMA BackgroundInitializeWaits ==
  ASSUME IInv, IInv', RegInv, RegInv', WaitInv, NEW s \in Sessions, BackgroundInitialize(s)
  PROVE  WaitInv'
<1> DEFINE old == session[s]
           quiet(e, r) == [old EXCEPT !.eligible = TRUE, !.evaluated = e, !.retry = r]
           asked(j, r) == [old EXCEPT !.eligible = TRUE, !.evaluated = TRUE,
                                      !.auto = j, !.retry = r]
           attempt == old.auto = Nothing /\ (~old.evaluated \/ old.retry)
<1>1. /\ s \in Actors /\ pc[s] = "background" /\ Lasting /\ Linked(s)
      /\ old \in Session /\ session \in [Sessions -> Session]
  <2>1. s \in Actors /\ pc[s] = "background" /\ Lasting
    BY BackgroundInitializeStep DEF Actors, BackgroundInitialize
  <2>2. session \in [Sessions -> Session]
    BY DEF IInv, TypeOK
  <2> QED BY <2>1, <2>2, Busy
<1>2. /\ \A b \in Actors \ {s} : pc'[b] = pc[b] /\ arg'[b] = arg[b]
      /\ pc'[s] \in {"idle", "rewatch"}
      /\ owners' = owners /\ stopping' = stopping /\ unvisited' = unvisited
  <2>1. /\ pc' = [pc EXCEPT ![s] = "idle"] \/ pc' = [pc EXCEPT ![s] = "rewatch"]
        /\ arg' = [arg EXCEPT ![s] = NoArg]
        /\ owners' = owners /\ stopping' = stopping /\ unvisited' = unvisited
    BY DEF BackgroundInitialize
  <2> QED BY <1>1, <2>1 DEF IInv, TypeOK
<1>3. \A e, r : /\ quiet(e, r).token = old.token /\ quiet(e, r).active = old.active
                /\ quiet(e, r).auto = old.auto
                /\ quiet(e, r).life = old.life /\ quiet(e, r).cancelled = old.cancelled
  BY <1>1 DEF Session
<1>4. \A j, r : /\ asked(j, r).token = old.token /\ asked(j, r).active = old.active
                /\ asked(j, r).auto = j
                /\ asked(j, r).life = old.life /\ asked(j, r).cancelled = old.cancelled
  BY <1>1 DEF Session
<1>p. \A e, j, r : (quiet(e, r).retry => r) /\ (asked(j, r).retry => r)
  BY <1>1 DEF Session
<1>5. /\ old.token = 0 /\ old.active = Nothing
      /\ old.retry => old.auto = Nothing
  BY <1>1 DEF WaitInv, DueAt, Serving
<1>6. \/ session' = session /\ faults' = faults
      \/ \E e : /\ session' = [session EXCEPT ![s] = quiet(e, old.retry /\ ~attempt)]
               /\ faults' = faults
      \/ /\ ~stopping
         /\ \E x \in Subscriptions(Reaped(job), Home[s], "default") :
             /\ session' = [session EXCEPT ![s] = asked(x.job, x.job = Nothing)]
             /\ job' = x.jobs /\ faults' = FaultsAfter(x)
  <2>1. CASE session' = session /\ faults' = faults
    BY <2>1
  <2>2. CASE /\ session' = [session EXCEPT ![s].eligible = TRUE,
                              ![s].evaluated = @ \/ attempt, ![s].retry = @ /\ ~attempt]
             /\ faults' = faults
    <3>1. session' = [session EXCEPT ![s] = quiet(old.evaluated \/ attempt, old.retry /\ ~attempt)]
      BY <1>1, <2>2
    <3> HIDE DEF quiet, attempt
    <3> QED BY <2>2, <3>1
  <2>3. ASSUME ~stopping, NEW x \in Subscriptions(Reaped(job), Home[s], "default"),
               session' = [session EXCEPT ![s].eligible = TRUE, ![s].evaluated = TRUE,
                             ![s].auto = x.job, ![s].retry = x.job = Nothing],
               job' = x.jobs, faults' = FaultsAfter(x)
        PROVE  \E y \in Subscriptions(Reaped(job), Home[s], "default") :
                 /\ session' = [session EXCEPT ![s] = asked(y.job, y.job = Nothing)]
                 /\ job' = y.jobs /\ faults' = FaultsAfter(y)
    <3>1. session' = [session EXCEPT ![s] = asked(x.job, x.job = Nothing)]
      BY <1>1, <2>3
    <3> HIDE DEF asked
    <3> QED BY <2>3, <3>1
  <2>4. \/ session' = session /\ faults' = faults
        \/ /\ session' = [session EXCEPT ![s].eligible = TRUE,
                              ![s].evaluated = @ \/ attempt, ![s].retry = @ /\ ~attempt]
           /\ faults' = faults
        \/ /\ ~stopping
           /\ \E x \in Subscriptions(Reaped(job), Home[s], "default") :
                /\ session' = [session EXCEPT ![s].eligible = TRUE, ![s].evaluated = TRUE,
                                 ![s].auto = x.job, ![s].retry = x.job = Nothing]
                /\ job' = x.jobs /\ faults' = FaultsAfter(x)
    BY DEF BackgroundInitialize
  <2> HIDE DEF quiet, asked, attempt
  <2> QED BY <2>1, <2>2, <2>3, <2>4
<1> HIDE DEF quiet, asked, attempt
<1>7. CASE session' = session /\ faults' = faults
  <2>1. DueAt(s)'
    BY <1>1, <1>5, <1>7 DEF DueAt, WaitInv, Linked
  <2> QED BY <1>1, <1>2, <1>7, <2>1, SessionWaits
<1>8. ASSUME NEW e, session' = [session EXCEPT ![s] = quiet(e, old.retry /\ ~attempt)],
             faults' = faults
      PROVE  WaitInv'
  <2>1. /\ session'[s] = quiet(e, old.retry /\ ~attempt)
        /\ \A t \in Sessions \ {s} : session'[t] = session[t]
    BY <1>1, <1>8
  <2>2. session'[s].retry => old.retry
    <3>1. session'[s].retry => (old.retry /\ ~attempt)
      BY <1>p, <2>1
    <3> QED BY <3>1
  <2>3. DueAt(s)'
    BY <1>1, <1>3, <1>5, <2>1, <2>2 DEF DueAt, Linked
  <2> QED
    BY <1>1, <1>2, <1>3, <1>8, <2>1, <2>2, <2>3, SessionWaits
<1>9. ASSUME ~stopping, NEW x \in Subscriptions(Reaped(job), Home[s], "default"),
             session' = [session EXCEPT ![s] = asked(x.job, x.job = Nothing)],
             job' = x.jobs, faults' = FaultsAfter(x)
      PROVE  WaitInv'
  <2> DEFINE js == Reaped(job)
             p == Home[s]
  <2>1. /\ session'[s] = asked(x.job, x.job = Nothing)
        /\ \A t \in Sessions \ {s} : session'[t] = session[t]
    BY <1>1, <1>9
  <2>9. session'[s].retry => x.job = Nothing
    <3> DEFINE refused == x.job = Nothing
    <3>1. session'[s] = asked(x.job, refused)
      BY <2>1
    <3> HIDE DEF refused
    <3>2. session'[s].retry => refused
      BY <1>p, <3>1
    <3> QED BY <3>2 DEF refused
  <2>2. DueAt(s)'
    BY <1>1, <1>4, <1>5, <2>1, <2>9 DEF DueAt, Linked
  <2>3. js \in JobMap /\ x \in Subscriptions(js, p, "default")
    BY <1>9, ReapedKeeps DEF IInv, TypeOK, JobMap
  <2> HIDE DEF js, p
  <2>4. faults' = 0 => faults = 0
    BY <1>9, FaultsGrow DEF IInv
  <2>5. ASSUME x.job = Nothing, faults' = 0
        PROVE  Active(job') # {}
    BY <1>9, <2>3, <2>5, RefusedBusy DEF IInv
  <2>6. RetryDue(s)'
    BY <2>5, <2>9 DEF RetryDue
  <2>7. \A t \in Sessions \ {s} : Eased(t) /\ RetryDue(t)'
    <3>1. \A t \in Sessions \ {s} : Eased(t)
      BY <1>2, <2>1 DEF Eased, Actors
    <3>2. \A t \in Sessions \ {s} : RetryDue(t)'
      BY <1>1, <1>2, <2>1, <2>4 DEF WaitInv, RetryDue, Lasting
    <3> QED BY <3>1, <3>2
  <2>8. WatcherStays
    BY <1>2, ConstantsAssumption DEF WatcherStays, Actors
  <2> QED
    BY <1>2, <2>2, <2>6, <2>7, <2>8, WaitFrame DEF WaitInv
<1> QED BY <1>6, <1>7, <1>8, <1>9

LEMMA SessionCancelWaits ==
  ASSUME IInv, IInv', RegInv, RegInv', WaitInv, NEW s \in Sessions, SessionCancel(s)
  PROVE  WaitInv'
<1> DEFINE w == Detached(Shared, s).st
           mark == IF session[s].token # 0 THEN session[s].token
                   ELSE w.session[s].cancelToken
           q == [w.session[s] EXCEPT !.cancelled = TRUE, !.cancelToken = mark]
           r == [session[s] EXCEPT !.active = Nothing, !.auto = Nothing]
<1>1. /\ session \in [Sessions -> Session] /\ session[s] \in Session /\ Lasting
      /\ Shared \in SharedState /\ Shared.session = session /\ Shared.owners = owners
  BY SessionCancelStep, SharedType DEF IInv, TypeOK
<1>2. /\ session' = [w.session EXCEPT ![s].cancelled = TRUE,
                   ![s].cancelToken = IF session[s].token # 0 THEN session[s].token ELSE @]
      /\ owners' = w.owners /\ (stopping => stopping')
      /\ pc' = pc /\ arg' = arg /\ unvisited' = unvisited /\ faults' = faults
  BY DEF SessionCancel
<1>3. /\ \A t \in Sessions \ {s} : SameWork(session[t], w.session[t])
      /\ SameWork(r, w.session[s]) /\ w.owners \subseteq owners
      /\ w.session \in [Sessions -> Session]
  BY <1>1, DetachedOnly, DetachedKeeps DEF SharedState
<1>4. session' = [w.session EXCEPT ![s] = q]
  BY <1>2, <1>3
<1> HIDE DEF w, mark
<1>5. /\ q.token = w.session[s].token /\ q.active = w.session[s].active
      /\ q.auto = w.session[s].auto /\ q.retry = w.session[s].retry
      /\ q.cancelled = TRUE /\ q.life = w.session[s].life
  BY <1>3 DEF Session
<1>6. /\ r.token = session[s].token /\ r.active = Nothing /\ r.auto = Nothing
      /\ r.retry = session[s].retry /\ r.life = session[s].life
  BY <1>1 DEF Session
<1> HIDE DEF q, r
<1>7. session'[s] = q /\ \A t \in Sessions \ {s} : session'[t] = w.session[t]
  BY <1>3, <1>4
<1>8. \A t \in Sessions : Eased(t)
  BY <1>2, <1>3, <1>5, <1>6, <1>7 DEF Eased, SameWork
<1>9. Unhurried
  BY <1>1, <1>2, <1>3, <1>5, <1>7 DEF Unhurried, Lasting, SameWork
<1> QED
  BY <1>2, <1>3, <1>8, <1>9, RestWaits DEF WatcherStays

LEMMA SessionCloseWaits ==
  ASSUME IInv, IInv', RegInv, RegInv', WaitInv, NEW s \in Sessions, SessionClose(s)
  PROVE  WaitInv'
<1> DEFINE w == Detached(Shared, s).st
           q == [NoSession EXCEPT !.life = "closed"]
<1>1. /\ session \in [Sessions -> Session] /\ session[s] \in Session /\ Lasting
      /\ Shared \in SharedState /\ Shared.session = session /\ Shared.owners = owners
  BY SessionCloseStep, SharedType DEF IInv, TypeOK
<1>2. /\ session' = [w.session EXCEPT ![s] = q]
      /\ owners' = w.owners /\ stopping' = stopping
      /\ pc' = pc /\ arg' = arg /\ unvisited' = unvisited /\ faults' = faults
  BY DEF SessionClose
<1>3. /\ \A t \in Sessions \ {s} : SameWork(session[t], w.session[t])
      /\ w.owners \subseteq owners /\ w.session \in [Sessions -> Session]
  BY <1>1, DetachedOnly, DetachedKeeps DEF SharedState
<1> HIDE DEF w
<1>4. q.token = 0 /\ q.active = Nothing /\ q.auto = Nothing /\ q.retry = FALSE
  BY DEF NoSession
<1> HIDE DEF q
<1>5. session'[s] = q /\ \A t \in Sessions \ {s} : session'[t] = w.session[t]
  BY <1>2, <1>3
<1>6. \A t \in Sessions \ {s} : Eased(t)
  BY <1>2, <1>3, <1>5 DEF Eased, SameWork
<1>7. Unhurried
  BY <1>1, <1>2, <1>3, <1>4, <1>5 DEF Unhurried, Lasting, SameWork
<1>8. DueAt(s)'
  BY <1>4, <1>5 DEF DueAt
<1> QED
  BY <1>2, <1>3, <1>6, <1>7, <1>8, UnhurriedDue, WaitFrame DEF WatcherStays, WaitInv

(* Neither the sessions nor the threads of actors move.                    *)
LEMMA StillWaits ==
  ASSUME IInv, IInv', RegInv, RegInv', WaitInv,
         Active(job) # {} => Active(job') # {}, faults' = 0 => faults = 0,
         session' = session, owners' = owners, pc' = pc, arg' = arg,
         stopping' = stopping, unvisited' = unvisited
  PROVE  WaitInv'
<1>1. \A t \in Sessions : Eased(t)
  BY DEF Eased
<1>2. Unhurried
  BY DEF Unhurried
<1> QED BY <1>1, <1>2, RestWaits DEF WatcherStays

LEMMA AutoIndexJoinedWaits ==
  ASSUME IInv, IInv', RegInv, RegInv', WaitInv, NEW s \in Sessions, AutoIndexJoined(s)
  PROVE  WaitInv'
<1>1. Active(job) # {} => Active(job') # {}
  BY AutoIndexJoinedStep DEF Lasting
<1> QED BY <1>1, StillWaits DEF AutoIndexJoined

LEMMA WatcherIndexWaits ==
  ASSUME IInv, IInv', RegInv, RegInv', WaitInv, NEW p \in Projects, WatcherIndex(p)
  PROVE  WaitInv'
<1>1. /\ pc[Watcher] = "idle" /\ session' = session /\ stopping' = stopping
      /\ unvisited' = unvisited /\ Watcher \in Actors /\ Watcher \notin Sessions
      /\ Active(job) # {} => Active(job') # {}
  BY WatcherIndexStep, ConstantsAssumption DEF WatcherIndex, Lasting, Actors
<1>2. faults' = 0 => faults = 0
  BY FaultsGrow DEF WatcherIndex, IInv
<1>3. CASE owners' = owners /\ pc' = pc /\ arg' = arg
  BY <1>1, <1>2, <1>3, StillWaits
<1>4. ASSUME NEW j,
             j \in {x.job : x \in Subscriptions(Reaped(job), p, "default")}, j # Nothing,
             owners' = owners \cup {<<s, j>> : s \in {t \in Watchers(session, p) :
                                                        <<t, j>> \notin owners}},
             pc' = [pc EXCEPT ![Watcher] = "wait"],
             arg' = [arg EXCEPT ![Watcher] = [NoArg EXCEPT !.key = p, !.job = j]]
      PROVE  WaitInv'
  <2>1. j \in Jobs
    BY <1>4, ReapedKeeps, Answered DEF IInv, TypeOK, JobMap
  <2>2. owners = {}
    <3>1. \A i \in Jobs : ~job[i].waiter
      BY <1>1 DEF RegInv, Awaited
    <3> QED BY <3>1 DEF WaitInv, IInv, TypeOK
  <2>3. pc'[Watcher] = "wait" /\ arg'[Watcher].job = j
    BY <1>1, <1>4 DEF IInv, TypeOK, NoArg
  <2>4. job'[j].waiter
    BY <2>1, <2>3 DEF RegInv, Awaited
  <2>5. \A o \in owners' : o[2] = j
    BY <1>4, <2>2
  <2>6. \A t \in Sessions : Eased(t)
    BY <1>1, <1>4 DEF Eased, IInv, TypeOK, Actors
  <2>7. Unhurried
    BY <1>1, <1>2 DEF Unhurried
  <2> QED
    BY <2>4, <2>5, <2>6, <2>7, EasedDue, UnhurriedDue DEF WaitInv
<1>5. \/ owners' = owners /\ pc' = pc /\ arg' = arg
      \/ \E x \in Subscriptions(Reaped(job), p, "default") :
           /\ x.job # Nothing
           /\ owners' = Owned([Shared EXCEPT !.job = x.jobs], Watchers(session, p),
                              x.job).owners
           /\ pc' = [pc EXCEPT ![Watcher] = "wait"]
           /\ arg' = [arg EXCEPT ![Watcher] = [NoArg EXCEPT !.key = p, !.job = x.job]]
  BY DEF WatcherIndex
<1>6. CASE ~(owners' = owners /\ pc' = pc /\ arg' = arg)
  <2>1. PICK x \in Subscriptions(Reaped(job), p, "default") :
           /\ x.job # Nothing
           /\ owners' = Owned([Shared EXCEPT !.job = x.jobs], Watchers(session, p),
                              x.job).owners
           /\ pc' = [pc EXCEPT ![Watcher] = "wait"]
           /\ arg' = [arg EXCEPT ![Watcher] = [NoArg EXCEPT !.key = p, !.job = x.job]]
    BY <1>5, <1>6
  <2>2. x.job \in {y.job : y \in Subscriptions(Reaped(job), p, "default")}
    OBVIOUS
  <2>3. owners' = owners \cup {<<s, x.job>> : s \in {t \in Watchers(session, p) :
                                                        <<t, x.job>> \notin owners}}
    BY <2>1 DEF Owned, Shared
  <2> DEFINE j == x.job
  <2> HIDE DEF j
  <2>4. /\ j \in {y.job : y \in Subscriptions(Reaped(job), p, "default")} /\ j # Nothing
        /\ owners' = owners \cup {<<s, j>> : s \in {t \in Watchers(session, p) :
                                                        <<t, j>> \notin owners}}
        /\ pc' = [pc EXCEPT ![Watcher] = "wait"]
        /\ arg' = [arg EXCEPT ![Watcher] = [NoArg EXCEPT !.key = p, !.job = j]]
    BY <2>1, <2>2, <2>3 DEF j
  <2> QED BY <1>4, <2>4
<1> QED BY <1>3, <1>6

LEMMA WatcherIndexedWaits ==
  ASSUME IInv, IInv', RegInv, RegInv', WaitInv, WatcherIndexed
  PROVE  WaitInv'
<1>1. /\ session' = session /\ stopping' = stopping /\ unvisited' = unvisited
      /\ faults' = faults /\ Watcher \notin Sessions
      /\ Active(job) # {} => Active(job') # {}
  BY WatcherIndexedStep, ConstantsAssumption DEF WatcherIndexed, Lasting
<1>2. owners' = {}
  <2>1. \A o \in owners : o[2] \in Jobs /\ job[o[2]].waiter
    BY DEF WaitInv, IInv, TypeOK
  <2>2. \A o \in owners : o[2] = arg[Watcher].job
    BY <2>1 DEF RegInv, Awaited
  <2> QED BY <2>2 DEF WatcherIndexed
<1>3. \A t \in Sessions : Eased(t)
  BY <1>1 DEF Eased, WatcherIndexed, IInv, TypeOK, Actors
<1>4. Unhurried
  BY <1>1 DEF Unhurried
<1> QED
  BY <1>2, <1>3, <1>4, EasedDue, UnhurriedDue DEF WaitInv

LEMMA ThreadWaits ==
  ASSUME IInv, IInv', RegInv, RegInv', WaitInv, NEW j \in Jobs,
         JobWait(j) \/ JobStart(j) \/ WorkerEnd(j) \/ JobCollect(j)
  PROVE  WaitInv'
<1>1. \A i \in Jobs : SameCount(job[i], job'[i])
  BY ThreadSame DEF IInv
<1>2. Active(job') = Active(job)
  BY <1>1 DEF Active, SameCount
<1>3. /\ session' = session /\ owners' = owners /\ pc' = pc /\ arg' = arg
      /\ stopping' = stopping /\ unvisited' = unvisited /\ faults' = faults
  BY DEF JobWait, JobStart, WorkerEnd, JobCollect, JobStep
<1> QED BY <1>2, <1>3, StillWaits

LEMMA ShutdownDoneWaits ==
  ASSUME IInv, IInv', RegInv, RegInv', WaitInv, ShutdownDone
  PROVE  WaitInv'
<1>1. Active(job) # {} => Active(job') # {}
  BY ShutdownDoneStep DEF Lasting
<1> QED BY <1>1, StillWaits DEF ShutdownDone

(* A session that loses its auto-index job keeps the rest.                 *)
LEMMA DroppedWork ==
  ASSUME NEW r \in Session
  PROVE  LET q == [r EXCEPT !.auto = Nothing]
         IN  /\ q.token = r.token /\ q.active = r.active /\ q.auto = Nothing
             /\ q.retry = r.retry /\ q.life = r.life /\ q.cancelled = r.cancelled
  BY DEF Session

LEMMA ShutdownBeginWaits ==
  ASSUME IInv, IInv', RegInv, RegInv', WaitInv, ShutdownBegin
  PROVE  WaitInv'
<1>1. /\ owners' = owners /\ stopping' = TRUE /\ Watcher \notin Sessions
      /\ pc' = pc /\ arg' = arg
  BY ConstantsAssumption DEF ShutdownBegin
<1>2. \A t \in Sessions : /\ session[t] \in Session
                          /\ session'[t] = [session[t] EXCEPT !.auto = Nothing]
  BY DEF ShutdownBegin, IInv, TypeOK
<1>3. ASSUME NEW t \in Sessions
      PROVE  Eased(t)
  <2> DEFINE q == [session[t] EXCEPT !.auto = Nothing]
  <2>1. /\ q.token = session[t].token /\ q.active = session[t].active /\ q.auto = Nothing
        /\ q.retry = session[t].retry /\ q.life = session[t].life
        /\ q.cancelled = session[t].cancelled
    BY <1>2, DroppedWork
  <2>2. session'[t] = q
    BY <1>2
  <2> HIDE DEF q
  <2> QED BY <1>1, <2>1, <2>2 DEF Eased
<1>4. \A t \in Sessions : RetryDue(t)'
  BY <1>1 DEF RetryDue
<1> QED BY <1>1, <1>3, <1>4, WaitFrame DEF WatcherStays

LEMMA JobPublishWaits ==
  ASSUME IInv, IInv', RegInv, RegInv', WaitInv, NEW j \in Jobs, JobPublish(j)
  PROVE  WaitInv'
<1>1. PICK r \in Job, S \in SUBSET Sessions, st \in SharedState :
        /\ EndsTo(j, r, S, st)
        /\ Install(st) \/ Install(Refreshed(st, S, job[j].project))
  BY Published
<1>2. /\ pc' = pc /\ arg' = arg /\ stopping' = stopping /\ Watcher \notin Sessions
      /\ ~stopping => unvisited' = {s \in Sessions : Linked(s)}
  BY ConstantsAssumption DEF JobPublish
<1>3. \A i \in Jobs : st.job[i].waiter = job[i].waiter
  BY <1>1, EndedKempt
<1>4. st.session = Cleared(session, S) /\ st.owners = owners
  BY <1>1 DEF EndsTo
<1>5. ASSUME NEW t \in Sessions
      PROVE  LET q == st.session[t]
             IN  /\ q.token = session[t].token /\ q.active = session[t].active
                 /\ q.auto \in {Nothing, session[t].auto}
                 /\ q.retry = session[t].retry /\ q.life = session[t].life
                 /\ q.cancelled = session[t].cancelled
  <2>1. session[t] \in Session
    BY DEF IInv, TypeOK
  <2>2. CASE st.session[t] = session[t]
    BY <2>2
  <2>3. CASE st.session[t] = [session[t] EXCEPT !.auto = Nothing]
    BY <2>1, <2>3, DroppedWork
  <2> QED BY <1>4, <2>2, <2>3 DEF Cleared
<1>6. /\ \A t \in Sessions : SameWork(st.session[t], session'[t])
      /\ \A o \in owners' : o \in owners \/ st.job[o[2]].waiter
  <2>1. OnlyWatch(st, Refreshed(st, S, job[j].project))
    BY RefreshedOnly
  <2>2. OnlyWatch(st, st)
    BY DEF OnlyWatch, SameWork
  <2> QED BY <1>1, <1>4, <2>1, <2>2 DEF Install, OnlyWatch
<1>7. \A o \in owners' : o \in owners \/ job[o[2]].waiter
  BY <1>3, <1>6 DEF IInv, TypeOK
<1>8. \A t \in Sessions : Eased(t)
  BY <1>2, <1>5, <1>6 DEF Eased, SameWork
<1>9. ASSUME NEW t \in Sessions
      PROVE  RetryDue(t)'
  <2>1. session'[t].retry => Linked(t)
    BY <1>5, <1>6 DEF SameWork, WaitInv, DueAt, Linked
  <2> QED BY <1>2, <2>1 DEF RetryDue
<1> QED
  BY <1>2, <1>7, <1>8, <1>9, WaitFrame DEF WatcherStays

LEMMA AutoIndexRetryWaits ==
  ASSUME IInv, IInv', RegInv, RegInv', WaitInv, AutoIndexRetry
  PROVE  WaitInv'
<1> DEFINE due(s) == session[s].retry /\ session[s].auto = Nothing /\ ~session[s].cancelled
           done(s) == [session[s] EXCEPT !.retry = FALSE]
           made(s, i) == [session[s] EXCEPT !.auto = i, !.retry = FALSE]
<1>1. PICK s \in unvisited :
        \/ /\ ~due(s)
           /\ unvisited' = unvisited \ {s}
           /\ UNCHANGED <<session, owners, faults>>
        \/ /\ Install(Refreshed([Shared EXCEPT !.session =
                              [session EXCEPT ![s].retry = FALSE]], {s}, Home[s]))
           /\ unvisited' = unvisited \ {s}
           /\ UNCHANGED faults
        \/ /\ \E x \in Subscriptions(job, Home[s], "default") :
                /\ session' = IF x.job = Nothing THEN session
                              ELSE [session EXCEPT ![s].auto = x.job, ![s].retry = FALSE]
                /\ job' = x.jobs
                /\ faults' = FaultsAfter(x)
                /\ unvisited' = IF x.status = "busy" THEN {} ELSE unvisited \ {s}
           /\ UNCHANGED owners
  BY DEF AutoIndexRetry
<1>2. /\ stopping' = stopping /\ pc' = pc /\ arg' = arg
      /\ s \in Sessions /\ session[s] \in Session /\ session \in [Sessions -> Session]
      /\ job \in JobMap /\ Watcher \notin Sessions
      /\ Active(job) # {} => Active(job') # {}
  <2>1. stopping' = stopping /\ pc' = pc /\ arg' = arg /\ unvisited \subseteq Sessions
    BY DEF AutoIndexRetry, IInv, TypeOK
  <2>2. session \in [Sessions -> Session] /\ job \in JobMap /\ Watcher \notin Sessions
    BY ConstantsAssumption DEF IInv, TypeOK, JobMap
  <2>3. Active(job) # {} => Active(job') # {}
    BY AutoIndexRetryStep DEF Lasting
  <2> QED BY <2>1, <2>2, <2>3
<1>3. /\ done(s).token = session[s].token /\ done(s).active = session[s].active
      /\ done(s).auto = session[s].auto /\ done(s).retry = FALSE
      /\ done(s).life = session[s].life
  BY <1>2 DEF Session
<1>4. \A i : /\ made(s, i).token = session[s].token
             /\ made(s, i).active = session[s].active
             /\ made(s, i).retry = FALSE
  BY <1>2 DEF Session
<1> HIDE DEF done, made
<1>5. CASE /\ ~due(s) /\ unvisited' = unvisited \ {s}
           /\ UNCHANGED <<session, owners, faults>>
  <2>1. \A t \in Sessions : Eased(t)
    BY <1>2, <1>5 DEF Eased
  <2>2. ~(session[s].retry /\ ~session[s].cancelled)
    BY <1>2, <1>5 DEF WaitInv, DueAt
  <2>3. \A t \in Sessions : RetryDue(t)'
    BY <1>2, <1>5, <2>2 DEF WaitInv, RetryDue
  <2> QED
    BY <1>2, <1>5, <2>1, <2>3, WaitFrame DEF WatcherStays
<1>6. CASE /\ Install(Refreshed([Shared EXCEPT !.session =
                              [session EXCEPT ![s].retry = FALSE]], {s}, Home[s]))
           /\ unvisited' = unvisited \ {s}
           /\ UNCHANGED faults
  <2> DEFINE ss == [session EXCEPT ![s].retry = FALSE]
             before == [Shared EXCEPT !.session = ss]
             after == Refreshed(before, {s}, Home[s])
  <2>1. ss = [session EXCEPT ![s] = done(s)] /\ ss \in [Sessions -> Session]
    <3>1. done(s) \in Session
      BY <1>2 DEF done, Session
    <3>2. ss = [session EXCEPT ![s] = done(s)]
      BY <1>2 DEF done
    <3> QED BY <1>2, <3>1, <3>2
  <2>2. ss[s] = done(s) /\ \A t \in Sessions \ {s} : ss[t] = session[t]
    BY <1>2, <2>1
  <2>3. Install(after)
    BY <1>6
  <2> HIDE DEF ss
  <2>4. /\ before \in SharedState /\ before.session = ss /\ before.job = job
        /\ before.owners = owners
    BY <2>1, SharedType DEF SharedState, IInv
  <2> HIDE DEF before
  <2>5. OnlyWatch(before, after)
    BY <1>2, <2>4, RefreshedOnly
  <2> HIDE DEF after
  <2>6. /\ \A t \in Sessions : SameWork(ss[t], session'[t])
        /\ \A o \in owners' : o \in owners \/ job[o[2]].waiter
    BY <2>3, <2>4, <2>5 DEF OnlyWatch, Install
  <2>7. \A t \in Sessions : Eased(t)
    BY <1>2, <1>3, <2>2, <2>6 DEF Eased, SameWork
  <2>8. ASSUME NEW t \in Sessions
        PROVE  RetryDue(t)'
    <3>1. CASE t = s
      <4>1. session'[s].retry = FALSE
        BY <1>2, <1>3, <2>2, <2>6 DEF SameWork
      <4> QED BY <3>1, <4>1 DEF RetryDue
    <3>2. CASE t # s
      BY <1>2, <1>6, <2>2, <2>6, <3>2 DEF WaitInv, RetryDue, SameWork
    <3> QED BY <3>1, <3>2
  <2> QED
    BY <1>2, <2>6, <2>7, <2>8, WaitFrame DEF WatcherStays
<1>7. ASSUME NEW x \in Subscriptions(job, Home[s], "default"), job' = x.jobs,
             faults' = FaultsAfter(x), owners' = owners
      PROVE  /\ x.job = Nothing /\ session' = session => WaitInv'
             /\ x.job # Nothing /\ session' = [session EXCEPT ![s] = made(s, x.job)]
                /\ unvisited' = unvisited \ {s} => WaitInv'
  <2>1. faults' = 0 => faults = 0
    BY <1>7, FaultsGrow DEF IInv
  <2>2. CASE x.job = Nothing /\ session' = session
    <3>1. ~stopping /\ faults' = 0 => Active(job') # {}
      BY <1>2, <1>7, <2>2, RefusedBusy DEF IInv
    <3>2. \A t \in Sessions : Eased(t)
      BY <1>2, <2>2 DEF Eased
    <3>3. \A t \in Sessions : RetryDue(t)'
      BY <1>2, <3>1 DEF RetryDue
    <3> QED
      BY <1>2, <1>7, <3>2, <3>3, WaitFrame DEF WatcherStays
  <2>3. CASE /\ x.job # Nothing /\ session' = [session EXCEPT ![s] = made(s, x.job)]
             /\ unvisited' = unvisited \ {s}
    <3>1. /\ session'[s] = made(s, x.job)
          /\ \A t \in Sessions \ {s} : session'[t] = session[t]
      BY <1>2, <2>3
    <3>2. DueAt(s)'
      BY <1>2, <1>4, <3>1 DEF WaitInv, DueAt
    <3>3. \A t \in Sessions \ {s} : Eased(t)
      BY <1>2, <3>1 DEF Eased
    <3>4. \A t \in Sessions : RetryDue(t)'
      BY <1>2, <1>4, <2>1, <2>3, <3>1 DEF WaitInv, RetryDue
    <3> QED
      BY <1>2, <1>7, <3>2, <3>3, <3>4, WaitFrame DEF WatcherStays
  <2> QED BY <2>2, <2>3
<1>8. ASSUME NEW x \in Subscriptions(job, Home[s], "default"),
             session' = IF x.job = Nothing THEN session
                        ELSE [session EXCEPT ![s].auto = x.job, ![s].retry = FALSE],
             unvisited' = IF x.status = "busy" THEN {} ELSE unvisited \ {s}
      PROVE  \/ x.job = Nothing /\ session' = session
             \/ /\ x.job # Nothing /\ session' = [session EXCEPT ![s] = made(s, x.job)]
                /\ unvisited' = unvisited \ {s}
  <2>1. x.job # Nothing => x.status = "ok"
    BY <1>2, Answered
  <2>2. [session EXCEPT ![s].auto = x.job, ![s].retry = FALSE]
          = [session EXCEPT ![s] = made(s, x.job)]
    BY <1>2 DEF made
  <2> QED BY <1>8, <2>1, <2>2
<1> QED BY <1>1, <1>5, <1>6, <1>7, <1>8

(* Nothing is pending at the start.                                        *)
LEMMA WaitInitially == Init => WaitInv
<1> SUFFICES ASSUME Init PROVE WaitInv
  OBVIOUS
<1>1. \A s \in Sessions : /\ session[s].token = 0 /\ session[s].active = Nothing
                          /\ session[s].retry = FALSE
  BY DEF Init, NoSession
<1>2. owners = {}
  BY DEF Init
<1> QED BY <1>1, <1>2 DEF WaitInv, DueAt, RetryDue

(* Each step keeps somebody at work for all that is pending.               *)
LEMMA WaitSteps ==
  ASSUME IInv, IInv', RegInv, RegInv', WaitInv, Next
  PROVE  WaitInv'
<1>1. ASSUME NEW s \in Sessions, RequestStep(s)
      PROVE  WaitInv'
  BY <1>1, RequestEnterWaits, IndexSubscribeWaits, IndexBindWaits, IndexWaitWaits,
     RequestRefreshWaits, RequestFinishWaits, BackgroundProbeWaits,
     BackgroundInitializeWaits, MutationRefuseWaits DEF RequestStep
<1>2. ASSUME NEW s \in Sessions,
             \/ SessionOpen(s) \/ RequestAdmit(s) \/ RequestStep(s) \/ RequestCancel(s)
             \/ SessionCancel(s) \/ AutoIndexJoined(s) \/ SessionClose(s)
      PROVE  WaitInv'
  BY <1>1, <1>2, SessionOpenWaits, RequestAdmitWaits, RequestCancelWaits,
     SessionCancelWaits, AutoIndexJoinedWaits, SessionCloseWaits
<1>3. ASSUME NEW a \in Actors,
             MutationStep(a) \/ \E k \in Keys : MutationReserve(a, k)
      PROVE  WaitInv'
  BY <1>3, MutationWaits, MutationReserveWaits
<1>4. CASE ProjectPruned \/ WatcherIndexed \/ \E p \in Projects : WatcherIndex(p)
  BY <1>4, ProjectPrunedWaits, WatcherIndexedWaits, WatcherIndexWaits
<1>5. ASSUME NEW j \in Jobs, JobThread(j)
      PROVE  WaitInv'
  BY <1>5, ThreadWaits, JobPublishWaits DEF JobThread
<1>6. CASE AutoIndexRetry \/ ShutdownBegin \/ ShutdownDone
  BY <1>6, AutoIndexRetryWaits, ShutdownBeginWaits, ShutdownDoneWaits
<1> QED BY <1>2, <1>3, <1>4, <1>5, <1>6 DEF Next

LEMMA WaitInductive == IInv /\ IInv' /\ RegInv /\ RegInv' /\ WaitInv /\ [Next]_vars => WaitInv'
<1> SUFFICES ASSUME IInv, IInv', RegInv, RegInv', WaitInv, [Next]_vars PROVE WaitInv'
  OBVIOUS
<1>1. CASE UNCHANGED vars
  BY <1>1 DEF vars, WaitInv, DueAt, RetryDue, Linked
<1> QED BY <1>1, WaitSteps

(* When no thread runs but for its wait, no wait is left: nobody holds a   *)
(* reservation, so no job waits; then no job is active, so nobody waits    *)
(* for one, and what is pending has been asked for again.                  *)
LEMMA WaitsEnd ==
  ASSUME IInv, RegInv, WaitInv, ~SomebodyRuns
  PROVE  AllSettled
<1>1. /\ \A a \in Actors : pc[a] = "idle" \/ WaitsForJob(a) \/ WaitsToReserve(a)
      /\ \A j \in Jobs : job[j].thread \in {"none", "done"} \/ JobWaits(j)
      /\ \A s \in Sessions : leaving[s].pc = "joining" => JoinWaits(s)
      /\ unvisited = {} /\ ~(host = "draining" /\ AllDone)
      /\ Watcher \in Actors /\ Sessions \subseteq Actors /\ Nothing \notin Jobs
  BY ConstantsAssumption DEF SomebodyRuns, Actors
<1>2. \A a \in Actors : ~Reserved(a)
  BY <1>1 DEF WaitsForJob, WaitsToReserve, Reserved
<1>3. \A k : ~MutationConflicts(k)
  BY <1>2 DEF MutationConflicts
<1>4. \A j \in Jobs : job[j].thread \in {"none", "done"}
  BY <1>1, <1>3 DEF JobWaits
<1>5. /\ \A j \in Jobs : job[j].linked => job[j].terminal /\ job[j].thread = "done"
      /\ Active(job) = {}
  BY <1>4 DEF IInv, Shaped, Active
<1>6. \A k : ~JobReserves(k)
  BY <1>5 DEF JobReserves
<1>7. \A j \in Jobs : /\ job[j].subs = Cardinality(References(j))
                      /\ job[j].waiter <=> (pc[Watcher] = "wait" /\ arg[Watcher].job = j)
                      /\ References(j) # {} \/ job[j].waiter => job[j].linked
  BY RegistersExact DEF ReferencesExact, SubscribersCounted
<1>8. \A a \in Actors : ~WaitsForJob(a)
  <2>1. ASSUME WaitsForJob(Watcher)
        PROVE  FALSE
    BY <1>5, <1>7, <2>1 DEF WaitsForJob, RegInv, Awaited
  <2>2. ASSUME NEW s \in Sessions, WaitsForJob(s)
        PROVE  FALSE
    <3>1. arg[s].job \in Jobs /\ session[s].active = arg[s].job
      BY <2>2 DEF WaitsForJob, RegInv, Posted, PostedAt
    <3>2. <<s, "active">> \in References(arg[s].job)
      BY <3>1 DEF References
    <3> QED BY <1>5, <1>7, <2>2, <3>1, <3>2 DEF WaitsForJob
  <2> QED BY <2>1, <2>2 DEF Actors
<1>9. \A a \in Actors : pc[a] = "idle"
  BY <1>1, <1>3, <1>6, <1>8 DEF WaitsToReserve
<1>10. \A s \in Sessions : leaving[s].pc # "joining" /\ leaving[s].job = Nothing
  <2> SUFFICES ASSUME NEW s \in Sessions, leaving[s].pc = "joining"
               PROVE  FALSE
    BY DEF RegInv, Posted, PostedAt
  <2>1. leaving[s].job \in Jobs
    BY DEF RegInv, Posted, PostedAt, IInv, TypeOK
  <2>2. <<s, "leaving">> \in References(leaving[s].job)
    BY <2>1 DEF References
  <2> QED BY <1>1, <1>5, <1>7, <2>1, <2>2 DEF JoinWaits
<1>11. ASSUME NEW s \in Sessions, session[s].retry
       PROVE  session[s].cancelled \/ stopping \/ faults > 0
  <2>1. faults \in Nat
    BY ConstantsAssumption DEF IInv, TypeOK
  <2> QED BY <1>1, <1>5, <1>11, <2>1 DEF WaitInv, RetryDue
<1>12. ASSUME host = "draining"
       PROVE  AllDone
  <2>1. \A s \in Sessions : session[s].token = 0 /\ session[s].active = Nothing
    BY <1>1, <1>9 DEF WaitInv, DueAt, Serving
  <2>2. ASSUME NEW j \in Jobs
        PROVE  job[j].subs = 0 /\ ~job[j].waiter
    <3>1. ~job[j].waiter
      BY <1>1, <1>7, <1>9
    <3>2. \A o \in owners : o[2] # j
      BY <3>1 DEF WaitInv
    <3>3. \A s \in Sessions : session[s].auto = Nothing
      BY <1>12 DEF IInv, Drained
    <3>4. References(j) = {}
      BY <1>1, <1>9, <1>10, <2>1, <3>2, <3>3 DEF References
    <3> QED BY <1>7, <3>1, <3>4, FS_EmptySet
  <2> QED BY <1>2, <1>5, <2>1, <2>2 DEF AllDone
<1> QED
  BY <1>1, <1>5, <1>9, <1>10, <1>11, <1>12 DEF AllSettled

(* The waits for jobs, for mutations, for reservations and for disconnects *)
(* never close a circle, and a pending auto-index is never forgotten.      *)
THEOREM NobodyIsEverStuck == Spec => []NobodyStuck
<1>1. Init => IInv /\ RegInv /\ WaitInv
  BY Initially, RegInitially, WaitInitially
<1>2. IInv /\ RegInv /\ WaitInv /\ [Next]_vars => (IInv /\ RegInv /\ WaitInv)'
  BY Inductive, RegInductive, WaitInductive
<1>3. IInv /\ RegInv /\ WaitInv => NobodyStuck
  BY WaitsEnd DEF NobodyStuck
<1> QED BY <1>1, <1>2, <1>3, PTL DEF Spec

-----------------------------------------------------------------------------
(* The abstract specification.                                             *)

(* Steps in which active jobs last are such steps.                         *)
LEMMA LastingOnward ==
  ASSUME Lasting
  PROVE  Onward
  BY DEF Lasting, Onward, Carried, Alike

(* A publication ends its own job, and leaves the other active ones alone. *)
LEMMA PublishEnds ==
  ASSUME IInv, RegInv, NEW j \in Jobs, JobPublish(j)
  PROVE  /\ j \in Active(job) /\ job[j].thread = "publishing"
         /\ Active(job') = Active(job) \ {j}
         /\ \A i \in Active(job) \ {j} : Carried(job'[i], job[i])
<1>1. PICK r \in Job, S \in SUBSET Sessions, st \in SharedState :
        /\ EndsTo(j, r, S, st)
        /\ Install(st) \/ Install(Refreshed(st, S, job[j].project))
  BY Published
<1>2. st.job[j].terminal /\ \A i \in Jobs \ {j} : st.job[i] = job[i]
  BY <1>1, EndedKempt
<1>3. Kept(st.job, job')
  <2>1. Kept(st.job, st.job)
    BY DEF Kept, Alike, Carried
  <2>2. Kept(st.job, Refreshed(st, S, job[j].project).job)
    BY RefreshedKeeps
  <2> QED BY <1>1, <2>1, <2>2 DEF Install
<1>4. j \in Active(job) /\ job[j].thread = "publishing"
  BY DEF JobPublish, IInv, Shaped, Active
<1>5. j \notin Active(job')
  BY <1>2, <1>3, NoJobFields DEF Active, Kept, Carried, Alike
<1>6. \A i \in Active(job) \ {j} : i \in Active(job') /\ Carried(job'[i], job[i])
  BY <1>2, <1>3 DEF Active, Kept, Carried, Alike, IInv, Shaped
<1>7. \A i \in Active(job') : i \in Active(job)
  BY <1>2, <1>3, <1>5, NoJobFields DEF Active, Kept, Carried, Alike
<1> QED BY <1>4, <1>5, <1>6, <1>7

(* A step of a job's thread leaves the active jobs' flags alone.           *)
LEMMA ThreadOnward ==
  ASSUME IInv, RegInv, NEW j \in Jobs, JobThread(j)
  PROVE  Onward
<1>1. CASE JobWait(j) \/ JobStart(j) \/ WorkerEnd(j) \/ JobCollect(j)
  <2>1. \A i \in Jobs : SameCount(job[i], job'[i])
    BY <1>1, ThreadSame DEF IInv
  <2> QED BY <2>1 DEF Onward, Active, SameCount
<1>2. CASE JobPublish(j)
  BY <1>2, PublishEnds DEF Onward, Carried, Alike
<1> QED BY <1>1, <1>2 DEF JobThread

(* Every step goes on in this sense.                                       *)
LEMMA StepOnward ==
  ASSUME IInv, RegInv, Next
  PROVE  IInv' /\ Onward
  BY Steps, LastingOnward, ThreadOnward

-----------------------------------------------------------------------------
(* Cancellations.                                                          *)

(* What is referred to by a disconnect is not taken for a new job.         *)
LEMMA CancelKept ==
  ASSUME IInv, RegInv, CancelInv, Onward,
         stopping' => stopping \/ \A j \in Active(job') : job'[j].cancelReq,
         \A s \in Sessions : \/ leaving'[s].job \in {leaving[s].job, Nothing}
                             \/ job'[leaving'[s].job].cancelReq
  PROVE  CancelInv'
<1>1. ASSUME stopping', NEW j \in Active(job')
      PROVE  job'[j].cancelReq
  BY <1>1 DEF Onward, CancelInv
<1>2. ASSUME NEW s \in Sessions, leaving'[s].job \in Active(job'),
             leaving'[s].job = leaving[s].job
      PROVE  job'[leaving'[s].job].cancelReq
  <2> DEFINE j == leaving[s].job
  <2>1. CASE j \in Active(job)
    BY <1>2, <2>1 DEF Onward, CancelInv
  <2>2. CASE j \notin Active(job)
    <3>1. Fresh(j) /\ j \in Jobs
      BY <1>2, <2>2 DEF Onward, Active
    <3>2. <<s, "leaving">> \in Held(Binding, Joining, session, owners, j)
      BY DEF Held, Tags, Joining
    <3>3. Backed(job[j], Held(Binding, Joining, session, owners, j))
      BY <3>1 DEF RegInv, Registers, Kempt, Counted, Shared
    <3>4. Held(Binding, Joining, session, owners, j) \in SUBSET Referrers
      BY HeldType
    <3> DEFINE H == Held(Binding, Joining, session, owners, j)
    <3> HIDE DEF H
    <3>5. Cardinality(H) # 0
      BY <3>2, <3>4, ReferrersFinite, FS_EmptySet DEF H
    <3> QED BY <3>1, <3>2, <3>3, <3>5 DEF Fresh, Backed, H
  <2> QED BY <2>1, <2>2
<1>3. ASSUME NEW s \in Sessions, leaving'[s].job \in Active(job')
      PROVE  job'[leaving'[s].job].cancelReq
  <2>1. Nothing \notin Active(job')
    BY ConstantsAssumption DEF Active
  <2> QED BY <1>2, <1>3, <2>1
<1> QED BY <1>1, <1>3 DEF CancelInv

(* Cancelling all jobs cancels the active ones, reaped or not.             *)
LEMMA AllAreCancelled ==
  ASSUME NEW js \in JobMap, NEW ks \in {AllCancelled(js), Reaped(AllCancelled(js))}
  PROVE  \A j \in Active(ks) : ks[j].cancelReq
<1>1. \A j \in Jobs : /\ j \in Active(js) => AllCancelled(js)[j].cancelReq
                      /\ j \in Active(AllCancelled(js)) => j \in Active(js)
  <2>1. \A r \in Job : [r EXCEPT !.cancelReq = TRUE].cancelReq
    BY DEF Job
  <2> QED BY <2>1 DEF AllCancelled, JobMap, Active
<1>2. \A j \in Jobs : \/ Reaped(AllCancelled(js))[j] = AllCancelled(js)[j]
                      \/ ~Reaped(AllCancelled(js))[j].linked
  BY NoJobFields DEF Reaped
<1> QED BY <1>1, <1>2 DEF Active

(* The auto-index job that a disconnect will join is cancelled.            *)
LEMMA JoinCancelled ==
  ASSUME NEW st \in SharedState, Shaped(st.job), NEW s \in Sessions,
         Detached(st, s).join # Nothing
  PROVE  Detached(st, s).st.job[Detached(st, s).join].cancelReq
<1> DEFINE active == st.session[s].active
           auto == st.session[s].auto
           js == IF active = Nothing THEN st.job
                 ELSE [st.job EXCEPT ![active] = Unsubscribed(@, 1)]
           last == auto # Nothing /\ ~js[auto].terminal /\ js[auto].subs = 1
           ks == [js EXCEPT ![auto].cancelReq = TRUE]
           before == [st EXCEPT
                !.session = [st.session EXCEPT ![s].active = Nothing, ![s].auto = Nothing],
                !.job = IF auto = Nothing THEN js
                        ELSE IF last THEN [js EXCEPT ![auto].cancelReq = TRUE]
                        ELSE [js EXCEPT ![auto] = Unsubscribed(@, 1)]]
<1>1. /\ Detached(st, s).join = IF last THEN auto ELSE Nothing
      /\ Detached(st, s).st = Unwatched(before, {s})
  BY DEF Detached
<1>2. last /\ Detached(st, s).join = auto /\ auto # Nothing
  BY <1>1
<1>3. st.session[s] \in Session /\ auto \in Jobs /\ st.job \in JobMap
      /\ active \in Jobs \cup {Nothing}
  BY <1>2 DEF SharedState, Session
<1>4. js \in JobMap /\ Kept(st.job, js)
  <2>1. Kept(st.job, st.job)
    BY DEF Kept, Alike, Carried
  <2> QED BY <1>3, <2>1, UnsubscribedJob
<1>5. js[auto].thread # "done"
  <2>1. ~js[auto].terminal
    BY <1>2
  <2> HIDE DEF js, auto
  <2> QED
    BY <1>3, <1>4, <2>1, NoJobFields DEF Kept, Carried, Alike, Shaped
<1>6. /\ ks \in JobMap /\ ks[auto].cancelReq /\ ks[auto].thread = js[auto].thread
  <2>1. \A r \in Job : LET q == [r EXCEPT !.cancelReq = TRUE]
                       IN  q \in Job /\ q.cancelReq = TRUE /\ q.thread = r.thread
    BY DEF Job
  <2> HIDE DEF js, auto
  <2> QED BY <1>3, <1>4, <2>1 DEF JobMap
<1>7. before.job = ks /\ before \in SharedState
  <2>1. before.job = ks
    BY <1>2
  <2>2. [st.session EXCEPT ![s].active = Nothing, ![s].auto = Nothing]
          \in [Sessions -> Session]
    BY DEF SharedState, Session
  <2> HIDE DEF js, auto, ks, last
  <2> QED BY <1>6, <2>1, <2>2 DEF SharedState
<1>8. Kept(before.job, Unwatched(before, {s}).job)
  <2> HIDE DEF before
  <2> QED BY <1>7, UnwatchedKeeps
<1> HIDE DEF before, ks, js, auto, last
<1> QED
  BY <1>1, <1>2, <1>3, <1>5, <1>6, <1>7, <1>8 DEF Kept, Carried

(* A disconnect that stops the daemon cancels all jobs, and the one that   *)
(* it joins in any case.                                                   *)
LEMMA SessionCancelCancels ==
  ASSUME IInv, NEW s \in Sessions, SessionCancel(s)
  PROVE  /\ stopping' => stopping \/ \A j \in Active(job') : job'[j].cancelReq
         /\ \A t \in Sessions : \/ leaving'[t].job \in {leaving[t].job, Nothing}
                                \/ job'[leaving'[t].job].cancelReq
<1> DEFINE d == Detached(Shared, s)
           final == ~Permanent /\ \A t \in Sessions \ {s} : Linked(t) => session[t].cancelled
           js == IF final THEN AllCancelled(d.st.job) ELSE d.st.job
<1>1. /\ stopping' = (stopping \/ final)
      /\ leaving' = [leaving EXCEPT ![s] =
                   [pc |-> IF d.join = Nothing THEN "left" ELSE "joining", job |-> d.join]]
      /\ job' = IF d.join = Nothing THEN Reaped(js) ELSE js
  BY DEF SessionCancel
<1>2. Shared \in SharedState /\ Shared.job = job /\ Shaped(job)
  BY SharedType DEF IInv
<1>3. /\ d.st.job \in JobMap /\ d.join \in Jobs \cup {Nothing}
      /\ d.join # Nothing => d.st.job[d.join].cancelReq
  BY <1>2, DetachedKeeps, JoinCancelled DEF SharedState
<1> HIDE DEF d, final
<1>4. ASSUME final
      PROVE  \A j \in Active(job') : job'[j].cancelReq
  BY <1>1, <1>3, <1>4, AllAreCancelled
<1>5. ASSUME d.join # Nothing
      PROVE  job'[d.join].cancelReq
  <2>1. \A r \in Job : [r EXCEPT !.cancelReq = TRUE].cancelReq
    BY DEF Job
  <2> QED BY <1>1, <1>3, <1>5, <2>1 DEF AllCancelled, JobMap
<1>6. \A t \in Sessions : leaving'[t].job \in {leaving[t].job, d.join}
  BY <1>1 DEF IInv, TypeOK
<1> QED BY <1>1, <1>4, <1>5, <1>6

(* A shutdown cancels all jobs.                                            *)
LEMMA ShutdownCancels ==
  ASSUME IInv, ShutdownBegin
  PROVE  \A j \in Active(job') : job'[j].cancelReq
<1> DEFINE auto(j) == Cardinality({s \in Sessions : Linked(s) /\ session[s].auto = j})
           dropped == [j \in Jobs |-> IF auto(j) = 0 THEN job[j]
                                      ELSE Unsubscribed(job[j], auto(j))]
<1>1. job' = AllCancelled(dropped)
  BY DEF ShutdownBegin
<1>2. \A j \in Jobs : auto(j) \in Nat /\ job[j] \in Job
  BY Counting DEF IInv, TypeOK
<1> HIDE DEF auto
<1>3. dropped \in JobMap
  BY <1>2, UnsubscribedKeeps DEF JobMap
<1> HIDE DEF dropped
<1> QED BY <1>1, <1>3, AllAreCancelled

(* Only a disconnect and the shutdown stop the daemon, and only a          *)
(* disconnect joins a job.                                                 *)
LEMMA Otherwise ==
  ASSUME IInv, Next, ~ShutdownBegin, \A s \in Sessions : ~SessionCancel(s)
  PROVE  /\ stopping' = stopping
         /\ \A s \in Sessions : leaving'[s].job \in {leaving[s].job, Nothing}
<1> DEFINE Goal == /\ stopping' = stopping
                   /\ \A s \in Sessions : leaving'[s].job \in {leaving[s].job, Nothing}
<1>1. ASSUME UNCHANGED <<stopping, leaving>> PROVE Goal
  BY <1>1
<1>2. ASSUME NEW s \in Sessions, RequestStep(s) PROVE Goal
  <2>1. UNCHANGED <<stopping, leaving>>
    BY <1>2 DEF RequestStep, RequestEnter, IndexSubscribe, IndexBind, IndexWait,
       RequestRefresh, RequestFinish, BackgroundProbe, BackgroundInitialize, MutationRefuse
  <2> QED BY <1>1, <2>1
<1>3. ASSUME NEW s \in Sessions,
             SessionOpen(s) \/ RequestAdmit(s) \/ RequestCancel(s) \/ SessionClose(s)
      PROVE Goal
  BY <1>1, <1>3 DEF SessionOpen, RequestAdmit, RequestCancel, SessionClose
<1>4. ASSUME NEW s \in Sessions, AutoIndexJoined(s) PROVE Goal
  BY <1>4 DEF AutoIndexJoined, IInv, TypeOK
<1>5. ASSUME NEW a \in Actors, MutationStep(a) \/ \E k \in Keys : MutationReserve(a, k)
      PROVE Goal
  BY <1>1, <1>5 DEF MutationStep, LeaseGranted, LeaseFailed, MutationWork, MutationRelease,
     MutationEnd, MutationReserve
<1>6. ASSUME ProjectPruned \/ WatcherIndexed \/ \E p \in Projects : WatcherIndex(p) PROVE Goal
  BY <1>1, <1>6 DEF ProjectPruned, WatcherIndexed, WatcherIndex
<1>7. ASSUME NEW j \in Jobs, JobThread(j) PROVE Goal
  <2>1. UNCHANGED <<stopping, leaving>>
    BY <1>7 DEF JobThread, JobWait, JobStart, WorkerEnd, JobCollect, JobPublish, JobStep
  <2> QED BY <1>1, <2>1
<1>8. ASSUME AutoIndexRetry \/ ShutdownDone PROVE Goal
  BY <1>1, <1>8 DEF AutoIndexRetry, ShutdownDone
<1> HIDE DEF Goal
<1> QED
  BY <1>2, <1>3, <1>4, <1>5, <1>6, <1>7, <1>8 DEF Next, Goal

(* Each step cancels the jobs it lets go of.                               *)
LEMMA CancelSteps == IInv /\ RegInv /\ CancelInv /\ [Next]_vars => CancelInv'
<1> SUFFICES ASSUME IInv, RegInv, CancelInv, [Next]_vars PROVE CancelInv'
  OBVIOUS
<1>1. CASE UNCHANGED vars
  BY <1>1 DEF vars, CancelInv, Active
<1>2. ASSUME Next PROVE Onward
  BY <1>2, StepOnward
<1>3. ASSUME NEW s \in Sessions, SessionCancel(s) PROVE CancelInv'
  <2>1. Next
    BY <1>3 DEF Next
  <2> QED
    BY <1>2, <1>3, <2>1, SessionCancelCancels, CancelKept
<1>4. CASE ShutdownBegin
  <2>1. Next
    BY <1>4 DEF Next
  <2>2. leaving' = leaving
    BY <1>4 DEF ShutdownBegin
  <2> QED
    BY <1>2, <1>4, <2>1, <2>2, ShutdownCancels, CancelKept
<1>5. CASE Next /\ ~ShutdownBegin /\ \A s \in Sessions : ~SessionCancel(s)
  BY <1>2, <1>5, Otherwise, CancelKept
<1> QED BY <1>1, <1>3, <1>4, <1>5

-----------------------------------------------------------------------------
(* Who needs a job.                                                        *)

(* At and the cancelled projects, project by project, before a step        *)
LEMMA AtPlaces ==
  ASSUME \A j \in Active(job) : job[j].project \in Projects
  PROVE  /\ \A P : At(P) = {p \in Projects :
                            \E j \in ActiveOf(job, p) : job[j].thread \in P}
         /\ {job[j].project : j \in {k \in Active(job) : job[k].cancelReq}}
              = {p \in Projects : \E j \in ActiveOf(job, p) : job[j].cancelReq}
  BY DEF At, ActiveOf

(* and after it.                                                           *)
LEMMA AtPlacesNext ==
  ASSUME \A j \in Active(job') : job'[j].project \in Projects
  PROVE  /\ \A P : At(P)' = {p \in Projects :
                             \E j \in ActiveOf(job', p) : job'[j].thread \in P}
         /\ {job'[j].project : j \in {k \in Active(job') : job'[k].cancelReq}}
              = {p \in Projects : \E j \in ActiveOf(job', p) : job'[j].cancelReq}
  BY DEF At, ActiveOf

(* Sessions need jobs.                                                     *)
LEMMA NeedingSessions == IInv => \A p : Needing(p) \in SUBSET Sessions
<1> SUFFICES ASSUME IInv, NEW p, NEW j \in ActiveOf(job, p), NEW r \in References(j)
             PROVE  r[1] \in Sessions
  BY DEF Needing
<1>1. owners \subseteq Sessions \X Jobs
  BY DEF IInv, TypeOK
<1> QED BY <1>1 DEF References

(* Nobody needs the job of a project iff all references to it are those of *)
(* disconnects, and then it is cancelled.                                  *)
LEMMA NobodyNeeds ==
  IInv /\ RegInv /\ CancelInv =>
    \A p \in Projects : \A j \in ActiveOf(job, p) :
      /\ (\A r \in Refers(j) : r[2] = "leaving") => Needing(p) = {}
      /\ Needing(p) = {} \/ stopping => job[j].cancelReq
      /\ job[j].subs = 0 => Refers(j) = {}
<1> SUFFICES ASSUME IInv, RegInv, CancelInv, NEW p \in Projects, NEW j \in ActiveOf(job, p)
             PROVE  /\ (\A r \in Refers(j) : r[2] = "leaving") => Needing(p) = {}
                    /\ Needing(p) = {} \/ stopping => job[j].cancelReq
                    /\ job[j].subs = 0 => Refers(j) = {}
  OBVIOUS
<1>1. j \in Active(job) /\ j \in Jobs /\ job[j].project = p
  BY DEF ActiveOf, Active
<1>2. \A i \in ActiveOf(job, p) : i = j
  BY <1>1 DEF ActiveOf, IInv, Limited
<1>3. Refers(j) = References(j) /\ Refers(j) \in SUBSET Referrers
  BY <1>1, ReferencesHeld, HeldType DEF IInv, Refers
<1>4. Needing(p) = {s \in Sessions : \E r \in Refers(j) : r[1] = s /\ r[2] # "leaving"}
  <2>1. Needing(p) = {r[1] : r \in {q \in Refers(j) : q[2] # "leaving"}}
    BY <1>2, <1>3 DEF Needing
  <2> QED BY <2>1, NeedingSessions
<1>5. Backed(job[j], Refers(j))
  BY <1>1 DEF RegInv, Registers, Kempt, Counted, Shared, Refers
<1>6. job[j].subs = 0 => Refers(j) = {}
  BY <1>3, <1>5, ReferrersFinite, FS_EmptySet DEF Backed
<1>7. ASSUME Needing(p) = {}
      PROVE  job[j].cancelReq
  <2>1. CASE Refers(j) = {}
    BY <1>1, <1>5, <2>1, FS_EmptySet DEF Backed, Active
  <2>2. CASE Refers(j) # {}
    <3>1. PICK r \in Refers(j) : TRUE
      BY <2>2
    <3>2. r[1] \in Sessions /\ (r[2] = "leaving" => leaving[r[1]].job = j)
      BY <3>1 DEF Refers, Held, Joining, Tags
    <3>3. r[2] = "leaving"
      BY <1>4, <1>7, <3>2
    <3> QED BY <1>1, <3>2, <3>3 DEF CancelInv
  <2> QED BY <2>1, <2>2
<1>8. stopping => job[j].cancelReq
  BY <1>1 DEF CancelInv
<1> QED BY <1>4, <1>6, <1>7, <1>8

(* A project is busy iff it has an active job.                             *)
LEMMA BusyActive ==
  IInv => /\ Promise!Busy = {p \in Projects : ActiveOf(job, p) # {}}
          /\ \A j \in Active(job) : job[j].project \in Projects
<1> SUFFICES ASSUME IInv
             PROVE  /\ Promise!Busy = {p \in Projects : ActiveOf(job, p) # {}}
                    /\ \A j \in Active(job) : job[j].project \in Projects
  OBVIOUS
<1>1. \A j \in Active(job) :
        /\ job[j].thread \in {"waiting", "starting", "running", "ended", "publishing"}
        /\ job[j].project \in Projects
  BY DEF IInv, TypeOK, Job, Threads, Shaped, Active
<1>2. \A p \in Projects : \A j \in ActiveOf(job, p) : j \in Active(job)
  BY DEF ActiveOf
<1> QED BY <1>1, <1>2, AtPlaces DEF Promise!Busy

(* Every step changes who needs a job and which jobs are cancelled as the  *)
(* promise says.                                                           *)
LEMMA NeedsStep ==
  ASSUME IInv, IInv', RegInv', CancelInv', Onward, Spares
  PROVE  Promise!Needs
<1> DEFINE C == {p \in Projects : \E j \in ActiveOf(job, p) : job[j].cancelReq}
           D == {p \in Projects : \E j \in ActiveOf(job', p) : job'[j].cancelReq}
           B == {p \in Projects : ActiveOf(job', p) # {}}
           N(p) == Needing(p)'
<1>1. /\ Promise!Busy' = B
      /\ \A j \in Active(job') : job'[j].project \in Projects
  <2>1. (IInv => /\ Promise!Busy = {p \in Projects : ActiveOf(job, p) # {}}
                 /\ \A j \in Active(job) : job[j].project \in Projects)'
    BY BusyActive, PTL
  <2> QED BY <2>1
<1>2. \A p \in Projects : \A j \in ActiveOf(job', p) :
        /\ (\A r \in Refers(j)' : r[2] = "leaving") => N(p) = {}
        /\ N(p) = {} \/ stopping' => job'[j].cancelReq
        /\ job'[j].subs = 0 => Refers(j)' = {}
  <2>1. (IInv /\ RegInv /\ CancelInv =>
          \A p \in Projects : \A j \in ActiveOf(job, p) :
            /\ (\A r \in Refers(j) : r[2] = "leaving") => Needing(p) = {}
            /\ Needing(p) = {} \/ stopping => job[j].cancelReq
            /\ job[j].subs = 0 => Refers(j) = {})'
    BY NobodyNeeds, PTL
  <2> QED BY <2>1
<1>3. \A j \in Jobs : ~job[j].cancelReq /\ job'[j].cancelReq /\ ~stopping' =>
        \A r \in Refers(j)' : r[2] = "leaving"
  BY DEF Spares, Refers
<1>4. \A p \in Projects : N(p) \in SUBSET Sessions
  <2>1. (IInv => \A p : Needing(p) \in SUBSET Sessions)'
    BY NeedingSessions, PTL
  <2> QED BY <2>1
<1>5. \A p \in Projects \ B : N(p) = {}
  BY DEF Needing
<1>6. ASSUME NEW p \in Projects, NEW j \in ActiveOf(job', p), job'[j].cancelReq
      PROVE  p \in C \/ N(p) = {} \/ stopping'
  <2>1. j \in Active(job') /\ j \in Jobs /\ job'[j].project = p
    BY DEF ActiveOf, Active
  <2>2. CASE j \in Active(job) /\ job'[j].project = job[j].project
    <3>1. job[j].cancelReq => p \in C
      BY <2>1, <2>2 DEF ActiveOf
    <3> QED BY <1>2, <1>3, <1>6, <2>1, <3>1
  <2>3. CASE j \notin Active(job) /\ Fresh(j)
    BY <1>2, <1>6, <2>3 DEF Fresh
  <2> QED BY <2>1, <2>2, <2>3 DEF Onward
<1>7. ASSUME NEW p \in Projects, NEW j \in ActiveOf(job', p), p \in C
      PROVE  job'[j].cancelReq
  <2>1. j \in Active(job') /\ job'[j].project = p
    BY DEF ActiveOf
  <2>2. PICK i \in ActiveOf(job, p) : job[i].cancelReq
    BY <1>7
  <2>3. j \in Active(job) /\ job[j].project = p /\ (job[j].cancelReq => job'[j].cancelReq)
    BY <2>1, <2>2 DEF Onward
  <2>4. i = j
    BY <2>2, <2>3 DEF ActiveOf, IInv, Limited
  <2> QED BY <2>2, <2>3, <2>4
<1>8. D = {p \in B : p \in C \/ N(p) = {} \/ stopping'}
  <2>1. \A p \in Projects : p \in D <=> p \in B /\ (p \in C \/ N(p) = {} \/ stopping')
    <3> SUFFICES ASSUME NEW p \in Projects
                 PROVE  p \in D <=> p \in B /\ (p \in C \/ N(p) = {} \/ stopping')
      OBVIOUS
    <3>1. p \in D => p \in B /\ (p \in C \/ N(p) = {} \/ stopping')
      BY <1>6
    <3>2. p \in B /\ (p \in C \/ N(p) = {} \/ stopping') => p \in D
      BY <1>2, <1>7
    <3> QED BY <3>1, <3>2
  <2> QED BY <2>1
<1>9. {job[j].project : j \in {k \in Active(job) : job[k].cancelReq}} = C
  BY BusyActive, AtPlaces
<1>10. {job'[j].project : j \in {k \in Active(job') : job'[k].cancelReq}} = D
  BY <1>1, AtPlacesNext
<1> HIDE DEF C, D
<1> QED
  BY <1>1, <1>4, <1>5, <1>8, <1>9, <1>10 DEF Promise!Needs, Active, ActiveOf

-----------------------------------------------------------------------------
(* The places of the jobs.                                                 *)

(* The daemon's jobs fill as many projects as there are active jobs.       *)
LEMMA BusyFinite ==
  ASSUME IInv
  PROVE  /\ IsFiniteSet(Promise!Busy)
         /\ Cardinality(Promise!Busy) <= Cardinality(Active(job))
<1> DEFINE f == [j \in Active(job) |-> job[j].project]
<1>1. f \in Surjection(Active(job), Promise!Busy)
  <2>1. \A j \in Active(job) : f[j] \in Promise!Busy
    BY BusyActive DEF ActiveOf
  <2>2. \A p \in Promise!Busy : \E j \in Active(job) : f[j] = p
    BY BusyActive DEF ActiveOf
  <2> QED BY <2>1, <2>2 DEF Surjection
<1>2. IsFiniteSet(Active(job))
  BY Counting DEF Active
<1> HIDE DEF f
<1> QED BY <1>1, <1>2, FS_Surjection

(* Jobs that last stay where they are.                                     *)
LEMMA KeptUnmoved ==
  ASSUME IInv, Lasting, Active(job') = Active(job)
  PROVE  Unmoved
<1>1. \A j \in Active(job) : job'[j].project = job[j].project /\ job'[j].thread = job[j].thread
  BY DEF Lasting, Carried, Alike
<1> QED BY <1>1 DEF Unmoved, At, ActiveOf

(* A new job waits, and its project had none.                              *)
LEMMA NewPlaces ==
  ASSUME IInv, IInv', Lasting, NEW i \in Active(job') \ Active(job)
  PROVE  /\ job'[i].project \in Projects /\ ~stopping
         /\ job'[i].project \notin Promise!Busy
         /\ Cardinality(Promise!Busy) < JobLimit
         /\ \A P \in SUBSET Threads :
              At(P)' = IF "waiting" \in P THEN At(P) \cup {job'[i].project} ELSE At(P)
<1> DEFINE p == job'[i].project
<1>1. /\ ~stopping /\ job'[i].thread = "waiting" /\ ActiveOf(job, p) = {}
      /\ Active(job') = Active(job) \cup {i}
      /\ \A j \in Active(job) : job'[j].project = job[j].project /\ job'[j].thread = job[j].thread
  BY DEF Lasting, Carried, Alike
<1>2. p \in Projects
  BY DEF IInv, Shaped, Active
<1>3. p \notin Promise!Busy
  BY <1>1, BusyActive
<1>4. Cardinality(Promise!Busy) < JobLimit
  <2>1. IsFiniteSet(Active(job)) /\ Cardinality(Active(job)) \in Nat
    BY Counting DEF Active
  <2>2. Cardinality(Active(job')) = Cardinality(Active(job)) + 1
    BY <1>1, <2>1, FS_AddElement
  <2>3. Cardinality(Active(job')) <= JobLimit
    BY DEF IInv, Limited
  <2>4. IsFiniteSet(Promise!Busy) /\ Cardinality(Promise!Busy) \in Nat
    <3>1. Cardinality(Promise!Busy) <= Cardinality(Active(job)) /\ IsFiniteSet(Promise!Busy)
      BY BusyFinite
    <3> QED BY <3>1, FS_CardinalityType
  <2> QED
    BY <2>1, <2>2, <2>3, <2>4, BusyFinite, ConstantsAssumption
<1>5. ASSUME NEW P \in SUBSET Threads
      PROVE  At(P)' = IF "waiting" \in P THEN At(P) \cup {p} ELSE At(P)
  <2>1. \A q \in Projects \ {p} : q \in At(P)' <=> q \in At(P)
    BY <1>1 DEF At
  <2>2. p \in At(P)' <=> "waiting" \in P
    BY <1>1, <1>2 DEF At, ActiveOf
  <2>3. p \notin At(P)
    BY <1>1 DEF At, ActiveOf
  <2>4. At(P)' \subseteq Projects /\ At(P) \subseteq Projects
    BY <1>1, <1>2, BusyActive DEF At
  <2> HIDE DEF p
  <2> QED BY <1>2, <2>1, <2>2, <2>3, <2>4
<1> QED BY <1>1, <1>2, <1>3, <1>4, <1>5

(* One job's thread moves.                                                 *)
LEMMA OneMoves ==
  ASSUME IInv, NEW j \in Active(job), NEW to \in Job, job' = [job EXCEPT ![j] = to],
         to.linked = job[j].linked, to.terminal = job[j].terminal,
         to.project = job[j].project
  PROVE  /\ job[j].project \in Projects
         /\ \A P \in SUBSET Threads :
              /\ job[j].project \in At(P) <=> job[j].thread \in P
              /\ At(P)' = IF to.thread \in P THEN At(P) \cup {job[j].project}
                          ELSE At(P) \ {job[j].project}
<1> DEFINE p == job[j].project
<1>1. /\ j \in Jobs /\ job'[j] = to /\ \A i \in Jobs \ {j} : job'[i] = job[i]
  BY DEF Active, IInv, TypeOK
<1>2. Active(job') = Active(job)
  BY <1>1 DEF Active
<1>3. p \in Projects
  BY DEF IInv, Shaped, Active
<1>4. ActiveOf(job, p) = {j} /\ ActiveOf(job', p) = {j}
  BY <1>1, <1>2 DEF ActiveOf, IInv, Limited, Active
<1>5. \A q \in Projects \ {p} : ActiveOf(job', q) = ActiveOf(job, q)
        /\ \A i \in ActiveOf(job, q) : job'[i] = job[i]
  BY <1>1, <1>2 DEF ActiveOf, Active
<1>6. /\ \A i \in Active(job) : job[i].project \in Projects
      /\ \A i \in Active(job') : job'[i].project \in Projects
  BY <1>1, <1>2, BusyActive DEF Active
<1>7. ASSUME NEW P \in SUBSET Threads
      PROVE  /\ p \in At(P) <=> job[j].thread \in P
             /\ At(P)' = IF to.thread \in P THEN At(P) \cup {p} ELSE At(P) \ {p}
  <2>1. p \in At(P) <=> job[j].thread \in P
    BY <1>3, <1>4, <1>6, AtPlaces
  <2>2. p \in At(P)' <=> to.thread \in P
    BY <1>1, <1>4 DEF At, ActiveOf
  <2>3. \A q \in Projects \ {p} : q \in At(P)' <=> q \in At(P)
    BY <1>1, <1>2 DEF At
  <2>4. At(P)' \subseteq Projects /\ At(P) \subseteq Projects
    BY <1>6 DEF At
  <2> HIDE DEF p
  <2> QED BY <1>3, <2>1, <2>2, <2>3, <2>4
<1> QED BY <1>3, <1>7

(* A step of the promise that leaves the work on the projects as it is.    *)
LEMMA Unchanged ==
  ASSUME Unmoved, Undisturbed
  PROVE  Promise!Change
<1>1. \A P \in Places : At(P)' = At(P)
  BY DEF Unmoved, Places, Threads
<1>2. Reservation' = Reservation
  BY DEF Undisturbed, Reservation
<1> QED
  BY <1>1, <1>2 DEF Promise!Change, Places, Reservation, Undisturbed

(* Steps that only stop the daemon.                                        *)
LEMMA Stops ==
  ASSUME IInv, Unmoved, stopping' \in {stopping, TRUE}, UNCHANGED <<db, pc, arg>>
  PROVE  Promise!Change
<1>1. \A P \in Places : At(P)' = At(P)
  BY DEF Unmoved, Places, Threads
<1>2. Reservation' = Reservation
  BY DEF Reservation, Reserved
<1>3. /\ At({"waiting"})' = At({"waiting"})
      /\ At({"starting", "running", "ended"})' = At({"starting", "running", "ended"})
      /\ At({"publishing"})' = At({"publishing"})
  BY <1>1 DEF Places
<1>4. CASE stopping' = stopping
  BY <1>2, <1>3, <1>4 DEF Promise!Change, Reservation
<1>5. CASE stopping' = TRUE
  <2>1. Promise!Stop
    BY <1>2, <1>3, <1>5 DEF Promise!Stop, Reservation
  <2> QED BY <2>1 DEF Promise!Change
<1> QED BY <1>4, <1>5

(* Steps that may begin a job.                                             *)
LEMMA Begins ==
  ASSUME IInv, IInv', Lasting, Undisturbed
  PROVE  Promise!Change
<1>1. CASE Active(job') = Active(job)
  BY <1>1, KeptUnmoved, Unchanged
<1>2. CASE Active(job') # Active(job)
  <2>1. PICK i \in Active(job') \ Active(job) : TRUE
    BY <1>2 DEF Lasting
  <2> DEFINE p == job'[i].project
  <2>2. /\ p \in Projects /\ ~stopping
        /\ p \notin Promise!Busy
        /\ Cardinality(Promise!Busy) < JobLimit
        /\ \A P \in SUBSET Threads :
             At(P)' = IF "waiting" \in P THEN At(P) \cup {p} ELSE At(P)
    BY <2>1, NewPlaces
  <2>3. /\ At({"waiting"})' = At({"waiting"}) \cup {p}
        /\ At({"starting", "running", "ended"})' = At({"starting", "running", "ended"})
        /\ At({"publishing"})' = At({"publishing"})
    BY <2>2 DEF Threads
  <2>4. Reservation' = Reservation
    BY DEF Undisturbed, Reservation
  <2> HIDE DEF p
  <2>5. Promise!Cardinality(Promise!Busy) = Cardinality(Promise!Busy)
    BY DEF Promise!Cardinality, Cardinality
  <2>6. Promise!Begin(p)
    BY <2>2, <2>3, <2>4, <2>5 DEF Promise!Begin, Undisturbed, Reservation
  <2> QED BY <2>2, <2>6 DEF Promise!Change
<1> QED BY <1>1, <1>2

-----------------------------------------------------------------------------
(* The steps of a job's thread.                                            *)

(* The three places after one job's thread has moved.                      *)
LEMMA OneMovesOn ==
  ASSUME IInv, NEW j \in Active(job), NEW to \in Job, job' = [job EXCEPT ![j] = to],
         to.linked = job[j].linked, to.terminal = job[j].terminal,
         to.project = job[j].project
  PROVE  /\ job[j].project \in Projects
         /\ \A P \in Places :
              /\ job[j].project \in At(P) <=> job[j].thread \in P
              /\ At(P)' = IF to.thread \in P THEN At(P) \cup {job[j].project}
                          ELSE At(P) \ {job[j].project}
              /\ (to.thread \in P <=> job[j].thread \in P) => At(P)' = At(P)
<1>1. Places \subseteq SUBSET Threads
  BY DEF Places, Threads
<1>2. /\ job[j].project \in Projects
      /\ \A P \in Places :
           /\ job[j].project \in At(P) <=> job[j].thread \in P
           /\ At(P)' = IF to.thread \in P THEN At(P) \cup {job[j].project}
                       ELSE At(P) \ {job[j].project}
  BY <1>1, OneMoves
<1>3. ASSUME NEW P \in Places, to.thread \in P <=> job[j].thread \in P
      PROVE  At(P)' = At(P)
  <2> DEFINE p == job[j].project
  <2>0. /\ p \in At(P) <=> to.thread \in P
        /\ At(P)' = IF to.thread \in P THEN At(P) \cup {p} ELSE At(P) \ {p}
    BY <1>2, <1>3
  <2> HIDE DEF p
  <2>1. CASE to.thread \in P
    <3>1. At(P)' = At(P) \cup {p} /\ p \in At(P)
      BY <2>0, <2>1
    <3> QED BY <3>1
  <2>2. CASE to.thread \notin P
    <3>1. At(P)' = At(P) \ {p} /\ p \notin At(P)
      BY <2>0, <2>2
    <3> QED BY <3>1
  <2> QED BY <2>1, <2>2
<1> QED BY <1>2, <1>3

(* A job whose thread waits and is not needed is cancelled.                *)
LEMMA UnneededCancelled ==
  ASSUME CancelInv, NEW j \in Active(job), Unneeded(j)
  PROVE  job[j].cancelReq
  BY DEF CancelInv, Unneeded

(* A thread that gives up before the run or ends it settles its job.       *)
LEMMA Settles ==
  ASSUME IInv, NEW j \in Active(job), NEW to \in Job, job' = [job EXCEPT ![j] = to],
         to.linked = job[j].linked, to.terminal = job[j].terminal,
         to.project = job[j].project, to.thread = "publishing",
         \/ job[j].thread \in Working
         \/ job[j].thread = "waiting" /\ job[j].cancelReq,
         Undisturbed
  PROVE  Promise!Change
<1> DEFINE p == job[j].project
<1>1. /\ p \in Projects
      /\ p \in At({"waiting"}) <=> job[j].thread = "waiting"
      /\ p \in At({"starting", "running", "ended"}) <=> job[j].thread \in Working
      /\ At({"waiting"})' = At({"waiting"}) \ {p}
      /\ At({"starting", "running", "ended"})' = At({"starting", "running", "ended"}) \ {p}
      /\ At({"publishing"})' = At({"publishing"}) \cup {p}
  BY OneMovesOn DEF Places, Working
<1>2. job[j].cancelReq => p \in {job[i].project : i \in {k \in Active(job) : job[k].cancelReq}}
  OBVIOUS
<1>3. Reservation' = Reservation
  BY DEF Undisturbed, Reservation
<1> HIDE DEF p
<1>4. Promise!Settle(p)
  BY <1>1, <1>2, <1>3 DEF Promise!Settle, Undisturbed, Reservation
<1> QED BY <1>1, <1>4 DEF Promise!Change

(* A thread that has waited for the mutations starts its job.              *)
LEMMA Starts ==
  ASSUME IInv, NEW j \in Active(job), NEW to \in Job, job' = [job EXCEPT ![j] = to],
         to.linked = job[j].linked, to.terminal = job[j].terminal,
         to.project = job[j].project, to.thread = "starting",
         job[j].thread = "waiting", ~Unneeded(j), ~MutationConflicts(job[j].project),
         Undisturbed
  PROVE  Promise!Change
<1> DEFINE p == job[j].project
<1>1. /\ p \in Projects
      /\ p \in At({"waiting"})
      /\ At({"waiting"})' = At({"waiting"}) \ {p}
      /\ At({"starting", "running", "ended"})' = At({"starting", "running", "ended"}) \cup {p}
      /\ At({"publishing"})' = At({"publishing"})
  <2>1. /\ {"waiting"} \in Places /\ {"starting", "running", "ended"} \in Places
        /\ {"publishing"} \in Places
    BY DEF Places
  <2>2. /\ p \in Projects
        /\ \A P \in Places :
             /\ p \in At(P) <=> job[j].thread \in P
             /\ At(P)' = IF to.thread \in P THEN At(P) \cup {p} ELSE At(P) \ {p}
             /\ (to.thread \in P <=> job[j].thread \in P) => At(P)' = At(P)
    BY OneMovesOn
  <2> HIDE DEF p
  <2>3. p \in At({"waiting"}) /\ At({"waiting"})' = At({"waiting"}) \ {p}
    BY <2>1, <2>2
  <2>4. At({"starting", "running", "ended"})' = At({"starting", "running", "ended"}) \cup {p}
    BY <2>1, <2>2
  <2>5. At({"publishing"})' = At({"publishing"})
    BY <2>1, <2>2
  <2> QED BY <2>2, <2>3, <2>4, <2>5
<1>2. p \notin {job[i].project : i \in {k \in Active(job) : job[k].cancelReq}}
  BY DEF IInv, Limited, Unneeded
<1>3. Reservation' = Reservation
  BY DEF Undisturbed, Reservation
<1>4. Promise!Free(p)
  BY DEF Promise!Free, Promise!Conflict, MutationConflicts, Conflict
<1> HIDE DEF p
<1>5. Promise!Start(p)
  BY <1>1, <1>2, <1>3, <1>4 DEF Promise!Start, Undisturbed, Reservation
<1> QED BY <1>1, <1>5 DEF Promise!Change

(* Within the run of a job the places stay, and the database may be made.  *)
LEMMA RunGoesOn ==
  ASSUME IInv, NEW j \in Active(job), NEW to \in Job, job' = [job EXCEPT ![j] = to],
         to.linked = job[j].linked, to.terminal = job[j].terminal,
         to.project = job[j].project, to.thread \in Working, job[j].thread \in Working,
         UNCHANGED <<stopping, pc, arg>>,
         db' = db \/ db' = [db EXCEPT ![job[j].project] = TRUE]
  PROVE  Promise!Change
<1> DEFINE p == job[j].project
<1>1. /\ p \in Projects
      /\ p \in At({"starting", "running", "ended"})
      /\ At({"waiting"})' = At({"waiting"})
      /\ At({"starting", "running", "ended"})' = At({"starting", "running", "ended"})
      /\ At({"publishing"})' = At({"publishing"})
  <2>1. /\ {"waiting"} \in Places /\ {"starting", "running", "ended"} \in Places
        /\ {"publishing"} \in Places
    BY DEF Places
  <2>2. /\ p \in Projects
        /\ \A P \in Places :
             /\ p \in At(P) <=> job[j].thread \in P
             /\ (to.thread \in P <=> job[j].thread \in P) => At(P)' = At(P)
    BY OneMovesOn
  <2> HIDE DEF p
  <2>3. At({"waiting"})' = At({"waiting"})
    BY <2>1, <2>2 DEF Working
  <2>4. /\ p \in At({"starting", "running", "ended"})
        /\ At({"starting", "running", "ended"})' = At({"starting", "running", "ended"})
    BY <2>1, <2>2 DEF Working
  <2>5. At({"publishing"})' = At({"publishing"})
    BY <2>1, <2>2 DEF Working
  <2> QED BY <2>2, <2>3, <2>4, <2>5
<1>2. Reservation' = Reservation
  BY DEF Reservation, Reserved
<1> HIDE DEF p
<1>3. CASE db' = db
  BY <1>1, <1>2, <1>3 DEF Promise!Change, Reservation
<1>4. ASSUME NEW q \in Projects, q = p, db' = [db EXCEPT ![q] = TRUE]
      PROVE  Promise!Change
  <2>1. {o \in Projects : db'[o]} = {o \in Projects : db[o]} \cup {q}
    BY <1>1, <1>4 DEF IInv, TypeOK
  <2>2. Promise!Index(q)
    BY <1>1, <1>2, <1>4, <2>1 DEF Promise!Index, Reservation
  <2> QED BY <1>4, <2>2 DEF Promise!Change
<1> QED BY <1>1, <1>3, <1>4 DEF p

(* A publication is the end of its job.                                    *)
LEMMA PublishIsEnd ==
  ASSUME IInv, RegInv, NEW j \in Jobs, JobPublish(j)
  PROVE  Promise!Change
<1> DEFINE p == job[j].project
<1>1. /\ j \in Active(job) /\ job[j].thread = "publishing"
      /\ Active(job') = Active(job) \ {j}
      /\ \A i \in Active(job) \ {j} :
           job'[i].project = job[i].project /\ job'[i].thread = job[i].thread
  BY PublishEnds DEF Carried, Alike
<1>2. p \in Projects
  BY <1>1 DEF IInv, Shaped, Active
<1>3. ActiveOf(job, p) = {j} /\ ActiveOf(job', p) = {}
  BY <1>1 DEF ActiveOf, IInv, Limited
<1>4. \A q \in Projects \ {p} : ActiveOf(job', q) = ActiveOf(job, q)
        /\ \A i \in ActiveOf(job, q) : job'[i].thread = job[i].thread
  BY <1>1 DEF ActiveOf
<1>5. \A P \in Places : At(P)' = At(P) \ {p}
  <2>1. \A P \in Places : \A q \in Projects \ {p} : q \in At(P)' <=> q \in At(P)
    BY <1>1 DEF At
  <2>2. \A P \in Places : p \notin At(P)'
    BY <1>3 DEF At, ActiveOf
  <2>3. \A P \in Places : At(P)' \subseteq Projects /\ At(P) \subseteq Projects
    BY <1>1, BusyActive DEF At
  <2> HIDE DEF p
  <2> QED BY <2>1, <2>2, <2>3
<1>6. p \in At({"publishing"})
  BY <1>1, <1>2, <1>3 DEF At
<1>7. p \notin At({"waiting"}) /\ p \notin At({"starting", "running", "ended"})
  BY <1>1, <1>3 DEF At, ActiveOf
<1>8. UNCHANGED <<stopping, pc, arg, db>>
  BY DEF JobPublish
<1>9. Reservation' = Reservation
  BY <1>8 DEF Reservation, Reserved
<1> HIDE DEF p
<1>10. Promise!End(p)
  BY <1>5, <1>6, <1>7, <1>8, <1>9 DEF Promise!End, Places, Reservation
<1> QED BY <1>2, <1>10 DEF Promise!Change

(* Each step of a thread changes the place of its job as promised.         *)
LEMMA ThreadChanges ==
  ASSUME IInv, RegInv, CancelInv, NEW j \in Jobs, JobThread(j)
  PROVE  Promise!Change
<1>1. job[j] \in Job /\ (job[j].thread \in {"waiting"} \cup Working => j \in Active(job))
  BY DEF IInv, TypeOK, Shaped, Active, Working
<1>2. ASSUME JobWait(j) PROVE Promise!Change
  <2>1. /\ job[j].thread = "waiting" /\ UNCHANGED <<stopping, pc, arg, db>>
        /\ \/ /\ Unneeded(j)
              /\ job' = [job EXCEPT ![j] = [job[j] EXCEPT !.thread = "publishing",
                                                          !.result = "cancelled"]]
           \/ /\ ~Unneeded(j) /\ ~MutationConflicts(job[j].project)
              /\ job' = [job EXCEPT ![j] = [job[j] EXCEPT !.thread = "starting"]]
    BY <1>2 DEF JobWait, JobStep
  <2>2. Undisturbed
    BY <2>1 DEF Undisturbed, Reserved
  <2>3. Unneeded(j) => job[j].cancelReq
    BY <1>1, <2>1, UnneededCancelled
  <2>4. [job[j] EXCEPT !.thread = "publishing", !.result = "cancelled"] \in Job
        /\ [job[j] EXCEPT !.thread = "starting"] \in Job
    BY <1>1 DEF Job, Threads
  <2>5. CASE Unneeded(j)
    BY <1>1, <2>1, <2>2, <2>3, <2>4, <2>5, Settles DEF Job
  <2>6. CASE ~Unneeded(j)
    BY <1>1, <2>1, <2>2, <2>4, <2>6, Starts DEF Job
  <2> QED BY <2>5, <2>6
<1>3. ASSUME JobStart(j) \/ WorkerEnd(j) \/ JobCollect(j) PROVE Promise!Change
  <2>1. /\ job[j].thread \in Working
        /\ UNCHANGED <<stopping, pc, arg>>
        /\ \E to \in Job : /\ job' = [job EXCEPT ![j] = to]
                           /\ to.linked = job[j].linked /\ to.terminal = job[j].terminal
                           /\ to.project = job[j].project
                           /\ \/ to.thread = "publishing" /\ db' = db
                              \/ /\ to.thread \in Working
                                 /\ db' = db \/ db' = [db EXCEPT ![job[j].project] = TRUE]
    <3>1. CASE JobStart(j)
      <4>1. [job[j] EXCEPT !.thread = "publishing", !.result = "cancelled"] \in Job
            /\ [job[j] EXCEPT !.thread = "publishing", !.result = "failed"] \in Job
        BY <1>1 DEF Job, Threads
      <4>2. [job[j] EXCEPT !.thread = "running", !.attempt = @ + 1] \in Job
        <5>1. job[j].attempt < MaxAttempts
          BY <3>1 DEF JobStart, IInv, Shaped, Attempts
        <5>2. job[j].attempt + 1 \in 0..MaxAttempts
          BY <1>1, <5>1, ConstantsAssumption DEF Job
        <5> QED BY <1>1, <5>2 DEF Job, Threads
      <4>3. job[j].thread = "starting" /\ UNCHANGED <<stopping, pc, arg, db>>
        BY <3>1 DEF JobStart, JobStep
      <4>4. CASE job' = [job EXCEPT ![j] = [job[j] EXCEPT !.thread = "publishing",
                                                          !.result = "cancelled"]]
        BY <1>1, <4>1, <4>3, <4>4 DEF Job, Working
      <4>5. CASE job' = [job EXCEPT ![j] = [job[j] EXCEPT !.thread = "publishing",
                                                          !.result = "failed"]]
        BY <1>1, <4>1, <4>3, <4>5 DEF Job, Working
      <4>6. CASE job' = [job EXCEPT ![j] = [job[j] EXCEPT !.thread = "running",
                                                          !.attempt = @ + 1]]
        BY <1>1, <4>2, <4>3, <4>6 DEF Job, Working
      <4> QED
        BY <3>1, <4>4, <4>5, <4>6 DEF JobStart, JobStep
    <3>2. CASE WorkerEnd(j)
      <4>1. \A r \in {"success", "crash", "killed"} :
              [job[j] EXCEPT !.thread = "ended", !.result = r] \in Job
        BY <1>1 DEF Job, Threads
      <4> QED
        BY <1>1, <3>2, <4>1 DEF WorkerEnd, JobStep, Working, Job
    <3>3. CASE JobCollect(j)
      <4>1. [job[j] EXCEPT !.thread = "publishing", !.result = "cancelled"] \in Job
            /\ [job[j] EXCEPT !.thread = "starting", !.result = "none"] \in Job
            /\ [job[j] EXCEPT !.thread = "publishing"] \in Job
        BY <1>1 DEF Job, Threads
      <4>2. job[j].thread = "ended" /\ UNCHANGED <<stopping, pc, arg, db>>
        BY <3>3 DEF JobCollect, JobStep
      <4>3. CASE job' = [job EXCEPT ![j] = [job[j] EXCEPT !.thread = "publishing",
                                                          !.result = "cancelled"]]
        BY <1>1, <4>1, <4>2, <4>3 DEF Job, Working
      <4>4. CASE job' = [job EXCEPT ![j] = [job[j] EXCEPT !.thread = "starting",
                                                          !.result = "none"]]
        BY <1>1, <4>1, <4>2, <4>4 DEF Job, Working
      <4>5. CASE job' = [job EXCEPT ![j] = [job[j] EXCEPT !.thread = "publishing"]]
        BY <1>1, <4>1, <4>2, <4>5 DEF Job, Working
      <4> QED
        BY <3>3, <4>3, <4>4, <4>5 DEF JobCollect, JobStep
    <3> QED BY <1>3, <3>1, <3>2, <3>3
  <2>2. PICK to \in Job : /\ job' = [job EXCEPT ![j] = to]
                          /\ to.linked = job[j].linked /\ to.terminal = job[j].terminal
                          /\ to.project = job[j].project
                          /\ \/ to.thread = "publishing" /\ db' = db
                             \/ /\ to.thread \in Working
                                /\ db' = db \/ db' = [db EXCEPT ![job[j].project] = TRUE]
    BY <2>1
  <2>3. j \in Active(job)
    BY <1>1, <2>1
  <2>4. CASE to.thread = "publishing" /\ db' = db
    <3>1. Undisturbed
      BY <2>1, <2>4 DEF Undisturbed, Reserved
    <3> QED BY <2>1, <2>2, <2>3, <2>4, <3>1, Settles
  <2>5. CASE to.thread \in Working
    <3>1. db' = db \/ db' = [db EXCEPT ![job[j].project] = TRUE]
      BY <2>2
    <3> QED BY <2>1, <2>2, <2>3, <2>5, <3>1, RunGoesOn
  <2> QED BY <2>2, <2>4, <2>5
<1> QED BY <1>2, <1>3, PublishIsEnd DEF JobThread

-----------------------------------------------------------------------------
(* The steps of a mutation.                                                *)

(* A reservation of the model is one of the promise.                       *)
LEMMA ReserveChanges ==
  ASSUME IInv, NEW a \in Actors, NEW k \in Keys, MutationReserve(a, k)
  PROVE  Promise!Change
<1>1. /\ ~Reserved(a) /\ pc' = [pc EXCEPT ![a] = "lease"] /\ arg' = [arg EXCEPT ![a].key = k]
      /\ ~stopping /\ ~MutationConflicts(k) /\ ~JobReserves(k)
      /\ UNCHANGED <<stopping, job, db>>
  BY DEF MutationReserve, Unwanted, Reserved
<1>2. Reservation' = [Reservation EXCEPT ![a] = k]
  <2>1. \A b \in Actors \ {a} : Reserved(b)' = Reserved(b) /\ arg'[b] = arg[b]
    BY <1>1 DEF Reserved, IInv, TypeOK
  <2>2. Reserved(a)' /\ arg'[a].key = k
    BY <1>1 DEF Reserved, IInv, TypeOK
  <2>3. Reservation'[a] = k /\ \A b \in Actors \ {a} : Reservation'[b] = Reservation[b]
    BY <2>1, <2>2 DEF Reservation
  <2> QED BY <2>3 DEF Reservation
<1>3. Reservation[a] = Nothing
  BY <1>1 DEF Reservation
<1>4. Promise!Free(k)
  BY <1>1 DEF Promise!Free, Promise!Conflict, MutationConflicts, Conflict
<1>5. \A p \in Promise!Busy : ~Promise!Conflict(k, p)
  BY <1>1, BusyActive DEF JobReserves, ActiveOf, Promise!Conflict, Conflict
<1>6. \A P : At(P)' = At(P)
  BY <1>1 DEF At
<1>7. Promise!Reserve(a, k)
  BY <1>1, <1>2, <1>3, <1>4, <1>5, <1>6 DEF Promise!Reserve, Reservation
<1> QED BY <1>7 DEF Promise!Change, Keys

(* The other steps of a mutation remove a database, end the reservation    *)
(* or change nothing that the promise speaks of.                           *)
LEMMA MutationChanges ==
  ASSUME IInv, NEW a \in Actors, MutationStep(a)
  PROVE  Promise!Change
<1>1. UNCHANGED <<stopping, job>>
  BY DEF MutationStep, LeaseGranted, LeaseFailed, MutationWork, MutationRelease, MutationEnd
<1>2. (\A P : At(P)' = At(P)) /\ Unmoved
  BY <1>1 DEF At, Unmoved
<1>3. CASE LeaseGranted(a) \/ MutationRelease(a)
  <2>1. Undisturbed
    BY <1>3 DEF LeaseGranted, MutationRelease, Undisturbed, Reserved, IInv, TypeOK
  <2> QED BY <1>2, <2>1, Unchanged
<1>4. CASE LeaseFailed(a) \/ MutationEnd(a)
  <2>1. /\ pc' = [pc EXCEPT ![a] = Resume(a)] /\ arg' = [arg EXCEPT ![a] = NoArg] /\ db' = db
    BY <1>4 DEF LeaseFailed, MutationEnd
  <2>2. Resume(a) \in {"refresh", "idle"}
    BY DEF Resume
  <2>3. ~Reserved(a)' /\ \A b \in Actors \ {a} : Reserved(b)' = Reserved(b) /\ arg'[b] = arg[b]
    BY <2>1, <2>2 DEF Reserved, IInv, TypeOK
  <2>4. Reservation' = [Reservation EXCEPT ![a] = Nothing]
    <3>1. Reservation'[a] = Nothing /\ \A b \in Actors \ {a} : Reservation'[b] = Reservation[b]
      BY <2>3 DEF Reservation
    <3> QED BY <3>1 DEF Reservation
  <2>5. Promise!Unreserve(a)
    BY <1>1, <1>2, <2>1, <2>4 DEF Promise!Unreserve, Reservation
  <2> QED BY <2>5 DEF Promise!Change
<1>5. CASE MutationWork(a)
  <2>1. /\ Reserved(a) /\ arg' = arg /\ \A b \in Actors : Reserved(b)' = Reserved(b)
    BY <1>5 DEF MutationWork, Reserved, IInv, TypeOK
  <2>2. Reservation' = Reservation /\ Reservation[a] = arg[a].key
    BY <2>1 DEF Reservation
  <2>3. CASE db' = db
    <3>1. Undisturbed
      BY <1>1, <2>1, <2>3 DEF Undisturbed
    <3> QED BY <1>2, <3>1, Unchanged
  <2>4. CASE arg[a].key \in Projects /\ db' = [db EXCEPT ![arg[a].key] = FALSE]
    <3>1. {q \in Projects : db'[q]} = {q \in Projects : db[q]} \ {arg[a].key}
      BY <2>4 DEF IInv, TypeOK
    <3>2. Promise!Remove(a)
      BY <1>1, <1>2, <2>2, <3>1 DEF Promise!Remove, Reservation
    <3> QED BY <3>2 DEF Promise!Change
  <2> QED BY <1>5, <2>3, <2>4 DEF MutationWork
<1> QED BY <1>3, <1>4, <1>5 DEF MutationStep

(* The other steps leave the reservations and the databases alone.         *)
LEMMA RestUndisturbed ==
  ASSUME IInv, Next, ~ShutdownBegin, \A s \in Sessions : ~SessionCancel(s),
         \A a \in Actors : ~MutationStep(a) /\ \A k \in Keys : ~MutationReserve(a, k),
         \A j \in Jobs : ~JobThread(j)
  PROVE  Undisturbed
<1>1. arg \in [Actors -> Arguments]
  BY DEF IInv, TypeOK, Arguments
<1>2. stopping' = stopping
  BY Otherwise
<1>3. ASSUME NEW a \in Actors, NEW place, ~Reserved(a),
             place \notin {"lease", "held", "pruned", "release"}, pc' = [pc EXCEPT ![a] = place],
             db' = db, arg' = arg \/ \E x : arg' = [arg EXCEPT ![a] = x]
      PROVE  Undisturbed
  <2>1. pc'[a] = place /\ \A b \in Actors \ {a} : pc'[b] = pc[b] /\ arg'[b] = arg[b]
    BY <1>1, <1>3 DEF IInv, TypeOK
  <2> QED BY <1>2, <1>3, <2>1 DEF Undisturbed, Reserved
<1>4. ASSUME UNCHANGED <<pc, arg, db>> PROVE Undisturbed
  BY <1>2, <1>4 DEF Undisturbed, Reserved
<1>5. Sessions \subseteq Actors /\ Watcher \in Actors
  BY DEF Actors
<1>6. ASSUME NEW s \in Sessions, RequestStep(s) PROVE Undisturbed
  <2>1. CASE RequestEnter(s)
    <3>1. pc[s] = "admitted" /\ db' = db
      BY <2>1 DEF RequestEnter
    <3>2. CASE arg' = arg /\ \E t \in {"idle", "finish"} : pc' = [pc EXCEPT ![s] = t]
      BY <1>3, <1>5, <3>1, <3>2 DEF Reserved
    <3>3. ASSUME NEW r \in Requests[s],
                 pc' = [pc EXCEPT ![s] = CASE r.kind = "initialize" -> "refresh"
                                           [] r.kind = "index" -> "subscribe"
                                           [] r.kind = "mutate" -> "reserve"],
                 arg' = arg \/ \E x : arg' = [arg EXCEPT ![s] = x]
          PROVE  Undisturbed
      <4>1. r.kind \in Kinds
        BY ConstantsAssumption
      <4>2. \E t \in {"refresh", "subscribe", "reserve"} : pc' = [pc EXCEPT ![s] = t]
        BY <3>3, <4>1 DEF Kinds
      <4> QED BY <1>3, <1>5, <3>1, <3>3, <4>2 DEF Reserved
    <3> QED BY <2>1, <3>2, <3>3 DEF RequestEnter
  <2>2. CASE IndexSubscribe(s)
    <3>1. /\ pc[s] = "subscribe" /\ db' = db
          /\ \E t \in {"refresh", "bind"} : pc' = [pc EXCEPT ![s] = t]
          /\ \E x : arg' = [arg EXCEPT ![s] = x]
      BY <2>2, <1>1, <1>5 DEF IndexSubscribe, Arguments
    <3> QED BY <1>3, <1>5, <3>1 DEF Reserved
  <2>3. CASE IndexBind(s) \/ IndexWait(s)
    <3>1. /\ pc[s] \in {"bind", "wait"} /\ db' = db
          /\ \E t \in {"refresh", "wait"} : pc' = [pc EXCEPT ![s] = t]
          /\ arg' = arg \/ \E x : arg' = [arg EXCEPT ![s] = x]
      BY <2>3 DEF IndexBind, IndexWait
    <3> QED BY <1>3, <1>5, <3>1 DEF Reserved
  <2>4. CASE RequestRefresh(s) \/ RequestFinish(s)
    <3>1. /\ pc[s] \in {"refresh", "rewatch", "finish"} /\ db' = db
          /\ \E t \in {"finish", "idle", "probe"} : pc' = [pc EXCEPT ![s] = t]
          /\ arg' = arg
      BY <2>4 DEF RequestRefresh, RequestFinish
    <3> QED BY <1>3, <1>5, <3>1 DEF Reserved
  <2>5. CASE BackgroundProbe(s) \/ BackgroundInitialize(s) \/ MutationRefuse(s)
    <3>1. /\ pc[s] \in {"probe", "background", "reserve"} /\ db' = db
          /\ \E t \in {"background", "idle", "rewatch", "refresh"} : pc' = [pc EXCEPT ![s] = t]
          /\ \E x : arg' = [arg EXCEPT ![s] = x]
      BY <2>5 DEF BackgroundProbe, BackgroundInitialize, MutationRefuse
    <3> QED BY <1>3, <1>5, <3>1 DEF Reserved
  <2> QED
    BY <1>6, <2>1, <2>2, <2>3, <2>4, <2>5 DEF RequestStep
<1>7. ASSUME NEW s \in Sessions, RequestAdmit(s) PROVE Undisturbed
  <2>1. pc[s] = "idle" /\ pc' = [pc EXCEPT ![s] = "admitted"] /\ UNCHANGED <<arg, db>>
    BY <1>7 DEF RequestAdmit
  <2> QED BY <1>3, <1>5, <2>1 DEF Reserved
<1>8. ASSUME NEW s \in Sessions,
             SessionOpen(s) \/ RequestCancel(s) \/ AutoIndexJoined(s) \/ SessionClose(s)
      PROVE  Undisturbed
  BY <1>4, <1>8 DEF SessionOpen, RequestCancel, AutoIndexJoined, SessionClose
<1>9. ASSUME ProjectPruned PROVE Undisturbed
  <2>1. /\ pc[Watcher] = "pruned" /\ pc' = [pc EXCEPT ![Watcher] = "release"]
        /\ UNCHANGED <<arg, db>>
    BY <1>9 DEF ProjectPruned
  <2> QED BY <1>1, <1>2, <2>1 DEF Undisturbed, Reserved
<1>10. ASSUME WatcherIndexed PROVE Undisturbed
  <2>1. /\ pc[Watcher] = "wait" /\ pc' = [pc EXCEPT ![Watcher] = "idle"]
        /\ arg' = [arg EXCEPT ![Watcher] = NoArg] /\ db' = db
    BY <1>10 DEF WatcherIndexed
  <2> QED BY <1>3, <1>5, <2>1 DEF Reserved
<1>11. ASSUME NEW p \in Projects, WatcherIndex(p) PROVE Undisturbed
  <2>1. /\ pc[Watcher] = "idle" /\ db' = db
        /\ \/ UNCHANGED <<pc, arg>>
           \/ /\ pc' = [pc EXCEPT ![Watcher] = "wait"]
              /\ \E x : arg' = [arg EXCEPT ![Watcher] = x]
    BY <1>11 DEF WatcherIndex
  <2> QED BY <1>3, <1>4, <1>5, <2>1 DEF Reserved
<1>12. ASSUME AutoIndexRetry \/ ShutdownDone PROVE Undisturbed
  BY <1>4, <1>12 DEF AutoIndexRetry, ShutdownDone
<1> QED
  BY <1>6, <1>7, <1>8, <1>9, <1>10, <1>11, <1>12 DEF Next

(* Every step keeps the promise.                                           *)
LEMMA Changes ==
  ASSUME IInv, IInv', RegInv, CancelInv, Next
  PROVE  Promise!Change
<1>1. ASSUME NEW s \in Sessions, SessionCancel(s) PROVE Promise!Change
  <2>1. Lasting /\ Kept(job, job')
    BY <1>1, SessionCancelStep
  <2>2. Active(job') = Active(job)
    BY <2>1, KeptIsSafe DEF IInv
  <2>3. stopping' \in {stopping, TRUE} /\ UNCHANGED <<db, pc, arg>>
    BY <1>1 DEF SessionCancel, IInv, TypeOK
  <2> QED BY <2>1, <2>2, <2>3, KeptUnmoved, Stops
<1>2. CASE ShutdownBegin
  <2>1. Lasting /\ Kept(job, job')
    BY <1>2, ShutdownBeginStep
  <2>2. Active(job') = Active(job)
    BY <2>1, KeptIsSafe DEF IInv
  <2>3. stopping' \in {stopping, TRUE} /\ UNCHANGED <<db, pc, arg>>
    BY <1>2 DEF ShutdownBegin
  <2> QED BY <2>1, <2>2, <2>3, KeptUnmoved, Stops
<1>3. CASE /\ ~ShutdownBegin /\ \A s \in Sessions : ~SessionCancel(s)
           /\ \A a \in Actors : ~MutationStep(a) /\ \A k \in Keys : ~MutationReserve(a, k)
           /\ \A j \in Jobs : ~JobThread(j)
  BY <1>3, RestUndisturbed, Steps, Begins
<1> QED
  BY <1>1, <1>2, <1>3, ThreadChanges, MutationChanges, ReserveChanges

(* Every step is one of the promise, or a stutter.                         *)
LEMMA SharedWorkStep ==
  IInv /\ IInv' /\ RegInv /\ RegInv' /\ CancelInv /\ CancelInv' /\ [Next]_vars
    => [Promise!Next]_(Promise!promise)
<1> SUFFICES ASSUME IInv, IInv', RegInv, RegInv', CancelInv, CancelInv', [Next]_vars
             PROVE  Promise!Next \/ UNCHANGED Promise!promise
  OBVIOUS
<1>1. CASE Next
  <2>1. Onward
    BY <1>1, StepOnward
  <2>2. TypeOK'
    BY DEF IInv
  <2>3. Spares
    BY <1>1, <2>2, RegSteps
  <2> QED
    BY <1>1, <2>1, <2>3, NeedsStep, Changes DEF Promise!Next
<1>2. CASE UNCHANGED vars
  <2>1. \A j : References(j)' = References(j)
    BY <1>2 DEF vars, References
  <2>2. \A p : ActiveOf(job', p) = ActiveOf(job, p)
    BY <1>2 DEF vars, ActiveOf
  <2>3. \A p : Needing(p)' = Needing(p)
    BY <2>1, <2>2 DEF Needing
  <2>4. \A P : At(P)' = At(P)
    BY <1>2, <2>2 DEF vars, At
  <2>5. Reservation' = Reservation
    BY <1>2 DEF vars, Reservation, Reserved
  <2> QED
    BY <1>2, <2>2, <2>3, <2>4, <2>5 DEF vars, Promise!promise, Reservation
<1> QED BY <1>1, <1>2

(* ImplementsSharedWork: the jobs, their counters and the threads keep the *)
(* promise of application.h, one job per project for all that need it.     *)
THEOREM SharedWorkImplemented == Spec => ImplementsSharedWork
<1>1. Init => Promise!Init
  <2> SUFFICES ASSUME Init PROVE Promise!Init
    OBVIOUS
  <2>1. Active(job) = {} /\ \A p : ActiveOf(job, p) = {}
    BY NoJobFields DEF Init, ActiveOf, Active
  <2>2. (\A P : At(P) = {}) /\ (\A p : Needing(p) = {})
    BY <2>1 DEF At, Needing
  <2>3. {p \in Projects : db[p]} = Indexed
    BY ConstantsAssumption DEF Init
  <2>4. \A a \in Actors : ~Reserved(a)
    BY DEF Init, Reserved
  <2> QED BY <2>1, <2>2, <2>3, <2>4 DEF Promise!Init, Init
<1>2. Init => CancelInv
  BY NoJobFields, ConstantsAssumption DEF Init, CancelInv, Active
<1> QED
  BY <1>1, <1>2, SharedWorkStep, CancelSteps, RegistersInvariance, PTL
  DEF Spec, ImplementsSharedWork, Promise!Spec
=============================================================================
