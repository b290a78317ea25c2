--------------------------- MODULE ProjectWatcher ---------------------------
(***************************************************************************)
(* The watcher of one project, src/src/watcher/watcher.c, with its users   *)
(* in the daemon: the polling thread compares the work tree with the       *)
(* baselines it committed and asks the daemon for an index; sessions       *)
(* register and unregister the watch; tools index and delete the project;  *)
(* the root directory may vanish, and then the project is pruned.          *)
(*                                                                         *)
(* A tree is its HEAD and its dirt, each stamped by the edit that made it: *)
(* head 0 is no readable HEAD, dirt 0 a clean tree.  No edit brings an     *)
(* earlier tree back.  The polling interval is not modelled: it only       *)
(* delays a poll, and a poll of the model may begin at any time.           *)
(***************************************************************************)
EXTENDS Naturals, FiniteSets

CONSTANTS
  Sessions,     \* sessions of the project
  Nothing,      \* no database, no tree
  MaxState,     \* state objects at a time: a bound of the model
  DeleteAfter,  \* MISSING_ROOT_DELETE_AFTER
  ToolOptions,  \* options of the tools' index requests
  Documents,    \* documents are attached to the project
  MaxEdits,     \* edits of the tree: a bound of the model
  MaxMoves,     \* changes of the root directory: a bound of the model
  MaxFaults     \* failures: a bound of the model

ASSUME ConstantsAssumption ==
  /\ MaxState \in Nat \ {0} /\ DeleteAfter \in Nat \ {0}
  /\ ToolOptions \in {"default", "custom"} /\ Documents \in BOOLEAN
  /\ MaxEdits \in Nat \ {0} /\ MaxMoves \in Nat /\ MaxFaults \in Nat

VARIABLES
  root,      \* the root directory, as stat sees it
  tree,      \* the work tree
  edits,     \* stamp of the last edit
  db,        \* the tree the project database was made from
  watching,  \* the daemon's sessions with a watch of the project
  obj,       \* the project_state_t objects
  poll,      \* the polling thread
  job,       \* the daemon's index job of the project
  lease,     \* the polling thread has reserved the project for its removal
  moves, faults

vars == <<root, tree, edits, db, watching, obj, poll, job, lease, moves, faults>>

States == 1..MaxState
Stamps == 0..MaxEdits
Trees == [head : Stamps, dirt : Stamps]

\* The signature of the dirt, and that signature with the attached documents
\* folded in; the documents themselves are not edited.
Signatures == 0..(2 * MaxEdits + 1)
Folded(dirt) == IF Documents THEN dirt + MaxEdits + 1 ELSE dirt

NoState == [place |-> "free", streak |-> 0, baseline |-> FALSE, git |-> FALSE,
            head |-> 0, sig |-> 0]
NoJob == [phase |-> "none", tool |-> FALSE, watch |-> FALSE,
          options |-> "default", cancel |-> FALSE, tree |-> Nothing]
Idle == [pc |-> "idle", snap |-> 1, head |-> 0, sig |-> 0, rc |-> 0]

TypeOK ==
  /\ root \in {"present", "missing", "uncertain"}
  /\ tree \in Trees /\ edits \in 1..MaxEdits
  /\ db \in Trees \cup {Nothing}
  /\ watching \subseteq Sessions
  /\ obj \in [States -> [place : {"free", "registered", "deferred"},
                         streak : 0..DeleteAfter, baseline : BOOLEAN,
                         git : BOOLEAN, head : Stamps, sig : Signatures]]
  /\ poll \in [pc : {"idle", "root", "baseline", "head", "dirty", "index", "call",
                     "wait", "return", "prune", "delete", "pruned", "unlock"},
               snap : States, head : Stamps, sig : Signatures, rc : 0..2]
  /\ job \in [phase : {"none", "queued", "read"}, tool : BOOLEAN, watch : BOOLEAN,
              options : {"default", "custom"}, cancel : BOOLEAN,
              tree : Trees \cup {Nothing}]
  /\ job.watch <=> poll.pc = "wait"
  /\ job.phase = "none" => job = NoJob
  /\ lease \in BOOLEAN /\ (lease <=> poll.pc \in {"delete", "pruned", "unlock"})
  /\ moves \in 0..MaxMoves /\ faults \in 0..MaxFaults

Init ==
  /\ root = "present"
  /\ tree = [head |-> 1, dirt |-> 0] /\ edits = 1
  /\ db = Nothing
  /\ watching = {}
  /\ obj = [i \in States |-> NoState]
  /\ poll = Idle
  /\ job = NoJob
  /\ lease = FALSE
  /\ moves = 0 /\ faults = 0

Fault == faults < MaxFaults /\ faults' = faults + 1

\* the table projects, from names to state objects
Registered == {i \in States : obj[i].place = "registered"}

-----------------------------------------------------------------------------
(* The world: edits, commits, and the root directory.                      *)

Edit ==
  /\ root = "present" /\ edits < MaxEdits
  /\ edits' = edits + 1
  /\ \/ tree' = [tree EXCEPT !.dirt = edits + 1]
     \/ tree' = [head |-> edits + 1, dirt |-> 0]
  /\ UNCHANGED <<root, db, watching, obj, poll, job, lease, moves, faults>>

RootMove ==
  /\ moves < MaxMoves
  /\ moves' = moves + 1
  /\ root' \in {"present", "missing", "uncertain"} \ {root}
  /\ UNCHANGED <<tree, edits, db, watching, obj, poll, job, lease, faults>>

-----------------------------------------------------------------------------
(* The daemon's sessions (application.c).                                  *)

\* Variant: the object is freed at once.
UnwatchFreeing(os) ==
  [i \in States |-> IF os[i].place = "registered" THEN NoState ELSE os[i]]

\* pmm_watcher_unwatch: the object is freed by a later poll.
Unwatch(os) ==
  [i \in States |-> IF os[i].place = "registered"
                    THEN [os[i] EXCEPT !.place = "deferred"] ELSE os[i]]

\* Variant: the job goes with its last owner.
JobDropped == IF job.watch /\ ~job.tool THEN NoJob ELSE job

\* The watch's sessions were the owners of the watcher's job.
JobDisowned == IF job.watch /\ ~job.tool THEN [job EXCEPT !.cancel = TRUE] ELSE job

\* application_refresh_watch_locked
SessionRefresh(s) ==
  /\ \/ /\ db = Nothing /\ watching # {}
        /\ watching' = {}
        /\ obj' = Unwatch(obj)
        /\ job' = JobDisowned
     \/ /\ db # Nothing /\ s \notin watching
        /\ watching' = watching \cup {s}
        /\ \/ /\ watching # {} /\ UNCHANGED obj
           \/ /\ watching = {}
              /\ \E i \in States :
                   /\ obj[i].place = "free"
                   /\ obj' = [obj EXCEPT ![i].place = "registered"]
        /\ UNCHANGED job
  /\ UNCHANGED <<root, tree, edits, db, poll, lease, moves, faults>>

\* application_release_session_watch_locked, when the session disconnects
SessionLeave(s) ==
  /\ s \in watching
  /\ watching' = watching \ {s}
  /\ obj' = IF watching = {s} THEN Unwatch(obj) ELSE obj
  /\ job' = IF watching = {s} THEN JobDisowned ELSE job
  /\ UNCHANGED <<root, tree, edits, db, poll, lease, moves, faults>>

\* A tool asks for an index: it starts the job or joins an equal one.
ToolIndex ==
  /\ \/ /\ job.phase = "none"
        /\ job' = [NoJob EXCEPT !.phase = "queued", !.tool = TRUE, !.options = ToolOptions]
     \/ /\ job.phase # "none" /\ ~job.tool /\ ~job.cancel /\ job.options = ToolOptions
        /\ job' = [job EXCEPT !.tool = TRUE]
  /\ UNCHANGED <<root, tree, edits, db, watching, obj, poll, lease, moves, faults>>

\* handle_delete_project, under a reservation of the project
ToolDelete ==
  /\ job.phase = "none" /\ ~lease /\ db # Nothing
  /\ db' = Nothing
  /\ UNCHANGED <<root, tree, edits, watching, obj, poll, job, lease, moves, faults>>

\* The thread of the job waits for the mutations of the project, and its
\* worker process reads the tree.
JobRead ==
  /\ job.phase = "queued" /\ ~job.cancel /\ ~lease /\ root = "present"
  /\ job' = [job EXCEPT !.phase = "read", !.tree = tree]
  /\ UNCHANGED <<root, tree, edits, db, watching, obj, poll, lease, moves, faults>>

\* The end of the job is published; a waiting polling thread is answered 0
\* for success, 1 for a cancellation, 2 for -1.
JobOver(rc) ==
  /\ job' = NoJob
  /\ poll' = IF job.watch THEN [poll EXCEPT !.pc = "return", !.rc = rc] ELSE poll

JobEnd ==
  /\ \/ /\ job.phase = "read"
        /\ db' = job.tree
        /\ JobOver(IF job.cancel THEN 1 ELSE 0)
        /\ UNCHANGED faults
     \/ /\ job.phase # "none" /\ job.cancel
        /\ JobOver(1)
        /\ UNCHANGED <<db, faults>>
     \/ /\ job.phase = "queued" /\ ~job.cancel /\ root # "present"
        /\ JobOver(2)
        /\ UNCHANGED <<db, faults>>
     \/ /\ job.phase # "none" /\ ~job.cancel /\ Fault
        /\ JobOver(2)
        /\ UNCHANGED db
  /\ UNCHANGED <<root, tree, edits, watching, obj, lease, moves>>

-----------------------------------------------------------------------------
(* pmm_watcher_poll_once and poll_project.                                 *)

State == obj[poll.snap]
IsRegistered == State.place = "registered"
Return == poll' = Idle
Goto(pc) == poll' = [poll EXCEPT !.pc = pc]

\* The objects deferred by earlier calls are freed, the others snapshotted.
PollBegin ==
  /\ poll.pc = "idle"
  /\ \E i \in States : obj[i].place # "free"
  /\ obj' = [i \in States |-> IF obj[i].place = "deferred" THEN NoState ELSE obj[i]]
  /\ \/ Registered = {} /\ UNCHANGED poll
     \/ \E i \in Registered : poll' = [Idle EXCEPT !.pc = "root", !.snap = i]
  /\ UNCHANGED <<root, tree, edits, db, watching, job, lease, moves, faults>>

\* The root is classified.  The time that a streak must last is not
\* modelled: a streak that is long enough may or may not have lasted.
PollRoot ==
  LET streak == IF State.streak < DeleteAfter THEN State.streak + 1 ELSE DeleteAfter IN
  /\ poll.pc = "root"
  /\ \/ /\ ~IsRegistered /\ Return /\ UNCHANGED obj
     \/ /\ IsRegistered /\ root = "uncertain"
        /\ obj' = [obj EXCEPT ![poll.snap].streak = 0]
        /\ Return
     \/ /\ IsRegistered /\ root = "missing"
        /\ obj' = [obj EXCEPT ![poll.snap].streak = streak]
        /\ \/ Return
           \/ streak >= DeleteAfter /\ Goto("prune")
     \/ /\ IsRegistered /\ root = "present"
        /\ obj' = [obj EXCEPT ![poll.snap].streak = 0]
        /\ \/ ~State.baseline /\ Goto("baseline")
           \/ State.baseline /\ State.git /\ Goto("head")
           \/ State.baseline /\ ~State.git /\ Return
  /\ UNCHANGED <<root, tree, edits, db, watching, job, lease, moves, faults>>

\* init_baseline: git may fail to give a HEAD, or fail altogether.
PollBaseline ==
  /\ poll.pc = "baseline"
  /\ \/ /\ root # "present"
        /\ obj' = [obj EXCEPT ![poll.snap].baseline = TRUE]
        /\ UNCHANGED faults
     \/ /\ root = "present"
        /\ obj' = [obj EXCEPT ![poll.snap].baseline = TRUE, ![poll.snap].git = TRUE,
                               ![poll.snap].head = tree.head]
        /\ UNCHANGED faults
     \/ /\ Fault
        /\ \/ obj' = [obj EXCEPT ![poll.snap].baseline = TRUE, ![poll.snap].git = TRUE]
           \/ UNCHANGED obj
     \/ ~IsRegistered /\ UNCHANGED <<obj, faults>>
  /\ Return
  /\ UNCHANGED <<root, tree, edits, db, watching, job, lease, moves>>

\* check_changes reads HEAD; the first one it sees becomes the baseline.
\* Git fails without a root, and is cancelled when the watch is removed.
PollHead ==
  /\ poll.pc = "head"
  /\ \/ /\ root = "present"
        /\ obj' = [obj EXCEPT ![poll.snap].head = IF @ = 0 THEN tree.head ELSE @]
        /\ poll' = [poll EXCEPT !.pc = "dirty", !.head = tree.head]
        /\ UNCHANGED faults
     \/ /\ root # "present" /\ Goto("dirty") /\ UNCHANGED <<obj, faults>>
     \/ /\ Fault /\ (Goto("dirty") \/ Return) /\ UNCHANGED obj
     \/ /\ ~IsRegistered /\ Return /\ UNCHANGED <<obj, faults>>
  /\ UNCHANGED <<root, tree, edits, db, watching, job, lease, moves>>

\* It reads the signature of the dirt, and decides: by the signature, and
\* again by the one with the documents folded in, which is the staged one.
PollDirty ==
  LET changed == \/ poll.head # 0 /\ poll.head # State.head
                 \/ tree.dirt # State.sig
                 \/ Folded(tree.dirt) # State.sig
  IN
  /\ poll.pc = "dirty"
  /\ \/ /\ root = "present"
        /\ IF changed THEN poll' = [poll EXCEPT !.pc = "index", !.sig = Folded(tree.dirt)]
           ELSE Return
        /\ UNCHANGED faults
     \/ (root # "present" \/ ~IsRegistered) /\ Return /\ UNCHANGED faults
     \/ Fault /\ Return
  /\ UNCHANGED <<root, tree, edits, db, watching, obj, job, lease, moves>>

\* The last look at the registration before the callback
PollIndex ==
  /\ poll.pc = "index"
  /\ IF IsRegistered THEN Goto("call") ELSE Return
  /\ UNCHANGED <<root, tree, edits, db, watching, obj, job, lease, moves, faults>>

\* pmm_daemon_application_watcher_index
PollCall ==
  /\ poll.pc = "call"
  /\ \/ /\ \/ watching = {} \/ root # "present"
           \/ job.phase # "none" /\ (job.cancel \/ job.options # "default")
        /\ Return
        /\ UNCHANGED <<job, faults>>
     \/ /\ watching # {} /\ root = "present"
        /\ \/ /\ job.phase = "none"
              /\ job' = [NoJob EXCEPT !.phase = "queued", !.watch = TRUE]
           \/ /\ job.phase # "none" /\ ~job.cancel /\ job.options = "default"
              /\ job' = [job EXCEPT !.watch = TRUE]
        /\ Goto("wait")
        /\ UNCHANGED faults
     \/ /\ Fault /\ Return /\ UNCHANGED job
  /\ UNCHANGED <<root, tree, edits, db, watching, obj, lease, moves>>

\* Variant: the baselines are those of the tree after the index.
PollReturnAbsorbing ==
  /\ poll.pc = "return"
  /\ obj' = IF poll.rc # 0 THEN obj
            ELSE [obj EXCEPT ![poll.snap].head = tree.head,
                             ![poll.snap].sig = Folded(tree.dirt)]
  /\ Return
  /\ UNCHANGED <<root, tree, edits, db, watching, job, lease, moves, faults>>

\* Variant: a refused or cancelled index commits the baselines too.
PollReturnAlways ==
  /\ poll.pc = "return"
  /\ obj' = [obj EXCEPT ![poll.snap].head = IF poll.head # 0 THEN poll.head ELSE @,
                         ![poll.snap].sig = poll.sig]
  /\ Return
  /\ UNCHANGED <<root, tree, edits, db, watching, job, lease, moves, faults>>

\* The baselines observed at check time are committed after a success.
PollReturn ==
  /\ poll.pc = "return"
  /\ obj' = IF poll.rc # 0 THEN obj
            ELSE [obj EXCEPT ![poll.snap].head = IF poll.head # 0 THEN poll.head ELSE @,
                             ![poll.snap].sig = poll.sig]
  /\ Return
  /\ UNCHANGED <<root, tree, edits, db, watching, job, lease, moves, faults>>

-----------------------------------------------------------------------------
(* prune_missing_project                                                   *)

\* The project is reserved, if it is free of jobs and of mutations.
PruneBegin ==
  /\ poll.pc = "prune"
  /\ \/ Return /\ UNCHANGED lease
     \/ job.phase = "none" /\ lease' = TRUE /\ Goto("delete")
  /\ UNCHANGED <<root, tree, edits, db, watching, obj, job, moves, faults>>

\* Variant: whatever was registered meanwhile, the project is removed.
PruneDeleteStale ==
  LET eligible == State.streak >= DeleteAfter /\ root = "missing" IN
  /\ poll.pc = "delete"
  /\ \/ /\ eligible
        /\ db' = Nothing
        /\ obj' = [obj EXCEPT ![poll.snap].place = "deferred"]
        /\ Goto("pruned")
        /\ UNCHANGED faults
     \/ /\ ~eligible /\ Goto("unlock") /\ UNCHANGED <<db, obj, faults>>
     \/ /\ eligible /\ Fault /\ Goto("unlock") /\ UNCHANGED <<db, obj>>
  /\ UNCHANGED <<root, tree, edits, watching, job, lease, moves>>

\* Everything is looked at again, and the database removed.
PruneDelete ==
  LET eligible == IsRegistered /\ State.streak >= DeleteAfter /\ root = "missing" IN
  /\ poll.pc = "delete"
  /\ \/ /\ eligible
        /\ db' = Nothing
        /\ obj' = [obj EXCEPT ![poll.snap].place = "deferred"]
        /\ Goto("pruned")
        /\ UNCHANGED faults
     \/ /\ ~eligible /\ Goto("unlock") /\ UNCHANGED <<db, obj, faults>>
     \/ /\ eligible /\ Fault /\ Goto("unlock") /\ UNCHANGED <<db, obj>>
  /\ UNCHANGED <<root, tree, edits, watching, job, lease, moves>>

\* Variant: the daemon's sessions keep their watches.
PruneNotifyNobody ==
  /\ poll.pc = "pruned" /\ Goto("unlock")
  /\ UNCHANGED <<root, tree, edits, db, watching, obj, job, lease, moves, faults>>

\* application_watcher_project_pruned
PruneNotify ==
  /\ poll.pc = "pruned" /\ Goto("unlock")
  /\ watching' = {}
  /\ UNCHANGED <<root, tree, edits, db, obj, job, lease, moves, faults>>

PruneEnd ==
  /\ poll.pc = "unlock" /\ Return
  /\ lease' = FALSE
  /\ UNCHANGED <<root, tree, edits, db, watching, obj, job, moves, faults>>

-----------------------------------------------------------------------------
Poller ==
  \/ PollBegin \/ PollRoot \/ PollBaseline \/ PollHead \/ PollDirty \/ PollIndex
  \/ PollCall \/ PollReturn \/ PruneBegin \/ PruneDelete \/ PruneNotify \/ PruneEnd

Next ==
  \/ Edit \/ RootMove
  \/ \E s \in Sessions : SessionRefresh(s) \/ SessionLeave(s)
  \/ ToolIndex \/ ToolDelete \/ JobRead \/ JobEnd
  \/ Poller

Spec == Init /\ [][Next]_vars

\* The polling thread and the job's thread run; what is asked for is free.
FairSpec == Spec /\ WF_vars(Poller) /\ WF_vars(JobRead \/ JobEnd)

-----------------------------------------------------------------------------
(* Properties                                                              *)

\* The daemon's logical watches and the watcher's table agree, however
\* sessions come and go during a poll or a prune: one registered object if
\* some session watches and none otherwise.  While a pruned project is not
\* yet reported to the daemon its database is gone, so nobody registers it.
\* The polling thread never touches a freed object, although the watch may be
\* removed and registered again at any point of its poll.
WatchesAgree ==
  /\ Cardinality(Registered) <= 1
  /\ IF poll.pc = "pruned" THEN Registered = {} /\ db = Nothing
     ELSE watching # {} <=> Registered # {}
  /\ poll.pc # "idle" => State.place # "free"

\* A prune removes a database only while the root is missing, no worker
\* reads the project, and the current registration has itself seen the root
\* missing in DeleteAfter polls on end.
PruneSparesProject ==
  [][poll.pc = "delete" /\ db # Nothing /\ db' = Nothing =>
       /\ root = "missing" /\ job.phase # "read" /\ lease
       /\ \E i \in Registered : obj[i].streak >= DeleteAfter]_vars

\* "Commit the baselines OBSERVED AT CHECK TIME ... the next poll sees it as a
\* new delta (at-least-once, never lost)" (watcher.c): if the baselines that a
\* successful index commits agree with the tree, so that no later poll will
\* ask for an index, then the index was made from this tree.
NeverLost ==
  [][LET after == obj'[poll.snap] IN
     /\ poll.pc = "return" /\ poll'.pc = "idle" /\ poll.rc = 0
     /\ after.head = tree.head /\ after.sig = Folded(tree.dirt)
     /\ db # Nothing
     => db = tree]_vars

\* A change that the watcher can see leads to an index of the current tree,
\* through failures, busy answers and cancellations, unless the watch, the
\* root or the database goes.
Delta ==
  /\ root = "present" /\ db # Nothing
  /\ \E i \in Registered :
       /\ obj[i].git /\ obj[i].head # 0
       /\ obj[i].head # tree.head \/ obj[i].sig # Folded(tree.dirt)

DeltaIndexed == Delta ~> (db = tree \/ db = Nothing \/ Registered = {} \/ root # "present")

\* "a persistently dirty worktree must reindex once per DISTINCT dirty state,
\* not on every poll" (watcher.c): a poll that asks for an index has observed
\* something else than the baselines it would replace.
OncePerState ==
  [][poll.pc = "dirty" /\ poll'.pc = "index" =>
       \/ poll'.head # 0 /\ poll'.head # State.head
       \/ poll'.sig # State.sig]_vars
=============================================================================
