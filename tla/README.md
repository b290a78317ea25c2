# A TLA+ model of project-mind-mcp

project-mind-mcp (PMM) is a code-intelligence server.  Every agent session of an
account talks to one shared daemon, and any number of processes (sessions,
one-shot commands, bootstraps, installers) coordinate through lock files.  This
directory models that coordination: it is where the program is concurrent, where
processes die at any line, and where unit tests reach the least.  Paths below
are relative to the repository root; `src/src/` of the tree map is `src/` there.

## 1. Inventory

| component | state it keeps | operations | interacts with |
|---|---|---|---|
| daemon coordinator (`src/daemon/daemon.c`) | clients and their leases, per-project jobs and watches, subscriptions, owed hooks, lifecycle state | connect, heartbeat, disconnect, sweep, (un)subscribe, reaping / reaped / completed, should_exit, free | called by every runtime thread; calls the hooks back without its mutex |
| version cohort (`src/daemon/version_cohort.c`) | three lock files (maintenance, admission, lifetime), the lifetime record, a daemon claim file | acquire, lease release, reserve for mutation, presence probes, daemon claim | all processes of the account; the quiesce callback of the installer; the monitor of a frontend |
| private file lock (`src/foundation/private_file_lock.c`) | native locks and payload of one file | try, release, payload read and write | cohort, lock registry |
| maintenance monitor (`src/daemon/frontend.c`) | an observer lock while it polls, the "noticed" flag, the grace period | poll, cancel, exit, stop | cohort |
| activation (`src/cli/cli.c`) | cohort reservation, startup lock | reserve, quiesce, own, release | cohort, activation transaction |
| activation transaction (`src/cli/activation_transaction.c`) | target, staged, backup files; a state machine | stage, commit, roll back, finalize, close | the file system |
| lock registry (`src/foundation/lock_registry.c`) | a FIFO of waiters per key and process, a turn file and a read/write file per key | acquire, try, cancel, release, free | project lock, daemon |
| project lock, mutation leases (`src/daemon/project_lock.c`; callers in `src/main.c`, `src/mcp/mcp.c`) | per process the leases it holds: the project set and project keys | acquire in 100 ms rounds, release in reverse order | lock registry |
| bootstrap, host (`src/daemon/bootstrap.c`, `host.c`) | startup lock, cohort lease, daemon claim, lifetime reservation | probe, spawn, hand off, run a generation | cohort, ipc, runtime |
| runtime, application (`src/daemon/runtime.c`, `application.c`) | connections; per daemon: sessions with a token and flags, job objects and their threads, mutation reservations, watches and the owners of the watcher's jobs, `stopping` | open, request, cancel, close; index, initialize, mutate; job publication and retry; shutdown | mcp server, index supervisor, watcher, project lock |
| ipc, service (`src/daemon/ipc.c`, `service.c`) | the socket's two names, its records and their temporary names; startup and lifetime locks; framing, sessions | listen, publish, clean up, close; connect, send, receive | bootstrap, runtime, frontend |
| index supervisor, subprocess (`src/mcp/index_supervisor.c`) | worker processes, quarantine | run, cancel, reap | application |
| watcher (`src/watcher/watcher.c`) | per project: HEAD and dirt baselines, streak of missing roots, poll time; a list of objects to free later | watch, unwatch, touch, poll, prune | application, which indexes for it and owns the logical watches |
| pipeline (`src/pipeline/`) | graph buffer, artifact files | full and incremental index, export, import | store, worker pool |
| store, graph buffer, cypher, semantic, simhash, traces, discover, git | database and derived data | queries and transformations | mcp server |
| mcp server (`src/mcp/mcp.c`) | the open store of a session | JSON-RPC tools | everything above |
| foundation, configuration editors, ui, extraction, lsp, scripts | library and I/O code | | |

`PROJECT.json` lists the same parts with their status, and every hazard at its line.

### What is hard, and what makes each part correct

* **Coordinator.** Hooks run after the mutex was released, so a hook and the
  supervisor's terminal report race for the same object; clients leave with
  subscriptions on several objects; a project is asked for again while its job
  is dying; ids and clocks reach their limits.  Correct means: subscriptions
  only point to living things, work runs exactly while it is subscribed, objects
  are freed once and never while a hook needs them, and "may exit" is final.
* **Version cohort.** Locks are dropped by death at any step, the record is
  written by a process that may die half-way, an exclusive lock becomes a
  shared one in two steps, participants and mutators want overlapping sets of
  files.  Correct means: one build at a time, a mutation alone in the account,
  no false CONFLICT, no lock-out by a torn record, no deadlock.
* **Bootstrap, host and endpoint.** A socket cannot be bound under its final name
  without a moment in which it is neither private nor known, so it is published
  in a dozen steps over six names, and a kill between any two leaves a directory
  that the next client has to attribute.  Meanwhile other clients observe the
  locks by taking them, and a legacy build may replace the public name.  Correct
  means: nobody removes the files of a living daemon, old or new, and what a dead
  one left is collected, so that the next one can start.
* **Application.** A job is shared by requests, auto-indexing, a disconnect that
  waits for it and every session that watches its project, and each of them goes
  by its own path and in any order.  Jobs exclude mutations of conflicting keys
  across three critical sections.  Threads wait for each other by polling.
  Correct means: a job lives and runs exactly while somebody needs it, a worker
  never meets a mutation, shutdown is final, nobody waits for ever.
* **Watcher.** A poll works on an object that may be unregistered, freed and
  registered again under it, and compares a tree that changes while it looks and
  while it is indexed.  Correct means: no freed object is touched, a project is
  pruned only when its root is really gone, a change that can be seen is indexed.
* **Lock registry.** FIFO handoff with cancellation, deadlines and native
  retries, and a release in several steps: mutual exclusion, no lost wake-up,
  writers not starved by readers, nothing left behind by a call that failed.
* **Mutation leases.** An operation takes several projects one by one, each
  under the shared project set, while another waits for the whole set and shuts
  readers out.  Correct means: nobody works on somebody else's project, and
  every operation ends.
* **Activation transaction.** After commit, rollback, crash, power loss or close
  the target is the old file or the new one, the old one is kept until the new
  one is durable, and a foreign file that takes the target's name is not lost.  The
  code cannot keep the last promise always: the target is replaced and removed by a
  plain `rename` and `unlink`, and a file that comes after the check in front of them
  goes with it.  There are three such operations, the publication over an existing
  target, the rename of the backup in a rollback (`activation_transaction.c:1967`;
  `replace_destination` is ignored on POSIX, 1188) and the unlink of a published file
  in a rollback (1919, 1234).  All three are modelled as check and use in two steps, and the claim is that
  a foreign file is lost nowhere else.

## 2. Modules

| module | models | state and actions |
|---|---|---|
| `DaemonCoordinator` | `daemon.c` | one action per public entry point (each holds the mutex for its whole change) and three for a hook: `CallHook`, `FinishCancelJob`, `FinishReleaseWatch`, the steps between which `callback_batch_run` does not hold the mutex.  `clients`, `jobs`, `watches`, `jobSubs`, `watchSubs` are the linked lists; `pending` is the union of all threads' hook batches |
| `VersionCohort` | `version_cohort.c`, the lock file, the monitor thread, the activation barrier | one action per lock operation or record operation of `acquire`, `lease_release`, `reserve_for_mutation`, `maintenance_presence`; a process dies in `Crash`; `GiveUp` and `LockFails` are the two negative answers of `lock_until` |
| `ExactBuildAdmission` | what `version_cohort.h` promises | `Admit`, `Leave`, `BeginMutation`, `EndMutation` over the set of active participants, their build, and the mutators |
| `LockRegistry` | `lock_registry.c`, one resource key | one action per block under the registry's mutex and one per native operation: a waiter goes `queued` - `turn` - `rw` - (`unturn`) - `ready` - `held`, and out through `abort`, `settle`, `cleanup` or `retained`; `asleep` are the threads in the condition wait |
| `ReadWriteLock` | what `lock_registry.h` promises for a key | `AcquireShared`, `AcquireExclusive`, `Release`, `Abandon` over the sets of lease holders |
| `ProjectLeases` | what `project_lock.h` promises the operations of a process | `Own`, `OwnAll`, `Disown`, `DisownAll`, `Die` over the keys each worker owns and who owns "*" |
| `ProjectMutation` | `project_lock.c`, the retry loop of `main.c`, the cross-repo operation of `mcp.c` | a worker picks projects, takes for each the set's turn, the set and the key, works, and gives all back; `RoundEnds` is the 100 ms deadline, `LockFails` every other failure |
| `ActivationTransaction` | `activation_transaction.c` on POSIX, one transaction | `dir` maps the three names to files, `tx` is the object with its flags, one action per directory operation and its outcome, `Begin...` for the public calls; `survivors` are the directories a power loss may leave |
| `DaemonApplication` | `application.c`, the admission of requests in `runtime.c` | every action but the worker's is a critical section under `application->mutex`; `session`, `job` and `owners` are the objects, `pc` and `arg` the threads of the requests and of the watcher, `job[j].thread` a job's thread from "waiting" to "done", `leaving` a disconnect, `unvisited` the loop that retries auto-indexing while it keeps the mutex |
| `SharedWork` | what `application.h` promises the sessions about the work on their projects | `Begin`, `Start`, `Index`, `Settle`, `End` of a project's job, `Reserve`, `Remove`, `Unreserve` of a mutation, `Stop`; with each of them the sessions that need a job change (`Needs`), and a job is cancelled exactly when none is left or the daemon stops |
| `ProjectWatcher` | `watcher.c` for one project, with what the daemon and the tools do to it | `obj` are the `project_state_t` objects (registered, deferred, freed), `poll` the polling thread and what it has observed; `tree` is the work tree, `db` the tree the database was made from, `job` the daemon's index job |
| `DaemonGeneration` | the launch in `bootstrap.c`, the claims of `host.c`, the endpoint's directory and locks in `ipc.c` (POSIX), the daemon claim of `version_cohort.c` | one action per lock operation and per change of the directory: `host[h].pc` is a daemon process from its launch over `listen`, `secure`, the pending record, `expose` and the marker to `serving` and out; `starter[s].pc` a client that probes, takes the startup lock, cleans up (`recover`, `clean`, completing a marker) and spawns; `socket` maps the anchor and the stable name to the socket they carry, `record` and `temp` are the two records; `HostKilled` and `Killed` free the locks and keep the files |
| `DaemonCoordinatorProofs`, `VersionCohortProofs`, `LockRegistryProofs`, `ProjectMutationProofs`, `DaemonApplicationProofs`, `DaemonGenerationProofs`, `ProjectWatcherProofs`, `ActivationTransactionProofs` | | theorems about the module of that name |
| `DaemonApplicationInvariants` | | the inductive invariants of `DaemonApplication` and the kinds of steps that `DaemonApplicationProofs` speaks of |
| `MCDaemonCoordinator`, `MCVersionCohort`, `MCLockRegistry`, `MCProjectMutation`, `MCDaemonApplication`, `MCDaemonGeneration` | | small sets and symmetry for TLC |

`VersionCohort` instantiates `ExactBuildAdmission` with a refinement mapping:
active participants are those whose `acquire` succeeded or can no longer fail
(`pc` in "settle" or "in"), the active build is theirs, and a mutator mutates
from the moment it holds the whole barrier.

`LockRegistry` instantiates `ReadWriteLock`: the readers and writers are the
threads whose `pc` is "held", the moment from which their caller owns a lease.
A release ends the abstract lease with its first native step, so what follows
(turn, counters, cleanup) is shown to be invisible.  `ProjectMutation` composes
on top of that promise: it keeps the turn of the project set, because a waiting
"*" shuts readers out through it, and takes a project key, which is only ever
locked exclusively, as a lock with one owner.  It instantiates `ProjectLeases`: a
worker owns a key from the native lock of its file until that is dropped, and all
of them from the exclusive lock of the set; what a named project holds of the set,
the turn, and whether a lease is complete, recorded or being given back are
invisible there.  `DaemonApplication` takes the
native lease of a reserved key as granted or refused, which is what
`ProjectMutation` shows of it, and adds the daemon's reservations above it.
It instantiates `SharedWork`: a project's job is waiting, working (a worker may
write) or ending by the place of its thread; a session needs it through a request
between subscription and answer, its active or auto-index pointer or its watch, not
through a disconnect that waits for the end of what it cancelled; a mutator has
reserved a key from `MutationReserve` to `MutationEnd`.  Objects and when they are
freed, the counters, the owners, attempts, answers and the order of the critical
sections are invisible there.
`ProjectWatcher` takes one job of the application with its demand by a tool and
by the watch, and adds what that job has read.  `DaemonGeneration` begins where
`VersionCohort` ends: its clients and daemons are of one build.

Abstractions: a job or watch object is named by the id of the subscription that
started it, which stands for its address and makes use-after-free expressible;
client leases use a clock `0..MaxNow` with unsigned subtraction; the record is a
build, `NoBuild` or `Torn`; a native lock is `lock[file][process]`.  Allocation failures
of the coordinator leave every entry point before its first change and are
therefore stutters.  A resource of the registry is one key, so the table of keys
and the hash that names their files are left out, and the 1 ms park between two
native tries is a stutter.  A project name is a model value with its folded key
and its place in the order of `cross_repo_project_lock_key_compare_values`.
In `ActivationTransaction` a file stands for its identity and content; a power
loss undoes any subset of the operations since the last `fsync` of the
directory; a check of the target is a step apart from the rename or unlink it is
made for, since others may take that name, while a check of the stage or the backup,
which have names of their own, is one step with its operation; the checks of owner,
mode, ACL and directory can fail at any time but are not spelled out.  Path
handling, file permissions and fork handlers are left out.

In `DaemonApplication` a project stands for its key and root, and the context of
a session fixes its project (`Home`).  A request is an initialization, an index
or a mutation; the others change no state of the application.  A mutation's work
removes the project or nothing.  No update provider is installed, so every
successful request of an eligible session starts its background work.  The index
supervisor is external: a worker ends with a database, a crash, or because it was
cancelled, and a failure to start, to allocate or to subscribe is a choice of the
action (`MaxFaults`).  In `ProjectWatcher` a tree is a pair of stamps, so no edit
brings an earlier tree back; a poll may begin at any time, which covers every
interval; the documents attached to a project are not edited.

In `DaemonGeneration` a socket is named by the process that bound it, its inode by
`private` (mode 0600) and a ctime that every link, unlink and chmod moves on; a
record is the identity it names, or torn.  Link counts follow from the names.  The
operations that check a name and then change it are one step: under the lifetime
reservation only a legacy daemon interferes, and it does not start then.  Deadlines
pass or not, as a choice.  A daemon serves whenever it is published, and stops when
it likes.

## 3. Runs

| run | instance | shows |
|---|---|---|
| `coordinator` | 2 threads, 2 projects, 2 clients, 2 subscriptions, clock 0..1, fairness | the safety and action properties of the coordinator, and that a stopping one becomes ready to exit |
| `cohort` | 2 participants of 2 builds (1 monitored), 1 mutator, fairness | one build at a time, unobstructed joins and mutations, true conflicts, the refinement of `ExactBuildAdmission`, and that acquisitions and published reservations come to an end |
| `registry` | 2 threads of one process, 1 of another, 1 call each | mutual exclusion as a refinement, FIFO, writer preference, no residue |
| `registry_live` | 2 threads of one process, 2 calls each, fairness | cancelled and uncancelled acquisitions answer |
| `projects` | 2 workers, 3 names of 2 keys, 2 operations each, fairness | workers never share a project, the locks implement `ProjectLeases`, and operations that hold several end |
| `activation` | one transaction, no bound | all or nothing, the original is kept, answers are true, a foreign file is lost only to the rename or unlink whose check it came after |
| `activation_recovery` | the same, violation | a failed publication can leave a state no rollback accepts |
| `application` | 2 sessions of a project, one asking for another project's index or a mutation of `*`, 1 job at a time, 2 attempts, 1 poll, 1 failure | demand for jobs is counted exactly, needed work continues, workers exclude mutations, shutdown is final, nobody is stuck, and whoever runs can take a step |
| `watcher` | 2 sessions, 2 objects, 3 edits, 2 moves of the root, 1 failure, fairness | the tables agree, prunes are justified, no observed change is lost, a visible change is indexed |
| `watcher_lost` | 1 session, tools index with the watcher's options, violation | joining an older job loses a change |
| `watcher_documents` | 1 session, documents attached, violation | an unchanged tree is indexed at every poll |
| `generation` | 2 clients, 2 slots of daemon processes used again and again, a legacy daemon, symmetry | a serving daemon stays reachable, a cleanup refuses only the leftovers named below |

Bounds.

* `coordinator`: two subscriptions of two clients over two projects let an object
  die while its client's other object lives, and let a successor of its key start
  while a hook of the old one is late; two threads make each pair of entry points
  and hooks overlap; the id limits are reached, so the limit branches fire.
* `cohort`: two participants of two builds claim, join and conflict, the mutator
  meets one with a monitor and one without.  A third participant or a second
  mutator adds no new pair of steps on a file, and the theorems hold for any number.
* `registry`, `registry_live`: two threads of one process share a queue and
  counters, a third of another process meets them at the native files only; a
  second call lets a thread queue again after its first lease or failed call.
* `projects`: two spellings of one key and a second key are what it takes for
  two operations to want overlapping sets in different orders.
* `activation` has no bound: its state is finite, although commits, rollbacks
  and closes may be retried for ever.
* `application`: a limit of one job makes the second demand "busy", which is what
  starts the retry of auto-indexing; two job objects let a finished one linger
  under its last reference while the next runs; two attempts let a crash be
  recovered; two sessions of one project share a job, a watch and the job of the
  watcher, and either may leave first; `*` conflicts with both projects.  One
  request per session is enough because what a session keeps between requests
  (flags, watch, auto-index job, a cancellation for a token that has ended) meets
  cancellation, publication, disconnect and shutdown already.
* `watcher`: three moves of time matter, the tree a job has read, the tree a poll
  has observed and the tree afterwards, hence three edits; two objects are a
  freed or deferred one and its successor; two moves let the root vanish and
  return.  `ToolOptions` is "custom" there, so that a tool's job cannot be joined
  by the watcher; `watcher_lost` drops this.
* `generation`: one client cleans up or launches while the other probes and takes
  locks to observe them; one daemon process dies or ends while the next is on its
  way, and a slot is taken again once its files are gone, so any number of
  generations follow each other.  Kills, faults and legacy daemons are unbounded.

The theorems of section 5 remove the bounds for the properties they state.  The
types of `VersionCohort` and `ProjectMutation` (`TypeCorrect`) and the promise of
`SharedWork` (`SharedWorkImplemented`) are proved and not among the properties of the
runs.  To see TLC check the latter, add `ImplementsSharedWork` to the PROPERTIES of
`DaemonApplication.cfg`: it holds there, and takes the run twice its time.

`CHECK_DEADLOCK FALSE` is given where the instance may stop: the coordinator
ends with `pmm_daemon_coordinator_free`, and the threads of `LockRegistry` and
the workers of `ProjectMutation` make `MaxCalls` calls and `MaxOperations`
operations, and an activation transaction is closed.  In `DaemonApplication`
sessions make `MaxRequests` requests and close; `NobodyStuck` says what may be
left when nothing runs (`AllSettled`).  The cohort, the watcher and the generations are checked
for deadlock.

What `generation` finds of leftovers is the list `Excused`: after a kill at these
moments every later launch refuses, until somebody removes the files.

1. A socket was bound but not yet mode 0600.
2. A record's temporary file was created but not yet written.
3. A legacy daemon's socket is under the stable name.  (The one that a killed legacy
   daemon leaves is refused for the same reason; the model has only those of running
   ones.)
4. The marker's temporary file exists and the stable name is gone.  A legacy
   daemon replaced it and stopped, for instance.
5. Both names of a socket and no record: after a failed publication the socket
   could not be removed, the records were.

A comment in `ipc.c` calls the moment between bind and pending record "the sole
otherwise-untrackable crash boundary", and covers it only once the socket is
private.  That a mismatched artifact "is preserved and blocks startup" is intended;
the tests kill at the hooked stages alone (`tests/test_daemon_ipc.c:3144`), which
are none of these five.  Any other leftover is collected, also after kills of the
cleanup itself: that is what `LeftoversCollectable` says.

## 4. Fairness

* Coordinator: a hook that was called returns and its thread goes on
  (`callback_batch_run` has no wait); the supervisor reports each cancelled job.
  Nobody is assumed to connect, leave or unsubscribe.
* Cohort: a process that runs takes its next own step (weak fairness).  Strong
  fairness only for `EnterAdmission`: the code retries the admission file with
  jittered pauses, so it hits one of the infinitely many free moments, and for a
  participant without a monitor to leave in the end (a bootstrap does, a daemon
  is stopped by the quiesce callback).  Deadlines are not assumed to pass, so the
  properties hold without them.  Nothing is assumed about `ReserveIntent`: the
  exclusive try on the maintenance file competes with overlapping shared ones
  and can starve; only its deadline bounds it, and `IntentDecided` starts after it.
* Registry: a thread inside a call takes its next own step (weak fairness).  The
  native tries get strong fairness because they are repeated every millisecond
  until they succeed.  Of the two parts of `EveryWaitAnswered`, `CancelAnswered`
  assumes no more; deadlines are not assumed to pass.  `AcquireAnswered` assumes in
  addition `LeasesEnd`, that callers release what they got.  `MaxCalls` carries weight here: overlapping
  writers share the turn and may keep a reader out for ever, which is the
  preference the header announces.
* Project leases: as in the registry, and weak fairness of `RoundEnds`, because
  every round has a deadline of 100 ms.  That is needed: an operation that holds
  one project and wants a second meets a "*" that waits for the first and keeps
  the turn; only the end of a round lets it through.
* Watcher: the polling thread and the job's thread take their next step (weak
  fairness): `watcher_thread_main` polls until it is stopped, a worker ends.
  Edits, sessions, tools and root moves are not assumed to happen, and failures
  are bounded by `MaxFaults`: a daemon that refuses for ever indexes nothing.
* Application: no fairness.  Its waits are loops that poll under no deadline, so
  what may go wrong is a state in which everybody waits.  Two invariants exclude
  it.  `NobodyStuck`: unless all is settled, some thread runs, which means that it
  is at a place of its code where it waits for nobody, or where what it waits for
  has come (`SomebodyRuns`).  `RunnersRun`: a thread that runs in this sense has a
  step to take (`ENABLED DaemonStep`), so the first is no mere reading of places.
* Generations: no fairness.  Every loop of a client ends at a deadline, and a
  cleanup that refuses does so for ever, which `LeftoversCollectable` says as an
  invariant.

## 5. Proofs

Each proof module proves, for all values of the constants and from the named
assumption of its component alone, the theorems that `PROJECT.json` lists.  A
step lemma has one step per action; the theorems combine the lemmas.

**`DaemonCoordinatorProofs`** (`CoordinatorAssumption`: the limits are natural
numbers).  `IInv` is `TypeOK`, `Exact` and `Hooked`.  `Exact` is
`SubscriptionsExact` with `IdsIssued`: ids above the last one name nothing, so a
new object overwrites none and a new handle is unique.  `Hooked` says which hooks
are owed: a job has `cancel_hook_inflight` exactly while a hook is owed for it,
and is then cancelled and unfreed (`CancelOwed`); the released watches are those
with a hook owed (`ReleaseOwed`); a hook is owed once for an object, and
`callback_count` is their number (`OwedOnce`).  `NoUseAfterFree` alone is not
inductive: that a job is not freed under its hook depends on the flag, and that
the flag belongs to one hook depends on a job being cancelled once.  A release,
an expired lease and an unsubscribe are one argument, `FewerExact` and
`BatchIsNew`: what loses its last subscription is what the batch is about, and
nothing was owed for it.  The last theorem is about one step: the unsigned
subtraction of the lease sweep does not wrap behind its guard.

**`VersionCohortProofs`** (`CohortAssumption`: participants and mutators are
disjoint, the markers are no builds).  None of the safety properties is
inductive: whether a record is readable depends on who holds which lock at which
line.  `IInv` has four parts: `TypeOK`; `Exclusion`, an exclusive lock of any
file is alone on it; `Layout`, what each process holds follows from its `pc`;
and `Knowledge`, what a holder may conclude about the record and about the
others: a claimer is alone in admission, the record is complete whenever
somebody holds the shared lifetime lock outside admission, all its holders share
its build.  `AdmissionImplemented` maps each step to a step of the abstract
specification or to a stutter.

**`LockRegistryProofs`** (`RegistryAssumption`: each thread has a process).
`NativeInv` speaks of the native files, `pc` and `mode` only: their types,
`NativeExclusion`, and `NativeLayout`, which files a thread holds by its place.
From it follow that a reader never passes a waiting writer and that the registry
implements `ReadWriteLock`.  Neither the counters nor the queue are used, so
mutual exclusion does not depend on them: within a process they only order the
threads.  What they do guarantee rests on `RegistryInv`: `QueueExact`, a queue
holds the threads of its process that are at a place of the queue, each once;
`AttemptExact`, an attempt belongs to the first of them; `CountsExact`, the
counters are the numbers of the readers and of the cleanups under way, and
`writing` means exactly one writer; `FreedUnused`, nobody is inside a freed
registry.  `FirstComeFirstServed` needs the first two, since a waiter may leave
from the middle of the queue while the first one is between two native tries.
`NothingLeftBehind` needs the third: that a counter is zero when the last thread
leaves is not visible from the queue, and the failure paths settle it in several
steps.  Waiters leave through `Without`, a subsequence given by an index and not by
recursion, so that its elements, their order and its length are lemmas.

**`ProjectMutationProofs`** (`MutationAssumption`: folding and order of names).
`IInv` is `TypeOK`, `Layout` (which parts of its current lease a worker holds),
`SetExclusion` and `KeyExclusion`.  `SetExclusion` is needed because a worker
holds the set through complete leases and through the current one, and the two
change hands in `RecordLease` and `BeginRelease`.  The refinement of `ProjectLeases`
needs `StarAlone` besides, about what an operation still wants as well as what it
holds: nothing in the locks keeps a worker from locking the set exclusively above
its own keys, only the way requests are made does.  Four actions change the table
(`TakeKeyOwns`, `TakeSetOwnsAll`, `ReleaseDisowns`, `CrashDies`); that the others do
not (`TableSteps`) is the point of a lease changing from current to complete and back.

**`DaemonApplicationProofs`** (`ConstantsAssumption`: sessions and their
requests, the limits).  The proof has four parts.  In the first, `IInv` is `TypeOK`; `Shaped`, what a job's thread says of
its flags, its project and its attempts; `Limited`, one active job per project
and no more than the limit; `Excluded`, who owns a lock has reserved, reservations
do not conflict, and no reservation conflicts with a job whose worker may run;
`Drained`, what a shutdown has taken away.  `Excluded` is stronger than the
property: it includes the jobs whose attempt has ended, which may start a further
one without looking at the mutations again.  Most steps change job objects only in
counters and flags or free finished ones (`Kept`), a subscription may link one new
job (`Grown`); the first lemmas show which operator does which, `CalmStep` that
such steps keep the invariant, and only `MutationReserve`, `JobWait`,
`ShutdownBegin` and `ShutdownDone` need an argument of their own.  The reservation
and the start of a worker are the two sides of the exclusion: each looks at what
the other left under the same mutex.

The second part is `RegInv`, who wants a job, and rests on `IInv`.  `Kempt` says of
the sessions, the jobs and the owners of the watcher's jobs: `Counted`, the counter
of a job is the cardinality of its references, a job without any is being
cancelled or has ended, and one that is referred to is not freed; `Rightful`,
owners watch the job's project; `OneNewcomer`, all its watchers but one are owners;
`AutoAtHome`, an auto-index job belongs to the session's project.  `Posted` and
`Awaited` relate the places of the threads to these registers: a session that is
detached refers to nothing but the job its disconnect joins, and the watcher's flag
is set exactly while its thread waits.  `ReferencesExact` alone is not inductive: a
session initializes when it has no watch and no job, which only `Posted` knows, and
that a publication takes the right number of references away depends on
`AutoAtHome`.  `Kempt` is an operator on a state of the objects and not a state
predicate, because most critical sections change them several times: a disconnect
releases the request's job, then the auto-index job, which it may join, then
the watch and its ownerships, and may free and start jobs besides.  The lemmas say
what one release (`DroppedKempt`), one exchange (`ExchangedKempt`), one subscription
(`SubscribedKempt`), a refresh of the watches (`Refreshed`) or a freeing of finished
jobs (`ReapedKempt`) does to registers that agree, and the steps of the model are
chains of them.  Each lemma for an action also shows `Spares`, that it cancels no
job to which somebody refers, and `Takes`, that a session that joins a watch becomes
an owner; these two are `NeededWorkContinues`.

The third part is `NobodyIsEverStuck`, that the waits of the layer never close a
circle.  A request waits for its job's thread, a job for the mutations of its
project, a mutation for the jobs it has cancelled, a disconnect for the job it
joins, the watcher for its job, a shutdown for everything.  If nobody runs, no
mutation is reserved, since its owner would run; so no job waits, so none is active,
and nobody waits for one (`WaitsEnd`).  That last step, and that a drained daemon
finds every counter at zero, is where the registers of the second part are used.
What they do not say is `WaitInv`: a request in progress has its thread at work and
the job it waits for is the session's, a pending auto-index without a job has an
active job or a running retry that will come back to it (`RetryDue`), and watches
own only a job the watcher waits for.  `RetryDue` is the delicate part, because a
retry loop visits sessions one by one and every job that it finds busy must itself
lead to another retry: `Lasting` says that an active job stays active until its own
thread publishes, which starts one.

The fourth part is `SharedWorkImplemented`.  Each step of `SharedWork` is a change of
needs and cancellations together with a change of places, and so is the proof.
`NeedsStep`: a job is cancelled after a step exactly if it was cancelled before, or
nobody needs it, or the daemon stops.  From left to right this is `Spares`; from right
to left it takes `Onward`, that no step takes a cancellation back or gives a job's
project to another object while it is active, and `CancelInv`, that a job which a disconnect joins
is cancelled, and every job once the daemon stops: what the counters cannot say,
since the disconnect's reference keeps the counter above zero.  `Fresh` is the case
that a test would hardly find: an object that is linked again for a new job must bring
neither a reference nor a cancellation from its former life.  `Changes`: a step of a
job's thread moves that job alone (`OneMoves`), every other step moves none and links
at most one (`NewPlaces`), while fewer projects are busy than the limit
(`BusyFinite`); only the steps of a mutation change a reservation
(`RestUndisturbed`).

**`DaemonGenerationProofs`** (`ConstantsAssumption`: clients, daemons and the
markers are different things, and no marker is a record).  `IInv` is `TypeOK`; `Locked`, a process is at a
place of its code only while it holds that place's locks; `Apart`, a legacy daemon
has the stable name and never the anchor's; `Laid`, what a daemon has laid down
when it is at a place; `Completing`, what a cleanup has of the marker it completes.
`ListenersReachable` alone is not inductive: that the marker is right when it is
linked depends on what was written before the link, and that nobody interfered in
between on the reservation.  `HolderAlone` and `CleanerAlone` are that argument,
once for the daemon and once for the cleanup, and each step needs to show only what
its own process has done.  `LeftoversAlwaysCollectable` rests on a second invariant,
`Layout`: `Shape`, which files can lie side by side in any state, whoever was killed;
`Bare` and `Collected`, what a running daemon or cleanup knows to be absent.  It
covers what no instance does, kills of any number of generations and cleanups.

**`ProjectWatcherProofs`** (`ConstantsAssumption`: the bounds are natural numbers).
`IInv` is `TypeOK`; `Agree`, the two tables with at most one registered object;
`Ordered`, every stamp that was observed belongs to an edit that has been made;
`Separate`, a reservation keeps workers out; and `Observed`, the point of the
argument: a tree that a job has read after the observation, if it agrees with what
would be committed, is the tree.  An edit makes the premise of `Observed` false,
because its stamp is larger than everything `Ordered` admits.  `Observed` holds only
if the watcher's job is always a new one, so `NothingIsLost` assumes that the tools
index with other options than the watcher's; `watcher_lost` is the counterexample
without this.  `TablesAlwaysAgree` and `PrunesAlwaysSpare` need no such assumption.

**`ActivationTransactionProofs`** (no assumption: the module has no parameter).
TLC explores this module whole; the proof says why the properties hold, and which
flag or sync each of them needs.  `IInv` is `TypeOK`; `Placed`, which call runs at
which place and for which action; `Flagged`, `staged_exists` and `backup_exists` tell
what is in the directory, and `backup_contains_target` whose file the backup is;
`Prepared`, what was synced before the target is replaced; `Targeted`, what the
target can be, now and after a power loss, at each place; `Spared`, where the foreign
file lies, or that it is lost; `Overlooked`, that where the target is not looked at any
more a foreign file can only have come since; `OldOrNew` and `AnswersAreTrue`
themselves.  A change is described name by name (`Alters`), for the directory and for
all that a power loss may leave.
`ReplaceTarget` keeps the original because `SyncBackup` came before it, which is
`Prepared`, and `UnlinkOld` may remove it because `SyncCommit` did, which is
`Targeted`; with either sync left out the proof of that step fails.
`OldIsKept` shows that no other step removes the last name of the original, and
`WhoTakesForeign` that `ReplaceTarget`, `RestoreTarget` and `RemovePublished` are the
only steps that take a foreign file away.  Each of them really does: without any of the
places that `CameAfterTheCheck` lists, TLC refutes `ForeignSurvives`.

Only model-checked: liveness (`StoppingLeadsToExit`, `EverybodyDecided`,
`EveryWaitAnswered`, `OperationEnds`, `DeltaIndexed`), for which the prover has no
rule of fairness, and `RunnersRun`, which speaks of `ENABLED`.

## 6. Findings

* `activation_recovery`: `activation_transaction.h` says that after a failure
  "paths and rollback can be retried".  If a publication fails after the backup
  was linked and the link cannot be removed, the backup has two links, which
  `activation_rollback_internal` never accepts: every retry fails, although the
  target was not changed.
* `watcher_lost`: `poll_project` promises that a change during an index is "never
  lost", since it commits what it observed before the index.  In the daemon that
  index may be a job of equal options that already runs and read the tree before
  the observed change; the change is then committed as indexed.
* `watcher_documents`: `check_changes` compares the plain signature of the tree
  with a committed one into which the documents were folded.  With documents
  attached every poll indexes an unchanged tree, against "once per DISTINCT dirty
  state".

Observations without a run.  A rollback of `activation_transaction.c` passes
`target_exists` to `activation_rename` as `replace_destination`, so it means to refuse
a target that appeared since it looked; on POSIX the argument is ignored (1188) and
the file is replaced, although the publication of an absent target uses
`RENAME_NOREPLACE` or a link against exactly that.  The coordinator's hooks carry a
project key and run without the mutex, so a late one may hit the successor of its
object: latent, since only tests install hooks today.  `version_cohort.h` says "REFUSED leaves
active work untouched", but the maintenance file is taken before the quiesce
callback is asked, and a monitor that saw it ends its process whatever the answer.
`version_cohort.h` says that the daemon claim is taken "after taking the stable
daemon lifetime reservation"; `host.c` takes it before.  A client's probe of the
daemon claim looks busy to another client, which then waits for a daemon that
nobody launches; and a client that gives up at its deadline after it has spawned
frees the startup lock, so a second daemon may be launched, which ends at the claim.
`application_watch_job_subscribe_late_session_locked` is there because otherwise
"closing the pre-existing owners can cancel the physical worker while this late
session still expects the shared watch to remain live", but it is called only for a
watch that exists.  If all owners left while an index request keeps the watcher's job,
the next session makes the watch anew (`application.c:478`) and becomes no owner; a
cancelled request then ends the job under it.  The next poll indexes again, so
nothing is lost but the work.  It takes three sessions of a project; `OwnersWatch`
states how far the rule goes, at most one such newcomer, and is proved.

## 7. Not modelled, and the plan

Left out of what is modelled: of the application, the forced termination of
workers at the shutdown's deadline, the index calls of the user interface, the
generation of update notices; of the watcher, the adaptive interval, several
projects in one poll, the stop flag, the failure to defer an object, edits that
restore an earlier tree, a commit between an index and the first baseline (it is
adopted without an index), and a root that vanishes between `root_status` and
the first `stat`.

Some failures are left out because the same states are reached by another way, or
nothing a property speaks of depends on them.  Of the cohort: a failing downgrade,
settle, compare, payload read or release.  Of the application: failures that leave a
session without a watch, a contained failure that ends a job without another
attempt, the ten seconds after which a disconnect terminates the job it waits for,
and the timeout answer of shutdown.  Of the watcher: a prune that removes the
database and fails at its WAL, and a `rev-parse` that fails under a present root.  Of
generations: a failing guard join of the daemon, a failure after the temporary name
is cleared, and a legacy daemon that is killed.

Of generations, too: an operation of a rollback that fails in its turn other than the
removal of the socket, the transition and seal files that local endpoints keep in
addition, the activation's view of a generation (`presence`), Windows.  Of the
connections themselves, framing, authentication and the hello exchange.

Next, in this order:

1. Connections, workers and admission of `runtime.c`, composed with
   `DaemonApplication` and `DaemonGeneration`.
2. Index supervisor and its quarantine, the pipeline's worker pool and the
   replacement of the database.

Most of the tree is outside any such plan.  Generated grammars and library
tables, vendored SQLite and compressors make up the bulk of its lines; parsers,
extractors, queries, configuration editors and rendering are sequential functions
over large data, better served by tests and fuzzing.
