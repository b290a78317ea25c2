--------------------------- MODULE VersionCohort ---------------------------
(***************************************************************************)
(* Crash-safe exact-build admission across processes,                      *)
(* src/daemon/version_cohort.c, with the maintenance monitor of            *)
(* src/daemon/frontend.c and the activation barrier of src/cli/cli.c.      *)
(*                                                                         *)
(* Everything is decided by native file locks (flock): shared or           *)
(* exclusive, owned by an open file, dropped by the kernel when the        *)
(* process dies.  A try is one step; lock_until is a step that waits until *)
(* the lock can be granted, or gives up at a deadline.  The lifetime file  *)
(* also carries a record of the cohort's build, written under the          *)
(* exclusive lock; a write that stops half-way leaves it torn.             *)
(*                                                                         *)
(* Everybody takes the files in the order maintenance, admission,          *)
(* lifetime, startup.                                                      *)
(***************************************************************************)
EXTENDS FiniteSets

CONSTANTS
  Participants,   \* processes that call pmm_version_cohort_acquire
  Monitored,      \* those that run a maintenance monitor thread
  Mutators,       \* processes that reserve the cohort for a mutation
  Builds,         \* build identities
  NoBuild,        \* the record of a fresh file; a process without a request
  Torn            \* a record that does not decode

ASSUME CohortAssumption ==
  /\ Monitored \subseteq Participants
  /\ Participants \cap Mutators = {}
  /\ NoBuild \notin Builds
  /\ Torn \notin Builds \cup {NoBuild}

VARIABLES
  lock,       \* lock[file][process]: the mode its lease or transition holds
  pc,         \* where a process is in its call
  build,      \* the identity a participant asks for
  record,     \* the payload of the lifetime file
  probing,    \* participants whose monitor holds its observer lock
  noticed,    \* participants whose monitor has seen maintenance
  status      \* the failure a call is about to report, or has reported

vars == <<lock, pc, build, record, probing, noticed, status>>
-----------------------------------------------------------------------------
Process == Participants \cup Mutators
File    == {"maintenance", "admission", "lifetime", "startup"}
Mode    == {"none", "SH", "EX"}

Acquiring == {"admission", "probe", "claim", "write", "downgrade", "reopen",
              "join", "compare", "retry", "settle"}
Reserving == {"intent", "admission", "probe", "quiesce", "drain"}

ParticipantPc == Acquiring \cup {"out", "in", "cleanup"}
MutatorPc     == Reserving \cup {"out", "own", "mutate", "cleanup"}
Status        == {"NONE", "CONFLICT", "BUSY", "REFUSED", "UNSAFE", "IO"}

(* pmm_private_file_lock_try_acquire would not answer BUSY.  The observer  *)
(* lock of a monitor is a shared one on the maintenance file.              *)
Grantable(file, me, mode) ==
  /\ \A q \in Process \ {me} :
       IF mode = "SH" THEN lock[file][q] # "EX" ELSE lock[file][q] = "none"
  /\ file = "maintenance" /\ mode = "EX" => probing = {}

Take(file, me, mode) == lock' = [lock EXCEPT ![file][me] = mode]

Goto(me, where) == pc' = [pc EXCEPT ![me] = where]

(* version_cohort_failed: the call goes on to release what it holds.       *)
Fail(me, why) ==
  /\ Goto(me, "cleanup")
  /\ status' = [status EXCEPT ![me] = why]

observerVars == <<probing, noticed>>
-----------------------------------------------------------------------------
Init ==
  /\ lock = [f \in File |-> [q \in Process |-> "none"]]
  /\ pc = [q \in Process |-> "out"]
  /\ build = [p \in Participants |-> NoBuild]
  /\ record = NoBuild
  /\ probing = {}
  /\ noticed = {}
  /\ status = [q \in Process |-> "NONE"]
-----------------------------------------------------------------------------
(* pmm_version_cohort_acquire, one action per lock operation.              *)

(* Variant: the gate is only looked at.                                    *)
EnterGateUnlocked(p, b) ==
  /\ pc[p] = "out"
  /\ Grantable("maintenance", p, "SH")
  /\ build' = [build EXCEPT ![p] = b]
  /\ status' = [status EXCEPT ![p] = "NONE"]
  /\ Goto(p, "admission")
  /\ UNCHANGED <<lock, record, observerVars>>

(* The maintenance gate is tried once.  A participant that finds it taken  *)
(* reports BUSY with nothing held, which leaves no trace.                  *)
EnterGate(p, b) ==
  /\ pc[p] = "out"
  /\ Grantable("maintenance", p, "SH")
  /\ Take("maintenance", p, "SH")
  /\ build' = [build EXCEPT ![p] = b]
  /\ status' = [status EXCEPT ![p] = "NONE"]
  /\ Goto(p, "admission")
  /\ UNCHANGED <<record, observerVars>>

EnterAdmission(q) ==
  /\ pc[q] = "admission"
  /\ Grantable("admission", q, "EX")
  /\ Take("admission", q, "EX")
  /\ Goto(q, "probe")
  /\ UNCHANGED <<build, record, observerVars, status>>

ProbeLifetime(p) ==
  /\ p \in Participants
  /\ pc[p] = "probe"
  /\ IF Grantable("lifetime", p, "EX")
       THEN Take("lifetime", p, "EX") /\ Goto(p, "claim")
       ELSE UNCHANGED lock /\ Goto(p, "join")
  /\ UNCHANGED <<build, record, observerVars, status>>

(* version_cohort_claim_new: the record is truncated and written under the *)
(* exclusive lock, then the lock is exchanged for a shared one.            *)
BeginRecord(p) ==
  /\ pc[p] = "claim"
  /\ record' = Torn
  /\ Goto(p, "write")
  /\ UNCHANGED <<lock, build, observerVars, status>>

EndRecord(p) ==
  /\ pc[p] = "write"
  /\ record' = build[p]
  /\ Goto(p, "downgrade")
  /\ UNCHANGED <<lock, build, observerVars, status>>

RecordFails(p) ==
  /\ pc[p] \in {"claim", "write"}
  /\ Fail(p, "IO")
  /\ UNCHANGED <<lock, build, record, observerVars>>

(* Variant: admission ends together with the exclusive lock.               *)
ReleaseClaimEarly(p) ==
  /\ pc[p] = "downgrade"
  /\ lock' = [lock EXCEPT !["lifetime"][p] = "none", !["admission"][p] = "none"]
  /\ Goto(p, "reopen")
  /\ UNCHANGED <<build, record, observerVars, status>>

ReleaseClaim(p) ==
  /\ pc[p] = "downgrade"
  /\ Take("lifetime", p, "none")
  /\ Goto(p, "reopen")
  /\ UNCHANGED <<build, record, observerVars, status>>

ReopenShared(p) ==
  /\ pc[p] = "reopen"
  /\ Grantable("lifetime", p, "SH")
  /\ Take("lifetime", p, "SH")
  /\ Goto(p, "settle")
  /\ UNCHANGED <<build, record, observerVars, status>>

JoinLifetime(p) ==
  /\ pc[p] = "join"
  /\ IF Grantable("lifetime", p, "SH")
       THEN /\ Take("lifetime", p, "SH")
            /\ Goto(p, "compare")
            /\ UNCHANGED status
       ELSE /\ UNCHANGED lock
            /\ Fail(p, "BUSY")
  /\ UNCHANGED <<build, record, observerVars>>

(* Variant: any record that decodes is accepted.                           *)
CompatibleAny(p) == record \in Builds

(* pmm_daemon_hello_compare and the cache fingerprint.                     *)
Compatible(p) == record = build[p]

(* The shared holder reads the record.  It joins its own build; a record   *)
(* that does not decode is UNSAFE; before another build is a conflict, the *)
(* shared lock is given back for one more exclusive try.                   *)
CompareRecord(p) ==
  /\ pc[p] = "compare"
  /\ IF record \notin Builds
       THEN Fail(p, "UNSAFE") /\ UNCHANGED lock
       ELSE /\ UNCHANGED status
            /\ IF Compatible(p)
                 THEN Goto(p, "settle") /\ UNCHANGED lock
                 ELSE Goto(p, "retry") /\ Take("lifetime", p, "none")
  /\ UNCHANGED <<build, record, observerVars>>

(* Variant: the other build is assumed to be still active.                 *)
RetryClaimNever(p) ==
  /\ pc[p] = "retry"
  /\ Fail(p, "CONFLICT")
  /\ UNCHANGED <<lock, build, record, observerVars>>

RetryClaim(p) ==
  /\ pc[p] = "retry"
  /\ IF Grantable("lifetime", p, "EX")
       THEN /\ Take("lifetime", p, "EX")
            /\ Goto(p, "claim")
            /\ UNCHANGED status
       ELSE /\ UNCHANGED lock
            /\ Fail(p, "CONFLICT")
  /\ UNCHANGED <<build, record, observerVars>>

(* Admission is released first, then the gate; the shared lifetime lock    *)
(* stays.                                                                  *)
EndAdmission(p) ==
  /\ pc[p] = "settle"
  /\ lock["admission"][p] = "EX"
  /\ Take("admission", p, "none")
  /\ UNCHANGED <<pc, build, record, observerVars, status>>

LeaveGate(p) ==
  /\ pc[p] = "settle"
  /\ lock["admission"][p] = "none"
  /\ Take("maintenance", p, "none")
  /\ Goto(p, "in")
  /\ UNCHANGED <<build, record, observerVars, status>>
-----------------------------------------------------------------------------
(* An admitted participant.  A bootstrap or a local command takes the      *)
(* startup lock while it holds its lease, and gives it back before.        *)
EnterStartup(p) ==
  /\ pc[p] = "in"
  /\ lock["startup"][p] = "none"
  /\ Grantable("startup", p, "EX")
  /\ Take("startup", p, "EX")
  /\ UNCHANGED <<pc, build, record, observerVars, status>>

LeaveStartup(p) ==
  /\ pc[p] = "in"
  /\ lock["startup"][p] = "EX"
  /\ Take("startup", p, "none")
  /\ UNCHANGED <<pc, build, record, observerVars, status>>

(* The monitor thread is joined and the startup lock released before the   *)
(* lease is.                                                               *)
MayRelease(p) ==
  /\ pc[p] = "in"
  /\ p \notin probing
  /\ lock["startup"][p] = "none"

ReleaseLease(p) ==
  /\ MayRelease(p)
  /\ Goto(p, "cleanup")
  /\ noticed' = noticed \ {p}
  /\ UNCHANGED <<lock, build, record, probing, status>>

(* frontend_maintenance_monitor_worker: a shared try on the gate, then the *)
(* observer lock is released at once; BUSY means that maintenance is       *)
(* requested.                                                              *)
MonitorProbe(p) ==
  /\ p \in Monitored
  /\ pc[p] = "in"
  /\ p \notin probing \cup noticed
  /\ Grantable("maintenance", p, "SH")
  /\ probing' = probing \cup {p}
  /\ UNCHANGED <<lock, pc, build, record, noticed, status>>

MonitorRelease(p) ==
  /\ p \in probing
  /\ probing' = probing \ {p}
  /\ UNCHANGED <<lock, pc, build, record, noticed, status>>

(* Variant: a busy gate is taken for an absent one.                        *)
MonitorNoticesNothing(p) ==
  /\ p \in Monitored
  /\ pc[p] = "in"
  /\ ~Grantable("maintenance", p, "SH")
  /\ UNCHANGED vars

MonitorNotices(p) ==
  /\ p \in Monitored
  /\ pc[p] = "in"
  /\ p \notin probing \cup noticed
  /\ ~Grantable("maintenance", p, "SH")
  /\ noticed' = noticed \cup {p}
  /\ UNCHANGED <<lock, pc, build, record, probing, status>>

(* What the kernel does when a process ends.                               *)
ProcessEnds(q) ==
  /\ lock' = [f \in File |-> [lock[f] EXCEPT ![q] = "none"]]
  /\ Goto(q, "out")
  /\ probing' = probing \ {q}
  /\ noticed' = noticed \ {q}

(* The grace period is over and the lease is still there: _Exit.           *)
MaintenanceExit(p) ==
  /\ p \in noticed
  /\ ProcessEnds(p)
  /\ UNCHANGED <<build, record, status>>

(* A process is killed, in the middle of anything.                         *)
Crash(q) ==
  /\ pc[q] # "out"
  /\ ProcessEnds(q)
  /\ status' = [status EXCEPT ![q] = "NONE"]
  /\ UNCHANGED <<build, record>>
-----------------------------------------------------------------------------
(* pmm_version_cohort_reserve_for_mutation.                                *)
BeginReserve(m) ==
  /\ pc[m] = "out"
  /\ status' = [status EXCEPT ![m] = "NONE"]
  /\ Goto(m, "intent")
  /\ UNCHANGED <<lock, build, record, observerVars>>

ReserveIntent(m) ==
  /\ pc[m] = "intent"
  /\ Grantable("maintenance", m, "EX")
  /\ Take("maintenance", m, "EX")
  /\ Goto(m, "admission")
  /\ UNCHANGED <<build, record, observerVars, status>>

ReserveProbe(m) ==
  /\ m \in Mutators
  /\ pc[m] = "probe"
  /\ IF Grantable("lifetime", m, "EX")
       THEN Take("lifetime", m, "EX") /\ Goto(m, "own")
       ELSE UNCHANGED lock /\ Goto(m, "quiesce")
  /\ UNCHANGED <<build, record, observerVars, status>>

(* The callback asks the participants to stop, or cannot; a reservation    *)
(* without a callback is refused.                                          *)
QuiesceRequested(m) ==
  /\ pc[m] = "quiesce"
  /\ Goto(m, "drain")
  /\ UNCHANGED <<lock, build, record, observerVars, status>>

QuiesceFails(m) ==
  /\ pc[m] = "quiesce"
  /\ \E why \in {"REFUSED", "IO"} : Fail(m, why)
  /\ UNCHANGED <<lock, build, record, observerVars>>

(* Variant: a request to stop counts as having stopped.                    *)
DrainedAtOnce(m) ==
  /\ pc[m] = "drain"
  /\ Take("lifetime", m, "EX")
  /\ Goto(m, "own")
  /\ UNCHANGED <<build, record, observerVars, status>>

Drained(m) ==
  /\ pc[m] = "drain"
  /\ Grantable("lifetime", m, "EX")
  /\ Take("lifetime", m, "EX")
  /\ Goto(m, "own")
  /\ UNCHANGED <<build, record, observerVars, status>>

(* cli_activation_production_reserve: the startup lock comes last.         *)
OwnStartup(m) ==
  /\ pc[m] = "own"
  /\ Grantable("startup", m, "EX")
  /\ Take("startup", m, "EX")
  /\ Goto(m, "mutate")
  /\ UNCHANGED <<build, record, observerVars, status>>

EndMutation(m) ==
  /\ pc[m] = "mutate"
  /\ Take("startup", m, "none")
  /\ Goto(m, "cleanup")
  /\ UNCHANGED <<build, record, observerVars, status>>

(* version_cohort_lock_until at its deadline.                              *)
GiveUp(q) ==
  /\ pc[q] \in {"intent", "admission", "reopen", "drain", "own"}
  /\ Fail(q, "BUSY")
  /\ UNCHANGED <<lock, build, record, observerVars>>

(* A native lock operation fails.                                          *)
LockFails(q) ==
  /\ pc[q] \in {"intent", "admission", "probe", "join", "retry", "reopen",
                "drain", "own"}
  /\ Fail(q, "IO")
  /\ UNCHANGED <<lock, build, record, observerVars>>

(* Variant: the files are released in the order in which they were taken.  *)
NextToReleaseForward(q) ==
  {f \in File : /\ lock[f][q] # "none"
                /\ f = "admission" => lock["maintenance"][q] = "none"
                /\ f = "lifetime" => /\ lock["maintenance"][q] = "none"
                                     /\ lock["admission"][q] = "none"}

(* pmm_version_cohort_lease_release: lifetime, admission, maintenance.     *)
NextToRelease(q) ==
  {f \in File : /\ lock[f][q] # "none"
                /\ f = "admission" => lock["lifetime"][q] = "none"
                /\ f = "maintenance" => /\ lock["lifetime"][q] = "none"
                                        /\ lock["admission"][q] = "none"}

ReleaseOne(q) ==
  /\ pc[q] = "cleanup"
  /\ \E f \in NextToRelease(q) : Take(f, q, "none")
  /\ UNCHANGED <<pc, build, record, observerVars, status>>

EndCleanup(q) ==
  /\ pc[q] = "cleanup"
  /\ NextToRelease(q) = {}
  /\ Goto(q, "out")
  /\ UNCHANGED <<lock, build, record, observerVars, status>>
-----------------------------------------------------------------------------
Next ==
  \/ \E p \in Participants, b \in Builds : EnterGate(p, b)
  \/ \E q \in Process : EnterAdmission(q)
  \/ \E p \in Participants : ProbeLifetime(p)
  \/ \E p \in Participants : BeginRecord(p)
  \/ \E p \in Participants : EndRecord(p)
  \/ \E p \in Participants : RecordFails(p)
  \/ \E p \in Participants : ReleaseClaim(p)
  \/ \E p \in Participants : ReopenShared(p)
  \/ \E p \in Participants : JoinLifetime(p)
  \/ \E p \in Participants : CompareRecord(p)
  \/ \E p \in Participants : RetryClaim(p)
  \/ \E p \in Participants : EndAdmission(p)
  \/ \E p \in Participants : LeaveGate(p)
  \/ \E p \in Participants : EnterStartup(p)
  \/ \E p \in Participants : LeaveStartup(p)
  \/ \E p \in Participants : ReleaseLease(p)
  \/ \E p \in Participants : MonitorProbe(p)
  \/ \E p \in Participants : MonitorRelease(p)
  \/ \E p \in Participants : MonitorNotices(p)
  \/ \E p \in Participants : MaintenanceExit(p)
  \/ \E q \in Process : Crash(q)
  \/ \E m \in Mutators : BeginReserve(m)
  \/ \E m \in Mutators : ReserveIntent(m)
  \/ \E m \in Mutators : ReserveProbe(m)
  \/ \E m \in Mutators : QuiesceRequested(m)
  \/ \E m \in Mutators : QuiesceFails(m)
  \/ \E m \in Mutators : Drained(m)
  \/ \E m \in Mutators : OwnStartup(m)
  \/ \E m \in Mutators : EndMutation(m)
  \/ \E q \in Process : GiveUp(q)
  \/ \E q \in Process : LockFails(q)
  \/ \E q \in Process : ReleaseOne(q)
  \/ \E q \in Process : EndCleanup(q)

Spec == Init /\ [][Next]_vars

(* The own steps of a process.                                             *)
AcquireStep(p) ==
  \/ ProbeLifetime(p) \/ BeginRecord(p) \/ EndRecord(p) \/ RecordFails(p)
  \/ ReleaseClaim(p) \/ ReopenShared(p) \/ JoinLifetime(p)
  \/ CompareRecord(p) \/ RetryClaim(p) \/ EndAdmission(p) \/ LeaveGate(p)
ReserveStep(m) ==
  \/ ReserveProbe(m) \/ QuiesceRequested(m) \/ QuiesceFails(m) \/ Drained(m)
  \/ OwnStartup(m) \/ EndMutation(m)
CleanupStep(q) == ReleaseOne(q) \/ EndCleanup(q)
MonitorStep(p) == MonitorRelease(p) \/ MonitorNotices(p)

(* A process keeps running, a jittered retry of the admission file hits a  *)
(* free moment sooner or later, a monitor keeps polling and ends its       *)
(* process, and a participant without a monitor (a bootstrap, or a daemon  *)
(* that was asked to stop) leaves by itself.  No deadline is assumed to    *)
(* pass, and nobody is assumed to crash.                                   *)
Fairness ==
  /\ \A p \in Participants : WF_vars(AcquireStep(p)) /\ WF_vars(LeaveStartup(p))
  /\ \A m \in Mutators : WF_vars(ReserveStep(m))
  /\ \A q \in Process : SF_vars(EnterAdmission(q)) /\ WF_vars(CleanupStep(q))
  /\ \A p \in Monitored : WF_vars(MonitorStep(p)) /\ WF_vars(MaintenanceExit(p))
  /\ \A p \in Participants \ Monitored : SF_vars(ReleaseLease(p))

FairSpec == Spec /\ Fairness
-----------------------------------------------------------------------------
(* The participants whose acquire has succeeded or can no longer fail.     *)
Active == {p \in Participants : pc[p] \in {"settle", "in"}}

(* The mutators that hold the whole barrier.                               *)
Owners == {m \in Mutators : pc[m] \in {"own", "mutate"}}

(* Types of all variables.                                                 *)
TypeOK ==
  /\ lock \in [File -> [Process -> Mode]]
  /\ pc \in [Process -> ParticipantPc \cup MutatorPc]
  /\ \A p \in Participants : pc[p] \in ParticipantPc
  /\ \A m \in Mutators : pc[m] \in MutatorPc
  /\ build \in [Participants -> Builds \cup {NoBuild}]
  /\ record \in Builds \cup {NoBuild, Torn}
  /\ probing \subseteq Monitored
  /\ noticed \subseteq Monitored
  /\ status \in [Process -> Status]

(* All active participants run the build of the lifetime record, whoever   *)
(* claimed, crashed, retried or left on the way.                           *)
ExactBuild == \A p \in Active : record = build[p]

(* A joiner never meets a record that does not decode, although a claimer  *)
(* may die or fail while it writes: UNSAFE would lock the account out.     *)
RecordReadable == \A p \in Participants : pc[p] = "compare" => record \in Builds

(* Inside admission the shared lifetime lock is there for the asking: a    *)
(* joiner that was refused the exclusive one gets it, and a claimer gets   *)
(* it back, so neither is told BUSY for a peer that is only passing by.    *)
LifetimeNeverWaits ==
  \A p \in Participants :
    pc[p] \in {"join", "reopen"} => Grantable("lifetime", p, "SH")

(* Whatever peers and their deaths have left behind, a participant inside  *)
(* admission is not turned away for it.                                    *)
JoinUnobstructed == RecordReadable /\ LifetimeNeverWaits

(* While the binary is mutated nobody is active, nobody is on the way in,  *)
(* and no other mutator owns the barrier.                                  *)
MutationExclusive ==
  \A m \in Owners :
    /\ Owners = {m}
    /\ \A p \in Participants : pc[p] \in {"out", "cleanup"}

(* The owner finds the startup lock free of participants: each of them     *)
(* gave it back before its lease, so taking it last cannot wait for one.   *)
StartupFreeForOwner ==
  \A m \in Owners, p \in Participants : lock["startup"][p] = "none"

(* A mutator that owns the barrier owns the account and every lock it is   *)
(* still going to take.                                                    *)
OwnerUnobstructed == MutationExclusive /\ StartupFreeForOwner

(* Nothing that others do, or leave behind when they die or fail, is in    *)
(* the way of a participant inside admission or of a mutation.             *)
Unobstructed == JoinUnobstructed /\ OwnerUnobstructed

(* CONFLICT is reported only while a process of another build holds the    *)
(* cohort: a conflicting build that leaves during the check is not blamed. *)
ConflictIsReal ==
  [][\A p \in Participants :
       status[p] # "CONFLICT" /\ status'[p] = "CONFLICT" =>
         \E q \in Participants :
           lock["lifetime"][q] = "SH" /\ build[q] # build[p]]_vars

(* Exact-build admission, as version_cohort.h promises it.                 *)
Admission == INSTANCE ExactBuildAdmission WITH
  active <- Active,
  activeBuild <- {build[p] : p \in Active},
  mutating <- Owners

ImplementsAdmission == Admission!Spec

(* Every acquire comes to an end without any deadline: no lock order, no   *)
(* failed peer and no maintenance leaves it waiting for ever.              *)
AcquireDecided ==
  \A p \in Participants : (pc[p] \in Acquiring) ~> (pc[p] \in {"in", "out"})

(* Once maintenance is published, the reservation comes to an end without  *)
(* any deadline: admissions finish, and the participants leave.            *)
IntentDecided ==
  \A m \in Mutators :
    (pc[m] \in Reserving \ {"intent"}) ~> (pc[m] \notin Reserving)

(* No participant and no mutator waits for ever for the other.             *)
EverybodyDecided == AcquireDecided /\ IntentDecided
=============================================================================
