------------------------ MODULE ProjectWatcherProofs ------------------------
(***************************************************************************)
(* Theorems of ProjectWatcher for any sessions, edits and limits: the      *)
(* tables of the daemon and of the watcher agree, a prune is justified,    *)
(* and no observed change is lost while tools index with options of their  *)
(* own.                                                                    *)
(***************************************************************************)
EXTENDS ProjectWatcher, FiniteSetTheorems, TLAPS

(* The tables agree, and the polling thread's object is not freed.         *)
Agree ==
  /\ \A i, j \in Registered : i = j
  /\ poll.pc = "pruned" => Registered = {} /\ db = Nothing
  /\ poll.pc # "pruned" => (watching # {} <=> Registered # {})
  /\ poll.pc # "idle" => State.place # "free"

(* Whatever has been observed was stamped by an edit that has been made.   *)
Ordered ==
  /\ 1 <= tree.head /\ tree.head <= edits /\ tree.dirt <= edits
  /\ \A i \in States : obj[i].head <= edits
  /\ poll.head <= edits
  /\ poll.pc \in {"index", "call", "wait", "return"} => poll.sig <= Folded(edits)

(* A reservation keeps workers out; and if tools have options of their own *)
(* then only the watcher starts a job that it may join.                    *)
Separate ==
  /\ lease => job.phase # "read"
  /\ ToolOptions = "custom" /\ job.phase # "none" /\ job.options = "default" => job.watch

(* t was read after the poll has made its observation.                     *)
Committed == IF poll.head # 0 THEN poll.head ELSE State.head
Fresh(t) == Committed = tree.head /\ poll.sig = Folded(tree.dirt) => t = tree

Observed ==
  /\ poll.pc \in {"wait", "return"} /\ job.phase = "read" => Fresh(job.tree)
  /\ poll.pc = "return" /\ poll.rc = 0 => db = Nothing \/ Fresh(db)

IInv ==
  /\ TypeOK /\ Agree /\ Ordered /\ Separate
  /\ ToolOptions = "custom" => Observed

-----------------------------------------------------------------------------
(* The types of the objects, by name.                                      *)
ObjType == [place : {"free", "registered", "deferred"},
            streak : 0..DeleteAfter, baseline : BOOLEAN,
            git : BOOLEAN, head : Stamps, sig : Signatures]
PollPcs == {"idle", "root", "baseline", "head", "dirty", "index", "call",
            "wait", "return", "prune", "delete", "pruned", "unlock"}
PollType == [pc : PollPcs, snap : States, head : Stamps, sig : Signatures, rc : 0..2]
JobType == [phase : {"none", "queued", "read"}, tool : BOOLEAN, watch : BOOLEAN,
            options : {"default", "custom"}, cancel : BOOLEAN, tree : Trees \cup {Nothing}]

WorldType ==
  /\ root \in {"present", "missing", "uncertain"}
  /\ tree \in Trees /\ edits \in 1..MaxEdits /\ db \in Trees \cup {Nothing}
  /\ watching \subseteq Sessions
  /\ moves \in 0..MaxMoves /\ faults \in 0..MaxFaults
ObjectsType == obj \in [States -> ObjType]
PollerType ==
  /\ poll \in PollType
  /\ lease \in BOOLEAN /\ (lease <=> poll.pc \in {"delete", "pruned", "unlock"})
JobsType ==
  /\ job \in JobType
  /\ job.watch <=> poll.pc = "wait"
  /\ job.phase = "none" => job = NoJob

LEMMA TypeParts ==
  TypeOK <=> WorldType /\ ObjectsType /\ PollerType /\ JobsType
  BY DEF TypeOK, WorldType, ObjectsType, PollerType, JobsType, ObjType, PollType,
         PollPcs, JobType

LEMMA TypePrime ==
  ASSUME WorldType', ObjectsType', PollerType', JobsType'
  PROVE  TypeOK'
  BY DEF TypeOK, WorldType, ObjectsType, PollerType, JobsType, ObjType, PollType,
         PollPcs, JobType

LEMMA Constants ==
  /\ MaxState \in Nat \ {0} /\ DeleteAfter \in Nat \ {0}
  /\ MaxEdits \in Nat \ {0} /\ MaxMoves \in Nat /\ MaxFaults \in Nat
  /\ 0 \in Stamps /\ 0 \in Signatures /\ 1 \in States /\ 0 \in 0..DeleteAfter
  /\ ToolOptions \in {"default", "custom"}
  BY ConstantsAssumption DEF Stamps, Signatures, States

LEMMA FoldedType ==
  ASSUME NEW d \in Stamps
  PROVE  Folded(d) \in Signatures /\ Folded(d) \in Nat /\ \A e \in Stamps : d < e => Folded(d) < Folded(e)
  BY Constants, ConstantsAssumption DEF Folded, Stamps, Signatures

LEMMA Records ==
  NoState \in ObjType /\ NoJob \in JobType /\ Idle \in PollType
  BY Constants DEF NoState, NoJob, Idle, ObjType, JobType, PollType, PollPcs

LEMMA InitHolds == Init => IInv
<1> SUFFICES ASSUME Init PROVE IInv
  OBVIOUS
<1>1. TypeOK
  <2>1. WorldType
    BY Constants DEF Init, WorldType, Trees, Stamps
  <2>2. ObjectsType /\ PollerType /\ JobsType
    BY Records DEF Init, ObjectsType, PollerType, JobsType, Idle, NoJob
  <2> QED
    BY <2>1, <2>2, TypeParts
<1>2. Agree
  BY DEF Init, Agree, Registered, NoState, Idle
<1>3. Ordered
  BY Constants DEF Init, Ordered, NoState, Idle
<1>4. Separate /\ Observed
  BY DEF Init, Separate, Observed, NoJob, Idle
<1> QED
  BY <1>1, <1>2, <1>3, <1>4 DEF IInv

-----------------------------------------------------------------------------
(* Every step keeps the types.                                             *)
LEMMA UnwatchType ==
  ASSUME ObjectsType
  PROVE  Unwatch(obj) \in [States -> ObjType]
  BY DEF ObjectsType, Unwatch, ObjType

LEMMA WorldStepType ==
  ASSUME IInv, Edit \/ RootMove
  PROVE  TypeOK'
<1>0. WorldType /\ ObjectsType /\ PollerType /\ JobsType
  BY TypeParts DEF IInv
<1>1. WorldType'
  <2>1. CASE Edit
    <3>1. edits' \in 1..MaxEdits /\ edits' \in Stamps /\ 0 \in Stamps
      BY <2>1, <1>0, Constants DEF Edit, WorldType, Stamps
    <3>2. tree' \in Trees
      BY <2>1, <1>0, <3>1 DEF Edit, WorldType, Trees
    <3> QED
      BY <2>1, <1>0, <3>1, <3>2 DEF Edit, WorldType
  <2>2. CASE RootMove
    BY <2>2, <1>0, Constants DEF RootMove, WorldType
  <2> QED
    BY <2>1, <2>2
<1>2. ObjectsType' /\ PollerType' /\ JobsType'
  BY <1>0 DEF Edit, RootMove, ObjectsType, PollerType, JobsType
<1> QED
  BY <1>1, <1>2, TypePrime

LEMMA SessionStepType ==
  ASSUME IInv, NEW s \in Sessions, SessionRefresh(s) \/ SessionLeave(s)
  PROVE  TypeOK'
<1>0. WorldType /\ ObjectsType /\ PollerType /\ JobsType
  BY TypeParts DEF IInv
<1>1. WorldType' /\ PollerType' /\ UNCHANGED poll
  BY <1>0 DEF SessionRefresh, SessionLeave, WorldType, PollerType
<1>2. ObjectsType'
  <2>1. \/ obj' = Unwatch(obj) \/ obj' = obj
        \/ \E i \in States : obj' = [obj EXCEPT ![i].place = "registered"]
    BY DEF SessionRefresh, SessionLeave
  <2> QED
    BY <1>0, <2>1, UnwatchType DEF ObjectsType, ObjType
<1>3. JobsType'
  <2>1. job' = job \/ job' = JobDisowned
    BY DEF SessionRefresh, SessionLeave
  <2>2. /\ job' \in JobType /\ job'.watch = job.watch
        /\ (job'.phase = "none" => job' = NoJob)
    <3>1. CASE job' = job
      BY <1>0, <3>1 DEF JobsType
    <3>2. CASE job.watch /\ ~job.tool /\ job' = [job EXCEPT !.cancel = TRUE]
      <4>1. job.phase # "none"
        BY <1>0, <3>2 DEF JobsType, NoJob
      <4>2. job' \in JobType /\ job'.watch = job.watch /\ job'.phase = job.phase
        BY <1>0, <3>2 DEF JobsType, JobType
      <4> QED
        BY <4>1, <4>2
    <3>3. CASE job' = JobDisowned /\ ~(job.watch /\ ~job.tool)
      <4>1. job' = job
        BY <3>3, Zenon DEF JobDisowned
      <4> QED
        BY <3>1, <4>1
    <3>4. CASE job' = JobDisowned /\ job.watch /\ ~job.tool
      <4>1. job' = [job EXCEPT !.cancel = TRUE]
        BY <3>4, Zenon DEF JobDisowned
      <4> QED
        BY <3>2, <3>4, <4>1
    <3> QED
      BY <2>1, <3>1, <3>3, <3>4
  <2>3. job.watch <=> poll.pc = "wait"
    BY <1>0 DEF JobsType
  <2>4. job'.watch <=> poll'.pc = "wait"
    BY <1>1, <2>2, <2>3
  <2> QED
    BY <2>2, <2>4 DEF JobsType, JobType, Trees
<1> QED
  BY <1>1, <1>2, <1>3, TypePrime

LEMMA JobStepType ==
  ASSUME IInv, ToolIndex \/ ToolDelete \/ JobRead \/ JobEnd
  PROVE  TypeOK'
<1>0. WorldType /\ ObjectsType /\ PollerType /\ JobsType
  BY TypeParts DEF IInv
<1>1. CASE ToolIndex
  <2>1. JobsType'
    <3>1. poll' = poll
      BY <1>1 DEF ToolIndex
    <3>2. CASE job.phase = "none"
      <4>1. job = NoJob
        BY <1>0, <3>2 DEF JobsType
      <4>2. job' = [NoJob EXCEPT !.phase = "queued", !.tool = TRUE, !.options = ToolOptions]
        BY <1>1, <3>2 DEF ToolIndex
      <4>3. job' \in JobType /\ job'.watch = job.watch /\ job'.phase = "queued"
        BY <4>1, <4>2, Constants DEF NoJob, JobType
      <4> QED
        BY <1>0, <3>1, <4>3 DEF JobsType
    <3>3. CASE job.phase # "none"
      <4>1. job' = [job EXCEPT !.tool = TRUE]
        BY <1>1, <3>3 DEF ToolIndex
      <4>2. job' \in JobType /\ job'.watch = job.watch /\ job'.phase = job.phase
        BY <1>0, <4>1 DEF JobsType, JobType
      <4> QED
        BY <1>0, <3>1, <3>3, <4>2 DEF JobsType
    <3> QED
      BY <3>2, <3>3
  <2> QED
    BY <1>1, <1>0, <2>1, TypePrime DEF ToolIndex, WorldType, ObjectsType, PollerType
<1>2. CASE ToolDelete
  BY <1>2, <1>0, TypePrime DEF ToolDelete, WorldType, ObjectsType, PollerType, JobsType
<1>3. CASE JobRead
  <2>1. JobsType'
    BY <1>3, <1>0 DEF JobRead, JobsType, JobType, WorldType
  <2> QED
    BY <1>3, <1>0, <2>1, TypePrime DEF JobRead, WorldType, ObjectsType, PollerType
<1>4. CASE JobEnd
  <2>1. PICK rc \in 0..2 : JobOver(rc)
    BY <1>4 DEF JobEnd
  <2>2. UNCHANGED <<root, tree, edits, watching, obj, lease, moves>>
    BY <1>4 DEF JobEnd
  <2>3. db' \in Trees \cup {Nothing} /\ faults' \in 0..MaxFaults
    BY <1>4, <1>0, Constants DEF JobEnd, WorldType, JobsType, JobType, Fault
  <2>4. PollerType'
    BY <1>0, <2>1, <2>2 DEF PollerType, PollType, PollPcs, JobsType, JobType, JobOver
  <2>5. JobsType'
    BY <1>0, <2>1, Records DEF PollerType, PollType, PollPcs, JobsType, JobType, JobOver, NoJob
  <2> QED
    BY <1>0, <2>2, <2>3, <2>4, <2>5, TypePrime DEF WorldType, ObjectsType
<1> QED
  BY <1>1, <1>2, <1>3, <1>4

LEMMA PollStepType ==
  ASSUME IInv, Poller
  PROVE  TypeOK'
<1>0. /\ WorldType /\ ObjectsType /\ PollerType /\ JobsType
      /\ poll.snap \in States /\ State \in ObjType /\ 0 \in 0..DeleteAfter
      /\ tree.head \in Stamps /\ tree.dirt \in Stamps
      /\ Folded(tree.dirt) \in Signatures
  BY TypeParts, Constants, FoldedType
     DEF IInv, PollerType, PollType, ObjectsType, State, WorldType, Trees
<1>goto. ASSUME NEW pc \in PollPcs \ {"wait"}, Goto(pc), poll.pc # "wait",
                lease' \in BOOLEAN, lease' <=> pc \in {"delete", "pruned", "unlock"}
         PROVE  PollerType' /\ poll'.pc # "wait"
  BY <1>0, <1>goto DEF Goto, PollerType, PollType
<1>return. ASSUME Return, lease' = FALSE
           PROVE  PollerType' /\ poll'.pc # "wait"
  BY <1>0, <1>return, Records DEF Return, PollerType, PollType, Idle
<1>job. UNCHANGED job /\ poll.pc # "wait" /\ poll'.pc # "wait" => JobsType'
  BY <1>0 DEF JobsType
<1>world. UNCHANGED <<root, tree, edits, db, watching, moves>> /\ faults' \in 0..MaxFaults => WorldType'
  BY <1>0 DEF WorldType
<1>faults. UNCHANGED faults \/ Fault => faults' \in 0..MaxFaults
  BY <1>0, Constants DEF WorldType, Fault
<1>1. CASE PollBegin
  <2>1. ObjectsType'
    BY <1>1, <1>0, Records DEF PollBegin, ObjectsType
  <2>2. PollerType' /\ poll'.pc # "wait" /\ poll.pc # "wait"
    <3>1. CASE UNCHANGED poll
      BY <1>1, <1>0, <3>1 DEF PollBegin, PollerType
    <3>2. CASE poll' # poll
      <4>1. PICK i \in States : poll' = [Idle EXCEPT !.pc = "root", !.snap = i]
        BY <1>1, <3>2 DEF PollBegin, Registered
      <4> QED
        BY <1>1, <1>0, <4>1, Records DEF PollBegin, PollerType, PollType, PollPcs, Idle
    <3> QED
      BY <3>1, <3>2
  <2> QED
    BY <1>1, <1>world, <1>faults, <1>job, <2>1, <2>2, TypePrime DEF PollBegin
<1>2. CASE PollRoot
  <2>1. ObjectsType'
    <3>1. (IF State.streak < DeleteAfter THEN State.streak + 1 ELSE DeleteAfter) \in 0..DeleteAfter
      BY <1>0, Constants DEF ObjType
    <3>2. PICK k \in 0..DeleteAfter : obj' = obj \/ obj' = [obj EXCEPT ![poll.snap].streak = k]
      BY <1>2, <1>0, <3>1 DEF PollRoot
    <3> QED
      BY <1>0, <3>2 DEF ObjectsType, ObjType
  <2>2. \/ Return
        \/ \E pc \in {"prune", "baseline", "head"} : Goto(pc)
    BY <1>2 DEF PollRoot
  <2>3. poll.pc # "wait" /\ UNCHANGED lease /\ lease = FALSE
    BY <1>2, <1>0 DEF PollRoot, PollerType
  <2>4. PollerType' /\ poll'.pc # "wait"
    BY <1>goto, <1>return, <2>2, <2>3 DEF PollPcs
  <2> QED
    BY <1>2, <1>world, <1>faults, <1>job, <2>1, <2>3, <2>4, TypePrime DEF PollRoot
<1>3. CASE PollBaseline
  <2>1. ObjectsType'
    <3> DEFINE full == [obj EXCEPT ![poll.snap].baseline = TRUE, ![poll.snap].git = TRUE,
                                   ![poll.snap].head = tree.head]
               marked == [obj EXCEPT ![poll.snap].baseline = TRUE, ![poll.snap].git = TRUE]
               based == [obj EXCEPT ![poll.snap].baseline = TRUE]
    <3>1. obj' = obj \/ obj' = based \/ obj' = marked \/ obj' = full
      BY <1>3 DEF PollBaseline
    <3> HIDE DEF full, marked, based
    <3>2. CASE obj' = full
      <4>1. obj' = [obj EXCEPT ![poll.snap] =
              [State EXCEPT !.baseline = TRUE, !.git = TRUE, !.head = tree.head]]
        BY <1>0, <3>2 DEF ObjectsType, State, full
      <4>2. [State EXCEPT !.baseline = TRUE, !.git = TRUE, !.head = tree.head] \in ObjType
        BY <1>0 DEF ObjType
      <4> QED
        BY <1>0, <4>1, <4>2 DEF ObjectsType
    <3>3. CASE obj' = marked
      BY <1>0, <3>3 DEF ObjectsType, ObjType, marked
    <3>4. CASE obj' = based
      BY <1>0, <3>4 DEF ObjectsType, ObjType, based
    <3>5. CASE obj' = obj
      BY <1>0, <3>5 DEF ObjectsType
    <3> QED
      BY <3>1, <3>2, <3>3, <3>4, <3>5
  <2>2. PollerType' /\ poll'.pc # "wait" /\ poll.pc # "wait"
    BY <1>3, <1>0, <1>return DEF PollBaseline, PollerType
  <2> QED
    BY <1>3, <1>world, <1>faults, <1>job, <2>1, <2>2, TypePrime DEF PollBaseline
<1>4. CASE PollHead
  <2>1. ObjectsType'
    BY <1>4, <1>0 DEF PollHead, ObjectsType, ObjType
  <2>2. poll.pc # "wait" /\ UNCHANGED lease /\ lease = FALSE
    BY <1>4, <1>0 DEF PollHead, PollerType
  <2>3. \/ Return \/ Goto("dirty")
        \/ poll' = [poll EXCEPT !.pc = "dirty", !.head = tree.head]
    BY <1>4 DEF PollHead
  <2>4. PollerType' /\ poll'.pc # "wait"
    <3>1. CASE Return \/ Goto("dirty")
      BY <1>goto, <1>return, <2>2, <3>1 DEF PollPcs
    <3>2. CASE poll' = [poll EXCEPT !.pc = "dirty", !.head = tree.head]
      BY <1>0, <2>2, <3>2 DEF PollerType, PollType, PollPcs
    <3> QED
      BY <2>3, <3>1, <3>2
  <2> QED
    BY <1>4, <1>world, <1>faults, <1>job, <2>1, <2>2, <2>4, TypePrime DEF PollHead
<1>5. CASE PollDirty
  <2>1. poll.pc # "wait" /\ UNCHANGED <<obj, lease>> /\ lease = FALSE
    BY <1>5, <1>0 DEF PollDirty, PollerType
  <2>2. Return \/ poll' = [poll EXCEPT !.pc = "index", !.sig = Folded(tree.dirt)]
    BY <1>5 DEF PollDirty
  <2>3. PollerType' /\ poll'.pc # "wait"
    <3>1. CASE Return
      BY <1>return, <2>1, <3>1
    <3>2. CASE poll' = [poll EXCEPT !.pc = "index", !.sig = Folded(tree.dirt)]
      BY <1>0, <2>1, <3>2 DEF PollerType, PollType, PollPcs
    <3> QED
      BY <2>2, <3>1, <3>2
  <2> QED
    BY <1>5, <1>0, <1>world, <1>faults, <1>job, <2>1, <2>3, TypePrime DEF PollDirty, ObjectsType
<1>6. CASE PollIndex
  <2>1. poll.pc # "wait" /\ UNCHANGED <<obj, lease>> /\ lease = FALSE
    BY <1>6, <1>0 DEF PollIndex, PollerType
  <2>2. PollerType' /\ poll'.pc # "wait"
    BY <1>6, <1>goto, <1>return, <2>1 DEF PollIndex, PollPcs
  <2> QED
    BY <1>6, <1>0, <1>world, <1>faults, <1>job, <2>1, <2>2, TypePrime DEF PollIndex, ObjectsType
<1>7. CASE PollCall
  <2>1. poll.pc = "call" /\ UNCHANGED <<obj, lease>> /\ lease = FALSE
    BY <1>7, <1>0 DEF PollCall, PollerType
  <2>2. CASE Return /\ UNCHANGED job
    BY <1>7, <1>0, <1>world, <1>faults, <1>job, <1>return, <2>1, <2>2, TypePrime
       DEF PollCall, ObjectsType
  <2>3. CASE Goto("wait")
    <3>1. PollerType' /\ poll'.pc = "wait"
      BY <1>0, <2>1, <2>3 DEF Goto, PollerType, PollType, PollPcs
    <3>2. \/ job' = [NoJob EXCEPT !.phase = "queued", !.watch = TRUE]
          \/ job.phase # "none" /\ job' = [job EXCEPT !.watch = TRUE]
          \/ Return /\ UNCHANGED job
      BY <1>7 DEF PollCall
    <3>3. JobsType'
      <4>1. CASE Return /\ UNCHANGED job
        BY <3>1, <4>1 DEF Return, Idle
      <4>2. CASE job' = [NoJob EXCEPT !.phase = "queued", !.watch = TRUE]
        BY <3>1, <4>2, Records DEF JobsType, JobType, NoJob
      <4>3. CASE job.phase # "none" /\ job' = [job EXCEPT !.watch = TRUE]
        BY <1>0, <3>1, <4>3 DEF JobsType, JobType
      <4> QED
        BY <3>2, <4>1, <4>2, <4>3
    <3> QED
      BY <1>7, <1>0, <1>world, <1>faults, <2>1, <3>1, <3>3, TypePrime DEF PollCall, ObjectsType
  <2> QED
    BY <1>7, <2>2, <2>3 DEF PollCall
<1>8. CASE PollReturn
  <2>1. poll.pc # "wait" /\ UNCHANGED lease /\ lease = FALSE
    BY <1>8, <1>0 DEF PollReturn, PollerType
  <2>2. ObjectsType'
    <3>1. PICK n \in Stamps, f \in Signatures :
            obj' = obj \/ obj' = [obj EXCEPT ![poll.snap].head = n, ![poll.snap].sig = f]
      <4>1. poll.head \in Stamps /\ poll.sig \in Signatures /\ State.head \in Stamps
        BY <1>0 DEF PollerType, PollType, ObjType
      <4> QED
        BY <1>8, <4>1 DEF PollReturn, State
    <3> QED
      BY <1>0, <3>1 DEF ObjectsType, ObjType
  <2>3. PollerType' /\ poll'.pc # "wait"
    BY <1>8, <1>return, <2>1 DEF PollReturn
  <2> QED
    BY <1>8, <1>world, <1>faults, <1>job, <2>1, <2>2, <2>3, TypePrime DEF PollReturn
<1>9. CASE PruneBegin \/ PruneNotify \/ PruneEnd
  <2>1. PollerType' /\ poll'.pc # "wait" /\ poll.pc # "wait"
    <3>1. CASE PruneBegin
      BY <1>0, <3>1, <1>goto, <1>return DEF PruneBegin, PollerType, PollPcs
    <3>2. CASE PruneNotify
      BY <1>0, <3>2, <1>goto DEF PruneNotify, PollerType, PollPcs
    <3>3. CASE PruneEnd
      BY <3>3, <1>return DEF PruneEnd
    <3> QED
      BY <1>9, <3>1, <3>2, <3>3
  <2>2. UNCHANGED <<root, tree, edits, db, obj, job, moves, faults>> /\ watching' \subseteq Sessions
    BY <1>9, <1>0 DEF PruneBegin, PruneNotify, PruneEnd, WorldType
  <2> QED
    BY <1>0, <1>job, <2>1, <2>2, TypePrime DEF WorldType, ObjectsType
<1>10. CASE PruneDelete
  <2>1. poll.pc = "delete" /\ UNCHANGED <<lease, job>> /\ lease = TRUE
    BY <1>10, <1>0 DEF PruneDelete, PollerType
  <2>2. ObjectsType'
    BY <1>10, <1>0 DEF PruneDelete, ObjectsType, ObjType
  <2>3. PollerType' /\ poll'.pc # "wait"
    <3>1. Goto("pruned") \/ Goto("unlock")
      BY <1>10 DEF PruneDelete
    <3> QED
      BY <1>goto, <2>1, <3>1 DEF PollPcs
  <2>4. WorldType'
    BY <1>10, <1>0, <1>faults DEF PruneDelete, WorldType
  <2> QED
    BY <1>job, <2>1, <2>2, <2>3, <2>4, TypePrime
<1> QED
  BY <1>1, <1>2, <1>3, <1>4, <1>5, <1>6, <1>7, <1>8, <1>9, <1>10 DEF Poller

-----------------------------------------------------------------------------
(* Every step keeps the tables in agreement.                               *)
LEMMA SamePlaces ==
  ASSUME \A i \in States : obj'[i].place = obj[i].place
  PROVE  Registered' = Registered
  BY DEF Registered

LEMMA UnwatchEmpties ==
  ASSUME ObjectsType, obj' = Unwatch(obj)
  PROVE  /\ Registered' = {}
         /\ \A i \in States : obj[i].place # "free" => obj'[i].place # "free"
  BY DEF ObjectsType, ObjType, Unwatch, Registered

(* Steps that leave the tables and the registrations alone.                *)
LEMMA AgreeKept ==
  ASSUME IInv, UNCHANGED watching, poll'.snap \in States,
         \A i \in States : obj'[i].place = obj[i].place,
         poll.pc = "pruned" => poll'.pc = "pruned" /\ db' = Nothing,
         poll'.pc = "pruned" => poll.pc = "pruned",
         poll'.pc # "idle" => poll.pc # "idle" /\ poll'.snap = poll.snap
  PROVE  Agree'
  BY SamePlaces DEF IInv, Agree, State

LEMMA SessionStepAgree ==
  ASSUME IInv, NEW s \in Sessions, SessionRefresh(s) \/ SessionLeave(s)
  PROVE  Agree'
<1>0. Agree /\ ObjectsType /\ poll.snap \in States /\ UNCHANGED <<poll, db>>
  BY TypeParts DEF IInv, PollerType, PollType, SessionRefresh, SessionLeave
<1>1. CASE obj' = Unwatch(obj) /\ watching' = {}
  BY <1>0, <1>1, UnwatchEmpties DEF Agree, State
<1>2. CASE obj' = obj /\ watching # {} /\ watching' # {}
  BY <1>0, <1>2 DEF Agree, State, Registered
<1>3. CASE /\ db # Nothing /\ watching = {} /\ watching' # {}
           /\ \E i \in States : /\ obj[i].place = "free"
                               /\ obj' = [obj EXCEPT ![i].place = "registered"]
  <2>1. PICK i \in States : /\ obj[i].place = "free"
                           /\ obj' = [obj EXCEPT ![i].place = "registered"]
    BY <1>3
  <2>2. Registered = {} /\ poll.pc # "pruned"
    BY <1>0, <1>3 DEF Agree
  <2>3. Registered' = {i}
    BY <1>0, <2>1, <2>2 DEF Registered, ObjectsType, ObjType
  <2>4. poll.pc # "idle" => obj'[poll.snap].place # "free"
    BY <1>0, <2>1 DEF Agree, State, ObjectsType, ObjType
  <2> QED
    BY <1>0, <1>3, <2>2, <2>3, <2>4 DEF Agree, State
<1> QED
  BY <1>1, <1>2, <1>3 DEF SessionRefresh, SessionLeave

LEMMA OtherStepAgree ==
  ASSUME IInv, \/ Edit \/ RootMove \/ ToolIndex \/ ToolDelete \/ JobRead \/ JobEnd
  PROVE  Agree'
<1>0. /\ UNCHANGED <<watching, obj>> /\ PollerType /\ JobsType
      /\ poll.snap \in States
  BY TypeParts DEF IInv, PollerType, PollType, Edit, RootMove, ToolIndex, ToolDelete, JobRead, JobEnd
<1>1. CASE JobEnd
  <2>1. PICK rc \in 0..2 : JobOver(rc)
    BY <1>1 DEF JobEnd
  <2>2. CASE job.watch
    <3>1. poll.pc = "wait"
      BY <1>0, <2>2 DEF JobsType
    <3>2. poll'.pc = "return" /\ poll'.snap = poll.snap
      BY <1>0, <2>1, <2>2 DEF JobOver, PollerType, PollType
    <3> QED
      BY <1>0, <3>1, <3>2, AgreeKept
  <2>3. CASE ~job.watch
    <3>1. poll' = poll
      BY <2>1, <2>3, Zenon DEF JobOver
    <3>2. poll.pc = "pruned" => db' = Nothing
      <4>1. poll.pc = "pruned" => job.phase # "read" /\ db = Nothing
        BY <1>0 DEF PollerType, IInv, Separate, Agree
      <4>2. job.phase # "read" => db' = db
        BY <1>1 DEF JobEnd
      <4> QED
        BY <4>1, <4>2
    <3> QED
      BY <1>0, <3>1, <3>2, AgreeKept
  <2> QED
    BY <2>2, <2>3
<1>2. CASE \/ Edit \/ RootMove \/ ToolIndex \/ ToolDelete \/ JobRead
  <2>1. poll' = poll /\ (db' = db \/ db' = Nothing)
    BY <1>2 DEF Edit, RootMove, ToolIndex, ToolDelete, JobRead
  <2> QED
    BY <1>0, <2>1, AgreeKept DEF IInv, Agree
<1> QED
  BY <1>1, <1>2

LEMMA PollStepAgree ==
  ASSUME IInv, Poller
  PROVE  Agree'
<1>0. /\ Agree /\ PollerType /\ ObjectsType /\ poll \in PollType /\ poll.snap \in States
      /\ 1 \in States
  BY TypeParts, Constants DEF IInv, PollerType, PollType
<1>goto. \A pc \in PollPcs : Goto(pc) => poll'.pc = pc /\ poll'.snap = poll.snap
  BY <1>0 DEF Goto, PollType
<1>return. Return => poll'.pc = "idle" /\ poll'.snap \in States
  BY <1>0 DEF Return, Idle
<1>1. CASE PollBegin
  <2>1. /\ Registered' = Registered
        /\ \A i \in Registered : obj'[i].place = "registered"
        /\ UNCHANGED <<watching, db>> /\ poll.pc = "idle"
    BY <1>1, <1>0 DEF PollBegin, Registered, NoState, ObjectsType, ObjType
  <2>2. \/ UNCHANGED poll
        \/ \E i \in Registered : poll'.pc = "root" /\ poll'.snap = i
    BY <1>1 DEF PollBegin, Idle
  <2> QED
    BY <1>0, <2>1, <2>2 DEF Agree, State
<1>2. CASE PruneDelete
  <2>1. CASE UNCHANGED <<obj, db>>
    <3>1. Goto("unlock") \/ Goto("pruned")
      BY <1>2 DEF PruneDelete
    <3>2. CASE Goto("unlock")
      <4>1. poll.pc = "delete" /\ UNCHANGED watching
        BY <1>2 DEF PruneDelete
      <4> QED
        BY <1>0, <1>goto, <2>1, <3>2, <4>1, AgreeKept DEF PollPcs
    <3>3. CASE ~Goto("unlock")
      <4>1. IsRegistered /\ obj' = [obj EXCEPT ![poll.snap].place = "deferred"]
        BY <1>2, <3>3 DEF PruneDelete
      <4> QED
        BY <1>0, <2>1, <4>1 DEF IsRegistered, State, ObjectsType, ObjType
    <3> QED
      BY <3>2, <3>3
  <2>2. CASE ~UNCHANGED <<obj, db>>
    <3>1. /\ poll.pc = "delete" /\ IsRegistered /\ db' = Nothing /\ UNCHANGED watching
          /\ obj' = [obj EXCEPT ![poll.snap].place = "deferred"] /\ Goto("pruned")
      BY <1>2, <2>2 DEF PruneDelete
    <3>2. poll'.pc = "pruned" /\ poll'.snap = poll.snap
      BY <1>goto, <3>1 DEF PollPcs
    <3>3. Registered' = {}
      BY <1>0, <3>1 DEF Agree, Registered, IsRegistered, State, ObjectsType, ObjType
    <3>4. State'.place = "deferred"
      BY <1>0, <3>1, <3>2 DEF State, ObjectsType, ObjType
    <3> QED
      BY <3>1, <3>2, <3>3, <3>4 DEF Agree
  <2> QED
    BY <2>1, <2>2
<1>3. CASE PruneNotify
  <2>1. /\ poll.pc = "pruned" /\ watching' = {} /\ UNCHANGED <<obj, db>>
        /\ poll'.pc = "unlock" /\ poll'.snap = poll.snap
    BY <1>3, <1>goto DEF PruneNotify, PollPcs
  <2> QED
    BY <1>0, <2>1 DEF Agree, State, Registered
<1>4. CASE \/ PollRoot \/ PollBaseline \/ PollHead \/ PollDirty \/ PollIndex
           \/ PollCall \/ PollReturn \/ PruneBegin \/ PruneEnd
  <2>1. UNCHANGED <<watching, db>> /\ poll.pc \notin {"idle", "pruned"}
    BY <1>4 DEF PollRoot, PollBaseline, PollHead, PollDirty, PollIndex, PollCall,
                PollReturn, PruneBegin, PruneEnd
  <2>2. \A i \in States : obj'[i].place = obj[i].place
    <3>1. CASE PollRoot
      <4> DEFINE streak == IF State.streak < DeleteAfter THEN State.streak + 1 ELSE DeleteAfter
      <4>1. \E k \in {0, streak} : obj' = obj \/ obj' = [obj EXCEPT ![poll.snap].streak = k]
        BY <3>1 DEF PollRoot
      <4> HIDE DEF streak
      <4> QED
        BY <1>0, <4>1 DEF ObjectsType, ObjType
    <3>2. CASE PollBaseline
      BY <1>0, <3>2 DEF PollBaseline, ObjectsType, ObjType
    <3>3. CASE PollHead
      BY <1>0, <3>3 DEF PollHead, ObjectsType, ObjType
    <3>4. CASE PollReturn
      BY <1>0, <3>4 DEF PollReturn, ObjectsType, ObjType
    <3>5. CASE PollDirty \/ PollIndex \/ PollCall \/ PruneBegin \/ PruneEnd
      BY <3>5 DEF PollDirty, PollIndex, PollCall, PruneBegin, PruneEnd
    <3> QED
      BY <1>4, <3>1, <3>2, <3>3, <3>4, <3>5
  <2>3. /\ poll'.snap \in States /\ poll'.pc # "pruned"
        /\ poll'.pc # "idle" => poll'.snap = poll.snap
    <3>1. \/ Return \/ \E pc \in PollPcs \ {"pruned"} : Goto(pc)
          \/ poll' = [poll EXCEPT !.pc = "dirty", !.head = tree.head]
          \/ poll' = [poll EXCEPT !.pc = "index", !.sig = Folded(tree.dirt)]
      BY <1>4 DEF PollRoot, PollBaseline, PollHead, PollDirty, PollIndex, PollCall,
                  PollReturn, PruneBegin, PruneEnd, PollPcs
    <3> QED
      BY <1>0, <1>goto, <1>return, <3>1 DEF PollType
  <2> QED
    BY <2>1, <2>2, <2>3, AgreeKept
<1> QED
  BY <1>1, <1>2, <1>3, <1>4 DEF Poller

-----------------------------------------------------------------------------
(* Every step keeps the order of the stamps.                               *)
LEMMA Bounds ==
  ASSUME IInv
  PROVE  /\ tree \in Trees /\ tree.head \in Nat /\ tree.dirt \in Nat
         /\ edits \in 1..MaxEdits /\ edits \in Stamps /\ tree.dirt \in Stamps
         /\ poll.head \in Nat /\ poll.sig \in Nat /\ poll.rc \in 0..2
         /\ \A i \in States : obj[i].head \in Nat /\ obj[i].head \in Stamps
         /\ Folded(tree.dirt) <= Folded(edits) /\ Folded(edits) \in Nat
         /\ Folded(tree.dirt) \in Nat /\ poll.snap \in States
<1>1. WorldType /\ PollerType /\ ObjectsType
  BY TypeParts DEF IInv
<1>2. tree.dirt <= edits
  BY DEF IInv, Ordered
<1>3. /\ tree \in Trees /\ tree.head \in Stamps /\ tree.dirt \in Stamps
      /\ edits \in 1..MaxEdits /\ edits \in Stamps
  BY <1>1, Constants DEF WorldType, Trees, Stamps
<1>4. tree.dirt = edits \/ tree.dirt < edits
  BY <1>2, <1>3, Constants DEF Stamps
<1>5. Folded(tree.dirt) <= Folded(edits) /\ Folded(edits) \in Nat /\ Folded(tree.dirt) \in Nat
  <2>1. Folded(edits) \in Nat /\ Folded(tree.dirt) \in Nat
    BY <1>3, FoldedType
  <2>2. tree.dirt < edits => Folded(tree.dirt) < Folded(edits)
    BY <1>3, FoldedType
  <2> QED
    BY <1>4, <2>1, <2>2
<1>6. \A i \in States : obj[i].head \in Stamps
  BY <1>1 DEF ObjectsType, ObjType
<1>7. poll.head \in Stamps /\ poll.sig \in Signatures /\ poll.rc \in 0..2 /\ poll.snap \in States
  BY <1>1 DEF PollerType, PollType
<1> QED
  BY <1>3, <1>5, <1>6, <1>7, Constants DEF Stamps, Signatures

LEMMA EditOrdered ==
  ASSUME IInv, Edit
  PROVE  Ordered' /\ Separate' /\ Folded(edits) < Folded(edits')
<1>1. edits' = edits + 1 /\ edits' \in Stamps /\ edits < edits' /\ UNCHANGED <<obj, poll, job, lease>>
  BY Bounds, Constants DEF Edit, Stamps
<1>2. Folded(edits) < Folded(edits') /\ Folded(edits') \in Nat
  BY <1>1, Bounds, FoldedType
<1>3. tree'.head \in {tree.head, edits + 1} /\ tree'.dirt \in {0, edits + 1}
  BY Bounds DEF Edit, Trees
<1>4. 1 <= tree'.head /\ tree'.head <= edits' /\ tree'.dirt <= edits'
  BY <1>1, <1>3, Bounds DEF IInv, Ordered
<1>5. \A i \in States : obj'[i].head <= edits'
  BY <1>1, Bounds DEF IInv, Ordered
<1>6. /\ poll'.head <= edits'
      /\ poll'.pc \in {"index", "call", "wait", "return"} => poll'.sig <= Folded(edits')
  BY <1>1, <1>2, Bounds DEF IInv, Ordered
<1>7. Ordered'
  <2>1. Folded(edits)' = Folded(edits')
    BY DEF Folded
  <2> QED
    BY <1>4, <1>5, <1>6, <2>1 DEF Ordered
<1>8. Separate'
  BY <1>1 DEF IInv, Separate
<1> QED
  BY <1>2, <1>7, <1>8

(* The steps that change no tree.                                          *)
LEMMA OrderedKept ==
  ASSUME IInv, UNCHANGED <<tree, edits>>,
         \A i \in States : obj'[i].head <= edits,
         poll'.head <= edits,
         poll'.pc \in {"index", "call", "wait", "return"} => poll'.sig <= Folded(edits)
  PROVE  Ordered'
  BY DEF IInv, Ordered, Folded

LEMMA SeparateKept ==
  ASSUME IInv, UNCHANGED <<job, lease>>
  PROVE  Separate'
  BY DEF IInv, Separate

LEMMA OtherStepOrdered ==
  ASSUME IInv, \/ RootMove \/ ToolIndex \/ ToolDelete \/ JobRead \/ JobEnd
               \/ \E s \in Sessions : SessionRefresh(s) \/ SessionLeave(s)
  PROVE  Ordered' /\ Separate'
<1>0. PollerType /\ JobsType /\ ObjectsType /\ UNCHANGED <<tree, edits, lease>>
  BY TypeParts DEF IInv, RootMove, ToolIndex, ToolDelete, JobRead, JobEnd, SessionRefresh, SessionLeave
<1>1. \A i \in States : obj'[i].head <= edits
  <2>1. \/ obj' = obj \/ obj' = Unwatch(obj)
        \/ \E i \in States : obj' = [obj EXCEPT ![i].place = "registered"]
    BY DEF RootMove, ToolIndex, ToolDelete, JobRead, JobEnd, SessionRefresh, SessionLeave
  <2> QED
    BY <1>0, <2>1 DEF IInv, Ordered, Unwatch, ObjectsType, ObjType
<1>2. poll' = poll \/ \E rc \in 0..2 : job.watch /\ poll' = [poll EXCEPT !.pc = "return", !.rc = rc]
  <2>1. CASE JobEnd
    <3>1. PICK rc \in 0..2 : JobOver(rc)
      BY <2>1 DEF JobEnd
    <3> QED
      BY <3>1, Zenon DEF JobOver
  <2>2. CASE ~JobEnd
    BY <2>2 DEF RootMove, ToolIndex, ToolDelete, JobRead, SessionRefresh, SessionLeave
  <2> QED
    BY <2>1, <2>2
<1>3. /\ poll'.head <= edits
      /\ poll'.pc \in {"index", "call", "wait", "return"} => poll'.sig <= Folded(edits)
  <2>1. job.watch => poll.pc = "wait"
    BY <1>0 DEF JobsType
  <2>2. /\ poll.head <= edits
        /\ poll.pc \in {"index", "call", "wait", "return"} => poll.sig <= Folded(edits)
    BY DEF IInv, Ordered
  <2>3. CASE poll' = poll
    BY <2>2, <2>3
  <2>4. CASE \E rc \in 0..2 : job.watch /\ poll' = [poll EXCEPT !.pc = "return", !.rc = rc]
    <3>1. poll.pc = "wait" /\ poll'.head = poll.head /\ poll'.sig = poll.sig
      BY <1>0, <2>1, <2>4 DEF PollerType, PollType
    <3> QED
      BY <2>2, <3>1
  <2> QED
    BY <1>2, <2>3, <2>4
<1>4. Separate'
  <2>1. CASE job' = NoJob
    BY <2>1 DEF Separate, NoJob
  <2>2. CASE job' = JobDisowned
    <3>1. /\ job'.phase = job.phase /\ job'.options = job.options /\ job'.watch = job.watch
      <4>1. job' = job \/ job' = [job EXCEPT !.cancel = TRUE]
        BY <2>2, Zenon DEF JobDisowned
      <4> QED
        BY <1>0, <4>1 DEF JobsType, JobType
    <3> QED
      BY <1>0, <3>1 DEF IInv, Separate
  <2>3. CASE ToolIndex
    <3>1. \/ job' = [NoJob EXCEPT !.phase = "queued", !.tool = TRUE, !.options = ToolOptions]
          \/ job.phase # "none" /\ job.options = ToolOptions /\ job' = [job EXCEPT !.tool = TRUE]
      BY <2>3 DEF ToolIndex
    <3> QED
      BY <1>0, <3>1 DEF IInv, Separate, NoJob, JobsType, JobType
  <2>4. CASE JobRead
    BY <1>0, <2>4 DEF JobRead, IInv, Separate, JobsType, JobType
  <2>5. CASE job' = job
    BY <1>0, <2>5, SeparateKept
  <2> QED
    BY <2>1, <2>2, <2>3, <2>4, <2>5
       DEF RootMove, ToolDelete, JobEnd, JobOver, SessionRefresh, SessionLeave
<1> QED
  BY <1>0, <1>1, <1>3, <1>4, OrderedKept

LEMMA PollStepOrdered ==
  ASSUME IInv, Poller
  PROVE  Ordered' /\ Separate'
<1>0. /\ PollerType /\ JobsType /\ ObjectsType /\ UNCHANGED <<tree, edits>>
      /\ poll \in PollType /\ poll.snap \in States /\ State \in ObjType
      /\ tree.head <= edits /\ 0 <= edits /\ State.head <= edits
  <2>1. PollerType /\ JobsType /\ ObjectsType
    BY TypeParts DEF IInv
  <2>2. poll \in PollType /\ poll.snap \in States /\ State \in ObjType
    BY <2>1 DEF PollerType, PollType, ObjectsType, State
  <2>3. UNCHANGED <<tree, edits>>
    BY DEF Poller, PollBegin, PollRoot, PollBaseline, PollHead, PollDirty, PollIndex, PollCall,
           PollReturn, PruneBegin, PruneDelete, PruneNotify, PruneEnd
  <2>4. tree.head <= edits /\ State.head <= edits
    BY <2>2 DEF IInv, Ordered, State
  <2>5. 0 <= edits
    BY Bounds, Constants
  <2> QED
    BY <2>1, <2>2, <2>3, <2>4, <2>5
<1>1. \A i \in States : obj'[i].head <= edits
  <2>0. \A i \in States : obj[i].head <= edits
    BY DEF IInv, Ordered
  <2>1. CASE PollBegin
    BY <1>0, <2>0, <2>1 DEF PollBegin, NoState
  <2>2. CASE PollRoot
    <3> DEFINE streak == IF State.streak < DeleteAfter THEN State.streak + 1 ELSE DeleteAfter
    <3>1. \E k \in {0, streak} : obj' = obj \/ obj' = [obj EXCEPT ![poll.snap].streak = k]
      BY <2>2 DEF PollRoot
    <3> HIDE DEF streak
    <3> QED
      BY <1>0, <2>0, <3>1 DEF ObjectsType, ObjType
  <2>3. CASE PollBaseline
    BY <1>0, <2>0, <2>3 DEF PollBaseline, ObjectsType, ObjType
  <2>4. CASE PollHead
    BY <1>0, <2>0, <2>4 DEF PollHead, ObjectsType, ObjType
  <2>5. CASE PollReturn
    <3>1. poll.head <= edits
      BY DEF IInv, Ordered
    <3> QED
      BY <1>0, <2>0, <2>5, <3>1 DEF PollReturn, ObjectsType, ObjType
  <2>6. CASE PruneDelete
    BY <1>0, <2>0, <2>6 DEF PruneDelete, ObjectsType, ObjType
  <2>7. CASE PollDirty \/ PollIndex \/ PollCall \/ PruneBegin \/ PruneNotify \/ PruneEnd
    BY <2>0, <2>7 DEF PollDirty, PollIndex, PollCall, PruneBegin, PruneNotify, PruneEnd
  <2> QED
    BY <2>1, <2>2, <2>3, <2>4, <2>5, <2>6, <2>7 DEF Poller
<1>2. /\ poll'.head <= edits
      /\ poll'.pc \in {"index", "call", "wait", "return"} => poll'.sig <= Folded(edits)
  <2>1. /\ poll.head <= edits
        /\ poll.pc \in {"index", "call", "wait", "return"} => poll.sig <= Folded(edits)
    BY DEF IInv, Ordered
  <2>2. CASE \/ poll' = Idle \/ \E i \in Registered : poll' = [Idle EXCEPT !.pc = "root", !.snap = i]
    <3>1. \A i : [Idle EXCEPT !.pc = "root", !.snap = i].head = 0
      BY DEF Idle
    <3>2. \A i : [Idle EXCEPT !.pc = "root", !.snap = i].pc = "root"
      BY DEF Idle
    <3>3. poll'.head = 0 /\ poll'.pc \in {"idle", "root"}
      <4>1. Idle.head = 0 /\ Idle.pc = "idle"
        BY DEF Idle
      <4> QED
        BY <2>2, <3>1, <3>2, <4>1
    <3> QED
      BY <1>0, <3>3
  <2>3. CASE poll' = [poll EXCEPT !.pc = "dirty", !.head = tree.head]
    BY <1>0, <2>3 DEF PollType
  <2>4. CASE poll' = [poll EXCEPT !.pc = "index", !.sig = Folded(tree.dirt)]
    BY <1>0, <2>1, <2>4, Bounds DEF PollType
  <2>5. CASE \E pc \in PollPcs : /\ pc \in {"call", "wait"} => poll.pc \in {"index", "call"}
                                /\ pc \notin {"index", "return"}
                                /\ Goto(pc)
    BY <1>0, <2>1, <2>5 DEF PollType, Goto
  <2>6. CASE poll' = poll
    BY <2>1, <2>6
  <2> QED
    BY <2>2, <2>3, <2>4, <2>5, <2>6
       DEF Poller, Return, PollBegin, PollRoot, PollBaseline, PollHead, PollDirty, PollIndex,
           PollCall, PollReturn, PruneBegin, PruneDelete, PruneNotify, PruneEnd, PollPcs
<1>3. Separate'
  <2>1. CASE PollCall
    <3>1. lease = FALSE /\ UNCHANGED lease
      BY <1>0, <2>1 DEF PollCall, PollerType
    <3>2. \/ job' = job
          \/ job' = [NoJob EXCEPT !.phase = "queued", !.watch = TRUE]
          \/ job' = [job EXCEPT !.watch = TRUE]
      BY <2>1 DEF PollCall
    <3> QED
      BY <1>0, <3>1, <3>2 DEF IInv, Separate, NoJob, JobsType, JobType
  <2>2. CASE PruneBegin \/ PruneEnd
    BY <2>2 DEF PruneBegin, PruneEnd, IInv, Separate
  <2>3. CASE ~(PollCall \/ PruneBegin \/ PruneEnd)
    <3>1. UNCHANGED <<job, lease>>
      BY <2>3 DEF Poller, PollBegin, PollRoot, PollBaseline, PollHead, PollDirty, PollIndex,
                  PollReturn, PruneDelete, PruneNotify
    <3> QED
      BY <3>1, SeparateKept
  <2> QED
    BY <2>1, <2>2, <2>3
<1> QED
  BY <1>0, <1>1, <1>2, <1>3, OrderedKept

-----------------------------------------------------------------------------
(* What a successful index has read is not older than the observation.     *)

(* Steps that leave the observation and its tree alone.                    *)
LEMMA FreshKept ==
  ASSUME NEW t, Fresh(t), UNCHANGED tree, poll'.head = poll.head, poll'.sig = poll.sig,
         State'.head = State.head
  PROVE  Fresh(t)'
  BY DEF Fresh, Committed, Folded

LEMMA FreshNow == Fresh(tree)
  BY DEF Fresh

(* A new edit is not among the things that were observed.                  *)
LEMMA EditFresh ==
  ASSUME IInv, Edit, poll.pc \in {"wait", "return"}, NEW t, Fresh(t)
  PROVE  Fresh(t)'
<1>1. /\ UNCHANGED <<obj, poll>> /\ Folded(edits) < Folded(edits')
      /\ edits' = edits + 1 /\ edits \in Nat /\ Folded(edits) \in Nat /\ Folded(edits') \in Nat
      /\ poll.sig <= Folded(edits) /\ poll.sig \in Nat
      /\ tree'.head = edits' \/ tree'.dirt = edits'
  <2>1. /\ UNCHANGED <<obj, poll>> /\ edits' = edits + 1 /\ edits' \in Stamps /\ edits \in Nat
        /\ tree'.head = edits' \/ tree'.dirt = edits'
    BY Bounds, Constants DEF Edit, Trees, Stamps
  <2>2. poll.sig <= Folded(edits)
    BY DEF IInv, Ordered
  <2> QED
    BY <2>1, <2>2, Bounds, EditOrdered, FoldedType
<1>2. Committed <= edits /\ Committed \in Nat
  BY Bounds DEF IInv, Ordered, Committed, State
<1>3. Committed' = Committed
  BY <1>1 DEF Committed, State
<1>4. Committed' # tree'.head \/ poll'.sig # Folded(tree.dirt)'
  <2>1. CASE tree'.head = edits'
    BY <1>1, <1>2, <1>3, <2>1
  <2>2. CASE tree'.dirt = edits'
    <3>1. Folded(tree.dirt)' = Folded(edits')
      BY <2>2 DEF Folded
    <3> QED
      BY <1>1, <3>1
  <2> QED
    BY <1>1, <2>1, <2>2
<1> QED
  BY <1>4 DEF Fresh

(* With options of the tools' own, the watcher's index is a new job.       *)
LEMMA ObservedStep ==
  ASSUME IInv, ToolOptions = "custom", Next
  PROVE  Observed'
<1>0. /\ PollerType /\ JobsType /\ ObjectsType /\ poll \in PollType /\ poll.snap \in States
      /\ Observed /\ Separate
  BY TypeParts DEF IInv, PollerType, PollType
<1>kept. ASSUME UNCHANGED <<tree, poll>>, State'.head = State.head,
                job'.phase = "read" => job'.tree = tree \/ (job.phase = "read" /\ job'.tree = job.tree),
                db' = db \/ db' = Nothing
         PROVE  Observed'
  BY <1>0, <1>kept DEF Observed, Fresh, Committed, Folded
<1>out. ASSUME poll'.pc \notin {"wait", "return"}
        PROVE  Observed'
  BY <1>out DEF Observed
<1>1. CASE Edit
  <2>1. UNCHANGED <<poll, job, db>>
    BY <1>1 DEF Edit
  <2>2. poll.pc \in {"wait", "return"} /\ job.phase = "read" => Fresh(job.tree)'
    BY <1>0, <1>1, <2>1, EditFresh DEF Observed, Fresh
  <2>3. poll.pc = "return" /\ poll.rc = 0 => db = Nothing \/ Fresh(db)'
    BY <1>0, <1>1, <2>1, EditFresh DEF Observed, Fresh
  <2> QED
    BY <2>1, <2>2, <2>3 DEF Observed
<1>2. CASE RootMove \/ ToolDelete
  BY <1>2, <1>kept DEF RootMove, ToolDelete, State
<1>3. CASE ToolIndex
  <2>1. job'.phase = "read" => job.phase = "read" /\ job'.tree = job.tree
    <3>1. CASE job' = [NoJob EXCEPT !.phase = "queued", !.tool = TRUE, !.options = ToolOptions]
      BY <3>1 DEF NoJob
    <3>2. CASE job' = [job EXCEPT !.tool = TRUE]
      BY <1>0, <3>2 DEF JobsType, JobType
    <3> QED
      BY <1>3, <3>1, <3>2 DEF ToolIndex
  <2> QED
    BY <1>3, <1>kept, <2>1 DEF ToolIndex, State
<1>4. CASE JobRead
  <2>1. job'.tree = tree
    BY <1>0, <1>4 DEF JobRead, JobsType, JobType
  <2>2. UNCHANGED <<tree, poll, obj, db>>
    BY <1>4 DEF JobRead
  <2>3. State'.head = State.head
    BY <2>2 DEF State
  <2> QED
    BY <1>kept, <2>1, <2>2, <2>3
<1>5. CASE \E s \in Sessions : SessionRefresh(s) \/ SessionLeave(s)
  <2>1. job'.phase = job.phase /\ job'.tree = job.tree
    <3>1. job' = job \/ job' = [job EXCEPT !.cancel = TRUE]
      BY <1>5, Zenon DEF SessionRefresh, SessionLeave, JobDisowned
    <3> QED
      BY <1>0, <3>1 DEF JobsType, JobType
  <2>2. UNCHANGED <<tree, poll, db>>
    BY <1>5 DEF SessionRefresh, SessionLeave
  <2>3. State'.head = State.head
    <3>1. \/ obj' = obj \/ obj' = Unwatch(obj)
          \/ \E i \in States : obj' = [obj EXCEPT ![i].place = "registered"]
      BY <1>5 DEF SessionRefresh, SessionLeave
    <3> QED
      BY <1>0, <2>2, <3>1 DEF State, Unwatch, ObjectsType, ObjType
  <2> QED
    BY <1>kept, <2>1, <2>2, <2>3
<1>6. CASE JobEnd
  <2>1. PICK rc \in 0..2 : /\ JobOver(rc)
                          /\ \/ db' = db /\ rc # 0
                             \/ db' = job.tree /\ job.phase = "read"
    <3>1. CASE /\ job.phase = "read" /\ db' = job.tree
               /\ JobOver(IF job.cancel THEN 1 ELSE 0)
      <4>1. (IF job.cancel THEN 1 ELSE 0) \in 0..2
        OBVIOUS
      <4> QED
        BY <3>1, <4>1
    <3>2. CASE db' = db /\ (JobOver(1) \/ JobOver(2))
      BY <3>2
    <3> QED
      BY <1>6, <3>1, <3>2 DEF JobEnd
  <2>2. UNCHANGED <<tree, obj>> /\ job' = NoJob
    BY <1>6, <2>1 DEF JobEnd, JobOver
  <2>3. /\ poll'.head = poll.head /\ poll'.sig = poll.sig /\ poll'.snap = poll.snap
        /\ poll'.pc = "return" => poll.pc \in {"wait", "return"}
        /\ poll'.pc = "return" /\ poll'.rc = 0 => rc = 0 \/ (poll.pc = "return" /\ poll.rc = 0)
    <3>1. CASE job.watch
      <4>1. poll.pc = "wait"
        BY <1>0, <3>1 DEF JobsType
      <4>2. poll' = [poll EXCEPT !.pc = "return", !.rc = rc]
        BY <2>1, <3>1, Zenon DEF JobOver
      <4>3. /\ poll'.head = poll.head /\ poll'.sig = poll.sig /\ poll'.snap = poll.snap
            /\ poll'.pc = "return" /\ poll'.rc = rc
        BY <1>0, <4>2 DEF PollType
      <4> QED
        BY <4>1, <4>3
    <3>2. CASE ~job.watch
      <4>1. poll' = poll
        BY <2>1, <3>2, Zenon DEF JobOver
      <4> QED
        BY <4>1
    <3> QED
      BY <3>1, <3>2
  <2>4. poll'.pc = "return" /\ poll'.rc = 0 => (db = Nothing /\ db' = db) \/ Fresh(db')
    BY <1>0, <2>1, <2>3 DEF Observed
  <2>5. poll'.pc = "return" /\ poll'.rc = 0 => db' = Nothing \/ Fresh(db)'
    BY <2>2, <2>3, <2>4 DEF Fresh, Committed, State, Folded
  <2> QED
    BY <2>2, <2>5 DEF Observed, NoJob
<1>7. CASE PollCall
  <2>1. poll.pc = "call" /\ ~job.watch
    BY <1>0, <1>7 DEF PollCall, JobsType
  <2>2. CASE Return
    BY <1>out, <2>2 DEF Return, Idle
  <2>3. CASE ~Return
    <3>1. job' = [NoJob EXCEPT !.phase = "queued", !.watch = TRUE] /\ Goto("wait")
      BY <1>0, <1>7, <2>1, <2>3 DEF PollCall, Separate
    <3>2. job'.phase = "queued" /\ poll'.pc = "wait"
      BY <1>0, <3>1 DEF NoJob, Goto, PollType
    <3> QED
      BY <3>2 DEF Observed
  <2> QED
    BY <2>2, <2>3
<1>8. CASE Poller /\ ~PollCall
  <2>1. \/ poll' = poll /\ poll.pc = "idle"
        \/ Return \/ \E i \in Registered : poll' = [Idle EXCEPT !.pc = "root", !.snap = i]
        \/ \E pc \in PollPcs \ {"wait", "return"} : Goto(pc)
        \/ poll' = [poll EXCEPT !.pc = "dirty", !.head = tree.head]
        \/ poll' = [poll EXCEPT !.pc = "index", !.sig = Folded(tree.dirt)]
    BY <1>8 DEF Poller, PollBegin, PollRoot, PollBaseline, PollHead, PollDirty, PollIndex,
           PollReturn, PruneBegin, PruneDelete, PruneNotify, PruneEnd, PollPcs
  <2>2. CASE Return \/ \E i \in Registered : poll' = [Idle EXCEPT !.pc = "root", !.snap = i]
    <3>1. \A i : [Idle EXCEPT !.pc = "root", !.snap = i].pc = "root"
      BY DEF Idle
    <3>2. poll'.pc \in {"idle", "root"}
      <4>1. Idle.pc = "idle"
        BY DEF Idle
      <4> QED
        BY <2>2, <3>1, <4>1 DEF Return
    <3> QED
      BY <1>out, <3>2
  <2>3. CASE \/ poll' = poll /\ poll.pc = "idle"
             \/ \E pc \in PollPcs \ {"wait", "return"} : Goto(pc)
             \/ poll' = [poll EXCEPT !.pc = "dirty", !.head = tree.head]
             \/ poll' = [poll EXCEPT !.pc = "index", !.sig = Folded(tree.dirt)]
    <3>1. poll'.pc \notin {"wait", "return"}
      BY <1>0, <2>3 DEF Goto, PollType
    <3> QED
      BY <1>out, <3>1
  <2> QED
    BY <2>1, <2>2, <2>3
<1> QED
  BY <1>1, <1>2, <1>3, <1>4, <1>5, <1>6, <1>7, <1>8 DEF Next

-----------------------------------------------------------------------------
(* The invariant and the theorems.                                         *)
LEMMA StepHolds == IInv /\ [Next]_vars => IInv'
<1> SUFFICES ASSUME IInv, [Next]_vars PROVE IInv'
  OBVIOUS
<1>1. CASE Next
  <2>1. TypeOK'
    BY <1>1, WorldStepType, SessionStepType, JobStepType, PollStepType DEF Next
  <2>2. Agree'
    BY <1>1, OtherStepAgree, SessionStepAgree, PollStepAgree DEF Next
  <2>3. Ordered' /\ Separate'
    BY <1>1, EditOrdered, OtherStepOrdered, PollStepOrdered DEF Next
  <2>4. ToolOptions = "custom" => Observed'
    BY <1>1, ObservedStep
  <2> QED
    BY <2>1, <2>2, <2>3, <2>4 DEF IInv
<1>2. CASE UNCHANGED vars
  BY <1>2 DEF vars, IInv, TypeOK, Agree, Registered, State, Ordered, Folded, Separate,
              Observed, Fresh, Committed
<1> QED
  BY <1>1, <1>2

\* Whatever the sessions, the tools, the jobs and the polling thread do, in any
\* order and however often: the strengthening that the theorems below rest on.
THEOREM Invariance == Spec => []IInv
<1>1. Init => IInv
  BY InitHolds
<1>2. IInv /\ [Next]_vars => IInv'
  BY StepHolds
<1> QED
  BY <1>1, <1>2, PTL DEF Spec

\* Every variable keeps its type; the reservation is held exactly while a prune
\* deletes, and the polling thread waits exactly for a job it has joined.
THEOREM TypeCorrect == Spec => []TypeOK
<1>1. IInv => TypeOK
  BY DEF IInv
<1> QED
  BY <1>1, Invariance, PTL

\* The daemon's logical watches and the watcher's table agree in every reachable
\* state, and the object that the polling thread holds is never a freed one.
THEOREM TablesAlwaysAgree == Spec => []WatchesAgree
<1>1. IInv => WatchesAgree
  <2> SUFFICES ASSUME IInv PROVE WatchesAgree
    OBVIOUS
  <2>1. Agree
    BY DEF IInv
  <2>2. Cardinality(Registered) <= 1
    <3>1. CASE Registered = {}
      BY <3>1, FS_EmptySet
    <3>2. CASE Registered # {}
      <4>1. PICK i \in Registered : TRUE
        BY <3>2
      <4>2. Registered = {i}
        BY <2>1, <4>1 DEF Agree
      <4> QED
        BY <4>2, FS_Singleton
    <3> QED
      BY <3>1, <3>2
  <2> QED
    BY <2>1, <2>2 DEF WatchesAgree, Agree
<1> QED
  BY <1>1, Invariance, PTL

\* A prune removes a database only under its reservation, while the root is
\* missing and no worker reads the project, and for a registration that has
\* itself seen the root missing DeleteAfter times: prune_missing_project looks
\* at everything again after it has reserved the project.
THEOREM PrunesAlwaysSpare == Spec => PruneSparesProject
<1> DEFINE Spares == poll.pc = "delete" /\ db # Nothing /\ db' = Nothing =>
                       /\ root = "missing" /\ job.phase # "read" /\ lease
                       /\ \E i \in Registered : obj[i].streak >= DeleteAfter
<1>1. IInv /\ [Next]_vars => [Spares]_vars
  <2> SUFFICES ASSUME IInv, Next, poll.pc = "delete", db # Nothing, db' = Nothing
               PROVE  /\ root = "missing" /\ job.phase # "read" /\ lease
                      /\ \E i \in Registered : obj[i].streak >= DeleteAfter
    BY DEF vars
  <2>1. lease /\ job.phase # "read" /\ poll.snap \in States
    BY TypeParts DEF IInv, PollerType, PollType, Separate
  <2>2. PruneDelete
    <3>1. ~ToolDelete /\ ~JobEnd
      BY <2>1 DEF ToolDelete, JobEnd
    <3> QED
      BY <3>1 DEF Next, Edit, RootMove, SessionRefresh, SessionLeave, ToolIndex, JobRead,
           Poller, PollBegin, PollRoot, PollBaseline, PollHead, PollDirty, PollIndex,
           PollCall, PollReturn, PruneBegin, PruneNotify, PruneEnd
  <2>3. IsRegistered /\ State.streak >= DeleteAfter /\ root = "missing"
    BY <2>2 DEF PruneDelete
  <2> QED
    BY <2>1, <2>3 DEF IsRegistered, State, Registered
<1>2. PruneSparesProject <=> [][Spares]_vars
  BY DEF PruneSparesProject
<1> HIDE DEF Spares
<1>3. Spec => [][Next]_vars
  BY DEF Spec
<1> QED
  BY <1>1, <1>2, <1>3, Invariance, PTL

\* As long as no tool's index has the options of the watcher's own, so that the
\* watcher never joins a job that has already read the tree, baselines that
\* poll_project commits after a successful index and that agree with the tree mean
\* that the database was made from this tree.
THEOREM NothingIsLost == ToolOptions = "custom" => (Spec => NeverLost)
<1> SUFFICES ASSUME ToolOptions = "custom" PROVE Spec => NeverLost
  OBVIOUS
<1> DEFINE Kept == LET after == obj'[poll.snap] IN
                   /\ poll.pc = "return" /\ poll'.pc = "idle" /\ poll.rc = 0
                   /\ after.head = tree.head /\ after.sig = Folded(tree.dirt)
                   /\ db # Nothing
                   => db = tree
<1>1. IInv /\ [Next]_vars => [Kept]_vars
  <2> SUFFICES ASSUME IInv, Next, poll.pc = "return", poll'.pc = "idle", poll.rc = 0,
                      obj'[poll.snap].head = tree.head,
                      obj'[poll.snap].sig = Folded(tree.dirt), db # Nothing
               PROVE  db = tree
    BY DEF vars
  <2>1. poll.snap \in States /\ ObjectsType /\ State \in ObjType /\ PollerType /\ JobsType
    BY TypeParts DEF IInv, PollerType, PollType, ObjectsType, State
  <2>2. PollReturn
    <3>1. ~JobEnd
      <4>1. JobEnd => poll' = poll
        <5>1. ~job.watch
          BY <2>1 DEF JobsType
        <5>2. JobEnd => \E rc \in 0..2 : JobOver(rc)
          BY DEF JobEnd
        <5>3. \A rc : JobOver(rc) => poll' = poll
          BY <5>1, Zenon DEF JobOver
        <5> QED
          BY <5>2, <5>3
      <4> QED
        BY <4>1
    <3> QED
      BY <3>1 DEF Next, Edit, RootMove, SessionRefresh, SessionLeave, ToolIndex, ToolDelete,
           JobRead, Poller, PollBegin, PollRoot, PollBaseline, PollHead, PollDirty, PollIndex,
           PollCall, PruneBegin, PruneDelete, PruneNotify, PruneEnd
  <2>3. obj'[poll.snap].head = Committed /\ obj'[poll.snap].sig = poll.sig
    <3>1. obj' = [obj EXCEPT ![poll.snap].head = IF poll.head # 0 THEN poll.head ELSE @,
                             ![poll.snap].sig = poll.sig]
      BY <2>2 DEF PollReturn
    <3>2. obj' = [obj EXCEPT ![poll.snap] = [State EXCEPT !.head = Committed, !.sig = poll.sig]]
      BY <2>1, <3>1 DEF Committed, State, ObjectsType
    <3>3. obj'[poll.snap] = [State EXCEPT !.head = Committed, !.sig = poll.sig]
      BY <2>1, <3>2 DEF ObjectsType
    <3> QED
      BY <2>1, <3>3 DEF ObjType
  <2>4. Fresh(db)
    BY DEF IInv, Observed
  <2> QED
    BY <2>3, <2>4 DEF Fresh
<1>2. NeverLost <=> [][Kept]_vars
  BY DEF NeverLost
<1> HIDE DEF Kept
<1>3. Spec => [][Next]_vars
  BY DEF Spec
<1> QED
  BY <1>1, <1>2, <1>3, Invariance, PTL
=============================================================================
