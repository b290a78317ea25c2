------------------------ MODULE ProjectMutationProofs ------------------------
(***************************************************************************)
(* Proofs about ProjectMutation for any processes, names, keys and         *)
(* folding.  The invariant adds to the types where in the code a worker    *)
(* can hold a part of a lease (Layout), and that the project set and the   *)
(* project keys are read/write locks (SetExclusion, KeyExclusion).         *)
(*                                                                         *)
(* The second part shows that the locks implement ProjectLeases.  It needs *)
(* that an operation deals with "*" or with named projects, never with     *)
(* both (StarAlone): owning "*" excludes the worker's own keys as well.    *)
(***************************************************************************)
EXTENDS ProjectMutation, TLAPS

(* Which parts of its current lease a worker holds, by its place.          *)
WorkerLayout(w) ==
  /\ pc[w] \in {"turn", "set", "key", "done", "release"} => current[w] \in Name
  /\ w \in setHeld => pc[w] \in {"key", "done", "release"}
  /\ w \in keyHeld => pc[w] \in {"done", "release"} /\ current[w] # Star
  /\ pc[w] = "key" => w \in setHeld /\ current[w] # Star
  /\ pc[w] = "done" => w \in setHeld /\ (current[w] # Star => w \in keyHeld)

Layout == \A w \in Workers : WorkerLayout(w)

(* The project set has one exclusive holder or any number of shared ones.  *)
SetExclusion ==
  \A v, w \in Workers : v # w /\ Star \in UnderSet(w) => UnderSet(v) = {}

(* A project key has one holder.                                           *)
KeyExclusion ==
  \A v, w \in Workers : v # w => KeysOf(UnderKey(v)) \cap KeysOf(UnderKey(w)) = {}

IInv == TypeOK /\ Layout /\ SetExclusion /\ KeyExclusion
-----------------------------------------------------------------------------
(* Every step keeps the types and the layout.                               *)
LEMMA TypeOKStep == TypeOK /\ Layout /\ [Next]_vars => (TypeOK /\ Layout)'
<1> SUFFICES ASSUME TypeOK /\ Layout, [Next]_vars
             PROVE  (TypeOK /\ Layout)'
  OBVIOUS
<1> USE MutationAssumption DEF TypeOK, Layout, WorkerLayout, Goto, Name, Place
<1>1. ASSUME NEW w \in Workers, NEW names \in Request, BeginOperation(w, names) PROVE (TypeOK /\ Layout)'
  BY <1>1 DEF BeginOperation, LeaseKeys, Request
<1>2. ASSUME NEW w \in Workers, NEW n \in Name, NextLease(w, n) PROVE (TypeOK /\ Layout)'
  BY <1>2 DEF NextLease, FirstOf
<1>3. ASSUME NEW w \in Workers, StartWork(w) PROVE (TypeOK /\ Layout)'
  BY <1>3 DEF StartWork
<1>4. ASSUME NEW w \in Workers, TakeSetTurn(w) PROVE (TypeOK /\ Layout)'
  BY <1>4 DEF TakeSetTurn, TurnMode
<1>5. ASSUME NEW w \in Workers, TakeSet(w) PROVE (TypeOK /\ Layout)'
  BY <1>5 DEF TakeSet, SetFree
<1>6. ASSUME NEW w \in Workers, TakeKey(w) PROVE (TypeOK /\ Layout)'
  BY <1>6 DEF TakeKey
<1>7. ASSUME NEW w \in Workers, RecordLease(w) PROVE (TypeOK /\ Layout)'
  BY <1>7 DEF RecordLease
<1>8. ASSUME NEW w \in Workers, RoundEnds(w) PROVE (TypeOK /\ Layout)'
  BY <1>8 DEF RoundEnds, AbandonRound
<1>9. ASSUME NEW w \in Workers, LockFails(w) PROVE (TypeOK /\ Layout)'
  BY <1>9 DEF LockFails, AbandonRound
<1>10. ASSUME NEW w \in Workers, EndWork(w) PROVE (TypeOK /\ Layout)'
  BY <1>10 DEF EndWork
<1>11. ASSUME NEW w \in Workers, NEW n \in Name, BeginRelease(w, n) PROVE (TypeOK /\ Layout)'
  BY <1>11 DEF BeginRelease, LastOf
<1>12. ASSUME NEW w \in Workers, ReleaseStep(w) PROVE (TypeOK /\ Layout)'
  BY <1>12 DEF ReleaseStep, ReleasePart
<1>13. ASSUME NEW w \in Workers, EndRelease(w) PROVE (TypeOK /\ Layout)'
  BY <1>13 DEF EndRelease
<1>14. ASSUME NEW w \in Workers, EndOperation(w) PROVE (TypeOK /\ Layout)'
  BY <1>14 DEF EndOperation
<1>15. ASSUME NEW w \in Workers, Crash(w) PROVE (TypeOK /\ Layout)'
  BY <1>15 DEF Crash
<1>16. CASE UNCHANGED vars
  BY <1>16 DEF vars
<1> QED
  BY <1>1, <1>2, <1>3, <1>4, <1>5, <1>6, <1>7, <1>8, <1>9,
     <1>10, <1>11, <1>12, <1>13, <1>14, <1>15, <1>16 DEF Next

(* The set is only taken when it is free.                                  *)
LEMMA SetExclusionStep == IInv /\ [Next]_vars => SetExclusion'
<1> SUFFICES ASSUME IInv, [Next]_vars
             PROVE  SetExclusion'
  OBVIOUS
<1> USE DEF IInv, TypeOK, Layout, WorkerLayout, SetExclusion, UnderSet, Goto, Name
<1>1. ASSUME NEW w \in Workers, NEW names \in Request, BeginOperation(w, names) PROVE SetExclusion'
  BY <1>1 DEF BeginOperation, LeaseKeys, Request
<1>2. ASSUME NEW w \in Workers, NEW n \in Name, NextLease(w, n) PROVE SetExclusion'
  BY <1>2 DEF NextLease, FirstOf
<1>3. ASSUME NEW w \in Workers, StartWork(w) PROVE SetExclusion'
  BY <1>3 DEF StartWork
<1>4. ASSUME NEW w \in Workers, TakeSetTurn(w) PROVE SetExclusion'
  BY <1>4 DEF TakeSetTurn, TurnMode
<1>5. ASSUME NEW w \in Workers, TakeSet(w) PROVE SetExclusion'
  BY <1>5 DEF TakeSet, SetFree
<1>6. ASSUME NEW w \in Workers, TakeKey(w) PROVE SetExclusion'
  BY <1>6 DEF TakeKey
<1>7. ASSUME NEW w \in Workers, RecordLease(w) PROVE SetExclusion'
  BY <1>7 DEF RecordLease
<1>8. ASSUME NEW w \in Workers, RoundEnds(w) PROVE SetExclusion'
  BY <1>8 DEF RoundEnds, AbandonRound
<1>9. ASSUME NEW w \in Workers, LockFails(w) PROVE SetExclusion'
  BY <1>9 DEF LockFails, AbandonRound
<1>10. ASSUME NEW w \in Workers, EndWork(w) PROVE SetExclusion'
  BY <1>10 DEF EndWork
<1>11. ASSUME NEW w \in Workers, NEW n \in Name, BeginRelease(w, n) PROVE SetExclusion'
  BY <1>11 DEF BeginRelease, LastOf
<1>12. ASSUME NEW w \in Workers, ReleaseStep(w) PROVE SetExclusion'
  BY <1>12 DEF ReleaseStep, ReleasePart
<1>13. ASSUME NEW w \in Workers, EndRelease(w) PROVE SetExclusion'
  BY <1>13 DEF EndRelease
<1>14. ASSUME NEW w \in Workers, EndOperation(w) PROVE SetExclusion'
  BY <1>14 DEF EndOperation
<1>15. ASSUME NEW w \in Workers, Crash(w) PROVE SetExclusion'
  BY <1>15 DEF Crash
<1>16. CASE UNCHANGED vars
  BY <1>16 DEF vars
<1> QED
  BY <1>1, <1>2, <1>3, <1>4, <1>5, <1>6, <1>7, <1>8, <1>9,
     <1>10, <1>11, <1>12, <1>13, <1>14, <1>15, <1>16 DEF Next

(* Giving keys back keeps them exclusive.                                  *)
LEMMA KeysGivenBack ==
  KeyExclusion /\ (\A v \in Workers : UnderKey(v)' \subseteq UnderKey(v)) => KeyExclusion'
  BY DEF KeyExclusion, KeysOf

(* A key is only taken when it is free.                                    *)
LEMMA KeyExclusionStep == IInv /\ [Next]_vars => KeyExclusion'
<1> SUFFICES ASSUME IInv, [Next]_vars
             PROVE  KeyExclusion'
  OBVIOUS
<1> USE DEF IInv, TypeOK, Layout, WorkerLayout, KeyExclusion, UnderKey, KeysOf, Goto, Name
<1>1. ASSUME NEW w \in Workers, NEW names \in Request, BeginOperation(w, names) PROVE KeyExclusion'
  BY <1>1 DEF BeginOperation, LeaseKeys, Request
<1>2. ASSUME NEW w \in Workers, NEW n \in Name, NextLease(w, n) PROVE KeyExclusion'
  BY <1>2 DEF NextLease, FirstOf
<1>3. ASSUME NEW w \in Workers, StartWork(w) PROVE KeyExclusion'
  BY <1>3 DEF StartWork
<1>4. ASSUME NEW w \in Workers, TakeSetTurn(w) PROVE KeyExclusion'
  BY <1>4 DEF TakeSetTurn, TurnMode
<1>5. ASSUME NEW w \in Workers, TakeSet(w) PROVE KeyExclusion'
  BY <1>5 DEF TakeSet, SetFree
<1>6. ASSUME NEW w \in Workers, TakeKey(w) PROVE KeyExclusion'
  BY <1>6 DEF TakeKey
<1>7. ASSUME NEW w \in Workers, RecordLease(w) PROVE KeyExclusion'
  <2>1. \A v \in Workers : UnderKey(v)' \subseteq UnderKey(v)
    BY <1>7 DEF RecordLease
  <2> QED
    BY <2>1, KeysGivenBack
<1>8. ASSUME NEW w \in Workers, RoundEnds(w) PROVE KeyExclusion'
  BY <1>8 DEF RoundEnds, AbandonRound
<1>9. ASSUME NEW w \in Workers, LockFails(w) PROVE KeyExclusion'
  BY <1>9 DEF LockFails, AbandonRound
<1>10. ASSUME NEW w \in Workers, EndWork(w) PROVE KeyExclusion'
  BY <1>10 DEF EndWork
<1>11. ASSUME NEW w \in Workers, NEW n \in Name, BeginRelease(w, n) PROVE KeyExclusion'
  <2>1. \A v \in Workers : UnderKey(v)' \subseteq UnderKey(v)
    BY <1>11 DEF BeginRelease, LastOf
  <2> QED
    BY <2>1, KeysGivenBack DEF KeyExclusion
<1>12. ASSUME NEW w \in Workers, ReleaseStep(w) PROVE KeyExclusion'
  <2>1. \A v \in Workers : UnderKey(v)' \subseteq UnderKey(v)
    BY <1>12 DEF ReleaseStep, ReleasePart
  <2> QED
    BY <2>1, KeysGivenBack DEF KeyExclusion
<1>13. ASSUME NEW w \in Workers, EndRelease(w) PROVE KeyExclusion'
  BY <1>13 DEF EndRelease
<1>14. ASSUME NEW w \in Workers, EndOperation(w) PROVE KeyExclusion'
  BY <1>14 DEF EndOperation
<1>15. ASSUME NEW w \in Workers, Crash(w) PROVE KeyExclusion'
  <2>1. \A v \in Workers : UnderKey(v)' \subseteq UnderKey(v)
    BY <1>15 DEF Crash
  <2> QED
    BY <2>1, KeysGivenBack DEF KeyExclusion
<1>16. CASE UNCHANGED vars
  BY <1>16 DEF vars
<1> QED
  BY <1>1, <1>2, <1>3, <1>4, <1>5, <1>6, <1>7, <1>8, <1>9,
     <1>10, <1>11, <1>12, <1>13, <1>14, <1>15, <1>16 DEF Next

(* IInv holds in every state of the project mutations.                     *)
THEOREM Invariance == Spec => []IInv
<1>1. Init => IInv
  BY MutationAssumption DEF Init, IInv, TypeOK, Layout, WorkerLayout, SetExclusion,
     KeyExclusion, UnderSet, UnderKey, KeysOf, Name, Place
<1>2. IInv /\ [Next]_vars => IInv'
  BY TypeOKStep, SetExclusionStep, KeyExclusionStep DEF IInv
<1> QED
  BY <1>1, <1>2, PTL DEF Spec

(* Types of all variables.                                                 *)
THEOREM TypeCorrect == Spec => []TypeOK
<1>1. IInv => TypeOK
  BY DEF IInv
<1> QED
  BY <1>1, Invariance, PTL

(* Processes work on disjoint projects, whatever their spelling.           *)
THEOREM WorkIsAlwaysDisjoint == Spec => []WorkIsDisjoint
<1>1. IInv => WorkIsDisjoint
  BY DEF IInv, SetExclusion, KeyExclusion, UnderSet, UnderKey, KeysOf, WorkIsDisjoint
<1> QED
  BY <1>1, Invariance, PTL

(* A locked set means that every project key is free.                      *)
THEOREM StarAlwaysOwnsEverything == Spec => []StarOwnsEverything
<1>1. IInv => StarOwnsEverything
  BY DEF IInv, TypeOK, SetExclusion, UnderSet, UnderKey, StarOwnsEverything
<1> QED
  BY <1>1, Invariance, PTL

(* OperationsExclude: both together, as the run checks them.               *)
THEOREM OperationsAlwaysExclude == Spec => []OperationsExclude
  BY WorkIsAlwaysDisjoint, StarAlwaysOwnsEverything, PTL DEF OperationsExclude
-----------------------------------------------------------------------------
(* The names that the operation of a worker still deals with.              *)
NamesOf(w) ==
  wanted[w] \cup leases[w]
    \cup (IF pc[w] \in {"turn", "set", "key", "done", "release"}
           THEN {current[w]} ELSE {})

(* "*" is a request of its own, and an operation starts with no leases.    *)
StarAlone ==
  \A w \in Workers :
    /\ Star \in NamesOf(w) => NamesOf(w) \subseteq {Star}
    /\ pc[w] = "idle" => leases[w] = {}

(* An operation that only sheds names keeps StarAlone.                     *)
LEMMA NamesShed ==
  ASSUME StarAlone,
         \A v \in Workers : NamesOf(v)' \subseteq NamesOf(v),
         \A v \in Workers : pc'[v] = "idle" => leases'[v] = {}
  PROVE  StarAlone'
  BY DEF StarAlone

(* Only BeginOperation gives names to an operation, all of one request.    *)
LEMMA StarAloneStep == IInv /\ StarAlone /\ [Next]_vars => StarAlone'
<1> SUFFICES ASSUME IInv, StarAlone, [Next]_vars
             PROVE  StarAlone'
  OBVIOUS
<1> DEFINE Shed == \A v \in Workers : NamesOf(v)' \subseteq NamesOf(v)
           Bare == \A v \in Workers : pc'[v] = "idle" => leases'[v] = {}
<1> USE DEF IInv, TypeOK, Layout, WorkerLayout, Goto, Name, Place
<1>1. ASSUME NEW w \in Workers, NEW names \in Request, BeginOperation(w, names) PROVE StarAlone'
  <2>1. /\ leases[w] = {}
        /\ Star \in names => names = {Star}
        /\ LeaseKeys(names) \subseteq names
    BY <1>1, MutationAssumption DEF StarAlone, BeginOperation, Request, LeaseKeys
  <2>2. NamesOf(w)' \subseteq names /\ pc'[w] # "idle"
    BY <1>1, <2>1 DEF BeginOperation, NamesOf
  <2>3. ASSUME NEW v \in Workers, v # w
        PROVE  NamesOf(v)' = NamesOf(v) /\ pc'[v] = pc[v] /\ leases'[v] = leases[v]
    BY <1>1, <2>3 DEF BeginOperation, NamesOf
  <2> QED
    BY <2>1, <2>2, <2>3 DEF StarAlone
<1>2. ASSUME NEW w \in Workers, NEW n \in Name, NextLease(w, n) PROVE Shed /\ Bare
  BY <1>2 DEF NextLease, FirstOf, StarAlone, NamesOf
<1>3. ASSUME NEW w \in Workers, StartWork(w) PROVE Shed /\ Bare
  BY <1>3 DEF StartWork, StarAlone, NamesOf
<1>4. ASSUME NEW w \in Workers, TakeSetTurn(w) PROVE Shed /\ Bare
  BY <1>4 DEF TakeSetTurn, StarAlone, NamesOf
<1>5. ASSUME NEW w \in Workers, TakeSet(w) PROVE Shed /\ Bare
  BY <1>5 DEF TakeSet, StarAlone, NamesOf
<1>6. ASSUME NEW w \in Workers, TakeKey(w) PROVE Shed /\ Bare
  BY <1>6 DEF TakeKey, StarAlone, NamesOf
<1>7. ASSUME NEW w \in Workers, RecordLease(w) PROVE Shed /\ Bare
  BY <1>7 DEF RecordLease, StarAlone, NamesOf
<1>8. ASSUME NEW w \in Workers, RoundEnds(w) PROVE Shed /\ Bare
  BY <1>8 DEF RoundEnds, AbandonRound, StarAlone, NamesOf
<1>9. ASSUME NEW w \in Workers, LockFails(w) PROVE Shed /\ Bare
  BY <1>9 DEF LockFails, AbandonRound, StarAlone, NamesOf
<1>10. ASSUME NEW w \in Workers, EndWork(w) PROVE Shed /\ Bare
  BY <1>10 DEF EndWork, StarAlone, NamesOf
<1>11. ASSUME NEW w \in Workers, NEW n \in Name, BeginRelease(w, n) PROVE Shed /\ Bare
  BY <1>11 DEF BeginRelease, LastOf, StarAlone, NamesOf
<1>12. ASSUME NEW w \in Workers, ReleaseStep(w) PROVE Shed /\ Bare
  BY <1>12 DEF ReleaseStep, StarAlone, NamesOf
<1>13. ASSUME NEW w \in Workers, EndRelease(w) PROVE Shed /\ Bare
  BY <1>13 DEF EndRelease, StarAlone, NamesOf
<1>14. ASSUME NEW w \in Workers, EndOperation(w) PROVE Shed /\ Bare
  BY <1>14 DEF EndOperation, StarAlone, NamesOf
<1>15. ASSUME NEW w \in Workers, Crash(w) PROVE Shed /\ Bare
  BY <1>15 DEF Crash, StarAlone, NamesOf
<1>16. ASSUME UNCHANGED vars PROVE Shed /\ Bare
  BY <1>16 DEF vars, StarAlone, NamesOf
<1>17. Shed /\ Bare => StarAlone'
  BY NamesShed
<1> HIDE DEF Shed, Bare
<1> QED
  BY <1>1, <1>2, <1>3, <1>4, <1>5, <1>6, <1>7, <1>8, <1>9, <1>10, <1>11,
     <1>12, <1>13, <1>14, <1>15, <1>16, <1>17 DEF Next
-----------------------------------------------------------------------------
(* What the table says is a matter of the keys and of "*" in the set.      *)
SameKeys == \A v \in Workers : UnderKey(v)' = UnderKey(v)
SameStar == \A v \in Workers : Star \in UnderSet(v)' <=> Star \in UnderSet(v)

LEMMA OwnedSame == SameKeys => UNCHANGED [w \in Workers |-> KeysOf(UnderKey(w))]
  BY DEF SameKeys, KeysOf

LEMMA AllSame == SameStar => UNCHANGED {w \in Workers : Star \in UnderSet(w)}
  BY DEF SameStar

LEMMA TableSame == SameKeys /\ SameStar => UNCHANGED Promise!table
  BY OwnedSame, AllSame DEF Promise!table

(* The steps of an acquisition or of a release that only change the turn,  *)
(* the place, or whether a lease counts as current, change no entry.       *)
LEMMA TableSteps ==
  ASSUME IInv, NEW w \in Workers
  PROVE  /\ \A names \in Request : BeginOperation(w, names) => SameKeys /\ SameStar
         /\ \A n \in Name : NextLease(w, n) => SameKeys /\ SameStar
         /\ StartWork(w) => SameKeys /\ SameStar
         /\ TakeSetTurn(w) => SameKeys /\ SameStar
         /\ RecordLease(w) => SameKeys /\ SameStar
         /\ RoundEnds(w) => SameKeys /\ SameStar
         /\ LockFails(w) => SameKeys /\ SameStar
         /\ EndWork(w) => SameKeys /\ SameStar
         /\ \A n \in Name : BeginRelease(w, n) => SameKeys /\ SameStar
         /\ EndRelease(w) => SameKeys /\ SameStar
         /\ EndOperation(w) => SameKeys /\ SameStar
<1> USE DEF IInv, TypeOK, Layout, WorkerLayout, SameKeys, SameStar, UnderKey, UnderSet, Goto, Name
<1>1. ASSUME NEW names \in Request, BeginOperation(w, names) PROVE SameKeys /\ SameStar
  BY <1>1 DEF BeginOperation
<1>2. ASSUME NEW n \in Name, NextLease(w, n) PROVE SameKeys /\ SameStar
  BY <1>2 DEF NextLease
<1>3. ASSUME StartWork(w) PROVE SameKeys /\ SameStar
  BY <1>3 DEF StartWork
<1>4. ASSUME TakeSetTurn(w) PROVE SameKeys /\ SameStar
  BY <1>4 DEF TakeSetTurn
<1>5. ASSUME RecordLease(w) PROVE SameKeys /\ SameStar
  BY <1>5 DEF RecordLease
<1>6. ASSUME RoundEnds(w) PROVE SameKeys /\ SameStar
  BY <1>6 DEF RoundEnds, AbandonRound
<1>7. ASSUME LockFails(w) PROVE SameKeys /\ SameStar
  BY <1>7 DEF LockFails, AbandonRound
<1>8. ASSUME EndWork(w) PROVE SameKeys /\ SameStar
  BY <1>8 DEF EndWork
<1>9. ASSUME NEW n \in Name, BeginRelease(w, n) PROVE SameKeys /\ SameStar
  BY <1>9 DEF BeginRelease, LastOf
<1>10. ASSUME EndRelease(w) PROVE SameKeys /\ SameStar
  BY <1>10 DEF EndRelease
<1>11. ASSUME EndOperation(w) PROVE SameKeys /\ SameStar
  BY <1>11 DEF EndOperation
<1> QED
  BY <1>1, <1>2, <1>3, <1>4, <1>5, <1>6, <1>7, <1>8, <1>9, <1>10, <1>11

(* A key is owned from the step that locks its file.                       *)
LEMMA TakeKeyOwns ==
  ASSUME IInv, StarAlone, NEW w \in Workers, TakeKey(w)
  PROVE  Promise!Own(w, Fold[current[w]]) /\ Fold[current[w]] \in Keys
<1> USE DEF IInv, TypeOK, Layout, WorkerLayout
<1>1. pc[w] = "key" /\ w \in setHeld /\ current[w] # Star /\ current[w] \in Projects
  BY DEF TakeKey, Name
<1>2. Star \notin leases[w]
  BY <1>1 DEF StarAlone, NamesOf
<1>3. \A v \in Workers : Star \notin UnderSet(v)
  BY <1>1, <1>2 DEF SetExclusion, UnderSet
<1>4. /\ UnderKey(w)' = UnderKey(w) \cup {current[w]}
      /\ \A v \in Workers : v # w => UnderKey(v)' = UnderKey(v)
  BY <1>1 DEF TakeKey, UnderKey
<1>5. SameStar
  BY DEF TakeKey, SameStar, UnderSet
<1>6. [v \in Workers |-> KeysOf(UnderKey(v))]'
        = [[v \in Workers |-> KeysOf(UnderKey(v))] EXCEPT
             ![w] = @ \cup {Fold[current[w]]}]
  <2>1. KeysOf(UnderKey(w))' = KeysOf(UnderKey(w)) \cup {Fold[current[w]]}
    BY <1>4 DEF KeysOf
  <2>2. \A v \in Workers : v # w => KeysOf(UnderKey(v))' = KeysOf(UnderKey(v))
    BY <1>4 DEF KeysOf
  <2> QED
    BY <2>1, <2>2
<1>7. \A v \in Workers : Fold[current[w]] \notin KeysOf(UnderKey(v))
  BY DEF TakeKey
<1>8. Fold[current[w]] \in Keys
  BY <1>1, MutationAssumption
<1> QED
  BY <1>3, <1>5, <1>6, <1>7, <1>8, AllSame DEF Promise!Own

(* Locking the set exclusively finds it free of everybody's keys.          *)
LEMMA TakeSetOwnsAll ==
  ASSUME IInv, StarAlone, NEW w \in Workers, TakeSet(w)
  PROVE  Promise!OwnAll(w) \/ UNCHANGED Promise!table
<1> USE DEF IInv, TypeOK, Layout, WorkerLayout
<1>1. pc[w] = "set" /\ w \notin setHeld /\ w \notin keyHeld
  BY DEF TakeSet
<1>2. SameKeys
  BY DEF TakeSet, SameKeys, UnderKey
<1>3. /\ UnderSet(w)' = UnderSet(w) \cup {current[w]}
      /\ \A v \in Workers : v # w => UnderSet(v)' = UnderSet(v)
  BY <1>1 DEF TakeSet, UnderSet
<1>4. CASE current[w] # Star
  <2>1. SameStar
    BY <1>3, <1>4 DEF SameStar
  <2> QED
    BY <1>2, <2>1, TableSame
<1>5. CASE current[w] = Star
  <2>1. leases[w] \subseteq {Star}
    BY <1>1, <1>5 DEF StarAlone, NamesOf
  <2>2. \A v \in Workers : v # w => UnderSet(v) = {} /\ UnderKey(v) = {}
    BY <1>5 DEF TakeSet, SetFree, UnderSet, UnderKey
  <2>3. UnderKey(w) = {}
    BY <1>1, <2>1 DEF UnderKey
  <2>4. CASE Star \in UnderSet(w)
    <3>1. SameStar
      BY <1>3, <2>4 DEF SameStar
    <3> QED
      BY <1>2, <3>1, TableSame
  <2>5. CASE Star \notin UnderSet(w)
    <3>1. {v \in Workers : Star \in UnderSet(v)} = {}
      BY <2>2, <2>5
    <3>2. {v \in Workers : Star \in UnderSet(v)}' = {w}
      BY <1>3, <1>5, <2>2
    <3>3. \A v \in Workers : KeysOf(UnderKey(v)) = {}
      BY <2>2, <2>3 DEF KeysOf
    <3> QED
      BY <1>2, <3>1, <3>2, <3>3, OwnedSame DEF Promise!OwnAll
  <2> QED
    BY <2>4, <2>5
<1> QED
  BY <1>4, <1>5

(* A release gives up the key, then the set; a shared set is no entry.     *)
LEMMA ReleaseDisowns ==
  ASSUME IInv, NEW w \in Workers, ReleaseStep(w)
  PROVE  \/ \E k \in Keys : Promise!Disown(w, k)
         \/ Promise!DisownAll(w)
         \/ UNCHANGED Promise!table
<1> USE DEF IInv, TypeOK, Layout, WorkerLayout
<1>1. CASE w \in keyHeld
  <2>1. /\ current[w] \in Projects /\ w \in setHeld
        /\ keyHeld' = keyHeld \ {w}
        /\ UNCHANGED <<leases, current, setHeld>>
    BY <1>1 DEF ReleaseStep, ReleasePart, Name
  <2>2. SameStar
    BY <2>1 DEF SameStar, UnderSet
  <2>3. /\ UnderKey(w) = (leases[w] \ {Star}) \cup {current[w]}
        /\ UnderKey(w)' = leases[w] \ {Star}
        /\ \A v \in Workers : v # w => UnderKey(v)' = UnderKey(v)
    BY <1>1, <2>1, MutationAssumption DEF UnderKey
  <2> DEFINE k == Fold[current[w]]
  <2>4. k \in Keys /\ k \in KeysOf(UnderKey(w))
    BY <2>1, <2>3, MutationAssumption DEF KeysOf
  <2>5. \A v \in Workers : v # w => KeysOf(UnderKey(v))' = KeysOf(UnderKey(v))
    BY <2>3 DEF KeysOf
  <2>6. CASE k \in KeysOf(leases[w] \ {Star})
    <3>1. KeysOf(UnderKey(w))' = KeysOf(UnderKey(w))
      BY <2>3, <2>6 DEF KeysOf
    <3>2. UNCHANGED [v \in Workers |-> KeysOf(UnderKey(v))]
      BY <2>5, <3>1
    <3> QED
      BY <2>2, <3>2, AllSame DEF Promise!table
  <2>7. CASE k \notin KeysOf(leases[w] \ {Star})
    <3>1. KeysOf(UnderKey(w))' = KeysOf(UnderKey(w)) \ {k}
      BY <2>3, <2>7 DEF KeysOf
    <3>2. [v \in Workers |-> KeysOf(UnderKey(v))]'
            = [[v \in Workers |-> KeysOf(UnderKey(v))] EXCEPT ![w] = @ \ {k}]
      BY <2>5, <3>1
    <3> HIDE DEF k
    <3> QED
      BY <2>2, <2>4, <3>2, AllSame DEF Promise!Disown
  <2> QED
    BY <2>6, <2>7
<1>2. CASE w \notin keyHeld
  <2>1. /\ w \in setHeld /\ setHeld' = setHeld \ {w}
        /\ UNCHANGED <<leases, current, keyHeld>>
    BY <1>2 DEF ReleaseStep, ReleasePart
  <2>2. SameKeys
    BY <2>1 DEF SameKeys, UnderKey
  <2>3. /\ UnderSet(w) = leases[w] \cup {current[w]}
        /\ UnderSet(w)' = leases[w]
        /\ \A v \in Workers : v # w => UnderSet(v)' = UnderSet(v)
    BY <2>1 DEF UnderSet
  <2>4. CASE current[w] = Star /\ Star \notin leases[w]
    <3>1. /\ w \in {v \in Workers : Star \in UnderSet(v)}
          /\ {v \in Workers : Star \in UnderSet(v)}'
               = {v \in Workers : Star \in UnderSet(v)} \ {w}
      BY <2>3, <2>4
    <3> QED
      BY <2>2, <3>1, OwnedSame DEF Promise!DisownAll
  <2>5. CASE current[w] # Star \/ Star \in leases[w]
    <3>1. SameStar
      BY <2>3, <2>5 DEF SameStar
    <3> QED
      BY <2>2, <3>1, TableSame
  <2> QED
    BY <2>4, <2>5
<1> QED
  BY <1>1, <1>2

(* The kernel drops all locks of a dead process at once.                   *)
LEMMA CrashDies ==
  ASSUME IInv, NEW w \in Workers, Crash(w)
  PROVE  Promise!Die(w)
<1> USE DEF IInv, TypeOK
<1>1. /\ UnderKey(w)' = {} /\ UnderSet(w)' = {}
      /\ \A v \in Workers : v # w =>
           UnderKey(v)' = UnderKey(v) /\ UnderSet(v)' = UnderSet(v)
  BY DEF Crash, UnderKey, UnderSet
<1>2. /\ KeysOf(UnderKey(w))' = {}
      /\ \A v \in Workers : v # w => KeysOf(UnderKey(v))' = KeysOf(UnderKey(v))
  BY <1>1 DEF KeysOf
<1>3. [v \in Workers |-> KeysOf(UnderKey(v))]'
        = [[v \in Workers |-> KeysOf(UnderKey(v))] EXCEPT ![w] = {}]
  BY <1>2
<1>4. {v \in Workers : Star \in UnderSet(v)}'
        = {v \in Workers : Star \in UnderSet(v)} \ {w}
  BY <1>1
<1> QED
  BY <1>3, <1>4 DEF Promise!Die

(* Every step is a step of the table or none.                              *)
LEMMA ProjectLeasesStep ==
  IInv /\ StarAlone /\ [Next]_vars => [Promise!Next]_(Promise!table)
<1> SUFFICES ASSUME IInv, StarAlone, [Next]_vars
             PROVE  Promise!Next \/ UNCHANGED Promise!table
  OBVIOUS
<1>1. ASSUME NEW w \in Workers, TakeKey(w) PROVE Promise!Next
  BY <1>1, TakeKeyOwns DEF Promise!Next
<1>2. ASSUME NEW w \in Workers, TakeSet(w) PROVE Promise!Next \/ UNCHANGED Promise!table
  BY <1>2, TakeSetOwnsAll DEF Promise!Next
<1>3. ASSUME NEW w \in Workers, ReleaseStep(w) PROVE Promise!Next \/ UNCHANGED Promise!table
  BY <1>3, ReleaseDisowns DEF Promise!Next
<1>4. ASSUME NEW w \in Workers, Crash(w) PROVE Promise!Next
  BY <1>4, CrashDies DEF Promise!Next
<1>5. CASE UNCHANGED vars
  BY <1>5, TableSame DEF vars, SameKeys, SameStar, UnderKey, UnderSet
<1> QED
  BY <1>1, <1>2, <1>3, <1>4, <1>5, TableSteps, TableSame DEF Next

(* An operation deals with "*" or with named projects, in every state.     *)
THEOREM StarIsAlwaysAlone == Spec => []StarAlone
<1>1. Init => StarAlone
  BY DEF Init, StarAlone, NamesOf
<1> QED
  BY <1>1, StarAloneStep, Invariance, PTL DEF Spec

(* ImplementsProjectLeases: the lock of the project set and the locks of   *)
(* the keys are one table of exclusive leases.                             *)
THEOREM ProjectLeasesImplemented == Spec => ImplementsProjectLeases
<1>1. Init => Promise!Init
  BY DEF Init, Promise!Init, UnderKey, UnderSet, KeysOf
<1> QED
  BY <1>1, ProjectLeasesStep, Invariance, StarIsAlwaysAlone, PTL
  DEF Spec, ImplementsProjectLeases, Promise!Spec
=============================================================================
