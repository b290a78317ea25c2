------------------------ MODULE VersionCohortProofs ------------------------
(***************************************************************************)
(* Proofs about VersionCohort for any number of participants, mutators and *)
(* builds.                                                                 *)
(*                                                                         *)
(* The inductive invariant says what the safety properties leave out: the  *)
(* locks are exclusive (Exclusion), where a process is determines what it  *)
(* holds (Layout), and where it is inside admission determines what it     *)
(* knows of the record (Knowledge).                                        *)
(***************************************************************************)
EXTENDS VersionCohort, TLAPS

(* Native locks: an exclusive one is alone, also among observers.          *)
Exclusion ==
  /\ \A f \in File : \A q, r \in Process :
       q # r /\ lock[f][q] = "EX" => lock[f][r] = "none"
  /\ \A q \in Process : lock["maintenance"][q] = "EX" => probing = {}

(* What a participant holds, by its place in the code.                     *)
ParticipantLayout(p) ==
  /\ lock["maintenance"][p] # "EX"
  /\ lock["admission"][p] # "SH"
  /\ lock["startup"][p] # "none" => pc[p] = "in"
  /\ lock["lifetime"][p] = "EX" => lock["admission"][p] = "EX"
  /\ pc[p] \in Acquiring => lock["maintenance"][p] = "SH"
  /\ pc[p] \in {"in", "out"} => /\ lock["maintenance"][p] = "none"
                                /\ lock["admission"][p] = "none"
  /\ pc[p] \in Acquiring \ {"admission", "settle"} => lock["admission"][p] = "EX"
  /\ pc[p] \in {"claim", "write", "downgrade"} <=>
       lock["lifetime"][p] = "EX" /\ pc[p] # "cleanup"
  /\ pc[p] \in {"compare", "settle", "in"} <=>
       lock["lifetime"][p] = "SH" /\ pc[p] # "cleanup"

(* What a mutator holds, by its place in the code.                         *)
MutatorLayout(m) ==
  /\ \A f \in File : lock[f][m] # "SH"
  /\ lock["startup"][m] = "EX" <=> pc[m] = "mutate"
  /\ lock["lifetime"][m] = "EX" => lock["admission"][m] = "EX"
  /\ pc[m] \in {"admission", "probe", "quiesce", "drain", "own", "mutate"} =>
       lock["maintenance"][m] = "EX"
  /\ pc[m] \in {"probe", "quiesce", "drain", "own", "mutate"} =>
       lock["admission"][m] = "EX"
  /\ pc[m] \in {"own", "mutate"} <=>
       lock["lifetime"][m] = "EX" /\ pc[m] # "cleanup"

Layout ==
  /\ \A p \in Participants : ParticipantLayout(p)
  /\ \A m \in Mutators : MutatorLayout(m)

(* What a participant knows of the record, by its place in the code.       *)
ParticipantKnowledge(p) ==
  /\ pc[p] # "out" => build[p] \in Builds
  /\ pc[p] \in {"downgrade", "reopen"} => record = build[p]
  /\ pc[p] \in {"join", "compare"} => record \in Builds
  /\ pc[p] = "retry" => record # build[p]
  /\ lock["lifetime"][p] = "SH" /\ pc[p] # "compare" => record = build[p]

Knowledge == \A p \in Participants : ParticipantKnowledge(p)

IInv == TypeOK /\ Exclusion /\ Layout /\ Knowledge
-----------------------------------------------------------------------------
(* Every step keeps the types.                                             *)
LEMMA TypeOKStep == TypeOK /\ [Next]_vars => TypeOK'
<1> SUFFICES ASSUME TypeOK, [Next]_vars
             PROVE  TypeOK'
  OBVIOUS
<1> USE CohortAssumption DEF TypeOK, Goto, Fail, Take, Process, ParticipantPc, MutatorPc, Acquiring,
    Reserving, Mode, File, Status, observerVars
<1>1. ASSUME NEW p \in Participants, NEW b \in Builds, EnterGate(p, b) PROVE TypeOK'
  BY <1>1 DEF EnterGate
<1>2. ASSUME NEW q \in Process, EnterAdmission(q) PROVE TypeOK'
  BY <1>2 DEF EnterAdmission
<1>3. ASSUME NEW p \in Participants, ProbeLifetime(p) PROVE TypeOK'
  BY <1>3 DEF ProbeLifetime
<1>4. ASSUME NEW p \in Participants, BeginRecord(p) PROVE TypeOK'
  BY <1>4 DEF BeginRecord
<1>5. ASSUME NEW p \in Participants, EndRecord(p) PROVE TypeOK'
  BY <1>5 DEF EndRecord
<1>6. ASSUME NEW p \in Participants, RecordFails(p) PROVE TypeOK'
  BY <1>6 DEF RecordFails
<1>7. ASSUME NEW p \in Participants, ReleaseClaim(p) PROVE TypeOK'
  BY <1>7 DEF ReleaseClaim
<1>8. ASSUME NEW p \in Participants, ReopenShared(p) PROVE TypeOK'
  BY <1>8 DEF ReopenShared
<1>9. ASSUME NEW p \in Participants, JoinLifetime(p) PROVE TypeOK'
  BY <1>9 DEF JoinLifetime
<1>10. ASSUME NEW p \in Participants, CompareRecord(p) PROVE TypeOK'
  BY <1>10 DEF CompareRecord, Compatible
<1>11. ASSUME NEW p \in Participants, RetryClaim(p) PROVE TypeOK'
  BY <1>11 DEF RetryClaim
<1>12. ASSUME NEW p \in Participants, EndAdmission(p) PROVE TypeOK'
  BY <1>12 DEF EndAdmission
<1>13. ASSUME NEW p \in Participants, LeaveGate(p) PROVE TypeOK'
  BY <1>13 DEF LeaveGate
<1>14. ASSUME NEW p \in Participants, EnterStartup(p) PROVE TypeOK'
  BY <1>14 DEF EnterStartup
<1>15. ASSUME NEW p \in Participants, LeaveStartup(p) PROVE TypeOK'
  BY <1>15 DEF LeaveStartup
<1>16. ASSUME NEW p \in Participants, ReleaseLease(p) PROVE TypeOK'
  BY <1>16 DEF ReleaseLease, MayRelease
<1>17. ASSUME NEW p \in Participants, MonitorProbe(p) PROVE TypeOK'
  BY <1>17 DEF MonitorProbe
<1>18. ASSUME NEW p \in Participants, MonitorRelease(p) PROVE TypeOK'
  BY <1>18 DEF MonitorRelease
<1>19. ASSUME NEW p \in Participants, MonitorNotices(p) PROVE TypeOK'
  BY <1>19 DEF MonitorNotices
<1>20. ASSUME NEW p \in Participants, MaintenanceExit(p) PROVE TypeOK'
  BY <1>20 DEF MaintenanceExit, ProcessEnds
<1>21. ASSUME NEW q \in Process, Crash(q) PROVE TypeOK'
  BY <1>21 DEF Crash, ProcessEnds
<1>22. ASSUME NEW m \in Mutators, BeginReserve(m) PROVE TypeOK'
  BY <1>22 DEF BeginReserve
<1>23. ASSUME NEW m \in Mutators, ReserveIntent(m) PROVE TypeOK'
  BY <1>23 DEF ReserveIntent
<1>24. ASSUME NEW m \in Mutators, ReserveProbe(m) PROVE TypeOK'
  BY <1>24 DEF ReserveProbe
<1>25. ASSUME NEW m \in Mutators, QuiesceRequested(m) PROVE TypeOK'
  BY <1>25 DEF QuiesceRequested
<1>26. ASSUME NEW m \in Mutators, QuiesceFails(m) PROVE TypeOK'
  BY <1>26 DEF QuiesceFails
<1>27. ASSUME NEW m \in Mutators, Drained(m) PROVE TypeOK'
  BY <1>27 DEF Drained
<1>28. ASSUME NEW m \in Mutators, OwnStartup(m) PROVE TypeOK'
  BY <1>28 DEF OwnStartup
<1>29. ASSUME NEW m \in Mutators, EndMutation(m) PROVE TypeOK'
  BY <1>29 DEF EndMutation
<1>30. ASSUME NEW q \in Process, GiveUp(q) PROVE TypeOK'
  BY <1>30 DEF GiveUp
<1>31. ASSUME NEW q \in Process, LockFails(q) PROVE TypeOK'
  BY <1>31 DEF LockFails
<1>32. ASSUME NEW q \in Process, ReleaseOne(q) PROVE TypeOK'
  BY <1>32 DEF ReleaseOne, NextToRelease
<1>33. ASSUME NEW q \in Process, EndCleanup(q) PROVE TypeOK'
  BY <1>33 DEF EndCleanup, NextToRelease
<1>34. CASE UNCHANGED vars
  BY <1>34 DEF vars
<1> QED
  BY <1>1, <1>2, <1>3, <1>4, <1>5, <1>6, <1>7, <1>8, <1>9, <1>10, <1>11,
     <1>12, <1>13, <1>14, <1>15, <1>16, <1>17, <1>18, <1>19, <1>20, <1>21,
     <1>22, <1>23, <1>24, <1>25, <1>26, <1>27, <1>28, <1>29, <1>30, <1>31,
     <1>32, <1>33, <1>34 DEF Next

(* A lock is only taken when it is granted, so exclusive locks stay alone; *)
(* a monitor's observer lock is granted on the same terms.                 *)
LEMMA ExclusionStep == IInv /\ [Next]_vars => Exclusion'
<1> SUFFICES ASSUME IInv, [Next]_vars
             PROVE  Exclusion'
  OBVIOUS
<1> USE CohortAssumption DEF IInv, TypeOK, Goto, Fail, Take, Process, ParticipantPc, MutatorPc,
    Acquiring, Reserving, Mode, File, Status, observerVars, Layout, ParticipantLayout, Exclusion, Grantable
<1>1. ASSUME NEW p \in Participants, NEW b \in Builds, EnterGate(p, b) PROVE Exclusion'
  BY <1>1 DEF EnterGate
<1>2. ASSUME NEW q \in Process, EnterAdmission(q) PROVE Exclusion'
  BY <1>2 DEF EnterAdmission
<1>3. ASSUME NEW p \in Participants, ProbeLifetime(p) PROVE Exclusion'
  BY <1>3 DEF ProbeLifetime
<1>4. ASSUME NEW p \in Participants, BeginRecord(p) PROVE Exclusion'
  BY <1>4 DEF BeginRecord
<1>5. ASSUME NEW p \in Participants, EndRecord(p) PROVE Exclusion'
  BY <1>5 DEF EndRecord
<1>6. ASSUME NEW p \in Participants, RecordFails(p) PROVE Exclusion'
  BY <1>6 DEF RecordFails
<1>7. ASSUME NEW p \in Participants, ReleaseClaim(p) PROVE Exclusion'
  BY <1>7 DEF ReleaseClaim
<1>8. ASSUME NEW p \in Participants, ReopenShared(p) PROVE Exclusion'
  BY <1>8 DEF ReopenShared
<1>9. ASSUME NEW p \in Participants, JoinLifetime(p) PROVE Exclusion'
  BY <1>9 DEF JoinLifetime
<1>10. ASSUME NEW p \in Participants, CompareRecord(p) PROVE Exclusion'
  BY <1>10 DEF CompareRecord, Compatible
<1>11. ASSUME NEW p \in Participants, RetryClaim(p) PROVE Exclusion'
  BY <1>11 DEF RetryClaim
<1>12. ASSUME NEW p \in Participants, EndAdmission(p) PROVE Exclusion'
  BY <1>12 DEF EndAdmission
<1>13. ASSUME NEW p \in Participants, LeaveGate(p) PROVE Exclusion'
  BY <1>13 DEF LeaveGate
<1>14. ASSUME NEW p \in Participants, EnterStartup(p) PROVE Exclusion'
  BY <1>14 DEF EnterStartup
<1>15. ASSUME NEW p \in Participants, LeaveStartup(p) PROVE Exclusion'
  BY <1>15 DEF LeaveStartup
<1>16. ASSUME NEW p \in Participants, ReleaseLease(p) PROVE Exclusion'
  BY <1>16 DEF ReleaseLease, MayRelease
<1>17. ASSUME NEW p \in Participants, MonitorProbe(p) PROVE Exclusion'
  BY <1>17 DEF MonitorProbe
<1>18. ASSUME NEW p \in Participants, MonitorRelease(p) PROVE Exclusion'
  BY <1>18 DEF MonitorRelease
<1>19. ASSUME NEW p \in Participants, MonitorNotices(p) PROVE Exclusion'
  BY <1>19 DEF MonitorNotices
<1>20. ASSUME NEW p \in Participants, MaintenanceExit(p) PROVE Exclusion'
  BY <1>20 DEF MaintenanceExit, ProcessEnds
<1>21. ASSUME NEW q \in Process, Crash(q) PROVE Exclusion'
  BY <1>21 DEF Crash, ProcessEnds
<1>22. ASSUME NEW m \in Mutators, BeginReserve(m) PROVE Exclusion'
  BY <1>22 DEF BeginReserve
<1>23. ASSUME NEW m \in Mutators, ReserveIntent(m) PROVE Exclusion'
  BY <1>23 DEF ReserveIntent
<1>24. ASSUME NEW m \in Mutators, ReserveProbe(m) PROVE Exclusion'
  BY <1>24 DEF ReserveProbe
<1>25. ASSUME NEW m \in Mutators, QuiesceRequested(m) PROVE Exclusion'
  BY <1>25 DEF QuiesceRequested
<1>26. ASSUME NEW m \in Mutators, QuiesceFails(m) PROVE Exclusion'
  BY <1>26 DEF QuiesceFails
<1>27. ASSUME NEW m \in Mutators, Drained(m) PROVE Exclusion'
  BY <1>27 DEF Drained
<1>28. ASSUME NEW m \in Mutators, OwnStartup(m) PROVE Exclusion'
  BY <1>28 DEF OwnStartup
<1>29. ASSUME NEW m \in Mutators, EndMutation(m) PROVE Exclusion'
  BY <1>29 DEF EndMutation
<1>30. ASSUME NEW q \in Process, GiveUp(q) PROVE Exclusion'
  BY <1>30 DEF GiveUp
<1>31. ASSUME NEW q \in Process, LockFails(q) PROVE Exclusion'
  BY <1>31 DEF LockFails
<1>32. ASSUME NEW q \in Process, ReleaseOne(q) PROVE Exclusion'
  BY <1>32 DEF ReleaseOne, NextToRelease
<1>33. ASSUME NEW q \in Process, EndCleanup(q) PROVE Exclusion'
  BY <1>33 DEF EndCleanup, NextToRelease
<1>34. CASE UNCHANGED vars
  BY <1>34 DEF vars
<1> QED
  BY <1>1, <1>2, <1>3, <1>4, <1>5, <1>6, <1>7, <1>8, <1>9, <1>10, <1>11,
     <1>12, <1>13, <1>14, <1>15, <1>16, <1>17, <1>18, <1>19, <1>20, <1>21,
     <1>22, <1>23, <1>24, <1>25, <1>26, <1>27, <1>28, <1>29, <1>30, <1>31,
     <1>32, <1>33, <1>34 DEF Next

(* Every step takes or drops what the place it goes to says, and leaves    *)
(* what the others hold alone.                                             *)
LEMMA LayoutStep == IInv /\ [Next]_vars => Layout'
<1> SUFFICES ASSUME IInv, [Next]_vars
             PROVE  Layout'
  OBVIOUS
<1> USE CohortAssumption DEF IInv, TypeOK, Goto, Fail, Take, Process, ParticipantPc, MutatorPc,
    Acquiring, Reserving, Mode, File, Status, observerVars, Layout, ParticipantLayout, MutatorLayout
<1>1. ASSUME NEW p \in Participants, NEW b \in Builds, EnterGate(p, b) PROVE Layout'
  BY <1>1 DEF EnterGate
<1>2. ASSUME NEW q \in Process, EnterAdmission(q) PROVE Layout'
  BY <1>2 DEF EnterAdmission
<1>3. ASSUME NEW p \in Participants, ProbeLifetime(p) PROVE Layout'
  BY <1>3 DEF ProbeLifetime
<1>4. ASSUME NEW p \in Participants, BeginRecord(p) PROVE Layout'
  BY <1>4 DEF BeginRecord
<1>5. ASSUME NEW p \in Participants, EndRecord(p) PROVE Layout'
  BY <1>5 DEF EndRecord
<1>6. ASSUME NEW p \in Participants, RecordFails(p) PROVE Layout'
  BY <1>6 DEF RecordFails
<1>7. ASSUME NEW p \in Participants, ReleaseClaim(p) PROVE Layout'
  BY <1>7 DEF ReleaseClaim
<1>8. ASSUME NEW p \in Participants, ReopenShared(p) PROVE Layout'
  BY <1>8 DEF ReopenShared
<1>9. ASSUME NEW p \in Participants, JoinLifetime(p) PROVE Layout'
  BY <1>9 DEF JoinLifetime
<1>10. ASSUME NEW p \in Participants, CompareRecord(p) PROVE Layout'
  BY <1>10 DEF CompareRecord, Compatible
<1>11. ASSUME NEW p \in Participants, RetryClaim(p) PROVE Layout'
  BY <1>11 DEF RetryClaim
<1>12. ASSUME NEW p \in Participants, EndAdmission(p) PROVE Layout'
  BY <1>12 DEF EndAdmission
<1>13. ASSUME NEW p \in Participants, LeaveGate(p) PROVE Layout'
  BY <1>13 DEF LeaveGate
<1>14. ASSUME NEW p \in Participants, EnterStartup(p) PROVE Layout'
  BY <1>14 DEF EnterStartup
<1>15. ASSUME NEW p \in Participants, LeaveStartup(p) PROVE Layout'
  BY <1>15 DEF LeaveStartup
<1>16. ASSUME NEW p \in Participants, ReleaseLease(p) PROVE Layout'
  BY <1>16 DEF ReleaseLease, MayRelease
<1>17. ASSUME NEW p \in Participants, MonitorProbe(p) PROVE Layout'
  BY <1>17 DEF MonitorProbe
<1>18. ASSUME NEW p \in Participants, MonitorRelease(p) PROVE Layout'
  BY <1>18 DEF MonitorRelease
<1>19. ASSUME NEW p \in Participants, MonitorNotices(p) PROVE Layout'
  BY <1>19 DEF MonitorNotices
<1>20. ASSUME NEW p \in Participants, MaintenanceExit(p) PROVE Layout'
  BY <1>20 DEF MaintenanceExit, ProcessEnds
<1>21. ASSUME NEW q \in Process, Crash(q) PROVE Layout'
  BY <1>21 DEF Crash, ProcessEnds
<1>22. ASSUME NEW m \in Mutators, BeginReserve(m) PROVE Layout'
  BY <1>22 DEF BeginReserve
<1>23. ASSUME NEW m \in Mutators, ReserveIntent(m) PROVE Layout'
  BY <1>23 DEF ReserveIntent
<1>24. ASSUME NEW m \in Mutators, ReserveProbe(m) PROVE Layout'
  BY <1>24 DEF ReserveProbe
<1>25. ASSUME NEW m \in Mutators, QuiesceRequested(m) PROVE Layout'
  BY <1>25 DEF QuiesceRequested
<1>26. ASSUME NEW m \in Mutators, QuiesceFails(m) PROVE Layout'
  BY <1>26 DEF QuiesceFails
<1>27. ASSUME NEW m \in Mutators, Drained(m) PROVE Layout'
  BY <1>27 DEF Drained
<1>28. ASSUME NEW m \in Mutators, OwnStartup(m) PROVE Layout'
  BY <1>28 DEF OwnStartup
<1>29. ASSUME NEW m \in Mutators, EndMutation(m) PROVE Layout'
  BY <1>29 DEF EndMutation
<1>30. ASSUME NEW q \in Process, GiveUp(q) PROVE Layout'
  BY <1>30 DEF GiveUp
<1>31. ASSUME NEW q \in Process, LockFails(q) PROVE Layout'
  BY <1>31 DEF LockFails
<1>32. ASSUME NEW q \in Process, ReleaseOne(q) PROVE Layout'
  BY <1>32 DEF ReleaseOne, NextToRelease
<1>33. ASSUME NEW q \in Process, EndCleanup(q) PROVE Layout'
  BY <1>33 DEF EndCleanup, NextToRelease
<1>34. CASE UNCHANGED vars
  BY <1>34 DEF vars
<1> QED
  BY <1>1, <1>2, <1>3, <1>4, <1>5, <1>6, <1>7, <1>8, <1>9, <1>10, <1>11,
     <1>12, <1>13, <1>14, <1>15, <1>16, <1>17, <1>18, <1>19, <1>20, <1>21,
     <1>22, <1>23, <1>24, <1>25, <1>26, <1>27, <1>28, <1>29, <1>30, <1>31,
     <1>32, <1>33, <1>34 DEF Next

(* The record is only written under exclusive admission and lifetime       *)
(* locks, so nobody else is inside admission or shares the lifetime file   *)
(* when what is known of it changes.                                       *)
LEMMA KnowledgeStep == IInv /\ [Next]_vars => Knowledge'
<1> SUFFICES ASSUME IInv, [Next]_vars
             PROVE  Knowledge'
  OBVIOUS
<1> USE CohortAssumption DEF IInv, TypeOK, Goto, Fail, Take, Process, ParticipantPc, MutatorPc,
    Acquiring, Reserving, Mode, File, Status, observerVars, Exclusion, Layout, ParticipantLayout, MutatorLayout, Grantable, Knowledge, ParticipantKnowledge
<1>1. ASSUME NEW p \in Participants, NEW b \in Builds, EnterGate(p, b) PROVE Knowledge'
  BY <1>1 DEF EnterGate
<1>2. ASSUME NEW q \in Process, EnterAdmission(q) PROVE Knowledge'
  BY <1>2 DEF EnterAdmission
<1>3. ASSUME NEW p \in Participants, ProbeLifetime(p) PROVE Knowledge'
  BY <1>3 DEF ProbeLifetime
<1>4. ASSUME NEW p \in Participants, BeginRecord(p) PROVE Knowledge'
  BY <1>4 DEF BeginRecord
<1>5. ASSUME NEW p \in Participants, EndRecord(p) PROVE Knowledge'
  BY <1>5 DEF EndRecord
<1>6. ASSUME NEW p \in Participants, RecordFails(p) PROVE Knowledge'
  BY <1>6 DEF RecordFails
<1>7. ASSUME NEW p \in Participants, ReleaseClaim(p) PROVE Knowledge'
  BY <1>7 DEF ReleaseClaim
<1>8. ASSUME NEW p \in Participants, ReopenShared(p) PROVE Knowledge'
  BY <1>8 DEF ReopenShared
<1>9. ASSUME NEW p \in Participants, JoinLifetime(p) PROVE Knowledge'
  BY <1>9 DEF JoinLifetime
<1>10. ASSUME NEW p \in Participants, CompareRecord(p) PROVE Knowledge'
  BY <1>10 DEF CompareRecord, Compatible
<1>11. ASSUME NEW p \in Participants, RetryClaim(p) PROVE Knowledge'
  BY <1>11 DEF RetryClaim
<1>12. ASSUME NEW p \in Participants, EndAdmission(p) PROVE Knowledge'
  BY <1>12 DEF EndAdmission
<1>13. ASSUME NEW p \in Participants, LeaveGate(p) PROVE Knowledge'
  BY <1>13 DEF LeaveGate
<1>14. ASSUME NEW p \in Participants, EnterStartup(p) PROVE Knowledge'
  BY <1>14 DEF EnterStartup
<1>15. ASSUME NEW p \in Participants, LeaveStartup(p) PROVE Knowledge'
  BY <1>15 DEF LeaveStartup
<1>16. ASSUME NEW p \in Participants, ReleaseLease(p) PROVE Knowledge'
  BY <1>16 DEF ReleaseLease, MayRelease
<1>17. ASSUME NEW p \in Participants, MonitorProbe(p) PROVE Knowledge'
  BY <1>17 DEF MonitorProbe
<1>18. ASSUME NEW p \in Participants, MonitorRelease(p) PROVE Knowledge'
  BY <1>18 DEF MonitorRelease
<1>19. ASSUME NEW p \in Participants, MonitorNotices(p) PROVE Knowledge'
  BY <1>19 DEF MonitorNotices
<1>20. ASSUME NEW p \in Participants, MaintenanceExit(p) PROVE Knowledge'
  BY <1>20 DEF MaintenanceExit, ProcessEnds
<1>21. ASSUME NEW q \in Process, Crash(q) PROVE Knowledge'
  BY <1>21 DEF Crash, ProcessEnds
<1>22. ASSUME NEW m \in Mutators, BeginReserve(m) PROVE Knowledge'
  BY <1>22 DEF BeginReserve
<1>23. ASSUME NEW m \in Mutators, ReserveIntent(m) PROVE Knowledge'
  BY <1>23 DEF ReserveIntent
<1>24. ASSUME NEW m \in Mutators, ReserveProbe(m) PROVE Knowledge'
  BY <1>24 DEF ReserveProbe
<1>25. ASSUME NEW m \in Mutators, QuiesceRequested(m) PROVE Knowledge'
  BY <1>25 DEF QuiesceRequested
<1>26. ASSUME NEW m \in Mutators, QuiesceFails(m) PROVE Knowledge'
  BY <1>26 DEF QuiesceFails
<1>27. ASSUME NEW m \in Mutators, Drained(m) PROVE Knowledge'
  BY <1>27 DEF Drained
<1>28. ASSUME NEW m \in Mutators, OwnStartup(m) PROVE Knowledge'
  BY <1>28 DEF OwnStartup
<1>29. ASSUME NEW m \in Mutators, EndMutation(m) PROVE Knowledge'
  BY <1>29 DEF EndMutation
<1>30. ASSUME NEW q \in Process, GiveUp(q) PROVE Knowledge'
  BY <1>30 DEF GiveUp
<1>31. ASSUME NEW q \in Process, LockFails(q) PROVE Knowledge'
  BY <1>31 DEF LockFails
<1>32. ASSUME NEW q \in Process, ReleaseOne(q) PROVE Knowledge'
  BY <1>32 DEF ReleaseOne, NextToRelease
<1>33. ASSUME NEW q \in Process, EndCleanup(q) PROVE Knowledge'
  BY <1>33 DEF EndCleanup, NextToRelease
<1>34. CASE UNCHANGED vars
  BY <1>34 DEF vars
<1> QED
  BY <1>1, <1>2, <1>3, <1>4, <1>5, <1>6, <1>7, <1>8, <1>9, <1>10, <1>11,
     <1>12, <1>13, <1>14, <1>15, <1>16, <1>17, <1>18, <1>19, <1>20, <1>21,
     <1>22, <1>23, <1>24, <1>25, <1>26, <1>27, <1>28, <1>29, <1>30, <1>31,
     <1>32, <1>33, <1>34 DEF Next

(* The inductive invariant holds in every reachable state.                 *)
THEOREM Invariance == Spec => []IInv
<1>1. Init => IInv
  BY CohortAssumption
     DEF Init, IInv, TypeOK, Exclusion, Layout, ParticipantLayout,
         MutatorLayout, Knowledge, ParticipantKnowledge, Process, File, Mode,
         Acquiring, Reserving, ParticipantPc, MutatorPc, Status
<1>2. IInv /\ [Next]_vars => IInv'
  BY TypeOKStep, ExclusionStep, LayoutStep, KnowledgeStep DEF IInv
<1> QED
  BY <1>1, <1>2, PTL DEF Spec

(* TypeOK: no step of any process leaves the ranges of the code's types.   *)
THEOREM TypeCorrect == Spec => []TypeOK
BY Invariance, PTL DEF IInv

(* ExactBuild: two builds are never active together, for any number of     *)
(* processes that claim, join, retry, crash or leave.                      *)
THEOREM ExactBuildHolds == Spec => []ExactBuild
<1>1. IInv => ExactBuild
  BY DEF IInv, Layout, ParticipantLayout, Knowledge, ParticipantKnowledge,
         ExactBuild, Active
<1> QED
  BY <1>1, Invariance, PTL

(* RecordReadable: a joiner never reads a torn record, so pmm_version_     *)
(* cohort_acquire never answers UNSAFE because a claimer died.             *)
THEOREM RecordAlwaysReadable == Spec => []RecordReadable
<1>1. IInv => RecordReadable
  BY DEF IInv, Knowledge, ParticipantKnowledge, RecordReadable
<1> QED
  BY <1>1, Invariance, PTL

(* LifetimeNeverWaits: the shared try behind a busy exclusive one, and the *)
(* shared lock that replaces a claim, are always granted.                  *)
THEOREM LifetimeIsGranted == Spec => []LifetimeNeverWaits
<1>1. IInv => LifetimeNeverWaits
  <2> SUFFICES ASSUME IInv, NEW p \in Participants, pc[p] \in {"join", "reopen"},
                      NEW q \in Process \ {p}
               PROVE  lock["lifetime"][q] # "EX"
    BY DEF LifetimeNeverWaits, Grantable
  <2>1. lock["admission"][p] = "EX" /\ p \in Process
    BY DEF IInv, Layout, ParticipantLayout, Acquiring, Process
  <2>2. lock["admission"][q] = "none"
    BY <2>1 DEF IInv, Exclusion, File
  <2> QED
    BY <2>2 DEF IInv, Layout, ParticipantLayout, MutatorLayout, Process
<1> QED
  BY <1>1, Invariance, PTL

(* What an owner of the barrier knows of everybody else.                   *)
LEMMA OwnerAlone ==
  ASSUME IInv, NEW m \in Owners
  PROVE  /\ \A q \in Process \ {m} : lock["lifetime"][q] = "none"
         /\ \A q \in Process \ {m} : lock["maintenance"][q] = "none"
<1>1. /\ m \in Process
      /\ lock["lifetime"][m] = "EX"
      /\ lock["maintenance"][m] = "EX"
  BY DEF IInv, Owners, Process, Layout, MutatorLayout
<1> QED
  BY <1>1 DEF IInv, Exclusion, File

(* MutationExclusive: the holder of the barrier is alone with the binary.  *)
THEOREM MutationIsExclusive == Spec => []MutationExclusive
<1>1. IInv => MutationExclusive
  <2> SUFFICES ASSUME IInv, NEW m \in Owners
               PROVE  /\ Owners = {m}
                      /\ \A p \in Participants : pc[p] \in {"out", "cleanup"}
    BY DEF MutationExclusive
  <2>1. ASSUME NEW n \in Owners, n # m PROVE FALSE
    <3>1. n \in Process \ {m} /\ lock["lifetime"][n] = "EX"
      BY <2>1 DEF Owners, Process, IInv, Layout, MutatorLayout
    <3> QED
      BY <3>1, OwnerAlone
  <2>2. ASSUME NEW p \in Participants PROVE pc[p] \in {"out", "cleanup"}
    <3>1. p \in Process \ {m}
      BY CohortAssumption DEF Owners, Process
    <3>2. lock["lifetime"][p] = "none" /\ lock["maintenance"][p] = "none"
      BY <3>1, OwnerAlone
    <3> QED
      BY <3>2 DEF IInv, TypeOK, ParticipantPc, Layout, ParticipantLayout
  <2> QED
    BY <2>1, <2>2
<1> QED
  BY <1>1, Invariance, PTL

(* StartupFreeForOwner: the last lock of an activation is not held by any  *)
(* participant.                                                            *)
THEOREM StartupIsFree == Spec => []StartupFreeForOwner
<1>1. IInv => StartupFreeForOwner
  <2> SUFFICES ASSUME IInv, NEW m \in Owners, NEW p \in Participants
               PROVE  lock["startup"][p] = "none"
    BY DEF StartupFreeForOwner
  <2>1. lock["lifetime"][p] = "none"
    BY OwnerAlone, CohortAssumption DEF Owners, Process
  <2> QED
    BY <2>1 DEF IInv, Layout, ParticipantLayout
<1> QED
  BY <1>1, Invariance, PTL

(* JoinUnobstructed: neither the record nor the lifetime lock turns away a *)
(* participant that is inside admission.                                   *)
THEOREM JoinsAreUnobstructed == Spec => []JoinUnobstructed
  BY RecordAlwaysReadable, LifetimeIsGranted, PTL DEF JoinUnobstructed

(* OwnerUnobstructed: the owner is alone, and the startup lock is free.    *)
THEOREM OwnersAreUnobstructed == Spec => []OwnerUnobstructed
  BY MutationIsExclusive, StartupIsFree, PTL DEF OwnerUnobstructed

(* Unobstructed: nothing that others do or leave behind is in the way of a *)
(* participant inside admission or of a mutation.                          *)
THEOREM EverybodyUnobstructed == Spec => []Unobstructed
  BY JoinsAreUnobstructed, OwnersAreUnobstructed, PTL DEF Unobstructed

(* ConflictIsReal: CONFLICT always names a build that holds the cohort at  *)
(* that very step.                                                         *)
THEOREM ConflictsAreReal == Spec => ConflictIsReal
<1> DEFINE Real ==
      \A p \in Participants :
        status[p] # "CONFLICT" /\ status'[p] = "CONFLICT" =>
          \E q \in Participants :
            lock["lifetime"][q] = "SH" /\ build[q] # build[p]
<1>1. ASSUME IInv, [Next]_vars PROVE Real
  <2> SUFFICES ASSUME NEW p \in Participants,
                      status[p] # "CONFLICT", status'[p] = "CONFLICT"
               PROVE  \E q \in Participants :
                        lock["lifetime"][q] = "SH" /\ build[q] # build[p]
    BY DEF Real
  <2>1. pc[p] = "retry" /\ ~Grantable("lifetime", p, "EX")
    BY <1>1
       DEF Next, vars, Goto, Fail, TypeOK, IInv, Process, Status,
           EnterGate, EnterAdmission, ProbeLifetime, BeginRecord,
           EndRecord, RecordFails, ReleaseClaim, ReopenShared,
           JoinLifetime, CompareRecord, EndAdmission, LeaveGate,
           EnterStartup, LeaveStartup, ReleaseLease, MonitorProbe,
           MonitorRelease, MonitorNotices, MaintenanceExit, Crash,
           BeginReserve, ReserveIntent, ReserveProbe, QuiesceRequested,
           QuiesceFails, Drained, OwnStartup, EndMutation, GiveUp,
           LockFails, ReleaseOne, EndCleanup, RetryClaim
  <2>2. PICK q \in Process \ {p} : lock["lifetime"][q] # "none"
    BY <2>1 DEF Grantable
  <2>3. lock["admission"][p] = "EX" /\ p \in Process
    BY <1>1, <2>1 DEF IInv, Layout, ParticipantLayout, Acquiring, Process
  <2>4. lock["admission"][q] = "none"
    BY <1>1, <2>3 DEF IInv, Exclusion, File
  <2>5. q \in Participants /\ lock["lifetime"][q] = "SH"
    BY <1>1, <2>2, <2>4 DEF IInv, TypeOK, Mode, File, Process, Layout,
                     ParticipantLayout, MutatorLayout
  <2>6. pc[q] # "compare"
    BY <1>1, <2>4, <2>5 DEF IInv, Layout, ParticipantLayout, Acquiring
  <2>7. record = build[q] /\ record # build[p]
    BY <1>1, <2>1, <2>5, <2>6 DEF IInv, Knowledge, ParticipantKnowledge
  <2> QED
    BY <2>5, <2>7
<1> QED
  BY <1>1, Invariance, PTL DEF Spec, ConflictIsReal

(* Steps that neither admit, release nor mutate are stutters of the        *)
(* abstract specification.                                                 *)
LEMMA Stutter ==
  ASSUME Active' = Active, Owners' = Owners,
         \A p \in Active : build'[p] = build[p]
  PROVE  UNCHANGED Admission!admissionVars
<1>1. {build'[p] : p \in Active'} = {build[p] : p \in Active}
  OBVIOUS
<1> QED
  BY <1>1 DEF Admission!admissionVars

(* The builds of the active participants: the record, if anybody is.       *)
LEMMA ActiveBuildIsRecord ==
  ASSUME IInv, NEW S \in SUBSET Active
  PROVE  {build[p] : p \in S} = IF S = {} THEN {} ELSE {record}
<1>1. \A p \in S : build[p] = record
  BY DEF Active, IInv, Layout, ParticipantLayout, Knowledge, ParticipantKnowledge
<1> QED
  BY <1>1

(* Getting the shared lifetime lock on the own record is an admission.     *)
LEMMA AdmitStep ==
  ASSUME IInv, NEW p \in Participants, pc[p] \in {"reopen", "compare"},
         record = build[p], build' = build, Goto(p, "settle")
  PROVE  Admission!Next
<1>0. build[p] \in Builds
  BY DEF IInv, Knowledge, ParticipantKnowledge
<1>1. /\ p \in Process
      /\ p \notin Active
      /\ lock["maintenance"][p] = "SH"
  BY DEF IInv, Process, Active, Layout, ParticipantLayout, Acquiring
<1>2. Owners = {}
  <2> SUFFICES ASSUME NEW m \in Owners PROVE FALSE
    OBVIOUS
  <2>1. p # m
    BY CohortAssumption DEF Owners
  <2> QED
    BY <1>1, <2>1, OwnerAlone
<1>3. Owners' = Owners
  BY CohortAssumption DEF Goto, Owners, IInv, TypeOK, Process
<1>4. Active' = Active \cup {p}
  BY <1>1 DEF Goto, Active, IInv, TypeOK, Process
<1>5. {build[q] : q \in Active} = IF Active = {} THEN {} ELSE {record}
  BY ActiveBuildIsRecord
<1>6. {build'[q] : q \in Active'} = {build[p]}
  BY <1>4, <1>5
<1>7. PICK b \in Builds : b = build[p]
  BY <1>0
<1>8. Admission!Admit(p, b)
  BY <1>1, <1>2, <1>3, <1>4, <1>5, <1>6, <1>7 DEF Admission!Admit
<1> QED
  BY <1>8 DEF Admission!Next

(* A participant that stops holding its lease, in whatever way, leaves.    *)
LEMMA LeaveStep ==
  ASSUME IInv, NEW p \in Participants, NEW where \in {"cleanup", "out"},
         build' = build, Goto(p, where)
  PROVE  [Admission!Next]_(Admission!admissionVars)
<1>1. Owners' = Owners
  BY CohortAssumption DEF Goto, Owners, IInv, TypeOK, Process
<1>2. Active' = Active \ {p}
  BY DEF Goto, Active, IInv, TypeOK, Process
<1>3. CASE p \notin Active
  BY <1>1, <1>2, <1>3, Stutter
<1>4. CASE p \in Active
  <2>1. {build[q] : q \in Active} = {record}
    BY <1>4, ActiveBuildIsRecord
  <2>2. {build[q] : q \in Active \ {p}}
          = IF Active \ {p} = {} THEN {} ELSE {record}
    BY ActiveBuildIsRecord
  <2>3. {build'[q] : q \in Active'} = IF Active' = {} THEN {} ELSE {record}
    BY <1>2, <2>2
  <2>4. Admission!Leave(p)
    BY <1>1, <1>2, <1>4, <2>1, <2>3 DEF Admission!Leave
  <2> QED
    BY <2>4 DEF Admission!Next
<1> QED
  BY <1>3, <1>4

(* Getting the exclusive lifetime lock begins a mutation.                  *)
LEMMA BeginStep ==
  ASSUME IInv, NEW m \in Mutators, pc[m] \in {"probe", "drain"},
         Grantable("lifetime", m, "EX"), build' = build, Goto(m, "own")
  PROVE  Admission!Next
<1>1. m \in Process /\ m \notin Owners
  BY DEF Process, Owners
<1>2. \A q \in Process \ {m} : lock["lifetime"][q] = "none"
  BY DEF Grantable
<1>3. Active = {}
  BY <1>2, CohortAssumption
     DEF Active, Process, IInv, Layout, ParticipantLayout
<1>4. Owners = {}
  BY <1>1, <1>2 DEF Owners, Process, IInv, Layout, MutatorLayout
<1>5. Active' = Active /\ Owners' = {m}
  BY <1>1, <1>4, CohortAssumption DEF Goto, Active, Owners, IInv, TypeOK, Process
<1>6. {build'[q] : q \in Active'} = {build[q] : q \in Active}
  BY <1>5
<1>7. Admission!BeginMutation(m)
  BY <1>3, <1>4, <1>5, <1>6 DEF Admission!BeginMutation
<1> QED
  BY <1>7 DEF Admission!Next

(* A mutator that gives the barrier up, or dies, ends its mutation.        *)
LEMMA EndStep ==
  ASSUME IInv, NEW m \in Mutators, NEW where \in {"cleanup", "out"},
         build' = build, Goto(m, where)
  PROVE  [Admission!Next]_(Admission!admissionVars)
<1>1. Active' = Active
  BY CohortAssumption DEF Goto, Active, IInv, TypeOK, Process
<1>2. Owners' = Owners \ {m}
  BY DEF Goto, Owners, IInv, TypeOK, Process
<1>3. CASE m \notin Owners
  BY <1>1, <1>2, <1>3, Stutter
<1>4. CASE m \in Owners
  <2>1. {build'[q] : q \in Active'} = {build[q] : q \in Active}
    BY <1>1
  <2>2. Admission!EndMutation(m)
    BY <1>1, <1>2, <1>4, <2>1 DEF Admission!EndMutation
  <2> QED
    BY <2>2 DEF Admission!Next
<1> QED
  BY <1>3, <1>4

(* A process that fails or dies.                                           *)
LEMMA EndOfCall ==
  ASSUME IInv, NEW q \in Process, NEW where \in {"cleanup", "out"},
         build' = build, Goto(q, where)
  PROVE  [Admission!Next]_(Admission!admissionVars)
BY LeaveStep, EndStep DEF Process

(* ImplementsAdmission: native locks, retries and crashes implement exact- *)
(* build admission as version_cohort.h promises it.                        *)
THEOREM AdmissionImplemented == Spec => ImplementsAdmission
<1>1. Init => Admission!Init
  <2> SUFFICES ASSUME Init PROVE Active = {} /\ Owners = {}
    BY DEF Admission!Init
  <2> QED
    BY DEF Init, Active, Owners, Process
<1>2. ASSUME IInv, [Next]_vars
      PROVE  [Admission!Next]_(Admission!admissionVars)
  <2> DEFINE Goal == [Admission!Next]_(Admission!admissionVars)
  <2> USE <1>2, CohortAssumption
  <2>1. ASSUME NEW p \in Participants, NEW b \in Builds, EnterGate(p, b) PROVE Goal
    BY <2>1, Stutter
       DEF EnterGate, Goto, Active, Owners, IInv, TypeOK, Process
  <2>2. ASSUME NEW q \in Process, EnterAdmission(q) PROVE Goal
    BY <2>2, Stutter
       DEF EnterAdmission, Goto, Active, Owners, IInv, TypeOK, Process
  <2>3. ASSUME NEW p \in Participants, ProbeLifetime(p) PROVE Goal
    BY <2>3, Stutter
       DEF ProbeLifetime, Goto, Active, Owners, IInv, TypeOK, Process
  <2>4. ASSUME NEW p \in Participants, BeginRecord(p) PROVE Goal
    BY <2>4, Stutter
       DEF BeginRecord, Goto, Active, Owners, IInv, TypeOK, Process
  <2>5. ASSUME NEW p \in Participants, EndRecord(p) PROVE Goal
    BY <2>5, Stutter
       DEF EndRecord, Goto, Active, Owners, IInv, TypeOK, Process
  <2>6. ASSUME NEW p \in Participants, RecordFails(p) PROVE Goal
    BY <2>6, LeaveStep DEF RecordFails, Fail
  <2>7. ASSUME NEW p \in Participants, ReleaseClaim(p) PROVE Goal
    BY <2>7, Stutter
       DEF ReleaseClaim, Goto, Active, Owners, IInv, TypeOK, Process
  <2>8. ASSUME NEW p \in Participants, ReopenShared(p) PROVE Goal
    BY <2>8, AdmitStep DEF ReopenShared, IInv, Knowledge,
         ParticipantKnowledge
  <2>9. ASSUME NEW p \in Participants, JoinLifetime(p) PROVE Goal
    <3>1. CASE Grantable("lifetime", p, "SH")
      BY <2>9, <3>1, Stutter
         DEF JoinLifetime, Goto, Active, Owners, IInv, TypeOK, Process
    <3>2. CASE ~Grantable("lifetime", p, "SH")
      BY <2>9, <3>2, LeaveStep DEF JoinLifetime, Fail
    <3> QED
      BY <3>1, <3>2
  <2>10. ASSUME NEW p \in Participants, CompareRecord(p) PROVE Goal
    <3>1. CASE record \notin Builds
      BY <2>10, <3>1, LeaveStep DEF CompareRecord, Fail
    <3>2. CASE record \in Builds /\ Compatible(p)
      BY <2>10, <3>2, AdmitStep DEF CompareRecord, Compatible
    <3>3. CASE record \in Builds /\ ~Compatible(p)
      BY <2>10, <3>3, Stutter
         DEF CompareRecord, Goto, Active, Owners, IInv, TypeOK, Process
    <3> QED
      BY <3>1, <3>2, <3>3
  <2>11. ASSUME NEW p \in Participants, RetryClaim(p) PROVE Goal
    <3>1. CASE Grantable("lifetime", p, "EX")
      BY <2>11, <3>1, Stutter
         DEF RetryClaim, Goto, Active, Owners, IInv, TypeOK, Process
    <3>2. CASE ~Grantable("lifetime", p, "EX")
      BY <2>11, <3>2, LeaveStep DEF RetryClaim, Fail
    <3> QED
      BY <3>1, <3>2
  <2>12. ASSUME NEW p \in Participants, EndAdmission(p) PROVE Goal
    BY <2>12, Stutter
       DEF EndAdmission, Goto, Active, Owners, IInv, TypeOK, Process
  <2>13. ASSUME NEW p \in Participants, LeaveGate(p) PROVE Goal
    BY <2>13, Stutter
       DEF LeaveGate, Goto, Active, Owners, IInv, TypeOK, Process
  <2>14. ASSUME NEW p \in Participants, EnterStartup(p) PROVE Goal
    BY <2>14, Stutter
       DEF EnterStartup, Goto, Active, Owners, IInv, TypeOK, Process
  <2>15. ASSUME NEW p \in Participants, LeaveStartup(p) PROVE Goal
    BY <2>15, Stutter
       DEF LeaveStartup, Goto, Active, Owners, IInv, TypeOK, Process
  <2>16. ASSUME NEW p \in Participants, ReleaseLease(p) PROVE Goal
    BY <2>16, LeaveStep DEF ReleaseLease
  <2>17. ASSUME NEW p \in Participants, MonitorProbe(p) PROVE Goal
    BY <2>17, Stutter
       DEF MonitorProbe, Goto, Active, Owners, IInv, TypeOK, Process
  <2>18. ASSUME NEW p \in Participants, MonitorRelease(p) PROVE Goal
    BY <2>18, Stutter
       DEF MonitorRelease, Goto, Active, Owners, IInv, TypeOK, Process
  <2>19. ASSUME NEW p \in Participants, MonitorNotices(p) PROVE Goal
    BY <2>19, Stutter
       DEF MonitorNotices, Goto, Active, Owners, IInv, TypeOK, Process
  <2>20. ASSUME NEW p \in Participants, MaintenanceExit(p) PROVE Goal
    BY <2>20, LeaveStep DEF MaintenanceExit, ProcessEnds
  <2>21. ASSUME NEW q \in Process, Crash(q) PROVE Goal
    BY <2>21, EndOfCall DEF Crash, ProcessEnds
  <2>22. ASSUME NEW m \in Mutators, BeginReserve(m) PROVE Goal
    BY <2>22, Stutter
       DEF BeginReserve, Goto, Active, Owners, IInv, TypeOK, Process
  <2>23. ASSUME NEW m \in Mutators, ReserveIntent(m) PROVE Goal
    BY <2>23, Stutter
       DEF ReserveIntent, Goto, Active, Owners, IInv, TypeOK, Process
  <2>24. ASSUME NEW m \in Mutators, ReserveProbe(m) PROVE Goal
    <3>1. CASE Grantable("lifetime", m, "EX")
      BY <2>24, <3>1, BeginStep DEF ReserveProbe
    <3>2. CASE ~Grantable("lifetime", m, "EX")
      BY <2>24, <3>2, Stutter
         DEF ReserveProbe, Goto, Active, Owners, IInv, TypeOK, Process
    <3> QED
      BY <3>1, <3>2
  <2>25. ASSUME NEW m \in Mutators, QuiesceRequested(m) PROVE Goal
    BY <2>25, Stutter
       DEF QuiesceRequested, Goto, Active, Owners, IInv, TypeOK, Process
  <2>26. ASSUME NEW m \in Mutators, QuiesceFails(m) PROVE Goal
    BY <2>26, EndStep DEF QuiesceFails, Fail
  <2>27. ASSUME NEW m \in Mutators, Drained(m) PROVE Goal
    BY <2>27, BeginStep DEF Drained
  <2>28. ASSUME NEW m \in Mutators, OwnStartup(m) PROVE Goal
    BY <2>28, Stutter
       DEF OwnStartup, Goto, Active, Owners, IInv, TypeOK, Process
  <2>29. ASSUME NEW m \in Mutators, EndMutation(m) PROVE Goal
    BY <2>29, EndStep DEF EndMutation
  <2>30. ASSUME NEW q \in Process, GiveUp(q) PROVE Goal
    BY <2>30, EndOfCall DEF GiveUp, Fail
  <2>31. ASSUME NEW q \in Process, LockFails(q) PROVE Goal
    BY <2>31, EndOfCall DEF LockFails, Fail
  <2>32. ASSUME NEW q \in Process, ReleaseOne(q) PROVE Goal
    BY <2>32, Stutter
       DEF ReleaseOne, Goto, Active, Owners, IInv, TypeOK, Process
  <2>33. ASSUME NEW q \in Process, EndCleanup(q) PROVE Goal
    BY <2>33, EndOfCall DEF EndCleanup
  <2>34. CASE UNCHANGED vars
    BY <2>34, Stutter DEF vars, Active, Owners
  <2> QED
    BY <2>1, <2>2, <2>3, <2>4, <2>5, <2>6, <2>7, <2>8, <2>9, <2>10, <2>11,
       <2>12, <2>13, <2>14, <2>15, <2>16, <2>17, <2>18, <2>19, <2>20,
       <2>21, <2>22, <2>23, <2>24, <2>25, <2>26, <2>27, <2>28, <2>29,
       <2>30, <2>31, <2>32, <2>33, <2>34 DEF Next
<1> QED
  BY <1>1, <1>2, Invariance, PTL DEF Spec, ImplementsAdmission, Admission!Spec
=============================================================================
