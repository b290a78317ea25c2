----------------------- MODULE DaemonGenerationProofs -----------------------
(***************************************************************************)
(* Theorems of DaemonGeneration for any clients, daemons and foreign       *)
(* sockets: its types, and that a serving daemon stays reachable.          *)
(*                                                                         *)
(* Only the holder of the lifetime reservation changes the directory, but  *)
(* for a legacy daemon; and a legacy daemon and one of ours keep out of    *)
(* each other's way, because each starts only while the other is absent.   *)
(***************************************************************************)
EXTENDS DaemonGeneration, TLAPS

Foundation == Publishing \cup {"secure", "expose", "retire", "serving"}
Removal == {"undo", "abort", "forget", "close", "release"}

HoldsLifetime(h) == host[h].pc \in Foundation \cup Removal \cup {"listen"}
HoldsClaim(h) == HoldsLifetime(h) \/ host[h].pc \in {"reserve", "unclaim"}
Cleaning(s) == starter[s].pc \in Publishing \cup {"recover", "clean", "undo"}

(* A process is where its code says only while it holds its locks.         *)
Locked ==
  /\ \A h \in Hosts : /\ HoldsClaim(h) => claim = h
                      /\ HoldsLifetime(h) => lifetime = h
  /\ \A s \in Starters : /\ At(s, "observe") => claim = s
                         /\ Cleaning(s) => lifetime = s

(* A legacy daemon has the stable name, never the anchor's.                *)
Apart ==
  /\ socket["anchor"] \in Hosts \cup {Absent}
  /\ foreign => socket["stable"] = Foreign

(* What a daemon has laid down so far.                                     *)
Laid(h) ==
  LET p == host[h].pc
      w == host[h].rec IN
  /\ p \in Foundation => socket["anchor"] = h
  /\ p \in Foundation \ {"secure"} => inode[h].private
  /\ p = "link" => temp[w] = IdentityOf(h)
  /\ p = "clear" => record[w] = IdentityOf(h)
  /\ p = "expose" => temp["pending"] = Absent
  /\ p \in Publishing /\ w = "marker" =>
       socket["stable"] = h /\ temp["pending"] = Absent
  /\ p \in {"retire", "serving"} =>
       /\ socket["stable"] = h /\ record["marker"] = IdentityOf(h)
       /\ temp["pending"] = Absent /\ temp["marker"] = Absent
  /\ p = "serving" => record["pending"] = Absent

(* What a cleanup has of the marker that it completes.                     *)
Completing(s) ==
  /\ starter[s].pc \in Publishing => socket["anchor"] \in Hosts
  /\ At(s, "link") => temp["marker"] \in Identity

IInv ==
  /\ TypeOK /\ Locked /\ Apart
  /\ \A h \in Hosts : Laid(h)
  /\ \A s \in Starters : Completing(s)

-----------------------------------------------------------------------------
(* The initial states.                                                     *)
LEMMA InitHolds == Init => IInv
<1> SUFFICES ASSUME Init PROVE IInv
  OBVIOUS
<1>1. TypeOK
  BY DEF Init, TypeOK, Idle, Records
<1>2. Locked
  BY DEF Init, Locked, Idle, Publishing, Foundation, Removal,
         HoldsLifetime, HoldsClaim, Cleaning, At
<1>3. Apart
  BY DEF Init, Apart
<1>4. \A h \in Hosts : Laid(h)
  BY DEF Init, Laid, Publishing, Foundation
<1>5. \A s \in Starters : Completing(s)
  BY DEF Init, Completing, Idle, Publishing, At
<1> QED
  BY <1>1, <1>2, <1>3, <1>4, <1>5 DEF IInv

-----------------------------------------------------------------------------
(* The steps on the directory keep its type.                               *)
FilesType ==
  /\ socket \in [{"anchor", "stable"} -> Hosts \cup {Foreign, Absent}]
  /\ inode \in [Hosts -> [private : BOOLEAN, ctime : Nat]]
  /\ record \in [Records -> Identity \cup {Absent}]
  /\ temp \in [Records -> Identity \cup {Absent, Torn}]

LEMMA TouchType ==
  ASSUME FilesType, NEW h \in Hosts
  PROVE  Touched(h) \in [Hosts -> [private : BOOLEAN, ctime : Nat]]
  BY DEF FilesType, Touched

LEMMA UnlinkType ==
  ASSUME FilesType,
         \/ \E n \in {"anchor", "stable"} : UnlinkSocket(n)
         \/ \E w \in Records : UnlinkRecord(w) \/ UnlinkTemp(w)
  PROVE  FilesType'
  BY TouchType DEF FilesType, UnlinkSocket, UnlinkRecord, UnlinkTemp, Records

(* A record that is linked has been written.                               *)
LEMMA PublishType ==
  ASSUME FilesType, NEW w \in Records, NEW id \in Identity,
         NEW step, NEW next, Publish(w, step, id, next),
         step = "link" => temp[w] \in Identity
  PROVE  FilesType'
  BY DEF FilesType, Publish

LEMMA IdentityType ==
  ASSUME FilesType, NEW h \in Hosts
  PROVE  IdentityOf(h) \in Identity
  BY DEF FilesType, IdentityOf, Identity

(* Where a process goes next is a place of its code.                       *)
HostPcs == Publishing \cup
  {"off", "join", "claim", "reserve", "listen", "secure", "expose", "retire",
   "serving", "close", "undo", "abort", "forget", "release", "unclaim"}
StarterPcs == Publishing \cup
  {"idle", "probe", "observe", "lifetime", "connect", "lock", "prepare",
   "recover", "clean", "undo", "spawn"}

HostType == host \in [Hosts -> [pc : HostPcs, rec : Records]]
StarterType ==
  starter \in [Starters -> [pc : StarterPcs, phase : {"free", "locked", "spawned"},
                            again : BOOLEAN]]
LocksType ==
  /\ claim \in Hosts \cup Starters \cup {Nobody}
  /\ lifetime \in Hosts \cup Starters \cup {Nobody}
  /\ startup \in Starters \cup {Nobody}

LEMMA TypeParts ==
  TypeOK <=> LocksType /\ FilesType /\ HostType /\ StarterType /\ foreign \in BOOLEAN
  BY DEF TypeOK, LocksType, FilesType, HostType, StarterType, HostPcs, StarterPcs

LEMMA TypePrime ==
  ASSUME LocksType', FilesType', HostType', StarterType', foreign' \in BOOLEAN
  PROVE  TypeOK'
  BY DEF TypeOK, LocksType, FilesType, HostType, StarterType, HostPcs, StarterPcs

LEMMA HostGoesType ==
  ASSUME HostType, NEW h \in Hosts, NEW pc \in HostPcs, HostGoes(h, pc)
  PROVE  HostType'
  BY DEF HostType, HostGoes

LEMMA GoesType ==
  ASSUME StarterType, NEW s \in Starters, NEW pc \in StarterPcs, Goes(s, pc)
  PROVE  StarterType'
  BY DEF StarterType, Goes

(* Whatever record a client moves to, the table of clients keeps its type.  *)
LEMMA SetStarterType ==
  ASSUME StarterType, NEW s \in Starters,
         NEW r \in [pc : StarterPcs, phase : {"free", "locked", "spawned"}, again : BOOLEAN],
         starter' = [starter EXCEPT ![s] = r]
  PROVE  StarterType'
  BY DEF StarterType

LEMMA AnswersType ==
  ASSUME StarterType, LocksType, NEW s \in Starters, Answers(s)
  PROVE  StarterType' /\ startup' \in Starters \cup {Nobody}
  BY DEF StarterType, LocksType, Answers, Idle, StarterPcs, Freed

LEMMA ReservedType ==
  ASSUME StarterType, LocksType, NEW s \in Starters, Reserved(s)
  PROVE  StarterType' /\ startup' \in Starters \cup {Nobody}
  <1>1. CASE Answers(s)
    BY <1>1, AnswersType
  <1>2. CASE ~Answers(s)
    <2> DEFINE r == [Idle EXCEPT !.pc = "probe"]
    <2>1. r \in [pc : StarterPcs, phase : {"free", "locked", "spawned"}, again : BOOLEAN]
      BY DEF Idle, StarterPcs
    <2>2. starter' = [starter EXCEPT ![s] = r] /\ startup' = Freed(startup, s)
      BY <1>2 DEF Reserved
    <2>3. StarterType'
      <3> HIDE DEF r
      <3> QED
        BY <2>1, <2>2, SetStarterType
    <2> QED
      BY <2>2, <2>3 DEF LocksType, Freed
  <1> QED
    BY <1>1, <1>2

LEMMA UnavailableType ==
  ASSUME StarterType, LocksType, NEW s \in Starters, Unavailable(s)
  PROVE  StarterType' /\ startup' \in Starters \cup {Nobody}
  <1>1. CASE Answers(s)
    BY <1>1, AnswersType
  <1>2. CASE ~Answers(s)
    <2>1. starter[s].phase \in {"free", "locked", "spawned"}
      BY DEF StarterType
    <2>2. PICK pc \in {"lock", "prepare", "probe"} :
            /\ starter' = [starter EXCEPT ![s].again = FALSE, ![s].pc = pc]
            /\ startup' = startup
      BY <1>2, <2>1 DEF Unavailable
    <2> DEFINE r == [starter[s] EXCEPT !.again = FALSE, !.pc = pc]
    <2>3. r \in [pc : StarterPcs, phase : {"free", "locked", "spawned"}, again : BOOLEAN]
      BY DEF StarterType, StarterPcs
    <2>4. starter' = [starter EXCEPT ![s] = r]
      BY <2>2 DEF StarterType
    <2>5. StarterType'
      <3> HIDE DEF r
      <3> QED
        BY <2>3, <2>4, SetStarterType
    <2> QED
      BY <2>2, <2>5 DEF LocksType
  <1> QED
    BY <1>1, <1>2

LEMMA WithdrawType ==
  ASSUME FilesType, Withdraw
  PROVE  FilesType'
  BY UnlinkType DEF Withdraw, Records

LEMMA UndoType ==
  ASSUME FilesType, NEW w \in Records, UndoRecord(w)
  PROVE  FilesType'
  BY UnlinkType DEF UndoRecord

-----------------------------------------------------------------------------
(* Every step keeps the types.                                             *)
LEMMA HostStepType ==
  ASSUME IInv, NEW h \in Hosts, HostNext(h)
  PROVE  TypeOK'
<1> USE DEF locks, files
<1>0. /\ LocksType /\ FilesType /\ HostType /\ StarterType /\ foreign \in BOOLEAN
      /\ host[h].rec \in Records
  BY TypeParts DEF IInv, HostType
<1>same. UNCHANGED <<locks, starter, foreign>> =>
           LocksType' /\ StarterType' /\ foreign' \in BOOLEAN
  BY <1>0 DEF LocksType, StarterType
<1>kept. UNCHANGED files => FilesType'
  BY <1>0 DEF FilesType
<1>goes. \A pc \in HostPcs : HostGoes(h, pc) => HostType'
  BY <1>0, HostGoesType
<1>pcs. /\ Publishing \subseteq HostPcs
        /\ {"off", "join", "claim", "reserve", "listen", "secure", "expose",
            "retire", "serving", "close", "undo", "abort", "forget", "release",
            "unclaim"} \subseteq HostPcs
  BY DEF HostPcs
<1>1. CASE HostJoin(h) \/ HostClaimTimeout(h) \/ HostFault(h) \/ HostStop(h) \/ HostLeaves(h)
  <2>1. PICK pc \in HostPcs : HostGoes(h, pc)
    BY <1>1, <1>pcs DEF HostJoin, HostClaimTimeout, HostFault, HostStop, HostLeaves
  <2> QED
    BY <1>1, <1>0, <1>same, <1>kept, <1>goes, <2>1, TypePrime
       DEF HostJoin, HostClaimTimeout, HostFault, HostStop, HostLeaves
<1>2. CASE HostClaim(h) \/ HostReserve(h) \/ HostRelease(h) \/ HostUnclaim(h) \/ HostKilled(h)
  <2>1. PICK pc \in HostPcs : HostGoes(h, pc)
    BY <1>2, <1>pcs DEF HostClaim, HostReserve, HostRelease, HostUnclaim, HostKilled
  <2>2. LocksType'
    BY <1>2, <1>0 DEF LocksType, HostClaim, HostReserve, HostRelease, HostUnclaim, HostKilled, Freed
  <2>3. StarterType' /\ foreign' \in BOOLEAN /\ UNCHANGED files
    BY <1>2, <1>0 DEF StarterType, HostClaim, HostReserve, HostRelease, HostUnclaim, HostKilled
  <2> QED
    BY <1>kept, <1>goes, <2>1, <2>2, <2>3, TypePrime
<1>3. CASE HostListen(h)
  <2>1. FilesType'
    <3>1. CASE NamespaceAbsent
      <4>1. /\ socket' = [socket EXCEPT !["anchor"] = h]
            /\ inode' = [inode EXCEPT ![h] = [private |-> FALSE, ctime |-> 0]]
            /\ record' = record /\ temp' = temp
        BY <1>3, <3>1 DEF HostListen
      <4> QED
        BY <4>1, <1>0 DEF FilesType
    <3>2. CASE ~NamespaceAbsent
      BY <1>3, <3>2, <1>kept DEF HostListen
    <3> QED
      BY <3>1, <3>2
  <2>2. PICK pc \in HostPcs : HostGoes(h, pc)
    BY <1>3, <1>pcs DEF HostListen
  <2> QED
    BY <1>3, <1>same, <1>goes, <2>1, <2>2, TypePrime DEF HostListen
<1>4. CASE HostSecure(h)
  <2>1. FilesType'
    BY <1>4, <1>0 DEF HostSecure, FilesType
  <2>2. HostType'
    BY <1>4, <1>0, <1>pcs DEF HostSecure, HostType, Records, Publishing
  <2> QED
    BY <1>4, <1>same, <2>1, <2>2, TypePrime DEF HostSecure
<1>5. CASE HostPublish(h)
  <2>1. PICK next \in Publishing \cup {"published"} :
          /\ Publish(host[h].rec, host[h].pc, IdentityOf(h), next)
          /\ HostGoes(h, IF next # "published" THEN next
                         ELSE IF host[h].rec = "pending" THEN "expose" ELSE "retire")
    BY <1>5 DEF HostPublish
  <2>2. IdentityOf(h) \in Identity
    BY <1>0, IdentityType
  <2>3. host[h].pc = "link" => temp[host[h].rec] \in Identity
    BY <2>2 DEF IInv, Laid
  <2>4. FilesType'
    BY <1>0, <2>1, <2>2, <2>3, PublishType
  <2>5. PICK pc \in HostPcs : HostGoes(h, pc)
    BY <2>1, <1>pcs
  <2> QED
    BY <1>5, <1>same, <1>goes, <2>4, <2>5, TypePrime DEF HostPublish
<1>6. CASE HostExpose(h)
  <2>1. FilesType'
    BY <1>6, <1>0, TouchType DEF HostExpose, FilesType
  <2>2. HostType'
    BY <1>6, <1>0, <1>goes, <1>pcs DEF HostExpose, HostType, Records, Publishing
  <2> QED
    BY <1>6, <1>same, <2>1, <2>2, TypePrime DEF HostExpose
<1>7. CASE HostRetire(h) \/ HostUndo(h) \/ HostWithdraw(h) \/ HostForget(h)
  <2>1. FilesType'
    BY <1>7, <1>0, <1>kept, UnlinkType, UndoType, WithdrawType
       DEF HostRetire, HostUndo, HostWithdraw, HostForget, Records
  <2>2. HostType'
    BY <1>7, <1>0, <1>goes, <1>pcs DEF HostRetire, HostUndo, HostWithdraw, HostForget, HostType
  <2> QED
    BY <1>7, <1>same, <2>1, <2>2, TypePrime DEF HostRetire, HostUndo, HostWithdraw, HostForget
<1> QED
  BY <1>1, <1>2, <1>3, <1>4, <1>5, <1>6, <1>7 DEF HostNext

LEMMA StarterStepType ==
  ASSUME IInv, NEW s \in Starters, StarterNext(s)
  PROVE  TypeOK'
<1> USE DEF locks, files
<1>0. LocksType /\ FilesType /\ HostType /\ StarterType /\ foreign \in BOOLEAN
  BY TypeParts DEF IInv
<1>same. UNCHANGED <<host, foreign>> => HostType' /\ foreign' \in BOOLEAN
  BY <1>0 DEF HostType
<1>kept. UNCHANGED files => FilesType'
  BY <1>0 DEF FilesType
<1>goes. \A pc \in StarterPcs : Goes(s, pc) => StarterType'
  BY <1>0, GoesType
<1>ends. Answers(s) \/ Reserved(s) \/ Unavailable(s) =>
           StarterType' /\ startup' \in Starters \cup {Nobody}
  BY <1>0, AnswersType, ReservedType, UnavailableType
<1>pcs. /\ Publishing \subseteq StarterPcs
        /\ {"idle", "probe", "observe", "lifetime", "connect", "lock", "prepare",
            "recover", "clean", "undo", "spawn"} \subseteq StarterPcs
  BY DEF StarterPcs
<1>1. CASE Begin(s) \/ ProbeClaim(s) \/ ProbeRelease(s) \/ ProbeLifetime(s) \/ Connect(s)
           \/ TakeStartup(s)
  <2>1. StarterType' /\ startup' \in Starters \cup {Nobody}
    <3>1. CASE Begin(s) \/ ProbeRelease(s)
      BY <3>1, <1>0, <1>goes, <1>pcs DEF Begin, ProbeRelease, LocksType
    <3>2. CASE ProbeClaim(s) \/ ProbeLifetime(s)
      BY <3>2, <1>0, <1>goes, <1>ends, <1>pcs DEF ProbeClaim, ProbeLifetime, LocksType
    <3>3. CASE Connect(s)
      <4>1. CASE Answers(s) \/ Reserved(s)
        BY <4>1, <1>ends
      <4>2. CASE /\ starter' = [starter EXCEPT ![s].pc = "probe", ![s].again = TRUE]
                 /\ UNCHANGED startup
        BY <4>2, <1>0, <1>pcs DEF StarterType, LocksType
      <4> QED
        BY <3>3, <4>1, <4>2 DEF Connect
    <3>4. CASE TakeStartup(s)
      BY <3>4, <1>0, <1>goes, <1>pcs DEF TakeStartup, StarterType, LocksType
    <3> QED
      BY <1>1, <3>1, <3>2, <3>3, <3>4
  <2>2. claim' \in Hosts \cup Starters \cup {Nobody} /\ UNCHANGED <<lifetime, files, host, foreign>>
    BY <1>1, <1>0 DEF LocksType, Begin, ProbeClaim, ProbeRelease, ProbeLifetime, Connect, TakeStartup
  <2>3. LocksType'
    BY <2>1, <2>2, <1>0 DEF LocksType
  <2> QED
    BY <1>same, <1>kept, <2>1, <2>2, <2>3, TypePrime
<1>2. CASE Prepare(s) \/ CompleteFails(s) \/ CleanFails(s) \/ Killed(s)
  <2>1. StarterType' /\ startup' \in Starters \cup {Nobody}
    BY <1>2, <1>0, <1>goes, <1>ends, <1>pcs
       DEF Prepare, CompleteFails, CleanFails, Killed, LocksType
  <2>2. /\ claim' \in Hosts \cup Starters \cup {Nobody}
        /\ lifetime' \in Hosts \cup Starters \cup {Nobody}
        /\ UNCHANGED <<files, host, foreign>>
    BY <1>2, <1>0 DEF LocksType, Prepare, CompleteFails, CleanFails, Killed, Freed
  <2>3. LocksType'
    BY <2>1, <2>2 DEF LocksType
  <2> QED
    BY <1>same, <1>kept, <2>1, <2>2, <2>3, TypePrime
<1>3. CASE Recover(s) \/ CompleteUndo(s)
  <2>1. FilesType'
    BY <1>3, <1>0, <1>kept, UnlinkType, UndoType DEF Recover, CompleteUndo, TempLeft, Records
  <2>2. StarterType'
    BY <1>3, <1>0, <1>goes, <1>pcs DEF Recover, CompleteUndo, StarterType
  <2>3. LocksType'
    BY <1>3, <1>0 DEF Recover, CompleteUndo, LocksType
  <2> QED
    BY <1>3, <1>same, <2>1, <2>2, <2>3, TypePrime DEF Recover, CompleteUndo
<1>4. CASE Clean(s)
  <2>1. FilesType'
    BY <1>4, <1>0, <1>kept, WithdrawType DEF Clean
  <2>2. StarterType'
    BY <1>4, <1>0, <1>goes, <1>pcs DEF Clean, StarterType, Publishing
  <2>3. LocksType'
    BY <1>4, <1>0 DEF Clean, LocksType
  <2> QED
    BY <1>4, <1>same, <2>1, <2>2, <2>3, TypePrime DEF Clean
<1>5. CASE Complete(s)
  <2>1. PICK next \in Publishing \cup {"published"} :
          /\ Publish("marker", starter[s].pc, IdentityOf(socket["anchor"]), next)
          /\ Goes(s, IF next = "published" THEN "clean" ELSE next)
    BY <1>5 DEF Complete
  <2>2. starter[s].pc \in Publishing
    BY <2>1 DEF Publish, Publishing
  <2>3. IdentityOf(socket["anchor"]) \in Identity
    BY <1>0, <2>2, IdentityType DEF IInv, Completing
  <2>4. FilesType'
    BY <1>0, <2>1, <2>3, PublishType DEF IInv, Completing, At, Records
  <2>5. StarterType'
    BY <2>1, <1>goes, <1>pcs
  <2>6. LocksType'
    BY <1>5, <1>0 DEF Complete, LocksType
  <2> QED
    BY <1>5, <1>same, <2>4, <2>5, <2>6, TypePrime DEF Complete
<1>6. CASE Spawn(s)
  <2>1. HostType'
    BY <1>6, <1>0, HostGoesType DEF Spawn, HostPcs, HostType
  <2>2. StarterType' /\ startup' \in Starters \cup {Nobody}
    <3>1. CASE Answers(s)
      BY <3>1, <1>ends
    <3>2. CASE ~Answers(s)
      BY <1>6, <3>2, <1>0, <1>pcs DEF Spawn, StarterType, LocksType
    <3> QED
      BY <3>1, <3>2
  <2>3. LocksType'
    BY <1>6, <1>0, <2>2 DEF Spawn, LocksType
  <2> QED
    BY <1>6, <1>0, <1>kept, <2>1, <2>2, <2>3, TypePrime DEF Spawn
<1> QED
  BY <1>1, <1>2, <1>3, <1>4, <1>5, <1>6 DEF StarterNext

LEMMA ForeignStepType ==
  ASSUME IInv, ForeignStart \/ ForeignStop
  PROVE  TypeOK'
<1> USE DEF locks, files
<1>0. LocksType /\ FilesType /\ HostType /\ StarterType /\ foreign \in BOOLEAN
  BY TypeParts DEF IInv
<1>1. FilesType'
  <2>1. CASE ForeignStop
    BY <2>1, <1>0 DEF FilesType, ForeignStop
  <2>2. CASE ForeignStart
    <3>1. inode' \in [Hosts -> [private : BOOLEAN, ctime : Nat]]
      BY <2>2, <1>0, TouchType DEF FilesType, ForeignStart
    <3> QED
      BY <2>2, <3>1, <1>0 DEF FilesType, ForeignStart
  <2> QED
    BY <2>1, <2>2
<1>2. LocksType' /\ HostType' /\ StarterType' /\ foreign' \in BOOLEAN
  BY <1>0 DEF LocksType, HostType, StarterType, ForeignStart, ForeignStop
<1> QED
  BY <1>1, <1>2, TypePrime

-----------------------------------------------------------------------------
(* Every step keeps the locks with the places that need them.              *)
Elsewhere(h) == \A g \in Hosts \ {h} : host'[g] = host[g]

LEMMA HostMoves ==
  ASSUME IInv, NEW h \in Hosts, HostNext(h)
  PROVE  Elsewhere(h) /\ UNCHANGED <<startup, starter, foreign>>
  BY DEF HostNext, Elsewhere, HostGoes, IInv, TypeOK, locks, files, HostJoin, HostClaim,
         HostClaimTimeout, HostReserve, HostListen, HostSecure, HostPublish, HostExpose,
         HostRetire, HostFault, HostUndo, HostWithdraw, HostForget, HostStop,
         HostLeaves, HostRelease, HostUnclaim, HostKilled

(* A step that takes no lock and enters no place that needs one.           *)
LEMMA HostStays ==
  ASSUME IInv, NEW h \in Hosts, Elsewhere(h), UNCHANGED <<claim, lifetime, starter>>,
         HoldsClaim(h)' => HoldsClaim(h), HoldsLifetime(h)' => HoldsLifetime(h)
  PROVE  Locked'
  BY DEF IInv, Locked, Elsewhere, HoldsClaim, HoldsLifetime, Cleaning, At

LEMMA HostStepLocked ==
  ASSUME IInv, NEW h \in Hosts, HostNext(h)
  PROVE  Locked'
<1> USE DEF locks, files
<1>0. Elsewhere(h) /\ UNCHANGED <<startup, starter, foreign>> /\ host[h] \in [pc : HostPcs, rec : Records]
  BY HostMoves, TypeParts DEF HostType, IInv
<1>goes. \A pc \in HostPcs : HostGoes(h, pc) => host'[h].pc = pc
  BY TypeParts DEF HostGoes, HostType, IInv
<1>1. CASE HostClaim(h)
  <2>1. claim = Nobody /\ claim' = h /\ lifetime' = lifetime /\ host'[h].pc = "reserve"
    BY <1>1, <1>goes DEF HostClaim, HostPcs
  <2> QED
    BY <2>1, <1>0, ConstantsAssumption
       DEF IInv, Locked, Elsewhere, HoldsClaim, HoldsLifetime, Cleaning, At,
           Foundation, Removal, Publishing
<1>2. CASE HostReserve(h)
  <2>1. CASE lifetime = Nobody
    <3>1. claim' = claim /\ lifetime' = h /\ host[h].pc = "reserve" /\ host'[h].pc = "listen"
      BY <1>2, <2>1, <1>goes DEF HostReserve, HostPcs, HostAt
    <3> QED
      BY <2>1, <3>1, <1>0, ConstantsAssumption
         DEF IInv, Locked, Elsewhere, HoldsClaim, HoldsLifetime, Cleaning, At
  <2>2. CASE lifetime # Nobody
    <3>1. /\ UNCHANGED <<claim, lifetime>>
          /\ host[h].pc = "reserve" /\ host'[h].pc = "unclaim"
      BY <1>2, <2>2, <1>goes DEF HostReserve, HostPcs, HostAt
    <3> QED
      BY <3>1, <1>0, HostStays
         DEF HoldsClaim, HoldsLifetime, Foundation, Removal, Publishing
  <2> QED
    BY <2>1, <2>2
<1>3. CASE HostRelease(h)
  <2>1. /\ claim' = claim /\ lifetime' = Nobody
        /\ host[h].pc = "release" /\ host'[h].pc = "unclaim"
    BY <1>3, <1>goes DEF HostRelease, HostPcs, HostAt
  <2>2. lifetime = h /\ claim = h
    BY <2>1 DEF IInv, Locked, HoldsClaim, HoldsLifetime, Removal
  <2> QED
    BY <2>1, <2>2, <1>0, ConstantsAssumption
       DEF IInv, Locked, Elsewhere, HoldsClaim, HoldsLifetime, Cleaning, At,
           Foundation, Removal, Publishing
<1>4. CASE HostUnclaim(h)
  <2>1. /\ claim' = Nobody /\ lifetime' = lifetime
        /\ host[h].pc = "unclaim" /\ host'[h].pc = "off"
    BY <1>4, <1>goes DEF HostUnclaim, HostPcs, HostAt
  <2>2. claim = h
    BY <2>1 DEF IInv, Locked, HoldsClaim
  <2> QED
    BY <2>1, <2>2, <1>0, ConstantsAssumption
       DEF IInv, Locked, Elsewhere, HoldsClaim, HoldsLifetime, Cleaning, At,
           Foundation, Removal, Publishing
<1>5. CASE HostKilled(h)
  <2>1. claim' = Freed(claim, h) /\ lifetime' = Freed(lifetime, h) /\ host'[h].pc = "off"
    BY <1>5, <1>goes DEF HostKilled, HostPcs
  <2> QED
    BY <2>1, <1>0, ConstantsAssumption
       DEF IInv, Locked, Elsewhere, HoldsClaim, HoldsLifetime, Cleaning, At,
           Foundation, Removal, Publishing, Freed
<1>6. CASE HostJoin(h) \/ HostClaimTimeout(h)
  <2>1. UNCHANGED <<claim, lifetime>> /\ host'[h].pc \in {"claim", "off"}
    BY <1>6, <1>goes DEF HostJoin, HostClaimTimeout, HostPcs
  <2> QED
    BY <2>1, <1>0, HostStays DEF HoldsClaim, HoldsLifetime, Foundation, Removal, Publishing
<1>7. CASE \/ HostListen(h) \/ HostSecure(h) \/ HostPublish(h) \/ HostExpose(h)
           \/ HostRetire(h) \/ HostFault(h) \/ HostUndo(h) \/ HostWithdraw(h)
           \/ HostForget(h) \/ HostStop(h) \/ HostLeaves(h)
  <2>1. UNCHANGED <<claim, lifetime>>
    BY <1>7 DEF HostListen, HostSecure, HostPublish, HostExpose, HostRetire, HostFault,
                HostUndo, HostWithdraw, HostForget, HostStop, HostLeaves
  <2>2. HoldsLifetime(h)
    BY <1>7 DEF HostListen, HostSecure, HostPublish, HostExpose, HostRetire, HostFault,
                HostUndo, HostWithdraw, HostForget, HostStop, HostLeaves, Publish,
                HoldsLifetime, HostAt, Foundation, Removal, Publishing
  <2> QED
    BY <2>1, <2>2, <1>0, HostStays DEF HoldsClaim
<1> QED
  BY <1>1, <1>2, <1>3, <1>4, <1>5, <1>6, <1>7 DEF HostNext

Others(s) == \A t \in Starters \ {s} : starter'[t] = starter[t]

LEMMA AnswersMoves ==
  ASSUME StarterType, NEW s \in Starters, Answers(s)
  PROVE  Others(s) /\ starter'[s] = Idle
  BY DEF StarterType, Answers, Others

LEMMA ReservedMoves ==
  ASSUME StarterType, NEW s \in Starters, Reserved(s)
  PROVE  Others(s) /\ starter'[s].pc \in {"idle", "probe"}
  BY AnswersMoves DEF StarterType, Reserved, Others, Idle

LEMMA UnavailableMoves ==
  ASSUME StarterType, NEW s \in Starters, Unavailable(s)
  PROVE  Others(s) /\ starter'[s].pc \in {"idle", "lock", "prepare", "probe"}
<1>1. CASE Answers(s)
  BY <1>1, AnswersMoves DEF Idle
<1>2. CASE ~Answers(s)
  <2>1. starter[s].phase \in {"free", "locked", "spawned"}
    BY DEF StarterType
  <2>2. PICK pc \in {"lock", "prepare", "probe"} :
          starter' = [starter EXCEPT ![s].again = FALSE, ![s].pc = pc]
    BY <1>2, <2>1 DEF Unavailable
  <2> QED
    BY <2>2 DEF StarterType, Others
<1> QED
  BY <1>1, <1>2

LEMMA GoesMoves ==
  ASSUME StarterType, NEW s \in Starters, NEW pc, Goes(s, pc)
  PROVE  Others(s) /\ starter'[s].pc = pc
  BY DEF StarterType, Goes, Others

(* A client's step that leaves the reservation alone.                      *)
LEMMA StarterStays ==
  ASSUME IInv, NEW s \in Starters, Others(s), UNCHANGED <<claim, lifetime>>,
         \A h \in Hosts : host'[h].pc = host[h].pc \/ host'[h].pc = "join",
         starter'[s].pc # "observe", Cleaning(s)' => Cleaning(s)
  PROVE  Locked'
  BY DEF IInv, Locked, Others, HoldsClaim, HoldsLifetime, Cleaning, At,
         Foundation, Removal, Publishing

LEMMA StarterStepLocked ==
  ASSUME IInv, NEW s \in Starters, StarterNext(s)
  PROVE  Locked'
<1> USE DEF locks, files
<1>0. StarterType /\ HostType
  BY TypeParts DEF IInv
<1>1. CASE ProbeClaim(s)
  <2>1. CASE claim = Nobody
    <3>1. /\ claim' = s /\ UNCHANGED <<lifetime, host>>
          /\ Others(s) /\ starter'[s].pc = "observe"
      BY <1>1, <2>1, <1>0, GoesMoves DEF ProbeClaim
    <3> QED
      BY <2>1, <3>1, ConstantsAssumption
         DEF IInv, Locked, Others, HoldsClaim, HoldsLifetime, Cleaning, At, Publishing
  <2>2. CASE claim # Nobody
    <3>1. /\ UNCHANGED <<claim, lifetime, host>>
          /\ Others(s) /\ starter'[s].pc \in {"idle", "probe", "connect"}
      BY <1>1, <2>2, <1>0, GoesMoves, ReservedMoves DEF ProbeClaim
    <3> QED
      BY <3>1, StarterStays DEF Cleaning, Publishing
  <2> QED
    BY <2>1, <2>2
<1>2. CASE ProbeRelease(s)
  <2>1. /\ claim' = Nobody /\ UNCHANGED <<lifetime, host>> /\ At(s, "observe")
        /\ Others(s) /\ starter'[s].pc = "lifetime"
    BY <1>2, <1>0, GoesMoves DEF ProbeRelease
  <2>2. claim = s
    BY <2>1 DEF IInv, Locked
  <2> QED
    BY <2>1, <2>2, ConstantsAssumption
       DEF IInv, Locked, Others, HoldsClaim, HoldsLifetime, Cleaning, At, Publishing
<1>3. CASE Prepare(s)
  <2>1. CASE lifetime = Nobody
    <3>1. /\ lifetime' = s /\ UNCHANGED <<claim, host>>
          /\ Others(s) /\ starter'[s].pc = "recover"
      BY <1>3, <2>1, <1>0, GoesMoves DEF Prepare
    <3> QED
      BY <2>1, <3>1, ConstantsAssumption
         DEF IInv, Locked, Others, HoldsClaim, HoldsLifetime, Cleaning, At
  <2>2. CASE lifetime # Nobody
    <3>1. /\ UNCHANGED <<claim, lifetime, host>>
          /\ Others(s) /\ starter'[s].pc = "idle"
      BY <1>3, <2>2, <1>0, AnswersMoves DEF Prepare, Idle
    <3> QED
      BY <3>1, StarterStays DEF Cleaning, Publishing
  <2> QED
    BY <2>1, <2>2
<1>4. CASE CleanFails(s) \/ Clean(s)
  <2>1. CASE UNCHANGED lifetime
    <3>1. /\ UNCHANGED <<claim, host>> /\ Cleaning(s)
          /\ Others(s) /\ starter'[s].pc # "observe"
      <4>1. CASE CleanFails(s)
        BY <4>1, <1>0, AnswersMoves DEF CleanFails, Cleaning, At, Idle
      <4>2. CASE Clean(s)
        <5>1. At(s, "clean") /\ UNCHANGED <<claim, host>>
          BY <4>2 DEF Clean
        <5>2. Goes(s, "create") \/ Goes(s, "spawn") \/ UNCHANGED starter
          BY <4>2 DEF Clean
        <5> QED
          BY <5>1, <5>2, <1>0, GoesMoves DEF Others, Cleaning, At
      <4> QED
        BY <1>4, <4>1, <4>2
    <3> QED
      BY <2>1, <3>1, StarterStays
  <2>2. CASE lifetime' # lifetime
    <3>1. /\ Cleaning(s) /\ Others(s) /\ starter'[s].pc \in {"idle", "spawn"}
          /\ lifetime' = Nobody /\ UNCHANGED <<claim, host>>
      <4>1. CASE CleanFails(s)
        BY <4>1, <1>0, AnswersMoves DEF CleanFails, Cleaning, At, Idle
      <4>2. CASE Clean(s)
        BY <4>2, <2>2, <1>0, GoesMoves DEF Clean, Cleaning, At
      <4> QED
        BY <1>4, <4>1, <4>2
    <3>2. lifetime = s
      BY <3>1 DEF IInv, Locked
    <3> QED
      BY <3>1, <3>2, ConstantsAssumption
         DEF IInv, Locked, Others, HoldsClaim, HoldsLifetime, Cleaning, At, Publishing
  <2> QED
    BY <2>1, <2>2
<1>5. CASE Killed(s)
  <2>1. /\ claim' = Freed(claim, s) /\ lifetime' = Freed(lifetime, s) /\ UNCHANGED host
        /\ Others(s) /\ starter'[s].pc = "idle"
    BY <1>5, <1>0, AnswersMoves DEF Killed, Idle
  <2> QED
    BY <2>1, ConstantsAssumption
       DEF IInv, Locked, Others, HoldsClaim, HoldsLifetime, Cleaning, At, Publishing, Freed
<1>6. CASE Begin(s) \/ ProbeLifetime(s) \/ Connect(s) \/ TakeStartup(s)
  <2>1. Others(s) /\ starter'[s].pc \in {"idle", "probe", "connect", "lock", "prepare"}
    <3>1. CASE Connect(s)
      <4>1. CASE Answers(s) \/ Reserved(s)
        BY <4>1, <1>0, AnswersMoves, ReservedMoves DEF Idle
      <4>2. CASE starter' = [starter EXCEPT ![s].pc = "probe", ![s].again = TRUE]
        BY <4>2, <1>0 DEF StarterType, Others
      <4> QED
        BY <3>1, <4>1, <4>2 DEF Connect
    <3>2. CASE TakeStartup(s)
      <4>1. CASE startup = Nobody
        BY <3>2, <4>1, <1>0 DEF TakeStartup, StarterType, Others
      <4>2. CASE startup # Nobody
        BY <3>2, <4>2, <1>0, GoesMoves DEF TakeStartup
      <4> QED
        BY <4>1, <4>2
    <3>3. CASE Begin(s)
      BY <3>3, <1>0, GoesMoves DEF Begin
    <3>4. CASE ProbeLifetime(s)
      BY <3>4, <1>0, GoesMoves, ReservedMoves, UnavailableMoves DEF ProbeLifetime
    <3> QED
      BY <1>6, <3>1, <3>2, <3>3, <3>4
  <2>2. UNCHANGED <<claim, lifetime, host>>
    BY <1>6 DEF Begin, ProbeLifetime, Connect, TakeStartup
  <2> QED
    BY <2>1, <2>2, StarterStays DEF Cleaning, Publishing
<1>7. CASE Recover(s) \/ Complete(s) \/ CompleteFails(s) \/ CompleteUndo(s)
  <2>1. Cleaning(s) /\ Others(s) /\ starter'[s].pc # "observe"
    <3>1. CASE Recover(s) \/ CompleteUndo(s)
      <4>1. Cleaning(s)
        BY <3>1 DEF Recover, CompleteUndo, Cleaning, At
      <4>2. Goes(s, "clean") \/ UNCHANGED starter
        BY <3>1 DEF Recover, CompleteUndo
      <4> QED
        BY <4>1, <4>2, <1>0, GoesMoves DEF Others, Cleaning, Publishing
    <3>2. CASE CompleteFails(s)
      BY <3>2, <1>0, GoesMoves DEF CompleteFails, Cleaning
    <3>3. CASE Complete(s)
      <4>1. PICK next \in Publishing \cup {"published"} :
              /\ Publish("marker", starter[s].pc, IdentityOf(socket["anchor"]), next)
              /\ Goes(s, IF next = "published" THEN "clean" ELSE next)
        BY <3>3 DEF Complete
      <4>2. starter[s].pc \in Publishing
        BY <4>1 DEF Publish, Publishing
      <4> QED
        BY <4>1, <4>2, <1>0, GoesMoves DEF Cleaning, Publishing
    <3> QED
      BY <1>7, <3>1, <3>2, <3>3
  <2>2. UNCHANGED <<claim, lifetime, host>>
    BY <1>7 DEF Recover, Complete, CompleteFails, CompleteUndo
  <2> QED
    BY <2>1, <2>2, StarterStays
<1>8. CASE Spawn(s)
  <2>1. Others(s) /\ starter'[s].pc \in {"idle", "probe"}
    <3>1. CASE Answers(s)
      BY <3>1, <1>0, AnswersMoves DEF Idle
    <3>2. CASE ~Answers(s)
      BY <1>8, <3>2, <1>0 DEF Spawn, StarterType, Others
    <3> QED
      BY <3>1, <3>2
  <2>2. /\ UNCHANGED <<claim, lifetime>>
        /\ \A h \in Hosts : host'[h].pc = host[h].pc \/ host'[h].pc = "join"
    BY <1>8, <1>0 DEF Spawn, HostGoes, HostType
  <2> QED
    BY <2>1, <2>2, StarterStays DEF Cleaning, Publishing
<1> QED
  BY <1>1, <1>2, <1>3, <1>4, <1>5, <1>6, <1>7, <1>8 DEF StarterNext

LEMMA ForeignStepLocked ==
  ASSUME IInv, ForeignStart \/ ForeignStop
  PROVE  Locked'
  BY DEF IInv, Locked, ForeignStart, ForeignStop, locks, HoldsClaim, HoldsLifetime,
         Cleaning, At

-----------------------------------------------------------------------------
(* Every step keeps the directory with what the processes have done to it. *)
Kept == /\ Apart'
        /\ \A h \in Hosts : Laid(h)'
        /\ \A s \in Starters : Completing(s)'

LEMMA NothingLaid ==
  ASSUME NEW h \in Hosts, host'[h].pc \notin Foundation
  PROVE  Laid(h)'
  BY DEF Laid, Foundation, Publishing

LEMMA NothingCompleting ==
  ASSUME NEW s \in Starters, starter'[s].pc \notin Publishing
  PROVE  Completing(s)'
  BY DEF Completing, At, Publishing

LEMMA StillLaid ==
  ASSUME NEW h \in Hosts, Laid(h), UNCHANGED files, host'[h] = host[h]
  PROVE  Laid(h)'
  BY DEF Laid, files, IdentityOf

LEMMA StillCompleting ==
  ASSUME NEW s \in Starters, Completing(s), UNCHANGED files, starter'[s] = starter[s]
  PROVE  Completing(s)'
  BY DEF Completing, files, At

(* The reservation keeps everybody else out of the directory.              *)
LEMMA HolderAlone ==
  ASSUME IInv, NEW h \in Hosts, HoldsLifetime(h), Elsewhere(h), UNCHANGED starter
  PROVE  /\ \A g \in Hosts \ {h} : Laid(g)'
         /\ \A s \in Starters : Completing(s)'
<1>1. lifetime = h
  BY DEF IInv, Locked
<1>2. ASSUME NEW g \in Hosts \ {h} PROVE Laid(g)'
  <2>1. ~HoldsLifetime(g) /\ host'[g] = host[g]
    BY <1>1 DEF IInv, Locked, Elsewhere
  <2> QED
    BY <2>1, NothingLaid DEF HoldsLifetime
<1>3. ASSUME NEW s \in Starters PROVE Completing(s)'
  <2>1. ~Cleaning(s) /\ starter'[s] = starter[s]
    BY <1>1, ConstantsAssumption DEF IInv, Locked
  <2> QED
    BY <2>1, NothingCompleting DEF Cleaning
<1> QED
  BY <1>2, <1>3

LEMMA CleanerAlone ==
  ASSUME IInv, NEW s \in Starters, Cleaning(s), Others(s), UNCHANGED host
  PROVE  /\ \A h \in Hosts : Laid(h)'
         /\ \A t \in Starters \ {s} : Completing(t)'
<1>1. lifetime = s
  BY DEF IInv, Locked
<1>2. ASSUME NEW h \in Hosts PROVE Laid(h)'
  <2>1. ~HoldsLifetime(h) /\ host'[h] = host[h]
    BY <1>1, ConstantsAssumption DEF IInv, Locked
  <2> QED
    BY <2>1, NothingLaid DEF HoldsLifetime
<1>3. ASSUME NEW t \in Starters \ {s} PROVE Completing(t)'
  <2>1. ~Cleaning(t) /\ starter'[t] = starter[t]
    BY <1>1 DEF IInv, Locked, Others
  <2> QED
    BY <2>1, NothingCompleting DEF Cleaning
<1> QED
  BY <1>2, <1>3

(* The stable name is unlinked only with the anchor's socket under it.     *)
LEMMA WithdrawApart ==
  ASSUME IInv, UNCHANGED foreign, Withdraw
  PROVE  Apart'
<1> USE ConstantsAssumption DEF IInv, Apart
<1>1. CASE Paired /\ UnlinkSocket("stable")
  <2>1. ~foreign /\ socket' = [socket EXCEPT !["stable"] = Absent]
    BY <1>1 DEF Paired, UnlinkSocket
  <2> QED
    BY <2>1, TypeParts DEF FilesType
<1>2. CASE ~Paired /\ socket["anchor"] # Absent /\ UnlinkSocket("anchor")
  BY <1>2, TypeParts DEF UnlinkSocket, FilesType
<1>3. CASE UnlinkRecord("marker") \/ UnlinkRecord("pending")
  BY <1>3 DEF UnlinkRecord
<1> QED
  BY <1>1, <1>2, <1>3 DEF Withdraw

LEMMA HostStepKept ==
  ASSUME IInv, NEW h \in Hosts, HostNext(h)
  PROVE  Kept
<1> USE DEF locks, files
<1>0. /\ Elsewhere(h) /\ UNCHANGED <<startup, starter, foreign>>
      /\ Laid(h) /\ Apart /\ FilesType /\ HostType
  BY HostMoves, TypeParts DEF IInv
<1>goes. \A pc \in HostPcs : HostGoes(h, pc) =>
           host'[h].pc = pc /\ host'[h].rec = host[h].rec
  BY <1>0 DEF HostGoes, HostType
<1>apart. UNCHANGED socket => Apart'
  BY <1>0 DEF Apart
<1>alone. HoldsLifetime(h) /\ Apart' /\ Laid(h)' => Kept
  BY <1>0, HolderAlone DEF Kept
<1>1. CASE \/ HostJoin(h) \/ HostClaim(h) \/ HostClaimTimeout(h) \/ HostReserve(h)
           \/ HostFault(h) \/ HostStop(h) \/ HostLeaves(h) \/ HostRelease(h)
           \/ HostUnclaim(h) \/ HostKilled(h)
  <2>1. UNCHANGED files
    BY <1>1 DEF HostJoin, HostClaim, HostClaimTimeout, HostReserve, HostFault,
                HostStop, HostLeaves, HostRelease, HostUnclaim, HostKilled
  <2>2. PICK pc \in HostPcs \ Foundation : HostGoes(h, pc)
    BY <1>1 DEF HostJoin, HostClaim, HostClaimTimeout, HostReserve, HostFault,
                HostStop, HostLeaves, HostRelease, HostUnclaim, HostKilled,
                HostPcs, Foundation, Publishing
  <2>3. Laid(h)'
    BY <2>2, <1>goes, NothingLaid
  <2>4. \A g \in Hosts \ {h} : Laid(g)'
    BY <1>0, <2>1, StillLaid DEF IInv, Elsewhere
  <2>5. \A s \in Starters : Completing(s)'
    BY <1>0, <2>1, StillCompleting DEF IInv
  <2> QED
    BY <1>apart, <2>1, <2>3, <2>4, <2>5 DEF Kept
<1>2. CASE HostListen(h)
  <2>1. HoldsLifetime(h)
    BY <1>2 DEF HostListen, HoldsLifetime, HostAt
  <2>2. CASE NamespaceAbsent
    <3>1. /\ socket' = [socket EXCEPT !["anchor"] = h] /\ host'[h].pc = "secure"
      BY <1>2, <2>2, <1>goes DEF HostListen, HostPcs
    <3>2. Apart'
      BY <1>0, <3>1 DEF Apart, FilesType
    <3>3. Laid(h)'
      BY <1>0, <3>1 DEF Laid, Publishing, FilesType
    <3> QED
      BY <1>alone, <2>1, <3>2, <3>3
  <2>3. CASE ~NamespaceAbsent
    <3>1. UNCHANGED socket /\ host'[h].pc = "release"
      BY <1>2, <2>3, <1>goes DEF HostListen, HostPcs
    <3> QED
      BY <1>alone, <1>apart, <2>1, <3>1, NothingLaid DEF Foundation, Publishing
  <2> QED
    BY <2>2, <2>3
<1>3. CASE HostSecure(h)
  <2>1. /\ HoldsLifetime(h) /\ UNCHANGED socket /\ socket["anchor"] = h
        /\ host'[h] = [pc |-> "create", rec |-> "pending"]
        /\ inode'[h].private
    BY <1>3, <1>0 DEF HostSecure, HoldsLifetime, Foundation, HostAt, Laid, HostType, FilesType
  <2>2. Laid(h)'
    BY <2>1 DEF Laid, Publishing
  <2> QED
    BY <1>alone, <1>apart, <2>1, <2>2
<1>4. CASE HostPublish(h)
  <2>1. PICK next \in Publishing \cup {"published"} :
          /\ Publish(host[h].rec, host[h].pc, IdentityOf(h), next)
          /\ HostGoes(h, IF next # "published" THEN next
                         ELSE IF host[h].rec = "pending" THEN "expose" ELSE "retire")
    BY <1>4 DEF HostPublish
  <2>2. /\ host[h].pc \in Publishing /\ HoldsLifetime(h) /\ UNCHANGED <<socket, inode>>
        /\ host[h].rec \in Records /\ host'[h].rec = host[h].rec
        /\ host'[h].pc = IF next # "published" THEN next
                         ELSE IF host[h].rec = "pending" THEN "expose" ELSE "retire"
    BY <2>1, <1>0, <1>goes
       DEF Publish, Publishing, HoldsLifetime, Foundation, HostPcs, HostType
  <2>3. Laid(h)'
    <3>1. CASE host[h].pc = "create"
      BY <2>1, <2>2, <3>1, <1>0 DEF Publish, Laid, Publishing, Foundation, FilesType, Records, IdentityOf
    <3>2. CASE host[h].pc = "write"
      BY <2>1, <2>2, <3>2, <1>0 DEF Publish, Laid, Publishing, Foundation, FilesType, Records, IdentityOf
    <3>3. CASE host[h].pc = "link"
      BY <2>1, <2>2, <3>3, <1>0 DEF Publish, Laid, Publishing, Foundation, FilesType, Records, IdentityOf
    <3>4. CASE host[h].pc = "clear"
      BY <2>1, <2>2, <3>4, <1>0 DEF Publish, Laid, Publishing, Foundation, FilesType, Records, IdentityOf
    <3> QED
      BY <2>2, <3>1, <3>2, <3>3, <3>4 DEF Publishing
  <2> QED
    BY <1>alone, <1>apart, <2>2, <2>3
<1>5. CASE HostExpose(h)
  <2>1. HoldsLifetime(h)
    BY <1>5 DEF HostExpose, HoldsLifetime, Foundation, HostAt
  <2>2. CASE socket["stable"] = Absent
    <3>1. /\ socket' = [socket EXCEPT !["stable"] = h] /\ inode' = Touched(h)
          /\ host'[h] = [pc |-> "create", rec |-> "marker"] /\ UNCHANGED temp
      BY <1>5, <2>2, <1>0 DEF HostExpose, HostType
    <3>2. Apart'
      BY <1>0, <2>2, <3>1, ConstantsAssumption DEF Apart, FilesType
    <3>3. socket["anchor"] = h /\ inode[h].private /\ temp["pending"] = Absent
      BY <1>5, <1>0 DEF HostExpose, Laid, Foundation, HostAt
    <3>4. Laid(h)'
      BY <1>0, <3>1, <3>3 DEF Laid, Publishing, FilesType, Touched
    <3> QED
      BY <1>alone, <2>1, <3>2, <3>4
  <2>3. CASE socket["stable"] # Absent
    <3>1. UNCHANGED socket /\ host'[h].pc = "abort"
      BY <1>5, <2>3, <1>goes DEF HostExpose, HostPcs
    <3> QED
      BY <1>alone, <1>apart, <2>1, <3>1, NothingLaid DEF Foundation, Publishing
  <2> QED
    BY <2>2, <2>3
<1>6. CASE HostRetire(h)
  <2>1. /\ HoldsLifetime(h) /\ UNCHANGED <<socket, inode, temp>> /\ host[h].pc = "retire"
        /\ host'[h].pc = "serving" /\ record' = [record EXCEPT !["pending"] = Absent]
    BY <1>6, <1>goes DEF HostRetire, UnlinkRecord, HoldsLifetime, Foundation, HostAt, HostPcs
  <2>2. Laid(h)'
    BY <2>1, <1>0 DEF Laid, Foundation, Publishing, FilesType, Records, IdentityOf
  <2> QED
    BY <1>alone, <1>apart, <2>1, <2>2
<1>7. CASE HostUndo(h) \/ HostWithdraw(h) \/ HostForget(h)
  <2>1. HoldsLifetime(h)
    BY <1>7 DEF HostUndo, HostWithdraw, HostForget, HostAt, HoldsLifetime, Removal
  <2>2. host'[h].pc \notin Foundation
    <3>1. host[h].pc \in {"undo", "abort", "close", "forget"}
      BY <1>7 DEF HostUndo, HostWithdraw, HostForget, HostAt
    <3>2. \/ UNCHANGED host
          \/ \E pc \in {"abort", "release", "forget"} : HostGoes(h, pc)
      BY <1>7 DEF HostUndo, HostWithdraw, HostForget
    <3> QED
      BY <3>1, <3>2, <1>goes DEF HostPcs, Foundation, Publishing
  <2>3. Apart'
    <3>1. CASE HostWithdraw(h)
      BY <3>1, <1>0, <1>apart, WithdrawApart DEF HostWithdraw
    <3>2. CASE HostUndo(h) \/ HostForget(h)
      BY <3>2, <1>apart DEF HostUndo, HostForget, UndoRecord, UnlinkRecord, UnlinkTemp
    <3> QED
      BY <1>7, <3>1, <3>2
  <2> QED
    BY <1>alone, <2>1, <2>2, <2>3, NothingLaid
<1> QED
  BY <1>1, <1>2, <1>3, <1>4, <1>5, <1>6, <1>7 DEF HostNext

(* Away from the directory a client only starts daemons.                   *)
LEMMA StarterAway ==
  ASSUME IInv, NEW s \in Starters, Others(s), UNCHANGED <<files, foreign>>,
         \A h \in Hosts : host'[h] = host[h] \/ host'[h].pc = "join",
         starter'[s].pc \notin Publishing
  PROVE  Kept
<1>1. Apart'
  BY DEF IInv, Apart, files
<1>2. ASSUME NEW h \in Hosts PROVE Laid(h)'
  BY StillLaid, NothingLaid DEF IInv, Foundation, Publishing
<1>3. ASSUME NEW t \in Starters PROVE Completing(t)'
  BY StillCompleting, NothingCompleting DEF IInv, Others
<1> QED
  BY <1>1, <1>2, <1>3 DEF Kept

LEMMA StarterStepKept ==
  ASSUME IInv, NEW s \in Starters, StarterNext(s)
  PROVE  Kept
<1> USE DEF locks, files
<1>0. StarterType /\ HostType /\ FilesType /\ Apart /\ Completing(s)
  BY TypeParts DEF IInv
<1>apart. UNCHANGED <<socket, foreign>> => Apart'
  BY <1>0 DEF Apart
<1>alone. /\ Cleaning(s) /\ Others(s) /\ UNCHANGED host /\ Apart' /\ Completing(s)'
          => Kept
  BY CleanerAlone DEF Kept
<1>1. CASE \/ Begin(s) \/ ProbeClaim(s) \/ ProbeRelease(s) \/ ProbeLifetime(s)
           \/ Prepare(s) \/ CompleteFails(s) \/ CleanFails(s) \/ Killed(s)
  <2>1. /\ Others(s)
        /\ starter'[s].pc \in {"idle", "probe", "observe", "lifetime", "connect",
                               "lock", "prepare", "recover", "undo"}
    <3>1. \/ Answers(s) \/ Reserved(s) \/ Unavailable(s)
          \/ \E pc \in {"probe", "observe", "lifetime", "connect", "recover", "undo"} :
               Goes(s, pc)
      BY <1>1 DEF Begin, ProbeClaim, ProbeRelease, ProbeLifetime, Prepare,
                  CompleteFails, CleanFails, Killed
    <3> QED
      BY <3>1, <1>0, GoesMoves, AnswersMoves, ReservedMoves, UnavailableMoves DEF Idle
  <2>2. UNCHANGED <<files, host, foreign>>
    BY <1>1 DEF Begin, ProbeClaim, ProbeRelease, ProbeLifetime, Prepare,
                CompleteFails, CleanFails, Killed
  <2> QED
    BY <2>1, <2>2, StarterAway DEF Publishing
<1>2. CASE Connect(s)
  <2>1. Others(s) /\ starter'[s].pc \in {"idle", "probe"}
    <3>1. CASE Answers(s) \/ Reserved(s)
      BY <3>1, <1>0, AnswersMoves, ReservedMoves DEF Idle
    <3>2. CASE starter' = [starter EXCEPT ![s].pc = "probe", ![s].again = TRUE]
      BY <3>2, <1>0 DEF StarterType, Others
    <3> QED
      BY <1>2, <3>1, <3>2 DEF Connect
  <2>2. UNCHANGED <<files, host, foreign>>
    BY <1>2 DEF Connect
  <2> QED
    BY <2>1, <2>2, StarterAway DEF Publishing
<1>3. CASE TakeStartup(s)
  <2>1. Others(s) /\ starter'[s].pc = "probe"
    <3>1. CASE startup = Nobody
      BY <1>3, <3>1, <1>0 DEF TakeStartup, StarterType, Others
    <3>2. CASE startup # Nobody
      BY <1>3, <3>2, <1>0, GoesMoves DEF TakeStartup
    <3> QED
      BY <3>1, <3>2
  <2>2. UNCHANGED <<files, host, foreign>>
    BY <1>3 DEF TakeStartup
  <2> QED
    BY <2>1, <2>2, StarterAway DEF Publishing
<1>4. CASE Spawn(s)
  <2>1. Others(s) /\ starter'[s].pc \in {"idle", "probe"}
    <3>1. CASE Answers(s)
      BY <3>1, <1>0, AnswersMoves DEF Idle
    <3>2. CASE ~Answers(s)
      BY <1>4, <3>2, <1>0 DEF Spawn, StarterType, Others
    <3> QED
      BY <3>1, <3>2
  <2>2. /\ UNCHANGED <<files, foreign>>
        /\ \A h \in Hosts : host'[h] = host[h] \/ host'[h].pc = "join"
    BY <1>4, <1>0 DEF Spawn, HostGoes, HostType
  <2> QED
    BY <2>1, <2>2, StarterAway DEF Publishing
<1>5. CASE Recover(s) \/ CompleteUndo(s)
  <2>1. Cleaning(s) /\ UNCHANGED <<socket, host, foreign>>
    BY <1>5 DEF Recover, CompleteUndo, Cleaning, At, UndoRecord, UnlinkRecord, UnlinkTemp
  <2>2. Others(s) /\ starter'[s].pc \notin Publishing
    <3>1. starter[s].pc \in {"recover", "undo"} /\ (Goes(s, "clean") \/ UNCHANGED starter)
      BY <1>5 DEF Recover, CompleteUndo, At
    <3> QED
      BY <3>1, <1>0, GoesMoves DEF Others, Publishing
  <2> QED
    BY <1>alone, <1>apart, <2>1, <2>2, NothingCompleting
<1>6. CASE Clean(s)
  <2>1. At(s, "clean") /\ Cleaning(s) /\ UNCHANGED <<host, foreign>>
    BY <1>6 DEF Clean, Cleaning, At
  <2>2. CASE Completes
    <3>1. UNCHANGED socket /\ Others(s) /\ starter'[s].pc = "create"
      BY <1>6, <2>2, <1>0, GoesMoves DEF Clean
    <3>2. socket["anchor"] \in Hosts
      BY <2>2, <1>0, ConstantsAssumption DEF Completes, Paired, Apart
    <3> QED
      BY <1>alone, <1>apart, <2>1, <3>1, <3>2 DEF Completing, At
  <2>3. CASE ~Completes /\ ~Withdrawn
    <3>1. Withdraw /\ UNCHANGED starter
      BY <1>6, <2>3 DEF Clean
    <3>2. Apart'
      BY <2>1, <3>1, WithdrawApart
    <3>3. Others(s) /\ starter'[s].pc \notin Publishing
      BY <2>1, <3>1 DEF Others, At, Publishing
    <3> QED
      BY <1>alone, <2>1, <3>1, <3>2, <3>3, NothingCompleting
  <2>4. CASE ~Completes /\ Withdrawn
    <3>1. UNCHANGED files /\ Others(s) /\ starter'[s].pc = "spawn"
      BY <1>6, <2>4, <1>0, GoesMoves DEF Clean
    <3> QED
      BY <1>alone, <1>apart, <2>1, <3>1, NothingCompleting DEF Publishing
  <2> QED
    BY <2>2, <2>3, <2>4
<1>7. CASE Complete(s)
  <2>1. PICK next \in Publishing \cup {"published"} :
          /\ Publish("marker", starter[s].pc, IdentityOf(socket["anchor"]), next)
          /\ Goes(s, IF next = "published" THEN "clean" ELSE next)
    BY <1>7 DEF Complete
  <2>2. starter[s].pc \in Publishing /\ UNCHANGED <<socket, inode, host, foreign>>
    BY <1>7, <2>1 DEF Complete, Publish, Publishing
  <2>3. socket["anchor"] \in Hosts /\ IdentityOf(socket["anchor"]) \in Identity
    BY <1>0, <2>2, IdentityType DEF Completing
  <2>4. Others(s) /\ starter'[s].pc = IF next = "published" THEN "clean" ELSE next
    BY <2>1, <1>0, GoesMoves
  <2>5. At(s, "link")' => temp'["marker"] \in Identity
    BY <2>1, <2>3, <2>4, <1>0 DEF Publish, At, FilesType, Records
  <2>6. Completing(s)'
    BY <2>2, <2>3, <2>5 DEF Completing
  <2> QED
    BY <1>alone, <1>apart, <2>2, <2>4, <2>6 DEF Cleaning
<1> QED
  BY <1>1, <1>2, <1>3, <1>4, <1>5, <1>6, <1>7 DEF StarterNext

(* A legacy daemon starts with no daemon of ours past its participant      *)
(* guard, and stops with its own socket under the stable name.             *)
LEMMA ForeignStepKept ==
  ASSUME IInv, ForeignStart \/ ForeignStop
  PROVE  Kept
<1>0. /\ UNCHANGED <<record, temp, host, starter>> /\ FilesType /\ Apart
      /\ socket'["anchor"] = socket["anchor"]
  BY TypeParts DEF IInv, ForeignStart, ForeignStop, FilesType
<1>1. Apart'
  BY <1>0, TypeParts DEF IInv, Apart, ForeignStart, ForeignStop, FilesType
<1>2. ASSUME NEW h \in Hosts PROVE Laid(h)'
  <2>1. CASE ForeignStart
    <3>1. host'[h].pc \in {"off", "join", "unclaim"}
      BY <2>1, <1>0 DEF ForeignStart
    <3> QED
      BY <3>1, NothingLaid DEF Foundation, Publishing
  <2>2. CASE ForeignStop
    <3>1. socket["stable"] # h /\ UNCHANGED inode
      BY <2>2, <1>0, ConstantsAssumption DEF ForeignStop, Apart
    <3> QED
      BY <3>1, <1>0 DEF IInv, Laid, IdentityOf
  <2> QED
    BY <2>1, <2>2
<1>3. ASSUME NEW s \in Starters PROVE Completing(s)'
  BY <1>0 DEF IInv, Completing, At
<1> QED
  BY <1>1, <1>2, <1>3 DEF Kept

-----------------------------------------------------------------------------
(* The invariant, and what it says.                                        *)
LEMMA StepHolds == IInv /\ [Next]_vars => IInv'
<1> SUFFICES ASSUME IInv, [Next]_vars PROVE IInv'
  OBVIOUS
<1>1. CASE \E h \in Hosts : HostNext(h)
  BY <1>1, HostStepType, HostStepLocked, HostStepKept DEF IInv, Kept
<1>2. CASE \E s \in Starters : StarterNext(s)
  BY <1>2, StarterStepType, StarterStepLocked, StarterStepKept DEF IInv, Kept
<1>3. CASE ForeignStart \/ ForeignStop
  BY <1>3, ForeignStepType, ForeignStepLocked, ForeignStepKept DEF IInv, Kept
<1>4. CASE UNCHANGED vars
  <2> USE <1>4 DEF vars, locks, files
  <2>1. TypeOK' /\ Locked' /\ Apart'
    BY DEF IInv, TypeOK, Locked, Apart, HoldsClaim, HoldsLifetime, Cleaning, At
  <2>2. Kept
    BY <2>1, StillLaid, StillCompleting DEF IInv, Kept
  <2> QED
    BY <2>1, <2>2 DEF IInv, Kept
<1> QED
  BY <1>1, <1>2, <1>3, <1>4 DEF Next

(* Places and locks, names and records agree in every reachable state.     *)
THEOREM Invariance == Spec => []IInv
  BY InitHolds, StepHolds, PTL DEF Spec

(* Locks, names, records and places have their types in every state that   *)
(* launches, cleanups and deaths (bootstrap.c, host.c, ipc.c) reach.       *)
THEOREM TypeCorrect == Spec => []TypeOK
  BY Invariance, PTL DEF IInv

(* While a daemon serves, no other process's step, and no death, takes its *)
(* locks, its socket's two names or its marker away, and nothing is left   *)
(* beside them; and a running legacy daemon keeps the stable name.         *)
THEOREM ListenersAlwaysReachable == Spec => []ListenersReachable
<1>1. IInv => ListenersReachable
  <2> SUFFICES ASSUME IInv PROVE ListenersReachable
    OBVIOUS
  <2>1. ASSUME NEW h \in Hosts, HostAt(h, "serving") PROVE Reachable(h)
    <3>1. HoldsClaim(h) /\ HoldsLifetime(h) /\ host[h].pc = "serving"
      BY <2>1 DEF HostAt, HoldsClaim, HoldsLifetime, Foundation
    <3>2. claim = h /\ lifetime = h
      BY <3>1 DEF IInv, Locked
    <3>3. Laid(h)
      BY DEF IInv
    <3> QED
      BY <3>1, <3>2, <3>3 DEF Laid, Reachable, Foundation, Records
  <2> QED
    BY <2>1 DEF ListenersReachable, IInv, Apart
<1> QED
  BY <1>1, Invariance, PTL

-----------------------------------------------------------------------------
(* What kills leave.  The directory has one of a few shapes in every       *)
(* state, so that a cleanup can tell from the files alone whose they are.         *)

(* Of the two names the stable one goes first and comes last.  A record is *)
(* about the anchor's socket, if that is still there; a temporary record   *)
(* outlives neither the socket nor, for the pending record, the moment of  *)
(* the link; and nothing has touched a linked pair since its marker.       *)
Shape ==
  /\ socket["stable"] \in Hosts => Paired
  /\ \A w \in Records :
       /\ record[w] # Absent => socket["anchor"] \in {Absent, record[w].owner}
       /\ temp[w] # Absent => socket["anchor"] \in Hosts /\ record[w] \in {Absent, temp[w]}
       /\ temp[w] \in Identity => temp[w].owner = socket["anchor"]
  /\ \A v, w \in Records : Absent \notin {record[v], record[w]} =>
       record[v].owner = record[w].owner
  /\ temp["pending"] # Absent => socket["stable"] \notin Hosts
  /\ temp["pending"] \in Identity => temp["pending"] = IdentityOf(socket["anchor"])
  /\ Paired /\ temp["marker"] \in Identity => temp["marker"] = IdentityOf(socket["anchor"])
  /\ Paired /\ record["marker"] # Absent => record["marker"] = IdentityOf(socket["anchor"])

NoTemps == \A w \in Records : temp[w] = Absent

(* What a daemon knows to be absent: it began with an empty directory, and *)
(* withdraws a temporary record before anything else.                      *)
Bare(h) ==
  LET p == host[h].pc
      w == host[h].rec IN
  /\ p = "secure" => NoTemps /\ \A v \in Records : record[v] = Absent
  /\ p \in {"secure", "expose"} \/ (p \in Publishing /\ w = "pending") =>
       /\ socket["stable"] = Absent
       /\ record["marker"] = Absent /\ temp["marker"] = Absent
  /\ p = "write" => record[w] = Absent
  /\ p \in Publishing \cup {"undo"} => \A v \in Records \ {w} : temp[v] = Absent
  /\ p \in {"expose", "retire", "abort", "forget", "close"} => NoTemps

(* What a cleanup has already collected.                                   *)
Collected(s) ==
  /\ At(s, "clean") => NoTemps
  /\ At(s, "write") => record["marker"] = Absent
  /\ starter[s].pc \in Publishing \cup {"undo"} => temp["pending"] = Absent

Layout ==
  /\ Shape
  /\ \A h \in Hosts : Bare(h)
  /\ \A s \in Starters : Collected(s)

LEMMA InitLayout == Init => Layout
<1> SUFFICES ASSUME Init PROVE Layout
  OBVIOUS
<1> USE ConstantsAssumption DEF Init, Records
<1>1. Shape
  BY DEF Shape, Paired, Identity
<1>2. \A h \in Hosts : Bare(h)
  BY DEF Bare, Publishing
<1>3. \A s \in Starters : Collected(s)
  BY DEF Collected, At, Idle, Publishing
<1> QED
  BY <1>1, <1>2, <1>3 DEF Layout

(* The steps on the directory keep its shape.                              *)
LEMMA UnlinkRecordShape ==
  ASSUME FilesType, Shape, NEW w \in Records, UnlinkRecord(w)
  PROVE  Shape'
  BY DEF FilesType, Shape, UnlinkRecord, Paired, IdentityOf, Records

LEMMA UnlinkTempShape ==
  ASSUME FilesType, Shape, NEW w \in Records, UnlinkTemp(w)
  PROVE  Shape'
  BY ConstantsAssumption
     DEF FilesType, Shape, UnlinkTemp, Paired, IdentityOf, Records, Identity

LEMMA UndoShape ==
  ASSUME FilesType, Shape, NEW w \in Records, UndoRecord(w)
  PROVE  Shape' /\ \A v \in Records \ {w} : temp'[v] = temp[v]
  BY UnlinkRecordShape, UnlinkTempShape
     DEF UndoRecord, FilesType, UnlinkRecord, UnlinkTemp

LEMMA WithdrawShape ==
  ASSUME FilesType, Apart, Shape, NoTemps, Withdraw
  PROVE  Shape' /\ NoTemps'
<1> USE ConstantsAssumption DEF FilesType, Shape, NoTemps, Paired, Apart, Identity
<1>1. CASE Paired /\ UnlinkSocket("stable")
  BY <1>1 DEF UnlinkSocket, Records
<1>2. CASE ~Paired /\ socket["anchor"] # Absent /\ UnlinkSocket("anchor")
  BY <1>2 DEF UnlinkSocket, Records
<1>3. CASE UnlinkRecord("marker") \/ UnlinkRecord("pending")
  BY <1>3, UnlinkRecordShape DEF UnlinkRecord, Records
<1> QED
  BY <1>1, <1>2, <1>3 DEF Withdraw

LEMMA PublishShape ==
  ASSUME FilesType, Shape, NEW w \in Records, NEW step, NEW next,
         socket["anchor"] \in Hosts,
         Publish(w, step, IdentityOf(socket["anchor"]), next),
         w = "pending" => socket["stable"] \notin Hosts,
         step = "write" => record[w] = Absent,
         step = "link" => temp[w] \in Identity
  PROVE  Shape'
<1> DEFINE id == IdentityOf(socket["anchor"])
<1>1. id \in Identity /\ id.owner = socket["anchor"] /\ id' = id
  BY DEF IdentityOf, Identity, FilesType, Publish
<1>2. UNCHANGED <<socket, inode>>
  BY DEF Publish
<1> HIDE DEF id
<1>3. CASE /\ record[w] = Absent /\ temp[w] = Absent
           /\ temp' = [temp EXCEPT ![w] = Torn] /\ UNCHANGED record
  BY <1>1, <1>2, <1>3, ConstantsAssumption
     DEF FilesType, Shape, Paired, Records, Identity, IdentityOf
<1>4. CASE /\ record[w] = Absent
           /\ temp' = [temp EXCEPT ![w] = id] /\ UNCHANGED record
  BY <1>1, <1>2, <1>4, ConstantsAssumption
     DEF FilesType, Shape, Paired, Records, IdentityOf, id
<1>5. CASE /\ temp[w] \in Identity
           /\ record' = [record EXCEPT ![w] = temp[w]] /\ UNCHANGED temp
  BY <1>1, <1>2, <1>5, ConstantsAssumption
     DEF FilesType, Shape, Paired, Records, IdentityOf
<1>6. CASE temp' = [temp EXCEPT ![w] = Absent] /\ UNCHANGED record
  BY <1>1, <1>2, <1>6, ConstantsAssumption
     DEF FilesType, Shape, Paired, Records, Identity, IdentityOf
<1> QED
  BY <1>3, <1>4, <1>5, <1>6 DEF Publish, id

LEMMA StillShape ==
  ASSUME Shape, UNCHANGED files
  PROVE  Shape'
  BY DEF Shape, files, Paired, IdentityOf

LEMMA NothingBare ==
  ASSUME NEW h \in Hosts, ~HoldsLifetime(h)'
  PROVE  Bare(h)'
  BY DEF Bare, HoldsLifetime, Foundation, Removal, Publishing

LEMMA NothingCollected ==
  ASSUME NEW s \in Starters, ~Cleaning(s)'
  PROVE  Collected(s)'
  BY DEF Collected, Cleaning, At, Publishing

LEMMA StillBare ==
  ASSUME NEW h \in Hosts, Bare(h), UNCHANGED <<socket, record, temp>>, host'[h] = host[h]
  PROVE  Bare(h)'
  BY DEF Bare, NoTemps

LEMMA StillCollected ==
  ASSUME NEW s \in Starters, Collected(s), UNCHANGED <<record, temp>>,
         starter'[s] = starter[s]
  PROVE  Collected(s)'
  BY DEF Collected, NoTemps, At

LEMMA HolderLeaves ==
  ASSUME IInv, NEW h \in Hosts, HoldsLifetime(h), Elsewhere(h), UNCHANGED starter,
         Shape', Bare(h)'
  PROVE  Layout'
<1>1. lifetime = h
  BY DEF IInv, Locked
<1>2. ASSUME NEW g \in Hosts \ {h} PROVE Bare(g)'
  <2>1. ~HoldsLifetime(g) /\ host'[g] = host[g]
    BY <1>1 DEF IInv, Locked, Elsewhere
  <2> QED
    BY <2>1, NothingBare DEF HoldsLifetime
<1>3. ASSUME NEW s \in Starters PROVE Collected(s)'
  <2>1. ~Cleaning(s) /\ starter'[s] = starter[s]
    BY <1>1, ConstantsAssumption DEF IInv, Locked
  <2> QED
    BY <2>1, NothingCollected DEF Cleaning
<1> QED
  BY <1>2, <1>3 DEF Layout

LEMMA CleanerLeaves ==
  ASSUME IInv, NEW s \in Starters, Cleaning(s), Others(s), UNCHANGED host,
         Shape', Collected(s)'
  PROVE  Layout'
<1>1. lifetime = s
  BY DEF IInv, Locked
<1>2. ASSUME NEW h \in Hosts PROVE Bare(h)'
  <2>1. ~HoldsLifetime(h) /\ host'[h] = host[h]
    BY <1>1, ConstantsAssumption DEF IInv, Locked
  <2> QED
    BY <2>1, NothingBare DEF HoldsLifetime
<1>3. ASSUME NEW t \in Starters \ {s} PROVE Collected(t)'
  <2>1. ~Cleaning(t) /\ starter'[t] = starter[t]
    BY <1>1 DEF IInv, Locked, Others
  <2> QED
    BY <2>1, NothingCollected DEF Cleaning
<1> QED
  BY <1>2, <1>3 DEF Layout

LEMMA HostStepLayout ==
  ASSUME IInv, Layout, NEW h \in Hosts, HostNext(h)
  PROVE  Layout'
<1> USE DEF locks, files
<1>0. /\ Elsewhere(h) /\ UNCHANGED <<startup, starter, foreign>>
      /\ Laid(h) /\ Bare(h) /\ Shape /\ Apart /\ FilesType /\ HostType
      /\ host[h].rec \in Records
  BY HostMoves, TypeParts DEF IInv, Layout, HostType
<1>goes. \A pc \in HostPcs : HostGoes(h, pc) =>
           host'[h].pc = pc /\ host'[h].rec = host[h].rec
  BY <1>0 DEF HostGoes, HostType
<1>leaves. HoldsLifetime(h) /\ Shape' /\ Bare(h)' => Layout'
  BY <1>0, HolderLeaves
<1>calm. UNCHANGED files /\ Bare(h)' => Layout'
  BY <1>0, StillShape, StillBare, StillCollected DEF Layout, Elsewhere
<1>1. CASE \/ HostJoin(h) \/ HostClaim(h) \/ HostClaimTimeout(h) \/ HostReserve(h)
           \/ HostLeaves(h) \/ HostRelease(h) \/ HostUnclaim(h) \/ HostKilled(h)
  <2>1. UNCHANGED files
    BY <1>1 DEF HostJoin, HostClaim, HostClaimTimeout, HostReserve, HostLeaves,
                HostRelease, HostUnclaim, HostKilled
  <2>2. PICK pc \in {"off", "claim", "reserve", "listen", "release", "unclaim"} :
          HostGoes(h, pc)
    BY <1>1 DEF HostJoin, HostClaim, HostClaimTimeout, HostReserve, HostLeaves,
                HostRelease, HostUnclaim, HostKilled
  <2>3. Bare(h)'
    BY <2>2, <1>goes DEF Bare, HostPcs, Publishing
  <2> QED
    BY <1>calm, <2>1, <2>3
<1>2. CASE HostFault(h) \/ HostStop(h)
  <2>1. UNCHANGED files
    BY <1>2 DEF HostFault, HostStop
  <2>2. CASE HostFault(h)
    <3>1. /\ host[h].pc \in Publishing \cup {"listen", "secure", "expose", "retire"}
          /\ host'[h].rec = host[h].rec
          /\ host'[h].pc = CASE host[h].pc = "listen" -> "release"
                              [] host[h].pc \in Publishing -> "undo"
                              [] OTHER -> "abort"
      BY <2>2, <1>goes DEF HostFault, HostPcs, Publishing
    <3> QED
      BY <1>calm, <1>0, <2>1, <3>1 DEF Bare, NoTemps, Publishing
  <2>3. CASE HostStop(h)
    <3>1. /\ host[h].pc = "serving" /\ host'[h].pc \in {"close", "release"}
      BY <2>3, <1>goes DEF HostStop, HostAt, HostPcs
    <3> QED
      BY <1>calm, <1>0, <2>1, <3>1 DEF Bare, NoTemps, Publishing, Laid, Records
  <2> QED
    BY <1>2, <2>2, <2>3
<1>3. CASE HostListen(h)
  <2>1. HoldsLifetime(h)
    BY <1>3 DEF HostListen, HoldsLifetime, HostAt
  <2>2. CASE NamespaceAbsent
    <3>1. /\ socket' = [socket EXCEPT !["anchor"] = h] /\ host'[h].pc = "secure"
          /\ UNCHANGED <<record, temp>>
      BY <1>3, <2>2, <1>goes DEF HostListen, HostPcs
    <3>2. Shape'
      BY <1>0, <2>2, <3>1, ConstantsAssumption
         DEF NamespaceAbsent, Shape, Paired, FilesType, Records, Identity
    <3>3. Bare(h)'
      BY <1>0, <2>2, <3>1
         DEF NamespaceAbsent, Bare, NoTemps, FilesType, Records, Publishing
    <3> QED
      BY <1>leaves, <2>1, <3>2, <3>3
  <2>3. CASE ~NamespaceAbsent
    <3>1. UNCHANGED files /\ host'[h].pc = "release"
      BY <1>3, <2>3, <1>goes DEF HostListen, HostPcs
    <3> QED
      BY <1>calm, <3>1 DEF Bare, Publishing
  <2> QED
    BY <2>2, <2>3
<1>4. CASE HostSecure(h)
  <2>1. /\ HoldsLifetime(h) /\ UNCHANGED <<socket, record, temp>>
        /\ host[h].pc = "secure"
        /\ host'[h] = [pc |-> "create", rec |-> "pending"]
    BY <1>4, <1>0 DEF HostSecure, HoldsLifetime, Foundation, HostAt, HostType
  <2>2. NoTemps /\ \A v \in Records : record[v] = Absent
    BY <1>0, <2>1 DEF Bare
  <2>3. Shape'
    BY <1>0, <2>1, <2>2, ConstantsAssumption DEF Shape, Paired, NoTemps, Records, Identity
  <2>4. Bare(h)'
    BY <1>0, <2>1, <2>2 DEF Bare, NoTemps, Records, Publishing
  <2> QED
    BY <1>leaves, <2>1, <2>3, <2>4
<1>5. CASE HostPublish(h)
  <2>1. PICK next \in Publishing \cup {"published"} :
          /\ Publish(host[h].rec, host[h].pc, IdentityOf(h), next)
          /\ HostGoes(h, IF next # "published" THEN next
                         ELSE IF host[h].rec = "pending" THEN "expose" ELSE "retire")
    BY <1>5 DEF HostPublish
  <2>2. /\ host[h].pc \in Publishing /\ HoldsLifetime(h)
        /\ host'[h].rec = host[h].rec
        /\ host'[h].pc = IF next # "published" THEN next
                         ELSE IF host[h].rec = "pending" THEN "expose" ELSE "retire"
    BY <2>1, <1>0, <1>goes
       DEF Publish, Publishing, HoldsLifetime, Foundation, HostPcs, HostType
  <2>3. /\ socket["anchor"] = h
        /\ host[h].rec = "pending" => socket["stable"] \notin Hosts
        /\ host[h].pc = "write" => record[host[h].rec] = Absent
        /\ host[h].pc = "link" => temp[host[h].rec] \in Identity
    BY <1>0, <2>2, IdentityType, ConstantsAssumption DEF Laid, Bare, Foundation
  <2>4. Shape'
    BY <1>0, <2>1, <2>3, PublishShape
  <2>5. Bare(h)'
    <3>1. CASE host[h].pc \in {"create", "write", "link"}
      BY <1>0, <2>1, <2>2, <3>1
         DEF Bare, Publish, Publishing, Records, NoTemps, FilesType
    <3>2. CASE host[h].pc = "clear"
      BY <1>0, <2>1, <2>2, <3>2
         DEF Bare, Publish, Publishing, Records, NoTemps, FilesType
    <3> QED
      BY <2>2, <3>1, <3>2 DEF Publishing
  <2> QED
    BY <1>leaves, <2>2, <2>4, <2>5
<1>6. CASE HostExpose(h)
  <2>1. HoldsLifetime(h) /\ host[h].pc = "expose"
    BY <1>6 DEF HostExpose, HoldsLifetime, Foundation, HostAt
  <2>2. /\ socket["stable"] = Absent /\ NoTemps
        /\ record["marker"] = Absent /\ socket["anchor"] = h
    BY <1>0, <2>1 DEF Bare, Laid, Foundation
  <2>3. /\ socket' = [socket EXCEPT !["stable"] = h] /\ UNCHANGED <<record, temp>>
        /\ host'[h] = [pc |-> "create", rec |-> "marker"]
    BY <1>6, <1>0, <2>2 DEF HostExpose, HostType
  <2>4. Shape'
    BY <1>0, <2>2, <2>3, ConstantsAssumption
       DEF Shape, Paired, NoTemps, Records, Identity, FilesType
  <2>5. Bare(h)'
    BY <2>2, <2>3 DEF Bare, NoTemps, Records, Publishing
  <2> QED
    BY <1>leaves, <2>1, <2>4, <2>5
<1>7. CASE HostRetire(h)
  <2>1. HoldsLifetime(h) /\ UnlinkRecord("pending") /\ host'[h].pc = "serving"
    BY <1>7, <1>goes DEF HostRetire, HoldsLifetime, Foundation, HostAt, HostPcs
  <2>2. Shape'
    BY <1>0, <2>1, UnlinkRecordShape DEF Records
  <2> QED
    BY <1>leaves, <2>1, <2>2 DEF Bare, Publishing
<1>8. CASE HostUndo(h)
  <2>1. HoldsLifetime(h) /\ host[h].pc = "undo"
    BY <1>8 DEF HostUndo, HostAt, HoldsLifetime, Removal
  <2>2. \A v \in Records \ {host[h].rec} : temp[v] = Absent
    BY <1>0, <2>1 DEF Bare
  <2>3. CASE temp[host[h].rec] = Absent
    <3>1. UNCHANGED files /\ host'[h].pc = "abort"
      BY <1>8, <2>3, <1>goes DEF HostUndo, HostPcs
    <3> QED
      BY <1>calm, <2>2, <2>3, <3>1 DEF Bare, NoTemps, Publishing
  <2>4. CASE temp[host[h].rec] # Absent
    <3>1. UndoRecord(host[h].rec) /\ UNCHANGED host
      BY <1>8, <2>4 DEF HostUndo
    <3>2. Shape' /\ \A v \in Records \ {host[h].rec} : temp'[v] = temp[v]
      BY <1>0, <3>1, UndoShape
    <3>3. Bare(h)'
      BY <2>1, <2>2, <3>1, <3>2 DEF Bare, Publishing
    <3> QED
      BY <1>leaves, <2>1, <3>2, <3>3
  <2> QED
    BY <2>3, <2>4
<1>9. CASE HostWithdraw(h) \/ HostForget(h)
  <2>1. HoldsLifetime(h) /\ host[h].pc \in {"abort", "close", "forget"}
    BY <1>9 DEF HostWithdraw, HostForget, HostAt, HoldsLifetime, Removal
  <2>2. NoTemps
    BY <1>0, <2>1 DEF Bare
  <2>3. CASE UNCHANGED files
    <3>1. host'[h].pc \in {"abort", "close", "forget", "release"}
      <4>1. UNCHANGED host \/ HostGoes(h, "release") \/ HostGoes(h, "forget")
        BY <1>9 DEF HostWithdraw, HostForget
      <4> QED
        BY <2>1, <4>1, <1>goes DEF HostPcs
    <3> QED
      BY <1>calm, <2>2, <2>3, <3>1 DEF Bare, NoTemps, Publishing
  <2>4. CASE ~UNCHANGED files
    <3>1. /\ UNCHANGED host
          /\ Withdraw \/ UnlinkRecord("marker") \/ UnlinkRecord("pending")
      BY <1>9, <2>4 DEF HostWithdraw, HostForget
    <3>2. Shape' /\ NoTemps'
      BY <1>0, <2>2, <3>1, WithdrawShape, UnlinkRecordShape
         DEF Records, NoTemps, UnlinkRecord
    <3>3. Bare(h)'
      BY <2>1, <3>1, <3>2 DEF Bare, Publishing
    <3> QED
      BY <1>leaves, <2>1, <3>2, <3>3
  <2> QED
    BY <2>3, <2>4
<1> QED
  BY <1>1, <1>2, <1>3, <1>4, <1>5, <1>6, <1>7, <1>8, <1>9 DEF HostNext

LEMMA StarterStepLayout ==
  ASSUME IInv, Layout, NEW s \in Starters, StarterNext(s)
  PROVE  Layout'
<1> USE DEF locks, files
<1>0. StarterType /\ HostType /\ FilesType /\ Apart /\ Completing(s) /\ Collected(s) /\ Shape
  BY TypeParts DEF IInv, Layout
<1>leaves. Cleaning(s) /\ Others(s) /\ UNCHANGED host /\ Shape' /\ Collected(s)' => Layout'
  BY CleanerLeaves
<1>away. ASSUME UNCHANGED files, Others(s), ~Cleaning(s)',
                \A h \in Hosts : host'[h] = host[h] \/ host'[h].pc = "join"
         PROVE  Layout'
  <2>1. ASSUME NEW h \in Hosts PROVE Bare(h)'
    <3>1. CASE host'[h] = host[h]
      BY <1>away, <3>1, StillBare DEF Layout
    <3>2. CASE host'[h].pc = "join"
      BY <3>2 DEF Bare, Publishing
    <3> QED
      BY <1>away, <3>1, <3>2
  <2>2. ASSUME NEW t \in Starters PROVE Collected(t)'
    <3>1. CASE t = s
      BY <1>away, <3>1, NothingCollected
    <3>2. CASE t # s
      BY <1>away, <3>2, StillCollected DEF Layout, Others
    <3> QED
      BY <3>1, <3>2
  <2> QED
    BY <1>0, <1>away, <2>1, <2>2, StillShape DEF Layout
<1>1. CASE \/ Begin(s) \/ ProbeClaim(s) \/ ProbeRelease(s) \/ ProbeLifetime(s)
           \/ CleanFails(s) \/ Killed(s)
  <2>1. /\ Others(s)
        /\ starter'[s].pc \in {"idle", "probe", "observe", "lifetime", "connect",
                               "lock", "prepare"}
    <3>1. \/ Answers(s) \/ Reserved(s) \/ Unavailable(s)
          \/ \E pc \in {"probe", "observe", "lifetime", "connect"} : Goes(s, pc)
      BY <1>1 DEF Begin, ProbeClaim, ProbeRelease, ProbeLifetime, CleanFails, Killed
    <3> QED
      BY <3>1, <1>0, GoesMoves, AnswersMoves, ReservedMoves, UnavailableMoves DEF Idle
  <2>2. UNCHANGED <<files, host>>
    BY <1>1 DEF Begin, ProbeClaim, ProbeRelease, ProbeLifetime, CleanFails, Killed
  <2> QED
    BY <2>1, <2>2, <1>away DEF Cleaning, Publishing
<1>2. CASE Connect(s)
  <2>1. Others(s) /\ starter'[s].pc \in {"idle", "probe"}
    <3>1. CASE Answers(s) \/ Reserved(s)
      BY <3>1, <1>0, AnswersMoves, ReservedMoves DEF Idle
    <3>2. CASE starter' = [starter EXCEPT ![s].pc = "probe", ![s].again = TRUE]
      BY <3>2, <1>0 DEF StarterType, Others
    <3> QED
      BY <1>2, <3>1, <3>2 DEF Connect
  <2>2. UNCHANGED <<files, host>>
    BY <1>2 DEF Connect
  <2> QED
    BY <2>1, <2>2, <1>away DEF Cleaning, Publishing
<1>3. CASE TakeStartup(s)
  <2>1. Others(s) /\ starter'[s].pc = "probe"
    <3>1. CASE startup = Nobody
      BY <1>3, <3>1, <1>0 DEF TakeStartup, StarterType, Others
    <3>2. CASE startup # Nobody
      BY <1>3, <3>2, <1>0, GoesMoves DEF TakeStartup
    <3> QED
      BY <3>1, <3>2
  <2>2. UNCHANGED <<files, host>>
    BY <1>3 DEF TakeStartup
  <2> QED
    BY <2>1, <2>2, <1>away DEF Cleaning, Publishing
<1>4. CASE Spawn(s)
  <2>1. Others(s) /\ starter'[s].pc \in {"idle", "probe"}
    <3>1. CASE Answers(s)
      BY <3>1, <1>0, AnswersMoves DEF Idle
    <3>2. CASE ~Answers(s)
      BY <1>4, <3>2, <1>0 DEF Spawn, StarterType, Others
    <3> QED
      BY <3>1, <3>2
  <2>2. UNCHANGED files /\ \A h \in Hosts : host'[h] = host[h] \/ host'[h].pc = "join"
    BY <1>4, <1>0 DEF Spawn, HostGoes, HostType
  <2> QED
    BY <2>1, <2>2, <1>away DEF Cleaning, Publishing
<1>5. CASE Prepare(s)
  <2>1. Others(s) /\ starter'[s].pc \in {"idle", "recover"} /\ UNCHANGED <<files, host>>
    BY <1>5, <1>0, GoesMoves, AnswersMoves DEF Prepare, Idle
  <2>2. Collected(s)'
    BY <2>1 DEF Collected, At, Publishing
  <2>3. \A t \in Starters : Collected(t)'
    BY <2>1, <2>2, StillCollected DEF Layout, Others
  <2>4. \A h \in Hosts : Bare(h)'
    BY <2>1, StillBare DEF Layout
  <2> QED
    BY <1>0, <2>1, <2>3, <2>4, StillShape DEF Layout
<1>6. CASE Recover(s)
  <2>1. Cleaning(s) /\ At(s, "recover") /\ UNCHANGED host
    BY <1>6 DEF Recover, Cleaning, At
  <2>2. CASE TempLeft = {}
    <3>1. UNCHANGED files /\ Others(s) /\ starter'[s].pc = "clean"
      BY <1>6, <2>2, <1>0, GoesMoves DEF Recover
    <3>2. Shape' /\ Collected(s)'
      BY <1>0, <2>2, <3>1, StillShape DEF TempLeft, Collected, At, NoTemps, Publishing
    <3> QED
      BY <1>leaves, <2>1, <3>1, <3>2
  <2>3. CASE TempLeft # {}
    <3>1. UNCHANGED starter /\ \E w \in Records : UnlinkTemp(w)
      BY <1>6, <2>3 DEF Recover, TempLeft
    <3>2. Shape'
      BY <1>0, <3>1, UnlinkTempShape
    <3>3. Others(s) /\ Collected(s)'
      BY <2>1, <3>1 DEF Others, Collected, At, Publishing
    <3> QED
      BY <1>leaves, <2>1, <3>2, <3>3
  <2> QED
    BY <2>2, <2>3
<1>7. CASE Clean(s)
  <2>1. At(s, "clean") /\ Cleaning(s) /\ UNCHANGED host /\ NoTemps
    BY <1>7, <1>0 DEF Clean, Cleaning, At, Collected
  <2>2. CASE Completes
    <3>1. UNCHANGED files /\ Others(s) /\ starter'[s].pc = "create"
      BY <1>7, <2>2, <1>0, GoesMoves DEF Clean
    <3>2. Shape' /\ Collected(s)'
      BY <1>0, <2>1, <3>1, StillShape DEF Collected, At, NoTemps, Records
    <3> QED
      BY <1>leaves, <2>1, <3>1, <3>2
  <2>3. CASE ~Completes /\ ~Withdrawn
    <3>1. Withdraw /\ UNCHANGED starter
      BY <1>7, <2>3 DEF Clean
    <3>2. Shape' /\ NoTemps'
      BY <1>0, <2>1, <3>1, WithdrawShape
    <3>3. Others(s) /\ Collected(s)'
      BY <2>1, <3>1, <3>2 DEF Others, Collected, At, Publishing
    <3> QED
      BY <1>leaves, <2>1, <3>2, <3>3
  <2>4. CASE ~Completes /\ Withdrawn
    <3>1. UNCHANGED files /\ Others(s) /\ starter'[s].pc = "spawn"
      BY <1>7, <2>4, <1>0, GoesMoves DEF Clean
    <3>2. Shape' /\ Collected(s)'
      BY <1>0, <3>1, StillShape DEF Collected, At, Publishing
    <3> QED
      BY <1>leaves, <2>1, <3>1, <3>2
  <2> QED
    BY <2>2, <2>3, <2>4
<1>8. CASE Complete(s)
  <2>1. PICK next \in Publishing \cup {"published"} :
          /\ Publish("marker", starter[s].pc, IdentityOf(socket["anchor"]), next)
          /\ Goes(s, IF next = "published" THEN "clean" ELSE next)
    BY <1>8 DEF Complete
  <2>2. /\ starter[s].pc \in Publishing /\ Cleaning(s) /\ UNCHANGED host
        /\ temp["pending"] = Absent
    BY <1>8, <2>1, <1>0 DEF Complete, Publish, Publishing, Cleaning, Collected
  <2>3. /\ socket["anchor"] \in Hosts
        /\ starter[s].pc = "write" => record["marker"] = Absent
        /\ starter[s].pc = "link" => temp["marker"] \in Identity
    BY <1>0, <2>2 DEF Completing, Collected, At
  <2>4. Shape'
    BY <1>0, <2>1, <2>3, PublishShape DEF Records
  <2>5. Others(s) /\ starter'[s].pc = IF next = "published" THEN "clean" ELSE next
    BY <2>1, <1>0, GoesMoves
  <2>6. Collected(s)'
    BY <1>0, <2>1, <2>2, <2>5
       DEF Collected, At, Publish, Publishing, NoTemps, Records, FilesType
  <2> QED
    BY <1>leaves, <2>2, <2>4, <2>5, <2>6
<1>9. CASE CompleteFails(s)
  <2>1. /\ starter[s].pc \in Publishing /\ Cleaning(s) /\ UNCHANGED <<files, host>>
        /\ Others(s) /\ starter'[s].pc = "undo"
    BY <1>9, <1>0, GoesMoves DEF CompleteFails, Cleaning
  <2>2. Shape' /\ Collected(s)'
    BY <1>0, <2>1, StillShape DEF Collected, At
  <2> QED
    BY <1>leaves, <2>1, <2>2
<1>10. CASE CompleteUndo(s)
  <2>1. /\ At(s, "undo") /\ Cleaning(s) /\ UNCHANGED <<host, starter>>
        /\ UndoRecord("marker") /\ temp["pending"] = Absent
    BY <1>10, <1>0 DEF CompleteUndo, Cleaning, At, Collected
  <2>2. Shape' /\ temp'["pending"] = Absent
    BY <1>0, <2>1, UndoShape DEF Records
  <2>3. Others(s) /\ Collected(s)'
    BY <2>1, <2>2 DEF Others, Collected, At
  <2> QED
    BY <1>leaves, <2>1, <2>2, <2>3
<1> QED
  BY <1>1, <1>2, <1>3, <1>4, <1>5, <1>6, <1>7, <1>8, <1>9, <1>10 DEF StarterNext

(* A legacy daemon unlinks a pair for good.                                *)
LEMMA ForeignStepLayout ==
  ASSUME IInv, Layout, ForeignStart \/ ForeignStop
  PROVE  Layout'
<1>0. /\ UNCHANGED <<record, temp, host, starter>> /\ FilesType /\ Apart /\ Shape
      /\ socket'["anchor"] = socket["anchor"] /\ socket'["stable"] \in {Foreign, Absent}
  BY TypeParts DEF IInv, Layout, ForeignStart, ForeignStop, FilesType
<1>1. Shape'
  <2>1. ~Paired' /\ socket'["stable"] \notin Hosts
    BY <1>0, ConstantsAssumption DEF Paired, Apart
  <2>2. temp["pending"] \in Identity =>
          IdentityOf(socket["anchor"])' = IdentityOf(socket["anchor"])
    BY <1>0, ConstantsAssumption DEF Shape, ForeignStart, ForeignStop, IdentityOf, Identity
  <2> QED
    BY <1>0, <2>1, <2>2 DEF Shape
<1>2. ASSUME NEW h \in Hosts PROVE Bare(h)'
  <2>1. CASE ForeignStart
    <3>1. host'[h].pc \in {"off", "join", "unclaim"}
      BY <2>1, <1>0 DEF ForeignStart
    <3> QED
      BY <3>1 DEF Bare, Publishing
  <2>2. CASE ForeignStop
    BY <2>2, <1>0 DEF Layout, Bare, NoTemps, ForeignStop, FilesType
  <2> QED
    BY <2>1, <2>2
<1>3. ASSUME NEW s \in Starters PROVE Collected(s)'
  BY <1>0, StillCollected DEF Layout
<1> QED
  BY <1>1, <1>2, <1>3 DEF Layout

LEMMA LayoutHolds == IInv /\ Layout /\ [Next]_vars => Layout'
<1> SUFFICES ASSUME IInv, Layout, [Next]_vars PROVE Layout'
  OBVIOUS
<1>1. CASE \E h \in Hosts : HostNext(h)
  BY <1>1, HostStepLayout
<1>2. CASE \E s \in Starters : StarterNext(s)
  BY <1>2, StarterStepLayout
<1>3. CASE ForeignStart \/ ForeignStop
  BY <1>3, ForeignStepLayout
<1>4. CASE UNCHANGED vars
  BY <1>4, StillShape, StillBare, StillCollected DEF vars, files, Layout
<1> QED
  BY <1>1, <1>2, <1>3, <1>4 DEF Next

(* What lies in the endpoint's directory has one of the shapes of Layout,  *)
(* whoever was killed before.                                              *)
THEOREM LayoutInvariance == Spec => [](IInv /\ Layout)
  BY InitHolds, StepHolds, InitLayout, LayoutHolds, PTL DEF Spec

(* Whatever sequence of kills, faults and legacy daemons came before, a    *)
(* cleanup (ipc.c) refuses a directory only in the five cases of Excused.  *)
THEOREM LeftoversAlwaysCollectable == Spec => []LeftoversCollectable
<1>1. IInv /\ Layout => LeftoversCollectable
  <2> SUFFICES ASSUME IInv, Layout, ~Excused PROVE ~RecoverRefused /\ ~CleanRefused
    BY DEF LeftoversCollectable
  <2>0. Shape /\ Apart /\ FilesType
    BY TypeParts DEF IInv, Layout
  <2>1. /\ ~Unsafe("anchor") /\ ~Unsafe("stable")
        /\ socket["stable"] \in {socket["anchor"], Absent}
        /\ socket["stable"] = Absent \/ Paired
    BY <2>0 DEF Excused, Unsafe, Shape, Paired, FilesType
  <2>2. ASSUME NEW w \in Records, temp[w] # Absent
        PROVE  temp[w] # Torn /\ Corroborated(w) /\ record[w] \in {Absent, temp[w]}
    <3>1. temp[w] \in Identity /\ temp[w] # Torn
      BY <2>0, <2>2 DEF FilesType, Excused
    <3>2. socket["anchor"] \in Hosts /\ record[w] \in {Absent, temp[w]}
      BY <2>0, <2>2 DEF Shape
    <3>3. CASE w = "pending"
      <4>1. socket["stable"] = Absent /\ temp[w] = IdentityOf(socket["anchor"])
        BY <2>0, <2>1, <2>2, <3>1, <3>2, <3>3 DEF Shape
      <4> QED
        BY <2>1, <3>1, <3>2, <3>3, <4>1 DEF Corroborated
    <3>4. CASE w = "marker"
      <4>1. Paired /\ temp[w] = IdentityOf(socket["anchor"])
        BY <2>0, <2>1, <2>2, <3>1, <3>4 DEF Shape, Excused
      <4> QED
        BY <2>1, <3>1, <3>2, <3>4, <4>1 DEF Corroborated
    <3> QED
      BY <3>3, <3>4 DEF Records
  <2>3. ~RecoverRefused
    BY <2>2 DEF RecoverRefused, TempLeft
  <2>4. ~CleanRefused
    <3>1. \A w \in Records : Owner(w) # Absent =>
            record[w] # Absent /\ Owner(w) = record[w].owner
      BY DEF Owner
    <3>2. \A w \in Records : Owner(w) = Absent => record[w] = Absent
      BY <2>0, ConstantsAssumption DEF Owner, FilesType, Identity
    <3> QED
      BY <2>0, <2>1, <3>1, <3>2
         DEF CleanRefused, Excused, Shape, Withdrawn, Paired, Records
  <2> QED
    BY <2>3, <2>4
<1> QED
  BY <1>1, LayoutInvariance, PTL

=============================================================================
