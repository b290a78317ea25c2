-------------------- MODULE ActivationTransactionProofs --------------------
(***************************************************************************)
(* Theorems of ActivationTransaction: what lies under the three names, and *)
(* what a power loss can leave of it, at every line of the transaction.    *)
(*                                                                         *)
(* A change of the directory is described name by name (Alters), for the   *)
(* directory and for each one that a power loss may leave; what a step     *)
(* needs to know of them is what the flags of the object say (Flagged) and *)
(* what was synced before (Prepared, Targeted).                            *)
(***************************************************************************)
EXTENDS ActivationTransaction, TLAPS

Dirs == [Names -> Entry]

USE DEF disturbed

(* The transaction object.                                                 *)
Objects ==
  [state : {"none", "STAGED", "COMMITTED", "ROLLED_BACK", "FINALIZED",
            "RECOVERY_NEEDED", "gone"},
   action : {"REPLACE", "REMOVE"}, existed : BOOLEAN,
   staged_exists : BOOLEAN, backup_exists : BOOLEAN,
   backup_contains_target : BOOLEAN,
   backup_identity : {"none", "blank", "old"}]

-----------------------------------------------------------------------------
(* The invariant.                                                          *)

StagingPlace   == {"reserve", "reserved", "write", "written"}
DiscardPlace   == {"discard_stage", "discard_backup", "discard_sync"}
ReplacePlace   == {"drop", "link", "verify", "sync_backup", "replace"}
PublishPlace   == {"publish", "check_linked", "check_published"}
UndoPlace      == {"rollback", "restore", "remove", "removed"}
RollbackPlace  == UndoPlace \cup {"rolled_back"}
FinalPlace     == {"unlink_old", "sync_final"}
CommitPlace    == ReplacePlace \cup PublishPlace \cup {"retire", "committed", "validate"}

(* Where the code is says which call runs and what was asked for.          *)
Placed ==
  /\ tx.state \in {"none", "gone"} => pc = "idle"
  /\ pc \in StagingPlace => call = "stage" /\ tx.state = "STAGED"
  /\ pc \in {"reserve", "reserved", "retire"} \cup ReplacePlace => tx.existed
  /\ pc \in {"write", "written"} \cup ReplacePlace \cup PublishPlace
       => tx.action = "REPLACE"
  /\ pc \in PublishPlace => ~tx.existed
  /\ pc = "retire" => tx.action = "REMOVE"
  /\ pc \in DiscardPlace =>
       call \in {"stage", "close"} /\ tx.state \in {"STAGED", "ROLLED_BACK"}
  /\ pc \in CommitPlace =>
       call = "commit" /\ tx.state = IF pc = "validate" THEN "COMMITTED" ELSE "STAGED"
  /\ pc \in UndoPlace => tx.state \in {"COMMITTED", "RECOVERY_NEEDED"}
  /\ pc = "restore" => tx.existed
  /\ pc \in {"remove", "removed"} => ~tx.existed /\ tx.action = "REPLACE"
  /\ pc = "rolled_back" => tx.state = "ROLLED_BACK"
  /\ pc \in RollbackPlace =>
       \/ call = "commit" /\ reply \in {"IO", "VALIDATION_FAILED"}
       \/ call \in {"rollback", "close"} /\ reply = "OK"
  /\ pc \in FinalPlace => call = "finalize" /\ tx.state = "COMMITTED"

(* The flags of the object tell what is in the directory.                  *)
Flagged ==
  /\ tx.state # "gone" => /\ tx.staged_exists <=> dir["stage"] # "none"
                          /\ tx.backup_exists <=> dir["backup"] # "none"
                          /\ dir["stage"] \in {"none", "new"}
  /\ tx.action = "REMOVE" => ~tx.staged_exists
  /\ ~tx.existed => ~tx.backup_exists
  /\ tx.backup_contains_target => tx.backup_identity = "old"
  /\ tx.existed /\ tx.backup_identity = "none" =>
       \/ tx.state \in {"none", "gone"} \/ pc = "reserve"
       \/ pc \in DiscardPlace /\ call = "stage"
  /\ tx.state = "STAGED" /\ tx.backup_contains_target =>
       pc \in {"verify", "sync_backup", "replace", "committed"}
  /\ pc \in {"verify", "sync_backup", "replace", "unlink_old"} => tx.backup_contains_target
  /\ pc = "committed" /\ tx.existed => tx.backup_contains_target
  /\ pc \in {"committed", "check_published"} \/ tx.state = "COMMITTED" => ~tx.staged_exists
  /\ pc = "sync_final" => ~tx.backup_exists
  /\ tx.state = "COMMITTED" /\ ~tx.backup_contains_target => ~tx.backup_exists
  /\ tx.state = "ROLLED_BACK" => ~tx.backup_exists

(* Nothing has happened yet.                                               *)
Fresh ==
  tx.state = "none" =>
    /\ ~disturbed /\ call = "none" /\ ~tx.backup_exists /\ ~tx.staged_exists
    /\ survivors = {dir} /\ dir["target"] \in {"old", "none"}

(* What was seen or made in front of the steps that cannot be undone.      *)
Prepared ==
  /\ pc \in {"sync_backup", "replace"} => dir["backup"] = "old" /\ dir["stage"] = "new"
  /\ pc = "restore" => dir["backup"] = "old" /\ tx.backup_contains_target
  /\ pc = "replace" => Durably("backup", "old")
  /\ pc = "written" => dir["stage"] = "new"
  /\ tx.state = "FINALIZED" => Durably("stage", "none") /\ Durably("backup", "none")

(* The target at each place, and the old file beside it.                   *)
Targeted ==
  ~disturbed =>
    /\ tx.state = "STAGED" /\ pc \notin {"committed", "check_linked", "check_published"}
         => Durably("target", Origin)
    /\ pc = "committed" => /\ dir["target"] = Goal
                           /\ tx.existed => dir["backup"] = "old"
    /\ tx.state = "COMMITTED" /\ pc \notin UndoPlace => Durably("target", Goal)
    /\ pc = "validate" /\ tx.existed => Durably("backup", "old")
    /\ pc \in {"removed", "rolled_back"} => dir["target"] = Origin

(* The foreign file is the target, or was taken for the target that is to  *)
(* be removed and is the backup now, or is lost.                           *)
Spared ==
  disturbed /\ tx.state # "gone" =>
    \/ Durably("target", "foreign")
    \/ /\ \A d \in survivors : "foreign" \in {d["target"], d["backup"]}
       /\ dir["backup"] = "foreign" /\ tx.existed /\ tx.backup_contains_target
    \/ \A n \in Names : dir[n] # "foreign"

(* A foreign file that is the target where the target is not looked at any *)
(* more came after the last look.                                          *)
Overlooked ==
  disturbed /\ dir["target"] = "foreign" =>
    /\ pc = "sync_backup" => came = "sync_backup"
    /\ pc = "replace" => came \in {"sync_backup", "replace"}
    /\ pc \in {"restore", "remove"} => came = pc

(* The inductive invariant.                                                *)
IInv ==
  /\ TypeOK /\ Placed /\ Flagged /\ Fresh /\ Prepared /\ Targeted /\ Spared /\ Overlooked
  /\ OldOrNew /\ AnswersAreTrue
-----------------------------------------------------------------------------
(* Operations on the directory.                                            *)

(* What a change leaves for a power loss: each directory with the update   *)
(* or without it.                                                          *)
LEMMA Changed ==
  ASSUME TypeOK, NEW u, Change(u)
  PROVE  /\ dir' = Apply(dir, u) /\ dir' \in survivors'
         /\ \A e \in survivors' : e \in survivors \/ \E d \in survivors : e = Apply(d, u)
  BY DEF Change, TypeOK

(* A name that is not updated keeps its file.                              *)
After(x, f) == IF x = "same" THEN f ELSE x

Turns(d, e, t, s, b) ==
  /\ e["target"] = After(t, d["target"])
  /\ e["stage"] = After(s, d["stage"])
  /\ e["backup"] = After(b, d["backup"])

(* The directory, and each one of the survivors that is new.               *)
Alters(t, s, b) ==
  /\ dir' \in survivors' /\ survivors' \subseteq Dirs
  /\ Turns(dir, dir', t, s, b)
  /\ \A e \in survivors' : e \in survivors \/ \E d \in survivors : Turns(d, e, t, s, b)

(* It is enough to know what the update makes of each directory.           *)
LEMMA Altered ==
  ASSUME TypeOK, NEW u, Change(u), NEW t, NEW s, NEW b,
         \A d \in Dirs : Apply(d, u) \in Dirs /\ Turns(d, Apply(d, u), t, s, b)
  PROVE  Alters(t, s, b)
  BY Changed DEF Alters, TypeOK, Dirs

(* The changes of the model, name by name.                                 *)
LEMMA ChangeAlters ==
  ASSUME TypeOK, NEW v \in Entry, NEW w \in Entry
  PROVE  /\ Change([target |-> v]) => Alters(v, "same", "same")
         /\ Change([stage |-> v]) => Alters("same", v, "same")
         /\ Change([backup |-> v]) => Alters("same", "same", v)
         /\ Change([target |-> v, stage |-> w]) => Alters(v, w, "same")
         /\ Change([target |-> v, backup |-> w]) => Alters(v, "same", w)
         /\ Change([backup |-> w, target |-> v]) => Alters(v, "same", w)
<1>1. v # "same" /\ w # "same"
  BY DEF Entry, Files
<1>2. \A d \in Dirs : LET e == Apply(d, [target |-> v])
                      IN  e \in Dirs /\ Turns(d, e, v, "same", "same")
  BY <1>1 DEF Apply, Turns, After, Dirs, Names
<1>3. \A d \in Dirs : LET e == Apply(d, [stage |-> v])
                      IN  e \in Dirs /\ Turns(d, e, "same", v, "same")
  BY <1>1 DEF Apply, Turns, After, Dirs, Names
<1>4. \A d \in Dirs : LET e == Apply(d, [backup |-> v])
                      IN  e \in Dirs /\ Turns(d, e, "same", "same", v)
  BY <1>1 DEF Apply, Turns, After, Dirs, Names
<1>5. \A d \in Dirs : LET e == Apply(d, [target |-> v, stage |-> w])
                      IN  e \in Dirs /\ Turns(d, e, v, w, "same")
  BY <1>1 DEF Apply, Turns, After, Dirs, Names
<1>6. \A d \in Dirs : LET e == Apply(d, [target |-> v, backup |-> w])
                      IN  e \in Dirs /\ Turns(d, e, v, "same", w)
  BY <1>1 DEF Apply, Turns, After, Dirs, Names
<1>7. \A d \in Dirs : LET e == Apply(d, [backup |-> w, target |-> v])
                      IN  e \in Dirs /\ Turns(d, e, v, "same", w)
  BY <1>1 DEF Apply, Turns, After, Dirs, Names
<1> QED
  BY <1>2, <1>3, <1>4, <1>5, <1>6, <1>7, Altered

(* What each operation does to the names.                                  *)
LEMMA Effects ==
  ASSUME IInv
  PROVE  /\ Reserve => Alters("same", "same", "blank")
         /\ WriteStage => Alters("same", "new", "same")
         /\ DropReservation => Alters("same", "same", "none")
         /\ LinkBackup => Alters("same", "same", dir["target"])
         /\ ReplaceTarget => Alters(dir["stage"], "none", "same")
         /\ RemoveLinkedBackup => Alters("same", "same", "none")
         /\ RetireTarget => Alters("none", "same", dir["target"])
         /\ PublishAbsent => Alters(dir["stage"], "none", "same")
         /\ LinkAbsent => Alters(dir["stage"], "same", "same")
         /\ UnlinkStage => Alters("same", "none", "same")
         /\ RestoreTarget => Alters(dir["backup"], "same", "none")
         /\ RemovePublished => Alters("none", "same", "same")
         /\ UnlinkOld => Alters("same", "same", "none")
         /\ \A ok \in BOOLEAN : DiscardStage(ok) =>
              survivors' = survivors \/ Alters("same", "none", "same")
         /\ \A ok \in BOOLEAN : DiscardBackup(ok) =>
              \/ survivors' = survivors
              \/ tx.backup_exists /\ ~tx.backup_contains_target
                 /\ Alters("same", "same", "none")
<1>1. /\ dir["target"] \in Entry /\ dir["stage"] \in Entry /\ dir["backup"] \in Entry
      /\ {"blank", "new", "none"} \subseteq Entry /\ TypeOK
  BY DEF IInv, TypeOK, Names, Entry, Files
<1>2. Reserve => Alters("same", "same", "blank")
  BY <1>1, ChangeAlters DEF Reserve
<1>3. WriteStage => Alters("same", "new", "same")
  BY <1>1, ChangeAlters DEF WriteStage
<1>4. DropReservation => Alters("same", "same", "none")
  BY <1>1, ChangeAlters DEF DropReservation
<1>5. LinkBackup => Alters("same", "same", dir["target"])
  BY <1>1, ChangeAlters DEF LinkBackup, BackUp
<1>6. ReplaceTarget => Alters(dir["stage"], "none", "same")
  BY <1>1, ChangeAlters DEF ReplaceTarget
<1>7. RemoveLinkedBackup => Alters("same", "same", "none")
  BY <1>1, ChangeAlters DEF RemoveLinkedBackup
<1>8. RetireTarget => Alters("none", "same", dir["target"])
  BY <1>1, ChangeAlters DEF RetireTarget
<1>9. PublishAbsent => Alters(dir["stage"], "none", "same")
  BY <1>1, ChangeAlters DEF PublishAbsent
<1>10. LinkAbsent => Alters(dir["stage"], "same", "same")
  BY <1>1, ChangeAlters DEF LinkAbsent
<1>11. UnlinkStage => Alters("same", "none", "same")
  BY <1>1, ChangeAlters DEF UnlinkStage
<1>12. RestoreTarget => Alters(dir["backup"], "same", "none")
  BY <1>1, ChangeAlters DEF RestoreTarget
<1>13. UnlinkOld => Alters("same", "same", "none")
  BY <1>1, ChangeAlters DEF UnlinkOld
<1>14. ASSUME NEW ok \in BOOLEAN, DiscardStage(ok)
       PROVE  survivors' = survivors \/ Alters("same", "none", "same")
  BY <1>1, <1>14, ChangeAlters DEF DiscardStage
<1>15. ASSUME NEW ok \in BOOLEAN, DiscardBackup(ok)
       PROVE  \/ survivors' = survivors
              \/ tx.backup_exists /\ ~tx.backup_contains_target
                 /\ Alters("same", "same", "none")
  BY <1>1, <1>15, ChangeAlters DEF DiscardBackup
<1>16. RemovePublished => Alters("none", "same", "same")
  BY <1>1, ChangeAlters DEF RemovePublished
<1> QED
  BY <1>2, <1>3, <1>4, <1>5, <1>6, <1>7, <1>8, <1>9, <1>10, <1>11, <1>12, <1>13,
     <1>14, <1>15, <1>16

(* The steps that leave the directory alone.                               *)
LEMMA RestingSteps ==
  ASSUME IInv
  PROVE  /\ FailStage \/ RefuseCommit \/ BeginCommit \/ CommitUnchanged => IInv'
         /\ VerifyBackup \/ LinkedBackupStays \/ CheckPublished \/ PublishFails => IInv'
         /\ SyncCommitFails \/ Validate \/ ValidatorRejects => IInv'
         /\ BeginRollback \/ RollbackFails \/ SyncRollbackFails => IInv'
         /\ FindBackup \/ FindNothing \/ FindPublished \/ CheckRemoved => IInv'
         /\ BeginFinalize \/ FinalizeFails \/ BeginClose => IInv'
         /\ \A action \in {"REPLACE", "REMOVE"} : BeginStage(action) => IInv'
         /\ Crash => IInv'
<1> USE DEF IInv, TypeOK, Placed, Flagged, Fresh, Prepared, Targeted, Spared, Overlooked,
            OldOrNew, AnswersAreTrue, Durably, Origin, Goal, files, Enter, Answer,
            Continue, StagingPlace, DiscardPlace, ReplacePlace, PublishPlace, UndoPlace,
            RollbackPlace, FinalPlace, CommitPlace, Place
<1>1. ASSUME FailStage PROVE IInv'
  BY <1>1 DEF FailStage
<1>2. ASSUME RefuseCommit PROVE IInv'
  BY <1>2 DEF RefuseCommit
<1>3. ASSUME BeginCommit PROVE IInv'
  BY <1>3 DEF BeginCommit, Committable, Matches
<1>4. ASSUME CommitUnchanged PROVE IInv'
  BY <1>4 DEF CommitUnchanged
<1>5. ASSUME VerifyBackup PROVE IInv'
  BY <1>5 DEF VerifyBackup, LinkedPair, Matches
<1>6. ASSUME LinkedBackupStays PROVE IInv'
  BY <1>6 DEF LinkedBackupStays, CommitChanged
<1>7. ASSUME CheckPublished PROVE IInv'
  BY <1>7 DEF CheckPublished, Matches
<1>8. ASSUME PublishFails PROVE IInv'
  BY <1>8 DEF PublishFails, CommitChanged
<1>9. ASSUME SyncCommitFails PROVE IInv'
  BY <1>9 DEF SyncCommitFails
<1>10. ASSUME Validate PROVE IInv'
  BY <1>10 DEF Validate
<1>11. ASSUME ValidatorRejects PROVE IInv'
  BY <1>11 DEF ValidatorRejects
<1>12. ASSUME BeginRollback PROVE IInv'
  BY <1>12 DEF BeginRollback
<1>13. ASSUME RollbackFails PROVE IInv'
  BY <1>13 DEF RollbackFails
<1>14. ASSUME SyncRollbackFails PROVE IInv'
  BY <1>14 DEF SyncRollbackFails
<1>15. ASSUME BeginFinalize PROVE IInv'
  BY <1>15 DEF BeginFinalize
<1>16. ASSUME FinalizeFails PROVE IInv'
  BY <1>16 DEF FinalizeFails
<1>17. ASSUME BeginClose PROVE IInv'
  BY <1>17 DEF BeginClose
<1>18. ASSUME Crash PROVE IInv'
  BY <1>18 DEF Crash
<1>19. ASSUME NEW action \in {"REPLACE", "REMOVE"}, BeginStage(action) PROVE IInv'
  <2>1. /\ came' = "never" /\ dir' = dir /\ survivors' = {dir}
        /\ dir["target"] \in {"old", "none"} /\ dir["stage"] = "none"
        /\ dir["backup"] = "none" /\ ~tx.backup_contains_target
    BY <1>19 DEF BeginStage
  <2>2. tx' = [tx EXCEPT !.action = action, !.existed = dir["target"] # "none",
                         !.state = "STAGED"]
    BY <1>19 DEF BeginStage
  <2>3. /\ call' = "stage"
        /\ \/ pc' = "reserve" /\ reply' = "none" /\ dir["target"] # "none"
           \/ pc' = "write" /\ reply' = "none" /\ dir["target"] = "none" /\ action = "REPLACE"
           \/ pc' = "idle" /\ reply' = "OK" /\ dir["target"] = "none" /\ action = "REMOVE"
    BY <1>19 DEF BeginStage
  <2>4. tx'.state = "STAGED" /\ tx'.action = action /\ (tx'.existed <=> dir["target"] # "none")
        /\ ~tx'.staged_exists /\ ~tx'.backup_exists /\ ~tx'.backup_contains_target
        /\ tx'.backup_identity = tx.backup_identity
    BY <1>19, <2>1, <2>2 DEF BeginStage
  <2>5. TypeOK'
    BY <1>19, <2>1, <2>2, <2>3
  <2>6. (Placed /\ Flagged /\ Fresh)'
    BY <2>1, <2>3, <2>4
  <2>7. (Prepared /\ Targeted /\ Spared /\ Overlooked)'
    BY <2>1, <2>3, <2>4
  <2>8. (OldOrNew /\ AnswersAreTrue)'
    BY <2>1, <2>3, <2>4
  <2> QED
    BY <2>5, <2>6, <2>7, <2>8
<1>20. ASSUME FindBackup PROVE IInv'
  BY <1>20 DEF FindBackup, Restorable, Matches
<1>21. ASSUME FindNothing PROVE IInv'
  BY <1>21 DEF FindNothing, NothingPublished
<1>22. ASSUME FindPublished PROVE IInv'
  BY <1>22 DEF FindPublished, NothingPublished, Published, Matches, LinkedPair
<1>23. ASSUME CheckRemoved PROVE IInv'
  BY <1>23 DEF CheckRemoved
<1> QED
  BY <1>1, <1>2, <1>3, <1>4, <1>5, <1>6, <1>7, <1>8, <1>9, <1>10, <1>11, <1>12, <1>13,
     <1>14, <1>15, <1>16, <1>17, <1>18, <1>19, <1>20, <1>21, <1>22, <1>23

(* The steps that make the directory durable, and a power loss.            *)
LEMMA SyncSteps ==
  ASSUME IInv
  PROVE  /\ SyncStage \/ SyncBackup \/ SyncCommit \/ SyncRollback \/ SyncFinalize => IInv'
         /\ \A synced \in BOOLEAN : EndDiscard(synced) => IInv'
         /\ Foreign \/ PowerLoss => IInv'
<1> USE DEF IInv, TypeOK, Placed, Flagged, Fresh, Prepared, Targeted, Spared, Overlooked,
            OldOrNew, AnswersAreTrue, Durably, Origin, Goal, files, Enter, Answer,
            Continue, StagingPlace, DiscardPlace, ReplacePlace, PublishPlace, UndoPlace,
            RollbackPlace, FinalPlace, CommitPlace, Place
<1>1. ASSUME SyncStage PROVE IInv'
  BY <1>1 DEF SyncStage, SyncDirectory
<1>2. ASSUME SyncBackup PROVE IInv'
  BY <1>2 DEF SyncBackup, SyncDirectory, BackupDurable
<1>3. ASSUME SyncCommit PROVE IInv'
  BY <1>3 DEF SyncCommit, SyncDirectory, CommitDurable
<1>4. ASSUME SyncRollback PROVE IInv'
  BY <1>4 DEF SyncRollback, SyncDirectory
<1>5. ASSUME SyncFinalize PROVE IInv'
  BY <1>5 DEF SyncFinalize, SyncDirectory
<1>6. ASSUME NEW synced \in BOOLEAN, EndDiscard(synced) PROVE IInv'
  BY <1>6 DEF EndDiscard, SyncDirectory, Discarded
<1>7. ASSUME Foreign PROVE IInv'
  <2>1. /\ survivors' = {dir'} /\ came' = pc /\ UNCHANGED <<tx, pc, call, reply>>
        /\ tx.state \notin {"none", "gone"} /\ dir' = Apply(dir, [target |-> "foreign"])
        /\ came' # "never"
    BY <1>7 DEF Foreign
  <2>2. /\ dir' \in Dirs /\ dir'["target"] = "foreign"
        /\ dir'["stage"] = dir["stage"] /\ dir'["backup"] = dir["backup"]
    BY <2>1 DEF Apply, Dirs, Names, Entry, Files
  <2>3. TypeOK'
    BY <2>1, <2>2 DEF Dirs
  <2>4. (Placed /\ Flagged /\ Fresh)'
    BY <2>1, <2>2
  <2>5. Prepared'
    BY <2>1, <2>2
  <2>6. (Targeted /\ Spared /\ Overlooked /\ OldOrNew /\ AnswersAreTrue)'
    BY <2>1, <2>2
  <2> QED
    BY <2>3, <2>4, <2>5, <2>6
<1>8. ASSUME PowerLoss PROVE IInv'
  BY <1>8 DEF PowerLoss
<1> QED
  BY <1>1, <1>2, <1>3, <1>4, <1>5, <1>6, <1>7, <1>8

(* The name of the backup is reserved while the target is untouched.       *)
LEMMA ReserveStep ==
  ASSUME IInv, Reserve
  PROVE  IInv'
<1> USE DEF Durably, Origin, Goal, Enter, Answer, Continue, StagingPlace, DiscardPlace,
            ReplacePlace, PublishPlace, UndoPlace, RollbackPlace, FinalPlace, CommitPlace
<1>1. Alters("same", "same", "blank")
  BY Effects
<1>2. TypeOK'
  BY <1>1 DEF IInv, TypeOK, Alters, Dirs, Reserve, Placed, Flagged, Place
<1>3. Placed'
  BY DEF IInv, TypeOK, Reserve, Placed, Flagged
<1>4. Flagged'
  BY <1>1 DEF IInv, TypeOK, Reserve, Placed, Flagged, Alters, Turns, After
<1>5. Fresh'
  BY DEF IInv, TypeOK, Reserve, Placed, Fresh
<1>6. Prepared'
  BY <1>1 DEF IInv, TypeOK, Reserve, Placed, Prepared, Alters, Turns, After
<1>7. Targeted'
  BY <1>1 DEF IInv, TypeOK, Reserve, Placed, Flagged, Prepared, Targeted, Alters,
              Turns, After
<1>8. (Spared /\ Overlooked)'
  BY <1>1 DEF IInv, TypeOK, Reserve, Placed, Flagged, Prepared, Spared, Overlooked, Names,
              Alters, Turns, After
<1>9. OldOrNew'
  BY <1>1 DEF IInv, TypeOK, Reserve, Placed, Flagged, Prepared, Targeted, OldOrNew,
              Alters, Turns, After
<1>10. AnswersAreTrue'
  BY <1>1 DEF IInv, TypeOK, Reserve, Placed, Targeted, AnswersAreTrue, Alters, Turns,
              After
<1> QED
  BY <1>2, <1>3, <1>4, <1>5, <1>6, <1>7, <1>8, <1>9, <1>10 DEF IInv

(* The candidate is written beside the target.                             *)
LEMMA WriteStageStep ==
  ASSUME IInv, WriteStage
  PROVE  IInv'
<1> USE DEF Durably, Origin, Goal, Enter, Answer, Continue, StagingPlace, DiscardPlace,
            ReplacePlace, PublishPlace, UndoPlace, RollbackPlace, FinalPlace, CommitPlace
<1>1. Alters("same", "new", "same")
  BY Effects
<1>2. TypeOK'
  BY <1>1 DEF IInv, TypeOK, Alters, Dirs, WriteStage, Placed, Flagged, Place
<1>3. Placed'
  BY DEF IInv, TypeOK, WriteStage, Placed, Flagged
<1>4. Flagged'
  BY <1>1 DEF IInv, TypeOK, WriteStage, Placed, Flagged, Alters, Turns, After
<1>5. Fresh'
  BY DEF IInv, TypeOK, WriteStage, Placed, Fresh
<1>6. Prepared'
  BY <1>1 DEF IInv, TypeOK, WriteStage, Placed, Prepared, Alters, Turns, After
<1>7. Targeted'
  BY <1>1 DEF IInv, TypeOK, WriteStage, Placed, Flagged, Prepared, Targeted, Alters,
              Turns, After
<1>8. (Spared /\ Overlooked)'
  BY <1>1 DEF IInv, TypeOK, WriteStage, Placed, Flagged, Prepared, Spared, Overlooked,
              Names, Alters, Turns, After
<1>9. OldOrNew'
  BY <1>1 DEF IInv, TypeOK, WriteStage, Placed, Flagged, Prepared, Targeted, OldOrNew,
              Alters, Turns, After
<1>10. AnswersAreTrue'
  BY <1>1 DEF IInv, TypeOK, WriteStage, Placed, Targeted, AnswersAreTrue, Alters,
              Turns, After
<1> QED
  BY <1>2, <1>3, <1>4, <1>5, <1>6, <1>7, <1>8, <1>9, <1>10 DEF IInv

(* The reservation makes room for the link, and nothing else is lost.      *)
LEMMA DropReservationStep ==
  ASSUME IInv, DropReservation
  PROVE  IInv'
<1> USE DEF Durably, Origin, Goal, Enter, Answer, Continue, StagingPlace, DiscardPlace,
            ReplacePlace, PublishPlace, UndoPlace, RollbackPlace, FinalPlace, CommitPlace
<1>1. Alters("same", "same", "none")
  BY Effects
<1>2. TypeOK'
  BY <1>1 DEF IInv, TypeOK, Alters, Dirs, DropReservation, Placed, Flagged, Place,
              CanUnlink, Matches
<1>3. Placed'
  BY DEF IInv, TypeOK, DropReservation, Placed, Flagged, CanUnlink, Matches
<1>4. Flagged'
  BY <1>1 DEF IInv, TypeOK, DropReservation, Placed, Flagged, Alters, Turns, After,
              CanUnlink, Matches
<1>5. Fresh'
  BY DEF IInv, TypeOK, DropReservation, Placed, Fresh
<1>6. Prepared'
  BY <1>1 DEF IInv, TypeOK, DropReservation, Placed, Prepared, Alters, Turns, After
<1>7. Targeted'
  BY <1>1 DEF IInv, TypeOK, DropReservation, Placed, Flagged, Prepared, Targeted,
              Alters, Turns, After, CanUnlink, Matches
<1>8. (Spared /\ Overlooked)'
  BY <1>1 DEF IInv, TypeOK, DropReservation, Placed, Flagged, Prepared, Spared,
              Overlooked, Names, Alters, Turns, After, CanUnlink, Matches
<1>9. OldOrNew'
  BY <1>1 DEF IInv, TypeOK, DropReservation, Placed, Flagged, Prepared, Targeted,
              OldOrNew, Alters, Turns, After, CanUnlink, Matches
<1>10. AnswersAreTrue'
  BY <1>1 DEF IInv, TypeOK, DropReservation, Placed, Targeted, AnswersAreTrue, Alters,
              Turns, After
<1> QED
  BY <1>2, <1>3, <1>4, <1>5, <1>6, <1>7, <1>8, <1>9, <1>10 DEF IInv

(* The backup is the target, or a foreign file if that took its place.     *)
LEMMA LinkBackupStep ==
  ASSUME IInv, LinkBackup
  PROVE  IInv'
<1> USE DEF Durably, Origin, Goal, Enter, Answer, Continue, StagingPlace, DiscardPlace,
            ReplacePlace, PublishPlace, UndoPlace, RollbackPlace, FinalPlace, CommitPlace
<1>1. Alters("same", "same", dir["target"])
  BY Effects
<1>2. TypeOK'
  BY <1>1 DEF IInv, TypeOK, Alters, Dirs, LinkBackup, Placed, Flagged, Place, BackUp
<1>3. Placed'
  BY DEF IInv, TypeOK, LinkBackup, Placed, Flagged, BackUp
<1>4. Flagged'
  BY <1>1 DEF IInv, TypeOK, LinkBackup, Placed, Flagged, Alters, Turns, After, BackUp,
             Names, Entry, Files
<1>5. Fresh'
  BY DEF IInv, TypeOK, LinkBackup, Placed, Fresh
<1>6. Prepared'
  BY <1>1 DEF IInv, TypeOK, LinkBackup, Placed, Prepared, Alters, Turns, After
<1>7. Targeted'
  BY <1>1 DEF IInv, TypeOK, LinkBackup, Placed, Flagged, Prepared, Targeted, Alters,
              Turns, After, BackUp
<1>8. (Spared /\ Overlooked)'
  BY <1>1 DEF IInv, TypeOK, LinkBackup, Placed, Flagged, Prepared, Spared, Overlooked,
              Names, Alters, Turns, After, BackUp
<1>9. OldOrNew'
  BY <1>1 DEF IInv, TypeOK, LinkBackup, Placed, Flagged, Prepared, Targeted, OldOrNew,
              Alters, Turns, After, BackUp
<1>10. AnswersAreTrue'
  BY <1>1 DEF IInv, TypeOK, LinkBackup, Placed, Targeted, AnswersAreTrue, Alters,
              Turns, After
<1> QED
  BY <1>2, <1>3, <1>4, <1>5, <1>6, <1>7, <1>8, <1>9, <1>10 DEF IInv

(* Every directory has the backup when the target is replaced.             *)
LEMMA ReplaceTargetStep ==
  ASSUME IInv, ReplaceTarget
  PROVE  IInv'
<1> USE DEF Durably, Origin, Goal, Enter, Answer, Continue, StagingPlace, DiscardPlace,
            ReplacePlace, PublishPlace, UndoPlace, RollbackPlace, FinalPlace, CommitPlace
<1>1. Alters(dir["stage"], "none", "same")
  BY Effects
<1>2. TypeOK'
  BY <1>1 DEF IInv, TypeOK, Alters, Dirs, ReplaceTarget, Placed, Flagged, Place
<1>3. Placed'
  BY DEF IInv, TypeOK, ReplaceTarget, Placed, Flagged
<1>4. Flagged'
  BY <1>1 DEF IInv, TypeOK, ReplaceTarget, Placed, Flagged, Alters, Turns, After
<1>5. Fresh'
  BY DEF IInv, TypeOK, ReplaceTarget, Placed, Fresh
<1>6. Prepared'
  BY <1>1 DEF IInv, TypeOK, ReplaceTarget, Placed, Prepared, Alters, Turns, After
<1>7. Targeted'
  BY <1>1 DEF IInv, TypeOK, ReplaceTarget, Placed, Flagged, Prepared, Targeted,
              Alters, Turns, After
<1>8. (Spared /\ Overlooked)'
  BY <1>1 DEF IInv, TypeOK, ReplaceTarget, Placed, Flagged, Prepared, Spared, Overlooked,
              Names, Alters, Turns, After
<1>9. OldOrNew'
  BY <1>1 DEF IInv, TypeOK, ReplaceTarget, Placed, Flagged, Prepared, Targeted,
              OldOrNew, Alters, Turns, After
<1>10. AnswersAreTrue'
  BY <1>1 DEF IInv, TypeOK, ReplaceTarget, Placed, Targeted, AnswersAreTrue, Alters,
              Turns, After
<1> QED
  BY <1>2, <1>3, <1>4, <1>5, <1>6, <1>7, <1>8, <1>9, <1>10 DEF IInv

(* A failed replacement removes the link only beside the old target.       *)
LEMMA RemoveLinkedBackupStep ==
  ASSUME IInv, RemoveLinkedBackup
  PROVE  IInv'
<1> USE DEF Durably, Origin, Goal, Enter, Answer, Continue, StagingPlace, DiscardPlace,
            ReplacePlace, PublishPlace, UndoPlace, RollbackPlace, FinalPlace, CommitPlace
<1>1. Alters("same", "same", "none")
  BY Effects
<1>2. TypeOK'
  BY <1>1 DEF IInv, TypeOK, Alters, Dirs, RemoveLinkedBackup, Placed, Flagged, Place,
              LinkedPair
<1>3. Placed'
  BY DEF IInv, TypeOK, RemoveLinkedBackup, Placed, Flagged, LinkedPair
<1>4. Flagged'
  BY <1>1 DEF IInv, TypeOK, RemoveLinkedBackup, Placed, Flagged, Alters, Turns, After,
              LinkedPair
<1>5. Fresh'
  BY DEF IInv, TypeOK, RemoveLinkedBackup, Placed, Fresh
<1>6. Prepared'
  BY <1>1 DEF IInv, TypeOK, RemoveLinkedBackup, Placed, Prepared, Alters, Turns, After
<1>7. Targeted'
  BY <1>1 DEF IInv, TypeOK, RemoveLinkedBackup, Placed, Flagged, Prepared, Targeted,
              Alters, Turns, After, LinkedPair
<1>8. (Spared /\ Overlooked)'
  BY <1>1 DEF IInv, TypeOK, RemoveLinkedBackup, Placed, Flagged, Prepared, Spared,
              Overlooked, Names, Alters, Turns, After, LinkedPair
<1>9. OldOrNew'
  BY <1>1 DEF IInv, TypeOK, RemoveLinkedBackup, Placed, Flagged, Prepared, Targeted,
              OldOrNew, Alters, Turns, After, LinkedPair
<1>10. AnswersAreTrue'
  BY <1>1 DEF IInv, TypeOK, RemoveLinkedBackup, Placed, Targeted, AnswersAreTrue,
              Alters, Turns, After
<1> QED
  BY <1>2, <1>3, <1>4, <1>5, <1>6, <1>7, <1>8, <1>9, <1>10 DEF IInv

(* A removal makes the target the backup, whosever file it is.             *)
LEMMA RetireTargetStep ==
  ASSUME IInv, RetireTarget
  PROVE  IInv'
<1> USE DEF Durably, Origin, Goal, Enter, Answer, Continue, StagingPlace, DiscardPlace,
            ReplacePlace, PublishPlace, UndoPlace, RollbackPlace, FinalPlace, CommitPlace
<1>1. Alters("none", "same", dir["target"])
  BY Effects
<1>2. TypeOK'
  BY <1>1 DEF IInv, TypeOK, Alters, Dirs, RetireTarget, Placed, Flagged, Place, Matches
<1>3. Placed'
  BY DEF IInv, TypeOK, RetireTarget, Placed, Flagged, Matches
<1>4. Flagged'
  BY <1>1 DEF IInv, TypeOK, RetireTarget, Placed, Flagged, Alters, Turns, After, Matches
<1>5. Fresh'
  BY DEF IInv, TypeOK, RetireTarget, Placed, Fresh
<1>6. Prepared'
  BY <1>1 DEF IInv, TypeOK, RetireTarget, Placed, Prepared, Alters, Turns, After
<1>7. Targeted'
  BY <1>1 DEF IInv, TypeOK, RetireTarget, Placed, Flagged, Prepared, Targeted, Alters,
              Turns, After, Matches
<1>8. (Spared /\ Overlooked)'
  BY <1>1 DEF IInv, TypeOK, RetireTarget, Placed, Flagged, Prepared, Spared, Overlooked,
              Names, Alters, Turns, After, Matches
<1>9. OldOrNew'
  BY <1>1 DEF IInv, TypeOK, RetireTarget, Placed, Flagged, Prepared, Targeted,
              OldOrNew, Alters, Turns, After, Matches
<1>10. AnswersAreTrue'
  BY <1>1 DEF IInv, TypeOK, RetireTarget, Placed, Targeted, AnswersAreTrue, Alters,
              Turns, After
<1> QED
  BY <1>2, <1>3, <1>4, <1>5, <1>6, <1>7, <1>8, <1>9, <1>10 DEF IInv

(* An installation renames the candidate to a name that nobody has.        *)
LEMMA PublishAbsentStep ==
  ASSUME IInv, PublishAbsent
  PROVE  IInv'
<1> USE DEF Durably, Origin, Goal, Enter, Answer, Continue, StagingPlace, DiscardPlace,
            ReplacePlace, PublishPlace, UndoPlace, RollbackPlace, FinalPlace, CommitPlace
<1>1. Alters(dir["stage"], "none", "same")
  BY Effects
<1>2. TypeOK'
  BY <1>1 DEF IInv, TypeOK, Alters, Dirs, PublishAbsent, Placed, Flagged, Place,
              TargetUnclaimed, Matches
<1>3. Placed'
  BY DEF IInv, TypeOK, PublishAbsent, Placed, Flagged, TargetUnclaimed, Matches
<1>4. Flagged'
  BY <1>1 DEF IInv, TypeOK, PublishAbsent, Placed, Flagged, Alters, Turns, After,
              TargetUnclaimed, Matches
<1>5. Fresh'
  BY DEF IInv, TypeOK, PublishAbsent, Placed, Fresh
<1>6. Prepared'
  BY <1>1 DEF IInv, TypeOK, PublishAbsent, Placed, Prepared, Alters, Turns, After
<1>7. Targeted'
  BY <1>1 DEF IInv, TypeOK, PublishAbsent, Placed, Flagged, Prepared, Targeted,
              Alters, Turns, After, TargetUnclaimed, Matches
<1>8. (Spared /\ Overlooked)'
  BY <1>1 DEF IInv, TypeOK, PublishAbsent, Placed, Flagged, Prepared, Spared, Overlooked,
              Names, Alters, Turns, After, TargetUnclaimed, Matches
<1>9. OldOrNew'
  BY <1>1 DEF IInv, TypeOK, PublishAbsent, Placed, Flagged, Prepared, Targeted,
              OldOrNew, Alters, Turns, After, TargetUnclaimed, Matches
<1>10. AnswersAreTrue'
  BY <1>1 DEF IInv, TypeOK, PublishAbsent, Placed, Targeted, AnswersAreTrue, Alters,
              Turns, After
<1> QED
  BY <1>2, <1>3, <1>4, <1>5, <1>6, <1>7, <1>8, <1>9, <1>10 DEF IInv

(* Where the rename cannot refuse to replace, the candidate is linked.     *)
LEMMA LinkAbsentStep ==
  ASSUME IInv, LinkAbsent
  PROVE  IInv'
<1> USE DEF Durably, Origin, Goal, Enter, Answer, Continue, StagingPlace, DiscardPlace,
            ReplacePlace, PublishPlace, UndoPlace, RollbackPlace, FinalPlace, CommitPlace
<1>1. Alters(dir["stage"], "same", "same")
  BY Effects
<1>2. TypeOK'
  BY <1>1 DEF IInv, TypeOK, Alters, Dirs, LinkAbsent, Placed, Flagged, Place,
              TargetUnclaimed, Matches
<1>3. Placed'
  BY DEF IInv, TypeOK, LinkAbsent, Placed, Flagged, TargetUnclaimed, Matches
<1>4. Flagged'
  BY <1>1 DEF IInv, TypeOK, LinkAbsent, Placed, Flagged, Alters, Turns, After,
              TargetUnclaimed, Matches
<1>5. Fresh'
  BY DEF IInv, TypeOK, LinkAbsent, Placed, Fresh
<1>6. Prepared'
  BY <1>1 DEF IInv, TypeOK, LinkAbsent, Placed, Prepared, Alters, Turns, After
<1>7. Targeted'
  BY <1>1 DEF IInv, TypeOK, LinkAbsent, Placed, Flagged, Prepared, Targeted, Alters,
              Turns, After, TargetUnclaimed, Matches
<1>8. (Spared /\ Overlooked)'
  BY <1>1 DEF IInv, TypeOK, LinkAbsent, Placed, Flagged, Prepared, Spared, Overlooked,
              Names, Alters, Turns, After, TargetUnclaimed, Matches
<1>9. OldOrNew'
  BY <1>1 DEF IInv, TypeOK, LinkAbsent, Placed, Flagged, Prepared, Targeted, OldOrNew,
              Alters, Turns, After, TargetUnclaimed, Matches
<1>10. AnswersAreTrue'
  BY <1>1 DEF IInv, TypeOK, LinkAbsent, Placed, Targeted, AnswersAreTrue, Alters,
              Turns, After
<1> QED
  BY <1>2, <1>3, <1>4, <1>5, <1>6, <1>7, <1>8, <1>9, <1>10 DEF IInv

(* The second name of the published candidate goes.                        *)
LEMMA UnlinkStageStep ==
  ASSUME IInv, UnlinkStage
  PROVE  IInv'
<1> USE DEF Durably, Origin, Goal, Enter, Answer, Continue, StagingPlace, DiscardPlace,
            ReplacePlace, PublishPlace, UndoPlace, RollbackPlace, FinalPlace, CommitPlace
<1>1. Alters("same", "none", "same")
  BY Effects
<1>2. TypeOK'
  BY <1>1 DEF IInv, TypeOK, Alters, Dirs, UnlinkStage, Placed, Flagged, Place,
              LinkedPair
<1>3. Placed'
  BY DEF IInv, TypeOK, UnlinkStage, Placed, Flagged, LinkedPair
<1>4. Flagged'
  BY <1>1 DEF IInv, TypeOK, UnlinkStage, Placed, Flagged, Alters, Turns, After,
              LinkedPair
<1>5. Fresh'
  BY DEF IInv, TypeOK, UnlinkStage, Placed, Fresh
<1>6. Prepared'
  BY <1>1 DEF IInv, TypeOK, UnlinkStage, Placed, Prepared, Alters, Turns, After
<1>7. Targeted'
  BY <1>1 DEF IInv, TypeOK, UnlinkStage, Placed, Flagged, Prepared, Targeted, Alters,
              Turns, After, LinkedPair
<1>8. (Spared /\ Overlooked)'
  BY <1>1 DEF IInv, TypeOK, UnlinkStage, Placed, Flagged, Prepared, Spared, Overlooked,
              Names, Alters, Turns, After, LinkedPair
<1>9. OldOrNew'
  BY <1>1 DEF IInv, TypeOK, UnlinkStage, Placed, Flagged, Prepared, Targeted,
              OldOrNew, Alters, Turns, After, LinkedPair
<1>10. AnswersAreTrue'
  BY <1>1 DEF IInv, TypeOK, UnlinkStage, Placed, Targeted, AnswersAreTrue, Alters,
              Turns, After
<1> QED
  BY <1>2, <1>3, <1>4, <1>5, <1>6, <1>7, <1>8, <1>9, <1>10 DEF IInv

(* A rollback renames the backup, which is the old file, to the target.    *)
LEMMA RestoreTargetStep ==
  ASSUME IInv, RestoreTarget
  PROVE  IInv'
<1> USE DEF Durably, Origin, Goal, Enter, Answer, Continue, StagingPlace, DiscardPlace,
            ReplacePlace, PublishPlace, UndoPlace, RollbackPlace, FinalPlace, CommitPlace
<1>1. Alters(dir["backup"], "same", "none")
  BY Effects
<1>2. TypeOK'
  <2>1. dir' \in Dirs /\ survivors' \subseteq Dirs /\ dir' \in survivors'
    BY <1>1 DEF Alters
  <2>2. pc' = "rolled_back" /\ UNCHANGED <<came, call, reply>> /\ tx' = Restored(tx)
    BY DEF RestoreTarget
  <2>3. (came \in Place \cup {"never"} /\ pc \in Place)'
    BY <2>2 DEF IInv, TypeOK, Place
  <2>4. tx' \in Objects /\ ~tx'.backup_contains_target
    BY <2>2 DEF IInv, TypeOK, Restored, Objects
  <2>5. (call \in {"none", "stage", "commit", "rollback", "finalize", "close"}
          /\ reply \in {"none", "OK", "IO", "VALIDATION_FAILED", "ROLLBACK_FAILED"})'
    BY <2>2 DEF IInv, TypeOK
  <2> QED
    BY <2>1, <2>3, <2>4, <2>5 DEF TypeOK, Dirs, Objects
<1>3. Placed'
  BY DEF IInv, TypeOK, RestoreTarget, Placed, Flagged, Restored
<1>4. Flagged'
  BY <1>1 DEF IInv, TypeOK, RestoreTarget, Placed, Flagged, Alters, Turns, After,
              Restored
<1>5. Fresh'
  BY DEF IInv, TypeOK, RestoreTarget, Restored, Placed, Fresh
<1>6. Prepared'
  BY <1>1 DEF IInv, TypeOK, RestoreTarget, Restored, Placed, Prepared, Alters, Turns,
              After
<1>7. Targeted'
  <2>1. tx'.state = "ROLLED_BACK" /\ pc' = "rolled_back" /\ tx'.existed
    BY DEF IInv, TypeOK, Placed, RestoreTarget, Restored
  <2>2. dir["backup"] = "old"
    BY DEF IInv, Prepared, RestoreTarget
  <2>3. dir'["target"] = "old"
    BY <1>1, <2>2 DEF Alters, Turns, After
  <2> QED
    BY <2>1, <2>3 DEF Targeted
<1>8. (Spared /\ Overlooked)'
  BY <1>1 DEF IInv, TypeOK, RestoreTarget, Placed, Flagged, Prepared, Spared, Overlooked,
              Names, Alters, Turns, After, Restored
<1>9. OldOrNew'
  BY <1>1 DEF IInv, TypeOK, RestoreTarget, Placed, Flagged, Prepared, Targeted,
              OldOrNew, Alters, Turns, After, Restored
<1>10. AnswersAreTrue'
  BY <1>1 DEF IInv, TypeOK, RestoreTarget, Placed, Targeted, AnswersAreTrue, Alters,
              Turns, After
<1> QED
  BY <1>2, <1>3, <1>4, <1>5, <1>6, <1>7, <1>8, <1>9, <1>10 DEF IInv

(* Finalizing removes the old file when the new state is durable.          *)
LEMMA UnlinkOldStep ==
  ASSUME IInv, UnlinkOld
  PROVE  IInv'
<1> USE DEF Durably, Origin, Goal, Enter, Answer, Continue, StagingPlace, DiscardPlace,
            ReplacePlace, PublishPlace, UndoPlace, RollbackPlace, FinalPlace, CommitPlace
<1>1. Alters("same", "same", "none")
  BY Effects
<1>2. TypeOK'
  BY <1>1 DEF IInv, TypeOK, Alters, Dirs, UnlinkOld, Placed, Flagged, Place,
              CanUnlink, Matches
<1>3. Placed'
  BY DEF IInv, TypeOK, UnlinkOld, Placed, Flagged, CanUnlink, Matches
<1>4. Flagged'
  BY <1>1 DEF IInv, TypeOK, UnlinkOld, Placed, Flagged, Alters, Turns, After,
              CanUnlink, Matches
<1>5. Fresh'
  BY DEF IInv, TypeOK, UnlinkOld, Placed, Fresh
<1>6. Prepared'
  BY <1>1 DEF IInv, TypeOK, UnlinkOld, Placed, Prepared, Alters, Turns, After
<1>7. Targeted'
  BY <1>1 DEF IInv, TypeOK, UnlinkOld, Placed, Flagged, Prepared, Targeted, Alters,
              Turns, After, CanUnlink, Matches
<1>8. (Spared /\ Overlooked)'
  BY <1>1 DEF IInv, TypeOK, UnlinkOld, Placed, Flagged, Prepared, Spared, Overlooked,
              Names, Alters, Turns, After, CanUnlink, Matches
<1>9. OldOrNew'
  BY <1>1 DEF IInv, TypeOK, UnlinkOld, Placed, Flagged, Prepared, Targeted, OldOrNew,
              Alters, Turns, After, CanUnlink, Matches
<1>10. AnswersAreTrue'
  BY <1>1 DEF IInv, TypeOK, UnlinkOld, Placed, Targeted, AnswersAreTrue, Alters,
              Turns, After
<1> QED
  BY <1>2, <1>3, <1>4, <1>5, <1>6, <1>7, <1>8, <1>9, <1>10 DEF IInv

(* A cleanup removes the staged file, or leaves it.                        *)
LEMMA DiscardStageStep ==
  ASSUME IInv, NEW ok \in BOOLEAN, DiscardStage(ok), tx.staged_exists /\ ok
  PROVE  IInv'
<1> USE DEF Durably, Origin, Goal, Continue, StagingPlace, DiscardPlace, ReplacePlace,
            PublishPlace, UndoPlace, RollbackPlace, FinalPlace, CommitPlace
<1>1. /\ pc = "discard_stage" /\ pc' = "discard_backup" /\ reply' = reply
      /\ came' = came /\ call' = call
      /\ Change([stage |-> "none"])
      /\ tx' = [tx EXCEPT !.staged_exists = FALSE]
  BY DEF DiscardStage
<1>2. Alters("same", "none", "same")
  <2> /\ dir["target"] \in Entry /\ dir["stage"] \in Entry /\ dir["backup"] \in Entry
      /\ "none" \in Entry
    BY DEF IInv, TypeOK, Names, Entry
  <2> QED
    BY <1>1, ChangeAlters DEF IInv
<1>3. TypeOK'
  <2>1. dir' \in Dirs /\ survivors' \subseteq Dirs /\ dir' \in survivors'
    BY <1>2 DEF Alters
  <2>2. pc' = "discard_backup" /\ UNCHANGED <<came, call, reply>>
    BY <1>1
  <2>3. (came \in Place \cup {"never"} /\ pc \in Place)'
    BY <2>2 DEF IInv, TypeOK, Place
  <2>4. tx' \in Objects /\ (tx'.backup_contains_target => tx'.backup_exists)
    BY <1>1 DEF IInv, TypeOK, Objects
  <2>5. (call \in {"none", "stage", "commit", "rollback", "finalize", "close"}
          /\ reply \in {"none", "OK", "IO", "VALIDATION_FAILED", "ROLLBACK_FAILED"})'
    BY <2>2 DEF IInv, TypeOK
  <2> QED
    BY <2>1, <2>3, <2>4, <2>5 DEF TypeOK, Dirs, Objects
<1>4. (Placed /\ Flagged)'
  BY <1>1, <1>2 DEF IInv, TypeOK, Placed, Flagged, Alters, Turns, After
<1>5. Fresh'
  BY <1>1 DEF IInv, TypeOK, Placed, Fresh
<1>6. Prepared'
  BY <1>1, <1>2 DEF IInv, TypeOK, Placed, Prepared, Alters, Turns, After
<1>7. Targeted'
  BY <1>1, <1>2 DEF IInv, TypeOK, Placed, Flagged, Prepared, Targeted, OldOrNew,
                    Alters, Turns, After
<1>8. (Spared /\ Overlooked)'
  BY <1>1, <1>2 DEF IInv, TypeOK, Placed, Flagged, Prepared, Spared, Overlooked, Names,
                    Alters, Turns, After
<1>9. OldOrNew'
  BY <1>1, <1>2 DEF IInv, TypeOK, Placed, Flagged, OldOrNew, Alters, Turns, After
<1>10. AnswersAreTrue'
  BY <1>1 DEF Placed, AnswersAreTrue
<1> QED
  BY <1>3, <1>4, <1>5, <1>6, <1>7, <1>8, <1>9, <1>10 DEF IInv

(* A cleanup removes the reservation of the backup's name, or leaves it.   *)
LEMMA DiscardBackupStep ==
  ASSUME IInv, NEW ok \in BOOLEAN, DiscardBackup(ok),
         tx.backup_exists /\ ~tx.backup_contains_target /\ ok
  PROVE  IInv'
<1> USE DEF Durably, Origin, Goal, Continue, StagingPlace, DiscardPlace, ReplacePlace,
            PublishPlace, UndoPlace, RollbackPlace, FinalPlace, CommitPlace
<1>1. /\ pc = "discard_backup" /\ pc' = "discard_sync" /\ reply' = reply
      /\ came' = came /\ call' = call
      /\ CanUnlink("backup", tx.backup_identity)
      /\ Change([backup |-> "none"])
      /\ tx' = [tx EXCEPT !.backup_exists = FALSE]
  BY DEF DiscardBackup
<1>2. Alters("same", "same", "none")
  <2> /\ dir["target"] \in Entry /\ dir["stage"] \in Entry /\ dir["backup"] \in Entry
      /\ "none" \in Entry
    BY DEF IInv, TypeOK, Names, Entry
  <2> QED
    BY <1>1, ChangeAlters DEF IInv
<1>3. TypeOK'
  BY <1>1, <1>2 DEF IInv, TypeOK, Alters, Dirs, Placed, Flagged, Place, CanUnlink,
                    Matches
<1>4. (Placed /\ Flagged)'
  BY <1>1, <1>2 DEF IInv, TypeOK, Placed, Flagged, Alters, Turns, After, CanUnlink,
                    Matches
<1>5. Fresh'
  BY <1>1 DEF IInv, TypeOK, Placed, Fresh
<1>6. Prepared'
  BY <1>1, <1>2 DEF IInv, TypeOK, Placed, Prepared, Alters, Turns, After
<1>7. Targeted'
  BY <1>1, <1>2 DEF IInv, TypeOK, Placed, Flagged, Prepared, Targeted, OldOrNew,
                    Alters, Turns, After, CanUnlink, Matches
<1>8. (Spared /\ Overlooked)'
  BY <1>1, <1>2 DEF IInv, TypeOK, Placed, Flagged, Prepared, Spared, Overlooked, Names,
                    Alters, Turns, After, CanUnlink, Matches
<1>9. OldOrNew'
  BY <1>1, <1>2 DEF IInv, TypeOK, Placed, Flagged, OldOrNew, Alters, Turns, After,
                    CanUnlink, Matches
<1>10. AnswersAreTrue'
  BY <1>1 DEF Placed, AnswersAreTrue
<1> QED
  BY <1>3, <1>4, <1>5, <1>6, <1>7, <1>8, <1>9, <1>10 DEF IInv

(* What a cleanup leaves behind.                                           *)
LEMMA DiscardLeaves ==
  ASSUME IInv, NEW ok \in BOOLEAN,
         \/ DiscardStage(ok) /\ ~(tx.staged_exists /\ ok)
         \/ DiscardBackup(ok)
            /\ ~(tx.backup_exists /\ ~tx.backup_contains_target /\ ok)
  PROVE  IInv'
<1> USE DEF IInv, TypeOK, Placed, Flagged, Fresh, Prepared, Targeted, Spared, Overlooked,
            OldOrNew, AnswersAreTrue, Durably, Origin, Goal, files, Enter, Answer,
            Continue, StagingPlace, DiscardPlace, ReplacePlace, PublishPlace, UndoPlace,
            RollbackPlace, FinalPlace, CommitPlace, Place
<1>1. CASE DiscardStage(ok) /\ ~(tx.staged_exists /\ ok)
  BY <1>1 DEF DiscardStage
<1>2. CASE DiscardBackup(ok)
            /\ ~(tx.backup_exists /\ ~tx.backup_contains_target /\ ok)
  BY <1>2 DEF DiscardBackup
<1> QED
  BY <1>1, <1>2

(* The rollback of an installation removes what is the target by now.      *)
LEMMA RemovePublishedStep ==
  ASSUME IInv, RemovePublished
  PROVE  IInv'
<1> USE DEF Durably, Origin, Goal, Continue, StagingPlace, DiscardPlace, ReplacePlace,
            PublishPlace, UndoPlace, RollbackPlace, FinalPlace, CommitPlace
<1>1. /\ pc = "remove" /\ pc' = "removed" /\ reply' = reply
      /\ UNCHANGED <<came, tx, call>>
  BY DEF RemovePublished
<1>2. Alters("none", "same", "same")
  BY Effects
<1>3. TypeOK'
  BY <1>1, <1>2 DEF IInv, TypeOK, Alters, Dirs, Place
<1>4. (Placed /\ Flagged)'
  BY <1>1, <1>2 DEF IInv, TypeOK, Placed, Flagged, Alters, Turns, After
<1>5. Fresh'
  BY <1>1 DEF IInv, TypeOK, Placed, Fresh
<1>6. Prepared'
  BY <1>1, <1>2 DEF IInv, TypeOK, Placed, Prepared, Alters, Turns, After
<1>7. Targeted'
  BY <1>1, <1>2 DEF IInv, TypeOK, Placed, Targeted, Alters, Turns, After
<1>8. (Spared /\ Overlooked)'
  BY <1>1, <1>2 DEF IInv, TypeOK, Placed, Flagged, Spared, Overlooked, Alters, Turns,
                    After, Names
<1>9. OldOrNew'
  BY <1>1, <1>2 DEF IInv, TypeOK, Placed, OldOrNew, Alters, Turns, After
<1>10. AnswersAreTrue'
  BY <1>1 DEF AnswersAreTrue
<1> QED
  BY <1>3, <1>4, <1>5, <1>6, <1>7, <1>8, <1>9, <1>10 DEF IInv
-----------------------------------------------------------------------------
(* The theorems.                                                           *)

(* A transaction begins with an untouched directory.                       *)
LEMMA Initially == Init => IInv
<1> SUFFICES ASSUME Init PROVE IInv
  OBVIOUS
<1>1. /\ dir \in Dirs /\ dir["target"] \in {"old", "none"} /\ dir["stage"] = "none"
      /\ dir["backup"] = "none" /\ survivors = {dir} /\ came = "never"
      /\ pc = "idle" /\ call = "none" /\ reply = "none"
  BY DEF Init, Dirs, Names, Entry, Files
<1>2. /\ tx.state = "none" /\ ~tx.staged_exists /\ ~tx.backup_exists
      /\ ~tx.backup_contains_target /\ tx.action = "REPLACE" /\ ~tx.existed
  BY DEF Init
<1>3. TypeOK
  BY <1>1 DEF Init, TypeOK, Dirs, Place
<1>4. Placed /\ Flagged /\ Fresh
  BY <1>1, <1>2 DEF Placed, Flagged, Fresh, StagingPlace, DiscardPlace, ReplacePlace,
                     PublishPlace, UndoPlace, RollbackPlace, FinalPlace, CommitPlace
<1>5. Prepared /\ Targeted /\ Spared /\ Overlooked
  BY <1>1, <1>2 DEF Prepared, Targeted, Spared, Overlooked
<1>6. OldOrNew /\ AnswersAreTrue
  BY <1>1, <1>2 DEF OldOrNew, AnswersAreTrue
<1> QED
  BY <1>3, <1>4, <1>5, <1>6 DEF IInv

(* Every step keeps the invariant.                                         *)
LEMMA Inductive == IInv /\ [Next]_vars => IInv'
<1> SUFFICES ASSUME IInv, [Next]_vars PROVE IInv'
  OBVIOUS
<1>1. CASE Staging
  BY <1>1, RestingSteps, SyncSteps, ReserveStep, WriteStageStep DEF Staging
<1>2. CASE Discarding
  BY <1>2, DiscardStageStep, DiscardBackupStep, DiscardLeaves, SyncSteps DEF Discarding
<1>3. CASE Committing
  BY <1>3, RestingSteps, SyncSteps, DropReservationStep, LinkBackupStep,
     ReplaceTargetStep, RemoveLinkedBackupStep, RetireTargetStep, PublishAbsentStep,
     LinkAbsentStep, UnlinkStageStep DEF Committing
<1>4. CASE RollingBack
  BY <1>4, RestingSteps, SyncSteps, RestoreTargetStep, RemovePublishedStep
     DEF RollingBack
<1>5. CASE Finishing
  BY <1>5, RestingSteps, SyncSteps, UnlinkOldStep DEF Finishing
<1>6. CASE Foreign \/ Crash \/ PowerLoss
  BY <1>6, RestingSteps, SyncSteps
<1>7. CASE UNCHANGED vars
  BY <1>7 DEF vars, IInv, TypeOK, Placed, Flagged, Fresh, Prepared, Targeted, Spared,
              Overlooked, OldOrNew, AnswersAreTrue, Durably, Origin, Goal
<1> QED
  BY <1>1, <1>2, <1>3, <1>4, <1>5, <1>6, <1>7 DEF Next

(* The flags, the place and the directories of a power loss agree in every *)
(* reachable state.                                                        *)
THEOREM Invariance == Spec => []IInv
  BY Initially, Inductive, PTL DEF Spec

(* The transaction, its call and its directories have their types, and a   *)
(* backup that is said to contain the target exists.                       *)
THEOREM TypeCorrect == Spec => []TypeOK
<1>1. IInv => TypeOK
  BY DEF IInv
<1> QED
  BY <1>1, Invariance, PTL

(* The target is the old file or the new one, at every line, after a crash *)
(* and in every directory a power loss may leave.                          *)
THEOREM TargetIsOldOrNew == Spec => []OldOrNew
<1>1. IInv => OldOrNew
  BY DEF IInv
<1> QED
  BY <1>1, Invariance, PTL

(* What pmm_activation_transaction_stage, commit, rollback, finalize and   *)
(* close answer is true of every directory a power loss may leave.         *)
THEOREM AnswersAreAlwaysTrue == Spec => []AnswersAreTrue
<1>1. IInv => AnswersAreTrue
  BY DEF IInv
<1> QED
  BY <1>1, Invariance, PTL

(* Nobody else comes after the first.                                      *)
LEMMA OneForeigner ==
  ASSUME Next, disturbed
  PROVE  came' = came
<1> USE DEF files
<1>1. CASE Staging
  BY <1>1 DEF Staging, BeginStage, Reserve, WriteStage, SyncStage, FailStage
<1>2. CASE Discarding
  BY <1>2 DEF Discarding, DiscardStage, DiscardBackup, EndDiscard
<1>3. CASE Committing
  BY <1>3 DEF Committing, BeginCommit, RefuseCommit, CommitUnchanged, DropReservation,
              LinkBackup, VerifyBackup, SyncBackup, ReplaceTarget, RemoveLinkedBackup,
              LinkedBackupStays, CommitChanged, RetireTarget, PublishAbsent, LinkAbsent,
              UnlinkStage, CheckPublished, PublishFails, SyncCommit, SyncCommitFails,
              Validate, ValidatorRejects
<1>4. CASE RollingBack
  BY <1>4 DEF RollingBack, BeginRollback, FindBackup, RestoreTarget, FindNothing,
              FindPublished, RemovePublished, CheckRemoved, RollbackFails, SyncRollback,
              SyncRollbackFails
<1>5. CASE Finishing
  BY <1>5 DEF Finishing, BeginFinalize, UnlinkOld, SyncFinalize, FinalizeFails, BeginClose
<1>6. CASE Foreign \/ Crash \/ PowerLoss
  BY <1>6 DEF Foreign, Crash, PowerLoss
<1> QED
  BY <1>1, <1>2, <1>3, <1>4, <1>5, <1>6 DEF Next

(* Who lets go of the transaction object does not change a directory.      *)
LEMMA NobodyActsWhenGone ==
  ASSUME IInv, Next, tx'.state = "gone"
  PROVE  survivors' \subseteq survivors
<1> USE DEF files, IInv, TypeOK, Placed, SyncDirectory
<1>1. CASE Staging
  BY <1>1 DEF Staging, BeginStage, Reserve, WriteStage, SyncStage, FailStage
<1>2. CASE Discarding
  BY <1>2 DEF Discarding, DiscardStage, DiscardBackup, EndDiscard
<1>3. ~Committing
  <2>1. ~(DropReservation \/ LinkBackup \/ RemoveLinkedBackup \/ RetireTarget)
    BY DEF DropReservation, LinkBackup, RemoveLinkedBackup, RetireTarget
  <2>2. ~(ReplaceTarget \/ PublishAbsent \/ LinkAbsent \/ UnlinkStage)
    BY DEF ReplaceTarget, PublishAbsent, LinkAbsent, UnlinkStage
  <2>3. ~(BeginCommit \/ RefuseCommit \/ CommitUnchanged \/ VerifyBackup \/ SyncBackup)
    BY DEF BeginCommit, RefuseCommit, CommitUnchanged, VerifyBackup, SyncBackup
  <2>4. ~(LinkedBackupStays \/ CheckPublished \/ PublishFails \/ SyncCommit
            \/ SyncCommitFails \/ Validate \/ ValidatorRejects)
    BY DEF LinkedBackupStays, CommitChanged, CheckPublished, PublishFails, SyncCommit,
           SyncCommitFails, Validate, ValidatorRejects
  <2> QED
    BY <2>1, <2>2, <2>3, <2>4 DEF Committing
<1>4. ~RollingBack
  BY DEF RollingBack, BeginRollback, FindBackup, RestoreTarget, Restored, FindNothing,
         FindPublished, RemovePublished, CheckRemoved, RollbackFails, SyncRollback,
         SyncRollbackFails
<1>5. CASE Finishing
  BY <1>5 DEF Finishing, BeginFinalize, UnlinkOld, SyncFinalize, FinalizeFails, BeginClose
<1>6. CASE Foreign \/ Crash \/ PowerLoss
  BY <1>6 DEF Foreign, Crash, PowerLoss
<1> QED
  BY <1>1, <1>2, <1>3, <1>4, <1>5, <1>6 DEF Next

(* Only the renames over the target and the unlink of it take a file of    *)
(* somebody else out of the directory, and it was the target then.         *)
LEMMA WhoTakesForeign ==
  ASSUME IInv, Next, ForeignKept, \A n \in Names : dir'[n] # "foreign"
  PROVE  /\ ReplaceTarget \/ RestoreTarget \/ RemovePublished
         /\ dir["target"] = "foreign"
<1>1. \E n \in Names : dir[n] = "foreign"
  BY DEF IInv, TypeOK, ForeignKept
<1>2. tx.state # "gone" =>
        \/ dir["target"] = "foreign"
        \/ dir["backup"] = "foreign" /\ tx.existed /\ tx.backup_contains_target
  BY <1>1 DEF IInv, TypeOK, Spared, Durably, ForeignKept
<1>3. /\ dir'["target"] # "foreign" /\ dir'["stage"] # "foreign" /\ dir'["backup"] # "foreign"
      /\ dir' # dir
  BY <1>1 DEF Names
<1> USE DEF IInv, TypeOK, Placed, StagingPlace, DiscardPlace, ReplacePlace, PublishPlace,
            UndoPlace, RollbackPlace, FinalPlace, CommitPlace, Alters, Turns, After
<1>4. ~Staging
  <2>1. ~Reserve /\ ~WriteStage
    BY <1>2, <1>3, Effects DEF Reserve, WriteStage, Flagged
  <2> QED
    BY <1>3, <2>1 DEF Staging, BeginStage, SyncStage, FailStage, SyncDirectory, files
<1>5. ~Discarding
  <2> SUFFICES ASSUME NEW ok \in BOOLEAN,
                      DiscardStage(ok) \/ DiscardBackup(ok) \/ EndDiscard(ok)
               PROVE  FALSE
    BY DEF Discarding
  <2>1. CASE DiscardStage(ok)
    BY <1>2, <1>3, <2>1, ChangeAlters DEF DiscardStage, Entry
  <2>2. CASE DiscardBackup(ok)
    BY <1>2, <1>3, <2>2, ChangeAlters DEF DiscardBackup, Entry
  <2>3. CASE EndDiscard(ok)
    BY <1>3, <2>3 DEF EndDiscard, SyncDirectory
  <2> QED
    BY <2>1, <2>2, <2>3
<1>6. Committing => ReplaceTarget
  <2>1. ~DropReservation /\ ~LinkBackup
    BY <1>2, <1>3, Effects DEF DropReservation, LinkBackup, Flagged
  <2>2. ~RemoveLinkedBackup
    BY <1>2, <1>3, Effects DEF RemoveLinkedBackup, LinkedPair
  <2>3. ~RetireTarget
    BY <1>2, <1>3, Effects DEF RetireTarget, Flagged
  <2>4. ~PublishAbsent /\ ~LinkAbsent
    BY <1>2, <1>3, Effects DEF PublishAbsent, LinkAbsent, TargetUnclaimed
  <2>5. ~UnlinkStage
    BY <1>2, <1>3, Effects DEF UnlinkStage
  <2> QED
    BY <1>3, <2>1, <2>2, <2>3, <2>4, <2>5
       DEF Committing, BeginCommit, RefuseCommit, CommitUnchanged, VerifyBackup, SyncBackup,
           BackupDurable, LinkedBackupStays, CommitChanged, CheckPublished, PublishFails,
           SyncCommit, CommitDurable, SyncCommitFails, Validate, ValidatorRejects,
           SyncDirectory, files
<1>7. RollingBack => RestoreTarget \/ RemovePublished
  BY <1>3 DEF RollingBack, BeginRollback, FindBackup, FindNothing, FindPublished,
              CheckRemoved, RollbackFails, SyncRollback, SyncRollbackFails, SyncDirectory,
              files
<1>8. ~Finishing
  <2>1. ~UnlinkOld
    BY <1>2, <1>3, Effects DEF UnlinkOld, CanUnlink, Matches, Flagged
  <2> QED
    BY <1>3, <2>1 DEF Finishing, BeginFinalize, SyncFinalize, FinalizeFails, BeginClose,
                      SyncDirectory, files
<1>9. ~(Foreign \/ Crash \/ PowerLoss)
  <2>1. ~PowerLoss
    BY DEF PowerLoss, ForeignKept
  <2> QED
    BY <1>3, <2>1 DEF Foreign, Crash, files, ForeignKept
<1>10. ReplaceTarget \/ RestoreTarget \/ RemovePublished
  BY <1>4, <1>5, <1>6, <1>7, <1>8, <1>9 DEF Next
<1>11. dir["target"] = "foreign"
  BY <1>2, <1>10 DEF ReplaceTarget, RestoreTarget, RemovePublished, Prepared
<1> QED
  BY <1>10, <1>11

(* A file that somebody else puts in place of the target outlives every    *)
(* step of commit, rollback, finalize and close, and every power loss,     *)
(* but the rename or unlink whose check of the target it came after.       *)
THEOREM ForeignFilesSurvive == Spec => ForeignSurvives
<1>1. IInv /\ [Next]_vars => [ForeignKept /\ ~ForeignKept' => CameAfterTheCheck]_vars
  <2> SUFFICES ASSUME IInv, Next, ForeignKept, ~ForeignKept'
               PROVE  CameAfterTheCheck
    BY DEF vars
  <2>1. IInv' /\ came' = came
    BY Inductive, OneForeigner DEF ForeignKept
  <2>2. tx'.state # "gone"
    BY <2>1, NobodyActsWhenGone DEF ForeignKept
  <2>3. \A n \in Names : dir'[n] # "foreign"
    BY <2>1, <2>2 DEF IInv, Spared, Durably, ForeignKept, Names
  <2>4. (ReplaceTarget \/ RestoreTarget \/ RemovePublished) /\ dir["target"] = "foreign"
    BY <2>3, WhoTakesForeign
  <2> QED
    BY <2>4 DEF IInv, Overlooked, ForeignKept, CameAfterTheCheck, ReplaceTarget,
                RestoreTarget, RemovePublished
<1> QED
  BY <1>1, Invariance, PTL DEF Spec, ForeignSurvives

(* A step that makes a directory possible without the old file, although   *)
(* all had it, removes the backup of a finalized replacement or removal.   *)
LEMMA OldIsKept ==
  ASSUME IInv, Next, tx.existed, ~disturbed', \A d \in survivors : Kept(d),
         NEW e \in survivors', ~Kept(e)
  PROVE  UnlinkOld
<1> USE DEF Kept
<1>1. e \notin survivors
  OBVIOUS
<1>2. tx.state = "STAGED" /\ pc \notin {"committed", "check_linked", "check_published"}
        /\ ~disturbed => dir["target"] = "old" /\ \A d \in survivors : d["target"] = "old"
  BY DEF IInv, TypeOK, Targeted, Durably, Origin
<1> USE DEF IInv, TypeOK, Placed, StagingPlace, DiscardPlace, ReplacePlace, PublishPlace,
            FinalPlace, CommitPlace, Alters, Turns, After
<1>3. ~Staging
  <2>1. ~Reserve
    BY <1>1, <1>2, Effects DEF Reserve
  <2>2. ~WriteStage
    BY <1>1, Effects
  <2> QED
    BY <1>1, <2>1, <2>2
       DEF Staging, BeginStage, SyncStage, FailStage, SyncDirectory, files
<1>4. ~Discarding
  <2> SUFFICES ASSUME NEW ok \in BOOLEAN,
                      DiscardStage(ok) \/ DiscardBackup(ok) \/ EndDiscard(ok)
               PROVE  FALSE
    BY DEF Discarding
  <2>1. CASE DiscardStage(ok)
    BY <1>1, <2>1, Effects
  <2>2. CASE DiscardBackup(ok)
    <3>1. tx.backup_exists /\ Alters("same", "same", "none")
      BY <1>1, <2>2, Effects
    <3>2. tx.state = "STAGED" /\ pc = "discard_backup" /\ ~disturbed
      BY <2>2, <3>1 DEF DiscardBackup, Flagged
    <3> QED
      BY <1>1, <1>2, <3>1, <3>2
  <2>3. CASE EndDiscard(ok)
    BY <1>1, <2>3 DEF EndDiscard, SyncDirectory
  <2> QED
    BY <2>1, <2>2, <2>3
<1>5. ~Committing
  <2>1. ~DropReservation /\ ~RemoveLinkedBackup
    BY <1>1, <1>2, Effects DEF DropReservation, RemoveLinkedBackup
  <2>2. ~LinkBackup
    BY <1>1, <1>2, Effects DEF LinkBackup
  <2>3. ~RetireTarget
    BY <1>1, <1>2, Effects DEF RetireTarget
  <2>4. ~ReplaceTarget
    BY <1>1, Effects DEF ReplaceTarget, Prepared, Durably
  <2>5. ~PublishAbsent /\ ~LinkAbsent /\ ~UnlinkStage
    BY DEF PublishAbsent, LinkAbsent, UnlinkStage
  <2> QED
    BY <1>1, <2>1, <2>2, <2>3, <2>4, <2>5
       DEF Committing, BeginCommit, RefuseCommit, CommitUnchanged, VerifyBackup, SyncBackup,
           BackupDurable, LinkedBackupStays, CommitChanged, CheckPublished, PublishFails,
           SyncCommit, CommitDurable, SyncCommitFails, Validate, ValidatorRejects,
           SyncDirectory, files
<1>6. ~RollingBack
  <2>1. ~RestoreTarget
    <3> SUFFICES ASSUME RestoreTarget PROVE FALSE
      OBVIOUS
    <3>1. dir["backup"] = "old"
      BY DEF RestoreTarget, Prepared
    <3> QED
      BY <1>1, <3>1, Effects
  <2>2. ~RemovePublished
    BY DEF RemovePublished
  <2> QED
    BY <1>1, <2>1, <2>2
       DEF RollingBack, BeginRollback, FindBackup, FindNothing, FindPublished, CheckRemoved,
           RollbackFails, SyncRollback, SyncRollbackFails, SyncDirectory, files
<1>7. ~(Foreign \/ Crash \/ PowerLoss)
  BY <1>1 DEF Foreign, Crash, PowerLoss, files, Place
<1>8. Finishing => UnlinkOld
  BY <1>1 DEF Finishing, BeginFinalize, SyncFinalize, FinalizeFails, BeginClose,
              SyncDirectory, files
<1> QED
  BY <1>3, <1>4, <1>5, <1>6, <1>7, <1>8 DEF Next

(* Only pmm_activation_transaction_finalize lets go of the old file, and   *)
(* then every directory a power loss may leave has the new state.          *)
THEOREM OldIsAlwaysKept == Spec => OldLostOnlyWhenReplaced
<1> DEFINE Act ==
      tx.existed /\ ~disturbed'
       /\ (\A d \in survivors : Kept(d)) /\ (\E d \in survivors' : ~Kept(d))
       => call = "finalize" /\ \A d \in survivors' : d["target"] = Goal
<1>1. IInv /\ [Next]_vars => [Act]_vars
  <2> SUFFICES ASSUME IInv, Next, tx.existed, ~disturbed', \A d \in survivors : Kept(d),
                      \E d \in survivors' : ~Kept(d)
               PROVE  call = "finalize" /\ \A d \in survivors' : d["target"] = Goal
    BY DEF vars
  <2>1. UnlinkOld
    BY OldIsKept
  <2>2. /\ call = "finalize" /\ ~disturbed /\ tx.state = "COMMITTED"
        /\ pc = "unlink_old" /\ Alters("same", "same", "none")
    BY <2>1, Effects DEF UnlinkOld, IInv, Placed, FinalPlace
  <2>3. \A d \in survivors : d["target"] = Goal
    BY <2>2 DEF IInv, Targeted, Durably, UndoPlace
  <2> QED
    BY <2>2, <2>3 DEF Alters, Turns, After
<1> QED
  BY <1>1, Invariance, PTL DEF Spec, OldLostOnlyWhenReplaced
=============================================================================
