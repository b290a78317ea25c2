------------------------ MODULE ActivationTransaction ------------------------
(***************************************************************************)
(* One activation transaction of src/cli/activation_transaction.c on       *)
(* POSIX: a binary is replaced, installed or removed, through a staged     *)
(* file and a backup in the directory of the target.                       *)
(*                                                                         *)
(* Each step is one operation on the directory; any of them may fail (an   *)
(* I/O error, or a check that the directory, the owner or the mode of a    *)
(* file does not pass).  The process may die between any two, the power    *)
(* may fail, and a program that knows nothing of the maintenance barrier   *)
(* may put a file of its own in place of the target.  So what is checked   *)
(* of the target before it is replaced or removed is a step of its own;    *)
(* the names of the stage and of the backup are nobody else's, and a check *)
(* of them is one step with the operation.                                 *)
(***************************************************************************)
EXTENDS FiniteSets

VARIABLES
  dir,         \* the file under each name
  survivors,   \* directories that a power loss may leave
  came,        \* the place at which a foreign file took the target's name
  tx,          \* the transaction object
  pc,
  call,        \* the last call, or the one under way
  reply        \* its answer

vars == <<dir, survivors, came, tx, pc, call, reply>>
-----------------------------------------------------------------------------
Names == {"target", "stage", "backup"}

(* A file stands for its identity and content: the original target, the    *)
(* candidate, the empty reservation of the backup's name, a foreign one.   *)
Files == {"old", "new", "blank", "foreign"}
Entry == Files \cup {"none"}

Links(f) == Cardinality({n \in Names : dir[n] = f})

(* activation_path_matches, of an existing file with one link.             *)
Matches(n, f) == dir[n] = f /\ Links(f) = 1

(* activation_linked_backup_pair_valid, or the pair of a target published  *)
(* by a link.                                                              *)
LinkedPair(f, n) == dir["target"] = f /\ dir[n] = f /\ Links(f) = 2

(* An operation on the directory.  Until the next sync a power loss may    *)
(* undo any of the operations.                                             *)
Apply(d, u) == [n \in Names |-> IF n \in DOMAIN u THEN u[n] ELSE d[n]]

Change(u) ==
  /\ dir' = Apply(dir, u)
  /\ survivors' = survivors \cup {Apply(d, u) : d \in survivors}

SyncDirectory == survivors' = {dir} /\ UNCHANGED dir

files == <<dir, survivors, came>>

Answer(r) == pc' = "idle" /\ reply' = r
Continue(where) == pc' = where /\ UNCHANGED reply
Enter(c, r, where) == call' = c /\ reply' = r /\ pc' = where

disturbed == came # "never"

Origin == IF tx.existed THEN "old" ELSE "none"
Goal   == IF tx.action = "REPLACE" THEN "new" ELSE "none"
-----------------------------------------------------------------------------
Init ==
  /\ \E f \in {"old", "none"} :
       dir = [n \in Names |-> IF n = "target" THEN f ELSE "none"]
  /\ survivors = {dir}
  /\ came = "never"
  /\ tx = [state |-> "none", action |-> "REPLACE", existed |-> FALSE,
           staged_exists |-> FALSE, backup_exists |-> FALSE,
           backup_contains_target |-> FALSE, backup_identity |-> "none"]
  /\ pc = "idle"
  /\ call = "none"
  /\ reply = "none"

(* activation_transaction_prepare looks at the target.                     *)
BeginStage(action) ==
  /\ pc = "idle" /\ tx.state = "none"
  /\ tx' = [tx EXCEPT !.action = action, !.existed = dir["target"] # "none",
                      !.state = "STAGED"]
  /\ IF dir["target"] # "none" THEN Enter("stage", "none", "reserve")
     ELSE IF action = "REPLACE" THEN Enter("stage", "none", "write")
     ELSE Enter("stage", "OK", "idle")
  /\ UNCHANGED files

Reserve ==
  /\ pc = "reserve"
  /\ Change([backup |-> "blank"])
  /\ tx' = [tx EXCEPT !.backup_exists = TRUE, !.backup_identity = "blank"]
  /\ Continue("reserved")
  /\ UNCHANGED <<came, call>>

WriteStage ==
  /\ pc = "write"
  /\ Change([stage |-> "new"])
  /\ tx' = [tx EXCEPT !.staged_exists = TRUE]
  /\ Continue("written")
  /\ UNCHANGED <<came, call>>

SyncStage ==
  /\ pc \in {"reserved", "written"}
  /\ SyncDirectory
  /\ IF pc = "reserved" /\ tx.action = "REPLACE" THEN Continue("write")
                                                 ELSE Answer("OK")
  /\ UNCHANGED <<came, tx, call>>

FailStage ==
  /\ pc \in {"reserve", "reserved", "write", "written"}
  /\ Continue("discard_stage")
  /\ UNCHANGED <<files, tx, call>>
-----------------------------------------------------------------------------
(* activation_unlink_expected answers OK and removes the file, if any.     *)
CanUnlink(n, f) == dir[n] = "none" \/ Matches(n, f)

(* activation_discard_staged_assets: each step removes what is left to be  *)
(* removed, or leaves it behind.                                           *)
DiscardStage(ok) ==
  /\ pc = "discard_stage"
  /\ IF tx.staged_exists /\ ok
       THEN /\ CanUnlink("stage", "new")
            /\ Change([stage |-> "none"])
            /\ tx' = [tx EXCEPT !.staged_exists = FALSE]
       ELSE UNCHANGED <<dir, survivors, tx>>
  /\ Continue("discard_backup")
  /\ UNCHANGED <<came, call>>

DiscardBackup(ok) ==
  /\ pc = "discard_backup"
  /\ IF tx.backup_exists /\ ~tx.backup_contains_target /\ ok
       THEN /\ CanUnlink("backup", tx.backup_identity)
            /\ Change([backup |-> "none"])
            /\ tx' = [tx EXCEPT !.backup_exists = FALSE]
       ELSE UNCHANGED <<dir, survivors, tx>>
  /\ Continue("discard_sync")
  /\ UNCHANGED <<came, call>>

Discarded == ~tx.staged_exists /\ (tx.backup_exists => tx.backup_contains_target)

(* A failed stage destroys the object in any case, close only if all went  *)
(* well.                                                                   *)
EndDiscard(synced) ==
  /\ pc = "discard_sync"
  /\ IF synced THEN SyncDirectory ELSE UNCHANGED <<dir, survivors>>
  /\ tx' = IF call = "stage" \/ (Discarded /\ synced)
             THEN [tx EXCEPT !.state = "gone"] ELSE tx
  /\ Answer(IF call = "close" /\ Discarded /\ synced THEN "OK" ELSE "IO")
  /\ UNCHANGED <<came, call>>
-----------------------------------------------------------------------------
(* pmm_activation_transaction_commit.                                      *)
Committable ==
  /\ IF tx.existed THEN Matches("target", "old") ELSE dir["target"] = "none"
  /\ tx.action = "REPLACE" => tx.staged_exists /\ Matches("stage", "new")

BeginCommit ==
  /\ pc = "idle" /\ tx.state = "STAGED"
  /\ Committable
  /\ Enter("commit", "none",
           CASE tx.existed /\ tx.action = "REPLACE" -> "drop"
             [] tx.existed /\ tx.action = "REMOVE"  -> "retire"
             [] ~tx.existed /\ tx.action = "REPLACE" -> "publish"
             [] OTHER -> "committed")
  /\ UNCHANGED <<files, tx>>

RefuseCommit ==
  /\ pc = "idle" /\ tx.state = "STAGED"
  /\ Enter("commit", "IO", "idle")
  /\ UNCHANGED <<files, tx>>

(* The target was not changed: IO, and the transaction stays staged.       *)
CommitUnchanged ==
  /\ pc \in {"drop", "link", "retire", "publish"}
  /\ Answer("IO")
  /\ UNCHANGED <<files, tx, call>>

(* It may have been changed, and is rolled back.                           *)
CommitChanged ==
  /\ tx' = [tx EXCEPT !.state = "RECOVERY_NEEDED"]
  /\ reply' = "IO" /\ pc' = "rollback"
  /\ UNCHANGED <<files, call>>

(* activation_publish_existing_replacement.                                *)
DropReservation ==
  /\ pc = "drop"
  /\ CanUnlink("backup", tx.backup_identity)
  /\ Change([backup |-> "none"])
  /\ tx' = [tx EXCEPT !.backup_exists = FALSE]
  /\ Continue("link")
  /\ UNCHANGED <<came, call>>

(* Variant: the target is moved out of the way.                            *)
BackUpByRename == Change([backup |-> dir["target"], target |-> "none"])

BackUp == Change([backup |-> dir["target"]])

LinkBackup ==
  /\ pc = "link"
  /\ dir["target"] # "none" /\ dir["backup"] = "none"
  /\ BackUp
  /\ tx' = [tx EXCEPT !.backup_exists = TRUE, !.backup_contains_target = TRUE,
                      !.backup_identity = "old"]
  /\ Continue("verify")
  /\ UNCHANGED <<came, call>>

VerifyBackup ==
  /\ pc = "verify"
  /\ LinkedPair("old", "backup") /\ Matches("stage", "new")
  /\ Continue("sync_backup")
  /\ UNCHANGED <<files, tx, call>>

(* Variant: the link is not made durable.                                  *)
BackupDurableLater == UNCHANGED <<dir, survivors>>

BackupDurable == SyncDirectory

SyncBackup ==
  /\ pc = "sync_backup"
  /\ BackupDurable
  /\ Continue("replace")
  /\ UNCHANGED <<came, tx, call>>

ReplaceTarget ==
  /\ pc = "replace"
  /\ Change([target |-> dir["stage"], stage |-> "none"])
  /\ tx' = [tx EXCEPT !.staged_exists = FALSE]
  /\ Continue("committed")
  /\ UNCHANGED <<came, call>>

(* activation_remove_linked_backup after a failure.                        *)
RemoveLinkedBackup ==
  /\ pc \in {"verify", "sync_backup", "replace"}
  /\ LinkedPair("old", "backup")
  /\ Change([backup |-> "none"])
  /\ tx' = [tx EXCEPT !.backup_exists = FALSE, !.backup_contains_target = FALSE]
  /\ Answer("IO")
  /\ UNCHANGED <<came, call>>

LinkedBackupStays ==
  /\ pc \in {"verify", "sync_backup", "replace"}
  /\ CommitChanged

(* The removal of an existing target.                                      *)
RetireTarget ==
  /\ pc = "retire"
  /\ Matches("backup", tx.backup_identity)
  /\ dir["target"] # "none"
  /\ Change([backup |-> dir["target"], target |-> "none"])
  /\ tx' = [tx EXCEPT !.backup_contains_target = TRUE, !.backup_identity = "old"]
  /\ Continue("committed")
  /\ UNCHANGED <<came, call>>

(* Variant: the rename replaces.                                           *)
TargetUnclaimedAlways == TRUE

(* RENAME_NOREPLACE, or link where it is not available.                    *)
TargetUnclaimed == dir["target"] = "none"

PublishAbsent ==
  /\ pc = "publish"
  /\ Matches("stage", "new") /\ TargetUnclaimed
  /\ Change([target |-> dir["stage"], stage |-> "none"])
  /\ tx' = [tx EXCEPT !.staged_exists = FALSE]
  /\ Continue("check_published")
  /\ UNCHANGED <<came, call>>

LinkAbsent ==
  /\ pc = "publish"
  /\ Matches("stage", "new") /\ TargetUnclaimed
  /\ Change([target |-> dir["stage"]])
  /\ Continue("check_linked")
  /\ UNCHANGED <<came, tx, call>>

UnlinkStage ==
  /\ pc = "check_linked"
  /\ LinkedPair("new", "stage")
  /\ Change([stage |-> "none"])
  /\ tx' = [tx EXCEPT !.staged_exists = FALSE]
  /\ Continue("check_published")
  /\ UNCHANGED <<came, call>>

CheckPublished ==
  /\ pc = "check_published"
  /\ Matches("target", "new")
  /\ Continue("committed")
  /\ UNCHANGED <<files, tx, call>>

PublishFails ==
  /\ pc \in {"check_linked", "check_published"}
  /\ CommitChanged

(* Variant: durability is left to the system.                              *)
CommitDurableLater == UNCHANGED <<dir, survivors>>

CommitDurable == SyncDirectory

SyncCommit ==
  /\ pc = "committed"
  /\ CommitDurable
  /\ tx' = [tx EXCEPT !.state = "COMMITTED"]
  /\ Continue("validate")
  /\ UNCHANGED <<came, call>>

SyncCommitFails ==
  /\ pc = "committed"
  /\ tx' = [tx EXCEPT !.state = "COMMITTED"]
  /\ reply' = "IO" /\ pc' = "rollback"
  /\ UNCHANGED <<files, call>>

Validate ==
  /\ pc = "validate"
  /\ Answer("OK")
  /\ UNCHANGED <<files, tx, call>>

(* A removal has no validator.                                             *)
ValidatorRejects ==
  /\ pc = "validate" /\ tx.action = "REPLACE"
  /\ reply' = "VALIDATION_FAILED" /\ pc' = "rollback"
  /\ UNCHANGED <<files, tx, call>>
-----------------------------------------------------------------------------
(* activation_rollback_internal, within commit, rollback and close.        *)
BeginRollback ==
  /\ pc = "idle" /\ tx.state \in {"COMMITTED", "RECOVERY_NEEDED"}
  /\ Enter("rollback", "OK", "rollback")
  /\ UNCHANGED <<files, tx>>

(* The old file can be put back.                                           *)
Restorable ==
  /\ tx.existed
  /\ tx.backup_contains_target
  /\ Matches("backup", tx.backup_identity)
  /\ dir["target"] = "none" \/ (tx.action = "REPLACE" /\ Matches("target", "new"))

(* Variant: one flag keeps its value.                                      *)
RestoredFlagLeft(t) == [t EXCEPT !.backup_exists = FALSE, !.state = "ROLLED_BACK"]

Restored(t) ==
  [t EXCEPT !.backup_exists = FALSE, !.backup_contains_target = FALSE,
            !.state = "ROLLED_BACK"]

FindBackup ==
  /\ pc = "rollback"
  /\ Restorable
  /\ Continue("restore")
  /\ UNCHANGED <<files, tx, call>>

(* The rename replaces whatever is the target by now: activation_rename    *)
(* does without replace_destination on POSIX.                              *)
RestoreTarget ==
  /\ pc = "restore"
  /\ Change([target |-> dir["backup"], backup |-> "none"])
  /\ tx' = Restored(tx)
  /\ Continue("rolled_back")
  /\ UNCHANGED <<came, call>>

(* activation_absent_target_snapshot: the published file is alone, or has  *)
(* a second link under the name of the stage.                              *)
Published ==
  Matches("target", "new") \/ (tx.staged_exists /\ LinkedPair("new", "stage"))

NothingPublished == tx.action = "REMOVE" \/ dir["target"] = "none"

Removable == ~tx.existed /\ (NothingPublished \/ Published)

FindNothing ==
  /\ pc = "rollback"
  /\ ~tx.existed /\ NothingPublished
  /\ tx' = [tx EXCEPT !.state = "ROLLED_BACK"]
  /\ Continue("rolled_back")
  /\ UNCHANGED <<files, call>>

FindPublished ==
  /\ pc = "rollback"
  /\ ~tx.existed /\ ~NothingPublished /\ Published
  /\ Continue("remove")
  /\ UNCHANGED <<files, tx, call>>

(* The unlink removes whatever is the target by now.                       *)
RemovePublished ==
  /\ pc = "remove"
  /\ Change([target |-> "none"])
  /\ Continue("removed")
  /\ UNCHANGED <<came, tx, call>>

(* Only after the removal of a second link is the result looked at.        *)
CheckRemoved ==
  /\ pc = "removed"
  /\ tx.staged_exists => Matches("stage", "new") /\ dir["target"] = "none"
  /\ tx' = [tx EXCEPT !.state = "ROLLED_BACK"]
  /\ Continue("rolled_back")
  /\ UNCHANGED <<files, call>>

RollbackFails ==
  /\ \/ pc = "rollback" /\ (tx.existed \/ tx.action = "REPLACE")
     \/ pc \in {"restore", "remove"}
     \/ pc = "removed" /\ tx.staged_exists
  /\ tx' = [tx EXCEPT !.state = "RECOVERY_NEEDED"]
  /\ Answer("ROLLBACK_FAILED")
  /\ UNCHANGED <<files, call>>

SyncRollback ==
  /\ pc = "rolled_back"
  /\ SyncDirectory
  /\ IF call = "close" THEN Continue("discard_stage") ELSE Answer(reply)
  /\ UNCHANGED <<came, tx, call>>

SyncRollbackFails ==
  /\ pc = "rolled_back"
  /\ Answer(IF call = "commit" THEN "ROLLBACK_FAILED" ELSE "IO")
  /\ UNCHANGED <<files, tx, call>>
-----------------------------------------------------------------------------
(* pmm_activation_transaction_finalize.                                    *)
BeginFinalize ==
  /\ pc = "idle" /\ tx.state = "COMMITTED"
  /\ Enter("finalize", "none",
           IF tx.backup_contains_target THEN "unlink_old" ELSE "sync_final")
  /\ UNCHANGED <<files, tx>>

UnlinkOld ==
  /\ pc = "unlink_old"
  /\ CanUnlink("backup", tx.backup_identity)
  /\ Change([backup |-> "none"])
  /\ tx' = [tx EXCEPT !.backup_exists = FALSE, !.backup_contains_target = FALSE]
  /\ Continue("sync_final")
  /\ UNCHANGED <<came, call>>

SyncFinalize ==
  /\ pc = "sync_final"
  /\ SyncDirectory
  /\ tx' = [tx EXCEPT !.state = "FINALIZED"]
  /\ Answer("OK")
  /\ UNCHANGED <<came, call>>

FinalizeFails ==
  /\ pc \in {"unlink_old", "sync_final"}
  /\ Answer("IO")
  /\ UNCHANGED <<files, tx, call>>

(* pmm_activation_transaction_close.                                       *)
BeginClose ==
  /\ pc = "idle" /\ tx.state \notin {"none", "gone"}
  /\ IF tx.state \in {"COMMITTED", "RECOVERY_NEEDED"}
       THEN Enter("close", "OK", "rollback") /\ UNCHANGED tx
     ELSE IF tx.state = "FINALIZED"
       THEN Enter("close", "OK", "idle") /\ tx' = [tx EXCEPT !.state = "gone"]
     ELSE Enter("close", "OK", "discard_stage") /\ UNCHANGED tx
  /\ UNCHANGED files
-----------------------------------------------------------------------------
(* Somebody else's file takes the name of the target, at any place.        *)
Foreign ==
  /\ tx.state \notin {"none", "gone"}
  /\ ~disturbed
  /\ dir' = Apply(dir, [target |-> "foreign"])
  /\ survivors' = {dir'}
  /\ came' = pc
  /\ UNCHANGED <<tx, pc, call, reply>>

(* The process dies and leaves everything as it is.                        *)
Crash ==
  /\ tx.state \notin {"none", "gone"}
  /\ tx' = [tx EXCEPT !.state = "gone"]
  /\ Enter("none", "none", "idle")
  /\ UNCHANGED files

PowerLoss ==
  /\ tx.state # "none"
  /\ dir' \in survivors
  /\ survivors' = {dir'}
  /\ tx' = [tx EXCEPT !.state = "gone"]
  /\ Enter("none", "none", "idle")
  /\ UNCHANGED came
-----------------------------------------------------------------------------
Staging ==
  \/ \E action \in {"REPLACE", "REMOVE"} : BeginStage(action)
  \/ Reserve \/ WriteStage \/ SyncStage \/ FailStage

Discarding ==
  \E ok \in BOOLEAN : DiscardStage(ok) \/ DiscardBackup(ok) \/ EndDiscard(ok)

Committing ==
  \/ BeginCommit \/ RefuseCommit \/ CommitUnchanged
  \/ DropReservation \/ LinkBackup \/ VerifyBackup \/ SyncBackup
  \/ ReplaceTarget \/ RemoveLinkedBackup \/ LinkedBackupStays
  \/ RetireTarget
  \/ PublishAbsent \/ LinkAbsent \/ UnlinkStage \/ CheckPublished \/ PublishFails
  \/ SyncCommit \/ SyncCommitFails \/ Validate \/ ValidatorRejects

RollingBack ==
  \/ BeginRollback \/ FindBackup \/ RestoreTarget
  \/ FindNothing \/ FindPublished \/ RemovePublished \/ CheckRemoved
  \/ RollbackFails \/ SyncRollback \/ SyncRollbackFails

Finishing ==
  \/ BeginFinalize \/ UnlinkOld \/ SyncFinalize \/ FinalizeFails \/ BeginClose

Next ==
  \/ Staging \/ Discarding \/ Committing \/ RollingBack \/ Finishing
  \/ Foreign \/ Crash \/ PowerLoss

Spec == Init /\ [][Next]_vars
-----------------------------------------------------------------------------
Place ==
  {"idle", "reserve", "reserved", "write", "written", "discard_stage",
   "discard_backup", "discard_sync", "drop", "link", "verify", "sync_backup",
   "replace", "retire", "publish", "check_linked", "check_published",
   "committed", "validate", "rollback", "restore", "remove", "removed",
   "rolled_back", "unlink_old", "sync_final"}

(* Types of all variables; a backup that contains the target exists.       *)
TypeOK ==
  /\ dir \in [Names -> Entry]
  /\ survivors \subseteq [Names -> Entry] /\ dir \in survivors
  /\ came \in Place \cup {"never"}
  /\ tx \in [state : {"none", "STAGED", "COMMITTED", "ROLLED_BACK", "FINALIZED",
                      "RECOVERY_NEEDED", "gone"},
             action : {"REPLACE", "REMOVE"}, existed : BOOLEAN,
             staged_exists : BOOLEAN, backup_exists : BOOLEAN,
             backup_contains_target : BOOLEAN,
             backup_identity : {"none", "blank", "old"}]
  /\ tx.backup_contains_target => tx.backup_exists
  /\ pc \in Place
  /\ call \in {"none", "stage", "commit", "rollback", "finalize", "close"}
  /\ reply \in {"none", "OK", "IO", "VALIDATION_FAILED", "ROLLBACK_FAILED"}

(* The target is always the old file or the new one, also for a reader in  *)
(* the middle of a commit or a rollback, after a crash and after a power   *)
(* loss: a replacement has no moment without a target.                     *)
OldOrNew ==
  tx.state # "none" /\ ~disturbed =>
    \A d \in survivors : d["target"] \in {Origin, Goal}

(* Only finalize lets go of the old file, and then the new state is        *)
(* durable: no failure, retry or power loss before it loses the original.  *)
Kept(d) == "old" \in {d["target"], d["backup"]}

OldLostOnlyWhenReplaced ==
  [][tx.existed /\ ~disturbed'
       /\ (\A d \in survivors : Kept(d)) /\ (\E d \in survivors' : ~Kept(d))
       => call = "finalize" /\ \A d \in survivors' : d["target"] = Goal]_vars

(* What the calls answer is true of every directory a power loss may leave.*)
Durably(n, f) == \A d \in survivors : d[n] = f

AnswersAreTrue ==
  pc = "idle" /\ ~disturbed =>
    /\ call = "stage" /\ reply = "OK" /\ tx.action = "REPLACE" => Durably("stage", "new")
    /\ call = "commit" /\ reply = "OK" =>
         Durably("target", Goal) /\ (tx.existed => Durably("backup", "old"))
    /\ call = "commit" /\ reply \in {"IO", "VALIDATION_FAILED"} => Durably("target", Origin)
    /\ call = "rollback" /\ reply = "OK" => Durably("target", Origin)
    /\ call = "finalize" /\ reply = "OK" => Durably("target", Goal) /\ Durably("backup", "none")
    /\ call = "close" /\ reply = "OK" => Durably("stage", "none") /\ Durably("backup", "none")

(* A file that somebody else puts in place of the target is in every       *)
(* directory a power loss may leave, unless it came after the last check   *)
(* of the target, and then only the rename or unlink that this check was   *)
(* for takes it away.  No publication over an absent target, no retried    *)
(* rollback and no cleanup takes it for one of its own.                    *)
ForeignKept == disturbed /\ \A d \in survivors : \E n \in Names : d[n] = "foreign"

CameAfterTheCheck ==
  \/ pc = "replace" /\ came \in {"sync_backup", "replace"}
  \/ pc \in {"restore", "remove"} /\ came = pc

ForeignSurvives == [][ForeignKept /\ ~ForeignKept' => CameAfterTheCheck]_vars

(* The header: after a cleanup failure the rollback can be retried.  So    *)
(* a transaction that needs recovery could be rolled back, if every        *)
(* operation succeeded.                                                    *)
RollbackCanBeRetried ==
  pc = "idle" /\ tx.state = "RECOVERY_NEEDED" /\ ~disturbed =>
    Restorable \/ Removable
=============================================================================
