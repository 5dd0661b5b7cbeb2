---------------------------- MODULE MCBackupTask ----------------------------
(* Small instances of BackupTask for TLC. *)
EXTENDS BackupTask

CONSTANTS t1, t2, scheduler, user, nobody
=============================================================================
