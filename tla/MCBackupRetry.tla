---------------------------- MODULE MCBackupRetry ----------------------------
(* Small instances of BackupRetry for TLC. *)
EXTENDS BackupRetry

CONSTANTS plan1, user
=============================================================================
