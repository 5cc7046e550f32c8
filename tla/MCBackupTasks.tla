--------------------------- MODULE MCBackupTasks ---------------------------
(* Instances of BackupTasks for TLC. *)
EXTENDS BackupTasks
CONSTANTS t1, t2
TwoTasks == {t1, t2}
NegativeStack == {-2}
OneRequest == {1}
AllCalls == {"write", "delete", "deleteall", "restore", "view"}
Writes == {"write"}
=============================================================================
