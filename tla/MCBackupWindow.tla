--------------------------- MODULE MCBackupWindow ---------------------------
(* Three workloads for TLC: two replicas, one, and one that is switched off *)
EXTENDS BackupWindow

ThreeWorkloads == <<2, 1, 0>>
TwoWorkloads   == <<1, 1>>
=============================================================================
