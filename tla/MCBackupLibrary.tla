---------------------------- MODULE MCBackupLibrary ----------------------------
(* BackupLibrary for TLC: the parts a run of each target takes, one that   *)
(* matters to a restore and, for a stack, one that it only logs.           *)
EXTENDS BackupLibrary

MCParts == [m \in Member |-> IF m = Platform THEN {"db"} ELSE {"volume", "kv"}]
=============================================================================
