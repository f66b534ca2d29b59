----------------------------- MODULE MCUpgradeRun -----------------------------
(***************************************************************************)
(* Upgrades on small sets: runs, and the requests that start them, are     *)
(* alike.                                                                  *)
(***************************************************************************)
EXTENDS UpgradeRun, TLC

Alike == Permutations(Run) \cup Permutations(Client)
=============================================================================
