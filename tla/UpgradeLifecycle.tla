--------------------------- MODULE UpgradeLifecycle ---------------------------
(***************************************************************************)
(* What the API promises of the upgrade runs of a stack to whoever watches *)
(* their status, goroutines, heartbeats and the release left out: one is   *)
(* in progress at a time, one that is closed stays closed, and after a     *)
(* rollback has begun a run can only be shown as rolled back or as left to *)
(* a person, not as succeeded and not as failed, which would mean that     *)
(* nothing was changed (internal/stack/domain: upgrade.go).                *)
(***************************************************************************)
CONSTANT Run

VARIABLE status

Active(i) == status[i] \in {"upgrading", "rolling_back"}

(* the statuses that may follow; none is a run that does not exist yet     *)
Follow ==
    [s \in {"none", "blocked", "upgrading", "rolling_back", "failed", "succeeded",
            "rolled_back", "manual"} |->
        CASE s = "none"         -> {"blocked", "upgrading"}
          [] s = "upgrading"    -> {"rolling_back", "failed", "succeeded", "rolled_back", "manual"}
          [] s = "rolling_back" -> {"rolled_back", "manual"}
          [] OTHER              -> {}]

Init == status = [i \in Run |-> "none"]

Change(i, s) ==
    /\ s \in Follow[status[i]]
    /\ s = "upgrading" => \A j \in Run : ~Active(j)
    /\ status' = [status EXCEPT ![i] = s]

Next == \E i \in Run : \E s \in Follow[status[i]] : Change(i, s)

Spec == Init /\ [][Next]_status
=============================================================================
