---------------------------- MODULE StackStates ----------------------------
(* The states of a stack and the table of transitions between them         *)
(* (internal/stack/domain: stack.go, deploy_steps.go).                     *)

InFlight == {"validating", "installing", "configuring", "health_check"}
State == InFlight \cup
         {"pending", "completed", "cancelled", "failed", "rolling_back", "rolled_back"}

(* validTransitions *)
Allowed ==
    [s \in State |->
        CASE s = "pending"      -> {"validating", "failed"}
          [] s = "validating"   -> {"installing", "failed"}
          [] s = "installing"   -> {"configuring", "failed", "rolling_back"}
          [] s = "configuring"  -> {"health_check", "failed", "rolling_back"}
          [] s = "health_check" -> {"completed", "failed", "rolling_back"}
          [] s = "failed"       -> {"rolling_back", "pending"}
          [] s = "rolling_back" -> {"rolled_back", "failed"}
          [] s = "rolled_back"  -> {"pending"}
          [] OTHER              -> {}]
============================================================================
