--------------------------- MODULE StackLifecycle ---------------------------
(***************************************************************************)
(* What a stack promises to whoever watches it, goroutines, copies of the  *)
(* row and clocks left out: its state follows the table, the cluster only  *)
(* changes while it is shown as installing, it is not shown as completed   *)
(* before every step has run, and it does not stay in flight.              *)
(***************************************************************************)
EXTENDS StackStates

CONSTANT Steps

VARIABLES state, installed

Init == state = "pending" /\ installed = {}

Advance ==
    /\ state' \in Allowed[state]
    /\ state' = "completed" => installed = Steps
    /\ UNCHANGED installed

RunStep ==
    /\ state = "installing"
    /\ \E s \in Steps : installed' = installed \cup {s}
    /\ UNCHANGED state

Next == Advance \/ RunStep

Spec == Init /\ [][Next]_<<state, installed>>

FairSpec == Spec /\ WF_<<state, installed>>(state \in InFlight /\ Advance)
=============================================================================
