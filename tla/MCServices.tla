------------------------------ MODULE MCServices ------------------------------
(***************************************************************************)
(* Seven services of the API process that share no state: the library of   *)
(* backups, the reclaim of what stacks share, the rotation of tokens, the  *)
(* log of a deployment, the alerts of a stack, the scans of its images and *)
(* its pipelines.  A behaviour follows the one that is chosen while the    *)
(* others stay as they began, so that one run checks all of them.          *)
(***************************************************************************)
EXTENDS MCBackupLibrary, MCSharedReclaim, TokenRotation, LogStream, StackAlerts,
        ImageScans, Pipelines, TLC

VARIABLE chosen

(* The two processes, stacks, goroutines or pipelines of each service are  *)
(* alike; as no two services move in one behaviour, exchanging all of them *)
(* at once is symmetry enough.                                             *)
Pairs    == {Keeper, Tenant, Rotator, Publisher, Collector, Scanner, Pipe}
Other(x) == CHOOSE y \in UNION Pairs : y # x /\ \E S \in Pairs : {x, y} \subseteq S
Exchange == {[x \in UNION Pairs |-> IF change THEN Other(x) ELSE x] : change \in BOOLEAN}

serviceVars == <<libraryVars, reclaimVars, tokenVars, logVars, alertVars, imageVars,
                 pipeVars, chosen>>

(* the others begin in one of their initial states                         *)
ServicesInit ==
    /\ chosen \in {"library", "reclaim", "tokens", "log", "alerts", "images",
                  "pipelines"}
    /\ LibraryInit /\ ReclaimInit /\ TokenInit /\ LogInit /\ AlertInit /\ ScansInit
    /\ PipesInit
    /\ chosen # "library" => cap = 0
    /\ chosen # "reclaim" => live[User] = {} /\ layout \in SharedLayouts
    /\ chosen # "tokens" => \A x \in Source : type[x] = "plain"
    /\ chosen # "pipelines" => ~separate

ServicesNext ==
    \/ /\ chosen = "library" /\ LibraryNext
       /\ UNCHANGED <<reclaimVars, tokenVars, logVars, alertVars,
                      imageVars, pipeVars, chosen>>
    \/ /\ chosen = "reclaim" /\ ReclaimNext
       /\ UNCHANGED <<libraryVars, tokenVars, logVars, alertVars,
                      imageVars, pipeVars, chosen>>
    \/ /\ chosen = "tokens" /\ TokenNext
       /\ UNCHANGED <<libraryVars, reclaimVars, logVars, alertVars,
                      imageVars, pipeVars, chosen>>
    \/ /\ chosen = "log" /\ LogNext
       /\ UNCHANGED <<libraryVars, reclaimVars, tokenVars, alertVars,
                      imageVars, pipeVars, chosen>>
    \/ /\ chosen = "alerts" /\ AlertNext
       /\ UNCHANGED <<libraryVars, reclaimVars, tokenVars, logVars,
                      imageVars, pipeVars, chosen>>
    \/ /\ chosen = "images" /\ ScansNext
       /\ UNCHANGED <<libraryVars, reclaimVars, tokenVars, logVars,
                      alertVars, pipeVars, chosen>>
    \/ /\ chosen = "pipelines" /\ PipesNext
       /\ UNCHANGED <<libraryVars, reclaimVars, tokenVars, logVars,
                      alertVars, imageVars, chosen>>

ServicesSpec == ServicesInit /\ [][ServicesNext]_serviceVars

(* Every variable of the chosen service holds a value of its type.         *)
ServicesTypeOK ==
    /\ chosen = "library" => LibraryTypeOK
    /\ chosen = "reclaim" => ReclaimTypeOK
    /\ chosen = "tokens"  => TokenTypeOK
    /\ chosen = "log"     => LogTypeOK
    /\ chosen = "alerts"  => AlertTypeOK
    /\ chosen = "images"  => ScansTypeOK
    /\ chosen = "pipelines" => PipesTypeOK
=============================================================================
