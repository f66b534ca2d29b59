------------------------------- MODULE MCTenants -------------------------------
(***************************************************************************)
(* The reclaim of what stacks share and the rotation of their tokens, on   *)
(* instances larger than MCServices has room for.  They share no state: a  *)
(* behaviour follows one of them while the other stays as it began.        *)
(***************************************************************************)
EXTENDS MCSharedReclaim, TokenRotation

VARIABLE moving

tenantVars == <<reclaimVars, tokenVars, moving>>

TenantsInit ==
    /\ moving \in {"reclaim", "tokens"} /\ ReclaimInit /\ TokenInit
    /\ moving # "reclaim" => live[User] = {} /\ layout \in SharedLayouts
    /\ moving # "tokens" => \A x \in Source : type[x] = "plain"

TenantsNext ==
    \/ moving = "reclaim" /\ ReclaimNext /\ UNCHANGED <<tokenVars, moving>>
    \/ moving = "tokens" /\ TokenNext /\ UNCHANGED <<reclaimVars, moving>>

TenantsSpec == TenantsInit /\ [][TenantsNext]_tenantVars
=============================================================================
