---------------------------- MODULE MCSharedReclaim ----------------------------
(***************************************************************************)
(* The layouts of the cluster that TLC tries: two stacks in a namespace of *)
(* their own, or both in one, which somebody else may share with them.     *)
(***************************************************************************)
EXTENDS SharedReclaim, TLC

OneOrg  == [t \in Tenant |-> "o1"]
TwoOrgs == {f \in [Tenant -> Org] : \A t, u \in Tenant : t # u => f[t] # f[u]}

(* each in the namespace of its name, and somebody else with one of them   *)
Apart ==
    {[home |-> home, kind |-> [t \in Tenant |-> "derived"], org |-> OneOrg] :
        home \in {f \in [Holder -> Place] : \A t, u \in Tenant : t # u => f[t] # f[u]}}

Together(kind, org) ==
    [home |-> [h \in Holder |-> CHOOSE p \in Place : TRUE], kind |-> kind, org |-> org]

Unprefixed == [t \in Tenant |-> "other"]
Chosen     == [t \in Tenant |-> "prefixed"]

(* of the stacks that share a namespace with the prefix, one may have it   *)
(* from its name                                                           *)
Prefixed == {f \in [Tenant -> {"derived", "prefixed"}] : \E t \in Tenant : f[t] = "prefixed"}

SharedLayouts == {Together(Chosen, OneOrg)}
MCLayouts     ==
    Apart \cup {Together(Unprefixed, OneOrg)}
        \cup {Together(kind, OneOrg) : kind \in Prefixed}
        \cup {Together(Chosen, org) : org \in TwoOrgs}

(* nothing tells the stacks apart                                          *)
Swap == Permutations(Tenant)
=============================================================================
