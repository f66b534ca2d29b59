---------------------------- MODULE SharedReclaim ----------------------------
(***************************************************************************)
(* What the stacks of one cluster share, and what deleting a stack does to *)
(* it (internal/stack/usecase/delete_stack.go, delete_shared_resources.go, *)
(* and the installation steps that put it there).  The cluster has at most *)
(* one of each component; an installation uses what it finds and installs  *)
(* what is missing.  A deletion takes the record of its stack at once and  *)
(* cleans the cluster up in a goroutine of its own: several such cleanups, *)
(* and new installations, run side by side.                                *)
(*                                                                         *)
(* A namespace may be chosen by hand, so stacks may share one, with each   *)
(* other or with somebody else: only the names of stacks are unique.       *)
(*                                                                         *)
(* The objects that need a component are reduced to one per kind and       *)
(* holder: a secret kept by External Secrets, a certificate issued by      *)
(* the internal CA, an autoscaler, and a route with its controller.        *)
(***************************************************************************)
EXTENDS Integers, Sequences, FiniteSets

CONSTANTS
    Tenant,          \* the stacks of the cluster
    Place,           \* its namespaces
    Org,             \* the organisations the stacks belong to
    Layouts,         \* who may live where: home, kind of namespace, organisation
    UserChoices,     \* the sets of kinds that somebody else may have there
    MaxReclaimFaults   \* bounds

User      == "user"
Holder    == Tenant \cup {User}
Component == {"ca", "eso", "certmanager", "metrics", "gateway"}
Kind      == {"secret", "certificate", "autoscaler", "route"}

(* derived from the stack's name, chosen with the prefix of Nullus, or a   *)
(* namespace that is protected or has no such prefix                       *)
NamespaceKind == {"derived", "prefixed", "other"}

ASSUME TenantAssumption  == User \notin Tenant
ASSUME LayoutAssumption  ==
    Layouts \subseteq [home : [Holder -> Place], kind : [Tenant -> NamespaceKind],
                       org : [Tenant -> Org]]
ASSUME UserAssumption    == UserChoices \subseteq SUBSET Kind
ASSUME ReclaimAssumption == MaxReclaimFaults \in Nat

VARIABLES
    record,    \* the stack's row: none yet, present, gone
    at,        \* components its installation has behind it
    layout,    \* where everybody lives, for good
    ns,        \* the namespaces
    live,      \* the objects each holder has in the cluster
    owner,     \* who installed each component
    dpc,       \* where the cleanup of the stack is
    dstep,     \* the component it looks at
    reclaim,   \* it found that it may delete its namespace whole
    dropNs,    \* it has asked for its namespace to be deleted
    esoSeen,   \* holders it saw with ESO objects outside its namespace
    crds,      \* components whose CRDs are in the list it has read
    seen,      \* stacks on record so far when it looked for users
    confirmed, \* and when it last looked for other stacks
    reclaimFaults

installVars  == <<record, at, layout>>
clusterVars  == <<ns, live, owner>>
namespacePart == <<reclaim, dropNs, esoSeen>>
sharedPart   == <<crds, seen, confirmed>>
cleanupVars  == <<dpc, dstep, namespacePart, sharedPart>>
reclaimVars  == <<installVars, clusterVars, cleanupVars, reclaimFaults>>

InstallOrder == <<"certmanager", "metrics", "eso", "gateway">>
ReclaimOrder == <<"ca", "eso", "certmanager", "metrics", "gateway">>

Needs(kind) ==
    CASE kind = "secret"      -> {"eso"}
      [] kind = "certificate" -> {"ca", "certmanager"}
      [] kind = "autoscaler"  -> {"metrics"}
      [] kind = "route"       -> {"gateway"}

Home(h)     == layout.home[h]
At(p)       == {h \in Holder : Home(h) = p}
UsersOf(c)  == {h \in Holder : \E k \in live[h] : c \in Needs(k)}
EsoHolders  == {h \in Holder : "secret" \in live[h]}
Recorded    == {t \in Tenant : record[t] # "none"}
Others(s)   == {t \in Tenant \ {s} : record[t] = "present"}

(* the first stacks of the cluster come after what is installed by hand    *)
ReclaimInit ==
    /\ record = [t \in Tenant |-> "none"] /\ at = [t \in Tenant |-> 0]
    /\ layout \in Layouts
    /\ \E kinds \in UserChoices :
         /\ ns = [p \in Place |-> IF kinds # {} /\ p = Home(User) THEN "active" ELSE "absent"]
         /\ live = [h \in Holder |-> IF h = User THEN kinds ELSE {}]
         /\ owner = [c \in Component |->
                       IF c # "ca" /\ \E k \in kinds : c \in Needs(k) THEN "foreign" ELSE "none"]
    /\ dpc = [t \in Tenant |-> "idle"] /\ dstep = [t \in Tenant |-> 1]
    /\ reclaim = [t \in Tenant |-> FALSE] /\ dropNs = [t \in Tenant |-> FALSE]
    /\ esoSeen = [t \in Tenant |-> {}] /\ crds = [t \in Tenant |-> {}]
    /\ seen = [t \in Tenant |-> {}] /\ confirmed = [t \in Tenant |-> {}]
    /\ reclaimFaults = 0

ReclaimFault   == reclaimFaults < MaxReclaimFaults /\ reclaimFaults' = reclaimFaults + 1
ReclaimNoFault == UNCHANGED reclaimFaults

DGo(s, next) == dpc' = [dpc EXCEPT ![s] = next]

-----------------------------------------------------------------------------
(* Installing                                                              *)

CreateStack(s) ==
    /\ record[s] = "none" /\ record' = [record EXCEPT ![s] = "present"]
    /\ UNCHANGED <<at, layout, clusterVars, cleanupVars, reclaimFaults>>

(* the objects that the steps up to this component bring                   *)
Brings(c) ==
    CASE c = "eso"     -> {"secret"}
      [] c = "gateway" -> {"route", "certificate"}
      [] OTHER         -> {}

(* a step uses the component it finds or installs it, with a mark; that of *)
(* cert-manager sets up the internal CA in either case; a namespace that   *)
(* is on its way out takes no new objects, and the step fails              *)
InstallNext(s) ==
    LET c       == InstallOrder[at[s] + 1]
        missing == {d \in {c} \cup (IF c = "certmanager" THEN {"ca"} ELSE {}) :
                      owner[d] = "none"}
    IN  /\ record[s] = "present" /\ at[s] < Len(InstallOrder)
        /\ owner' = [d \in Component |-> IF d \in missing THEN "nullus" ELSE owner[d]]
        /\ \/ /\ ns[Home(s)] # "terminating" /\ ns' = [ns EXCEPT ![Home(s)] = "active"]
              /\ at' = [at EXCEPT ![s] = @ + 1]
              /\ live' = [live EXCEPT ![s] = @ \cup Brings(c)]
           \/ ns[Home(s)] = "terminating" /\ UNCHANGED <<ns, at, live>>
        /\ UNCHANGED <<record, layout, cleanupVars, reclaimFaults>>

-----------------------------------------------------------------------------
(* Deleting: deleteRecord, then cleanupCluster                             *)

DeleteRecord(s) ==
    /\ record[s] = "present" /\ record' = [record EXCEPT ![s] = "gone"]
    /\ DGo(s, "decide") /\ at' = [at EXCEPT ![s] = 0]
    /\ UNCHANGED <<layout, clusterVars, dstep, namespacePart, sharedPart, reclaimFaults>>

(* namespaceUsedByAnotherStack, which lists the stacks of one organisation *)
UsedByAnother(s) ==
    \E t \in Others(s) : Home(t) = Home(s) /\ layout.org[t] = layout.org[s]

(* namespaceReclaimable                                                    *)
MayReclaim(s) ==
    \/ layout.kind[s] = "derived"
    \/ layout.kind[s] = "prefixed" /\ ~UsedByAnother(s)

(* once for the whole cleanup; a list that cannot be read counts as used   *)
DecideNamespace(s) ==
    /\ dpc[s] = "decide" /\ DGo(s, "look")
    /\ \/ reclaim' = [reclaim EXCEPT ![s] = MayReclaim(s)] /\ ReclaimNoFault
       \/ layout.kind[s] = "prefixed" /\ ReclaimFault /\ UNCHANGED reclaim
    /\ UNCHANGED <<installVars, clusterVars, dstep, dropNs, esoSeen, sharedPart>>

(* esoResourcesInUseOutside; what cannot be read counts as used            *)
LookAtESO(s) ==
    /\ dpc[s] = "look" /\ DGo(s, "own")
    /\ \/ esoSeen' = [esoSeen EXCEPT ![s] = EsoHolders \ At(Home(s))] /\ ReclaimNoFault
       \/ esoSeen' = [esoSeen EXCEPT ![s] = Holder] /\ ReclaimFault
    /\ UNCHANGED <<installVars, clusterVars, dstep, reclaim, dropNs, sharedPart>>

(* in its namespace, all the objects of these kinds go, whoever has them   *)
Sweep(p, kinds) == live' = [h \in Holder |-> IF h \in At(p) THEN live[h] \ kinds ELSE live[h]]

(* the ESO objects, its releases and the Gateways, in this order; each is  *)
(* only tried                                                              *)
DeleteOwn(s) ==
    /\ dpc[s] = "own" /\ DGo(s, "crds")
    /\ \/ Sweep(Home(s), {"secret", "route"}) /\ ReclaimNoFault
       \/ \E left \in {"secret", "route"} :
             Sweep(Home(s), {"secret", "route"} \ {left}) /\ ReclaimFault
    /\ UNCHANGED <<installVars, ns, owner, dstep, namespacePart, sharedPart>>

(* wrong variant: the CRDs go whoever else uses them *)
DropEveryESO(s) == live' = [h \in Holder |-> live[h] \ {"secret"}]

(* the CRDs take the objects of every namespace with them                  *)
DropESO(s) ==
    live' = IF esoSeen[s] = {} THEN [h \in Holder |-> live[h] \ {"secret"}] ELSE live

DeleteESOCRDs(s) ==
    /\ dpc[s] = "crds" /\ DGo(s, "certificate")
    /\ \/ DropESO(s) /\ ReclaimNoFault
       \/ ReclaimFault /\ UNCHANGED live
    /\ esoSeen' = [esoSeen EXCEPT ![s] = {}]
    /\ UNCHANGED <<installVars, ns, owner, dstep, reclaim, dropNs, sharedPart>>

(* the certificate of its gateway, which has the same name in every stack  *)
DeleteCertificate(s) ==
    /\ dpc[s] = "certificate" /\ DGo(s, "namespace")
    /\ \/ /\ ReclaimNoFault
          /\ live' = [h \in Holder |-> IF h \in At(Home(s)) \ {User} THEN live[h] \ {"certificate"}
                                       ELSE live[h]]
       \/ ReclaimFault /\ UNCHANGED live
    /\ UNCHANGED <<installVars, ns, owner, dstep, namespacePart, sharedPart>>

(* bestEffortDeleteStackNamespace, on what was decided at the beginning;   *)
(* one that is already gone will do                                        *)
DeleteNamespace(s) ==
    /\ dpc[s] = "namespace" /\ DGo(s, "first")
    /\ \/ /\ reclaim[s] /\ ReclaimNoFault /\ dropNs' = [dropNs EXCEPT ![s] = TRUE]
          /\ ns' = [ns EXCEPT ![Home(s)] = IF @ = "absent" THEN @ ELSE "terminating"]
       \/ reclaim[s] /\ ReclaimFault /\ UNCHANGED <<ns, dropNs>>
       \/ ~reclaim[s] /\ ReclaimNoFault /\ UNCHANGED <<ns, dropNs>>
    /\ UNCHANGED <<installVars, live, owner, dstep, reclaim, esoSeen, sharedPart>>

(* the cluster empties a namespace; an ESO object waits for its operator   *)
NamespaceDrains(p) ==
    /\ ns[p] = "terminating"
    /\ (At(p) \cap EsoHolders # {}) => owner["eso"] # "none"
    /\ ns' = [ns EXCEPT ![p] = "absent"] /\ Sweep(p, Kind)
    /\ UNCHANGED <<installVars, owner, cleanupVars, reclaimFaults>>

-----------------------------------------------------------------------------
(* reclaimSharedClusterResources                                           *)

(* lastStack, which also fails when the list cannot be read                *)
LastStack(s) == Others(s) = {} /\ ReclaimNoFault
NotLast(s)   == \/ Others(s) # {} /\ ReclaimNoFault
                \/ ReclaimFault

(* wrong variant: the namespace need not be gone *)
NamespaceAsked(s) == dropNs[s]

NamespaceGone(s) == ns[Home(s)] = "absent"

(* loadCRDs: the kinds the cluster knows now, for the rest of this reclaim *)
ListCRDs(s) ==
    crds' = [crds EXCEPT ![s] = {c \in {"certmanager", "gateway"} : owner[c] # "none"}]

(* the first look for other stacks; without a namespace to wait for it     *)
(* goes on to the CRDs                                                     *)
FirstLook(s) ==
    /\ dpc[s] = "first"
    /\ \/ LastStack(s) /\ dropNs[s] /\ DGo(s, "wait") /\ UNCHANGED crds
       \/ LastStack(s) /\ ~dropNs[s] /\ DGo(s, "step") /\ ListCRDs(s)
       \/ NotLast(s) /\ DGo(s, "done") /\ UNCHANGED crds
    /\ UNCHANGED <<installVars, clusterVars, dstep, namespacePart, seen, confirmed>>

(* waitStackNamespaceGone, up to its limit, and loadCRDs                   *)
WaitNamespace(s) ==
    /\ dpc[s] = "wait"
    /\ \/ NamespaceGone(s) /\ ReclaimNoFault /\ DGo(s, "step") /\ ListCRDs(s)
       \/ ns[Home(s)] # "absent" /\ ReclaimNoFault /\ DGo(s, "done") /\ UNCHANGED crds
       \/ ReclaimFault /\ DGo(s, "done") /\ UNCHANGED crds
    /\ UNCHANGED <<installVars, clusterVars, dstep, namespacePart, seen, confirmed>>

NextComponent(s) ==
    /\ dstep' = [dstep EXCEPT ![s] = @ + 1]
    /\ DGo(s, IF dstep[s] = Len(ReclaimOrder) THEN "done" ELSE "step")

(* nullusReleaseNamespaces: only cert-manager and metrics-server have a    *)
(* place for the mark, so the release of ESO never has one; the internal   *)
(* CA is known by its name and the Gateway CRDs by a label                 *)
InstalledByUs(c) == c # "eso" /\ owner[c] = "nullus"

(* certificates are looked for only when the list of CRDs has their kind;  *)
(* without any CRD of the Gateway API in the list there is nothing to take *)
Looks(s, c) == c \in {"ca", "certmanager"} => "certmanager" \in crds[s]
Known(s, c) == InstalledByUs(c) /\ (c = "gateway" => c \in crds[s])

(* wrong variant: the users of a component are not looked for *)
Unlooked(s, c) == Known(s, c)

Reclaimable(s, c) == Known(s, c) /\ (Looks(s, c) => UsersOf(c) = {})

(* the check before each component, and the look for its users             *)
LookForUsers(s) ==
    LET c == ReclaimOrder[dstep[s]]
    IN  /\ dpc[s] = "step"
        /\ \/ /\ LastStack(s) /\ Reclaimable(s, c) /\ DGo(s, "confirm")
              /\ seen' = [seen EXCEPT ![s] = IF Looks(s, c) THEN Recorded ELSE {}]
              /\ UNCHANGED dstep
           \/ LastStack(s) /\ ~Reclaimable(s, c) /\ NextComponent(s) /\ UNCHANGED seen
           \/ /\ Others(s) = {} /\ ReclaimFault    \* the users cannot be read
              /\ NextComponent(s) /\ UNCHANGED seen
           \/ NotLast(s) /\ DGo(s, "done") /\ UNCHANGED <<dstep, seen>>
        /\ UNCHANGED <<installVars, clusterVars, namespacePart, crds, confirmed>>

(* uninstall and delete look for other stacks once more                    *)
ConfirmLast(s) ==
    /\ dpc[s] = "confirm"
    /\ \/ /\ LastStack(s) /\ DGo(s, "remove")
          /\ confirmed' = [confirmed EXCEPT ![s] = Recorded]
          /\ UNCHANGED seen
       \/ /\ NotLast(s) /\ DGo(s, "done")
          /\ seen' = [seen EXCEPT ![s] = {}] /\ UNCHANGED confirmed
    /\ UNCHANGED <<installVars, clusterVars, dstep, namespacePart, crds>>

RemoveComponent(s) ==
    LET c == ReclaimOrder[dstep[s]]
    IN  /\ dpc[s] = "remove" /\ NextComponent(s)
        /\ \/ owner' = [owner EXCEPT ![c] = "none"] /\ ReclaimNoFault
           \/ ReclaimFault /\ UNCHANGED owner
        /\ seen' = [seen EXCEPT ![s] = {}] /\ confirmed' = [confirmed EXCEPT ![s] = {}]
        /\ UNCHANGED <<installVars, ns, live, namespacePart, crds>>

(* the goroutine dies with its process and nothing resumes it              *)
RestartCleanup(s) ==
    /\ dpc[s] \notin {"idle", "done", "lost"}
    /\ ReclaimFault
    /\ DGo(s, "lost")
    /\ UNCHANGED <<installVars, clusterVars, dstep, namespacePart, sharedPart>>

CleanupStep(s) ==
    \/ DecideNamespace(s) \/ LookAtESO(s) \/ DeleteOwn(s) \/ DeleteESOCRDs(s)
    \/ DeleteCertificate(s) \/ DeleteNamespace(s)
    \/ FirstLook(s) \/ WaitNamespace(s) \/ LookForUsers(s) \/ ConfirmLast(s)
    \/ RemoveComponent(s)

TenantStep(s) ==
    CreateStack(s) \/ InstallNext(s) \/ DeleteRecord(s) \/ RestartCleanup(s)

ReclaimNext ==
    \/ \E s \in Tenant : CleanupStep(s) \/ TenantStep(s)
    \/ \E p \in Place : NamespaceDrains(p)

ReclaimSpec == ReclaimInit /\ [][ReclaimNext]_reclaimVars

-----------------------------------------------------------------------------
(* Properties *)

(* Every variable holds a value of its type.                               *)
ReclaimTypeOK ==
    /\ record \in [Tenant -> {"none", "present", "gone"}] /\ at \in [Tenant -> 0 .. 4]
    /\ ns \in [Place -> {"absent", "active", "terminating"}] /\ layout \in Layouts
    /\ live \in [Holder -> SUBSET Kind] /\ owner \in [Component -> {"none", "nullus", "foreign"}]
    /\ dpc \in [Tenant -> {"idle", "decide", "look", "own", "crds", "certificate", "namespace",
                           "first", "wait", "step", "confirm", "remove", "done", "lost"}]
    /\ dstep \in [Tenant -> 1 .. 6] /\ reclaim \in [Tenant -> BOOLEAN]
    /\ dropNs \in [Tenant -> BOOLEAN] /\ esoSeen \in [Tenant -> SUBSET Holder]
    /\ crds \in [Tenant -> SUBSET {"certmanager", "gateway"}] /\ seen \in [Tenant -> SUBSET Tenant]
    /\ confirmed \in [Tenant -> SUBSET Tenant]
    /\ reclaimFaults \in 0 .. MaxReclaimFaults

(* A cleanup never takes a component away from somebody who was there when *)
(* it looked: whoever needs it at that moment is a stack that came on      *)
(* record after the last look for other stacks, or one that came after the *)
(* look for users and has already been deleted again.  When the list of    *)
(* CRDs was read before cert-manager came, its users are not looked for,   *)
(* and a stack deleted meanwhile may count among them; a stack on record   *)
(* and somebody else never do.  delete_shared_resources.go looks before    *)
(* every removal because the reclaim takes minutes.                        *)
UsersKeepComponents ==
    [][ \A c \in Component : owner[c] # "none" /\ owner'[c] = "none" =>
          \E s \in Tenant :
             /\ dpc[s] = "remove" /\ owner[c] = "nullus"
             /\ \A h \in UsersOf(c) :
                   h \in Tenant \ seen[s] /\ (record[h] = "gone" \/ h \notin confirmed[s])
      ]_reclaimVars

(* another stack's cleanup deletes the ESO CRDs on what it saw elsewhere   *)
(* before this holder had its objects                                      *)
LateForCRDs(h) ==
    \E s \in Tenant \ {h} : dpc[s] = "crds" /\ h \notin esoSeen[s] /\ Home(s) # Home(h)

(* or another stack, deleted, empties the namespace it shared with it      *)
SharedWithDeleted(h) ==
    \E s \in Tenant \ {h} :
        /\ Home(s) = Home(h) /\ record[s] = "gone"
        /\ dpc[s] \in {"own", "crds"} \/ (dropNs[s] /\ ns[Home(s)] = "terminating")

(* The ESO objects of a stack on record, or of somebody else, disappear    *)
(* only with the CRDs, by a cleanup that began before they were there, or  *)
(* in a namespace shared with a stack that is being deleted (the objects   *)
(* of a live stack in another namespace were lost in a rehearsal; in the   *)
(* same one they are deleted with --all).                                  *)
SecretsSurviveOthers ==
    [][ \A h \in Holder :
          ("secret" \in live[h] \ live'[h] /\ (h = User \/ record[h] = "present")) =>
             LateForCRDs(h) \/ SharedWithDeleted(h) ]_reclaimVars

(* Every stack that came has gone, and no cleanup stopped for another one  *)
AllReclaimed ==
    /\ \A t \in Recorded : dpc[t] = "done" /\ dstep[t] > Len(ReclaimOrder)
    /\ reclaimFaults = 0

(* When every cleanup has gone through every component, nothing Nullus     *)
(* installed is left that nobody uses.  Those that overlap do not each     *)
(* leave it to the other: whoever looks last has waited for its own        *)
(* namespace, whose objects count as users (waitStackNamespaceGone).  The  *)
(* release of External Secrets is left out: it is never taken for one of   *)
(* Nullus.                                                                 *)
NothingLeftBehind ==
    AllReclaimed =>
        \A c \in Component \ {"eso"} : owner[c] = "nullus" => UsersOf(c) # {}
=============================================================================
