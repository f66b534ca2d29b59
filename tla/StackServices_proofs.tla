------------------------ MODULE StackServices_proofs -------------------------
(***************************************************************************)
(* Proofs about four services of a stack: the reclaim of shared            *)
(* resources, the rotation of tokens, the image scans and the pipelines,   *)
(* for every number of stacks, processes, tokens, CVEs and pipelines, and  *)
(* however many of their calls fail.                                       *)
(***************************************************************************)
EXTENDS SharedReclaim, TokenRotation, ImageScans, Pipelines, TLAPS

-----------------------------------------------------------------------------
(* Shared resources                                                        *)

(* The two orders, and who comes to use a component.                       *)

LEMMA Orders ==
  /\ Len(InstallOrder) = 4 /\ Len(ReclaimOrder) = 5
  /\ \A i \in 1 .. 4 : InstallOrder[i] \in Component \ {"ca"}
  /\ \A i \in 1 .. 5 : ReclaimOrder[i] \in Component
  /\ \A c \in Component : \E i \in 1 .. 5 : ReclaimOrder[i] = c
BY DEF InstallOrder, ReclaimOrder, Component

LEMMA BringsKinds == \A c : Brings(c) \subseteq Kind
BY DEF Brings, Kind

LEMMA AtHome == ASSUME ReclaimTypeOK, NEW h \in Holder PROVE Home(h) \in Place
BY LayoutAssumption DEF ReclaimTypeOK, Home

(* objects that only go leave no new users                                 *)
LEMMA FewerUsers ==
  ASSUME \A h \in Holder : live'[h] \subseteq live[h]
  PROVE  \A c : UsersOf(c)' \subseteq UsersOf(c)
BY DEF UsersOf

(* what a holder does with its objects leaves the other users              *)
LEMMA OtherUsers ==
  ASSUME NEW s, \A h \in Holder \ {s} : live'[h] = live[h]
  PROVE  \A c : UsersOf(c)' \ {s} = UsersOf(c) \ {s}
BY DEF UsersOf

(* the secrets are objects of External Secrets and of nothing else         *)
LEMMA SecretsNeed ==
  ASSUME \A h \in Holder : live'[h] = live[h] \ {"secret"}
  PROVE  \A c \in Component \ {"eso"} : UsersOf(c)' = UsersOf(c)
<1>1. Needs("secret") = {"eso"}
  BY DEF Needs
<1> QED
  BY <1>1 DEF UsersOf

(* whoever needs the internal CA needs cert-manager                        *)
LEMMA CertificatesNeed ==
  ASSUME ReclaimTypeOK
  PROVE  UsersOf("ca") = UsersOf("certmanager")
<1>1. \A k \in Kind : "ca" \in Needs(k) <=> "certmanager" \in Needs(k)
  BY DEF Kind, Needs
<1> QED
  BY <1>1 DEF UsersOf, ReclaimTypeOK

(* a sweep only takes, and only at its place                               *)
LEMMA Swept ==
  ASSUME ReclaimTypeOK, NEW p, NEW kinds, Sweep(p, kinds)
  PROVE  /\ live' \in [Holder -> SUBSET Kind]
         /\ \A h \in Holder : live'[h] \subseteq live[h] /\ (h \notin At(p) => live'[h] = live[h])
BY DEF Sweep, ReclaimTypeOK

-----------------------------------------------------------------------------
(* The inductive invariant of the theorems below.                          *)

(* a cleanup belongs to a deleted stack, and so does a namespace that goes *)
CleanupAfterDelete ==
    /\ \A s \in Tenant : dpc[s] # "idle" \/ dropNs[s] => record[s] = "gone"
    /\ \A p \in Place : ns[p] = "terminating" => \E s \in Tenant : Home(s) = p /\ dropNs[s]

Ahead == {"decide", "look", "own", "crds", "certificate", "namespace", "first", "wait"}

StepInOrder ==
    \A s \in Tenant :
        /\ dpc[s] \in {"step", "confirm", "remove"} => dstep[s] \in 1 .. 5
        /\ dpc[s] \in Ahead \cup {"idle"} => dstep[s] = 1

(* what somebody else needs is not of Nullus, and cert-manager of somebody *)
(* else is in every list of CRDs                                           *)
ForeignListed ==
    /\ \A c \in Component \ {"ca"} : User \in UsersOf(c) => owner[c] = "foreign"
    /\ \A s \in Tenant : dpc[s] \in {"step", "confirm", "remove"} =>
          (owner["certmanager"] = "foreign" => "certmanager" \in crds[s])

(* between its look and its removal a cleanup knows that all the stacks it *)
(* has seen are gone and have no object that needs the component           *)
LookedAt ==
    \A s \in Tenant :
        /\ dpc[s] \in {"confirm", "remove"} =>
              /\ owner[ReclaimOrder[dstep[s]]] # "foreign"
              /\ \A t \in seen[s] : record[t] = "gone"
              /\ \A h \in UsersOf(ReclaimOrder[dstep[s]]) : h \in Tenant \ seen[s]
        /\ dpc[s] = "remove" => \A t \in confirmed[s] : record[t] = "gone"

(* the cleanup has still to come to this component, and knows of it        *)
Before(t, c) ==
    \/ dpc[t] \in Ahead
    \/ /\ dpc[t] \in {"step", "confirm", "remove"} /\ (c = "gateway" => c \in crds[t])
       /\ \E i \in dstep[t] .. 5 : ReclaimOrder[i] = c

(* no cleanup has stopped half-way and no stack is left                    *)
Undisturbed ==
    /\ reclaimFaults = 0
    /\ \A t \in Recorded : record[t] = "gone" /\ dpc[t] \notin {"idle", "lost"}
                         /\ (dpc[t] = "done" => dstep[t] > 5)

(* a namespace that goes has a cleanup that waits for it                   *)
NamespaceAwaited ==
    reclaimFaults = 0 =>
        \A p \in Place : ns[p] = "terminating" =>
            \E t \in Tenant :
                /\ Home(t) = p
                /\ \/ dpc[t] = "first" /\ dropNs[t]
                   \/ dpc[t] = "wait"
                   \/ dpc[t] = "done" /\ dstep[t] = 1

(* what nobody uses has a cleanup that will come to it                     *)
SomebodyComes ==
    Undisturbed =>
        \A c \in Component \ {"eso"} :
            owner[c] = "nullus" => UsersOf(c) # {} \/ \E t \in Tenant : Before(t, c)

ReclaimInv ==
    /\ ReclaimTypeOK /\ CleanupAfterDelete /\ StepInOrder /\ ForeignListed /\ LookedAt
    /\ NamespaceAwaited /\ SomebodyComes

LEMMA ReclaimInitInv == ReclaimInit => ReclaimInv
<1> SUFFICES ASSUME ReclaimInit PROVE ReclaimInv
  OBVIOUS
<1> PICK kinds \in UserChoices :
      /\ ns = [p \in Place |-> IF kinds # {} /\ p = Home(User) THEN "active" ELSE "absent"]
      /\ live = [h \in Holder |-> IF h = User THEN kinds ELSE {}]
      /\ owner = [c \in Component |->
                    IF c # "ca" /\ \E k \in kinds : c \in Needs(k) THEN "foreign" ELSE "none"]
  BY DEF ReclaimInit
<1>1. ReclaimTypeOK
  BY UserAssumption, ReclaimAssumption, TenantAssumption DEF ReclaimInit, ReclaimTypeOK
<1>2. ForeignListed
  BY DEF ReclaimInit, ForeignListed, UsersOf, Holder
<1> QED
  BY <1>1, <1>2 DEF ReclaimInit, ReclaimInv, CleanupAfterDelete, StepInOrder, Ahead, LookedAt,
       NamespaceAwaited, SomebodyComes, Undisturbed, Recorded, Component

LEMMA CreateStackInv ==
  ASSUME ReclaimInv, NEW s \in Tenant, CreateStack(s)
  PROVE  ReclaimInv'
<1> USE DEF CreateStack, clusterVars, cleanupVars, namespacePart, sharedPart
<1>h. \A h : Home(h)' = Home(h)
  BY DEF Home
<1>0. \A c : UsersOf(c)' = UsersOf(c)
  BY DEF UsersOf
<1>1. ReclaimTypeOK'
  BY ReclaimAssumption DEF ReclaimInv, ReclaimTypeOK
<1>2. CleanupAfterDelete'
  BY <1>h DEF ReclaimInv, ReclaimTypeOK, CleanupAfterDelete
<1>3. StepInOrder'
  BY Orders DEF ReclaimInv, ReclaimTypeOK, CleanupAfterDelete, StepInOrder, Ahead
<1>4. ForeignListed'
  BY <1>0 DEF ReclaimInv, ReclaimTypeOK, ForeignListed
<1>5. LookedAt'
  BY <1>0, TenantAssumption DEF ReclaimInv, ReclaimTypeOK, CleanupAfterDelete, StepInOrder, LookedAt, Holder, Recorded
<1>6. NamespaceAwaited'
  BY <1>h DEF ReclaimInv, ReclaimTypeOK, CleanupAfterDelete, StepInOrder, NamespaceAwaited, Ahead
<1>7. SomebodyComes'
  BY <1>0 DEF ReclaimInv, ReclaimTypeOK, StepInOrder, SomebodyComes, Undisturbed, Recorded, Before, Ahead
<1> QED
  BY <1>1, <1>2, <1>3, <1>4, <1>5, <1>6, <1>7 DEF ReclaimInv

LEMMA InstallNextInv ==
  ASSUME ReclaimInv, NEW s \in Tenant, InstallNext(s)
  PROVE  ReclaimInv'
<1> USE DEF InstallNext, cleanupVars, namespacePart, sharedPart
<1>h. \A h : Home(h)' = Home(h)
  BY DEF Home
<1>0. \A c : UsersOf(c)' \ {s} = UsersOf(c) \ {s}
  BY OtherUsers DEF ReclaimInv, ReclaimTypeOK, Holder
<1>1. ReclaimTypeOK'
  BY Orders, BringsKinds, ReclaimAssumption DEF ReclaimInv, ReclaimTypeOK, Holder
<1>2. CleanupAfterDelete'
  BY <1>h DEF ReclaimInv, ReclaimTypeOK, CleanupAfterDelete
<1>3. StepInOrder'
  BY Orders DEF ReclaimInv, ReclaimTypeOK, CleanupAfterDelete, StepInOrder, Ahead
<1>4. ForeignListed'
  BY <1>0, TenantAssumption DEF ReclaimInv, ReclaimTypeOK, ForeignListed, Component
<1>5. LookedAt'
  <2>1. \A t \in Tenant : dpc[t] \in {"confirm", "remove"} => ReclaimOrder[dstep[t]] \in Component
    BY Orders DEF ReclaimInv, StepInOrder
  <2>2. \A c \in Component : owner[c] # "foreign" => owner'[c] # "foreign"
    OBVIOUS
  <2>3. record[s] = "present" /\ UNCHANGED <<record, dpc, dstep, seen, confirmed>>
    OBVIOUS
  <2>4. ASSUME NEW t \in Tenant, dpc[t] \in {"confirm", "remove"}
        PROVE  \A h \in UsersOf(ReclaimOrder[dstep[t]])' : h \in Tenant \ seen[t]
    BY <1>0, <2>3, <2>4 DEF ReclaimInv, LookedAt
  <2> QED
    BY <2>1, <2>2, <2>3, <2>4 DEF ReclaimInv, LookedAt
<1>6. NamespaceAwaited'
  BY <1>h DEF ReclaimInv, ReclaimTypeOK, CleanupAfterDelete, StepInOrder, NamespaceAwaited, Ahead
<1>7. SomebodyComes'
  BY <1>0 DEF ReclaimInv, ReclaimTypeOK, StepInOrder, SomebodyComes, Undisturbed, Recorded, Before, Ahead
<1> QED
  BY <1>1, <1>2, <1>3, <1>4, <1>5, <1>6, <1>7 DEF ReclaimInv

LEMMA DeleteRecordInv ==
  ASSUME ReclaimInv, NEW s \in Tenant, DeleteRecord(s)
  PROVE  ReclaimInv'
<1> USE DEF DeleteRecord, DGo, clusterVars, namespacePart, sharedPart
<1>h. \A h : Home(h)' = Home(h)
  BY DEF Home
<1>0. \A c : UsersOf(c)' = UsersOf(c)
  BY DEF UsersOf
<1>1. ReclaimTypeOK'
  BY ReclaimAssumption DEF ReclaimInv, ReclaimTypeOK
<1>2. CleanupAfterDelete'
  BY <1>h DEF ReclaimInv, ReclaimTypeOK, CleanupAfterDelete
<1>3. StepInOrder'
  BY Orders DEF ReclaimInv, ReclaimTypeOK, CleanupAfterDelete, StepInOrder, Ahead
<1>4. ForeignListed'
  BY <1>0 DEF ReclaimInv, ReclaimTypeOK, ForeignListed
<1>5. LookedAt'
  BY <1>0, TenantAssumption DEF ReclaimInv, ReclaimTypeOK, CleanupAfterDelete, StepInOrder, LookedAt, Holder, Recorded
<1>6. NamespaceAwaited'
  BY <1>h DEF ReclaimInv, ReclaimTypeOK, CleanupAfterDelete, StepInOrder, NamespaceAwaited, Ahead
<1>7. SomebodyComes'
  BY <1>0 DEF ReclaimInv, ReclaimTypeOK, StepInOrder, SomebodyComes, Undisturbed, Recorded, Before, Ahead
<1> QED
  BY <1>1, <1>2, <1>3, <1>4, <1>5, <1>6, <1>7 DEF ReclaimInv

LEMMA DecideNamespaceInv ==
  ASSUME ReclaimInv, NEW s \in Tenant, DecideNamespace(s)
  PROVE  ReclaimInv'
<1> USE DEF ReclaimFault, ReclaimNoFault, DecideNamespace, DGo, installVars, clusterVars, sharedPart
<1>h. \A h : Home(h)' = Home(h)
  BY DEF Home
<1>0. \A c : UsersOf(c)' = UsersOf(c)
  BY DEF UsersOf
<1>1. ReclaimTypeOK'
  <2>1. MayReclaim(s) \in BOOLEAN
    BY DEF MayReclaim
  <2>2. reclaim' \in [Tenant -> BOOLEAN]
    BY <2>1 DEF ReclaimInv, ReclaimTypeOK
  <2>3. reclaimFaults' \in 0 .. MaxReclaimFaults
    BY ReclaimAssumption DEF ReclaimInv, ReclaimTypeOK
  <2> QED
    BY <2>2, <2>3 DEF ReclaimInv, ReclaimTypeOK
<1>2. CleanupAfterDelete'
  BY <1>h DEF ReclaimInv, ReclaimTypeOK, CleanupAfterDelete
<1>3. StepInOrder'
  BY Orders DEF ReclaimInv, ReclaimTypeOK, CleanupAfterDelete, StepInOrder, Ahead
<1>4. ForeignListed'
  BY <1>0 DEF ReclaimInv, ReclaimTypeOK, ForeignListed
<1>5. LookedAt'
  BY <1>0, TenantAssumption DEF ReclaimInv, ReclaimTypeOK, CleanupAfterDelete, StepInOrder, LookedAt, Holder, Recorded
<1>6. NamespaceAwaited'
  BY <1>h DEF ReclaimInv, ReclaimTypeOK, CleanupAfterDelete, StepInOrder, NamespaceAwaited, Ahead
<1>7. SomebodyComes'
  BY <1>0 DEF ReclaimInv, ReclaimTypeOK, StepInOrder, SomebodyComes, Undisturbed, Recorded, Before, Ahead
<1> QED
  BY <1>1, <1>2, <1>3, <1>4, <1>5, <1>6, <1>7 DEF ReclaimInv

LEMMA LookAtESOInv ==
  ASSUME ReclaimInv, NEW s \in Tenant, LookAtESO(s)
  PROVE  ReclaimInv'
<1> USE DEF ReclaimFault, ReclaimNoFault, LookAtESO, DGo, installVars, clusterVars, sharedPart
<1>h. \A h : Home(h)' = Home(h)
  BY DEF Home
<1>0. \A c : UsersOf(c)' = UsersOf(c)
  BY DEF UsersOf
<1>1. ReclaimTypeOK'
  BY ReclaimAssumption DEF ReclaimInv, ReclaimTypeOK, EsoHolders, Holder
<1>2. CleanupAfterDelete'
  BY <1>h DEF ReclaimInv, ReclaimTypeOK, CleanupAfterDelete
<1>3. StepInOrder'
  BY Orders DEF ReclaimInv, ReclaimTypeOK, CleanupAfterDelete, StepInOrder, Ahead
<1>4. ForeignListed'
  BY <1>0 DEF ReclaimInv, ReclaimTypeOK, ForeignListed
<1>5. LookedAt'
  BY <1>0, TenantAssumption DEF ReclaimInv, ReclaimTypeOK, CleanupAfterDelete, StepInOrder, LookedAt, Holder, Recorded
<1>6. NamespaceAwaited'
  BY <1>h DEF ReclaimInv, ReclaimTypeOK, CleanupAfterDelete, StepInOrder, NamespaceAwaited, Ahead
<1>7. SomebodyComes'
  BY <1>0 DEF ReclaimInv, ReclaimTypeOK, StepInOrder, SomebodyComes, Undisturbed, Recorded, Before, Ahead
<1> QED
  BY <1>1, <1>2, <1>3, <1>4, <1>5, <1>6, <1>7 DEF ReclaimInv

LEMMA DeleteOwnInv ==
  ASSUME ReclaimInv, NEW s \in Tenant, DeleteOwn(s)
  PROVE  ReclaimInv'
<1> USE DEF ReclaimFault, ReclaimNoFault, DeleteOwn, DGo, installVars, namespacePart, sharedPart
<1>h. \A h : Home(h)' = Home(h)
  BY DEF Home
<1>a. \A h \in Holder : live'[h] \subseteq live[h]
  BY Swept DEF ReclaimInv, ReclaimTypeOK, Holder
<1>0. \A c : UsersOf(c)' \subseteq UsersOf(c)
  BY <1>a, FewerUsers
<1>1. ReclaimTypeOK'
  BY Swept, ReclaimAssumption DEF ReclaimInv, ReclaimTypeOK
<1>2. CleanupAfterDelete'
  BY <1>h DEF ReclaimInv, ReclaimTypeOK, CleanupAfterDelete
<1>3. StepInOrder'
  BY Orders DEF ReclaimInv, ReclaimTypeOK, CleanupAfterDelete, StepInOrder, Ahead
<1>4. ForeignListed'
  BY <1>0 DEF ReclaimInv, ReclaimTypeOK, ForeignListed
<1>5. LookedAt'
  BY <1>0, TenantAssumption DEF ReclaimInv, ReclaimTypeOK, CleanupAfterDelete, StepInOrder, LookedAt, Holder, Recorded
<1>6. NamespaceAwaited'
  BY <1>h DEF ReclaimInv, ReclaimTypeOK, CleanupAfterDelete, StepInOrder, NamespaceAwaited, Ahead
<1>7. SomebodyComes'
  BY <1>0 DEF ReclaimInv, ReclaimTypeOK, StepInOrder, SomebodyComes, Undisturbed, Recorded, Before, Ahead
<1> QED
  BY <1>1, <1>2, <1>3, <1>4, <1>5, <1>6, <1>7 DEF ReclaimInv

LEMMA DeleteESOCRDsInv ==
  ASSUME ReclaimInv, NEW s \in Tenant, DeleteESOCRDs(s)
  PROVE  ReclaimInv'
<1> USE DEF ReclaimFault, ReclaimNoFault, DeleteESOCRDs, DropESO, DGo, installVars, sharedPart
<1>h. \A h : Home(h)' = Home(h)
  BY DEF Home
<1>0. /\ \A c : UsersOf(c)' \subseteq UsersOf(c)
      /\ \A c \in Component \ {"eso"} : UsersOf(c)' = UsersOf(c)
  BY FewerUsers, SecretsNeed DEF ReclaimInv, ReclaimTypeOK, UsersOf
<1>1. ReclaimTypeOK'
  BY ReclaimAssumption DEF ReclaimInv, ReclaimTypeOK
<1>2. CleanupAfterDelete'
  BY <1>h DEF ReclaimInv, ReclaimTypeOK, CleanupAfterDelete
<1>3. StepInOrder'
  BY Orders DEF ReclaimInv, ReclaimTypeOK, CleanupAfterDelete, StepInOrder, Ahead
<1>4. ForeignListed'
  BY <1>0 DEF ReclaimInv, ReclaimTypeOK, ForeignListed
<1>5. LookedAt'
  BY <1>0, TenantAssumption DEF ReclaimInv, ReclaimTypeOK, CleanupAfterDelete, StepInOrder, LookedAt, Holder, Recorded
<1>6. NamespaceAwaited'
  BY <1>h DEF ReclaimInv, ReclaimTypeOK, CleanupAfterDelete, StepInOrder, NamespaceAwaited, Ahead
<1>7. SomebodyComes'
  BY <1>0 DEF ReclaimInv, ReclaimTypeOK, StepInOrder, SomebodyComes, Undisturbed, Recorded, Before, Ahead
<1> QED
  BY <1>1, <1>2, <1>3, <1>4, <1>5, <1>6, <1>7 DEF ReclaimInv

LEMMA DeleteCertificateInv ==
  ASSUME ReclaimInv, NEW s \in Tenant, DeleteCertificate(s)
  PROVE  ReclaimInv'
<1> USE DEF ReclaimFault, ReclaimNoFault, DeleteCertificate, DGo, installVars, namespacePart, sharedPart
<1>h. \A h : Home(h)' = Home(h)
  BY DEF Home
<1>a. \A h \in Holder : live'[h] \subseteq live[h]
  BY DEF ReclaimInv, ReclaimTypeOK, Holder
<1>0. \A c : UsersOf(c)' \subseteq UsersOf(c)
  BY <1>a, FewerUsers
<1>1. ReclaimTypeOK'
  BY ReclaimAssumption DEF ReclaimInv, ReclaimTypeOK
<1>2. CleanupAfterDelete'
  BY <1>h DEF ReclaimInv, ReclaimTypeOK, CleanupAfterDelete
<1>3. StepInOrder'
  BY Orders DEF ReclaimInv, ReclaimTypeOK, CleanupAfterDelete, StepInOrder, Ahead
<1>4. ForeignListed'
  BY <1>0 DEF ReclaimInv, ReclaimTypeOK, ForeignListed
<1>5. LookedAt'
  BY <1>0, TenantAssumption DEF ReclaimInv, ReclaimTypeOK, CleanupAfterDelete, StepInOrder, LookedAt, Holder, Recorded
<1>6. NamespaceAwaited'
  BY <1>h DEF ReclaimInv, ReclaimTypeOK, CleanupAfterDelete, StepInOrder, NamespaceAwaited, Ahead
<1>7. SomebodyComes'
  BY <1>0 DEF ReclaimInv, ReclaimTypeOK, StepInOrder, SomebodyComes, Undisturbed, Recorded, Before, Ahead
<1> QED
  BY <1>1, <1>2, <1>3, <1>4, <1>5, <1>6, <1>7 DEF ReclaimInv

LEMMA DeleteNamespaceInv ==
  ASSUME ReclaimInv, NEW s \in Tenant, DeleteNamespace(s)
  PROVE  ReclaimInv'
<1> USE DEF ReclaimFault, ReclaimNoFault, DeleteNamespace, DGo, installVars, sharedPart
<1>h. \A h : Home(h)' = Home(h)
  BY DEF Home
<1>0. \A c : UsersOf(c)' = UsersOf(c)
  BY DEF UsersOf
<1>1. ReclaimTypeOK'
  <2>1. ns' \in [Place -> {"absent", "active", "terminating"}]
    BY AtHome DEF ReclaimInv, ReclaimTypeOK
  <2>2. dropNs' \in [Tenant -> BOOLEAN]
    BY DEF ReclaimInv, ReclaimTypeOK
  <2>3. reclaimFaults' \in 0 .. MaxReclaimFaults
    BY ReclaimAssumption DEF ReclaimInv, ReclaimTypeOK
  <2> QED
    BY <2>1, <2>2, <2>3 DEF ReclaimInv, ReclaimTypeOK
<1>2. CleanupAfterDelete'
  BY <1>h DEF ReclaimInv, ReclaimTypeOK, CleanupAfterDelete
<1>3. StepInOrder'
  BY Orders DEF ReclaimInv, ReclaimTypeOK, CleanupAfterDelete, StepInOrder, Ahead
<1>4. ForeignListed'
  BY <1>0 DEF ReclaimInv, ReclaimTypeOK, ForeignListed
<1>5. LookedAt'
  BY <1>0, TenantAssumption DEF ReclaimInv, ReclaimTypeOK, CleanupAfterDelete, StepInOrder, LookedAt, Holder, Recorded
<1>6. NamespaceAwaited'
  BY <1>h DEF ReclaimInv, ReclaimTypeOK, CleanupAfterDelete, StepInOrder, NamespaceAwaited, Ahead
<1>7. SomebodyComes'
  BY <1>0 DEF ReclaimInv, ReclaimTypeOK, StepInOrder, SomebodyComes, Undisturbed, Recorded, Before, Ahead
<1> QED
  BY <1>1, <1>2, <1>3, <1>4, <1>5, <1>6, <1>7 DEF ReclaimInv

LEMMA NamespaceDrainsInv ==
  ASSUME ReclaimInv, NEW p \in Place, NamespaceDrains(p)
  PROVE  ReclaimInv'
<1> USE DEF NamespaceDrains, cleanupVars, namespacePart, sharedPart, installVars
<1>h. \A h : Home(h)' = Home(h)
  BY DEF Home
<1>a. \A h \in Holder : live'[h] \subseteq live[h]
  BY Swept DEF ReclaimInv, ReclaimTypeOK, Holder
<1>0. \A c : UsersOf(c)' \subseteq UsersOf(c)
  BY <1>a, FewerUsers
<1>1. ReclaimTypeOK'
  BY Swept, ReclaimAssumption DEF ReclaimInv, ReclaimTypeOK
<1>2. CleanupAfterDelete'
  BY <1>h DEF ReclaimInv, ReclaimTypeOK, CleanupAfterDelete
<1>3. StepInOrder'
  BY Orders DEF ReclaimInv, ReclaimTypeOK, CleanupAfterDelete, StepInOrder, Ahead
<1>4. ForeignListed'
  BY <1>0 DEF ReclaimInv, ReclaimTypeOK, ForeignListed
<1>5. LookedAt'
  BY <1>0, TenantAssumption DEF ReclaimInv, ReclaimTypeOK, CleanupAfterDelete, StepInOrder, LookedAt, Holder, Recorded
<1>6. NamespaceAwaited'
  BY <1>h DEF ReclaimInv, ReclaimTypeOK, CleanupAfterDelete, StepInOrder, NamespaceAwaited, Ahead
<1>7. SomebodyComes'
  <2> SUFFICES ASSUME Undisturbed' PROVE \E t \in Tenant : \A c : Before(t, c)'
    BY DEF SomebodyComes
  <2>1. PICK t \in Tenant :
          (dpc[t] = "first" /\ dropNs[t]) \/ dpc[t] = "wait" \/ (dpc[t] = "done" /\ dstep[t] = 1)
    BY DEF ReclaimInv, NamespaceAwaited, Undisturbed
  <2>2. record[t] = "gone"
    BY <2>1 DEF ReclaimInv, CleanupAfterDelete
  <2>3. ~(dpc[t] = "done" /\ dstep[t] = 1)
    BY <2>2 DEF Undisturbed, Recorded
  <2> QED
    BY <2>1, <2>3 DEF Before, Ahead
<1> QED
  BY <1>1, <1>2, <1>3, <1>4, <1>5, <1>6, <1>7 DEF ReclaimInv

LEMMA FirstLookInv ==
  ASSUME ReclaimInv, NEW s \in Tenant, FirstLook(s)
  PROVE  ReclaimInv'
<1> USE DEF ReclaimFault, ReclaimNoFault, FirstLook, ListCRDs, DGo, LastStack, NotLast, Others, installVars, clusterVars, namespacePart
<1>h. \A h : Home(h)' = Home(h)
  BY DEF Home
<1>0. \A c : UsersOf(c)' = UsersOf(c)
  BY DEF UsersOf
<1>1. ReclaimTypeOK'
  BY ReclaimAssumption DEF ReclaimInv, ReclaimTypeOK
<1>2. CleanupAfterDelete'
  BY <1>h DEF ReclaimInv, ReclaimTypeOK, CleanupAfterDelete
<1>3. StepInOrder'
  BY Orders DEF ReclaimInv, ReclaimTypeOK, CleanupAfterDelete, StepInOrder, Ahead
<1>4. ForeignListed'
  BY <1>0 DEF ReclaimInv, ReclaimTypeOK, ForeignListed
<1>5. LookedAt'
  BY <1>0, TenantAssumption DEF ReclaimInv, ReclaimTypeOK, CleanupAfterDelete, StepInOrder, LookedAt, Holder, Recorded
<1>6. NamespaceAwaited'
  BY <1>h DEF ReclaimInv, ReclaimTypeOK, CleanupAfterDelete, StepInOrder, NamespaceAwaited, Ahead
<1>7. SomebodyComes'
  <2> SUFFICES ASSUME Undisturbed', NEW d \in Component \ {"eso"}, owner[d] = "nullus", UsersOf(d) = {}
               PROVE  \E t \in Tenant : Before(t, d)'
    BY <1>0 DEF SomebodyComes
  <2>1. Undisturbed
    BY DEF Undisturbed, Recorded, ReclaimInv, ReclaimTypeOK
  <2>2. PICK t \in Tenant : Before(t, d)
    BY <2>1 DEF ReclaimInv, SomebodyComes
  <2>3. CASE t # s
    BY <2>2, <2>3 DEF Before, ReclaimInv, ReclaimTypeOK
  <2>4. CASE t = s
    <3>1. record[s] = "gone" /\ dstep[s] = 1
      BY DEF ReclaimInv, ReclaimTypeOK, CleanupAfterDelete, StepInOrder, Ahead
    <3>2. dpc'[s] # "done"
      BY <3>1 DEF Undisturbed, Recorded
    <3>3. CASE dpc'[s] = "wait"
      BY <3>3 DEF Before, Ahead
    <3>4. CASE dpc'[s] = "step"
      <4>1. d = "gateway" => d \in crds'[s]
        BY <3>4 DEF ReclaimInv, ReclaimTypeOK
      <4> QED
        BY <3>1, <3>4, <4>1, Orders DEF Before
    <3> QED
      BY <3>2, <3>3, <3>4 DEF ReclaimInv, ReclaimTypeOK
  <2> QED
    BY <2>3, <2>4
<1> QED
  BY <1>1, <1>2, <1>3, <1>4, <1>5, <1>6, <1>7 DEF ReclaimInv

LEMMA WaitNamespaceInv ==
  ASSUME ReclaimInv, NEW s \in Tenant, WaitNamespace(s)
  PROVE  ReclaimInv'
<1> USE DEF ReclaimFault, ReclaimNoFault, WaitNamespace, ListCRDs, DGo, NamespaceGone, installVars, clusterVars, namespacePart
<1>h. \A h : Home(h)' = Home(h)
  BY DEF Home
<1>0. \A c : UsersOf(c)' = UsersOf(c)
  BY DEF UsersOf
<1>1. ReclaimTypeOK'
  BY ReclaimAssumption DEF ReclaimInv, ReclaimTypeOK
<1>2. CleanupAfterDelete'
  BY <1>h DEF ReclaimInv, ReclaimTypeOK, CleanupAfterDelete
<1>3. StepInOrder'
  BY Orders DEF ReclaimInv, ReclaimTypeOK, CleanupAfterDelete, StepInOrder, Ahead
<1>4. ForeignListed'
  BY <1>0 DEF ReclaimInv, ReclaimTypeOK, ForeignListed
<1>5. LookedAt'
  BY <1>0, TenantAssumption DEF ReclaimInv, ReclaimTypeOK, CleanupAfterDelete, StepInOrder, LookedAt, Holder, Recorded
<1>6. NamespaceAwaited'
  BY <1>h DEF ReclaimInv, ReclaimTypeOK, CleanupAfterDelete, StepInOrder, NamespaceAwaited, Ahead
<1>7. SomebodyComes'
  <2> SUFFICES ASSUME Undisturbed', NEW d \in Component \ {"eso"}, owner[d] = "nullus", UsersOf(d) = {}
               PROVE  \E t \in Tenant : Before(t, d)'
    BY <1>0 DEF SomebodyComes
  <2>1. Undisturbed
    BY DEF Undisturbed, Recorded, ReclaimInv, ReclaimTypeOK
  <2>2. PICK t \in Tenant : Before(t, d)
    BY <2>1 DEF ReclaimInv, SomebodyComes
  <2>3. CASE t # s
    BY <2>2, <2>3 DEF Before, ReclaimInv, ReclaimTypeOK
  <2>4. CASE t = s
    <3>1. record[s] = "gone" /\ dstep[s] = 1
      BY DEF ReclaimInv, ReclaimTypeOK, CleanupAfterDelete, StepInOrder, Ahead
    <3>2. dpc'[s] # "done"
      BY <3>1 DEF Undisturbed, Recorded
    <3>3. CASE dpc'[s] = "wait"
      BY <3>3 DEF Before, Ahead
    <3>4. CASE dpc'[s] = "step"
      <4>1. d = "gateway" => d \in crds'[s]
        BY <3>4 DEF ReclaimInv, ReclaimTypeOK
      <4> QED
        BY <3>1, <3>4, <4>1, Orders DEF Before
    <3> QED
      BY <3>2, <3>3, <3>4 DEF ReclaimInv, ReclaimTypeOK
  <2> QED
    BY <2>3, <2>4
<1> QED
  BY <1>1, <1>2, <1>3, <1>4, <1>5, <1>6, <1>7 DEF ReclaimInv

LEMMA LookForUsersInv ==
  ASSUME ReclaimInv, NEW s \in Tenant, LookForUsers(s)
  PROVE  ReclaimInv'
<1> USE DEF ReclaimFault, ReclaimNoFault, LookForUsers, NextComponent, DGo, LastStack, NotLast, Others, installVars, clusterVars, namespacePart
<1>h. \A h : Home(h)' = Home(h)
  BY DEF Home
<1>0. \A c : UsersOf(c)' = UsersOf(c)
  BY DEF UsersOf
<1>1. ReclaimTypeOK'
  BY Orders, ReclaimAssumption DEF ReclaimInv, ReclaimTypeOK, StepInOrder, Recorded
<1>2. CleanupAfterDelete'
  BY <1>h DEF ReclaimInv, ReclaimTypeOK, CleanupAfterDelete
<1>3. StepInOrder'
  BY Orders DEF ReclaimInv, ReclaimTypeOK, CleanupAfterDelete, StepInOrder, Ahead
<1>4. ForeignListed'
  BY <1>0 DEF ReclaimInv, ReclaimTypeOK, ForeignListed
<1>5. LookedAt'
  <2> DEFINE c == ReclaimOrder[dstep[s]]
  <2>1. CASE LastStack(s) /\ Reclaimable(s, c) /\ DGo(s, "confirm") /\ UNCHANGED dstep
             /\ seen' = [seen EXCEPT ![s] = IF Looks(s, c) THEN Recorded ELSE {}]
    <3>1. owner[c] # "foreign" /\ (Looks(s, c) => UsersOf(c) = {})
      BY <2>1 DEF Reclaimable, Known, InstalledByUs
    <3>2. \A t \in Recorded : record[t] = "gone"
      BY <2>1 DEF Recorded, ReclaimInv, ReclaimTypeOK, CleanupAfterDelete
    <3>3. ~Looks(s, c) => User \notin UsersOf(c)
      <4> SUFFICES ASSUME ~Looks(s, c) PROVE User \notin UsersOf(c)
        OBVIOUS
      <4>1. c \in {"ca", "certmanager"} /\ "certmanager" \notin crds[s]
        BY DEF Looks
      <4>2. owner["certmanager"] # "foreign"
        BY <4>1 DEF ReclaimInv, ForeignListed
      <4>3. User \notin UsersOf("certmanager")
        BY <4>2 DEF ReclaimInv, ForeignListed, Component
      <4> QED
        BY <4>1, <4>3, CertificatesNeed DEF ReclaimInv
    <3>4. \A h \in UsersOf(c) : h \in Tenant \ seen'[s]
      BY <2>1, <3>1, <3>3 DEF UsersOf, Holder, ReclaimInv, ReclaimTypeOK
    <3> QED
      BY <1>0, <2>1, <3>1, <3>2, <3>4 DEF ReclaimInv, ReclaimTypeOK, LookedAt
  <2>2. CASE dpc'[s] \in {"step", "done"} /\ dpc' = [dpc EXCEPT ![s] = dpc'[s]] /\ UNCHANGED seen
             /\ \A t \in Tenant \ {s} : dstep'[t] = dstep[t]
    BY <1>0, <2>2 DEF ReclaimInv, ReclaimTypeOK, LookedAt
  <2> QED
    BY <2>1, <2>2 DEF ReclaimInv, ReclaimTypeOK
<1>6. NamespaceAwaited'
  BY <1>h DEF ReclaimInv, ReclaimTypeOK, CleanupAfterDelete, StepInOrder, NamespaceAwaited, Ahead
<1>7. SomebodyComes'
  <2> DEFINE c == ReclaimOrder[dstep[s]]
  <2> SUFFICES ASSUME Undisturbed', NEW d \in Component \ {"eso"}, owner[d] = "nullus", UsersOf(d) = {}
               PROVE  \E t \in Tenant : Before(t, d)'
    BY <1>0 DEF SomebodyComes
  <2>1. Undisturbed
    BY DEF Undisturbed, Recorded, ReclaimInv, ReclaimTypeOK
  <2>2. PICK t \in Tenant : Before(t, d)
    BY <2>1 DEF ReclaimInv, SomebodyComes
  <2>3. CASE t # s
    BY <2>2, <2>3 DEF Before, ReclaimInv, ReclaimTypeOK
  <2>4. CASE t = s
    <3>1. dstep[s] \in 1 .. 5 /\ dpc[s] = "step" /\ reclaimFaults' = 0 /\ reclaimFaults = 0
      BY <2>1 DEF ReclaimInv, StepInOrder, Undisturbed, Recorded
    <3>2. ~(DGo(s, "done") /\ UNCHANGED <<dstep, seen>>)
      BY <3>1 DEF Undisturbed, Recorded, ReclaimInv, ReclaimTypeOK
    <3>5. d = "gateway" => d \in crds[s]
      BY <2>2, <2>4, <3>1 DEF Before, Ahead
    <3>3. CASE LastStack(s) /\ Reclaimable(s, c) /\ DGo(s, "confirm") /\ UNCHANGED dstep
      BY <2>2, <2>4, <3>1, <3>3 DEF Before, Ahead, ReclaimInv, ReclaimTypeOK
    <3>4. CASE ~Reclaimable(s, c) /\ NextComponent(s)
      <4>1. d # c
        BY <3>4, <3>5 DEF Reclaimable, Known, InstalledByUs
      <4>2. PICK i \in dstep[s] .. 5 : ReclaimOrder[i] = d
        BY <2>2, <2>4, <3>1 DEF Before, Ahead
      <4>3. i \in dstep[s] + 1 .. 5 /\ dstep[s] # 5
        BY <3>1, <4>1, <4>2
      <4>4. dstep'[s] = dstep[s] + 1 /\ dpc'[s] = "step"
        BY <3>4, <4>3, Orders DEF ReclaimInv, ReclaimTypeOK
      <4> QED
        BY <3>5, <4>2, <4>3, <4>4 DEF Before
    <3> QED
      BY <3>1, <3>2, <3>3, <3>4
  <2> QED
    BY <2>3, <2>4
<1> QED
  BY <1>1, <1>2, <1>3, <1>4, <1>5, <1>6, <1>7 DEF ReclaimInv

LEMMA ConfirmLastInv ==
  ASSUME ReclaimInv, NEW s \in Tenant, ConfirmLast(s)
  PROVE  ReclaimInv'
<1> USE DEF ReclaimFault, ReclaimNoFault, ConfirmLast, DGo, LastStack, NotLast, Others, installVars, clusterVars, namespacePart
<1>h. \A h : Home(h)' = Home(h)
  BY DEF Home
<1>0. \A c : UsersOf(c)' = UsersOf(c)
  BY DEF UsersOf
<1>1. ReclaimTypeOK'
  BY ReclaimAssumption DEF ReclaimInv, ReclaimTypeOK, Recorded
<1>2. CleanupAfterDelete'
  BY <1>h DEF ReclaimInv, ReclaimTypeOK, CleanupAfterDelete
<1>3. StepInOrder'
  BY Orders DEF ReclaimInv, ReclaimTypeOK, CleanupAfterDelete, StepInOrder, Ahead
<1>4. ForeignListed'
  BY <1>0 DEF ReclaimInv, ReclaimTypeOK, ForeignListed
<1>5. LookedAt'
  BY <1>0, TenantAssumption DEF ReclaimInv, ReclaimTypeOK, CleanupAfterDelete, StepInOrder, LookedAt, Holder, Recorded
<1>6. NamespaceAwaited'
  BY <1>h DEF ReclaimInv, ReclaimTypeOK, CleanupAfterDelete, StepInOrder, NamespaceAwaited, Ahead
<1>7. SomebodyComes'
  BY <1>0 DEF ReclaimInv, ReclaimTypeOK, StepInOrder, SomebodyComes, Undisturbed, Recorded, Before, Ahead
<1> QED
  BY <1>1, <1>2, <1>3, <1>4, <1>5, <1>6, <1>7 DEF ReclaimInv

LEMMA RemoveComponentInv ==
  ASSUME ReclaimInv, NEW s \in Tenant, RemoveComponent(s)
  PROVE  ReclaimInv'
<1> USE DEF ReclaimFault, ReclaimNoFault, RemoveComponent, NextComponent, DGo, installVars, namespacePart
<1>h. \A h : Home(h)' = Home(h)
  BY DEF Home
<1>0. \A c : UsersOf(c)' = UsersOf(c)
  BY DEF UsersOf
<1>1. ReclaimTypeOK'
  BY Orders, ReclaimAssumption DEF ReclaimInv, ReclaimTypeOK, StepInOrder
<1>2. CleanupAfterDelete'
  BY <1>h DEF ReclaimInv, ReclaimTypeOK, CleanupAfterDelete
<1>3. StepInOrder'
  BY Orders DEF ReclaimInv, ReclaimTypeOK, CleanupAfterDelete, StepInOrder, Ahead
<1>4. ForeignListed'
  <2> DEFINE c == ReclaimOrder[dstep[s]]
  <2>1. c \in Component /\ owner[c] # "foreign" /\ User \notin UsersOf(c)
    BY Orders, TenantAssumption DEF ReclaimInv, StepInOrder, LookedAt
  <2>2. \A d \in Component : owner'[d] = "foreign" <=> owner[d] = "foreign"
    BY <2>1 DEF ReclaimInv, ReclaimTypeOK
  <2> QED
    BY <1>0, <2>2 DEF ReclaimInv, ReclaimTypeOK, ForeignListed, Component
<1>5. LookedAt'
  <2> DEFINE c == ReclaimOrder[dstep[s]]
  <2>1. \A t \in Tenant : dpc[t] \in {"confirm", "remove"} => ReclaimOrder[dstep[t]] \in Component
    BY Orders DEF ReclaimInv, StepInOrder
  <2>2. \A d \in Component : owner[d] # "foreign" => owner'[d] # "foreign"
    BY DEF ReclaimInv, ReclaimTypeOK
  <2>3. dpc'[s] \in {"step", "done"}
    BY DEF ReclaimInv, ReclaimTypeOK
  <2>4. \A t \in Tenant \ {s} : dpc'[t] = dpc[t] /\ dstep'[t] = dstep[t] /\ seen'[t] = seen[t]
                                /\ confirmed'[t] = confirmed[t]
    BY DEF ReclaimInv, ReclaimTypeOK
  <2> QED
    BY <1>0, <2>1, <2>2, <2>3, <2>4 DEF ReclaimInv, LookedAt
<1>6. NamespaceAwaited'
  BY <1>h DEF ReclaimInv, ReclaimTypeOK, CleanupAfterDelete, StepInOrder, NamespaceAwaited, Ahead
<1>7. SomebodyComes'
  <2> DEFINE c == ReclaimOrder[dstep[s]]
  <2> SUFFICES ASSUME Undisturbed', NEW d \in Component \ {"eso"}, owner'[d] = "nullus", UsersOf(d) = {}
               PROVE  \E t \in Tenant : Before(t, d)'
    BY <1>0 DEF SomebodyComes
  <2>0. c \in Component /\ dstep[s] \in 1 .. 5
    BY Orders DEF ReclaimInv, StepInOrder
  <2>1. Undisturbed
    BY DEF Undisturbed, Recorded, ReclaimInv, ReclaimTypeOK
  <2>5. owner' = [owner EXCEPT ![c] = "none"]
    BY DEF Undisturbed, ReclaimInv, ReclaimTypeOK
  <2>6. d # c /\ owner[d] = "nullus"
    BY <2>0, <2>5 DEF ReclaimInv, ReclaimTypeOK
  <2>2. PICK t \in Tenant : Before(t, d)
    BY <2>1, <2>6 DEF ReclaimInv, SomebodyComes
  <2>3. CASE t # s
    BY <2>2, <2>3 DEF Before, ReclaimInv, ReclaimTypeOK
  <2>4. CASE t = s
    <3>1. d = "gateway" => d \in crds[s]
      BY <2>2, <2>4 DEF Before, Ahead
    <3>2. PICK i \in dstep[s] .. 5 : ReclaimOrder[i] = d
      BY <2>2, <2>4 DEF Before, Ahead
    <3>3. i \in dstep[s] + 1 .. 5 /\ dstep[s] # 5
      BY <2>0, <2>6, <3>2
    <3>4. dstep'[s] = dstep[s] + 1 /\ dpc'[s] = "step"
      BY <3>3, Orders DEF ReclaimInv, ReclaimTypeOK
    <3> QED
      BY <3>1, <3>2, <3>3, <3>4 DEF Before
  <2> QED
    BY <2>3, <2>4
<1> QED
  BY <1>1, <1>2, <1>3, <1>4, <1>5, <1>6, <1>7 DEF ReclaimInv

LEMMA RestartCleanupInv ==
  ASSUME ReclaimInv, NEW s \in Tenant, RestartCleanup(s)
  PROVE  ReclaimInv'
<1> USE DEF ReclaimFault, ReclaimNoFault, RestartCleanup, DGo, installVars, clusterVars, namespacePart, sharedPart
<1>h. \A h : Home(h)' = Home(h)
  BY DEF Home
<1>0. \A c : UsersOf(c)' = UsersOf(c)
  BY DEF UsersOf
<1>1. ReclaimTypeOK'
  BY ReclaimAssumption DEF ReclaimInv, ReclaimTypeOK
<1>2. CleanupAfterDelete'
  BY <1>h DEF ReclaimInv, ReclaimTypeOK, CleanupAfterDelete
<1>3. StepInOrder'
  BY Orders DEF ReclaimInv, ReclaimTypeOK, CleanupAfterDelete, StepInOrder, Ahead
<1>4. ForeignListed'
  BY <1>0 DEF ReclaimInv, ReclaimTypeOK, ForeignListed
<1>5. LookedAt'
  BY <1>0, TenantAssumption DEF ReclaimInv, ReclaimTypeOK, CleanupAfterDelete, StepInOrder, LookedAt, Holder, Recorded
<1>6. NamespaceAwaited'
  BY <1>h DEF ReclaimInv, ReclaimTypeOK, CleanupAfterDelete, StepInOrder, NamespaceAwaited, Ahead
<1>7. SomebodyComes'
  BY <1>0 DEF ReclaimInv, ReclaimTypeOK, StepInOrder, SomebodyComes, Undisturbed, Recorded, Before, Ahead
<1> QED
  BY <1>1, <1>2, <1>3, <1>4, <1>5, <1>6, <1>7 DEF ReclaimInv

LEMMA ReclaimStepInv == ReclaimInv /\ [ReclaimNext]_reclaimVars => ReclaimInv'
<1> SUFFICES ASSUME ReclaimInv, [ReclaimNext]_reclaimVars PROVE ReclaimInv'
  OBVIOUS
<1>1. ASSUME NEW s \in Tenant, CleanupStep(s) PROVE ReclaimInv'
  BY <1>1, DecideNamespaceInv, LookAtESOInv, DeleteOwnInv, DeleteESOCRDsInv, DeleteCertificateInv,
     DeleteNamespaceInv, FirstLookInv, WaitNamespaceInv, LookForUsersInv, ConfirmLastInv,
     RemoveComponentInv DEF CleanupStep
<1>2. ASSUME NEW s \in Tenant, TenantStep(s) PROVE ReclaimInv'
  BY <1>2, CreateStackInv, InstallNextInv, DeleteRecordInv, RestartCleanupInv DEF TenantStep
<1>3. ASSUME NEW p \in Place, NamespaceDrains(p) PROVE ReclaimInv'
  BY <1>3, NamespaceDrainsInv
<1>4. CASE UNCHANGED reclaimVars
  <2> USE <1>4 DEF reclaimVars, installVars, clusterVars, cleanupVars, namespacePart, sharedPart
  <2>1. \A c : UsersOf(c)' = UsersOf(c) /\ Home(c)' = Home(c)
    BY DEF UsersOf, Home
  <2> QED
    BY <2>1 DEF ReclaimInv, ReclaimTypeOK, CleanupAfterDelete, StepInOrder, ForeignListed, LookedAt,
                NamespaceAwaited, SomebodyComes, Undisturbed, Recorded, Before
<1> QED
  BY <1>1, <1>2, <1>3, <1>4 DEF ReclaimNext

-----------------------------------------------------------------------------
(* Every variable holds a value of its type, for any stacks and faults.     *)
THEOREM ReclaimTypeCorrect == ReclaimSpec => []ReclaimTypeOK
<1>1. ReclaimInv => ReclaimTypeOK
  BY DEF ReclaimInv
<1> QED
  BY ReclaimInitInv, ReclaimStepInv, <1>1, PTL DEF ReclaimSpec

LEMMA RemovalSafe ==
  ASSUME ReclaimInv, NEW s \in Tenant, RemoveComponent(s),
         NEW c \in Component, owner[c] # "none", owner'[c] = "none"
  PROVE  /\ dpc[s] = "remove" /\ owner[c] = "nullus"
         /\ \A h \in UsersOf(c) :
               h \in Tenant \ seen[s] /\ (record[h] = "gone" \/ h \notin confirmed[s])
<1>1. dpc[s] = "remove" /\ c = ReclaimOrder[dstep[s]]
  BY DEF RemoveComponent, ReclaimInv, ReclaimTypeOK
<1> QED
  BY <1>1 DEF ReclaimInv, ReclaimTypeOK, LookedAt

(* A cleanup takes no component from somebody who was there when it looked *)
(* for its users, nor one of somebody else, however many cleanups and      *)
(* installations run side by side and whatever its list of CRDs has missed *)
(* (delete_shared_resources.go).                                           *)
THEOREM ReclaimSparesUsers == ReclaimSpec => UsersKeepComponents
<1> DEFINE Kept ==
      \A c \in Component : owner[c] # "none" /\ owner'[c] = "none" =>
        \E s \in Tenant :
           /\ dpc[s] = "remove" /\ owner[c] = "nullus"
           /\ \A h \in UsersOf(c) :
                 h \in Tenant \ seen[s] /\ (record[h] = "gone" \/ h \notin confirmed[s])
<1>1. ReclaimInv /\ [ReclaimNext]_reclaimVars => [Kept]_reclaimVars
  <2> SUFFICES ASSUME ReclaimInv, ReclaimNext,
                      NEW c \in Component, owner[c] # "none", owner'[c] = "none"
               PROVE  \E s \in Tenant :
                        /\ dpc[s] = "remove" /\ owner[c] = "nullus"
                        /\ \A h \in UsersOf(c) :
                              h \in Tenant \ seen[s] /\ (record[h] = "gone" \/ h \notin confirmed[s])
    OBVIOUS
  <2>0. ~\E p \in Place : NamespaceDrains(p)
    BY DEF NamespaceDrains
  <2>1. PICK s \in Tenant : CleanupStep(s) \/ TenantStep(s)
    BY <2>0 DEF ReclaimNext
  <2>2. RemoveComponent(s)
    <3>1. ~TenantStep(s)
      BY DEF TenantStep, CreateStack, InstallNext, DeleteRecord, RestartCleanup, clusterVars
    <3>2. CASE \/ DecideNamespace(s) \/ LookAtESO(s) \/ DeleteOwn(s) \/ DeleteESOCRDs(s)
               \/ DeleteCertificate(s) \/ DeleteNamespace(s)
      BY <3>2 DEF DecideNamespace, LookAtESO, DeleteOwn, DeleteESOCRDs, DeleteCertificate,
                  DeleteNamespace, clusterVars
    <3>3. CASE FirstLook(s) \/ WaitNamespace(s) \/ LookForUsers(s) \/ ConfirmLast(s)
      BY <3>3 DEF FirstLook, WaitNamespace, LookForUsers, ConfirmLast, clusterVars
    <3> QED
      BY <2>1, <3>1, <3>2, <3>3 DEF CleanupStep
  <2> QED
    BY <2>2, RemovalSafe
<1> QED
  BY ReclaimInitInv, ReclaimStepInv, <1>1, PTL DEF ReclaimSpec, UsersKeepComponents

(* The ESO objects of a live stack, or of somebody else, only go with CRDs *)
(* that a cleanup deletes on what it saw before they were there, or with   *)
(* the deletion of a stack that shares their namespace, whatever the       *)
(* layout of the cluster.                                                  *)
THEOREM ReclaimSparesSecrets == ReclaimSpec => SecretsSurviveOthers
<1> DEFINE Lost(h) == "secret" \in live[h] \ live'[h] /\ (h = User \/ record[h] = "present")
           Spared == \A h \in Holder : Lost(h) => LateForCRDs(h) \/ SharedWithDeleted(h)
<1>1. ReclaimInv /\ [ReclaimNext]_reclaimVars => [Spared]_reclaimVars
  <2> SUFFICES ASSUME ReclaimInv, ReclaimNext, NEW h \in Holder, Lost(h)
               PROVE  LateForCRDs(h) \/ SharedWithDeleted(h)
    OBVIOUS
  <2>2. \A t \in Tenant : dpc[t] # "idle" \/ dropNs[t] => t # h /\ record[t] = "gone"
    BY TenantAssumption DEF ReclaimInv, CleanupAfterDelete
  <2>3. ASSUME NEW s \in Tenant, DeleteESOCRDs(s) PROVE LateForCRDs(h) \/ SharedWithDeleted(h)
    BY <2>2, <2>3 DEF DeleteESOCRDs, DropESO, LateForCRDs, SharedWithDeleted, ReclaimInv, ReclaimTypeOK
  <2>4. ASSUME NEW s \in Tenant, DeleteOwn(s) PROVE SharedWithDeleted(h)
    BY <2>2, <2>4, Swept DEF DeleteOwn, SharedWithDeleted, At, ReclaimInv
  <2>5. ASSUME NEW p \in Place, NamespaceDrains(p) PROVE SharedWithDeleted(h)
    <3>1. Home(h) = p
      BY <2>5, Swept DEF NamespaceDrains, At, ReclaimInv
    <3>2. PICK t \in Tenant : Home(t) = p /\ dropNs[t]
      BY <2>5 DEF NamespaceDrains, ReclaimInv, CleanupAfterDelete
    <3> QED
      BY <2>2, <2>5, <3>1, <3>2 DEF NamespaceDrains, SharedWithDeleted
  <2>6. ASSUME NEW s \in Tenant, InstallNext(s) PROVE FALSE
    BY <2>6 DEF InstallNext, ReclaimInv, ReclaimTypeOK
  <2>7. ASSUME NEW s \in Tenant, DeleteCertificate(s) PROVE FALSE
    BY <2>7 DEF DeleteCertificate, ReclaimInv, ReclaimTypeOK
  <2>8. ASSUME NEW s \in Tenant,
               \/ CreateStack(s) \/ DeleteRecord(s) \/ RestartCleanup(s) \/ DecideNamespace(s)
               \/ LookAtESO(s) \/ DeleteNamespace(s)
        PROVE  FALSE
    BY <2>8 DEF CreateStack, DeleteRecord, RestartCleanup, DecideNamespace, LookAtESO,
                DeleteNamespace, clusterVars
  <2>9. ASSUME NEW s \in Tenant,
               \/ FirstLook(s) \/ WaitNamespace(s) \/ LookForUsers(s) \/ ConfirmLast(s)
               \/ RemoveComponent(s)
        PROVE  FALSE
    BY <2>9 DEF FirstLook, WaitNamespace, LookForUsers, ConfirmLast, RemoveComponent, clusterVars
  <2> QED
    BY <2>3, <2>4, <2>5, <2>6, <2>7, <2>8, <2>9 DEF ReclaimNext, CleanupStep, TenantStep
<1> QED
  BY ReclaimInitInv, ReclaimStepInv, <1>1, PTL DEF ReclaimSpec, SecretsSurviveOthers

(* When the cleanups of all the stacks that came have gone through every   *)
(* component, whatever their order, their namespaces and what their lists  *)
(* of CRDs have missed, nothing is left that nobody uses.                  *)
THEOREM ReclaimLeavesNothing == ReclaimSpec => []NothingLeftBehind
<1>1. ReclaimInv => NothingLeftBehind
  <2> SUFFICES ASSUME ReclaimInv, AllReclaimed, NEW c \in Component \ {"eso"}, owner[c] = "nullus"
               PROVE  UsersOf(c) # {}
    BY DEF NothingLeftBehind
  <2>1. Undisturbed
    BY Orders DEF AllReclaimed, Undisturbed, Recorded, ReclaimInv, ReclaimTypeOK, CleanupAfterDelete
  <2>2. \A t \in Tenant : ~Before(t, c)
    BY DEF AllReclaimed, Recorded, Before, Ahead, ReclaimInv, ReclaimTypeOK, CleanupAfterDelete
  <2> QED
    BY <2>1, <2>2 DEF ReclaimInv, SomebodyComes
<1> QED
  BY ReclaimInitInv, ReclaimStepInv, <1>1, PTL DEF ReclaimSpec

-----------------------------------------------------------------------------
(* Token rotation                                                          *)

(* The inductive invariant of the theorems below: whoever is noted as      *)
(* alone with a token is the only one to issue it, and while nothing has   *)
(* gone astray everybody who issues one is alone, with the vault of the    *)
(* stack and Gitea in agreement until the old token is deleted.            *)

CallsInOrder ==
    \A x \in Source :
        /\ alone[x] # NoCaller => \A q \in Calls(x) : q = alone[x]
        /\ \A p \in Calls(x) : alone[x] = p /\ tpc[p] = "store" => held[p] = honoured[x]
        /\ ~astray[x] /\ Calls(x) = {} => stackVault[x] = honoured[x]
        /\ ~astray[x] => \A p \in Calls(x) :
              /\ alone[x] = p
              /\ tpc[p] = "revoke"   => stackVault[x] = honoured[x]
              /\ tpc[p] = "generate" => honoured[x] \in {NoToken, stackVault[x]}

PingsProvision == \A p \in Caller : tpc[p] = "ping" => p \in Provisioner

TokenInv == TokenTypeOK /\ PingsProvision /\ CallsInOrder

LEMMA TokenConstants ==
  /\ MaxIssued \in Nat /\ MaxTokenFaults \in Nat /\ SourceTypes \subseteq Type
  /\ NoCaller \notin Caller /\ Rotator \subseteq Caller /\ Provisioner \subseteq Caller
  /\ \A p \in Provisioner : p \notin Rotator
  /\ Token \subseteq Int /\ NoToken \notin Token /\ Random \notin Token
  /\ NoToken # Random /\ Installed \notin Token
  /\ \A n \in 0 .. MaxIssued : n < MaxIssued => n + 1 \in Token /\ n + 1 \in 0 .. MaxIssued
BY TypeAssumption, CallerAssumption, TokenBoundAssumption
   DEF Caller, Token, NoToken, Random, Installed

LEMMA TokenInitInv == TokenInit => TokenInv
<1> SUFFICES ASSUME TokenInit PROVE TokenInv
  OBVIOUS
<1>1. TokenTypeOK
  BY TokenConstants DEF TokenInit, TokenTypeOK, Held, Status, Installed
<1>2. PingsProvision
  BY DEF TokenInit, PingsProvision
<1>3. CallsInOrder
  BY DEF TokenInit, CallsInOrder, Calls, InCall
<1> QED
  BY <1>1, <1>2, <1>3 DEF TokenInv

(* The types, action by action.                                            *)

LEMMA TimeTypes ==
  ASSUME TokenTypeOK, NEW x \in Source, CheckComes(x) \/ Outdates(x) \/ ApplyAction(x)
  PROVE  TokenTypeOK'
<1> USE DEF callVars, tokenGhost, TokenTypeOK
<1>1. CASE CheckComes(x)
  BY <1>1 DEF CheckComes
<1>2. CASE Outdates(x)
  BY <1>2 DEF Outdates
<1>3. CASE ApplyAction(x)
  BY <1>3 DEF ApplyAction, StatusAfter, Status
<1> QED
  BY <1>1, <1>2, <1>3

LEMMA BeginTypes ==
  ASSUME TokenTypeOK, NEW p \in Caller, NEW x \in Source, BeginCall(p, x)
  PROVE  /\ src' \in [Caller -> Source] /\ alone' \in [Source -> Caller \cup {NoCaller}]
         /\ astray' \in [Source -> BOOLEAN]
         /\ tpc' \in [Caller -> {"idle", "next", "revoke", "generate", "store", "put", "record",
                           "event", "failed", "ping"}]
         /\ \A q \in Caller : tpc'[q] \in {"store", "put"} => q # p /\ tpc[q] = tpc'[q]
BY DEF TokenTypeOK, BeginCall, TGo

LEMMA FailTypes ==
  ASSUME TokenTypeOK, NEW p \in Caller, FailCall(p)
  PROVE  /\ alone' \in [Source -> Caller \cup {NoCaller}] /\ forced' \subseteq Provisioner
         /\ held' \in [Caller -> Held]
         /\ tpc' \in [Caller -> {"idle", "next", "revoke", "generate", "store", "put", "record",
                           "event", "failed", "ping"}]
         /\ \A q \in Caller : tpc'[q] \in {"store", "put"} =>
               q # p /\ tpc[q] = tpc'[q] /\ held[q] = held'[q]
BY DEF TokenTypeOK, FailCall, EndAlone, TGo, Hold, Held

LEMMA FaultTypes ==
  ASSUME TokenTypeOK, TokenFault \/ TokenNoFault
  PROVE  tokenFaults' \in 0 .. MaxTokenFaults
BY TokenConstants DEF TokenTypeOK, TokenFault, TokenNoFault

LEMMA CallTypes ==
  ASSUME TokenTypeOK, NEW p \in Caller, RevokeNamed(p) \/ Generate(p) \/ StoreToken(p)
  PROVE  TokenTypeOK'
<1>1. CASE RevokeNamed(p)
  <2> USE <1>1 DEF RevokeNamed
  <2>1. TokenFault \/ TokenNoFault
    OBVIOUS
  <2>2. CASE FailCall(p)
    BY <2>1, <2>2, FailTypes, FaultTypes DEF TokenTypeOK, tokenGhost
  <2>3. CASE ~FailCall(p)
    BY <2>1, <2>3, FaultTypes DEF TokenTypeOK, tokenGhost, TGo
  <2> QED
    BY <2>2, <2>3
<1>2. CASE Generate(p)
  <2> DEFINE x == src[p]
  <2>0. x \in Source /\ issued[x] \in 0 .. MaxIssued
    BY DEF TokenTypeOK
  <2>1. TokenFault \/ TokenNoFault
    BY <1>2 DEF Generate
  <2>2. issued' \in [Source -> 0 .. MaxIssued] /\ honoured' \in [Source -> Token \cup {NoToken}]
    BY <1>2, <2>0, TokenConstants DEF Generate, TokenTypeOK
  <2>3. CASE FailCall(p)
    <3>1. astray' \in [Source -> BOOLEAN]
      BY <1>2, <2>3, <2>0 DEF Generate, TokenTypeOK, Stray, TakeOutput, FailCall, TGo
    <3> QED
      BY <1>2, <2>1, <2>2, <2>3, <3>1, FailTypes, FaultTypes DEF Generate, TokenTypeOK
  <2>4. CASE ~FailCall(p)
    <3>1. TakeOutput(p) /\ issued[x] < MaxIssued /\ UNCHANGED <<forced, tokenGhost>>
      BY <1>2, <2>4 DEF Generate
    <3>2. issued[x] + 1 \in Token
      BY <2>0, <3>1, TokenConstants
    <3> HIDE DEF x
    <3>3. x = src[p]
      BY DEF x
    <3> QED
      BY <1>2, <2>1, <2>2, <3>1, <3>2, <3>3, FaultTypes
      DEF Generate, TokenTypeOK, TakeOutput, TGo, Hold, Held, tokenGhost
  <2> QED
    BY <2>3, <2>4
<1>3. CASE StoreToken(p)
  <2> USE <1>3 DEF StoreToken
  <2>1. TokenFault \/ TokenNoFault
    OBVIOUS
  <2>2. stackVault' \in [Source -> Token \cup {NoToken}] /\ astray' \in [Source -> BOOLEAN]
    BY DEF TokenTypeOK, StoreInStack
  <2>3. CASE FailCall(p)
    BY <2>1, <2>2, <2>3, FailTypes, FaultTypes DEF TokenTypeOK
  <2>4. CASE ~FailCall(p)
    <3>1. EndAlone(p) /\ UNCHANGED <<held, forced>>
          /\ TGo(p, IF p \in Rotator THEN "put" ELSE "ping")
      BY <2>4
    <3>2. held[p] # NoToken
      BY TokenConstants DEF TokenTypeOK
    <3> QED
      BY <2>1, <2>2, <3>1, <3>2, FaultTypes DEF TokenTypeOK, TGo, EndAlone
  <2> QED
    BY <2>3, <2>4
<1> QED
  BY <1>1, <1>2, <1>3

LEMMA ProvisionTypes ==
  ASSUME TokenTypeOK, PingsProvision, NEW p \in Caller, CreatePipeline(p) \/ Ping(p)
  PROVE  TokenTypeOK'
<1>1. CASE CreatePipeline(p)
  <2>1. PICK x \in Source :
          /\ \/ /\ stackVault[x] # NoToken /\ TGo(p, "ping") /\ Hold(p, stackVault[x])
                /\ src' = [src EXCEPT ![p] = x] /\ UNCHANGED tokenGhost
             \/ BeginCall(p, x) /\ UNCHANGED held
          /\ TokenFault \/ TokenNoFault
          /\ UNCHANGED <<sourceVars, listed, forced>>
    BY <1>1 DEF CreatePipeline
  <2>2. CASE BeginCall(p, x) /\ UNCHANGED held
    BY <2>1, <2>2, BeginTypes, FaultTypes DEF TokenTypeOK, sourceVars
  <2>3. CASE ~(BeginCall(p, x) /\ UNCHANGED held)
    BY <2>1, <2>3, FaultTypes DEF TokenTypeOK, sourceVars, TGo, Hold, Held, tokenGhost
  <2> QED
    BY <2>1, <2>2, <2>3
<1>2. CASE Ping(p)
  <2>1. /\ (TokenFault \/ TokenNoFault) /\ tpc[p] = "ping" /\ Hold(p, NoToken)
        /\ UNCHANGED <<sourceVars, listed>>
        /\ forced' \in {forced \ {p}, forced \cup {p}}
    BY <1>2 DEF Ping
  <2>2. forced' \subseteq Provisioner /\ held' \in [Caller -> Held] /\ src[p] \in Source
    BY <2>1 DEF PingsProvision, TokenTypeOK, Hold, Held
  <2>3. CASE BeginCall(p, src[p])
    BY <2>1, <2>2, <2>3, BeginTypes, FaultTypes DEF TokenTypeOK, sourceVars, Hold
  <2>4. CASE ~BeginCall(p, src[p])
    <3>1. TGo(p, "idle") /\ UNCHANGED <<src, tokenGhost>>
      BY <1>2, <2>4 DEF Ping
    <3> QED
      BY <2>1, <2>2, <3>1, FaultTypes DEF TokenTypeOK, sourceVars, TGo, Hold, tokenGhost
  <2> QED
    BY <2>3, <2>4
<1> QED
  BY <1>1, <1>2

LEMMA RotatorTypes ==
  ASSUME TokenTypeOK, NEW p \in Caller,
         ListDue(p) \/ EndRound(p) \/ PutToken(p) \/ RecordRotation(p) \/ RecordEvent(p)
         \/ FailRotation(p)
  PROVE  TokenTypeOK'
<1> USE DEF TGo, Hold, Mark, Status, Held
<1>1. CASE ListDue(p)
  BY <1>1 DEF TokenTypeOK, ListDue, sourceVars, tokenGhost
<1>2. CASE EndRound(p)
  BY <1>2 DEF TokenTypeOK, EndRound, sourceVars, tokenGhost
<1>3. CASE PutToken(p)
  BY <1>3, FaultTypes DEF TokenTypeOK, PutToken, tokenGhost
<1>4. CASE RecordRotation(p)
  <2>1. tstatus' \in [Source -> Status] /\ due' \in [Source -> BOOLEAN]
    <3>1. CASE Mark(src[p], "open")
      BY <3>1 DEF TokenTypeOK
    <3>2. CASE UNCHANGED <<tstatus, due>>
      BY <3>2 DEF TokenTypeOK
    <3> QED
      BY <1>4, <3>1, <3>2 DEF RecordRotation
  <2>2. TGo(p, "event") \/ TGo(p, "failed")
    BY <1>4 DEF RecordRotation
  <2>3. tokenFaults' \in 0 .. MaxTokenFaults
    BY <1>4, FaultTypes DEF TokenTypeOK, RecordRotation
  <2>4. UNCHANGED <<type, vault, stackVault, honoured, issued, outdated, listed, src, held, forced,
                    alone, astray>>
    BY <1>4 DEF RecordRotation, tokenGhost
  <2> QED
    BY <2>1, <2>2, <2>3, <2>4 DEF TokenTypeOK
<1>5. CASE RecordEvent(p)
  BY <1>5, FaultTypes DEF TokenTypeOK, RecordEvent, sourceVars, tokenGhost
<1>6. CASE FailRotation(p)
  <2>1. tstatus' \in [Source -> Status] /\ due' \in [Source -> BOOLEAN]
    BY <1>6 DEF TokenTypeOK, FailRotation
  <2> QED
    BY <1>6, <2>1, FaultTypes DEF TokenTypeOK, FailRotation, tokenGhost
<1> QED
  BY <1>1, <1>2, <1>3, <1>4, <1>5, <1>6

LEMMA TakeSourceTypes ==
  ASSUME TokenTypeOK, NEW p \in Caller, TakeSource(p)
  PROVE  TokenTypeOK'
<1>1. PICK x \in Source, was \in Status :
        /\ tpc[p] = "next" /\ listed' = [listed EXCEPT ![p] = @ \ {<<x, was>>}]
        /\ \/ UNCHANGED <<tpc, src, held, tokenGhost>>
           \/ RotateOne(p, x)
        /\ Mark(x, "open") \/ Mark(x, "failed_manual") \/ UNCHANGED <<tstatus, due>>
        /\ TokenFault \/ TokenNoFault
        /\ UNCHANGED <<type, vault, stackVault, honoured, issued, outdated, forced>>
  BY DEF TakeSource
<1>2. tstatus' \in [Source -> Status] /\ due' \in [Source -> BOOLEAN]
  BY <1>1 DEF TokenTypeOK, Mark, Status
<1>3. listed' \in [Caller -> SUBSET (Source \X Status)]
  BY <1>1 DEF TokenTypeOK
<1>4. CASE UNCHANGED <<tpc, src, held, tokenGhost>>
  BY <1>1, <1>2, <1>3, <1>4, FaultTypes DEF TokenTypeOK, tokenGhost
<1>5. CASE BeginCall(p, x) /\ UNCHANGED held
  BY <1>1, <1>2, <1>3, <1>5, BeginTypes, FaultTypes DEF TokenTypeOK
<1>6. CASE /\ src' = [src EXCEPT ![p] = x] /\ TGo(p, "failed")
           /\ UNCHANGED <<held, tokenGhost>>
  BY <1>1, <1>2, <1>3, <1>6, FaultTypes DEF TokenTypeOK, TGo, tokenGhost
<1>7. CASE /\ src' = [src EXCEPT ![p] = x] /\ TGo(p, "put")
           /\ Hold(p, Random) /\ UNCHANGED tokenGhost
  BY <1>1, <1>2, <1>3, <1>7, FaultTypes, TokenConstants
  DEF TokenTypeOK, TGo, Hold, Held, tokenGhost
<1> QED
  BY <1>1, <1>4, <1>5, <1>6, <1>7 DEF RotateOne

LEMMA RestartTypes ==
  ASSUME TokenTypeOK, NEW p \in Caller, RestartCaller(p)
  PROVE  TokenTypeOK'
<1>1. astray' \in [Source -> BOOLEAN] /\ alone' \in [Source -> Caller \cup {NoCaller}]
  BY DEF TokenTypeOK, RestartCaller, EndAlone
<1>2. listed' \in [Caller -> SUBSET (Source \X Status)] /\ held' \in [Caller -> Held]
  BY DEF TokenTypeOK, RestartCaller, Hold, Held
<1> QED
  BY <1>1, <1>2, FaultTypes DEF TokenTypeOK, RestartCaller, TGo, Hold, sourceVars

LEMMA TokenStepTypes ==
  ASSUME TokenTypeOK, PingsProvision, [TokenNext]_tokenVars
  PROVE  TokenTypeOK'
<1>1. ASSUME NEW p \in Caller, CallerStep(p)
      PROVE  TokenTypeOK'
  BY <1>1, RotatorTypes, TakeSourceTypes, ProvisionTypes, CallTypes, RestartTypes DEF CallerStep
<1>2. CASE UNCHANGED tokenVars
  BY <1>2 DEF TokenTypeOK, tokenVars, sourceVars, callVars, tokenGhost
<1> QED
  BY <1>1, <1>2, TimeTypes DEF TokenNext

(* Who pings is a request.                                                 *)

LEMMA TokenStepPings ==
  ASSUME TokenTypeOK, PingsProvision, [TokenNext]_tokenVars
  PROVE  PingsProvision'
<1> USE DEF PingsProvision, TokenTypeOK
<1>1. ASSUME NEW p \in Caller, CallerStep(p)
      PROVE  \A q \in Caller : tpc'[q] = "ping" => q \in Provisioner
  <2>1. CASE CreatePipeline(p) \/ StoreToken(p)
    BY <2>1 DEF CreatePipeline, StoreToken, FailCall, BeginCall, TGo, Caller
  <2>2. CASE TakeSource(p)
    <3>1. \/ UNCHANGED tpc
          \/ \E next \in {"revoke", "failed", "put"} : TGo(p, next)
      BY <2>2 DEF TakeSource, RotateOne, BeginCall
    <3> QED
      BY <3>1 DEF TGo
  <2>5. CASE Ping(p)
    <3>1. TGo(p, "idle") \/ TGo(p, "revoke")
      BY <2>5 DEF Ping, BeginCall
    <3> QED
      BY <3>1 DEF TGo
  <2>3. CASE RevokeNamed(p) \/ Generate(p) \/ RestartCaller(p)
    BY <2>3 DEF RevokeNamed, Generate, RestartCaller, FailCall, TakeOutput, TGo
  <2>4. CASE ListDue(p) \/ EndRound(p) \/ PutToken(p) \/ RecordRotation(p) \/ RecordEvent(p)
             \/ FailRotation(p)
    BY <2>4 DEF ListDue, EndRound, PutToken, RecordRotation, RecordEvent, FailRotation, TGo
  <2> QED
    BY <1>1, <2>1, <2>2, <2>3, <2>4, <2>5 DEF CallerStep
<1>2. ASSUME NEW x \in Source, CheckComes(x) \/ Outdates(x) \/ ApplyAction(x)
      PROVE  UNCHANGED tpc
  BY <1>2 DEF CheckComes, Outdates, ApplyAction, callVars
<1>3. CASE UNCHANGED tokenVars
  BY <1>3 DEF tokenVars, callVars
<1> QED
  BY <1>1, <1>2, <1>3 DEF TokenNext

(* A step that leaves the calls, the tokens and the ghosts alone.          *)

LEMMA QuietKeepsOrder ==
  ASSUME TokenTypeOK, CallsInOrder, UNCHANGED <<stackVault, honoured, tokenGhost>>,
         \A q \in Caller : /\ InCall(q)' <=> InCall(q)
                           /\ InCall(q) => tpc'[q] = tpc[q] /\ src'[q] = src[q] /\ held'[q] = held[q]
  PROVE  CallsInOrder'
<1>1. \A x \in Source : Calls(x)' = Calls(x)
  BY DEF Calls
<1>2. \A x \in Source : \A q \in Calls(x) : q \in Caller /\ tpc'[q] = tpc[q] /\ held'[q] = held[q]
  BY DEF Calls
<1>3. UNCHANGED <<alone, astray>>
  BY DEF tokenGhost
<1> QED
  BY <1>1, <1>2, <1>3 DEF CallsInOrder

(* A call that begins finds the vault and Gitea in agreement, or others at *)
(* work.                                                                   *)
LEMMA BeginKeepsOrder ==
  ASSUME TokenTypeOK, CallsInOrder, NEW p \in Caller, NEW x \in Source, BeginCall(p, x),
         ~InCall(p), UNCHANGED <<stackVault, honoured>>,
         \A q \in Caller \ {p} : held'[q] = held[q]
  PROVE  CallsInOrder'
<1>1. /\ tpc' = [tpc EXCEPT ![p] = "revoke"] /\ src' = [src EXCEPT ![p] = x]
      /\ alone' = [alone EXCEPT ![x] = IF Calls(x) = {} THEN p ELSE NoCaller]
      /\ astray' = [astray EXCEPT ![x] = @ \/ Calls(x) # {}]
  BY DEF BeginCall, TGo
<1>2. Calls(x)' = Calls(x) \cup {p} /\ p \notin Calls(x)
  BY <1>1 DEF TokenTypeOK, Calls, InCall
<1>3. \A y \in Source \ {x} : Calls(y)' = Calls(y) /\ p \notin Calls(y)
  BY <1>1 DEF TokenTypeOK, Calls, InCall
<1>4. ASSUME NEW y \in Source \ {x}
      PROVE  /\ Calls(y)' = Calls(y) /\ alone'[y] = alone[y] /\ astray'[y] = astray[y]
             /\ \A q \in Calls(y) : tpc'[q] = tpc[q] /\ held'[q] = held[q]
  BY <1>1, <1>3 DEF TokenTypeOK, Calls
<1>5. CASE Calls(x) = {}
  <2>1. alone'[x] = p /\ astray'[x] = astray[x] /\ Calls(x)' = {p} /\ tpc'[p] = "revoke"
    BY <1>1, <1>2, <1>5 DEF TokenTypeOK
  <2> QED
    BY <1>4, <1>5, <2>1 DEF CallsInOrder
<1>6. CASE Calls(x) # {}
  <2>1. alone'[x] = NoCaller /\ astray'[x] /\ NoCaller \notin Calls(x)'
    BY <1>1, <1>6, TokenConstants DEF TokenTypeOK, Calls
  <2> QED
    BY <1>4, <2>1 DEF CallsInOrder
<1> QED
  BY <1>5, <1>6

(* One that ends gives its place up.                                       *)
LEMMA EndedCalls ==
  ASSUME TokenTypeOK, NEW p \in Caller, InCall(p), ~InCall(p)', EndAlone(p),
         src' = src, \A q \in Caller \ {p} : tpc'[q] = tpc[q]
  PROVE  /\ Calls(src[p])' = Calls(src[p]) \ {p} /\ p \in Calls(src[p]) /\ src[p] \in Source
         /\ \A y \in Source \ {src[p]} : /\ Calls(y)' = Calls(y) /\ p \notin Calls(y)
                                         /\ alone'[y] = alone[y]
         /\ alone'[src[p]] = IF alone[src[p]] = p THEN NoCaller ELSE alone[src[p]]
BY DEF TokenTypeOK, Calls, InCall, EndAlone

LEMMA FailKeepsOrder ==
  ASSUME TokenTypeOK, CallsInOrder, NEW p \in Caller, InCall(p), FailCall(p),
         src' = src, stackVault' = stackVault,
         \A y \in Source \ {src[p]} : honoured'[y] = honoured[y] /\ astray'[y] = astray[y],
         ~astray'[src[p]] => ~astray[src[p]] /\ stackVault[src[p]] = honoured'[src[p]]
  PROVE  CallsInOrder'
<1>1. /\ ~InCall(p)' /\ EndAlone(p)
      /\ \A q \in Caller \ {p} : tpc'[q] = tpc[q] /\ held'[q] = held[q]
  BY DEF TokenTypeOK, FailCall, InCall, TGo, Hold
<1>2. /\ Calls(src[p])' = Calls(src[p]) \ {p} /\ p \in Calls(src[p]) /\ src[p] \in Source
      /\ \A y \in Source \ {src[p]} : /\ Calls(y)' = Calls(y) /\ p \notin Calls(y)
                                      /\ alone'[y] = alone[y]
      /\ alone'[src[p]] = IF alone[src[p]] = p THEN NoCaller ELSE alone[src[p]]
  BY <1>1, EndedCalls
<1>3. alone'[src[p]] = NoCaller
  BY <1>2 DEF CallsInOrder
<1>4. \A x \in Source : NoCaller \notin Calls(x) /\ Calls(x) \subseteq Caller
  BY TokenConstants DEF Calls
<1>5. ~astray'[src[p]] => Calls(src[p])' = {} /\ stackVault[src[p]] = honoured'[src[p]]
  BY <1>2 DEF CallsInOrder
<1>6. PICK x \in Source : x = src[p]
  BY <1>2
<1>7. ASSUME NEW y \in Source \ {x}
      PROVE  /\ Calls(y)' = Calls(y) /\ alone'[y] = alone[y] /\ astray'[y] = astray[y]
             /\ honoured'[y] = honoured[y] /\ stackVault'[y] = stackVault[y]
             /\ \A q \in Calls(y) : tpc'[q] = tpc[q] /\ held'[q] = held[q]
  BY <1>1, <1>2, <1>4, <1>6
<1>8. /\ alone'[x] = NoCaller /\ NoCaller \notin Calls(x)'
      /\ ~astray'[x] => Calls(x)' = {} /\ stackVault'[x] = honoured'[x]
  BY <1>2, <1>3, <1>4, <1>5, <1>6
<1> QED
  BY <1>7, <1>8 DEF CallsInOrder

(* A call takes its next step: it is alone, or something has gone astray.  *)
LEMMA AloneOrAstray ==
  ASSUME TokenTypeOK, CallsInOrder, NEW p \in Caller, InCall(p)
  PROVE  /\ p \in Calls(src[p]) /\ src[p] \in Source /\ NoCaller \notin Calls(src[p])
         /\ ~astray[src[p]] => alone[src[p]] = p
         /\ alone[src[p]] # NoCaller => alone[src[p]] = p /\ Calls(src[p]) = {p}
BY TokenConstants DEF TokenTypeOK, CallsInOrder, Calls

LEMMA AdvanceKeepsOrder ==
  ASSUME TokenTypeOK, CallsInOrder, NEW p \in Caller, InCall(p), NEW x \in Source, x = src[p],
         UNCHANGED <<src, stackVault, tokenGhost>>,
         \A q \in Caller \ {p} : tpc'[q] = tpc[q] /\ held'[q] = held[q],
         \A y \in Source \ {x} : honoured'[y] = honoured[y],
         tpc'[p] \in {"generate", "store"},
         tpc'[p] = "store" => held'[p] = honoured'[x],
         ~astray[x] /\ tpc'[p] = "generate" => honoured'[x] \in {NoToken, stackVault[x]}
  PROVE  CallsInOrder'
<1>1. \A y \in Source : Calls(y)' = Calls(y)
  BY DEF Calls, InCall
<1>2. UNCHANGED <<alone, astray>>
  BY DEF tokenGhost
<1>3. ASSUME NEW y \in Source \ {x}
      PROVE  \A q \in Calls(y) : tpc'[q] = tpc[q] /\ held'[q] = held[q]
  BY DEF Calls
<1>4. ~astray[x] => alone[x] = p
  BY AloneOrAstray
<1>5. alone[x] # NoCaller => Calls(x) = {p}
  BY AloneOrAstray
<1>6. p \in Calls(x) /\ NoCaller \notin Calls(x)
  BY AloneOrAstray
<1>7. p # NoCaller
  BY TokenConstants
<1> QED
  BY <1>1, <1>2, <1>3, <1>4, <1>5, <1>6, <1>7 DEF CallsInOrder

LEMMA CallKeepsOrder ==
  ASSUME TokenTypeOK, CallsInOrder, NEW p \in Caller, RevokeNamed(p) \/ Generate(p) \/ StoreToken(p)
  PROVE  CallsInOrder'
<1>0. PICK x \in Source : x = src[p]
  BY DEF TokenTypeOK
<1>1. InCall(p) /\ p \in Calls(x) /\ src' = src
  BY <1>0 DEF RevokeNamed, Generate, StoreToken, InCall, Calls
<1>2. /\ ~astray[x] => alone[x] = p
      /\ alone[x] # NoCaller => alone[x] = p /\ Calls(x) = {p}
  BY <1>0, <1>1, AloneOrAstray
<1>3. CASE RevokeNamed(p)
  <2>1. stackVault' = stackVault /\ tpc[p] = "revoke"
    BY <1>3 DEF RevokeNamed
  <2>2. ~astray[x] => stackVault[x] = honoured[x]
    BY <1>1, <2>1 DEF CallsInOrder
  <2>3. CASE FailCall(p) /\ UNCHANGED <<honoured, astray>>
    BY <1>0, <1>1, <2>1, <2>2, <2>3, FailKeepsOrder
  <2>4. CASE TGo(p, "generate")
    <3>1. UNCHANGED <<held, tokenGhost>>
      BY <1>3, <2>4, <2>1, <1>1 DEF RevokeNamed, FailCall, TGo, TokenTypeOK
    <3>2. honoured' \in {honoured, [honoured EXCEPT ![x] = NoToken]}
      BY <1>3, <1>0, <2>4 DEF RevokeNamed
    <3>3. /\ \A q \in Caller \ {p} : tpc'[q] = tpc[q] /\ held'[q] = held[q]
          /\ tpc'[p] = "generate"
      BY <2>4, <3>1 DEF TokenTypeOK, TGo
    <3>4. /\ \A y \in Source \ {x} : honoured'[y] = honoured[y]
          /\ ~astray[x] => honoured'[x] \in {NoToken, stackVault[x]}
      BY <2>2, <3>2 DEF TokenTypeOK
    <3> QED
      BY <1>0, <1>1, <2>1, <3>1, <3>3, <3>4, AdvanceKeepsOrder
  <2> QED
    BY <1>3, <2>3, <2>4 DEF RevokeNamed
<1>4. CASE Generate(p)
  <2>1. stackVault' = stackVault /\ tpc[p] = "generate"
    BY <1>4 DEF Generate
  <2>2. ~astray[x] => honoured[x] \in {NoToken, stackVault[x]}
    BY <1>1, <2>1 DEF CallsInOrder
  <2>3. honoured' \in {honoured, [honoured EXCEPT ![x] = issued[x] + 1]}
    BY <1>4, <1>0 DEF Generate
  <2>4. \A y \in Source \ {x} : honoured'[y] = honoured[y]
    BY <2>3 DEF TokenTypeOK
  <2>5. CASE FailCall(p) /\ Stray(x)
    <3>1. /\ \A y \in Source \ {x} : astray'[y] = astray[y]
          /\ astray'[x] = (astray[x] \/ honoured'[x] # stackVault[x])
      BY <2>5 DEF Stray, TokenTypeOK
    <3> QED
      BY <1>0, <1>1, <2>1, <2>4, <2>5, <3>1, FailKeepsOrder
  <2>6. CASE honoured[x] # NoToken /\ FailCall(p) /\ UNCHANGED <<honoured, astray>>
    BY <1>0, <1>1, <2>1, <2>2, <2>6, FailKeepsOrder
  <2>7. CASE /\ honoured' = [honoured EXCEPT ![x] = issued[x] + 1]
             /\ TakeOutput(p) /\ UNCHANGED tokenGhost
    <3>1. /\ tpc'[p] = "store" /\ held'[p] = issued[x] + 1
          /\ \A q \in Caller \ {p} : tpc'[q] = tpc[q] /\ held'[q] = held[q]
      BY <1>0, <2>7 DEF TakeOutput, TGo, Hold, TokenTypeOK
    <3>2. honoured'[x] = issued[x] + 1
      BY <2>7 DEF TokenTypeOK
    <3> QED
      BY <1>0, <1>1, <2>1, <2>4, <2>7, <3>1, <3>2, AdvanceKeepsOrder
  <2> QED
    BY <1>0, <1>4, <2>5, <2>6, <2>7 DEF Generate
<1>5. CASE StoreToken(p)
  <2>1. honoured' = honoured /\ tpc[p] = "store"
    BY <1>5 DEF StoreToken
  <2>2. CASE /\ FailCall(p) /\ UNCHANGED stackVault /\ astray' = [astray EXCEPT ![x] = TRUE]
    BY <1>0, <1>1, <2>1, <2>2, FailKeepsOrder DEF TokenTypeOK
  <2>3. CASE /\ StoreInStack(p) /\ EndAlone(p) /\ UNCHANGED <<held, forced>>
             /\ astray' = [astray EXCEPT ![x] = @ /\ alone[x] # p]
             /\ TGo(p, IF p \in Rotator THEN "put" ELSE "ping")
    <3>1. /\ ~InCall(p)' /\ \A q \in Caller \ {p} : tpc'[q] = tpc[q]
      BY <2>3 DEF TokenTypeOK, InCall, TGo
    <3>2. /\ Calls(x)' = Calls(x) \ {p}
          /\ \A y \in Source \ {x} : /\ Calls(y)' = Calls(y) /\ p \notin Calls(y)
                                     /\ alone'[y] = alone[y]
          /\ alone'[x] = IF alone[x] = p THEN NoCaller ELSE alone[x]
      BY <1>0, <1>1, <2>3, <3>1, EndedCalls
    <3>3. alone'[x] = NoCaller
      BY <1>2, <3>2
    <3>4. \A y \in Source : NoCaller \notin Calls(y) /\ Calls(y) \subseteq Caller
      BY TokenConstants DEF Calls
    <3>5. /\ \A y \in Source \ {x} : astray'[y] = astray[y] /\ stackVault'[y] = stackVault[y]
          /\ astray'[x] = (astray[x] /\ alone[x] # p) /\ stackVault'[x] = held[p]
      BY <1>0, <2>3 DEF TokenTypeOK, StoreInStack
    <3>6. p # NoCaller
      BY TokenConstants
    <3>7. ~astray'[x] => Calls(x)' = {} /\ stackVault'[x] = honoured[x]
      BY <1>1, <1>2, <2>1, <3>2, <3>5, <3>6 DEF CallsInOrder
    <3>8. ASSUME NEW y \in Source \ {x}
          PROVE  \A q \in Calls(y) : tpc'[q] = tpc[q] /\ held'[q] = held[q]
      BY <2>3, <3>1, <3>2, <3>4
    <3> QED
      BY <2>1, <3>2, <3>3, <3>4, <3>5, <3>7, <3>8 DEF CallsInOrder
  <2> QED
    BY <1>0, <1>5, <2>2, <2>3 DEF StoreToken
<1> QED
  BY <1>3, <1>4, <1>5

LEMMA RestartKeepsOrder ==
  ASSUME TokenTypeOK, CallsInOrder, NEW p \in Caller, RestartCaller(p)
  PROVE  CallsInOrder'
<1>0. PICK x \in Source : x = src[p]
  BY DEF TokenTypeOK
<1>1. /\ ~InCall(p)' /\ src' = src /\ UNCHANGED <<stackVault, honoured>>
      /\ \A q \in Caller \ {p} : tpc'[q] = tpc[q] /\ held'[q] = held[q]
      /\ EndAlone(p)
  BY DEF RestartCaller, TokenTypeOK, InCall, TGo, Hold, sourceVars
<1>2. /\ \A y \in Source \ {x} : astray'[y] = astray[y]
      /\ astray'[x] = (astray[x] \/ (InCall(p) /\ honoured[x] # stackVault[x]))
  BY <1>0 DEF RestartCaller, TokenTypeOK
<1>3. \A y \in Source : NoCaller \notin Calls(y) /\ Calls(y) \subseteq Caller
  BY TokenConstants DEF Calls
<1>4. CASE InCall(p)
  <2>1. /\ Calls(x)' = Calls(x) \ {p}
        /\ \A y \in Source \ {x} : /\ Calls(y)' = Calls(y) /\ p \notin Calls(y)
                                   /\ alone'[y] = alone[y]
        /\ alone'[x] = IF alone[x] = p THEN NoCaller ELSE alone[x]
    BY <1>0, <1>1, <1>4, EndedCalls
  <2>2. /\ ~astray[x] => alone[x] = p
        /\ alone[x] # NoCaller => alone[x] = p /\ Calls(x) = {p}
    BY <1>0, <1>4, AloneOrAstray
  <2>3. alone'[x] = NoCaller
    BY <2>1, <2>2
  <2>4. p # NoCaller
    BY TokenConstants
  <2>5. ~astray'[x] => Calls(x)' = {} /\ stackVault'[x] = honoured'[x]
    BY <1>1, <1>2, <1>4, <2>1, <2>2, <2>4
  <2>6. ASSUME NEW y \in Source \ {x}
        PROVE  \A q \in Calls(y) : tpc'[q] = tpc[q] /\ held'[q] = held[q]
    BY <1>1, <1>3, <2>1
  <2> QED
    BY <1>1, <1>2, <1>3, <2>1, <2>3, <2>5, <2>6 DEF CallsInOrder
<1>5. CASE ~InCall(p)
  <2>1. \A y \in Source : Calls(y)' = Calls(y) /\ p \notin Calls(y)
    BY <1>1, <1>5 DEF Calls, InCall
  <2>2. /\ \A y \in Source \ {x} : alone'[y] = alone[y]
        /\ alone'[x] = IF alone[x] = p THEN NoCaller ELSE alone[x]
    BY <1>0, <1>1 DEF EndAlone, TokenTypeOK
  <2>3. alone[x] = p => Calls(x) = {}
    <3>1. p # NoCaller
      BY TokenConstants
    <3>2. alone[x] = p => \A q \in Calls(x) : q = p
      BY <3>1 DEF CallsInOrder
    <3> QED
      BY <2>1, <3>2
  <2>4. \A y \in Source : astray'[y] <=> astray[y]
    BY <1>2, <1>5
  <2>5. \A y \in Source : \A q \in Calls(y) : tpc'[q] = tpc[q] /\ held'[q] = held[q]
    BY <1>1, <1>3, <2>1
  <2> QED
    BY <1>1, <2>1, <2>2, <2>3, <2>4, <2>5 DEF CallsInOrder
<1> QED
  BY <1>4, <1>5

LEMMA TokenStepOrder ==
  ASSUME TokenTypeOK, CallsInOrder, [TokenNext]_tokenVars
  PROVE  CallsInOrder'
<1>1. ASSUME NEW p \in Caller, TakeSource(p)
      PROVE  CallsInOrder'
  <2>1. PICK x \in Source :
          /\ tpc[p] = "next" /\ UNCHANGED <<stackVault, honoured>>
          /\ \/ UNCHANGED <<tpc, src, held, tokenGhost>>
             \/ RotateOne(p, x)
    BY <1>1 DEF TakeSource
  <2>2. CASE BeginCall(p, x) /\ UNCHANGED held
    BY <2>1, <2>2, BeginKeepsOrder DEF InCall
  <2>3. CASE UNCHANGED <<tpc, src, held, tokenGhost>>
    BY <2>1, <2>3, QuietKeepsOrder DEF InCall
  <2>4. CASE \E next \in {"failed", "put"} : /\ TGo(p, next) /\ src' = [src EXCEPT ![p] = x]
                                             /\ held' \in {held, [held EXCEPT ![p] = Random]}
                                             /\ UNCHANGED tokenGhost
    <3>1. \A q \in Caller : /\ InCall(q)' <=> InCall(q)
                            /\ InCall(q) => /\ tpc'[q] = tpc[q] /\ src'[q] = src[q]
                                            /\ held'[q] = held[q]
      BY <2>1, <2>4 DEF InCall, TGo, TokenTypeOK
    <3> QED
      BY <2>1, <2>4, <3>1, QuietKeepsOrder
  <2> QED
    BY <2>1, <2>2, <2>3, <2>4 DEF RotateOne, Hold
<1>2. ASSUME NEW p \in Caller, CreatePipeline(p)
      PROVE  CallsInOrder'
  <2>1. PICK x \in Source :
          /\ tpc[p] = "idle" /\ UNCHANGED <<stackVault, honoured>>
          /\ \/ /\ TGo(p, "ping") /\ Hold(p, stackVault[x])
                /\ src' = [src EXCEPT ![p] = x] /\ UNCHANGED tokenGhost
             \/ BeginCall(p, x) /\ UNCHANGED held
    BY <1>2 DEF CreatePipeline, sourceVars
  <2>2. CASE BeginCall(p, x) /\ UNCHANGED held
    BY <2>1, <2>2, BeginKeepsOrder DEF InCall
  <2>3. CASE /\ TGo(p, "ping") /\ Hold(p, stackVault[x])
             /\ src' = [src EXCEPT ![p] = x] /\ UNCHANGED tokenGhost
    <3>1. \A q \in Caller : /\ InCall(q)' <=> InCall(q)
                            /\ InCall(q) => /\ tpc'[q] = tpc[q] /\ src'[q] = src[q]
                                            /\ held'[q] = held[q]
      BY <2>1, <2>3 DEF InCall, TGo, Hold, TokenTypeOK
    <3> QED
      BY <2>1, <2>3, <3>1, QuietKeepsOrder
  <2> QED
    BY <2>1, <2>2, <2>3
<1>3. ASSUME NEW p \in Caller, Ping(p)
      PROVE  CallsInOrder'
  <2>1. /\ tpc[p] = "ping" /\ UNCHANGED <<stackVault, honoured>> /\ Hold(p, NoToken)
        /\ BeginCall(p, src[p]) \/ (TGo(p, "idle") /\ UNCHANGED <<src, tokenGhost>>)
    BY <1>3 DEF Ping, sourceVars
  <2>2. \A q \in Caller \ {p} : held'[q] = held[q]
    BY <2>1 DEF Hold, TokenTypeOK
  <2>3. CASE BeginCall(p, src[p])
    BY <2>1, <2>2, <2>3, BeginKeepsOrder DEF InCall, TokenTypeOK
  <2>4. CASE TGo(p, "idle") /\ UNCHANGED <<src, tokenGhost>>
    <3>1. \A q \in Caller : /\ InCall(q)' <=> InCall(q)
                            /\ InCall(q) => /\ tpc'[q] = tpc[q] /\ src'[q] = src[q]
                                            /\ held'[q] = held[q]
      BY <2>1, <2>2, <2>4 DEF InCall, TGo, TokenTypeOK
    <3> QED
      BY <2>1, <2>4, <3>1, QuietKeepsOrder
  <2> QED
    BY <2>1, <2>3, <2>4
<1>4. ASSUME NEW p \in Caller,
             ListDue(p) \/ EndRound(p) \/ PutToken(p) \/ RecordRotation(p) \/ RecordEvent(p)
             \/ FailRotation(p)
      PROVE  CallsInOrder'
  <2>1. /\ UNCHANGED <<stackVault, honoured, tokenGhost, src>>
        /\ tpc[p] \in {"idle", "next", "put", "record", "event", "failed"}
        /\ \E next \in {"idle", "next", "record", "event", "failed"} : TGo(p, next)
        /\ held' \in {held, [held EXCEPT ![p] = NoToken]}
    BY <1>4 DEF ListDue, EndRound, PutToken, RecordRotation, RecordEvent, FailRotation, Hold,
                sourceVars
  <2>2. \A q \in Caller : /\ InCall(q)' <=> InCall(q)
                          /\ InCall(q) => /\ tpc'[q] = tpc[q] /\ src'[q] = src[q]
                                          /\ held'[q] = held[q]
    BY <2>1 DEF InCall, TGo, TokenTypeOK
  <2> QED
    BY <2>1, <2>2, QuietKeepsOrder
<1>5. ASSUME NEW x \in Source, CheckComes(x) \/ Outdates(x) \/ ApplyAction(x)
      PROVE  CallsInOrder'
  BY <1>5, QuietKeepsOrder DEF CheckComes, Outdates, ApplyAction, callVars, InCall
<1>6. CASE UNCHANGED tokenVars
  BY <1>6, QuietKeepsOrder DEF tokenVars, sourceVars, callVars, InCall
<1> QED
  BY <1>1, <1>2, <1>3, <1>4, <1>5, <1>6, CallKeepsOrder, RestartKeepsOrder
  DEF TokenNext, CallerStep

LEMMA TokenStepInv == TokenInv /\ [TokenNext]_tokenVars => TokenInv'
BY TokenStepTypes, TokenStepPings, TokenStepOrder DEF TokenInv

-----------------------------------------------------------------------------
(* Every variable holds a value of its type, for any sources and processes. *)
THEOREM TokenTypeCorrect == TokenSpec => []TokenTypeOK
<1>1. TokenInv => TokenTypeOK
  BY DEF TokenInv
<1> QED
  BY TokenInitInv, TokenStepInv, <1>1, PTL DEF TokenSpec

(* However many rotations, requests and restarts overlap, the token the    *)
(* vault holds for a source of a stack's Gitea is the one Gitea honours,   *)
(* or the process that alone renews it is about to store it, until calls   *)
(* on one token overlap or one ends between Gitea and the vault            *)
(* (token_issuer.go, gitea_reissuer.go, token_rotation.go).                *)
THEOREM TokenStaysKept == TokenSpec => []TokenKept
<1>1. TokenInv => TokenKept
  <2> SUFFICES ASSUME TokenInv, NEW x \in Source, stackVault[x] # honoured[x], ~astray[x]
               PROVE  \E p \in Calls(x) : tpc[p] \in {"generate", "store"}
    BY DEF TokenKept
  <2>1. PICK p \in Calls(x) : tpc[p] # "revoke"
    BY DEF TokenInv, CallsInOrder
  <2> QED
    BY <2>1 DEF Calls, InCall
<1> QED
  BY TokenInitInv, TokenStepInv, <1>1, PTL DEF TokenSpec

-----------------------------------------------------------------------------
(* Image scans                                                             *)

(* The inductive invariant of the theorems below: a notice that a process  *)
(* has made is on record and its own, and one whose CVE has been told is   *)
(* on record and no longer anybody's.                                      *)

ClaimsOwned ==
    \A p \in Scanner :
        /\ claimed[p] \subseteq notices
        /\ claimed[p] # {} => scpc[p] \in {"tell", "release"}
        /\ \A q \in Scanner \ {p} : claimed[p] \cap claimed[q] = {}

ToldClosed ==
    \A v \in Cve :
        \/ toldOf[v] = 0 \/ v \in cut
        \/ v \in notices /\ \A p \in Scanner : v \notin claimed[p]

ScansInv == ScansTypeOK /\ ClaimsOwned /\ ToldClosed /\ ToldOnce /\ RecordedIsTold

LEMMA ScansInitInv == ScansInit => ScansInv
BY ScanBoundAssumption
   DEF ScansInit, ScansInv, ScansTypeOK, ClaimsOwned, ToldClosed, ToldOnce, RecordedIsTold

LEMMA ImagesChangeInv ==
  ASSUME ScansInv, ImagesChange
  PROVE  ScansInv'
<1> USE DEF ImagesChange, storeVars, scanVars, toldVars
<1>1. ScansTypeOK'
  BY ScanBoundAssumption DEF ScansInv, ScansTypeOK
<1>2. ClaimsOwned'
  BY DEF ScansInv, ScansTypeOK, ClaimsOwned
<1>3. ToldClosed'
  BY DEF ScansInv, ScansTypeOK, ClaimsOwned, ToldClosed
<1>4. ToldOnce'
  BY DEF ScansInv, ScansTypeOK, ClaimsOwned, ToldClosed, ToldOnce
<1>5. RecordedIsTold'
  BY DEF ScansInv, ScansTypeOK, ClaimsOwned, RecordedIsTold
<1> QED
  BY <1>1, <1>2, <1>3, <1>4, <1>5 DEF ScansInv

LEMMA ScanImagesInv ==
  ASSUME ScansInv, NEW p \in Scanner, ScanImages(p)
  PROVE  ScansInv'
<1> USE DEF ScanImages, SGo, storeVars, toldVars
<1>1. ScansTypeOK'
  BY ScanBoundAssumption DEF ScansInv, ScansTypeOK
<1>2. ClaimsOwned'
  BY DEF ScansInv, ScansTypeOK, ClaimsOwned
<1>3. ToldClosed'
  BY DEF ScansInv, ScansTypeOK, ClaimsOwned, ToldClosed
<1>4. ToldOnce'
  BY DEF ScansInv, ScansTypeOK, ClaimsOwned, ToldClosed, ToldOnce
<1>5. RecordedIsTold'
  BY DEF ScansInv, ScansTypeOK, ClaimsOwned, RecordedIsTold
<1> QED
  BY <1>1, <1>2, <1>3, <1>4, <1>5 DEF ScansInv

LEMMA ReplaceResultsInv ==
  ASSUME ScansInv, NEW p \in Scanner, ReplaceResults(p)
  PROVE  ScansInv'
<1> USE DEF ReplaceResults, SGo, Drop, ScanFault, ScanNoFault, toldVars
<1>1. ScansTypeOK'
  BY ScanBoundAssumption DEF ScansInv, ScansTypeOK
<1>2. ClaimsOwned'
  BY DEF ScansInv, ScansTypeOK, ClaimsOwned
<1>3. ToldClosed'
  BY DEF ScansInv, ScansTypeOK, ClaimsOwned, ToldClosed
<1>4. ToldOnce'
  BY DEF ScansInv, ScansTypeOK, ClaimsOwned, ToldClosed, ToldOnce
<1>5. RecordedIsTold'
  BY DEF ScansInv, ScansTypeOK, ClaimsOwned, RecordedIsTold
<1> QED
  BY <1>1, <1>2, <1>3, <1>4, <1>5 DEF ScansInv

LEMMA ReadNoticesInv ==
  ASSUME ScansInv, NEW p \in Scanner, ReadNotices(p)
  PROVE  ScansInv'
<1> USE DEF ReadNotices, SGo, Drop, ScanFault, ScanNoFault, storeVars, toldVars
<1>1. ScansTypeOK'
  BY ScanBoundAssumption DEF ScansInv, ScansTypeOK
<1>2. ClaimsOwned'
  BY DEF ScansInv, ScansTypeOK, ClaimsOwned
<1>3. ToldClosed'
  BY DEF ScansInv, ScansTypeOK, ClaimsOwned, ToldClosed
<1>4. ToldOnce'
  BY DEF ScansInv, ScansTypeOK, ClaimsOwned, ToldClosed, ToldOnce
<1>5. RecordedIsTold'
  BY DEF ScansInv, ScansTypeOK, ClaimsOwned, RecordedIsTold
<1> QED
  BY <1>1, <1>2, <1>3, <1>4, <1>5 DEF ScansInv

LEMMA ClaimNoticesInv ==
  ASSUME ScansInv, NEW p \in Scanner, ClaimNotices(p)
  PROVE  ScansInv'
<1> USE DEF ClaimNotices, Claimable, SGo, Drop, ScanFault, ScanNoFault, toldVars
<1>1. ScansTypeOK'
  BY ScanBoundAssumption DEF ScansInv, ScansTypeOK
<1>2. ClaimsOwned'
  BY DEF ScansInv, ScansTypeOK, ClaimsOwned
<1>3. ToldClosed'
  BY DEF ScansInv, ScansTypeOK, ClaimsOwned, ToldClosed
<1>4. ToldOnce'
  BY DEF ScansInv, ScansTypeOK, ClaimsOwned, ToldClosed, ToldOnce
<1>5. RecordedIsTold'
  BY DEF ScansInv, ScansTypeOK, ClaimsOwned, RecordedIsTold
<1> QED
  BY <1>1, <1>2, <1>3, <1>4, <1>5 DEF ScansInv

LEMMA TellNoticesInv ==
  ASSUME ScansInv, NEW p \in Scanner, TellNotices(p)
  PROVE  ScansInv'
<1> USE DEF TellNotices, Told, Cancelled, SGo, Drop, ScanFault, ScanNoFault, storeVars
<1>1. ScansTypeOK'
  BY ScanBoundAssumption DEF ScansInv, ScansTypeOK
<1>2. ClaimsOwned'
  BY DEF ScansInv, ScansTypeOK, ClaimsOwned
<1>3. ToldClosed'
  BY DEF ScansInv, ScansTypeOK, ClaimsOwned, ToldClosed
<1>4. ToldOnce'
  BY DEF ScansInv, ScansTypeOK, ClaimsOwned, ToldClosed, ToldOnce
<1>5. RecordedIsTold'
  BY DEF ScansInv, ScansTypeOK, ClaimsOwned, RecordedIsTold
<1> QED
  BY <1>1, <1>2, <1>3, <1>4, <1>5 DEF ScansInv

LEMMA ReleaseNoticesInv ==
  ASSUME ScansInv, NEW p \in Scanner, ReleaseNotices(p)
  PROVE  ScansInv'
<1> USE DEF ReleaseNotices, SGo, Drop, ScanFault, ScanNoFault
<1>1. ScansTypeOK'
  BY ScanBoundAssumption DEF ScansInv, ScansTypeOK
<1>2. ClaimsOwned'
  BY DEF ScansInv, ScansTypeOK, ClaimsOwned
<1>3. ToldClosed'
  BY DEF ScansInv, ScansTypeOK, ClaimsOwned, ToldClosed
<1>4. ToldOnce'
  BY DEF ScansInv, ScansTypeOK, ClaimsOwned, ToldClosed, ToldOnce
<1>5. RecordedIsTold'
  BY DEF ScansInv, ScansTypeOK, ClaimsOwned, RecordedIsTold
<1> QED
  BY <1>1, <1>2, <1>3, <1>4, <1>5 DEF ScansInv

LEMMA CrashScannerInv ==
  ASSUME ScansInv, NEW p \in Scanner, CrashScanner(p)
  PROVE  ScansInv'
<1> USE DEF CrashScanner, SGo, Drop, ScanFault, storeVars
<1>1. ScansTypeOK'
  BY ScanBoundAssumption DEF ScansInv, ScansTypeOK
<1>2. ClaimsOwned'
  BY DEF ScansInv, ScansTypeOK, ClaimsOwned
<1>3. ToldClosed'
  BY DEF ScansInv, ScansTypeOK, ClaimsOwned, ToldClosed
<1>4. ToldOnce'
  BY DEF ScansInv, ScansTypeOK, ClaimsOwned, ToldClosed, ToldOnce
<1>5. RecordedIsTold'
  BY DEF ScansInv, ScansTypeOK, ClaimsOwned, RecordedIsTold
<1> QED
  BY <1>1, <1>2, <1>3, <1>4, <1>5 DEF ScansInv

LEMMA ScansStepInv == ScansInv /\ [ScansNext]_imageVars => ScansInv'
<1> SUFFICES ASSUME ScansInv, [ScansNext]_imageVars PROVE ScansInv'
  OBVIOUS
<1>1. CASE ImagesChange
  BY <1>1, ImagesChangeInv
<1>2. ASSUME NEW p \in Scanner, ScannerStep(p) PROVE ScansInv'
  BY <1>2, ScanImagesInv, ReplaceResultsInv, ReadNoticesInv, ClaimNoticesInv, TellNoticesInv, ReleaseNoticesInv, CrashScannerInv DEF ScannerStep
<1>3. CASE UNCHANGED imageVars
  BY <1>3 DEF ScansInv, ScansTypeOK, ClaimsOwned, ToldClosed, ToldOnce, RecordedIsTold,
              imageVars, storeVars, scanVars, toldVars
<1> QED
  BY <1>1, <1>2, <1>3 DEF ScansNext

-----------------------------------------------------------------------------
(* Every variable holds a value of its type, for any processes and CVEs.   *)
THEOREM ScansTypeCorrect == ScansSpec => []ScansTypeOK
<1>1. ScansInv => ScansTypeOK
  BY DEF ScansInv
<1> QED
  BY ScansInitInv, ScansStepInv, <1>1, PTL DEF ScansSpec

(* However many processes scan the same images, ClaimCVENotices lets one   *)
(* of them tell each CVE, unless a shutdown took its notice back.          *)
THEOREM ScansToldOnce == ScansSpec => []ToldOnce
<1>1. ScansInv => ToldOnce
  BY DEF ScansInv
<1> QED
  BY ScansInitInv, ScansStepInv, <1>1, PTL DEF ScansSpec

(* What stack_cve_notices records has been told, or is about to be, unless *)
(* no channel subscribed when it was sent, or a channel or process failed. *)
THEOREM ScansRecordedIsTold == ScansSpec => []RecordedIsTold
<1>1. ScansInv => RecordedIsTold
  BY DEF ScansInv
<1> QED
  BY ScansInitInv, ScansStepInv, <1>1, PTL DEF ScansSpec

-----------------------------------------------------------------------------
(* Pipelines                                                               *)

(* The inductive invariant of the theorems below.                          *)

(* What a deletion has removed is written down only while nobody creates   *)
(* or refreshes.  As long as that is so nobody makes the job again, and    *)
(* without the job no build begins; only the two together keep the images  *)
(* away, and it goes first.                                                *)
RemovedInQuiet ==
    /\ \A d \in Pipe : erased[d] # {} => \A p \in Pipe : step[p] = "idle"
    /\ \A d \in Pipe : "job" \in erased[d] => separate /\ ~job /\ ~building
    /\ \A d \in Pipe : erasing[d] = "job" => erased[d] = {}
    /\ DeletedStaysDeleted

(* A creation is not recorded yet, a deletion has its record still; and    *)
(* when credentials are being revoked, whoever was recorded at the look is *)
(* gone for good.                                                          *)
RevokedAlone ==
    /\ \A p \in Pipe : step[p] # "idle" /\ ~refresh[p] => pipe[p] = "none"
    /\ \A d \in Pipe : erasing[d] # "idle" => pipe[d] = "present"
    /\ \A d \in Pipe : erasing[d] \in {"object", "revoke"} =>
           \A p \in recorded[d] \ {d} : pipe[p] = "gone"

(* a source is fetched only for a repository that this call made           *)
FetchesForNew ==
    \A p \in Pipe : step[p] = "fetch" => created[p] /\ sourced[p]

PipesInv == PipesTypeOK /\ RemovedInQuiet /\ RevokedAlone /\ FetchesForNew

LEMMA PipesInitInv == PipesInit => PipesInv
<1> SUFFICES ASSUME PipesInit PROVE PipesInv
  OBVIOUS
<1> USE DEF PipesInit
<1>1. separate \in BOOLEAN
  BY PipesAssumption
<1>2. PipesTypeOK
  BY <1>1 DEF PipesTypeOK, Repo, Step, Stage
<1>3. RemovedInQuiet
  BY DEF RemovedInQuiet, DeletedStaysDeleted
<1>4. RevokedAlone /\ FetchesForNew
  BY DEF RevokedAlone, FetchesForNew
<1> QED
  BY <1>2, <1>3, <1>4 DEF PipesInv

LEMMA EnsureProjectInv ==
  ASSUME PipesInv, NEW p \in Pipe, EnsureProject(p)
  PROVE  PipesInv'
<1> USE DEF EnsureProject, Goes, Erasures, eraseVars
<1>1. PipesTypeOK'
  BY PipesAssumption DEF PipesInv, PipesTypeOK, Repo, Step, Stage, Asset
<1>2. RemovedInQuiet'
  BY DEF PipesInv, PipesTypeOK, RemovedInQuiet, DeletedStaysDeleted
<1>3. RevokedAlone'
  BY DEF PipesInv, PipesTypeOK, RevokedAlone
<1>4. FetchesForNew'
  BY DEF PipesInv, PipesTypeOK, FetchesForNew
<1> QED
  BY <1>1, <1>2, <1>3, <1>4 DEF PipesInv

LEMMA FetchSourceInv ==
  ASSUME PipesInv, NEW p \in Pipe, FetchSource(p)
  PROVE  PipesInv'
<1> USE DEF FetchSource, Goes, Ends, RollbackNewProject, DropRepo, NoFault, Fault,
            KeepsErasures, Erasures, eraseVars
<1>1. PipesTypeOK'
  <2>1. step' \in [Pipe -> Step]
    BY DEF PipesInv, PipesTypeOK, Step
  <2>2. repo' \in Repo /\ building' \in BOOLEAN
    BY DEF PipesInv, PipesTypeOK, Repo
  <2>3. refresh' \in [Pipe -> BOOLEAN] /\ created' \in [Pipe -> BOOLEAN]
    BY DEF PipesInv, PipesTypeOK
  <2>4. prepared' \in [Pipe -> BOOLEAN]
    BY DEF PipesInv, PipesTypeOK
  <2>5. pipeFaults' \in Nat
    BY DEF PipesInv, PipesTypeOK
  <2> QED
    BY <2>1, <2>2, <2>3, <2>4, <2>5 DEF PipesInv, PipesTypeOK
<1>2. RemovedInQuiet'
  BY DEF PipesInv, PipesTypeOK, RemovedInQuiet, DeletedStaysDeleted
<1>3. RevokedAlone'
  BY DEF PipesInv, PipesTypeOK, RevokedAlone
<1>4. FetchesForNew'
  BY DEF PipesInv, PipesTypeOK, FetchesForNew
<1> QED
  BY <1>1, <1>2, <1>3, <1>4 DEF PipesInv

LEMMA CommitFilesInv ==
  ASSUME PipesInv, NEW p \in Pipe, CommitFiles(p)
  PROVE  PipesInv'
<1> USE DEF CommitFiles, Goes, Ends, AfterCommit, AfterTools, RollbackNewProject,
            DropRepo, NoFault, Fault, KeepsErasures, Erasures, eraseVars
<1>1. PipesTypeOK'
  <2>1. step' \in [Pipe -> Step]
    BY DEF PipesInv, PipesTypeOK, Step
  <2>2. repo' \in Repo /\ building' \in BOOLEAN
    BY DEF PipesInv, PipesTypeOK, Repo
  <2>3. refresh' \in [Pipe -> BOOLEAN] /\ created' \in [Pipe -> BOOLEAN]
    BY DEF PipesInv, PipesTypeOK
  <2>4. prepared' \in [Pipe -> BOOLEAN]
    BY DEF PipesInv, PipesTypeOK
  <2>5. pipeFaults' \in Nat
    BY DEF PipesInv, PipesTypeOK
  <2> QED
    BY <2>1, <2>2, <2>3, <2>4, <2>5 DEF PipesInv, PipesTypeOK
<1>2. RemovedInQuiet'
  BY DEF PipesInv, PipesTypeOK, RemovedInQuiet, DeletedStaysDeleted
<1>3. RevokedAlone'
  BY DEF PipesInv, PipesTypeOK, RevokedAlone
<1>4. FetchesForNew'
  BY DEF PipesInv, PipesTypeOK, FetchesForNew
<1> QED
  BY <1>1, <1>2, <1>3, <1>4 DEF PipesInv

LEMMA ConfigurePipelineInv ==
  ASSUME PipesInv, NEW p \in Pipe, ConfigurePipeline(p)
  PROVE  PipesInv'
<1> USE DEF ConfigurePipeline, Goes, NoFault, Fault, KeepsErasures, Erasures, eraseVars
<1>1. PipesTypeOK'
  <2>1. step' \in [Pipe -> Step]
    BY DEF PipesInv, PipesTypeOK, Step
  <2>2. secret' \in BOOLEAN
    BY DEF PipesInv, PipesTypeOK
  <2>3. prepared' \in [Pipe -> BOOLEAN]
    BY DEF PipesInv, PipesTypeOK
  <2>4. pipeFaults' \in Nat
    <3>1. pipeFaults' = pipeFaults \/ pipeFaults' = pipeFaults + 1
      BY Zenon
    <3> QED
      BY <3>1 DEF PipesInv, PipesTypeOK
  <2> QED
    BY <2>1, <2>2, <2>3, <2>4 DEF PipesInv, PipesTypeOK
<1>2. RemovedInQuiet'
  BY DEF PipesInv, PipesTypeOK, RemovedInQuiet, DeletedStaysDeleted
<1>3. RevokedAlone'
  BY DEF PipesInv, PipesTypeOK, RevokedAlone
<1>4. FetchesForNew'
  BY DEF PipesInv, PipesTypeOK, FetchesForNew
<1> QED
  BY <1>1, <1>2, <1>3, <1>4 DEF PipesInv

LEMMA EnsureCIJobInv ==
  ASSUME PipesInv, NEW p \in Pipe, EnsureCIJob(p)
  PROVE  PipesInv'
<1> USE DEF EnsureCIJob, Goes, AfterTools, NoFault, Fault, KeepsErasures, Erasures,
            eraseVars
<1>1. PipesTypeOK'
  <2>1. step' \in [Pipe -> Step]
    BY DEF PipesInv, PipesTypeOK, Step
  <2>2. job' \in BOOLEAN
    BY DEF PipesInv, PipesTypeOK
  <2>3. pipeFaults' \in Nat
    BY DEF PipesInv, PipesTypeOK
  <2> QED
    BY <2>1, <2>2, <2>3 DEF PipesInv, PipesTypeOK
<1>2. RemovedInQuiet'
  BY DEF PipesInv, PipesTypeOK, RemovedInQuiet, DeletedStaysDeleted
<1>3. RevokedAlone'
  BY DEF PipesInv, PipesTypeOK, RevokedAlone
<1>4. FetchesForNew'
  BY DEF PipesInv, PipesTypeOK, FetchesForNew
<1> QED
  BY <1>1, <1>2, <1>3, <1>4 DEF PipesInv

LEMMA ApplyArgoApplicationInv ==
  ASSUME PipesInv, NEW p \in Pipe, ApplyArgoApplication(p)
  PROVE  PipesInv'
<1> USE DEF ApplyArgoApplication, Goes, NoFault, Fault, KeepsErasures, Erasures,
            eraseVars
<1>1. PipesTypeOK'
  <2>1. step' \in [Pipe -> Step]
    BY DEF PipesInv, PipesTypeOK, Step
  <2>2. object' \in BOOLEAN
    BY DEF PipesInv, PipesTypeOK
  <2>3. deployed' \in BOOLEAN
    BY DEF PipesInv, PipesTypeOK
  <2>4. pipeFaults' \in Nat
    BY DEF PipesInv, PipesTypeOK
  <2> QED
    BY <2>1, <2>2, <2>3, <2>4 DEF PipesInv, PipesTypeOK
<1>2. RemovedInQuiet'
  BY DEF PipesInv, PipesTypeOK, RemovedInQuiet, DeletedStaysDeleted
<1>3. RevokedAlone'
  BY DEF PipesInv, PipesTypeOK, RevokedAlone
<1>4. FetchesForNew'
  BY DEF PipesInv, PipesTypeOK, FetchesForNew
<1> QED
  BY <1>1, <1>2, <1>3, <1>4 DEF PipesInv

LEMMA RecordPipelineInv ==
  ASSUME PipesInv, NEW p \in Pipe, RecordPipeline(p)
  PROVE  PipesInv'
<1> USE DEF RecordPipeline, Goes, Ends, KeepsErasures, Erasures, eraseVars, toolVars
<1>1. PipesTypeOK'
  BY PipesAssumption DEF PipesInv, PipesTypeOK, Repo, Step, Stage, Asset
<1>2. RemovedInQuiet'
  BY DEF PipesInv, PipesTypeOK, RemovedInQuiet, DeletedStaysDeleted
<1>3. RevokedAlone'
  BY DEF PipesInv, PipesTypeOK, RevokedAlone
<1>4. FetchesForNew'
  BY DEF PipesInv, PipesTypeOK, FetchesForNew
<1> QED
  BY <1>1, <1>2, <1>3, <1>4 DEF PipesInv

LEMMA AbandonCreateInv ==
  ASSUME PipesInv, NEW p \in Pipe, AbandonCreate(p)
  PROVE  PipesInv'
<1> USE DEF AbandonCreate, Goes, Ends, Fault, KeepsErasures, Erasures, eraseVars,
            toolVars
<1>1. PipesTypeOK'
  BY PipesAssumption DEF PipesInv, PipesTypeOK, Repo, Step, Stage, Asset
<1>2. RemovedInQuiet'
  BY DEF PipesInv, PipesTypeOK, RemovedInQuiet, DeletedStaysDeleted
<1>3. RevokedAlone'
  BY DEF PipesInv, PipesTypeOK, RevokedAlone
<1>4. FetchesForNew'
  BY DEF PipesInv, PipesTypeOK, FetchesForNew
<1> QED
  BY <1>1, <1>2, <1>3, <1>4 DEF PipesInv

LEMMA BeginEraseInv ==
  ASSUME PipesInv, NEW d \in Pipe, BeginErase(d)
  PROVE  PipesInv'
<1> USE DEF BeginErase, Moves, Following, NoFault, Fault, KeepsCreations, createVars,
            toolVars
<1>1. PipesTypeOK'
  BY PipesAssumption DEF PipesInv, PipesTypeOK, Repo, Step, Stage, Asset
<1>2. RemovedInQuiet'
  BY DEF PipesInv, PipesTypeOK, RemovedInQuiet, DeletedStaysDeleted
<1>3. RevokedAlone'
  BY DEF PipesInv, PipesTypeOK, RevokedAlone
<1>4. FetchesForNew'
  BY DEF PipesInv, PipesTypeOK, FetchesForNew
<1> QED
  BY <1>1, <1>2, <1>3, <1>4 DEF PipesInv

LEMMA DeleteCIJobInv ==
  ASSUME PipesInv, NEW d \in Pipe, DeleteCIJob(d)
  PROVE  PipesInv'
<1> USE DEF DeleteCIJob, Moves, Following, Removed, NoFault, Fault, KeepsCreations,
            createVars
<1>1. PipesTypeOK'
  <2>1. erasing' \in [Pipe -> Stage]
    BY DEF PipesInv, PipesTypeOK, Stage
  <2>2. job' \in BOOLEAN /\ building' \in BOOLEAN
    BY DEF PipesInv, PipesTypeOK
  <2>3. erased' \in [Pipe -> SUBSET {"job", "images"}]
    BY DEF PipesInv, PipesTypeOK
  <2>4. pipeFaults' \in Nat
    BY DEF PipesInv, PipesTypeOK
  <2> QED
    BY <2>1, <2>2, <2>3, <2>4 DEF PipesInv, PipesTypeOK
<1>2. RemovedInQuiet'
  BY DEF PipesInv, PipesTypeOK, RemovedInQuiet, DeletedStaysDeleted
<1>3. RevokedAlone'
  BY DEF PipesInv, PipesTypeOK, RevokedAlone
<1>4. FetchesForNew'
  BY DEF PipesInv, PipesTypeOK, FetchesForNew
<1> QED
  BY <1>1, <1>2, <1>3, <1>4 DEF PipesInv

LEMMA LookForSiblingsInv ==
  ASSUME PipesInv, NEW d \in Pipe, LookForSiblings(d)
  PROVE  PipesInv'
<1> USE DEF LookForSiblings, Moves, Following, CredentialsInUse, Siblings, NoFault,
            Fault, KeepsCreations, createVars, toolVars
<1>1. PipesTypeOK'
  BY PipesAssumption DEF PipesInv, PipesTypeOK, Repo, Step, Stage, Asset
<1>2. RemovedInQuiet'
  BY DEF PipesInv, PipesTypeOK, RemovedInQuiet, DeletedStaysDeleted
<1>3. RevokedAlone'
  BY DEF PipesInv, PipesTypeOK, RevokedAlone
<1>4. FetchesForNew'
  BY DEF PipesInv, PipesTypeOK, FetchesForNew
<1> QED
  BY <1>1, <1>2, <1>3, <1>4 DEF PipesInv

LEMMA DeleteCredentialObjectInv ==
  ASSUME PipesInv, NEW d \in Pipe, DeleteCredentialObject(d)
  PROVE  PipesInv'
<1> USE DEF DeleteCredentialObject, Moves, Following, NoFault, Fault, KeepsCreations,
            createVars
<1>1. PipesTypeOK'
  <2>1. erasing' \in [Pipe -> Stage]
    BY DEF PipesInv, PipesTypeOK, Stage
  <2>2. object' \in BOOLEAN
    BY DEF PipesInv, PipesTypeOK
  <2>3. pipeFaults' \in Nat
    BY DEF PipesInv, PipesTypeOK
  <2> QED
    BY <2>1, <2>2, <2>3 DEF PipesInv, PipesTypeOK
<1>2. RemovedInQuiet'
  BY DEF PipesInv, PipesTypeOK, RemovedInQuiet, DeletedStaysDeleted
<1>3. RevokedAlone'
  BY DEF PipesInv, PipesTypeOK, RevokedAlone
<1>4. FetchesForNew'
  BY DEF PipesInv, PipesTypeOK, FetchesForNew
<1> QED
  BY <1>1, <1>2, <1>3, <1>4 DEF PipesInv

LEMMA RevokeInv ==
  ASSUME PipesInv, NEW d \in Pipe, Revoke(d)
  PROVE  PipesInv'
<1> USE DEF Revoke, Moves, Following, NoFault, Fault, KeepsCreations, createVars
<1>1. PipesTypeOK'
  <2>1. erasing' \in [Pipe -> Stage]
    BY DEF PipesInv, PipesTypeOK, Stage
  <2>2. secret' \in BOOLEAN
    BY DEF PipesInv, PipesTypeOK
  <2>3. pipeFaults' \in Nat
    BY DEF PipesInv, PipesTypeOK
  <2> QED
    BY <2>1, <2>2, <2>3 DEF PipesInv, PipesTypeOK
<1>2. RemovedInQuiet'
  BY DEF PipesInv, PipesTypeOK, RemovedInQuiet, DeletedStaysDeleted
<1>3. RevokedAlone'
  BY DEF PipesInv, PipesTypeOK, RevokedAlone
<1>4. FetchesForNew'
  BY DEF PipesInv, PipesTypeOK, FetchesForNew
<1> QED
  BY <1>1, <1>2, <1>3, <1>4 DEF PipesInv

LEMMA DeleteClusterResourcesInv ==
  ASSUME PipesInv, NEW d \in Pipe, DeleteClusterResources(d)
  PROVE  PipesInv'
<1> USE DEF DeleteClusterResources, Moves, Following, Reaches, KeepsCreations,
            createVars
<1>1. PipesTypeOK'
  BY PipesAssumption DEF PipesInv, PipesTypeOK, Repo, Step, Stage, Asset
<1>2. RemovedInQuiet'
  BY DEF PipesInv, PipesTypeOK, RemovedInQuiet, DeletedStaysDeleted
<1>3. RevokedAlone'
  BY DEF PipesInv, PipesTypeOK, RevokedAlone
<1>4. FetchesForNew'
  BY DEF PipesInv, PipesTypeOK, FetchesForNew
<1> QED
  BY <1>1, <1>2, <1>3, <1>4 DEF PipesInv

LEMMA DeleteImagesInv ==
  ASSUME PipesInv, NEW d \in Pipe, DeleteImages(d)
  PROVE  PipesInv'
<1> USE DEF DeleteImages, Moves, Following, Reaches, Removed, KeepsCreations, createVars
<1>1. PipesTypeOK'
  <2>1. erasing' \in [Pipe -> Stage]
    BY DEF PipesInv, PipesTypeOK, Stage
  <2>2. image' \in BOOLEAN
    BY DEF PipesInv, PipesTypeOK
  <2>3. erased' \in [Pipe -> SUBSET {"job", "images"}]
    BY DEF PipesInv, PipesTypeOK
  <2> QED
    BY <2>1, <2>2, <2>3 DEF PipesInv, PipesTypeOK
<1>2. RemovedInQuiet'
  BY DEF PipesInv, PipesTypeOK, RemovedInQuiet, DeletedStaysDeleted
<1>3. RevokedAlone'
  BY DEF PipesInv, PipesTypeOK, RevokedAlone
<1>4. FetchesForNew'
  BY DEF PipesInv, PipesTypeOK, FetchesForNew
<1> QED
  BY <1>1, <1>2, <1>3, <1>4 DEF PipesInv

LEMMA DeleteRepositoryInv ==
  ASSUME PipesInv, NEW d \in Pipe, DeleteRepository(d)
  PROVE  PipesInv'
<1> USE DEF DeleteRepository, Moves, Following, Reaches, DropRepo, KeepsCreations,
            createVars
<1>1. PipesTypeOK'
  BY PipesAssumption DEF PipesInv, PipesTypeOK, Repo, Step, Stage, Asset
<1>2. RemovedInQuiet'
  BY DEF PipesInv, PipesTypeOK, RemovedInQuiet, DeletedStaysDeleted
<1>3. RevokedAlone'
  BY DEF PipesInv, PipesTypeOK, RevokedAlone
<1>4. FetchesForNew'
  BY DEF PipesInv, PipesTypeOK, FetchesForNew
<1> QED
  BY <1>1, <1>2, <1>3, <1>4 DEF PipesInv

LEMMA DeletePipelineRowInv ==
  ASSUME PipesInv, NEW d \in Pipe, DeletePipelineRow(d)
  PROVE  PipesInv'
<1> USE DEF DeletePipelineRow, Moves, Leaves, KeepsCreations, createVars, toolVars
<1>1. PipesTypeOK'
  BY PipesAssumption DEF PipesInv, PipesTypeOK, Repo, Step, Stage, Asset
<1>2. RemovedInQuiet'
  BY DEF PipesInv, PipesTypeOK, RemovedInQuiet, DeletedStaysDeleted
<1>3. RevokedAlone'
  BY DEF PipesInv, PipesTypeOK, RevokedAlone
<1>4. FetchesForNew'
  BY DEF PipesInv, PipesTypeOK, FetchesForNew
<1> QED
  BY <1>1, <1>2, <1>3, <1>4 DEF PipesInv

LEMMA AbandonEraseInv ==
  ASSUME PipesInv, NEW d \in Pipe, AbandonErase(d)
  PROVE  PipesInv'
<1> USE DEF AbandonErase, Moves, Leaves, Fault, KeepsCreations, createVars, toolVars
<1>1. PipesTypeOK'
  BY PipesAssumption DEF PipesInv, PipesTypeOK, Repo, Step, Stage, Asset
<1>2. RemovedInQuiet'
  BY DEF PipesInv, PipesTypeOK, RemovedInQuiet, DeletedStaysDeleted
<1>3. RevokedAlone'
  BY DEF PipesInv, PipesTypeOK, RevokedAlone
<1>4. FetchesForNew'
  BY DEF PipesInv, PipesTypeOK, FetchesForNew
<1> QED
  BY <1>1, <1>2, <1>3, <1>4 DEF PipesInv

LEMMA StartBuildInv ==
  ASSUME PipesInv, StartBuild
  PROVE  PipesInv'
<1> USE DEF StartBuild, KeepsRequests, createVars, eraseVars
<1>1. PipesTypeOK'
  BY PipesAssumption DEF PipesInv, PipesTypeOK, Repo, Step, Stage, Asset
<1>2. RemovedInQuiet'
  BY DEF PipesInv, PipesTypeOK, RemovedInQuiet, DeletedStaysDeleted
<1>3. RevokedAlone'
  BY DEF PipesInv, PipesTypeOK, RevokedAlone
<1>4. FetchesForNew'
  BY DEF PipesInv, PipesTypeOK, FetchesForNew
<1> QED
  BY <1>1, <1>2, <1>3, <1>4 DEF PipesInv

LEMMA PushImageInv ==
  ASSUME PipesInv, PushImage
  PROVE  PipesInv'
<1> USE DEF PushImage, KeepsRequests, createVars, eraseVars
<1>1. PipesTypeOK'
  BY PipesAssumption DEF PipesInv, PipesTypeOK, Repo, Step, Stage, Asset
<1>2. RemovedInQuiet'
  BY DEF PipesInv, PipesTypeOK, RemovedInQuiet, DeletedStaysDeleted
<1>3. RevokedAlone'
  BY DEF PipesInv, PipesTypeOK, RevokedAlone
<1>4. FetchesForNew'
  BY DEF PipesInv, PipesTypeOK, FetchesForNew
<1> QED
  BY <1>1, <1>2, <1>3, <1>4 DEF PipesInv

LEMMA EndBuildInv ==
  ASSUME PipesInv, EndBuild
  PROVE  PipesInv'
<1> USE DEF EndBuild, KeepsRequests, createVars, eraseVars
<1>1. PipesTypeOK'
  BY PipesAssumption DEF PipesInv, PipesTypeOK, Repo, Step, Stage, Asset
<1>2. RemovedInQuiet'
  BY DEF PipesInv, PipesTypeOK, RemovedInQuiet, DeletedStaysDeleted
<1>3. RevokedAlone'
  BY DEF PipesInv, PipesTypeOK, RevokedAlone
<1>4. FetchesForNew'
  BY DEF PipesInv, PipesTypeOK, FetchesForNew
<1> QED
  BY <1>1, <1>2, <1>3, <1>4 DEF PipesInv

LEMMA PushCodeInv ==
  ASSUME PipesInv, PushCode
  PROVE  PipesInv'
<1> USE DEF PushCode, KeepsRequests, createVars, eraseVars
<1>1. PipesTypeOK'
  BY PipesAssumption DEF PipesInv, PipesTypeOK, Repo, Step, Stage, Asset
<1>2. RemovedInQuiet'
  BY DEF PipesInv, PipesTypeOK, RemovedInQuiet, DeletedStaysDeleted
<1>3. RevokedAlone'
  BY DEF PipesInv, PipesTypeOK, RevokedAlone
<1>4. FetchesForNew'
  BY DEF PipesInv, PipesTypeOK, FetchesForNew
<1> QED
  BY <1>1, <1>2, <1>3, <1>4 DEF PipesInv

LEMMA PipesStepInv == PipesInv /\ [PipesNext]_pipeVars => PipesInv'
<1> SUFFICES ASSUME PipesInv, [PipesNext]_pipeVars PROVE PipesInv'
  OBVIOUS
<1>1. ASSUME NEW p \in Pipe,
             \/ EnsureProject(p) \/ FetchSource(p) \/ CommitFiles(p) \/ ConfigurePipeline(p)
             \/ EnsureCIJob(p) \/ ApplyArgoApplication(p) \/ RecordPipeline(p)
             \/ AbandonCreate(p)
      PROVE  PipesInv'
  BY <1>1, EnsureProjectInv, FetchSourceInv, CommitFilesInv, ConfigurePipelineInv,
     EnsureCIJobInv, ApplyArgoApplicationInv, RecordPipelineInv, AbandonCreateInv
<1>2. ASSUME NEW d \in Pipe,
             \/ BeginErase(d) \/ DeleteCIJob(d) \/ LookForSiblings(d)
             \/ DeleteCredentialObject(d) \/ Revoke(d) \/ DeleteClusterResources(d)
             \/ DeleteImages(d) \/ DeleteRepository(d) \/ DeletePipelineRow(d)
             \/ AbandonErase(d)
      PROVE  PipesInv'
  BY <1>2, BeginEraseInv, DeleteCIJobInv, LookForSiblingsInv, DeleteCredentialObjectInv,
     RevokeInv, DeleteClusterResourcesInv, DeleteImagesInv, DeleteRepositoryInv,
     DeletePipelineRowInv, AbandonEraseInv
<1>3. CASE StartBuild \/ PushImage \/ EndBuild \/ PushCode
  BY <1>3, StartBuildInv, PushImageInv, EndBuildInv, PushCodeInv
<1>4. CASE UNCHANGED pipeVars
  BY <1>4 DEF pipeVars, toolVars, createVars, eraseVars, PipesInv, PipesTypeOK, RemovedInQuiet,
              RevokedAlone, FetchesForNew, DeletedStaysDeleted
<1> QED
  BY <1>1, <1>2, <1>3, <1>4 DEF PipesNext

(* The invariant holds in every behaviour of the requests and their tools. *)
THEOREM PipesInvariance == PipesSpec => []PipesInv
<1> QED
  BY PipesInitInv, PipesStepInv, PTL DEF PipesSpec

(* Every variable keeps its type.                                          *)
THEOREM PipesTypeCorrect == PipesSpec => []PipesTypeOK
<1>1. PipesInv => PipesTypeOK
  BY DEF PipesInv
<1> QED
  BY PipesInvariance, <1>1, PTL

(* Images that a deletion has removed together with the job stay away      *)
(* until somebody creates or refreshes a pipeline of the name              *)
(* (delete_pipeline.go:159-163), for any number of pipelines.              *)
THEOREM PipesDeletedStays == PipesSpec => []DeletedStaysDeleted
<1>1. PipesInv => DeletedStaysDeleted
  BY DEF PipesInv, RemovedInQuiet
<1> QED
  BY PipesInvariance, <1>1, PTL

-----------------------------------------------------------------------------
(* What one step may take from the others.                                 *)

Loses ==
    /\ (secret /\ ~secret') \/ (object /\ ~object') =>
         \E d \in Pipe :
           /\ erasing[d] \in {"object", "revoke"} /\ erasing'[d] # erasing[d]
           /\ Siblings(d) \cap recorded[d] = {}
    /\ repo = "work" /\ repo' # "work" =>
         \/ \E d \in Pipe : erasing[d] = "repository" /\ "repository" \in asked[d]
         \/ \E p \in Pipe : step[p] \in {"fetch", "commit"} /\ created[p] /\ sourced[p]

(* whoever was recorded at the look is gone when the credentials go        *)
LEMMA NoneLeftToAsk ==
  ASSUME PipesInv, NEW d \in Pipe, erasing[d] \in {"object", "revoke"}
  PROVE  Siblings(d) \cap recorded[d] = {}
BY DEF PipesInv, RevokedAlone, Siblings

(* A creation or refresh takes no credentials.                             *)
LEMMA CreationLoses ==
  ASSUME PipesInv, NEW p \in Pipe,
         \/ EnsureProject(p) \/ FetchSource(p) \/ CommitFiles(p) \/ ConfigurePipeline(p)
         \/ EnsureCIJob(p) \/ ApplyArgoApplication(p) \/ RecordPipeline(p)
         \/ AbandonCreate(p)
  PROVE  Loses
<1>1. CASE EnsureProject(p)
  BY <1>1 DEF EnsureProject, Loses
<1>2. CASE FetchSource(p)
  <2>1. secret' = secret /\ object' = object
    BY <1>2 DEF FetchSource
  <2>2. step[p] = "fetch" /\ created[p] /\ sourced[p]
    BY <1>2 DEF FetchSource, PipesInv, FetchesForNew
  <2> QED
    BY <2>1, <2>2 DEF Loses
<1>3. CASE CommitFiles(p)
  <2>1. secret' = secret /\ object' = object /\ step[p] = "commit"
    BY <1>3 DEF CommitFiles
  <2>2. (created[p] /\ sourced[p]) \/ (repo = "work" => repo' = "work")
    BY <1>3 DEF CommitFiles
  <2> QED
    BY <2>1, <2>2 DEF Loses
<1>4. CASE ConfigurePipeline(p)
  <2>1. object' = object /\ repo' = repo
    BY <1>4 DEF ConfigurePipeline
  <2>2. secret => secret'
    BY <1>4 DEF ConfigurePipeline
  <2> QED
    BY <2>1, <2>2 DEF Loses
<1>5. CASE EnsureCIJob(p)
  BY <1>5 DEF EnsureCIJob, Loses
<1>6. CASE ApplyArgoApplication(p)
  <2>1. secret' = secret /\ repo' = repo
    BY <1>6 DEF ApplyArgoApplication
  <2>2. object => object'
    BY <1>6 DEF ApplyArgoApplication
  <2> QED
    BY <2>1, <2>2 DEF Loses
<1>7. CASE RecordPipeline(p)
  BY <1>7 DEF RecordPipeline, toolVars, Loses
<1>8. CASE AbandonCreate(p)
  BY <1>8 DEF AbandonCreate, toolVars, Loses
<1> QED
  BY <1>1, <1>2, <1>3, <1>4, <1>5, <1>6, <1>7, <1>8

(* A deletion takes credentials at two stages, the repository at one.      *)
LEMMA DeletionLoses ==
  ASSUME PipesInv, NEW d \in Pipe,
         \/ BeginErase(d) \/ DeleteCIJob(d) \/ LookForSiblings(d)
         \/ DeleteCredentialObject(d) \/ Revoke(d) \/ DeleteClusterResources(d)
         \/ DeleteImages(d) \/ DeleteRepository(d) \/ DeletePipelineRow(d)
         \/ AbandonErase(d)
  PROVE  Loses
<1>1. CASE DeleteCredentialObject(d)
  <2>1. erasing[d] = "object" /\ erasing'[d] = "revoke" /\ repo' = repo
    BY <1>1 DEF DeleteCredentialObject, Moves, Following, PipesInv, PipesTypeOK
  <2> QED
    BY <2>1, NoneLeftToAsk DEF Loses
<1>2. CASE Revoke(d)
  <2>1. erasing[d] = "revoke" /\ erasing'[d] = "cluster" /\ repo' = repo
    BY <1>2 DEF Revoke, Moves, Following, PipesInv, PipesTypeOK
  <2> QED
    BY <2>1, NoneLeftToAsk DEF Loses
<1>3. CASE DeleteRepository(d)
  <2>1. secret' = secret /\ object' = object /\ erasing[d] = "repository"
    BY <1>3 DEF DeleteRepository
  <2>2. "repository" \in asked[d] \/ repo' = repo
    BY <1>3 DEF DeleteRepository, Reaches
  <2> QED
    BY <2>1, <2>2 DEF Loses
<1>4. CASE \/ BeginErase(d) \/ DeleteCIJob(d) \/ LookForSiblings(d)
           \/ DeleteClusterResources(d) \/ DeleteImages(d) \/ DeletePipelineRow(d)
           \/ AbandonErase(d)
  <2>1. secret' = secret /\ object' = object /\ repo' = repo
    BY <1>4 DEF BeginErase, DeleteCIJob, LookForSiblings, DeleteClusterResources,
                DeleteImages, DeletePipelineRow, AbandonErase, toolVars
  <2> QED
    BY <2>1 DEF Loses
<1> QED
  BY <1>1, <1>2, <1>3, <1>4

LEMMA ToolsLose ==
  ASSUME StartBuild \/ PushImage \/ EndBuild \/ PushCode
  PROVE  Loses
<1>1. secret' = secret /\ object' = object /\ (repo = "work" => repo' = "work")
  BY DEF StartBuild, PushImage, EndBuild, PushCode, KeepsRequests
<1> QED
  BY <1>1 DEF Loses

LEMMA StepLoses ==
  PipesInv /\ [PipesNext]_pipeVars =>
    [ /\ (secret /\ ~secret') \/ (object /\ ~object') =>
           \E d \in Pipe :
             /\ erasing[d] \in {"object", "revoke"} /\ erasing'[d] # erasing[d]
             /\ Siblings(d) \cap recorded[d] = {}
      /\ repo = "work" /\ repo' # "work" =>
           \/ \E d \in Pipe : erasing[d] = "repository" /\ "repository" \in asked[d]
           \/ \E p \in Pipe : step[p] \in {"fetch", "commit"} /\ created[p] /\ sourced[p]
    ]_pipeVars
<1>1. PipesInv /\ PipesNext => Loses
  BY CreationLoses, DeletionLoses, ToolsLose DEF PipesNext
<1> QED
  BY <1>1 DEF Loses

(* Nobody loses credentials to a deletion that had seen a pipeline which   *)
(* is still there (delete_pipeline.go:250-255), nor pushed work to         *)
(* anything but a deletion of the repository or the rollback of the call   *)
(* that made it.                                                           *)
THEOREM PipesSpareOthers == PipesSpec => OthersKeepTheirs
<1> QED
  BY PipesInvariance, StepLoses, PTL DEF PipesSpec, OthersKeepTheirs
==============================================================================
