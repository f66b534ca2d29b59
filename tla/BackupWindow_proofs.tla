------------------------- MODULE BackupWindow_proofs -------------------------
(***************************************************************************)
(* Proofs about BackupWindow for every number of processes, runs and       *)
(* workloads, and however many calls fail or processes restart.            *)
(***************************************************************************)
EXTENDS BackupWindow, WellFoundedInduction, TLAPS

-----------------------------------------------------------------------------
(* The next target of a loop is one of its targets.                        *)

LEMMA NatLess ==
  ASSUME NEW x \in Nat, NEW y \in Nat, y < x
  PROVE  <<y, x>> \in OpToRel(<, Nat)
  BY DEF OpToRel

LEMMA LeastNatural ==
  ASSUME NEW S, S \subseteq Nat, S # {}
  PROVE  \E x \in S : \A y \in S : x <= y
<1>1. PICK x \in S : \A y \in S : <<y, x>> \notin OpToRel(<, Nat)
  BY NatLessThanWellFounded, WFMin
<1>2. \A y \in S : ~(y < x)
  BY <1>1, NatLess
<1> QED
  BY <1>2

LEMMA NextTarget ==
  ASSUME NEW S \in SUBSET Workload, S # {}
  PROVE  Min(S) \in S /\ Max(S) \in S
<1>1. S \subseteq Nat /\ W \in Nat /\ \A s \in S : s <= W
  BY WorkloadAssumption DEF Workload
<1>2. Min(S) \in S
  BY <1>1, LeastNatural DEF Min
<1>3. Max(S) \in S
  <2> DEFINE D == {W - s : s \in S}
  <2>1. D \subseteq Nat /\ D # {}
    <3>1. \A s \in S : W - s \in Nat
      BY <1>1
    <3> QED
      BY <3>1
  <2>2. PICK d \in D : \A e \in D : d <= e
    BY <2>1, LeastNatural
  <2>3. PICK m \in S : d = W - m
    BY <2>2
  <2>4. \A s \in S : m >= s
    <3> SUFFICES ASSUME NEW s \in S PROVE m >= s
      OBVIOUS
    <3>1. W - m <= W - s
      BY <2>2, <2>3
    <3> QED
      BY <1>1, <3>1
  <2> QED
    BY <2>4 DEF Max
<1> QED
  BY <1>2, <1>3

-----------------------------------------------------------------------------
(* The inductive invariant of the theorems below.                          *)

BeforeWindow == {"idle", "preflight", "resources", "list"}

(* a plan is made before anything is scaled *)
NothingToScaleYet == \A b \in Backup : pc[b] \in BeforeWindow => todo[b] = {}

(* Type correctness *)
IndType == TypeOK /\ NothingToScaleYet

LEMMA FaultType ==
  ASSUME TypeOK, Fault \/ NoFault
  PROVE  faults' \in 0 .. MaxFaults
  BY BudgetAssumption DEF TypeOK, Fault, NoFault

LEMMA GoType ==
  ASSUME TypeOK, NEW b \in Backup, NEW next \in RunPc, Go(b, next)
  PROVE  /\ pc' \in [Backup -> RunPc] /\ pc'[b] = next
         /\ \A c \in Backup \ {b} : pc'[c] = pc[c]
  BY DEF TypeOK, Go

LEMMA TakeType ==
  ASSUME TypeOK, NEW b \in Backup, NEW component \in Component, NEW next \in RunPc,
         Take(b, component, next)
  PROVE  /\ pc' \in [Backup -> RunPc] /\ pc'[b] = next
         /\ \A c \in Backup \ {b} : pc'[c] = pc[c]
         /\ ok' \in [Backup -> SUBSET Component] /\ faults' \in 0 .. MaxFaults
<1>1. ok' \in [Backup -> SUBSET Component]
  BY DEF TypeOK, Take
<1> QED
  BY <1>1, GoType, FaultType DEF Take

LEMMA ResumeType ==
  ASSUME TypeOK, NEW b \in Backup, Resume(b), UNCHANGED plan
  PROVE  /\ pc' \in [Backup -> RunPc] /\ pc'[b] = "up"
         /\ todo' \in [Backup -> SUBSET Workload]
         /\ todo'[b] = Targets(plan[b])
         /\ \A c \in Backup \ {b} : pc'[c] = pc[c] /\ todo'[c] = todo[c]
<1>1. Targets(plan[b]) \subseteq Workload
  BY DEF Targets
<1>2. "up" \in RunPc
  BY DEF RunPc
<1> QED
  BY <1>1, <1>2, GoType DEF TypeOK, Resume

LEMMA InitType == Init => IndType
<1> SUFFICES ASSUME Init PROVE IndType
  OBVIOUS
<1>1. Configured \in [Workload -> Nat]
  BY WorkloadAssumption DEF Workload
<1>2. NoPlan \in [Workload -> Nat] /\ "idle" \in RunPc
  BY DEF NoPlan, RunPc
<1> QED
  BY <1>1, <1>2, BudgetAssumption DEF Init, IndType, TypeOK, NothingToScaleYet

(* Runs that neither list nor scale: their plan and their loop stay.       *)
LEMMA PlainType ==
  ASSUME IndType, NEW b \in Backup,
         \/ Begin(b) \/ Preflight(b) \/ DumpResources(b) \/ AllDown(b) \/ AllUp(b)
         \/ ResumeRotation(b) \/ ExportKV(b) \/ DumpDB(b) \/ FinishRun(b)
  PROVE  IndType'
<1> USE DEF IndType
<1>1. UNCHANGED <<spec, pods, home, plan, todo, manual, rotating, restarts>>
  BY DEF Begin, Open, Preflight, DumpResources, AllDown, AllUp, ResumeRotation, ExportKV, DumpDB,
         FinishRun, clusterVars, rotVars
<1>2. /\ pc' \in [Backup -> RunPc] /\ \A c \in Backup \ {b} : pc'[c] = pc[c]
      /\ pc'[b] \in BeforeWindow => pc[b] \in BeforeWindow
      /\ faults' \in 0 .. MaxFaults
  <2>1. CASE Begin(b)
    <3>1. "preflight" \in RunPc /\ faults' = faults
      BY <2>1 DEF Begin, Open, RunPc
    <3> QED
      BY <2>1, <3>1, GoType DEF Begin, Open, BeforeWindow, TypeOK
  <2>2. CASE Preflight(b)
    <3>1. {"resources", "finish"} \subseteq RunPc
      BY DEF RunPc
    <3> QED
      BY <2>2, <3>1, GoType, FaultType DEF Preflight, Abort, BeforeWindow
  <2>3. CASE DumpResources(b)
    <3>1. {"list", "kv"} \subseteq RunPc /\ "resources" \in Component
      BY DEF RunPc, Component
    <3> QED
      BY <2>3, <3>1, TakeType DEF DumpResources, BeforeWindow
  <2>4. CASE AllDown(b) \/ AllUp(b) \/ ResumeRotation(b)
    <3>1. {"wait", "unpause", "finish", "kv"} \subseteq RunPc \ BeforeWindow /\ faults' = faults
      BY <2>4 DEF AllDown, AllUp, ResumeRotation, RunPc, BeforeWindow
    <3> QED
      BY <2>4, <3>1, GoType DEF AllDown, AllUp, ResumeRotation, TypeOK
  <2>5. CASE ExportKV(b) \/ DumpDB(b)
    <3>1. {"db", "finish"} \subseteq RunPc \ BeforeWindow /\ {"kv", "db"} \subseteq Component
      BY DEF RunPc, Component, BeforeWindow
    <3> QED
      BY <2>5, <3>1, TakeType DEF ExportKV, DumpDB
  <2>6. CASE FinishRun(b)
    <3>1. "done" \in RunPc \ BeforeWindow
      BY DEF RunPc, BeforeWindow
    <3> QED
      BY <2>6, <3>1, GoType, FaultType DEF FinishRun
  <2> QED
    BY <2>1, <2>2, <2>3, <2>4, <2>5, <2>6
<1>3. ok' \in [Backup -> SUBSET Component]
  <2>1. ASSUME NEW component \in Component, NEW next \in RunPc, Take(b, component, next)
        PROVE  ok' \in [Backup -> SUBSET Component]
    BY <2>1, TakeType
  <2>2. {"list", "kv", "db", "finish"} \subseteq RunPc /\ {"resources", "kv", "db"} \subseteq Component
    BY DEF RunPc, Component
  <2>3. CASE DumpResources(b)
    BY <2>1, <2>2, <2>3 DEF DumpResources
  <2>4. CASE ExportKV(b) \/ DumpDB(b)
    BY <2>1, <2>2, <2>4 DEF ExportKV, DumpDB
  <2>5. CASE UNCHANGED ok
    BY <2>5 DEF TypeOK
  <2> QED
    BY <2>3, <2>4, <2>5 DEF Begin, Open, Preflight, AllDown, AllUp, ResumeRotation, FinishRun
<1>4. broken' \in [Backup -> BOOLEAN] /\ paused' \in [Replica -> BOOLEAN]
  BY DEF Begin, Open, Preflight, Abort, DumpResources, AllDown, AllUp, ResumeRotation, ExportKV, DumpDB,
         FinishRun, rotVars, TypeOK
<1>5. scope' \in [Backup -> SUBSET Component]
  <2>1. CASE Begin(b)
    <3>1. PICK s \in Scopes : scope' = [scope EXCEPT ![b] = s]
      BY <2>1 DEF Begin, Open
    <3> QED
      BY <3>1, ScopesAssumption DEF TypeOK
  <2>2. CASE ~Begin(b)
    BY <2>2 DEF Preflight, DumpResources, AllDown, AllUp, ResumeRotation, ExportKV, DumpDB,
                FinishRun, TypeOK
  <2> QED
    BY <2>1, <2>2
<1>6. status' \in [Backup -> {"none", "running", "succeeded", "partial", "failed"}]
  <2>1. Result(b) \in {"succeeded", "partial", "failed"}
    BY DEF Result
  <2> QED
    BY <2>1 DEF Begin, Open, Preflight, DumpResources, AllDown, AllUp, ResumeRotation, ExportKV, DumpDB,
                FinishRun, TypeOK
<1>7. NothingToScaleYet'
  BY <1>1, <1>2 DEF NothingToScaleYet
<1>8. \A c \in Backup : todo'[c] \subseteq Targets(plan'[c])
  BY <1>1 DEF TypeOK
<1>9. TypeOK'
  BY <1>1, <1>2, <1>3, <1>4, <1>5, <1>6, <1>8 DEF TypeOK
<1> QED
  BY <1>7, <1>9

(* Runs that make their plan or take up a loop over it                     *)
LEMMA PlanType ==
  ASSUME IndType, NEW b \in Backup,
         ListWorkloads(b) \/ PauseRotation(b) \/ WaitStopped(b) \/ ArchiveVolumes(b)
  PROVE  IndType'
<1> USE DEF IndType
<1>1. UNCHANGED <<spec, pods, home, scope, status, manual, rotating, restarts>>
  BY DEF ListWorkloads, PauseRotation, WaitStopped, ArchiveVolumes, clusterVars, rotVars
<1>2. CASE ListWorkloads(b)
  <2> DEFINE p == NewQuiescePlan(spec)
  <2>1. p \in [Workload -> Nat] /\ NoPlan \in [Workload -> Nat]
    BY DEF NewQuiescePlan, NoPlan, TypeOK
  <2>2. {"archive", "pause", "finish"} \subseteq RunPc \ BeforeWindow
    BY DEF RunPc, BeforeWindow
  <2>3. /\ pc' \in [Backup -> RunPc] /\ \A c \in Backup \ {b} : pc'[c] = pc[c]
        /\ pc'[b] \notin BeforeWindow
        /\ faults' \in 0 .. MaxFaults
    BY <1>2, <2>2, GoType, FaultType DEF ListWorkloads, Abort
  <2>4. todo[b] = {} /\ UNCHANGED <<todo, ok, paused>>
    BY <1>2 DEF ListWorkloads, NothingToScaleYet, BeforeWindow, rotVars
  <2>5. plan' \in [Backup -> [Workload -> Nat]] /\ \A c \in Backup \ {b} : plan'[c] = plan[c]
    BY <1>2, <2>1 DEF ListWorkloads, Abort, TypeOK
  <2>6. broken' \in [Backup -> BOOLEAN]
    BY <1>2 DEF ListWorkloads, Abort, TypeOK
  <2>7. \A c \in Backup : todo'[c] \subseteq Targets(plan'[c])
    BY <2>4, <2>5 DEF TypeOK
  <2>8. NothingToScaleYet'
    BY <2>3, <2>4 DEF NothingToScaleYet
  <2> QED
    BY <1>1, <2>3, <2>4, <2>5, <2>6, <2>7, <2>8 DEF TypeOK
<1>3. CASE PauseRotation(b)
  <2>1. Targets(plan[b]) \subseteq Workload /\ "down" \in RunPc \ BeforeWindow
    BY DEF Targets, RunPc, BeforeWindow
  <2>2. /\ pc' \in [Backup -> RunPc] /\ \A c \in Backup \ {b} : pc'[c] = pc[c]
        /\ pc'[b] \notin BeforeWindow
    BY <1>3, <2>1, GoType DEF PauseRotation
  <2>3. /\ todo' \in [Backup -> SUBSET Workload] /\ todo'[b] = Targets(plan[b])
        /\ \A c \in Backup \ {b} : todo'[c] = todo[c]
    BY <1>3, <2>1 DEF PauseRotation, TypeOK
  <2>4. UNCHANGED <<plan, ok, broken, faults>> /\ paused' \in [Replica -> BOOLEAN]
    BY <1>3 DEF PauseRotation, TypeOK
  <2>5. \A c \in Backup : todo'[c] \subseteq Targets(plan'[c])
    BY <2>3, <2>4 DEF TypeOK
  <2>6. NothingToScaleYet'
    BY <2>2, <2>3 DEF NothingToScaleYet
  <2> QED
    BY <1>1, <2>2, <2>3, <2>4, <2>5, <2>6 DEF TypeOK
<1>4. CASE WaitStopped(b)
  <2>1. "archive_cold" \in RunPc \ BeforeWindow /\ "up" \notin BeforeWindow
    BY DEF RunPc, BeforeWindow
  <2>2. UNCHANGED <<plan, ok, paused>> /\ faults' \in 0 .. MaxFaults /\ broken' \in [Backup -> BOOLEAN]
    BY <1>4, FaultType DEF WaitStopped, rotVars, TypeOK
  <2>3. /\ pc' \in [Backup -> RunPc] /\ \A c \in Backup \ {b} : pc'[c] = pc[c] /\ todo'[c] = todo[c]
        /\ pc'[b] \notin BeforeWindow
        /\ todo' \in [Backup -> SUBSET Workload]
        /\ todo'[b] = todo[b] \/ todo'[b] = Targets(plan[b])
    <3>1. CASE Resume(b)
      BY <2>1, <2>2, <3>1, ResumeType
    <3>2. CASE Go(b, "archive_cold") /\ UNCHANGED todo
      BY <2>1, <3>2, GoType DEF TypeOK
    <3> QED
      BY <1>4, <3>1, <3>2 DEF WaitStopped
  <2>4. \A c \in Backup : todo'[c] \subseteq Targets(plan'[c])
    BY <2>2, <2>3 DEF TypeOK
  <2>5. NothingToScaleYet'
    BY <2>3 DEF NothingToScaleYet
  <2> QED
    BY <1>1, <2>2, <2>3, <2>4, <2>5 DEF TypeOK
<1>5. CASE ArchiveVolumes(b)
  <2>1. {"kv", "up"} \subseteq RunPc \ BeforeWindow /\ "volume" \in Component
    BY DEF RunPc, BeforeWindow, Component
  <2>2. PICK next \in {"kv", "up"} : Take(b, "volume", next)
    BY <1>5 DEF ArchiveVolumes
  <2>3. /\ pc' \in [Backup -> RunPc] /\ \A c \in Backup \ {b} : pc'[c] = pc[c]
        /\ pc'[b] \notin BeforeWindow
        /\ ok' \in [Backup -> SUBSET Component] /\ faults' \in 0 .. MaxFaults
    BY <2>1, <2>2, TakeType
  <2>4. UNCHANGED <<plan, broken, paused>>
    BY <1>5 DEF ArchiveVolumes, rotVars
  <2>5. /\ todo' \in [Backup -> SUBSET Workload]
        /\ \A c \in Backup \ {b} : todo'[c] = todo[c]
        /\ todo'[b] = todo[b] \/ todo'[b] = Targets(plan[b])
    <3>1. Targets(plan[b]) \subseteq Workload
      BY DEF Targets
    <3> QED
      BY <1>5, <3>1 DEF ArchiveVolumes, TypeOK
  <2>6. \A c \in Backup : todo'[c] \subseteq Targets(plan'[c])
    BY <2>4, <2>5 DEF TypeOK
  <2>7. NothingToScaleYet'
    BY <2>3, <2>5 DEF NothingToScaleYet
  <2> QED
    BY <1>1, <2>3, <2>4, <2>5, <2>6, <2>7 DEF TypeOK
<1> QED
  BY <1>2, <1>3, <1>4, <1>5

(* Runs that scale a workload                                              *)
LEMMA ScaleType ==
  ASSUME IndType, NEW b \in Backup, ScaleDown(b) \/ ScaleUp(b)
  PROVE  IndType'
<1> USE DEF IndType
<1>1. UNCHANGED <<pods, home, scope, plan, ok, status, paused, rotating, restarts>>
  BY DEF ScaleDown, ScaleUp, rotVars
<1>2. todo[b] # {} /\ todo[b] \in SUBSET Workload /\ pc[b] \notin BeforeWindow
  BY DEF ScaleDown, ScaleUp, TypeOK, BeforeWindow
<1>3. Min(todo[b]) \in Workload /\ Max(todo[b]) \in Workload
  BY <1>2, NextTarget
<1>4. /\ spec' \in [Workload -> Nat]
      /\ faults' \in 0 .. MaxFaults
  <2>1. \A w \in Workload : plan[b][w] \in Nat
    BY DEF TypeOK
  <2>2. faults' \in 0 .. MaxFaults
    BY FaultType DEF ScaleDown, ScaleUp
  <2>3. \A w \in Workload, n \in Nat : [spec EXCEPT ![w] = n] \in [Workload -> Nat]
    BY DEF TypeOK
  <2>4. spec' \in [Workload -> Nat]
    <3>1. CASE ScaleDown(b)
      <4>1. spec' = spec \/ spec' = [spec EXCEPT ![Min(todo[b])] = 0]
        BY <3>1 DEF ScaleDown
      <4> QED
        BY <1>3, <2>3, <4>1 DEF TypeOK
    <3>2. CASE ScaleUp(b)
      BY <1>3, <2>1, <2>3, <3>2 DEF ScaleUp, TypeOK
    <3> QED
      BY <3>1, <3>2
  <2> QED
    BY <2>2, <2>4
<1>5. manual' \in [Backup -> SUBSET Workload] /\ broken' \in [Backup -> BOOLEAN]
  <2>1. /\ manual' = manual \/ \E w \in Workload : manual' = [manual EXCEPT ![b] = @ \cup {w}]
        /\ broken' = broken \/ broken' = [broken EXCEPT ![b] = TRUE]
    BY <1>3 DEF ScaleDown, ScaleUp
  <2>2. manual' \in [Backup -> SUBSET Workload]
    BY <2>1 DEF TypeOK
  <2>3. broken' \in [Backup -> BOOLEAN]
    BY <2>1 DEF TypeOK
  <2> QED
    BY <2>2, <2>3
<1>6. /\ pc' \in [Backup -> RunPc] /\ todo' \in [Backup -> SUBSET Workload]
      /\ \A c \in Backup \ {b} : pc'[c] = pc[c] /\ todo'[c] = todo[c]
      /\ pc'[b] \notin BeforeWindow
      /\ todo'[b] \subseteq Targets(plan[b])
  <2>1. CASE Resume(b)
    <3>1. "up" \notin BeforeWindow
      BY DEF BeforeWindow
    <3> QED
      BY <1>1, <2>1, <3>1, ResumeType
  <2>2. ASSUME NEW w \in Workload, todo' = [todo EXCEPT ![b] = @ \ {w}], pc' = pc
        PROVE  /\ pc' \in [Backup -> RunPc] /\ todo' \in [Backup -> SUBSET Workload]
               /\ \A c \in Backup \ {b} : pc'[c] = pc[c] /\ todo'[c] = todo[c]
               /\ pc'[b] \notin BeforeWindow
               /\ todo'[b] \subseteq Targets(plan[b])
    BY <1>2, <2>2 DEF TypeOK
  <2> QED
    BY <1>3, <2>1, <2>2 DEF ScaleDown, ScaleUp
<1>7. \A c \in Backup : todo'[c] \subseteq Targets(plan'[c])
  BY <1>1, <1>6 DEF TypeOK
<1>8. NothingToScaleYet'
  BY <1>6 DEF NothingToScaleYet
<1>9. TypeOK'
  BY <1>1, <1>4, <1>5, <1>6, <1>7 DEF TypeOK
<1> QED
  BY <1>8, <1>9

(* The rotation, the cluster and a process that is replaced                *)
LEMMA OthersType ==
  ASSUME IndType,
         \/ \E p \in Replica : RotationBegin(p) \/ RotationEnd(p) \/ Restart(p)
         \/ \E w \in Workload : PodsFollow(w)
         \/ UNCHANGED vars
  PROVE  IndType'
<1> USE DEF IndType
<1>1. UNCHANGED <<spec, home, scope, plan, todo, ok, broken, status, manual, faults>>
  BY DEF RotationBegin, RotationEnd, Restart, PodsFollow, vars, clusterVars, runVars
<1>2. pc' \in [Backup -> RunPc] /\ \A b \in Backup : pc'[b] = pc[b] \/ pc'[b] = "lost"
  <2>1. ASSUME NEW p \in Replica, Restart(p)
        PROVE  pc' \in [Backup -> RunPc] /\ \A b \in Backup : pc'[b] = pc[b] \/ pc'[b] = "lost"
    BY <2>1 DEF Restart, RunPc, TypeOK
  <2>2. CASE UNCHANGED pc
    BY <2>2 DEF TypeOK
  <2> QED
    BY <2>1, <2>2 DEF RotationBegin, RotationEnd, PodsFollow, vars, runVars
<1>3. pods' \in [Workload -> Nat]
  BY DEF RotationBegin, RotationEnd, Restart, PodsFollow, vars, clusterVars, TypeOK
<1>4. paused' \in [Replica -> BOOLEAN] /\ rotating' \in [Replica -> BOOLEAN]
  BY DEF RotationBegin, RotationEnd, Restart, PodsFollow, vars, rotVars, TypeOK
<1>5. restarts' \in 0 .. MaxRestarts
  <2>1. restarts' = restarts \/ (restarts < MaxRestarts /\ restarts' = restarts + 1)
    BY DEF RotationBegin, RotationEnd, Restart, PodsFollow, vars
  <2> QED
    BY <2>1, BudgetAssumption DEF TypeOK
<1>6. NothingToScaleYet'
  BY <1>1, <1>2 DEF NothingToScaleYet, BeforeWindow
<1>7. \A c \in Backup : todo'[c] \subseteq Targets(plan'[c])
  BY <1>1 DEF TypeOK
<1>8. TypeOK'
  BY <1>1, <1>2, <1>3, <1>4, <1>5, <1>7 DEF TypeOK
<1> QED
  BY <1>6, <1>8

LEMMA StepType == IndType /\ [Next]_vars => IndType'
  BY PlainType, PlanType, ScaleType, OthersType DEF Next, RunStep

LEMMA TypeInvariance == Spec => []IndType
  BY InitType, StepType, PTL DEF Spec

(* Every variable keeps its type, and the loops that stop and resume       *)
(* workloads never touch one that is not in the plan of their run.         *)
THEOREM TypeCorrect == Spec => []TypeOK
<1>1. IndType => TypeOK
  BY DEF IndType
<1> QED
  BY <1>1, TypeInvariance, PTL

-----------------------------------------------------------------------------
(* Replicas of the owner, or none                                          *)

(* a plan gives back what the owner of a workload gave it *)
PlansAreOwn == \A b \in Backup, w \in Workload : plan[b][w] \in {0, Configured[w]}

OwnInv == IndType /\ OwnReplicasOrNone /\ PlansAreOwn

(* the steps that leave the replicas asked for and the plans alone *)
LEMMA Untouched ==
  ASSUME Next, \A b \in Backup : ~ListWorkloads(b) /\ ~ScaleDown(b) /\ ~ScaleUp(b)
  PROVE  UNCHANGED <<spec, plan>>
<1>1. ASSUME NEW b \in Backup, Begin(b) \/ RunStep(b)
      PROVE  UNCHANGED <<spec, plan>>
  BY <1>1 DEF Begin, Open, RunStep, Preflight, DumpResources, PauseRotation, AllDown, WaitStopped,
              ArchiveVolumes, AllUp, ResumeRotation, ExportKV, DumpDB, FinishRun, clusterVars
<1>2. ASSUME NEW p \in Replica, RotationBegin(p) \/ RotationEnd(p) \/ Restart(p)
      PROVE  UNCHANGED <<spec, plan>>
  BY <1>2 DEF RotationBegin, RotationEnd, Restart, clusterVars, runVars
<1>3. ASSUME NEW w \in Workload, PodsFollow(w)
      PROVE  UNCHANGED <<spec, plan>>
  BY <1>3 DEF PodsFollow, runVars
<1> QED
  BY <1>1, <1>2, <1>3 DEF Next

LEMMA OwnStep == OwnInv /\ [Next]_vars => OwnInv'
<1> SUFFICES ASSUME OwnInv, [Next]_vars PROVE OwnInv'
  OBVIOUS
<1>1. IndType'
  BY StepType DEF OwnInv
<1>2. CASE UNCHANGED <<spec, plan>>
  BY <1>1, <1>2 DEF OwnInv, OwnReplicasOrNone, PlansAreOwn
<1>3. ASSUME NEW b \in Backup, ListWorkloads(b) PROVE OwnInv'
  <2>1. spec' = spec
    BY <1>3 DEF ListWorkloads, clusterVars
  <2>2. plan' = plan \/ plan' = [plan EXCEPT ![b] = [w \in Workload |-> spec[w]]]
    BY <1>3 DEF ListWorkloads, NewQuiescePlan
  <2>3. ASSUME NEW c \in Backup, NEW w \in Workload
        PROVE  plan'[c][w] = plan[c][w] \/ plan'[c][w] = spec[w]
    BY <2>2 DEF OwnInv, IndType, TypeOK
  <2>4. PlansAreOwn'
    BY <2>3 DEF OwnInv, PlansAreOwn, OwnReplicasOrNone
  <2> QED
    BY <1>1, <2>1, <2>4 DEF OwnInv, OwnReplicasOrNone
<1>4. ASSUME NEW b \in Backup, ScaleDown(b) \/ ScaleUp(b) PROVE OwnInv'
  <2>1. todo[b] \in SUBSET Workload /\ todo[b] # {}
    BY <1>4 DEF ScaleDown, ScaleUp, OwnInv, IndType, TypeOK
  <2>2. Min(todo[b]) \in Workload /\ Max(todo[b]) \in Workload
    BY <2>1, NextTarget
  <2>3. plan' = plan
    BY <1>4 DEF ScaleDown, ScaleUp
  <2>4. \/ spec' = spec
        \/ \E w \in Workload : spec' = [spec EXCEPT ![w] = 0]
        \/ \E w \in Workload : spec' = [spec EXCEPT ![w] = plan[b][w]]
    BY <1>4, <2>2 DEF ScaleDown, ScaleUp
  <2>5. OwnReplicasOrNone'
    BY <2>4 DEF OwnInv, IndType, TypeOK, PlansAreOwn, OwnReplicasOrNone
  <2> QED
    BY <1>1, <2>3, <2>5 DEF OwnInv, PlansAreOwn
<1>5. CASE UNCHANGED vars
  BY <1>2, <1>5 DEF vars, clusterVars, runVars
<1> QED
  BY <1>2, <1>3, <1>4, <1>5, Untouched

LEMMA OwnInit == Init => OwnInv
<1> SUFFICES ASSUME Init PROVE OwnReplicasOrNone /\ PlansAreOwn
  BY InitType DEF OwnInv
<1> QED
  BY DEF Init, NoPlan, OwnReplicasOrNone, PlansAreOwn

LEMMA OwnInvariance == Spec => []OwnInv
  BY OwnInit, OwnStep, PTL DEF Spec

(* However many processes back the namespace up at once, and whichever     *)
(* call fails: a workload has the replicas its owner gave it, or none      *)
(* (NewQuiescePlan, withQuiesce).                                          *)
THEOREM ReplicasAreOwn == Spec => []OwnReplicasOrNone
<1>1. OwnInv => OwnReplicasOrNone
  BY DEF OwnInv
<1> QED
  BY <1>1, OwnInvariance, PTL

-----------------------------------------------------------------------------
(* No workload is forgotten                                                *)

(* a run that is going to give the workload w back *)
WillResume(b, w) ==
    /\ w \in Targets(plan[b])
    /\ pc[b] \in {"down", "wait", "archive_cold"} \/ (pc[b] = "up" /\ w \in todo[b])

NobodyForgotten ==
    \A w \in Workload : spec[w] # Configured[w] => GivenUp(w) \/ \E b \in Backup : WillResume(b, w)

Inv == OwnInv /\ NobodyForgotten

(* A step of one run that scales nothing and forgets none of its targets   *)
LEMMA PromiseKept ==
  ASSUME NobodyForgotten, NEW b \in Backup,
         UNCHANGED <<spec, manual>>,
         \A c \in Backup \ {b} : pc'[c] = pc[c] /\ todo'[c] = todo[c] /\ plan'[c] = plan[c],
         pc[b] # "lost",
         \A w \in Workload : WillResume(b, w) => WillResume(b, w)'
  PROVE  NobodyForgotten'
<1> SUFFICES ASSUME NEW w \in Workload, spec[w] # Configured[w]
             PROVE  GivenUp(w)' \/ \E c \in Backup : WillResume(c, w)'
  BY DEF NobodyForgotten
<1>1. CASE GivenUp(w)
  BY <1>1 DEF GivenUp, Targets
<1>2. ASSUME NEW c \in Backup, WillResume(c, w) PROVE \E d \in Backup : WillResume(d, w)'
  <2>1. CASE c = b
    BY <1>2, <2>1
  <2>2. CASE c # b
    BY <1>2, <2>2 DEF WillResume, Targets
  <2> QED
    BY <2>1, <2>2
<1> QED
  BY <1>1, <1>2 DEF NobodyForgotten

(* The steps of a run outside its window *)
LEMMA PlainKeeps ==
  ASSUME IndType, NobodyForgotten, NEW b \in Backup,
         \/ Begin(b) \/ Preflight(b) \/ DumpResources(b) \/ ListWorkloads(b) \/ PauseRotation(b)
         \/ ResumeRotation(b) \/ ExportKV(b) \/ DumpDB(b) \/ FinishRun(b)
  PROVE  NobodyForgotten'
<1>1. UNCHANGED <<spec, manual>>
  BY DEF Begin, Open, Preflight, DumpResources, ListWorkloads, PauseRotation, ResumeRotation,
         ExportKV, DumpDB, FinishRun, clusterVars
<1>2. pc[b] \notin {"down", "wait", "archive_cold", "up", "lost"}
  BY DEF Begin, Open, Preflight, DumpResources, ListWorkloads, PauseRotation, ResumeRotation,
         ExportKV, DumpDB, FinishRun
<1>3. \A c \in Backup \ {b} : pc'[c] = pc[c]
  BY DEF IndType, TypeOK, Go, Abort, Take, Begin, Open, Preflight, DumpResources, ListWorkloads,
         PauseRotation, ResumeRotation, ExportKV, DumpDB, FinishRun
<1>4. \A c \in Backup \ {b} : todo'[c] = todo[c] /\ plan'[c] = plan[c]
  BY DEF IndType, TypeOK, Begin, Open, Preflight, DumpResources, ListWorkloads,
         PauseRotation, ResumeRotation, ExportKV, DumpDB, FinishRun
<1> QED
  BY <1>1, <1>2, <1>3, <1>4, PromiseKept DEF WillResume

(* The steps of a run from one loop of its window to the next *)
LEMMA WindowKeeps ==
  ASSUME IndType, NobodyForgotten, NEW b \in Backup,
         AllDown(b) \/ WaitStopped(b) \/ ArchiveVolumes(b) \/ AllUp(b)
  PROVE  NobodyForgotten'
<1>1. UNCHANGED <<spec, plan, manual>> /\ pc[b] # "lost"
  BY DEF AllDown, WaitStopped, ArchiveVolumes, AllUp, clusterVars
<1>2. \A c \in Backup \ {b} : pc'[c] = pc[c] /\ todo'[c] = todo[c]
  BY DEF IndType, TypeOK, Go, Take, Resume, AllDown, WaitStopped, ArchiveVolumes, AllUp
<1>3. ASSUME NEW w \in Workload, WillResume(b, w) PROVE WillResume(b, w)'
  <2>1. w \in Targets(plan[b]) /\ w \in Targets(plan'[b])
    BY <1>1, <1>3 DEF WillResume
  <2>2. CASE AllDown(b)
    <3>1. pc'[b] = "wait"
      BY <2>2 DEF AllDown, Go, IndType, TypeOK
    <3> QED
      BY <2>1, <3>1 DEF WillResume, Targets
  <2>3. CASE WaitStopped(b)
    <3>1. pc'[b] = "archive_cold" \/ (pc'[b] = "up" /\ todo'[b] = Targets(plan[b]))
      BY <2>3, <1>1, ResumeType DEF WaitStopped, Go, IndType, TypeOK
    <3> QED
      BY <2>1, <3>1 DEF WillResume, Targets
  <2>4. CASE ArchiveVolumes(b)
    <3>1. pc[b] = "archive_cold"
      BY <1>3, <2>4 DEF ArchiveVolumes, WillResume
    <3>2. pc'[b] = "up" /\ todo'[b] = Targets(plan[b])
      BY <2>4, <3>1 DEF ArchiveVolumes, Take, Go, IndType, TypeOK
    <3> QED
      BY <2>1, <3>2 DEF WillResume, Targets
  <2>5. CASE AllUp(b)
    BY <1>3, <2>5 DEF AllUp, WillResume
  <2> QED
    BY <2>2, <2>3, <2>4, <2>5
<1> QED
  BY <1>1, <1>2, <1>3, PromiseKept

LEMMA ScaleDownKeeps ==
  ASSUME IndType, NobodyForgotten, NEW b \in Backup, ScaleDown(b)
  PROVE  NobodyForgotten'
<1> DEFINE w == Min(todo[b])
<1>1. w \in todo[b] /\ w \in Workload /\ w \in Targets(plan[b]) /\ pc[b] = "down"
  <2>1. todo[b] \in SUBSET Workload /\ todo[b] # {} /\ todo[b] \subseteq Targets(plan[b])
    BY DEF ScaleDown, IndType, TypeOK
  <2> QED
    BY <2>1, NextTarget DEF ScaleDown
<1>2. UNCHANGED <<plan, manual>>
  BY DEF ScaleDown
<1>3. CASE Resume(b) /\ UNCHANGED spec
  <2>1. /\ pc'[b] = "up" /\ todo'[b] = Targets(plan[b])
        /\ \A c \in Backup \ {b} : pc'[c] = pc[c] /\ todo'[c] = todo[c]
    BY <1>2, <1>3, ResumeType DEF IndType
  <2>2. \A v \in Workload : WillResume(b, v) => WillResume(b, v)'
    BY <1>2, <2>1 DEF WillResume, Targets
  <2> QED
    BY <1>1, <1>2, <1>3, <2>1, <2>2, PromiseKept
<1>4. CASE /\ spec' = [spec EXCEPT ![w] = 0] /\ UNCHANGED pc
           /\ todo' = [todo EXCEPT ![b] = @ \ {w}]
  <2>1. ASSUME NEW v \in Workload, spec'[v] # Configured[v]
        PROVE  GivenUp(v)' \/ \E c \in Backup : WillResume(c, v)'
    <3>1. CASE v = w
      BY <1>1, <1>2, <1>4, <3>1 DEF WillResume, Targets
    <3>2. CASE v # w
      <4>1. spec'[v] = spec[v]
        BY <1>4, <3>2 DEF IndType, TypeOK
      <4>2. \A c \in Backup : WillResume(c, v) => WillResume(c, v)'
        BY <1>1, <1>2, <1>4, <3>2 DEF WillResume, Targets, IndType, TypeOK
      <4>3. GivenUp(v) => GivenUp(v)'
        BY <1>2, <1>4 DEF GivenUp, Targets
      <4> QED
        BY <2>1, <4>1, <4>2, <4>3 DEF NobodyForgotten
    <3> QED
      BY <3>1, <3>2
  <2> QED
    BY <2>1 DEF NobodyForgotten
<1> QED
  BY <1>3, <1>4 DEF ScaleDown

LEMMA ScaleUpKeeps ==
  ASSUME OwnInv, NobodyForgotten, NEW b \in Backup, ScaleUp(b)
  PROVE  NobodyForgotten'
<1> DEFINE w == Max(todo[b])
<1>1. w \in todo[b] /\ w \in Workload /\ w \in Targets(plan[b])
  <2>1. todo[b] \in SUBSET Workload /\ todo[b] # {} /\ todo[b] \subseteq Targets(plan[b])
    BY DEF ScaleUp, OwnInv, IndType, TypeOK
  <2> QED
    BY <2>1, NextTarget
<1>2. /\ UNCHANGED <<plan, pc>>
      /\ todo' = [todo EXCEPT ![b] = @ \ {w}]
      /\ \/ spec' = [spec EXCEPT ![w] = plan[b][w]] /\ UNCHANGED manual
         \/ manual' = [manual EXCEPT ![b] = @ \cup {w}] /\ UNCHANGED spec
  BY DEF ScaleUp
<1>3. plan[b][w] = Configured[w]
  BY <1>1 DEF OwnInv, PlansAreOwn, Targets
<1>4. \A c \in Backup : manual[c] \subseteq manual'[c]
  BY <1>2 DEF OwnInv, IndType, TypeOK
<1>5. ASSUME NEW v \in Workload, spec'[v] # Configured[v]
      PROVE  GivenUp(v)' \/ \E c \in Backup : WillResume(c, v)'
  <2>1. CASE v = w
    <3>1. spec'[v] # plan[b][w]
      BY <1>3, <1>5, <2>1
    <3>2. manual' = [manual EXCEPT ![b] = @ \cup {w}]
      BY <1>1, <1>2, <2>1, <3>1 DEF OwnInv, IndType, TypeOK
    <3>3. w \in manual'[b]
      BY <3>2 DEF OwnInv, IndType, TypeOK
    <3> QED
      BY <2>1, <3>3 DEF GivenUp
  <2>2. CASE v # w
    <3>1. spec'[v] = spec[v]
      BY <1>2, <2>2 DEF OwnInv, IndType, TypeOK
    <3>2. \A c \in Backup : WillResume(c, v) => WillResume(c, v)'
      BY <1>2, <2>2 DEF WillResume, Targets, OwnInv, IndType, TypeOK
    <3>3. GivenUp(v) => GivenUp(v)'
      BY <1>2, <1>4 DEF GivenUp, Targets
    <3> QED
      BY <1>5, <3>1, <3>2, <3>3 DEF NobodyForgotten
  <2> QED
    BY <2>1, <2>2
<1> QED
  BY <1>5 DEF NobodyForgotten

(* The rotation and the cluster leave the runs alone; a process that is    *)
(* replaced takes its runs with it, and what they had stopped is given up. *)
LEMMA OthersKeep ==
  ASSUME IndType, NobodyForgotten,
         \/ \E p \in Replica : RotationBegin(p) \/ RotationEnd(p) \/ Restart(p)
         \/ \E w \in Workload : PodsFollow(w)
         \/ UNCHANGED vars
  PROVE  NobodyForgotten'
<1>1. UNCHANGED <<spec, plan, todo, manual>>
  BY DEF RotationBegin, RotationEnd, Restart, PodsFollow, vars, clusterVars, runVars
<1>2. \A b \in Backup : pc'[b] = pc[b] \/ pc'[b] = "lost"
  <2>1. ASSUME NEW p \in Replica, Restart(p)
        PROVE  \A b \in Backup : pc'[b] = pc[b] \/ pc'[b] = "lost"
    BY <2>1 DEF Restart
  <2> QED
    BY <2>1 DEF RotationBegin, RotationEnd, PodsFollow, vars, runVars
<1>3. ASSUME NEW w \in Workload, spec[w] # Configured[w]
      PROVE  GivenUp(w)' \/ \E b \in Backup : WillResume(b, w)'
  <2>1. CASE GivenUp(w)
    BY <1>1, <1>2, <2>1 DEF GivenUp, Targets
  <2>2. ASSUME NEW b \in Backup, WillResume(b, w)
        PROVE  GivenUp(w)' \/ \E c \in Backup : WillResume(c, w)'
    BY <1>1, <1>2, <2>2 DEF GivenUp, WillResume, Targets
  <2> QED
    BY <1>3, <2>1, <2>2 DEF NobodyForgotten
<1> QED
  BY <1>1, <1>3 DEF NobodyForgotten

LEMMA ForgetsStep == Inv /\ [Next]_vars => Inv'
<1> SUFFICES ASSUME Inv, [Next]_vars PROVE NobodyForgotten'
  BY OwnStep DEF Inv
<1>1. OwnInv /\ IndType /\ NobodyForgotten
  BY DEF Inv, OwnInv
<1>2. ASSUME NEW b \in Backup, Begin(b) \/ RunStep(b) PROVE NobodyForgotten'
  BY <1>1, <1>2, PlainKeeps, WindowKeeps, ScaleDownKeeps, ScaleUpKeeps DEF RunStep
<1>3. CASE \/ \E p \in Replica : RotationBegin(p) \/ RotationEnd(p) \/ Restart(p)
           \/ \E w \in Workload : PodsFollow(w)
           \/ UNCHANGED vars
  BY <1>1, <1>3, OthersKeep
<1> QED
  BY <1>2, <1>3 DEF Next

LEMMA Invariance == Spec => []Inv
<1>1. Init => Inv
  BY OwnInit DEF Inv, NobodyForgotten, Init
<1> QED
  BY <1>1, ForgetsStep, PTL DEF Spec

(* When no window is open every workload has its replicas back, or the log *)
(* names it, or the process that knew its replicas is gone (the deferred   *)
(* resume of withQuiesce): for any number of runs, in any processes.       *)
THEOREM NoneForgotten == Spec => []WorkloadsBack
<1>1. Inv => WorkloadsBack
  <2> SUFFICES ASSUME NobodyForgotten, \A b \in Backup : ~Window(b), NEW w \in Workload
               PROVE  spec[w] = Configured[w] \/ GivenUp(w)
    BY DEF Inv, WorkloadsBack
  <2>1. \A b \in Backup : ~WillResume(b, w)
    BY DEF Window, WillResume
  <2> QED
    BY <2>1 DEF NobodyForgotten
<1> QED
  BY <1>1, Invariance, PTL

-----------------------------------------------------------------------------
(* One process and its scheduler alone: the inFlight flag keeps a second   *)
(* run away, and then the copies are cold and the rotation rests.          *)

OneProcess == Manual = {} /\ \A p, q \in Replica : p = q

OneRunAtATime == \A b, c \in Backup : InProgress(b) /\ InProgress(c) => b = c

(* how far the run b has the workloads of its plan stopped *)
StoppedSoFar(b) ==
    /\ pc[b] = "down" => \A w \in Targets(plan[b]) \ todo[b] : spec[w] = 0
    /\ pc[b] \in {"wait", "archive_cold"} => \A w \in Targets(plan[b]) : spec[w] = 0
    /\ pc[b] = "archive_cold" => \A w \in Targets(plan[b]) : pods[w] = 0

RotationRests(b) == Window(b) => paused[home[b]]

SingleInv == IndType /\ OneRunAtATime /\ \A b \in Backup : StoppedSoFar(b) /\ RotationRests(b)

LEMMA RunAlone ==
  ASSUME OneProcess, IndType, OneRunAtATime, NEW b \in Backup, Begin(b) \/ RunStep(b)
  PROVE  /\ \A c \in Backup \ {b} : ~InProgress(c) /\ pc'[c] = pc[c]
         /\ UNCHANGED <<pods, home>>
<1>1. \A c \in Backup \ {b} : pc'[c] = pc[c]
  BY DEF IndType, TypeOK, Go, Abort, Take, Resume, Begin, Open, RunStep, Preflight,
         DumpResources, ListWorkloads, PauseRotation, ScaleDown, AllDown, WaitStopped, ArchiveVolumes, ScaleUp, AllUp,
         ResumeRotation, ExportKV, DumpDB, FinishRun
<1>2. UNCHANGED <<pods, home>>
  BY DEF Begin, Open, RunStep, Preflight, DumpResources, ListWorkloads,
         PauseRotation, ScaleDown, AllDown, WaitStopped, ArchiveVolumes, ScaleUp, AllUp,
         ResumeRotation, ExportKV, DumpDB, FinishRun, clusterVars
<1>3. ASSUME NEW c \in Backup \ {b} PROVE ~InProgress(c)
  <2>1. CASE Begin(b)
    <3>1. b \notin Manual /\ c \in Backup \ Manual
      BY DEF OneProcess
    <3>2. home[c] = home[b]
      BY DEF OneProcess, IndType, TypeOK
    <3> QED
      BY <2>1, <3>1, <3>2 DEF Begin
  <2>2. CASE RunStep(b)
    <3>1. InProgress(b)
      BY <2>2 DEF InProgress, RunStep, Preflight, DumpResources, ListWorkloads, PauseRotation,
                  ScaleDown, AllDown, WaitStopped, ArchiveVolumes, ScaleUp, AllUp, ResumeRotation,
                  ExportKV, DumpDB, FinishRun
    <3> QED
      BY <3>1 DEF OneRunAtATime
  <2> QED
    BY <2>1, <2>2
<1> QED
  BY <1>1, <1>2, <1>3

(* The step of a run for itself: out of its window, *)
LEMMA OutsideStep ==
  ASSUME IndType, NEW b \in Backup,
         \/ Begin(b) \/ Preflight(b) \/ DumpResources(b) \/ ListWorkloads(b)
         \/ ResumeRotation(b) \/ ExportKV(b) \/ DumpDB(b) \/ FinishRun(b)
  PROVE  StoppedSoFar(b)' /\ RotationRests(b)'
<1>1. pc'[b] \in {"preflight", "resources", "list", "kv", "archive", "pause", "finish", "db", "done"}
  BY DEF IndType, TypeOK, Go, Abort, Take, Begin, Open, Preflight, DumpResources, ListWorkloads,
         ResumeRotation, ExportKV, DumpDB, FinishRun
<1> QED
  BY <1>1 DEF StoppedSoFar, RotationRests, Window

(* stopping the workloads, *)
LEMMA StoppingStep ==
  ASSUME IndType, NEW b \in Backup, StoppedSoFar(b), RotationRests(b), UNCHANGED <<pods, home>>,
         PauseRotation(b) \/ ScaleDown(b) \/ AllDown(b) \/ WaitStopped(b)
  PROVE  StoppedSoFar(b)' /\ RotationRests(b)'
<1>1. plan' = plan
  BY DEF PauseRotation, ScaleDown, AllDown, WaitStopped
<1>2. CASE PauseRotation(b)
  <2>1. pc'[b] = "down" /\ todo'[b] = Targets(plan[b]) /\ paused'[home[b]]
    BY <1>2 DEF PauseRotation, Go, IndType, TypeOK
  <2> QED
    BY <1>1, <2>1 DEF StoppedSoFar, RotationRests, Targets
<1>3. (paused[home[b]] /\ UNCHANGED paused) \/ PauseRotation(b)
  BY DEF RotationRests, Window, ScaleDown, AllDown, WaitStopped, rotVars
<1>4. CASE Resume(b) /\ UNCHANGED paused /\ paused[home[b]]
  <2>1. pc'[b] = "up"
    BY <1>1, <1>4, ResumeType DEF IndType
  <2> QED
    BY <1>4, <2>1 DEF StoppedSoFar, RotationRests
<1>5. CASE ScaleDown(b) /\ ~Resume(b)
  <2> DEFINE w == Min(todo[b])
  <2>1. w \in Workload
    <3>1. todo[b] \in SUBSET Workload /\ todo[b] # {}
      BY <1>5 DEF ScaleDown, IndType, TypeOK
    <3> QED
      BY <3>1, NextTarget
  <2>2. /\ spec' = [spec EXCEPT ![w] = 0] /\ todo' = [todo EXCEPT ![b] = @ \ {w}] /\ pc' = pc
        /\ pc[b] = "down" /\ UNCHANGED paused
    BY <1>5 DEF ScaleDown, rotVars
  <2>3. ASSUME NEW v \in Targets(plan[b]) \ todo'[b] PROVE spec'[v] = 0
    <3>1. v \in Workload /\ (v = w \/ v \notin todo[b])
      BY <2>2, <2>3 DEF Targets, IndType, TypeOK
    <3> QED
      BY <2>1, <2>2, <2>3, <3>1 DEF StoppedSoFar, IndType, TypeOK
  <2> QED
    BY <1>1, <2>2, <2>3 DEF StoppedSoFar, RotationRests, Window, Targets
<1>6. CASE AllDown(b)
  <2>1. pc'[b] = "wait" /\ UNCHANGED <<spec, paused>> /\ paused[home[b]]
    BY <1>3, <1>6 DEF AllDown, PauseRotation, Go, clusterVars, rotVars, IndType, TypeOK
  <2>2. \A w \in Targets(plan[b]) : spec[w] = 0
    BY <1>6 DEF AllDown, StoppedSoFar
  <2> QED
    BY <1>1, <2>1, <2>2 DEF StoppedSoFar, RotationRests, Targets
<1>7. CASE WaitStopped(b) /\ ~Resume(b)
  <2>1. /\ pc'[b] = "archive_cold" /\ UNCHANGED <<spec, paused>> /\ paused[home[b]]
        /\ Stopped(b) /\ pc[b] = "wait"
    BY <1>3, <1>7 DEF WaitStopped, PauseRotation, Go, clusterVars, rotVars, IndType, TypeOK
  <2> QED
    BY <1>1, <2>1 DEF StoppedSoFar, RotationRests, Targets, Stopped
<1>8. ScaleDown(b) \/ WaitStopped(b) => UNCHANGED paused /\ paused[home[b]]
  BY DEF RotationRests, Window, ScaleDown, WaitStopped, rotVars
<1> QED
  BY <1>2, <1>4, <1>5, <1>6, <1>7, <1>8

(* and from the copies to the end of the window. *)
LEMMA ResumingStep ==
  ASSUME IndType, NEW b \in Backup, RotationRests(b), UNCHANGED home,
         ArchiveVolumes(b) \/ ScaleUp(b) \/ AllUp(b)
  PROVE  StoppedSoFar(b)' /\ RotationRests(b)'
<1>1. pc'[b] \in {"kv", "up", "unpause"} /\ (pc'[b] # "kv" => Window(b)) /\ UNCHANGED paused
  BY DEF ArchiveVolumes, ScaleUp, AllUp, Take, Go, Window, rotVars, IndType, TypeOK
<1> QED
  BY <1>1 DEF StoppedSoFar, RotationRests, Window

LEMMA SingleOthers ==
  ASSUME OneProcess, SingleInv,
         \/ \E p \in Replica : RotationBegin(p) \/ RotationEnd(p) \/ Restart(p)
         \/ \E w \in Workload : PodsFollow(w)
         \/ UNCHANGED vars
  PROVE  OneRunAtATime' /\ \A b \in Backup : StoppedSoFar(b)' /\ RotationRests(b)'
<1>1. CASE \E p \in Replica : Restart(p)
  <2>1. PICK p \in Replica : Restart(p)
    BY <1>1
  <2>2. ASSUME NEW b \in Backup PROVE ~InProgress(b)'
    <3>1. home[b] = p
      BY DEF OneProcess, SingleInv, IndType, TypeOK
    <3> QED
      BY <2>1, <3>1 DEF Restart, InProgress
  <2> QED
    BY <2>2 DEF InProgress, OneRunAtATime, StoppedSoFar, RotationRests, Window
<1>2. CASE UNCHANGED <<spec, pods, pc, home, plan, todo, paused>>
  BY <1>2 DEF SingleInv, InProgress, OneRunAtATime, StoppedSoFar, RotationRests, Window, Targets
<1>3. ASSUME NEW w \in Workload, PodsFollow(w)
      PROVE  OneRunAtATime' /\ \A b \in Backup : StoppedSoFar(b)' /\ RotationRests(b)'
  <2>1. UNCHANGED <<spec, pc, home, plan, todo, paused>> /\ pods' = [pods EXCEPT ![w] = spec[w]]
    BY <1>3 DEF PodsFollow, runVars, rotVars
  <2>2. ASSUME NEW b \in Backup, pc[b] = "archive_cold", NEW v \in Targets(plan[b]) PROVE pods'[v] = 0
    BY <2>1, <2>2 DEF SingleInv, StoppedSoFar, Targets, IndType, TypeOK
  <2> QED
    BY <2>1, <2>2 DEF SingleInv, InProgress, OneRunAtATime, StoppedSoFar, RotationRests, Window, Targets
<1> QED
  BY <1>1, <1>2, <1>3 DEF RotationBegin, RotationEnd, clusterVars, runVars, rotVars, vars

LEMMA SingleStep == ASSUME OneProcess PROVE SingleInv /\ [Next]_vars => SingleInv'
<1> SUFFICES ASSUME SingleInv, [Next]_vars
             PROVE  OneRunAtATime' /\ \A b \in Backup : StoppedSoFar(b)' /\ RotationRests(b)'
  BY StepType DEF SingleInv
<1>1. ASSUME NEW b \in Backup, Begin(b) \/ RunStep(b)
      PROVE  OneRunAtATime' /\ \A c \in Backup : StoppedSoFar(c)' /\ RotationRests(c)'
  <2>1. /\ \A c \in Backup \ {b} : ~InProgress(c) /\ pc'[c] = pc[c]
        /\ UNCHANGED <<pods, home>>
    BY <1>1, RunAlone DEF SingleInv
  <2>2. \A c \in Backup \ {b} : ~InProgress(c)'
    BY <2>1 DEF InProgress
  <2>3. \A c \in Backup \ {b} : StoppedSoFar(c)' /\ RotationRests(c)'
    BY <2>2 DEF InProgress, StoppedSoFar, RotationRests, Window
  <2>4. StoppedSoFar(b)' /\ RotationRests(b)'
    BY <1>1, <2>1, OutsideStep, StoppingStep, ResumingStep DEF SingleInv, RunStep
  <2> QED
    BY <2>2, <2>3, <2>4 DEF OneRunAtATime
<1>2. CASE \/ \E p \in Replica : RotationBegin(p) \/ RotationEnd(p) \/ Restart(p)
           \/ \E w \in Workload : PodsFollow(w)
           \/ UNCHANGED vars
  BY <1>2, SingleOthers
<1> QED
  BY <1>1, <1>2 DEF Next

LEMMA SingleInvariance == ASSUME OneProcess PROVE Spec => []SingleInv
<1>1. Init => SingleInv
  BY InitType DEF Init, SingleInv, OneRunAtATime, InProgress, StoppedSoFar, RotationRests, Window
<1> QED
  BY <1>1, SingleStep, PTL DEF Spec

(* With one process and no request beside its scheduler, no pod of a       *)
(* workload the run has stopped is there while its volumes are copied      *)
(* (tick's inFlight flag, WaitStopped, archiveVolumes).                    *)
THEOREM CopiesAreCold == ASSUME OneProcess PROVE Spec => []ColdVolumes
<1>1. SingleInv => ColdVolumes
  BY DEF SingleInv, StoppedSoFar, ColdVolumes
<1> QED
  BY <1>1, SingleInvariance, PTL

(* With one process and no request beside its scheduler, no rotation       *)
(* begins in the window of a backup (PauseRotation, runIteration).         *)
THEOREM RotationWaits == ASSUME OneProcess PROVE Spec => NoRotationBeginsInWindow
<1>1. SingleInv /\ [Next]_vars
      => [(\E b \in Backup : Window(b)) => \A p \in Replica : rotating'[p] => rotating[p]]_vars
  <2> SUFFICES ASSUME SingleInv, Next, NEW b \in Backup, Window(b), NEW p \in Replica, rotating'[p]
               PROVE  rotating[p]
    OBVIOUS
  <2>1. p = home[b] /\ paused[p]
    BY DEF OneProcess, SingleInv, RotationRests, IndType, TypeOK
  <2>2. ASSUME NEW c \in Backup, Begin(c) \/ RunStep(c) PROVE rotating' = rotating
    BY <2>2 DEF Begin, Open, RunStep, Preflight, DumpResources, ListWorkloads,
         PauseRotation, ScaleDown, AllDown, WaitStopped, ArchiveVolumes, ScaleUp, AllUp,
         ResumeRotation, ExportKV, DumpDB, FinishRun, rotVars
  <2>3. ASSUME NEW q \in Replica, RotationBegin(q) PROVE FALSE
    BY <2>1, <2>3 DEF OneProcess, RotationBegin
  <2>4. ASSUME NEW q \in Replica, RotationEnd(q) \/ Restart(q) PROVE rotating[p]
    BY <2>4 DEF RotationEnd, Restart, SingleInv, IndType, TypeOK
  <2>5. ASSUME NEW w \in Workload, PodsFollow(w) PROVE rotating' = rotating
    BY <2>5 DEF PodsFollow, rotVars
  <2> QED
    BY <2>2, <2>3, <2>4, <2>5 DEF Next
<1> QED
  BY <1>1, SingleInvariance, PTL DEF Spec, NoRotationBeginsInWindow
=============================================================================
