---------------------------- MODULE BackupWindow ----------------------------
(***************************************************************************)
(* Cold backups of one namespace (internal/backup): the window in which    *)
(* the workloads are scaled to zero so that their volumes can be copied,   *)
(* the schedulers and requests that start runs, and the token rotation     *)
(* (internal/admin/scheduler) that a run pauses for the length of its      *)
(* window.                                                                 *)
(*                                                                         *)
(* Every API replica has a backup scheduler and a rotation scheduler of    *)
(* its own; the pause flag and the guard against a second scheduled run    *)
(* live in the memory of the replica.                                      *)
(*                                                                         *)
(* Workloads are positions in the list of the Scaler.  "resources" stands  *)
(* for the two resource dumps of a run, "db" for its two databases.        *)
(***************************************************************************)
EXTENDS Integers, FiniteSetsExt

CONSTANTS
    Replica,      \* API processes
    Backup,       \* backup runs
    Manual,       \* those a request starts, the others are scheduled
    Scopes,       \* the sets of components that are asked for
    W,            \* how many workloads the namespace has
    Configured,   \* the replicas each was given by its owner
    MaxFaults,    \* bound: calls of the cluster, store or vault that fail
    MaxRestarts   \* bound: restarts of an API process

Component == {"resources", "volume", "kv", "db"}

ASSUME ManualAssumption   == Manual \subseteq Backup
ASSUME ScopesAssumption   == Scopes \subseteq (SUBSET Component) \ {{}}
ASSUME WorkloadAssumption == W \in Nat /\ Configured \in [1 .. W -> Nat]
ASSUME BudgetAssumption   == MaxFaults \in Nat /\ MaxRestarts \in Nat

VARIABLES
    spec,     \* spec.replicas of each workload
    pods,     \* status.replicas of each workload
    pc,       \* where each run is
    home,     \* the process it runs in
    scope,    \* the components it was asked for
    plan,     \* its QuiescePlan: the replicas to give back, 0 for no target
    todo,     \* targets its present loop has still to scale
    ok,       \* components it has taken
    broken,   \* an error has ended its execution
    status,   \* backup_runs.status
    manual,   \* workloads it has logged as in need of manual action
    paused,   \* TokenRotationScheduler.paused of each process
    rotating, \* its rotation iteration is running
    faults, restarts

clusterVars == <<spec, pods>>
runVars     == <<pc, home, scope, plan, todo, ok, broken, status, manual>>
rotVars     == <<paused, rotating>>
vars        == <<clusterVars, runVars, rotVars, faults, restarts>>

Workload == 1 .. W

(* wrong variant: every workload is a target and comes back with a replica *)
PlanAll(replicas) == [w \in Workload |-> IF replicas[w] = 0 THEN 1 ELSE replicas[w]]

(* NewQuiescePlan: a workload that is at zero is no target                 *)
NewQuiescePlan(replicas) == [w \in Workload |-> replicas[w]]
NoPlan                   == [w \in Workload |-> 0]

Targets(p) == {w \in Workload : p[w] > 0}

InProgress(b) == pc[b] \notin {"idle", "done", "lost"}

(* the deferred half of withQuiesce has been armed and has not ended       *)
Window(b) == pc[b] \in {"down", "wait", "archive_cold", "up", "unpause"}

Init ==
    /\ spec = Configured /\ pods = Configured
    /\ pc = [b \in Backup |-> "idle"] /\ home \in [Backup -> Replica]
    /\ scope = [b \in Backup |-> {}]
    /\ plan = [b \in Backup |-> NoPlan] /\ todo = [b \in Backup |-> {}]
    /\ ok = [b \in Backup |-> {}] /\ broken = [b \in Backup |-> FALSE]
    /\ status = [b \in Backup |-> "none"] /\ manual = [b \in Backup |-> {}]
    /\ paused = [p \in Replica |-> FALSE] /\ rotating = [p \in Replica |-> FALSE]
    /\ faults = 0 /\ restarts = 0

Fault   == faults < MaxFaults /\ faults' = faults + 1
NoFault == UNCHANGED faults

Go(b, next) == pc' = [pc EXCEPT ![b] = next]

-----------------------------------------------------------------------------
(* A run: BackupUseCase.Run and execute                                    *)

Open(b, components) ==
    /\ pc[b] = "idle"
    /\ scope' = [scope EXCEPT ![b] = components]
    /\ status' = [status EXCEPT ![b] = "running"]
    /\ Go(b, "preflight")
    /\ UNCHANGED <<clusterVars, home, plan, todo, ok, broken, manual, rotVars, faults, restarts>>

(* wrong variant: the scheduler has no inFlight flag *)
BeginAnyway(b) == \E components \in Scopes : Open(b, components)

(* the inFlight flag of tick; a request is under no such guard             *)
Begin(b) ==
    /\ b \notin Manual => \A c \in Backup \ Manual : home[c] = home[b] => ~InProgress(c)
    /\ \E components \in Scopes : Open(b, components)

(* an error that Run turns into a failed run *)
Abort(b) ==
    /\ Fault /\ Go(b, "finish") /\ broken' = [broken EXCEPT ![b] = TRUE]

(* the list of volumes and the destination, before anything is stopped     *)
Preflight(b) ==
    /\ pc[b] = "preflight"
    /\ \/ Go(b, "resources") /\ NoFault /\ UNCHANGED broken
       \/ Abort(b)
    /\ UNCHANGED <<clusterVars, home, scope, plan, todo, ok, status, manual, rotVars, restarts>>

(* one component; a failure is a result of the run and does not end it     *)
Take(b, component, next) ==
    /\ Go(b, next)
    /\ \/ ok' = [ok EXCEPT ![b] = @ \cup (scope[b] \cap {component})] /\ NoFault
       \/ component \in scope[b] /\ Fault /\ UNCHANGED ok

DumpResources(b) ==
    /\ pc[b] = "resources"
    /\ Take(b, "resources", IF "volume" \in scope[b] THEN "list" ELSE "kv")
    /\ UNCHANGED <<clusterVars, home, scope, plan, todo, broken, status, manual, rotVars, restarts>>

(* Scaler.List and the plan; without a target no window is opened          *)
ListWorkloads(b) ==
    LET p == NewQuiescePlan(spec)
    IN  /\ pc[b] = "list"
        /\ \/ /\ plan' = [plan EXCEPT ![b] = p]
              /\ Go(b, IF Targets(p) = {} THEN "archive" ELSE "pause")
              /\ NoFault /\ UNCHANGED broken
           \/ Abort(b) /\ UNCHANGED plan
        /\ UNCHANGED <<clusterVars, home, scope, todo, ok, status, manual, rotVars, restarts>>

PauseRotation(b) ==
    /\ pc[b] = "pause"
    /\ paused' = [paused EXCEPT ![home[b]] = TRUE]
    /\ todo' = [todo EXCEPT ![b] = Targets(plan[b])]
    /\ Go(b, "down")
    /\ UNCHANGED <<clusterVars, home, scope, plan, ok, broken, status, manual, rotating, faults, restarts>>

(* the deferred resume takes every target of the plan; wrong variants:     *)
(* every workload; nothing, because the resume is not deferred             *)
ResumeAll(b) ==
    /\ Go(b, "up") /\ todo' = [todo EXCEPT ![b] = Workload]

ResumeNone(b) ==
    /\ Go(b, "unpause") /\ todo' = [todo EXCEPT ![b] = {}]

Resume(b) ==
    /\ Go(b, "up") /\ todo' = [todo EXCEPT ![b] = Targets(plan[b])]

(* one Scale to zero, in the order of the list *)
ScaleDown(b) ==
    /\ pc[b] = "down" /\ todo[b] # {}
    /\ LET w == Min(todo[b])
       IN  \/ /\ spec' = [spec EXCEPT ![w] = 0]
              /\ todo' = [todo EXCEPT ![b] = @ \ {w}]
              /\ NoFault /\ UNCHANGED <<pc, broken>>
           \/ /\ Fault /\ Resume(b)
              /\ broken' = [broken EXCEPT ![b] = TRUE] /\ UNCHANGED spec
    /\ UNCHANGED <<pods, home, scope, plan, ok, status, manual, rotVars, restarts>>

AllDown(b) ==
    /\ pc[b] = "down" /\ todo[b] = {}
    /\ Go(b, "wait")
    /\ UNCHANGED <<clusterVars, home, scope, plan, todo, ok, broken, status, manual, rotVars, faults, restarts>>

(* wrong variant: the desired replicas are looked at *)
StoppedInSpec(b) == \A w \in Targets(plan[b]) : spec[w] = 0

Stopped(b) == \A w \in Targets(plan[b]) : pods[w] = 0

(* until no pod of a target is left, or five minutes have passed *)
WaitStopped(b) ==
    /\ pc[b] = "wait"
    /\ \/ Stopped(b) /\ Go(b, "archive_cold") /\ NoFault /\ UNCHANGED <<todo, broken>>
       \/ Fault /\ Resume(b) /\ broken' = [broken EXCEPT ![b] = TRUE]
    /\ UNCHANGED <<clusterVars, home, scope, plan, ok, status, manual, rotVars, restarts>>

(* the end of archiveVolumes *)
ArchiveVolumes(b) ==
    /\ \/ pc[b] = "archive" /\ Take(b, "volume", "kv") /\ UNCHANGED todo
       \/ pc[b] = "archive_cold" /\ Take(b, "volume", "up")
          /\ todo' = [todo EXCEPT ![b] = Targets(plan[b])]
    /\ UNCHANGED <<clusterVars, home, scope, plan, broken, status, manual, rotVars, restarts>>

(* wrong variant: the first failure ends the loop *)
ScaleUpUntilError(b) ==
    /\ pc[b] = "up" /\ todo[b] # {}
    /\ LET w == Max(todo[b])
       IN  \/ /\ spec' = [spec EXCEPT ![w] = plan[b][w]]
              /\ todo' = [todo EXCEPT ![b] = @ \ {w}] /\ NoFault /\ UNCHANGED manual
           \/ /\ Fault /\ manual' = [manual EXCEPT ![b] = @ \cup {w}]
              /\ todo' = [todo EXCEPT ![b] = {}] /\ UNCHANGED spec
    /\ UNCHANGED <<pods, pc, home, scope, plan, ok, broken, status, rotVars, restarts>>

(* ResumeOrder: backwards; a failure is logged and the rest goes on *)
ScaleUp(b) ==
    /\ pc[b] = "up" /\ todo[b] # {}
    /\ LET w == Max(todo[b])
       IN  /\ todo' = [todo EXCEPT ![b] = @ \ {w}]
           /\ \/ spec' = [spec EXCEPT ![w] = plan[b][w]] /\ NoFault /\ UNCHANGED manual
              \/ Fault /\ manual' = [manual EXCEPT ![b] = @ \cup {w}] /\ UNCHANGED spec
    /\ UNCHANGED <<pods, pc, home, scope, plan, ok, broken, status, rotVars, restarts>>

AllUp(b) ==
    /\ pc[b] = "up" /\ todo[b] = {}
    /\ Go(b, "unpause")
    /\ UNCHANGED <<clusterVars, home, scope, plan, todo, ok, broken, status, manual, rotVars, faults, restarts>>

(* Pauser.Resume, the end of the window *)
ResumeRotation(b) ==
    /\ pc[b] = "unpause"
    /\ paused' = [paused EXCEPT ![home[b]] = FALSE]
    /\ Go(b, IF broken[b] THEN "finish" ELSE "kv")
    /\ UNCHANGED <<clusterVars, home, scope, plan, todo, ok, broken, status, manual, rotating, faults, restarts>>

(* the vault before the databases; they are not part of the window *)
ExportKV(b) ==
    /\ pc[b] = "kv"
    /\ Take(b, "kv", "db")
    /\ UNCHANGED <<clusterVars, home, scope, plan, todo, broken, status, manual, rotVars, restarts>>

DumpDB(b) ==
    /\ pc[b] = "db"
    /\ Take(b, "db", "finish")
    /\ UNCHANGED <<clusterVars, home, scope, plan, todo, broken, status, manual, rotVars, restarts>>

(* Fail, or Complete *)
Result(b) ==
    CASE broken[b] \/ ok[b] = {} -> "failed"
      [] ok[b] = scope[b]        -> "succeeded"
      [] OTHER                   -> "partial"

(* an error of the last UpdateRun is only logged *)
FinishRun(b) ==
    /\ pc[b] = "finish"
    /\ Go(b, "done")
    /\ \/ status' = [status EXCEPT ![b] = Result(b)] /\ NoFault
       \/ Fault /\ UNCHANGED status
    /\ UNCHANGED <<clusterVars, home, scope, plan, todo, ok, broken, manual, rotVars, restarts>>

RunStep(b) ==
    \/ Preflight(b) \/ DumpResources(b) \/ ListWorkloads(b) \/ PauseRotation(b)
    \/ ScaleDown(b) \/ AllDown(b) \/ WaitStopped(b) \/ ArchiveVolumes(b)
    \/ ScaleUp(b) \/ AllUp(b) \/ ResumeRotation(b)
    \/ ExportKV(b) \/ DumpDB(b) \/ FinishRun(b)

-----------------------------------------------------------------------------
(* TokenRotationScheduler: an iteration that has begun goes on to its end  *)

RotationBegin(p) ==
    /\ ~paused[p] /\ ~rotating[p]
    /\ rotating' = [rotating EXCEPT ![p] = TRUE]
    /\ UNCHANGED <<clusterVars, runVars, paused, faults, restarts>>

RotationEnd(p) ==
    /\ rotating[p] /\ rotating' = [rotating EXCEPT ![p] = FALSE]
    /\ UNCHANGED <<clusterVars, runVars, paused, faults, restarts>>

-----------------------------------------------------------------------------
(* The cluster, and an API process that is replaced                        *)

PodsFollow(w) ==
    /\ pods[w] # spec[w]
    /\ pods' = [pods EXCEPT ![w] = spec[w]]
    /\ UNCHANGED <<spec, runVars, rotVars, faults, restarts>>

Restart(p) ==
    /\ restarts < MaxRestarts /\ restarts' = restarts + 1
    /\ pc' = [b \in Backup |-> IF home[b] = p /\ InProgress(b) THEN "lost" ELSE pc[b]]
    /\ paused' = [paused EXCEPT ![p] = FALSE] /\ rotating' = [rotating EXCEPT ![p] = FALSE]
    /\ UNCHANGED <<clusterVars, home, scope, plan, todo, ok, broken, status, manual, faults>>

Next ==
    \/ \E b \in Backup : Begin(b) \/ RunStep(b)
    \/ \E p \in Replica : RotationBegin(p) \/ RotationEnd(p) \/ Restart(p)
    \/ \E w \in Workload : PodsFollow(w)

Spec == Init /\ [][Next]_vars

(* calls have time limits; controllers follow the replicas asked for *)
Fairness ==
    /\ \A b \in Backup : WF_vars(RunStep(b))
    /\ \A p \in Replica : WF_vars(RotationEnd(p))
    /\ \A w \in Workload : WF_vars(PodsFollow(w))

FairSpec == Spec /\ Fairness

-----------------------------------------------------------------------------
(* Properties                                                              *)

RunPc == {"idle", "preflight", "resources", "list", "pause", "down", "wait", "archive_cold",
          "archive", "up", "unpause", "kv", "db", "finish", "done", "lost"}

(* Every variable holds a value of its kind, and a run scales only the     *)
(* workloads of its plan (withQuiesce).                                    *)
TypeOK ==
    /\ spec \in [Workload -> Nat] /\ pods \in [Workload -> Nat]
    /\ pc \in [Backup -> RunPc] /\ home \in [Backup -> Replica]
    /\ scope \in [Backup -> SUBSET Component] /\ ok \in [Backup -> SUBSET Component]
    /\ plan \in [Backup -> [Workload -> Nat]]
    /\ todo \in [Backup -> SUBSET Workload] /\ \A b \in Backup : todo[b] \subseteq Targets(plan[b])
    /\ broken \in [Backup -> BOOLEAN]
    /\ status \in [Backup -> {"none", "running", "succeeded", "partial", "failed"}]
    /\ manual \in [Backup -> SUBSET Workload]
    /\ paused \in [Replica -> BOOLEAN] /\ rotating \in [Replica -> BOOLEAN]
    /\ faults \in 0 .. MaxFaults /\ restarts \in 0 .. MaxRestarts

(* A backup never leaves a workload with replicas its owner did not give   *)
(* it: a workload that was off stays off, also when windows overlap or a   *)
(* plan was made in the middle of another window (NewQuiescePlan).         *)
OwnReplicasOrNone == \A w \in Workload : spec[w] \in {0, Configured[w]}

(* No pod of a workload the run has stopped writes to a volume while the   *)
(* volumes are copied: that is what makes the backup a cold one            *)
(* (WaitStopped, archiveVolumes).                                          *)
ColdVolumes ==
    \A b \in Backup : pc[b] = "archive_cold" => \A w \in Targets(plan[b]) : pods[w] = 0

(* A run has asked for manual action, or was lost to a restart and nobody  *)
(* knows any more what the workload had                                    *)
GivenUp(w) == \E b \in Backup : w \in manual[b] \/ (pc[b] = "lost" /\ w \in Targets(plan[b]))

(* When no window is open, every workload has its replicas back, whichever *)
(* call failed on the way, unless it is reported or its run was lost (the  *)
(* deferred resume of withQuiesce).                                        *)
WorkloadsBack ==
    (\A b \in Backup : ~Window(b)) => \A w \in Workload : spec[w] = Configured[w] \/ GivenUp(w)

(* No rotation begins while a window is open (Pauser, runIteration).       *)
NoRotationBeginsInWindow ==
    [][(\E b \in Backup : Window(b)) => \A p \in Replica : rotating'[p] => rotating[p]]_vars

(* A workload a backup has stopped runs again, or is given up: the window  *)
(* does not stay open (withQuiesce, resumeTimeout).                        *)
WindowCloses ==
    \A w \in Workload : (pods[w] # Configured[w]) ~> (pods[w] = Configured[w] \/ GivenUp(w))
=============================================================================
