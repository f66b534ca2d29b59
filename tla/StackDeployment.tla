-------------------------- MODULE StackDeployment --------------------------
(***************************************************************************)
(* One stack of internal/stack: its row in the database, the requests that *)
(* launch an installation (deploy, retry, continue) or change what is      *)
(* configured (values editor, update, import), the goroutines that run it, *)
(* the heartbeat that keeps the row fresh, the reaper that closes          *)
(* installations whose goroutine is gone, and the deletion of the stack.   *)
(*                                                                         *)
(* Every actor works on its own copy of the row and writes the whole row   *)
(* back (PostgresStackRepository.Update has no version check), so each     *)
(* read and each write of the database is a step of its own.               *)
(*                                                                         *)
(* Steps are positions: 0 is "validate", 1 .. N the entries of             *)
(* InstallStepOrder, N + 1 "configuring", N + 2 "health_check", and Blank  *)
(* the empty string.                                                       *)
(***************************************************************************)
EXTENDS Integers, StackStates

CONSTANTS
    Runner,          \* goroutines that can run InstallStack.run
    Request,         \* HTTP requests that may be in progress at once
    Reaper,          \* API replicas, each with its reaper ticker
    Deleter,         \* delete requests (and their detached cleanup)
    N,               \* how many install steps the DAG has
    Selected,        \* the steps whose tool the stack selected
    Edits,           \* where a changed configuration starts over; 0: only saved
    StaleThreshold,  \* StaleInstallThreshold, in ticks
    HeartbeatEvery,  \* installHeartbeatInterval, in ticks
    MaxMissed        \* bound: heartbeats of one run that fail in a row

ASSUME CountAssumption     == N \in Nat /\ Selected \subseteq 1 .. N
ASSUME EditAssumption      == Edits \subseteq 0 .. N
ASSUME ThresholdAssumption == StaleThreshold \in Nat \ {0}
ASSUME HeartbeatAssumption == HeartbeatEvery \in Nat \ {0} /\ MaxMissed \in Nat

VARIABLES
    row,      \* the stacks row: state and the three step columns
    deleted,  \* deleted_at IS NOT NULL
    age,      \* ticks since updated_at, capped at StaleThreshold
    done,     \* steps whose resources stand on the cluster
    pc,       \* where each install goroutine is
    mem,      \* the *domain.Stack each goroutine holds
    pos,      \* the next install step of each goroutine
    beat,     \* ticks since the goroutine's ticker last fired
    missed,   \* its heartbeats that failed in a row
    reqPc,    \* where each request is
    reqMem,   \* the *domain.Stack it read
    resume,   \* its ResumeFromStep
    kind,     \* deploy (a retry becomes one) or continue
    snap,     \* what each reaper took from ListInFlight, or NoSnap
    delPc,    \* where each deletion is
    delMem    \* the *domain.Stack it read

rowVars == <<row, deleted, age>>
runVars == <<pc, mem, pos, beat, missed>>
reqVars == <<reqPc, reqMem, resume, kind>>
delVars == <<delPc, delMem>>
vars == <<rowVars, done, runVars, reqVars, snap, delVars>>

Blank        == -1
ValidateStep == 0
Configuring  == N + 1
HealthCheck  == N + 2
Install      == 1 .. N
Position     == Blank .. N + 2

Stack == [state : State, current : Position, completed : Position, failed : Position]
Fresh == [state |-> "pending", current |-> Blank, completed |-> Blank, failed |-> Blank]

FirstNonBlank(a, b) == IF a # Blank THEN a ELSE b

Live(r) == pc[r] # "idle"

(* wrong variants: a threshold no longer than the heartbeat; one state only *)
StaleTooSoon      == row.state \in InFlight /\ age >= HeartbeatEvery
StaleOneStateOnly == row.state = "installing" /\ age >= StaleThreshold

(* IsStaleInstall *)
Stale == row.state \in InFlight /\ age >= StaleThreshold

Init ==
    /\ row = Fresh /\ deleted = FALSE /\ age = 0
    /\ done = {}
    /\ pc = [r \in Runner |-> "idle"] /\ mem = [r \in Runner |-> Fresh]
    /\ pos = [r \in Runner |-> 1]
    /\ beat = [r \in Runner |-> 0] /\ missed = [r \in Runner |-> 0]
    /\ reqPc = [q \in Request |-> "idle"] /\ reqMem = [q \in Request |-> Fresh]
    /\ resume = [q \in Request |-> Blank] /\ kind = [q \in Request |-> "deploy"]
    /\ snap = [p \in Reaper |-> Fresh]
    /\ delPc = [d \in Deleter |-> "idle"] /\ delMem = [d \in Deleter |-> Fresh]

-----------------------------------------------------------------------------
(* The database.  Any call may fail, and one that fails changes nothing.   *)

(* wrong variant: the row is written back although it was deleted *)
SaveDeletedToo(m, ok) ==
    /\ UNCHANGED deleted
    /\ \/ ok /\ row' = m /\ age' = 0
       \/ ~ok /\ UNCHANGED <<row, age>>

(* Update writes the whole row; its only guard is deleted_at IS NULL *)
Save(m, ok) ==
    /\ UNCHANGED deleted
    /\ \/ ok /\ ~deleted /\ row' = m /\ age' = 0
       \/ ~ok /\ UNCHANGED <<row, age>>

-----------------------------------------------------------------------------
(* Requests: Deploy, Retry and Continue, and InstallStack.Execute          *)

EndRequest(q) ==
    /\ reqPc' = [reqPc EXCEPT ![q] = "idle"] /\ reqMem' = [reqMem EXCEPT ![q] = Fresh]
    /\ resume' = [resume EXCEPT ![q] = Blank] /\ kind' = [kind EXCEPT ![q] = "deploy"]

GoRequest(q, next, m) ==
    /\ reqPc' = [reqPc EXCEPT ![q] = next] /\ reqMem' = [reqMem EXCEPT ![q] = m]

(* Deploy looks at the row only inside Execute *)
Deploy(q) ==
    /\ reqPc[q] = "idle"
    /\ GoRequest(q, "get", Fresh)
    /\ UNCHANGED <<rowVars, done, runVars, resume, kind, snap, delVars>>

(* Retry checks the state it read before the gate and writes that copy back *)
Retry(q) ==
    /\ reqPc[q] = "idle" /\ ~deleted /\ row.state \in {"failed", "rolled_back"}
    /\ GoRequest(q, "rewind", [row EXCEPT !.state = "pending"])
    /\ UNCHANGED <<rowVars, done, runVars, resume, kind, snap, delVars>>

RetryRewind(q) ==
    /\ reqPc[q] = "rewind"
    /\ \E ok \in BOOLEAN :
          /\ Save(reqMem[q], ok)
          /\ IF ok THEN GoRequest(q, "get", Fresh) /\ UNCHANGED <<resume, kind>>
                   ELSE EndRequest(q)
    /\ UNCHANGED <<done, runVars, snap, delVars>>

Continue(q) ==
    /\ reqPc[q] = "idle" /\ ~deleted /\ row.state \in {"failed", "pending"}
    /\ GoRequest(q, "get", Fresh)
    /\ resume' = [resume EXCEPT ![q] = FirstNonBlank(row.failed, row.current)]
    /\ kind' = [kind EXCEPT ![q] = "continue"]
    /\ UNCHANGED <<rowVars, done, runVars, snap, delVars>>

(* The values editor, a saved or rolled-back configuration and an import   *)
(* read the row, work for as long as Helm takes and write that copy back.  *)
Edit(q) ==
    /\ reqPc[q] = "idle" /\ ~deleted /\ Edits # {}
    /\ GoRequest(q, "edit", row)
    /\ UNCHANGED <<rowVars, done, runVars, resume, kind, snap, delVars>>

(* triggerImportDeploy: pending, whatever the state, from the first step   *)
(* the changes concern                                                     *)
Reapply(q, s) ==
    /\ GoRequest(q, "rewind", [reqMem[q] EXCEPT !.state = "pending", !.current = s, !.failed = s])
    /\ resume' = [resume EXCEPT ![q] = s] /\ kind' = [kind EXCEPT ![q] = "continue"]

EditSave(q) ==
    /\ reqPc[q] = "edit"
    /\ \/ \E ok \in BOOLEAN : Save(reqMem[q], ok) /\ EndRequest(q)
       \/ \E s \in Edits \cap Install : Save(reqMem[q], TRUE) /\ Reapply(q, s)
       \/ EndRequest(q) /\ UNCHANGED rowVars
    /\ UNCHANGED <<done, runVars, snap, delVars>>

(* Execute reads the row again; a fresh run forgets the recorded steps *)
ExecuteGet(q) ==
    /\ reqPc[q] = "get"
    /\ \/ /\ kind[q] = "continue" /\ ~deleted
          /\ resume' = [resume EXCEPT ![q] =
                 FirstNonBlank(@, FirstNonBlank(row.failed, row.current))]
          /\ \/ row.state = "failed" /\ GoRequest(q, "to_pending", [row EXCEPT !.state = "pending"])
             \/ row.state = "pending" /\ GoRequest(q, "to_validating", [row EXCEPT !.state = "validating"])
          /\ UNCHANGED kind
       \/ /\ kind[q] = "deploy" /\ ~deleted /\ "validating" \in Allowed[row.state]
          /\ GoRequest(q, "to_validating", [Fresh EXCEPT !.state = "validating"])
          /\ UNCHANGED <<resume, kind>>
       \/ EndRequest(q)   \* deleted, not in a state to install, or not readable
    /\ UNCHANGED <<rowVars, done, runVars, snap, delVars>>

ExecuteRewind(q) ==
    /\ reqPc[q] = "to_pending"
    /\ \E ok \in BOOLEAN :
          /\ Save(reqMem[q], ok)
          /\ IF ok THEN /\ GoRequest(q, "to_validating", [reqMem[q] EXCEPT !.state = "validating"])
                        /\ UNCHANGED <<resume, kind>>
                   ELSE EndRequest(q)
    /\ UNCHANGED <<done, runVars, snap, delVars>>

(* wrong variants: past the DAG; after the recorded step *)
FirstStepUncapped(from) == IF from \in {Blank, ValidateStep} THEN 1 ELSE from
FirstStepAfter(from)    == IF from \in 0 .. N THEN from + 1 ELSE IF from = Blank THEN 1 ELSE N + 1

(* the first step runPhases does not skip *)
FirstStep(from) ==
    IF from \in {Blank, ValidateStep} THEN 1
    ELSE IF from \in Install THEN from ELSE N + 1

(* the last write of Execute, then go uc.run(...) *)
ExecuteLaunch(q) ==
    /\ reqPc[q] = "to_validating"
    /\ \/ /\ Save(reqMem[q], TRUE)
          /\ \E r \in Runner :
               /\ pc[r] = "idle"
               /\ pc' = [pc EXCEPT ![r] = "validate"] /\ mem' = [mem EXCEPT ![r] = reqMem[q]]
               /\ pos' = [pos EXCEPT ![r] = FirstStep(resume[q])]
               /\ beat' = [beat EXCEPT ![r] = 0] /\ missed' = [missed EXCEPT ![r] = 0]
       \/ Save(reqMem[q], FALSE) /\ UNCHANGED runVars
    /\ EndRequest(q)
    /\ UNCHANGED <<done, snap, delVars>>

-----------------------------------------------------------------------------
(* The goroutine: InstallStack.run.  Each action holds at most one call of *)
(* the database.                                                           *)

Go(r, next, m) ==
    /\ pc' = [pc EXCEPT ![r] = next] /\ mem' = [mem EXCEPT ![r] = m]
    /\ UNCHANGED <<pos, beat, missed>>

(* the goroutine returns, its heartbeat stops *)
End(r) ==
    /\ pc' = [pc EXCEPT ![r] = "idle"] /\ mem' = [mem EXCEPT ![r] = Fresh]
    /\ pos' = [pos EXCEPT ![r] = 1]
    /\ beat' = [beat EXCEPT ![r] = 0] /\ missed' = [missed EXCEPT ![r] = 0]

Started(m, s) ==
    [m EXCEPT !.current = s, !.failed = IF @ = s THEN Blank ELSE @]

Finished(m, s) == [Started(m, s) EXCEPT !.completed = s]

(* wrong variant: the step after the one that failed *)
BrokenAfter(m, s) == [m EXCEPT !.current = s, !.failed = s + 1]

Broken(m, s) == [m EXCEPT !.current = s, !.failed = s]

(* markStepStarted, markStepCompleted, markStepFailed: errors only logged *)
Mark(r, at, m, next) ==
    /\ pc[r] = at
    /\ \E ok \in BOOLEAN : Save(m, ok)
    /\ Go(r, next, m)
    /\ UNCHANGED <<done, reqVars, snap, delVars>>

(* transition: the copy moves even when the write then fails *)
Transition(r, at, state, next) ==
    LET m == [mem[r] EXCEPT !.state = state]
    IN  /\ pc[r] = at
        /\ IF state \in Allowed[mem[r].state]
           THEN \E ok \in BOOLEAN :
                   Save(m, ok) /\ Go(r, IF ok THEN next ELSE "failing", m)
           ELSE UNCHANGED rowVars /\ Go(r, "failing", mem[r])
        /\ UNCHANGED <<done, reqVars, snap, delVars>>

(* wrong variant: the row is looked at, deleted_at is not *)
EnsureNotFailed(r, next) ==
    /\ IF row.state \in {"cancelled", "rolling_back", "rolled_back", "failed"}
       THEN End(r) ELSE Go(r, next, mem[r])
    /\ UNCHANGED <<rowVars, done, reqVars, snap, delVars>>

(* ensureDeploymentActive *)
EnsureActive(r, next) ==
    /\ \/ /\ deleted \/ row.state \in {"cancelled", "rolling_back", "rolled_back", "failed"}
          /\ End(r)
       \/ /\ ~deleted /\ row.state \notin {"cancelled", "rolling_back", "rolled_back", "failed"}
          /\ Go(r, next, mem[r])
       \/ Go(r, "failing", mem[r])
    /\ UNCHANGED <<rowVars, done, reqVars, snap, delVars>>

StartValidate(r)  == Mark(r, "validate", Started(mem[r], ValidateStep), "preflight")

Preflight(r) ==
    /\ pc[r] = "preflight"
    /\ \E next \in {"validated", "preflight_record", "failing"} :
          /\ next = "preflight_record" => mem[r].failed # Blank
          /\ Go(r, next, mem[r])
    /\ UNCHANGED <<rowVars, done, reqVars, snap, delVars>>

RecordPreflight(r) == Mark(r, "preflight_record", mem[r], "failing")
FinishValidate(r)  == Mark(r, "validated", Finished(mem[r], ValidateStep), "to_installing")
ToInstalling(r)    == Transition(r, "to_installing", "installing", "check")

(* a step whose tool is not selected runs without being recorded *)
CheckStep(r) ==
    /\ pc[r] = "check" /\ pos[r] \in Install
    /\ EnsureActive(r, IF pos[r] \in Selected THEN "start" ELSE "execute")

StartStep(r) == Mark(r, "start", Started(mem[r], pos[r]), "execute")

ExecuteStep(r) ==
    /\ pc[r] = "execute"
    /\ done' = done \cup {pos[r]}
    /\ IF pos[r] \in Selected
       THEN Go(r, "recheck", mem[r])
       ELSE /\ pc' = [pc EXCEPT ![r] = "check"] /\ pos' = [pos EXCEPT ![r] = @ + 1]
            /\ UNCHANGED <<mem, beat, missed>>
    /\ UNCHANGED <<rowVars, reqVars, snap, delVars>>

FailStep(r) ==
    IF pos[r] \in Selected
    THEN Mark(r, "execute", Broken(mem[r], pos[r]), "failing")
    ELSE /\ pc[r] = "execute" /\ Go(r, "failing", mem[r])
         /\ UNCHANGED <<rowVars, done, reqVars, snap, delVars>>

(* an installed OpenBao that does not answer its health gate fails the run *)
RecheckStep(r) ==
    /\ pc[r] = "recheck"
    /\ \/ EnsureActive(r, "finish")
       \/ /\ Go(r, "failing", mem[r])
          /\ UNCHANGED <<rowVars, done, reqVars, snap, delVars>>

FinishStep(r) ==
    /\ pc[r] = "finish"
    /\ \E ok \in BOOLEAN : Save(Finished(mem[r], pos[r]), ok)
    /\ pc' = [pc EXCEPT ![r] = "check"] /\ pos' = [pos EXCEPT ![r] = @ + 1]
    /\ mem' = [mem EXCEPT ![r] = Finished(@, pos[r])]
    /\ UNCHANGED <<beat, missed, done, reqVars, snap, delVars>>

ToConfiguring(r) ==
    pos[r] = N + 1 /\ Transition(r, "check", "configuring", "configured")

FinishConfiguring(r) == Mark(r, "configured", Finished(mem[r], Configuring), "to_health_check")
ToHealthCheck(r)     == Transition(r, "to_health_check", "health_check", "probe_start")
StartProbe(r)        == Mark(r, "probe_start", Started(mem[r], HealthCheck), "probe")
PassProbe(r)         == Mark(r, "probe", Finished(mem[r], HealthCheck), "to_completed")

(* resumeStepForReadinessError sends the next run back to a release's step *)
FailProbe(r) ==
    \E s \in Selected \cup {HealthCheck} : Mark(r, "probe", Broken(mem[r], s), "failing")

ToCompleted(r) == Transition(r, "to_completed", "completed", "clear")

ClearSteps(r) ==
    /\ pc[r] = "clear"
    /\ \E ok \in BOOLEAN : Save([mem[r] EXCEPT !.current = Blank, !.failed = Blank], ok)
    /\ End(r)
    /\ UNCHANGED <<done, reqVars, snap, delVars>>

(* handleFailure: markStepFailed unless a step is already recorded ... *)
RecordFailure(r) ==
    IF mem[r].failed = Blank
    THEN Mark(r, "failing", Broken(mem[r], mem[r].current), "to_failed")
    ELSE /\ pc[r] = "failing" /\ Go(r, "to_failed", mem[r])
         /\ UNCHANGED <<rowVars, done, reqVars, snap, delVars>>

(* wrong variant: failed from any state *)
ToFailedAlways(r) ==
    /\ pc[r] = "to_failed"
    /\ \E ok \in BOOLEAN : Save([mem[r] EXCEPT !.state = "failed"], ok)
    /\ End(r)
    /\ UNCHANGED <<done, reqVars, snap, delVars>>

(* ... then the transition to failed, whose error is only logged *)
ToFailed(r) ==
    /\ pc[r] = "to_failed"
    /\ IF "failed" \in Allowed[mem[r].state]
       THEN \E ok \in BOOLEAN : Save([mem[r] EXCEPT !.state = "failed"], ok)
       ELSE UNCHANGED rowVars
    /\ End(r)
    /\ UNCHANGED <<done, reqVars, snap, delVars>>

RunnerStep(r) ==
    \/ StartValidate(r) \/ Preflight(r) \/ RecordPreflight(r) \/ FinishValidate(r)
    \/ ToInstalling(r) \/ CheckStep(r) \/ StartStep(r) \/ ExecuteStep(r) \/ FailStep(r)
    \/ RecheckStep(r) \/ FinishStep(r) \/ ToConfiguring(r) \/ FinishConfiguring(r)
    \/ ToHealthCheck(r) \/ StartProbe(r) \/ PassProbe(r) \/ FailProbe(r)
    \/ ToCompleted(r) \/ ClearSteps(r) \/ RecordFailure(r) \/ ToFailed(r)

-----------------------------------------------------------------------------
(* Time, the heartbeat and the reaper                                      *)

(* ticks are counted for the reapers, nobody else reads the time; one      *)
(* passes only after every ticker that is due has fired                    *)
Tick ==
    /\ Reaper # {}
    /\ \A r \in Runner : Live(r) => beat[r] < HeartbeatEvery
    /\ age' = IF age < StaleThreshold THEN age + 1 ELSE age
    /\ beat' = [r \in Runner |-> IF Live(r) THEN beat[r] + 1 ELSE 0]
    /\ UNCHANGED <<row, deleted, done, pc, mem, pos, missed, reqVars, snap, delVars>>

(* wrong variant: the touch is conditioned on the state being installing *)
HeartbeatInstallingOnly(r) ==
    /\ Live(r) /\ beat[r] = HeartbeatEvery
    /\ beat' = [beat EXCEPT ![r] = 0]
    /\ age' = IF deleted \/ row.state # "installing" THEN age ELSE 0
    /\ UNCHANGED <<row, deleted, done, pc, mem, pos, missed, reqVars, snap, delVars>>

(* TouchUpdatedAt has no state condition; its error is only logged *)
Heartbeat(r) ==
    /\ Live(r) /\ beat[r] = HeartbeatEvery
    /\ beat' = [beat EXCEPT ![r] = 0]
    /\ \/ /\ age' = IF deleted THEN age ELSE 0
          /\ missed' = [missed EXCEPT ![r] = 0]
       \/ /\ missed[r] < MaxMissed /\ missed' = [missed EXCEPT ![r] = @ + 1]
          /\ UNCHANGED age
    /\ UNCHANGED <<row, deleted, done, pc, mem, pos, reqVars, snap, delVars>>

(* ReapStaleInstalls.Run lists first ... *)
ReapList(p) ==
    /\ snap[p].state \notin InFlight
    /\ ~deleted /\ Stale
    /\ snap' = [snap EXCEPT ![p] = row]
    /\ UNCHANGED <<rowVars, done, runVars, reqVars, delVars>>

(* ... and writes the listed copy back as failed *)
ReapWrite(p) ==
    LET m == snap[p]
    IN  /\ m.state \in InFlight
        /\ \E ok \in BOOLEAN :
              Save([m EXCEPT !.state = "failed",
                             !.failed = FirstNonBlank(m.current, m.completed)], ok)
        /\ snap' = [snap EXCEPT ![p] = Fresh]
        /\ UNCHANGED <<done, runVars, reqVars, delVars>>

-----------------------------------------------------------------------------
(* DeleteStack.ExecuteAsync: the record first, the cluster afterwards      *)

GoDelete(d, next, m) ==
    /\ delPc' = [delPc EXCEPT ![d] = next] /\ delMem' = [delMem EXCEPT ![d] = m]

DeleteGet(d) ==
    /\ delPc[d] = "idle" /\ ~deleted
    /\ GoDelete(d, "cancel", [row EXCEPT !.state = "cancelled"])
    /\ UNCHANGED <<rowVars, done, runVars, reqVars, snap>>

DeleteCancel(d) ==
    /\ delPc[d] = "cancel"
    /\ \E ok \in BOOLEAN :
          Save(delMem[d], ok) /\ GoDelete(d, IF ok THEN "delete" ELSE "idle", Fresh)
    /\ UNCHANGED <<done, runVars, reqVars, snap>>

DeleteRow(d) ==
    /\ delPc[d] = "delete"
    /\ \/ ~deleted /\ deleted' = TRUE /\ GoDelete(d, "cleanup", Fresh)
       \/ UNCHANGED deleted /\ GoDelete(d, "idle", Fresh)
    /\ UNCHANGED <<row, age, done, runVars, reqVars, snap>>

(* cleanupCluster at its best: nothing of the stack is left behind *)
Cleanup(d) ==
    /\ delPc[d] = "cleanup"
    /\ done' = {}
    /\ GoDelete(d, "cleaned", Fresh)
    /\ UNCHANGED <<rowVars, runVars, reqVars, snap>>

-----------------------------------------------------------------------------
(* A restart of the API process ends what it was running, at any point.    *)

CrashRunner(r) ==
    /\ Live(r) /\ End(r)
    /\ UNCHANGED <<rowVars, done, reqVars, snap, delVars>>

CrashRequest(q) ==
    /\ reqPc[q] # "idle" /\ EndRequest(q)
    /\ UNCHANGED <<rowVars, done, runVars, snap, delVars>>

CrashDelete(d) ==
    /\ delPc[d] \notin {"idle", "cleaned"} /\ GoDelete(d, "idle", Fresh)
    /\ UNCHANGED <<rowVars, done, runVars, reqVars, snap>>

RequestStep(q) ==
    \/ RetryRewind(q) \/ EditSave(q) \/ ExecuteGet(q) \/ ExecuteRewind(q) \/ ExecuteLaunch(q)

DeleteStep(d) == DeleteCancel(d) \/ DeleteRow(d) \/ Cleanup(d)

Next ==
    \/ \E q \in Request : Deploy(q) \/ Retry(q) \/ Continue(q) \/ Edit(q)
                        \/ RequestStep(q) \/ CrashRequest(q)
    \/ \E r \in Runner : RunnerStep(r) \/ Heartbeat(r) \/ CrashRunner(r)
    \/ \E p \in Reaper : ReapList(p) \/ ReapWrite(p)
    \/ \E d \in Deleter : DeleteGet(d) \/ DeleteStep(d) \/ CrashDelete(d)
    \/ Tick

Spec == Init /\ [][Next]_vars

(* Goroutines are scheduled, every step returns (helm and kubectl calls    *)
(* have time limits), tickers fire and time passes; the database does not  *)
(* refuse a reaper that keeps trying for ever.  Users owe nothing.         *)
Fairness ==
    /\ \A r \in Runner : WF_vars(RunnerStep(r)) /\ WF_vars(Heartbeat(r))
    /\ \A q \in Request : WF_vars(RequestStep(q))
    /\ \A p \in Reaper :
          /\ WF_vars(ReapList(p)) /\ WF_vars(ReapWrite(p))
          /\ SF_vars(ReapWrite(p) /\ row'.state = "failed")
    /\ \A d \in Deleter : WF_vars(DeleteStep(d))
    /\ WF_vars(Tick)

FairSpec == Spec /\ Fairness

-----------------------------------------------------------------------------
(* Properties                                                              *)

RunnerPc == {"idle", "validate", "preflight", "preflight_record", "validated",
             "to_installing", "check", "start", "execute", "recheck", "finish",
             "configured", "to_health_check", "probe_start", "probe", "to_completed",
             "clear", "failing", "to_failed"}

RequestPc == {"idle", "edit", "rewind", "get", "to_pending", "to_validating"}

RowType == row \in Stack /\ deleted \in BOOLEAN /\ age \in 0 .. StaleThreshold

RunType ==
    /\ pc \in [Runner -> RunnerPc] /\ mem \in [Runner -> Stack]
    /\ pos \in [Runner -> 1 .. N + 1]
    /\ beat \in [Runner -> 0 .. HeartbeatEvery] /\ missed \in [Runner -> 0 .. MaxMissed]

RequestType ==
    /\ reqPc \in [Request -> RequestPc]
    /\ reqMem \in [Request -> Stack]
    /\ resume \in [Request -> Position] /\ kind \in [Request -> {"deploy", "continue"}]

DeleteType ==
    /\ delPc \in [Deleter -> {"idle", "cancel", "delete", "cleanup", "cleaned"}]
    /\ delMem \in [Deleter -> Stack]

(* Every variable holds a value of its kind; install steps stay within the *)
(* DAG (runPhases).                                                        *)
TypeOK ==
    /\ RowType /\ done \subseteq Install /\ RunType /\ RequestType
    /\ snap \in [Reaper -> Stack] /\ DeleteType

Before(s) == {i \in Install : i < s}

(* A stack is only ever shown as completed when every install step has run *)
(* on its cluster, however many runs, crashes, reaps and resumptions it    *)
(* took, and whoever else was writing the row (runPhases, Continue,        *)
(* triggerImportDeploy: a resumption skips what was completed before).     *)
CompletedMeansInstalled ==
    ~deleted /\ row.state = "completed" => Install \subseteq done

(* The step a Continue would resume from never lies beyond a step that has *)
(* not run: skipping "previously completed" steps loses nothing            *)
(* (DeployHandler.Continue, runPhases).                                    *)
ResumePointIsSound ==
    ~deleted /\ row.state \in {"failed", "pending"} =>
        Before(FirstNonBlank(row.failed, row.current)) \subseteq done

(* A stack shown as failed has no installation running behind it: with the *)
(* heartbeat, a stale updated_at means that what ran it is gone            *)
(* (startHeartbeat, IsStaleInstall, handleFailure).                        *)
FailedMeansStopped ==
    ~deleted /\ row.state = "failed" => \A r \in Runner : ~Live(r)

(* Two goroutines never install the same stack at once (Execute refuses a  *)
(* stack that is not pending).                                             *)
OneInstallAtATime ==
    \A r, s \in Runner : Live(r) /\ Live(s) => r = s

(* The state column only moves along validTransitions, or to cancelled     *)
(* when the stack is being deleted.                                        *)
FollowsTransitions ==
    [][row'.state # row.state => row'.state \in Allowed[row.state] \cup {"cancelled"}]_vars

(* A deleted stack is never written again, by a late goroutine, request,   *)
(* reaper or second deletion (Update, Delete: deleted_at IS NULL).         *)
DeletedIsFinal == [][deleted => UNCHANGED <<row, deleted>>]_vars

(* A stack does not stay in flight: its goroutine ends it, or the reaper   *)
(* does (ReapStaleInstalls: "installing forever" was the incident).        *)
InFlightEnds == (~deleted /\ row.state \in InFlight) ~> (deleted \/ row.state \notin InFlight)

(* Once the stack is deleted its goroutine finishes at most the step it is *)
(* in: it never begins another one on the cluster that is being cleaned up *)
(* (ensureDeploymentActive before and after each step).                    *)
NoStepBeginsAfterDeletion ==
    [][deleted => \A r \in Runner :
          pc'[r] \in {"start", "execute"} => pc[r] \in {"start", "execute"}]_vars

(* With one request at a time, no edits, one reaper and no deletion, all   *)
(* of this implements the lifecycle: the copies, the crashes and the       *)
(* reaper do not show (Execute, run, ReapStaleInstalls).                   *)
Lifecycle == INSTANCE StackLifecycle WITH state <- row.state, installed <- done, Steps <- Install

ImplementsLifecycle == Lifecycle!Spec
=============================================================================
