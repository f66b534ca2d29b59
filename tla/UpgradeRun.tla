----------------------------- MODULE UpgradeRun -----------------------------
(***************************************************************************)
(* Upgrading one Helm release of a stack (internal/stack/usecase:          *)
(* upgrade_stack.go): the requests that start an upgrade, the rows of      *)
(* stack_upgrade_runs, the background goroutine of each run, the readers   *)
(* that close a run whose heartbeat has stopped, and the values editor     *)
(* (manage_release_values.go) that works on the same release unasked.      *)
(*                                                                         *)
(* One bundle leads from chart "source" to chart "target".  The release is *)
(* its history of revisions, each a chart with the edits its values carry  *)
(* and the status Helm keeps of it.  Helm refuses to upgrade a release     *)
(* whose last revision is pending; it rolls back even then.                *)
(***************************************************************************)
EXTENDS Naturals, Sequences

CONSTANTS
    Run,         \* run ids that may be handed out
    Key,         \* idempotency keys the clients use
    Client,      \* requests to start an upgrade
    Viewer,      \* requests that read a run or a list of runs
    Edit,        \* edits of the release's values, one editor each
    Nobody,      \* no run
    BeatsArrive, \* no live goroutine is cut off from the database for long
    MaxFaults,   \* bound: saves that fail three times, closings that fail
    MaxCrashes   \* bound: goroutines lost to a restart

ASSUME NobodyAssumption == Nobody \notin Run \cup Edit
ASSUME EditAssumption   == Run \cap Edit = {}
ASSUME KeyAssumption    == Key # {}
ASSUME BeatsAssumption  == BeatsArrive \in BOOLEAN
ASSUME BudgetAssumption == MaxFaults \in Nat /\ MaxCrashes \in Nat

VARIABLES
    history,    \* the release's revisions
    row,        \* stack_upgrade_runs
    silent,     \* updated_at is older than UpgradeHeartbeatTimeout
    pc,         \* where the goroutine of each run is
    out,        \* the final status it is about to save
    vals,       \* the values it was given by the preflight
    client,     \* requests in progress
    seen,       \* the stale run each reader has read
    editPc,     \* where each values edit is
    editVals,   \* the values it read
    editChart,  \* and then the chart it goes on using
    faults,     \* saves and closings lost so far
    crashes     \* goroutines lost so far

rowVars  == <<row, silent>>
runVars  == <<pc, out, vals>>
editVars == <<editPc, editVals, editChart>>
vars == <<history, rowVars, runVars, client, seen, editVars, faults, crashes>>

Chart == {"source", "target"}

ActiveStatus == {"upgrading", "rolling_back"}
Closed == {"blocked", "failed", "succeeded", "rolled_back", "manual"}

Revision == [chart : Chart, values : SUBSET Edit, by : Run \cup Edit \cup {Nobody},
             status : {"pending", "deployed", "superseded", "failed"}]

Last     == Len(history)
Current  == history[Last]
Deployed == {n \in 1 .. Last : history[n].status = "deployed"}

(* readableRevision, whose values count: the latest that is deployed, or   *)
(* the last one                                                            *)
Readable == {n \in 1 .. Last : IF Deployed = {} THEN n = Last
                              ELSE n \in Deployed /\ \A m \in Deployed : m <= n}

(* what may be running: while or after an operation that has not come to   *)
(* its end, anything since the revision that was deployed before it        *)
Running == {history[n].chart : n \in {k \in 1 .. Last : \A m \in Deployed : m <= k}}

Active(i) == row[i].status \in ActiveStatus

(* UpgradeRun.Stale; the wrong variant forgets rolling_back *)
StaleUpgradingOnly(i) == row[i].status = "upgrading" /\ silent[i]
Stale(i) == Active(i) /\ silent[i]

Resting == [pc |-> "idle", key |-> CHOOSE k \in Key : TRUE, prev |-> 1,
            blocked |-> FALSE, vals |-> {}, seen |-> Nobody]

Init ==
    /\ history = <<[chart |-> "source", values |-> {}, by |-> Nobody, status |-> "deployed"]>>
    /\ row = [i \in Run |-> [status |-> "none", key |-> CHOOSE k \in Key : TRUE, prev |-> 1]]
    /\ silent = [i \in Run |-> FALSE]
    /\ pc = [i \in Run |-> "idle"] /\ out = [i \in Run |-> "failed"]
    /\ vals = [i \in Run |-> {}]
    /\ client = [c \in Client |-> Resting]
    /\ seen = [v \in Viewer |-> Nobody]
    /\ editPc = [e \in Edit |-> "idle"] /\ editVals = [e \in Edit |-> {}]
    /\ editChart = [e \in Edit |-> "source"]
    /\ faults = 0 /\ crashes = 0

-----------------------------------------------------------------------------
(* Helm: an operation appends its revision as pending and gives it another *)
(* status when it ends.                                                    *)

Begin(chart, values, who) ==
    history' = Append(history, [chart |-> chart, values |-> values, by |-> who, status |-> "pending"])

(* the revision an operation is at is the last one it made                 *)
Own(who) == CHOOSE n \in 1 .. Last : history[n].by = who /\ \A m \in n + 1 .. Last : history[m].by # who

Settle(n, status, replaced) ==
    history' = [k \in 1 .. Last |->
        IF k = n THEN [history[k] EXCEPT !.status = status]
        ELSE IF k \in replaced THEN [history[k] EXCEPT !.status = "superseded"]
        ELSE history[k]]

(* an upgrade replaces what was deployed before it, a rollback whatever    *)
(* is, and one that fails gives up the revision it found last              *)
Stand(who)     == Settle(Own(who), "deployed", {k \in Deployed : k < Own(who)})
StandBack(who) == Settle(Own(who), "deployed", Deployed)
Fail(who)      == Settle(Own(who), "failed", {})
FailBack(who)  == Settle(Own(who), "failed", {Own(who) - 1})

-----------------------------------------------------------------------------
(* Start: every read of the database or the cluster is a step of its own   *)

Set(c, r) == client' = [client EXCEPT ![c] = r]

KeyTaken(k) == \E i \in Run : row[i].status # "none" /\ row[i].key = k

(* the revision the release has before; wrong variant: the one it will get *)
ResultRevision   == Last + 1
PreviousRevision == Last

(* the key is new; the stack, the bundle and the release are looked up.  A *)
(* key that is taken replays its run: that is Look(v) of a reader.         *)
StartUpgrade(c) ==
    /\ client[c].pc = "idle"
    /\ \E k \in Key, blocked \in BOOLEAN :
          /\ ~KeyTaken(k)
          /\ Current.status # "deployed" \/ Current.chart # "source" => blocked
          /\ Set(c, [Resting EXCEPT !.pc = "active", !.key = k, !.prev = PreviousRevision, !.blocked = blocked])
    /\ UNCHANGED <<history, rowVars, runVars, seen, editVars, faults, crashes>>

(* values are only read, and the dry-run only made, if nothing blocks      *)
AfterActive(c, blocked) ==
    Set(c, [client[c] EXCEPT !.pc = IF blocked THEN "create" ELSE "values",
                              !.blocked = blocked, !.seen = Nobody])

CheckActive(c) ==
    /\ client[c].pc = "active"
    /\ \/ \E i \in Run :
             \/ Stale(i) /\ Set(c, [client[c] EXCEPT !.pc = "close", !.seen = i])
             \/ Active(i) /\ ~Stale(i) /\ AfterActive(c, TRUE)
       \/ (\A i \in Run : ~Active(i)) /\ AfterActive(c, client[c].blocked)
    /\ UNCHANGED <<history, rowVars, runVars, seen, editVars, faults, crashes>>

(* CloseStaleRun: only while the run is still active and still silent.     *)
(* Wrong variant: the row is closed because it was read as stale.          *)
CloseAnyway(i) ==
    IF Active(i)
    THEN row' = [row EXCEPT ![i].status = "manual"] /\ silent' = [silent EXCEPT ![i] = FALSE]
    ELSE UNCHANGED rowVars

CloseStaleRun(i) ==
    IF Stale(i)
    THEN row' = [row EXCEPT ![i].status = "manual"] /\ silent' = [silent EXCEPT ![i] = FALSE]
    ELSE UNCHANGED rowVars

(* a run that could not be closed is read again; after an error it is     *)
(* taken as it was read                                                    *)
CloseActive(c) ==
    LET i == client[c].seen
    IN  /\ client[c].pc = "close"
        /\ \/ /\ CloseStaleRun(i)
              /\ AfterActive(c, client[c].blocked \/ row'[i].status \in ActiveStatus)
              /\ UNCHANGED faults
           \/ /\ faults < MaxFaults /\ faults' = faults + 1
              /\ AfterActive(c, TRUE) /\ UNCHANGED rowVars
        /\ UNCHANGED <<history, runVars, seen, editVars, crashes>>

ReadValues(c) ==
    /\ client[c].pc = "values"
    /\ \E blocked \in BOOLEAN, n \in Readable :
          Set(c, [client[c] EXCEPT !.pc = "create", !.blocked = blocked, !.vals = history[n].values])
    /\ UNCHANGED <<history, rowVars, runVars, seen, editVars, faults, crashes>>

(* wrong variant: the index on active runs is missing *)
InsertAnyway(c, i) ==
    /\ row[i].status = "none" /\ ~KeyTaken(client[c].key)

(* the unique indexes on (stack, key) and on the active run of a stack     *)
Insertable(c, i) ==
    /\ row[i].status = "none" /\ ~KeyTaken(client[c].key)
    /\ client[c].blocked \/ \A j \in Run : ~Active(j)

(* CreateRun, then the goroutine is launched unless the run is blocked     *)
CreateRun(c) ==
    /\ client[c].pc = "create"
    /\ \E i \in Run :
          /\ Insertable(c, i)
          /\ row' = [row EXCEPT ![i] =
                 [status |-> IF client[c].blocked THEN "blocked" ELSE "upgrading",
                  key |-> client[c].key, prev |-> client[c].prev]]
          /\ IF client[c].blocked
             THEN UNCHANGED <<pc, vals>>
             ELSE /\ pc' = [pc EXCEPT ![i] = "upgrade"]
                  /\ vals' = [vals EXCEPT ![i] = client[c].vals]
    /\ Set(c, Resting)
    /\ UNCHANGED <<history, silent, out, seen, editVars, faults, crashes>>

(* a request ends with an error: a lookup fails, the insert is refused     *)
Refuse(c) ==
    /\ client[c].pc # "idle" /\ Set(c, Resting)
    /\ UNCHANGED <<history, rowVars, runVars, seen, editVars, faults, crashes>>

-----------------------------------------------------------------------------
(* Readers: GetRun, ListRuns, Candidates and a replayed Start, all through *)
(* closeIfStale.                                                           *)

Look(v) ==
    /\ seen[v] = Nobody
    /\ \E i \in Run : Stale(i) /\ seen' = [seen EXCEPT ![v] = i]
    /\ UNCHANGED <<history, rowVars, runVars, client, editVars, faults, crashes>>

CloseSeen(v) ==
    /\ seen[v] # Nobody
    /\ \/ CloseStaleRun(seen[v]) /\ UNCHANGED faults
       \/ faults < MaxFaults /\ faults' = faults + 1 /\ UNCHANGED rowVars
    /\ seen' = [seen EXCEPT ![v] = Nobody]
    /\ UNCHANGED <<history, runVars, client, editVars, crashes>>

-----------------------------------------------------------------------------
(* The goroutine                                                           *)

Go(i, next) ==
    /\ pc' = [pc EXCEPT ![i] = next]
    /\ out' = [out EXCEPT ![i] = "failed"] /\ vals' = [vals EXCEPT ![i] = {}]

GoFinish(i, status) ==
    /\ pc' = [pc EXCEPT ![i] = "finish"]
    /\ out' = [out EXCEPT ![i] = status] /\ vals' = [vals EXCEPT ![i] = {}]

(* UpdateRun is conditional on the run being active.  A save that fails    *)
(* three times lets the goroutine go on all the same.  Wrong variant: an   *)
(* update by id alone.                                                     *)
SaveAnyway(i, status, next) ==
    /\ row' = [row EXCEPT ![i].status = status] /\ silent' = [silent EXCEPT ![i] = FALSE]
    /\ Go(i, next) /\ UNCHANGED faults

Save(i, status, next) ==
    \/ /\ Active(i)
       /\ row' = [row EXCEPT ![i].status = status] /\ silent' = [silent EXCEPT ![i] = FALSE]
       /\ Go(i, next) /\ UNCHANGED faults
    \/ ~Active(i) /\ Go(i, "idle") /\ UNCHANGED <<rowVars, faults>>
    \/ /\ faults < MaxFaults /\ faults' = faults + 1
       /\ Go(i, next) /\ UNCHANGED rowVars

(* UpgradeChart: Helm refuses while another operation is pending, or fails *)
(* before it touches the release, or writes the next revision              *)
UpgradeChart(i) ==
    /\ pc[i] = "upgrade"
    /\ \/ Go(i, "recover") /\ UNCHANGED history
       \/ /\ Current.status # "pending" /\ Begin("target", vals[i], i)
          /\ Go(i, "upgrading")
    /\ UNCHANGED <<rowVars, client, seen, editVars, faults, crashes>>

(* --atomic --wait: it stands, or has failed and is taken back; when the   *)
(* cluster is out of reach its revision stays pending                      *)
UpgradeReturns(i) ==
    /\ pc[i] = "upgrading"
    /\ \/ Stand(i) /\ Go(i, "enter_health")
       \/ Fail(i) /\ Go(i, "undo")
       \/ Go(i, "recover") /\ UNCHANGED history
    /\ UNCHANGED <<rowVars, client, seen, editVars, faults, crashes>>

(* --atomic goes back to the last revision that stood, or cannot begin to  *)
StoodBefore(n) ==
    /\ history[n].status \in {"deployed", "superseded"}
    /\ \A m \in n + 1 .. Last : history[m].status \notin {"deployed", "superseded"}

Undo(i) ==
    /\ pc[i] = "undo"
    /\ \/ \E n \in 1 .. Last : /\ StoodBefore(n) /\ Go(i, "undoing")
                               /\ Begin(history[n].chart, history[n].values, i)
       \/ Go(i, "recover") /\ UNCHANGED history
    /\ UNCHANGED <<rowVars, client, seen, editVars, faults, crashes>>

UndoReturns(i) ==
    /\ pc[i] = "undoing" /\ Go(i, "recover")
    /\ StandBack(i) \/ FailBack(i) \/ UNCHANGED history
    /\ UNCHANGED <<rowVars, client, seen, editVars, faults, crashes>>

EnterHealthCheck(i) ==
    /\ pc[i] = "enter_health" /\ Save(i, "upgrading", "verify")
    /\ UNCHANGED <<history, client, seen, editVars, crashes>>

(* Health.Verify passes only with the target's image running, whatever the *)
(* release says by then                                                    *)
Verify(i) ==
    /\ pc[i] = "verify"
    /\ \/ "target" \in Running /\ GoFinish(i, "succeeded")
       \/ Go(i, "recover")
    /\ UNCHANGED <<history, rowVars, client, seen, editVars, faults, crashes>>

(* wrong variant: the revision is not looked at *)
UntouchedIfSource(i) == Current.chart = "source" /\ Current.status = "deployed"

(* wrong variant: an operation that has not ended is rolled back too       *)
OwnWhateverStatus(i) == Current.chart = "target" /\ Last > row[i].prev

Untouched(i)   == Current.chart = "source" /\ Current.status = "deployed" /\ Last <= row[i].prev
TakenBack(i)   == Current.chart = "source" /\ Current.status = "deployed" /\ Last > row[i].prev
OwnRevision(i) == /\ Current.chart = "target" /\ Current.status \in {"deployed", "failed"}
                  /\ Last > row[i].prev

(* recover looks at the release as it is now; when the context has ended,  *)
(* the lookup fails, or nothing fits, a person decides                     *)
Recover(i) ==
    /\ pc[i] = "recover"
    /\ \/ Untouched(i) /\ GoFinish(i, "failed")
       \/ TakenBack(i) /\ Go(i, "confirm")
       \/ OwnRevision(i) /\ Go(i, "begin_rollback")
       \/ GoFinish(i, "manual")
    /\ UNCHANGED <<history, rowVars, client, seen, editVars, faults, crashes>>

BeginRollback(i) ==
    /\ \/ pc[i] = "begin_rollback" /\ Save(i, "rolling_back", "rollback")
       \/ pc[i] = "confirm" /\ Save(i, "rolling_back", "verify_source")
    /\ UNCHANGED <<history, client, seen, editVars, crashes>>

(* RollbackRelease to the revision the preflight saw, and the end of it    *)
RollbackRelease(i) ==
    /\ pc[i] = "rollback"
    /\ \/ GoFinish(i, "manual") /\ UNCHANGED history
       \/ LET back == history[row[i].prev]
          IN  Begin(back.chart, back.values, i) /\ Go(i, "rolling")
    /\ UNCHANGED <<rowVars, client, seen, editVars, faults, crashes>>

RollbackReturns(i) ==
    /\ pc[i] = "rolling"
    /\ \/ StandBack(i) /\ Go(i, "verify_source")
       \/ (FailBack(i) \/ UNCHANGED history) /\ GoFinish(i, "manual")
    /\ UNCHANGED <<rowVars, client, seen, editVars, faults, crashes>>

VerifySource(i) ==
    /\ pc[i] = "verify_source"
    /\ \/ "source" \in Running /\ GoFinish(i, "rolled_back")
       \/ GoFinish(i, "manual")
    /\ UNCHANGED <<history, rowVars, client, seen, editVars, faults, crashes>>

FinishRun(i) ==
    /\ pc[i] = "finish" /\ Save(i, out[i], "idle")
    /\ UNCHANGED <<history, client, seen, editVars, crashes>>

RunStep(i) ==
    \/ UpgradeChart(i) \/ UpgradeReturns(i) \/ Undo(i) \/ UndoReturns(i)
    \/ EnterHealthCheck(i) \/ Verify(i) \/ Recover(i) \/ BeginRollback(i)
    \/ RollbackRelease(i) \/ RollbackReturns(i) \/ VerifySource(i) \/ FinishRun(i)

(* the API process is gone; a Helm operation it was in stays pending       *)
Crash(i) ==
    /\ pc[i] # "idle" /\ crashes < MaxCrashes /\ crashes' = crashes + 1
    /\ Go(i, "idle")
    /\ UNCHANGED <<history, rowVars, client, seen, editVars, faults>>

-----------------------------------------------------------------------------
(* The heartbeat and the passing of time.  Unless BeatsArrive, a beat may  *)
(* be late by any amount: the database may be out of reach of one replica. *)

Heartbeat(i) ==
    /\ pc[i] # "idle" /\ Stale(i)
    /\ silent' = [silent EXCEPT ![i] = FALSE]
    /\ UNCHANGED <<history, row, runVars, client, seen, editVars, faults, crashes>>

(* wrong variant: no beats while the chart is being applied *)
GrowSilentInHelm(i) ==
    /\ Active(i) /\ ~silent[i] /\ pc[i] \in {"idle", "upgrade", "upgrading", "undo", "undoing"}
    /\ silent' = [silent EXCEPT ![i] = TRUE]
    /\ UNCHANGED <<history, row, runVars, client, seen, editVars, faults, crashes>>

GrowSilent(i) ==
    /\ Active(i) /\ ~silent[i]
    /\ BeatsArrive => pc[i] = "idle"
    /\ silent' = [silent EXCEPT ![i] = TRUE]
    /\ UNCHANGED <<history, row, runVars, client, seen, editVars, faults, crashes>>

-----------------------------------------------------------------------------
(* ManageReleaseValues.Apply: reads the values, then the chart of the last *)
(* revision, which it may have to download again, and applies both without *)
(* waiting.  It asks nothing about upgrade runs.                           *)

EditGo(e, next) == editPc' = [editPc EXCEPT ![e] = next]

EditRead(e) ==
    /\ editPc[e] = "idle" /\ EditGo(e, "chart")
    /\ \E n \in Readable : editVals' = [editVals EXCEPT ![e] = history[n].values \cup {e}]
    /\ UNCHANGED <<history, rowVars, runVars, client, seen, editChart, faults, crashes>>

EditTakeChart(e) ==
    /\ editPc[e] = "chart" /\ EditGo(e, "apply")
    /\ editChart' = [editChart EXCEPT ![e] = Current.chart]
    /\ UNCHANGED <<history, rowVars, runVars, client, seen, editVals, faults, crashes>>

EditApply(e) ==
    /\ editPc[e] = "apply"
    /\ \/ /\ Current.status # "pending" /\ Begin(editChart[e], editVals[e], e)
          /\ EditGo(e, "applying")
       \/ EditGo(e, "done") /\ UNCHANGED history
    /\ UNCHANGED <<rowVars, runVars, client, seen, editVals, editChart, faults, crashes>>

EditReturns(e) ==
    /\ editPc[e] = "applying" /\ EditGo(e, "done")
    /\ Stand(e) \/ Fail(e) \/ UNCHANGED history
    /\ UNCHANGED <<rowVars, runVars, client, seen, editVals, editChart, faults, crashes>>

EditStep(e) == EditRead(e) \/ EditTakeChart(e) \/ EditApply(e) \/ EditReturns(e)

ClientStep(c) ==
    CheckActive(c) \/ CloseActive(c) \/ ReadValues(c) \/ CreateRun(c) \/ Refuse(c)

Next ==
    \/ \E c \in Client : StartUpgrade(c) \/ ClientStep(c)
    \/ \E v \in Viewer : Look(v) \/ CloseSeen(v)
    \/ \E i \in Run : RunStep(i) \/ Crash(i) \/ Heartbeat(i) \/ GrowSilent(i)
    \/ \E e \in Edit : EditStep(e)

Spec == Init /\ [][Next]_vars

(* Helm and health checks have time limits and return; time passes; a      *)
(* screen that shows a run in progress asks for it every five seconds.     *)
Fairness ==
    /\ \A i \in Run : WF_vars(RunStep(i)) /\ WF_vars(GrowSilent(i))
    /\ \A v \in Viewer : WF_vars(Look(v)) /\ WF_vars(CloseSeen(v))

FairSpec == Spec /\ Fairness

-----------------------------------------------------------------------------
(* Properties                                                              *)

RunPc == {"idle", "upgrade", "upgrading", "undo", "undoing", "enter_health", "verify", "recover", "confirm",
          "begin_rollback", "rollback", "rolling", "verify_source", "finish"}

ClientType ==
    client \in [Client -> [pc : {"idle", "active", "close", "values", "create"}, key : Key,
                           prev : 1 .. Last, blocked : BOOLEAN, vals : SUBSET Edit,
                           seen : Run \cup {Nobody}]]

(* Every variable holds a value of its kind, and the revision a rollback   *)
(* would go back to exists (RollbackRelease).                              *)
TypeOK ==
    /\ history \in Seq(Revision) /\ history # <<>>
    /\ row \in [Run -> [status : {"none"} \cup ActiveStatus \cup Closed, key : Key, prev : 1 .. Last]]
    /\ silent \in [Run -> BOOLEAN]
    /\ pc \in [Run -> RunPc] /\ out \in [Run -> Closed] /\ vals \in [Run -> SUBSET Edit]
    /\ ClientType
    /\ seen \in [Viewer -> Run \cup {Nobody}]
    /\ editPc \in [Edit -> {"idle", "chart", "apply", "applying", "done"}]
    /\ editVals \in [Edit -> SUBSET Edit] /\ editChart \in [Edit -> Chart]
    /\ faults \in 0 .. MaxFaults /\ crashes \in 0 .. MaxCrashes

(* A stack has at most one upgrade in progress, across replicas, and with  *)
(* runs being closed as stale while others start (CreateRun, closeIfStale).*)
OneActiveRun == \A i, j \in Run : Active(i) /\ Active(j) => i = j

(* A run that is closed stays as it was closed: a goroutine that outlived  *)
(* its run does not bring it back (UpdateRun, Heartbeat, CloseStaleRun).   *)
ClosedStaysClosed ==
    [][\A i \in Run : row[i].status \in Closed => row'[i] = row[i]]_vars

(* Nobody but its own goroutine closes a run whose heartbeat has arrived   *)
(* in time, even one that was silent when it was read (closeIfStale).      *)
CloseNeedsSilence ==
    [][\A i \in Run : Active(i) /\ row'[i].status \in Closed /\ pc'[i] = pc[i] => silent[i]]_vars

(* failed means that nothing was changed: no revision of the release was   *)
(* made by a run that is shown as failed (recover, upgrade.go).            *)
FailedChangedNothing ==
    \A i \in Run : row[i].status = "failed" => \A n \in 1 .. Last : history[n].by # i

(* an edit made since the preflight of the run that brought another chart  *)
(* than the one before it                                                  *)
BringsChart(n) == history[n].by \in Edit /\ n > 1 /\ history[n].chart # history[n - 1].chart
Displaced(i)   == \E n \in 1 .. Last : n > row[i].prev /\ BringsChart(n)

(* A run ends as succeeded only while the release is at the target, and as *)
(* rolled_back only while it is at the source, whatever crashed, was lost  *)
(* or was edited in between: only an edit that brings a chart it had taken *)
(* earlier can come between (execute, recover).                            *)
OutcomeMatchesRelease ==
    [][\A i \in Run : Active(i) /\ ~Displaced(i) =>
          /\ row'[i].status = "succeeded"   => Current.chart = "target"
          /\ row'[i].status = "rolled_back" => Current.chart = "source"]_vars

(* Where Helm was cut off, and the release is pending, a person is asked:  *)
(* a run that ends otherwise leaves no operation of its own behind         *)
(* (recover: "an unexpected state is not rolled back").                    *)
EndsItsOperations ==
    \A i \in Run, n \in 1 .. Last :
        row[i].status \in {"succeeded", "failed", "rolled_back"} /\ history[n].by = i
        => history[n].status # "pending"

(* An upgrade in progress comes to an end: its goroutine closes it, or a   *)
(* reader does when it has been silent for too long (closeIfStale).        *)
ActiveRunEnds == \A i \in Run : Active(i) ~> ~Active(i)

(* An edit of the values keeps the chart of the release: "the version is   *)
(* pinned as deployed, so a settings change does not drag a chart upgrade  *)
(* along" (chartForRelease).                                               *)
EditsKeepChart == \A n \in 1 .. Last : ~BringsChart(n)
=============================================================================
