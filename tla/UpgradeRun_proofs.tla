-------------------------- MODULE UpgradeRun_proofs --------------------------
(***************************************************************************)
(* Proofs about UpgradeRun for every number of requests, runs, readers and *)
(* edits, and however often a save is lost or a process restarts.          *)
(***************************************************************************)
EXTENDS UpgradeRun, TLAPS

RowType    == row \in [Run -> [status : {"none"} \cup ActiveStatus \cup Closed, key : Key, prev : 1 .. Last]]
SilentType == silent \in [Run -> BOOLEAN]
GoType     == pc \in [Run -> RunPc] /\ out \in [Run -> Closed] /\ vals \in [Run -> SUBSET Edit]
FaultType  == faults \in 0 .. MaxFaults

-----------------------------------------------------------------------------
(* A release only ever gets revisions.                                     *)

LEMMA Appended ==
  ASSUME TypeOK, NEW x \in Revision, history' = Append(history, x)
  PROVE  /\ history' \in Seq(Revision) /\ history' # <<>>
         /\ Last' = Last + 1 /\ Last \in Nat \ {0}
         /\ history'[Last'] = x
         /\ \A n \in 1 .. Last : history'[n] = history[n]
  BY DEF TypeOK, Last

LEMMA LastIsRevision ==
  ASSUME TypeOK
  PROVE  /\ Last \in Nat \ {0} /\ Last \in 1 .. Last
         /\ \A n \in 1 .. Last : history[n] \in Revision
         /\ Current \in Revision
  BY DEF TypeOK, Last, Current

(* what an operation of Helm does to the release when it begins and ends   *)
Grows(chart, who) ==
    \E x \in Revision : history' = Append(history, x) /\ x.chart = chart /\ x.by = who

Stays ==
    /\ history' \in Seq(Revision) /\ history' # <<>> /\ Last' = Last
    /\ \A n \in 1 .. Last : history'[n].by = history[n].by /\ history'[n].chart = history[n].chart

LEMMA BeginGrows ==
  ASSUME TypeOK, NEW chart \in Chart, NEW values \in SUBSET Edit, NEW who \in Run \cup Edit,
         Begin(chart, values, who)
  PROVE  Grows(chart, who)
<1> DEFINE x == [chart |-> chart, values |-> values, by |-> who, status |-> "pending"]
<1>1. x \in Revision /\ x.chart = chart /\ x.by = who
  BY DEF Revision
<1> QED
  BY <1>1 DEF Begin, Grows

LEMMA UnchangedStays ==
  ASSUME TypeOK, UNCHANGED history
  PROVE  Stays
  BY DEF TypeOK, Stays, Last

LEMMA SettleStays ==
  ASSUME TypeOK, NEW n, NEW status \in {"deployed", "failed"}, NEW replaced,
         Settle(n, status, replaced)
  PROVE  Stays
<1> DEFINE new(k) == IF k = n THEN [history[k] EXCEPT !.status = status]
                     ELSE IF k \in replaced THEN [history[k] EXCEPT !.status = "superseded"]
                     ELSE history[k]
<1>1. history' = [k \in 1 .. Last |-> new(k)]
  BY DEF Settle
<1>2. \A k \in 1 .. Last : /\ new(k) \in Revision
                           /\ new(k).by = history[k].by /\ new(k).chart = history[k].chart
  BY LastIsRevision DEF Revision
<1>3. Last \in Nat \ {0}
  BY LastIsRevision
<1> HIDE DEF new
<1>4. history' \in Seq(Revision) /\ Len(history') = Last
  BY <1>1, <1>2, <1>3
<1>5. Last' = Last /\ history' # <<>>
  BY <1>3, <1>4 DEF Last
<1> QED
  BY <1>1, <1>2, <1>4, <1>5 DEF Stays

LEMMA EndStays ==
  ASSUME TypeOK, NEW who, Stand(who) \/ StandBack(who) \/ Fail(who) \/ FailBack(who)
  PROVE  Stays
  BY SettleStays DEF Stand, StandBack, Fail, FailBack

(* Every operation gives the release a revision of its own, or ends one.   *)
LEMMA RunGrows ==
  ASSUME TypeOK, NEW i \in Run
  PROVE  /\ UpgradeChart(i) => Stays \/ Grows("target", i)
         /\ Undo(i) => Stays \/ \E chart \in Chart : Grows(chart, i)
         /\ RollbackRelease(i) => Stays \/ Grows(history[row[i].prev].chart, i)
         /\ UpgradeReturns(i) \/ UndoReturns(i) \/ RollbackReturns(i) => Stays
<1>1. UpgradeChart(i) => Stays \/ Grows("target", i)
  <2>1. vals[i] \in SUBSET Edit /\ "target" \in Chart
    BY DEF TypeOK, Chart
  <2> QED
    BY <2>1, BeginGrows, UnchangedStays DEF UpgradeChart
<1>2. Undo(i) => Stays \/ \E chart \in Chart : Grows(chart, i)
  <2>1. ASSUME NEW n \in 1 .. Last, Begin(history[n].chart, history[n].values, i)
        PROVE  \E chart \in Chart : Grows(chart, i)
    <3>1. history[n].chart \in Chart /\ history[n].values \in SUBSET Edit
      BY LastIsRevision DEF Revision
    <3> QED
      BY <2>1, <3>1, BeginGrows
  <2> QED
    BY <2>1, UnchangedStays DEF Undo
<1>3. RollbackRelease(i) => Stays \/ Grows(history[row[i].prev].chart, i)
  <2>1. row[i].prev \in 1 .. Last
    BY DEF TypeOK
  <2>2. history[row[i].prev].chart \in Chart /\ history[row[i].prev].values \in SUBSET Edit
    BY <2>1, LastIsRevision DEF Revision
  <2> QED
    BY <2>2, BeginGrows, UnchangedStays DEF RollbackRelease
<1>4. UpgradeReturns(i) \/ UndoReturns(i) \/ RollbackReturns(i) => Stays
  BY EndStays, UnchangedStays DEF UpgradeReturns, UndoReturns, RollbackReturns
<1> QED
  BY <1>1, <1>2, <1>3, <1>4

LEMMA EditGrows ==
  ASSUME TypeOK, NEW e \in Edit, EditStep(e)
  PROVE  Stays \/ \E chart \in Chart : Grows(chart, e)
<1>1. editChart[e] \in Chart /\ editVals[e] \in SUBSET Edit
  BY DEF TypeOK
<1>2. CASE EditApply(e)
  BY <1>1, <1>2, BeginGrows, UnchangedStays DEF EditApply
<1>3. CASE EditReturns(e)
  BY <1>3, EndStays, UnchangedStays DEF EditReturns
<1>4. CASE EditRead(e) \/ EditTakeChart(e)
  BY <1>4, UnchangedStays DEF EditRead, EditTakeChart
<1> QED
  BY <1>2, <1>3, <1>4 DEF EditStep

LEMMA Longer ==
  ASSUME TypeOK, Stays \/ \E chart, who : Grows(chart, who)
  PROVE  /\ history' \in Seq(Revision) /\ history' # <<>>
         /\ Last' = Last \/ Last' = Last + 1
         /\ \A n \in 1 .. Last : history'[n].by = history[n].by /\ history'[n].chart = history[n].chart
  BY Appended DEF Stays, Grows

(* What refers to a revision still does when there are more of them.       *)
LEMMA TypesGrow ==
  ASSUME TypeOK, Last' = Last \/ Last' = Last + 1
  PROVE  /\ row' = row => RowType'
         /\ client' = client => ClientType'
<1>1. Last \in Nat /\ Last' \in Nat /\ Last' >= Last
  BY LastIsRevision DEF Last
<1>2. 1 .. Last \subseteq 1 .. Last'
  BY <1>1
<1>3. ASSUME row' = row PROVE RowType'
  <2>1. \A i \in Run : row[i] \in [status : {"none"} \cup ActiveStatus \cup Closed, key : Key, prev : 1 .. Last]
    BY DEF TypeOK
  <2>2. \A i \in Run : row[i] \in [status : {"none"} \cup ActiveStatus \cup Closed, key : Key, prev : 1 .. Last']
    BY <1>2, <2>1
  <2>3. row = [i \in Run |-> row[i]]
    BY DEF TypeOK
  <2> QED
    BY <1>3, <2>2, <2>3 DEF RowType, ActiveStatus, Closed
<1>4. ASSUME client' = client PROVE ClientType'
  <2> DEFINE T(n) == [pc : {"idle", "active", "close", "values", "create"}, key : Key,
                      prev : 1 .. n, blocked : BOOLEAN, vals : SUBSET Edit, seen : Run \cup {Nobody}]
  <2>1. \A c \in Client : client[c] \in T(Last)
    BY DEF TypeOK, ClientType
  <2>2. T(Last) \subseteq T(Last')
    BY <1>2
  <2>3. client = [c \in Client |-> client[c]]
    BY DEF TypeOK, ClientType
  <2> QED
    BY <1>4, <2>1, <2>2, <2>3 DEF ClientType
<1> QED
  BY <1>3, <1>4

-----------------------------------------------------------------------------
(* What the building blocks of the actions preserve of TypeOK.             *)

LEMMA RestingType ==
  /\ (CHOOSE k \in Key : TRUE) \in Key
  /\ TypeOK => /\ Resting.pc = "idle" /\ Resting.key \in Key /\ Resting.prev \in 1 .. Last
               /\ Resting.blocked \in BOOLEAN /\ Resting.vals \subseteq Edit
               /\ Resting.seen \in Run \cup {Nobody}
  BY KeyAssumption, LastIsRevision DEF Resting

LEMMA ClientChange ==
  ASSUME TypeOK, NEW c \in Client, UNCHANGED history,
         NEW r \in [pc : {"idle", "active", "close", "values", "create"}, key : Key,
                    prev : 1 .. Last, blocked : BOOLEAN, vals : SUBSET Edit,
                    seen : Run \cup {Nobody}],
         Set(c, r)
  PROVE  ClientType'
  BY DEF TypeOK, ClientType, Set, Last

LEMMA RestingIsClient ==
  ASSUME TypeOK
  PROVE  Resting \in [pc : {"idle", "active", "close", "values", "create"}, key : Key,
                      prev : 1 .. Last, blocked : BOOLEAN, vals : SUBSET Edit,
                      seen : Run \cup {Nobody}]
  BY RestingType DEF Resting

LEMMA GoKeepsType ==
  ASSUME TypeOK, NEW i \in Run, NEW next \in RunPc, Go(i, next)
  PROVE  GoType' /\ pc' = [pc EXCEPT ![i] = next]
  BY DEF TypeOK, GoType, Go, Closed

LEMMA GoFinishKeepsType ==
  ASSUME TypeOK, NEW i \in Run, NEW status \in Closed, GoFinish(i, status)
  PROVE  GoType' /\ pc' = [pc EXCEPT ![i] = "finish"]
  BY DEF TypeOK, GoType, GoFinish, RunPc

LEMMA StatusKeepsType ==
  ASSUME TypeOK, NEW i \in Run, UNCHANGED history, NEW status \in ActiveStatus \cup Closed,
         row' = [row EXCEPT ![i].status = status], silent' = [silent EXCEPT ![i] = FALSE]
  PROVE  RowType' /\ SilentType'
  BY DEF TypeOK, RowType, SilentType, Last

LEMMA SaveKeepsType ==
  ASSUME TypeOK, NEW i \in Run, UNCHANGED history,
         NEW status \in ActiveStatus \cup Closed, NEW next \in RunPc, Save(i, status, next)
  PROVE  RowType' /\ SilentType' /\ GoType' /\ FaultType' /\ pc'[i] \in {next, "idle"}
         /\ \A j \in Run : j # i => pc'[j] = pc[j]
<1>1. "idle" \in RunPc
  BY DEF RunPc
<1>2. PICK target \in {next, "idle"} : Go(i, target)
  BY DEF Save
<1>3. GoType' /\ pc' = [pc EXCEPT ![i] = target]
  BY <1>1, <1>2, GoKeepsType
<1>4. RowType' /\ SilentType'
  <2>1. CASE UNCHANGED rowVars
    BY <2>1 DEF rowVars, TypeOK, RowType, SilentType, Last
  <2>2. CASE row' = [row EXCEPT ![i].status = status] /\ silent' = [silent EXCEPT ![i] = FALSE]
    BY <2>2, StatusKeepsType
  <2> QED
    BY <2>1, <2>2 DEF Save
<1>5. FaultType'
  BY BudgetAssumption DEF TypeOK, FaultType, Save
<1> QED
  BY <1>2, <1>3, <1>4, <1>5 DEF TypeOK

LEMMA CloseStaleKeepsType ==
  ASSUME TypeOK, UNCHANGED history, NEW i \in Run \cup {Nobody}, CloseStaleRun(i)
  PROVE  RowType' /\ SilentType'
<1>1. CASE UNCHANGED rowVars
  BY <1>1 DEF rowVars, TypeOK, RowType, SilentType, Last
<1>2. CASE row' = [row EXCEPT ![i].status = "manual"] /\ silent' = [silent EXCEPT ![i] = FALSE]
  <2>1. CASE i \in Run
    BY <1>2, <2>1, StatusKeepsType DEF Closed
  <2>2. CASE i \notin Run
    BY <1>2, <2>2 DEF TypeOK, RowType, SilentType, Last
  <2> QED
    BY <2>1, <2>2
<1> QED
  BY <1>1, <1>2 DEF CloseStaleRun

-----------------------------------------------------------------------------
(* Type correctness, actor by actor                                        *)

LEMMA InitType == Init => TypeOK
<1> SUFFICES ASSUME Init PROVE TypeOK
  OBVIOUS
<1>1. (CHOOSE k \in Key : TRUE) \in Key
  BY KeyAssumption
<1>2. history \in Seq(Revision) /\ history # <<>> /\ Last = 1
  BY DEF Init, Revision, Chart, Last
<1>3. RowType /\ SilentType
  BY <1>1, <1>2 DEF Init, RowType, SilentType
<1>4. GoType
  BY DEF Init, GoType, RunPc, Closed
<1>5. ClientType
  BY <1>1, <1>2 DEF Init, ClientType, Resting
<1>6. faults \in 0 .. MaxFaults /\ crashes \in 0 .. MaxCrashes
  BY BudgetAssumption DEF Init
<1>7. /\ seen \in [Viewer -> Run \cup {Nobody}]
      /\ editPc \in [Edit -> {"idle", "chart", "apply", "applying", "done"}]
      /\ editVals \in [Edit -> SUBSET Edit] /\ editChart \in [Edit -> Chart]
  BY DEF Init, Chart
<1> QED
  BY <1>2, <1>3, <1>4, <1>5, <1>6, <1>7 DEF TypeOK, RowType, SilentType, GoType

(* Everything a request does leaves the release and its goroutines alone,  *)
(* except for the goroutine that CreateRun launches.                       *)
LEMMA ClientTypeStep ==
  ASSUME TypeOK, NEW c \in Client, StartUpgrade(c) \/ ClientStep(c)
  PROVE  TypeOK'
<1>0. UNCHANGED history /\ Last' = Last /\ UNCHANGED <<seen, editVars, crashes>>
  BY DEF StartUpgrade, ClientStep, CheckActive, CloseActive, ReadValues, CreateRun, Refuse, Last
<1> DEFINE T == [pc : {"idle", "active", "close", "values", "create"}, key : Key,
                 prev : 1 .. Last, blocked : BOOLEAN, vals : SUBSET Edit, seen : Run \cup {Nobody}]
<1>1. client[c] \in T /\ Resting \in T
  BY RestingIsClient DEF TypeOK, ClientType
<1>2. (\A n \in Readable : history[n].values \subseteq Edit) /\ Last \in 1 .. Last
  BY LastIsRevision DEF Revision, Readable
<1>3. ASSUME NEW b \in BOOLEAN, AfterActive(c, b) PROVE ClientType'
  <2>1. [client[c] EXCEPT !.pc = IF b THEN "create" ELSE "values", !.blocked = b, !.seen = Nobody] \in T
    BY <1>1
  <2> QED
    BY <1>0, <1>3, <2>1, ClientChange DEF AfterActive
<1>4. CASE StartUpgrade(c)
  <2>1. PICK k \in Key, b \in BOOLEAN :
          Set(c, [Resting EXCEPT !.pc = "active", !.key = k, !.prev = PreviousRevision, !.blocked = b])
    BY <1>4 DEF StartUpgrade
  <2>2. [Resting EXCEPT !.pc = "active", !.key = k, !.prev = PreviousRevision, !.blocked = b] \in T
    BY <1>1, <1>2 DEF PreviousRevision
  <2>3. ClientType'
    BY <1>0, <2>1, <2>2, ClientChange
  <2> QED
    BY <1>0, <1>4, <2>3 DEF StartUpgrade, TypeOK, rowVars, runVars, editVars, ClientType
<1>5. CASE CheckActive(c)
  <2>1. ClientType'
    <3>1. CASE \E i \in Run : Stale(i) /\ Set(c, [client[c] EXCEPT !.pc = "close", !.seen = i])
      <4>1. PICK i \in Run : Set(c, [client[c] EXCEPT !.pc = "close", !.seen = i])
        BY <3>1
      <4>2. [client[c] EXCEPT !.pc = "close", !.seen = i] \in T
        BY <1>1
      <4> QED
        BY <1>0, <4>1, <4>2, ClientChange
    <3>2. CASE AfterActive(c, TRUE)
      BY <1>3, <3>2
    <3>3. CASE AfterActive(c, client[c].blocked)
      BY <1>1, <1>3, <3>3
    <3> QED
      BY <1>5, <3>1, <3>2, <3>3 DEF CheckActive
  <2> QED
    BY <1>0, <1>5, <2>1 DEF CheckActive, TypeOK, rowVars, runVars, editVars, ClientType
<1>6. CASE CloseActive(c)
  <2> DEFINE i == client[c].seen
             b == client[c].blocked \/ row'[i].status \in ActiveStatus
  <2>1. i \in Run \cup {Nobody} /\ b \in BOOLEAN
    BY <1>1
  <2>2. ClientType'
    <3>1. CASE AfterActive(c, TRUE)
      BY <1>3, <3>1
    <3>2. CASE AfterActive(c, b)
      BY <1>3, <2>1, <3>2
    <3> QED
      BY <1>6, <3>1, <3>2 DEF CloseActive
  <2>3. RowType' /\ SilentType'
    <3>1. CASE CloseStaleRun(i)
      BY <1>0, <2>1, <3>1, CloseStaleKeepsType
    <3>2. CASE UNCHANGED rowVars
      BY <1>0, <3>2 DEF TypeOK, RowType, SilentType, rowVars
    <3> QED
      BY <1>6, <3>1, <3>2 DEF CloseActive
  <2>4. FaultType'
    <3>1. faults' = faults \/ (faults < MaxFaults /\ faults' = faults + 1)
      BY <1>6 DEF CloseActive
    <3> QED
      BY <3>1, BudgetAssumption DEF TypeOK, FaultType
  <2> QED
    BY <1>0, <1>6, <2>2, <2>3, <2>4
    DEF CloseActive, TypeOK, runVars, editVars, RowType, SilentType, FaultType
<1>7. CASE ReadValues(c)
  <2>1. PICK b \in BOOLEAN, n \in Readable :
          Set(c, [client[c] EXCEPT !.pc = "create", !.blocked = b, !.vals = history[n].values])
    BY <1>7 DEF ReadValues
  <2>2. [client[c] EXCEPT !.pc = "create", !.blocked = b, !.vals = history[n].values] \in T
    BY <1>1, <1>2
  <2>3. ClientType'
    BY <1>0, <2>1, <2>2, ClientChange
  <2> QED
    BY <1>0, <1>7, <2>3 DEF ReadValues, TypeOK, rowVars, runVars, editVars, ClientType
<1>8. CASE CreateRun(c)
  <2>1. ClientType'
    BY <1>0, <1>1, <1>8, ClientChange DEF CreateRun
  <2>2. PICK i \in Run :
          /\ row' = [row EXCEPT ![i] = [status |-> IF client[c].blocked THEN "blocked" ELSE "upgrading",
                                        key |-> client[c].key, prev |-> client[c].prev]]
          /\ IF client[c].blocked
             THEN UNCHANGED <<pc, vals>>
             ELSE /\ pc' = [pc EXCEPT ![i] = "upgrade"]
                  /\ vals' = [vals EXCEPT ![i] = client[c].vals]
    BY <1>8 DEF CreateRun
  <2>3. RowType'
    BY <1>0, <1>1, <2>2 DEF TypeOK, RowType, ActiveStatus, Closed
  <2>4. pc' \in [Run -> RunPc] /\ vals' \in [Run -> SUBSET Edit]
    BY <1>1, <2>2 DEF TypeOK, RunPc
  <2> QED
    BY <1>0, <1>8, <2>1, <2>3, <2>4 DEF CreateRun, TypeOK, editVars, RowType
<1>9. CASE Refuse(c)
  <2>1. ClientType'
    BY <1>0, <1>1, <1>9, ClientChange DEF Refuse
  <2> QED
    BY <1>0, <1>9, <2>1 DEF Refuse, TypeOK, rowVars, runVars, editVars, ClientType
<1> QED
  BY <1>4, <1>5, <1>6, <1>7, <1>8, <1>9 DEF ClientStep

LEMMA ViewerTypeStep ==
  ASSUME TypeOK, NEW v \in Viewer, Look(v) \/ CloseSeen(v)
  PROVE  TypeOK'
<1>0. /\ UNCHANGED <<history>> /\ Last' = Last
      /\ UNCHANGED <<pc, out, vals, client, editPc, editVals, editChart, crashes>>
  BY DEF Look, CloseSeen, runVars, editVars, Last
<1>1. ClientType' /\ GoType'
  BY <1>0 DEF TypeOK, ClientType, GoType
<1>2. CASE Look(v)
  BY <1>0, <1>1, <1>2 DEF Look, TypeOK, rowVars, GoType
<1>3. CASE CloseSeen(v)
  <2>1. RowType' /\ SilentType'
    <3>1. CASE CloseStaleRun(seen[v])
      <4>1. seen[v] \in Run \cup {Nobody}
        BY DEF TypeOK
      <4> QED
        BY <1>0, <3>1, <4>1, CloseStaleKeepsType
    <3>2. CASE UNCHANGED rowVars
      BY <1>0, <3>2 DEF TypeOK, RowType, SilentType, rowVars
    <3> QED
      BY <1>3, <3>1, <3>2 DEF CloseSeen
  <2>2. FaultType'
    <3>1. faults' = faults \/ (faults < MaxFaults /\ faults' = faults + 1)
      BY <1>3 DEF CloseSeen
    <3> QED
      BY <3>1, BudgetAssumption DEF TypeOK, FaultType
  <2>3. seen' \in [Viewer -> Run \cup {Nobody}]
    BY <1>3 DEF CloseSeen, TypeOK
  <2> QED
    BY <1>0, <1>1, <2>1, <2>2, <2>3 DEF TypeOK, RowType, SilentType, FaultType, GoType
<1> QED
  BY <1>2, <1>3

(* A step of a goroutine that touches the release                          *)
LEMMA ReleaseTypeStep ==
  ASSUME TypeOK, NEW i \in Run,
         \/ UpgradeChart(i) \/ UpgradeReturns(i) \/ Undo(i) \/ UndoReturns(i)
         \/ RollbackRelease(i) \/ RollbackReturns(i)
  PROVE  TypeOK'
<1>0. UNCHANGED <<row, silent, client, seen, editPc, editVals, editChart, faults, crashes>>
  BY DEF UpgradeChart, UpgradeReturns, Undo, UndoReturns, RollbackRelease, RollbackReturns,
         rowVars, editVars
<1>1. GoType'
  BY GoKeepsType, GoFinishKeepsType
  DEF UpgradeChart, UpgradeReturns, Undo, UndoReturns, RollbackRelease, RollbackReturns,
      RunPc, Closed
<1>2. Stays \/ \E chart, who : Grows(chart, who)
  BY RunGrows
<1>3. /\ history' \in Seq(Revision) /\ history' # <<>>
      /\ Last' = Last \/ Last' = Last + 1
  BY <1>2, Longer
<1>4. RowType' /\ ClientType'
  BY <1>0, <1>3, TypesGrow
<1> QED
  BY <1>0, <1>1, <1>3, <1>4 DEF TypeOK, RowType, GoType

(* A step of a goroutine that only decides, or only writes its row         *)
LEMMA LocalTypeStep ==
  ASSUME TypeOK, NEW i \in Run,
         \/ EnterHealthCheck(i) \/ Verify(i) \/ Recover(i) \/ BeginRollback(i)
         \/ VerifySource(i) \/ FinishRun(i) \/ Crash(i)
  PROVE  TypeOK'
<1>0. UNCHANGED <<history, client, seen, editPc, editVals, editChart>> /\ Last' = Last
  BY DEF EnterHealthCheck, Verify, Recover, BeginRollback, VerifySource, FinishRun, Crash,
         editVars, Last
<1>1. ClientType'
  BY <1>0 DEF TypeOK, ClientType
<1>2. CASE EnterHealthCheck(i) \/ BeginRollback(i) \/ FinishRun(i)
  <2>1. PICK status \in ActiveStatus \cup Closed, next \in RunPc : Save(i, status, next)
    <3>1. out[i] \in Closed
      BY DEF TypeOK
    <3> QED
      BY <1>2, <3>1 DEF EnterHealthCheck, BeginRollback, FinishRun, ActiveStatus, RunPc
  <2>2. RowType' /\ SilentType' /\ GoType' /\ FaultType'
    BY <1>0, <2>1, SaveKeepsType
  <2>3. crashes' = crashes
    BY <1>2 DEF EnterHealthCheck, BeginRollback, FinishRun
  <2> QED
    BY <1>0, <1>1, <2>2, <2>3 DEF TypeOK, RowType, SilentType, GoType, FaultType
<1>3. CASE Verify(i) \/ Recover(i) \/ VerifySource(i) \/ Crash(i)
  <2>1. GoType'
    <3>1. CASE Verify(i)
      BY <3>1, GoKeepsType, GoFinishKeepsType DEF Verify, RunPc, Closed
    <3>2. CASE Recover(i)
      BY <3>2, GoKeepsType, GoFinishKeepsType DEF Recover, RunPc, Closed
    <3>3. CASE VerifySource(i)
      BY <3>3, GoKeepsType, GoFinishKeepsType DEF VerifySource, RunPc, Closed
    <3>4. CASE Crash(i)
      BY <3>4, GoKeepsType DEF Crash, RunPc
    <3> QED
      BY <1>3, <3>1, <3>2, <3>3, <3>4
  <2>2. UNCHANGED <<row, silent, faults>>
    BY <1>3 DEF Verify, Recover, VerifySource, Crash, rowVars
  <2>3. crashes' \in 0 .. MaxCrashes
    <3>1. crashes' = crashes \/ (crashes < MaxCrashes /\ crashes' = crashes + 1)
      BY <1>3 DEF Verify, Recover, VerifySource, Crash
    <3> QED
      BY <3>1, BudgetAssumption DEF TypeOK
  <2> QED
    BY <1>0, <1>1, <2>1, <2>2, <2>3 DEF TypeOK, GoType
<1> QED
  BY <1>2, <1>3

LEMMA BeatTypeStep ==
  ASSUME TypeOK, NEW i \in Run, Heartbeat(i) \/ GrowSilent(i)
  PROVE  TypeOK'
<1>1. /\ UNCHANGED <<history, row, pc, out, vals, client, seen, editPc, editVals, editChart, faults, crashes>>
      /\ Last' = Last /\ silent' \in [Run -> BOOLEAN]
  BY DEF Heartbeat, GrowSilent, runVars, editVars, Last, TypeOK
<1> QED
  BY <1>1 DEF TypeOK, ClientType

LEMMA EditTypeStep ==
  ASSUME TypeOK, NEW e \in Edit, EditStep(e)
  PROVE  TypeOK'
<1>0. UNCHANGED <<row, silent, pc, out, vals, client, seen, faults, crashes>>
  BY DEF EditStep, EditRead, EditTakeChart, EditApply, EditReturns, rowVars, runVars
<1>1. /\ Current.chart \in Chart /\ \A n \in Readable : history[n].values \cup {e} \subseteq Edit
  BY LastIsRevision DEF Revision, Readable
<1>2. /\ history' \in Seq(Revision) /\ history' # <<>>
      /\ Last' = Last \/ Last' = Last + 1
  BY EditGrows, Longer
<1>3. RowType' /\ ClientType'
  BY <1>0, <1>2, TypesGrow
<1>4. /\ editPc' \in [Edit -> {"idle", "chart", "apply", "applying", "done"}]
      /\ editVals' \in [Edit -> SUBSET Edit] /\ editChart' \in [Edit -> Chart]
  BY <1>1 DEF EditStep, EditRead, EditTakeChart, EditApply, EditReturns, EditGo, TypeOK
<1> QED
  BY <1>0, <1>2, <1>3, <1>4 DEF TypeOK, RowType

LEMMA StepType == TypeOK /\ [Next]_vars => TypeOK'
<1> SUFFICES ASSUME TypeOK, [Next]_vars PROVE TypeOK'
  OBVIOUS
<1>1. ASSUME NEW c \in Client, StartUpgrade(c) \/ ClientStep(c) PROVE TypeOK'
  BY <1>1, ClientTypeStep
<1>2. ASSUME NEW v \in Viewer, Look(v) \/ CloseSeen(v) PROVE TypeOK'
  BY <1>2, ViewerTypeStep
<1>3. ASSUME NEW i \in Run, RunStep(i) \/ Crash(i) \/ Heartbeat(i) \/ GrowSilent(i) PROVE TypeOK'
  BY <1>3, ReleaseTypeStep, LocalTypeStep, BeatTypeStep DEF RunStep
<1>4. ASSUME NEW e \in Edit, EditStep(e) PROVE TypeOK'
  BY <1>4, EditTypeStep
<1>5. CASE UNCHANGED vars
  <2>1. UNCHANGED <<history, row, silent, pc, out, vals, client, seen, editPc, editVals, editChart, faults, crashes>>
    BY <1>5 DEF vars, rowVars, runVars, editVars
  <2> QED
    BY <2>1 DEF TypeOK, ClientType, Last
<1> QED
  BY <1>1, <1>2, <1>3, <1>4, <1>5 DEF Next

(* Every variable keeps its type, and the revision that recover would go   *)
(* back to exists: RollbackRelease never asks Helm for an unknown one.     *)
THEOREM TypeCorrect == Spec => []TypeOK
<1> QED
  BY InitType, StepType, PTL DEF Spec

-----------------------------------------------------------------------------
(* The two ways in which the table changes: a run is inserted, or an       *)
(* active one is written, by its goroutine or because it is silent.        *)

Inserted(i) ==
    /\ row[i].status = "none"
    /\ \E r \in [status : {"blocked", "upgrading"}, key : Key, prev : 1 .. Last] :
          /\ row' = [row EXCEPT ![i] = r]
          /\ r.status = "upgrading" => \A j \in Run : ~Active(j)

Written(i) ==
    /\ Active(i)
    /\ \E s \in ActiveStatus \cup Closed :
          /\ row' = [row EXCEPT ![i].status = s]
          /\ s \in Closed => silent[i] \/ pc'[i] # pc[i]

LEMMA SaveWrites ==
  ASSUME TypeOK, NEW i \in Run, NEW s \in ActiveStatus \cup Closed, NEW next \in RunPc,
         Save(i, s, next), s \in Closed => next # pc[i]
  PROVE  row' = row \/ Written(i)
<1>1. CASE UNCHANGED rowVars
  BY <1>1 DEF rowVars
<1>2. CASE Active(i) /\ row' = [row EXCEPT ![i].status = s] /\ Go(i, next)
  BY <1>2 DEF Written, Go, TypeOK
<1> QED
  BY <1>1, <1>2 DEF Save

LEMMA CloseWrites ==
  ASSUME TypeOK, NEW i \in Run \cup {Nobody}, CloseStaleRun(i)
  PROVE  row' = row \/ \E j \in Run : Written(j)
<1>1. CASE i \notin Run
  BY <1>1 DEF TypeOK, CloseStaleRun, rowVars
<1>2. CASE i \in Run
  <2>1. CASE Stale(i) /\ row' = [row EXCEPT ![i].status = "manual"]
    BY <1>2, <2>1 DEF Stale, Written, Closed
  <2> QED
    BY <2>1 DEF CloseStaleRun, rowVars
<1> QED
  BY <1>1, <1>2

LEMMA TableChange ==
  ASSUME TypeOK, [Next]_vars
  PROVE  row' = row \/ \E i \in Run : Inserted(i) \/ Written(i)
<1> DEFINE Same == row' = row
<1>1. ASSUME NEW c \in Client, StartUpgrade(c) \/ ClientStep(c)
      PROVE  Same \/ \E i \in Run : Inserted(i) \/ Written(i)
  <2>1. client[c] \in [pc : {"idle", "active", "close", "values", "create"}, key : Key,
                       prev : 1 .. Last, blocked : BOOLEAN, vals : SUBSET Edit,
                       seen : Run \cup {Nobody}]
    BY DEF TypeOK, ClientType
  <2>2. CASE CloseActive(c)
    <3>1. CASE UNCHANGED rowVars
      BY <3>1 DEF rowVars
    <3>2. CASE CloseStaleRun(client[c].seen)
      BY <2>1, <3>2, CloseWrites
    <3> QED
      BY <2>2, <3>1, <3>2 DEF CloseActive
  <2>3. CASE CreateRun(c)
    <3>1. PICK i \in Run :
            /\ Insertable(c, i)
            /\ row' = [row EXCEPT ![i] = [status |-> IF client[c].blocked THEN "blocked" ELSE "upgrading",
                                          key |-> client[c].key, prev |-> client[c].prev]]
      BY <2>3 DEF CreateRun
    <3> DEFINE r == [status |-> IF client[c].blocked THEN "blocked" ELSE "upgrading",
                     key |-> client[c].key, prev |-> client[c].prev]
    <3>2. r \in [status : {"blocked", "upgrading"}, key : Key, prev : 1 .. Last]
      BY <2>1
    <3>3. row[i].status = "none" /\ (r.status = "upgrading" => \A j \in Run : ~Active(j))
      BY <2>1, <3>1 DEF Insertable
    <3> QED
      BY <3>1, <3>2, <3>3 DEF Inserted
  <2>4. CASE StartUpgrade(c) \/ CheckActive(c) \/ ReadValues(c) \/ Refuse(c)
    BY <2>4 DEF StartUpgrade, CheckActive, ReadValues, Refuse, rowVars
  <2> QED
    BY <1>1, <2>2, <2>3, <2>4 DEF ClientStep
<1>2. ASSUME NEW v \in Viewer, Look(v) \/ CloseSeen(v)
      PROVE  Same \/ \E i \in Run : Inserted(i) \/ Written(i)
  <2>1. seen[v] \in Run \cup {Nobody}
    BY DEF TypeOK
  <2>2. CASE CloseStaleRun(seen[v])
    BY <2>1, <2>2, CloseWrites
  <2>3. CASE UNCHANGED rowVars
    BY <2>3 DEF rowVars
  <2> QED
    BY <1>2, <2>2, <2>3 DEF Look, CloseSeen
<1>3. ASSUME NEW i \in Run, RunStep(i) \/ Crash(i) \/ Heartbeat(i) \/ GrowSilent(i)
      PROVE  Same \/ Written(i)
  <2>1. CASE EnterHealthCheck(i) \/ BeginRollback(i)
    <3>1. PICK s \in ActiveStatus, next \in RunPc : Save(i, s, next)
      BY <2>1 DEF EnterHealthCheck, BeginRollback, ActiveStatus, RunPc
    <3>2. s \notin Closed
      BY DEF ActiveStatus, Closed
    <3> QED
      BY <3>1, <3>2, SaveWrites
  <2>2. CASE FinishRun(i)
    <3>1. out[i] \in Closed /\ "idle" \in RunPc /\ pc[i] = "finish" /\ Save(i, out[i], "idle")
      BY <2>2 DEF FinishRun, TypeOK, RunPc
    <3> QED
      BY <3>1, SaveWrites
  <2>3. CASE \/ UpgradeChart(i) \/ UpgradeReturns(i) \/ Undo(i) \/ UndoReturns(i) \/ Verify(i)
             \/ Recover(i) \/ RollbackRelease(i) \/ RollbackReturns(i) \/ VerifySource(i) \/ Crash(i) \/ Heartbeat(i) \/ GrowSilent(i)
    BY <2>3 DEF UpgradeChart, UpgradeReturns, Undo, UndoReturns, Verify, Recover, RollbackRelease,
                RollbackReturns, VerifySource,
                Crash, Heartbeat, GrowSilent, rowVars
  <2> QED
    BY <1>3, <2>1, <2>2, <2>3 DEF RunStep
<1>4. ASSUME NEW e \in Edit, EditStep(e) PROVE Same
  BY <1>4 DEF EditStep, EditRead, EditTakeChart, EditApply, EditReturns, rowVars
<1>5. CASE UNCHANGED vars
  BY <1>5 DEF vars, rowVars
<1> QED
  BY <1>1, <1>2, <1>3, <1>4, <1>5 DEF Next

(* At most one upgrade of a stack is in progress: the index on active runs *)
(* holds however requests, stale closings and rollbacks interleave.        *)
THEOREM ActiveRunIsUnique == Spec => []OneActiveRun
<1>1. Init => OneActiveRun
  BY DEF Init, OneActiveRun, Active, ActiveStatus
<1>2. TypeOK /\ OneActiveRun /\ [Next]_vars => OneActiveRun'
  <2> SUFFICES ASSUME TypeOK, OneActiveRun, [Next]_vars,
                      NEW i \in Run, NEW j \in Run, Active(i)', Active(j)'
               PROVE  i = j
    BY DEF OneActiveRun
  <2>1. CASE row' = row
    BY <2>1 DEF OneActiveRun, Active
  <2>2. ASSUME NEW k \in Run, Inserted(k) PROVE i = j
    <3>1. \A n \in Run : Active(n)' => n = k \/ Active(n)
      BY <2>2 DEF Inserted, Active, TypeOK
    <3>2. Active(k)' => \A n \in Run : ~Active(n)
      BY <2>2 DEF Inserted, Active, ActiveStatus, TypeOK
    <3> QED
      BY <3>1, <3>2 DEF OneActiveRun
  <2>3. ASSUME NEW k \in Run, Written(k) PROVE i = j
    <3>1. \A n \in Run : Active(n)' => Active(n)
      BY <2>3 DEF Written, Active, TypeOK
    <3> QED
      BY <3>1 DEF OneActiveRun
  <2> QED
    BY <2>1, <2>2, <2>3, TableChange
<1> QED
  BY <1>1, <1>2, TypeCorrect, PTL DEF Spec

(* A closed run is never written again, whatever its goroutine, a late     *)
(* reader or a request that saw it active still has in hand.               *)
THEOREM ClosedIsFinal == Spec => ClosedStaysClosed
<1>1. TypeOK /\ [Next]_vars => [\A i \in Run : row[i].status \in Closed => row'[i] = row[i]]_vars
  <2> SUFFICES ASSUME TypeOK, [Next]_vars, NEW i \in Run, row[i].status \in Closed
               PROVE  row'[i] = row[i]
    OBVIOUS
  <2>1. ~Active(i) /\ row[i].status # "none"
    BY DEF Active, ActiveStatus, Closed
  <2>2. \A k \in Run : Inserted(k) \/ Written(k) => k # i
    BY <2>1 DEF Inserted, Written
  <2> QED
    BY <2>2, TableChange DEF Inserted, Written, TypeOK
<1> QED
  BY <1>1, TypeCorrect, PTL DEF Spec, ClosedStaysClosed

(* Only its own goroutine closes a run that is not silent, however long    *)
(* ago the others have read it.                                            *)
THEOREM SilenceBeforeClosing == Spec => CloseNeedsSilence
<1>1. TypeOK /\ [Next]_vars =>
        [\A i \in Run : Active(i) /\ row'[i].status \in Closed /\ pc'[i] = pc[i] => silent[i]]_vars
  <2> SUFFICES ASSUME TypeOK, [Next]_vars, NEW i \in Run,
                      Active(i), row'[i].status \in Closed, pc'[i] = pc[i]
               PROVE  silent[i]
    OBVIOUS
  <2>1. row'[i] # row[i] /\ row[i].status # "none"
    BY DEF Active, ActiveStatus, Closed
  <2>2. Inserted(i) \/ Written(i)
    BY <2>1, TableChange DEF Inserted, Written, TypeOK
  <2> QED
    BY <2>1, <2>2 DEF Inserted, Written, TypeOK
<1> QED
  BY <1>1, TypeCorrect, PTL DEF Spec, CloseNeedsSilence

-----------------------------------------------------------------------------
(* failed means unchanged.  A run takes the word of recover, which compares*)
(* the release's last revision with the one before the run: so each        *)
(* revision of a run has to lie above that one, and a run that has ended   *)
(* must not have a goroutine any more.                                     *)

NoneBy(i) == \A n \in 1 .. Last : history[n].by # i

RestsUnlessLaunched == \A i \in Run : row[i].status \in {"none", "blocked", "failed"} => pc[i] = "idle"

RevisionsAbove ==
    \A i \in Run, n \in 1 .. Last :
        history[n].by = i => row[i].status # "none" /\ n > row[i].prev

FailsUnchanged == \A i \in Run : pc[i] = "finish" /\ out[i] = "failed" => NoneBy(i)

FailureInv == RestsUnlessLaunched /\ RevisionsAbove /\ FailsUnchanged /\ FailedChangedNothing

(* A step that makes no revision                                           *)
LEMMA FailureLocal ==
  ASSUME TypeOK, FailureInv, Stays, NEW i \in Run,
         \A j \in Run \ {i} : row'[j] = row[j] /\ pc'[j] = pc[j] /\ out'[j] = out[j],
         row[i].status # "none" => row'[i].status # "none" /\ row'[i].prev = row[i].prev,
         row'[i].status \in {"none", "blocked", "failed"} => pc'[i] = "idle",
         pc'[i] = "finish" /\ out'[i] = "failed" => NoneBy(i),
         row'[i].status = "failed" => NoneBy(i)
  PROVE  FailureInv'
<1>1. Last' = Last /\ \A j \in Run : NoneBy(j)' = NoneBy(j)
  BY DEF Stays, NoneBy
<1>2. RestsUnlessLaunched'
  BY DEF FailureInv, RestsUnlessLaunched
<1>3. RevisionsAbove'
  BY <1>1 DEF Stays, FailureInv, RevisionsAbove
<1>4. FailsUnchanged'
  BY <1>1 DEF FailureInv, FailsUnchanged
<1>5. FailedChangedNothing'
  BY <1>1 DEF FailureInv, FailedChangedNothing, NoneBy
<1> QED
  BY <1>2, <1>3, <1>4, <1>5 DEF FailureInv

(* A step that makes a revision, of a run or of an edit                    *)
LEMMA FailureAppend ==
  ASSUME TypeOK, FailureInv, NEW chart, NEW who, Grows(chart, who), UNCHANGED row,
         \A j \in Run : who = j => pc[j] # "idle" /\ pc[j] # "finish",
         \A j \in Run : pc'[j] = "idle" <=> pc[j] = "idle",
         \A j \in Run : pc'[j] = "finish" /\ out'[j] = "failed" => pc[j] = "finish" /\ out[j] = "failed"
  PROVE  FailureInv'
<1>0. PICK x \in Revision : history' = Append(history, x) /\ x.by = who
  BY DEF Grows
<1>1. /\ Last' = Last + 1 /\ Last \in Nat \ {0} /\ history'[Last'] = x
      /\ \A n \in 1 .. Last : history'[n] = history[n]
  BY <1>0, Appended
<1>2. \A n \in 1 .. Last' : n = Last' \/ n \in 1 .. Last
  BY <1>1
<1>3. \A j \in Run : NoneBy(j) /\ who # j => NoneBy(j)'
  BY <1>0, <1>1, <1>2 DEF NoneBy
<1>4. \A j \in Run : who = j => row[j].status \notin {"none", "blocked", "failed"}
  BY DEF FailureInv, RestsUnlessLaunched
<1>5. \A j \in Run : row[j].prev \in 1 .. Last
  BY DEF TypeOK
<1>6. RestsUnlessLaunched'
  BY DEF FailureInv, RestsUnlessLaunched
<1>7. RevisionsAbove'
  <2> SUFFICES ASSUME NEW j \in Run, NEW n \in 1 .. Last', history'[n].by = j
               PROVE  row'[j].status # "none" /\ n > row'[j].prev
    BY DEF RevisionsAbove
  <2>1. CASE n = Last'
    <3>1. row[j].status # "none"
      BY <1>0, <1>1, <1>4, <2>1
    <3>2. row[j].prev \in 1 .. Last
      BY <1>5
    <3>3. n > row[j].prev
      BY <1>1, <2>1, <3>2
    <3> QED
      BY <3>1, <3>3
  <2>2. CASE n \in 1 .. Last
    BY <1>1, <2>2 DEF FailureInv, RevisionsAbove
  <2> QED
    BY <1>2, <2>1, <2>2
<1>8. FailsUnchanged'
  BY <1>3 DEF FailureInv, FailsUnchanged
<1>9. FailedChangedNothing'
  <2> SUFFICES ASSUME NEW j \in Run, row'[j].status = "failed" PROVE NoneBy(j)'
    BY DEF FailedChangedNothing, NoneBy
  <2> QED
    BY <1>3, <1>4 DEF FailureInv, FailedChangedNothing, NoneBy
<1> QED
  BY <1>6, <1>7, <1>8, <1>9 DEF FailureInv

LEMMA FailureStep == TypeOK /\ FailureInv /\ [Next]_vars => FailureInv'
<1> SUFFICES ASSUME TypeOK, FailureInv, [Next]_vars PROVE FailureInv'
  OBVIOUS
<1> DEFINE Quiet(j) == row'[j] = row[j] /\ pc'[j] = pc[j] /\ out'[j] = out[j]
<1>0. /\ \A j \in Run : row[j].status \in {"none", "blocked", "failed"} => pc[j] = "idle"
      /\ \A j \in Run : pc[j] = "finish" /\ out[j] = "failed" => NoneBy(j)
      /\ \A j \in Run : row[j].status = "failed" => NoneBy(j)
      /\ \A j \in Run : row[j].status = "none" => NoneBy(j)
  BY DEF FailureInv, RestsUnlessLaunched, FailsUnchanged, FailedChangedNothing, RevisionsAbove, NoneBy
<1>00. UNCHANGED history => Stays
  BY UnchangedStays
<1>1. ASSUME UNCHANGED history, \A j \in Run : Quiet(j) PROVE FailureInv'
  <2>1. CASE Run = {}
    BY <2>1 DEF FailureInv, RestsUnlessLaunched, RevisionsAbove, FailsUnchanged, FailedChangedNothing
  <2>2. ASSUME NEW i \in Run PROVE FailureInv'
    BY <1>0, <1>00, <1>1, FailureLocal
  <2> QED
    BY <2>1, <2>2
<1>2. ASSUME UNCHANGED <<history, pc, out>>, NEW k \in Run \cup {Nobody}, CloseStaleRun(k)
      PROVE  FailureInv'
  <2>1. CASE k \in Run /\ row' = [row EXCEPT ![k].status = "manual"]
    <3>1. /\ \A j \in Run \ {k} : Quiet(j)
          /\ row'[k].status = "manual" /\ row'[k].prev = row[k].prev
          /\ pc'[k] = pc[k] /\ out'[k] = out[k]
      BY <1>2, <2>1 DEF TypeOK
    <3> QED
      BY <1>0, <1>00, <1>2, <2>1, <3>1, FailureLocal
  <2>2. CASE row' = row
    BY <1>1, <1>2, <2>2
  <2>3. k \notin Run => row' = row
    BY <1>2 DEF CloseStaleRun, rowVars, TypeOK
  <2> QED
    BY <1>2, <2>1, <2>2, <2>3 DEF CloseStaleRun, rowVars
<1>3. ASSUME NEW c \in Client, StartUpgrade(c) \/ ClientStep(c) PROVE FailureInv'
  <2>1. CASE StartUpgrade(c) \/ CheckActive(c) \/ ReadValues(c) \/ Refuse(c)
    BY <1>1, <2>1 DEF StartUpgrade, CheckActive, ReadValues, Refuse, rowVars, runVars
  <2>2. CASE CloseActive(c)
    <3>1. UNCHANGED <<history, pc, out>> /\ client[c].seen \in Run \cup {Nobody}
      BY <2>2 DEF CloseActive, runVars, TypeOK, ClientType
    <3>2. CASE UNCHANGED rowVars
      BY <1>1, <3>1, <3>2 DEF rowVars
    <3>3. CASE CloseStaleRun(client[c].seen)
      BY <1>2, <3>1, <3>3
    <3> QED
      BY <2>2, <3>2, <3>3 DEF CloseActive
  <2>3. CASE CreateRun(c)
    <3>1. PICK i \in Run :
            /\ row[i].status = "none"
            /\ row' = [row EXCEPT ![i] = [status |-> IF client[c].blocked THEN "blocked" ELSE "upgrading",
                                          key |-> client[c].key, prev |-> client[c].prev]]
            /\ IF client[c].blocked THEN pc' = pc ELSE pc' = [pc EXCEPT ![i] = "upgrade"]
      BY <2>3 DEF CreateRun, Insertable
    <3>2. UNCHANGED <<history, out>> /\ pc[i] = "idle"
      BY <1>0, <1>00, <2>3, <3>1 DEF CreateRun
    <3>3. /\ \A j \in Run \ {i} : Quiet(j)
          /\ row'[i].status = IF client[c].blocked THEN "blocked" ELSE "upgrading"
          /\ pc'[i] = IF client[c].blocked THEN "idle" ELSE "upgrade"
      BY <3>1, <3>2 DEF TypeOK
    <3> QED
      BY <1>00, <3>1, <3>2, <3>3, FailureLocal
  <2> QED
    BY <1>3, <2>1, <2>2, <2>3 DEF ClientStep
<1>4. ASSUME NEW v \in Viewer, Look(v) \/ CloseSeen(v) PROVE FailureInv'
  <2>1. UNCHANGED <<history, pc, out>> /\ seen[v] \in Run \cup {Nobody}
    BY <1>4 DEF Look, CloseSeen, runVars, TypeOK
  <2>2. CASE UNCHANGED rowVars
    BY <1>1, <2>1, <2>2 DEF rowVars
  <2>3. CASE CloseStaleRun(seen[v])
    BY <1>2, <2>1, <2>3
  <2> QED
    BY <1>4, <2>2, <2>3 DEF Look, CloseSeen
<1>5. ASSUME NEW i \in Run, EnterHealthCheck(i) \/ BeginRollback(i) \/ FinishRun(i) PROVE FailureInv'
  <2>1. PICK s \in ActiveStatus \cup Closed, next \in RunPc \ {"finish"} :
          /\ Save(i, s, next)
          /\ s \in {"blocked", "failed"} => next = "idle"
          /\ s = "failed" => NoneBy(i)
    <3>1. CASE EnterHealthCheck(i) \/ BeginRollback(i)
      BY <3>1 DEF EnterHealthCheck, BeginRollback, ActiveStatus, RunPc
    <3>2. CASE FinishRun(i)
      BY <1>0, <1>00, <3>2 DEF FinishRun, RunPc, TypeOK
    <3> QED
      BY <1>5, <3>1, <3>2
  <2>2. UNCHANGED history /\ pc[i] # "idle"
    BY <1>5 DEF EnterHealthCheck, BeginRollback, FinishRun
  <2>3. s # "none"
    BY DEF ActiveStatus, Closed
  <2>4. \A j \in Run \ {i} : Quiet(j)
    BY <2>1 DEF Save, Go, rowVars, TypeOK
  <2>5. /\ pc'[i] \in {next, "idle"}
        /\ \/ row'[i] = row[i]
           \/ row'[i].status = s /\ row'[i].prev = row[i].prev /\ pc'[i] = next
    BY <2>1 DEF Save, Go, rowVars, TypeOK
  <2> QED
    BY <1>0, <1>00, <2>1, <2>2, <2>3, <2>4, <2>5, FailureLocal
<1>6. ASSUME NEW i \in Run, Verify(i) \/ Recover(i) \/ VerifySource(i) \/ Crash(i) PROVE FailureInv'
  <2>1. UNCHANGED <<history, row>> /\ pc[i] # "idle"
    BY <1>6 DEF Verify, Recover, VerifySource, Crash, rowVars
  <2>2. \A j \in Run \ {i} : Quiet(j)
    BY <1>6, <2>1 DEF Verify, Recover, VerifySource, Crash, Go, GoFinish, TypeOK
  <2>3. pc'[i] = "finish" /\ out'[i] = "failed" => NoneBy(i)
    <3>1. pc'[i] = "finish" /\ out'[i] = "failed" => Untouched(i)
      BY <1>6 DEF Verify, Recover, VerifySource, Crash, Go, GoFinish, TypeOK
    <3>2. ASSUME Untouched(i) PROVE NoneBy(i)
      <4>1. row[i].prev \in 1 .. Last /\ Last \in Nat /\ Last <= row[i].prev
        BY <3>2, LastIsRevision DEF Untouched, TypeOK
      <4>2. \A n \in 1 .. Last : ~(n > row[i].prev)
        BY <4>1
      <4> QED
        BY <4>2 DEF NoneBy, FailureInv, RevisionsAbove
    <3> QED
      BY <3>1, <3>2
  <2> QED
    BY <1>0, <1>00, <2>1, <2>2, <2>3, FailureLocal
<1>7. ASSUME NEW i \in Run,
             \/ UpgradeChart(i) \/ UpgradeReturns(i) \/ Undo(i) \/ UndoReturns(i)
             \/ RollbackRelease(i) \/ RollbackReturns(i)
      PROVE  FailureInv'
  <2>1. /\ row' = row /\ pc[i] \notin {"idle", "finish"}
        /\ pc'[i] # "idle" /\ ~(pc'[i] = "finish" /\ out'[i] = "failed")
        /\ \A j \in Run \ {i} : Quiet(j)
    BY <1>7 DEF UpgradeChart, UpgradeReturns, Undo, UndoReturns, RollbackRelease, RollbackReturns,
                Go, GoFinish, rowVars, TypeOK
  <2>2. CASE Stays
    BY <1>0, <2>1, <2>2, FailureLocal
  <2>3. ASSUME NEW chart, Grows(chart, i) PROVE FailureInv'
    BY <2>1, <2>3, FailureAppend
  <2>4. Stays \/ \E chart : Grows(chart, i)
    BY <1>7, RunGrows
  <2> QED
    BY <2>2, <2>3, <2>4
<1>8. ASSUME NEW i \in Run, Heartbeat(i) \/ GrowSilent(i) PROVE FailureInv'
  BY <1>1, <1>8 DEF Heartbeat, GrowSilent, runVars
<1>9. ASSUME NEW e \in Edit, EditStep(e) PROVE FailureInv'
  <2>1. UNCHANGED <<row, pc, out>>
    BY <1>9 DEF EditStep, EditRead, EditTakeChart, EditApply, EditReturns, rowVars, runVars
  <2>2. CASE Stays
    <3>1. ASSUME NEW i \in Run PROVE FailureInv'
      BY <1>0, <2>1, <2>2, FailureLocal
    <3>2. CASE Run = {}
      BY <3>2 DEF FailureInv, RestsUnlessLaunched, RevisionsAbove, FailsUnchanged, FailedChangedNothing
    <3> QED
      BY <3>1, <3>2
  <2>3. ASSUME NEW chart, Grows(chart, e) PROVE FailureInv'
    <3>1. \A j \in Run : e # j
      BY EditAssumption
    <3> QED
      BY <2>1, <2>3, <3>1, FailureAppend
  <2> QED
    BY <1>9, <2>2, <2>3, EditGrows
<1>10. CASE UNCHANGED vars
  BY <1>1, <1>10 DEF vars, rowVars, runVars
<1> QED
  BY <1>3, <1>4, <1>5, <1>6, <1>7, <1>8, <1>9, <1>10 DEF Next, RunStep

(* A run shown as failed has not made a revision of the release, whatever  *)
(* else was upgraded, edited, lost or restarted meanwhile.                 *)
THEOREM FailedIsHarmless == Spec => []FailedChangedNothing
<1>1. Init => FailureInv
  <2> SUFFICES ASSUME Init PROVE FailureInv
    OBVIOUS
  <2>1. \A i \in Run : row[i].status = "none" /\ pc[i] = "idle"
    BY DEF Init
  <2>2. Last = 1 /\ \A i \in Run, n \in 1 .. Last : history[n].by # i
    BY NobodyAssumption DEF Init, Last
  <2> QED
    BY <2>1, <2>2
    DEF FailureInv, RestsUnlessLaunched, RevisionsAbove, FailsUnchanged, FailedChangedNothing
<1>2. FailureInv => FailedChangedNothing
  BY DEF FailureInv
<1> QED
  BY <1>1, <1>2, FailureStep, TypeCorrect, PTL DEF Spec
-----------------------------------------------------------------------------
(* The outcome of a run matches the release.  It is concluded in one step  *)
(* and saved in a later one; in between only the run's own goroutine would *)
(* change the chart, for a run that has a goroutine is active and beats,   *)
(* so that nobody closes it and no other run can start; an edit that does  *)
(* is remembered in the history for good.                                  *)

SilentIsActive == \A i \in Run : silent[i] => Active(i)

BeatsKept == \A i \in Run : pc[i] # "idle" => Active(i) /\ ~silent[i]

(* what a request has seen, and what its run would go back to              *)
SourceSeen ==
    \A c \in Client :
        /\ client[c].pc # "idle" /\ ~client[c].blocked => history[client[c].prev].chart = "source"
        /\ client[c].pc = "values" => ~client[c].blocked

SourceBefore == \A i \in Run : pc[i] # "idle" => history[row[i].prev].chart = "source"

(* the chart the release has by what the goroutine has seen or done        *)
AtTarget == {"upgrading", "enter_health", "verify"}
AtSource == {"confirm", "rolling", "verify_source"}

Concluded(i) ==
    /\ pc[i] \in AtTarget \/ (pc[i] = "finish" /\ out[i] = "succeeded")
          => Current.chart = "target" \/ Displaced(i)
    /\ pc[i] \in AtSource \/ (pc[i] = "finish" /\ out[i] = "rolled_back")
          => Current.chart = "source" \/ Displaced(i)

OutcomeInv ==
    SilentIsActive /\ BeatsKept /\ SourceSeen /\ SourceBefore /\ \A i \in Run : Concluded(i)

(* What is said of revisions that are there does not change.               *)
LEMMA ChartsStay ==
  ASSUME TypeOK, Stays \/ \E chart, who : Grows(chart, who)
  PROVE  /\ \A n \in 1 .. Last : history'[n].chart = history[n].chart
         /\ \A i \in Run : row'[i].prev = row[i].prev /\ Displaced(i) => Displaced(i)'
         /\ Stays => Current'.chart = Current.chart
<1>1. /\ Last \in Nat \ {0} /\ Last \in 1 .. Last
      /\ Last' = Last \/ Last' = Last + 1
      /\ \A n \in 1 .. Last : history'[n].by = history[n].by /\ history'[n].chart = history[n].chart
  BY Longer, LastIsRevision
<1>2. ASSUME NEW i \in Run, row'[i].prev = row[i].prev, Displaced(i) PROVE Displaced(i)'
  <2>1. PICK n \in 1 .. Last : n > row[i].prev /\ BringsChart(n)
    BY <1>2 DEF Displaced
  <2>2. n > 1 /\ n \in 1 .. Last' /\ n - 1 \in 1 .. Last
    BY <1>1, <2>1 DEF BringsChart
  <2>3. history[n].by \in Edit /\ history'[n].by \in Edit /\ history'[n].chart # history'[n - 1].chart
    BY <1>1, <2>1, <2>2 DEF BringsChart
  <2> QED
    BY <1>2, <2>1, <2>2, <2>3 DEF Displaced, BringsChart
<1>3. Stays => Current'.chart = Current.chart
  BY <1>1 DEF Stays, Current
<1> QED
  BY <1>1, <1>2, <1>3

(* A step that leaves the release and the runs alone                       *)
LEMMA OutcomeOfRows ==
  ASSUME TypeOK, OutcomeInv, UNCHANGED <<history, client>>, NEW i \in Run,
         \A j \in Run \ {i} : /\ row'[j] = row[j] /\ silent'[j] = silent[j]
                              /\ pc'[j] = pc[j] /\ out'[j] = out[j],
         row'[i].prev = row[i].prev,
         silent'[i] \/ pc'[i] # "idle" => row'[i].status \in ActiveStatus,
         pc'[i] # "idle" => ~silent'[i] /\ pc[i] # "idle",
         Concluded(i)'
  PROVE  OutcomeInv'
<1>1. SilentIsActive'
  BY DEF OutcomeInv, SilentIsActive, Active
<1>2. BeatsKept'
  BY DEF OutcomeInv, BeatsKept, Active
<1>3. SourceSeen'
  BY DEF OutcomeInv, SourceSeen
<1>4. SourceBefore'
  BY DEF OutcomeInv, SourceBefore
<1>5. ASSUME NEW j \in Run, j # i PROVE Concluded(j)'
  <2>1. /\ Current' = Current /\ Last' = Last
        /\ row'[j] = row[j] /\ pc'[j] = pc[j] /\ out'[j] = out[j]
    BY <1>5 DEF Current, Last
  <2>2. Displaced(j)' = Displaced(j)
    BY <2>1 DEF Displaced, BringsChart
  <2> QED
    BY <2>1, <2>2 DEF OutcomeInv, Concluded
<1> QED
  BY <1>1, <1>2, <1>3, <1>4, <1>5 DEF OutcomeInv

(* A step of the only goroutine there is, which may change the release     *)
LEMMA OutcomeOfRun ==
  ASSUME TypeOK, OutcomeInv, Stays \/ \E chart, who : Grows(chart, who),
         UNCHANGED <<client, row, silent>>, NEW i \in Run, pc[i] # "idle",
         \A j \in Run \ {i} : pc[j] = "idle" /\ pc'[j] = pc[j],
         Concluded(i)'
  PROVE  OutcomeInv'
<1>1. SilentIsActive'
  BY DEF OutcomeInv, SilentIsActive, Active
<1>2. BeatsKept'
  BY DEF OutcomeInv, BeatsKept, Active
<1>3. \A n \in 1 .. Last : history'[n].chart = history[n].chart
  BY ChartsStay
<1>4. /\ \A c \in Client : client[c].prev \in 1 .. Last
      /\ \A j \in Run : row[j].prev \in 1 .. Last
  BY DEF TypeOK, ClientType
<1>5. SourceSeen'
  BY <1>3, <1>4 DEF OutcomeInv, SourceSeen
<1>6. SourceBefore'
  BY <1>3, <1>4 DEF OutcomeInv, SourceBefore
<1>7. \A j \in Run \ {i} : Concluded(j)'
  BY DEF Concluded, AtTarget, AtSource
<1> QED
  BY <1>1, <1>2, <1>5, <1>6, <1>7 DEF OutcomeInv

(* A run that is silent has no goroutine that it could be closed under.    *)
LEMMA OutcomeClose ==
  ASSUME TypeOK, OutcomeInv, UNCHANGED <<history, pc, out>>, SourceSeen',
         NEW k \in Run \cup {Nobody}, CloseStaleRun(k) \/ UNCHANGED rowVars
  PROVE  OutcomeInv'
<1>0. Current' = Current /\ Last' = Last
  BY DEF Current, Last
<1>1. \A j \in Run : row'[j].prev = row[j].prev => Displaced(j)' = Displaced(j)
  BY <1>0 DEF Displaced, BringsChart
<1>2. CASE UNCHANGED rowVars
  BY <1>0, <1>1, <1>2 DEF OutcomeInv, SilentIsActive, BeatsKept, SourceBefore, Concluded, Active, rowVars
<1>3. ASSUME k \in Run, Stale(k), row' = [row EXCEPT ![k].status = "manual"],
             silent' = [silent EXCEPT ![k] = FALSE]
      PROVE  OutcomeInv'
  <2>1. pc[k] = "idle"
    BY <1>3 DEF OutcomeInv, BeatsKept, Stale
  <2>2. /\ silent'[k] = FALSE /\ row'[k].prev = row[k].prev
        /\ \A j \in Run \ {k} : row'[j] = row[j] /\ silent'[j] = silent[j]
    BY <1>3 DEF TypeOK
  <2>3. SilentIsActive' /\ BeatsKept'
    BY <2>1, <2>2 DEF OutcomeInv, SilentIsActive, BeatsKept, Active
  <2>4. SourceBefore'
    BY <2>1, <2>2 DEF OutcomeInv, SourceBefore
  <2>5. \A j \in Run : Concluded(j)'
    BY <1>0, <1>1, <2>1, <2>2 DEF OutcomeInv, Concluded
  <2> QED
    BY <2>3, <2>4, <2>5 DEF OutcomeInv
<1>4. k \notin Run => UNCHANGED rowVars
  BY DEF TypeOK, CloseStaleRun, rowVars
<1> QED
  BY <1>2, <1>3, <1>4 DEF CloseStaleRun

(* What a request has seen of the release stays true as it goes on.        *)
LEMMA RequestSeesSource ==
  ASSUME TypeOK, OutcomeInv, NEW c \in Client, StartUpgrade(c) \/ ClientStep(c)
  PROVE  SourceSeen'
<1> DEFINE Fine(r) == /\ r.pc # "idle" /\ ~r.blocked => history[r.prev].chart = "source"
                      /\ r.pc = "values" => ~r.blocked
<1>1. history' = history /\ \A d \in Client : Fine(client[d])
  BY DEF StartUpgrade, ClientStep, CheckActive, CloseActive, ReadValues, CreateRun, Refuse,
         OutcomeInv, SourceSeen
<1>2. ASSUME NEW r, Set(c, r), Fine(r) PROVE SourceSeen'
  <2>1. \A d \in Client : client'[d] = IF d = c THEN r ELSE client[d]
    BY <1>2 DEF Set, TypeOK, ClientType
  <2> QED
    BY <1>1, <1>2, <2>1 DEF SourceSeen
<1>3. /\ client[c].blocked \in BOOLEAN
      /\ client[c] = [client[c] EXCEPT !.seen = client[c].seen]
      /\ client[c] \in [pc : {"idle", "active", "close", "values", "create"}, key : Key,
                        prev : 1 .. Last, blocked : BOOLEAN, vals : SUBSET Edit,
                        seen : Run \cup {Nobody}]
  BY DEF TypeOK, ClientType
<1>4. Fine(Resting)
  BY DEF Resting
<1>5. ASSUME NEW b \in BOOLEAN, AfterActive(c, b), client[c].pc # "idle", ~b => ~client[c].blocked
      PROVE  SourceSeen'
  <2> DEFINE r == [client[c] EXCEPT !.pc = IF b THEN "create" ELSE "values",
                                    !.blocked = b, !.seen = Nobody]
  <2>1. r.blocked = b /\ r.prev = client[c].prev /\ r.pc = IF b THEN "create" ELSE "values"
    BY <1>3
  <2>2. Fine(r)
    BY <1>1, <1>5, <2>1
  <2> QED
    BY <1>2, <1>5, <2>2 DEF AfterActive
<1>6. CASE StartUpgrade(c)
  <2>1. PICK k \in Key, b \in BOOLEAN :
          /\ Current.status # "deployed" \/ Current.chart # "source" => b
          /\ Set(c, [Resting EXCEPT !.pc = "active", !.key = k, !.prev = PreviousRevision, !.blocked = b])
    BY <1>6 DEF StartUpgrade
  <2> DEFINE r == [Resting EXCEPT !.pc = "active", !.key = k, !.prev = PreviousRevision, !.blocked = b]
  <2>2. r.pc = "active" /\ r.prev = Last /\ r.blocked = b
    BY DEF Resting, PreviousRevision
  <2>3. Fine(r)
    BY <2>1, <2>2 DEF Current
  <2> QED
    BY <1>2, <2>1, <2>3
<1>7. CASE CheckActive(c)
  <2>1. ASSUME NEW i \in Run, Set(c, [client[c] EXCEPT !.pc = "close", !.seen = i]), client[c].pc = "active"
        PROVE  SourceSeen'
    <3> DEFINE r == [client[c] EXCEPT !.pc = "close", !.seen = i]
    <3>1. r.pc = "close" /\ r.prev = client[c].prev /\ r.blocked = client[c].blocked
      BY <1>3
    <3>2. Fine(r)
      BY <1>1, <2>1, <3>1
    <3> QED
      BY <1>2, <2>1, <3>2
  <2>2. CASE AfterActive(c, TRUE) /\ client[c].pc = "active"
    BY <1>5, <2>2
  <2>3. CASE AfterActive(c, client[c].blocked) /\ client[c].pc = "active"
    BY <1>3, <1>5, <2>3
  <2> QED
    BY <1>7, <2>1, <2>2, <2>3 DEF CheckActive
<1>8. CASE CloseActive(c)
  <2> DEFINE b == client[c].blocked \/ row'[client[c].seen].status \in ActiveStatus
  <2>1. client[c].pc = "close" /\ (AfterActive(c, TRUE) \/ AfterActive(c, b))
    BY <1>8 DEF CloseActive
  <2>2. PICK v \in BOOLEAN : (v <=> b) /\ (AfterActive(c, TRUE) \/ AfterActive(c, v))
    BY <1>3, <2>1
  <2> HIDE DEF b
  <2>3. ~v => ~client[c].blocked
    BY <2>2 DEF b
  <2> QED
    BY <1>5, <2>1, <2>2, <2>3
<1>9. CASE ReadValues(c)
  <2>1. PICK b \in BOOLEAN, n \in Readable :
          Set(c, [client[c] EXCEPT !.pc = "create", !.blocked = b, !.vals = history[n].values])
    BY <1>9 DEF ReadValues
  <2> DEFINE r == [client[c] EXCEPT !.pc = "create", !.blocked = b, !.vals = history[n].values]
  <2>2. client[c].pc = "values" /\ r.pc = "create" /\ r.prev = client[c].prev /\ r.blocked = b
    BY <1>3, <1>9 DEF ReadValues
  <2>3. Fine(r)
    BY <1>1, <2>2
  <2> QED
    BY <1>2, <2>1, <2>3
<1>10. CASE CreateRun(c) \/ Refuse(c)
  BY <1>2, <1>4, <1>10 DEF CreateRun, Refuse
<1> QED
  BY <1>6, <1>7, <1>8, <1>9, <1>10 DEF ClientStep

LEMMA OutcomeStep ==
  ASSUME BeatsArrive, TypeOK, OneActiveRun, OutcomeInv, [Next]_vars
  PROVE  OutcomeInv'
<1>1. \A i, j \in Run : pc[i] # "idle" /\ pc[j] # "idle" => i = j
  BY DEF OneActiveRun, OutcomeInv, BeatsKept
<1>2. history' = history => Current' = Current /\ Last' = Last
  BY DEF Current, Last
<1>3. history' = history =>
        \A i \in Run : row'[i].prev = row[i].prev => Displaced(i)' = Displaced(i)
  BY <1>2 DEF Displaced, BringsChart
<1>4. ASSUME UNCHANGED <<history, rowVars, pc, out>>, SourceSeen' PROVE OutcomeInv'
  BY <1>2, <1>3, <1>4 DEF OutcomeInv, SilentIsActive, BeatsKept, SourceBefore, Concluded, Active, rowVars
<1>5. ASSUME NEW c \in Client, StartUpgrade(c) \/ ClientStep(c) PROVE OutcomeInv'
  <2>0. SourceSeen'
    BY <1>5, RequestSeesSource
  <2>1. CASE StartUpgrade(c) \/ CheckActive(c) \/ ReadValues(c) \/ Refuse(c)
    <3>1. UNCHANGED <<history, rowVars, pc, out>>
      BY <2>1 DEF StartUpgrade, CheckActive, ReadValues, Refuse, runVars
    <3> QED
      BY <1>4, <2>0, <3>1
  <2>2. CASE CloseActive(c)
    <3>1. UNCHANGED <<history, pc, out>> /\ client[c].seen \in Run \cup {Nobody}
      BY <2>2 DEF CloseActive, runVars, TypeOK, ClientType
    <3>2. CloseStaleRun(client[c].seen) \/ UNCHANGED rowVars
      BY <2>2 DEF CloseActive
    <3> QED
      BY <2>0, <3>1, <3>2, OutcomeClose
  <2>3. CASE CreateRun(c)
    <3>1. PICK i \in Run :
            /\ row[i].status = "none"
            /\ row' = [row EXCEPT ![i] = [status |-> IF client[c].blocked THEN "blocked" ELSE "upgrading",
                                          key |-> client[c].key, prev |-> client[c].prev]]
            /\ IF client[c].blocked THEN pc' = pc ELSE pc' = [pc EXCEPT ![i] = "upgrade"]
      BY <2>3 DEF CreateRun, Insertable
    <3>2. UNCHANGED <<history, silent, out>> /\ client[c].pc = "create"
      BY <2>3 DEF CreateRun
    <3>3. pc[i] = "idle" /\ ~silent[i]
      BY <3>1 DEF OutcomeInv, SilentIsActive, BeatsKept, Active, ActiveStatus
    <3>4. /\ \A j \in Run \ {i} : row'[j] = row[j] /\ pc'[j] = pc[j]
          /\ row'[i].status = IF client[c].blocked THEN "blocked" ELSE "upgrading"
          /\ row'[i].prev = client[c].prev
          /\ pc'[i] = IF client[c].blocked THEN "idle" ELSE "upgrade"
      BY <3>1, <3>3 DEF TypeOK
    <3>5. SilentIsActive' /\ BeatsKept'
      BY <3>2, <3>3, <3>4 DEF OutcomeInv, SilentIsActive, BeatsKept, Active, ActiveStatus
    <3>6. SourceBefore'
      BY <3>2, <3>4 DEF OutcomeInv, SourceBefore, SourceSeen
    <3>7. \A j \in Run \ {i} : Concluded(j)'
      BY <1>2, <1>3, <3>2, <3>4 DEF OutcomeInv, Concluded
    <3>8. Concluded(i)'
      BY <3>4 DEF Concluded, AtTarget, AtSource
    <3> QED
      BY <2>0, <3>5, <3>6, <3>7, <3>8 DEF OutcomeInv
  <2> QED
    BY <1>5, <2>1, <2>2, <2>3 DEF ClientStep
<1>6. ASSUME NEW v \in Viewer, Look(v) \/ CloseSeen(v) PROVE OutcomeInv'
  <2>1. UNCHANGED <<history, client, pc, out>> /\ seen[v] \in Run \cup {Nobody}
    BY <1>6 DEF Look, CloseSeen, runVars, TypeOK
  <2>2. CloseStaleRun(seen[v]) \/ UNCHANGED rowVars
    BY <1>6 DEF Look, CloseSeen
  <2>3. SourceSeen'
    BY <2>1 DEF OutcomeInv, SourceSeen
  <2> QED
    BY <2>1, <2>2, <2>3, OutcomeClose
<1>7. ASSUME NEW i \in Run, EnterHealthCheck(i) \/ BeginRollback(i) \/ FinishRun(i) PROVE OutcomeInv'
  <2>1. PICK s \in ActiveStatus \cup Closed, next \in RunPc \ {"finish"} :
          /\ Save(i, s, next) /\ (s \in Closed => next = "idle")
          /\ next \in AtTarget => pc[i] \in AtTarget
          /\ next \in AtSource => pc[i] \in AtSource
    <3>1. CASE EnterHealthCheck(i) \/ BeginRollback(i)
      BY <3>1 DEF EnterHealthCheck, BeginRollback, RunPc, ActiveStatus, Closed, AtTarget, AtSource
    <3>2. CASE FinishRun(i)
      BY <3>2 DEF FinishRun, RunPc, TypeOK, AtTarget, AtSource
    <3> QED
      BY <1>7, <3>1, <3>2
  <2>2. UNCHANGED <<history, client>> /\ Active(i) /\ ~silent[i] /\ pc[i] # "idle"
    BY <1>7 DEF EnterHealthCheck, BeginRollback, FinishRun, OutcomeInv, BeatsKept
  <2>3. /\ pc'[i] = next /\ ~silent'[i] /\ row'[i].prev = row[i].prev
        /\ row'[i].status \in {s, row[i].status} /\ (next # "idle" => row'[i].status \in ActiveStatus)
        /\ \A j \in Run \ {i} : /\ row'[j] = row[j] /\ silent'[j] = silent[j]
                                /\ pc'[j] = pc[j] /\ out'[j] = out[j]
    BY <2>1, <2>2 DEF Save, Go, rowVars, Active, TypeOK
  <2>4. Concluded(i)'
    BY <1>2, <1>3, <2>1, <2>2, <2>3 DEF Concluded, OutcomeInv
  <2> QED
    BY <2>2, <2>3, <2>4, OutcomeOfRows
<1>8. ASSUME NEW i \in Run, Verify(i) \/ Recover(i) \/ VerifySource(i) \/ Crash(i) PROVE OutcomeInv'
  <2>1. UNCHANGED <<history, row, silent, client>> /\ Active(i) /\ ~silent[i] /\ pc[i] # "idle"
    BY <1>8 DEF Verify, Recover, VerifySource, Crash, rowVars, OutcomeInv, BeatsKept
  <2>2. \A j \in Run \ {i} : pc'[j] = pc[j] /\ out'[j] = out[j]
    BY <1>8 DEF Verify, Recover, VerifySource, Crash, Go, GoFinish, TypeOK
  <2>3. /\ pc'[i] \notin AtTarget
        /\ pc'[i] = "finish" /\ out'[i] = "succeeded" => pc[i] \in AtTarget
        /\ pc'[i] \in AtSource => Current.chart = "source"
        /\ pc'[i] = "finish" /\ out'[i] = "rolled_back" => pc[i] \in AtSource
    BY <1>8 DEF Verify, Recover, VerifySource, Crash, Go, GoFinish, TypeOK, TakenBack, AtTarget, AtSource
  <2>4. Concluded(i)'
    BY <1>2, <1>3, <2>1, <2>3 DEF Concluded, OutcomeInv
  <2> QED
    BY <2>1, <2>2, <2>4, OutcomeOfRows DEF Active
<1>9. ASSUME NEW i \in Run,
             \/ UpgradeChart(i) \/ UpgradeReturns(i) \/ Undo(i) \/ UndoReturns(i)
             \/ RollbackRelease(i) \/ RollbackReturns(i)
      PROVE  OutcomeInv'
  <2>1. UNCHANGED <<row, silent, client>> /\ pc[i] # "idle"
    BY <1>9 DEF UpgradeChart, UpgradeReturns, Undo, UndoReturns, RollbackRelease, RollbackReturns,
                rowVars
  <2>2. \A j \in Run \ {i} : pc[j] = "idle" /\ pc'[j] = pc[j]
    BY <1>1, <1>9, <2>1
    DEF UpgradeChart, UpgradeReturns, Undo, UndoReturns, RollbackRelease, RollbackReturns,
        Go, GoFinish, TypeOK
  <2>3. Stays \/ \E chart, who : Grows(chart, who)
    BY <1>9, RunGrows
  <2>4. Displaced(i) => Displaced(i)'
    BY <2>1, <2>3, ChartsStay
  <2>5. \A chart : Grows(chart, i) => Current'.chart = chart
    BY Appended DEF Grows, Current
  <2>6. Stays => Current'.chart = Current.chart
    BY <2>3, ChartsStay
  <2>7. /\ pc'[i] \in AtTarget => (pc[i] \in AtTarget /\ Stays) \/ Grows("target", i)
        /\ pc'[i] \in AtSource => (pc[i] \in AtSource /\ Stays) \/ Grows("source", i)
        /\ ~(pc'[i] = "finish" /\ out'[i] \in {"succeeded", "rolled_back"})
    <3>1. CASE UpgradeChart(i)
      <4>1. \/ pc'[i] = "recover"
            \/ pc'[i] = "upgrading" /\ Begin("target", vals[i], i)
        BY <3>1 DEF UpgradeChart, Go, TypeOK
      <4>2. vals[i] \in SUBSET Edit /\ "target" \in Chart
        BY DEF TypeOK, Chart
      <4> QED
        BY <4>1, <4>2, BeginGrows DEF AtTarget, AtSource
    <3>2. CASE RollbackRelease(i)
      <4>1. \/ pc'[i] = "finish" /\ out'[i] = "manual"
            \/ pc'[i] = "rolling" /\ Begin(history[row[i].prev].chart, history[row[i].prev].values, i)
        BY <3>2 DEF RollbackRelease, Go, GoFinish, TypeOK
      <4>2. row[i].prev \in 1 .. Last /\ history[row[i].prev].chart = "source"
        BY <2>1 DEF TypeOK, OutcomeInv, SourceBefore
      <4>3. history[row[i].prev].values \in SUBSET Edit /\ "source" \in Chart
        BY <4>2, LastIsRevision DEF Revision, Chart
      <4> QED
        BY <4>1, <4>2, <4>3, BeginGrows DEF AtTarget, AtSource
    <3>3. CASE UpgradeReturns(i) \/ UndoReturns(i) \/ RollbackReturns(i)
      <4>1. Stays
        BY <3>3, RunGrows
      <4>2. /\ pc'[i] \in AtTarget => pc[i] \in AtTarget
            /\ pc'[i] \in AtSource => pc[i] \in AtSource
            /\ ~(pc'[i] = "finish" /\ out'[i] \in {"succeeded", "rolled_back"})
        BY <3>3 DEF UpgradeReturns, UndoReturns, RollbackReturns, Go, GoFinish, AtTarget, AtSource, TypeOK
      <4> QED
        BY <4>1, <4>2
    <3>4. CASE Undo(i)
      BY <3>4 DEF Undo, Go, AtTarget, AtSource, TypeOK
    <3> QED
      BY <1>9, <3>1, <3>2, <3>3, <3>4
  <2>8. Concluded(i)'
    BY <2>4, <2>5, <2>6, <2>7 DEF Concluded, OutcomeInv
  <2> QED
    BY <2>1, <2>2, <2>3, <2>8, OutcomeOfRun
<1>10. ASSUME NEW i \in Run, Heartbeat(i) \/ GrowSilent(i) PROVE OutcomeInv'
  <2>1. UNCHANGED <<history, client, row, pc, out>>
    BY <1>10 DEF Heartbeat, GrowSilent, runVars
  <2>2. Active(i) /\ pc[i] = "idle"
    BY <1>10 DEF Heartbeat, GrowSilent, Stale, OutcomeInv, BeatsKept
  <2>3. \A j \in Run \ {i} : silent'[j] = silent[j]
    BY <1>10 DEF Heartbeat, GrowSilent, TypeOK
  <2>4. Concluded(i)'
    BY <2>1, <2>2 DEF Concluded, AtTarget, AtSource
  <2> QED
    BY <2>1, <2>2, <2>3, <2>4, OutcomeOfRows DEF Active
<1>11. ASSUME NEW e \in Edit, EditStep(e) PROVE OutcomeInv'
  <2>1. UNCHANGED <<row, silent, pc, out, client>>
    BY <1>11 DEF EditStep, EditRead, EditTakeChart, EditApply, EditReturns, rowVars, runVars
  <2>2. Stays \/ \E chart \in Chart : Grows(chart, e)
    BY <1>11, EditGrows
  <2>3. /\ \A n \in 1 .. Last : history'[n].chart = history[n].chart
        /\ \A i \in Run : Displaced(i) => Displaced(i)'
        /\ Stays => Current'.chart = Current.chart
    BY <2>1, <2>2, ChartsStay
  <2>4. /\ \A c \in Client : client[c].prev \in 1 .. Last
        /\ \A i \in Run : row[i].prev \in 1 .. Last
    BY DEF TypeOK, ClientType
  <2>5. SilentIsActive' /\ BeatsKept' /\ SourceSeen' /\ SourceBefore'
    BY <2>1, <2>3, <2>4 DEF OutcomeInv, SilentIsActive, BeatsKept, SourceSeen, SourceBefore, Active
  <2>6. ASSUME NEW i \in Run PROVE Displaced(i)' \/ Current'.chart = Current.chart
    <3>1. ASSUME NEW chart, Grows(chart, e), chart # Current.chart PROVE Displaced(i)'
      <4>1. PICK x \in Revision : history' = Append(history, x) /\ x.chart = chart /\ x.by = e
        BY <3>1 DEF Grows
      <4>2. /\ Last' = Last + 1 /\ Last \in Nat \ {0} /\ history'[Last'] = x
            /\ history'[Last] = history[Last]
        <5>1. Last \in 1 .. Last
          BY LastIsRevision
        <5> QED
          BY <4>1, <5>1, Appended
      <4>3. PICK k : k = Last + 1
        OBVIOUS
      <4>4. k \in 1 .. Last' /\ k > row'[i].prev /\ k > 1 /\ k - 1 = Last
        BY <2>1, <2>4, <4>2, <4>3
      <4>5. history'[k].by \in Edit /\ history'[k].chart # history'[k - 1].chart
        BY <3>1, <4>1, <4>2, <4>3, <4>4 DEF Current
      <4>6. BringsChart(k)'
        BY <4>4, <4>5 DEF BringsChart
      <4> QED
        BY <4>4, <4>6 DEF Displaced
    <3>2. ASSUME NEW chart, Grows(chart, e) PROVE Current'.chart = chart
      BY <3>2, Appended DEF Grows, Current
    <3> QED
      BY <2>2, <2>3, <3>1, <3>2
  <2>7. \A i \in Run : Concluded(i)'
    BY <2>1, <2>3, <2>6 DEF OutcomeInv, Concluded
  <2> QED
    BY <2>5, <2>7 DEF OutcomeInv
<1>12. CASE UNCHANGED vars
  <2>1. SourceSeen' /\ UNCHANGED <<history, rowVars, pc, out>>
    BY <1>12 DEF vars, runVars, OutcomeInv, SourceSeen
  <2> QED
    BY <1>4, <2>1
<1> QED
  BY <1>5, <1>6, <1>7, <1>8, <1>9, <1>10, <1>11, <1>12 DEF Next, RunStep

(* Only a goroutine that has come to its conclusion saves one of the two.  *)
LEMMA EndsAsConcluded ==
  ASSUME TypeOK, [Next]_vars, NEW i \in Run, Active(i),
         row'[i].status \in {"succeeded", "rolled_back"}
  PROVE  pc[i] = "finish" /\ out[i] = row'[i].status /\ history' = history
<1>1. row'[i] # row[i]
  BY DEF Active, ActiveStatus
<1>2. ASSUME NEW k \in Run \cup {Nobody}, CloseStaleRun(k) PROVE FALSE
  BY <1>1, <1>2 DEF CloseStaleRun, rowVars, TypeOK
<1>3. ~UNCHANGED rowVars
  BY <1>1 DEF rowVars
<1>4. ASSUME NEW c \in Client PROVE ~(StartUpgrade(c) \/ ClientStep(c))
  <2>1. ~CloseActive(c)
    <3>1. client[c].seen \in Run \cup {Nobody}
      BY DEF TypeOK, ClientType
    <3> QED
      BY <1>2, <1>3, <3>1 DEF CloseActive
  <2>2. ~CreateRun(c)
    <3>1. ASSUME NEW k \in Run, row[k].status = "none",
                 row' = [row EXCEPT ![k] = [status |-> IF client[c].blocked THEN "blocked" ELSE "upgrading",
                                            key |-> client[c].key, prev |-> client[c].prev]]
          PROVE  FALSE
      <4>1. k # i
        BY <3>1 DEF Active, ActiveStatus
      <4> QED
        BY <1>1, <3>1, <4>1 DEF TypeOK
    <3> QED
      BY <3>1 DEF CreateRun, Insertable
  <2> QED
    BY <1>3, <2>1, <2>2 DEF ClientStep, StartUpgrade, CheckActive, ReadValues, Refuse
<1>5. ASSUME NEW v \in Viewer PROVE ~(Look(v) \/ CloseSeen(v))
  BY <1>2, <1>3 DEF Look, CloseSeen, TypeOK
<1>6. ASSUME NEW k \in Run, RunStep(k) \/ Crash(k) \/ Heartbeat(k) \/ GrowSilent(k)
      PROVE  k = i /\ FinishRun(i)
  <2>1. ASSUME NEW s, NEW next, Save(k, s, next) PROVE k = i /\ row'[i].status = s
    BY <1>1, <1>3, <2>1 DEF Save, TypeOK
  <2>2. ~EnterHealthCheck(k) /\ ~BeginRollback(k)
    BY <2>1 DEF EnterHealthCheck, BeginRollback
  <2>3. FinishRun(k) => k = i
    BY <2>1 DEF FinishRun
  <2> QED
    BY <1>1, <1>3, <1>6, <2>2, <2>3
    DEF RunStep, UpgradeChart, UpgradeReturns, Undo, UndoReturns, Verify, Recover,
        RollbackRelease, RollbackReturns, VerifySource,
        Crash, Heartbeat, GrowSilent
<1>7. ASSUME NEW e \in Edit PROVE ~(EditStep(e))
  BY <1>3 DEF EditStep, EditRead, EditTakeChart, EditApply, EditReturns
<1>8. FinishRun(i)
  BY <1>3, <1>4, <1>5, <1>6, <1>7 DEF Next, vars
<1>9. row'[i].status = out[i]
  BY <1>1, <1>8 DEF FinishRun, Save, rowVars, TypeOK
<1> QED
  BY <1>8, <1>9 DEF FinishRun

(* Where heartbeats arrive, a run is shown as succeeded only while the     *)
(* release is at the target and as rolled back only while it is at the     *)
(* source, unless an edit has brought a chart it had taken before: no run, *)
(* crash or lost save comes between the end of the operation and the save  *)
(* of the outcome, and no edit that keeps the chart it finds.              *)
THEOREM OutcomeIsTrue == BeatsArrive => (Spec => OutcomeMatchesRelease)
<1> SUFFICES ASSUME BeatsArrive PROVE Spec => OutcomeMatchesRelease
  OBVIOUS
<1>1. Init => OutcomeInv
  BY DEF Init, Resting, OutcomeInv, SilentIsActive, BeatsKept, SourceSeen, SourceBefore, Concluded,
         AtTarget, AtSource
<1>2. TypeOK /\ OneActiveRun /\ OutcomeInv /\ [Next]_vars => OutcomeInv'
  BY OutcomeStep
<1>3. TypeOK /\ OutcomeInv /\ [Next]_vars =>
        [\A i \in Run : Active(i) /\ ~Displaced(i) =>
            /\ row'[i].status = "succeeded"   => Current.chart = "target"
            /\ row'[i].status = "rolled_back" => Current.chart = "source"]_vars
  BY EndsAsConcluded DEF OutcomeInv, Concluded
<1> QED
  BY <1>1, <1>2, <1>3, TypeCorrect, ActiveRunIsUnique, PTL DEF Spec, OutcomeMatchesRelease
-----------------------------------------------------------------------------
(* The table implements the lifecycle of the runs.  What a goroutine saves *)
(* depends on how far it is: as long as it could still conclude that the   *)
(* upgrade succeeded or changed nothing, it has not begun a rollback, also *)
(* when the save that says so is lost and the row is behind.               *)

RunLifecycle == INSTANCE UpgradeLifecycle WITH status <- [i \in Run |-> row[i].status]

Turned == {"idle", "rollback", "rolling", "verify_source", "finish"}

StageInv ==
    \A i \in Run :
        /\ row[i].status = "rolling_back" => pc[i] \in Turned
        /\ pc[i] = "finish" =>
              /\ out[i] # "blocked"
              /\ row[i].status = "rolling_back" => out[i] \in {"rolled_back", "manual"}

(* a status follows the one before, and upgrading only when none is active *)
Follows(i) ==
    \/ row'[i].status = row[i].status
    \/ /\ row'[i].status \in RunLifecycle!Follow[row[i].status]
       /\ row'[i].status = "upgrading" => \A j \in Run : ~Active(j)

LEMMA FollowFacts ==
  /\ RunLifecycle!Follow["none"] = {"blocked", "upgrading"}
  /\ RunLifecycle!Follow["upgrading"] =
        {"rolling_back", "failed", "succeeded", "rolled_back", "manual"}
  /\ RunLifecycle!Follow["rolling_back"] = {"rolled_back", "manual"}
  BY DEF RunLifecycle!Follow

(* A step of one run keeps the stages, and its status follows.             *)
LEMMA StageLocal ==
  ASSUME TypeOK, StageInv, NEW i \in Run,
         \A j \in Run \ {i} : row'[j] = row[j] /\ pc'[j] = pc[j] /\ out'[j] = out[j],
         Follows(i),
         row'[i].status = "rolling_back" => pc'[i] \in Turned,
         pc'[i] = "finish" =>
            /\ out'[i] # "blocked"
            /\ row'[i].status = "rolling_back" => out'[i] \in {"rolled_back", "manual"}
  PROVE  StageInv' /\ \E k \in Run : Follows(k) /\ \A j \in Run \ {k} : row'[j] = row[j]
  BY DEF StageInv

LEMMA StageStep ==
  ASSUME TypeOK, StageInv, [Next]_vars
  PROVE  /\ StageInv'
         /\ \/ row' = row
            \/ \E k \in Run : Follows(k) /\ \A j \in Run \ {k} : row'[j] = row[j]
<1> DEFINE Goal == /\ StageInv'
                   /\ \/ row' = row
                      \/ \E k \in Run : Follows(k) /\ \A j \in Run \ {k} : row'[j] = row[j]
<1>1. ASSUME UNCHANGED <<row, pc, out>> PROVE Goal
  BY <1>1 DEF StageInv
<1>2. ASSUME UNCHANGED <<pc, out>>, NEW k \in Run \cup {Nobody},
             CloseStaleRun(k) \/ UNCHANGED rowVars
      PROVE  Goal
  <2>1. CASE UNCHANGED rowVars
    BY <1>1, <1>2, <2>1 DEF rowVars
  <2>2. CASE k \in Run /\ Stale(k) /\ row' = [row EXCEPT ![k].status = "manual"]
    <3>1. row'[k].status = "manual" /\ \A j \in Run \ {k} : row'[j] = row[j]
      BY <2>2 DEF TypeOK
    <3>2. Follows(k)
      BY <2>2, <3>1, FollowFacts DEF Follows, Stale, Active, ActiveStatus
    <3>3. pc'[k] = "finish" => out'[k] # "blocked"
      BY <1>2, <2>2 DEF StageInv
    <3> QED
      BY <1>2, <2>2, <3>1, <3>2, <3>3, StageLocal
  <2>3. k \notin Run => UNCHANGED rowVars
    BY <1>2 DEF CloseStaleRun, rowVars, TypeOK
  <2> QED
    BY <1>2, <2>1, <2>2, <2>3 DEF CloseStaleRun
<1>3. ASSUME NEW c \in Client, StartUpgrade(c) \/ ClientStep(c) PROVE Goal
  <2>1. CASE StartUpgrade(c) \/ CheckActive(c) \/ ReadValues(c) \/ Refuse(c)
    BY <1>1, <2>1 DEF StartUpgrade, CheckActive, ReadValues, Refuse, rowVars, runVars
  <2>2. CASE CloseActive(c)
    <3>1. UNCHANGED <<pc, out>> /\ client[c].seen \in Run \cup {Nobody}
      BY <2>2 DEF CloseActive, runVars, TypeOK, ClientType
    <3>2. CloseStaleRun(client[c].seen) \/ UNCHANGED rowVars
      BY <2>2 DEF CloseActive
    <3> QED
      BY <1>2, <3>1, <3>2
  <2>3. CASE CreateRun(c)
    <3>1. PICK i \in Run :
            /\ Insertable(c, i)
            /\ row' = [row EXCEPT ![i] = [status |-> IF client[c].blocked THEN "blocked" ELSE "upgrading",
                                          key |-> client[c].key, prev |-> client[c].prev]]
            /\ IF client[c].blocked THEN pc' = pc ELSE pc' = [pc EXCEPT ![i] = "upgrade"]
      BY <2>3 DEF CreateRun
    <3>2. out' = out /\ row[i].status = "none" /\ (~client[c].blocked => \A j \in Run : ~Active(j))
      BY <2>3, <3>1 DEF CreateRun, Insertable
    <3>3. /\ \A j \in Run \ {i} : row'[j] = row[j] /\ pc'[j] = pc[j]
          /\ row'[i].status = IF client[c].blocked THEN "blocked" ELSE "upgrading"
          /\ pc'[i] = IF client[c].blocked THEN pc[i] ELSE "upgrade"
      BY <3>1 DEF TypeOK
    <3>4. Follows(i)
      BY <3>2, <3>3, FollowFacts DEF Follows
    <3>5. pc'[i] = "finish" => out'[i] # "blocked"
      BY <3>2, <3>3 DEF StageInv
    <3> QED
      BY <3>2, <3>3, <3>4, <3>5, StageLocal
  <2> QED
    BY <1>3, <2>1, <2>2, <2>3 DEF ClientStep
<1>4. ASSUME NEW v \in Viewer, Look(v) \/ CloseSeen(v) PROVE Goal
  <2>1. UNCHANGED <<pc, out>> /\ seen[v] \in Run \cup {Nobody}
    BY <1>4 DEF Look, CloseSeen, runVars, TypeOK
  <2>2. CloseStaleRun(seen[v]) \/ UNCHANGED rowVars
    BY <1>4 DEF Look, CloseSeen
  <2> QED
    BY <1>2, <2>1, <2>2
<1>5. ASSUME NEW i \in Run, EnterHealthCheck(i) \/ BeginRollback(i) \/ FinishRun(i) PROVE Goal
  <2>1. PICK s \in ActiveStatus \cup Closed, next \in RunPc \ {"finish"} :
          /\ Save(i, s, next)
          /\ row[i].status = "rolling_back" => s \in {"rolled_back", "manual"}
          /\ s # "blocked"
          /\ s = "rolling_back" \/ row[i].status = "rolling_back" => next \in Turned
    <3>1. CASE EnterHealthCheck(i) \/ BeginRollback(i)
      <4>1. row[i].status # "rolling_back"
        BY <3>1 DEF EnterHealthCheck, BeginRollback, StageInv, Turned
      <4> QED
        BY <3>1, <4>1 DEF EnterHealthCheck, BeginRollback, RunPc, ActiveStatus, Turned
    <3>2. CASE FinishRun(i)
      <4>1. out[i] \in Closed
        BY DEF TypeOK
      <4> QED
        BY <3>2, <4>1 DEF FinishRun, StageInv, RunPc, Closed, Turned
    <3> QED
      BY <1>5, <3>1, <3>2
  <2>2. /\ \A j \in Run \ {i} : row'[j] = row[j] /\ pc'[j] = pc[j] /\ out'[j] = out[j]
        /\ pc'[i] \in {next, "idle"}
        /\ \/ row'[i].status = row[i].status
           \/ Active(i) /\ row'[i].status = s /\ pc'[i] = next
    BY <2>1 DEF Save, Go, rowVars, TypeOK
  <2>3. Follows(i)
    <3>1. CASE row[i].status = "upgrading"
      BY <2>1, <2>2, <3>1, FollowFacts DEF Follows, ActiveStatus, Closed
    <3>2. CASE row[i].status = "rolling_back"
      BY <2>1, <2>2, <3>2, FollowFacts DEF Follows
    <3> QED
      BY <2>2, <3>1, <3>2 DEF Follows, Active, ActiveStatus
  <2>4. row'[i].status = "rolling_back" => pc'[i] \in Turned
    BY <2>1, <2>2 DEF Turned
  <2>5. pc'[i] # "finish"
    BY <2>1, <2>2
  <2> QED
    BY <2>2, <2>3, <2>4, <2>5, StageLocal
<1>6. ASSUME NEW i \in Run,
             \/ UpgradeChart(i) \/ UpgradeReturns(i) \/ Undo(i) \/ UndoReturns(i)
             \/ Verify(i) \/ Recover(i) \/ RollbackRelease(i) \/ RollbackReturns(i)
             \/ VerifySource(i) \/ Crash(i)
      PROVE  Goal
  <2>1. /\ row' = row
        /\ \A j \in Run \ {i} : pc'[j] = pc[j] /\ out'[j] = out[j]
    BY <1>6 DEF UpgradeChart, UpgradeReturns, Undo, UndoReturns, Verify, Recover, RollbackRelease,
                RollbackReturns, VerifySource,
                Crash, Go, GoFinish, rowVars, TypeOK
  <2>2. /\ pc'[i] = "finish" => out'[i] # "blocked"
        /\ pc[i] \in Turned => pc'[i] \in Turned /\ (pc'[i] = "finish" => out'[i] \in {"rolled_back", "manual"})
    BY <1>6 DEF UpgradeChart, UpgradeReturns, Undo, UndoReturns, Verify, Recover, RollbackRelease,
                RollbackReturns, VerifySource,
                Crash, Go, GoFinish, Turned, TypeOK
  <2>3. Follows(i)
    BY <2>1 DEF Follows
  <2> QED
    BY <2>1, <2>2, <2>3, StageLocal DEF StageInv
<1>7. ASSUME NEW i \in Run, Heartbeat(i) \/ GrowSilent(i) PROVE Goal
  BY <1>1, <1>7 DEF Heartbeat, GrowSilent, runVars
<1>8. ASSUME NEW e \in Edit, EditStep(e) PROVE Goal
  BY <1>1, <1>8 DEF EditStep, EditRead, EditTakeChart, EditApply, EditReturns, rowVars, runVars
<1>9. CASE UNCHANGED vars
  BY <1>1, <1>9 DEF vars, rowVars, runVars
<1> QED
  BY <1>3, <1>4, <1>5, <1>6, <1>7, <1>8, <1>9 DEF Next, RunStep

(* Whatever crashes, is lost or comes late, the status of the runs moves   *)
(* along the lifecycle: one active run, closed for good, and after the     *)
(* beginning of a rollback neither succeeded nor failed (upgrade_stack.go, *)
(* domain/upgrade.go).                                                     *)
THEOREM RunsFollowLifecycle == Spec => RunLifecycle!Spec
<1>1. Init => RunLifecycle!Init /\ StageInv
  BY DEF Init, RunLifecycle!Init, StageInv
<1>2. TypeOK /\ StageInv /\ [Next]_vars => StageInv' /\ [RunLifecycle!Next]_([i \in Run |-> row[i].status])
  <2> SUFFICES ASSUME TypeOK, StageInv, [Next]_vars
               PROVE  StageInv' /\ [RunLifecycle!Next]_([i \in Run |-> row[i].status])
    OBVIOUS
  <2>1. CASE row' = row
    BY <2>1, StageStep
  <2>2. ASSUME NEW k \in Run, Follows(k), \A j \in Run \ {k} : row'[j] = row[j]
        PROVE  [RunLifecycle!Next]_([i \in Run |-> row[i].status])
    <3> DEFINE old == [i \in Run |-> row[i].status]
               new == [i \in Run |-> row'[i].status]
    <3>1. new = [old EXCEPT ![k] = row'[k].status]
      BY <2>2
    <3>2. CASE row'[k].status = row[k].status
      BY <3>1, <3>2
    <3>3. CASE row'[k].status \in RunLifecycle!Follow[row[k].status]
                 /\ (row'[k].status = "upgrading" => \A j \in Run : ~Active(j))
      <4>1. PICK s : s = row'[k].status
        OBVIOUS
      <4>2. \A j \in Run : RunLifecycle!Active(j) <=> Active(j)
        BY DEF RunLifecycle!Active, Active, ActiveStatus
      <4>3. RunLifecycle!Change(k, s)
        BY <3>1, <3>3, <4>1, <4>2 DEF RunLifecycle!Change
      <4>4. s \in RunLifecycle!Follow[old[k]]
        BY <3>3, <4>1
      <4>5. \E q \in RunLifecycle!Follow[old[k]] : RunLifecycle!Change(k, q)
        <5> HIDE DEF old
        <5> QED
          BY <4>3, <4>4
      <4>6. RunLifecycle!Next
        BY <4>5 DEF RunLifecycle!Next
      <4> QED
        BY <4>6
    <3> QED
      BY <2>2, <3>2, <3>3 DEF Follows
  <2> QED
    BY <2>1, <2>2, StageStep
<1> QED
  BY <1>1, <1>2, TypeCorrect, PTL DEF Spec, RunLifecycle!Spec
=============================================================================
