----------------------- MODULE StackDeployment_proofs -----------------------
(***************************************************************************)
(* Proofs about StackDeployment for every number of goroutines, requests,  *)
(* reapers, deletions and install steps.                                   *)
(***************************************************************************)
EXTENDS StackDeployment, TLAPS

-----------------------------------------------------------------------------
(* The records that travel: every copy of the row is a row.                *)

LEMMA FreshIsStack == Fresh \in Stack
  BY CountAssumption DEF Fresh, Stack, State, InFlight, Position, Blank

LEMMA StateChange ==
  ASSUME NEW m \in Stack, NEW s \in State
  PROVE  [m EXCEPT !.state = s] \in Stack
  BY DEF Stack

LEMMA Positions ==
  /\ Install \subseteq Position
  /\ {Blank, ValidateStep, Configuring, HealthCheck} \subseteq Position
  BY CountAssumption
  DEF Install, Position, Blank, ValidateStep, Configuring, HealthCheck

LEMMA StepChange ==
  ASSUME NEW m \in Stack, NEW s \in Position
  PROVE  /\ Started(m, s) \in Stack
         /\ Finished(m, s) \in Stack
         /\ Broken(m, s) \in Stack
<1>1. Blank \in Position
  BY Positions
<1>2. \A t \in Position : [m EXCEPT !.current = s, !.failed = t] \in Stack
  BY DEF Stack
<1>3. m.failed \in Position
  BY DEF Stack
<1>4. Started(m, s) \in Stack
  BY <1>1, <1>2, <1>3 DEF Started
<1>5. \A n \in Stack : [n EXCEPT !.completed = s] \in Stack
  BY DEF Stack
<1> QED
  BY <1>2, <1>4, <1>5 DEF Finished, Broken

LEMMA FirstNonBlankIsPosition ==
  ASSUME NEW a \in Position, NEW b \in Position
  PROVE  FirstNonBlank(a, b) \in Position
  BY DEF FirstNonBlank

LEMMA FirstStepInDAG ==
  ASSUME NEW s \in Position
  PROVE  FirstStep(s) \in 1 .. N + 1
  BY CountAssumption DEF FirstStep, Position, Blank, ValidateStep, Install

-----------------------------------------------------------------------------
(* What each building block of an action preserves of TypeOK.              *)

LEMMA SaveType ==
  ASSUME TypeOK, NEW m \in Stack, NEW ok \in BOOLEAN, Save(m, ok)
  PROVE  RowType'
  BY ThresholdAssumption DEF TypeOK, RowType, Save

LEMMA GoType ==
  ASSUME TypeOK, NEW r \in Runner, NEW next \in RunnerPc, NEW m \in Stack, Go(r, next, m)
  PROVE  RunType'
  BY DEF TypeOK, RunType, Go

LEMMA EndType ==
  ASSUME TypeOK, NEW r \in Runner, End(r)
  PROVE  RunType'
<1>1. 1 \in 1 .. N + 1 /\ 0 \in 0 .. HeartbeatEvery /\ 0 \in 0 .. MaxMissed
  BY CountAssumption, HeartbeatAssumption
<1>2. "idle" \in RunnerPc
  BY DEF RunnerPc
<1> QED
  BY <1>1, <1>2, FreshIsStack DEF TypeOK, RunType, End

LEMMA GoRequestType ==
  ASSUME TypeOK, NEW q \in Request, NEW m \in Stack,
         NEW next \in RequestPc,
         GoRequest(q, next, m)
  PROVE  /\ reqPc' \in [Request -> RequestPc]
         /\ reqMem' \in [Request -> Stack]
  BY DEF TypeOK, RequestType, GoRequest

LEMMA RequestPcs ==
  {"idle", "edit", "rewind", "get", "to_pending", "to_validating"} \subseteq RequestPc
  BY DEF RequestPc

LEMMA EndRequestType ==
  ASSUME TypeOK, NEW q \in Request, EndRequest(q)
  PROVE  RequestType'
<1>1. Blank \in Position
  BY Positions
<1> QED
  BY <1>1, FreshIsStack, RequestPcs DEF TypeOK, RequestType, EndRequest

-----------------------------------------------------------------------------
(* Type correctness, actor by actor                                        *)

LEMMA InitType == Init => TypeOK
<1> SUFFICES ASSUME Init PROVE TypeOK
  OBVIOUS
<1>1. 1 \in 1 .. N + 1 /\ 0 \in 0 .. HeartbeatEvery /\ 0 \in 0 .. MaxMissed
      /\ 0 \in 0 .. StaleThreshold
  BY CountAssumption, HeartbeatAssumption, ThresholdAssumption
<1>2. "idle" \in RunnerPc
  BY DEF RunnerPc
<1>3. RowType /\ done \subseteq Install
  BY <1>1, FreshIsStack DEF Init, RowType
<1>4. RunType
  BY <1>1, <1>2, FreshIsStack DEF Init, RunType
<1>5. RequestType
  BY FreshIsStack, Positions, RequestPcs DEF Init, RequestType
<1>6. DeleteType /\ snap \in [Reaper -> Stack]
  BY FreshIsStack DEF Init, DeleteType
<1> QED
  BY <1>1, <1>3, <1>4, <1>5, <1>6 DEF Init, TypeOK

LEMMA RequestActionType ==
  ASSUME TypeOK, NEW q \in Request,
         Deploy(q) \/ Retry(q) \/ Continue(q) \/ Edit(q) \/ RequestStep(q)
               \/ CrashRequest(q)
  PROVE  TypeOK'
<1> USE DEF rowVars, runVars, delVars, reqVars
<1>0. /\ [row EXCEPT !.state = "pending"] \in Stack
      /\ [row EXCEPT !.state = "validating"] \in Stack
      /\ [reqMem[q] EXCEPT !.state = "validating"] \in Stack
      /\ [Fresh EXCEPT !.state = "validating"] \in Stack
      /\ reqMem[q] \in Stack
  BY StateChange, FreshIsStack DEF TypeOK, RowType, RequestType, State, InFlight
<1>a. /\ row.failed \in Position /\ row.current \in Position
      /\ resume[q] \in Position
  BY DEF TypeOK, RowType, RequestType, Stack
<1>1. CASE Deploy(q)
  BY <1>1, GoRequestType, RequestPcs, FreshIsStack
  DEF Deploy, TypeOK, RequestType, RowType, RunType, DeleteType
<1>2. CASE Retry(q)
  BY <1>0, <1>2, GoRequestType, RequestPcs
  DEF Retry, TypeOK, RequestType, RowType, RunType, DeleteType
<1>3. CASE Continue(q)
  <2>1. FirstNonBlank(row.failed, row.current) \in Position
    BY <1>a, FirstNonBlankIsPosition
  <2> QED
    BY <1>3, <2>1, GoRequestType, RequestPcs, FreshIsStack
    DEF Continue, TypeOK, RequestType, RowType, RunType, DeleteType
<1>4. CASE RetryRewind(q)
  BY <1>0, <1>4, SaveType, GoRequestType, RequestPcs, EndRequestType, FreshIsStack
  DEF RetryRewind, TypeOK, RequestType, RunType, DeleteType
<1>5. CASE ExecuteGet(q)
  <2>1. FirstNonBlank(resume[q], FirstNonBlank(row.failed, row.current)) \in Position
    BY <1>a, FirstNonBlankIsPosition
  <2>3. RequestType'
    <3>1. CASE EndRequest(q)
      BY <3>1, EndRequestType
    <3>2. CASE kind[q] = "continue" /\ ~EndRequest(q)
      <4>1. /\ resume' = [resume EXCEPT ![q] =
                  FirstNonBlank(@, FirstNonBlank(row.failed, row.current))]
            /\ kind' = kind
            /\ \/ GoRequest(q, "to_pending", [row EXCEPT !.state = "pending"])
               \/ GoRequest(q, "to_validating", [row EXCEPT !.state = "validating"])
        BY <1>5, <3>2 DEF ExecuteGet
      <4> QED
        BY <1>0, <2>1, <4>1, GoRequestType, RequestPcs DEF TypeOK, RequestType
    <3>3. CASE kind[q] # "continue" /\ ~EndRequest(q)
      BY <1>0, <1>5, <3>3, GoRequestType, RequestPcs DEF ExecuteGet, TypeOK, RequestType
    <3> QED
      BY <3>1, <3>2, <3>3
  <2> QED
    BY <1>5, <2>3 DEF ExecuteGet, TypeOK, RowType, RunType, DeleteType
<1>6. CASE ExecuteRewind(q)
  BY <1>0, <1>6, SaveType, GoRequestType, RequestPcs, EndRequestType
  DEF ExecuteRewind, TypeOK, RequestType, RunType, DeleteType
<1>7. CASE ExecuteLaunch(q)
  <2>1. RowType'
    BY <1>0, <1>7, SaveType DEF ExecuteLaunch
  <2>2. RunType'
    <3>1. FirstStep(resume[q]) \in 1 .. N + 1 /\ "validate" \in RunnerPc
      BY <1>a, FirstStepInDAG DEF RunnerPc
    <3>2. 0 \in 0 .. HeartbeatEvery /\ 0 \in 0 .. MaxMissed
      BY HeartbeatAssumption
    <3>3. CASE UNCHANGED runVars
      BY <3>3 DEF TypeOK, RunType
    <3>4. ASSUME NEW r \in Runner,
                 pc' = [pc EXCEPT ![r] = "validate"], mem' = [mem EXCEPT ![r] = reqMem[q]],
                 pos' = [pos EXCEPT ![r] = FirstStep(resume[q])],
                 beat' = [beat EXCEPT ![r] = 0], missed' = [missed EXCEPT ![r] = 0]
          PROVE  RunType'
      BY <1>0, <3>1, <3>2, <3>4 DEF TypeOK, RunType
    <3> QED
      BY <1>7, <3>3, <3>4 DEF ExecuteLaunch
  <2> QED
    BY <1>7, <2>1, <2>2, EndRequestType DEF ExecuteLaunch, TypeOK, DeleteType
<1>8. CASE CrashRequest(q)
  BY <1>8, EndRequestType
  DEF CrashRequest, TypeOK, RowType, RunType, DeleteType
<1>9. CASE Edit(q)
  BY <1>9, GoRequestType, RequestPcs
  DEF Edit, TypeOK, RequestType, RowType, RunType, DeleteType
<1>10. CASE EditSave(q)
  <2>1. RowType'
    BY <1>0, <1>10, SaveType DEF EditSave, TypeOK, RowType
  <2>2. ASSUME NEW s \in Edits \cap Install, Reapply(q, s)
        PROVE  RequestType'
    <3>1. s \in Position
      BY Positions
    <3>2. [reqMem[q] EXCEPT !.state = "pending", !.current = s, !.failed = s] \in Stack
      BY <1>0, <3>1 DEF Stack, State
    <3> QED
      BY <2>2, <3>1, <3>2, GoRequestType, RequestPcs DEF Reapply, TypeOK, RequestType
  <2>3. RequestType'
    BY <1>10, <2>2, EndRequestType DEF EditSave
  <2> QED
    BY <1>10, <2>1, <2>3 DEF EditSave, TypeOK, RunType, DeleteType
<1> QED
  BY <1>1, <1>2, <1>3, <1>4, <1>5, <1>6, <1>7, <1>8, <1>9, <1>10 DEF RequestStep

LEMMA MarkType ==
  ASSUME TypeOK, NEW r \in Runner, NEW at \in RunnerPc, NEW next \in RunnerPc,
         NEW m \in Stack, Mark(r, at, m, next)
  PROVE  TypeOK'
<1>1. RunType'
  BY GoType DEF Mark
<1>2. RowType'
  BY SaveType DEF Mark
<1> QED
  BY <1>1, <1>2 DEF Mark, TypeOK, RequestType, DeleteType, reqVars, delVars

LEMMA TransitionType ==
  ASSUME TypeOK, NEW r \in Runner, NEW at \in RunnerPc, NEW next \in RunnerPc,
         NEW state \in State, Transition(r, at, state, next)
  PROVE  TypeOK'
<1> DEFINE m == [mem[r] EXCEPT !.state = state]
<1>1. mem[r] \in Stack /\ m \in Stack /\ "failing" \in RunnerPc
  BY StateChange DEF TypeOK, RunType, RunnerPc
<1>2. RunType'
  BY <1>1, GoType DEF Transition
<1>3. RowType'
  <2>1. CASE state \in Allowed[mem[r].state]
    BY <1>1, <2>1, SaveType DEF Transition
  <2>2. CASE state \notin Allowed[mem[r].state]
    BY <2>2 DEF Transition, TypeOK, RowType, rowVars
  <2> QED
    BY <2>1, <2>2
<1> QED
  BY <1>2, <1>3 DEF Transition, TypeOK, RequestType, DeleteType, reqVars, delVars

LEMMA EnsureActiveType ==
  ASSUME TypeOK, NEW r \in Runner, NEW next \in RunnerPc, EnsureActive(r, next)
  PROVE  TypeOK'
<1>1. mem[r] \in Stack /\ "failing" \in RunnerPc
  BY DEF TypeOK, RunType, RunnerPc
<1>2. RunType'
  BY <1>1, GoType, EndType DEF EnsureActive
<1> QED
  BY <1>2
  DEF EnsureActive, TypeOK, RowType, RequestType, DeleteType, rowVars, reqVars, delVars

(* A goroutine that is inside a step is inside the DAG. *)
InDAG == \A r \in Runner : pc[r] \in {"start", "execute", "recheck", "finish"} => pos[r] \in Install

LEMMA NextStepInDAG ==
  ASSUME NEW i \in Install
  PROVE  i + 1 \in 1 .. N + 1
  BY CountAssumption DEF Install

LEMMA RunnerStepType ==
  ASSUME TypeOK, InDAG, NEW r \in Runner, RunnerStep(r)
  PROVE  TypeOK'
<1> USE DEF rowVars, reqVars, delVars
<1>0. /\ mem[r] \in Stack /\ pos[r] \in 1 .. N + 1
      /\ \A s \in Position : /\ Started(mem[r], s) \in Stack
                            /\ Finished(mem[r], s) \in Stack
                            /\ Broken(mem[r], s) \in Stack
      /\ mem[r].current \in Position
  <2>1. mem[r] \in Stack /\ pos[r] \in 1 .. N + 1
    BY DEF TypeOK, RunType
  <2>2. mem[r].current \in Position
    BY <2>1 DEF Stack
  <2> QED
    BY <2>1, <2>2, StepChange
<1>1. CASE StartValidate(r)
  BY <1>0, <1>1, Positions, MarkType DEF StartValidate, RunnerPc
<1>2. CASE Preflight(r)
  <2>1. RunType'
    BY <1>0, <1>2, GoType DEF Preflight, RunnerPc
  <2> QED
    BY <1>2, <2>1 DEF Preflight, TypeOK, RowType, RequestType, DeleteType
<1>3. CASE RecordPreflight(r)
  BY <1>0, <1>3, MarkType DEF RecordPreflight, RunnerPc
<1>4. CASE FinishValidate(r)
  BY <1>0, <1>4, Positions, MarkType DEF FinishValidate, RunnerPc
<1>5. CASE ToInstalling(r)
  BY <1>5, TransitionType DEF ToInstalling, RunnerPc, State, InFlight
<1>6. CASE CheckStep(r)
  BY <1>6, EnsureActiveType DEF CheckStep, RunnerPc
<1>7. CASE StartStep(r)
  <2>1. pos[r] \in Position
    BY <1>7, Positions DEF StartStep, Mark, InDAG
  <2> QED
    BY <1>0, <1>7, <2>1, MarkType DEF StartStep, RunnerPc
<1>8. CASE ExecuteStep(r)
  <2>1. pos[r] \in Install /\ pos[r] + 1 \in 1 .. N + 1
    BY <1>8, NextStepInDAG DEF ExecuteStep, InDAG
  <2>2. RunType'
    <3>1. CASE pos[r] \in Selected
      BY <1>0, <1>8, <3>1, GoType DEF ExecuteStep, RunnerPc
    <3>2. CASE pos[r] \notin Selected
      BY <1>8, <2>1, <3>2 DEF ExecuteStep, RunnerPc, TypeOK, RunType
    <3> QED
      BY <3>1, <3>2
  <2> QED
    BY <1>8, <2>1, <2>2 DEF ExecuteStep, TypeOK, RowType, RequestType, DeleteType
<1>9. CASE FailStep(r)
  <2>1. CASE pos[r] \in Selected
    <3>1. pos[r] \in Position
      BY <2>1, Positions, CountAssumption DEF Install
    <3> QED
      BY <1>0, <1>9, <2>1, <3>1, MarkType DEF FailStep, RunnerPc
  <2>2. CASE pos[r] \notin Selected
    <3>1. RunType'
      BY <1>0, <1>9, <2>2, GoType DEF FailStep, RunnerPc
    <3> QED
      BY <1>9, <2>2, <3>1 DEF FailStep, TypeOK, RowType, RequestType, DeleteType
  <2> QED
    BY <2>1, <2>2
<1>10. CASE RecheckStep(r)
  <2>1. CASE EnsureActive(r, "finish")
    BY <2>1, EnsureActiveType DEF RunnerPc
  <2>2. CASE ~EnsureActive(r, "finish")
    <3>1. RunType'
      BY <1>0, <1>10, <2>2, GoType DEF RecheckStep, RunnerPc
    <3> QED
      BY <1>10, <2>2, <3>1 DEF RecheckStep, TypeOK, RowType, RequestType, DeleteType
  <2> QED
    BY <2>1, <2>2
<1>11. CASE FinishStep(r)
  <2>1. pos[r] \in Install /\ pos[r] + 1 \in 1 .. N + 1
    BY <1>11, NextStepInDAG DEF FinishStep, InDAG
  <2>2. Finished(mem[r], pos[r]) \in Stack
    BY <1>0, <2>1, Positions
  <2>3. RowType'
    BY <1>11, <2>2, SaveType DEF FinishStep
  <2>4. RunType'
    BY <1>11, <2>1, <2>2 DEF FinishStep, RunnerPc, TypeOK, RunType
  <2> QED
    BY <1>11, <2>3, <2>4 DEF FinishStep, TypeOK, RequestType, DeleteType
<1>12. CASE ToConfiguring(r)
  BY <1>12, TransitionType DEF ToConfiguring, RunnerPc, State, InFlight
<1>13. CASE FinishConfiguring(r)
  BY <1>0, <1>13, Positions, MarkType DEF FinishConfiguring, RunnerPc
<1>14. CASE ToHealthCheck(r)
  BY <1>14, TransitionType DEF ToHealthCheck, RunnerPc, State, InFlight
<1>15. CASE StartProbe(r)
  BY <1>0, <1>15, Positions, MarkType DEF StartProbe, RunnerPc
<1>16. CASE PassProbe(r)
  BY <1>0, <1>16, Positions, MarkType DEF PassProbe, RunnerPc
<1>17. CASE FailProbe(r)
  <2>1. Selected \cup {HealthCheck} \subseteq Position
    BY Positions, CountAssumption DEF Install
  <2> QED
    BY <1>0, <1>17, <2>1, MarkType DEF FailProbe, RunnerPc
<1>18. CASE ToCompleted(r)
  BY <1>18, TransitionType DEF ToCompleted, RunnerPc, State
<1>19. CASE ClearSteps(r)
  <2>1. [mem[r] EXCEPT !.current = Blank, !.failed = Blank] \in Stack
    BY <1>0, Positions DEF Stack
  <2>2. RowType'
    BY <1>19, <2>1, SaveType DEF ClearSteps
  <2> QED
    BY <1>19, <2>2, EndType DEF ClearSteps, TypeOK, RequestType, DeleteType
<1>20. CASE RecordFailure(r)
  <2>1. CASE mem[r].failed = Blank
    BY <1>0, <1>20, <2>1, MarkType DEF RecordFailure, RunnerPc
  <2>2. CASE mem[r].failed # Blank
    BY <1>0, <1>20, <2>2, GoType
    DEF RecordFailure, RunnerPc, TypeOK, RowType, RequestType, DeleteType
  <2> QED
    BY <2>1, <2>2
<1>21. CASE ToFailed(r)
  <2>1. [mem[r] EXCEPT !.state = "failed"] \in Stack
    BY <1>0, StateChange DEF State
  <2>2. RowType'
    <3>1. CASE "failed" \in Allowed[mem[r].state]
      BY <1>21, <2>1, <3>1, SaveType DEF ToFailed
    <3>2. CASE "failed" \notin Allowed[mem[r].state]
      BY <1>21, <3>2 DEF ToFailed, TypeOK, RowType
    <3> QED
      BY <3>1, <3>2
  <2> QED
    BY <1>21, <2>2, EndType DEF ToFailed, TypeOK, RequestType, DeleteType
<1> QED
  BY <1>1, <1>2, <1>3, <1>4, <1>5, <1>6, <1>7, <1>8, <1>9, <1>10, <1>11, <1>12, <1>13,
     <1>14, <1>15, <1>16, <1>17, <1>18, <1>19, <1>20, <1>21
  DEF RunnerStep

LEMMA TimeType ==
  ASSUME TypeOK, Tick \/ (\E r \in Runner : Heartbeat(r))
  PROVE  TypeOK'
<1> USE DEF rowVars, reqVars, delVars
<1>1. CASE Tick
  <2>1. age' \in 0 .. StaleThreshold
    BY <1>1, ThresholdAssumption DEF Tick, TypeOK, RowType
  <2>2. beat' \in [Runner -> 0 .. HeartbeatEvery]
    <3>1. \A r \in Runner : Live(r) => beat[r] + 1 \in 0 .. HeartbeatEvery
      BY <1>1, HeartbeatAssumption DEF Tick, TypeOK, RunType
    <3>2. 0 \in 0 .. HeartbeatEvery
      BY HeartbeatAssumption
    <3> QED
      BY <1>1, <3>1, <3>2 DEF Tick
  <2> QED
    BY <1>1, <2>1, <2>2 DEF Tick, TypeOK, RowType, RunType, RequestType, DeleteType
<1>2. ASSUME NEW r \in Runner, Heartbeat(r) PROVE TypeOK'
  <2>1. age' \in 0 .. StaleThreshold
    BY <1>2, ThresholdAssumption DEF Heartbeat, TypeOK, RowType
  <2>2. beat' \in [Runner -> 0 .. HeartbeatEvery]
    BY <1>2, HeartbeatAssumption DEF Heartbeat, TypeOK, RunType
  <2>3. missed' \in [Runner -> 0 .. MaxMissed]
    <3>1. missed[r] < MaxMissed => missed[r] + 1 \in 0 .. MaxMissed
      BY HeartbeatAssumption DEF TypeOK, RunType
    <3>2. 0 \in 0 .. MaxMissed
      BY HeartbeatAssumption
    <3> QED
      BY <1>2, <3>1, <3>2 DEF Heartbeat, TypeOK, RunType
  <2> QED
    BY <1>2, <2>1, <2>2, <2>3
    DEF Heartbeat, TypeOK, RowType, RunType, RequestType, DeleteType
<1> QED
  BY <1>1, <1>2

LEMMA ReaperType ==
  ASSUME TypeOK, NEW p \in Reaper, ReapList(p) \/ ReapWrite(p)
  PROVE  TypeOK'
<1> USE DEF rowVars, runVars, reqVars, delVars
<1>1. CASE ReapList(p)
  BY <1>1 DEF ReapList, TypeOK, RowType, RunType, RequestType, DeleteType
<1>2. CASE ReapWrite(p)
  <2>1. snap[p] \in Stack /\ FirstNonBlank(snap[p].current, snap[p].completed) \in Position
    BY FirstNonBlankIsPosition DEF TypeOK, Stack
  <2>2. [snap[p] EXCEPT !.state = "failed",
            !.failed = FirstNonBlank(snap[p].current, snap[p].completed)] \in Stack
    BY <2>1 DEF Stack, State
  <2>3. RowType'
    BY <1>2, <2>2, SaveType DEF ReapWrite
  <2> QED
    BY <1>2, <2>3, FreshIsStack DEF ReapWrite, TypeOK, RunType, RequestType, DeleteType
<1> QED
  BY <1>1, <1>2

LEMMA DeleteActionType ==
  ASSUME TypeOK, NEW d \in Deleter, DeleteGet(d) \/ DeleteStep(d) \/ CrashDelete(d)
  PROVE  TypeOK'
<1> USE DEF rowVars, runVars, reqVars, delVars, GoDelete
<1>1. CASE DeleteGet(d)
  <2>1. [row EXCEPT !.state = "cancelled"] \in Stack
    BY StateChange DEF TypeOK, RowType, State
  <2> QED
    BY <1>1, <2>1 DEF DeleteGet, TypeOK, RowType, RunType, RequestType, DeleteType
<1>2. CASE DeleteCancel(d)
  <2>1. RowType'
    BY <1>2, SaveType DEF DeleteCancel, TypeOK, DeleteType
  <2> QED
    BY <1>2, <2>1, FreshIsStack DEF DeleteCancel, TypeOK, RunType, RequestType, DeleteType
<1>3. CASE DeleteRow(d)
  BY <1>3, FreshIsStack DEF DeleteRow, TypeOK, RowType, RunType, RequestType, DeleteType
<1>4. CASE Cleanup(d)
  BY <1>4, FreshIsStack DEF Cleanup, TypeOK, RowType, RunType, RequestType, DeleteType
<1>5. CASE CrashDelete(d)
  BY <1>5, FreshIsStack
  DEF CrashDelete, TypeOK, RowType, RunType, RequestType, DeleteType
<1> QED
  BY <1>1, <1>2, <1>3, <1>4, <1>5 DEF DeleteStep

LEMMA NextType ==
  ASSUME TypeOK, InDAG, [Next]_vars
  PROVE  TypeOK'
<1>1. CASE UNCHANGED vars
  BY <1>1 DEF vars, rowVars, runVars, reqVars, delVars,
              TypeOK, RowType, RunType, RequestType, DeleteType
<1>2. ASSUME NEW r \in Runner, CrashRunner(r) PROVE TypeOK'
  BY <1>2, EndType
  DEF CrashRunner, TypeOK, RowType, RequestType, DeleteType, rowVars, reqVars, delVars
<1> QED
  BY <1>1, <1>2, RequestActionType, RunnerStepType, TimeType, ReaperType, DeleteActionType
  DEF Next

-----------------------------------------------------------------------------
(* The inductive invariant.  Nothing a copy of the row records, and no     *)
(* position a goroutine or a resume has reached, is ahead of the cluster.  *)

Backed(m, D) ==
    /\ Before(m.current) \subseteq D /\ Before(m.completed) \subseteq D
    /\ Before(m.failed) \subseteq D
    /\ m.state = "completed" => Install \subseteq D

Finishing == {"configured", "to_health_check", "probe_start", "probe", "to_completed", "clear"}

RunBacked ==
    \A r \in Runner :
        /\ Backed(mem[r], done) /\ Before(pos[r]) \subseteq done
        /\ pc[r] \in {"recheck", "finish"} => pos[r] \in done
        /\ pc[r] \in Finishing => Install \subseteq done

RequestBacked ==
    \A q \in Request : Backed(reqMem[q], done) /\ Before(resume[q]) \subseteq done

SnapBacked   == \A p \in Reaper : Backed(snap[p], done)
DeleteBacked == \A d \in Deleter : Backed(delMem[d], done)

AllBacked == Backed(row, done) /\ RunBacked /\ RequestBacked /\ SnapBacked /\ DeleteBacked

CleanupAfterDelete == \A d \in Deleter : delPc[d] = "cleanup" => deleted

IInv == TypeOK /\ InDAG /\ CleanupAfterDelete /\ (~deleted => AllBacked)

-----------------------------------------------------------------------------

LEMMA FreshBacked == \A D : Backed(Fresh, D)
  BY CountAssumption DEF Backed, Fresh, Before, Blank, Install

LEMMA BackedMono ==
  ASSUME NEW m, NEW D, NEW E, D \subseteq E, Backed(m, D)
  PROVE  Backed(m, E)
  BY DEF Backed

LEMMA BackedState ==
  ASSUME NEW m \in Stack, NEW D, NEW s \in State, Backed(m, D),
         s = "completed" => Install \subseteq D
  PROVE  Backed([m EXCEPT !.state = s], D)
  BY DEF Backed, Stack

LEMMA BackedStep ==
  ASSUME NEW m \in Stack, NEW D, NEW s \in Position, Backed(m, D), Before(s) \subseteq D
  PROVE  Backed(Started(m, s), D) /\ Backed(Finished(m, s), D) /\ Backed(Broken(m, s), D)
<1>1. Before(Blank) \subseteq D
  BY CountAssumption DEF Before, Blank, Install
<1>2. \A t \in Position : Before(t) \subseteq D =>
         Backed([m EXCEPT !.current = s, !.failed = t], D)
  BY DEF Backed, Stack
<1>3. m.failed \in Position /\ Before(m.failed) \subseteq D
  BY DEF Stack, Backed
<1>4. Backed(Started(m, s), D) /\ Started(m, s) \in Stack
  BY <1>1, <1>2, <1>3, Positions, StepChange DEF Started
<1>5. \A n \in Stack : Backed(n, D) => Backed([n EXCEPT !.completed = s], D)
  BY DEF Backed, Stack
<1> QED
  BY <1>2, <1>4, <1>5 DEF Finished, Broken

LEMMA BeforeFacts ==
  /\ Before(Blank) = {} /\ Before(ValidateStep) = {} /\ Before(1) = {}
  /\ Before(N + 1) = Install /\ Before(HealthCheck) = Install
  /\ Before(Configuring) = Install
  /\ \A s : Before(s) \subseteq Install
  /\ \A i \in Install : Before(i + 1) = Before(i) \cup {i}
  BY CountAssumption
  DEF Before, Install, Blank, ValidateStep, HealthCheck, Configuring

(* The steps a resumption skips are the ones before its resume point. *)
LEMMA FirstStepSkips ==
  ASSUME NEW s \in Position
  PROVE  Before(FirstStep(s)) \subseteq Before(s)
<1>1. CASE s \in {Blank, ValidateStep}
  BY <1>1, BeforeFacts DEF FirstStep
<1>2. CASE s \in Install
  BY <1>2, CountAssumption DEF FirstStep, Install, Blank, ValidateStep
<1>3. CASE s \notin {Blank, ValidateStep} /\ s \notin Install
  <2>1. s = N + 1 \/ s = N + 2
    BY <1>3, CountAssumption DEF Position, Blank, ValidateStep, Install
  <2>2. Before(s) = Install
    BY <2>1, BeforeFacts DEF HealthCheck
  <2> QED
    BY <1>3, <2>2, BeforeFacts DEF FirstStep
<1> QED
  BY <1>1, <1>2, <1>3

LEMMA SaveBacked ==
  ASSUME NEW m, NEW ok \in BOOLEAN, Save(m, ok), Backed(row, done), Backed(m, done)
  PROVE  Backed(row', done)
  BY DEF Save

LEMMA GoBacked ==
  ASSUME TypeOK, RunBacked, NEW r \in Runner, NEW next, NEW m,
         Go(r, next, m), Backed(m, done), done \subseteq done',
         next \in {"recheck", "finish"} => pos[r] \in done',
         next \in Finishing => Install \subseteq done'
  PROVE  RunBacked'
<1> SUFFICES ASSUME NEW s \in Runner
             PROVE  /\ Backed(mem'[s], done') /\ Before(pos'[s]) \subseteq done'
                    /\ pc'[s] \in {"recheck", "finish"} => pos'[s] \in done'
                    /\ pc'[s] \in Finishing => Install \subseteq done'
  BY DEF RunBacked, Backed, Before, Install
<1>1. pos' = pos /\ Before(pos[s]) \subseteq done' /\ Backed(mem[s], done')
  BY BackedMono DEF Go, RunBacked
<1>2. CASE s = r
  BY <1>1, <1>2, BackedMono DEF Go, TypeOK, RunType
<1>3. CASE s # r
  BY <1>1, <1>3 DEF Go, TypeOK, RunType, RunBacked
<1> QED
  BY <1>2, <1>3

LEMMA EndBacked ==
  ASSUME TypeOK, RunBacked, NEW r \in Runner, End(r), done' = done
  PROVE  RunBacked'
  BY FreshBacked, BeforeFacts DEF End, TypeOK, RunType, RunBacked, Finishing

-----------------------------------------------------------------------------
(* Each action preserves the invariant.                                    *)

LEMMA InDAGStep ==
  ASSUME TypeOK, InDAG, [Next]_vars
  PROVE  InDAG'
<1> USE DEF InDAG, rowVars, runVars, reqVars, delVars
<1>1. CASE UNCHANGED vars
  BY <1>1 DEF vars
<1>2. ASSUME NEW q \in Request,
             Deploy(q) \/ Retry(q) \/ Continue(q) \/ Edit(q) \/ RequestStep(q)
               \/ CrashRequest(q)
      PROVE  InDAG'
  <2>1. CASE ExecuteLaunch(q)
    BY <2>1 DEF ExecuteLaunch, TypeOK, RunType
  <2> QED
    BY <1>2, <2>1
    DEF RequestStep, Deploy, Retry, Continue, Edit, EditSave, RetryRewind, ExecuteGet, ExecuteRewind, CrashRequest
<1>3. ASSUME NEW r \in Runner, RunnerStep(r)
      PROVE  InDAG'
  <2> USE DEF Go, End, TypeOK, RunType
  <2>1. CASE CheckStep(r)
    BY <2>1 DEF CheckStep, EnsureActive
  <2>2. CASE StartStep(r) \/ FailStep(r)
    BY <2>2 DEF StartStep, FailStep, Mark
  <2>3. CASE ExecuteStep(r)
    BY <2>3 DEF ExecuteStep
  <2>4. CASE RecheckStep(r)
    BY <2>4 DEF RecheckStep, EnsureActive
  <2>5. CASE FinishStep(r)
    BY <2>5 DEF FinishStep
  <2>6. CASE StartValidate(r) \/ Preflight(r) \/ RecordPreflight(r) \/ FinishValidate(r) \/ ToInstalling(r)
    BY <2>6 DEF StartValidate, Preflight, RecordPreflight, FinishValidate, ToInstalling, Mark, Transition
  <2>7. CASE ToConfiguring(r) \/ FinishConfiguring(r) \/ ToHealthCheck(r) \/ StartProbe(r)
             \/ PassProbe(r) \/ FailProbe(r) \/ ToCompleted(r)
    BY <2>7 DEF ToConfiguring, FinishConfiguring, ToHealthCheck, StartProbe, PassProbe, FailProbe,
                ToCompleted, Mark, Transition
  <2>8. CASE ClearSteps(r) \/ RecordFailure(r) \/ ToFailed(r)
    BY <2>8 DEF ClearSteps, RecordFailure, ToFailed, Mark
  <2> QED
    BY <1>3, <2>1, <2>2, <2>3, <2>4, <2>5, <2>6, <2>7, <2>8 DEF RunnerStep
<1>4. ASSUME NEW r \in Runner, Heartbeat(r) \/ CrashRunner(r)
      PROVE  InDAG'
  BY <1>4 DEF Heartbeat, CrashRunner, End, TypeOK, RunType
<1>5. CASE Tick
  BY <1>5 DEF Tick
<1>6. ASSUME NEW p \in Reaper, ReapList(p) \/ ReapWrite(p)
      PROVE  InDAG'
  BY <1>6 DEF ReapList, ReapWrite
<1>7. ASSUME NEW d \in Deleter, DeleteGet(d) \/ DeleteStep(d) \/ CrashDelete(d)
      PROVE  InDAG'
  BY <1>7 DEF DeleteGet, DeleteStep, DeleteCancel, DeleteRow, Cleanup, CrashDelete
<1> QED
  BY <1>1, <1>2, <1>3, <1>4, <1>5, <1>6, <1>7 DEF Next

LEMMA DeletedStays ==
  ASSUME [Next]_vars
  PROVE  deleted => deleted' /\ row' = row
<1> USE DEF rowVars, runVars, reqVars, delVars
<1>1. ASSUME NEW q \in Request,
             Deploy(q) \/ Retry(q) \/ Continue(q) \/ Edit(q) \/ RequestStep(q)
               \/ CrashRequest(q)
      PROVE  deleted => deleted' /\ row' = row
  BY <1>1 DEF RequestStep, Deploy, Retry, Continue, Edit, EditSave, RetryRewind, ExecuteGet, ExecuteRewind,
              ExecuteLaunch, CrashRequest, Save
<1>2. ASSUME NEW r \in Runner, RunnerStep(r) \/ Heartbeat(r) \/ CrashRunner(r)
      PROVE  deleted => deleted' /\ row' = row
  BY <1>2 DEF RunnerStep, StartValidate, Preflight, RecordPreflight, FinishValidate, ToInstalling,
              CheckStep, StartStep, ExecuteStep, FailStep, RecheckStep, FinishStep, ToConfiguring,
              FinishConfiguring, ToHealthCheck, StartProbe, PassProbe, FailProbe, ToCompleted,
              ClearSteps, RecordFailure, ToFailed, Heartbeat, CrashRunner, Mark, Transition,
              EnsureActive, Save
<1>3. ASSUME NEW p \in Reaper, ReapList(p) \/ ReapWrite(p)
      PROVE  deleted => deleted' /\ row' = row
  BY <1>3 DEF ReapList, ReapWrite, Save
<1>4. ASSUME NEW d \in Deleter, DeleteGet(d) \/ DeleteStep(d) \/ CrashDelete(d)
      PROVE  deleted => deleted' /\ row' = row
  BY <1>4 DEF DeleteGet, DeleteStep, DeleteCancel, DeleteRow, Cleanup, CrashDelete, Save
<1> QED
  BY <1>1, <1>2, <1>3, <1>4 DEF Next, Tick, vars

LEMMA CleanupStep ==
  ASSUME TypeOK, CleanupAfterDelete, [Next]_vars
  PROVE  CleanupAfterDelete'
<1> USE DEF CleanupAfterDelete, rowVars, runVars, reqVars, delVars
<1>1. ASSUME NEW d \in Deleter, DeleteGet(d) \/ DeleteStep(d) \/ CrashDelete(d)
      PROVE  CleanupAfterDelete'
  BY <1>1, DeletedStays
  DEF DeleteGet, DeleteStep, DeleteCancel, DeleteRow, Cleanup, CrashDelete, GoDelete, Save,
      TypeOK, DeleteType
<1>2. ASSUME UNCHANGED delVars
      PROVE  CleanupAfterDelete'
  BY <1>2, DeletedStays
<1>3. ASSUME NEW q \in Request,
             Deploy(q) \/ Retry(q) \/ Continue(q) \/ Edit(q) \/ RequestStep(q)
               \/ CrashRequest(q)
      PROVE  UNCHANGED delVars
  BY <1>3 DEF RequestStep, Deploy, Retry, Continue, Edit, EditSave, RetryRewind, ExecuteGet, ExecuteRewind,
              ExecuteLaunch, CrashRequest
<1>4. ASSUME NEW r \in Runner, RunnerStep(r) \/ Heartbeat(r) \/ CrashRunner(r)
      PROVE  UNCHANGED delVars
  BY <1>4 DEF RunnerStep, StartValidate, Preflight, RecordPreflight, FinishValidate, ToInstalling,
              CheckStep, StartStep, ExecuteStep, FailStep, RecheckStep, FinishStep, ToConfiguring,
              FinishConfiguring, ToHealthCheck, StartProbe, PassProbe, FailProbe, ToCompleted,
              ClearSteps, RecordFailure, ToFailed, Heartbeat, CrashRunner, Mark, Transition,
              EnsureActive
<1>5. ASSUME NEW p \in Reaper, ReapList(p) \/ ReapWrite(p)
      PROVE  UNCHANGED delVars
  BY <1>5 DEF ReapList, ReapWrite
<1> QED
  BY <1>1, <1>2, <1>3, <1>4, <1>5 DEF Next, Tick, vars

LEMMA RequestActionBacked ==
  ASSUME Edits \subseteq {0, 1}, TypeOK, AllBacked, NEW q \in Request,
         Deploy(q) \/ Retry(q) \/ Continue(q) \/ Edit(q) \/ RequestStep(q)
               \/ CrashRequest(q)
  PROVE  AllBacked'
<1> USE DEF rowVars, runVars, delVars, reqVars
<1>0. /\ row \in Stack /\ reqMem[q] \in Stack /\ resume[q] \in Position
      /\ row.failed \in Position /\ row.current \in Position
      /\ Backed(row, done) /\ Backed(reqMem[q], done) /\ Before(resume[q]) \subseteq done
      /\ Backed(Fresh, done) /\ Before(Blank) \subseteq done
  BY FreshBacked, BeforeFacts
  DEF TypeOK, RowType, RequestType, AllBacked, RequestBacked, Stack
<1>1. /\ Backed([row EXCEPT !.state = "pending"], done)
      /\ Backed([row EXCEPT !.state = "validating"], done)
      /\ Backed([reqMem[q] EXCEPT !.state = "validating"], done)
      /\ Backed([Fresh EXCEPT !.state = "validating"], done)
  BY <1>0, BackedState, FreshIsStack DEF State, InFlight
<1>2. Before(FirstNonBlank(row.failed, row.current)) \subseteq done
  BY <1>0 DEF FirstNonBlank, Backed
<1>3. Before(FirstNonBlank(resume[q], FirstNonBlank(row.failed, row.current))) \subseteq done
  BY <1>0, <1>2 DEF FirstNonBlank
<1>4. done' = done /\ UNCHANGED snap /\ UNCHANGED delMem
  BY DEF Deploy, Retry, Continue, Edit, RequestStep, EditSave, RetryRewind, ExecuteGet, ExecuteRewind,
         ExecuteLaunch, CrashRequest
<1>5. SnapBacked' /\ DeleteBacked'
  BY <1>4 DEF AllBacked, SnapBacked, DeleteBacked
<1>6. Backed(row', done)
  <2>1. CASE RetryRewind(q) \/ EditSave(q) \/ ExecuteRewind(q) \/ ExecuteLaunch(q)
    BY <1>0, <2>1, SaveBacked DEF RetryRewind, EditSave, ExecuteRewind, ExecuteLaunch
  <2>2. CASE ~ (RetryRewind(q) \/ EditSave(q) \/ ExecuteRewind(q) \/ ExecuteLaunch(q))
    BY <1>0, <2>2 DEF Deploy, Retry, Continue, Edit, RequestStep, ExecuteGet, CrashRequest
  <2> QED
    BY <2>1, <2>2
<1>7. RequestBacked'
  <2> USE DEF TypeOK, RequestType, AllBacked, RequestBacked
  <2>1. CASE EndRequest(q)
    BY <1>0, <1>4, <2>1 DEF EndRequest
  <2>2. ASSUME NEW next, NEW m, GoRequest(q, next, m), Backed(m, done),
               Before(resume'[q]) \subseteq done, \A p \in Request \ {q} : resume'[p] = resume[p]
        PROVE  RequestBacked'
    BY <1>4, <2>2 DEF GoRequest
  <2>3. CASE Deploy(q) \/ Retry(q) \/ Edit(q)
    BY <1>0, <1>1, <2>2, <2>3 DEF Deploy, Retry, Edit
  <2>4. CASE Continue(q)
    BY <1>0, <1>2, <2>2, <2>4 DEF Continue
  <2>5. CASE RetryRewind(q)
    BY <1>0, <2>1, <2>2, <2>5 DEF RetryRewind
  <2>6. CASE ExecuteGet(q)
    <3>1. CASE kind[q] = "continue" /\ ~EndRequest(q)
      <4>1. /\ resume' = [resume EXCEPT ![q] =
                  FirstNonBlank(@, FirstNonBlank(row.failed, row.current))]
            /\ \/ GoRequest(q, "to_pending", [row EXCEPT !.state = "pending"])
               \/ GoRequest(q, "to_validating", [row EXCEPT !.state = "validating"])
        BY <2>6, <3>1 DEF ExecuteGet
      <4> QED
        BY <1>1, <1>3, <2>2, <4>1
    <3>2. CASE kind[q] # "continue" /\ ~EndRequest(q)
      BY <1>0, <1>1, <2>2, <2>6, <3>2 DEF ExecuteGet
    <3> QED
      BY <2>1, <3>1, <3>2
  <2>7. CASE ExecuteRewind(q)
    BY <1>0, <1>1, <2>1, <2>2, <2>7 DEF ExecuteRewind
  <2>8. CASE ExecuteLaunch(q) \/ CrashRequest(q)
    BY <2>1, <2>8 DEF ExecuteLaunch, CrashRequest
  <2>9. CASE EditSave(q)
    <3>1. ASSUME NEW s \in Edits \cap Install, Reapply(q, s)
          PROVE  RequestBacked'
      <4>1. s = 1 /\ Before(s) \subseteq done
        BY BeforeFacts, CountAssumption DEF Install
      <4>2. Backed([reqMem[q] EXCEPT !.state = "pending", !.current = s, !.failed = s], done)
        BY <1>0, <4>1 DEF Backed, Stack
      <4> QED
        BY <2>2, <3>1, <4>1, <4>2 DEF Reapply
    <3> QED
      BY <2>1, <2>9, <3>1 DEF EditSave
  <2> QED
    BY <2>3, <2>4, <2>5, <2>6, <2>7, <2>8, <2>9 DEF RequestStep
<1>8. RunBacked'
  <2>1. CASE UNCHANGED runVars
    BY <1>4, <2>1 DEF AllBacked, RunBacked
  <2>2. CASE ~ UNCHANGED runVars
    <3>1. PICK r \in Runner :
               /\ pc' = [pc EXCEPT ![r] = "validate"] /\ mem' = [mem EXCEPT ![r] = reqMem[q]]
               /\ pos' = [pos EXCEPT ![r] = FirstStep(resume[q])]
      BY <2>2 DEF Deploy, Retry, Continue, Edit, RequestStep, EditSave, RetryRewind, ExecuteGet, ExecuteRewind,
                  ExecuteLaunch, CrashRequest
    <3>2. Before(FirstStep(resume[q])) \subseteq done
      BY <1>0, FirstStepSkips
    <3> QED
      BY <1>0, <1>4, <3>1, <3>2 DEF TypeOK, RunType, AllBacked, RunBacked, Finishing
  <2> QED
    BY <2>1, <2>2
<1> QED
  BY <1>4, <1>5, <1>6, <1>7, <1>8 DEF AllBacked

LEMMA RunnerStepBacked ==
  ASSUME TypeOK, InDAG, AllBacked, NEW r \in Runner, RunnerStep(r)
  PROVE  AllBacked'
<1> USE DEF rowVars, delVars, reqVars
<1>0. /\ mem[r] \in Stack /\ Backed(row, done) /\ Backed(mem[r], done) /\ RunBacked
      /\ Before(pos[r]) \subseteq done
      /\ pc[r] \in {"recheck", "finish"} => pos[r] \in done
      /\ pc[r] \in Finishing => Install \subseteq done
      /\ pc[r] \in {"start", "execute", "recheck", "finish"} => pos[r] \in Install
  BY DEF TypeOK, RunType, AllBacked, RunBacked, InDAG
<1>a. Install \subseteq Position /\ Blank \in Position /\ ValidateStep \in Position
      /\ Configuring \in Position /\ HealthCheck \in Position
  BY Positions
(* Everything but the goroutine and the row is left alone by a step that  *)
(* writes one copy of the row: what remains is that the copy is backed.   *)
<1>f. ASSUME done \subseteq done', RunBacked', Backed(row', done'), UNCHANGED <<reqVars, snap, delVars>>
      PROVE  AllBacked'
  BY <1>f, BackedMono DEF AllBacked, RequestBacked, SnapBacked, DeleteBacked
<1>m. ASSUME NEW at, NEW next, NEW m, Mark(r, at, m, next), Backed(m, done),
             next \notin {"recheck", "finish"},
             next \in Finishing => Install \subseteq done
      PROVE  AllBacked'
  <2>1. RunBacked'
    BY <1>0, <1>m, GoBacked DEF Mark
  <2>2. Backed(row', done')
    BY <1>0, <1>m, SaveBacked DEF Mark
  <2> QED
    BY <1>f, <1>m, <2>1, <2>2 DEF Mark
<1>t. ASSUME NEW at, NEW next, NEW state \in State, Transition(r, at, state, next),
             next \notin {"recheck", "finish"},
             next \in Finishing \/ state = "completed" => Install \subseteq done
      PROVE  AllBacked'
  <2>1. Backed([mem[r] EXCEPT !.state = state], done)
    BY <1>0, <1>t, BackedState
  <2>2. RunBacked'
    BY <1>0, <1>t, <2>1, GoBacked DEF Transition, Finishing
  <2>3. Backed(row', done')
    BY <1>0, <1>t, <2>1, SaveBacked DEF Transition
  <2> QED
    BY <1>f, <1>t, <2>2, <2>3 DEF Transition
<1>e. ASSUME NEW next, EnsureActive(r, next), next \notin Finishing,
             next \in {"recheck", "finish"} => pos[r] \in done
      PROVE  AllBacked'
  <2>1. RunBacked'
    BY <1>0, <1>e, GoBacked, EndBacked DEF EnsureActive, Finishing
  <2> QED
    BY <1>0, <1>e, <1>f, <2>1 DEF EnsureActive
<1>1. CASE StartValidate(r)
  BY <1>0, <1>1, <1>a, <1>m, BackedStep, BeforeFacts DEF StartValidate, Finishing
<1>2. CASE Preflight(r)
  <2>1. RunBacked'
    BY <1>0, <1>2, GoBacked DEF Preflight, Finishing
  <2> QED
    BY <1>0, <1>2, <1>f, <2>1 DEF Preflight
<1>3. CASE RecordPreflight(r)
  BY <1>0, <1>3, <1>m DEF RecordPreflight, Finishing
<1>4. CASE FinishValidate(r)
  BY <1>0, <1>4, <1>a, <1>m, BackedStep, BeforeFacts DEF FinishValidate, Finishing
<1>5. CASE ToInstalling(r)
  BY <1>5, <1>t DEF ToInstalling, Finishing, State, InFlight
<1>6. CASE CheckStep(r)
  BY <1>6, <1>e DEF CheckStep, Finishing
<1>7. CASE StartStep(r)
  <2>1. pos[r] \in Position
    BY <1>0, <1>7, <1>a DEF StartStep, Mark
  <2> QED
    BY <1>0, <1>7, <1>m, <2>1, BackedStep DEF StartStep, Finishing
<1>8. CASE ExecuteStep(r)
  <2>1. done' = done \cup {pos[r]} /\ pos[r] \in Install
    BY <1>0, <1>8 DEF ExecuteStep
  <2>2. RunBacked'
    <3>1. CASE pos[r] \in Selected
      BY <1>0, <1>8, <2>1, <3>1, GoBacked DEF ExecuteStep, Finishing
    <3>2. CASE pos[r] \notin Selected
      <4>1. /\ pc' = [pc EXCEPT ![r] = "check"] /\ pos' = [pos EXCEPT ![r] = @ + 1]
            /\ mem' = mem
        BY <1>8, <3>2 DEF ExecuteStep
      <4>2. Before(pos[r] + 1) \subseteq done'
        BY <1>0, <2>1, BeforeFacts
      <4>3. \A s \in Runner : Backed(mem[s], done') /\ Before(pos[s]) \subseteq done'
        BY <1>0, <2>1, BackedMono DEF RunBacked
      <4> QED
        BY <1>0, <2>1, <4>1, <4>2, <4>3 DEF RunBacked, TypeOK, RunType, Finishing
    <3> QED
      BY <3>1, <3>2
  <2>3. Backed(row', done')
    BY <1>0, <1>8, <2>1, BackedMono DEF ExecuteStep
  <2> QED
    BY <1>8, <1>f, <2>1, <2>2, <2>3 DEF ExecuteStep
<1>9. CASE FailStep(r)
  <2>1. CASE pos[r] \in Selected
    <3>1. pos[r] \in Position
      BY <2>1, <1>a, CountAssumption DEF Install
    <3> QED
      BY <1>0, <1>9, <1>m, <2>1, <3>1, BackedStep DEF FailStep, Finishing
  <2>2. CASE pos[r] \notin Selected
    <3>1. RunBacked'
      BY <1>0, <1>9, <2>2, GoBacked DEF FailStep, Finishing
    <3> QED
      BY <1>0, <1>9, <1>f, <2>2, <3>1 DEF FailStep
  <2> QED
    BY <2>1, <2>2
<1>10. CASE RecheckStep(r)
  <2>1. CASE EnsureActive(r, "finish")
    BY <1>0, <1>10, <1>e, <2>1 DEF RecheckStep, Finishing
  <2>2. CASE ~EnsureActive(r, "finish")
    <3>1. RunBacked'
      BY <1>0, <1>10, <2>2, GoBacked DEF RecheckStep, Finishing
    <3> QED
      BY <1>0, <1>10, <1>f, <2>2, <3>1 DEF RecheckStep
  <2> QED
    BY <2>1, <2>2
<1>11. CASE FinishStep(r)
  <2>1. pos[r] \in done /\ pos[r] \in Install /\ pos[r] \in Position
    BY <1>0, <1>11, <1>a DEF FinishStep
  <2>2. Backed(Finished(mem[r], pos[r]), done)
    BY <1>0, <2>1, BackedStep
  <2>3. RunBacked'
    <3>1. Before(pos[r] + 1) \subseteq done
      BY <1>0, <2>1, BeforeFacts
    <3> QED
      BY <1>0, <1>11, <2>2, <3>1 DEF FinishStep, RunBacked, TypeOK, RunType, Finishing
  <2>4. Backed(row', done')
    BY <1>0, <1>11, <2>2, SaveBacked DEF FinishStep
  <2> QED
    BY <1>11, <1>f, <2>3, <2>4 DEF FinishStep
<1>12. CASE ToConfiguring(r)
  BY <1>0, <1>12, <1>t, BeforeFacts DEF ToConfiguring, State, InFlight
<1>13. CASE FinishConfiguring(r)
  BY <1>0, <1>13, <1>a, <1>m, BackedStep, BeforeFacts DEF FinishConfiguring, Finishing, Mark
<1>14. CASE ToHealthCheck(r)
  <2>1. Install \subseteq done
    BY <1>0, <1>14 DEF ToHealthCheck, Transition, Finishing
  <2> QED
    BY <1>14, <1>t, <2>1 DEF ToHealthCheck, State, InFlight
<1>15. CASE StartProbe(r)
  BY <1>0, <1>15, <1>a, <1>m, BackedStep, BeforeFacts DEF StartProbe, Finishing, Mark
<1>16. CASE PassProbe(r)
  BY <1>0, <1>16, <1>a, <1>m, BackedStep, BeforeFacts DEF PassProbe, Finishing, Mark
<1>17. CASE FailProbe(r)
  <2>1. PICK s \in Selected \cup {HealthCheck} : Mark(r, "probe", Broken(mem[r], s), "failing")
    BY <1>17 DEF FailProbe
  <2>2. s \in Position /\ Before(s) \subseteq Install /\ Install \subseteq done
    BY <1>0, <1>a, <2>1, CountAssumption, BeforeFacts DEF Install, Mark, Finishing
  <2> QED
    BY <1>0, <1>m, <2>1, <2>2, BackedStep DEF Finishing
<1>18. CASE ToCompleted(r)
  <2>1. Install \subseteq done
    BY <1>0, <1>18 DEF ToCompleted, Transition, Finishing
  <2> QED
    BY <1>18, <1>t, <2>1 DEF ToCompleted, State, InFlight
<1>19. CASE ClearSteps(r)
  <2>1. Backed([mem[r] EXCEPT !.current = Blank, !.failed = Blank], done)
    BY <1>0, BeforeFacts DEF Backed, Stack
  <2>2. RunBacked'
    BY <1>0, <1>19, EndBacked DEF ClearSteps
  <2>3. Backed(row', done')
    BY <1>0, <1>19, <2>1, SaveBacked DEF ClearSteps
  <2> QED
    BY <1>19, <1>f, <2>2, <2>3 DEF ClearSteps
<1>20. CASE RecordFailure(r)
  <2>1. CASE mem[r].failed = Blank
    <3>1. mem[r].current \in Position /\ Before(mem[r].current) \subseteq done
      BY <1>0 DEF Stack, Backed
    <3> QED
      BY <1>0, <1>20, <1>m, <2>1, <3>1, BackedStep DEF RecordFailure, Finishing
  <2>2. CASE mem[r].failed # Blank
    <3>1. RunBacked'
      BY <1>0, <1>20, <2>2, GoBacked DEF RecordFailure, Finishing
    <3> QED
      BY <1>0, <1>20, <1>f, <2>2, <3>1 DEF RecordFailure
  <2> QED
    BY <2>1, <2>2
<1>21. CASE ToFailed(r)
  <2>1. Backed([mem[r] EXCEPT !.state = "failed"], done)
    BY <1>0, BackedState DEF State
  <2>2. RunBacked'
    BY <1>0, <1>21, EndBacked DEF ToFailed
  <2>3. Backed(row', done')
    BY <1>0, <1>21, <2>1, SaveBacked DEF ToFailed
  <2> QED
    BY <1>21, <1>f, <2>2, <2>3 DEF ToFailed
<1> QED
  BY <1>1, <1>2, <1>3, <1>4, <1>5, <1>6, <1>7, <1>8, <1>9, <1>10, <1>11, <1>12, <1>13,
     <1>14, <1>15, <1>16, <1>17, <1>18, <1>19, <1>20, <1>21
  DEF RunnerStep

LEMMA ReaperBacked ==
  ASSUME TypeOK, AllBacked, NEW p \in Reaper, ReapList(p) \/ ReapWrite(p)
  PROVE  AllBacked'
<1> USE DEF rowVars, runVars, reqVars, delVars
<1>1. CASE ReapList(p)
  BY <1>1 DEF ReapList, TypeOK, AllBacked, RunBacked, RequestBacked, SnapBacked, DeleteBacked
<1>2. CASE ReapWrite(p)
  <2> DEFINE m == [snap[p] EXCEPT !.state = "failed",
                       !.failed = FirstNonBlank(snap[p].current, snap[p].completed)]
  <2>1. snap[p] \in Stack /\ Backed(snap[p], done)
    BY DEF TypeOK, AllBacked, SnapBacked
  <2>2. Backed(m, done)
    BY <2>1 DEF Backed, Stack, FirstNonBlank
  <2>3. Backed(row', done)
    BY <1>2, <2>2, SaveBacked DEF ReapWrite, AllBacked
  <2> QED
    BY <1>2, <2>3, FreshBacked
    DEF ReapWrite, TypeOK, AllBacked, RunBacked, RequestBacked, SnapBacked, DeleteBacked
<1> QED
  BY <1>1, <1>2

LEMMA DeleteActionBacked ==
  ASSUME TypeOK, AllBacked, CleanupAfterDelete, ~deleted',
         NEW d \in Deleter, DeleteGet(d) \/ DeleteStep(d) \/ CrashDelete(d)
  PROVE  AllBacked'
<1> USE DEF rowVars, runVars, reqVars, delVars
<1>1. row \in Stack /\ Backed(row, done) /\ delMem \in [Deleter -> Stack] /\ Backed(delMem[d], done)
  BY DEF TypeOK, RowType, DeleteType, AllBacked, DeleteBacked
<1>2. ASSUME NEW next, NEW m, GoDelete(d, next, m), Backed(m, done), Backed(row', done),
             UNCHANGED <<done, runVars, reqVars, snap>>
      PROVE  AllBacked'
  BY <1>1, <1>2 DEF GoDelete, AllBacked, RunBacked, RequestBacked, SnapBacked, DeleteBacked
<1>3. CASE DeleteGet(d)
  <2>1. Backed([row EXCEPT !.state = "cancelled"], done)
    BY <1>1, BackedState DEF State
  <2> QED
    BY <1>1, <1>2, <1>3, <2>1 DEF DeleteGet
<1>4. CASE DeleteCancel(d)
  <2>1. Backed(row', done)
    BY <1>1, <1>4, SaveBacked DEF DeleteCancel
  <2> QED
    BY <1>2, <1>4, <2>1, FreshBacked DEF DeleteCancel
<1>5. CASE DeleteRow(d)
  BY <1>1, <1>2, <1>5, FreshBacked DEF DeleteRow
<1>6. CASE Cleanup(d)
  BY <1>6 DEF Cleanup, CleanupAfterDelete
<1>7. CASE CrashDelete(d)
  BY <1>1, <1>2, <1>7, FreshBacked DEF CrashDelete
<1> QED
  BY <1>3, <1>4, <1>5, <1>6, <1>7 DEF DeleteStep

LEMMA BackedStaysBacked ==
  ASSUME Edits \subseteq {0, 1},
         TypeOK, InDAG, CleanupAfterDelete, AllBacked, ~deleted', [Next]_vars
  PROVE  AllBacked'
<1> USE DEF rowVars, runVars, reqVars, delVars
<1>1. ASSUME UNCHANGED <<row, done, pc, mem, pos, reqVars, snap, delVars>>
      PROVE  AllBacked'
  BY <1>1 DEF AllBacked, RunBacked, RequestBacked, SnapBacked, DeleteBacked
<1>2. CASE UNCHANGED vars \/ Tick
  BY <1>1, <1>2 DEF vars, Tick
<1>3. ASSUME NEW r \in Runner, Heartbeat(r) PROVE AllBacked'
  BY <1>1, <1>3 DEF Heartbeat
<1>4. ASSUME NEW r \in Runner, CrashRunner(r) PROVE AllBacked'
  BY <1>4, EndBacked
  DEF CrashRunner, AllBacked, RequestBacked, SnapBacked, DeleteBacked
<1> QED
  BY <1>2, <1>3, <1>4, RequestActionBacked, RunnerStepBacked, ReaperBacked, DeleteActionBacked
  DEF Next

-----------------------------------------------------------------------------
(* Theorems                                                                *)

LEMMA InitInv == Init => IInv
<1> SUFFICES ASSUME Init PROVE IInv
  OBVIOUS
<1>1. TypeOK
  BY InitType
<1>2. InDAG /\ CleanupAfterDelete
  BY DEF Init, InDAG, CleanupAfterDelete
<1>3. AllBacked
  BY FreshBacked, BeforeFacts
  DEF Init, AllBacked, RunBacked, RequestBacked, SnapBacked, DeleteBacked, Finishing
<1> QED
  BY <1>1, <1>2, <1>3 DEF IInv

LEMMA NextInv ==
  ASSUME Edits \subseteq {0, 1}
  PROVE  IInv /\ [Next]_vars => IInv'
<1> SUFFICES ASSUME IInv, [Next]_vars PROVE IInv'
  OBVIOUS
<1>1. TypeOK' /\ InDAG' /\ CleanupAfterDelete'
  BY NextType, InDAGStep, CleanupStep DEF IInv
<1>2. ~deleted' => AllBacked'
  BY BackedStaysBacked, DeletedStays DEF IInv
<1> QED
  BY <1>1, <1>2 DEF IInv

(* The inductive invariant holds in every reachable state, as long as a    *)
(* changed configuration is only saved or reapplied from the first step.   *)
THEOREM Invariance ==
  ASSUME Edits \subseteq {0, 1}
  PROVE  Spec => []IInv
  BY InitInv, NextInv, PTL DEF Spec

(* The types and the positions need no such assumption. *)
LEMMA TypeAndDAG == Spec => [](TypeOK /\ InDAG)
<1>1. Init => TypeOK /\ InDAG
  BY InitType DEF Init, InDAG
<1>2. TypeOK /\ InDAG /\ [Next]_vars => (TypeOK /\ InDAG)'
  BY NextType, InDAGStep
<1> QED
  BY <1>1, <1>2, PTL DEF Spec

(* Type correctness of the installation of a stack (internal/stack),       *)
(* wherever an import resumes it.                                          *)
THEOREM TypeCorrect == Spec => []TypeOK
  BY TypeAndDAG, PTL

(* A stack is shown as completed only when every install step has run on   *)
(* its cluster, for any number of concurrent runs, requests, edits,        *)
(* reapers, deletions, failing calls and crashes (runPhases, Continue,     *)
(* ReapStaleInstalls); an import that resumes after the first step breaks  *)
(* it (triggerImportDeploy).                                               *)
THEOREM Completion ==
  ASSUME Edits \subseteq {0, 1}
  PROVE  Spec => []CompletedMeansInstalled
<1>1. IInv => CompletedMeansInstalled
  BY DEF IInv, CompletedMeansInstalled, AllBacked, Backed
<1> QED
  BY <1>1, Invariance, PTL

(* The resume point recorded for Continue never lies beyond a step that    *)
(* has not run (DeployHandler.Continue, runPhases), under the same         *)
(* assumption.                                                             *)
THEOREM Resumption ==
  ASSUME Edits \subseteq {0, 1}
  PROVE  Spec => []ResumePointIsSound
<1>1. IInv => ResumePointIsSound
  BY DEF IInv, ResumePointIsSound, AllBacked, Backed, FirstNonBlank
<1> QED
  BY <1>1, Invariance, PTL

(* A deleted stack is never written again, whoever still holds a copy of   *)
(* it (PostgresStackRepository.Update and Delete).                         *)
THEOREM DeletionIsFinal == Spec => DeletedIsFinal
<1>1. TypeOK /\ [Next]_vars => [deleted => UNCHANGED <<row, deleted>>]_vars
  <2> SUFFICES ASSUME TypeOK, [Next]_vars, deleted PROVE UNCHANGED <<row, deleted>>
    OBVIOUS
  <2>1. deleted' /\ row' = row
    BY DeletedStays
  <2>2. deleted = TRUE /\ deleted' = TRUE
    BY <2>1 DEF TypeOK, RowType
  <2> QED
    BY <2>1, <2>2
<1> QED
  BY <1>1, TypeCorrect, PTL DEF Spec, DeletedIsFinal

(* A deleted stack's goroutine begins no further step, wherever it was     *)
(* when the row went (ensureDeploymentActive).                             *)
THEOREM NoLateStep == Spec => NoStepBeginsAfterDeletion
<1> DEFINE In == {"start", "execute"}
<1>1. ASSUME TypeOK, [Next]_vars, deleted, NEW r \in Runner, pc'[r] \in In
      PROVE  pc[r] \in In
  <2> USE DEF TypeOK, RowType, RunType, rowVars, runVars
  <2>1. ASSUME NEW s \in Runner, RunnerStep(s)
        PROVE  pc[r] \in In
    <3> USE DEF Go, End
    <3>1. CASE CheckStep(s)
      BY <1>1, <3>1 DEF CheckStep, EnsureActive
    <3>2. CASE StartStep(s) \/ FailStep(s) \/ ExecuteStep(s)
      BY <1>1, <3>2 DEF StartStep, FailStep, ExecuteStep, Mark
    <3>3. CASE RecheckStep(s) \/ FinishStep(s)
      BY <1>1, <3>3 DEF RecheckStep, FinishStep, EnsureActive
    <3>4. CASE StartValidate(s) \/ Preflight(s) \/ RecordPreflight(s) \/ FinishValidate(s)
               \/ ToInstalling(s)
      BY <1>1, <3>4 DEF StartValidate, Preflight, RecordPreflight, FinishValidate,
                        ToInstalling, Mark, Transition
    <3>5. CASE ToConfiguring(s) \/ FinishConfiguring(s) \/ ToHealthCheck(s) \/ StartProbe(s)
               \/ PassProbe(s) \/ FailProbe(s) \/ ToCompleted(s)
      BY <1>1, <3>5 DEF ToConfiguring, FinishConfiguring, ToHealthCheck, StartProbe,
                        PassProbe, FailProbe, ToCompleted, Mark, Transition
    <3>6. CASE ClearSteps(s) \/ RecordFailure(s) \/ ToFailed(s)
      BY <1>1, <3>6 DEF ClearSteps, RecordFailure, ToFailed, Mark
    <3> QED
      BY <2>1, <3>1, <3>2, <3>3, <3>4, <3>5, <3>6 DEF RunnerStep
  <2>2. ASSUME NEW s \in Runner, Heartbeat(s) \/ CrashRunner(s)
        PROVE  pc[r] \in In
    BY <1>1, <2>2 DEF Heartbeat, CrashRunner, End
  <2>3. ASSUME NEW q \in Request,
               Deploy(q) \/ Retry(q) \/ Continue(q) \/ Edit(q) \/ RequestStep(q)
               \/ CrashRequest(q)
        PROVE  pc[r] \in In
    <3>1. CASE ExecuteLaunch(q)
      BY <1>1, <3>1 DEF ExecuteLaunch
    <3> QED
      BY <1>1, <2>3, <3>1 DEF RequestStep, Deploy, Retry, Continue, Edit, EditSave, RetryRewind,
                              ExecuteGet, ExecuteRewind, CrashRequest
  <2>4. ASSUME NEW p \in Reaper, ReapList(p) \/ ReapWrite(p)
        PROVE  pc[r] \in In
    BY <1>1, <2>4 DEF ReapList, ReapWrite
  <2>5. ASSUME NEW d \in Deleter, DeleteGet(d) \/ DeleteStep(d) \/ CrashDelete(d)
        PROVE  pc[r] \in In
    BY <1>1, <2>5 DEF DeleteGet, DeleteStep, DeleteCancel, DeleteRow, Cleanup, CrashDelete
  <2>6. CASE Tick \/ UNCHANGED vars
    BY <1>1, <2>6 DEF Tick, vars
  <2> QED
    BY <1>1, <2>1, <2>2, <2>3, <2>4, <2>5, <2>6 DEF Next
<1>2. TypeOK /\ [Next]_vars =>
         [deleted => \A r \in Runner : pc'[r] \in In => pc[r] \in In]_vars
  BY <1>1
<1> QED
  BY <1>2, TypeCorrect, PTL DEF Spec, NoStepBeginsAfterDeletion

-----------------------------------------------------------------------------
(* A single owner: one request at a time, one reaper, no edits and no      *)
(* deletion, and a threshold longer than the heartbeats that may be        *)
(* missed.  The goroutine's copy then agrees with the row, but for the one *)
(* transition that may have failed to be written.                          *)

SingleOwner ==
    /\ Edits = {} /\ Deleter = {}
    /\ \A q, s \in Request : q = s
    /\ \A p, s \in Reaper : p = s
    /\ HeartbeatEvery * MaxMissed + HeartbeatEvery < StaleThreshold

Running == InFlight \cup {"completed"}
Closing == {"failing", "to_failed"}

(* where a goroutine is says in which state its copy is ... *)
Stage(at, s) ==
    /\ s \in Running
    /\ at \in {"validate", "preflight", "preflight_record", "validated", "to_installing"} =>
          s = "validating"
    /\ at \in {"check", "start", "execute", "recheck", "finish"} => s = "installing"
    /\ at \in {"configured", "to_health_check"} => s = "configuring"
    /\ at \in {"probe_start", "probe", "to_completed"} => s = "health_check"
    /\ at = "clear" => s = "completed"

(* ... and that the row is in the same, or one transition behind *)
Agree(at, s, shown) ==
    /\ shown \in Running
    /\ s = shown \/ (at \in Closing /\ s \in Allowed[shown])

Beating(r) == age <= beat[r] + HeartbeatEvery * missed[r]

Owns(r) ==
    Stage(pc[r], mem[r].state) /\ Agree(pc[r], mem[r].state, row.state) /\ Beating(r)

Waiting(q) ==
    /\ reqPc[q] # "edit"
    /\ reqPc[q] = "rewind" => row.state \in {"failed", "rolled_back"} /\ reqMem[q].state = "pending"
    /\ reqPc[q] = "to_pending" => row.state = "failed" /\ reqMem[q].state = "pending"
    /\ reqPc[q] = "to_validating" => row.state = "pending" /\ reqMem[q].state = "validating"

Listed(p) == snap[p].state \in InFlight => row.state \in InFlight /\ \A r \in Runner : ~Live(r)

OwnerInv ==
    /\ deleted = FALSE
    /\ OneInstallAtATime
    /\ \A r \in Runner : Live(r) => Owns(r)
    /\ \A q \in Request : Waiting(q)
    /\ \A p \in Reaper : Listed(p)

(* what a step may do to the state column and to the cluster *)
Moves    == row'.state = row.state \/ row'.state \in Allowed[row.state]
Installs ==
    \/ done' = done
    \/ row.state = "installing" /\ row' = row /\ \E s \in Install : done' = done \cup {s}

LEMMA AllowedFacts ==
  /\ \A s \in State : "validating" \in Allowed[s] => s = "pending"
  /\ \A s \in InFlight : "failed" \in Allowed[s]
  /\ Allowed["completed"] = {}
  /\ "pending" \in Allowed["failed"] /\ "pending" \in Allowed["rolled_back"]
  /\ "validating" \in Allowed["pending"] /\ "installing" \in Allowed["validating"]
  /\ "configuring" \in Allowed["installing"] /\ "health_check" \in Allowed["configuring"]
  /\ "completed" \in Allowed["health_check"]
  BY DEF Allowed, State, InFlight

(* The heartbeat keeps a running installation from becoming stale. *)
LEMMA BeatingIsFresh ==
  ASSUME SingleOwner, TypeOK, NEW r \in Runner, Beating(r)
  PROVE  age < StaleThreshold
<1>1. /\ age \in Int /\ StaleThreshold \in Nat /\ HeartbeatEvery \in Nat /\ MaxMissed \in Nat
      /\ beat[r] \in 0 .. HeartbeatEvery /\ missed[r] \in 0 .. MaxMissed
  BY ThresholdAssumption, HeartbeatAssumption DEF TypeOK, RowType, RunType
<1>2. \A h, m, n \in Nat : m <= n => h * m <= h * n
  OBVIOUS
<1>3. HeartbeatEvery * missed[r] <= HeartbeatEvery * MaxMissed
  BY <1>1, <1>2
<1> QED
  BY <1>1, <1>3 DEF Beating, SingleOwner

(* While a goroutine runs, neither a request nor the reaper is about to    *)
(* write the row, and no other goroutine runs.                             *)
LEMMA Alone ==
  ASSUME SingleOwner, TypeOK, OwnerInv, NEW r \in Runner, Live(r)
  PROVE  /\ Owns(r) /\ row.state \in Running /\ ~Stale
         /\ \A q \in Request : reqPc[q] \in {"idle", "get"}
         /\ \A p \in Reaper : snap[p].state \notin InFlight
         /\ \A s \in Runner : Live(s) => s = r
<1>1. Owns(r) /\ row.state \in Running
  BY DEF OwnerInv, Owns, Agree
<1>2. ~Stale
  BY <1>1, BeatingIsFresh, ThresholdAssumption DEF Owns, Stale, TypeOK, RowType
<1>3. \A q \in Request : reqPc[q] \in {"idle", "get"}
  BY <1>1 DEF OwnerInv, Waiting, Running, InFlight, TypeOK, RequestType, RequestPc
<1> QED
  BY <1>1, <1>2, <1>3 DEF OwnerInv, Listed, OneInstallAtATime

(* A step of the one goroutine keeps the invariant if the goroutine ends   *)
(* or still agrees with the row.                                           *)
LEMMA RunOn ==
  ASSUME SingleOwner, TypeOK, OwnerInv, NEW r \in Runner, Live(r),
         UNCHANGED <<deleted, reqVars, snap>>,
         \A s \in Runner \ {r} : pc'[s] = pc[s],
         Live(r)' => Owns(r)'
  PROVE  OwnerInv'
<1>1. \A s \in Runner : Live(s)' => s = r
  BY Alone DEF Live
<1>2. \A q \in Request : Waiting(q)'
  BY Alone DEF Waiting, reqVars
<1>3. \A p \in Reaper : Listed(p)'
  BY Alone DEF Listed
<1> QED
  BY <1>1, <1>2, <1>3 DEF OwnerInv, OneInstallAtATime

LEMMA GoOn ==
  ASSUME SingleOwner, TypeOK, OwnerInv, NEW r \in Runner, Live(r),
         NEW next, NEW m, Go(r, next, m),
         UNCHANGED <<deleted, reqVars, snap>>, age' \in {0, age},
         Stage(next, m.state), Agree(next, m.state, row'.state)
  PROVE  OwnerInv'
<1>1. /\ pc'[r] = next /\ mem'[r] = m /\ \A s \in Runner \ {r} : pc'[s] = pc[s]
      /\ beat' = beat /\ missed' = missed
  BY DEF Go, TypeOK, RunType
<1>2. Beating(r)'
  <2>1. age <= beat[r] + HeartbeatEvery * missed[r]
    BY Alone DEF Owns, Beating
  <2>2. 0 <= beat[r] + HeartbeatEvery * missed[r]
    <3>1. \A h, m1 \in Nat : h * m1 \in Nat
      OBVIOUS
    <3>2. beat[r] \in Nat /\ HeartbeatEvery * missed[r] \in Nat
      BY <3>1, HeartbeatAssumption DEF TypeOK, RunType
    <3> QED
      BY <3>2
  <2> QED
    BY <1>1, <2>1, <2>2 DEF Beating
<1> QED
  BY <1>1, <1>2, RunOn DEF Owns

LEMMA EndOn ==
  ASSUME SingleOwner, TypeOK, OwnerInv, NEW r \in Runner, Live(r), End(r),
         UNCHANGED <<deleted, reqVars, snap>>
  PROVE  OwnerInv'
<1>1. pc'[r] = "idle" /\ \A s \in Runner \ {r} : pc'[s] = pc[s]
  BY DEF End, TypeOK, RunType
<1> QED
  BY <1>1, RunOn DEF Live

LEMMA MarkOwner ==
  ASSUME SingleOwner, TypeOK, OwnerInv, NEW r \in Runner, NEW at, NEW next, NEW m,
         Mark(r, at, m, next), at # "idle", m.state = mem[r].state,
         Stage(next, m.state), at \in Closing => next \in Closing
  PROVE  OwnerInv' /\ Moves /\ Installs
<1>1. Live(r) /\ Owns(r) /\ pc[r] = at
  BY Alone DEF Mark, Live
<1>2. /\ UNCHANGED <<deleted, reqVars, snap>> /\ age' \in {0, age} /\ done' = done
      /\ Go(r, next, m) /\ row' \in {row, m}
  BY DEF Mark, Save
<1>3. Agree(next, m.state, row'.state)
  BY <1>1, <1>2 DEF Owns, Agree, Stage
<1>4. Moves
  BY <1>1, <1>2 DEF Moves, Owns, Agree
<1> QED
  BY <1>1, <1>2, <1>3, <1>4, GoOn DEF Installs

LEMMA TransitionOwner ==
  ASSUME SingleOwner, TypeOK, OwnerInv, NEW r \in Runner, NEW at, NEW next, NEW state,
         Transition(r, at, state, next), at # "idle", at \notin Closing,
         state \in Allowed[mem[r].state], state \in Running, Stage(next, state)
  PROVE  OwnerInv' /\ Moves /\ Installs
<1> DEFINE m == [mem[r] EXCEPT !.state = state]
<1>1. Live(r) /\ Owns(r) /\ pc[r] = at /\ mem[r] \in Stack
  BY Alone DEF Transition, Live, TypeOK, RunType
<1>2. m.state = state /\ mem[r].state = row.state
  BY <1>1 DEF Owns, Agree, Stack
<1>3. PICK ok \in BOOLEAN : Save(m, ok) /\ Go(r, IF ok THEN next ELSE "failing", m)
  BY DEF Transition
<1>4. /\ UNCHANGED <<deleted, reqVars, snap>> /\ age' \in {0, age} /\ done' = done
      /\ row' = IF ok THEN m ELSE row
  BY <1>3 DEF Transition, Save
<1>5. CASE ok
  BY <1>1, <1>2, <1>3, <1>4, <1>5, GoOn DEF Agree, Moves, Installs
<1>6. CASE ~ok
  <2>1. Stage("failing", m.state)
    BY <1>2 DEF Stage
  <2>2. Agree("failing", m.state, row'.state)
    BY <1>1, <1>2, <1>4, <1>6 DEF Owns, Agree, Closing
  <2> QED
    BY <1>1, <1>2, <1>3, <1>4, <1>6, <2>1, <2>2, GoOn DEF Moves, Installs
<1> QED
  BY <1>5, <1>6

LEMMA EnsureOwner ==
  ASSUME SingleOwner, TypeOK, OwnerInv, NEW r \in Runner, NEW next,
         EnsureActive(r, next), Live(r), pc[r] \notin Closing, Stage(next, mem[r].state)
  PROVE  OwnerInv' /\ Moves /\ Installs
<1>1. Owns(r)
  BY Alone
<1>2. /\ UNCHANGED <<deleted, reqVars, snap>> /\ age' = age /\ done' = done /\ row' = row
      /\ End(r) \/ Go(r, next, mem[r]) \/ Go(r, "failing", mem[r])
  BY DEF EnsureActive, rowVars
<1>3. Agree(next, mem[r].state, row'.state) /\ Agree("failing", mem[r].state, row'.state)
  BY <1>1, <1>2 DEF Owns, Agree
<1>4. Stage("failing", mem[r].state)
  BY <1>1 DEF Owns, Stage
<1> QED
  BY <1>2, <1>3, <1>4, GoOn, EndOn DEF Moves, Installs

LEMMA RunnerOwner ==
  ASSUME SingleOwner, TypeOK, InDAG, OwnerInv, NEW r \in Runner, RunnerStep(r)
  PROVE  OwnerInv' /\ Moves /\ Installs
<1> USE DEF Closing
<1>0. /\ mem[r] \in Stack /\ mem[r].state \in State
      /\ Live(r) => Owns(r)
  BY Alone DEF TypeOK, RunType, Stack
<1>1. \A s : /\ Started(mem[r], s).state = mem[r].state
             /\ Finished(mem[r], s).state = mem[r].state
             /\ Broken(mem[r], s).state = mem[r].state
  BY <1>0 DEF Started, Finished, Broken, Stack
<1>2. ASSUME NEW at, NEW next, NEW m, Mark(r, at, m, next), at # "idle",
             m.state = mem[r].state, Stage(at, m.state) => Stage(next, m.state),
             at \in Closing => next \in Closing
      PROVE  OwnerInv' /\ Moves /\ Installs
  BY <1>0, <1>2, MarkOwner DEF Mark, Live, Owns
<1>3. ASSUME NEW next, EnsureActive(r, next), Live(r), pc[r] \notin Closing,
             Stage(pc[r], mem[r].state) => Stage(next, mem[r].state)
      PROVE  OwnerInv' /\ Moves /\ Installs
  BY <1>0, <1>3, EnsureOwner DEF Owns
<1>4. ASSUME NEW next, Go(r, next, mem[r]), Live(r),
             Stage(pc[r], mem[r].state) => Stage(next, mem[r].state),
             pc[r] \in Closing => next \in Closing,
             UNCHANGED <<rowVars, done, reqVars, snap, delVars>>
      PROVE  OwnerInv' /\ Moves /\ Installs
  <2>1. UNCHANGED <<deleted, reqVars, snap>> /\ age' = age /\ row' = row
    BY <1>4 DEF rowVars
  <2>2. Agree(next, mem[r].state, row'.state)
    BY <1>0, <1>4, <2>1 DEF Owns, Agree
  <2> QED
    BY <1>0, <1>4, <2>1, <2>2, GoOn DEF Owns, Moves, Installs
<1>5. CASE StartValidate(r)
  BY <1>1, <1>2, <1>5 DEF StartValidate, Stage
<1>6. CASE Preflight(r)
  BY <1>4, <1>6 DEF Preflight, Stage, Live
<1>7. CASE RecordPreflight(r)
  BY <1>2, <1>7 DEF RecordPreflight, Stage
<1>8. CASE FinishValidate(r)
  BY <1>1, <1>2, <1>8 DEF FinishValidate, Stage
<1>9. ASSUME NEW at, NEW next, NEW from, NEW state, Transition(r, at, state, next),
             at # "idle", at \notin Closing, Stage(at, mem[r].state) => mem[r].state = from,
             state \in Allowed[from], state \in Running, Stage(next, state)
      PROVE  OwnerInv' /\ Moves /\ Installs
  <2>1. mem[r].state = from
    BY <1>0, <1>9 DEF Transition, Live, Owns
  <2> QED
    BY <1>9, <2>1, TransitionOwner
<1>10. CASE ToInstalling(r)
  BY <1>9, <1>10, AllowedFacts DEF ToInstalling, Stage, Running, InFlight
<1>11. CASE CheckStep(r)
  BY <1>3, <1>11 DEF CheckStep, Stage, Live
<1>12. CASE StartStep(r)
  BY <1>1, <1>2, <1>12 DEF StartStep, Stage
<1>13. CASE ExecuteStep(r)
  <2>1. /\ Live(r) /\ Owns(r) /\ pos[r] \in Install /\ pc[r] = "execute"
        /\ UNCHANGED <<deleted, reqVars, snap>> /\ age' = age /\ row' = row
        /\ done' = done \cup {pos[r]}
    BY <1>0, <1>13 DEF ExecuteStep, Live, InDAG, rowVars
  <2>2. row.state = "installing"
    BY <2>1 DEF Owns, Stage, Agree
  <2>3. /\ pc'[r] \in {"recheck", "check"} /\ mem'[r] = mem[r]
        /\ \A s \in Runner \ {r} : pc'[s] = pc[s]
        /\ beat' = beat /\ missed' = missed
    BY <1>13 DEF ExecuteStep, Go, TypeOK, RunType
  <2>4. Owns(r)'
    BY <2>1, <2>3 DEF Owns, Stage, Agree, Beating
  <2> QED
    BY <2>1, <2>2, <2>3, <2>4, RunOn DEF Moves, Installs
<1>14. CASE FailStep(r)
  <2>1. CASE pos[r] \in Selected
    BY <1>1, <1>2, <1>14, <2>1 DEF FailStep, Stage
  <2>2. CASE pos[r] \notin Selected
    BY <1>4, <1>14, <2>2 DEF FailStep, Stage, Live
  <2> QED
    BY <2>1, <2>2
<1>15. CASE RecheckStep(r)
  <2>1. CASE EnsureActive(r, "finish")
    BY <1>3, <1>15, <2>1 DEF RecheckStep, Stage, Live
  <2>2. CASE ~EnsureActive(r, "finish")
    BY <1>4, <1>15, <2>2 DEF RecheckStep, Stage, Live
  <2> QED
    BY <2>1, <2>2
<1>16. CASE FinishStep(r)
  <2> DEFINE m == Finished(mem[r], pos[r])
  <2>1. /\ Live(r) /\ Owns(r) /\ pc[r] = "finish"
        /\ UNCHANGED <<deleted, reqVars, snap>> /\ age' \in {0, age} /\ row' \in {row, m}
        /\ done' = done
    BY <1>0, <1>16 DEF FinishStep, Live, Save
  <2>2. /\ pc'[r] = "check" /\ mem'[r] = m
        /\ \A s \in Runner \ {r} : pc'[s] = pc[s]
        /\ beat' = beat /\ missed' = missed
    BY <1>16 DEF FinishStep, TypeOK, RunType
  <2>3. row'.state = row.state /\ mem'[r].state = mem[r].state
    BY <1>1, <2>1, <2>2 DEF Owns, Agree
  <2>4. Beating(r)'
    <3>1. beat[r] \in Nat /\ HeartbeatEvery * missed[r] \in Nat
      <4>1. \A h, n \in Nat : h * n \in Nat
        OBVIOUS
      <4> QED
        BY <4>1, HeartbeatAssumption DEF TypeOK, RunType
    <3> QED
      BY <2>1, <2>2, <3>1 DEF Owns, Beating
  <2>5. Owns(r)'
    BY <2>1, <2>2, <2>3, <2>4 DEF Owns, Stage, Agree
  <2> QED
    BY <2>1, <2>2, <2>3, <2>5, RunOn DEF Moves, Installs
<1>17. CASE ToConfiguring(r)
  BY <1>9, <1>17, AllowedFacts DEF ToConfiguring, Stage, Running, InFlight
<1>18. CASE FinishConfiguring(r)
  BY <1>1, <1>2, <1>18 DEF FinishConfiguring, Stage
<1>19. CASE ToHealthCheck(r)
  BY <1>9, <1>19, AllowedFacts DEF ToHealthCheck, Stage, Running, InFlight
<1>20. CASE StartProbe(r)
  BY <1>1, <1>2, <1>20 DEF StartProbe, Stage
<1>21. CASE PassProbe(r)
  BY <1>1, <1>2, <1>21 DEF PassProbe, Stage
<1>22. CASE FailProbe(r)
  BY <1>1, <1>2, <1>22 DEF FailProbe, Stage
<1>23. CASE ToCompleted(r)
  BY <1>9, <1>23, AllowedFacts DEF ToCompleted, Stage, Running, InFlight
<1>24. CASE ClearSteps(r)
  <2> DEFINE m == [mem[r] EXCEPT !.current = Blank, !.failed = Blank]
  <2>1. /\ Live(r) /\ Owns(r) /\ pc[r] = "clear" /\ m.state = mem[r].state
        /\ UNCHANGED <<deleted, reqVars, snap>> /\ row' \in {row, m} /\ End(r) /\ done' = done
    BY <1>0, <1>24 DEF ClearSteps, Live, Save, Stack
  <2>2. row'.state = row.state
    BY <2>1 DEF Owns, Agree
  <2> QED
    BY <2>1, <2>2, EndOn DEF Moves, Installs
<1>25. CASE RecordFailure(r)
  <2>1. CASE mem[r].failed = Blank
    BY <1>1, <1>2, <1>25, <2>1 DEF RecordFailure, Stage
  <2>2. CASE mem[r].failed # Blank
    BY <1>4, <1>25, <2>2 DEF RecordFailure, Stage, Live
  <2> QED
    BY <2>1, <2>2
<1>26. CASE ToFailed(r)
  <2> DEFINE m == [mem[r] EXCEPT !.state = "failed"]
  <2>1. /\ Live(r) /\ Owns(r) /\ End(r) /\ done' = done
        /\ UNCHANGED <<deleted, reqVars, snap>>
        /\ row' = row \/ (row' = m /\ "failed" \in Allowed[mem[r].state])
    BY <1>0, <1>26 DEF ToFailed, Live, Save, rowVars
  <2>2. row' = m => Moves
    <3>1. ASSUME "failed" \in Allowed[mem[r].state]
          PROVE  row.state \in InFlight
      BY <2>1, <3>1, AllowedFacts DEF Owns, Agree, Stage, Running
    <3>2. m.state = "failed"
      BY <1>0 DEF Stack
    <3> QED
      BY <2>1, <3>1, <3>2, AllowedFacts DEF Moves
  <2> QED
    BY <2>1, <2>2, EndOn DEF Moves, Installs
<1> QED
  BY <1>5, <1>6, <1>7, <1>8, <1>10, <1>11, <1>12, <1>13, <1>14, <1>15, <1>16, <1>17, <1>18,
     <1>19, <1>20, <1>21, <1>22, <1>23, <1>24, <1>25, <1>26
  DEF RunnerStep

(* A row that is neither in flight nor completed has no goroutine behind   *)
(* it, and no reaper is about to close it.                                 *)
LEMMA Unowned ==
  ASSUME OwnerInv, row.state \notin Running
  PROVE  /\ \A r \in Runner : ~Live(r)
         /\ \A p \in Reaper : snap[p].state \notin InFlight
  BY DEF OwnerInv, Owns, Agree, Listed, Running

LEMMA RequestOwner ==
  ASSUME SingleOwner, TypeOK, OwnerInv, NEW q \in Request,
         Deploy(q) \/ Retry(q) \/ Continue(q) \/ Edit(q) \/ RequestStep(q)
         \/ CrashRequest(q)
  PROVE  OwnerInv' /\ Moves /\ Installs
<1> USE DEF rowVars, runVars, reqVars
<1>0. /\ Waiting(q) /\ \A s \in Request : s = q
      /\ row \in Stack /\ reqMem[q] \in Stack /\ reqMem \in [Request -> Stack]
      /\ reqPc \in [Request -> RequestPc]
      /\ row.state \in State
  BY DEF SingleOwner, OwnerInv, TypeOK, RowType, RequestType, Stack
<1>1. done' = done /\ snap' = snap /\ Installs
  BY DEF Deploy, Retry, Continue, Edit, RequestStep, EditSave, RetryRewind, ExecuteGet,
         ExecuteRewind, ExecuteLaunch, CrashRequest, Installs
<1>2. EndRequest(q) => reqPc'[q] = "idle"
  BY <1>0 DEF EndRequest
<1>3. \A next, m : GoRequest(q, next, m) => reqPc'[q] = next /\ reqMem'[q] = m
  BY <1>0 DEF GoRequest
(* a request that leaves the row and the goroutines alone *)
<1>4. ASSUME UNCHANGED rowVars, UNCHANGED runVars, Waiting(q)'
      PROVE  OwnerInv' /\ Moves /\ Installs
  <2>1. \A s \in Request : Waiting(s)'
    BY <1>0, <1>4
  <2>2. \A r \in Runner : Live(r)' = Live(r) /\ (Owns(r) => Owns(r)')
    BY <1>4 DEF Live, Owns, Beating
  <2> QED
    BY <1>1, <1>4, <2>1, <2>2 DEF OwnerInv, OneInstallAtATime, Listed, Moves
(* a request that writes a row which nobody else is about to write *)
<1>5. ASSUME row.state \notin Running, UNCHANGED deleted, UNCHANGED runVars, Waiting(q)', Moves
      PROVE  OwnerInv' /\ Moves /\ Installs
  <2>1. \A r \in Runner : ~Live(r)'
    BY <1>5, Unowned DEF Live
  <2> QED
    BY <1>0, <1>1, <1>5, <2>1, Unowned DEF OwnerInv, OneInstallAtATime, Listed
<1>6. CASE Deploy(q)
  BY <1>3, <1>4, <1>6 DEF Deploy, Waiting
<1>7. CASE Retry(q)
  <2>1. [row EXCEPT !.state = "pending"].state = "pending"
    BY <1>0 DEF Stack
  <2>2. row' = row /\ reqPc'[q] = "rewind" /\ reqMem'[q] = [row EXCEPT !.state = "pending"]
    BY <1>0, <1>7 DEF Retry, GoRequest
  <2>3. Waiting(q)'
    BY <1>7, <2>1, <2>2 DEF Retry, Waiting
  <2> QED
    BY <1>4, <1>7, <2>3 DEF Retry
<1>8. CASE Continue(q)
  BY <1>3, <1>4, <1>8 DEF Continue, Waiting
<1>9. CASE Edit(q)
  BY <1>9 DEF Edit, SingleOwner
<1>10. CASE EditSave(q)
  BY <1>0, <1>10 DEF EditSave, Waiting
<1>11. CASE RetryRewind(q)
  <2>1. /\ row.state \in {"failed", "rolled_back"} /\ reqMem[q].state = "pending"
        /\ UNCHANGED deleted /\ UNCHANGED runVars /\ row' \in {row, reqMem[q]}
        /\ reqPc'[q] \in {"idle", "get"}
    BY <1>0, <1>2, <1>3, <1>11 DEF RetryRewind, Waiting, Save
  <2>2. Moves /\ row.state \notin Running
    BY <2>1, AllowedFacts DEF Moves, Running, InFlight
  <2> QED
    BY <1>5, <2>1, <2>2 DEF Waiting
<1>12. CASE ExecuteGet(q)
  <2>1. UNCHANGED rowVars /\ UNCHANGED runVars
    BY <1>12 DEF ExecuteGet
  <2>2. /\ [row EXCEPT !.state = "pending"].state = "pending"
        /\ [row EXCEPT !.state = "validating"].state = "validating"
        /\ [Fresh EXCEPT !.state = "validating"].state = "validating"
    BY <1>0 DEF Stack, Fresh
  <2>3. Waiting(q)'
    <3>1. CASE EndRequest(q)
      BY <1>2, <3>1 DEF Waiting
    <3>2. CASE row.state = "failed" /\ GoRequest(q, "to_pending", [row EXCEPT !.state = "pending"])
      <4>1. reqPc'[q] = "to_pending" /\ reqMem'[q] = [row EXCEPT !.state = "pending"]
        BY <1>0, <3>2 DEF GoRequest
      <4> QED
        BY <2>1, <2>2, <3>2, <4>1 DEF Waiting
    <3>3. CASE row.state = "pending"
               /\ GoRequest(q, "to_validating", [row EXCEPT !.state = "validating"])
      <4>1. reqPc'[q] = "to_validating" /\ reqMem'[q] = [row EXCEPT !.state = "validating"]
        BY <1>0, <3>3 DEF GoRequest
      <4> QED
        BY <2>1, <2>2, <3>3, <4>1 DEF Waiting
    <3>4. CASE "validating" \in Allowed[row.state]
               /\ GoRequest(q, "to_validating", [Fresh EXCEPT !.state = "validating"])
      <4>1. reqPc'[q] = "to_validating" /\ reqMem'[q] = [Fresh EXCEPT !.state = "validating"]
        BY <1>0, <3>4 DEF GoRequest
      <4> QED
        BY <1>0, <2>1, <2>2, <3>4, <4>1, AllowedFacts DEF Waiting
    <3> QED
      BY <1>12, <3>1, <3>2, <3>3, <3>4 DEF ExecuteGet
  <2> QED
    BY <1>4, <2>1, <2>3
<1>13. CASE ExecuteRewind(q)
  <2>1. /\ row.state = "failed" /\ reqMem[q].state = "pending"
        /\ UNCHANGED deleted /\ UNCHANGED runVars
    BY <1>0, <1>13 DEF ExecuteRewind, Waiting, Save
  <2>2. PICK ok \in BOOLEAN :
            /\ Save(reqMem[q], ok)
            /\ IF ok THEN /\ GoRequest(q, "to_validating", [reqMem[q] EXCEPT !.state = "validating"])
                          /\ UNCHANGED <<resume, kind>>
                     ELSE EndRequest(q)
    BY <1>13 DEF ExecuteRewind
  <2>3. [reqMem[q] EXCEPT !.state = "validating"].state = "validating"
    BY <1>0 DEF Stack
  <2>4. Waiting(q)' /\ row' \in {row, reqMem[q]}
    <3>1. CASE ok
      <4>1. /\ row' = reqMem[q] /\ reqPc'[q] = "to_validating"
            /\ reqMem'[q] = [reqMem[q] EXCEPT !.state = "validating"]
        BY <1>0, <2>2, <3>1 DEF GoRequest, Save
      <4> QED
        BY <2>1, <2>3, <4>1 DEF Waiting
    <3>2. CASE ~ok
      BY <1>2, <2>2, <3>2 DEF Waiting, Save
    <3> QED
      BY <3>1, <3>2
  <2>5. Moves /\ row.state \notin Running
    BY <2>1, <2>4, AllowedFacts DEF Moves, Running, InFlight
  <2> QED
    BY <1>5, <2>1, <2>4, <2>5
<1>14. CASE ExecuteLaunch(q)
  <2>1. row.state = "pending" /\ reqMem[q].state = "validating" /\ EndRequest(q) /\ Waiting(q)'
    BY <1>0, <1>2, <1>14 DEF ExecuteLaunch, Waiting
  <2>2. row.state \notin Running
    BY <2>1 DEF Running, InFlight
  <2>3. CASE Save(reqMem[q], FALSE) /\ UNCHANGED runVars
    BY <1>5, <2>1, <2>2, <2>3 DEF Save, Moves
  <2>4. CASE Save(reqMem[q], TRUE)
             /\ \E r \in Runner :
                  /\ pc[r] = "idle"
                  /\ pc' = [pc EXCEPT ![r] = "validate"] /\ mem' = [mem EXCEPT ![r] = reqMem[q]]
                  /\ pos' = [pos EXCEPT ![r] = FirstStep(resume[q])]
                  /\ beat' = [beat EXCEPT ![r] = 0] /\ missed' = [missed EXCEPT ![r] = 0]
    <3>1. PICK r \in Runner :
                  /\ pc' = [pc EXCEPT ![r] = "validate"] /\ mem' = [mem EXCEPT ![r] = reqMem[q]]
                  /\ beat' = [beat EXCEPT ![r] = 0] /\ missed' = [missed EXCEPT ![r] = 0]
      BY <2>4
    <3>2. /\ pc'[r] = "validate" /\ mem'[r] = reqMem[q] /\ beat'[r] = 0 /\ missed'[r] = 0
          /\ \A s \in Runner \ {r} : pc'[s] = pc[s]
      BY <3>1 DEF TypeOK, RunType
    <3>3. row' = reqMem[q] /\ age' = 0 /\ deleted' = deleted
      BY <2>4 DEF Save
    <3>4. \A s \in Runner : Live(s)' => s = r
      BY <2>2, <3>2, Unowned DEF Live
    <3>5. Beating(r)'
      BY <3>2, <3>3, HeartbeatAssumption DEF Beating
    <3>6. Owns(r)'
      BY <2>1, <3>2, <3>3, <3>5 DEF Owns, Stage, Agree, Running, InFlight
    <3>7. \A s \in Request : Waiting(s)'
      BY <1>0, <2>1
    <3>8. \A p \in Reaper : Listed(p)'
      BY <1>1, <2>2, Unowned DEF Listed
    <3>9. Moves
      BY <2>1, <3>3, AllowedFacts DEF Moves
    <3> QED
      BY <1>1, <3>3, <3>4, <3>6, <3>7, <3>8, <3>9 DEF OwnerInv, OneInstallAtATime
  <2> QED
    BY <1>14, <2>3, <2>4 DEF ExecuteLaunch
<1>15. CASE CrashRequest(q)
  BY <1>2, <1>4, <1>15 DEF CrashRequest, Waiting
<1> QED
  BY <1>6, <1>7, <1>8, <1>9, <1>10, <1>11, <1>12, <1>13, <1>14, <1>15 DEF RequestStep

LEMMA TimeOwner ==
  ASSUME SingleOwner, TypeOK, OwnerInv, Tick \/ (\E r \in Runner : Heartbeat(r))
  PROVE  OwnerInv' /\ Moves /\ Installs
<1>0. /\ UNCHANGED <<row, deleted, done, pc, mem, reqVars, snap>>
      /\ \A r \in Runner : Live(r) => Owns(r) /\ Beating(r)
  BY DEF Tick, Heartbeat, OwnerInv, Owns
<1>1. ASSUME \A r \in Runner : Live(r) => Beating(r)'
      PROVE  OwnerInv' /\ Moves /\ Installs
  BY <1>0, <1>1
  DEF OwnerInv, OneInstallAtATime, Listed, Waiting, Live, Owns, Moves, Installs, reqVars
<1>2. ASSUME Tick, NEW r \in Runner, Live(r)
      PROVE  Beating(r)'
  <2>1. /\ age' <= age + 1 /\ beat'[r] = beat[r] + 1 /\ missed' = missed
        /\ age \in Nat /\ age' \in Nat /\ beat[r] \in Nat
    BY <1>2, ThresholdAssumption DEF Tick, TypeOK, RowType, RunType
  <2>2. HeartbeatEvery * missed[r] \in Nat
    <3>1. \A h, n \in Nat : h * n \in Nat
      OBVIOUS
    <3> QED
      BY <3>1, HeartbeatAssumption DEF TypeOK, RunType
  <2> QED
    BY <1>0, <1>2, <2>1, <2>2 DEF Beating
<1>3. ASSUME NEW r \in Runner, Heartbeat(r)
      PROVE  \A s \in Runner : Live(s) => Beating(s)'
  <2> SUFFICES ASSUME NEW s \in Runner, Live(s) PROVE Beating(s)'
    OBVIOUS
  <2>1. s = r /\ deleted = FALSE
    BY <1>3 DEF Heartbeat, OwnerInv, OneInstallAtATime
  <2>2. beat[r] = HeartbeatEvery /\ beat'[r] = 0 /\ missed[r] \in Nat /\ age \in Nat
    BY <1>3 DEF Heartbeat, TypeOK, RowType, RunType
  <2>3. CASE age' = 0 /\ missed'[r] = 0
    BY <2>1, <2>2, <2>3, HeartbeatAssumption DEF Beating
  <2>4. CASE age' = age /\ missed'[r] = missed[r] + 1
    <3>1. \A h, n \in Nat : h * (n + 1) = h + h * n /\ h * n \in Nat
      OBVIOUS
    <3>2. HeartbeatEvery * (missed[r] + 1) = HeartbeatEvery + HeartbeatEvery * missed[r]
          /\ HeartbeatEvery * missed[r] \in Nat
      BY <2>2, <3>1, HeartbeatAssumption
    <3>3. age <= HeartbeatEvery + HeartbeatEvery * missed[r]
      BY <1>0, <1>3, <2>2 DEF Heartbeat, Beating
    <3> QED
      BY <2>1, <2>2, <2>4, <3>2, <3>3, HeartbeatAssumption DEF Beating
  <2> QED
    BY <1>3, <2>1, <2>3, <2>4 DEF Heartbeat, TypeOK, RunType
<1> QED
  BY <1>1, <1>2, <1>3

LEMMA ReaperOwner ==
  ASSUME SingleOwner, TypeOK, OwnerInv, NEW p \in Reaper, ReapList(p) \/ ReapWrite(p)
  PROVE  OwnerInv' /\ Moves /\ Installs
<1> USE DEF rowVars, runVars, reqVars
<1>0. \A s \in Reaper : s = p
  BY DEF SingleOwner
<1>1. CASE ReapList(p)
  <2>1. row.state \in InFlight /\ \A r \in Runner : ~Live(r)
    BY <1>1, Alone DEF ReapList, Stale
  <2> QED
    BY <1>0, <1>1, <2>1
    DEF ReapList, OwnerInv, OneInstallAtATime, Listed, Waiting, Live, Moves, Installs
<1>2. CASE ReapWrite(p)
  <2> DEFINE m == [snap[p] EXCEPT !.state = "failed",
                       !.failed = FirstNonBlank(snap[p].current, snap[p].completed)]
  <2>1. row.state \in InFlight /\ \A r \in Runner : ~Live(r)
    BY <1>2 DEF ReapWrite, OwnerInv, Listed
  <2>2. /\ UNCHANGED <<deleted, done, runVars, reqVars>> /\ row' \in {row, m}
        /\ snap' = [snap EXCEPT ![p] = Fresh]
    BY <1>2 DEF ReapWrite, Save
  <2>3. m.state = "failed" /\ snap'[p] = Fresh
    BY <2>2 DEF TypeOK, Stack
  <2>4. \A r \in Runner : ~Live(r)'
    BY <2>1, <2>2 DEF Live
  <2>5. \A s \in Reaper : Listed(s)'
    BY <1>0, <2>3 DEF Listed, Fresh, InFlight
  <2>6. \A q \in Request : Waiting(q)'
    <3>1. \A q \in Request : reqPc[q] \notin {"edit", "rewind", "to_pending", "to_validating"}
      BY <2>1 DEF OwnerInv, Waiting, InFlight
    <3> QED
      BY <2>2, <3>1 DEF Waiting
  <2>7. Moves
    BY <2>1, <2>2, <2>3, AllowedFacts DEF Moves
  <2> QED
    BY <2>2, <2>4, <2>5, <2>6, <2>7 DEF OwnerInv, OneInstallAtATime, Installs
<1> QED
  BY <1>1, <1>2

LEMMA OwnerStep ==
  ASSUME SingleOwner, TypeOK, InDAG, OwnerInv, [Next]_vars
  PROVE  OwnerInv' /\ Moves /\ Installs
<1>1. CASE UNCHANGED vars
  BY <1>1 DEF vars, rowVars, runVars, reqVars, OwnerInv, OneInstallAtATime, Owns, Beating,
              Waiting, Listed, Live, Moves, Installs
<1>2. ASSUME NEW r \in Runner, CrashRunner(r)
      PROVE  OwnerInv' /\ Moves /\ Installs
  BY <1>2, EndOn DEF CrashRunner, rowVars, Moves, Installs
<1>3. Deleter = {}
  BY DEF SingleOwner
<1> QED
  BY <1>1, <1>2, <1>3, RequestOwner, RunnerOwner, TimeOwner, ReaperOwner DEF Next

(* With a single owner of the row, the goroutine's copy and the row agree. *)
THEOREM OwnerInvariance ==
  ASSUME SingleOwner
  PROVE  Spec => []OwnerInv
<1>1. Init => OwnerInv
  BY DEF Init, OwnerInv, OneInstallAtATime, Live, Waiting, Listed, Fresh, InFlight
<1>2. TypeOK /\ InDAG /\ OwnerInv /\ [Next]_vars => OwnerInv'
  BY OwnerStep
<1> QED
  BY <1>1, <1>2, TypeAndDAG, PTL DEF Spec

(* Two goroutines never install one stack at once, for every threshold     *)
(* that is longer than the heartbeats which may be missed (Execute,        *)
(* startHeartbeat, IsStaleInstall).                                        *)
THEOREM OneInstall ==
  ASSUME SingleOwner
  PROVE  Spec => []OneInstallAtATime
<1>1. OwnerInv => OneInstallAtATime
  BY DEF OwnerInv
<1> QED
  BY <1>1, OwnerInvariance, PTL

(* A stack shown as failed has no installation running behind it           *)
(* (handleFailure, ReapStaleInstalls).                                     *)
THEOREM FailedStopped ==
  ASSUME SingleOwner
  PROVE  Spec => []FailedMeansStopped
<1>1. OwnerInv => FailedMeansStopped
  BY DEF OwnerInv, FailedMeansStopped, Owns, Agree, Running, InFlight
<1> QED
  BY <1>1, OwnerInvariance, PTL

(* With a single owner the state column follows validTransitions, whatever *)
(* calls fail and whenever goroutines and requests are lost; the run with  *)
(* two requests shows that it does not when deploys overlap (transition).  *)
THEOREM TransitionsFollowed ==
  ASSUME SingleOwner
  PROVE  Spec => FollowsTransitions
<1>1. IInv /\ OwnerInv /\ [Next]_vars
        => [row'.state # row.state => row'.state \in Allowed[row.state] \cup {"cancelled"}]_vars
  BY OwnerStep DEF IInv, Moves
<1>2. Edits \subseteq {0, 1}
  BY DEF SingleOwner
<1> QED
  BY <1>1, <1>2, Invariance, OwnerInvariance, PTL DEF Spec, FollowsTransitions

LEMMA SameTable == Lifecycle!Allowed = Allowed
  BY DEF Lifecycle!Allowed, Lifecycle!State, Lifecycle!InFlight, Allowed, State, InFlight

(* The row and the cluster implement the lifecycle: whatever the copies,   *)
(* the failing calls, the crashes and the reaper do, a watcher sees the    *)
(* state column follow validTransitions, the cluster change only while     *)
(* "installing" is shown, and "completed" only over a full cluster.        *)
THEOREM Refinement ==
  ASSUME SingleOwner
  PROVE  Spec => ImplementsLifecycle
<1>0. Edits \subseteq {0, 1}
  BY DEF SingleOwner
<1>1. Init => Lifecycle!Init
  BY DEF Init, Fresh, Lifecycle!Init
<1>2. IInv /\ IInv' /\ OwnerInv /\ OwnerInv' /\ [Next]_vars
        => [Lifecycle!Next]_<<row.state, done>>
  <2> SUFFICES ASSUME IInv, IInv', OwnerInv, OwnerInv', [Next]_vars
               PROVE  [Lifecycle!Next]_<<row.state, done>>
    OBVIOUS
  <2>1. Moves /\ Installs
    BY OwnerStep DEF IInv
  <2>2. row'.state = "completed" => done' = Install
    BY DEF IInv, OwnerInv, AllBacked, Backed, TypeOK
  <2>3. CASE done' = done
    BY <2>1, <2>2, <2>3, SameTable DEF Moves, Lifecycle!Next, Lifecycle!Advance
  <2>4. CASE done' # done
    BY <2>1, <2>4 DEF Installs, Lifecycle!Next, Lifecycle!RunStep
  <2> QED
    BY <2>3, <2>4
<1> QED
  BY <1>0, <1>1, <1>2, Invariance, OwnerInvariance, PTL
  DEF Spec, ImplementsLifecycle, Lifecycle!Spec
============================================================================
