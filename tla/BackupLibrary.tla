---------------------------- MODULE BackupLibrary ----------------------------
(***************************************************************************)
(* What becomes of cold backups once they are taken (internal/backup): the *)
(* sets that back up the platform and every stack, the retention policy    *)
(* that a schedule applies after each of them, and the restore of a set.   *)
(*                                                                         *)
(* Runs are numbered in the order in which their rows are created.  A      *)
(* backup of a single target is a set of one.  Of the parts a run takes,   *)
(* "db" and "volume" stand for those without which a restore fails,        *)
(* "keycloak" and "kv" for those whose failure it only logs.               *)
(***************************************************************************)
EXTENDS Integers, FiniteSets

CONSTANTS
    Stack,        \* completed stacks, numbered in the order of their IDs
    Keeper,       \* API processes that take backups
    Scheduled,    \* those that do so on a schedule and apply the policy
    PartsOf,      \* the parts that a run of each target takes
    Asked,        \* the sets of targets that are asked for
    Daily, Weekly, Monthly,   \* the policy: how many days, weeks, months keep a run
    WeekLength, MonthLength,  \* in days
    Caps,         \* the values of MaxTotalBytes, counted in runs; 0 is none
    MaxRuns, MaxDay, MaxSets, MaxRestores, \* bounds
    MaxLibFaults           \* bounds

Platform == 0
Member   == Stack \cup {Platform}
Run      == 1 .. MaxRuns
Part     == {"db", "keycloak", "volume", "kv"}
Fatal    == {"db", "volume"}

ASSUME LibStackAssumption  == Stack \subseteq Nat \ {0}
ASSUME LibKeeperAssumption == Scheduled \subseteq Keeper
ASSUME LibPartAssumption   == PartsOf \in [Member -> (SUBSET Part) \ {{}}]
ASSUME LibAskedAssumption  == Asked \subseteq (SUBSET Member) \ {{}}
ASSUME LibPolicyAssumption ==
    /\ Daily \in Nat /\ Weekly \in Nat /\ Monthly \in Nat
    /\ WeekLength \in Nat \ {0} /\ MonthLength \in Nat \ {0}
    /\ Caps \subseteq Nat
ASSUME LibBoundAssumption ==
    /\ MaxRuns \in Nat /\ MaxDay \in Nat \ {0} /\ MaxSets \in Nat /\ MaxRestores \in Nat
    /\ MaxLibFaults \in Nat

VARIABLES
    made,      \* rows of backup_runs so far
    row,       \* the row of each run: set_id, stack_id, the day of created_at, status
    artifacts, \* its rows in backup_artifacts
    objects,   \* its objects in the store
    today,
    cap,       \* MaxTotalBytes of the configuration
    sets,      \* set IDs given out
    kpc,       \* what each process does
    kset,      \* the set it takes
    ktodo,     \* the targets still to take
    krun,      \* the run it takes, or whose artifacts it deletes
    kparts,    \* the parts of it not yet tried
    kgood,     \* a run of the set has not failed
    doomed,    \* runs its retention has still to delete
    rpc,       \* what the restore request does
    rtodo,     \* runs of the set still to restore
    rrun,      \* the run it restores
    rparts,    \* artifacts it has still to put back
    verdict,   \* restore_runs.status of each run in the present request
    back,      \* the parts it has put back
    libFaults, restores

recordVars  == <<made, row, artifacts, objects>>
keeperVars  == <<sets, kpc, kset, ktodo, krun, kparts, kgood, doomed>>
restoreVars == <<rpc, rtodo, rrun, rparts, verdict, back>>
budgetVars  == <<libFaults, restores>>
libraryVars == <<recordVars, today, cap, keeperVars, restoreVars, budgetVars>>

(* the volume before the vault of a stack, the platform DB before Keycloak *)
FirstOf(p, parts) == p \in Fatal \/ parts \cap Fatal = {}

LibraryInit ==
    /\ made = 0 /\ today = 1 /\ cap \in Caps /\ sets = 0
    /\ row = [r \in Run |-> [set |-> 0, member |-> Platform, day |-> 0, status |-> "none"]]
    /\ artifacts = [r \in Run |-> {}] /\ objects = [r \in Run |-> {}]
    /\ kpc = [k \in Keeper |-> "idle"] /\ kset = [k \in Keeper |-> 0]
    /\ ktodo = [k \in Keeper |-> {}] /\ krun = [k \in Keeper |-> 0]
    /\ kparts = [k \in Keeper |-> {}] /\ kgood = [k \in Keeper |-> FALSE]
    /\ doomed = [k \in Keeper |-> {}]
    /\ rpc = "idle" /\ rtodo = {} /\ rrun = 0 /\ rparts = {}
    /\ verdict = [r \in Run |-> "none"] /\ back = [r \in Run |-> {}]
    /\ libFaults = 0 /\ restores = 0

LibFault   == libFaults < MaxLibFaults /\ libFaults' = libFaults + 1
LibNoFault == UNCHANGED libFaults

LibGo(k, next) == kpc' = [kpc EXCEPT ![k] = next]

-----------------------------------------------------------------------------
(* RetentionPolicy.SelectForDeletion                                       *)

(* hasArtifacts *)
Candidates == {r \in Run : row[r].status \in {"succeeded", "partial"}}

Newest(c) == {r \in c : \A q \in c : q <= r}

(* markBuckets: the newest run of each of the last limit buckets           *)
Marked(c, limit, Bucket(_)) ==
    {r \in c : /\ \A q \in c : Bucket(q) = Bucket(r) => q <= r
               /\ Cardinality({Bucket(q) : q \in {p \in c : p >= r}}) <= limit}

DayOf(r)   == row[r].day
WeekOf(r)  == row[r].day \div WeekLength
MonthOf(r) == row[r].day \div MonthLength

(* wrong variant: one day too few *)
KeepFewerDays(c) ==
    Newest(c) \cup Marked(c, Daily - 1, DayOf)
              \cup Marked(c, Weekly, WeekOf) \cup Marked(c, Monthly, MonthOf)

KeepMarked(c) ==
    Newest(c) \cup Marked(c, Daily, DayOf)
              \cup Marked(c, Weekly, WeekOf) \cup Marked(c, Monthly, MonthOf)

(* the total: the oldest of those kept go first, the newest never          *)
WithinCap(c, keep) ==
    Newest(c) \cup {r \in keep : Cardinality({q \in keep : q >= r}) <= cap}

(* wrong variant: the total does not spare the newest run *)
SelectOverCap(c) ==
    c \ (IF cap = 0 THEN KeepMarked(c) ELSE WithinCap(c, KeepMarked(c)) \ Newest(c))

SelectForDeletion(c) ==
    c \ (IF cap = 0 THEN KeepMarked(c) ELSE WithinCap(c, KeepMarked(c)))

-----------------------------------------------------------------------------
(* Taking a set: tick, the handlers, and BackupSetUseCase.Run              *)

(* tick, which skips a turn while another is in flight, or a request       *)
BeginSet(k) ==
    /\ kpc[k] = "idle" /\ sets < MaxSets
    /\ \E targets \in Asked : ktodo' = [ktodo EXCEPT ![k] = targets]
    /\ sets' = sets + 1 /\ kset' = [kset EXCEPT ![k] = sets + 1]
    /\ LibGo(k, "member")
    /\ UNCHANGED <<recordVars, today, cap, krun, kparts, kgood, doomed, restoreVars, budgetVars>>

(* the platform first, then the stacks in the order of their IDs; a target *)
(* whose adapters cannot be built, or whose row cannot be created, is      *)
(* left out                                                                *)
TakeMember(k, m) ==
    /\ kpc[k] = "member" /\ \A n \in ktodo[k] : m <= n
    /\ ktodo' = [ktodo EXCEPT ![k] = @ \ {m}]
    /\ \/ /\ made < MaxRuns /\ made' = made + 1
          /\ row' = [row EXCEPT ![made + 1] =
                       [set |-> kset[k], member |-> m, day |-> today, status |-> "running"]]
          /\ krun' = [krun EXCEPT ![k] = made + 1]
          /\ kparts' = [kparts EXCEPT ![k] = PartsOf[m]]
          /\ LibGo(k, "parts") /\ LibNoFault
       \/ LibFault /\ UNCHANGED <<made, row, kpc, krun, kparts>>
    /\ UNCHANGED <<artifacts, objects, today, cap, sets, kset, kgood, doomed,
                   restoreVars, restores>>

(* putStream: the object, then its row.  Either may fail; the run goes on  *)
StorePart(k, p) ==
    /\ kpc[k] = "parts" /\ FirstOf(p, kparts[k])
    /\ kparts' = [kparts EXCEPT ![k] = @ \ {p}]
    /\ \/ /\ objects' = [objects EXCEPT ![krun[k]] = @ \cup {p}]
          /\ \/ artifacts' = [artifacts EXCEPT ![krun[k]] = @ \cup {p}] /\ LibNoFault
             \/ LibFault /\ UNCHANGED artifacts
       \/ LibFault /\ UNCHANGED <<objects, artifacts>>
    /\ UNCHANGED <<made, row, today, cap, sets, kpc, kset, ktodo, krun, kgood, doomed,
                   restoreVars, restores>>

(* BackupRun.Complete *)
Complete(r) ==
    CASE artifacts[r] = PartsOf[row[r].member] -> "succeeded"
      [] artifacts[r] = {}                     -> "failed"
      [] OTHER                                 -> "partial"

(* an error outside the parts, at any point of execute, fails the run; the *)
(* set judges by the run in memory, even when the update of its row fails  *)
FinishRun(k) ==
    LET r == krun[k]
    IN  /\ kpc[k] = "parts"
        /\ \/ /\ kparts[k] = {} /\ kgood' = [kgood EXCEPT ![k] = @ \/ Complete(r) # "failed"]
              /\ \/ row' = [row EXCEPT ![r].status = Complete(r)] /\ LibNoFault
                 \/ LibFault /\ UNCHANGED row
           \/ LibFault /\ row' = [row EXCEPT ![r].status = "failed"] /\ UNCHANGED kgood
        /\ krun' = [krun EXCEPT ![k] = 0] /\ kparts' = [kparts EXCEPT ![k] = {}]
        /\ LibGo(k, "member")
        /\ UNCHANGED <<made, artifacts, objects, today, cap, sets, kset, ktodo, doomed,
                       restoreVars, restores>>

PruneOrEnd(k) == LibGo(k, IF doomed'[k] = {} THEN "idle" ELSE "prune")

(* the end of the set, by the end of its list or of its context; after a   *)
(* set that has not failed a schedule applies the policy                   *)
EndSet(k) ==
    LET prune == k \in Scheduled /\ kgood[k]
    IN  /\ kpc[k] = "member"
        /\ \/ ktodo[k] = {} /\ LibNoFault
           \/ ktodo[k] # {} /\ LibFault
        /\ doomed' = [doomed EXCEPT ![k] = IF prune THEN SelectForDeletion(Candidates) ELSE {}]
        /\ PruneOrEnd(k)
        /\ ktodo' = [ktodo EXCEPT ![k] = {}]
        /\ kset' = [kset EXCEPT ![k] = 0] /\ kgood' = [kgood EXCEPT ![k] = FALSE]
        /\ UNCHANGED <<recordVars, today, cap, sets, krun, kparts,
                       restoreVars, restores>>

(* RetentionUseCase.Apply, newest first: the objects of a run and then the *)
(* rows; a run whose objects cannot be deleted keeps its rows              *)
DeleteObjects(k, r) ==
    /\ kpc[k] = "prune"
    /\ doomed' = [doomed EXCEPT ![k] = @ \ {r}]
    /\ \/ /\ objects' = [objects EXCEPT ![r] = {}] /\ LibNoFault
          /\ LibGo(k, "rows") /\ krun' = [krun EXCEPT ![k] = r]
       \/ /\ \E left \in SUBSET objects[r] : objects' = [objects EXCEPT ![r] = left]
          /\ LibFault /\ PruneOrEnd(k) /\ UNCHANGED krun
    /\ UNCHANGED <<made, row, artifacts, today, cap, sets, kset, ktodo, kparts, kgood,
                   restoreVars, restores>>

DeleteArtifacts(k) ==
    /\ kpc[k] = "rows" /\ UNCHANGED doomed /\ PruneOrEnd(k)
    /\ krun' = [krun EXCEPT ![k] = 0]
    /\ \/ artifacts' = [artifacts EXCEPT ![krun[k]] = {}] /\ LibNoFault
       \/ LibFault /\ UNCHANGED artifacts
    /\ UNCHANGED <<made, row, objects, today, cap, sets, kset, ktodo, kparts, kgood,
                   restoreVars, restores>>

(* a restart of the process; what it was doing is in its memory only       *)
RestartKeeper(k) ==
    /\ kpc[k] # "idle" /\ LibFault
    /\ LibGo(k, "idle") /\ ktodo' = [ktodo EXCEPT ![k] = {}]
    /\ krun' = [krun EXCEPT ![k] = 0] /\ kparts' = [kparts EXCEPT ![k] = {}]
    /\ doomed' = [doomed EXCEPT ![k] = {}]
    /\ kset' = [kset EXCEPT ![k] = 0] /\ kgood' = [kgood EXCEPT ![k] = FALSE]
    /\ UNCHANGED <<recordVars, today, cap, sets, restoreVars, restores>>

NextDay ==
    /\ today < MaxDay /\ today' = today + 1
    /\ UNCHANGED <<recordVars, cap, keeperVars, restoreVars, budgetVars>>

-----------------------------------------------------------------------------
(* Restoring a set: RestoreSetUseCase.Run and RestoreUseCase.Run           *)

SetRuns(s) == {r \in Run : row[r].status # "none" /\ row[r].set = s}

(* PlanSetRestore: the runs that failed or are unfinished are left out     *)
PlanSetRestore(s) == SetRuns(s) \cap Candidates

BeginRestore ==
    /\ rpc = "idle" /\ restores < MaxRestores /\ restores' = restores + 1
    /\ \E s \in 1 .. sets : SetRuns(s) # {} /\ rtodo' = PlanSetRestore(s)
    /\ rpc' = "member"
    /\ UNCHANGED <<recordVars, today, cap, keeperVars, rrun, rparts, verdict, back,
                   libFaults>>

(* wrong variant: the failure of the platform does not stop the set *)
AfterFailureGoOn(r) == rtodo' = rtodo \ {r}

(* without the platform no stack is restored                               *)
AfterFailure(r) == rtodo' = IF row[r].member = Platform THEN {} ELSE rtodo \ {r}

FailRestore(r) ==
    /\ rpc' = "member" /\ verdict' = [verdict EXCEPT ![r] = "failed"]
    /\ AfterFailure(r) /\ rrun' = 0 /\ rparts' = {}

(* GetRun, and the refusal of a run that has not ended well                *)
Restorable(r) == row[r].status \in {"succeeded", "partial"}

(* the next run of the plan, and the artifacts it has now; an adapter or a *)
(* prerequisite that is missing fails it                                   *)
RestoreMember(r) ==
    /\ rpc = "member" /\ \A q \in rtodo : row[r].member <= row[q].member
    /\ \/ /\ Restorable(r) /\ LibNoFault
          /\ rpc' = "verify" /\ rrun' = r /\ rparts' = artifacts[r]
          /\ verdict' = [verdict EXCEPT ![r] = "running"] /\ UNCHANGED rtodo
       \/ LibFault /\ FailRestore(r)
    /\ UNCHANGED <<recordVars, today, cap, keeperVars, back, restores>>

(* verifyArtifacts, and the check of the schema                            *)
VerifyArtifacts ==
    /\ rpc = "verify"
    /\ \/ /\ rparts \subseteq objects[rrun] /\ LibNoFault
          /\ rpc' = "load" /\ UNCHANGED <<verdict, rtodo, rrun, rparts>>
       \/ rparts \subseteq objects[rrun] /\ LibFault /\ FailRestore(rrun)
       \/ ~(rparts \subseteq objects[rrun]) /\ LibNoFault /\ FailRestore(rrun)
    /\ UNCHANGED <<recordVars, today, cap, keeperVars, back, restores>>

(* wrong variant: the failure to put a part back is only logged *)
SkipPart(p) == rparts' = rparts \ {p} /\ UNCHANGED <<rpc, verdict, rtodo, rrun>>

(* a part that cannot be put back                                          *)
LosePart(p) ==
    \/ p \in Fatal /\ FailRestore(rrun)
    \/ p \notin Fatal /\ rparts' = rparts \ {p} /\ UNCHANGED <<rpc, verdict, rtodo, rrun>>

(* pullStream of one artifact; the vault of a stack comes after its        *)
(* workloads have come back, and these after the volumes                   *)
PullPart(p) ==
    /\ rpc = "load" /\ FirstOf(p, rparts)
    /\ \/ /\ p \in objects[rrun] /\ LibNoFault
          /\ back' = [back EXCEPT ![rrun] = @ \cup {p}]
          /\ rparts' = rparts \ {p} /\ UNCHANGED <<rpc, verdict, rtodo, rrun>>
       \/ p \in objects[rrun] /\ LibFault /\ LosePart(p) /\ UNCHANGED back
       \/ p \notin objects[rrun] /\ LibNoFault /\ LosePart(p) /\ UNCHANGED back
    /\ UNCHANGED <<recordVars, today, cap, keeperVars, restores>>

FinishRestore ==
    /\ rpc = "load" /\ rparts = {}
    /\ rpc' = "member" /\ rtodo' = rtodo \ {rrun} /\ rrun' = 0
    /\ verdict' = [verdict EXCEPT ![rrun] = "succeeded"]
    /\ UNCHANGED <<recordVars, today, cap, keeperVars, rparts, back, budgetVars>>

EndRestore ==
    /\ rpc = "member" /\ rtodo = {} /\ rpc' = "idle"
    /\ verdict' = [r \in Run |-> "none"] /\ back' = [r \in Run |-> {}]
    /\ UNCHANGED <<recordVars, today, cap, keeperVars, rtodo, rrun, rparts, budgetVars>>

-----------------------------------------------------------------------------
KeeperStep(k) ==
    \/ BeginSet(k) \/ FinishRun(k) \/ EndSet(k) \/ DeleteArtifacts(k) \/ RestartKeeper(k)
    \/ \E m \in ktodo[k] : TakeMember(k, m)
    \/ \E p \in kparts[k] : StorePart(k, p)
    \/ \E r \in Newest(doomed[k]) : DeleteObjects(k, r)

RestoreStep ==
    \/ BeginRestore \/ VerifyArtifacts \/ FinishRestore \/ EndRestore
    \/ \E r \in rtodo : RestoreMember(r)
    \/ \E p \in rparts : PullPart(p)

LibraryNext == (\E k \in Keeper : KeeperStep(k)) \/ RestoreStep \/ NextDay

LibrarySpec == LibraryInit /\ [][LibraryNext]_libraryVars

-----------------------------------------------------------------------------
(* Properties *)

(* Every variable holds a value of its type.                               *)
LibraryTypeOK ==
    /\ made \in 0 .. MaxRuns /\ today \in 1 .. MaxDay /\ cap \in Caps
    /\ row \in [Run -> [set : Nat, member : Member, day : Nat,
                        status : {"none", "running", "succeeded", "partial", "failed"}]]
    /\ artifacts \in [Run -> SUBSET Part] /\ objects \in [Run -> SUBSET Part]
    /\ sets \in 0 .. MaxSets /\ kset \in [Keeper -> Nat]
    /\ kpc \in [Keeper -> {"idle", "member", "parts", "prune", "rows"}]
    /\ ktodo \in [Keeper -> SUBSET Member] /\ krun \in [Keeper -> 0 .. MaxRuns]
    /\ kparts \in [Keeper -> SUBSET Part] /\ kgood \in [Keeper -> BOOLEAN]
    /\ doomed \in [Keeper -> SUBSET Run]
    /\ rpc \in {"idle", "member", "verify", "load"}
    /\ rtodo \in SUBSET Run /\ rrun \in 0 .. MaxRuns /\ rparts \in SUBSET Part
    /\ verdict \in [Run -> {"none", "running", "succeeded", "failed"}]
    /\ back \in [Run -> SUBSET Part]
    /\ libFaults \in 0 .. MaxLibFaults
    /\ restores \in 0 .. MaxRestores

(* every artifact the run has recorded is still recorded and in the store  *)
Whole(r) == artifacts[r] # {} /\ artifacts[r] \subseteq objects[r]

(* Retention never takes the last copy: whenever an object or an artifact  *)
(* of a run goes, a later run is whole and stays so in that step, with     *)
(* several processes pruning from lists of their own, faults and restarts  *)
(* (retention.go: a policy must not bring the backups to none).            *)
NewerCopyRemains ==
    [][ \A r \in Run :
          ~(objects[r] \subseteq objects'[r] /\ artifacts[r] \subseteq artifacts'[r])
            => \E q \in Run : q > r /\ Whole(q) /\ Whole(q)' ]_libraryVars

(* Without a limit on the total, each of the last Daily days on which a    *)
(* backup ended well still has a whole one, whichever process pruned last  *)
(* and in whatever order the runs ended (retention.go markBuckets).        *)
DaysCovered ==
    cap = 0 =>
        \A r \in Candidates :
            Cardinality({DayOf(q) : q \in {p \in Candidates : p >= r}}) <= Daily
              => \E q \in Candidates : DayOf(q) = DayOf(r) /\ Whole(q)

(* No part of a stack is put back in a request in which the platform run   *)
(* of the same set has not been restored first (run_restore_set.go).       *)
PlatformFirst ==
    \A r, q \in Run :
        (back[r] # {} /\ row[r].member # Platform
           /\ row[q].set = row[r].set /\ row[q].member = Platform /\ q \in Candidates)
        => verdict[q] = "succeeded"

(* A restore that is recorded as succeeded either has put back nothing, of *)
(* a run whose artifacts are gone, or every fatal part that the backup     *)
(* took: it never stops half-way without saying so, though retention may   *)
(* delete the objects while it reads them (run_restore.go).                *)
AllOrNothing ==
    \A r \in Run :
        (verdict[r] = "succeeded" /\ row[r].status = "succeeded" /\ back[r] # {})
        => PartsOf[row[r].member] \cap Fatal \subseteq back[r]
=============================================================================
