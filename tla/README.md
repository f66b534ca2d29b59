# A TLA+ model of Nullus

Nullus installs DevOps stacks (Git, CI, registry, vault, monitoring ...) on
Kubernetes clusters and keeps them: it upgrades their Helm releases, edits their
values, backs them up and restores them, rotates their tokens and watches them.
The API is one Go process (`cmd/api/main.go`), by default run **twice**
(`deploy/helm/nullus/values.yaml`), with a PostgreSQL database, a vault
(OpenBao) and the clusters behind it. Long work runs in goroutines of whichever
replica took the request; periodic work runs in every replica. What the model is
about is therefore less the single function than what several of them do to the
same row, release or workload.

## Inventory

| Part | State it keeps | Operations | What makes it hard | Correct when |
|---|---|---|---|---|
| Install pipeline (`internal/stack/usecase/install_stack.go`) | the `stacks` row: state, current, last completed and last failed step; a `*domain.Stack` in each goroutine | Execute, run, runPhases, markStep*, transition, handleFailure, heartbeat | whole-row writes without a version check; a goroutine that is lost; failures of the write that reports a failure | completed means installed; a resume skips nothing; failed means that nothing is running; one installation at a time |
| Deploy requests (`deploy_handler.go`) | none between calls | Deploy, Retry, Continue | read, check and write are separate | the state follows `validTransitions` |
| Edits and imports (`manage_release_values.go`, `update_stack.go`, `import_config.go`) | the row they read before they began | Apply, update, import with its partial reapplication | a row read minutes ago is written back; the import chooses the step to resume at | nothing of the row is lost; a resume skips nothing |
| Reaper (`reap_stale_installs.go`) | none; one ticker per replica | list, write each | acts on rows it listed earlier | it only fails what is dead; nothing stays in flight |
| Deletion (`delete_stack.go`) | `deleted_at`; a detached cleanup | cancel, delete, clean up | runs beside installs and reapers | deleted is final |
| Upgrade runs (`upgrade_stack.go`, `domain/upgrade.go`) | `stack_upgrade_runs`; Helm history | Start, execute, recover, heartbeat, closeIfStale | two replicas, lost writes, crashes inside Helm, other writers of the release | one active run, closed stays closed, the outcome tells the truth |
| Values editor (`manage_release_values.go`, `adapter/helm/release-values.go`) | the stack's YAML overrides | GetValues, Apply | same release as the upgrades, asks nothing of them; the chart is taken, perhaps downloaded again, and applied later | an edit is not lost and brings no other chart |
| Backup run (`run_backup.go`, `domain/quiesce.go`, `adapter/kube/scaler.go`) | `backup_runs`; the plan, in memory only | Run, execute, withQuiesce, finish | partial failures while workloads are down; restart inside the window | volumes copied cold; every workload gets its own replicas back |
| Backup scheduler (`backup_scheduler.go`) | `inFlight`, in memory | tick | one per replica | windows do not overlap |
| Token rotation (`internal/admin/scheduler/token_rotation.go`, `internal/admin/rotation`, `internal/cicd/adapter/gitea/token_issuer.go`) | `token_sources`, the vaults, the token in Gitea, `paused`, `inFlight` | Pause, Resume, runIteration, rotateOne, EnsureToken, ApplyAction | revoke, generate and store are three calls; two replicas, or a replica and a request for a pipeline, on one token; a provider without a reissuer | no rotation in a window; the token Gitea accepts is in the vault of the stack; sources that are paused or have no reissuer are left alone |
| Backup sets, retention (`run_backup_set.go`, `retention.go`, `verify_and_retention.go`) | `backup_runs` with their artifacts, objects in the store | RunSet, members, PruneTarget | several replicas prune from lists of their own; deletion is objects first, rows second | retention never takes the last copy; the days of the policy are covered |
| Restore (`run_restore.go`, `run_restore_set.go`) | `restore_runs` | plan of a set, verify, parts | failing in the middle; retention deletes what is being read | platform before stacks; nothing stops half-way silently |
| Shared resources (`delete_stack.go`, `delete_shared_resources.go`, `adapter/helm/shared_cluster_resources.go`) | the cluster, marks on what Nullus installed | clean up the stack, look for users, reclaim | another stack, or another cleanup, goes on meanwhile, perhaps in the same namespace; what was read at the beginning is used minutes later | nothing in use is removed; nothing is left behind |
| Install log (`adapter/log`) | stored lines; lines and subscribers in memory | Stream, Subscribe, Unsubscribe, ClearHistory | unlocked between storing, remembering and sending | a subscriber misses nothing and sees nothing twice |
| Stack alerts (`internal/observability`) | alert rows, an advisory lock | collect: upsert, claim, resolve, publish | the session lock goes with its connection; Alertmanager forgets | one notice for the beginning and one for the end |
| Image scans (`scan_stack_images.go`) | results, `stack_cve_notices` | scan, replace, read, claim, tell, release | two replicas, shutdown between claim and telling, nobody who subscribes | each CVE is told once, and what is recorded as told was |
| CI/CD pipelines (`internal/cicd`) | `pipelines`, `deployments`; repositories, CI jobs, credentials, Argo CD applications and images in the tools | create with rollback, refresh, delete; sync of builds | tools find things by name and several pipelines may share one; no lock anywhere; builds and pushes go on | a deletion does not take what another pipeline needs, and what it removed stays removed |
| Notifications (`internal/notification`) | channels, deliveries | publish | a failed delivery is not retried | — |
| Rate limiter (`shared/middleware/rate_limiter.go`) | a map in memory | count, clean up | unlock before use | no request uncounted |
| The rest: users and organisations, catalogue, assistant, CLI, web console | single rows | request-scoped | — | — |

The parts meet in shared state, not in calls: requests, goroutines, reapers and
deletions in the row of a stack; upgrades, edits and Helm's own `--atomic` in a
release's history; backup runs, owners and controllers in `spec.replicas`; backup
runs and rotations in a flag of one process; retention and restores in the
objects of the store; cleanups and installations in the components of a cluster;
pipelines of one name in the repository and job of that name. `PROJECT.json` lists every component
with its status and every hazard with its line.

## Modules

| Module | Models | State and actions |
|---|---|---|
| `StackStates` | `domain/stack.go`, `domain/deploy_steps.go` | the states, `validTransitions`, `IsInFlight` |
| `StackLifecycle` | what the API promises of a stack's state | one variable; an installation moves by its stages, fails, is rewound, is deleted |
| `StackDeployment` | install pipeline, requests, edits and imports, reaper, deletion | `row`, `deleted`, `age` are the row; `mem`, `reqMem`, `snap`, `delMem` the copies each actor holds; `done` is the cluster. Each database read and each database write is an action of its own, because `PostgresStackRepository.Update` writes the whole copy |
| `StackDeployment_proofs` | theorems of `StackDeployment` | |
| `UpgradeRun`, `MCUpgradeRun` | upgrade runs, their readers, the values editor | `history` is the Helm release, a sequence of revisions with chart, values, status and who made them; `row` and `silent` the table, `pc`/`out`/`vals` the goroutines, `client`/`seen`/`editPc`/`editVals`/`editChart` the requests |
| `UpgradeLifecycle` | what the API promises of the status of a stack's runs | one variable; a run begins when none is active, turns to a rollback, is closed |
| `UpgradeRun_proofs` | theorems of `UpgradeRun` | |
| `BackupWindow`, `MCBackupWindow` | backup runs, scheduler, window, pause of the rotation | `spec`/`pods` are the cluster, `plan`/`todo`/`manual` the memory of a run, `paused`/`rotating` the rotation scheduler of each process |
| `BackupWindow_proofs` | theorems of `BackupWindow` | |
| `BackupLibrary`, `MCBackupLibrary` | backup sets, retention, restore of a set | `row`, `artifacts`, `objects` are the table and the store; `kpc`, `ktodo`, `krun`, `doomed` what a process that backs up and prunes holds; `rpc`, `rtodo`, `verdict`, `back` the restore |
| `SharedReclaim`, `MCSharedReclaim` | what stacks share in a cluster, installation and cleanup | `record`, `ns`, `live`, `owner` are the table and the cluster, `layout` who lives in which namespace; `dpc`, `dstep`, `reclaim`, `esoSeen`, `crds`, `seen`, `confirmed` where a cleanup is and what it has looked at |
| `TokenRotation` | rotation of tokens by several processes beside requests for pipelines | `honoured` is the token Gitea accepts, `stackVault` the one in the vault of its stack, `vault` what is at the path of the row; `type`/`tstatus`/`due`/`outdated` are the row, `listed`/`src`/`held`/`forced` the memory of an iteration or a request |
| `LogStream` | the two log streamers | `stored`, `memory`, `listeners`; `line`/`pending` of a publisher, `seed`/`channel` of a viewer |
| `StackAlerts` | alerts of a stack and their notices | `rows`, `lock`; `began`, `now`, `answer`, `outbox` of a collection |
| `ImageScans` | image scans and their notices | `report`, `notices`; `result`, `known`, `claimed` of a scan |
| `Pipelines` | creation, refresh and deletion of the pipelines of one name | `repo`, `job`, `secret`, `object`, `deployed`, `image` are in the tools, `pipe` the table; `step`/`created`/`prepared` of a creation, `erasing`/`recorded`/`erased` of a deletion |
| `MCServices` | an instance of these seven | `chosen` says which of them moves: they share no state, so that one run explores each of them with the others at rest |
| `MCTenants` | a larger instance of `SharedReclaim` and `TokenRotation` | `moving` says which of the two moves |
| `BackupLibrary_proofs`, `LogStream_proofs`, `StackAlerts_proofs` | theorems of these modules | |
| `StackServices_proofs` | theorems of `SharedReclaim`, `TokenRotation`, `ImageScans` and `Pipelines` | |
| `MCServices_proofs` | theorems of the seven together | |

Operators named in a comment as a *wrong variant* are not part of the
specification: each is a plausible mistake in the definition that follows it, and
shows that the property named in `PROJECT.json` notices it.

### How the actions correspond to the code

*StackDeployment.* `Deploy`, `Retry`, `RetryRewind`, `Continue` are the three
handlers up to the call of `Execute`; `ExecuteGet`, `ExecuteRewind` and
`ExecuteLaunch` are its read and its writes. The goroutine goes from
`StartValidate` to `ClearSteps`, one action per write (`markStepStarted`,
`markStepCompleted`, `transition`), with `FailStep`, `RecordFailure` and
`ToFailed` for the error path, and `EnsureActive` for the reads that notice a
cancelled or deleted stack. Steps are positions in `InstallStepOrder`; an
unselected step is skipped without a write. `age` counts ticks since `updated_at`
and is capped at the threshold. Every call of the database may fail (`Save(m, ok)`), and
`CrashRunner`, `CrashRequest`, `CrashDelete` may end any of them at any point, as often as
they like: nothing counts failures or restarts. `Edit` is the read of the row by the
values editor, an update or an import, `EditSave` the write of that copy after Helm or
the comparison, and `Reapply` the part of `triggerImportDeploy` that goes on with an
installation: the state becomes pending, the recorded steps become the one in `Edits`
that `importResumeStep` computed from the differences, and the request continues like
a `Continue`. An edit that only saves is `Edits` with 0. The states `rolling_back` and `archived` exist in
`domain/stack.go` but nothing in the pipeline enters `rolling_back`: the
comment above `run` ("On any failure it initiates rollback",
`install_stack.go:377-378`) has no counterpart in `handleFailure`.

*UpgradeRun.* `StartUpgrade`, `CheckActive`, `CloseActive`, `ReadValues` and
`CreateRun` are the reads of `Start` and its insert, `Insertable` the two unique
indexes of migration 000100. A replayed `Start`, `GetRun` and `ListRuns` are
`Look` and `CloseSeen`. `UpgradeChart` begins a Helm operation: a revision is
created as pending, which refuses every other upgrade and edit until it is settled.
`UpgradeReturns` ends it: it stands, Helm `--atomic` takes it back by a revision of its
own (`Undo`, `UndoReturns`), that fails, or the context ends. `Recover` is the switch
of `recover` over the last revision, and `RollbackRelease`, `RollbackReturns` its
rollback, which Helm does not refuse on a pending release. A save that fails three times
lets the goroutine go on, as `save` does. `silent` is "updated_at is older than five
minutes". An edit is four steps: `EditRead` reads the values of the latest deployed
revision, `EditTakeChart` reads which chart the release has (and may download it
again, with retries), `EditApply` begins the upgrade with that chart on whatever
revision the release has by then, and `EditReturns` ends it.

*BackupWindow.* The program counter follows `execute`; `Window(b)` holds from the
moment the resume is deferred until the rotation is resumed. `ScaleDown` and
`ScaleUp` are single calls, in list order and backwards; pods follow
`spec.replicas` later, by a step of the cluster. Two resource dumps and two
databases each count as one component. Runs are runs of a stack, so that the vault
is among the results. The code copies the volumes before it dumps the databases;
the design document (§6.7) lists them the other way round, and the model follows
the code.

*BackupLibrary.* `BeginSet`, `TakeMember`, `StorePart` and `FinishRun` are
`RunSet` and the run of one member, part by part, with `Complete` the status it
earns; `PruneOrEnd` is `SelectForDeletion` over all runs, `DeleteObjects` and
`DeleteArtifacts` its two deletions for each run. `PlanSetRestore` orders the runs of
a set; `BeginRestore`, `RestoreMember`, `VerifyArtifacts` and `PullPart` are a restore
until `FinishRestore`, and `LosePart` is an object that has gone between check and
reading. `Fatal` parts fail a restore; the others are logged.

*SharedReclaim.* `CreateStack` and `InstallNext` are the installation as far as
others notice it: it uses what is there, and marks what it installs.
`DeleteRecord` is the row; `DecideNamespace`, `LookAtESO`, `DeleteOwn`,
`DeleteESOCRDs`, `DeleteCertificate` and `DeleteNamespace` are the detached cleanup of
`delete_stack.go`. Only names of stacks are unique (`create_stack.go`): `layout` lets
stacks share a namespace with each other or with somebody else, and `Sweep` deletes
there what `kubectl delete --all` deletes, whoever has it. `FirstLook` to
`RemoveComponent` are the reclaim, with `ListCRDs` the list that is read once
(`loadCRDs`), `ReclaimOrder` the order of its components and the two looks
(`LookForUsers`, `ConfirmLast`) that precede every removal. A kind the list does not
have is not looked for (`Looks`, `Known`).

*TokenRotation.* `ListDue`, `TakeSource` and `EndRound` are an iteration; `RotateOne`
is `issueToken`. Gitea is the only provider `main.go` registers a reissuer for:
there, `RevokeNamed`, `Generate` and `StoreToken` are the three calls of the token
issuer, which the requests for pipelines (`CreatePipeline`, `Ping`) make as well.
A row of Gitea as the installation writes it names no stack and fails ("bare"); a
row of any other provider gets a random token ("plain"). `PutToken`,
`RecordRotation`, `RecordEvent` follow in the order of `rotateOne`; `FailRotation`
is its error path. `ApplyAction` is the administrator, whose actions only change
the status.

*LogStream.* `StoreLine`, `Remember`, `Send` are `Stream` (store, memory under the
lock, channels outside it); `AskHistory`, `ListStored`, `Replay`, `Register` are
`Subscribe` of the persistent and then of the memory streamer.

*StackAlerts.* `BeginCollect` takes the lock, `Fetch` asks Alertmanager, then
`Upsert`, `Claim`, `ListOpen`, `ResolveAlert` or `CloseMissing`, and `Publish`. `LoseLock`
is the connection that breaks while the process goes on.

*ImageScans.* `ScanImages`, `ReplaceResults`, `ReadNotices`, `ClaimNotices`,
`TellNotices`, `ReleaseNotices` are the steps of a scan, `Cancelled` the shutdown that
gives the claim back. `TellNotices` is `Dispatcher.Publish`: some channel has the notice,
no channel subscribes to it (then it succeeds as well), or one fails.

*Pipelines.* `EnsureProject`, `FetchSource`, `CommitFiles`, `ConfigurePipeline`,
`EnsureCIJob`, `ApplyArgoApplication`, `RecordPipeline` are a creation or a refresh;
`RollbackNewProject` is part of the two steps that call it. `BeginErase`,
`DeleteCIJob`, `LookForSiblings`, `DeleteCredentialObject`, `Revoke`,
`DeleteClusterResources`, `DeleteImages`, `DeleteRepository`, `DeletePipelineRow` are a
deletion in the order of `delete_pipeline.go`; what it was not asked for is
skipped, like what it cannot reach. Deleting the job is taken to end its builds, as
Jenkins does; the code only posts `doDelete`. `StartBuild`, `PushImage`, `EndBuild` and
`PushCode` are the environment.

## What is checked

All runs are exhaustive over the bounds of their `.cfg`.

| Run | Instance | Shows |
|---|---|---|
| `stack_one_owner` | three install steps, one request at a time, two goroutines, one reaper, one missed beat, any number of failing calls and restarts | `ResumePointIsSound`, `FailedMeansStopped`, `OneInstallAtATime`; the row's state implements `StackLifecycle`; under fairness an in-flight stack does not stay in flight (`InFlightEnds`) |
| `stack_delete` | a deletion beside a request, an edit or an import and an installation, any number of failing calls and restarts | `CompletedMeansInstalled`, `DeletedIsFinal`, `NoStepBeginsAfterDeletion` |
| `upgrade_run` | two requests, two runs, beats may be late | `OneActiveRun`, `ClosedStaysClosed`, `CloseNeedsSilence` |
| `upgrade_with_edits` | two runs, a reader, an edit, a lost save, a restart; beats arrive | `FailedChangedNothing`, `OutcomeMatchesRelease`; a run that ends by itself has settled its own Helm operations (`EndsItsOperations`) |
| `upgrade_ends` | one run, a reader, an edit, a lost save, a restart; beats may be late | under fairness a run in progress comes to an end (`ActiveRunEnds`) |
| `tenants` | one of two at a time. Reclaim: two stacks in namespaces of their own, or both in one, of one organisation or two, with a name from Nullus, a prefix or neither; somebody else with nothing, secrets, or a certificate and an autoscaler; one fault. Tokens: a source of any of the four types, two schedulers and a request for a pipeline, three tokens, one lost answer or restart | `UsersKeepComponents`, `SecretsSurviveOthers`, `NothingLeftBehind`; `TokenKept` |
| `services` | the seven modules of `MCServices`, one at a time, two processes, stacks, collections or pipelines each, one fault each | see below |
| `backup_window` | one process, two scheduled runs, workloads with 2, 1 and 0 replicas, two failing calls, a restart | `OwnReplicasOrNone`, `ColdVolumes`, `WorkloadsBack`, `NoRotationBeginsInWindow`, `WindowCloses` |

What `services` checks, beside the types:

| Service | Property | Meaning |
|---|---|---|
| library | `NewerCopyRemains` | an object goes only while a newer run is whole |
| | `DaysCovered` | without a limit on the total every day of the policy keeps a whole run |
| | `PlatformFirst`, `AllOrNothing` | the platform is back before a stack; a restore recorded as succeeded put back all of the fatal parts or, with its artifacts gone, nothing |
| log | `NothingMissed`, `OnceOnly` | no line falls between replay and registration; no line arrives twice |
| alerts | `PairedNotices`, `SeenNotResolved` | one notice handed to the dispatcher of each kind, in order; nothing is resolved within the grace after it was seen |
| images | `ToldOnce`, `RecordedIsTold` | no CVE is told twice; what is recorded as told was told, is being told, found no subscriber, or was lost with a channel or a process |
| pipelines | `DeletedStaysDeleted`, `OthersKeepTheirs` | removed images stay away; credentials and pushed work of others survive |

`MCServices` also contains the reclaim and the tokens, on smaller instances, for
its type invariant and for the theorems about all seven; what is specific to
the two is checked in `tenants`, where their instances can be larger.

In words, the properties of these two: `UsersKeepComponents`, a cleanup takes a
component only from stacks that came on record after its last look for stacks, or from
ones that came after its look for users, or after the list of CRDs that look rests on, and
are deleted again; `SecretsSurviveOthers`, the
secrets of a live stack or of somebody else go only with the CRDs, by a cleanup that
had looked before they were there (`LateForCRDs`), or in a namespace shared with a stack
that is being deleted (`SharedWithDeleted`); `NothingLeftBehind`, when the
cleanups of all stacks have gone through, nothing is left that nobody uses; `TokenKept`,
the token in the vault of the stack is the one Gitea accepts, or somebody is just
issuing another, unless calls overlapped or one was lost (`astray`) and nobody has
issued one alone since.

Several properties have an excuse in their statement (`unlocked`, `astray`, `cut`,
`excused`, `unsaid`, `unheard`, `muted`, `LateForCRDs`, `SharedWithDeleted`,
`Displaced`): what records that a lock, an answer or a process was lost at that
very point, or that the one thing the code does not guard against has happened.
Each marks a gap of the code named below under "Where code and comments differ", and the
property says that nothing else can go wrong.

Four runs show where the code does something else than it says:

| Run | What TLC finds |
|---|---|
| `stack_two_requests` | two overlapping deploys both pass the check in `Execute`; the second takes the state from installing back to validating, and two goroutines install one stack |
| `stack_import` | an import on a stack that was never installed resumes at the second step, skips the first as "previously completed", and the stack is shown completed without it |
| `upgrade_edit_chart` | an edit that took the source chart before the upgrade applies it afterwards: the release is back on the source, the run stays succeeded, and the comment that an edit never brings a chart along does not hold |
| `backup_two_replicas` | two replicas run two schedulers; one window gives a workload back while the other copies its volume |

Further differences of this kind are described under "Where code and comments differ"; the
models contain them, as steps or as the exceptions of properties.

The stack and backup runs among them are also why some properties are checked on an instance with a single
owner: with two overlapping requests `OneInstallAtATime` is false, with two
replicas `ColdVolumes` is. Edits are kept out of `stack_one_owner` for the same reason:
`EditSave` writes an old state over a live installation.

### Bounds

* Steps: three in `stack_one_owner`, the middle one not selected, so that a resume
  point has a step before and after it and one between recorded ones that leaves
  no trace; two in the violation runs; one in `stack_delete`, where what matters is who
  writes after the deletion. A longer chain repeats the same actions, and the theorems
  hold for every `N`.
* `StaleThreshold` 5, `HeartbeatEvery` 2, `MaxMissed` 1 (code: 30 min, 2 min) in
  `stack_one_owner`: a live installation may lose a beat and still be younger than the
  threshold, a dead one gets there. The ratio of the code is larger, which only gives
  more room; the theorems ask for no more than
  `HeartbeatEvery * MaxMissed + HeartbeatEvery < StaleThreshold`.
* `stack_delete` has no reaper (and then no time: only reapers read it), because edits
  and imports multiply its states; the theorem `DeletionIsFinal` covers reapers.
* `MaxFaults` (database, store or cluster calls that fail), `MaxCrashes` and
  `MaxRestarts` in `UpgradeRun`, `BackupWindow` and the services: one or two, so that a
  failure can meet the failure of its own error path in the runs that have two.
  `StackDeployment` has no such bound.
* `services`: one failing call or lost process per service, because every property
  allows for one and two would mostly repeat it; two actors of each kind,
  exchanged all at once (symmetry, sound because only one service moves); three
  runs over two days in two sets with `Daily` 2, so that a day falls out of the
  policy and one run of a day displaces another; three requests on two pipelines,
  so that a creation, a deletion and a second one of either kind overlap.
* `services` has one screen, one restore at a time and deletions that ask for
  everything; two windows of one process, or a manual run beside the scheduler's, are not in
  `backup_window`. The theorems about these modules cover any number and any choice,
  except where they assume `OneProcess` (below).
* `tenants`: two stacks are enough for one to be deleted while the other comes,
  goes or lives beside it; a third would only repeat a role.
  Three tokens (`MaxIssued`), so that two calls overlap and a third sets it right;
  `issued` at its bound refuses a fourth as a failed call does.
* `upgrade_ends` has one run because liveness is about one; a second request needs a
  second run and only delays it.
* Two run ids and two keys (`UpgradeRun`): a second request while a run is active
  and one after it has been closed; nothing in the code relates three runs.
* `CHECK_DEADLOCK FALSE` where ids are used up: keys, runs and restarts are
  finite and an instance stops when they are gone. The stack runs check deadlock.

### Fairness

* `StackDeployment`: goroutines and the reaper's ticker go on and time passes. Every
  step of the pipeline has a time limit; the reaper has a ticker of five
  minutes. A request that was sent comes to its end; users owe no request. Calls may fail
  again and again, but the database does not refuse the reaper for ever: strong
  fairness for a write of the reaper that succeeds, the only assumption about the outcome
  of a call.
* `UpgradeRun`: a goroutine takes its next step (Helm has a timeout, the
  context of a run too), time passes, and readers read: the console asks for a run
  in progress every five seconds (`closeIfStale` runs only when somebody reads). A
  stack nobody looks at keeps its active run; the next `Start` closes it.
* `BackupWindow`: calls return, iterations end, controllers follow the replicas.
* The services state no fairness: their properties are about safety.

## What is proved

TLAPS proves, for any number of actors, steps, runs and workloads:

* `StackDeployment_proofs`: `TypeCorrect`, `Completion`
  (`CompletedMeansInstalled`), `Resumption` (`ResumePointIsSound`),
  `DeletionIsFinal` (`DeletedIsFinal`). `CompletedMeansInstalled` speaks of the
  row, but the row is rewritten from copies that goroutines, requests, reapers and
  deletions took earlier. The inductive invariant `IInv` (theorem `Invariance`)
  therefore says of *every* copy, of every position of a goroutine and of
  every resume point, that the steps before it have run on the cluster
  (`Backed`, `AllBacked`); since the cluster only gains steps while the stack is
  not deleted, an old copy stays true and writing it back does no harm. Assumed of
  the constants: `N` is a number, `Selected` some of `1 .. N`, positive
  thresholds. `Completion` and `Resumption` also assume that changed configurations start over at
  the first step (`Edits` within `{0, 1}`); the run `stack_import` shows that they
  fail without. `NoLateStep` (`NoStepBeginsAfterDeletion`) and `DeletionIsFinal` need no
  such assumption.

  For a `SingleOwner` (one request at a time, one reaper, no edit, no deletion, a
  threshold longer than the beats that may be missed) also `OneInstall`
  (`OneInstallAtATime`), `FailedStopped` (`FailedMeansStopped`) and `Refinement`
  (`ImplementsLifecycle`: `Spec => Lifecycle!Spec`). Their invariant `OwnerInv` is a
  protocol between copies that no lock enforces: the copy of a live goroutine agrees
  with the row, or is one failed write ahead of it (`Agree`) and then about to report
  that; where the goroutine is says which states it may hold (`Stage`); the age of the
  row is bounded by the beats it may have missed (`Beating`), so that the reaper lists
  only what has no goroutine (`Listed`); and a request that is going to write has read
  a state in which nobody runs (`Waiting`). From the same invariant `TransitionsFollowed`
  (`FollowsTransitions`): with one owner the state column moves by `validTransitions` and
  nothing else. `stack_two_requests` shows that one owner is needed.
* `UpgradeRun_proofs`: `TypeCorrect`; `ActiveRunIsUnique` (`OneActiveRun`),
  `ClosedIsFinal` (`ClosedStaysClosed`) and `SilenceBeforeClosing`
  (`CloseNeedsSilence`) from one lemma: a step either leaves the table alone,
  inserts a run when none is active (`Inserted`), or writes one active run
  (`Written`). `FailedIsHarmless` (`FailedChangedNothing`) needs more: revisions
  of a run lie above the one it wrote down before it began (`RevisionsAbove`), a
  run shown as failed is not going to launch anything (`RestsUnlessLaunched`), and
  one that is about to report failure has made none (`FailsUnchanged`).
  `OutcomeIsTrue` (`OutcomeMatchesRelease`) is about the time between the last look at
  the release and the save of what was concluded. `OutcomeInv` says that a run which has
  concluded something finds the release as it left it (`Concluded`) and that a run
  whose goroutine lives is never silent (`BeatsKept`), so that nobody closes it and
  no other run begins to move the release. This is why beats must arrive
  (`BeatsArrive`): where the database keeps the beats of a live goroutine away for five
  minutes its run is closed, and a second one changes the release under the first.
  An edit may apply in this time a chart it took before, and then the outcome is
  false: the theorem has this one exception by name (`Displaced`, a revision of an edit
  with another chart than the revision below it), and `upgrade_edit_chart` shows that it happens.
  `RunsFollowLifecycle` (`Spec => RunLifecycle!Spec`) is the refinement of
  `UpgradeLifecycle`, without that assumption. The point of it is that a save may be
  lost three times and the row be behind its goroutine: a run in which a rollback has
  begun can conclude nothing but rolled back or manual (`StageInv`), and what is behind
  may still skip `rolling_back`, but never return from it. Assumed of the constants:
  `Nobody` is no run, there is a key.
* `BackupWindow_proofs`: `TypeCorrect`; `ReplicasAreOwn` (`OwnReplicasOrNone`),
  because a plan made inside another window contains zeros and never a number of
  its own (`PlansAreOwn`); `NoneForgotten` (`WorkloadsBack`), because a workload
  that is not as configured is reported, lost, or still ahead of a run that is
  going to give it back (`NobodyForgotten`, `WillResume`). Both hold for
  overlapping windows of any number of processes and requests. With
  `OneProcess` (one process, nothing but its scheduler) also `CopiesAreCold`
  (`ColdVolumes`) and `RotationWaits` (`NoRotationBeginsInWindow`): then one run is
  in progress at a time, and nobody but that run scales or resumes. The run
  `backup_two_replicas` shows that the condition is needed. Assumed: the scopes are
  non-empty sets of components, replicas are numbers.
* `BackupLibrary_proofs`: `LibraryTypeCorrect`, `LibraryKeepsNewer`
  (`NewerCopyRemains`), `LibraryCoversDays` (`DaysCovered`), `LibraryPlatformFirst`,
  `LibraryAllOrNothing`, for every policy and any number of processes. The
  invariant `LibraryInv` says what a list of doomed runs is worth when it is old: for
  each run on a list there is a newer one that has ended well (`GivenInv`), so that,
  from the newest downwards, every run that has ended well has a whole one that is
  not older (`CoveredInv`), and of its day as long as the day counts.
* `StackServices_proofs`, of `SharedReclaim`: `ReclaimTypeCorrect`, `ReclaimSparesUsers`
  (`UsersKeepComponents`), `ReclaimSparesSecrets` (`SecretsSurviveOthers`),
  `ReclaimLeavesNothing` (`NothingLeftBehind`), for any number of stacks, namespaces and
  organisations and every layout. `ReclaimInv` ties what a cleanup has seen to what may have
  come since; for the last of the three it also says that the list of CRDs, however
  old, has what nobody but Nullus has installed since the namespace went.

  Of `TokenRotation`: `TokenTypeCorrect`, `TokenStaysKept` (`TokenKept`), for any
  number of schedulers, requests and sources. `TokenInv` counts who is in a call:
  whoever is `alone` is the only one between revoking and storing, so the token it
  holds is the one Gitea accepts, and storing it ends what earlier calls left behind.

  Of `ImageScans`: `ScansTypeCorrect`, `ScansToldOnce` (`ToldOnce`),
  `ScansRecordedIsTold` (`RecordedIsTold`): two processes never hold the same claim
  (`ScansInv`). An outcome of `Publish` is told, unheard or unsaid, each by name.

  Of `Pipelines`: `PipesTypeCorrect`, `PipesDeletedStays`
  (`DeletedStaysDeleted`), `PipesSpareOthers` (`OthersKeepTheirs`), for any number of
  pipelines of one name. `PipesInv`: a removal is only noted while no creation or
  refresh runs and the job has gone before the images (`RemovedInQuiet`), and
  whoever was recorded when a deletion looked has no pipeline any more
  once it revokes (`RevokedAlone`).
* `LogStream_proofs`: `LogTypeCorrect`, `LogNothingMissed` (`NothingMissed`) and
  `LogOnceOnly` (`OnceOnly`), for any number of publishers, screens and lines and any
  size of the channels and of the history. A publisher remembers a line and takes the
  list of channels under one lock, but sends after it has let go, so that a line
  is for a while in memory and not yet with the screens. `LogInv` keeps account of it: a
  line of the memory that a screen has not is on its way to it from some publisher
  (`NothingMissed` is inductive with this excuse), and what a publisher has still to send
  a screen is not yet in its channel, where the replayed history stands first
  (`NotYetThere`): a screen that registers later is not among those the publisher took,
  and lines are numbered as they come (`Numbered`).
* `StackAlerts_proofs`: `AlertTypeCorrect`, `AlertNoticesPaired` (`PairedNotices`) and
  `AlertSeenNotResolved` (`SeenNotResolved`), for any number of processes and alerts and
  every grace. The notices given, together with those in the hands of a process, agree
  with the row (`NoticesAgree`): the claim and the resolution are conditional updates, so
  that only one process can take a notice, also when the session of the lock has gone. The
  lock matters for the second property only: while it is kept one process collects
  (`LockHeld`), its `now` is not older than any sighting, and a sighting
  that was read is still in the row (`WorksWithRows`, `SightingsKept`).
* `MCServices_proofs`: `ServicesRunEach`: the specification of the run `services`
  implements that of each of its seven services, a step of the others being a stutter.
  `ServicesTypeCorrect` and `ServicesAreSafe` then give all the properties of that run and of
  `tenants` for every value of the constants.

That the next target of a loop (`Min` and `Max` of the targets left) is one of them
rests on the well-foundedness of the naturals, from the prover's library.

Not provable with the tools at hand, and left to TLC: liveness (`InFlightEnds`,
`ActiveRunEnds`, `WindowCloses`), anything with ENABLED, and what a recursive
definition computes. Every safety property of a passing run is a theorem except
`EndsItsOperations`, which is left to TLC. `EditsKeepChart`, which TLC finds violated,
has no assumption on the constants that the code would justify and that would make it
true.

## Where code and comments differ

Four of the differences are runs of their own (above). The others were met while
modelling; the models follow the code.

*Stacks.* When the write of the transition to completed fails, the copy is completed
already: `handleFailure` ("transitions to Failed and attempts rollback",
`install_stack.go:809`) then stores state completed together with a failed step, its own
transition completed -> failed is refused, and the token sources are not registered. An edit
or an update writes the state and the steps it read over a transition made meanwhile:
`persistOverride` does what the comment of `SetYAMLOverride` (`postgres_stack.go:260-264`)
warns of and that method avoids. An import also takes a stack whose installation is
running to pending and starts a second goroutine beside it. The reaper writes back the copies
it has listed without looking again (`reap_stale_installs.go:52`): with the reapers of two
replicas, when the first has failed a dead installation and the user continues it, the second
writes its old copy over an installation that works and beats. The comment at
`install_stack.go:864-865` takes a stopped update time to mean that nobody installs;
`FailedMeansStopped` holds for one reaper.

*Upgrades.* `recover` takes every revision above the preflight's with the target chart
for its own (`upgrade_stack.go:454`). An edit of the values made during the health check
is such a revision and is rolled back with the run, though the comment at `:423-424`
says that only a revision this run has made is. A process that dies inside Helm leaves
its revision pending: Helm refuses every later upgrade and edit, `recover` belongs to a
goroutine that is gone, and nothing in the code takes the revision away.
`EndsItsOperations` is about runs that end by themselves.

*Backups.* A restart inside a window loses the replicas of what it had stopped: they are
in memory only until `finish` writes the manifest. `WorkloadsBack` and `WindowCloses`
leave out what only a lost run knew. A run keeps its status when retention deletes its
artifacts; the restore of its set verifies an empty list, puts nothing back and is
recorded as succeeded (`run_restore.go:132`), while `postgres_backup.go:132` says that
such a run cannot be restored. `AllOrNothing` names this case. When the last update of a
run fails its row says running for ever, and nothing closes, retains or restores it
(`run_backup.go:500`). A newer run of a day displaces an older one even when the newer
is only partial, and may be of another target. `retention.go:37` says that a failed run
has no artifacts; one that failed late has. Retention marks over all targets, so that
members of one set prune each other. A restore does not clear the namespace, which the
design document (§6.1) asks for.

*Shared resources.* The release of External Secrets is never reclaimed: nothing
marks it (`shared_cluster_resources.go:50-56`, `delete_shared_resources.go:437`);
`NothingLeftBehind` leaves it out. Deletions that overlap may leave everything when
one of them stops at the look for other stacks: `NothingLeftBehind` speaks of those
that went through. The look at External Secrets is old when the CRDs go. In a
namespace that stacks share the objects of External Secrets are deleted with `--all`
(`delete_stack.go:1804`), those of a live stack included, and the look that precedes
it counts only what is outside; a namespace with the derived name is deleted without a
look at other stacks (`:559`), and stacks of another organisation are not seen. For the
other names the look at other stacks comes at the beginning of the cleanup (`:458`): a stack
created in the namespace before its end (`:504`) loses it, which the comment at `:547` does
not expect.

*Tokens.* A rotation does not move `expires_at`, so that a rotated token is later marked
expired. A manual token stays due for ever, and the query has a LIMIT of 100 without an
order. The GitLab and GitHub reissuers are never registered; `main.go:748` says that a
provider that is not there silently drops out of the rotation, while `issueToken` makes
up a random token, which is stored in the vault and marked rotated
(`token_rotation.go:262-266`). The rows the installation writes for Gitea lack the
coordinates their reissuer asks for. Two calls for one stack may each delete the other's
token (`token_issuer.go` says so itself); one call alone sets it right. The actions only
change the status, which the scheduler does not look at (`:128-134`): "rotate" does not
bring the next check forward, and a source that was paused, which the design document on
the renewal of tokens calls suspended, is rotated at its next check. The restart after a
rotation is issued at once, while External Secrets refreshes every five minutes
(`renderer.go:19`), and is not awaited; the Secrets the code renders read other paths
than the rows name, so the model leaves the restart out and says nothing about what a
pod has loaded.

*Log.* A line stored and remembered between the look at the memory and the
registration is seen twice (`OnceOnly` excludes viewers that found no history).
After a restart and a Continue the older stored lines are not replayed once a new
one was streamed. `Send` may meet a closed channel (`memory_streamer.go:140`).

*Alerts and scans.* When the lock is lost an older collection may set
`last_seen_at` back. An older scan of one replica may replace newer results of
another. A crash between claim and telling loses the notice. `Publish` succeeds
when no channel subscribes (`dispatch.go:36-57`): the CVE is recorded as told to nobody, the
days the policy gives for its upgrade run, and no later scan tells it
(`unheard`). So does an alert: `StackAlerts` counts what was handed to the dispatcher.

*Pipelines.* A commit that fails without a source archive leaves an empty
repository that a retry does not fill. A failure of `Resolve` or `Render` after the
repository was made is not rolled back; a rollback may delete what was pushed
meanwhile, though its comment says that only the README is inside. `deleteCIJob` takes
the job of a pipeline of the same name whose credentials it keeps. A creation that
is not recorded yet may lose its credentials to a deletion, and two overlapping
deletions of siblings keep them for ever. Without the tools of its stack a deletion
reports the cluster resources as deleted though the Argo CD application remains. A
refresh writes new values to the vault but does not apply the ExternalSecret again.
Where the CI lives in the repository, builds between the deletion of the images and of
the repository make images anew; `DeletedStaysDeleted` therefore asks for the job as
well.

## Not modelled

`PROJECT.json` gives a reason per component. In short: calls into Helm,
Kubernetes, the vault, the SCM and the object store are outcomes, never their
internals; request-scoped single-row operations have nothing to interleave; the web
console, the CLI and the packaging are clients. These are most of the lines: `main.go`
and the handlers (wiring and parsing), the Helm orchestrator and the scaffold renderer
(values and templates), the monitoring handlers (queries), the catalogue. Of
the pipelines, the sync of builds and deployments, the shared project, webhooks and
pull secrets are left out. Whether a cleanup is ever finished after a restart is not
modelled: the code keeps no record of a pending cleanup. `UpgradeRun` and
`StackDeployment` both have the values editor, each as far as it concerns its own state;
they are not composed, since a release and the row of its stack share nothing else.

## Plan

1. Done: the row of a stack with its edits and imports, upgrade runs, cold backups, sets, retention and
   restore, shared resources, tokens, install log, alerts, image scans, pipelines,
   with the theorems above.
2. Next components: the sync of builds and deployments (overlapping syncs may
   write a finished deployment back to running; one whose `ApplyAsync` died with its
   process stays running), delivery of notifications, `RateLimiter`.
3. Next theorems: abstract specifications of the window of a backup and of the library,
   as `StackLifecycle` and `UpgradeLifecycle` are for stacks and runs, with their refinement.
