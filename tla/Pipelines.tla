------------------------------ MODULE Pipelines ------------------------------
(***************************************************************************)
(* The creation, the refresh and the deletion of the pipelines of a stack  *)
(* (create_pipeline.go, refresh_pipeline_definition.go, delete_pipeline.go *)
(* with provision_app_project.go and provision_pipeline_repository.go).    *)
(*                                                                         *)
(* Every tool finds what belongs to a pipeline by its name, and a stack    *)
(* may hold several pipelines of one name, so that they share repository,  *)
(* CI job, credentials, Argo CD application and images.  The module is     *)
(* about one name in one stack.  A request calls the tools one after the   *)
(* other and holds nothing while it does; the builds of the CI and the     *)
(* people who push go on meanwhile.  One creation or refresh and one       *)
(* deletion of a pipeline run at a time; those of different pipelines      *)
(* overlap.                                                                *)
(***************************************************************************)
EXTENDS Naturals

CONSTANTS Pipe,           \* the pipelines of that name
          CiChoices,      \* may the CI be a server of its own?
          AskedChoices,   \* what a deletion may be asked to remove
          MaxCalls,       \* bound: creations and refreshes
          MaxPipeFaults   \* bound: calls that fail, requests that are lost

Asset == {"cluster", "images", "repository"}

ASSUME PipesAssumption ==
    /\ CiChoices \subseteq BOOLEAN
    /\ AskedChoices \subseteq SUBSET Asset
    /\ MaxCalls \in Nat /\ MaxPipeFaults \in Nat

VARIABLES
    separate,    \* the CI is a server of its own (Gitea and Jenkins)
    repo,        \* the repository, and how much is in it
    job,         \* the CI server has the job
    secret,      \* the vault has the credentials
    object,      \* the cluster has their ExternalSecret
    deployed,    \* Argo CD has the application
    image,       \* the registry has images
    building,    \* a build is running
    pipe,        \* the record of each pipeline
    step,        \* where its creation or refresh is
    refresh,     \* it is a refresh
    sourced,     \* its template has a source
    created,     \* this call made the repository
    prepared,    \* this call wrote the credentials and holds their manifest
    erasing,     \* where its deletion is
    asked,       \* what the deletion is to remove
    bundled,     \* the deletion reaches the tools of the stack
    recorded,    \* history: the records there had been when it looked
    erased,      \* history: what it removed, while no creation or refresh ran
    calls,       \* creations and refreshes so far
    pipeFaults   \* failures so far

toolVars   == <<repo, job, secret, object, deployed, image, building>>
createVars == <<step, refresh, sourced, created, prepared>>
eraseVars  == <<erasing, asked, bundled, recorded>>
pipeVars   == <<separate, toolVars, pipe, createVars, eraseVars, erased, calls,
                pipeFaults>>

Repo   == {"none", "readme", "scaffold", "work"}
Step   == {"idle", "fetch", "commit", "configure", "job", "apply", "record"}
Stage  == {"idle", "job", "look", "object", "revoke", "cluster", "images",
           "repository", "row"}

PipesInit ==
    /\ separate \in CiChoices
    /\ repo = "none"
    /\ job = FALSE /\ secret = FALSE /\ object = FALSE
    /\ deployed = FALSE /\ image = FALSE /\ building = FALSE
    /\ pipe = [p \in Pipe |-> "none"]
    /\ step = [p \in Pipe |-> "idle"]
    /\ refresh = [p \in Pipe |-> FALSE]
    /\ sourced = [p \in Pipe |-> FALSE]
    /\ created = [p \in Pipe |-> FALSE]
    /\ prepared = [p \in Pipe |-> FALSE]
    /\ erasing = [p \in Pipe |-> "idle"]
    /\ asked = [p \in Pipe |-> {}]
    /\ bundled = [p \in Pipe |-> FALSE]
    /\ recorded = [p \in Pipe |-> {}]
    /\ erased = [p \in Pipe |-> {}]
    /\ calls = 0 /\ pipeFaults = 0

Fault   == pipeFaults < MaxPipeFaults /\ pipeFaults' = pipeFaults + 1
NoFault == UNCHANGED pipeFaults

(* The repository goes, and with it the CI that lives in it.               *)
DropRepo == repo' = "none" /\ building' = (building /\ separate)

-----------------------------------------------------------------------------
(* Creation and refresh                                                    *)

(* What a creation leaves alone.                                           *)
Erasures      == UNCHANGED <<separate, eraseVars>>
KeepsErasures == Erasures /\ UNCHANGED calls

Goes(p, s) == step' = [step EXCEPT ![p] = s]

(* The call is over, with or without a result.                             *)
Ends(p) ==
    /\ Goes(p, "idle")
    /\ refresh' = [refresh EXCEPT ![p] = FALSE]
    /\ created' = [created EXCEPT ![p] = FALSE]
    /\ prepared' = [prepared EXCEPT ![p] = FALSE]

(* A request begins and makes sure that there is a repository.  The source *)
(* is fetched only for one that this call has just made.                   *)
EnsureProject(p) ==
    /\ step[p] = "idle" /\ pipe[p] \in {"none", "present"}
    /\ calls < MaxCalls /\ calls' = calls + 1
    /\ refresh' = [refresh EXCEPT ![p] = pipe[p] = "present"]
    /\ \E s \in BOOLEAN :
         /\ pipe[p] = "present" => s = sourced[p]
         /\ sourced' = [sourced EXCEPT ![p] = s]
         /\ Goes(p, IF s /\ repo = "none" THEN "fetch" ELSE "commit")
    /\ created' = [created EXCEPT ![p] = repo = "none"]
    /\ repo' = IF repo = "none" THEN "readme" ELSE repo
    /\ erased' = [d \in Pipe |-> {}]
    /\ Erasures
    /\ UNCHANGED <<job, secret, object, deployed, image, building, pipe, prepared,
                   pipeFaults>>

(* A repository that could not be filled is deleted, or even that fails.   *)
RollbackNewProject(p) ==
    /\ Ends(p)
    /\ DropRepo \/ UNCHANGED <<repo, building>>

FetchSource(p) ==
    /\ step[p] = "fetch"
    /\ \/ /\ Goes(p, "commit") /\ NoFault
          /\ UNCHANGED <<repo, building, refresh, created, prepared>>
       \/ Fault /\ RollbackNewProject(p)
    /\ KeepsErasures
    /\ UNCHANGED <<job, secret, object, deployed, image, pipe, sourced, erased>>

(* The credentials and the job are only there for a CI of its own.         *)
AfterTools(p)  == IF refresh[p] THEN "record" ELSE "apply"
AfterCommit(p) == IF separate THEN "configure" ELSE AfterTools(p)

(* The scaffold is committed to a new repository; a refresh commits its    *)
(* definition to the one there is; a creation that found one writes        *)
(* nothing.  What was pushed since stays beside the files.                 *)
CommitFiles(p) ==
    /\ step[p] = "commit"
    /\ \/ /\ created[p] \/ refresh[p] => repo # "none"
          /\ Goes(p, AfterCommit(p)) /\ NoFault
          /\ repo' = IF created[p] /\ repo = "readme" THEN "scaffold" ELSE repo
          /\ UNCHANGED <<building, refresh, created, prepared>>
       \/ /\ created[p] \/ refresh[p]
          /\ Fault \/ (repo = "none" /\ NoFault)
          /\ IF created[p] /\ sourced[p]
             THEN RollbackNewProject(p)
             ELSE Ends(p) /\ UNCHANGED <<repo, building>>
    /\ KeepsErasures
    /\ UNCHANGED <<job, secret, object, deployed, image, pipe, sourced, erased>>

(* The values go to the vault one by one; the manifest only exists when    *)
(* all of them have.                                                       *)
ConfigurePipeline(p) ==
    /\ step[p] = "configure"
    /\ Goes(p, "job")
    /\ \/ /\ secret' = TRUE /\ NoFault
          /\ prepared' = [prepared EXCEPT ![p] = TRUE]
       \/ /\ secret' \in {secret, TRUE} /\ Fault
          /\ UNCHANGED prepared
    /\ KeepsErasures
    /\ UNCHANGED <<repo, job, object, deployed, image, building, pipe, refresh,
                   sourced, created, erased>>

EnsureCIJob(p) ==
    /\ step[p] = "job"
    /\ Goes(p, AfterTools(p))
    /\ (job' = TRUE /\ NoFault) \/ (UNCHANGED job /\ Fault)
    /\ KeepsErasures
    /\ UNCHANGED <<repo, secret, object, deployed, image, building, pipe, refresh,
                   sourced, created, prepared, erased>>

(* The manifests are applied in order, the application last; a failure is  *)
(* a warning.                                                              *)
ApplyArgoApplication(p) ==
    /\ step[p] = "apply"
    /\ Goes(p, "record")
    /\ \/ /\ object' = (object \/ prepared[p])
          /\ deployed' = TRUE /\ NoFault
       \/ /\ object' \in {object, object \/ prepared[p]}
          /\ UNCHANGED deployed /\ Fault
    /\ KeepsErasures
    /\ UNCHANGED <<repo, job, secret, image, building, pipe, refresh, sourced,
                   created, prepared, erased>>

(* The record is written after everything else; it keeps the source that   *)
(* was imported.                                                           *)
RecordPipeline(p) ==
    /\ step[p] = "record"
    /\ Ends(p)
    /\ IF refresh[p]
       THEN UNCHANGED <<pipe, sourced>>
       ELSE /\ pipe' = [pipe EXCEPT ![p] = "present"]
            /\ sourced' = [sourced EXCEPT ![p] = sourced[p] /\ created[p]]
    /\ KeepsErasures
    /\ UNCHANGED <<toolVars, erased, pipeFaults>>

(* The request is cancelled, its process goes, the registry is not         *)
(* resolved, the insert fails: what has been made stays.                   *)
AbandonCreate(p) ==
    /\ step[p] # "idle"
    /\ Fault
    /\ Ends(p)
    /\ KeepsErasures
    /\ UNCHANGED <<toolVars, pipe, sourced, erased>>

-----------------------------------------------------------------------------
(* Deletion                                                                *)

KeepsCreations == UNCHANGED <<separate, createVars, calls>>

Siblings(d) == {p \in Pipe \ {d} : pipe[p] = "present"}

(* The order in which a deletion visits the tools.  A wrong variant removes *)
(* the job after what it builds.                                           *)
JobAfterImages ==
    [begin |-> "look", job |-> "repository", look |-> "object", object |-> "revoke",
     revoke |-> "cluster", cluster |-> "images", images |-> "job",
     repository |-> "row"]
Following ==
    [begin |-> "job", job |-> "look", look |-> "object", object |-> "revoke",
     revoke |-> "cluster", cluster |-> "images", images |-> "repository",
     repository |-> "row"]

Moves(d, s) == erasing' = [erasing EXCEPT ![d] = s]

(* What was removed while a creation or a refresh ran may be there again.  *)
Removed(d, what) ==
    erased' = IF \A p \in Pipe : step[p] = "idle"
              THEN [erased EXCEPT ![d] = @ \cup {what}]
              ELSE erased

(* The tools of a stack that is gone cannot be reached; the deletion goes  *)
(* on without them.                                                        *)
BeginErase(d) ==
    /\ pipe[d] = "present" /\ erasing[d] = "idle"
    /\ \E a \in AskedChoices, b \in BOOLEAN :
         /\ asked' = [asked EXCEPT ![d] = a]
         /\ bundled' = [bundled EXCEPT ![d] = b]
         /\ IF b THEN NoFault ELSE Fault
    /\ Moves(d, Following.begin)
    /\ erased' = [erased EXCEPT ![d] = {}]
    /\ KeepsCreations /\ UNCHANGED <<toolVars, pipe, recorded>>

(* The job is removed without asking who else uses it, and the CI ends its *)
(* builds.  A failure is a warning.                                        *)
DeleteCIJob(d) ==
    /\ erasing[d] = "job"
    /\ Moves(d, Following.job)
    /\ IF bundled[d] /\ separate
       THEN \/ job' = FALSE /\ building' = FALSE /\ NoFault /\ Removed(d, "job")
            \/ Fault /\ UNCHANGED <<job, building, erased>>
       ELSE UNCHANGED <<job, building, erased, pipeFaults>>
    /\ KeepsCreations
    /\ UNCHANGED <<repo, secret, object, deployed, image, pipe, asked, bundled, recorded>>

(* The credentials stay when another pipeline of the name is recorded, or  *)
(* when that could not be found out.  A wrong variant does not look.       *)
InUseUnasked(d)     == FALSE
CredentialsInUse(d) == Siblings(d) # {}

LookForSiblings(d) ==
    /\ erasing[d] = "look"
    /\ recorded' = [recorded EXCEPT ![d] = {p \in Pipe : pipe[p] # "none"}]
    /\ IF bundled[d] /\ separate
       THEN \/ Moves(d, IF CredentialsInUse(d) THEN "cluster" ELSE Following.look)
               /\ NoFault
            \/ Moves(d, "cluster") /\ Fault
       ELSE Moves(d, "cluster") /\ NoFault
    /\ KeepsCreations
    /\ UNCHANGED <<toolVars, pipe, asked, bundled, erased>>

DeleteCredentialObject(d) ==
    /\ erasing[d] = "object"
    /\ Moves(d, Following.object)
    /\ (object' = FALSE /\ NoFault) \/ (UNCHANGED object /\ Fault)
    /\ KeepsCreations
    /\ UNCHANGED <<repo, job, secret, deployed, image, building, pipe, asked, bundled,
                   recorded, erased>>

Revoke(d) ==
    /\ erasing[d] = "revoke"
    /\ Moves(d, Following.revoke)
    /\ (secret' = FALSE /\ NoFault) \/ (UNCHANGED secret /\ Fault)
    /\ KeepsCreations
    /\ UNCHANGED <<repo, job, object, deployed, image, building, pipe, asked, bundled,
                   recorded, erased>>

Reaches(d, asset) == asset \in asked[d] /\ bundled[d]

(* Without the tools only the workloads go, and the application stays.     *)
DeleteClusterResources(d) ==
    /\ erasing[d] = "cluster"
    /\ Moves(d, Following.cluster)
    /\ deployed' = (deployed /\ ~Reaches(d, "cluster"))
    /\ recorded' = [recorded EXCEPT ![d] = {}]
    /\ KeepsCreations
    /\ UNCHANGED <<repo, job, secret, object, image, building, pipe, asked, bundled,
                   erased, pipeFaults>>

(* A registry that cannot delete is a warning.                             *)
DeleteImages(d) ==
    /\ erasing[d] = "images"
    /\ Moves(d, Following.images)
    /\ \/ Reaches(d, "images") /\ image' = FALSE /\ Removed(d, "images")
       \/ UNCHANGED <<image, erased>>
    /\ KeepsCreations
    /\ UNCHANGED <<repo, job, secret, object, deployed, building, pipe, asked, bundled,
                   recorded, pipeFaults>>

DeleteRepository(d) ==
    /\ erasing[d] = "repository"
    /\ Moves(d, Following.repository)
    /\ IF Reaches(d, "repository")
       THEN DropRepo
       ELSE UNCHANGED <<repo, building>>
    /\ KeepsCreations
    /\ UNCHANGED <<job, secret, object, deployed, image, pipe, asked, bundled, recorded,
                   erased, pipeFaults>>

(* The deletion is over; a repeated one starts afresh.                     *)
Leaves(d) ==
    /\ Moves(d, "idle")
    /\ asked' = [asked EXCEPT ![d] = {}]
    /\ bundled' = [bundled EXCEPT ![d] = FALSE]
    /\ recorded' = [recorded EXCEPT ![d] = {}]

DeletePipelineRow(d) ==
    /\ erasing[d] = "row"
    /\ Leaves(d)
    /\ pipe' = [pipe EXCEPT ![d] = "gone"]
    /\ KeepsCreations /\ UNCHANGED <<toolVars, erased, pipeFaults>>

(* A tool refuses, the request is cancelled or its process goes: the       *)
(* record stays, so that the deletion can be asked for again.              *)
AbandonErase(d) ==
    /\ erasing[d] # "idle"
    /\ Fault
    /\ Leaves(d)
    /\ KeepsCreations /\ UNCHANGED <<toolVars, pipe, erased>>

-----------------------------------------------------------------------------
(* What goes on in the tools                                               *)

KeepsRequests ==
    UNCHANGED <<separate, job, secret, object, deployed, pipe, createVars, eraseVars,
                erased, calls, pipeFaults>>

(* A build needs a definition in the repository and, on a CI of its own,   *)
(* the job and the credentials in the cluster.                             *)
StartBuild ==
    /\ ~building /\ repo \in {"scaffold", "work"}
    /\ separate => job /\ object
    /\ building' = TRUE
    /\ KeepsRequests /\ UNCHANGED <<repo, image>>

PushImage ==
    /\ building /\ image' = TRUE
    /\ KeepsRequests /\ UNCHANGED <<repo, building>>

(* A build ends: it commits the tag of its image, or fails.                *)
EndBuild ==
    /\ building /\ building' = FALSE
    /\ (image /\ repo # "none" /\ repo' = "work") \/ UNCHANGED repo
    /\ KeepsRequests /\ UNCHANGED image

PushCode ==
    /\ repo # "none" /\ repo' = "work"
    /\ KeepsRequests /\ UNCHANGED <<building, image>>

PipesNext ==
    \/ \E p \in Pipe :
         \/ EnsureProject(p) \/ FetchSource(p) \/ CommitFiles(p) \/ ConfigurePipeline(p)
         \/ EnsureCIJob(p) \/ ApplyArgoApplication(p) \/ RecordPipeline(p)
         \/ AbandonCreate(p)
    \/ \E d \in Pipe :
         \/ BeginErase(d) \/ DeleteCIJob(d) \/ LookForSiblings(d)
         \/ DeleteCredentialObject(d) \/ Revoke(d) \/ DeleteClusterResources(d)
         \/ DeleteImages(d) \/ DeleteRepository(d) \/ DeletePipelineRow(d)
         \/ AbandonErase(d)
    \/ StartBuild \/ PushImage \/ EndBuild \/ PushCode

PipesSpec == PipesInit /\ [][PipesNext]_pipeVars

-----------------------------------------------------------------------------
(* Every variable holds a value of its type.                               *)
PipesTypeOK ==
    /\ separate \in BOOLEAN
    /\ repo \in Repo
    /\ job \in BOOLEAN /\ secret \in BOOLEAN /\ object \in BOOLEAN
    /\ deployed \in BOOLEAN /\ image \in BOOLEAN /\ building \in BOOLEAN
    /\ pipe \in [Pipe -> {"none", "present", "gone"}]
    /\ step \in [Pipe -> Step]
    /\ refresh \in [Pipe -> BOOLEAN]
    /\ sourced \in [Pipe -> BOOLEAN]
    /\ created \in [Pipe -> BOOLEAN]
    /\ prepared \in [Pipe -> BOOLEAN]
    /\ erasing \in [Pipe -> Stage]
    /\ asked \in [Pipe -> SUBSET Asset]
    /\ bundled \in [Pipe -> BOOLEAN]
    /\ recorded \in [Pipe -> SUBSET Pipe]
    /\ erased \in [Pipe -> SUBSET {"job", "images"}]
    /\ calls \in Nat /\ pipeFaults \in Nat

(* Credentials are revoked only for a pipeline that nobody shares them     *)
(* with: whoever else is recorded by then came after the deletion had      *)
(* looked (revokeCICredentials, delete_pipeline.go:250-255).  And what was *)
(* pushed is lost only to a deletion that was asked for the repository, or *)
(* to the rollback of the call that had made it.                           *)
OthersKeepTheirs ==
    [][ /\ (secret /\ ~secret') \/ (object /\ ~object') =>
             \E d \in Pipe :
               /\ erasing[d] \in {"object", "revoke"} /\ erasing'[d] # erasing[d]
               /\ Siblings(d) \cap recorded[d] = {}
        /\ repo = "work" /\ repo' # "work" =>
             \/ \E d \in Pipe : erasing[d] = "repository" /\ "repository" \in asked[d]
             \/ \E p \in Pipe : step[p] \in {"fetch", "commit"} /\ created[p] /\ sourced[p]
      ]_pipeVars

(* The images that a deletion has removed do not come back unless a        *)
(* pipeline of the name is created or refreshed: once it has removed the   *)
(* job as well no build is left that would push one                        *)
(* (delete_pipeline.go:159-163 gives that as the reason for its order).    *)
DeletedStaysDeleted ==
    \A d \in Pipe : erased[d] = {"job", "images"} => ~image
=============================================================================
