------------------------------- MODULE ImageScans ------------------------------
(***************************************************************************)
(* The scans of the images a stack has installed, and the notices of what  *)
(* they find (internal/stack/usecase/scan_stack_images.go).  Every API     *)
(* process scans: after an installation, on request, each day and when it  *)
(* starts.  Of the results of one stack only the CVEs that are told are    *)
(* modelled, the critical ones that have a fix; stack_cve_notices records  *)
(* those that have been.                                                   *)
(***************************************************************************)
EXTENDS Naturals

CONSTANTS
    Cve,         \* critical vulnerabilities with a fix
    Scanner,     \* API processes
    MaxScans, MaxScanFaults   \* bounds

ASSUME ScanBoundAssumption == MaxScans \in Nat /\ MaxScanFaults \in Nat

VARIABLES
    present,    \* what a scan of the images would find now
    report,     \* what stack_image_scans holds
    notices,    \* what stack_cve_notices holds
    scpc,       \* what each process does
    result,     \* what its scan has found
    known,      \* the notices it has read
    claimed,    \* those it has made itself
    toldOf,     \* how many notices a channel has had of each CVE
    unheard,    \* CVEs whose notice found no channel that subscribes to it
    unsaid,     \* CVEs whose notice a channel, or a process that died, did not give
    cut,        \* CVEs whose notice was cancelled when some channel had it
    scans, scanFaults

storeVars == <<report, notices>>
scanVars  == <<scpc, result, known, claimed>>
toldVars  == <<toldOf, unheard, unsaid, cut>>
imageVars == <<present, storeVars, scanVars, toldVars, scans, scanFaults>>

ScansInit ==
    /\ present = {} /\ report = {} /\ notices = {}
    /\ scpc = [p \in Scanner |-> "idle"] /\ result = [p \in Scanner |-> {}]
    /\ known = [p \in Scanner |-> {}] /\ claimed = [p \in Scanner |-> {}]
    /\ toldOf = [v \in Cve |-> 0] /\ unheard = {} /\ unsaid = {} /\ cut = {}
    /\ scans = 0 /\ scanFaults = 0

ScanFault   == scanFaults < MaxScanFaults /\ scanFaults' = scanFaults + 1
ScanNoFault == UNCHANGED scanFaults

SGo(p, next) == scpc' = [scpc EXCEPT ![p] = next]

(* the end of Execute, at any point; release of the stack's place          *)
Drop(p) ==
    /\ SGo(p, "idle") /\ result' = [result EXCEPT ![p] = {}]
    /\ known' = [known EXCEPT ![p] = {}] /\ claimed' = [claimed EXCEPT ![p] = {}]

(* a CVE becomes known, or an upgrade removes it                           *)
ImagesChange ==
    /\ \E v \in Cve : present' = IF v \in present THEN present \ {v} ELSE present \cup {v}
    /\ UNCHANGED <<storeVars, scanVars, toldVars, scans, scanFaults>>

-----------------------------------------------------------------------------
(* Execute: a process scans a stack once at a time                         *)

ScanImages(p) ==
    /\ scpc[p] = "idle" /\ scans < MaxScans /\ scans' = scans + 1
    /\ SGo(p, "replace") /\ result' = [result EXCEPT ![p] = present]
    /\ UNCHANGED <<present, storeVars, known, claimed, toldVars, scanFaults>>

(* ReplaceForStack, in one transaction; without it the old results stay    *)
ReplaceResults(p) ==
    /\ scpc[p] = "replace"
    /\ \/ report' = result[p] /\ SGo(p, "read") /\ ScanNoFault /\ UNCHANGED <<result, known, claimed>>
       \/ Drop(p) /\ ScanFault /\ UNCHANGED report
    /\ UNCHANGED <<present, notices, toldVars, scans>>

(* NotifiedCVEIDs, NewFixableCriticals: without it this scan tells nothing *)
ReadNotices(p) ==
    /\ scpc[p] = "read"
    /\ \/ /\ result[p] \subseteq notices /\ Drop(p) /\ ScanNoFault
       \/ /\ ~(result[p] \subseteq notices) /\ SGo(p, "claim") /\ ScanNoFault
          /\ known' = [known EXCEPT ![p] = notices] /\ UNCHANGED <<result, claimed>>
       \/ Drop(p) /\ ScanFault
    /\ UNCHANGED <<present, storeVars, toldVars, scans>>

(* wrong variant: what the process saw as new is told, whoever recorded it *)
AllFound(p) == result[p] \ known[p]

(* ClaimCVENotices: the primary key lets one process have each CVE         *)
Claimable(p) == (result[p] \ known[p]) \ notices

ClaimNotices(p) ==
    /\ scpc[p] = "claim"
    /\ \/ /\ Claimable(p) # {} /\ SGo(p, "tell") /\ ScanNoFault
          /\ notices' = notices \cup Claimable(p)
          /\ claimed' = [claimed EXCEPT ![p] = Claimable(p)] /\ UNCHANGED <<result, known>>
       \/ Claimable(p) = {} /\ Drop(p) /\ ScanNoFault /\ UNCHANGED notices
       \/ Drop(p) /\ ScanFault /\ UNCHANGED notices
    /\ UNCHANGED <<present, report, toldVars, scans>>

Told(ids) == toldOf' = [v \in Cve |-> IF v \in ids THEN toldOf[v] + 1 ELSE toldOf[v]]

(* wrong variant: a notice the shutdown cancelled is not taken back        *)
KeepClaim(p) == Drop(p) /\ UNCHANGED toldVars

(* the shutdown cancels the notice, which some channel may have had        *)
Cancelled(p) ==
    /\ SGo(p, "release") /\ UNCHANGED <<result, known, claimed, unheard, unsaid>>
    /\ \/ UNCHANGED <<toldOf, cut>>
       \/ Told(claimed[p]) /\ cut' = cut \cup claimed[p]

(* Publish; without a channel that subscribes it has nothing to do and     *)
(* succeeds; a channel that fails keeps a record of it and is not retried  *)
TellNotices(p) ==
    /\ scpc[p] = "tell"
    /\ \/ Told(claimed[p]) /\ Drop(p) /\ ScanNoFault /\ UNCHANGED <<unheard, unsaid, cut>>
       \/ /\ unheard' = unheard \cup claimed[p] /\ Drop(p) /\ ScanNoFault
          /\ UNCHANGED <<toldOf, unsaid, cut>>
       \/ /\ unsaid' = unsaid \cup claimed[p] /\ Drop(p) /\ ScanFault
          /\ UNCHANGED <<toldOf, unheard, cut>>
       \/ Cancelled(p) /\ ScanFault
    /\ UNCHANGED <<present, storeVars, scans>>

(* ReleaseCVENotices, on a context of its own                              *)
ReleaseNotices(p) ==
    /\ scpc[p] = "release" /\ Drop(p)
    /\ \/ notices' = notices \ claimed[p] /\ ScanNoFault /\ UNCHANGED unsaid
       \/ unsaid' = unsaid \cup claimed[p] /\ ScanFault /\ UNCHANGED notices
    /\ UNCHANGED <<present, report, toldOf, unheard, cut, scans>>

CrashScanner(p) ==
    /\ scpc[p] # "idle" /\ Drop(p) /\ ScanFault
    /\ unsaid' = unsaid \cup claimed[p]
    /\ UNCHANGED <<present, storeVars, toldOf, unheard, cut, scans>>

ScannerStep(p) ==
    \/ ScanImages(p) \/ ReplaceResults(p) \/ ReadNotices(p) \/ ClaimNotices(p)
    \/ TellNotices(p) \/ ReleaseNotices(p) \/ CrashScanner(p)

ScansNext == ImagesChange \/ \E p \in Scanner : ScannerStep(p)

ScansSpec == ScansInit /\ [][ScansNext]_imageVars

-----------------------------------------------------------------------------
(* Properties *)

(* Every variable holds a value of its type.                               *)
ScansTypeOK ==
    /\ present \subseteq Cve /\ report \subseteq Cve /\ notices \subseteq Cve
    /\ scpc \in [Scanner -> {"idle", "replace", "read", "claim", "tell", "release"}]
    /\ result \in [Scanner -> SUBSET Cve] /\ known \in [Scanner -> SUBSET Cve]
    /\ claimed \in [Scanner -> SUBSET Cve]
    /\ toldOf \in [Cve -> Nat] /\ unheard \subseteq Cve /\ unsaid \subseteq Cve
    /\ cut \subseteq Cve
    /\ scans \in 0 .. MaxScans /\ scanFaults \in 0 .. MaxScanFaults

(* No CVE of a stack is told twice, however many processes find it at the  *)
(* same time, unless a shutdown cancelled its notice when a channel had it *)
(* (scan_stack_images.go: two replicas that see the same result send it    *)
(* once).                                                                  *)
ToldOnce == \A v \in Cve : toldOf[v] <= 1 \/ v \in cut

(* A CVE that is recorded has been told to a channel, or is being told by  *)
(* the process that recorded it, unless no channel subscribed when it was  *)
(* sent, or a channel or a process failed: what a shutdown kept from being *)
(* said is open for the next scan.                                         *)
RecordedIsTold ==
    \A v \in notices :
        \/ toldOf[v] > 0 \/ v \in unheard \/ v \in unsaid
        \/ \E p \in Scanner : v \in claimed[p]
=============================================================================
