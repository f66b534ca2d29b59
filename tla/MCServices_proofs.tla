--------------------------- MODULE MCServices_proofs --------------------------
(***************************************************************************)
(* What is proved of each service holds of the seven together: a behaviour *)
(* of MCServices is a behaviour of every one of them, because a step of    *)
(* one leaves the variables of the others alone.                           *)
(***************************************************************************)
EXTENDS MCServices, BackupLibrary_proofs, StackServices_proofs, LogStream_proofs,
        StackAlerts_proofs

(* A step of the process is a step of each service, or leaves it as it is. *)
LEMMA ServiceSteps ==
  ASSUME [ServicesNext]_serviceVars
  PROVE  /\ [LibraryNext]_libraryVars /\ [ReclaimNext]_reclaimVars /\ [TokenNext]_tokenVars
         /\ [LogNext]_logVars /\ [AlertNext]_alertVars /\ [ScansNext]_imageVars
         /\ [PipesNext]_pipeVars
<1>1. CASE UNCHANGED serviceVars
  BY <1>1 DEF serviceVars
<1>2. CASE ServicesNext
  BY <1>2 DEF ServicesNext
<1> QED
  BY <1>1, <1>2

(* The process runs each of its services: every behaviour of the seven is  *)
(* one of each specification, in which the others take no step.            *)
THEOREM ServicesRunEach ==
    ServicesSpec => /\ LibrarySpec /\ ReclaimSpec /\ TokenSpec /\ LogSpec /\ AlertSpec
                    /\ ScansSpec /\ PipesSpec
<1>1. ServicesInit => /\ LibraryInit /\ ReclaimInit /\ TokenInit /\ LogInit /\ AlertInit
                      /\ ScansInit /\ PipesInit
  BY DEF ServicesInit
<1>2. [ServicesNext]_serviceVars =>
        /\ [LibraryNext]_libraryVars /\ [ReclaimNext]_reclaimVars /\ [TokenNext]_tokenVars
        /\ [LogNext]_logVars /\ [AlertNext]_alertVars /\ [ScansNext]_imageVars
        /\ [PipesNext]_pipeVars
  BY ServiceSteps
<1> QED
  BY <1>1, <1>2, PTL
  DEF ServicesSpec, LibrarySpec, ReclaimSpec, TokenSpec, LogSpec, AlertSpec, ScansSpec, PipesSpec

(* Whichever service moves, its variables keep their types.                *)
THEOREM ServicesTypeCorrect == ServicesSpec => []ServicesTypeOK
<1>1. /\ LibraryTypeOK /\ ReclaimTypeOK /\ TokenTypeOK /\ LogTypeOK /\ AlertTypeOK
      /\ ScansTypeOK /\ PipesTypeOK
      => ServicesTypeOK
  BY DEF ServicesTypeOK
<1> QED
  BY <1>1, ServicesRunEach, LibraryTypeCorrect, ReclaimTypeCorrect, TokenTypeCorrect,
     LogTypeCorrect, AlertTypeCorrect, ScansTypeCorrect, PipesTypeCorrect, PTL

(* The safety of each service in the process that runs them all: the days  *)
(* of the policy stay covered, restores are whole and in order, reclaims   *)
(* leave nothing and spare what others use, tokens are kept, screens miss  *)
(* nothing, notices are in pairs and given once, and the record of a CVE   *)
(* says that it was told or why not; each with the exceptions that the     *)
(* property names.                                                         *)
THEOREM ServicesAreSafe ==
    ServicesSpec =>
        /\ [](/\ DaysCovered /\ PlatformFirst /\ AllOrNothing /\ NothingLeftBehind
              /\ TokenKept /\ NothingMissed /\ OnceOnly
              /\ PairedNotices /\ SeenNotResolved /\ ToldOnce /\ RecordedIsTold
              /\ DeletedStaysDeleted)
        /\ NewerCopyRemains /\ UsersKeepComponents /\ SecretsSurviveOthers /\ OthersKeepTheirs
BY ServicesRunEach, LibraryCoversDays, LibraryPlatformFirst, LibraryAllOrNothing,
   ReclaimLeavesNothing, TokenStaysKept, LogNothingMissed, LogOnceOnly,
   AlertNoticesPaired, AlertSeenNotResolved, ScansToldOnce, ScansRecordedIsTold,
   PipesDeletedStays, LibraryKeepsNewer, ReclaimSparesUsers, ReclaimSparesSecrets,
   PipesSpareOthers, PTL
=============================================================================
