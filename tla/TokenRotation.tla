---------------------------- MODULE TokenRotation ----------------------------
(***************************************************************************)
(* The rotation of the tokens a stack's tools use                          *)
(* (internal/admin/scheduler/token_rotation.go, internal/admin/rotation    *)
(* and, for Gitea, internal/cicd/adapter/gitea/token_issuer.go).  Every    *)
(* API process runs a scheduler over the rows of token_sources, and every  *)
(* request for a pipeline makes sure of the Gitea token of its stack: both *)
(* issue it anew by deleting the token of its name, generating another and *)
(* storing it in the vault of the stack.  Nothing keeps two of them apart. *)
(*                                                                         *)
(* A source is one of four: a row of the one provider that has a reissuer  *)
(* ("gitea"), one of that provider without the coordinates of its stack    *)
(* ("bare", as the installation writes them), one that has no reissuer     *)
(* ("plain") and one a person has to rotate ("manual").  Tokens of Gitea   *)
(* are numbered as they are issued.  The restart of the workloads after a  *)
(* rotation reads nothing the rotation wrote and is left out.              *)
(***************************************************************************)
EXTENDS Integers

CONSTANTS
    Source,          \* rows of token_sources
    SourceTypes,     \* the types they may have
    Rotator,         \* API processes
    Provisioner,     \* requests for a pipeline
    NoCaller,
    MaxIssued, MaxTokenFaults   \* bounds

Caller    == Rotator \cup Provisioner
Installed == 0                      \* the credential the installation left
NoToken   == -1
Random    == -2                     \* what randomToken makes up
Token     == 1 .. MaxIssued
Held      == Token \cup {NoToken, Random}
Type      == {"gitea", "bare", "plain", "manual"}
Status    == {"open", "failed_manual"}   \* "open" is any but the one the scheduler looks for
Actions   == {"rotate", "approve", "pause", "resume", "re-auth"}

ASSUME TypeAssumption       == SourceTypes \subseteq Type
ASSUME CallerAssumption     == Rotator \cap Provisioner = {} /\ NoCaller \notin Caller
ASSUME TokenBoundAssumption == MaxIssued \in Nat /\ MaxTokenFaults \in Nat

VARIABLES
    type,        \* provider, token_type, requires_approval and metadata of the row
    vault,       \* what the vault holds at the path of the row
    stackVault,  \* the token of Gitea in the vault of the stack
    honoured,    \* the token of that name Gitea accepts
    issued,      \* the last number given out
    tstatus,     \* token_sources.status
    due,         \* next_check_at has come
    outdated,    \* expires_at has passed
    tpc,         \* where each process, or request, is
    listed,      \* the rows the iteration has still to look at, with their status
    src,         \* the one it works on
    held,        \* the token it has in memory
    forced,      \* requests that have asked for a new token
    alone,       \* who issues the token with nobody else about
    astray,      \* a token, or the process that had it, was lost, or two overlapped
    tokenFaults

sourceVars == <<type, vault, stackVault, honoured, issued, tstatus, due, outdated>>
callVars   == <<tpc, listed, src, held, forced>>
tokenGhost == <<alone, astray>>
tokenVars  == <<sourceVars, callVars, tokenGhost, tokenFaults>>

TokenInit ==
    /\ type \in [Source -> SourceTypes]
    /\ vault = [x \in Source |-> Installed] /\ stackVault = [x \in Source |-> NoToken]
    /\ honoured = [x \in Source |-> NoToken] /\ issued = [x \in Source |-> 0]
    /\ tstatus = [x \in Source |-> "open"] /\ due = [x \in Source |-> TRUE]
    /\ outdated = [x \in Source |-> FALSE]
    /\ tpc = [p \in Caller |-> "idle"] /\ listed = [p \in Caller |-> {}]
    /\ src \in [Caller -> Source] /\ \A p, q \in Caller : src[p] = src[q]
    /\ held = [p \in Caller |-> NoToken] /\ forced = {}
    /\ alone = [x \in Source |-> NoCaller] /\ astray = [x \in Source |-> FALSE]
    /\ tokenFaults = 0

TokenFault   == tokenFaults < MaxTokenFaults /\ tokenFaults' = tokenFaults + 1
TokenNoFault == UNCHANGED tokenFaults

TGo(p, next) == tpc' = [tpc EXCEPT ![p] = next]
Hold(p, token) == held' = [held EXCEPT ![p] = token]
Mark(x, status) == tstatus' = [tstatus EXCEPT ![x] = status] /\ due' = [due EXCEPT ![x] = FALSE]

-----------------------------------------------------------------------------
(* time, and the administrator                                             *)

CheckComes(x) ==
    /\ ~due[x] /\ due' = [due EXCEPT ![x] = TRUE]
    /\ UNCHANGED <<type, vault, stackVault, honoured, issued, tstatus, outdated, callVars,
                   tokenGhost, tokenFaults>>

Outdates(x) ==
    /\ ~outdated[x] /\ outdated' = [outdated EXCEPT ![x] = TRUE]
    /\ UNCHANGED <<type, vault, stackVault, honoured, issued, tstatus, due, callVars,
                   tokenGhost, tokenFaults>>

(* mapActionToStatus *)
StatusAfter(action) == IF action = "pause" THEN "failed_manual" ELSE "open"

(* ApplyAction: only the status changes                                    *)
ApplyAction(x) ==
    /\ \E action \in Actions : tstatus' = [tstatus EXCEPT ![x] = StatusAfter(action)]
    /\ UNCHANGED <<type, vault, stackVault, honoured, issued, due, outdated, callVars,
                   tokenGhost, tokenFaults>>

-----------------------------------------------------------------------------
(* TokenIssuer.EnsureToken, once it issues                                 *)

InCall(p)  == tpc[p] \in {"revoke", "generate", "store"}
Calls(x)   == {p \in Caller : src[p] = x /\ InCall(p)}
EndAlone(p) == alone' = [alone EXCEPT ![src[p]] = IF @ = p THEN NoCaller ELSE @]

BeginCall(p, x) ==
    /\ src' = [src EXCEPT ![p] = x] /\ TGo(p, "revoke")
    /\ alone' = [alone EXCEPT ![x] = IF Calls(x) = {} THEN p ELSE NoCaller]
    /\ astray' = [astray EXCEPT ![x] = @ \/ Calls(x) # {}]

(* an error, which the rotation marks and the request reports              *)
FailCall(p) ==
    /\ TGo(p, IF p \in Rotator THEN "failed" ELSE "idle") /\ Hold(p, NoToken)
    /\ forced' = forced \ {p} /\ EndAlone(p)

Stray(x) == astray' = [astray EXCEPT ![x] = @ \/ honoured'[x] # stackVault[x]]

(* bestEffortRevokeToken, skipped without the password of the              *)
(* administrator and carried on from whatever it says                      *)
RevokeNamed(p) ==
    LET x == src[p]
    IN  /\ tpc[p] = "revoke"
        /\ \/ /\ honoured' = [honoured EXCEPT ![x] = NoToken] /\ TGo(p, "generate")
              /\ TokenNoFault /\ UNCHANGED <<held, forced, tokenGhost>>
           \/ /\ TGo(p, "generate") /\ TokenFault
              /\ UNCHANGED <<honoured, held, forced, tokenGhost>>
           \/ FailCall(p) /\ TokenFault /\ UNCHANGED <<honoured, astray>>    \* no pod
        /\ UNCHANGED <<type, vault, stackVault, issued, tstatus, due, outdated, listed, src>>

(* wrong variant: output without a token is taken for one                  *)
TakeEmpty(p) == TGo(p, "store") /\ Hold(p, NoToken)

TakeOutput(p) == TGo(p, "store") /\ Hold(p, issued[src[p]] + 1)

(* gitea admin user generate-access-token, which refuses a name that is    *)
(* taken; its answer may be lost                                           *)
Generate(p) ==
    LET x     == src[p]
        fresh == /\ honoured[x] = NoToken /\ issued[x] < MaxIssued
                 /\ issued' = [issued EXCEPT ![x] = @ + 1]
                 /\ honoured' = [honoured EXCEPT ![x] = issued[x] + 1]
    IN  /\ tpc[p] = "generate"
        /\ \/ fresh /\ TakeOutput(p) /\ TokenNoFault /\ UNCHANGED <<forced, tokenGhost>>
           \/ fresh /\ FailCall(p) /\ Stray(x) /\ TokenFault
           \/ /\ honoured[x] # NoToken /\ FailCall(p) /\ TokenNoFault
              /\ UNCHANGED <<issued, honoured, astray>>
           \/ FailCall(p) /\ UNCHANGED <<issued, honoured>> /\ Stray(x) /\ TokenFault
        /\ UNCHANGED <<type, vault, stackVault, tstatus, due, outdated, listed, src>>

(* wrong variant: the token is handed over without being stored            *)
HandOver(p) == UNCHANGED stackVault

StoreInStack(p) == stackVault' = [stackVault EXCEPT ![src[p]] = held[p]]

(* PutTokenForStack; whoever issued alone has set things right             *)
StoreToken(p) ==
    LET x == src[p]
    IN  /\ tpc[p] = "store"
        /\ \/ /\ StoreInStack(p) /\ EndAlone(p) /\ TokenNoFault
              /\ astray' = [astray EXCEPT ![x] = @ /\ alone[x] # p]
              /\ TGo(p, IF p \in Rotator THEN "put" ELSE "ping") /\ UNCHANGED <<held, forced>>
           \/ /\ FailCall(p) /\ TokenFault /\ UNCHANGED stackVault
              /\ astray' = [astray EXCEPT ![x] = TRUE]
        /\ UNCHANGED <<type, vault, honoured, issued, tstatus, due, outdated, listed, src>>

-----------------------------------------------------------------------------
(* authenticatedGiteaClient                                                *)

(* EnsureToken; a token that cannot be read is issued anew                 *)
CreatePipeline(p) ==
    \E x \in Source :
        /\ p \in Provisioner /\ tpc[p] = "idle" /\ type[x] \in {"gitea", "bare"}
        /\ \/ /\ stackVault[x] # NoToken /\ TGo(p, "ping") /\ Hold(p, stackVault[x])
              /\ src' = [src EXCEPT ![p] = x] /\ TokenNoFault /\ UNCHANGED tokenGhost
           \/ stackVault[x] = NoToken /\ BeginCall(p, x) /\ TokenNoFault /\ UNCHANGED held
           \/ stackVault[x] # NoToken /\ BeginCall(p, x) /\ TokenFault /\ UNCHANGED held
        /\ UNCHANGED <<sourceVars, listed, forced>>

(* Ping: a token that is not accepted is issued anew, once                 *)
Ping(p) ==
    /\ tpc[p] = "ping"
    /\ \/ /\ held[p] = honoured[src[p]] /\ TGo(p, "idle") /\ forced' = forced \ {p}
          /\ TokenNoFault /\ UNCHANGED <<src, tokenGhost>>
       \/ /\ (held[p] # honoured[src[p]] /\ TokenNoFault) \/ TokenFault
          /\ \/ p \notin forced /\ forced' = forced \cup {p} /\ BeginCall(p, src[p])
             \/ /\ p \in forced /\ forced' = forced \ {p} /\ TGo(p, "idle")
                /\ UNCHANGED <<src, tokenGhost>>
    /\ Hold(p, NoToken) /\ UNCHANGED <<sourceVars, listed>>

-----------------------------------------------------------------------------
(* runIteration; inFlight keeps a process to one of them                   *)

ListDue(p) ==
    /\ p \in Rotator /\ tpc[p] = "idle" /\ \E x \in Source : due[x]
    /\ listed' = [listed EXCEPT ![p] = {<<x, tstatus[x]>> : x \in {y \in Source : due[y]}}]
    /\ TGo(p, "next")
    /\ UNCHANGED <<sourceVars, src, held, forced, tokenGhost, tokenFaults>>

(* rotateOne and issueToken: the reissuer is asked for a new token, whose  *)
(* coordinates come from the row; where there is none a random one will do *)
RotateOne(p, x) ==
    \/ type[x] = "gitea" /\ BeginCall(p, x) /\ UNCHANGED held
    \/ /\ type[x] = "bare" /\ src' = [src EXCEPT ![p] = x] /\ TGo(p, "failed")
       /\ UNCHANGED <<held, tokenGhost>>
    \/ /\ type[x] = "plain" /\ src' = [src EXCEPT ![p] = x] /\ TGo(p, "put")
       /\ Hold(p, Random) /\ UNCHANGED tokenGhost

(* the next row: markExpired, markApprovalRequired or rotateOne            *)
TakeSource(p) ==
    \E x \in Source, was \in Status :
        /\ tpc[p] = "next" /\ <<x, was>> \in listed[p]
        /\ listed' = [listed EXCEPT ![p] = @ \ {<<x, was>>}]
        /\ \/ /\ outdated[x] /\ UNCHANGED <<tpc, src, held, tokenGhost>>
              /\ \/ Mark(x, "open") /\ TokenNoFault
                 \/ TokenFault /\ UNCHANGED <<tstatus, due>>
           \/ /\ ~outdated[x] /\ type[x] = "manual" /\ UNCHANGED <<tpc, src, held, tokenGhost>>
              /\ \/ was # "failed_manual" /\ Mark(x, "failed_manual") /\ TokenNoFault
                 \/ was # "failed_manual" /\ TokenFault /\ UNCHANGED <<tstatus, due>>
                 \/ was = "failed_manual" /\ TokenNoFault /\ UNCHANGED <<tstatus, due>>
           \/ ~outdated[x] /\ RotateOne(p, x) /\ TokenNoFault /\ UNCHANGED <<tstatus, due>>
        /\ UNCHANGED <<type, vault, stackVault, honoured, issued, outdated, forced>>

EndRound(p) ==
    /\ tpc[p] = "next" /\ listed[p] = {} /\ TGo(p, "idle") /\ Hold(p, NoToken)
    /\ UNCHANGED <<sourceVars, listed, src, forced, tokenGhost, tokenFaults>>

(* PutToken, at the path of the row                                        *)
PutToken(p) ==
    /\ tpc[p] = "put"
    /\ \/ vault' = [vault EXCEPT ![src[p]] = held[p]] /\ TGo(p, "record") /\ TokenNoFault
       \/ TokenFault /\ TGo(p, "failed") /\ UNCHANGED vault
    /\ UNCHANGED <<type, stackVault, honoured, issued, tstatus, due, outdated, listed, src,
                   held, forced, tokenGhost>>

RecordRotation(p) ==
    /\ tpc[p] = "record"
    /\ \/ Mark(src[p], "open") /\ TGo(p, "event") /\ TokenNoFault
       \/ TokenFault /\ TGo(p, "failed") /\ UNCHANGED <<tstatus, due>>
    /\ UNCHANGED <<type, vault, stackVault, honoured, issued, outdated, listed, src, held,
                   forced, tokenGhost>>

(* the event of the rotation, without which it counts as failed            *)
RecordEvent(p) ==
    /\ tpc[p] = "event"
    /\ \/ TGo(p, "next") /\ TokenNoFault
       \/ TGo(p, "failed") /\ TokenFault
    /\ UNCHANGED <<sourceVars, listed, src, held, forced, tokenGhost>>

(* failed_manual, to be tried again in a minute or later                   *)
FailRotation(p) ==
    /\ tpc[p] = "failed" /\ TGo(p, "next")
    /\ \/ Mark(src[p], "failed_manual") /\ TokenNoFault
       \/ TokenFault /\ UNCHANGED <<tstatus, due>>
    /\ UNCHANGED <<type, vault, stackVault, honoured, issued, outdated, listed, src, held,
                   forced, tokenGhost>>

RestartCaller(p) ==
    /\ tpc[p] # "idle" /\ TokenFault /\ TGo(p, "idle") /\ Hold(p, NoToken)
    /\ listed' = [listed EXCEPT ![p] = {}] /\ forced' = forced \ {p} /\ EndAlone(p)
    /\ astray' = [astray EXCEPT ![src[p]] =
                    @ \/ (InCall(p) /\ honoured[src[p]] # stackVault[src[p]])]
    /\ UNCHANGED <<sourceVars, src>>

CallerStep(p) ==
    \/ ListDue(p) \/ TakeSource(p) \/ EndRound(p) \/ PutToken(p) \/ RecordRotation(p)
    \/ RecordEvent(p) \/ FailRotation(p) \/ CreatePipeline(p) \/ Ping(p)
    \/ RevokeNamed(p) \/ Generate(p) \/ StoreToken(p) \/ RestartCaller(p)

TokenNext ==
    \/ \E p \in Caller : CallerStep(p)
    \/ \E x \in Source : CheckComes(x) \/ Outdates(x) \/ ApplyAction(x)

TokenSpec == TokenInit /\ [][TokenNext]_tokenVars

-----------------------------------------------------------------------------
(* Properties *)

(* Every variable holds a value of its type, and nobody is about to store  *)
(* the lack of a token.                                                    *)
TokenTypeOK ==
    /\ type \in [Source -> SourceTypes] /\ vault \in [Source -> Held \cup {Installed}]
    /\ stackVault \in [Source -> Token \cup {NoToken}]
    /\ honoured \in [Source -> Token \cup {NoToken}] /\ issued \in [Source -> 0 .. MaxIssued]
    /\ tstatus \in [Source -> Status] /\ due \in [Source -> BOOLEAN]
    /\ outdated \in [Source -> BOOLEAN]
    /\ tpc \in [Caller -> {"idle", "next", "revoke", "generate", "store", "put", "record",
                           "event", "failed", "ping"}]
    /\ listed \in [Caller -> SUBSET (Source \X Status)] /\ src \in [Caller -> Source]
    /\ held \in [Caller -> Held] /\ forced \subseteq Provisioner
    /\ \A p \in Caller : /\ tpc[p] = "store" => held[p] \in Token
                         /\ tpc[p] = "put" => held[p] # NoToken
    /\ alone \in [Source -> Caller \cup {NoCaller}] /\ astray \in [Source -> BOOLEAN]
    /\ tokenFaults \in 0 .. MaxTokenFaults

(* The token Gitea accepts is the one in the vault of the stack, or        *)
(* somebody is just issuing another, unless a token or its process was     *)
(* lost, or two calls overlapped, and nobody has issued one alone since:   *)
(* an undisturbed call sets right whatever those left behind               *)
(* (token_issuer.go: concurrent requests can invalidate each other's       *)
(* tokens).                                                                *)
TokenKept ==
    \A x \in Source :
        \/ stackVault[x] = honoured[x] \/ astray[x]
        \/ \E p \in Calls(x) : tpc[p] \in {"generate", "store"}
=============================================================================
