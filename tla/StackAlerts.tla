------------------------------ MODULE StackAlerts ------------------------------
(***************************************************************************)
(* How an alert of one stack becomes notices (internal/observability:      *)
(* collect_stack_alerts.go and postgres_stack_alert.go).  Every API        *)
(* process collects each minute; an advisory lock lets one of them do so   *)
(* at a time, but a session lock goes with its connection while the        *)
(* process goes on.  One stack and one fingerprint are modelled: rows of   *)
(* others do not touch them.  The processes have the same time.            *)
(***************************************************************************)
EXTENDS Integers, Sequences, FiniteSets

CONSTANTS
    Collector,      \* API processes
    Grace, Repeat,  \* DefaultResolveGrace, DefaultAlertRepeatInterval
    MaxClock, MaxRows, MaxAlertFaults   \* bounds

Nobody == "nobody"
Never  == 0
Notice == {"fired", "repeated", "resolved"} \X (1 .. MaxRows)

ASSUME CollectorAssumption  == Nobody \notin Collector
ASSUME AlertTimeAssumption  == Grace \in Nat /\ Repeat \in Nat \ {0}
ASSUME AlertBoundAssumption ==
    MaxClock \in Nat \ {0} /\ MaxRows \in Nat /\ MaxAlertFaults \in Nat

VARIABLES
    clock,
    monitored,  \* the stack is on the list
    rows,       \* its stack_alerts: last_seen_at, last_notified_at, how it was closed
    lock,       \* who holds the advisory lock
    apc,        \* what each process does
    began,      \* cycleStart
    now,        \* its time when it had the answer
    answer,     \* what Alertmanager said
    upserted,   \* the row it has written, 0 if it could not
    found,      \* the open row it has read, with its last_notified_at
    outbox,     \* the notices it will publish
    told,       \* how often each notice has been published
    lastSaw,    \* when a collection last saw the alert of each row
    unlocked,   \* the lock was lost while a process collected
    muted,      \* rows a notice of which was lost
    alertFaults

tableVars   == <<rows, lock>>
collectVars == <<apc, began, now, answer, upserted, found, outbox>>
noticeVars  == <<told, lastSaw, unlocked, muted>>
alertVars   == <<clock, monitored, tableVars, collectVars, noticeVars, alertFaults>>

NoFind == [id |-> 0, notified |-> Never]

AlertInit ==
    /\ clock = 1 /\ monitored = TRUE /\ rows = <<>> /\ lock = Nobody
    /\ apc = [c \in Collector |-> "idle"] /\ began = [c \in Collector |-> Never]
    /\ now = [c \in Collector |-> Never] /\ answer = [c \in Collector |-> "none"]
    /\ upserted = [c \in Collector |-> 0] /\ found = [c \in Collector |-> NoFind]
    /\ outbox = [c \in Collector |-> {}]
    /\ told = [e \in Notice |-> 0] /\ lastSaw = <<>> /\ unlocked = FALSE /\ muted = {}
    /\ alertFaults = 0

AlertFault   == alertFaults < MaxAlertFaults /\ alertFaults' = alertFaults + 1
AlertNoFault == UNCHANGED alertFaults

AGo(c, next) == apc' = [apc EXCEPT ![c] = next]

Open(id) == id \in DOMAIN rows /\ rows[id].closed = "open"
OpenRows == {id \in DOMAIN rows : Open(id)}

(* the process is idle again, and forgets what it knew                     *)
Forget(c) ==
    /\ AGo(c, "idle") /\ began' = [began EXCEPT ![c] = Never]
    /\ now' = [now EXCEPT ![c] = Never] /\ answer' = [answer EXCEPT ![c] = "none"]
    /\ upserted' = [upserted EXCEPT ![c] = 0] /\ found' = [found EXCEPT ![c] = NoFind]
    /\ outbox' = [outbox EXCEPT ![c] = {}]
    /\ lock' = IF lock = c THEN Nobody ELSE lock

-----------------------------------------------------------------------------
(* the world *)

Tick ==
    /\ clock < MaxClock /\ clock' = clock + 1
    /\ UNCHANGED <<monitored, tableVars, collectVars, noticeVars, alertFaults>>

(* the stack is deleted, or its monitoring is switched                     *)
SwitchMonitoring ==
    /\ monitored' = ~monitored
    /\ UNCHANGED <<clock, tableVars, collectVars, noticeVars, alertFaults>>

(* the connection that holds the lock is lost                              *)
LoseLock ==
    /\ lock # Nobody /\ lock' = Nobody /\ unlocked' = TRUE /\ AlertFault
    /\ UNCHANGED <<clock, monitored, rows, collectVars, told, lastSaw, muted>>

-----------------------------------------------------------------------------
(* Run *)

(* TryAcquire, and the list of stacks: without this one only what is left  *)
(* of it is closed                                                         *)
BeginCollect(c) ==
    /\ apc[c] = "idle" /\ lock = Nobody /\ lock' = c
    /\ began' = [began EXCEPT ![c] = clock]
    /\ AGo(c, IF monitored THEN "fetch" ELSE "close")
    /\ UNCHANGED <<clock, monitored, rows, now, answer, upserted, found, outbox, noticeVars,
                   alertFaults>>

(* ActiveAlerts; a stack that cannot be reached is left as it is.  The     *)
(* filter keeps what is critical; Alertmanager has nothing to say for a    *)
(* while after a restart of its own                                        *)
Fetch(c) ==
    /\ apc[c] = "fetch" /\ now' = [now EXCEPT ![c] = clock]
    /\ \/ /\ \E a \in {"active", "suppressed", "none"} :
               /\ answer' = [answer EXCEPT ![c] = a]
               /\ AGo(c, IF a = "none" THEN "open" ELSE "upsert")
          /\ AlertNoFault
       \/ AlertFault /\ AGo(c, "publish") /\ UNCHANGED answer
    /\ UNCHANGED <<clock, monitored, tableVars, began, upserted, found, outbox, noticeVars>>

(* Upsert: a stack has one open row for a fingerprint                      *)
Upsert(c) ==
    LET id == IF OpenRows = {} THEN Len(rows) + 1 ELSE CHOOSE i \in OpenRows : TRUE
    IN  /\ apc[c] = "upsert"
        /\ \/ /\ id <= MaxRows /\ AlertNoFault
              /\ rows' = IF OpenRows = {}
                         THEN Append(rows, [seen |-> now[c], notified |-> Never, closed |-> "open",
                                            at |-> Never])
                         ELSE [rows EXCEPT ![id].seen = now[c]]
              /\ lastSaw' = IF OpenRows = {} THEN Append(lastSaw, now[c])
                            ELSE [lastSaw EXCEPT ![id] = IF @ < now[c] THEN now[c] ELSE @]
              /\ upserted' = [upserted EXCEPT ![c] = id]
              /\ AGo(c, IF answer[c] = "active" THEN "claim" ELSE "publish")
           \/ AlertFault /\ AGo(c, "publish") /\ UNCHANGED <<rows, lastSaw, upserted>>
        /\ answer' = [answer EXCEPT ![c] = "none"]
        /\ UNCHANGED <<clock, monitored, lock, began, now, found, outbox, told, unlocked, muted>>

Due(id, t) == rows[id].notified = Never \/ rows[id].notified <= t - Repeat

(* ClaimNotification, which reads and writes under the lock of the row     *)
Claim(c) ==
    LET id == upserted[c]
        kind == IF rows[id].notified = Never THEN "fired" ELSE "repeated"
    IN  /\ apc[c] = "claim" /\ AGo(c, "publish") /\ upserted' = [upserted EXCEPT ![c] = 0]
        /\ \/ /\ Open(id) /\ Due(id, now[c]) /\ AlertNoFault
              /\ rows' = [rows EXCEPT ![id].notified = now[c]]
              /\ outbox' = [outbox EXCEPT ![c] = @ \cup {<<kind, id>>}]
           \/ ~(Open(id) /\ Due(id, now[c])) /\ AlertNoFault /\ UNCHANGED <<rows, outbox>>
           \/ AlertFault /\ UNCHANGED <<rows, outbox>>
        /\ UNCHANGED <<clock, monitored, lock, began, now, answer, found, noticeVars>>

(* ListOpen, for an alert that is no longer there                          *)
ListOpen(c) ==
    /\ apc[c] = "open"
    /\ \/ /\ OpenRows # {} /\ AGo(c, "resolve") /\ AlertNoFault
          /\ \E id \in OpenRows :
                found' = [found EXCEPT ![c] = [id |-> id, notified |-> rows[id].notified]]
       \/ OpenRows = {} /\ AGo(c, "publish") /\ AlertNoFault /\ UNCHANGED found
       \/ AlertFault /\ AGo(c, "publish") /\ UNCHANGED found
    /\ UNCHANGED <<clock, monitored, tableVars, began, now, answer, upserted, outbox, noticeVars>>

(* wrong variant: an alert goes with the first collection that misses it   *)
NoGrace(id, t) == Open(id)

(* wrong variant: a row that is closed already is resolved once more       *)
StaleAnyway(id, t) == rows[id].seen < t - Grace

Stale(id, t) == Open(id) /\ rows[id].seen < t - Grace

(* Resolve, and the notice of it if the alert had been told                *)
ResolveAlert(c) ==
    LET id == found[c].id
    IN  /\ apc[c] = "resolve" /\ AGo(c, "publish") /\ found' = [found EXCEPT ![c] = NoFind]
        /\ \/ /\ Stale(id, now[c]) /\ AlertNoFault
              /\ rows' = [rows EXCEPT ![id].closed = "resolved", ![id].at = now[c]]
              /\ outbox' = [outbox EXCEPT ![c] =
                              IF found[c].notified = Never THEN @ ELSE @ \cup {<<"resolved", id>>}]
           \/ ~Stale(id, now[c]) /\ AlertNoFault /\ UNCHANGED <<rows, outbox>>
           \/ AlertFault /\ UNCHANGED <<rows, outbox>>
        /\ UNCHANGED <<clock, monitored, lock, began, now, answer, upserted, noticeVars>>

(* CloseForMissingStacks, which tells nobody                               *)
CloseMissing(c) ==
    /\ apc[c] = "close" /\ AGo(c, "publish")
    /\ \/ /\ rows' = [id \in DOMAIN rows |->
                        IF Open(id) /\ rows[id].seen < began[c]
                        THEN [rows[id] EXCEPT !.closed = "dropped", !.at = clock]
                        ELSE rows[id]]
          /\ AlertNoFault
       \/ AlertFault /\ UNCHANGED rows
    /\ UNCHANGED <<clock, monitored, lock, began, now, answer, upserted, found, outbox, noticeVars>>

(* publishAll, then the lock is released                                   *)
Publish(c) ==
    /\ apc[c] = "publish" /\ Forget(c)
    /\ \/ /\ told' = [e \in Notice |-> told[e] + (IF e \in outbox[c] THEN 1 ELSE 0)]
          /\ AlertNoFault /\ UNCHANGED muted
       \/ /\ outbox[c] # {} /\ AlertFault /\ UNCHANGED told
          /\ muted' = muted \cup {e[2] : e \in outbox[c]}
    /\ UNCHANGED <<clock, monitored, rows, lastSaw, unlocked>>

CrashCollector(c) ==
    /\ apc[c] # "idle" /\ Forget(c)
    /\ AlertFault
    /\ muted' = muted \cup {e[2] : e \in outbox[c]}
    /\ UNCHANGED <<clock, monitored, rows, told, lastSaw, unlocked>>

CollectorStep(c) ==
    \/ BeginCollect(c) \/ Fetch(c) \/ Upsert(c) \/ Claim(c) \/ ListOpen(c) \/ ResolveAlert(c)
    \/ CloseMissing(c) \/ Publish(c) \/ CrashCollector(c)

AlertNext ==
    \/ \E c \in Collector : CollectorStep(c)
    \/ Tick \/ SwitchMonitoring \/ LoseLock

AlertSpec == AlertInit /\ [][AlertNext]_alertVars

-----------------------------------------------------------------------------
(* Properties *)

(* Every variable holds a value of its type.                               *)
AlertTypeOK ==
    /\ clock \in 1 .. MaxClock /\ monitored \in BOOLEAN
    /\ rows \in Seq([seen : Nat, notified : Nat, closed : {"open", "resolved", "dropped"}, at : Nat])
    /\ Len(rows) <= MaxRows /\ lock \in Collector \cup {Nobody}
    /\ apc \in [Collector -> {"idle", "fetch", "upsert", "claim", "open", "resolve", "close", "publish"}]
    /\ began \in [Collector -> 0 .. MaxClock] /\ now \in [Collector -> 0 .. MaxClock]
    /\ answer \in [Collector -> {"active", "suppressed", "none"}]
    /\ upserted \in [Collector -> 0 .. MaxRows]
    /\ found \in [Collector -> [id : 0 .. MaxRows, notified : Nat]]
    /\ outbox \in [Collector -> SUBSET Notice] /\ told \in [Notice -> Nat]
    /\ lastSaw \in Seq(Nat) /\ Len(lastSaw) = Len(rows)
    /\ unlocked \in BOOLEAN /\ muted \subseteq 1 .. MaxRows
    /\ alertFaults \in 0 .. MaxAlertFaults

(* How often a notice has been published, or is about to be                *)
Given(e) == told[e] + Cardinality({c \in Collector : e \in outbox[c]})

(* For each alert one notice says that it began and one that it ended, the *)
(* second only after the first, whichever process writes them and even     *)
(* when the lock is lost.  As long as it is not, an alert that was told    *)
(* and then resolved has its second notice too, unless a process or a      *)
(* channel lost one (collect_stack_alerts.go: a notice without its         *)
(* counterpart makes no sense to whoever reads it).                        *)
PairedNotices ==
    \A id \in DOMAIN rows :
        /\ Given(<<"fired", id>>) <= 1 /\ Given(<<"resolved", id>>) <= 1
        /\ Given(<<"resolved", id>>) = 1 =>
              rows[id].closed = "resolved" /\ (Given(<<"fired", id>>) = 1 \/ id \in muted)
        /\ (rows[id].closed = "resolved" /\ rows[id].notified # Never /\ ~unlocked) =>
              Given(<<"resolved", id>>) = 1 \/ id \in muted

(* No alert is resolved that a collection saw less than Grace before, as   *)
(* long as the lock is kept: Alertmanager has an empty list after its own  *)
(* restart, and the process that collects changes with each crash.  When   *)
(* the lock is lost an older collection may set last_seen_at back.         *)
SeenNotResolved ==
    \A id \in DOMAIN rows :
        (rows[id].closed = "resolved" /\ ~unlocked) => lastSaw[id] < rows[id].at - Grace
=============================================================================
