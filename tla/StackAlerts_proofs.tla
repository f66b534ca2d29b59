------------------------- MODULE StackAlerts_proofs --------------------------
(***************************************************************************)
(* Proofs about StackAlerts for every number of processes, alerts and      *)
(* ticks of the clock, and however often a lock, a call or a process is    *)
(* lost.                                                                   *)
(***************************************************************************)
EXTENDS StackAlerts, SequenceTheorems, FiniteSetTheorems, TLAPS

Row == [seen : Nat, notified : Nat, closed : {"open", "resolved", "dropped"}, at : Nat]

(* A notice has been published, or a process is about to publish it.       *)
Issued(e) == told[e] # 0 \/ \E c \in Collector : e \in outbox[c]

(* ... by one process, and once                                            *)
Single(e) ==
    /\ told[e] \in {0, 1}
    /\ told[e] = 1 => \A c \in Collector : e \notin outbox[c]
    /\ \A c, d \in Collector : e \in outbox[c] /\ e \in outbox[d] => c = d

(* The notices of a row agree with it: claiming the first one sets the     *)
(* time of the last, which nobody sets back.                               *)
Agrees(id) ==
    /\ Single(<<"fired", id>>) /\ Single(<<"resolved", id>>)
    /\ Issued(<<"fired", id>>) => id \in DOMAIN rows /\ rows[id].notified # Never
    /\ id \in DOMAIN rows /\ rows[id].notified # Never =>
          Issued(<<"fired", id>>) \/ id \in muted
    /\ Issued(<<"resolved", id>>) =>
          /\ id \in DOMAIN rows /\ rows[id].closed = "resolved" /\ rows[id].notified # Never
    /\ id \in DOMAIN rows /\ rows[id].closed = "resolved" /\ rows[id].notified # Never
       /\ ~unlocked => Issued(<<"resolved", id>>) \/ id \in muted

NoticesAgree == \A id \in 1 .. MaxRows : Agrees(id)

(* As long as nobody has lost the lock, who collects holds it.             *)
LockHeld == ~unlocked => \A c \in Collector : apc[c] # "idle" => lock = c

(* What a process works with is a row there is, and no time to come; the   *)
(* open row it has read is as it was, unless the lock was lost.            *)
WorksWithRows ==
    \A c \in Collector :
        /\ now[c] <= clock
        /\ apc[c] \in {"upsert", "claim", "open", "resolve"} => now[c] # Never
        /\ apc[c] = "claim" => upserted[c] \in DOMAIN rows
        /\ apc[c] = "resolve" =>
              /\ found[c].id \in DOMAIN rows
              /\ found[c].notified # Never => rows[found[c].id].notified # Never
              /\ ~unlocked => found[c].notified = rows[found[c].id].notified

(* Nobody has seen an alert later than its open row says, unless the lock  *)
(* was lost; and who is about to write has looked last.                    *)
SightingsKept ==
    \A id \in DOMAIN rows :
        /\ lastSaw[id] <= clock
        /\ ~unlocked => /\ Open(id) => lastSaw[id] <= rows[id].seen
                        /\ \A c \in Collector : apc[c] = "upsert" => lastSaw[id] <= now[c]

(* the types, in parts                                                     *)
TableTypeOK ==
    /\ rows \in Seq(Row) /\ Len(rows) <= MaxRows
    /\ lastSaw \in Seq(Nat) /\ Len(lastSaw) = Len(rows)

CollectTypeOK ==
    /\ apc \in [Collector -> {"idle", "fetch", "upsert", "claim", "open", "resolve", "close",
                              "publish"}]
    /\ began \in [Collector -> 0 .. MaxClock] /\ now \in [Collector -> 0 .. MaxClock]
    /\ answer \in [Collector -> {"active", "suppressed", "none"}]
    /\ upserted \in [Collector -> 0 .. MaxRows]
    /\ found \in [Collector -> [id : 0 .. MaxRows, notified : Nat]]
    /\ outbox \in [Collector -> SUBSET Notice]

NoticeTypeOK ==
    /\ clock \in 1 .. MaxClock /\ monitored \in BOOLEAN /\ lock \in Collector \cup {Nobody}
    /\ told \in [Notice -> Nat] /\ unlocked \in BOOLEAN /\ muted \subseteq 1 .. MaxRows
    /\ alertFaults \in 0 .. MaxAlertFaults

AlertInv ==
    /\ TableTypeOK /\ CollectTypeOK /\ NoticeTypeOK /\ NoticesAgree
    /\ LockHeld /\ WorksWithRows /\ SightingsKept /\ SeenNotResolved

LEMMA AlertConstants ==
    /\ Nobody \notin Collector /\ Grace \in Nat /\ Repeat \in Nat \ {0}
    /\ MaxClock \in Nat \ {0} /\ MaxRows \in Nat /\ MaxAlertFaults \in Nat
BY CollectorAssumption, AlertTimeAssumption, AlertBoundAssumption

LEMMA AlertInitInv == AlertInit => AlertInv
<1> SUFFICES ASSUME AlertInit PROVE AlertInv
  OBVIOUS
<1> USE DEF AlertInit
<1>1. TableTypeOK
  BY AlertConstants, EmptySeq DEF TableTypeOK
<1>2. CollectTypeOK
  <2>1. 0 \in 0 .. MaxClock /\ 0 \in 0 .. MaxRows /\ NoFind \in [id : 0 .. MaxRows, notified : Nat]
    BY AlertConstants DEF NoFind, Never
  <2> QED
    BY <2>1 DEF CollectTypeOK, Never
<1>3. NoticeTypeOK
  <2>1. 1 \in 1 .. MaxClock /\ 0 \in 0 .. MaxAlertFaults
    BY AlertConstants
  <2> QED
    BY <2>1 DEF NoticeTypeOK
<1>4. NoticesAgree
  BY DEF NoticesAgree, Agrees, Single, Issued, Notice
<1>5. LockHeld /\ WorksWithRows /\ SightingsKept /\ SeenNotResolved
  BY AlertConstants DEF LockHeld, WorksWithRows, SightingsKept, SeenNotResolved, Never
<1> QED
  BY <1>1, <1>2, <1>3, <1>4, <1>5 DEF AlertInv

LEMMA RowsTyped ==
  ASSUME TableTypeOK
  PROVE  /\ Len(rows) \in 0 .. MaxRows /\ DOMAIN rows = 1 .. Len(rows)
         /\ DOMAIN lastSaw = DOMAIN rows
         /\ \A id \in DOMAIN rows : /\ id \in 1 .. MaxRows /\ rows[id] \in Row
                                   /\ rows[id].seen \in Nat /\ rows[id].notified \in Nat
                                   /\ rows[id].at \in Nat /\ lastSaw[id] \in Nat
<1>1. Len(rows) \in Nat /\ DOMAIN rows = 1 .. Len(rows) /\ DOMAIN lastSaw = DOMAIN rows
  BY LenProperties DEF TableTypeOK
<1>2. \A id \in DOMAIN rows : rows[id] \in Row /\ lastSaw[id] \in Nat
  BY <1>1, ElementOfSeq DEF TableTypeOK
<1> QED
  BY <1>1, <1>2, AlertConstants DEF TableTypeOK, Row

LEMMA TickInv ==
  ASSUME AlertInv, Tick
  PROVE  AlertInv'
<1> USE AlertConstants DEF Tick, tableVars, collectVars, noticeVars
<1>1. TableTypeOK'
  BY DEF AlertInv, TableTypeOK
<1>2. CollectTypeOK'
  BY DEF AlertInv, CollectTypeOK, NoticeTypeOK
<1>3. NoticeTypeOK'
  BY DEF AlertInv, NoticeTypeOK
<1>4. NoticesAgree'
  BY DEF AlertInv, NoticesAgree, Agrees, Single, Issued
<1>5. LockHeld'
  BY DEF AlertInv, CollectTypeOK, LockHeld
<1>6. WorksWithRows'
  BY DEF AlertInv, CollectTypeOK, NoticeTypeOK, WorksWithRows, LockHeld, Never
<1>7. SightingsKept'
  BY DEF AlertInv, TableTypeOK, CollectTypeOK, NoticeTypeOK, WorksWithRows, SightingsKept, LockHeld, Open
<1>8. SeenNotResolved'
  BY DEF AlertInv, SeenNotResolved
<1> QED
  BY <1>1, <1>2, <1>3, <1>4, <1>5, <1>6, <1>7, <1>8 DEF AlertInv

LEMMA SwitchMonitoringInv ==
  ASSUME AlertInv, SwitchMonitoring
  PROVE  AlertInv'
<1> USE AlertConstants DEF SwitchMonitoring, tableVars, collectVars, noticeVars
<1>1. TableTypeOK'
  BY DEF AlertInv, TableTypeOK
<1>2. CollectTypeOK'
  BY DEF AlertInv, CollectTypeOK, NoticeTypeOK
<1>3. NoticeTypeOK'
  BY DEF AlertInv, NoticeTypeOK
<1>4. NoticesAgree'
  BY DEF AlertInv, NoticesAgree, Agrees, Single, Issued
<1>5. LockHeld'
  BY DEF AlertInv, CollectTypeOK, LockHeld
<1>6. WorksWithRows'
  BY DEF AlertInv, CollectTypeOK, NoticeTypeOK, WorksWithRows, LockHeld, Never
<1>7. SightingsKept'
  BY DEF AlertInv, TableTypeOK, CollectTypeOK, NoticeTypeOK, WorksWithRows, SightingsKept, LockHeld, Open
<1>8. SeenNotResolved'
  BY DEF AlertInv, SeenNotResolved
<1> QED
  BY <1>1, <1>2, <1>3, <1>4, <1>5, <1>6, <1>7, <1>8 DEF AlertInv

LEMMA LoseLockInv ==
  ASSUME AlertInv, LoseLock
  PROVE  AlertInv'
<1> USE AlertConstants DEF LoseLock, AlertFault, collectVars
<1>1. TableTypeOK'
  BY DEF AlertInv, TableTypeOK
<1>2. CollectTypeOK'
  BY DEF AlertInv, CollectTypeOK, NoticeTypeOK
<1>3. NoticeTypeOK'
  BY DEF AlertInv, NoticeTypeOK
<1>4. NoticesAgree'
  BY DEF AlertInv, NoticesAgree, Agrees, Single, Issued
<1>5. LockHeld'
  BY DEF AlertInv, CollectTypeOK, LockHeld
<1>6. WorksWithRows'
  BY DEF AlertInv, CollectTypeOK, NoticeTypeOK, WorksWithRows, LockHeld, Never
<1>7. SightingsKept'
  BY DEF AlertInv, TableTypeOK, CollectTypeOK, NoticeTypeOK, WorksWithRows, SightingsKept, LockHeld, Open
<1>8. SeenNotResolved'
  BY DEF AlertInv, SeenNotResolved
<1> QED
  BY <1>1, <1>2, <1>3, <1>4, <1>5, <1>6, <1>7, <1>8 DEF AlertInv

LEMMA BeginCollectInv ==
  ASSUME AlertInv, NEW c \in Collector, BeginCollect(c)
  PROVE  AlertInv'
<1> USE AlertConstants DEF BeginCollect, AGo, noticeVars
<1>1. TableTypeOK'
  BY DEF AlertInv, TableTypeOK
<1>2. CollectTypeOK'
  BY DEF AlertInv, CollectTypeOK, NoticeTypeOK
<1>3. NoticeTypeOK'
  BY DEF AlertInv, NoticeTypeOK
<1>4. NoticesAgree'
  BY DEF AlertInv, NoticesAgree, Agrees, Single, Issued
<1>5. LockHeld'
  BY DEF AlertInv, CollectTypeOK, LockHeld
<1>6. WorksWithRows'
  BY DEF AlertInv, CollectTypeOK, NoticeTypeOK, WorksWithRows, LockHeld, Never
<1>7. SightingsKept'
  BY DEF AlertInv, TableTypeOK, CollectTypeOK, NoticeTypeOK, WorksWithRows, SightingsKept, LockHeld, Open
<1>8. SeenNotResolved'
  BY DEF AlertInv, SeenNotResolved
<1> QED
  BY <1>1, <1>2, <1>3, <1>4, <1>5, <1>6, <1>7, <1>8 DEF AlertInv

LEMMA FetchInv ==
  ASSUME AlertInv, NEW c \in Collector, Fetch(c)
  PROVE  AlertInv'
<1> USE AlertConstants DEF Fetch, AGo, AlertFault, AlertNoFault, tableVars, noticeVars
<1>1. TableTypeOK'
  BY DEF AlertInv, TableTypeOK
<1>2. CollectTypeOK'
  <2>1. clock \in 0 .. MaxClock
    BY DEF AlertInv, NoticeTypeOK
  <2>2. now' \in [Collector -> 0 .. MaxClock]
    BY <2>1 DEF AlertInv, CollectTypeOK
  <2>3. answer' \in [Collector -> {"active", "suppressed", "none"}]
    BY DEF AlertInv, CollectTypeOK
  <2> QED
    BY <2>2, <2>3 DEF AlertInv, CollectTypeOK
<1>3. NoticeTypeOK'
  BY DEF AlertInv, NoticeTypeOK
<1>4. NoticesAgree'
  BY DEF AlertInv, NoticesAgree, Agrees, Single, Issued
<1>5. LockHeld'
  BY DEF AlertInv, CollectTypeOK, LockHeld
<1>6. WorksWithRows'
  BY DEF AlertInv, CollectTypeOK, NoticeTypeOK, WorksWithRows, LockHeld, Never
<1>7. SightingsKept'
  BY DEF AlertInv, TableTypeOK, CollectTypeOK, NoticeTypeOK, WorksWithRows, SightingsKept, LockHeld, Open
<1>8. SeenNotResolved'
  BY DEF AlertInv, SeenNotResolved
<1> QED
  BY <1>1, <1>2, <1>3, <1>4, <1>5, <1>6, <1>7, <1>8 DEF AlertInv

LEMMA ListOpenInv ==
  ASSUME AlertInv, NEW c \in Collector, ListOpen(c)
  PROVE  AlertInv'
<1> USE AlertConstants DEF ListOpen, AGo, OpenRows, AlertFault, AlertNoFault, tableVars, noticeVars
<1>1. TableTypeOK'
  BY DEF AlertInv, TableTypeOK
<1>2. CollectTypeOK'
  <2>1. \A id \in DOMAIN rows : id \in 0 .. MaxRows /\ rows[id].notified \in Nat
    BY RowsTyped DEF AlertInv
  <2>2. found' \in [Collector -> [id : 0 .. MaxRows, notified : Nat]]
    BY <2>1 DEF AlertInv, CollectTypeOK
  <2> QED
    BY <2>2 DEF AlertInv, CollectTypeOK
<1>3. NoticeTypeOK'
  BY DEF AlertInv, NoticeTypeOK
<1>4. NoticesAgree'
  BY DEF AlertInv, NoticesAgree, Agrees, Single, Issued
<1>5. LockHeld'
  BY DEF AlertInv, CollectTypeOK, LockHeld
<1>6. WorksWithRows'
  BY DEF AlertInv, CollectTypeOK, NoticeTypeOK, WorksWithRows, LockHeld, Never
<1>7. SightingsKept'
  BY DEF AlertInv, TableTypeOK, CollectTypeOK, NoticeTypeOK, WorksWithRows, SightingsKept, LockHeld, Open
<1>8. SeenNotResolved'
  BY DEF AlertInv, SeenNotResolved
<1> QED
  BY <1>1, <1>2, <1>3, <1>4, <1>5, <1>6, <1>7, <1>8 DEF AlertInv

(* What a collection writes when it saw the alert: the open row, or a new  *)
(* one.                                                                    *)
LEMMA UpsertWrites ==
  ASSUME AlertInv, NEW c \in Collector, Upsert(c), alertFaults' = alertFaults
  PROVE  LET id == upserted'[c] IN
         /\ id \in 1 .. MaxRows /\ upserted' = [upserted EXCEPT ![c] = id]
         /\ rows' \in Seq(Row) /\ lastSaw' \in Seq(Nat) /\ Len(lastSaw') = Len(rows')
         /\ Len(rows') <= MaxRows /\ DOMAIN rows' = DOMAIN rows \cup {id}
         /\ id \notin DOMAIN rows \/ Open(id)
         /\ \A j \in DOMAIN rows \ {id} : rows'[j] = rows[j] /\ lastSaw'[j] = lastSaw[j]
         /\ rows'[id].closed = "open" /\ rows'[id].seen = now[c]
         /\ rows'[id].notified = IF id \in DOMAIN rows THEN rows[id].notified ELSE Never
         /\ \/ lastSaw'[id] = now[c]
            \/ id \in DOMAIN rows /\ lastSaw'[id] = lastSaw[id] /\ now[c] <= lastSaw[id]
         /\ apc' = [apc EXCEPT ![c] = "claim"] \/ apc' = [apc EXCEPT ![c] = "publish"]
<1> DEFINE id == IF OpenRows = {} THEN Len(rows) + 1 ELSE CHOOSE i \in OpenRows : TRUE
<1>1. rows \in Seq(Row) /\ lastSaw \in Seq(Nat) /\ Len(lastSaw) = Len(rows)
      /\ now[c] \in Nat /\ TableTypeOK
  BY AlertConstants DEF AlertInv, TableTypeOK, CollectTypeOK
<1>2. /\ Len(rows) \in Nat /\ DOMAIN rows = 1 .. Len(rows) /\ DOMAIN lastSaw = DOMAIN rows
      /\ \A j \in DOMAIN rows : rows[j] \in Row /\ lastSaw[j] \in Nat /\ j \in 1 .. MaxRows
  BY <1>1, RowsTyped
<1>3. /\ id <= MaxRows /\ AlertNoFault
      /\ rows' = IF OpenRows = {}
                 THEN Append(rows, [seen |-> now[c], notified |-> Never, closed |-> "open",
                                    at |-> Never])
                 ELSE [rows EXCEPT ![id].seen = now[c]]
      /\ lastSaw' = IF OpenRows = {} THEN Append(lastSaw, now[c])
                    ELSE [lastSaw EXCEPT ![id] = IF @ < now[c] THEN now[c] ELSE @]
      /\ upserted' = [upserted EXCEPT ![c] = id]
      /\ AGo(c, IF answer[c] = "active" THEN "claim" ELSE "publish")
  BY DEF AlertInv, NoticeTypeOK, Upsert, AlertFault
<1>4. id <= MaxRows /\ upserted'[c] = id
  BY <1>3 DEF AlertInv, CollectTypeOK
<1>5. apc' = [apc EXCEPT ![c] = "claim"] \/ apc' = [apc EXCEPT ![c] = "publish"]
  BY <1>3 DEF AGo
<1>6. upserted' = [upserted EXCEPT ![c] = id]
  BY <1>3
<1>7. /\ OpenRows = {} => id = Len(rows) + 1
      /\ OpenRows # {} => id \in OpenRows
  OBVIOUS
<1> HIDE DEF id
<1>8. CASE OpenRows = {}
  <2> DEFINE r == [seen |-> now[c], notified |-> Never, closed |-> "open", at |-> Never]
  <2>1. r \in Row
    BY <1>1 DEF Row, Never
  <2>0. id = Len(rows) + 1 /\ rows' = Append(rows, r) /\ lastSaw' = Append(lastSaw, now[c])
    BY <1>3, <1>8, <1>7
  <2> HIDE DEF r
  <2>2. /\ rows' \in Seq(Row) /\ Len(rows') = Len(rows) + 1 /\ rows'[id] = r
        /\ \A j \in DOMAIN rows : rows'[j] = rows[j]
    <3>1. /\ Append(rows, r) \in Seq(Row) /\ Len(Append(rows, r)) = Len(rows) + 1
          /\ \A j \in 1 .. Len(rows) : Append(rows, r)[j] = rows[j]
          /\ Append(rows, r)[Len(rows) + 1] = r
      BY <1>1, <2>1, AppendProperties
    <3> QED
      BY <1>2, <2>0, <3>1, Zenon
  <2>3. /\ lastSaw' \in Seq(Nat) /\ Len(lastSaw') = Len(rows) + 1 /\ lastSaw'[id] = now[c]
        /\ \A j \in DOMAIN rows : lastSaw'[j] = lastSaw[j]
    <3>1. /\ Append(lastSaw, now[c]) \in Seq(Nat)
          /\ Len(Append(lastSaw, now[c])) = Len(lastSaw) + 1
          /\ \A j \in 1 .. Len(lastSaw) : Append(lastSaw, now[c])[j] = lastSaw[j]
          /\ Append(lastSaw, now[c])[Len(lastSaw) + 1] = now[c]
      BY <1>1, AppendProperties
    <3> QED
      BY <1>1, <1>2, <2>0, <3>1, Zenon
  <2>4. DOMAIN rows' = 1 .. Len(rows')
    BY <2>2, LenProperties
  <2>5. id \in 1 .. MaxRows /\ id = Len(rows) + 1 /\ id \notin DOMAIN rows
        /\ DOMAIN rows' = DOMAIN rows \cup {id}
    BY <1>2, <1>4, <2>0, <2>2, <2>4, AlertConstants
  <2>6. rows'[id].closed = "open" /\ rows'[id].seen = now[c] /\ rows'[id].notified = Never
    BY <2>2 DEF r
  <2>7. Len(lastSaw') = Len(rows') /\ Len(rows') <= MaxRows
    BY <1>4, <2>0, <2>2, <2>3
  <2> QED
    BY <1>4, <1>5, <1>6, <2>2, <2>3, <2>5, <2>6, <2>7
<1>9. CASE OpenRows # {}
  <2>1. id \in DOMAIN rows /\ Open(id) /\ id \in 1 .. MaxRows
    BY <1>2, <1>9, <1>7 DEF OpenRows
  <2>2. [rows[id] EXCEPT !.seen = now[c]] \in Row
    BY <1>1, <1>2, <2>1 DEF Row
  <2>3. rows' = [rows EXCEPT ![id] = [rows[id] EXCEPT !.seen = now[c]]]
    BY <1>3, <1>9
  <2>4. /\ rows' \in Seq(Row) /\ Len(rows') = Len(rows)
        /\ \A j \in DOMAIN rows : rows'[j] = IF j = id THEN [rows[id] EXCEPT !.seen = now[c]]
                                                  ELSE rows[j]
    BY <1>1, <1>2, <2>1, <2>2, <2>3, ExceptSeq
  <2>5. lastSaw' = [lastSaw EXCEPT ![id] = IF lastSaw[id] < now[c] THEN now[c] ELSE lastSaw[id]]
    BY <1>2, <1>3, <1>9, <2>1
  <2>6. (IF lastSaw[id] < now[c] THEN now[c] ELSE lastSaw[id]) \in Nat
    BY <1>1, <1>2, <2>1
  <2>7. /\ lastSaw' \in Seq(Nat) /\ Len(lastSaw') = Len(rows)
        /\ \A j \in DOMAIN rows :
              lastSaw'[j] = IF j = id THEN IF lastSaw[id] < now[c] THEN now[c] ELSE lastSaw[id]
                                      ELSE lastSaw[j]
    BY <1>1, <1>2, <2>1, <2>5, <2>6, ExceptSeq
  <2>8. DOMAIN rows' = DOMAIN rows
    BY <2>3
  <2>9. /\ rows'[id].closed = "open" /\ rows'[id].seen = now[c]
        /\ rows'[id].notified = rows[id].notified
    BY <1>2, <2>1, <2>4 DEF Row, Open
  <2>10. lastSaw'[id] = now[c] \/ (lastSaw'[id] = lastSaw[id] /\ now[c] <= lastSaw[id])
    BY <1>1, <1>2, <2>1, <2>7
  <2>11. Len(rows') <= MaxRows
    BY <1>1, <2>4 DEF TableTypeOK
  <2> QED
    BY <1>4, <1>5, <1>6, <2>1, <2>4, <2>7, <2>8, <2>9, <2>10, <2>11
<1> QED
  BY <1>8, <1>9

LEMMA UpsertInv ==
  ASSUME AlertInv, NEW c \in Collector, Upsert(c)
  PROVE  AlertInv'
<1>1. /\ apc[c] = "upsert" /\ answer' = [answer EXCEPT ![c] = "none"]
      /\ UNCHANGED <<clock, monitored, lock, began, now, found, outbox, told, unlocked, muted>>
  BY DEF Upsert
<1>2. CASE alertFaults' = alertFaults
  <2> DEFINE id == upserted'[c]
  <2>1. /\ id \in 1 .. MaxRows /\ upserted' = [upserted EXCEPT ![c] = id]
        /\ rows' \in Seq(Row) /\ lastSaw' \in Seq(Nat) /\ Len(lastSaw') = Len(rows')
        /\ Len(rows') <= MaxRows /\ DOMAIN rows' = DOMAIN rows \cup {id}
        /\ id \notin DOMAIN rows \/ Open(id)
        /\ \A j \in DOMAIN rows \ {id} : rows'[j] = rows[j] /\ lastSaw'[j] = lastSaw[j]
        /\ rows'[id].closed = "open" /\ rows'[id].seen = now[c]
        /\ rows'[id].notified = IF id \in DOMAIN rows THEN rows[id].notified ELSE Never
        /\ \/ lastSaw'[id] = now[c]
           \/ id \in DOMAIN rows /\ lastSaw'[id] = lastSaw[id] /\ now[c] <= lastSaw[id]
        /\ apc' = [apc EXCEPT ![c] = "claim"] \/ apc' = [apc EXCEPT ![c] = "publish"]
    BY <1>2, UpsertWrites
  <2> HIDE DEF id
  <2>2. TableTypeOK'
    BY <2>1 DEF TableTypeOK
  <2>3. CollectTypeOK'
    <3>1. upserted' \in [Collector -> 0 .. MaxRows]
      BY <2>1, AlertConstants DEF AlertInv, CollectTypeOK
    <3>2. answer' \in [Collector -> {"active", "suppressed", "none"}]
      BY <1>1 DEF AlertInv, CollectTypeOK
    <3> QED
      BY <1>1, <2>1, <3>1, <3>2 DEF AlertInv, CollectTypeOK
  <2>4. NoticeTypeOK'
    BY <1>1, <1>2 DEF AlertInv, NoticeTypeOK
  <2>5. NoticesAgree'
    <3>1. \A e : Issued(e)' = Issued(e) /\ (Single(e) => Single(e)')
      BY <1>1 DEF Issued, Single
    <3>2. ASSUME NEW j \in 1 .. MaxRows PROVE Agrees(j)'
      <4>1. Agrees(j)
        BY DEF AlertInv, NoticesAgree
      <4>2. CASE j # id
        BY <1>1, <2>1, <3>1, <4>1, <4>2 DEF Agrees
      <4>3. CASE j = id
        BY <1>1, <2>1, <3>1, <4>1, <4>3 DEF Agrees, Open
      <4> QED
        BY <4>2, <4>3
    <3> QED
      BY <3>2 DEF NoticesAgree
  <2>6. LockHeld'
    BY <1>1, <2>1 DEF AlertInv, CollectTypeOK, LockHeld
  <2>7. WorksWithRows'
    <3>1. \A j \in DOMAIN rows : j \in DOMAIN rows' /\ rows'[j].notified = rows[j].notified
      BY <2>1
    <3>2. ASSUME NEW d \in Collector
          PROVE  /\ apc'[d] \in {"upsert", "claim", "open", "resolve"} =>
                        apc[d] \in {"upsert", "claim", "open", "resolve"}
                 /\ apc'[d] = "claim" => upserted'[d] \in DOMAIN rows'
                 /\ apc'[d] = "resolve" => apc[d] = "resolve"
      <4>1. CASE d = c
        BY <1>1, <2>1, <4>1 DEF AlertInv, CollectTypeOK
      <4>2. CASE d # c
        BY <1>1, <2>1, <4>2 DEF AlertInv, CollectTypeOK, WorksWithRows
      <4> QED
        BY <4>1, <4>2
    <3> QED
      BY <1>1, <3>1, <3>2 DEF AlertInv, WorksWithRows
  <2>8. SightingsKept'
    <3>1. ASSUME NEW j \in DOMAIN rows', j # id
          PROVE  lastSaw'[j] = lastSaw[j] /\ rows'[j] = rows[j] /\ j \in DOMAIN rows
      BY <2>1, <3>1
    <3>2. now[c] \in Nat /\ clock \in Nat /\ now[c] <= clock
          /\ \A j \in DOMAIN rows : lastSaw[j] \in Nat
      BY RowsTyped, AlertConstants DEF AlertInv, CollectTypeOK, NoticeTypeOK, WorksWithRows
    <3>3. ~unlocked => \A d \in Collector : apc'[d] # "upsert"
      BY <1>1, <2>1 DEF AlertInv, CollectTypeOK, LockHeld
    <3>4. lastSaw'[id] <= clock
      BY <2>1, <3>2 DEF AlertInv, SightingsKept
    <3>5. ~unlocked => lastSaw'[id] <= now[c]
      BY <1>1, <2>1, <3>2 DEF AlertInv, SightingsKept
    <3> QED
      BY <1>1, <2>1, <3>1, <3>2, <3>3, <3>4, <3>5 DEF AlertInv, SightingsKept, Open
  <2>9. SeenNotResolved'
    BY <1>1, <2>1 DEF AlertInv, SeenNotResolved
  <2> QED
    BY <2>2, <2>3, <2>4, <2>5, <2>6, <2>7, <2>8, <2>9 DEF AlertInv
<1>3. CASE alertFaults' # alertFaults
  <2>1. AlertFault /\ apc' = [apc EXCEPT ![c] = "publish"] /\ UNCHANGED <<rows, lastSaw, upserted>>
    BY <1>3 DEF Upsert, AGo, AlertNoFault
  <2>2. TableTypeOK' /\ SeenNotResolved'
    BY <1>1, <2>1 DEF AlertInv, TableTypeOK, SeenNotResolved
  <2>3. CollectTypeOK'
    BY <1>1, <2>1 DEF AlertInv, CollectTypeOK
  <2>4. NoticeTypeOK'
    BY <1>1, <2>1, AlertConstants DEF AlertInv, NoticeTypeOK, AlertFault
  <2>5. NoticesAgree'
    BY <1>1, <2>1 DEF AlertInv, NoticesAgree, Agrees, Single, Issued
  <2>6. LockHeld' /\ WorksWithRows'
    BY <1>1, <2>1 DEF AlertInv, CollectTypeOK, LockHeld, WorksWithRows
  <2>7. SightingsKept'
    BY <1>1, <2>1 DEF AlertInv, CollectTypeOK, SightingsKept, Open
  <2> QED
    BY <2>2, <2>3, <2>4, <2>5, <2>6, <2>7 DEF AlertInv
<1> QED
  BY <1>2, <1>3

(* A change of one row of the table                                        *)
LEMMA RowChanges ==
  ASSUME TableTypeOK, NEW id \in DOMAIN rows, NEW r \in Row, rows' = [rows EXCEPT ![id] = r],
         lastSaw' = lastSaw
  PROVE  /\ TableTypeOK' /\ DOMAIN rows' = DOMAIN rows /\ rows'[id] = r
         /\ \A j \in DOMAIN rows \ {id} : rows'[j] = rows[j]
<1>1. rows \in Seq(Row) /\ DOMAIN rows = 1 .. Len(rows)
  BY RowsTyped DEF TableTypeOK
<1>2. rows' \in Seq(Row) /\ Len(rows') = Len(rows)
  BY <1>1, ExceptSeq
<1> QED
  BY <1>1, <1>2 DEF TableTypeOK

(* Claiming writes the time of the notice into an open row, or nothing.    *)
LEMMA ClaimInv ==
  ASSUME AlertInv, NEW c \in Collector, Claim(c)
  PROVE  AlertInv'
<1>1. PICK id \in DOMAIN rows : id = upserted[c]
  BY DEF AlertInv, WorksWithRows, Claim
<1>2. PICK kind : kind = IF rows[id].notified = Never THEN "fired" ELSE "repeated"
  OBVIOUS
<1>3. /\ apc[c] = "claim" /\ apc' = [apc EXCEPT ![c] = "publish"]
      /\ upserted' = [upserted EXCEPT ![c] = 0]
      /\ UNCHANGED <<clock, monitored, lock, began, now, answer, found, noticeVars>>
      /\ alertFaults' = alertFaults \/ AlertFault
  BY DEF Claim, AGo, AlertNoFault
<1>4. id \in DOMAIN rows /\ id \in 1 .. MaxRows /\ now[c] \in Nat \ {Never}
      /\ rows[id] \in Row /\ TableTypeOK
  BY <1>1, <1>3, RowsTyped, AlertConstants DEF AlertInv, WorksWithRows, CollectTypeOK, Never
<1>5. CollectTypeOK' /\ TableTypeOK'
      /\ (UNCHANGED <<rows, outbox>> \/
            /\ Open(id) /\ DOMAIN rows' = DOMAIN rows
            /\ rows'[id] = [rows[id] EXCEPT !.notified = now[c]]
            /\ \A j \in DOMAIN rows \ {id} : rows'[j] = rows[j]
            /\ outbox' = [outbox EXCEPT ![c] = @ \cup {<<kind, id>>}])
  <2>1. CASE UNCHANGED <<rows, outbox>>
    BY <1>3, <2>1, AlertConstants DEF AlertInv, CollectTypeOK, TableTypeOK, noticeVars
  <2>2. CASE ~UNCHANGED <<rows, outbox>>
    <3>1. /\ Open(id) /\ rows' = [rows EXCEPT ![id].notified = now[c]]
          /\ outbox' = [outbox EXCEPT ![c] = @ \cup {<<kind, id>>}]
      BY <1>1, <1>2, <2>2 DEF Claim
    <3>2. [rows[id] EXCEPT !.notified = now[c]] \in Row
      BY <1>4 DEF Row
    <3>3. rows' = [rows EXCEPT ![id] = [rows[id] EXCEPT !.notified = now[c]]]
      BY <3>1
    <3>4. /\ TableTypeOK' /\ DOMAIN rows' = DOMAIN rows
          /\ rows'[id] = [rows[id] EXCEPT !.notified = now[c]]
          /\ \A j \in DOMAIN rows \ {id} : rows'[j] = rows[j]
      BY <1>3, <1>4, <3>2, <3>3, RowChanges DEF noticeVars
    <3>5. <<kind, id>> \in Notice
      BY <1>4, <1>2 DEF Notice
    <3>6. CollectTypeOK'
      <4>1. outbox' \in [Collector -> SUBSET Notice]
        BY <3>1, <3>5 DEF AlertInv, CollectTypeOK
      <4>2. upserted' \in [Collector -> 0 .. MaxRows]
        BY <1>3, AlertConstants DEF AlertInv, CollectTypeOK
      <4> QED
        BY <1>3, <4>1, <4>2 DEF AlertInv, CollectTypeOK
    <3> QED
      BY <3>1, <3>4, <3>6
  <2> QED
    BY <2>1, <2>2
<1>6. NoticeTypeOK'
  BY <1>3, AlertConstants DEF AlertInv, NoticeTypeOK, AlertFault, noticeVars
<1>7. NoticesAgree'
  <2>1. CASE UNCHANGED <<rows, outbox>>
    BY <1>3, <2>1 DEF AlertInv, NoticesAgree, Agrees, Single, Issued, noticeVars
  <2>2. CASE ~UNCHANGED <<rows, outbox>>
    <3>1. /\ Open(id) /\ DOMAIN rows' = DOMAIN rows
          /\ rows'[id] = [rows[id] EXCEPT !.notified = now[c]]
          /\ \A j \in DOMAIN rows \ {id} : rows'[j] = rows[j]
          /\ outbox' = [outbox EXCEPT ![c] = @ \cup {<<kind, id>>}]
          /\ UNCHANGED <<told, unlocked, muted>>
      BY <1>3, <1>5, <2>2 DEF noticeVars
    <3>2. rows'[id].notified # Never /\ rows'[id].closed = "open"
      BY <1>4, <3>1 DEF Row, Open
    <3>3. outbox \in [Collector -> SUBSET Notice]
      BY DEF AlertInv, CollectTypeOK
    <3>4. ASSUME NEW j \in 1 .. MaxRows, j # id
          PROVE  /\ \A k \in {"fired", "resolved"}, d \in Collector :
                       <<k, j>> \in outbox'[d] <=> <<k, j>> \in outbox[d]
                 /\ j \in DOMAIN rows => rows'[j] = rows[j]
      BY <3>1, <3>3, <3>4
    <3>5. \A d \in Collector : <<"resolved", id>> \in outbox'[d] <=> <<"resolved", id>> \in outbox[d]
      BY <1>2, <3>1, <3>3
    <3>6. ~Issued(<<"resolved", id>>)
      BY <1>4, <3>1 DEF AlertInv, NoticesAgree, Agrees, Open
    <3>7. ASSUME NEW j \in 1 .. MaxRows, j # id PROVE Agrees(j)'
      <4>1. Agrees(j)
        BY DEF AlertInv, NoticesAgree
      <4>2. \A k \in {"fired", "resolved"} :
              Issued(<<k, j>>)' = Issued(<<k, j>>) /\ (Single(<<k, j>>) => Single(<<k, j>>)')
        BY <3>1, <3>4, <3>7 DEF Issued, Single
      <4> QED
        BY <3>1, <3>4, <3>7, <4>1, <4>2 DEF Agrees
    <3>8. Agrees(id)'
      <4>1. Agrees(id)
        BY <1>4 DEF AlertInv, NoticesAgree
      <4>2. Single(<<"resolved", id>>)' /\ ~Issued(<<"resolved", id>>)'
        BY <3>1, <3>5, <3>6, <4>1 DEF Agrees, Issued, Single
      <4>3. Single(<<"fired", id>>)' /\ (Issued(<<"fired", id>>)' \/ id \in muted)
        <5>1. CASE rows[id].notified = Never
          <6>1. ~Issued(<<"fired", id>>)
            BY <4>1, <5>1 DEF Agrees
          <6>2. told[<<"fired", id>>] = 0 /\ \A d \in Collector : <<"fired", id>> \notin outbox[d]
            BY <6>1 DEF Issued
          <6>3. \A d \in Collector : <<"fired", id>> \in outbox'[d] <=> d = c
            BY <1>2, <3>1, <3>3, <5>1, <6>2
          <6> QED
            BY <3>1, <6>2, <6>3 DEF Issued, Single
        <5>2. CASE rows[id].notified # Never
          <6>1. \A d \in Collector : <<"fired", id>> \in outbox'[d] <=> <<"fired", id>> \in outbox[d]
            BY <1>2, <3>1, <3>3, <5>2
          <6> QED
            BY <1>4, <3>1, <4>1, <5>2, <6>1 DEF Agrees, Issued, Single
        <5> QED
          BY <5>1, <5>2
      <4> QED
        BY <1>4, <3>1, <3>2, <4>2, <4>3 DEF Agrees
    <3> QED
      BY <1>4, <3>7, <3>8 DEF NoticesAgree
  <2> QED
    BY <2>1, <2>2
<1>8. LockHeld'
  BY <1>3 DEF AlertInv, CollectTypeOK, LockHeld, noticeVars
<1>9. WorksWithRows'
  <2>1. ASSUME NEW d \in Collector, d # c
        PROVE  /\ now'[d] <= clock'
               /\ apc'[d] \in {"upsert", "claim", "open", "resolve"} => now'[d] # Never
               /\ apc'[d] = "claim" => upserted'[d] \in DOMAIN rows'
               /\ apc'[d] = "resolve" =>
                     /\ found'[d].id \in DOMAIN rows'
                     /\ found'[d].notified # Never => rows'[found'[d].id].notified # Never
                     /\ ~unlocked' => found'[d].notified = rows'[found'[d].id].notified
    <3>1. apc'[d] = apc[d] /\ upserted'[d] = upserted[d] /\ DOMAIN rows' = DOMAIN rows
          /\ UNCHANGED <<now, clock, found, unlocked>>
      BY <1>3, <1>5, <2>1 DEF AlertInv, CollectTypeOK, noticeVars
    <3>2. ~unlocked => apc[d] # "resolve"
      BY <1>3, <2>1 DEF AlertInv, LockHeld
    <3>3. \A j \in DOMAIN rows : rows[j].notified # Never => rows'[j].notified # Never
      BY <1>4, <1>5 DEF Row
    <3> QED
      BY <3>1, <3>2, <3>3 DEF AlertInv, WorksWithRows
  <2>2. apc'[c] = "publish" /\ now' = now /\ clock' = clock
    BY <1>3 DEF AlertInv, CollectTypeOK
  <2> QED
    BY <2>1, <2>2 DEF AlertInv, WorksWithRows
<1>10. SightingsKept'
  <2>1. \A j \in DOMAIN rows : rows'[j].closed = rows[j].closed /\ rows'[j].seen = rows[j].seen
    BY <1>4, <1>5 DEF Row
  <2>2. DOMAIN rows' = DOMAIN rows /\ UNCHANGED <<now, clock, lastSaw, unlocked>>
        /\ \A d \in Collector : apc'[d] = "upsert" => apc[d] = "upsert"
    BY <1>3, <1>5 DEF AlertInv, CollectTypeOK, noticeVars
  <2> QED
    BY <2>1, <2>2 DEF AlertInv, SightingsKept, Open
<1>11. SeenNotResolved'
  <2>1. \A j \in DOMAIN rows : rows'[j].closed = rows[j].closed /\ rows'[j].at = rows[j].at
    BY <1>4, <1>5 DEF Row
  <2>2. DOMAIN rows' = DOMAIN rows /\ UNCHANGED <<lastSaw, unlocked>>
    BY <1>3, <1>5 DEF noticeVars
  <2> QED
    BY <2>1, <2>2 DEF AlertInv, SeenNotResolved
<1> QED
  BY <1>5, <1>6, <1>7, <1>8, <1>9, <1>10, <1>11 DEF AlertInv

(* Resolving closes an open row that nobody has seen for the grace period. *)
LEMMA ResolveAlertInv ==
  ASSUME AlertInv, NEW c \in Collector, ResolveAlert(c)
  PROVE  AlertInv'
<1>1. /\ apc[c] = "resolve" /\ apc' = [apc EXCEPT ![c] = "publish"]
      /\ found' = [found EXCEPT ![c] = NoFind]
      /\ UNCHANGED <<clock, monitored, lock, began, now, answer, upserted, noticeVars>>
      /\ alertFaults' = alertFaults \/ AlertFault
  BY DEF ResolveAlert, AGo, AlertNoFault
<1>2. PICK id \in DOMAIN rows : id = found[c].id
  BY <1>1 DEF AlertInv, WorksWithRows
<1>3. /\ id \in 1 .. MaxRows /\ now[c] \in Nat /\ rows[id] \in Row /\ TableTypeOK
      /\ NoFind \in [id : 0 .. MaxRows, notified : Nat]
  BY RowsTyped, AlertConstants DEF AlertInv, CollectTypeOK, NoFind, Never
<1>4. PICK more : more = IF found[c].notified = Never THEN {} ELSE {<<"resolved", id>>}
  OBVIOUS
<1>5. CASE UNCHANGED <<rows, outbox>>
  <2>1. TableTypeOK' /\ SeenNotResolved'
    BY <1>1, <1>5 DEF AlertInv, TableTypeOK, SeenNotResolved, noticeVars
  <2>2. CollectTypeOK'
    BY <1>1, <1>3, <1>5 DEF AlertInv, CollectTypeOK
  <2>3. NoticeTypeOK'
    BY <1>1, AlertConstants DEF AlertInv, NoticeTypeOK, AlertFault, noticeVars
  <2>4. NoticesAgree'
    BY <1>1, <1>5 DEF AlertInv, NoticesAgree, Agrees, Single, Issued, noticeVars
  <2>5. LockHeld'
    BY <1>1 DEF AlertInv, CollectTypeOK, LockHeld, noticeVars
  <2>6. WorksWithRows'
    BY <1>1, <1>5 DEF AlertInv, CollectTypeOK, WorksWithRows, noticeVars
  <2>7. SightingsKept'
    BY <1>1, <1>5 DEF AlertInv, CollectTypeOK, SightingsKept, Open, noticeVars
  <2> QED
    BY <2>1, <2>2, <2>3, <2>4, <2>5, <2>6, <2>7 DEF AlertInv
<1>6. CASE ~UNCHANGED <<rows, outbox>>
  <2>1. /\ Open(id) /\ rows[id].seen < now[c] - Grace
        /\ rows' = [rows EXCEPT ![id].closed = "resolved", ![id].at = now[c]]
        /\ outbox' = [outbox EXCEPT ![c] = @ \cup more]
    BY <1>2, <1>4, <1>6 DEF ResolveAlert, Stale
  <2>2. [rows[id] EXCEPT !.closed = "resolved", !.at = now[c]] \in Row
    BY <1>3 DEF Row
  <2>3. rows' = [rows EXCEPT ![id] = [rows[id] EXCEPT !.closed = "resolved", !.at = now[c]]]
    BY <2>1
  <2>4. /\ TableTypeOK' /\ DOMAIN rows' = DOMAIN rows
        /\ rows'[id] = [rows[id] EXCEPT !.closed = "resolved", !.at = now[c]]
        /\ \A j \in DOMAIN rows \ {id} : rows'[j] = rows[j]
    BY <1>1, <1>3, <2>2, <2>3, RowChanges DEF noticeVars
  <2>5. rows'[id].closed = "resolved" /\ rows'[id].at = now[c]
        /\ rows'[id].notified = rows[id].notified
    BY <1>3, <2>4 DEF Row
  <2>6. CollectTypeOK'
    <3>1. outbox' \in [Collector -> SUBSET Notice]
      BY <1>3, <1>4, <2>1 DEF AlertInv, CollectTypeOK, Notice
    <3>2. found' \in [Collector -> [id : 0 .. MaxRows, notified : Nat]]
      BY <1>1, <1>3 DEF AlertInv, CollectTypeOK
    <3> QED
      BY <1>1, <3>1, <3>2 DEF AlertInv, CollectTypeOK
  <2>7. NoticeTypeOK'
    BY <1>1, AlertConstants DEF AlertInv, NoticeTypeOK, AlertFault, noticeVars
  <2>8. NoticesAgree'
    <3>1. outbox \in [Collector -> SUBSET Notice]
      BY DEF AlertInv, CollectTypeOK
    <3>2. ASSUME NEW k \in {"fired", "resolved"}, NEW j \in 1 .. MaxRows, <<k, j>> \notin more
          PROVE  /\ Issued(<<k, j>>)' = Issued(<<k, j>>)
                 /\ Single(<<k, j>>) => Single(<<k, j>>)'
      <4>1. \A d \in Collector : <<k, j>> \in outbox'[d] <=> <<k, j>> \in outbox[d]
        BY <2>1, <3>1, <3>2
      <4> QED
        BY <1>1, <4>1 DEF Issued, Single, noticeVars
    <3>3. ASSUME NEW j \in 1 .. MaxRows, j # id PROVE Agrees(j)'
      <4>1. <<"fired", j>> \notin more /\ <<"resolved", j>> \notin more
        BY <1>4, <3>3
      <4>2. Agrees(j)
        BY DEF AlertInv, NoticesAgree
      <4> QED
        BY <1>1, <2>4, <3>2, <3>3, <4>1, <4>2 DEF Agrees, noticeVars
    <3>4. Agrees(id)'
      <4>1. Agrees(id) /\ <<"fired", id>> \notin more
        BY <1>3, <1>4 DEF AlertInv, NoticesAgree
      <4>2. ~Issued(<<"resolved", id>>)
        BY <2>1, <4>1 DEF Agrees, Open
      <4>3. found[c].notified # Never => rows[id].notified # Never
        BY <1>1, <1>2 DEF AlertInv, WorksWithRows
      <4>4. ~unlocked => found[c].notified = rows[id].notified
        BY <1>1, <1>2 DEF AlertInv, WorksWithRows
      <4>5. CASE found[c].notified = Never
        BY <1>1, <1>3, <1>4, <2>4, <2>5, <3>2, <4>1, <4>2, <4>4, <4>5 DEF Agrees, noticeVars
      <4>6. CASE found[c].notified # Never
        <5>1. told[<<"resolved", id>>] = 0
              /\ \A d \in Collector : <<"resolved", id>> \notin outbox[d]
          BY <4>2 DEF Issued
        <5>2. \A d \in Collector : <<"resolved", id>> \in outbox'[d] <=> d = c
          BY <1>4, <2>1, <3>1, <4>6, <5>1
        <5>3. Single(<<"resolved", id>>)' /\ Issued(<<"resolved", id>>)'
          BY <1>1, <5>1, <5>2 DEF Issued, Single, noticeVars
        <5> QED
          BY <1>1, <1>3, <2>4, <2>5, <3>2, <4>1, <4>3, <4>6, <5>3 DEF Agrees, noticeVars
      <4> QED
        BY <4>5, <4>6
    <3> QED
      BY <1>3, <3>3, <3>4 DEF NoticesAgree
  <2>9. LockHeld'
    BY <1>1 DEF AlertInv, CollectTypeOK, LockHeld, noticeVars
  <2>10. WorksWithRows'
    <3>1. \A j \in DOMAIN rows : j \in DOMAIN rows' /\ rows'[j].notified = rows[j].notified
      BY <2>4, <2>5
    <3> QED
      BY <1>1, <3>1 DEF AlertInv, CollectTypeOK, WorksWithRows, noticeVars
  <2>11. SightingsKept'
    <3>1. \A j \in DOMAIN rows' : /\ j \in DOMAIN rows
                                  /\ Open(j)' => Open(j) /\ rows'[j] = rows[j]
      BY <2>4, <2>5 DEF Open
    <3> QED
      BY <1>1, <3>1 DEF AlertInv, CollectTypeOK, SightingsKept, noticeVars
  <2>12. SeenNotResolved'
    <3>1. ~unlocked => lastSaw[id] < now[c] - Grace
      BY <1>3, <2>1, RowsTyped, AlertConstants DEF AlertInv, SightingsKept
    <3> QED
      BY <1>1, <2>4, <2>5, <3>1 DEF AlertInv, SeenNotResolved, noticeVars
  <2> QED
    BY <2>4, <2>6, <2>7, <2>8, <2>9, <2>10, <2>11, <2>12 DEF AlertInv
<1> QED
  BY <1>5, <1>6

LEMMA CloseMissingInv ==
  ASSUME AlertInv, NEW c \in Collector, CloseMissing(c)
  PROVE  AlertInv'
<1>1. /\ apc[c] = "close" /\ apc' = [apc EXCEPT ![c] = "publish"]
      /\ UNCHANGED <<clock, monitored, lock, began, now, answer, upserted, found, outbox,
                     noticeVars>>
      /\ alertFaults' = alertFaults \/ AlertFault
  BY DEF CloseMissing, AGo, AlertNoFault
<1>2. rows \in Seq(Row) /\ TableTypeOK /\ clock \in Nat /\ DOMAIN rows = 1 .. Len(rows)
      /\ Len(rows) \in Nat /\ \A j \in DOMAIN rows : rows[j] \in Row
  BY RowsTyped, AlertConstants DEF AlertInv, TableTypeOK, NoticeTypeOK
<1>3. \/ rows' = rows
      \/ rows' = [id \in DOMAIN rows |->
                    IF Open(id) /\ rows[id].seen < began[c]
                    THEN [rows[id] EXCEPT !.closed = "dropped", !.at = clock]
                    ELSE rows[id]]
  BY DEF CloseMissing
<1>4. /\ DOMAIN rows' = DOMAIN rows
      /\ \A j \in DOMAIN rows : /\ rows'[j] \in Row
                                /\ rows'[j].notified = rows[j].notified
                                /\ \/ rows'[j] = rows[j]
                                   \/ rows[j].closed = "open" /\ rows'[j].closed = "dropped"
  BY <1>2, <1>3 DEF Row, Open
<1>5. TableTypeOK'
  <2>1. rows' \in [1 .. Len(rows) -> Row]
    <3>1. CASE rows' = rows
      BY <1>2, <3>1, LenProperties
    <3>2. CASE rows' # rows
      <4>1. rows' = [j \in DOMAIN rows |-> rows'[j]]
        BY <1>3, <3>2
      <4> QED
        BY <1>2, <1>4, <4>1
    <3> QED
      BY <3>1, <3>2
  <2>2. rows' \in Seq(Row)
    BY <1>2, <2>1, SeqDef
  <2>3. Len(rows') = Len(rows)
    BY <1>2, <1>4, <2>2, LenProperties
  <2> QED
    BY <1>1, <1>2, <2>2, <2>3 DEF TableTypeOK, noticeVars
<1>6. CollectTypeOK' /\ NoticeTypeOK'
  BY <1>1, AlertConstants DEF AlertInv, CollectTypeOK, NoticeTypeOK, AlertFault, noticeVars
<1>7. NoticesAgree'
  <2>1. \A e : Issued(e)' = Issued(e) /\ (Single(e) => Single(e)')
    BY <1>1 DEF Issued, Single, noticeVars
  <2>2. ASSUME NEW j \in 1 .. MaxRows PROVE Agrees(j)'
    BY <1>1, <1>4, <2>1 DEF AlertInv, NoticesAgree, Agrees, noticeVars
  <2> QED
    BY <2>2 DEF NoticesAgree
<1>8. LockHeld'
  BY <1>1 DEF AlertInv, CollectTypeOK, LockHeld, noticeVars
<1>9. WorksWithRows'
  BY <1>1, <1>4 DEF AlertInv, CollectTypeOK, WorksWithRows, noticeVars
<1>10. SightingsKept'
  <2>1. \A j \in DOMAIN rows : Open(j)' => Open(j) /\ rows'[j] = rows[j]
    BY <1>4 DEF Open
  <2> QED
    BY <1>1, <1>4, <2>1 DEF AlertInv, CollectTypeOK, SightingsKept, noticeVars
<1>11. SeenNotResolved'
  BY <1>1, <1>4 DEF AlertInv, SeenNotResolved, noticeVars
<1> QED
  BY <1>5, <1>6, <1>7, <1>8, <1>9, <1>10, <1>11 DEF AlertInv

(* What a process forgets at the end of a collection, or with its death    *)
LEMMA ForgetKeeps ==
  ASSUME AlertInv, NEW c \in Collector, Forget(c),
         UNCHANGED <<clock, monitored, rows, lastSaw, unlocked>>
  PROVE  /\ TableTypeOK' /\ CollectTypeOK' /\ lock' \in Collector \cup {Nobody}
         /\ LockHeld' /\ WorksWithRows' /\ SightingsKept' /\ SeenNotResolved'
<1> USE DEF Forget, AGo
<1>1. TableTypeOK' /\ SeenNotResolved'
  BY DEF AlertInv, TableTypeOK, SeenNotResolved
<1>2. CollectTypeOK'
  <2>1. Never \in 0 .. MaxClock /\ 0 \in 0 .. MaxRows
        /\ NoFind \in [id : 0 .. MaxRows, notified : Nat]
    BY AlertConstants DEF NoFind, Never
  <2>2. /\ began' \in [Collector -> 0 .. MaxClock] /\ now' \in [Collector -> 0 .. MaxClock]
        /\ upserted' \in [Collector -> 0 .. MaxRows]
        /\ found' \in [Collector -> [id : 0 .. MaxRows, notified : Nat]]
    BY <2>1 DEF AlertInv, CollectTypeOK
  <2>3. /\ answer' \in [Collector -> {"active", "suppressed", "none"}]
        /\ outbox' \in [Collector -> SUBSET Notice]
    BY DEF AlertInv, CollectTypeOK
  <2> QED
    BY <2>2, <2>3 DEF AlertInv, CollectTypeOK
<1>3. lock' \in Collector \cup {Nobody}
  BY DEF AlertInv, NoticeTypeOK
<1>4. LockHeld'
  BY DEF AlertInv, CollectTypeOK, LockHeld
<1>5. WorksWithRows'
  <2>1. now'[c] = Never /\ apc'[c] = "idle" /\ Never <= clock
    BY AlertConstants DEF AlertInv, CollectTypeOK, NoticeTypeOK, Never
  <2>2. ASSUME NEW d \in Collector, d # c
        PROVE  /\ now'[d] = now[d] /\ apc'[d] = apc[d] /\ upserted'[d] = upserted[d]
               /\ found'[d] = found[d]
    BY <2>2 DEF AlertInv, CollectTypeOK
  <2> QED
    BY <2>1, <2>2 DEF AlertInv, WorksWithRows
<1>6. SightingsKept'
  <2>1. \A d \in Collector : apc'[d] = "upsert" => apc[d] = "upsert" /\ now'[d] = now[d]
    BY DEF AlertInv, CollectTypeOK
  <2> QED
    BY <2>1 DEF AlertInv, SightingsKept, Open
<1> QED
  BY <1>1, <1>2, <1>3, <1>4, <1>5, <1>6

(* The notices of a process are lost.                                      *)
LEMMA LostInv ==
  ASSUME AlertInv, NEW c \in Collector, Forget(c), AlertFault,
         UNCHANGED <<clock, monitored, rows, told, lastSaw, unlocked>>,
         muted' = muted \cup {e[2] : e \in outbox[c]}
  PROVE  AlertInv'
<1>1. outbox \in [Collector -> SUBSET Notice] /\ told \in [Notice -> Nat]
      /\ outbox' = [outbox EXCEPT ![c] = {}]
  BY DEF AlertInv, CollectTypeOK, NoticeTypeOK, Forget
<1>2. \A d \in Collector, e \in Notice : e \in outbox'[d] <=> e \in outbox[d] /\ d # c
  BY <1>1
<1>3. NoticeTypeOK'
  <2>1. \A e \in outbox[c] : e[2] \in 1 .. MaxRows
    BY <1>1 DEF Notice
  <2>2. muted' \subseteq 1 .. MaxRows
    BY <2>1 DEF AlertInv, NoticeTypeOK
  <2>3. lock' \in Collector \cup {Nobody}
    BY ForgetKeeps
  <2>4. alertFaults' \in 0 .. MaxAlertFaults
    BY AlertConstants DEF AlertInv, NoticeTypeOK, AlertFault
  <2> QED
    BY <2>2, <2>3, <2>4 DEF AlertInv, NoticeTypeOK
<1>4. ASSUME NEW k \in {"fired", "resolved"}, NEW j \in 1 .. MaxRows
      PROVE  /\ Single(<<k, j>>) => Single(<<k, j>>)'
             /\ Issued(<<k, j>>)' => Issued(<<k, j>>)
             /\ Issued(<<k, j>>) => Issued(<<k, j>>)' \/ j \in muted'
  <2>1. <<k, j>> \in Notice /\ <<k, j>>[2] = j
    BY DEF Notice
  <2>2. <<k, j>> \in outbox[c] => j \in muted'
    BY <2>1
  <2>3. \A d \in Collector : <<k, j>> \in outbox'[d] <=> <<k, j>> \in outbox[d] /\ d # c
    BY <1>2, <2>1
  <2>4. Single(<<k, j>>) => Single(<<k, j>>)'
    BY <2>3 DEF Single
  <2>5. Issued(<<k, j>>)' => Issued(<<k, j>>)
    BY <2>3 DEF Issued
  <2>6. Issued(<<k, j>>) => Issued(<<k, j>>)' \/ j \in muted'
    <3>1. CASE <<k, j>> \in outbox[c]
      BY <2>2, <3>1
    <3>2. CASE <<k, j>> \notin outbox[c]
      BY <2>3, <3>2 DEF Issued
    <3> QED
      BY <3>1, <3>2
  <2> QED
    BY <2>4, <2>5, <2>6
<1>5. NoticesAgree'
  <2>1. ASSUME NEW j \in 1 .. MaxRows PROVE Agrees(j)'
    BY <1>4 DEF AlertInv, NoticesAgree, Agrees
  <2> QED
    BY <2>1 DEF NoticesAgree
<1> QED
  BY <1>3, <1>5, ForgetKeeps DEF AlertInv

(* Publishing turns the notices of a process into published ones; a notice *)
(* that was lost is one of a row that is muted.                            *)
LEMMA PublishInv ==
  ASSUME AlertInv, NEW c \in Collector, Publish(c)
  PROVE  AlertInv'
<1>1. Forget(c) /\ UNCHANGED <<clock, monitored, rows, lastSaw, unlocked>>
      /\ (alertFaults' = alertFaults \/ AlertFault)
  BY DEF Publish, AlertNoFault
<1>2. outbox \in [Collector -> SUBSET Notice] /\ told \in [Notice -> Nat]
      /\ outbox' = [outbox EXCEPT ![c] = {}]
  BY <1>1 DEF AlertInv, CollectTypeOK, NoticeTypeOK, Forget
<1>3. CASE told' = [e \in Notice |-> told[e] + (IF e \in outbox[c] THEN 1 ELSE 0)]
           /\ muted' = muted
  <2>1. NoticeTypeOK'
    <3>1. told' \in [Notice -> Nat]
      BY <1>2, <1>3
    <3> QED
      BY <1>1, <1>3, <3>1, ForgetKeeps, AlertConstants DEF AlertInv, NoticeTypeOK, AlertFault
  <2>2. ASSUME NEW e \in Notice
        PROVE  Issued(e)' = Issued(e) /\ (Single(e) => Single(e)')
    <3>1. told'[e] = IF e \in outbox[c] THEN told[e] + 1 ELSE told[e]
      BY <1>2, <1>3
    <3>2. \A d \in Collector : e \in outbox'[d] <=> e \in outbox[d] /\ d # c
      BY <1>2
    <3>3. told[e] \in Nat
      BY <1>2
    <3> QED
      BY <3>1, <3>2, <3>3 DEF Issued, Single
  <2>3. NoticesAgree'
    <3>1. ASSUME NEW j \in 1 .. MaxRows PROVE Agrees(j)'
      <4>1. <<"fired", j>> \in Notice /\ <<"resolved", j>> \in Notice
        BY DEF Notice
      <4> QED
        BY <1>1, <1>3, <2>2, <4>1 DEF AlertInv, NoticesAgree, Agrees
    <3> QED
      BY <3>1 DEF NoticesAgree
  <2> QED
    BY <1>1, <2>1, <2>3, ForgetKeeps DEF AlertInv
<1>4. CASE told' = told /\ muted' = muted \cup {e[2] : e \in outbox[c]} /\ AlertFault
  BY <1>1, <1>4, LostInv
<1> QED
  BY <1>3, <1>4 DEF Publish

LEMMA CrashCollectorInv ==
  ASSUME AlertInv, NEW c \in Collector, CrashCollector(c)
  PROVE  AlertInv'
BY LostInv DEF CrashCollector

LEMMA AlertStepInv == AlertInv /\ [AlertNext]_alertVars => AlertInv'
<1> SUFFICES ASSUME AlertInv, [AlertNext]_alertVars PROVE AlertInv'
  OBVIOUS
<1>1. ASSUME NEW c \in Collector, CollectorStep(c) PROVE AlertInv'
  BY <1>1, BeginCollectInv, FetchInv, UpsertInv, ClaimInv, ListOpenInv, ResolveAlertInv,
     CloseMissingInv, PublishInv, CrashCollectorInv DEF CollectorStep
<1>2. CASE UNCHANGED alertVars
  <2>1. UNCHANGED <<TableTypeOK, CollectTypeOK, NoticeTypeOK>>
    BY <1>2 DEF alertVars, tableVars, collectVars, noticeVars, TableTypeOK, CollectTypeOK,
                NoticeTypeOK
  <2>2. UNCHANGED <<NoticesAgree, LockHeld, WorksWithRows, SightingsKept, SeenNotResolved>>
    BY <1>2 DEF alertVars, tableVars, collectVars, noticeVars, NoticesAgree, Agrees, Single,
                Issued, LockHeld, WorksWithRows, SightingsKept, SeenNotResolved, Open
  <2> QED
    BY <2>1, <2>2 DEF AlertInv
<1> QED
  BY <1>1, <1>2, TickInv, SwitchMonitoringInv, LoseLockInv DEF AlertNext

(* The invariant holds for any number of processes, rows and ticks, and    *)
(* however often the lock, a call or a process is lost.                    *)
THEOREM AlertInvariance == AlertSpec => []AlertInv
BY AlertInitInv, AlertStepInv, PTL DEF AlertSpec

(* Every variable keeps its type, for any number of processes and rows     *)
(* (collect_stack_alerts.go, postgres_stack_alert.go).                     *)
THEOREM AlertTypeCorrect == AlertSpec => []AlertTypeOK
<1>1. AlertInv => AlertTypeOK
  BY DEF AlertInv, AlertTypeOK, TableTypeOK, CollectTypeOK, NoticeTypeOK, Row
<1> QED
  BY <1>1, AlertInvariance, PTL

(* What PairedNotices counts is one as soon as the notice has been issued. *)
LEMMA GivenIsIssued ==
  ASSUME NEW e, Single(e)
  PROVE  Given(e) = IF Issued(e) THEN 1 ELSE 0
<1>1. CASE told[e] = 1
  <2>1. {c \in Collector : e \in outbox[c]} = {}
    BY <1>1 DEF Single
  <2> QED
    BY <1>1, <2>1, FS_EmptySet DEF Given, Issued
<1>2. CASE told[e] = 0 /\ \E c \in Collector : e \in outbox[c]
  <2>1. PICK c \in Collector : {d \in Collector : e \in outbox[d]} = {c}
    BY <1>2 DEF Single
  <2>2. Cardinality({d \in Collector : e \in outbox[d]}) = 1
    BY <2>1, FS_Singleton
  <2> QED
    BY <1>2, <2>2 DEF Given, Issued
<1>3. CASE told[e] = 0 /\ \A c \in Collector : e \notin outbox[c]
  <2>1. {c \in Collector : e \in outbox[c]} = {}
    BY <1>3
  <2> QED
    BY <1>3, <2>1, FS_EmptySet DEF Given, Issued
<1> QED
  BY <1>1, <1>2, <1>3 DEF Single

(* For each alert one notice says that it began and one that it ended, the *)
(* second only after the first, for any number of processes, lost locks,   *)
(* failing calls and crashes (collect_stack_alerts.go).                    *)
THEOREM AlertNoticesPaired == AlertSpec => []PairedNotices
<1>1. AlertInv => PairedNotices
  <2> SUFFICES ASSUME AlertInv, NEW id \in DOMAIN rows
               PROVE  /\ Given(<<"fired", id>>) <= 1 /\ Given(<<"resolved", id>>) <= 1
                      /\ Given(<<"resolved", id>>) = 1 =>
                            /\ rows[id].closed = "resolved"
                            /\ Given(<<"fired", id>>) = 1 \/ id \in muted
                      /\ (rows[id].closed = "resolved" /\ rows[id].notified # Never /\ ~unlocked)
                            => Given(<<"resolved", id>>) = 1 \/ id \in muted
    BY DEF PairedNotices
  <2>1. id \in 1 .. MaxRows
    BY RowsTyped DEF AlertInv
  <2>2. Agrees(id)
    BY <2>1 DEF AlertInv, NoticesAgree
  <2>3. Given(<<"fired", id>>) = IF Issued(<<"fired", id>>) THEN 1 ELSE 0
    BY <2>2, GivenIsIssued DEF Agrees
  <2>4. Given(<<"resolved", id>>) = IF Issued(<<"resolved", id>>) THEN 1 ELSE 0
    BY <2>2, GivenIsIssued DEF Agrees
  <2> QED
    BY <2>2, <2>3, <2>4 DEF Agrees
<1> QED
  BY <1>1, AlertInvariance, PTL

(* While the lock is kept no alert is resolved that a collection saw less  *)
(* than Grace before, for any number of processes, clocks and grace        *)
(* (postgres_stack_alert.go: Resolve).                                     *)
THEOREM AlertSeenNotResolved == AlertSpec => []SeenNotResolved
<1>1. AlertInv => SeenNotResolved
  BY DEF AlertInv
<1> QED
  BY <1>1, AlertInvariance, PTL

==============================================================================
