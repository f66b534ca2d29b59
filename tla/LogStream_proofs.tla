-------------------------- MODULE LogStream_proofs ---------------------------
(***************************************************************************)
(* Proofs about LogStream for every number of goroutines, screens and      *)
(* lines, every size of the channels and of the history, and however often *)
(* the process restarts in between.                                        *)
(***************************************************************************)
EXTENDS LogStream, SequenceTheorems, TLAPS

(* No line stands twice in s.                                              *)
Distinct(s) == \A i, j \in 1 .. Len(s) : s[i] = s[j] => i = j

(* the types, in parts                                                     *)
HistoryTypeOK ==
    /\ streamed \in 0 .. MaxLines /\ stored \in Seq(Line) /\ memory \in Seq(Line)
    /\ clears \in 0 .. MaxClears /\ logFaults \in 0 .. MaxLogFaults

SenderTypeOK ==
    /\ ppc \in [Publisher -> {"idle", "remember", "send", "clear"}]
    /\ line \in [Publisher -> 0 .. MaxLines] /\ pending \in [Publisher -> SUBSET Viewer]

ViewerTypeOK ==
    /\ listeners \subseteq Viewer
    /\ vpc \in [Viewer -> {"off", "list", "subscribe", "on", "gone"}]
    /\ seed \in [Viewer -> Seq(Line)] /\ channel \in [Viewer -> Seq(Line)]
    /\ taken \in [Viewer -> Nat] /\ room \in [Viewer -> Nat]
    /\ dropped \in [Viewer -> SUBSET Line] /\ seeded \in [Viewer -> BOOLEAN]

(* Who has subscribed and not left is a listener; a copy of the subscribers *)
(* may hold one that has left, and nobody who has not come.                *)
Listening ==
    /\ \A v \in Viewer : /\ v \in listeners <=> vpc[v] = "on"
                         /\ vpc[v] # "on" => channel[v] = <<>>
    /\ \A p \in Publisher : /\ \A v \in pending[p] : vpc[v] \in {"on", "gone"}
                            /\ pending[p] # {} => ppc[p] = "send"

(* Nothing was read from the store for a viewer that found history.        *)
SeedsKnown ==
    \A v \in Viewer : /\ vpc[v] = "off" => seed[v] = <<>>
                      /\ vpc[v] = "list" => seeded[v]
                      /\ vpc[v] = "subscribe" /\ ~seeded[v] => seed[v] = <<>>

Holding(p) == ppc[p] \in {"remember", "send"}

(* Lines are numbered as they come, and each is in one publisher's hands.  *)
Numbered ==
    /\ \A n \in ToSet(stored) \cup ToSet(memory) : n <= streamed
    /\ \A v \in Viewer, n \in Line : n \in ToSet(channel[v]) \cup ToSet(seed[v]) => n <= streamed
    /\ \A p \in Publisher : Holding(p) => line[p] \in Line /\ line[p] <= streamed
    /\ \A p, q \in Publisher : Holding(p) /\ Holding(q) /\ line[p] = line[q] => p = q

(* A line that is not remembered yet is nowhere but in the store, and one  *)
(* that has still to be sent to a viewer is not in its channel.            *)
NotYetThere ==
    /\ \A p \in Publisher : ppc[p] = "remember" =>
          /\ line[p] \notin ToSet(memory)
          /\ \A v \in Viewer : ~seeded[v] => line[p] \notin ToSet(channel[v])
    /\ \A p \in Publisher : \A v \in pending[p] :
          ~seeded[v] => line[p] \notin ToSet(channel[v])

LogInv ==
    /\ HistoryTypeOK /\ SenderTypeOK /\ ViewerTypeOK /\ Listening /\ SeedsKnown
    /\ Numbered /\ NotYetThere /\ Distinct(memory) /\ OnceOnly /\ NothingMissed

-----------------------------------------------------------------------------
(* Sequences of lines                                                      *)

LEMMA LogConstants ==
    /\ Buffer \in Nat \ {0} /\ MaxHistory \in Nat \ {0}
    /\ MaxLines \in Nat /\ MaxClears \in Nat /\ MaxLogFaults \in Nat
BY LogSizeAssumption, LogBoundAssumption

LEMMA NoLines == <<>> \in Seq(Line) /\ ToSet(<<>>) = {} /\ Distinct(<<>>)
BY DEF ToSet, Distinct

LEMMA LinesOf ==
  ASSUME NEW s \in Seq(Line)
  PROVE  /\ Len(s) \in Nat /\ ToSet(s) \subseteq Line
         /\ \A n : n \in ToSet(s) <=> \E i \in 1 .. Len(s) : s[i] = n
<1>1. Len(s) \in Nat /\ DOMAIN s = 1 .. Len(s) /\ \A i \in 1 .. Len(s) : s[i] \in Line
  BY LenProperties, ElementOfSeq
<1> QED
  BY <1>1 DEF ToSet

LEMMA AppendLine ==
  ASSUME NEW s \in Seq(Line), NEW n \in Line
  PROVE  /\ Append(s, n) \in Seq(Line) /\ ToSet(Append(s, n)) = ToSet(s) \cup {n}
         /\ Distinct(s) /\ n \notin ToSet(s) => Distinct(Append(s, n))
<1>1. /\ Append(s, n) \in Seq(Line) /\ Len(Append(s, n)) = Len(s) + 1
      /\ \A i \in 1 .. Len(s) : Append(s, n)[i] = s[i]
      /\ Append(s, n)[Len(s) + 1] = n
  BY AppendProperties
<1>2. Len(s) \in Nat
  BY LinesOf
<1>3. ToSet(Append(s, n)) = ToSet(s) \cup {n}
  <2>1. \A i \in 1 .. Len(s) + 1 : Append(s, n)[i] \in ToSet(s) \cup {n}
    BY <1>1, <1>2, LinesOf
  <2>2. \A x \in ToSet(s) \cup {n} : \E i \in 1 .. Len(s) + 1 : Append(s, n)[i] = x
    <3>1. \A x \in ToSet(s) : \E i \in 1 .. Len(s) : Append(s, n)[i] = x
      BY <1>1, LinesOf
    <3> QED
      BY <1>1, <1>2, <3>1
  <2>3. \A x : x \in ToSet(Append(s, n)) <=> \E i \in 1 .. Len(s) + 1 : Append(s, n)[i] = x
    BY <1>1, LinesOf
  <2> QED
    BY <2>1, <2>2, <2>3
<1>4. ASSUME Distinct(s), n \notin ToSet(s) PROVE Distinct(Append(s, n))
  <2>1. \A i \in 1 .. Len(s) : s[i] # n
    BY <1>4, LinesOf
  <2> QED
    BY <1>1, <1>2, <1>4, <2>1 DEF Distinct
<1> QED
  BY <1>1, <1>3, <1>4

LEMMA ConcatLines ==
  ASSUME NEW s \in Seq(Line), NEW t \in Seq(Line)
  PROVE  /\ s \o t \in Seq(Line) /\ ToSet(s \o t) = ToSet(s) \cup ToSet(t)
         /\ s = <<>> => s \o t = t
<1>1. /\ s \o t \in Seq(Line) /\ Len(s \o t) = Len(s) + Len(t)
      /\ \A i \in 1 .. Len(s) + Len(t) : (s \o t)[i] = IF i <= Len(s) THEN s[i] ELSE t[i - Len(s)]
  BY ConcatProperties
<1>2. Len(s) \in Nat /\ Len(t) \in Nat
  BY LinesOf
<1>3. \A x : x \in ToSet(s \o t) <=> \E i \in 1 .. Len(s) + Len(t) : (s \o t)[i] = x
  BY <1>1, LinesOf
<1>4. ToSet(s \o t) \subseteq ToSet(s) \cup ToSet(t)
  <2>1. \A i \in 1 .. Len(s) + Len(t) : (s \o t)[i] \in ToSet(s) \cup ToSet(t)
    <3>1. ASSUME NEW i \in 1 .. Len(s) + Len(t) PROVE (s \o t)[i] \in ToSet(s) \cup ToSet(t)
      <4>1. CASE i <= Len(s)
        BY <1>1, <1>2, <4>1, LinesOf
      <4>2. CASE ~(i <= Len(s))
        <5>1. i - Len(s) \in 1 .. Len(t)
          BY <1>2, <4>2
        <5> QED
          BY <1>1, <4>2, <5>1, LinesOf
      <4> QED
        BY <4>1, <4>2
    <3> QED
      BY <3>1
  <2> QED
    BY <1>3, <2>1
<1>5. ToSet(s) \subseteq ToSet(s \o t)
  <2>1. \A i \in 1 .. Len(s) : i \in 1 .. Len(s) + Len(t) /\ (s \o t)[i] = s[i]
    BY <1>1, <1>2
  <2> QED
    BY <1>3, <2>1, LinesOf
<1>6. ToSet(t) \subseteq ToSet(s \o t)
  <2>1. \A i \in 1 .. Len(t) : Len(s) + i \in 1 .. Len(s) + Len(t) /\ (s \o t)[Len(s) + i] = t[i]
    BY <1>1, <1>2
  <2> QED
    BY <1>3, <2>1, LinesOf
<1>7. s = <<>> => s \o t = t
  BY ConcatEmptySeq
<1> QED
  BY <1>1, <1>4, <1>5, <1>6, <1>7

(* What the history keeps of the lines it is given, when it is cut.        *)
LEMMA LatestLines ==
  ASSUME NEW s \in Seq(Line)
  PROVE  /\ Latest(s) \in Seq(Line) /\ ToSet(Latest(s)) \subseteq ToSet(s)
         /\ Distinct(s) => Distinct(Latest(s))
<1>1. Len(s) \in Nat
  BY LinesOf
<1>2. CASE Len(s) <= MaxHistory
  BY <1>2 DEF Latest
<1>3. CASE ~(Len(s) <= MaxHistory)
  <2> DEFINE m == Len(s) - MaxHistory + 1
  <2>1. Latest(s) = SubSeq(s, m, Len(s))
    BY <1>3 DEF Latest
  <2>2. m \in Int /\ m >= 1 /\ m <= Len(s)
    BY <1>1, <1>3, LogConstants
  <2> HIDE DEF m
  <2>3. \A i \in m .. Len(s) : s[i] \in Line
    BY <1>1, <2>2, ElementOfSeq
  <2>4. /\ Latest(s) \in Seq(Line) /\ Len(Latest(s)) = Len(s) - m + 1
        /\ \A i \in 1 .. Len(s) - m + 1 : Latest(s)[i] = s[m + i - 1]
    BY <1>1, <2>1, <2>2, <2>3, SubSeqProperties
  <2>5. \A i \in 1 .. Len(s) - m + 1 : m + i - 1 \in 1 .. Len(s)
    BY <1>1, <2>2
  <2>6. ToSet(Latest(s)) \subseteq ToSet(s)
    BY <2>4, <2>5, LinesOf
  <2>7. ASSUME Distinct(s) PROVE Distinct(Latest(s))
    BY <1>1, <2>2, <2>4, <2>5, <2>7 DEF Distinct
  <2> QED
    BY <2>4, <2>6, <2>7
<1> QED
  BY <1>2, <1>3

-----------------------------------------------------------------------------
(* Each step keeps the invariant.                                          *)

LEMMA LogInitInv == LogInit => LogInv
<1> SUFFICES ASSUME LogInit PROVE LogInv
  OBVIOUS
<1> USE DEF LogInit
<1>1. 0 \in 0 .. MaxLines /\ 0 \in 0 .. MaxClears /\ 0 \in 0 .. MaxLogFaults
  BY LogConstants
<1>2. HistoryTypeOK /\ SenderTypeOK
  BY <1>1, NoLines DEF HistoryTypeOK, SenderTypeOK
<1>3. ViewerTypeOK
  BY NoLines DEF ViewerTypeOK
<1>4. Listening /\ SeedsKnown /\ NotYetThere
  BY NoLines DEF Listening, SeedsKnown, NotYetThere
<1>5. Numbered
  BY NoLines DEF Numbered, Holding
<1>6. Distinct(memory) /\ OnceOnly /\ NothingMissed
  BY NoLines DEF OnceOnly, NothingMissed
<1> QED
  BY <1>2, <1>3, <1>4, <1>5, <1>6 DEF LogInv

(* The number of the line is new: nobody has it in hand or has been sent it.*)
LEMMA StoreLineInv ==
  ASSUME LogInv, NEW p \in Publisher, StoreLine(p)
  PROVE  LogInv'
<1> USE DEF LogInv
<1>1. /\ ppc[p] = "idle" /\ ppc' = [ppc EXCEPT ![p] = "remember"]
      /\ line' = [line EXCEPT ![p] = streamed + 1] /\ streamed' = streamed + 1
      /\ UNCHANGED <<memory, pending, viewerVars, clears>>
  BY DEF StoreLine, PGo
<1>2. streamed \in Nat /\ streamed + 1 \in Line /\ streamed + 1 \in 0 .. MaxLines
  BY LogConstants DEF StoreLine, HistoryTypeOK, Line
<1>3. stored' \in Seq(Line) /\ ToSet(stored') \subseteq ToSet(stored) \cup {streamed + 1}
  BY <1>2, AppendLine DEF StoreLine, HistoryTypeOK
<1>4. logFaults' \in 0 .. MaxLogFaults
  BY LogConstants DEF StoreLine, LogFault, LogNoFault, HistoryTypeOK
<1>5. /\ ppc'[p] = "remember" /\ line'[p] = streamed + 1
      /\ \A q \in Publisher \ {p} : ppc'[q] = ppc[q] /\ line'[q] = line[q]
  BY <1>1 DEF SenderTypeOK
<1>6. \A x \in Line : x <= streamed => x # streamed + 1 /\ x <= streamed + 1
  BY <1>2, LogConstants DEF Line
<1>7. HistoryTypeOK'
  BY <1>1, <1>2, <1>3, <1>4 DEF HistoryTypeOK
<1>8. SenderTypeOK'
  BY <1>1, <1>2 DEF SenderTypeOK
<1>9. ViewerTypeOK'
  BY <1>1 DEF ViewerTypeOK, viewerVars
<1>10. Listening'
  BY <1>1, <1>5 DEF Listening, viewerVars
<1>11. SeedsKnown'
  BY <1>1 DEF SeedsKnown, viewerVars
<1>12. Numbered'
  <2>1. \A n \in (ToSet(stored) \cup ToSet(memory))' : n <= streamed'
    <3>1. ToSet(stored) \subseteq Line /\ ToSet(memory) \subseteq Line
      BY LinesOf DEF HistoryTypeOK
    <3>2. \A n \in ToSet(stored) \cup ToSet(memory) : n <= streamed + 1
      BY <1>6, <3>1 DEF Numbered
    <3> QED
      BY <1>1, <1>2, <1>3, <3>2
  <2>2. (\A w \in Viewer, n \in Line : n \in ToSet(channel[w]) \cup ToSet(seed[w]) => n <= streamed)'
    BY <1>1, <1>6 DEF Numbered, viewerVars
  <2>3. \A q \in Publisher : Holding(q)' => line'[q] \in Line /\ line'[q] <= streamed'
    BY <1>1, <1>2, <1>5, <1>6 DEF Numbered, Holding
  <2>4. \A q, r \in Publisher : Holding(q)' /\ Holding(r)' /\ line'[q] = line'[r] => q = r
    BY <1>5, <1>6 DEF Numbered, Holding
  <2> QED
    BY <2>1, <2>2, <2>3, <2>4 DEF Numbered
<1>13. NotYetThere'
  <2>1. pending[p] = {}
    BY <1>1 DEF Listening
  <2>2. streamed + 1 \notin ToSet(memory) /\ \A w \in Viewer : streamed + 1 \notin ToSet(channel[w])
    BY <1>2 DEF Numbered, Line
  <2>3. ASSUME NEW q \in Publisher, ppc'[q] = "remember"
        PROVE  /\ line'[q] \notin ToSet(memory)
               /\ \A w \in Viewer : ~seeded[w] => line'[q] \notin ToSet(channel[w])
    BY <1>5, <2>2, <2>3 DEF NotYetThere
  <2>4. \A q \in Publisher : \A w \in pending[q] : ~seeded[w] => line'[q] \notin ToSet(channel[w])
    BY <1>5, <2>1 DEF NotYetThere
  <2> QED
    BY <1>1, <2>3, <2>4 DEF NotYetThere, viewerVars
<1>14. Distinct(memory)'
  BY <1>1
<1>15. OnceOnly'
  BY <1>1 DEF OnceOnly, viewerVars
<1>16. NothingMissed'
  BY <1>1, <1>5 DEF NothingMissed, viewerVars
<1> QED
  BY <1>7, <1>8, <1>9, <1>10, <1>11, <1>12, <1>13, <1>14, <1>15, <1>16 DEF LogInv

(* Under the lock the line enters the history and the copy of subscribers  *)
(* is taken: from here on each of them is going to be sent it.             *)
LEMMA RememberInv ==
  ASSUME LogInv, NEW p \in Publisher, Remember(p)
  PROVE  LogInv'
<1> USE DEF LogInv
<1>1. /\ ppc[p] = "remember" /\ ppc' = [ppc EXCEPT ![p] = "send"]
      /\ memory' = Latest(Append(memory, line[p])) /\ pending' = [pending EXCEPT ![p] = listeners]
      /\ UNCHANGED <<streamed, stored, line, viewerVars, clears, logFaults>>
  BY DEF Remember, PGo
<1>2. line[p] \in Line /\ line[p] <= streamed /\ line[p] \notin ToSet(memory)
  BY <1>1 DEF Numbered, Holding, NotYetThere
<1>3. /\ memory' \in Seq(Line) /\ ToSet(memory') \subseteq ToSet(memory) \cup {line[p]}
      /\ Distinct(memory')
  <2>1. /\ Append(memory, line[p]) \in Seq(Line) /\ Distinct(Append(memory, line[p]))
        /\ ToSet(Append(memory, line[p])) = ToSet(memory) \cup {line[p]}
    BY <1>2, AppendLine DEF HistoryTypeOK
  <2> QED
    BY <1>1, <2>1, LatestLines
<1>4. /\ ppc'[p] = "send" /\ pending'[p] = listeners
      /\ \A q \in Publisher \ {p} : ppc'[q] = ppc[q] /\ pending'[q] = pending[q]
  BY <1>1 DEF SenderTypeOK
<1>5. HistoryTypeOK'
  BY <1>1, <1>3 DEF HistoryTypeOK
<1>6. SenderTypeOK'
  BY <1>1 DEF SenderTypeOK, ViewerTypeOK, viewerVars
<1>7. ViewerTypeOK'
  BY <1>1 DEF ViewerTypeOK, viewerVars
<1>8. Listening'
  BY <1>1, <1>4 DEF Listening, ViewerTypeOK, viewerVars
<1>9. SeedsKnown'
  BY <1>1 DEF SeedsKnown, viewerVars
<1>10. Numbered'
  <2>1. \A q \in Publisher : Holding(q)' <=> Holding(q)
    BY <1>1, <1>4 DEF Holding
  <2>2. \A n \in ToSet(stored) \cup ToSet(memory') : n <= streamed
    BY <1>2, <1>3 DEF Numbered
  <2> QED
    BY <1>1, <2>1, <2>2 DEF Numbered, viewerVars
<1>11. NotYetThere'
  <2>1. ASSUME NEW q \in Publisher, ppc'[q] = "remember"
        PROVE  /\ line[q] \notin ToSet(memory')
               /\ \A w \in Viewer : ~seeded[w] => line[q] \notin ToSet(channel[w])
    <3>1. q # p /\ ppc[q] = "remember"
      BY <1>4, <2>1
    <3>2. line[q] # line[p]
      BY <1>1, <3>1 DEF Numbered, Holding
    <3> QED
      BY <1>3, <3>1, <3>2 DEF NotYetThere
  <2>2. \A q \in Publisher : \A w \in pending'[q] : ~seeded[w] => line[q] \notin ToSet(channel[w])
    BY <1>1, <1>4 DEF NotYetThere, ViewerTypeOK
  <2> QED
    BY <1>1, <2>1, <2>2 DEF NotYetThere, viewerVars
<1>12. Distinct(memory)'
  BY <1>3 DEF Distinct
<1>13. OnceOnly'
  BY <1>1 DEF OnceOnly, viewerVars
<1>14. NothingMissed'
  <2> SUFFICES ASSUME NEW w \in listeners, NEW n \in ToSet(memory')
               PROVE  \/ n \in ToSet(channel[w]) \/ n \in dropped[w]
                      \/ \E q \in Publisher : ppc'[q] = "send" /\ line[q] = n /\ w \in pending'[q]
    BY <1>1 DEF NothingMissed, viewerVars
  <2>1. CASE n = line[p]
    BY <1>4, <2>1
  <2>2. CASE n \in ToSet(memory)
    BY <1>1, <1>4, <2>2 DEF NothingMissed
  <2> QED
    BY <1>3, <2>1, <2>2
<1> QED
  BY <1>5, <1>6, <1>7, <1>8, <1>9, <1>10, <1>11, <1>12, <1>13, <1>14 DEF LogInv

(* The line comes to a screen that did not have it, or finds no room.      *)
LEMMA SendOneInv ==
  ASSUME LogInv, NEW p \in Publisher, NEW v \in pending[p], v \in listeners,
         pending' = [pending EXCEPT ![p] = @ \ {v}],
         \/ channel' = [channel EXCEPT ![v] = Append(@, line[p])] /\ UNCHANGED dropped
         \/ dropped' = [dropped EXCEPT ![v] = @ \cup {line[p]}] /\ UNCHANGED channel,
         UNCHANGED <<historyVars, ppc, line, listeners, vpc, seed, taken, room, seeded, clears,
                     logFaults>>
  PROVE  LogInv'
<1> USE DEF LogInv
<1> USE DEF historyVars
<1>1. v \in Viewer /\ ppc[p] = "send" /\ line[p] \in Line /\ line[p] <= streamed
  BY DEF ViewerTypeOK, Listening, Numbered, Holding
<1>2. pending'[p] = pending[p] \ {v} /\ \A q \in Publisher \ {p} : pending'[q] = pending[q]
  BY DEF SenderTypeOK
<1>3. \A w \in Viewer : /\ channel'[w] \in Seq(Line) /\ dropped'[w] \subseteq Line
                        /\ ToSet(channel[w]) \subseteq ToSet(channel'[w])
                        /\ ToSet(channel'[w]) \subseteq ToSet(channel[w]) \cup {line[p]}
                        /\ dropped[w] \subseteq dropped'[w]
                        /\ w # v => channel'[w] = channel[w]
  <2>1. \A w \in Viewer : channel[w] \in Seq(Line) /\ dropped[w] \subseteq Line
    BY DEF ViewerTypeOK
  <2>2. Append(channel[v], line[p]) \in Seq(Line)
        /\ ToSet(Append(channel[v], line[p])) = ToSet(channel[v]) \cup {line[p]}
    BY <1>1, <2>1, AppendLine
  <2>3. \A w \in Viewer \ {v} : channel'[w] = channel[w] /\ dropped'[w] = dropped[w]
    BY <1>1 DEF ViewerTypeOK
  <2>4. CASE channel' = [channel EXCEPT ![v] = Append(@, line[p])] /\ UNCHANGED dropped
    <3>1. channel'[v] = Append(channel[v], line[p])
      BY <1>1, <2>4 DEF ViewerTypeOK
    <3> QED
      BY <2>1, <2>2, <2>3, <2>4, <3>1
  <2>5. CASE dropped' = [dropped EXCEPT ![v] = @ \cup {line[p]}] /\ UNCHANGED channel
    <3>1. dropped'[v] = dropped[v] \cup {line[p]}
      BY <1>1, <2>5 DEF ViewerTypeOK
    <3> QED
      BY <1>1, <2>1, <2>3, <2>5, <3>1
  <2> QED
    BY <2>4, <2>5
<1>4. line[p] \in ToSet(channel'[v]) \/ line[p] \in dropped'[v]
  <2>1. CASE channel' = [channel EXCEPT ![v] = Append(@, line[p])]
    <3>1. channel[v] \in Seq(Line) /\ channel'[v] = Append(channel[v], line[p])
      BY <1>1, <2>1 DEF ViewerTypeOK
    <3> QED
      BY <1>1, <3>1, AppendLine
  <2>2. CASE dropped' = [dropped EXCEPT ![v] = @ \cup {line[p]}]
    BY <1>1, <2>2 DEF ViewerTypeOK
  <2> QED
    BY <2>1, <2>2
<1>5. ~seeded[v] => line[p] \notin ToSet(channel[v])
  BY DEF NotYetThere
<1>6. ~seeded[v] => Distinct(channel'[v])
  <2>1. channel[v] \in Seq(Line) /\ (~seeded[v] => Distinct(channel[v]))
    BY <1>1 DEF ViewerTypeOK, OnceOnly, Distinct
  <2>2. \/ channel'[v] = Append(channel[v], line[p])
        \/ channel'[v] = channel[v]
    BY <1>1 DEF ViewerTypeOK
  <2> QED
    BY <1>1, <1>5, <2>1, <2>2, AppendLine
<1>7. \A q \in Publisher : Holding(q) /\ q # p => line[q] # line[p]
  BY <1>1 DEF Numbered, Holding
<1>8. HistoryTypeOK'
  BY DEF HistoryTypeOK
<1>9. SenderTypeOK'
  <2>1. pending[p] \ {v} \in SUBSET Viewer
    BY DEF SenderTypeOK
  <2> QED
    BY <2>1 DEF SenderTypeOK
<1>10. ViewerTypeOK'
  <2>1. channel' \in [Viewer -> Seq(Line)] /\ dropped' \in [Viewer -> SUBSET Line]
    <3>1. DOMAIN channel' = Viewer /\ channel' = [w \in Viewer |-> channel'[w]]
      BY DEF ViewerTypeOK
    <3>2. DOMAIN dropped' = Viewer /\ dropped' = [w \in Viewer |-> dropped'[w]]
      BY DEF ViewerTypeOK
    <3> QED
      BY <1>3, <3>1, <3>2
  <2> QED
    BY <2>1 DEF ViewerTypeOK
<1>11. Listening'
  <2>1. \A w \in Viewer : vpc[w] # "on" => channel'[w] = <<>>
    BY <1>1, <1>3 DEF Listening
  <2>2. \A q \in Publisher : pending'[q] \subseteq pending[q]
    BY <1>2
  <2> QED
    BY <2>1, <2>2 DEF Listening
<1>12. SeedsKnown'
  BY DEF SeedsKnown
<1>13. Numbered'
  <2>1. \A w \in Viewer, n \in Line : n \in ToSet(channel'[w]) \cup ToSet(seed[w]) => n <= streamed
    BY <1>1, <1>3 DEF Numbered
  <2> QED
    BY <2>1 DEF Numbered, Holding
<1>14. NotYetThere'
  <2>1. ASSUME NEW q \in Publisher, ppc[q] = "remember", NEW w \in Viewer, ~seeded[w]
        PROVE  line[q] \notin ToSet(channel'[w])
    <3>1. line[q] # line[p]
      BY <1>1, <1>7, <2>1 DEF Holding
    <3> QED
      BY <1>3, <2>1, <3>1 DEF NotYetThere
  <2>2. ASSUME NEW q \in Publisher, NEW w \in pending'[q], ~seeded[w]
        PROVE  line[q] \notin ToSet(channel'[w])
    <3>1. w \in pending[q] /\ w \in Viewer /\ ppc[q] = "send"
      BY <1>2, <2>2 DEF SenderTypeOK, Listening
    <3>2. line[q] \notin ToSet(channel[w])
      BY <2>2, <3>1 DEF NotYetThere
    <3>3. CASE q = p
      BY <1>2, <1>3, <2>2, <3>1, <3>2, <3>3
    <3>4. CASE q # p
      BY <1>3, <1>7, <3>1, <3>2, <3>4 DEF Holding
    <3> QED
      BY <3>3, <3>4
  <2> QED
    BY <2>1, <2>2 DEF NotYetThere
<1>15. Distinct(memory)'
  OBVIOUS
<1>16. OnceOnly'
  <2>1. \A w \in listeners : ~seeded[w] => Distinct(channel'[w])
    BY <1>3, <1>6 DEF OnceOnly, Distinct, ViewerTypeOK
  <2> QED
    BY <2>1 DEF OnceOnly, Distinct
<1>17. NothingMissed'
  <2> SUFFICES ASSUME NEW w \in listeners, NEW n \in ToSet(memory)
               PROVE  \/ n \in ToSet(channel'[w]) \/ n \in dropped'[w]
                      \/ \E q \in Publisher : ppc[q] = "send" /\ line[q] = n /\ w \in pending'[q]
    BY DEF NothingMissed
  <2>1. w \in Viewer
    BY DEF ViewerTypeOK
  <2>2. CASE n \in ToSet(channel[w]) \/ n \in dropped[w]
    BY <1>3, <2>1, <2>2
  <2>3. CASE \E q \in Publisher : ppc[q] = "send" /\ line[q] = n /\ w \in pending[q]
    BY <1>2, <1>4, <2>3
  <2> QED
    BY <2>2, <2>3 DEF NothingMissed
<1> QED
  BY <1>8, <1>9, <1>10, <1>11, <1>12, <1>13, <1>14, <1>15, <1>16, <1>17 DEF LogInv

LEMMA ProcessEndsInv ==
  ASSUME LogInv, ProcessEnds, logFaults' \in 0 .. MaxLogFaults
  PROVE  LogInv'
<1> USE DEF LogInv
<1> USE DEF ProcessEnds
<1>1. 0 \in 0 .. MaxLines
  BY LogConstants
<1>2. HistoryTypeOK' /\ SenderTypeOK'
  BY <1>1, NoLines DEF HistoryTypeOK, SenderTypeOK
<1>3. ViewerTypeOK'
  BY NoLines DEF ViewerTypeOK
<1>4. Listening' /\ SeedsKnown' /\ NotYetThere'
  BY NoLines DEF Listening, SeedsKnown, NotYetThere
<1>5. Numbered'
  BY NoLines DEF Numbered, Holding
<1>6. Distinct(memory)' /\ OnceOnly' /\ NothingMissed'
  BY NoLines DEF OnceOnly, NothingMissed
<1> QED
  BY <1>2, <1>3, <1>4, <1>5, <1>6 DEF LogInv

LEMMA SendInv ==
  ASSUME LogInv, NEW p \in Publisher, Send(p)
  PROVE  LogInv'
<1> PICK v \in pending[p] :
        \/ /\ v \in listeners /\ pending' = [pending EXCEPT ![p] = @ \ {v}]
           /\ \/ HasRoom(v) /\ channel' = [channel EXCEPT ![v] = Append(@, line[p])]
                            /\ UNCHANGED dropped
              \/ ~HasRoom(v) /\ dropped' = [dropped EXCEPT ![v] = @ \cup {line[p]}]
                             /\ UNCHANGED channel
           /\ UNCHANGED <<historyVars, ppc, line, listeners, vpc, seed, taken, room, seeded,
                          clears, logFaults>>
        \/ v \notin listeners /\ ProcessEnds /\ LogNoFault
  BY DEF Send
<1>1. CASE v \in listeners
  BY <1>1, SendOneInv
<1>2. CASE v \notin listeners
  <2>1. ProcessEnds /\ logFaults' \in 0 .. MaxLogFaults
    BY <1>2 DEF LogNoFault, LogInv, HistoryTypeOK
  <2> QED
    BY <2>1, ProcessEndsInv
<1> QED
  BY <1>1, <1>2

LEMMA SentInv ==
  ASSUME LogInv, NEW p \in Publisher, Sent(p)
  PROVE  LogInv'
<1> USE DEF LogInv
<1>1. /\ ppc[p] = "send" /\ pending[p] = {} /\ ppc' = [ppc EXCEPT ![p] = "idle"]
      /\ line' = [line EXCEPT ![p] = 0]
      /\ UNCHANGED <<historyVars, pending, viewerVars, clears, logFaults>>
  BY DEF Sent, PGo
<1>2. 0 \in 0 .. MaxLines
  BY LogConstants
<1>3. /\ ppc'[p] = "idle" /\ line'[p] = 0
      /\ \A q \in Publisher \ {p} : ppc'[q] = ppc[q] /\ line'[q] = line[q]
  BY <1>1 DEF SenderTypeOK
<1>4. HistoryTypeOK'
  BY <1>1 DEF HistoryTypeOK, historyVars
<1>5. SenderTypeOK'
  BY <1>1, <1>2 DEF SenderTypeOK
<1>6. ViewerTypeOK'
  BY <1>1 DEF ViewerTypeOK, viewerVars
<1>7. Listening'
  BY <1>1, <1>3 DEF Listening, viewerVars
<1>8. SeedsKnown'
  BY <1>1 DEF SeedsKnown, viewerVars
<1>9. Numbered'
  BY <1>1, <1>3 DEF Numbered, Holding, historyVars, viewerVars
<1>10. NotYetThere'
  BY <1>1, <1>3 DEF NotYetThere, historyVars, viewerVars
<1>11. Distinct(memory)'
  BY <1>1 DEF historyVars
<1>12. OnceOnly'
  BY <1>1 DEF OnceOnly, viewerVars
<1>13. NothingMissed'
  BY <1>1, <1>3 DEF NothingMissed, historyVars, viewerVars
<1> QED
  BY <1>4, <1>5, <1>6, <1>7, <1>8, <1>9, <1>10, <1>11, <1>12, <1>13 DEF LogInv

LEMMA ClearMemoryInv ==
  ASSUME LogInv, NEW p \in Publisher, ClearMemory(p)
  PROVE  LogInv'
<1> USE DEF LogInv
<1>1. /\ ppc[p] = "idle" /\ clears < MaxClears /\ clears' = clears + 1
      /\ ppc' = [ppc EXCEPT ![p] = "clear"] /\ memory' = <<>>
      /\ UNCHANGED <<streamed, stored, line, pending, viewerVars, logFaults>>
  BY DEF ClearMemory, PGo
<1>2. ppc'[p] = "clear" /\ \A q \in Publisher \ {p} : ppc'[q] = ppc[q]
  BY <1>1 DEF SenderTypeOK
<1>3. memory' \in Seq(Line) /\ ToSet(memory') = {} /\ Distinct(memory')
  BY <1>1, NoLines
<1>4. HistoryTypeOK'
  BY <1>1, <1>3, LogConstants DEF HistoryTypeOK
<1>5. SenderTypeOK'
  BY <1>1 DEF SenderTypeOK
<1>6. ViewerTypeOK'
  BY <1>1 DEF ViewerTypeOK, viewerVars
<1>7. Listening'
  BY <1>1, <1>2 DEF Listening, viewerVars
<1>8. SeedsKnown'
  BY <1>1 DEF SeedsKnown, viewerVars
<1>9. Numbered'
  BY <1>1, <1>2, <1>3 DEF Numbered, Holding, viewerVars
<1>10. NotYetThere'
  BY <1>1, <1>2, <1>3 DEF NotYetThere, viewerVars
<1>11. Distinct(memory)'
  BY <1>3 DEF Distinct
<1>12. OnceOnly'
  BY <1>1 DEF OnceOnly, viewerVars
<1>13. NothingMissed'
  BY <1>3 DEF NothingMissed
<1> QED
  BY <1>4, <1>5, <1>6, <1>7, <1>8, <1>9, <1>10, <1>11, <1>12, <1>13 DEF LogInv

LEMMA ClearStoreInv ==
  ASSUME LogInv, NEW p \in Publisher, ClearStore(p)
  PROVE  LogInv'
<1> USE DEF LogInv
<1>1. /\ ppc[p] = "clear" /\ ppc' = [ppc EXCEPT ![p] = "idle"] /\ stored' \in {<<>>, stored}
      /\ UNCHANGED <<streamed, memory, line, pending, viewerVars, clears>>
  BY DEF ClearStore, PGo
<1>2. logFaults' \in 0 .. MaxLogFaults
  BY LogConstants DEF ClearStore, LogFault, LogNoFault, HistoryTypeOK
<1>3. ppc'[p] = "idle" /\ \A q \in Publisher \ {p} : ppc'[q] = ppc[q]
  BY <1>1 DEF SenderTypeOK
<1>4. stored' \in Seq(Line) /\ ToSet(stored') \subseteq ToSet(stored)
  BY <1>1, NoLines DEF HistoryTypeOK
<1>5. HistoryTypeOK'
  BY <1>1, <1>2, <1>4 DEF HistoryTypeOK
<1>6. SenderTypeOK'
  BY <1>1 DEF SenderTypeOK
<1>7. ViewerTypeOK'
  BY <1>1 DEF ViewerTypeOK, viewerVars
<1>8. Listening'
  BY <1>1, <1>3 DEF Listening, viewerVars
<1>9. SeedsKnown'
  BY <1>1 DEF SeedsKnown, viewerVars
<1>10. Numbered'
  BY <1>1, <1>3, <1>4 DEF Numbered, Holding, viewerVars
<1>11. NotYetThere'
  BY <1>1, <1>3 DEF NotYetThere, viewerVars
<1>12. Distinct(memory)'
  BY <1>1
<1>13. OnceOnly'
  BY <1>1 DEF OnceOnly, viewerVars
<1>14. NothingMissed'
  BY <1>1, <1>3 DEF NothingMissed, viewerVars
<1> QED
  BY <1>5, <1>6, <1>7, <1>8, <1>9, <1>10, <1>11, <1>12, <1>13, <1>14 DEF LogInv

(* A viewer that comes has nothing yet, and nobody sends to it.            *)
LEMMA AskHistoryInv ==
  ASSUME LogInv, NEW v \in Viewer, AskHistory(v)
  PROVE  LogInv'
<1> USE DEF LogInv
<1>1. /\ vpc[v] = "off" /\ vpc' = [vpc EXCEPT ![v] = IF memory = <<>> THEN "list" ELSE "subscribe"]
      /\ seeded' = [seeded EXCEPT ![v] = (memory = <<>>)]
      /\ UNCHANGED <<historyVars, senderVars, listeners, seed, channel, taken, room, dropped,
                     clears, logFaults>>
  BY DEF AskHistory, ListWhenEmpty, VGo
<1>2. seed[v] = <<>> /\ channel[v] = <<>> /\ v \notin listeners
      /\ \A p \in Publisher : v \notin pending[p]
  BY <1>1 DEF SeedsKnown, Listening
<1>3. /\ memory = <<>> => vpc'[v] = "list" /\ seeded'[v]
      /\ memory # <<>> => vpc'[v] = "subscribe" /\ ~seeded'[v]
      /\ \A w \in Viewer \ {v} : vpc'[w] = vpc[w] /\ seeded'[w] = seeded[w]
  BY <1>1 DEF ViewerTypeOK
<1>4. HistoryTypeOK'
  BY <1>1 DEF HistoryTypeOK, historyVars
<1>5. SenderTypeOK'
  BY <1>1 DEF SenderTypeOK, senderVars
<1>6. ViewerTypeOK'
  BY <1>1 DEF ViewerTypeOK
<1>7. Listening'
  <2>1. \A w \in Viewer : (w \in listeners <=> vpc'[w] = "on") /\ (vpc'[w] # "on" => channel[w] = <<>>)
    BY <1>2, <1>3 DEF Listening
  <2>2. \A p \in Publisher : \A w \in pending[p] : vpc'[w] \in {"on", "gone"}
    BY <1>2, <1>3 DEF Listening, SenderTypeOK
  <2> QED
    BY <1>1, <2>1, <2>2 DEF Listening, senderVars
<1>8. SeedsKnown'
  BY <1>1, <1>2, <1>3 DEF SeedsKnown
<1>9. Numbered'
  BY <1>1 DEF Numbered, Holding, historyVars, senderVars
<1>10. NotYetThere'
  <2>1. \A n : n \notin ToSet(channel[v])
    BY <1>2, NoLines
  <2>2. \A p \in Publisher, w \in Viewer : ppc[p] = "remember" /\ ~seeded'[w] => line[p] \notin ToSet(channel[w])
    BY <1>3, <2>1 DEF NotYetThere
  <2>3. \A p \in Publisher : \A w \in pending[p] : ~seeded'[w] => line[p] \notin ToSet(channel[w])
    BY <1>2, <1>3 DEF NotYetThere, SenderTypeOK
  <2> QED
    BY <1>1, <2>2, <2>3 DEF NotYetThere, historyVars, senderVars
<1>11. Distinct(memory)'
  BY <1>1 DEF historyVars
<1>12. OnceOnly'
  <2>1. \A w \in listeners : seeded'[w] = seeded[w]
    BY <1>2, <1>3 DEF ViewerTypeOK
  <2> QED
    BY <1>1, <2>1 DEF OnceOnly
<1>13. NothingMissed'
  BY <1>1 DEF NothingMissed, historyVars, senderVars
<1> QED
  BY <1>4, <1>5, <1>6, <1>7, <1>8, <1>9, <1>10, <1>11, <1>12, <1>13 DEF LogInv

LEMMA ListStoredInv ==
  ASSUME LogInv, NEW v \in Viewer, ListStored(v)
  PROVE  LogInv'
<1> USE DEF LogInv
<1>1. /\ vpc[v] = "list" /\ vpc' = [vpc EXCEPT ![v] = "subscribe"]
      /\ seed' = [seed EXCEPT ![v] = Latest(stored)] \/ seed' = seed
      /\ UNCHANGED <<historyVars, senderVars, listeners, channel, taken, room, dropped, seeded,
                     clears>>
  BY DEF ListStored, VGo
<1>2. logFaults' \in 0 .. MaxLogFaults
  BY LogConstants DEF ListStored, LogFault, LogNoFault, HistoryTypeOK
<1>3. Latest(stored) \in Seq(Line) /\ ToSet(Latest(stored)) \subseteq ToSet(stored)
  BY LatestLines DEF HistoryTypeOK
<1>4. /\ vpc'[v] = "subscribe" /\ seed'[v] \in {Latest(stored), seed[v]}
      /\ \A w \in Viewer \ {v} : vpc'[w] = vpc[w] /\ seed'[w] = seed[w]
  BY <1>1 DEF ViewerTypeOK
<1>5. HistoryTypeOK'
  BY <1>1, <1>2 DEF HistoryTypeOK, historyVars
<1>6. SenderTypeOK'
  BY <1>1 DEF SenderTypeOK, senderVars
<1>7. ViewerTypeOK'
  <2>1. seed' \in [Viewer -> Seq(Line)]
    BY <1>1, <1>3 DEF ViewerTypeOK
  <2> QED
    BY <1>1, <2>1 DEF ViewerTypeOK
<1>8. Listening'
  <2>1. \A w \in Viewer : (w \in listeners <=> vpc'[w] = "on") /\ (vpc'[w] # "on" => channel[w] = <<>>)
    BY <1>1, <1>4 DEF Listening
  <2>2. \A p \in Publisher : \A w \in pending[p] : vpc'[w] \in {"on", "gone"}
    BY <1>1, <1>4 DEF Listening, SenderTypeOK
  <2> QED
    BY <1>1, <2>1, <2>2 DEF Listening, senderVars
<1>9. SeedsKnown'
  BY <1>1, <1>4 DEF SeedsKnown
<1>10. Numbered'
  <2>1. \A w \in Viewer, n \in Line : n \in ToSet(channel[w]) \cup ToSet(seed'[w]) => n <= streamed
    BY <1>3, <1>4 DEF Numbered
  <2> QED
    BY <1>1, <2>1 DEF Numbered, Holding, historyVars, senderVars
<1>11. NotYetThere'
  BY <1>1 DEF NotYetThere, historyVars, senderVars
<1>12. Distinct(memory)'
  BY <1>1 DEF historyVars
<1>13. OnceOnly'
  BY <1>1 DEF OnceOnly
<1>14. NothingMissed'
  BY <1>1 DEF NothingMissed, historyVars, senderVars
<1> QED
  BY <1>5, <1>6, <1>7, <1>8, <1>9, <1>10, <1>11, <1>12, <1>13, <1>14 DEF LogInv

(* Replay and registration are one step: a viewer for which nothing was    *)
(* read from the store gets the history, and all of it.                    *)
LEMMA RegisterInv ==
  ASSUME LogInv, NEW v \in Viewer, Register(v)
  PROVE  LogInv'
<1> USE DEF LogInv
<1>1. /\ vpc[v] = "subscribe" /\ vpc' = [vpc EXCEPT ![v] = "on"]
      /\ listeners' = listeners \cup {v}
      /\ channel' = [channel EXCEPT ![v] = seed[v] \o memory]
      /\ room' = [room EXCEPT ![v] = Len(seed[v] \o memory) + Buffer]
      /\ seed' = [seed EXCEPT ![v] = <<>>]
      /\ UNCHANGED <<historyVars, senderVars, taken, dropped, seeded, clears, logFaults>>
  BY DEF Register, Replay, VGo
<1>2. seed[v] \in Seq(Line) /\ memory \in Seq(Line)
  BY DEF ViewerTypeOK, HistoryTypeOK
<1>3. /\ seed[v] \o memory \in Seq(Line)
      /\ ToSet(seed[v] \o memory) = ToSet(seed[v]) \cup ToSet(memory)
      /\ ~seeded[v] => seed[v] \o memory = memory
  BY <1>1, <1>2, ConcatLines DEF SeedsKnown
<1>4. Len(seed[v] \o memory) + Buffer \in Nat
  BY <1>3, LinesOf, LogConstants
<1>5. /\ vpc'[v] = "on" /\ channel'[v] = seed[v] \o memory /\ seed'[v] = <<>>
      /\ \A w \in Viewer \ {v} : vpc'[w] = vpc[w] /\ channel'[w] = channel[w] /\ seed'[w] = seed[w]
  BY <1>1 DEF ViewerTypeOK
<1>6. v \notin listeners /\ \A p \in Publisher : v \notin pending[p]
  BY <1>1 DEF Listening
<1>7. HistoryTypeOK'
  BY <1>1 DEF HistoryTypeOK, historyVars
<1>8. SenderTypeOK'
  BY <1>1 DEF SenderTypeOK, senderVars
<1>9. ViewerTypeOK'
  <2>1. channel' \in [Viewer -> Seq(Line)] /\ seed' \in [Viewer -> Seq(Line)]
    BY <1>1, <1>3, NoLines DEF ViewerTypeOK
  <2>2. room' \in [Viewer -> Nat]
    BY <1>1, <1>4 DEF ViewerTypeOK
  <2> QED
    BY <1>1, <2>1, <2>2 DEF ViewerTypeOK
<1>10. Listening'
  <2>1. \A w \in Viewer : (w \in listeners' <=> vpc'[w] = "on") /\ (vpc'[w] # "on" => channel'[w] = <<>>)
    BY <1>1, <1>5 DEF Listening
  <2>2. \A p \in Publisher : \A w \in pending[p] : vpc'[w] \in {"on", "gone"}
    BY <1>5, <1>6 DEF Listening, SenderTypeOK
  <2> QED
    BY <1>1, <2>1, <2>2 DEF Listening, senderVars
<1>11. SeedsKnown'
  BY <1>1, <1>5 DEF SeedsKnown
<1>12. Numbered'
  <2>1. \A w \in Viewer, n \in Line : n \in ToSet(channel'[w]) \cup ToSet(seed'[w]) => n <= streamed
    BY <1>3, <1>5, NoLines DEF Numbered
  <2> QED
    BY <1>1, <2>1 DEF Numbered, Holding, historyVars, senderVars
<1>13. NotYetThere'
  <2>1. \A p \in Publisher, w \in Viewer : ppc[p] = "remember" /\ ~seeded[w] => line[p] \notin ToSet(channel'[w])
    BY <1>3, <1>5 DEF NotYetThere
  <2>2. \A p \in Publisher : \A w \in pending[p] : ~seeded[w] => line[p] \notin ToSet(channel'[w])
    BY <1>5, <1>6 DEF NotYetThere, SenderTypeOK
  <2> QED
    BY <1>1, <2>1, <2>2 DEF NotYetThere, historyVars, senderVars
<1>14. Distinct(memory)'
  BY <1>1 DEF historyVars
<1>15. OnceOnly'
  <2>1. ~seeded[v] => Distinct(channel'[v])
    BY <1>3, <1>5
  <2>2. \A w \in listeners : w \in Viewer \ {v} /\ (~seeded[w] => Distinct(channel[w]))
    BY <1>6 DEF OnceOnly, Distinct, ViewerTypeOK
  <2>3. \A w \in listeners' : ~seeded[w] => Distinct(channel'[w])
    BY <1>1, <1>5, <2>1, <2>2
  <2> QED
    BY <1>1, <2>3 DEF OnceOnly, Distinct
<1>16. NothingMissed'
  <2> SUFFICES ASSUME NEW w \in listeners', NEW n \in ToSet(memory)
               PROVE  \/ n \in ToSet(channel'[w]) \/ n \in dropped[w]
                      \/ \E q \in Publisher : ppc[q] = "send" /\ line[q] = n /\ w \in pending[q]
    BY <1>1 DEF NothingMissed, historyVars, senderVars
  <2>1. CASE w = v
    BY <1>3, <1>5, <2>1
  <2>2. CASE w # v
    <3>1. w \in listeners /\ w \in Viewer \ {v}
      BY <1>1, <2>2 DEF ViewerTypeOK
    <3> QED
      BY <1>5, <3>1 DEF NothingMissed
  <2> QED
    BY <2>1, <2>2
<1> QED
  BY <1>7, <1>8, <1>9, <1>10, <1>11, <1>12, <1>13, <1>14, <1>15, <1>16 DEF LogInv

LEMMA ReceiveInv ==
  ASSUME LogInv, NEW v \in Viewer, Receive(v)
  PROVE  LogInv'
<1> USE DEF LogInv
<1>1. /\ taken' = [taken EXCEPT ![v] = @ + 1]
      /\ UNCHANGED <<historyVars, senderVars, listeners, vpc, seed, channel, room, dropped, seeded,
                     clears, logFaults>>
  BY DEF Receive
<1>2. HistoryTypeOK'
  BY <1>1 DEF HistoryTypeOK, historyVars
<1>3. SenderTypeOK'
  BY <1>1 DEF SenderTypeOK, senderVars
<1>4. ViewerTypeOK'
  BY <1>1 DEF ViewerTypeOK
<1>5. Listening'
  BY <1>1 DEF Listening, senderVars
<1>6. SeedsKnown'
  BY <1>1 DEF SeedsKnown
<1>7. Numbered'
  BY <1>1 DEF Numbered, Holding, historyVars, senderVars
<1>8. NotYetThere'
  BY <1>1 DEF NotYetThere, historyVars, senderVars
<1>9. Distinct(memory)'
  BY <1>1 DEF historyVars
<1>10. OnceOnly'
  BY <1>1 DEF OnceOnly
<1>11. NothingMissed'
  BY <1>1 DEF NothingMissed, historyVars, senderVars
<1> QED
  BY <1>2, <1>3, <1>4, <1>5, <1>6, <1>7, <1>8, <1>9, <1>10, <1>11 DEF LogInv

(* Publishers may still hold a viewer that leaves; its channel is empty.   *)
LEMMA LeaveInv ==
  ASSUME LogInv, NEW v \in Viewer, Leave(v)
  PROVE  LogInv'
<1> USE DEF LogInv
<1>1. /\ vpc[v] = "on" /\ vpc' = [vpc EXCEPT ![v] = "gone"] /\ listeners' = listeners \ {v}
      /\ channel' = [channel EXCEPT ![v] = <<>>] /\ taken' = [taken EXCEPT ![v] = 0]
      /\ room' = [room EXCEPT ![v] = 0] /\ dropped' = [dropped EXCEPT ![v] = {}]
      /\ seeded' = [seeded EXCEPT ![v] = FALSE]
      /\ UNCHANGED <<historyVars, senderVars, seed, clears, logFaults>>
  BY DEF Leave, VGo
<1>2. /\ vpc'[v] = "gone" /\ channel'[v] = <<>>
      /\ \A w \in Viewer \ {v} : /\ vpc'[w] = vpc[w] /\ channel'[w] = channel[w]
                                 /\ dropped'[w] = dropped[w] /\ seeded'[w] = seeded[w]
  BY <1>1 DEF ViewerTypeOK
<1>3. ToSet(channel'[v]) = {}
  BY <1>2, NoLines
<1>4. HistoryTypeOK'
  BY <1>1 DEF HistoryTypeOK, historyVars
<1>5. SenderTypeOK'
  BY <1>1 DEF SenderTypeOK, senderVars
<1>6. ViewerTypeOK'
  <2>1. channel' \in [Viewer -> Seq(Line)] /\ dropped' \in [Viewer -> SUBSET Line]
    BY <1>1, NoLines DEF ViewerTypeOK
  <2> QED
    BY <1>1, <2>1 DEF ViewerTypeOK
<1>7. Listening'
  <2>1. \A w \in Viewer : (w \in listeners' <=> vpc'[w] = "on") /\ (vpc'[w] # "on" => channel'[w] = <<>>)
    BY <1>1, <1>2 DEF Listening
  <2>2. \A p \in Publisher : \A w \in pending[p] : vpc'[w] \in {"on", "gone"}
    BY <1>2 DEF Listening, SenderTypeOK
  <2> QED
    BY <1>1, <2>1, <2>2 DEF Listening, senderVars
<1>8. SeedsKnown'
  BY <1>1, <1>2 DEF SeedsKnown
<1>9. Numbered'
  <2>1. \A w \in Viewer, n \in Line : n \in ToSet(channel'[w]) \cup ToSet(seed[w]) => n <= streamed
    BY <1>2, <1>3 DEF Numbered
  <2> QED
    BY <1>1, <2>1 DEF Numbered, Holding, historyVars, senderVars
<1>10. NotYetThere'
  <2>1. \A p \in Publisher, w \in Viewer : ppc[p] = "remember" /\ ~seeded'[w] => line[p] \notin ToSet(channel'[w])
    BY <1>2, <1>3 DEF NotYetThere
  <2>2. \A p \in Publisher : \A w \in pending[p] : ~seeded'[w] => line[p] \notin ToSet(channel'[w])
    BY <1>2, <1>3 DEF NotYetThere, SenderTypeOK
  <2> QED
    BY <1>1, <2>1, <2>2 DEF NotYetThere, historyVars, senderVars
<1>11. Distinct(memory)'
  BY <1>1 DEF historyVars
<1>12. OnceOnly'
  <2>1. \A w \in listeners' : w \in listeners /\ seeded'[w] = seeded[w] /\ channel'[w] = channel[w]
    BY <1>1, <1>2 DEF ViewerTypeOK
  <2> QED
    BY <2>1 DEF OnceOnly
<1>13. NothingMissed'
  <2>1. \A w \in listeners' : w \in listeners /\ dropped'[w] = dropped[w] /\ channel'[w] = channel[w]
    BY <1>1, <1>2 DEF ViewerTypeOK
  <2> QED
    BY <1>1, <2>1 DEF NothingMissed, historyVars, senderVars
<1> QED
  BY <1>4, <1>5, <1>6, <1>7, <1>8, <1>9, <1>10, <1>11, <1>12, <1>13 DEF LogInv

LEMMA LogStepInv == LogInv /\ [LogNext]_logVars => LogInv'
<1> SUFFICES ASSUME LogInv, [LogNext]_logVars PROVE LogInv'
  OBVIOUS
<1>1. CASE UNCHANGED logVars
  <2> USE <1>1 DEF LogInv, logVars, historyVars, senderVars, viewerVars
  <2>1. HistoryTypeOK' /\ SenderTypeOK' /\ ViewerTypeOK'
    BY DEF HistoryTypeOK, SenderTypeOK, ViewerTypeOK
  <2>2. Listening' /\ SeedsKnown' /\ Numbered' /\ NotYetThere'
    BY DEF Listening, SeedsKnown, Numbered, Holding, NotYetThere
  <2>3. Distinct(memory)' /\ OnceOnly' /\ NothingMissed'
    BY DEF OnceOnly, NothingMissed
  <2> QED
    BY <2>1, <2>2, <2>3
<1>2. ASSUME NEW p \in Publisher, PublisherStep(p) PROVE LogInv'
  BY <1>2, StoreLineInv, RememberInv, SendInv, SentInv, ClearMemoryInv, ClearStoreInv
     DEF PublisherStep
<1>3. ASSUME NEW v \in Viewer, ViewerStep(v) PROVE LogInv'
  BY <1>3, AskHistoryInv, ListStoredInv, RegisterInv, ReceiveInv, LeaveInv DEF ViewerStep
<1>4. CASE RestartStreamer
  <2>1. ProcessEnds /\ logFaults' \in 0 .. MaxLogFaults
    BY <1>4, LogConstants DEF RestartStreamer, LogFault, LogInv, HistoryTypeOK
  <2> QED
    BY <2>1, ProcessEndsInv
<1> QED
  BY <1>1, <1>2, <1>3, <1>4 DEF LogNext

(* The invariant holds for every number of goroutines, screens and lines,  *)
(* and for every size of the channels and of the history.                  *)
THEOREM LogInvariance == LogSpec => []LogInv
BY LogInitInv, LogStepInv, PTL DEF LogSpec

(* Every variable of the streamer keeps its type.                          *)
THEOREM LogTypeCorrect == LogSpec => []LogTypeOK
<1>1. LogInv => LogTypeOK
  BY DEF LogInv, LogTypeOK, HistoryTypeOK, SenderTypeOK, ViewerTypeOK
<1> QED
  BY <1>1, LogInvariance, PTL

(* No line of the history falls between the replay and the registration of *)
(* a screen, whatever is streamed, cleared or restarted meanwhile.         *)
THEOREM LogNothingMissed == LogSpec => []NothingMissed
<1>1. LogInv => NothingMissed
  BY DEF LogInv
<1> QED
  BY <1>1, LogInvariance, PTL

(* A screen that found history in memory is given no line a second time by *)
(* a publisher that sends outside the lock.                                *)
THEOREM LogOnceOnly == LogSpec => []OnceOnly
<1>1. LogInv => OnceOnly
  BY DEF LogInv
<1> QED
  BY <1>1, LogInvariance, PTL

==============================================================================
