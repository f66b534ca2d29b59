------------------------------- MODULE LogStream -------------------------------
(***************************************************************************)
(* The log of one deployment, from the goroutines that install and delete  *)
(* the stack to the screens that follow it (internal/stack/adapter/log).   *)
(* PersistentStreamer keeps each line in the store and hands it to         *)
(* MemoryStreamer, which keeps it in the memory of the process and sends   *)
(* it to the channel of every subscriber.  Lines are numbered in the order *)
(* in which Stream is called.  A restart of the process empties the memory *)
(* and ends the subscriptions; the store stays.                            *)
(***************************************************************************)
EXTENDS Naturals, Sequences, SequencesExt

CONSTANTS
    Publisher,    \* goroutines that stream
    Viewer,       \* connections of screens; one that comes back is another
    Buffer,       \* defaultChannelBuffer
    MaxHistory,   \* maxHistoryEntries
    MaxLines, MaxClears, MaxLogFaults   \* bounds

Line == 1 .. MaxLines

ASSUME LogSizeAssumption  == Buffer \in Nat \ {0} /\ MaxHistory \in Nat \ {0}
ASSUME LogBoundAssumption ==
    MaxLines \in Nat /\ MaxClears \in Nat /\ MaxLogFaults \in Nat

VARIABLES
    streamed,   \* lines so far
    stored,     \* the lines of the store
    memory,     \* the history of the process
    listeners,  \* viewers whose channel is among the subscribers
    ppc, line,  \* what each publisher does, and its line
    pending,    \* the copy of the subscribers it has still to send to
    vpc,        \* what each viewer does
    seed,       \* what it has read from the store
    channel,    \* all that was put in its channel
    taken,      \* how much of that it has received
    room,       \* the size of the channel
    dropped,    \* lines for which there was no room
    seeded,     \* it saw no history in memory when it came
    clears, logFaults

historyVars == <<streamed, stored, memory>>
senderVars  == <<ppc, line, pending>>
viewerVars  == <<listeners, vpc, seed, channel, taken, room, dropped, seeded>>
logVars     == <<historyVars, senderVars, viewerVars, clears, logFaults>>

LogInit ==
    /\ streamed = 0 /\ stored = <<>> /\ memory = <<>> /\ listeners = {}
    /\ ppc = [p \in Publisher |-> "idle"] /\ line = [p \in Publisher |-> 0]
    /\ pending = [p \in Publisher |-> {}]
    /\ vpc = [v \in Viewer |-> "off"] /\ seed = [v \in Viewer |-> <<>>]
    /\ channel = [v \in Viewer |-> <<>>] /\ taken = [v \in Viewer |-> 0]
    /\ room = [v \in Viewer |-> 0] /\ dropped = [v \in Viewer |-> {}]
    /\ seeded = [v \in Viewer |-> FALSE]
    /\ clears = 0 /\ logFaults = 0

LogFault   == logFaults < MaxLogFaults /\ logFaults' = logFaults + 1
LogNoFault == UNCHANGED logFaults

PGo(p, next) == ppc' = [ppc EXCEPT ![p] = next]
VGo(v, next) == vpc' = [vpc EXCEPT ![v] = next]

Latest(s) == IF Len(s) <= MaxHistory THEN s ELSE SubSeq(s, Len(s) - MaxHistory + 1, Len(s))

-----------------------------------------------------------------------------
(* Stream                                                                  *)

(* Append, the failure of which does not keep the line from the screens    *)
StoreLine(p) ==
    /\ ppc[p] = "idle" /\ streamed < MaxLines
    /\ streamed' = streamed + 1 /\ line' = [line EXCEPT ![p] = streamed + 1]
    /\ PGo(p, "remember")
    /\ \/ stored' = Append(stored, streamed + 1) /\ LogNoFault
       \/ LogFault /\ UNCHANGED stored
    /\ UNCHANGED <<memory, pending, viewerVars, clears>>

(* under the lock: the history, and the copy of the subscribers            *)
Remember(p) ==
    /\ ppc[p] = "remember" /\ PGo(p, "send")
    /\ memory' = Latest(Append(memory, line[p]))
    /\ pending' = [pending EXCEPT ![p] = listeners]
    /\ UNCHANGED <<streamed, stored, line, viewerVars, clears, logFaults>>

(* the process ends: its memory, its goroutines, its connections           *)
ProcessEnds ==
    /\ memory' = <<>> /\ listeners' = {}
    /\ ppc' = [p \in Publisher |-> "idle"] /\ line' = [p \in Publisher |-> 0]
    /\ pending' = [p \in Publisher |-> {}]
    /\ vpc' = [v \in Viewer |-> "off"] /\ seed' = [v \in Viewer |-> <<>>]
    /\ channel' = [v \in Viewer |-> <<>>] /\ taken' = [v \in Viewer |-> 0]
    /\ room' = [v \in Viewer |-> 0] /\ dropped' = [v \in Viewer |-> {}]
    /\ seeded' = [v \in Viewer |-> FALSE]
    /\ UNCHANGED <<streamed, stored, clears>>

HasRoom(v) == Len(channel[v]) - taken[v] < room[v]

(* outside the lock: a channel that is full misses the line, and to send   *)
(* on one that Unsubscribe has closed is a panic nobody recovers from      *)
Send(p) ==
    \E v \in pending[p] :
        \/ /\ v \in listeners /\ pending' = [pending EXCEPT ![p] = @ \ {v}]
           /\ \/ HasRoom(v) /\ channel' = [channel EXCEPT ![v] = Append(@, line[p])]
                            /\ UNCHANGED dropped
              \/ ~HasRoom(v) /\ dropped' = [dropped EXCEPT ![v] = @ \cup {line[p]}]
                             /\ UNCHANGED channel
           /\ UNCHANGED <<historyVars, ppc, line, listeners, vpc, seed, taken, room, seeded,
                          clears, logFaults>>
        \/ v \notin listeners /\ ProcessEnds /\ LogNoFault

Sent(p) ==
    /\ ppc[p] = "send" /\ pending[p] = {} /\ PGo(p, "idle")
    /\ line' = [line EXCEPT ![p] = 0]
    /\ UNCHANGED <<historyVars, pending, viewerVars, clears, logFaults>>

(* ClearHistory: the memory, then the store                                *)
ClearMemory(p) ==
    /\ ppc[p] = "idle" /\ clears < MaxClears /\ clears' = clears + 1
    /\ PGo(p, "clear") /\ memory' = <<>>
    /\ UNCHANGED <<streamed, stored, line, pending, viewerVars, logFaults>>

ClearStore(p) ==
    /\ ppc[p] = "clear" /\ PGo(p, "idle")
    /\ \/ stored' = <<>> /\ LogNoFault
       \/ LogFault /\ UNCHANGED stored
    /\ UNCHANGED <<streamed, memory, line, pending, viewerVars, clears>>

-----------------------------------------------------------------------------
(* Subscribe, Unsubscribe                                                  *)

(* wrong variant: the store is read whether there is history or not *)
ListAnyway(v) == VGo(v, "list")

(* HasHistory: the store is read only when the memory is empty             *)
ListWhenEmpty(v) == VGo(v, IF memory = <<>> THEN "list" ELSE "subscribe")

AskHistory(v) ==
    /\ vpc[v] = "off" /\ ListWhenEmpty(v)
    /\ seeded' = [seeded EXCEPT ![v] = (memory = <<>>)]
    /\ UNCHANGED <<historyVars, senderVars, listeners, seed, channel, taken, room, dropped,
                   clears, logFaults>>

ListStored(v) ==
    /\ vpc[v] = "list" /\ VGo(v, "subscribe")
    /\ \/ seed' = [seed EXCEPT ![v] = Latest(stored)] /\ LogNoFault
       \/ LogFault /\ UNCHANGED seed
    /\ UNCHANGED <<historyVars, senderVars, listeners, channel, taken, room, dropped, seeded,
                   clears>>

(* wrong variant: the lines streamed since the store was read are left out *)
ReplaySeedOnly(v) == IF seed[v] = <<>> THEN memory ELSE seed[v]

Replay(v) == seed[v] \o memory

(* SubscribeWithHistory, under the lock: replay, and join the subscribers  *)
Register(v) ==
    /\ vpc[v] = "subscribe" /\ VGo(v, "on")
    /\ listeners' = listeners \cup {v}
    /\ channel' = [channel EXCEPT ![v] = Replay(v)]
    /\ room' = [room EXCEPT ![v] = Len(Replay(v)) + Buffer]
    /\ seed' = [seed EXCEPT ![v] = <<>>]
    /\ UNCHANGED <<historyVars, senderVars, taken, dropped, seeded, clears, logFaults>>

Receive(v) ==
    /\ vpc[v] = "on" /\ taken[v] < Len(channel[v])
    /\ taken' = [taken EXCEPT ![v] = @ + 1]
    /\ UNCHANGED <<historyVars, senderVars, listeners, vpc, seed, channel, room, dropped, seeded,
                   clears, logFaults>>

(* Unsubscribe, which closes the channel                                   *)
Leave(v) ==
    /\ vpc[v] = "on" /\ VGo(v, "gone") /\ listeners' = listeners \ {v}
    /\ channel' = [channel EXCEPT ![v] = <<>>] /\ taken' = [taken EXCEPT ![v] = 0]
    /\ room' = [room EXCEPT ![v] = 0] /\ dropped' = [dropped EXCEPT ![v] = {}]
    /\ seeded' = [seeded EXCEPT ![v] = FALSE]
    /\ UNCHANGED <<historyVars, senderVars, seed, clears, logFaults>>

RestartStreamer ==
    /\ LogFault
    /\ ProcessEnds

PublisherStep(p) ==
    StoreLine(p) \/ Remember(p) \/ Send(p) \/ Sent(p) \/ ClearMemory(p) \/ ClearStore(p)

ViewerStep(v) == AskHistory(v) \/ ListStored(v) \/ Register(v) \/ Receive(v) \/ Leave(v)

LogNext ==
    \/ \E p \in Publisher : PublisherStep(p)
    \/ \E v \in Viewer : ViewerStep(v)
    \/ RestartStreamer

LogSpec == LogInit /\ [][LogNext]_logVars

-----------------------------------------------------------------------------
(* Properties *)

(* Every variable holds a value of its type.                               *)
LogTypeOK ==
    /\ streamed \in 0 .. MaxLines /\ stored \in Seq(Line) /\ memory \in Seq(Line)
    /\ listeners \subseteq Viewer
    /\ ppc \in [Publisher -> {"idle", "remember", "send", "clear"}]
    /\ line \in [Publisher -> 0 .. MaxLines] /\ pending \in [Publisher -> SUBSET Viewer]
    /\ vpc \in [Viewer -> {"off", "list", "subscribe", "on", "gone"}]
    /\ seed \in [Viewer -> Seq(Line)] /\ channel \in [Viewer -> Seq(Line)]
    /\ taken \in [Viewer -> Nat] /\ room \in [Viewer -> Nat]
    /\ dropped \in [Viewer -> SUBSET Line] /\ seeded \in [Viewer -> BOOLEAN]
    /\ clears \in 0 .. MaxClears
    /\ logFaults \in 0 .. MaxLogFaults

(* Every line of the history reaches a screen that is subscribed: it is in *)
(* its channel, or about to be sent by the publisher that holds the copy   *)
(* of the subscribers, or there was no room for it.  No line falls between *)
(* the replay and the registration (memory_streamer.go: both happen under  *)
(* one lock, so that a line that comes in between is not missed).          *)
NothingMissed ==
    \A v \in listeners : \A n \in ToSet(memory) :
        \/ n \in ToSet(channel[v]) \/ n \in dropped[v]
        \/ \E p \in Publisher : ppc[p] = "send" /\ line[p] = n /\ v \in pending[p]

(* A screen that found history in memory gets no line twice, though lines  *)
(* are sent outside the lock while it replays the history that holds them  *)
(* (persistent_streamer.go reads the store only after a restart, for the   *)
(* same line would be seen twice).  One that found none may: the line may  *)
(* be stored when it reads the store and in memory when it registers.      *)
OnceOnly ==
    \A v \in listeners : ~seeded[v] =>
        \A i, j \in 1 .. Len(channel[v]) : channel[v][i] = channel[v][j] => i = j
=============================================================================
