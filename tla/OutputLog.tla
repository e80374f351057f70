----------------------------- MODULE OutputLog -----------------------------
(***************************************************************************)
(* The output log of a foxprox session and its subscribers                 *)
(* (broker/session).  One goroutine appends; an append puts the chunk into *)
(* the log, evicts old ones and notes the subscribers under the log's      *)
(* lock, and sends to them after it.  A subscriber is given what the log   *)
(* retains and is registered under the same lock; its channel is bounded,  *)
(* and a chunk it has no room for is counted and dropped.                  *)
(*                                                                         *)
(* A chunk is its Seq.  Any number of chunks may go at an append: the      *)
(* budget in bytes depends on their sizes.                                 *)
(***************************************************************************)
EXTENDS Integers, Sequences, FiniteSets

CONSTANTS
  Viewers,   \* subscriptions
  MaxChunks, \* chunks the log may retain
  Room,      \* capacity of a subscriber's channel
  MaxSeq     \* bound: chunks appended

ASSUME LogAssumption ==
  MaxChunks \in Nat \ {0} /\ Room \in Nat \ {0} /\ MaxSeq \in Nat

VARIABLES
  nextSeq, \* Seq of the next chunk
  first,   \* the log retains first .. nextSeq - 1
  closed,  \* the log is closed
  sending, \* subscribers the append under way has yet to notify
  viewers  \* viewers[v]: off, live, unregistered or closed; what it was to see, saw, and missed

logVars == <<nextSeq, first, closed, sending, viewers>>
-----------------------------------------------------------------------------
Viewer(at, start, seen) ==
  [at |-> at, start |-> start, seen |-> seen, channel |-> <<>>, dropped |-> 0]

Unsubscribed == Viewer("off", 0, {})
Registered == {v \in Viewers : viewers[v].at = "live"}

LogInit ==
  /\ nextSeq = 1 /\ first = 1 /\ closed = FALSE
  /\ sending = {}
  /\ viewers = [v \in Viewers |-> Unsubscribed]

AppendChunk ==
  /\ ~closed /\ sending = {} /\ nextSeq <= MaxSeq
  /\ nextSeq' = nextSeq + 1
  /\ first' \in {f \in first..(nextSeq + 1) : nextSeq + 1 - f <= MaxChunks}
  /\ sending' = Registered
  /\ UNCHANGED <<closed, viewers>>

Notify(v) ==
  /\ v \in sending /\ sending' = sending \ {v}
  /\ viewers' =
       IF viewers[v].at = "closed" THEN viewers
       ELSE IF Len(viewers[v].channel) < Room
       THEN [viewers EXCEPT ![v].channel = Append(@, nextSeq - 1)]
       ELSE [viewers EXCEPT ![v].dropped = @ + 1]
  /\ UNCHANGED <<nextSeq, first, closed>>

\* What the log retains after a Seq, and where that starts.
Retained(from) == {s \in first..(nextSeq - 1) : s > from}

Start(from) ==
  IF Retained(from) = {} THEN nextSeq ELSE IF from + 1 > first THEN from + 1 ELSE first

\* Slip: a subscriber that comes during an append is notified by it too.
SubscribeAndNotify(v, from) ==
  /\ ~closed /\ viewers[v] = Unsubscribed
  /\ viewers' = [viewers EXCEPT ![v] = Viewer("live", Start(from), Retained(from))]
  /\ sending' = IF sending = {} THEN {} ELSE sending \cup {v}
  /\ UNCHANGED <<nextSeq, first, closed>>

\* The replay is read before the channel.  Subscribe asks for no replay at all.
SubscribeFrom(v, from) ==
  /\ ~closed /\ viewers[v] = Unsubscribed
  /\ viewers' = [viewers EXCEPT ![v] = Viewer("live", Start(from), Retained(from))]
  /\ UNCHANGED <<nextSeq, first, closed, sending>>

\* The channel of one who subscribes to a closed log is closed.
SubscribeToClosed(v) ==
  /\ closed /\ viewers[v] = Unsubscribed
  /\ viewers' = [viewers EXCEPT ![v] = Viewer("closed", nextSeq, {})]
  /\ UNCHANGED <<nextSeq, first, closed, sending>>

\* Buffered chunks can be read from a closed channel.
Receive(v) ==
  /\ viewers[v].channel # <<>>
  /\ viewers' = [viewers EXCEPT ![v].seen = @ \cup {Head(viewers[v].channel)},
                                ![v].channel = Tail(@)]
  /\ UNCHANGED <<nextSeq, first, closed, sending>>

\* cancel, and Close for every subscriber: first off the log, then closed.
Unregister(v) ==
  /\ viewers[v].at = "live"
  /\ viewers' = [viewers EXCEPT ![v].at = "unregistered"]
  /\ UNCHANGED <<nextSeq, first, closed, sending>>

CloseViewer(v) ==
  /\ viewers[v].at = "unregistered"
  /\ viewers' = [viewers EXCEPT ![v].at = "closed"]
  /\ UNCHANGED <<nextSeq, first, closed, sending>>

CloseLog ==
  /\ ~closed /\ closed' = TRUE
  /\ viewers' = [v \in Viewers |-> IF viewers[v].at = "live"
                   THEN [viewers[v] EXCEPT !.at = "unregistered"] ELSE viewers[v]]
  /\ UNCHANGED <<nextSeq, first, sending>>

LogNext ==
  \/ AppendChunk \/ CloseLog
  \/ \E v \in Viewers : \/ Notify(v) \/ SubscribeToClosed(v) \/ Receive(v)
                        \/ Unregister(v) \/ CloseViewer(v)
                        \/ \E from \in 0..MaxSeq : SubscribeFrom(v, from)

LogSpec == LogInit /\ [][LogNext]_logVars
-----------------------------------------------------------------------------
LogTypeOK ==
  /\ nextSeq \in 1..(MaxSeq + 1) /\ first \in 1..nextSeq /\ nextSeq - first <= MaxChunks
  /\ closed \in BOOLEAN /\ sending \subseteq Viewers
  /\ viewers \in [Viewers ->
       [at: {"off", "live", "unregistered", "closed"}, start: 0..(MaxSeq + 1),
        seen: SUBSET (1..MaxSeq), channel: Seq(1..MaxSeq), dropped: 0..MaxSeq]]
  /\ \A v \in Viewers : Len(viewers[v].channel) <= Room

\* A subscriber is never given a chunk twice, nor one that is older than what
\* it has been given, replay and channel together: the first chunk on the
\* channel comes after the last of the replay (SubscribeFrom).
InOrderOnce ==
  \A v \in Viewers : LET channel == viewers[v].channel IN
    \A i \in 1..Len(channel) :
      /\ \A s \in viewers[v].seen : s < channel[i]
      /\ \A j \in 1..(i - 1) : channel[j] < channel[i]

\* There are no gaps but counted ones: what a registered subscriber was given
\* and what it was refused add up to what has been appended since it came,
\* whatever the log evicts in the meantime.
GapsAreCounted ==
  \A v \in Registered \ sending :
    Cardinality(viewers[v].seen) + Len(viewers[v].channel) + viewers[v].dropped
      = nextSeq - viewers[v].start

\* The log and its subscribers at any time.
LogSafe == LogTypeOK /\ InOrderOnce /\ GapsAreCounted
=============================================================================
