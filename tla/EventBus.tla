------------------------------- MODULE EventBus -------------------------------
(***************************************************************************)
(* The in-process priority bus.  P0 is handed to every consumer by the     *)
(* publisher itself; P1 has a lane of its own that never drops; P2 and P3  *)
(* share a bounded lane whose oldest event yields, to a newer one or to a  *)
(* P1 under pressure.  One dispatcher task drains the lanes, P1 first, and *)
(* hands each event to the consumers in subscription order; a consumer     *)
(* that raises ends it, start() makes a new one, stop() cancels it where   *)
(* it stands.  The inbound candle queue drops its oldest the same way.     *)
(* What is dropped goes on a log, and the logs are bounded too: the oldest *)
(* record goes when one more comes.                                        *)
(***************************************************************************)
EXTENDS Naturals, Sequences, SequencesExt, FiniteSets

CONSTANTS BusEvents,      \* events, published once each
          Mixes,          \* priorities the events may have: sets of [BusEvents -> 0..3]
          Consumers,      \* subscribers of the topic, in subscription order
          LaneSize,       \* lane_maxsize
          CandleQueueSize, \* RAW_CANDLE_QUEUE_MAXSIZE
          LogSize         \* maxlen of the two logs, 4096 in the code

ASSUME BusAssumption ==
  /\ Mixes \subseteq [BusEvents -> 0..3] /\ "none" \notin BusEvents
  /\ Consumers \in Seq(STRING) /\ IsInjective(Consumers)
  /\ {LaneSize, CandleQueueSize, LogSize} \subseteq Nat \ {0}

VARIABLES priority,     \* of every event, fixed
          p1Lane, sharedLane,
          evictions,    \* eviction log: the newest LogSize evicted events
          dispatcher,   \* [task, event, next]: the task and what it holds
          inline,       \* P0 event -> next consumer its publisher awaits
          delivered,    \* consumer -> events it received, in order
          published,    \* history: events in the order of publish()
          abandoned,    \* history: events a raising consumer or a stop cut short
          candles, candleDrops, candlesGot,  \* RawCandleQueue, its log, its reader
          candlesPut    \* history: candles put, which are numbered as they come

busVars == <<priority, p1Lane, sharedLane, evictions, dispatcher, inline, delivered,
             published, abandoned, candles, candleDrops, candlesGot, candlesPut>>
lanes == <<priority, p1Lane, sharedLane, evictions>>
candleVars == <<candles, candleDrops, candlesGot, candlesPut>>

Nobody == "none"
Free == [task |-> "running", event |-> Nobody, next |-> 0]

BusInit ==
  /\ priority \in Mixes
  /\ p1Lane = << >> /\ sharedLane = << >> /\ evictions = << >>
  /\ dispatcher = [Free EXCEPT !.task = "none"]
  /\ inline = << >>
  /\ delivered = [c \in ToSet(Consumers) |-> << >>]
  /\ published = << >> /\ abandoned = {}
  /\ candles = << >> /\ candleDrops = << >> /\ candlesGot = << >> /\ candlesPut = 0

-----------------------------------------------------------------------------
\* deque(maxlen=LogSize).append.
Noted(log, record) == Append(IF Len(log) = LogSize THEN Tail(log) ELSE log, record)

\* _record_eviction; why the event went is left out.
Evicted == evictions' = Noted(evictions, Head(sharedLane))

\* Mutant of EvictForCritical: the event makes room and is not written down.
EvictWithoutTrace ==
  IF sharedLane # << >>
  THEN sharedLane' = Tail(sharedLane) /\ UNCHANGED evictions
  ELSE UNCHANGED <<sharedLane, evictions>>

EvictForCritical ==
  IF sharedLane # << >>
  THEN sharedLane' = Tail(sharedLane) /\ Evicted
  ELSE UNCHANGED <<sharedLane, evictions>>

PublishCritical(e) ==
  /\ priority[e] = 1
  /\ IF Len(p1Lane) >= LaneSize THEN EvictForCritical ELSE UNCHANGED <<sharedLane, evictions>>
  /\ p1Lane' = Append(p1Lane, e)
  /\ UNCHANGED inline

PublishShared(e) ==
  /\ priority[e] \in {2, 3}
  /\ IF Len(sharedLane) = LaneSize
     THEN sharedLane' = Append(Tail(sharedLane), e) /\ Evicted
     ELSE sharedLane' = Append(sharedLane, e) /\ UNCHANGED evictions
  /\ UNCHANGED <<p1Lane, inline>>

\* The publisher itself awaits the consumers, one after the other.
PublishInline(e) ==
  /\ priority[e] = 0
  /\ inline' = [x \in DOMAIN inline \cup {e} |-> IF x = e THEN 1 ELSE inline[x]]
  /\ UNCHANGED <<p1Lane, sharedLane, evictions>>

Publish(e) ==
  /\ e \notin ToSet(published)
  /\ published' = Append(published, e)
  /\ PublishCritical(e) \/ PublishShared(e) \/ PublishInline(e)
  /\ UNCHANGED <<priority, dispatcher, delivered, abandoned, candleVars>>

Given(c, e) == delivered' = [delivered EXCEPT ![c] = Append(@, e)]

\* A publisher of a P0 event gets past one more consumer, or its consumer
\* raises and publish() raises with it.
InlineStep(e) ==
  /\ e \in DOMAIN inline /\ inline[e] <= Len(Consumers)
  /\ \E raises \in BOOLEAN :
       IF raises
       THEN /\ inline' = [inline EXCEPT ![e] = Len(Consumers) + 1]
            /\ abandoned' = abandoned \cup {e}
            /\ UNCHANGED delivered
       ELSE /\ Given(Consumers[inline[e]], e)
            /\ inline' = [inline EXCEPT ![e] = @ + 1]
            /\ UNCHANGED abandoned
  /\ UNCHANGED <<lanes, dispatcher, published, candleVars>>

-----------------------------------------------------------------------------
StartDispatch ==
  /\ dispatcher.task # "running"
  /\ dispatcher' = Free
  /\ UNCHANGED <<lanes, inline, delivered, published, abandoned, candleVars>>

\* P1 is drained before the shared lane.
NextEvent == IF p1Lane # << >> THEN Head(p1Lane) ELSE Head(sharedLane)

DispatchTake ==
  /\ dispatcher.task = "running" /\ dispatcher.event = Nobody
  /\ p1Lane # << >> \/ sharedLane # << >>
  /\ dispatcher' = [Free EXCEPT !.event = NextEvent, !.next = 1]
  /\ IF p1Lane # << >>
     THEN p1Lane' = Tail(p1Lane) /\ UNCHANGED sharedLane
     ELSE sharedLane' = Tail(sharedLane) /\ UNCHANGED p1Lane
  /\ UNCHANGED <<priority, evictions, inline, delivered, published, abandoned, candleVars>>

DispatchDeliver ==
  /\ dispatcher.task = "running" /\ dispatcher.event # Nobody
  /\ Given(Consumers[dispatcher.next], dispatcher.event)
  /\ dispatcher' = IF dispatcher.next < Len(Consumers)
                   THEN [dispatcher EXCEPT !.next = @ + 1] ELSE Free
  /\ UNCHANGED <<lanes, inline, published, abandoned, candleVars>>

CutShort(task) ==
  /\ dispatcher' = [Free EXCEPT !.task = task]
  /\ abandoned' = abandoned \cup ({dispatcher.event} \ {Nobody})
  /\ UNCHANGED <<lanes, inline, delivered, published, candleVars>>

ConsumerRaises ==
  dispatcher.task = "running" /\ dispatcher.event # Nobody /\ CutShort("done")

StopDispatch == dispatcher.task = "running" /\ CutShort("none")

-----------------------------------------------------------------------------
\* RawCandleQueue: candles are the numbers of their puts.
CandlePut ==
  /\ candlesPut < CandleQueueSize + LogSize + 1
  /\ candlesPut' = candlesPut + 1
  /\ candles' = Append(IF Len(candles) = CandleQueueSize THEN Tail(candles) ELSE candles,
                       candlesPut + 1)
  /\ candleDrops' = IF Len(candles) = CandleQueueSize
                    THEN Noted(candleDrops, Head(candles)) ELSE candleDrops
  /\ UNCHANGED <<lanes, dispatcher, inline, delivered, published, abandoned, candlesGot>>

CandleGet ==
  /\ candles # << >>
  /\ candlesGot' = Append(candlesGot, Head(candles))
  /\ candles' = Tail(candles)
  /\ UNCHANGED <<lanes, dispatcher, inline, delivered, published, abandoned, candleDrops,
                 candlesPut>>

LanesNext ==
  \/ \E e \in BusEvents : Publish(e) \/ InlineStep(e)
  \/ StartDispatch \/ DispatchTake \/ DispatchDeliver \/ ConsumerRaises \/ StopDispatch

\* The bus and the candle queue share nothing.
CandlesNext == CandlePut \/ CandleGet

-----------------------------------------------------------------------------
(* Nothing published disappears without a trace: an event is waiting, in a *)
(* hand, in every consumer's hands, cut short in hand, or, if it was P2 or *)
(* P3, on the eviction log, from which it goes only when the log is full   *)
(* of events published after it; and so for the candles and their log.     *)
(* Within a priority lane every consumer gets events in the order they     *)
(* were published, across evictions, restarts of the dispatcher and        *)
(* consumers that raise.                                                   *)
Index(seq, e) == CHOOSE n \in DOMAIN seq : seq[n] = e

InHand(e) == dispatcher.event = e \/ (e \in DOMAIN inline /\ inline[e] <= Len(Consumers))
PushedOut(e) ==
  /\ Len(evictions) = LogSize
  /\ \A v \in ToSet(evictions) : Index(published, e) < Index(published, v)
Accounted(e) ==
  \/ e \in ToSet(p1Lane) \cup ToSet(sharedLane) \cup abandoned
  \/ InHand(e)
  \/ \A c \in ToSet(Consumers) : e \in ToSet(delivered[c])
  \/ priority[e] \in {2, 3} /\ (e \in ToSet(evictions) \/ PushedOut(e))

CandleAccounted(n) ==
  \/ n \in ToSet(candles) \cup ToSet(candlesGot) \cup ToSet(candleDrops)
  \/ Len(candleDrops) = LogSize /\ \A d \in ToSet(candleDrops) : n < d

LaneOf(e) == CASE priority[e] = 0 -> "inline" [] priority[e] = 1 -> "p1" [] OTHER -> "shared"
InLaneOrder(got) ==
  \A m, n \in DOMAIN got :
    (m < n /\ LaneOf(got[m]) = LaneOf(got[n]) /\ LaneOf(got[m]) # "inline")
      => Index(published, got[m]) < Index(published, got[n])

BusKeepsItsWord ==
  /\ \A e \in ToSet(published) : Accounted(e)
  /\ \A c \in ToSet(Consumers) : InLaneOrder(delivered[c])
  /\ \A n \in 1..candlesPut : CandleAccounted(n)
=============================================================================
