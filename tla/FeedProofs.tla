------------------------------ MODULE FeedProofs ------------------------------
(***************************************************************************)
(* Proofs about what feeds the decisions: the event bus with the candle    *)
(* queue, the raw candle tables and the two writers of the candle history. *)
(***************************************************************************)
EXTENDS EventBus, RawStore, BootstrapService, SequenceTheorems, FiniteSetTheorems,
        WellFoundedInduction, TLAPS

-----------------------------------------------------------------------------
(* The bus: why nothing published disappears without a trace, and why      *)
(* every consumer gets the events of a lane in the order of publication.   *)
(* The argument is one order relation, the pairs of published events a     *)
(* consumer may be given in that order: lanes are sorted by it, the event  *)
(* in the dispatcher's hand precedes what waits, and what a consumer has   *)
(* precedes both.  A publication only adds pairs that end in the new event.*)
BusSpec == BusInit /\ [][LanesNext \/ CandlesNext]_busVars

Pub == ToSet(published)
PlaceOf(x) == Index(published, x)
Got(c) == ToSet(delivered[c])
Waiting == ToSet(p1Lane) \cup ToSet(sharedLane)
Hand == {dispatcher.event} \ {Nobody}

\* Pairs of published events that a consumer may be given in this order.
Order == {pair \in Pub \X Pub :
            LaneOf(pair[1]) = LaneOf(pair[2]) /\ LaneOf(pair[1]) # "inline"
              => PlaceOf(pair[1]) < PlaceOf(pair[2])}

SortedBy(seq, order) == \A j, k \in 1..Len(seq) : j < k => <<seq[j], seq[k]>> \in order

EachOnce(seq) == \A j, k \in 1..Len(seq) : seq[j] = seq[k] => j = k

\* Published events of the lane that may lose them.
SharedPub == {x \in Pub : priority[x] \in {2, 3}}

\* A log holds evicted events in the order of publication, before all that
\* wait in the lane they went from.
LogOf(log, lane) ==
  /\ log \in Seq(BusEvents) /\ Len(log) <= LogSize
  /\ ToSet(log) \subseteq SharedPub /\ SortedBy(log, Order)
  /\ \A v \in ToSet(log), y \in ToSet(lane) : <<v, y>> \in Order

\* An event is on the log, or went from it to later ones.
Traced(log, x) ==
  x \in ToSet(log) \/ (Len(log) = LogSize /\ \A v \in ToSet(log) : <<x, v>> \in Order)

BusTyped ==
  /\ priority \in [BusEvents -> 0..3]
  /\ published \in Seq(BusEvents) /\ EachOnce(published)
  /\ p1Lane \in Seq(BusEvents) /\ sharedLane \in Seq(BusEvents)
  /\ delivered \in [ToSet(Consumers) -> Seq(BusEvents)]

LanesInv ==
  /\ \A x \in ToSet(p1Lane) : x \in Pub /\ priority[x] = 1
  /\ \A x \in ToSet(sharedLane) : x \in Pub /\ priority[x] \in {2, 3}
  /\ SortedBy(p1Lane, Order) /\ SortedBy(sharedLane, Order)
  /\ LogOf(evictions, sharedLane)

\* The event in the dispatcher's hand goes before every waiting one of its
\* lane, and exactly the consumers before the next one have it.
HandInv ==
  \A h \in Hand :
    /\ h \in Pub /\ priority[h] \in 1..3
    /\ dispatcher.next \in Nat \ {0}
    /\ dispatcher.next <= Len(Consumers) \/ Consumers = <<>>
    /\ \A y \in Waiting : <<h, y>> \in Order
    /\ \A j \in 1..Len(Consumers) : j < dispatcher.next <=> h \in Got(Consumers[j])

GotInv ==
  \A c \in ToSet(Consumers) :
    /\ Got(c) \subseteq Pub
    /\ SortedBy(delivered[c], Order)
    /\ \A x \in Got(c), y \in Waiting : <<x, y>> \in Order
    /\ \A x \in Got(c), h \in Hand : x # h => <<x, h>> \in Order

InlineInv ==
  \A e \in DOMAIN inline :
    /\ e \in Pub /\ priority[e] = 0
    /\ inline[e] \in 1..(Len(Consumers) + 1)
    /\ e \in abandoned \/ \A j \in 1..Len(Consumers) : j < inline[e] => e \in Got(Consumers[j])

DispatcherInv ==
  /\ dispatcher \in [task : {"none", "running", "done"}, event : BusEvents \cup {Nobody}, next : Nat]
  /\ Hand # {} => dispatcher.task = "running"

LanesKept == BusTyped /\ LanesInv /\ HandInv /\ GotInv /\ InlineInv
             /\ \A e \in Pub : Accounted(e)

-----------------------------------------------------------------------------
LEMMA SetOfAppend ==
  ASSUME NEW S, NEW s \in Seq(S), NEW e \in S
  PROVE  /\ Append(s, e) \in Seq(S) /\ ToSet(Append(s, e)) = ToSet(s) \cup {e}
         /\ ToSet(s) \subseteq S
<1>1. /\ Append(s, e) \in Seq(S) /\ Len(Append(s, e)) = Len(s) + 1 /\ Len(s) \in Nat
      /\ Append(s, e)[Len(s) + 1] = e /\ \A k \in 1..Len(s) : Append(s, e)[k] = s[k]
      /\ DOMAIN Append(s, e) = 1..(Len(s) + 1) /\ DOMAIN s = 1..Len(s)
  BY AppendProperties
<1>2. \A k : k \in DOMAIN Append(s, e) <=> k \in DOMAIN s \/ k = Len(s) + 1
  BY <1>1
<1> QED
  BY <1>1, <1>2 DEF ToSet

LEMMA SetOfTail ==
  ASSUME NEW S, NEW s \in Seq(S), s # <<>>
  PROVE  /\ Tail(s) \in Seq(S) /\ Head(s) \in S /\ Len(Tail(s)) = Len(s) - 1
         /\ ToSet(s) = ToSet(Tail(s)) \cup {Head(s)}
<1>1. /\ Tail(s) \in Seq(S) /\ Head(s) \in S /\ Len(Tail(s)) = Len(s) - 1
      /\ Len(s) \in Nat \ {0} /\ Head(s) = s[1]
      /\ \A k \in 1..Len(Tail(s)) : Tail(s)[k] = s[k + 1]
      /\ DOMAIN s = 1..Len(s) /\ DOMAIN Tail(s) = 1..(Len(s) - 1)
  BY HeadTailProperties, EmptySeq
<1>2. /\ 1 \in DOMAIN s
      /\ \A k \in DOMAIN Tail(s) : k + 1 \in DOMAIN s
      /\ \A k \in DOMAIN s : k = 1 \/ (k - 1 \in DOMAIN Tail(s) /\ k = (k - 1) + 1)
  BY <1>1
<1>3. ASSUME NEW x \in ToSet(s)
      PROVE  x \in ToSet(Tail(s)) \cup {Head(s)}
  <2>1. PICK k \in DOMAIN s : x = s[k]
    BY DEF ToSet
  <2> QED
    BY <1>1, <1>2, <2>1 DEF ToSet
<1>4. ASSUME NEW x \in ToSet(Tail(s)) \cup {Head(s)}
      PROVE  x \in ToSet(s)
  BY <1>1, <1>2 DEF ToSet
<1> QED
  BY <1>1, <1>3, <1>4

LEMMA SortedAppend ==
  ASSUME NEW S, NEW s \in Seq(S), NEW e \in S, NEW order, SortedBy(s, order),
         \A x \in ToSet(s) : <<x, e>> \in order
  PROVE  SortedBy(Append(s, e), order)
<1>1. /\ Len(Append(s, e)) = Len(s) + 1 /\ Len(s) \in Nat
      /\ Append(s, e)[Len(s) + 1] = e /\ \A k \in 1..Len(s) : Append(s, e)[k] = s[k]
      /\ \A k \in 1..Len(s) : s[k] \in ToSet(s)
  BY AppendProperties, LenProperties DEF ToSet
<1>2. \A j, k \in 1..(Len(s) + 1) : j < k =>
        j \in 1..Len(s) /\ (k \in 1..Len(s) \/ k = Len(s) + 1)
  BY <1>1
<1> HIDE DEF SortedBy
<1>3. ASSUME NEW j \in 1..(Len(s) + 1), NEW k \in 1..(Len(s) + 1), j < k
      PROVE  <<Append(s, e)[j], Append(s, e)[k]>> \in order
  BY <1>1, <1>2, <1>3 DEF SortedBy
<1> QED
  BY <1>1, <1>3 DEF SortedBy

LEMMA SortedTail ==
  ASSUME NEW S, NEW s \in Seq(S), s # <<>>, NEW order, SortedBy(s, order)
  PROVE  /\ SortedBy(Tail(s), order)
         /\ \A y \in ToSet(Tail(s)) : <<Head(s), y>> \in order
<1>1. /\ Len(Tail(s)) = Len(s) - 1 /\ Len(s) \in Nat \ {0} /\ Head(s) = s[1]
      /\ \A k \in 1..Len(Tail(s)) : Tail(s)[k] = s[k + 1]
      /\ DOMAIN Tail(s) = 1..Len(Tail(s))
  BY HeadTailProperties, EmptySeq
<1>2. /\ 1 \in 1..Len(s)
      /\ \A k \in 1..Len(Tail(s)) : k + 1 \in 1..Len(s) /\ 1 < k + 1
      /\ \A j, k \in 1..Len(Tail(s)) : j < k => j + 1 < k + 1
  BY <1>1
<1>3. SortedBy(Tail(s), order)
  BY <1>1, <1>2 DEF SortedBy
<1>4. \A k \in 1..Len(Tail(s)) : <<Head(s), Tail(s)[k]>> \in order
  BY <1>1, <1>2 DEF SortedBy
<1> QED
  BY <1>1, <1>3, <1>4 DEF ToSet

\* A published event comes after all published before it.
LEMMA PublishExtendsOrder ==
  ASSUME BusTyped, NEW e \in BusEvents, e \notin Pub,
         published' = Append(published, e), priority' = priority
  PROVE  /\ published' \in Seq(BusEvents) /\ EachOnce(published')
         /\ Pub' = Pub \cup {e} /\ Pub \subseteq BusEvents
         /\ Order \subseteq Order'
         /\ \A x \in Pub : <<x, e>> \in Order'
<1>1. /\ published' \in Seq(BusEvents) /\ Pub' = Pub \cup {e} /\ Pub \subseteq BusEvents
      /\ Len(published') = Len(published) + 1 /\ Len(published) \in Nat
      /\ published'[Len(published) + 1] = e
      /\ \A k \in 1..Len(published) : published'[k] = published[k] /\ published[k] \in Pub
      /\ DOMAIN published' = 1..(Len(published) + 1) /\ DOMAIN published = 1..Len(published)
  <2>1. published \in Seq(BusEvents)
    BY DEF BusTyped
  <2>2. published' \in Seq(BusEvents) /\ Pub' = Pub \cup {e} /\ Pub \subseteq BusEvents
    BY <2>1, SetOfAppend DEF Pub
  <2>3. \A k \in 1..Len(published) : published[k] \in Pub
    BY <2>1 DEF Pub, ToSet
  <2> QED
    BY <2>1, <2>2, <2>3, AppendProperties
<1>2. \A k \in 1..(Len(published) + 1) : k \in 1..Len(published) \/ k = Len(published) + 1
  BY <1>1
<1>3. EachOnce(published')
  BY <1>1, <1>2 DEF BusTyped, EachOnce
<1>4. ASSUME NEW x \in Pub
      PROVE  PlaceOf(x)' = PlaceOf(x) /\ PlaceOf(x) \in 1..Len(published)
  <2>1. PICK k \in 1..Len(published) : published[k] = x
    BY <1>1 DEF Pub, ToSet
  <2>2. PlaceOf(x) = k
    <3>1. \A n \in 1..Len(published) : published[n] = x => n = k
      BY <2>1 DEF BusTyped, EachOnce
    <3> QED
      BY <1>1, <2>1, <3>1 DEF PlaceOf, Index
  <2>3. PlaceOf(x)' = k
    <3>1. \A n \in 1..(Len(published) + 1) : published'[n] = x => n = k
      BY <1>1, <1>2, <2>1 DEF BusTyped, EachOnce
    <3>2. published'[k] = x /\ k \in 1..(Len(published) + 1)
      BY <1>1, <2>1
    <3> QED
      BY <1>1, <3>1, <3>2 DEF PlaceOf, Index
  <2> QED
    BY <2>2, <2>3
<1>5. PlaceOf(e)' = Len(published) + 1
  <2>1. \A n \in 1..(Len(published) + 1) : published'[n] = e => n = Len(published) + 1
    BY <1>1, <1>2
  <2>2. Len(published) + 1 \in 1..(Len(published) + 1)
    BY <1>1
  <2> QED
    BY <1>1, <2>1, <2>2 DEF PlaceOf, Index
<1>6. \A x \in Pub : PlaceOf(x)' < PlaceOf(e)'
  BY <1>1, <1>4, <1>5
<1>7. \A x : LaneOf(x)' = LaneOf(x)
  BY DEF LaneOf
<1>8. ASSUME NEW pair \in Order
      PROVE  pair \in Order'
  <2>1. pair \in Pub \X Pub
    BY DEF Order
  <2> QED
    BY <1>1, <1>4, <1>7, <2>1 DEF Order
<1>9. ASSUME NEW x \in Pub
      PROVE  <<x, e>> \in Order'
  BY <1>1, <1>6, <1>7 DEF Order
<1> QED
  BY <1>1, <1>3, <1>8, <1>9

\* Among the events of the shared lane the order is that of their places.
LEMMA OrderOfShared ==
  ASSUME BusTyped, NEW x \in SharedPub, NEW y \in SharedPub
  PROVE  /\ PlaceOf(x) \in Nat /\ PlaceOf(y) \in Nat
         /\ <<x, y>> \in Order <=> PlaceOf(x) < PlaceOf(y)
<1>1. ASSUME NEW z \in SharedPub
      PROVE  PlaceOf(z) \in Nat
  <2>1. PICK k \in DOMAIN published : published[k] = z
    BY DEF SharedPub, Pub, ToSet
  <2>2. DOMAIN published \subseteq Nat
    BY DEF BusTyped
  <2> QED
    BY <2>1, <2>2 DEF PlaceOf, Index
<1>2. LaneOf(x) = "shared" /\ LaneOf(y) = "shared" /\ x \in Pub /\ y \in Pub
  BY DEF SharedPub, LaneOf
<1> QED
  BY <1>1, <1>2 DEF Order

\* An eviction writes down the event it takes from the shared lane, and the
\* log loses its oldest record at most.
LEMMA EvictionLeavesATrace ==
  ASSUME BusTyped, LanesInv, NEW rest,
         \/ rest = sharedLane /\ UNCHANGED evictions
         \/ sharedLane # <<>> /\ rest = Tail(sharedLane) /\ Evicted
  PROVE  /\ rest \in Seq(BusEvents) /\ SortedBy(rest, Order)
         /\ ToSet(rest) \subseteq ToSet(sharedLane)
         /\ LogOf(evictions', rest)
         /\ \A x \in SharedPub : x \in ToSet(sharedLane) \/ Traced(evictions, x)
                                   => x \in ToSet(rest) \/ Traced(evictions', x)
<1>1. /\ sharedLane \in Seq(BusEvents) /\ SortedBy(sharedLane, Order)
      /\ LogOf(evictions, sharedLane) /\ ToSet(sharedLane) \subseteq SharedPub
  BY DEF BusTyped, LanesInv, SharedPub
<1>2. CASE rest = sharedLane /\ UNCHANGED evictions
  BY <1>1, <1>2
<1>3. CASE sharedLane # <<>> /\ rest = Tail(sharedLane) /\ Evicted
  <2>1. PICK h \in SharedPub :
          /\ h = Head(sharedLane) /\ h \in BusEvents
          /\ rest \in Seq(BusEvents) /\ SortedBy(rest, Order)
          /\ ToSet(sharedLane) = ToSet(rest) \cup {h}
          /\ \A y \in ToSet(rest) : <<h, y>> \in Order
    BY <1>1, <1>3, SetOfTail, SortedTail
  <2>2. /\ evictions \in Seq(BusEvents) /\ Len(evictions) <= LogSize /\ LogSize \in Nat \ {0}
        /\ ToSet(evictions) \subseteq SharedPub /\ SortedBy(evictions, Order)
        /\ \A v \in ToSet(evictions), y \in ToSet(sharedLane) : <<v, y>> \in Order
        /\ Len(evictions) \in Nat
    BY <1>1, BusAssumption, LenProperties DEF LogOf
  <2>3. PICK kept \in Seq(BusEvents) :
          /\ evictions' = Append(kept, h)
          /\ ToSet(kept) \subseteq ToSet(evictions) /\ SortedBy(kept, Order)
          /\ Len(kept) + 1 <= LogSize
          /\ Len(evictions) = LogSize => Len(kept) + 1 = LogSize
          /\ \A x \in ToSet(evictions) : x \in ToSet(kept)
                \/ (Len(kept) + 1 = LogSize /\ \A v \in ToSet(kept) : <<x, v>> \in Order)
    <3>1. CASE Len(evictions) = LogSize
      <4>1. evictions # <<>>
        BY <2>2, <3>1
      <4>2. /\ Tail(evictions) \in Seq(BusEvents) /\ Len(Tail(evictions)) = Len(evictions) - 1
            /\ ToSet(evictions) = ToSet(Tail(evictions)) \cup {Head(evictions)}
            /\ SortedBy(Tail(evictions), Order)
            /\ \A y \in ToSet(Tail(evictions)) : <<Head(evictions), y>> \in Order
        BY <2>2, <4>1, SetOfTail, SortedTail
      <4>3. evictions' = Append(Tail(evictions), h)
        BY <1>3, <2>1, <3>1 DEF Evicted, Noted
      <4>4. Len(Tail(evictions)) + 1 = LogSize /\ LogSize <= LogSize
        BY <2>2, <3>1, <4>2
      <4>5. \A x \in ToSet(evictions) : x \in ToSet(Tail(evictions))
              \/ \A v \in ToSet(Tail(evictions)) : <<x, v>> \in Order
        BY <4>2
      <4> QED
        BY <4>2, <4>3, <4>4, <4>5
    <3>2. CASE Len(evictions) # LogSize
      <4>1. evictions' = Append(evictions, h)
        BY <1>3, <2>1, <3>2 DEF Evicted, Noted
      <4>2. Len(evictions) + 1 <= LogSize
        BY <2>2, <3>2
      <4> QED
        BY <2>2, <3>2, <4>1, <4>2
    <3> QED
      BY <3>1, <3>2
  <2>4. /\ Append(kept, h) \in Seq(BusEvents) /\ ToSet(Append(kept, h)) = ToSet(kept) \cup {h}
        /\ Len(Append(kept, h)) = Len(kept) + 1
    BY <2>1, <2>3, SetOfAppend, AppendProperties
  <2>5. \A v \in ToSet(evictions) : <<v, h>> \in Order
    BY <2>1, <2>2
  <2>6. SortedBy(evictions', Order)
    BY <2>1, <2>3, <2>5, SortedAppend
  <2>7. LogOf(evictions', rest)
    BY <2>1, <2>2, <2>3, <2>4, <2>6 DEF LogOf
  <2>8. ASSUME NEW x \in SharedPub, x \in ToSet(sharedLane) \/ Traced(evictions, x)
        PROVE  x \in ToSet(rest) \/ Traced(evictions', x)
    <3>1. CASE x \in ToSet(sharedLane)
      BY <2>1, <2>3, <2>4, <3>1 DEF Traced
    <3>2. CASE x \in ToSet(evictions)
      BY <2>3, <2>4, <2>5, <3>2 DEF Traced
    <3>3. CASE Len(evictions) = LogSize /\ \A v \in ToSet(evictions) : <<x, v>> \in Order
      <4>1. PICK v \in ToSet(evictions) : TRUE
        <5>1. 1 \in DOMAIN evictions
          BY <2>2, <3>3, LenProperties
        <5> QED
          BY <5>1 DEF ToSet
      <4>2. v \in SharedPub /\ <<x, v>> \in Order /\ <<v, h>> \in Order
        BY <2>2, <2>5, <3>3
      <4>3. <<x, h>> \in Order
        BY <4>2, OrderOfShared
      <4> QED
        BY <2>3, <2>4, <3>3, <4>3 DEF Traced
    <3> QED
      BY <2>8, <3>1, <3>2, <3>3 DEF Traced
  <2> QED
    BY <2>1, <2>7, <2>8
<1> QED
  BY <1>2, <1>3

\* A log that gets no record says the same of every event.
LEMMA LogIsFixed ==
  ASSUME UNCHANGED <<priority, published, evictions>>
  PROVE  /\ \A x : PushedOut(x)' = PushedOut(x)
         /\ LogOf(evictions, sharedLane) /\ ToSet(sharedLane') \subseteq ToSet(sharedLane)
              => LogOf(evictions, sharedLane)'
<1>1. Order' = Order /\ Pub' = Pub /\ SharedPub' = SharedPub
  BY DEF Order, Pub, SharedPub, PlaceOf, LaneOf
<1>2. \A x : PushedOut(x)' = PushedOut(x)
  BY DEF PushedOut
<1> QED
  BY <1>1, <1>2 DEF LogOf

\* A lane gets an event published after all others.
LEMMA LaneGrows ==
  ASSUME BusTyped, NEW lane \in Seq(BusEvents), SortedBy(lane, Order), ToSet(lane) \subseteq Pub,
         NEW e \in BusEvents, Order \subseteq Order', \A x \in Pub : <<x, e>> \in Order'
  PROVE  /\ Append(lane, e) \in Seq(BusEvents) /\ ToSet(Append(lane, e)) = ToSet(lane) \cup {e}
         /\ SortedBy(Append(lane, e), Order') /\ SortedBy(lane, Order')
<1>1. SortedBy(lane, Order')
  BY DEF SortedBy
<1> QED
  BY <1>1, SetOfAppend, SortedAppend

LEMMA PublishKeeps ==
  ASSUME LanesKept, NEW e \in BusEvents, Publish(e)
  PROVE  LanesKept'
<1> USE DEF LanesKept
<1>1. /\ e \notin Pub /\ published' = Append(published, e)
      /\ UNCHANGED <<priority, dispatcher, delivered, abandoned>>
  BY DEF Publish, Pub
<1>2. /\ published' \in Seq(BusEvents) /\ EachOnce(published')
      /\ Pub' = Pub \cup {e} /\ Pub \subseteq BusEvents
      /\ Order \subseteq Order' /\ \A x \in Pub : <<x, e>> \in Order'
  BY <1>1, PublishExtendsOrder
<1>3. Hand' = Hand /\ \A c : Got(c)' = Got(c)
  BY <1>1 DEF Hand, Got
<1>4. ASSUME Waiting' \subseteq Waiting \cup {e}
      PROVE  HandInv' /\ GotInv'
  <2>1. HandInv'
    BY <1>1, <1>2, <1>3, <1>4 DEF HandInv
  <2>2. GotInv'
    BY <1>1, <1>2, <1>3, <1>4 DEF GotInv, SortedBy
  <2> QED
    BY <2>1, <2>2
<1>5. ASSUME BusTyped', LanesInv', InlineInv', DOMAIN inline \subseteq DOMAIN inline',
             \A x \in DOMAIN inline : inline'[x] = inline[x],
             ToSet(p1Lane) \subseteq ToSet(p1Lane'),
             \A x \in SharedPub : x \in ToSet(sharedLane) \/ Traced(evictions, x)
                                   => x \in ToSet(sharedLane') \/ Traced(evictions', x),
             e \in ToSet(p1Lane') \/ e \in ToSet(sharedLane')
               \/ (e \in DOMAIN inline' /\ inline'[e] = 1),
             Waiting' \subseteq Waiting \cup {e}
      PROVE  LanesKept'
  <2>1. ASSUME NEW x \in Pub
        PROVE  Accounted(x)'
    <3>1. Accounted(x)
      OBVIOUS
    <3>2. InHand(x) => InHand(x)'
      BY <1>1, <1>5 DEF InHand
    <3>3. x \in ToSet(sharedLane) => x \in SharedPub
      BY DEF LanesInv, SharedPub
    <3>4. priority[x] \in {2, 3} /\ (x \in ToSet(evictions) \/ PushedOut(x))
            => x \in SharedPub /\ Traced(evictions, x)
      BY DEF LanesInv, LogOf, SharedPub, PushedOut, Traced, Order, PlaceOf
    <3>5. x \in SharedPub /\ Traced(evictions', x)
            => priority'[x] \in {2, 3} /\ (x \in ToSet(evictions') \/ PushedOut(x)')
      <4>1. ASSUME x \in SharedPub, NEW v \in ToSet(evictions'), <<x, v>> \in Order
            PROVE  Index(published', x) < Index(published', v)
        <5>1. <<x, v>> \in Order' /\ v \in SharedPub'
          BY <1>2, <1>5, <4>1 DEF LanesInv, LogOf
        <5>2. priority[x] \in {2, 3} /\ priority[v] \in {2, 3}
          BY <1>1, <4>1, <5>1 DEF SharedPub
        <5> QED
          BY <1>1, <5>1, <5>2 DEF Order, PlaceOf, LaneOf
      <4> QED
        BY <1>1, <4>1 DEF Traced, PushedOut, SharedPub
    <3>6. x \in ToSet(sharedLane) \/ (priority[x] \in {2, 3} /\ (x \in ToSet(evictions) \/ PushedOut(x)))
            => \/ x \in ToSet(sharedLane')
               \/ priority'[x] \in {2, 3} /\ (x \in ToSet(evictions') \/ PushedOut(x)')
      BY <1>5, <3>3, <3>4, <3>5
    <3> QED
      BY <1>1, <1>3, <1>5, <3>1, <3>2, <3>6 DEF Accounted, Got
  <2>2. Accounted(e)'
    <3>1. CASE e \in DOMAIN inline' /\ inline'[e] = 1
      <4>1. Len(Consumers) \in Nat
        BY BusAssumption
      <4>2. CASE 1 <= Len(Consumers)
        BY <3>1, <4>2 DEF Accounted, InHand
      <4>3. CASE Len(Consumers) = 0
        <5>1. ToSet(Consumers) = {}
          BY <4>3, BusAssumption, LenProperties DEF ToSet
        <5> QED
          BY <5>1 DEF Accounted
      <4> QED
        BY <4>1, <4>2, <4>3
    <3> QED
      BY <1>5, <3>1 DEF Accounted
  <2> QED
    BY <1>2, <1>4, <1>5, <2>1, <2>2
<1>6. CASE PublishCritical(e)
  <2>1. /\ priority[e] = 1 /\ p1Lane' = Append(p1Lane, e) /\ inline' = inline
        /\ \/ UNCHANGED <<sharedLane, evictions>>
           \/ sharedLane # <<>> /\ sharedLane' = Tail(sharedLane) /\ Evicted
    BY <1>6 DEF PublishCritical, EvictForCritical
  <2>2. /\ sharedLane' \in Seq(BusEvents) /\ SortedBy(sharedLane', Order)
        /\ ToSet(sharedLane') \subseteq ToSet(sharedLane)
        /\ LogOf(evictions', sharedLane')
        /\ \A x \in SharedPub : x \in ToSet(sharedLane) \/ Traced(evictions, x)
                                  => x \in ToSet(sharedLane') \/ Traced(evictions', x)
    BY <2>1, EvictionLeavesATrace
  <2>3. /\ p1Lane' \in Seq(BusEvents) /\ ToSet(p1Lane') = ToSet(p1Lane) \cup {e}
        /\ SortedBy(p1Lane', Order')
    BY <1>2, <2>1, LaneGrows DEF BusTyped, LanesInv
  <2>4. BusTyped'
    BY <1>1, <1>2, <2>2, <2>3 DEF BusTyped
  <2>5. LanesInv'
    <3>1. LogOf(evictions, sharedLane)'
      BY <1>1, <1>2, <2>2 DEF LogOf, SharedPub, SortedBy
    <3> QED
      BY <1>1, <1>2, <2>1, <2>2, <2>3, <3>1 DEF LanesInv, SortedBy
  <2>6. InlineInv'
    BY <1>1, <1>2, <1>3, <2>1 DEF InlineInv
  <2>7. Waiting' \subseteq Waiting \cup {e}
    BY <2>2, <2>3 DEF Waiting
  <2> QED
    BY <1>5, <2>1, <2>2, <2>3, <2>4, <2>5, <2>6, <2>7
<1>7. CASE PublishShared(e)
  <2>1. /\ priority[e] \in {2, 3} /\ UNCHANGED <<p1Lane, inline>>
    BY <1>7 DEF PublishShared
  <2>2. PICK rest \in Seq(BusEvents) :
          /\ sharedLane' = Append(rest, e) /\ SortedBy(rest, Order)
          /\ ToSet(rest) \subseteq ToSet(sharedLane)
          /\ LogOf(evictions', rest)
          /\ \A x \in SharedPub : x \in ToSet(sharedLane) \/ Traced(evictions, x)
                                    => x \in ToSet(rest) \/ Traced(evictions', x)
    <3>1. CASE Len(sharedLane) = LaneSize
      <4>1. sharedLane' = Append(Tail(sharedLane), e) /\ Evicted
        BY <1>7, <3>1 DEF PublishShared
      <4>2. sharedLane # <<>>
        BY <3>1, BusAssumption DEF BusTyped
      <4> QED
        BY <4>1, <4>2, EvictionLeavesATrace
    <3>2. CASE Len(sharedLane) # LaneSize
      <4>1. sharedLane' = Append(sharedLane, e) /\ UNCHANGED evictions
        BY <1>7, <3>2 DEF PublishShared
      <4> QED
        BY <4>1, EvictionLeavesATrace
    <3> QED
      BY <3>1, <3>2
  <2>3. /\ sharedLane' \in Seq(BusEvents) /\ ToSet(sharedLane') = ToSet(rest) \cup {e}
        /\ SortedBy(sharedLane', Order')
    BY <1>2, <2>2, LaneGrows DEF LanesInv
  <2>4. BusTyped'
    BY <1>1, <1>2, <2>1, <2>3 DEF BusTyped
  <2>5. LanesInv'
    <3>1. LogOf(evictions, sharedLane)'
      BY <1>1, <1>2, <2>2, <2>3 DEF LogOf, SharedPub, SortedBy
    <3> QED
      BY <1>1, <1>2, <2>1, <2>2, <2>3, <3>1 DEF LanesInv, SortedBy
  <2>6. InlineInv'
    BY <1>1, <1>2, <1>3, <2>1 DEF InlineInv
  <2>7. Waiting' \subseteq Waiting \cup {e}
    BY <2>1, <2>2, <2>3 DEF Waiting
  <2> QED
    BY <1>5, <2>1, <2>2, <2>3, <2>4, <2>5, <2>6, <2>7
<1>8. CASE PublishInline(e)
  <2>1. /\ priority[e] = 0 /\ UNCHANGED <<p1Lane, sharedLane, evictions>>
        /\ inline' = [x \in DOMAIN inline \cup {e} |-> IF x = e THEN 1 ELSE inline[x]]
    BY <1>8 DEF PublishInline
  <2>2. e \notin DOMAIN inline
    BY <1>1 DEF InlineInv
  <2>3. BusTyped' /\ LanesInv'
    <3>1. LogOf(evictions, sharedLane)'
      BY <1>1, <1>2, <2>1 DEF LanesInv, LogOf, SharedPub, SortedBy
    <3> QED
      BY <1>1, <1>2, <2>1, <3>1 DEF BusTyped, LanesInv, SortedBy
  <2>4. /\ DOMAIN inline' = DOMAIN inline \cup {e} /\ inline'[e] = 1
        /\ \A x \in DOMAIN inline : inline'[x] = inline[x]
    BY <2>1, <2>2
  <2>5. InlineInv'
    <3>1. Len(Consumers) \in Nat
      BY BusAssumption
    <3>2. 1 \in 1..(Len(Consumers) + 1) /\ \A j \in 1..Len(Consumers) : ~(j < 1)
      BY <3>1
    <3> QED
      BY <1>1, <1>2, <1>3, <2>1, <2>4, <3>2 DEF InlineInv
  <2>6. Waiting' = Waiting
    BY <2>1 DEF Waiting
  <2> QED
    BY <1>5, <2>1, <2>3, <2>4, <2>5, <2>6
<1> QED
  BY <1>6, <1>7, <1>8 DEF Publish

\* A consumer is given one more event.
LEMMA OneMoreDelivered ==
  ASSUME BusTyped, NEW c \in ToSet(Consumers), NEW e \in BusEvents, Given(c, e)
  PROVE  /\ delivered' \in [ToSet(Consumers) -> Seq(BusEvents)]
         /\ Got(c)' = Got(c) \cup {e}
         /\ \A d \in ToSet(Consumers) \ {c} : delivered'[d] = delivered[d] /\ Got(d)' = Got(d)
         /\ SortedBy(delivered[c], Order) /\ (\A x \in Got(c) : <<x, e>> \in Order)
              => SortedBy(delivered'[c], Order)
<1>1. delivered[c] \in Seq(BusEvents)
  BY DEF BusTyped
<1>2. /\ Append(delivered[c], e) \in Seq(BusEvents)
      /\ ToSet(Append(delivered[c], e)) = ToSet(delivered[c]) \cup {e}
  BY <1>1, SetOfAppend
<1>3. /\ delivered' \in [ToSet(Consumers) -> Seq(BusEvents)]
      /\ delivered'[c] = Append(delivered[c], e)
      /\ \A d \in ToSet(Consumers) \ {c} : delivered'[d] = delivered[d]
  BY <1>2 DEF Given, BusTyped
<1>4. SortedBy(delivered[c], Order) /\ (\A x \in Got(c) : <<x, e>> \in Order)
        => SortedBy(delivered'[c], Order)
  BY <1>1, <1>3, SortedAppend DEF Got
<1> QED
  BY <1>2, <1>3, <1>4 DEF Got

\* Consumers subscribe once: a place in the order is one consumer.
LEMMA ConsumersAreDistinct ==
  /\ Len(Consumers) \in Nat
  /\ \A j \in 1..Len(Consumers) : Consumers[j] \in ToSet(Consumers)
  /\ \A c \in ToSet(Consumers) : \E j \in 1..Len(Consumers) : Consumers[j] = c
  /\ \A j, k \in 1..Len(Consumers) : Consumers[j] = Consumers[k] => j = k
<1>1. /\ Len(Consumers) \in Nat /\ DOMAIN Consumers = 1..Len(Consumers)
      /\ IsInjective(Consumers)
  BY BusAssumption, LenProperties
<1> QED
  BY <1>1 DEF ToSet, IsInjective

\* The order the consumers may see is fixed but for a publication.
LEMMA OrderIsFixed ==
  ASSUME UNCHANGED <<priority, published>>
  PROVE  Order' = Order /\ Pub' = Pub
BY DEF Order, Pub, PlaceOf, LaneOf

LEMMA InlineKeeps ==
  ASSUME LanesKept, NEW e \in BusEvents, InlineStep(e)
  PROVE  LanesKept'
<1> USE DEF LanesKept
<1>1. /\ UNCHANGED <<priority, p1Lane, sharedLane, evictions, dispatcher, published>>
      /\ e \in DOMAIN inline /\ inline[e] <= Len(Consumers)
  BY DEF InlineStep, lanes
<1>2. Order' = Order /\ Pub' = Pub /\ Waiting' = Waiting /\ Hand' = Hand
  BY <1>1, OrderIsFixed DEF Waiting, Hand
<1>3. LanesInv' /\ \A x : PushedOut(x)' = PushedOut(x)
  BY <1>1, <1>2, LogIsFixed DEF LanesInv
<1>4. e \in Pub /\ priority[e] = 0 /\ inline[e] \in 1..Len(Consumers) /\ e \notin Hand
  BY <1>1, ConsumersAreDistinct DEF InlineInv, HandInv
<1>5. CASE /\ inline' = [inline EXCEPT ![e] = Len(Consumers) + 1]
           /\ abandoned' = abandoned \cup {e} /\ UNCHANGED delivered
  <2>1. /\ DOMAIN inline' = DOMAIN inline /\ inline'[e] = Len(Consumers) + 1
        /\ \A x \in DOMAIN inline \ {e} : inline'[x] = inline[x]
        /\ \A c : Got(c)' = Got(c)
    BY <1>1, <1>5 DEF Got
  <2>2. BusTyped' /\ HandInv' /\ GotInv'
    BY <1>1, <1>2, <1>5, <2>1 DEF BusTyped, HandInv, GotInv
  <2>3. InlineInv'
    <3>1. Len(Consumers) + 1 \in 1..(Len(Consumers) + 1)
      BY ConsumersAreDistinct
    <3> QED
      BY <1>1, <1>2, <1>5, <2>1, <3>1 DEF InlineInv
  <2>4. ASSUME NEW x \in Pub
        PROVE  Accounted(x)'
    <3>1. Accounted(x) /\ (x # e /\ InHand(x) => InHand(x)')
      BY <1>1, <2>1 DEF InHand
    <3> QED
      BY <1>1, <1>3, <1>5, <2>1, <3>1 DEF Accounted, Got
  <2> QED
    BY <1>2, <1>3, <2>2, <2>3, <2>4
<1>6. CASE /\ Given(Consumers[inline[e]], e) /\ UNCHANGED abandoned
           /\ inline' = [inline EXCEPT ![e] = @ + 1]
  <2>0. PICK k \in 1..Len(Consumers) : k = inline[e]
    BY <1>4
  <2> DEFINE c == Consumers[k]
  <2>1. c \in ToSet(Consumers) /\ Given(c, e)
    BY <1>6, <2>0, ConsumersAreDistinct
  <2> HIDE DEF c
  <2>2. \A x \in Got(c) : <<x, e>> \in Order
    <3>1. LaneOf(e) = "inline"
      BY <1>4 DEF LaneOf
    <3>2. Got(c) \subseteq Pub
      BY <2>1 DEF GotInv
    <3> QED
      BY <1>4, <3>1, <3>2 DEF Order
  <2>3. \A y \in Waiting : <<e, y>> \in Order
    BY <1>4 DEF Waiting, LanesInv, Order, LaneOf
  <2>4. \A h \in Hand : <<e, h>> \in Order
    BY <1>4 DEF HandInv, Order, LaneOf
  <2>5. /\ delivered' \in [ToSet(Consumers) -> Seq(BusEvents)]
        /\ Got(c)' = Got(c) \cup {e}
        /\ \A d \in ToSet(Consumers) \ {c} : delivered'[d] = delivered[d] /\ Got(d)' = Got(d)
        /\ SortedBy(delivered'[c], Order)
    BY <2>1, <2>2, OneMoreDelivered DEF GotInv
  <2>6. /\ DOMAIN inline' = DOMAIN inline /\ inline'[e] = k + 1
        /\ \A x \in DOMAIN inline \ {e} : inline'[x] = inline[x]
    BY <1>1, <1>6, <2>0
  <2>7. \A d \in ToSet(Consumers) : Got(d) \subseteq Got(d)' /\ Got(d)' \subseteq Got(d) \cup {e}
    BY <2>5
  <2>8. BusTyped'
    BY <1>1, <2>5 DEF BusTyped
  <2>9. HandInv'
    BY <1>1, <1>2, <1>4, <2>7, ConsumersAreDistinct DEF HandInv
  <2>10. GotInv'
    <3>1. ASSUME NEW d \in ToSet(Consumers)
          PROVE  SortedBy(delivered'[d], Order)
      BY <2>5 DEF GotInv
    <3> QED
      BY <1>2, <1>4, <2>3, <2>4, <2>7, <3>1 DEF GotInv
  <2>11. InlineInv'
    <3>1. /\ k + 1 \in 1..(Len(Consumers) + 1)
          /\ \A j \in 1..Len(Consumers) : j < k + 1 => j < k \/ j = k
      BY <2>0, ConsumersAreDistinct
    <3>2. ASSUME NEW j \in 1..Len(Consumers)
          PROVE  /\ \A x : x \in Got(Consumers[j]) => x \in Got(Consumers[j])'
                 /\ j = k => e \in Got(Consumers[j])'
      <4>1. Consumers[j] \in ToSet(Consumers) /\ (j = k => Consumers[j] = c)
        BY ConsumersAreDistinct DEF c
      <4> QED
        BY <2>5, <2>7, <4>1
    <3>3. ASSUME NEW x \in DOMAIN inline', x # e
          PROVE  /\ x \in Pub' /\ priority'[x] = 0 /\ inline'[x] \in 1..(Len(Consumers) + 1)
                 /\ x \in abandoned' \/ \A j \in 1..Len(Consumers) :
                                         j < inline'[x] => x \in Got(Consumers[j])'
      <4>1. x \in DOMAIN inline /\ inline'[x] = inline[x]
        BY <2>6, <3>3
      <4> QED
        <5>1. /\ x \in Pub /\ priority[x] = 0 /\ inline[x] \in 1..(Len(Consumers) + 1)
              /\ x \in abandoned \/ \A j \in 1..Len(Consumers) :
                                     j < inline[x] => x \in Got(Consumers[j])
          BY <4>1 DEF InlineInv
        <5>2. \A j \in 1..Len(Consumers) : x \in Got(Consumers[j]) => x \in Got(Consumers[j])'
          BY <3>2
        <5> QED
          BY <1>1, <1>2, <1>6, <4>1, <5>1, <5>2
    <3>4. /\ e \in Pub' /\ priority'[e] = 0 /\ inline'[e] \in 1..(Len(Consumers) + 1)
          /\ e \in abandoned' \/ \A j \in 1..Len(Consumers) :
                                  j < inline'[e] => e \in Got(Consumers[j])'
      <4>1. e \in abandoned \/ \A j \in 1..Len(Consumers) : j < k => e \in Got(Consumers[j])
        BY <1>1, <2>0 DEF InlineInv
      <4> QED
        <5>1. \A j \in 1..Len(Consumers) : e \in Got(Consumers[j]) => e \in Got(Consumers[j])'
          BY <3>2
        <5>2. e \in abandoned' \/ \A j \in 1..Len(Consumers) : j < k + 1 => e \in Got(Consumers[j])'
          BY <1>6, <3>1, <3>2, <4>1, <5>1
        <5> QED
          BY <1>1, <1>2, <1>4, <2>6, <3>1, <5>2
    <3> QED
      BY <3>3, <3>4 DEF InlineInv
  <2>12. ASSUME NEW x \in Pub
         PROVE  Accounted(x)'
    <3>1. CASE x = e
      <4>1. CASE k + 1 <= Len(Consumers)
        BY <1>1, <2>6, <3>1, <4>1 DEF Accounted, InHand
      <4>2. CASE ~(k + 1 <= Len(Consumers))
        <5>1. \A j \in 1..Len(Consumers) : j < k + 1
          BY <2>0, <4>2, ConsumersAreDistinct
        <5>2. e \in abandoned' \/ \A j \in 1..Len(Consumers) : e \in Got(Consumers[j])'
          BY <1>1, <2>6, <2>11, <5>1 DEF InlineInv
        <5> QED
          BY <3>1, <5>2, ConsumersAreDistinct DEF Accounted, Got
      <4> QED
        BY <4>1, <4>2
    <3>2. CASE x # e
      <4>1. Accounted(x) /\ (InHand(x) => InHand(x)')
        BY <1>1, <2>6, <3>2 DEF InHand
      <4> QED
        BY <1>1, <1>3, <1>6, <2>7, <4>1 DEF Accounted, Got
    <3> QED
      BY <3>1, <3>2
  <2> QED
    BY <1>2, <1>3, <2>8, <2>9, <2>10, <2>11, <2>12
<1> QED
  BY <1>5, <1>6 DEF InlineStep

\* The dispatcher starts anew, or loses what it holds to a stop or an error.
LEMMA CutShortKeeps ==
  ASSUME LanesKept, dispatcher'.event = Nobody,
         UNCHANGED <<priority, p1Lane, sharedLane, evictions, inline, delivered, published>>,
         abandoned' = abandoned \cup Hand
  PROVE  LanesKept'
<1> USE DEF LanesKept
<1>1. /\ Order' = Order /\ Pub' = Pub /\ Waiting' = Waiting /\ Hand' = {}
      /\ \A c : Got(c)' = Got(c)
      /\ \A x : PushedOut(x)' = PushedOut(x)
      /\ LogOf(evictions, sharedLane) => LogOf(evictions, sharedLane)'
  BY OrderIsFixed, LogIsFixed DEF Waiting, Hand, Got
<1>2. BusTyped' /\ LanesInv' /\ HandInv' /\ GotInv' /\ InlineInv'
  BY <1>1 DEF BusTyped, LanesInv, HandInv, GotInv, InlineInv
<1>3. ASSUME NEW x \in Pub
      PROVE  Accounted(x)'
  <2>1. x # Nobody
    BY BusAssumption, SetOfAppend DEF BusTyped, Pub, ToSet, Nobody
  <2>2. Accounted(x) /\ (InHand(x) => x \in Hand \/ InHand(x)')
    BY <2>1 DEF InHand, Hand
  <2> QED
    BY <1>1, <2>2 DEF Accounted, Got
<1> QED
  BY <1>1, <1>2, <1>3

LEMMA DispatchTakeKeeps == LanesKept /\ DispatchTake => LanesKept'
<1> SUFFICES ASSUME LanesKept, DispatchTake PROVE LanesKept'
  OBVIOUS
<1> USE DEF LanesKept
<1>1. /\ UNCHANGED <<priority, evictions, inline, delivered, published, abandoned>>
      /\ dispatcher.event = Nobody
  BY DEF DispatchTake
<1>2. /\ Order' = Order /\ Pub' = Pub /\ \A c : Got(c)' = Got(c)
      /\ \A x : PushedOut(x)' = PushedOut(x)
  BY <1>1, OrderIsFixed, LogIsFixed DEF Got
<1>3. PICK h \in BusEvents :
        /\ dispatcher' = [Free EXCEPT !.event = h, !.next = 1]
        /\ h \in Waiting /\ h \in Pub /\ priority[h] \in 1..3
        /\ p1Lane' \in Seq(BusEvents) /\ sharedLane' \in Seq(BusEvents)
        /\ SortedBy(p1Lane', Order) /\ SortedBy(sharedLane', Order)
        /\ ToSet(p1Lane') \subseteq ToSet(p1Lane) /\ ToSet(sharedLane') \subseteq ToSet(sharedLane)
        /\ Waiting \subseteq Waiting' \cup {h}
        /\ \A y \in Waiting' : <<h, y>> \in Order
  <2>1. CASE p1Lane # <<>>
    <3>1. /\ dispatcher' = [Free EXCEPT !.event = Head(p1Lane), !.next = 1]
          /\ p1Lane' = Tail(p1Lane) /\ sharedLane' = sharedLane
      BY <2>1 DEF DispatchTake, NextEvent
    <3>2. /\ Tail(p1Lane) \in Seq(BusEvents) /\ Head(p1Lane) \in BusEvents
          /\ ToSet(p1Lane) = ToSet(Tail(p1Lane)) \cup {Head(p1Lane)}
          /\ SortedBy(Tail(p1Lane), Order)
          /\ \A y \in ToSet(Tail(p1Lane)) : <<Head(p1Lane), y>> \in Order
      BY <2>1, SetOfTail, SortedTail DEF BusTyped, LanesInv
    <3>3. Head(p1Lane) \in Pub /\ priority[Head(p1Lane)] = 1
      BY <3>2 DEF LanesInv
    <3>4. \A y \in ToSet(sharedLane) : <<Head(p1Lane), y>> \in Order
      BY <3>3 DEF LanesInv, Order, LaneOf
    <3>5. /\ Waiting = ToSet(Tail(p1Lane)) \cup {Head(p1Lane)} \cup ToSet(sharedLane)
          /\ Waiting' = ToSet(Tail(p1Lane)) \cup ToSet(sharedLane)
      BY <3>1, <3>2 DEF Waiting
    <3>6. sharedLane \in Seq(BusEvents) /\ SortedBy(sharedLane, Order)
      BY DEF BusTyped, LanesInv
    <3>7. priority[Head(p1Lane)] \in 1..3
      BY <3>3
    <3>8. \A y \in Waiting' : <<Head(p1Lane), y>> \in Order
      BY <3>2, <3>4, <3>5
    <3>9. /\ Waiting \subseteq Waiting' \cup {Head(p1Lane)} /\ Head(p1Lane) \in Waiting
          /\ ToSet(p1Lane') \subseteq ToSet(p1Lane) /\ ToSet(sharedLane') \subseteq ToSet(sharedLane)
      BY <3>1, <3>2, <3>5
    <3> HIDE DEF Waiting
    <3> QED
      BY <3>1, <3>2, <3>3, <3>6, <3>7, <3>8, <3>9
  <2>2. CASE p1Lane = <<>>
    <3>1. /\ dispatcher' = [Free EXCEPT !.event = Head(sharedLane), !.next = 1]
          /\ p1Lane' = p1Lane /\ sharedLane' = Tail(sharedLane) /\ sharedLane # <<>>
      BY <2>2 DEF DispatchTake, NextEvent
    <3>2. /\ Tail(sharedLane) \in Seq(BusEvents) /\ Head(sharedLane) \in BusEvents
          /\ ToSet(sharedLane) = ToSet(Tail(sharedLane)) \cup {Head(sharedLane)}
          /\ SortedBy(Tail(sharedLane), Order)
          /\ \A y \in ToSet(Tail(sharedLane)) : <<Head(sharedLane), y>> \in Order
      BY <3>1, SetOfTail, SortedTail DEF BusTyped, LanesInv
    <3>3. Head(sharedLane) \in Pub /\ priority[Head(sharedLane)] \in {2, 3}
      BY <3>2 DEF LanesInv
    <3>4. \A y \in ToSet(p1Lane) : <<Head(sharedLane), y>> \in Order
      BY <3>3 DEF LanesInv, Order, LaneOf
    <3>5. /\ Waiting = ToSet(Tail(sharedLane)) \cup {Head(sharedLane)} \cup ToSet(p1Lane)
          /\ Waiting' = ToSet(Tail(sharedLane)) \cup ToSet(p1Lane)
      BY <3>1, <3>2 DEF Waiting
    <3>6. p1Lane \in Seq(BusEvents) /\ SortedBy(p1Lane, Order)
      BY DEF BusTyped, LanesInv
    <3>7. priority[Head(sharedLane)] \in 1..3
      BY <3>3
    <3>8. \A y \in Waiting' : <<Head(sharedLane), y>> \in Order
      BY <3>2, <3>4, <3>5
    <3>9. /\ Waiting \subseteq Waiting' \cup {Head(sharedLane)} /\ Head(sharedLane) \in Waiting
          /\ ToSet(p1Lane') \subseteq ToSet(p1Lane) /\ ToSet(sharedLane') \subseteq ToSet(sharedLane)
      BY <3>1, <3>2, <3>5
    <3> HIDE DEF Waiting
    <3> QED
      BY <3>1, <3>2, <3>3, <3>6, <3>7, <3>8, <3>9
  <2> QED
    BY <2>1, <2>2
<1>4. /\ dispatcher'.event = h /\ dispatcher'.next = 1 /\ Hand' = {h} /\ Hand = {}
      /\ Waiting' \subseteq Waiting
  BY <1>1, <1>3, BusAssumption DEF Free, Hand, Nobody, Waiting
<1>5. BusTyped' /\ LanesInv' /\ InlineInv'
  <2>1. LogOf(evictions, sharedLane)'
    BY <1>1, <1>3, LogIsFixed DEF LanesInv
  <2> QED
    BY <1>1, <1>2, <1>3, <2>1 DEF BusTyped, LanesInv, InlineInv
<1>6. \A c \in ToSet(Consumers) : h \notin Got(c)
  <2>1. <<h, h>> \notin Order
    <3>1. PlaceOf(h) \in 1..Len(published)
      <4>1. PICK k \in DOMAIN published : published[k] = h
        BY <1>3 DEF Pub, ToSet
      <4>2. DOMAIN published = 1..Len(published)
        BY DEF BusTyped
      <4> QED
        BY <4>1, <4>2 DEF PlaceOf, Index
    <3>2. LaneOf(h) # "inline" /\ ~(PlaceOf(h) < PlaceOf(h))
      BY <1>3, <3>1 DEF LaneOf
    <3> QED
      BY <3>2 DEF Order
  <2> QED
    BY <1>3, <2>1 DEF GotInv
<1>7. HandInv'
  <2>1. 1 <= Len(Consumers) \/ Consumers = <<>>
    BY BusAssumption, EmptySeq
  <2>2. \A j \in 1..Len(Consumers) : ~(j < 1) /\ h \notin Got(Consumers[j])
    BY <1>6, ConsumersAreDistinct
  <2> QED
    BY <1>1, <1>2, <1>3, <1>4, <2>1, <2>2 DEF HandInv
<1>8. GotInv'
  BY <1>1, <1>2, <1>3, <1>4 DEF GotInv
<1>9. ASSUME NEW x \in Pub
      PROVE  Accounted(x)'
  <2>1. x # Nobody
    BY BusAssumption, SetOfAppend DEF BusTyped, Pub, ToSet, Nobody
  <2>2. /\ Accounted(x) /\ (InHand(x) => InHand(x)')
        /\ x \in Waiting => x \in Waiting' \/ InHand(x)'
    BY <1>1, <1>3, <1>4, <2>1 DEF InHand
  <2> QED
    BY <1>1, <1>2, <2>2 DEF Accounted, Got, Waiting
<1> QED
  BY <1>2, <1>5, <1>7, <1>8, <1>9

LEMMA DispatchDeliverKeeps == LanesKept /\ DispatcherInv /\ DispatchDeliver => LanesKept'
<1> SUFFICES ASSUME LanesKept, DispatcherInv, DispatchDeliver PROVE LanesKept'
  OBVIOUS
<1> USE DEF LanesKept
<1>1. PICK h, k :
        /\ h = dispatcher.event /\ k = dispatcher.next /\ h # Nobody
        /\ Given(Consumers[k], h)
        /\ dispatcher' = IF k < Len(Consumers) THEN [dispatcher EXCEPT !.next = k + 1] ELSE Free
        /\ UNCHANGED <<priority, p1Lane, sharedLane, evictions, inline, published, abandoned>>
  BY DEF DispatchDeliver, lanes
<1>2. Order' = Order /\ Pub' = Pub /\ Waiting' = Waiting /\ Hand = {h}
  BY <1>1, OrderIsFixed DEF Waiting, Hand
<1>3. /\ h \in Pub /\ priority[h] \in 1..3 /\ k \in Nat \ {0} /\ h \in BusEvents
      /\ k <= Len(Consumers) \/ Consumers = <<>>
      /\ \A y \in Waiting : <<h, y>> \in Order
      /\ \A j \in 1..Len(Consumers) : j < k <=> h \in Got(Consumers[j])
  BY <1>1, <1>2, SetOfAppend DEF HandInv, BusTyped, Pub, ToSet
<1>4. LanesInv' /\ \A x : PushedOut(x)' = PushedOut(x)
  BY <1>1, <1>2, LogIsFixed DEF LanesInv
<1>5. Hand' = {} \/ (Hand' = {h} /\ dispatcher'.event = h /\ dispatcher'.next = k + 1
                     /\ k < Len(Consumers))
  <2>1. CASE k < Len(Consumers)
    BY <1>1, <1>3, <2>1 DEF Hand, HandInv
  <2>2. CASE ~(k < Len(Consumers))
    BY <1>1, <2>2 DEF Hand, Free
  <2> QED
    BY <2>1, <2>2
<1>6. CASE Consumers = <<>>
  <2>1. ToSet(Consumers) = {} /\ Len(Consumers) = 0
    BY <1>6 DEF ToSet
  <2>2. /\ delivered' \in [ToSet(Consumers) -> Seq(BusEvents)]
        /\ \A j \in 1..Len(Consumers) : FALSE
    <3>1. delivered \in [{} -> Seq(BusEvents)]
      BY <2>1 DEF BusTyped
    <3>2. delivered' = [d \in {} |-> IF d = Consumers[k] THEN Append(delivered[d], h) ELSE delivered[d]]
      BY <1>1, <3>1 DEF Given
    <3> QED
      BY <2>1, <3>2
  <2>3. Hand' = {}
    BY <1>3, <1>5, <2>1
  <2>4. BusTyped' /\ HandInv' /\ GotInv' /\ InlineInv'
    BY <1>1, <1>2, <2>1, <2>2, <2>3 DEF BusTyped, HandInv, GotInv, InlineInv
  <2>5. \A x : Accounted(x)'
    BY <2>1 DEF Accounted
  <2> QED
    BY <1>4, <2>4, <2>5
<1>7. CASE Consumers # <<>>
  <2> DEFINE c == Consumers[k]
  <2>1. k \in 1..Len(Consumers) /\ c \in ToSet(Consumers) /\ h \notin Got(c) /\ Given(c, h)
    BY <1>1, <1>3, <1>7, ConsumersAreDistinct
  <2> HIDE DEF c
  <2>2. \A x \in Got(c) : <<x, h>> \in Order
    BY <1>2, <2>1 DEF GotInv
  <2>3. /\ delivered' \in [ToSet(Consumers) -> Seq(BusEvents)]
        /\ Got(c)' = Got(c) \cup {h}
        /\ \A d \in ToSet(Consumers) \ {c} : delivered'[d] = delivered[d] /\ Got(d)' = Got(d)
        /\ SortedBy(delivered'[c], Order)
    BY <1>3, <2>1, <2>2, OneMoreDelivered DEF GotInv
  <2>4. \A d \in ToSet(Consumers) : Got(d) \subseteq Got(d)' /\ Got(d)' \subseteq Got(d) \cup {h}
    BY <2>3
  <2>5. ASSUME NEW j \in 1..Len(Consumers)
        PROVE  /\ \A x : x \in Got(Consumers[j]) => x \in Got(Consumers[j])'
               /\ h \in Got(Consumers[j])' <=> j < k + 1
    <3>1. Consumers[j] \in ToSet(Consumers) /\ (j = k <=> Consumers[j] = c)
      BY <2>1, ConsumersAreDistinct DEF c
    <3>2. j < k + 1 <=> j < k \/ j = k
      BY <2>1
    <3>3. CASE j = k
      BY <2>3, <3>1, <3>2, <3>3
    <3>4. CASE j # k
      BY <1>3, <2>3, <3>1, <3>2, <3>4
    <3> QED
      BY <3>3, <3>4
  <2>6. BusTyped'
    BY <1>1, <2>3 DEF BusTyped
  <2>7. HandInv'
    <3>1. CASE Hand' = {}
      BY <3>1 DEF HandInv
    <3>2. CASE Hand' = {h} /\ dispatcher'.event = h /\ dispatcher'.next = k + 1 /\ k < Len(Consumers)
      <4>1. k + 1 \in Nat \ {0} /\ k + 1 <= Len(Consumers)
        BY <1>3, <3>2, ConsumersAreDistinct
      <4> QED
        BY <1>1, <1>2, <1>3, <2>5, <3>2, <4>1 DEF HandInv
    <3> QED
      BY <1>5, <3>1, <3>2
  <2>8. GotInv'
    <3>1. ASSUME NEW d \in ToSet(Consumers)
          PROVE  /\ SortedBy(delivered'[d], Order)
                 /\ \A x \in Got(d)' : /\ x \in Pub
                                       /\ \A y \in Waiting : <<x, y>> \in Order
                                       /\ x # h => <<x, h>> \in Order
      <4>1. CASE d = c
        BY <1>2, <1>3, <2>3, <4>1 DEF GotInv
      <4>2. CASE d # c
        BY <1>2, <2>3, <4>2 DEF GotInv
      <4> QED
        BY <4>1, <4>2
    <3>2. \A x \in Hand' : x = h
      BY <1>5
    <3>3. ASSUME NEW d \in ToSet(Consumers)
          PROVE  /\ Got(d)' \subseteq Pub'
                 /\ SortedBy(delivered'[d], Order')
                 /\ \A x \in Got(d)', y \in Waiting' : <<x, y>> \in Order'
                 /\ \A x \in Got(d)', g \in Hand' : x # g => <<x, g>> \in Order'
      <4>1. /\ Got(d)' \subseteq Pub
            /\ SortedBy(delivered'[d], Order)
            /\ \A x \in Got(d)', y \in Waiting : <<x, y>> \in Order
            /\ \A x \in Got(d)' : x # h => <<x, h>> \in Order
        BY <3>1
      <4> QED
        BY <1>2, <3>2, <4>1
    <3> QED
      BY <3>3 DEF GotInv
  <2>9. InlineInv'
    <3>1. ASSUME NEW x \in DOMAIN inline
          PROVE  x \in abandoned \/ \A j \in 1..Len(Consumers) :
                                      j < inline[x] => x \in Got(Consumers[j])'
      BY <2>5 DEF InlineInv
    <3> QED
      BY <1>1, <1>2, <3>1 DEF InlineInv
  <2>10. ASSUME NEW x \in Pub
         PROVE  Accounted(x)'
    <3>1. CASE x = h
      <4>1. CASE k < Len(Consumers)
        BY <1>1, <1>3, <1>5, <3>1, <4>1 DEF Accounted, InHand, HandInv
      <4>2. CASE ~(k < Len(Consumers))
        <5>1. \A j \in 1..Len(Consumers) : j < k + 1
          BY <2>1, <4>2
        <5>2. \A j \in 1..Len(Consumers) : h \in Got(Consumers[j])'
          BY <2>5, <5>1
        <5>3. \A d \in ToSet(Consumers) : h \in ToSet(delivered'[d])
          BY <5>2, ConsumersAreDistinct DEF Got
        <5> QED
          BY <3>1, <5>3 DEF Accounted
      <4> QED
        BY <4>1, <4>2
    <3>2. CASE x # h
      <4>1. Accounted(x) /\ (InHand(x) => InHand(x)')
        BY <1>1, <3>2 DEF InHand
      <4> QED
        BY <1>1, <1>4, <2>4, <4>1 DEF Accounted, Got
    <3> QED
      BY <3>1, <3>2
  <2> QED
    BY <1>2, <1>4, <2>6, <2>7, <2>8, <2>9, <2>10
<1> QED
  BY <1>6, <1>7

-----------------------------------------------------------------------------
(* The queue of candles.                                                   *)

Gone == candlesPut - Len(candles)

\* What is waiting are the newest candles in a row, and all older ones were
\* taken, or are on the log, or went from it to later ones.
DropsSorted(log) == \A j, k \in 1..Len(log) : j < k => log[j] < log[k]

CandleTraced(log, n) == n \in ToSet(log) \/ (Len(log) = LogSize /\ \A d \in ToSet(log) : n < d)

CandlesKept ==
  /\ candles \in Seq(Nat) /\ candlesGot \in Seq(Nat) /\ candleDrops \in Seq(Nat)
  /\ candlesPut \in Nat /\ Len(candles) <= candlesPut
  /\ \A k \in 1..Len(candles) : candles[k] = Gone + k
  /\ Len(candleDrops) <= LogSize /\ DropsSorted(candleDrops)
  /\ \A d \in ToSet(candleDrops) : d <= Gone
  /\ \A n \in 1..Gone : n \in ToSet(candlesGot) \/ CandleTraced(candleDrops, n)

LEMMA OldestCandle ==
  ASSUME CandlesKept, candles # <<>>
  PROVE  /\ Gone \in Nat /\ Tail(candles) \in Seq(Nat) /\ Head(candles) = Gone + 1
         /\ Len(Tail(candles)) = Len(candles) - 1 /\ Len(candles) \in Nat \ {0}
         /\ \A k \in 1..Len(Tail(candles)) : Tail(candles)[k] = Gone + 1 + k
         /\ 1..(Gone + 1) = (1..Gone) \cup {Gone + 1}
<1>1. Gone \in Nat
  BY LenProperties DEF CandlesKept, Gone
<1>2. candles \in Seq(Nat)
  BY DEF CandlesKept
<1>3. /\ Tail(candles) \in Seq(Nat) /\ Head(candles) = candles[1]
      /\ Len(Tail(candles)) = Len(candles) - 1 /\ Len(candles) \in Nat \ {0}
      /\ \A k \in 1..Len(Tail(candles)) : Tail(candles)[k] = candles[k + 1]
  BY <1>2, HeadTailProperties, EmptySeq
<1>4. 1 \in 1..Len(candles) /\ \A k \in 1..Len(Tail(candles)) : k + 1 \in 1..Len(candles)
  BY <1>3
<1>5. Head(candles) = Gone + 1 /\ \A k \in 1..Len(Tail(candles)) : candles[k + 1] = Gone + (k + 1)
  BY <1>3, <1>4 DEF CandlesKept
<1>6. \A k \in 1..Len(Tail(candles)) : Tail(candles)[k] = Gone + 1 + k
  BY <1>1, <1>3, <1>5
<1> QED
  BY <1>1, <1>3, <1>5, <1>6

\* A newer candle goes on the log of the drops.
LEMMA LogOfCandles ==
  ASSUME NEW log \in Seq(Nat), NEW h \in Nat, LogSize \in Nat \ {0},
         Len(log) <= LogSize, DropsSorted(log), \A d \in ToSet(log) : d < h
  PROVE  /\ Noted(log, h) \in Seq(Nat) /\ Len(Noted(log, h)) <= LogSize
         /\ DropsSorted(Noted(log, h))
         /\ ToSet(Noted(log, h)) \subseteq ToSet(log) \cup {h}
         /\ h \in ToSet(Noted(log, h))
         /\ \A n \in Nat : n < h /\ CandleTraced(log, n) => CandleTraced(Noted(log, h), n)
<1> DEFINE order == {pair \in Nat \X Nat : pair[1] < pair[2]}
<1>1. \A j, k \in Nat : <<j, k>> \in order <=> j < k
  OBVIOUS
<1>2. Len(log) \in Nat /\ \A j \in 1..Len(log) : log[j] \in Nat /\ log[j] \in ToSet(log)
  BY LenProperties DEF ToSet
<1>3. SortedBy(log, order)
  BY <1>1, <1>2 DEF SortedBy, DropsSorted
<1>4. \A d \in ToSet(log) : d \in Nat
  BY SetOfAppend
<1> HIDE DEF order
<1>5. PICK kept \in Seq(Nat) :
        /\ Noted(log, h) = Append(kept, h)
        /\ ToSet(kept) \subseteq ToSet(log) /\ SortedBy(kept, order)
        /\ Len(kept) + 1 <= LogSize /\ Len(kept) \in Nat
        /\ Len(log) = LogSize => Len(kept) + 1 = LogSize
        /\ \A x \in ToSet(log) : x \in ToSet(kept)
              \/ (Len(kept) + 1 = LogSize /\ \A v \in ToSet(kept) : <<x, v>> \in order)
  <2>1. CASE Len(log) = LogSize
    <3>1. log # <<>>
      BY <2>1
    <3>2. /\ Tail(log) \in Seq(Nat) /\ Len(Tail(log)) = Len(log) - 1
          /\ ToSet(log) = ToSet(Tail(log)) \cup {Head(log)}
          /\ SortedBy(Tail(log), order)
          /\ \A y \in ToSet(Tail(log)) : <<Head(log), y>> \in order
      BY <1>3, <3>1, SetOfTail, SortedTail
    <3>3. Noted(log, h) = Append(Tail(log), h)
      BY <2>1 DEF Noted
    <3>4. Len(Tail(log)) + 1 = LogSize /\ Len(Tail(log)) \in Nat /\ LogSize <= LogSize
      BY <1>2, <2>1, <3>2
    <3>5. \A x \in ToSet(log) : x \in ToSet(Tail(log))
            \/ \A v \in ToSet(Tail(log)) : <<x, v>> \in order
      BY <3>2
    <3> QED
      BY <3>2, <3>3, <3>4, <3>5
  <2>2. CASE Len(log) # LogSize
    <3>1. Noted(log, h) = Append(log, h) /\ Len(log) + 1 <= LogSize
      BY <1>2, <2>2 DEF Noted
    <3> QED
      BY <1>2, <1>3, <2>2, <3>1
  <2> QED
    BY <2>1, <2>2
<1>6. /\ Append(kept, h) \in Seq(Nat) /\ ToSet(Append(kept, h)) = ToSet(kept) \cup {h}
      /\ Len(Append(kept, h)) = Len(kept) + 1
  BY <1>5, SetOfAppend, AppendProperties
<1>7. SortedBy(Append(kept, h), order)
  BY <1>1, <1>4, <1>5, SortedAppend
<1>8. DropsSorted(Append(kept, h))
  BY <1>1, <1>6, <1>7, LenProperties DEF DropsSorted, SortedBy
<1>9. ASSUME NEW n \in Nat, n < h, CandleTraced(log, n)
      PROVE  CandleTraced(Append(kept, h), n)
  <2>1. CASE n \in ToSet(log)
    <3>1. n \in ToSet(kept) \/ (Len(kept) + 1 = LogSize /\ \A v \in ToSet(kept) : n < v)
      BY <1>1, <1>4, <1>5, <2>1
    <3> QED
      BY <1>6, <1>9, <3>1 DEF CandleTraced
  <2>2. CASE Len(log) = LogSize /\ \A d \in ToSet(log) : n < d
    BY <1>5, <1>6, <1>9, <2>2 DEF CandleTraced
  <2> QED
    BY <1>9, <2>1, <2>2 DEF CandleTraced
<1> QED
  BY <1>5, <1>6, <1>8, <1>9

LEMMA CandleStepKeeps == CandlesKept /\ CandlesNext => CandlesKept'
<1> SUFFICES ASSUME CandlesKept, CandlesNext PROVE CandlesKept'
  OBVIOUS
<1>0. /\ Gone \in Nat /\ Len(candles) \in Nat /\ candlesPut = Gone + Len(candles)
      /\ candles \in Seq(Nat) /\ candlesGot \in Seq(Nat) /\ candleDrops \in Seq(Nat)
      /\ candlesPut \in Nat /\ LogSize \in Nat \ {0} /\ Len(candleDrops) \in Nat
  BY BusAssumption, LenProperties DEF CandlesKept, Gone
<1>1. CASE CandlePut /\ Len(candles) # CandleQueueSize
  <2>1. /\ candles' = Append(candles, candlesPut + 1) /\ UNCHANGED <<candleDrops, candlesGot>>
        /\ candlesPut' = candlesPut + 1
    BY <1>1 DEF CandlePut
  <2>2. /\ candles' \in Seq(Nat) /\ Len(candles') = Len(candles) + 1
        /\ candles'[Len(candles) + 1] = Gone + (Len(candles) + 1)
        /\ \A k \in 1..Len(candles) : candles'[k] = candles[k]
    <3>1. candlesPut + 1 \in Nat /\ candlesPut + 1 = Gone + (Len(candles) + 1)
      BY <1>0
    <3> QED
      BY <1>0, <2>1, <3>1, AppendProperties
  <2>3. Gone' = Gone /\ Len(candles') <= candlesPut' /\ candlesPut' \in Nat
    BY <1>0, <2>1, <2>2 DEF Gone
  <2>4. \A k \in 1..(Len(candles) + 1) : k \in 1..Len(candles) \/ k = Len(candles) + 1
    BY SMT, <1>0
  <2>5. \A k \in 1..Len(candles') : candles'[k] = Gone' + k
    BY <2>2, <2>3, <2>4 DEF CandlesKept
  <2> QED
    BY <1>0, <2>1, <2>2, <2>3, <2>5 DEF CandlesKept, CandleTraced, DropsSorted
<1>2. CASE CandlePut /\ Len(candles) = CandleQueueSize
  <2>1. candles # <<>>
    BY <1>2, BusAssumption
  <2>2. /\ candles' = Append(Tail(candles), candlesPut + 1) /\ UNCHANGED candlesGot
        /\ candlesPut' = candlesPut + 1
        /\ candleDrops' = Noted(candleDrops, Head(candles))
    BY <1>2 DEF CandlePut
  <2>3. /\ Tail(candles) \in Seq(Nat) /\ Head(candles) = Gone + 1
        /\ Len(Tail(candles)) = Len(candles) - 1 /\ Len(candles) \in Nat \ {0}
        /\ \A k \in 1..Len(Tail(candles)) : Tail(candles)[k] = Gone + 1 + k
        /\ 1..(Gone + 1) = (1..Gone) \cup {Gone + 1}
    BY <2>1, OldestCandle
  <2>4. /\ candles' \in Seq(Nat) /\ Len(candles') = Len(candles)
        /\ candles'[Len(candles)] = Gone + 1 + Len(candles)
        /\ \A k \in 1..(Len(candles) - 1) : candles'[k] = Gone + 1 + k
    <3>1. Len(Tail(candles)) + 1 = Len(candles) /\ candlesPut + 1 = Gone + 1 + Len(candles)
          /\ candlesPut + 1 \in Nat
      BY <1>0, <2>3
    <3> QED
      BY <2>2, <2>3, <3>1, AppendProperties
  <2>5. Gone' = Gone + 1 /\ candlesPut' \in Nat /\ Len(candles') <= candlesPut'
    BY <1>0, <2>2, <2>4 DEF Gone
  <2>6. \A k \in 1..Len(candles') : candles'[k] = Gone' + k
    <3>1. \A k \in 1..Len(candles) : k \in 1..(Len(candles) - 1) \/ k = Len(candles)
      BY <1>0
    <3> QED
      BY <2>4, <2>5, <3>1
  <2>7. PICK h \in Nat : h = Head(candles) /\ h = Gone + 1
    BY <1>0, <2>3
  <2>8. /\ Len(candleDrops) <= LogSize /\ DropsSorted(candleDrops)
        /\ \A d \in ToSet(candleDrops) : d <= Gone
        /\ \A n \in 1..Gone : n \in ToSet(candlesGot) \/ CandleTraced(candleDrops, n)
    BY DEF CandlesKept
  <2>9. /\ Noted(candleDrops, h) \in Seq(Nat) /\ Len(Noted(candleDrops, h)) <= LogSize
        /\ DropsSorted(Noted(candleDrops, h))
        /\ ToSet(Noted(candleDrops, h)) \subseteq ToSet(candleDrops) \cup {h}
        /\ h \in ToSet(Noted(candleDrops, h))
        /\ \A n \in 1..Gone : CandleTraced(candleDrops, n) => CandleTraced(Noted(candleDrops, h), n)
    <3>1. \A d \in ToSet(candleDrops) : d \in Nat /\ d < h
      BY <1>0, <2>7, <2>8, SetOfAppend
    <3>2. \A n \in 1..Gone : n \in Nat /\ n < h
      BY <1>0, <2>7
    <3> QED
      BY <1>0, <2>7, <2>8, <3>1, <3>2, LogOfCandles
  <2>10. \A d \in ToSet(candleDrops') : d <= Gone'
    <3>1. \A d \in ToSet(candleDrops) : d \in Nat
      BY <1>0, SetOfAppend
    <3>2. \A d \in ToSet(candleDrops) : d <= Gone + 1
      BY <1>0, <2>8, <3>1
    <3>3. h <= Gone + 1
      BY <1>0, <2>7
    <3> QED
      BY <2>2, <2>5, <2>7, <2>9, <3>2, <3>3
  <2>11. \A n \in 1..Gone' : n \in ToSet(candlesGot') \/ CandleTraced(candleDrops', n)
    <3>1. ASSUME NEW n \in 1..Gone'
          PROVE  n \in 1..Gone \/ n = h
      BY <1>0, <2>5, <2>7
    <3>2. CandleTraced(candleDrops', h)
      BY <2>2, <2>7, <2>9 DEF CandleTraced
    <3>3. \A n \in 1..Gone : n \in ToSet(candlesGot') \/ CandleTraced(candleDrops', n)
      BY <2>2, <2>7, <2>8, <2>9
    <3> QED
      BY <3>1, <3>2, <3>3
  <2>12. candlesGot' \in Seq(Nat) /\ candleDrops' \in Seq(Nat) /\ Len(candleDrops') <= LogSize
         /\ DropsSorted(candleDrops')
    BY <1>0, <2>2, <2>7, <2>9
  <2> QED
    BY <2>4, <2>5, <2>6, <2>10, <2>11, <2>12 DEF CandlesKept, CandleTraced, DropsSorted
<1>3. CASE CandleGet
  <2>1. /\ candles # <<>> /\ candles' = Tail(candles) /\ UNCHANGED <<candleDrops, candlesPut>>
        /\ candlesGot' = Append(candlesGot, Head(candles))
    BY <1>3 DEF CandleGet
  <2>2. /\ Tail(candles) \in Seq(Nat) /\ Head(candles) = Gone + 1
        /\ Len(Tail(candles)) = Len(candles) - 1 /\ Len(candles) \in Nat \ {0}
        /\ \A k \in 1..Len(Tail(candles)) : Tail(candles)[k] = Gone + 1 + k
        /\ 1..(Gone + 1) = (1..Gone) \cup {Gone + 1}
    BY <2>1, OldestCandle
  <2>3. Head(candles) \in Nat
    BY <1>0, <2>2
  <2>4. /\ candlesGot' \in Seq(Nat) /\ ToSet(candlesGot') = ToSet(candlesGot) \cup {Head(candles)}
    BY <1>0, <2>1, <2>3, SetOfAppend
  <2>5. Gone' = Gone + 1 /\ Len(candles') <= candlesPut'
    BY <1>0, <2>1, <2>2 DEF Gone
  <2>6. \A n \in 1..Gone' : n \in ToSet(candlesGot') \/ CandleTraced(candleDrops', n)
    BY <2>1, <2>2, <2>4, <2>5 DEF CandlesKept, CandleTraced
  <2>7. \A d \in ToSet(candleDrops') : d <= Gone'
    <3>1. \A d \in ToSet(candleDrops) : d \in Nat /\ d <= Gone
      BY <1>0, SetOfAppend DEF CandlesKept, ToSet
    <3> QED
      BY <1>0, <2>1, <2>5, <3>1
  <2>8. \A k \in 1..Len(candles') : candles'[k] = Gone' + k
    BY <2>1, <2>2, <2>5
  <2> QED
    BY <1>0, <2>1, <2>2, <2>4, <2>5, <2>6, <2>7, <2>8 DEF CandlesKept, CandleTraced, DropsSorted
<1> QED
  BY <1>1, <1>2, <1>3 DEF CandlesNext

-----------------------------------------------------------------------------
LEMMA DispatcherStep ==
  LanesKept /\ DispatcherInv /\ [LanesNext \/ CandlesNext]_busVars => DispatcherInv'
<1> SUFFICES ASSUME LanesKept, DispatcherInv, [LanesNext \/ CandlesNext]_busVars
             PROVE  DispatcherInv'
  OBVIOUS
<1>1. CASE UNCHANGED dispatcher
  BY <1>1 DEF DispatcherInv, Hand
<1>2. CASE \E task \in {"none", "running", "done"} : dispatcher' = [Free EXCEPT !.task = task]
  BY <1>2 DEF DispatcherInv, Hand, Free
<1>3. CASE DispatchTake
  <2>1. /\ NextEvent \in BusEvents
        /\ dispatcher' = [Free EXCEPT !.event = NextEvent, !.next = 1]
    BY <1>3, SetOfTail DEF DispatchTake, NextEvent, LanesKept, BusTyped
  <2> HIDE DEF NextEvent
  <2> QED
    BY <2>1 DEF DispatcherInv, Hand, Free
<1>4. CASE DispatchDeliver
  BY <1>4 DEF DispatchDeliver, DispatcherInv, Hand, Free
<1>5. CASE StartDispatch
  BY <1>2, <1>5 DEF StartDispatch, Free
<1>6. CASE ConsumerRaises \/ StopDispatch
  BY <1>2, <1>6 DEF ConsumerRaises, StopDispatch, CutShort
<1> QED
  BY <1>1, <1>3, <1>4, <1>5, <1>6
     DEF LanesNext, CandlesNext, CandlePut, CandleGet, Publish, InlineStep, busVars

BusInv == LanesKept /\ DispatcherInv /\ CandlesKept

LEMMA BusStepKeeps == BusInv /\ [LanesNext \/ CandlesNext]_busVars => BusInv'
<1> SUFFICES ASSUME LanesKept, DispatcherInv, CandlesKept, [LanesNext \/ CandlesNext]_busVars
             PROVE  LanesKept' /\ CandlesKept'
  BY DispatcherStep DEF BusInv
<1>1. ASSUME UNCHANGED candleVars
      PROVE  CandlesKept'
  BY <1>1 DEF candleVars, CandlesKept, Gone, CandleTraced, DropsSorted
<1>2. ASSUME UNCHANGED <<lanes, dispatcher, inline, delivered, published, abandoned>>
      PROVE  LanesKept'
  <2>1. /\ Order' = Order /\ Pub' = Pub /\ Waiting' = Waiting /\ Hand' = Hand
        /\ \A c : Got(c)' = Got(c)
        /\ \A x : PushedOut(x)' = PushedOut(x)
        /\ LogOf(evictions, sharedLane) => LogOf(evictions, sharedLane)'
    BY <1>2, OrderIsFixed, LogIsFixed DEF lanes, Waiting, Hand, Got
  <2> QED
    BY <1>2, <2>1 DEF lanes, LanesKept, BusTyped, LanesInv, HandInv, GotInv, InlineInv,
       Accounted, InHand
<1>3. ASSUME NEW e \in BusEvents, Publish(e) \/ InlineStep(e)
      PROVE  LanesKept' /\ CandlesKept'
  BY <1>1, <1>3, PublishKeeps, InlineKeeps DEF Publish, InlineStep
<1>4. CASE StartDispatch
  <2>1. Hand = {}
    BY <1>4 DEF StartDispatch, DispatcherInv
  <2>2. dispatcher'.event = Nobody
    BY <1>4 DEF StartDispatch, Free
  <2> QED
    BY <1>1, <1>4, <2>1, <2>2, CutShortKeeps DEF StartDispatch, lanes
<1>5. CASE ConsumerRaises \/ StopDispatch
  <2>1. PICK task : CutShort(task)
    BY <1>5 DEF ConsumerRaises, StopDispatch
  <2>2. dispatcher'.event = Nobody /\ abandoned' = abandoned \cup Hand
    BY <2>1 DEF CutShort, Free, Hand
  <2> QED
    BY <1>1, <2>1, <2>2, CutShortKeeps DEF CutShort, lanes
<1>6. CASE DispatchTake
  BY <1>1, <1>6, DispatchTakeKeeps DEF DispatchTake
<1>7. CASE DispatchDeliver
  BY <1>1, <1>7, DispatchDeliverKeeps DEF DispatchDeliver
<1>8. CASE CandlesNext
  BY <1>2, <1>8, CandleStepKeeps DEF CandlesNext, CandlePut, CandleGet
<1>9. CASE UNCHANGED busVars
  BY <1>1, <1>2, <1>9 DEF busVars, lanes, candleVars
<1> QED
  BY <1>3, <1>4, <1>5, <1>6, <1>7, <1>8, <1>9 DEF LanesNext

LEMMA BusStarts == BusInit => BusInv
<1> SUFFICES ASSUME BusInit PROVE BusInv
  OBVIOUS
<1>1. /\ ToSet(<<>>) = {} /\ Len(<<>>) = 0 /\ DOMAIN <<>> = {}
      /\ <<>> \in Seq(BusEvents) /\ <<>> \in Seq(Nat)
  BY DEF ToSet
<1>2. /\ Pub = {} /\ Waiting = {} /\ Hand = {}
      /\ \A c \in ToSet(Consumers) : Got(c) = {} /\ delivered[c] = <<>>
  BY <1>1 DEF BusInit, Pub, Waiting, Hand, Got, Free
<1>3. BusTyped
  BY <1>1, BusAssumption DEF BusInit, BusTyped, EachOnce
<1>4. LanesInv /\ HandInv /\ GotInv /\ InlineInv
  <2>1. LogOf(evictions, sharedLane)
    BY <1>1, BusAssumption DEF BusInit, LogOf, SortedBy
  <2> QED
    BY <1>1, <1>2, <2>1 DEF BusInit, LanesInv, HandInv, GotInv, InlineInv, SortedBy
<1>5. DispatcherInv
  BY <1>2 DEF BusInit, DispatcherInv, Free
<1>6. CandlesKept
  <2>1. Gone = 0
    <3>1. candlesPut = 0 /\ Len(candles) = 0
      BY <1>1 DEF BusInit
    <3> QED
      BY <3>1 DEF Gone
  <2>2. 1..0 = {}
    OBVIOUS
  <2> QED
    BY <1>1, <2>1, <2>2, BusAssumption DEF BusInit, CandlesKept, DropsSorted
<1> QED
  BY <1>2, <1>3, <1>4, <1>5, <1>6 DEF BusInv, LanesKept

LEMMA BusInvIsEnough == BusInv => BusKeepsItsWord
<1> SUFFICES ASSUME BusInv PROVE BusKeepsItsWord
  OBVIOUS
<1>1. \A e \in ToSet(published) : Accounted(e)
  BY DEF BusInv, LanesKept, Pub
<1>2. ASSUME NEW c \in ToSet(Consumers)
      PROVE  InLaneOrder(delivered[c])
  <2>1. DOMAIN delivered[c] = 1..Len(delivered[c])
    BY DEF BusInv, LanesKept, BusTyped
  <2>2. \A m, n \in DOMAIN delivered[c] :
          m < n => <<delivered[c][m], delivered[c][n]>> \in Order
    BY <2>1 DEF BusInv, LanesKept, GotInv, SortedBy
  <2> QED
    BY <2>2 DEF InLaneOrder, Order, PlaceOf
<1>3. ASSUME NEW n \in 1..candlesPut
      PROVE  CandleAccounted(n)
  <2>1. /\ Gone \in Nat /\ Len(candles) \in Nat /\ candlesPut = Gone + Len(candles)
        /\ DOMAIN candles = 1..Len(candles)
    BY LenProperties DEF BusInv, CandlesKept, Gone
  <2>2. CASE n <= Gone
    <3>1. n \in 1..Gone
      BY <2>1, <2>2
    <3> QED
      BY <3>1 DEF BusInv, CandlesKept, CandleTraced, CandleAccounted
  <2>3. CASE ~(n <= Gone)
    <3>1. n - Gone \in 1..Len(candles) /\ Gone + (n - Gone) = n
      BY <2>1, <2>3
    <3>2. candles[n - Gone] = n
      BY <3>1 DEF BusInv, CandlesKept
    <3> QED
      BY <2>1, <3>1, <3>2 DEF ToSet, CandleAccounted
  <2> QED
    BY <2>2, <2>3
<1> QED
  BY <1>1, <1>2, <1>3 DEF BusKeepsItsWord

\* Nothing published disappears without a trace, but for a record that goes
\* from a log full of later ones, and every consumer gets the events of a lane
\* in the order they were published, for every number of events and consumers,
\* size of the lanes and logs and interleaving of publishers, the dispatcher,
\* its restarts and consumers that raise
\* (src/apex/bus.py EventBus, RawCandleQueue).
THEOREM NothingIsLostOnTheBus == BusSpec => []BusKeepsItsWord
<1>1. BusInit => BusInv
  BY BusStarts
<1>2. BusInv /\ [LanesNext \/ CandlesNext]_busVars => BusInv'
  BY BusStepKeeps
<1>3. BusInv => BusKeepsItsWord
  BY BusInvIsEnough
<1> QED
  BY <1>1, <1>2, <1>3, PTL DEF BusSpec

-----------------------------------------------------------------------------
(* The raw tables: a store is whole if a row is superseded exactly when it *)
(* is a snapshot whose closed bar is there too.  Every commit leaves a     *)
(* whole store; what a transaction has pending is known from its job.      *)

ClosedRow(bar) == [bar |-> bar, version |-> "final"]
Rows == [bar : Nat, version : {"early", "final"}]

StoreShape(d) ==
  d = [raw |-> d.raw, market |-> d.market, revisions |-> d.revisions, events |-> d.events]

Whole(d) ==
  /\ StoreShape(d)
  /\ DOMAIN d.raw \subseteq Rows /\ d.raw = [r \in DOMAIN d.raw |-> d.raw[r]]
  /\ d.market \in [DOMAIN d.raw -> {"CLOSED", "CORRECTED", "SUPERSEDED"}]
  /\ \A r \in DOMAIN d.raw :
       d.market[r] = "SUPERSEDED" <=> r.version = "early" /\ ClosedRow(r.bar) \in DOMAIN d.raw

JobShape(j) == j = [at |-> j.at, row |-> j.row, old |-> j.old, queue |-> j.queue]

RawTyped ==
  /\ storeClock \in Nat
  /\ job = [k \in Connections |-> job[k]] /\ \A k \in Connections : JobShape(job[k])
  /\ job["serve"].at \in {"idle", "raw", "market", "ingested"}
  /\ job["repair"].at \in {"idle", "next", "supersede", "raw", "market", "ingested", "audit"}
  /\ lock = "serve" <=> job["serve"].at = "market"
  /\ lock = "repair" <=> job["repair"].at \in {"raw", "market", "audit"}
  /\ lock \in {NoLock} \cup Connections

\* The serving process adds a bar newer than all that are stored.
ServeJob(me) ==
  /\ me.at \in {"raw", "market"} =>
       /\ me.row \in Rows /\ me.row = ClosedRow(me.row.bar)
       /\ \A r \in DOMAIN db.raw : r.bar < me.row.bar
  /\ me.at = "market" => \E t : work = [db EXCEPT !.raw = WithRow(@, me.row, t)]

\* The repair replaces a snapshot by its closed bar.
RepairJob(me) ==
  /\ \A r \in me.queue : r \in DOMAIN db.raw /\ db.market[r] # "SUPERSEDED"
  /\ me.at \in {"supersede", "raw", "market"} =>
       /\ me.old \in DOMAIN db.raw /\ me.old \notin me.queue /\ me.old.version = "early"
       /\ me.row = ClosedRow(me.old.bar) /\ me.row \notin DOMAIN db.raw
  /\ me.at \in {"ingested", "audit"} => me.row \in DOMAIN db.raw /\ me.row.version = "final"
  /\ me.at = "raw" => work = Superseded(db, me.old)
  /\ me.at = "market" => \E t : work = [Superseded(db, me.old) EXCEPT !.raw = WithRow(@, me.row, t)]
  /\ me.at = "audit" => work = [db EXCEPT !.market[me.row] = "CORRECTED"]

RawInv == RawTyped /\ Whole(db) /\ ServeJob(job["serve"]) /\ RepairJob(job["repair"])

-----------------------------------------------------------------------------
LEMMA RowsOfABar ==
  /\ \A x \in Rows : x.bar \in Nat /\ x.version \in {"early", "final"}
  /\ \A x \in Rows : x.version = "final" => x = ClosedRow(x.bar)
  /\ \A x, y \in Rows : x.version = y.version /\ x.bar = y.bar => x = y
  /\ \A bar \in Nat : /\ ClosedRow(bar) \in Rows /\ ClosedRow(bar).bar = bar
                      /\ ClosedRow(bar).version = "final"
BY DEF Rows, ClosedRow

\* The closed bar is added, and what there was of the bar is superseded.
LEMMA AddedRowKeepsWhole ==
  ASSUME NEW d, Whole(d), NEW e, StoreShape(e), NEW bar \in Nat,
         ClosedRow(bar) \notin DOMAIN d.raw,
         DOMAIN e.raw = DOMAIN d.raw \cup {ClosedRow(bar)},
         e.raw = [x \in DOMAIN e.raw |-> e.raw[x]],
         e.market \in [DOMAIN e.raw -> {"CLOSED", "CORRECTED", "SUPERSEDED"}],
         e.market[ClosedRow(bar)] = "CLOSED",
         \A x \in DOMAIN d.raw : e.market[x] = IF x.bar = bar THEN "SUPERSEDED" ELSE d.market[x]
  PROVE  Whole(e)
<1>1. DOMAIN e.raw \subseteq Rows
  BY RowsOfABar DEF Whole
<1>2. ASSUME NEW x \in DOMAIN d.raw
      PROVE  e.market[x] = "SUPERSEDED" <=> x.version = "early" /\ ClosedRow(x.bar) \in DOMAIN e.raw
  <2>1. x \in Rows /\ x.bar \in Nat /\ ClosedRow(x.bar).bar = x.bar
    BY RowsOfABar DEF Whole
  <2>2. CASE x.bar = bar
    BY <2>1, <2>2, RowsOfABar
  <2>3. CASE x.bar # bar
    BY <2>1, <2>3, RowsOfABar DEF Whole
  <2> QED
    BY <2>2, <2>3
<1>3. ClosedRow(bar).version # "early"
  BY RowsOfABar
<1> QED
  BY <1>1, <1>2, <1>3 DEF Whole

LEMMA MarkedRowKeepsWhole ==
  ASSUME NEW d, Whole(d), NEW r \in DOMAIN d.raw, r.version = "final",
         NEW e, StoreShape(e), e.raw = d.raw, e.market = [d.market EXCEPT ![r] = "CORRECTED"]
  PROVE  Whole(e)
BY RowsOfABar DEF Whole

\* A whole store shows one row of every bar it has, and of a corrected bar its
\* closed one.
LEMMA WholeStoresShowOneBar ==
  ASSUME Whole(db) PROVE OneBarPerOpenTime
<1> SUFFICES ASSUME NEW bar \in StoredBars, NEW r \in DOMAIN db.raw, r.bar = bar
             PROVE  \E x \in Rows :
                      /\ VisibleRows(db, bar) = {x}
                      /\ (\E y \in DOMAIN db.raw : y.bar = bar /\ y # x) => x.version = "final"
  BY FS_Singleton DEF OneBarPerOpenTime
<1>1. /\ DOMAIN db.market = DOMAIN db.raw /\ DOMAIN db.raw \subseteq Rows
      /\ VisibleRows(db, bar) = {y \in DOMAIN db.raw : y.bar = bar /\ db.market[y] # "SUPERSEDED"}
  BY DEF Whole, VisibleRows, Hidden
<1>2. bar \in Nat
  BY <1>1, RowsOfABar
<1>3. CASE ClosedRow(bar) \in DOMAIN db.raw
  <2>1. \A y \in DOMAIN db.raw : y.bar = bar => y.version = "early" \/ y = ClosedRow(bar)
    BY <1>1, RowsOfABar
  <2>2. VisibleRows(db, bar) = {ClosedRow(bar)}
    BY <1>1, <1>2, <1>3, <2>1, RowsOfABar DEF Whole
  <2> QED
    BY <1>2, <2>2, RowsOfABar
<1>4. CASE ClosedRow(bar) \notin DOMAIN db.raw
  <2>1. \A y \in DOMAIN db.raw : y.bar = bar => y = r
    BY <1>1, <1>4, RowsOfABar
  <2>2. db.market[r] # "SUPERSEDED"
    BY <1>4 DEF Whole
  <2> QED
    BY <1>1, <2>1, <2>2
<1> QED
  BY <1>3, <1>4

-----------------------------------------------------------------------------
LEMMA JobMoves ==
  ASSUME RawTyped, NEW k \in Connections, NEW j, JobShape(j), job' = [job EXCEPT ![k] = j]
  PROVE  /\ job' = [c \in Connections |-> job'[c]] /\ \A c \in Connections : JobShape(job'[c])
         /\ job'[k] = j /\ \A c \in Connections \ {k} : job'[c] = job[c]
BY DEF RawTyped

LEMMA GotoMoves ==
  ASSUME RawTyped, NEW k \in Connections, NEW place, Goto(k, place)
  PROVE  /\ job' = [c \in Connections |-> job'[c]] /\ \A c \in Connections : JobShape(job'[c])
         /\ job'[k].at = place /\ job'[k].row = job[k].row /\ job'[k].old = job[k].old
         /\ job'[k].queue = job[k].queue
         /\ \A c \in Connections \ {k} : job'[c] = job[c]
<1>1. JobShape(job[k])
  BY DEF RawTyped
<1>2. PICK row, old, queue : /\ job[k] = [at |-> job[k].at, row |-> row, old |-> old, queue |-> queue]
                             /\ row = job[k].row /\ old = job[k].old /\ queue = job[k].queue
  BY <1>1 DEF JobShape
<1>3. job' = [job EXCEPT ![k] = [at |-> place, row |-> row, old |-> old, queue |-> queue]]
  <2>1. job' = [job EXCEPT ![k] = [@ EXCEPT !.at = place]]
    BY DEF Goto
  <2>2. [job[k] EXCEPT !.at = place] = [at |-> place, row |-> row, old |-> old, queue |-> queue]
    BY <1>2
  <2> QED
    BY <2>1, <2>2
<1>4. JobShape([at |-> place, row |-> row, old |-> old, queue |-> queue])
  BY DEF JobShape
<1> QED
  BY <1>2, <1>3, <1>4, JobMoves

LEMMA ConnectionsAre == Connections = {"serve", "repair"} /\ NoLock = "none"
BY DEF Connections, NoLock

\* Storing the raw row leaves it pending.
LEMMA InsertRawKeeps ==
  ASSUME RawInv, NEW k \in Connections, InsertRaw(k)
  PROVE  RawInv'
<1> USE DEF RawInv
<1>1. /\ job[k].at = "raw" /\ MayWrite(k) /\ UNCHANGED storeClock
      /\ View(k) = IF lock = k THEN work ELSE db
  BY DEF InsertRaw, Commit, Write, View
<1>2. job[k].row \notin DOMAIN View(k).raw
  <2>1. CASE k = "serve"
    <3>1. View(k) = db
      BY <1>1, <2>1 DEF RawTyped
    <3>2. \A r \in DOMAIN db.raw : r.bar < job[k].row.bar
      BY <1>1, <2>1 DEF ServeJob
    <3>3. job[k].row \in Rows
      BY <1>1, <2>1 DEF ServeJob
    <3> QED
      BY <3>1, <3>2, <3>3, RowsOfABar
  <2>2. CASE k = "repair"
    <3>1. View(k) = Superseded(db, job[k].old) /\ job[k].row \notin DOMAIN db.raw
      BY <1>1, <2>2 DEF RawTyped, RepairJob
    <3>2. Superseded(db, job[k].old).raw = db.raw
      BY DEF Whole, StoreShape, Superseded
    <3> QED
      BY <3>1, <3>2
  <2> QED
    BY <2>1, <2>2, ConnectionsAre
<1>3. /\ lock' = k /\ UNCHANGED db /\ Goto(k, "market")
      /\ work' = [View(k) EXCEPT !.raw = WithRow(@, job[k].row, storeClock)]
  BY <1>2 DEF InsertRaw, Write
<1>4. /\ job' = [c \in Connections |-> job'[c]] /\ \A c \in Connections : JobShape(job'[c])
      /\ job'[k].at = "market" /\ job'[k].row = job[k].row /\ job'[k].old = job[k].old
      /\ job'[k].queue = job[k].queue
      /\ \A c \in Connections \ {k} : job'[c] = job[c]
  BY <1>3, GotoMoves
<1>5. CASE k = "serve"
  <2>1. lock = "none" /\ View(k) = db /\ job'["repair"] = job["repair"]
    BY <1>1, <1>4, <1>5, ConnectionsAre DEF RawTyped, MayWrite
  <2>2. RawTyped'
    BY <1>1, <1>3, <1>4, <1>5, <2>1, ConnectionsAre DEF RawTyped
  <2>3. ServeJob(job["serve"])'
    BY <1>1, <1>3, <1>4, <1>5, <2>1 DEF ServeJob
  <2>4. RepairJob(job["repair"])'
    BY <1>3, <2>1 DEF RepairJob, RawTyped
  <2> QED
    BY <1>3, <2>2, <2>3, <2>4
<1>6. CASE k = "repair"
  <2>1. lock = "repair" /\ View(k) = work /\ job'["serve"] = job["serve"]
    BY <1>1, <1>4, <1>6, ConnectionsAre DEF RawTyped
  <2>2. RawTyped'
    BY <1>1, <1>3, <1>4, <1>6, <2>1, ConnectionsAre DEF RawTyped
  <2>3. RepairJob(job["repair"])'
    <3>1. work = Superseded(db, job["repair"].old)
      BY <1>1, <1>6 DEF RepairJob
    <3>2. work' = [Superseded(db, job["repair"].old) EXCEPT !.raw = WithRow(@, job["repair"].row, storeClock)]
      BY <1>3, <1>6, <2>1, <3>1
    <3> QED
      BY <1>1, <1>3, <1>4, <1>6, <3>2 DEF RepairJob
  <2>4. ServeJob(job["serve"])'
    BY <1>3, <2>1 DEF ServeJob, RawTyped
  <2> QED
    BY <1>3, <2>2, <2>3, <2>4
<1> QED
  BY <1>5, <1>6, ConnectionsAre

LEMMA InsertMarketKeeps ==
  ASSUME RawInv, NEW k \in Connections, InsertMarket(k)
  PROVE  RawInv'
<1> USE DEF RawInv
<1>1. /\ job[k].at = "market" /\ lock = k /\ UNCHANGED storeClock /\ lock' = "none"
      /\ db' = [work EXCEPT !.market = WithRow(@, job[k].row, "CLOSED")]
      /\ Goto(k, "ingested")
  BY ConnectionsAre DEF InsertMarket, Commit, View, RawTyped
<1>2. /\ job' = [c \in Connections |-> job'[c]] /\ \A c \in Connections : JobShape(job'[c])
      /\ job'[k].at = "ingested" /\ job'[k].row = job[k].row /\ job'[k].old = job[k].old
      /\ job'[k].queue = job[k].queue
      /\ \A c \in Connections \ {k} : job'[c] = job[c]
  BY <1>1, GotoMoves
<1>3. RawTyped'
  BY <1>1, <1>2, ConnectionsAre DEF RawTyped
<1>4. CASE k = "serve"
  <2>1. PICK bar \in Nat : /\ job[k].row = ClosedRow(bar)
                           /\ \A r \in DOMAIN db.raw : r.bar < bar
    BY <1>1, <1>4, RowsOfABar DEF ServeJob
  <2>2. PICK t : work = [db EXCEPT !.raw = WithRow(@, ClosedRow(bar), t)]
    BY <1>1, <1>4, <2>1 DEF ServeJob
  <2>3. /\ db' = [raw |-> WithRow(db.raw, ClosedRow(bar), t),
                  market |-> WithRow(db.market, ClosedRow(bar), "CLOSED"),
                  revisions |-> db.revisions, events |-> db.events]
    BY <1>1, <2>1, <2>2 DEF Whole, StoreShape
  <2>4. ClosedRow(bar) \notin DOMAIN db.raw /\ DOMAIN db.raw \subseteq Rows
    BY <2>1, RowsOfABar DEF Whole
  <2>5. /\ StoreShape(db') /\ DOMAIN db'.raw = DOMAIN db.raw \cup {ClosedRow(bar)}
        /\ db'.raw = [x \in DOMAIN db'.raw |-> db'.raw[x]]
        /\ db'.market = WithRow(db.market, ClosedRow(bar), "CLOSED")
    BY <2>3 DEF StoreShape, WithRow
  <2>6. /\ db'.market \in [DOMAIN db'.raw -> {"CLOSED", "CORRECTED", "SUPERSEDED"}]
        /\ db'.market[ClosedRow(bar)] = "CLOSED"
        /\ \A x \in DOMAIN db.raw : db'.market[x] = db.market[x] /\ x.bar # bar /\ x.bar < bar
    BY <2>1, <2>4, <2>5, RowsOfABar DEF Whole, WithRow
  <2>7. Whole(db')
    BY <2>1, <2>4, <2>5, <2>6, AddedRowKeepsWhole
  <2>8. job["repair"].at \notin {"raw", "market", "audit"} /\ job'["repair"] = job["repair"]
    BY <1>1, <1>2, <1>4, ConnectionsAre DEF RawTyped
  <2>9. RepairJob(job["repair"])'
    <3>1. job["repair"].at = "supersede" => job["repair"].row # ClosedRow(bar)
      BY <2>1, <2>4, RowsOfABar DEF RepairJob
    <3> QED
      BY <2>5, <2>6, <2>8, <3>1 DEF RepairJob
  <2>10. ServeJob(job["serve"])'
    BY <1>2, <1>4 DEF ServeJob
  <2> QED
    BY <1>3, <2>7, <2>9, <2>10
<1>5. CASE k = "repair"
  <2>1. PICK old \in DOMAIN db.raw :
          /\ old = job[k].old /\ old \notin job[k].queue /\ old.version = "early" /\ old.bar \in Nat
          /\ job[k].row = ClosedRow(old.bar) /\ ClosedRow(old.bar) \notin DOMAIN db.raw
    BY <1>1, <1>5, RowsOfABar DEF RepairJob, Whole
  <2>2. PICK bar \in Nat : bar = old.bar
    BY <2>1
  <2>3. PICK t : work = [Superseded(db, old) EXCEPT !.raw = WithRow(@, ClosedRow(bar), t)]
    BY <1>1, <1>5, <2>1, <2>2 DEF RepairJob
  <2>4. DOMAIN db.raw \subseteq Rows /\ DOMAIN db.market = DOMAIN db.raw
    BY DEF Whole
  <2>5. db' = [raw |-> WithRow(db.raw, ClosedRow(bar), t),
               market |-> WithRow([db.market EXCEPT ![old] = "SUPERSEDED"], ClosedRow(bar), "CLOSED"),
               revisions |-> db.revisions, events |-> db.events]
    BY <1>1, <2>1, <2>2, <2>3 DEF Whole, StoreShape, Superseded
  <2>6. /\ StoreShape(db') /\ DOMAIN db'.raw = DOMAIN db.raw \cup {ClosedRow(bar)}
        /\ db'.raw = [x \in DOMAIN db'.raw |-> db'.raw[x]]
        /\ db'.market = WithRow([db.market EXCEPT ![old] = "SUPERSEDED"], ClosedRow(bar), "CLOSED")
    BY <2>5 DEF StoreShape, WithRow
  <2>7. \A x \in DOMAIN db.raw : x.bar = bar <=> x = old
    BY <2>1, <2>2, <2>4, RowsOfABar
  <2>8. /\ db'.market \in [DOMAIN db'.raw -> {"CLOSED", "CORRECTED", "SUPERSEDED"}]
        /\ db'.market[ClosedRow(bar)] = "CLOSED"
        /\ \A x \in DOMAIN db.raw : db'.market[x] = IF x = old THEN "SUPERSEDED" ELSE db.market[x]
    BY <2>1, <2>2, <2>6 DEF Whole, WithRow
  <2>9. Whole(db')
    BY <2>1, <2>2, <2>6, <2>7, <2>8, AddedRowKeepsWhole
  <2>10. RepairJob(job["repair"])'
    <3>1. job'["repair"].row \in DOMAIN db'.raw /\ job'["repair"].row.version = "final"
      BY <1>2, <1>5, <2>1, <2>2, <2>6, RowsOfABar
    <3> QED
      BY <1>2, <1>5, <2>1, <2>6, <2>8, <3>1 DEF RepairJob
  <2>11. ServeJob(job["serve"])'
    <3>1. job["serve"].at # "market" /\ job'["serve"] = job["serve"]
      BY <1>1, <1>2, <1>5, ConnectionsAre DEF RawTyped
    <3>2. \A x \in DOMAIN db'.raw : x \in DOMAIN db.raw \/ x.bar = old.bar
      BY <2>2, <2>6, RowsOfABar
    <3> QED
      BY <2>1, <3>1, <3>2 DEF ServeJob
  <2> QED
    BY <1>3, <2>9, <2>10, <2>11
<1> QED
  BY <1>4, <1>5, ConnectionsAre

\* A job that only plans leaves the tables alone.
LEMMA ServeMoves ==
  ASSUME RawInv, NEW j, JobShape(j), job' = [job EXCEPT !["serve"] = j],
         job["serve"].at # "market", j.at \in {"idle", "raw"},
         UNCHANGED <<storeClock, db, lock, work>>, ServeJob(j)'
  PROVE  RawInv'
<1>1. /\ job' = [c \in Connections |-> job'[c]] /\ \A c \in Connections : JobShape(job'[c])
      /\ job'["serve"] = j /\ job'["repair"] = job["repair"]
  BY JobMoves, ConnectionsAre DEF RawInv
<1>2. RawTyped'
  BY <1>1, ConnectionsAre DEF RawInv, RawTyped
<1>3. RepairJob(job["repair"])'
  BY <1>1 DEF RawInv, RepairJob
<1> QED
  BY <1>1, <1>2, <1>3 DEF RawInv

LEMMA RepairMoves ==
  ASSUME RawInv, NEW j, JobShape(j), job' = [job EXCEPT !["repair"] = j],
         job["repair"].at \notin {"raw", "market", "audit"}, j.at \in {"idle", "next", "supersede"},
         UNCHANGED <<storeClock, db, lock, work>>, RepairJob(j)'
  PROVE  RawInv'
<1>1. /\ job' = [c \in Connections |-> job'[c]] /\ \A c \in Connections : JobShape(job'[c])
      /\ job'["repair"] = j /\ job'["serve"] = job["serve"]
  BY JobMoves, ConnectionsAre DEF RawInv
<1>2. RawTyped'
  BY <1>1, ConnectionsAre DEF RawInv, RawTyped
<1>3. ServeJob(job["serve"])'
  BY <1>1 DEF RawInv, ServeJob
<1> QED
  BY <1>1, <1>2, <1>3 DEF RawInv

LEMMA NoJobIs ==
  /\ JobShape(NoJob) /\ NoJob.at = "idle" /\ NoJob.queue = {}
  /\ ServeJob(NoJob) /\ RepairJob(NoJob) /\ ServeJob(NoJob)' /\ RepairJob(NoJob)'
<1>1. JobShape(NoJob) /\ NoJob.at = "idle" /\ NoJob.queue = {}
  BY DEF NoJob, JobShape
<1> QED
  BY <1>1 DEF ServeJob, RepairJob

LEMMA ServeIngestsKeeps == RawInv /\ (ServeIngests \/ ServeIngested) => RawInv'
<1> SUFFICES ASSUME RawInv, ServeIngests \/ ServeIngested PROVE RawInv'
  OBVIOUS
<1>1. CASE ServeIngests
  <2>1. PICK bar \in StoredBars :
          /\ job["serve"].at = "idle" /\ \A r \in DOMAIN db.raw : r.bar < bar
          /\ job' = [job EXCEPT !["serve"] = [NoJob EXCEPT !.at = "raw",
                                                !.row = [bar |-> bar, version |-> "final"]]]
          /\ UNCHANGED <<storeClock, evidence, db, tx>>
    BY <1>1 DEF ServeIngests
  <2>2. PICK j : j = [NoJob EXCEPT !.at = "raw", !.row = ClosedRow(bar)]
    OBVIOUS
  <2>3. JobShape(j) /\ j.at = "raw" /\ j.row = ClosedRow(bar)
    BY <2>2 DEF NoJob, JobShape
  <2>4. bar \in Nat
    BY RawStoreAssumption DEF StoredBars
  <2>5. ServeJob(j)'
    BY <2>1, <2>3, <2>4, RowsOfABar DEF ServeJob
  <2> QED
    BY <2>1, <2>2, <2>3, <2>5, ServeMoves DEF tx, ClosedRow
<1>2. CASE ServeIngested
  BY <1>2, NoJobIs, ServeMoves DEF ServeIngested, tx
<1> QED
  BY <1>1, <1>2

LEMMA RepairPlansKeeps == RawInv /\ (RepairStarts \/ RepairJudges \/ RepairEnds) => RawInv'
<1> SUFFICES ASSUME RawInv, RepairStarts \/ RepairJudges \/ RepairEnds PROVE RawInv'
  OBVIOUS
<1>1. CASE RepairStarts
  <2>1. PICK j : j = [NoJob EXCEPT !.at = "next", !.queue = Candidates(db)]
    OBVIOUS
  <2>2. JobShape(j) /\ j.at = "next" /\ j.queue = Candidates(db)
    BY <2>1 DEF NoJob, JobShape
  <2>3. \A r \in Candidates(db) : r \in DOMAIN db.raw /\ db.market[r] # "SUPERSEDED"
    BY DEF Candidates, RawInv, Whole
  <2>4. RepairJob(j)'
    BY <1>1, <2>2, <2>3 DEF RepairStarts, RepairJob
  <2> QED
    BY <1>1, <2>1, <2>2, <2>4, RepairMoves DEF RepairStarts, tx
<1>2. CASE RepairEnds
  BY <1>2, NoJobIs, RepairMoves DEF RepairEnds, tx
<1>3. CASE RepairJudges
  <2>1. PICK old \in job["repair"].queue :
          /\ job["repair"].at = "next" /\ UNCHANGED <<storeClock, db, lock, work>>
          /\ \/ job' = [job EXCEPT !["repair"].queue = job["repair"].queue \ {old}]
             \/ \E live \in VenueBar(old.bar) :
                  /\ ~StillOpen(old.bar) /\ Replacement(old.bar, live) \notin {<< >>, old}
                  /\ job' = [job EXCEPT !["repair"] =
                       [@ EXCEPT !.at = "supersede", !.old = old,
                                 !.row = Replacement(old.bar, live),
                                 !.queue = job["repair"].queue \ {old}]]
    BY <1>3 DEF RepairJudges, tx
  <2>2. /\ old \in DOMAIN db.raw /\ old \in Rows /\ db.market[old] # "SUPERSEDED"
        /\ \A r \in job["repair"].queue : r \in DOMAIN db.raw /\ db.market[r] # "SUPERSEDED"
    BY DEF RawInv, RepairJob, Whole
  <2>3. PICK row, before :
          job["repair"] = [at |-> "next", row |-> row, old |-> before, queue |-> job["repair"].queue]
    BY <2>1 DEF RawInv, RawTyped, Connections, JobShape
  <2>4. job = [c \in Connections |-> job[c]] /\ "repair" \in Connections
    BY DEF RawInv, RawTyped, Connections
  <2>5. CASE job' = [job EXCEPT !["repair"].queue = job["repair"].queue \ {old}]
    <3>1. PICK j : j = [at |-> "next", row |-> row, old |-> before, queue |-> job["repair"].queue \ {old}]
      OBVIOUS
    <3>2. job' = [job EXCEPT !["repair"] = j]
      <4>1. job' = [job EXCEPT !["repair"] = [job["repair"] EXCEPT !.queue = job["repair"].queue \ {old}]]
        BY <2>4, <2>5
      <4>2. [job["repair"] EXCEPT !.queue = job["repair"].queue \ {old}] = j
        BY <2>3, <3>1
      <4> QED
        BY <4>1, <4>2
    <3>3. JobShape(j) /\ RepairJob(j)'
      BY <2>1, <2>2, <3>1 DEF JobShape, RepairJob
    <3> QED
      BY <2>1, <3>1, <3>2, <3>3, RepairMoves
  <2>6. ASSUME NEW live \in VenueBar(old.bar), ~StillOpen(old.bar),
               Replacement(old.bar, live) \notin {<< >>, old},
               job' = [job EXCEPT !["repair"] =
                  [@ EXCEPT !.at = "supersede", !.old = old, !.row = Replacement(old.bar, live),
                            !.queue = job["repair"].queue \ {old}]]
        PROVE  RawInv'
    <3>1. Replacement(old.bar, live) = ClosedRow(old.bar)
      <4>1. CloseOf(old.bar) <= storeClock
        BY <2>2, <2>6, RawStoreAssumption, RowsOfABar DEF StillOpen, CloseOf, RawInv, RawTyped
      <4>2. live \in {ClosedRow(old.bar), << >>}
        BY <4>1 DEF VenueBar, ClosedRow
      <4> QED
        BY <2>6, <4>2 DEF Replacement, EvidenceBar, ClosedRow
    <3>2. old.version = "early" /\ ClosedRow(old.bar) \notin DOMAIN db.raw
      <4>1. old.version = "early"
        BY <2>2, <2>6, <3>1, RowsOfABar
      <4> QED
        BY <2>2, <4>1 DEF RawInv, Whole
    <3>3. PICK j : j = [job["repair"] EXCEPT !.at = "supersede", !.old = old,
                          !.row = ClosedRow(old.bar), !.queue = job["repair"].queue \ {old}]
      OBVIOUS
    <3>4. job' = [job EXCEPT !["repair"] = j]
      BY <2>4, <2>6, <3>1, <3>3
    <3>5. /\ JobShape(j) /\ j.at = "supersede" /\ j.old = old /\ j.row = ClosedRow(old.bar)
          /\ j.queue = job["repair"].queue \ {old}
      BY <2>3, <3>3 DEF JobShape
    <3>6. RepairJob(j)'
      BY <2>1, <2>2, <3>2, <3>5 DEF RepairJob
    <3> QED
      BY <2>1, <3>4, <3>5, <3>6, RepairMoves
  <2> QED
    BY <2>1, <2>5, <2>6
<1> QED
  BY <1>1, <1>2, <1>3

LEMMA CorrectKeeps == RawInv /\ (CorrectSupersedes \/ CorrectMarks \/ CorrectAudits) => RawInv'
<1> SUFFICES ASSUME RawInv, CorrectSupersedes \/ CorrectMarks \/ CorrectAudits PROVE RawInv'
  OBVIOUS
<1> USE DEF RawInv
<1>1. ASSUME NEW place \in {"raw", "audit"}, Goto("repair", place), lock = "none", lock' = "repair",
             UNCHANGED <<storeClock, db>>,
             job["repair"].at \notin {"raw", "market", "audit"}
      PROVE  /\ RawTyped' /\ ServeJob(job["serve"])' /\ job'["repair"].at = place
             /\ job'["repair"].row = job["repair"].row /\ job'["repair"].old = job["repair"].old
             /\ job'["repair"].queue = job["repair"].queue
  <2>1. /\ job' = [c \in Connections |-> job'[c]] /\ \A c \in Connections : JobShape(job'[c])
        /\ job'["repair"].at = place /\ job'["serve"] = job["serve"]
        /\ job'["repair"].row = job["repair"].row /\ job'["repair"].old = job["repair"].old
        /\ job'["repair"].queue = job["repair"].queue
    BY <1>1, GotoMoves, ConnectionsAre
  <2>2. RawTyped'
    BY <1>1, <2>1, ConnectionsAre DEF RawTyped
  <2>3. ServeJob(job["serve"])'
    BY <1>1, <2>1 DEF ServeJob, RawTyped
  <2> QED
    BY <2>1, <2>2, <2>3
<1>2. CASE CorrectSupersedes
  <2>1. /\ job["repair"].at = "supersede" /\ lock = "none" /\ lock' = "repair"
        /\ View("repair") = db
    BY <1>2, ConnectionsAre DEF CorrectSupersedes, Write, MayWrite, View, RawTyped
  <2>2. /\ work' = Superseded(db, job["repair"].old) /\ UNCHANGED <<storeClock, db>>
        /\ Goto("repair", "raw")
    BY <1>2, <2>1 DEF CorrectSupersedes, Write
  <2>3. RepairJob(job["repair"])'
    BY <1>1, <2>1, <2>2 DEF RepairJob, Superseded
  <2> QED
    BY <1>1, <2>1, <2>2, <2>3
<1>3. CASE CorrectMarks
  <2>1. /\ job["repair"].at = "ingested" /\ lock = "none" /\ lock' = "repair"
        /\ View("repair") = db
    BY <1>3, ConnectionsAre DEF CorrectMarks, Write, MayWrite, View, RawTyped
  <2>2. /\ work' = [db EXCEPT !.market[job["repair"].row] = "CORRECTED"] /\ UNCHANGED <<storeClock, db>>
        /\ Goto("repair", "audit")
    BY <1>3, <2>1 DEF CorrectMarks, Write
  <2>3. RepairJob(job["repair"])'
    BY <1>1, <2>1, <2>2 DEF RepairJob
  <2> QED
    BY <1>1, <2>1, <2>2, <2>3
<1>4. CASE CorrectAudits
  <2>1. /\ job["repair"].at = "audit" /\ lock = "repair" /\ lock' = "none" /\ View("repair") = work
        /\ UNCHANGED storeClock
    BY <1>4, ConnectionsAre DEF CorrectAudits, Commit, View, RawTyped
  <2>2. PICK row : row = job["repair"].row /\ row \in DOMAIN db.raw /\ row.version = "final"
    BY <2>1 DEF RepairJob
  <2>3. work = [raw |-> db.raw, market |-> [db.market EXCEPT ![row] = "CORRECTED"],
                revisions |-> db.revisions, events |-> db.events]
    BY <2>1, <2>2 DEF RepairJob, Whole, StoreShape
  <2>4. PICK pair : db' = [View("repair") EXCEPT !.revisions = @ \cup {pair}, !.events = @ \cup {pair}]
    BY <1>4 DEF CorrectAudits, Commit
  <2>5. StoreShape(db') /\ db'.raw = db.raw /\ db'.market = [db.market EXCEPT ![row] = "CORRECTED"]
    <3>1. db' = [work EXCEPT !.revisions = work.revisions \cup {pair},
                             !.events = work.events \cup {pair}]
      BY <2>1, <2>3, <2>4
    <3> QED
      BY <2>3, <3>1 DEF StoreShape
  <2>6. Whole(db')
    BY <2>2, <2>5, MarkedRowKeepsWhole
  <2>7. PICK j : /\ j = [NoJob EXCEPT !.at = "next", !.queue = job["repair"].queue]
                 /\ job' = [job EXCEPT !["repair"] = j]
    BY <1>4 DEF CorrectAudits
  <2>8. JobShape(j) /\ j.at = "next" /\ j.queue = job["repair"].queue
    BY <2>7 DEF NoJob, JobShape
  <2>9. /\ job' = [c \in Connections |-> job'[c]] /\ \A c \in Connections : JobShape(job'[c])
        /\ job'["repair"] = j /\ job'["serve"] = job["serve"]
    BY <2>7, <2>8, JobMoves, ConnectionsAre
  <2>10. RawTyped'
    BY <2>1, <2>8, <2>9, ConnectionsAre DEF RawTyped
  <2>11. ServeJob(job["serve"])'
    BY <2>1, <2>5, <2>9, ConnectionsAre DEF ServeJob, RawTyped
  <2>12. RepairJob(job["repair"])'
    <3>1. \A r \in job["repair"].queue : r \in DOMAIN db.raw /\ db.market[r] # "SUPERSEDED"
      BY DEF RepairJob
    <3>2. \A r \in DOMAIN db.raw : db'.market[r] \in {db.market[r], "CORRECTED"}
      BY <2>5 DEF Whole
    <3> QED
      BY <2>5, <2>8, <2>9, <3>1, <3>2 DEF RepairJob
  <2> QED
    BY <2>6, <2>10, <2>11, <2>12
<1> QED
  BY <1>2, <1>3, <1>4

\* What a dying process had pending is lost.
LEMMA DeathKeeps ==
  ASSUME RawInv, NEW k \in Connections, ProcessDies(k)
  PROVE  RawInv'
<1> USE DEF RawInv
<1>1. /\ job' = [c \in Connections |-> job'[c]] /\ \A c \in Connections : JobShape(job'[c])
      /\ job'[k] = NoJob /\ \A c \in Connections \ {k} : job'[c] = job[c]
  BY JobMoves, NoJobIs DEF ProcessDies
<1>2. /\ UNCHANGED <<storeClock, db>>
      /\ lock' = IF lock = k THEN "none" ELSE lock
      /\ lock # k => UNCHANGED work
  BY DEF ProcessDies, tx, NoLock
<1>3. RawTyped'
  BY <1>1, <1>2, NoJobIs, ConnectionsAre DEF RawTyped
<1>4. CASE k = "serve"
  <2>1. job'["repair"] = job["repair"] /\ (lock = "repair" => UNCHANGED work)
    BY <1>1, <1>2, <1>4, ConnectionsAre
  <2>2. RepairJob(job["repair"])'
    BY <1>2, <2>1 DEF RepairJob, RawTyped
  <2> QED
    BY <1>1, <1>2, <1>3, <1>4, <2>2, NoJobIs
<1>5. CASE k = "repair"
  <2>1. job'["serve"] = job["serve"] /\ (lock = "serve" => UNCHANGED work)
    BY <1>1, <1>2, <1>5, ConnectionsAre
  <2>2. ServeJob(job["serve"])'
    BY <1>2, <2>1 DEF ServeJob, RawTyped
  <2> QED
    BY <1>1, <1>2, <1>3, <1>5, <2>2, NoJobIs
<1> QED
  BY <1>4, <1>5, ConnectionsAre

LEMMA RawStarts == RawStoreInit => RawInv
<1> SUFFICES ASSUME RawStoreInit PROVE RawInv
  OBVIOUS
<1>1. RawTyped /\ job["serve"] = NoJob /\ job["repair"] = NoJob
  BY NoJobIs, ConnectionsAre DEF RawStoreInit, RawTyped
<1>2. Whole(db)
  <2>1. PICK early \in SUBSET (1..2) : db = OlderStore(1..2, {2} \cup early)
    BY DEF RawStoreInit
  <2>2. PICK rows : /\ rows = {[bar |-> b, version |-> IF b \in {2} \cup early THEN "early" ELSE "final"] : b \in 1..2}
                    /\ db = [raw |-> [r \in rows |-> IF r.version = "early" THEN r.bar
                                                     ELSE CloseOf(r.bar) + Skew],
                             market |-> [r \in rows |-> "CLOSED"], revisions |-> {}, events |-> {}]
    BY <2>1 DEF OlderStore
  <2>3. rows \subseteq Rows
    BY <2>2 DEF Rows
  <2>4. \A r \in rows : r.version = "early" => ClosedRow(r.bar) \notin rows
    BY <2>2 DEF ClosedRow
  <2>5. /\ StoreShape(db) /\ DOMAIN db.raw = rows /\ db.raw = [r \in rows |-> db.raw[r]]
        /\ db.market = [r \in rows |-> "CLOSED"]
    BY <2>2 DEF StoreShape
  <2> QED
    BY <2>3, <2>4, <2>5 DEF Whole
<1> QED
  BY <1>1, <1>2, NoJobIs DEF RawInv

\* Whatever dies where, and however the serving process and the repair take
\* turns at the database, the engines read one bar per open time, and of a
\* corrected bar its closed version, for every number of bars, skew margin and
\* evidence (src/apex/data_catalog/store/sqlite_store.py ingest_raw, correct_raw;
\* src/apex/ops/partial_bar_repair.py run_repair).
THEOREM OneBarIsRead == RawStoreSpec => []OneBarPerOpenTime
<1>1. RawStoreInit => RawInv
  BY RawStarts
<1>2. RawInv /\ [RawStoreNext]_rawStoreVars => RawInv'
  <2> SUFFICES ASSUME RawInv, [RawStoreNext]_rawStoreVars PROVE RawInv'
    OBVIOUS
  <2>1. CASE ClockAdvances
    <3>1. storeClock' = storeClock + 1 /\ UNCHANGED <<db, lock, work, job>>
      BY <2>1 DEF ClockAdvances, tx
    <3>2. RawTyped'
      BY <3>1 DEF RawInv, RawTyped
    <3> QED
      BY <3>1, <3>2 DEF RawInv, ServeJob, RepairJob
  <2>2. CASE UNCHANGED rawStoreVars
    BY <2>2 DEF rawStoreVars, RawInv, RawTyped, ServeJob, RepairJob
  <2> QED
    BY <2>1, <2>2, InsertRawKeeps, InsertMarketKeeps, DeathKeeps, ServeIngestsKeeps,
       RepairPlansKeeps, CorrectKeeps DEF RawStoreNext
<1>3. RawInv => OneBarPerOpenTime
  BY WholeStoresShowOneBar DEF RawInv
<1> QED
  BY <1>1, <1>2, <1>3, PTL DEF RawStoreSpec

-----------------------------------------------------------------------------
(* The two writers of the history: why no bar is ever jumped over.  What a *)
(* source has not served it still has in its history or has yet to walk,   *)
(* a page is the oldest of that, and the page in hand follows what is      *)
(* stored without a gap, so storing its oldest row leaves none either.     *)
(* Every durable claim is made from a cursor below which the source leaves *)
(* nothing for a later page.                                               *)
InWork == {"page", "walk", "ingest", "kept"}
WriterStates ==
  [at : InWork \cup {"rest", "cell", "next"}, index : Nat \ {0}, cursor : Nat, end : Nat,
   rows : SUBSET Nat, next : Nat, to : Nat, seen : SUBSET Nat, pages : Nat,
   allWell : BOOLEAN, boundary : Nat]
SourceStates ==
  [frontier : Nat, floor : Nat, served : Nat, walked : BOOLEAN, walkedTo : Nat,
   history : SUBSET Nat, dropped : Nat]
Checkpoints == [status : {"none", "IN_PROGRESS", "COMPLETE"}, cursor : Nat, dropped : Nat]

Good == Bars \ malformed

\* All good bars that open before n are among S.
AllBefore(S, n) == \A b \in Good : b < n => b \in S

\* A source leaves no good bar before n for a later page.
Covers(s, n) == \A b \in Good : b < n => b <= s.frontier \/ b <= s.served

StoreInv ==
  /\ moment \in Nat
  /\ stored \in [DataCells -> SUBSET Good] /\ mirror \in [DataCells -> Nat]
  /\ checkpoint \in [DataCells -> Checkpoints]
  /\ \A c \in DataCells :
       /\ \A b \in stored[c] : b < moment /\ AllBefore(stored[c], b)
       /\ AllBefore(stored[c], checkpoint[c].cursor)
       /\ mirror[c] <= checkpoint[c].cursor

SourceInv(c, s) ==
  /\ s.floor <= s.frontier /\ AllBefore(stored[c], s.frontier + 1)
  /\ s.history \cap malformed = {}
  /\ s.walked => \A b \in Good : s.frontier < b /\ b <= s.walkedTo => b \in s.history

WriterInv(me) ==
  /\ me.end <= moment /\ me.index <= Len(CellOrder) + 1
  /\ me.at \in InWork \cup {"next"} => me.index <= Len(CellOrder)
  /\ me.at = "rest" => me.index = 1 /\ me.allWell
  /\ me.at # "ingest" => me.rows = {}
  /\ me.at = "ingest" /\ me.rows = {} => me.next = me.end
  /\ me.at = "walk" => me.seen = (me.to + 1)..me.end /\ me.to <= me.end

\* The page in hand follows what is stored without a gap.
CellInv(me, c, s) ==
  /\ me.rows \subseteq Good /\ \A b \in me.rows : b < me.end
  /\ \A b \in me.rows : AllBefore(stored[c] \cup me.rows, b)
  /\ AllBefore(stored[c] \cup me.rows, s.served + 1)
  /\ Covers(s, me.cursor)
  /\ me.at \in {"ingest", "kept"} => Covers(s, me.next)

\* The run keeps its sources for all cells until its process ends.
RunInv(me, sources, rows) ==
  /\ me.at # "next"
  /\ me.at # "rest" =>
       \A c \in DataCells :
         /\ Covers(sources[c], rows[c].cursor)
         /\ me.at \notin InWork \/ c # CellOrder[me.index] =>
              AllBefore(stored[c], sources[c].served + 1)

\* A boundary is earned cell by cell.
CatchUpInv(me) ==
  /\ \A c \in DataCells : AllBefore(stored[c], me.boundary)
  /\ me.allWell =>
       \A j \in 1..Len(CellOrder) :
         j < me.index \/ (j = me.index /\ me.at = "next") => AllBefore(stored[CellOrder[j]], me.end)

OneWriterInv(me, sources) ==
  /\ WriterInv(me)
  /\ \A c \in DataCells : SourceInv(c, sources[c])
  /\ me.at \in InWork => CellInv(me, CellOrder[me.index], sources[CellOrder[me.index]])

HistoryInv ==
  /\ StoreInv
  /\ writer \in [Writers -> WriterStates] /\ source \in [Writers -> [DataCells -> SourceStates]]
  /\ \A w \in Writers : OneWriterInv(writer[w], source[w])
  /\ RunInv(writer["run"], source["run"], checkpoint)
  /\ CatchUpInv(writer["catchUp"])

-----------------------------------------------------------------------------
(* Sets of moments.                                                        *)
LEMMA NatHasMin ==
  ASSUME NEW S \in SUBSET Nat, S # {}
  PROVE  Min(S) \in S /\ \A y \in S : Min(S) <= y
<1>1. PICK x \in S : \A y \in S : ~(<<y, x>> \in OpToRel(<, Nat))
  BY NatLessThanWellFounded, WFMin
<1>2. \A y \in S : <<y, x>> \in OpToRel(<, Nat) <=> y < x
  BY DEF OpToRel
<1>3. ASSUME NEW y \in S
      PROVE  x <= y
  <2>1. x \in Nat /\ y \in Nat /\ ~(y < x)
    BY <1>1, <1>2
  <2> QED
    BY <2>1
<1>4. \E z \in S : \A y \in S : z <= y
  BY <1>3
<1> QED
  BY <1>4 DEF Min

LEMMA NatHasMax ==
  ASSUME NEW S \in SUBSET Nat, S # {}, NEW n \in Nat, \A y \in S : y <= n
  PROVE  Max(S) \in S /\ \A y \in S : y <= Max(S)
<1> DEFINE Above == {m \in Nat : \A y \in S : y <= m}
<1>1. Above \in SUBSET Nat /\ n \in Above
  OBVIOUS
<1>2. PICK m : m = Min(Above)
  OBVIOUS
<1>3. m \in Above /\ \A k \in Above : m <= k
  BY <1>1, <1>2, NatHasMin
<1>4. m \in S
  <2> SUFFICES ASSUME m \notin S PROVE FALSE
    OBVIOUS
  <2>1. PICK y \in S : TRUE
    OBVIOUS
  <2>2. m - 1 \in Nat /\ \A z \in S : z <= m - 1
    BY <1>3, <2>1
  <2> QED
    BY <1>3, <2>2
<1>5. \E x \in S : \A y \in S : x >= y
  BY <1>3, <1>4
<1> QED
  BY <1>5 DEF Max

LEMMA MaxOfTwo ==
  ASSUME NEW a \in Nat, NEW b \in Nat
  PROVE  Max({a, b}) \in {a, b} /\ a <= Max({a, b}) /\ b <= Max({a, b})
<1>1. \A y \in {a, b} : y <= a + b
  OBVIOUS
<1> QED
  BY <1>1, NatHasMax

LEMMA NewestIs ==
  ASSUME NEW S \in SUBSET Bars
  PROVE  /\ Newest(S) \in Nat /\ \A b \in S : b <= Newest(S)
         /\ Newest(S) = 0 \/ Newest(S) \in S
<1>1. CASE S = {}
  BY <1>1 DEF Newest
<1>2. CASE S # {}
  <2>1. S \in SUBSET Nat /\ LastMoment \in Nat /\ \A y \in S : y <= LastMoment
    BY BootstrapAssumption DEF Bars
  <2>2. Max(S) \in S /\ \A y \in S : y <= Max(S)
    BY <1>2, <2>1, NatHasMax
  <2> QED
    BY <1>2, <2>1, <2>2 DEF Newest
<1> QED
  BY <1>1, <1>2

\* What lies below a member of a bounded set is no more than what lies below
\* any greater one.
LEMMA FewerBelow ==
  ASSUME NEW S \in SUBSET Bars, NEW b \in Nat, NEW d \in Nat, d < b
  PROVE  /\ Cardinality({e \in S : e < d}) <= Cardinality({e \in S : e < b})
         /\ Cardinality({e \in S : e < d}) \in Nat /\ Cardinality({e \in S : e < b}) \in Nat
<1>1. LastMoment \in Nat /\ \A y \in S : y \in Nat /\ y <= LastMoment
  BY BootstrapAssumption DEF Bars
<1>2. PICK T : T = {e \in S : e < b}
  OBVIOUS
<1>3. T \in SUBSET Nat /\ \A y \in T : y <= LastMoment
  BY <1>1, <1>2
<1>4. IsFiniteSet(T)
  BY <1>1, <1>3, FS_BoundedSetOfNaturals
<1>5. {e \in S : e < d} \in SUBSET T
  BY <1>1, <1>2
<1> QED
  BY <1>2, <1>4, <1>5, FS_Subset, FS_CardinalityType

\* A served page is the oldest part of what is eligible, and not empty if
\* anything is.
LEMMA ServedPageIsOldest ==
  ASSUME NEW s, NEW end \in Nat
  PROVE  /\ ServedPage(s, end) \subseteq Eligible(s, end)
         /\ Eligible(s, end) \in SUBSET Bars
         /\ \A b \in ServedPage(s, end), d \in Eligible(s, end) : d < b => d \in ServedPage(s, end)
         /\ Eligible(s, end) # {} => ServedPage(s, end) # {}
<1>1. PICK E : E = Eligible(s, end)
  OBVIOUS
<1>2. /\ E \in SUBSET Bars
      /\ ServedPage(s, end) = {b \in E : Cardinality({d \in E : d < b}) < PageLimit}
  BY <1>1 DEF Eligible, ServedPage, ClosedBy
<1>3. PageLimit \in Nat \ {0} /\ Bars \subseteq Nat
  BY BootstrapAssumption DEF Bars
<1>4. ASSUME NEW b \in ServedPage(s, end), NEW d \in E, d < b
      PROVE  d \in ServedPage(s, end)
  <2>1. b \in E /\ b \in Nat /\ d \in Nat /\ Cardinality({e \in E : e < b}) < PageLimit
    BY <1>2, <1>3, <1>4
  <2>2. /\ Cardinality({e \in E : e < d}) <= Cardinality({e \in E : e < b})
        /\ Cardinality({e \in E : e < d}) \in Nat /\ Cardinality({e \in E : e < b}) \in Nat
    BY <1>2, <1>4, <2>1, FewerBelow
  <2>3. Cardinality({e \in E : e < d}) < PageLimit
    BY <1>3, <2>1, <2>2
  <2> QED
    BY <1>2, <1>4, <2>3
<1>5. ASSUME E # {}
      PROVE  ServedPage(s, end) # {}
  <2> PICK m : m = Min(E)
    OBVIOUS
  <2>1. m \in E /\ \A y \in E : m <= y
    <3>1. E \in SUBSET Nat
      BY <1>2, <1>3
    <3> QED
      BY <1>5, <3>1, NatHasMin
  <2>2. \A d \in E : ~(d < m)
    BY <1>2, <1>3, <2>1
  <2>3. {d \in E : d < m} = {}
    BY <2>2
  <2>4. Cardinality({d \in E : d < m}) = 0
    BY <2>3, FS_EmptySet
  <2> QED
    BY <1>2, <1>3, <2>1, <2>4
<1> QED
  BY <1>1, <1>2, <1>4, <1>5

\* A page of the walk is the tail of what it asks for.
LEMMA VenuePageIsTail ==
  ASSUME NEW to \in Nat
  PROVE  /\ VenuePage(to) = {} => to = 0
         /\ VenuePage(to) # {} => /\ Min(VenuePage(to)) \in 1..to
                                  /\ VenuePage(to) = Min(VenuePage(to))..to
<1>1. PICK P : P = VenuePage(to)
  OBVIOUS
<1>2. P = {b \in 1..to : Cardinality({d \in 1..to : d > b}) < PageLimit}
  BY <1>1 DEF VenuePage
<1>3. PageLimit \in Nat \ {0} /\ IsFiniteSet(1..to)
  BY BootstrapAssumption, FS_Interval
<1>4. ASSUME to # 0 PROVE to \in P
  <2>1. to \in 1..to /\ {d \in 1..to : d > to} = {}
    BY <1>4
  <2>2. Cardinality({d \in 1..to : d > to}) = 0
    BY <2>1, FS_EmptySet
  <2> QED
    BY <1>2, <1>3, <2>1, <2>2
<1>5. ASSUME NEW b \in P, NEW d \in b..to
      PROVE  d \in P
  <2>1. PICK T : T = {e \in 1..to : e > b}
    OBVIOUS
  <2>2. T \in SUBSET (1..to) /\ {e \in 1..to : e > d} \in SUBSET T
    BY <1>2, <1>5, <2>1
  <2>3. IsFiniteSet(T) /\ Cardinality({e \in 1..to : e > d}) <= Cardinality(T)
        /\ IsFiniteSet({e \in 1..to : e > d})
    BY <1>3, <2>2, FS_Subset
  <2>4. Cardinality(T) \in Nat /\ Cardinality({e \in 1..to : e > d}) \in Nat
    BY <2>3, FS_CardinalityType
  <2>5. Cardinality(T) < PageLimit /\ d \in 1..to
    BY <1>2, <1>5, <2>1
  <2>6. Cardinality({e \in 1..to : e > d}) < PageLimit
    BY <1>3, <2>3, <2>4, <2>5
  <2> QED
    BY <1>2, <2>5, <2>6
<1>6. ASSUME P # {} PROVE Min(P) \in 1..to /\ P = Min(P)..to
  <2>1. P \in SUBSET Nat /\ P \subseteq 1..to
    BY <1>2
  <2>2. PICK m : m = Min(P)
    OBVIOUS
  <2>3. m \in P /\ \A y \in P : m <= y
    BY <1>6, <2>1, <2>2, NatHasMin
  <2>4. \A d \in m..to : d \in P
    BY <1>5, <2>3
  <2>5. \A d \in P : d \in m..to
    BY <2>1, <2>3
  <2>6. m \in 1..to /\ P = m..to
    BY <2>1, <2>3, <2>4, <2>5
  <2> QED
    BY <2>2, <2>6
<1> QED
  BY <1>1, <1>4, <1>6

-----------------------------------------------------------------------------
(* One writer moves: what its new place and its new sources must satisfy   *)
(* for the history to stay whole while the store keeps its bars.           *)
LEMMA CellsAre ==
  /\ Len(CellOrder) \in Nat
  /\ \A j \in 1..Len(CellOrder) : CellOrder[j] \in DataCells
  /\ \A c \in DataCells : \E j \in 1..Len(CellOrder) : CellOrder[j] = c
<1>1. /\ Len(CellOrder) \in Nat /\ DOMAIN CellOrder = 1..Len(CellOrder)
  BY BootstrapAssumption, LenProperties
<1> QED
  BY <1>1 DEF DataCells, ToSet

LEMMA MoreIsKept ==
  ASSUME NEW S, NEW T, S \subseteq T, NEW n \in Nat, NEW m \in Nat, m <= n, AllBefore(S, n)
  PROVE  AllBefore(T, m)
<1>1. Good \subseteq Nat
  BY DEF Good, Bars
<1> QED
  BY <1>1 DEF AllBefore

LEMMA OneWriterMoves ==
  ASSUME HistoryInv, StoreInv', UNCHANGED <<moment, malformed, stored>>,
         NEW w \in Writers, NEW me \in WriterStates, NEW sources \in [DataCells -> SourceStates],
         writer' = [writer EXCEPT ![w] = me], source' = [source EXCEPT ![w] = sources],
         OneWriterInv(me, sources),
         w = "run" => RunInv(me, sources, checkpoint'),
         w = "catchUp" => CatchUpInv(me) /\ UNCHANGED checkpoint
  PROVE  HistoryInv'
<1>1. /\ writer' \in [Writers -> WriterStates] /\ source' \in [Writers -> [DataCells -> SourceStates]]
      /\ writer'[w] = me /\ source'[w] = sources
      /\ \A v \in Writers : v # w => writer'[v] = writer[v] /\ source'[v] = source[v]
  BY DEF HistoryInv
<1>2. Good' = Good /\ moment' = moment /\ stored' = stored /\ malformed' = malformed
  BY SMTT(30) DEF Good
<1>3. ASSUME NEW v \in Writers
      PROVE  OneWriterInv(writer[v], source[v])'
  <2>1. PICK x, ss : x = writer'[v] /\ ss = source'[v]
    OBVIOUS
  <2>2. OneWriterInv(x, ss)
    <3>1. CASE v = w
      BY <1>1, <2>1, <3>1
    <3>2. CASE v # w
      BY <1>1, <2>1, <3>2 DEF HistoryInv
    <3> QED
      BY <3>1, <3>2
  <2>3. /\ WriterInv(x)' /\ \A c \in DataCells : SourceInv(c, ss[c])'
        /\ x.at \in InWork => CellInv(x, CellOrder[x.index], ss[CellOrder[x.index]])'
    BY <1>2, <2>2 DEF OneWriterInv, WriterInv, SourceInv, CellInv, AllBefore, Covers
  <2> QED
    BY <2>1, <2>3 DEF OneWriterInv, WriterInv, SourceInv, CellInv, AllBefore, Covers
<1>4. "run" \in Writers /\ "catchUp" \in Writers /\ (w = "run" \/ w = "catchUp")
  BY DEF Writers
<1>5. RunInv(writer["run"], source["run"], checkpoint)'
  <2>1. RunInv(writer'["run"], source'["run"], checkpoint')
    <3>1. CASE w = "run"
      BY <1>1, <3>1
    <3>2. CASE w = "catchUp"
      <4>1. writer'["run"] = writer["run"] /\ source'["run"] = source["run"] /\ checkpoint' = checkpoint
        BY <1>1, <1>4, <3>2
      <4> QED
        BY <4>1 DEF HistoryInv
    <3> QED
      BY <1>4, <3>1, <3>2
  <2> QED
    BY <1>2, <2>1 DEF RunInv, AllBefore, Covers
<1>6. CatchUpInv(writer["catchUp"])'
  <2>1. CatchUpInv(writer'["catchUp"])
    <3>1. CASE w = "catchUp"
      BY <1>1, <3>1
    <3>2. CASE w = "run"
      <4>1. writer'["catchUp"] = writer["catchUp"]
        BY <1>1, <1>4, <3>2
      <4> QED
        BY <4>1 DEF HistoryInv
    <3> QED
      BY <1>4, <3>1, <3>2
  <2> QED
    BY <1>2, <2>1 DEF CatchUpInv, AllBefore
<1> QED
  BY <1>1, <1>3, <1>5, <1>6 DEF HistoryInv

\* A step that leaves the durable rows alone.
LEMMA StoreStays ==
  ASSUME StoreInv, UNCHANGED <<moment, malformed, durable>>
  PROVE  StoreInv'
<1>1. Good' = Good /\ moment' = moment /\ stored' = stored /\ checkpoint' = checkpoint /\ mirror' = mirror
  BY DEF Good, durable
<1> QED
  BY <1>1 DEF StoreInv, AllBefore

LEMMA InHandIs ==
  ASSUME HistoryInv, NEW w \in Writers
  PROVE  /\ writer[w] \in WriterStates /\ source[w] \in [DataCells -> SourceStates]
         /\ WriterInv(writer[w]) /\ \A c \in DataCells : SourceInv(c, source[w][c])
         /\ writer[w].at \in InWork \cup {"next"} =>
              /\ InCell(w) \in DataCells /\ InCell(w) = CellOrder[writer[w].index]
              /\ writer[w].index \in 1..Len(CellOrder)
         /\ writer[w].at \in InWork => CellInv(writer[w], InCell(w), source[w][InCell(w)])
         /\ Good \subseteq Bars /\ Bars \subseteq Nat
<1>1. /\ writer[w] \in WriterStates /\ source[w] \in [DataCells -> SourceStates]
      /\ WriterInv(writer[w]) /\ \A c \in DataCells : SourceInv(c, source[w][c])
      /\ writer[w].at \in InWork =>
           CellInv(writer[w], CellOrder[writer[w].index], source[w][CellOrder[writer[w].index]])
  BY DEF HistoryInv, OneWriterInv
<1>2. ASSUME writer[w].at \in InWork \cup {"next"}
      PROVE  writer[w].index \in 1..Len(CellOrder) /\ CellOrder[writer[w].index] \in DataCells
  <2>1. writer[w].index \in Nat \ {0} /\ writer[w].index <= Len(CellOrder)
    BY <1>1, <1>2 DEF WriterInv, WriterStates
  <2>2. writer[w].index \in 1..Len(CellOrder)
    BY <2>1, CellsAre
  <2> QED
    BY <2>2, CellsAre
<1> QED
  BY <1>1, <1>2 DEF InCell, Good, Bars

MarkAfter(s, page) == IF page = {} THEN s.served ELSE Max({s.served, Max(page)})

\* A page follows what is stored of its cell without a gap, and neither the
\* served mark nor the cursor it moves to leaves a bar behind.
NoGap(page, mark, next, me, c, s) ==
  /\ mark \in Nat /\ s.served <= mark /\ next \in Nat
  /\ page \subseteq Good /\ \A b \in page : b < me.end
  /\ \A b \in page : AllBefore(stored[c] \cup page, b)
  /\ AllBefore(stored[c] \cup page, mark + 1)
  /\ page = {} => next = me.end
  /\ \A b \in Good : b < next => b <= s.frontier \/ b <= mark

LEMMA PageHasNoGap ==
  ASSUME NEW c \in DataCells, NEW me \in WriterStates, NEW s \in SourceStates,
         CellInv(me, c, s), SourceInv(c, s), me.rows = {}, s.walked, me.end <= s.walkedTo,
         NEW page, page = ServedPage(s, me.end)
  PROVE  NoGap(page, MarkAfter(s, page), NextCursor(page, me.cursor, me.end), me, c, s)
<1> PICK mark : mark = IF page = {} THEN s.served ELSE Max({s.served, Max(page)})
  OBVIOUS
<1> PICK next : next = NextCursor(page, me.cursor, me.end)
  OBVIOUS
<1> SUFFICES NoGap(page, mark, next, me, c, s)
  BY DEF MarkAfter
<1>1. /\ s.served \in Nat /\ s.frontier \in Nat /\ s.walkedTo \in Nat /\ me.end \in Nat /\ me.cursor \in Nat
  BY DEF SourceStates, WriterStates
<1>2. /\ LastMoment \in Nat /\ \A b \in Bars : b \in Nat /\ b <= LastMoment
      /\ \A b \in Good : b \in Bars /\ b \in Nat /\ b <= LastMoment
  BY BootstrapAssumption DEF Good, Bars
<1>3. PICK E : E = Eligible(s, me.end)
  OBVIOUS
<1>4. \A b : b \in E <=> b \in Bars /\ b \in s.history /\ b > s.frontier /\ b > s.served /\ b + 1 <= me.end
  BY <1>3 DEF Eligible, ClosedBy
<1>5. /\ page \subseteq E
      /\ E # {} => page # {}
      /\ \A b \in page, d \in E : d < b => d \in page
  BY <1>1, <1>3, ServedPageIsOldest
<1>6. E \subseteq Good /\ \A b \in E : b < me.end
  <2>1. s.history \cap malformed = {}
    BY DEF SourceInv
  <2> QED
    BY <1>1, <1>2, <1>4, <2>1 DEF Good
<1>7. ASSUME NEW b \in Good, b < me.end, b \notin E
      PROVE  b <= s.frontier \/ b <= s.served
  <2>1. s.frontier < b /\ b <= s.walkedTo => b \in s.history
    BY <1>2, <1>7 DEF SourceInv
  <2>2. b <= s.walkedTo /\ b + 1 <= me.end /\ b \in Nat
    BY <1>1, <1>2, <1>7
  <2> QED
    BY <1>1, <1>2, <1>4, <1>7, <2>1, <2>2
<1>8. ASSUME NEW b \in Good, b <= s.frontier \/ b <= s.served
      PROVE  b \in stored[c]
  <2>1. AllBefore(stored[c], s.frontier + 1) /\ AllBefore(stored[c], s.served + 1)
    BY DEF SourceInv, CellInv
  <2>2. b < s.frontier + 1 \/ b < s.served + 1
    BY <1>1, <1>2, <1>8
  <2> QED
    BY <2>1, <2>2 DEF AllBefore
<1>9. ASSUME NEW b \in page, NEW d \in Good, d < b
      PROVE  d \in stored[c] \cup page
  <2>1. b \in E /\ b < me.end /\ b \in Nat /\ d \in Nat /\ d < me.end
    BY <1>1, <1>2, <1>5, <1>6, <1>9
  <2> QED
    BY <1>5, <1>7, <1>8, <1>9, <2>1
<1>10. \A b \in page : AllBefore(stored[c] \cup page, b)
  BY <1>9 DEF AllBefore
<1>11. CASE page = {}
  <2>1. mark = s.served /\ next = me.end /\ E = {}
    BY <1>5, <1>11 DEF NextCursor
  <2>2. \A b \in Good : b < next => b <= s.frontier \/ b <= mark
    BY <1>7, <2>1
  <2>3. \A b \in Good : b < mark + 1 => b \in stored[c] \cup page
    BY <1>1, <1>2, <1>8, <2>1
  <2> QED
    BY <1>1, <1>5, <1>6, <1>10, <1>11, <2>1, <2>2, <2>3 DEF AllBefore, NoGap
<1>12. CASE page # {}
  <2>1. PICK last : last = Max(page)
    OBVIOUS
  <2>2. last \in page /\ \A b \in page : b <= last
    <3>1. page \in SUBSET Nat /\ \A b \in page : b <= LastMoment
      BY <1>2, <1>5, <1>6
    <3> QED
      BY <1>2, <1>12, <2>1, <3>1, NatHasMax
  <2>3. last \in Nat /\ last \in E /\ last \in Good /\ last < me.end
        /\ s.frontier < last /\ s.served < last
    BY <1>1, <1>2, <1>4, <1>5, <1>6, <2>2
  <2>4. mark = last
    <3>1. mark = Max({s.served, last})
      BY <1>12, <2>1
    <3> QED
      BY <1>1, <2>3, <3>1, MaxOfTwo
  <2>5. me.cursor <= last
    <3>1. last < me.cursor => last <= s.frontier \/ last <= s.served
      BY <2>3 DEF CellInv, Covers
    <3> QED
      BY <1>1, <2>3, <3>1
  <2>6. next = last + 1
    <3>1. next = Max({last + 1, me.cursor + 1})
      BY <1>12, <2>1 DEF NextCursor
    <3>2. last + 1 \in Nat /\ me.cursor + 1 \in Nat /\ me.cursor + 1 <= last + 1
      BY <1>1, <2>3, <2>5
    <3> QED
      BY <3>1, <3>2, MaxOfTwo
  <2>7. ASSUME NEW b \in Good, b < mark + 1
        PROVE  b \in stored[c] \cup page
    <3>1. b \in Nat /\ (b < last \/ b = last)
      BY <1>2, <2>3, <2>4, <2>7
    <3> QED
      BY <1>9, <2>2, <3>1
  <2>8. ASSUME NEW b \in Good, b < next
        PROVE  b <= s.frontier \/ b <= mark
    BY <1>2, <2>3, <2>4, <2>6, <2>8
  <2>9. AllBefore(stored[c] \cup page, mark + 1)
    BY <2>7 DEF AllBefore
  <2>10. mark \in Nat /\ s.served <= mark /\ next \in Nat
    BY <1>1, <2>3, <2>4, <2>6
  <2> QED
    BY <1>5, <1>6, <1>10, <1>12, <2>8, <2>9, <2>10 DEF NoGap
<1> QED
  BY <1>11, <1>12

LEMMA TakenPageIs ==
  ASSUME NEW me \in WriterStates, NEW page \in SUBSET Nat, NEW read \in Nat,
         NextCursor(page, me.cursor, me.end) \in Nat,
         NEW new, new = TakePage(me, page, read)
  PROVE  /\ new \in WriterStates /\ new.at = "ingest" /\ new.rows = page
         /\ new.next = NextCursor(page, me.cursor, me.end)
         /\ new.index = me.index /\ new.cursor = me.cursor /\ new.end = me.end
         /\ new.allWell = me.allWell /\ new.boundary = me.boundary
<1> PICK next : next = NextCursor(page, me.cursor, me.end)
  OBVIOUS
<1> PICK pages : pages = me.pages + read
  OBVIOUS
<1>1. new = [me EXCEPT !.at = "ingest", !.rows = page, !.next = next, !.pages = pages]
  BY DEF TakePage
<1>2. next \in Nat /\ pages \in Nat
  BY DEF WriterStates
<1> QED
  BY ZenonT(40), <1>1, <1>2 DEF WriterStates, InWork

LEMMA FetchKeeps == HistoryInv /\ (\E w \in Writers : Fetch(w)) => HistoryInv'
<1> SUFFICES ASSUME HistoryInv, NEW w \in Writers, Fetch(w) PROVE HistoryInv'
  OBVIOUS
<1> PICK me : me = writer[w]
  OBVIOUS
<1> PICK ss : ss = source[w]
  OBVIOUS
<1> PICK c : c = InCell(w)
  OBVIOUS
<1> PICK s : s = ss[c]
  OBVIOUS
<1>1. /\ me.at = "page" /\ UNCHANGED <<moment, malformed, durable>>
      /\ moment' = moment /\ malformed' = malformed /\ stored' = stored /\ checkpoint' = checkpoint
  BY DEF Fetch, At, durable
<1>2. me.at \in InWork
  BY <1>1 DEF InWork
<1>3. /\ me \in WriterStates /\ ss \in [DataCells -> SourceStates] /\ WriterInv(me)
      /\ \A d \in DataCells : SourceInv(d, ss[d])
      /\ c \in DataCells /\ c = CellOrder[me.index] /\ CellInv(me, c, s) /\ s \in SourceStates
      /\ SourceInv(c, s)
      /\ writer \in [Writers -> WriterStates] /\ source \in [Writers -> [DataCells -> SourceStates]]
  BY <1>2, InHandIs DEF HistoryInv
<1>4. StoreInv'
  BY <1>1, StoreStays DEF HistoryInv
<1>5. w = "run" => RunInv(me, ss, checkpoint)
  BY DEF HistoryInv
<1>6. w = "catchUp" => CatchUpInv(me)
  BY DEF HistoryInv
<1>7. CASE ~s.walked \/ me.end > s.walkedTo
  <2> PICK new : new = StartWalk(me)
    OBVIOUS
  <2>1. /\ new \in WriterStates /\ new.at = "walk" /\ new.to = me.end /\ new.seen = {}
        /\ new.index = me.index /\ new.cursor = me.cursor /\ new.end = me.end /\ new.rows = me.rows
        /\ new.allWell = me.allWell /\ new.boundary = me.boundary /\ new.next = me.next
    BY ZenonT(40), <1>3 DEF StartWalk, WriterStates, InWork
  <2>2. writer' = [writer EXCEPT ![w] = new] /\ UNCHANGED source
    BY <1>7 DEF Fetch
  <2>3. source' = [source EXCEPT ![w] = ss]
    BY <1>3, <2>2
  <2>4. WriterInv(new)
    <3>1. new.seen = (new.to + 1)..new.end
      BY <2>1 DEF WriterStates
    <3> QED
      BY SMTT(30), <1>1, <1>2, <1>3, <2>1, <3>1 DEF WriterInv, InWork, WriterStates
  <2>5. CellInv(new, c, s)
    BY <1>3, <2>1 DEF CellInv
  <2>6. OneWriterInv(new, ss)
    BY <1>3, <2>1, <2>4, <2>5 DEF OneWriterInv
  <2>7. w = "run" => RunInv(new, ss, checkpoint')
    BY <1>1, <1>2, <1>5, <2>1 DEF RunInv, InWork
  <2>8. w = "catchUp" => CatchUpInv(new)
    BY SMTT(30), <1>1, <1>6, <2>1 DEF CatchUpInv
  <2> QED
    BY <1>1, <1>3, <1>4, <2>1, <2>2, <2>3, <2>6, <2>7, <2>8, OneWriterMoves
<1>8. CASE s.walked /\ ~(me.end > s.walkedTo)
  <2> PICK page : page = ServedPage(s, me.end)
    OBVIOUS
  <2> PICK mark : mark = MarkAfter(s, page)
    OBVIOUS
  <2> PICK next : next = NextCursor(page, me.cursor, me.end)
    OBVIOUS
  <2>1. me.rows = {} /\ me.end <= s.walkedTo /\ s.walked
    <3>1. me.end \in Nat /\ s.walkedTo \in Nat
      BY <1>3 DEF WriterStates, SourceStates
    <3>2. me.rows = {}
      BY <1>1, <1>3 DEF WriterInv
    <3> QED
      BY SMTT(30), <1>8, <3>1, <3>2
  <2>2. /\ mark \in Nat /\ s.served <= mark /\ next \in Nat
        /\ page \subseteq Good /\ \A b \in page : b < me.end
        /\ \A b \in page : AllBefore(stored[c] \cup page, b)
        /\ AllBefore(stored[c] \cup page, mark + 1)
        /\ page = {} => next = me.end
        /\ \A b \in Good : b < next => b <= s.frontier \/ b <= mark
    <3>1. NoGap(page, mark, next, me, c, s)
      BY <1>3, <2>1, PageHasNoGap
    <3> QED
      BY SMTT(30), <3>1 DEF NoGap
  <2>3. page \in SUBSET Nat /\ Good \subseteq Nat
    BY <2>2 DEF Good, Bars
  <2>r. PICK read \in Nat : read = IF w = "run" THEN 1 ELSE 0
    OBVIOUS
  <2>n. PICK new : new = TakePage(me, page, read)
    OBVIOUS
  <2>t. PICK t : t = [s EXCEPT !.served = mark]
    OBVIOUS
  <2>u. PICK tt : tt = [ss EXCEPT ![c] = t]
    OBVIOUS
  <2>4. /\ new \in WriterStates /\ new.at = "ingest" /\ new.rows = page /\ new.next = next
        /\ new.index = me.index /\ new.cursor = me.cursor /\ new.end = me.end
        /\ new.allWell = me.allWell /\ new.boundary = me.boundary
    <3>1. me \in WriterStates /\ NextCursor(page, me.cursor, me.end) \in Nat
      BY Zenon, <1>3, <2>2
    <3> QED
      BY SMT, <2>3, <2>r, <2>n, <3>1, TakenPageIs
  <2>5. /\ t \in SourceStates /\ t.served = mark /\ t.frontier = s.frontier /\ t.floor = s.floor
        /\ t.walked = s.walked /\ t.walkedTo = s.walkedTo /\ t.history = s.history
    <3>1. s \in SourceStates /\ mark \in Nat
      BY ZenonT(40), <1>3, <2>2
    <3> QED
      BY SMT, <2>t, <3>1 DEF SourceStates
  <2>6. /\ tt \in [DataCells -> SourceStates] /\ tt[c] = t
        /\ \A d \in DataCells : d # c => tt[d] = ss[d]
    BY Zenon, <1>3, <2>5, <2>u
  <2>7. writer' = [writer EXCEPT ![w] = new]
    BY SMT, <1>8, <2>r, <2>n DEF Fetch
  <2>8. source' = [source EXCEPT ![w] = tt]
    <3>1. source' = [source EXCEPT ![w][c].served = mark]
      BY SMT, <1>8 DEF Fetch, MarkAfter
    <3> QED
      BY Zenon, <1>3, <2>t, <2>u, <3>1
  <2>9. WriterInv(new)
    BY Zenon, <1>2, <1>3, <2>2, <2>4 DEF WriterInv, InWork, WriterStates
  <2>10. ASSUME NEW b \in Good, b <= s.frontier \/ b <= s.served
         PROVE  b <= t.frontier \/ b <= t.served
    <3>1. s.served \in Nat /\ s.frontier \in Nat /\ b \in Nat
      BY Zenon, <1>3, <2>3 DEF SourceStates
    <3> QED
      BY SMT, <2>2, <2>5, <2>10, <3>1
  <2>11. CellInv(new, c, t)
    <3>1. Covers(t, new.cursor)
      BY Zenon, <1>3, <2>4, <2>10 DEF CellInv, Covers
    <3>2. Covers(t, new.next)
      BY SMT, <2>2, <2>4, <2>5 DEF Covers
    <3> QED
      BY Zenon, <2>2, <2>4, <2>5, <3>1, <3>2 DEF CellInv
  <2>12. \A d \in DataCells : SourceInv(d, tt[d])
    <3>1. SourceInv(c, t)
      BY ZenonT(40), <1>3, <2>5 DEF SourceInv
    <3> QED
      BY SMT, <1>3, <2>6, <3>1
  <2>13. OneWriterInv(new, tt)
    BY SMTT(30), <1>3, <2>4, <2>6, <2>9, <2>11, <2>12 DEF OneWriterInv
  <2>14. ASSUME w = "run" PROVE RunInv(new, tt, checkpoint')
    <3>1. ASSUME NEW d \in DataCells
          PROVE  /\ Covers(tt[d], checkpoint[d].cursor)
                 /\ d # c => AllBefore(stored[d], tt[d].served + 1)
      <4>1. /\ Covers(ss[d], checkpoint[d].cursor)
            /\ d # c => AllBefore(stored[d], ss[d].served + 1)
        BY <1>1, <1>3, <1>5, <2>14 DEF RunInv
      <4> QED
        BY <2>6, <2>10, <4>1 DEF Covers
    <3> QED
      BY <1>1, <1>3, <2>4, <3>1 DEF RunInv, InWork
  <2>15. w = "catchUp" => CatchUpInv(new)
    BY <1>1, <1>6, <2>4 DEF CatchUpInv
  <2> QED
    BY <1>1, <1>3, <1>4, <2>4, <2>6, <2>7, <2>8, <2>13, <2>14, <2>15, OneWriterMoves
<1> QED
  BY <1>7, <1>8

LEMMA WalkPageKeeps == HistoryInv /\ (\E w \in Writers : WalkPage(w)) => HistoryInv'
<1> SUFFICES ASSUME HistoryInv, NEW w \in Writers, WalkPage(w) PROVE HistoryInv'
  OBVIOUS
<1> PICK me : me = writer[w]
  OBVIOUS
<1> PICK ss : ss = source[w]
  OBVIOUS
<1> PICK c : c = InCell(w)
  OBVIOUS
<1> PICK s : s = ss[c]
  OBVIOUS
<1> PICK page : page = VenuePage(me.to)
  OBVIOUS
<1>1. /\ me.at = "walk" /\ UNCHANGED <<moment, malformed, durable>>
      /\ moment' = moment /\ malformed' = malformed /\ stored' = stored /\ checkpoint' = checkpoint
  BY DEF WalkPage, At, durable
<1>2. me.at \in InWork
  BY <1>1 DEF InWork
<1>3. /\ me \in WriterStates /\ ss \in [DataCells -> SourceStates] /\ WriterInv(me)
      /\ \A d \in DataCells : SourceInv(d, ss[d])
      /\ c \in DataCells /\ c = CellOrder[me.index] /\ CellInv(me, c, s) /\ s \in SourceStates
      /\ SourceInv(c, s)
      /\ writer \in [Writers -> WriterStates] /\ source \in [Writers -> [DataCells -> SourceStates]]
  BY <1>2, InHandIs DEF HistoryInv
<1>4. StoreInv'
  BY <1>1, StoreStays DEF HistoryInv
<1>5. w = "run" => RunInv(me, ss, checkpoint)
  BY DEF HistoryInv
<1>6. w = "catchUp" => CatchUpInv(me)
  BY DEF HistoryInv
<1>7. /\ me.seen = (me.to + 1)..me.end /\ me.to <= me.end /\ me.rows = {}
      /\ me.to \in Nat /\ me.end \in Nat
  BY <1>1, <1>3 DEF WriterInv, WriterStates
<1>8. /\ page = {} => me.to = 0
      /\ page # {} => Min(page) \in 1..me.to /\ page = Min(page)..me.to
  BY <1>7, VenuePageIsTail
\* What any move of this step leaves to show.
<1>9. ASSUME NEW new \in WriterStates, NEW t \in SourceStates, WriterInv(new), SourceInv(c, t),
             writer' = [writer EXCEPT ![w] = new], source' = [source EXCEPT ![w][c] = t],
             new.at \in {"page", "walk"}, new.index = me.index, new.cursor = me.cursor,
             new.end = me.end, new.rows = {}, new.allWell = me.allWell,
             new.boundary = me.boundary, t.frontier = s.frontier, t.served = s.served
      PROVE  HistoryInv'
  <2>1. PICK tt : tt = [ss EXCEPT ![c] = t]
    OBVIOUS
  <2>2. /\ tt \in [DataCells -> SourceStates] /\ tt[c] = t
        /\ \A d \in DataCells : d # c => tt[d] = ss[d]
    BY <1>3, <1>9, <2>1
  <2>3. source' = [source EXCEPT ![w] = tt]
    BY SMT, <1>3, <1>9, <2>1
  <2>4. CellInv(new, c, t)
    BY Zenon, <1>3, <1>7, <1>9 DEF CellInv, Covers
  <2>5. \A d \in DataCells : SourceInv(d, tt[d])
    BY <1>3, <1>9, <2>2
  <2>6. OneWriterInv(new, tt)
    BY <1>3, <1>9, <2>2, <2>4, <2>5 DEF OneWriterInv
  <2>7. ASSUME w = "run" PROVE RunInv(new, tt, checkpoint')
    <3>1. ASSUME NEW d \in DataCells
          PROVE  /\ Covers(tt[d], checkpoint[d].cursor)
                 /\ d # c => AllBefore(stored[d], tt[d].served + 1)
      <4>1. /\ Covers(ss[d], checkpoint[d].cursor)
            /\ d # c => AllBefore(stored[d], ss[d].served + 1)
        BY <1>1, <1>3, <1>5, <2>7 DEF RunInv
      <4> QED
        BY <1>9, <2>2, <4>1 DEF Covers
    <3>2. new.at \in InWork /\ new.at # "next"
      BY <1>9 DEF InWork
    <3> QED
      BY <1>1, <1>3, <1>9, <3>1, <3>2 DEF RunInv
  <2>8. w = "catchUp" => CatchUpInv(new)
    BY <1>1, <1>6, <1>9 DEF CatchUpInv
  <2> QED
    BY <1>1, <1>3, <1>4, <1>9, <2>2, <2>3, <2>6, <2>7, <2>8, OneWriterMoves
<1>10. CASE me.to < s.floor \/ page = {}
  <2>1. PICK new : new = WalkDone(me)
    OBVIOUS
  <2>2. PICK t : t = Walked(s, me)
    OBVIOUS
  <2>3. /\ new \in WriterStates /\ new.at = "page"
        /\ new.index = me.index /\ new.cursor = me.cursor /\ new.end = me.end /\ new.rows = {}
        /\ new.allWell = me.allWell /\ new.boundary = me.boundary
    BY Zenon, <1>3, <1>7, <2>1 DEF WalkDone, WriterStates, InWork
  <2>4. /\ t \in SourceStates /\ t.walked /\ t.walkedTo = me.end /\ t.history = me.seen \ malformed
        /\ t.frontier = s.frontier /\ t.served = s.served /\ t.floor = s.floor
    <3>1. me.seen \ malformed \in SUBSET Nat /\ me.end \in Nat
      BY <1>3 DEF WriterStates
    <3> QED
      BY <1>3, <2>2, <3>1 DEF Walked, SourceStates
  <2>5. writer' = [writer EXCEPT ![w] = new] /\ source' = [source EXCEPT ![w][c] = t]
    BY <1>10, <2>1, <2>2 DEF WalkPage
  <2>6. WriterInv(new)
    BY <1>2, <1>3, <2>3 DEF WriterInv, InWork
  <2>7. ASSUME NEW b \in Good, s.frontier < b, b <= me.end
        PROVE  b \in me.seen /\ b \notin malformed
    <3>1. b \in Nat /\ b >= 1 /\ b \notin malformed
      BY SMT, BootstrapAssumption DEF Good, Bars
    <3>2. s.floor <= s.frontier /\ s.floor \in Nat /\ s.frontier \in Nat
      BY Zenon, <1>3 DEF SourceInv, SourceStates
    <3>3. me.to < b
      BY SMT, <1>7, <1>8, <1>10, <2>7, <3>1, <3>2
    <3> QED
      BY <1>7, <2>7, <3>1, <3>3
  <2>8. SourceInv(c, t)
    BY Zenon, <1>3, <2>4, <2>7 DEF SourceInv
  <2> QED
    BY <1>9, <2>3, <2>4, <2>5, <2>6, <2>8
<1>11. CASE ~(me.to < s.floor \/ page = {})
  <2>1. PICK new : new = WalkOn(me, page)
    OBVIOUS
  <2>2. PICK t : t = [s EXCEPT !.dropped = @ + Cardinality(page \cap malformed)]
    OBVIOUS
  <2>3. PICK low : low = Min(page)
    OBVIOUS
  <2>4. low \in 1..me.to /\ page = low..me.to
    BY <1>8, <1>11, <2>3
  <2>5. PICK seen : seen = me.seen \cup page
    OBVIOUS
  <2>6. seen = low..me.end
    BY <1>7, <2>4, <2>5
  <2>7. /\ new \in WriterStates /\ new.at = "walk" /\ new.to = low - 1 /\ new.seen = seen
        /\ new.index = me.index /\ new.cursor = me.cursor /\ new.end = me.end /\ new.rows = {}
        /\ new.allWell = me.allWell /\ new.boundary = me.boundary
    <3>1. low - 1 \in Nat /\ seen \in SUBSET Nat
      BY <1>7, <2>4, <2>6
    <3>2. new = [me EXCEPT !.to = low - 1, !.seen = seen]
      BY <2>1, <2>3, <2>5 DEF WalkOn
    <3> QED
      BY ZenonT(40), <1>1, <1>3, <1>7, <3>1, <3>2 DEF WriterStates
  <2>8. /\ t \in SourceStates /\ t.walked = s.walked /\ t.walkedTo = s.walkedTo /\ t.history = s.history
        /\ t.frontier = s.frontier /\ t.served = s.served /\ t.floor = s.floor
    <3>1. IsFiniteSet(page) /\ page \cap malformed \in SUBSET page
      <4>1. low \in Int /\ me.to \in Int
        BY <1>7, <2>4
      <4>2. IsFiniteSet(low..me.to)
        BY <4>1, FS_Interval
      <4> QED
        BY <2>4, <4>2
    <3>2. Cardinality(page \cap malformed) \in Nat
      BY <3>1, FS_Subset, FS_CardinalityType
    <3>3. PICK n : n = s.dropped + Cardinality(page \cap malformed)
      OBVIOUS
    <3>4. t = [s EXCEPT !.dropped = n]
      BY <2>2, <3>3
    <3>5. n \in Nat
      <4>1. s.dropped \in Nat
        BY SMTT(30), <1>3 DEF SourceStates
      <4> QED
        BY <3>2, <3>3, <4>1
    <3> QED
      BY <1>3, <3>4, <3>5 DEF SourceStates
  <2>9. writer' = [writer EXCEPT ![w] = new] /\ source' = [source EXCEPT ![w][c] = t]
    <3>1. /\ writer' = [writer EXCEPT ![w] = new]
          /\ source' = [source EXCEPT ![w][c].dropped = @ + Cardinality(page \cap malformed)]
      BY <1>11, <2>1 DEF WalkPage
    <3> QED
      BY <1>3, <2>2, <3>1
  <2>10. new.seen = (new.to + 1)..new.end /\ new.to <= new.end
    BY <1>7, <2>4, <2>6, <2>7
  <2>11. WriterInv(new)
    BY SMT, <1>1, <1>2, <1>3, <2>7, <2>10 DEF WriterInv, InWork
  <2>12. SourceInv(c, t)
    BY Zenon, <1>3, <2>8 DEF SourceInv
  <2> QED
    BY <1>9, <2>7, <2>8, <2>9, <2>11, <2>12
<1> QED
  BY <1>10, <1>11

\* The other writer, and the other cells, only gain by a stored row.
LEMMA IngestRowKeeps == HistoryInv /\ (\E w \in Writers : IngestRow(w)) => HistoryInv'
<1> SUFFICES ASSUME HistoryInv, NEW w \in Writers, IngestRow(w) PROVE HistoryInv'
  OBVIOUS
<1> PICK me : me = writer[w]
  OBVIOUS
<1> PICK ss : ss = source[w]
  OBVIOUS
<1> PICK c : c = InCell(w)
  OBVIOUS
<1> PICK s : s = ss[c]
  OBVIOUS
<1> PICK row : row = Min(me.rows)
  OBVIOUS
<1> PICK new : new = RowKept(me, row)
  OBVIOUS
<1> PICK more : more = stored'
  OBVIOUS
<1>1. /\ me.at = "ingest" /\ me.rows # {} /\ writer' = [writer EXCEPT ![w] = new]
      /\ stored' = [stored EXCEPT ![c] = @ \cup {row}]
      /\ UNCHANGED <<moment, malformed, checkpoint, mirror, source>>
  BY DEF IngestRow, At
<1>2. me.at \in InWork
  BY <1>1 DEF InWork
<1>3. /\ me \in WriterStates /\ ss \in [DataCells -> SourceStates] /\ WriterInv(me)
      /\ c \in DataCells /\ c = CellOrder[me.index] /\ CellInv(me, c, s)
      /\ writer \in [Writers -> WriterStates] /\ source \in [Writers -> [DataCells -> SourceStates]]
      /\ stored \in [DataCells -> SUBSET Good] /\ moment \in Nat
  BY <1>2, InHandIs DEF HistoryInv, StoreInv
<1>4. row \in me.rows /\ \A b \in me.rows : row <= b
  BY <1>1, <1>3, NatHasMin DEF WriterStates
<1>5. \A b \in Good : b \in Nat
  BY DEF Good, Bars
<1>6. /\ row \in Good /\ row < me.end /\ row < moment /\ row \in Nat
  <2>1. row \in Good /\ row < me.end /\ me.end \in Nat /\ me.end <= moment
    BY <1>3, <1>4 DEF CellInv, WriterInv, WriterStates
  <2> QED
    BY <1>3, <1>5, <2>1
<1>7. /\ more \in [DataCells -> SUBSET Good] /\ more[c] = stored[c] \cup {row}
      /\ \A d \in DataCells : d # c => more[d] = stored[d]
      /\ \A d \in DataCells : stored[d] \subseteq more[d]
  BY <1>1, <1>3, <1>6
<1>8. ASSUME NEW d \in DataCells, NEW n, AllBefore(stored[d], n)
      PROVE  AllBefore(more[d], n)
  BY <1>7, <1>8 DEF AllBefore
<1>9. AllBefore(stored[c], row)
  <2>1. \A b \in Good : b < row => b \notin me.rows
    BY <1>4, <1>5, <1>6
  <2> QED
    BY <1>3, <1>4, <2>1 DEF CellInv, AllBefore
<1>10. Good' = Good /\ moment' = moment /\ malformed' = malformed /\ checkpoint' = checkpoint
       /\ mirror' = mirror /\ source' = source /\ stored' = more
  BY <1>1 DEF Good
<1>11. \A d \in DataCells : \A b \in more[d] : b < moment /\ AllBefore(more[d], b)
  <2>1. ASSUME NEW d \in DataCells, NEW b \in more[d]
        PROVE  b < moment /\ AllBefore(stored[d], b)
    <3>1. CASE b \in stored[d]
      BY <3>1 DEF HistoryInv, StoreInv
    <3>2. CASE d = c /\ b = row
      BY <1>6, <1>9, <3>2
    <3> QED
      BY <1>7, <2>1, <3>1, <3>2
  <2> QED
    BY <1>8, <2>1
<1>12. StoreInv'
  <2>1. \A d \in DataCells : AllBefore(more[d], checkpoint[d].cursor) /\ mirror[d] <= checkpoint[d].cursor
    BY <1>8 DEF HistoryInv, StoreInv
  <2>2. mirror \in [DataCells -> Nat] /\ checkpoint \in [DataCells -> Checkpoints]
    BY DEF HistoryInv, StoreInv
  <2> QED
    BY <1>3, <1>7, <1>10, <1>11, <2>1, <2>2 DEF StoreInv, AllBefore
<1>13. PICK rows : rows = me.rows \ {row}
  OBVIOUS
<1>14. /\ new \in WriterStates /\ new.rows = rows
       /\ new.at = IF me.rows = {row} THEN "kept" ELSE "ingest"
       /\ new.index = me.index /\ new.cursor = me.cursor /\ new.end = me.end
       /\ new.next = me.next /\ new.allWell = me.allWell /\ new.boundary = me.boundary
  <2>1. PICK at : at = IF me.rows = {row} THEN "kept" ELSE "ingest"
    OBVIOUS
  <2>2. at \in {"kept", "ingest"} /\ rows \in SUBSET Nat
    BY <1>3, <1>13, <2>1 DEF WriterStates
  <2>3. new = [me EXCEPT !.rows = rows, !.at = at]
    BY <1>1, <1>13, <2>1 DEF RowKept
  <2> QED
    BY <1>3, <2>1, <2>2, <2>3 DEF WriterStates, InWork
<1>15. new.at \in {"kept", "ingest"} /\ (new.at = "ingest" <=> rows # {})
  BY <1>4, <1>13, <1>14
<1>16. WriterInv(new)
  BY <1>2, <1>3, <1>14, <1>15 DEF WriterInv, InWork
<1>17. more[c] \cup rows = stored[c] \cup me.rows
  BY SMTT(30), <1>4, <1>7, <1>13
<1>18. /\ rows \subseteq Good /\ \A b \in rows : b < me.end
       /\ \A b \in rows : AllBefore(more[c] \cup rows, b)
       /\ AllBefore(more[c] \cup rows, s.served + 1)
       /\ Covers(s, me.cursor) /\ Covers(s, me.next)
  BY <1>1, <1>3, <1>13, <1>17 DEF CellInv
<1>19. ASSUME NEW v \in Writers, v # w
       PROVE  OneWriterInv(writer[v], source[v])
  BY <1>19 DEF HistoryInv
<1>20. /\ writer' \in [Writers -> WriterStates] /\ writer'[w] = new
       /\ \A v \in Writers : v # w => writer'[v] = writer[v]
  BY <1>1, <1>3, <1>14
\* A source, and a page in hand, seen from the store with the new row.
<1>21. ASSUME NEW d \in DataCells, NEW t, SourceInv(d, t)
       PROVE  SourceInv(d, t)'
  <2>1. AllBefore(more[d], t.frontier + 1)
    BY <1>8, <1>21 DEF SourceInv
  <2> QED
    BY <1>10, <1>21, <2>1 DEF SourceInv, AllBefore
<1>22. ASSUME NEW d \in DataCells, NEW t, NEW x, CellInv(x, d, t)
       PROVE  CellInv(x, d, t)'
  <2>1. /\ \A b \in x.rows : AllBefore(more[d] \cup x.rows, b)
        /\ AllBefore(more[d] \cup x.rows, t.served + 1)
    BY <1>7, <1>22 DEF CellInv, AllBefore
  <2> QED
    BY <1>10, <1>22, <2>1 DEF CellInv, AllBefore, Covers
<1>23. CellInv(new, c, s)'
  BY SMT, <1>10, <1>14, <1>18 DEF CellInv, AllBefore, Covers
<1>24. ASSUME NEW v \in Writers
       PROVE  OneWriterInv(writer[v], source[v])'
  <2>1. PICK x, tt : x = writer'[v] /\ tt = source[v]
    OBVIOUS
  <2>2. \A d \in DataCells : SourceInv(d, tt[d])'
    BY <1>21, <2>1 DEF HistoryInv, OneWriterInv
  <2>3. WriterInv(x)
    BY <1>16, <1>19, <1>20, <2>1 DEF OneWriterInv
  <2>4. x.at \in InWork => CellInv(x, CellOrder[x.index], tt[CellOrder[x.index]])'
    <3>1. CASE v = w
      BY <1>3, <1>14, <1>20, <1>23, <2>1, <3>1
    <3>2. CASE v # w
      <4>1. x = writer[v]
        BY <1>20, <2>1, <3>2
      <4>2. x.at \in InWork => CellOrder[x.index] \in DataCells
                               /\ CellInv(x, CellOrder[x.index], tt[CellOrder[x.index]])
        BY <2>1, <4>1, InHandIs DEF InCell
      <4> QED
        BY <1>22, <4>2
    <3> QED
      BY <3>1, <3>2
  <2>5. WriterInv(x)'
    BY <1>10, <2>3 DEF WriterInv
  <2>6. OneWriterInv(x, tt)'
    BY <2>2, <2>4, <2>5 DEF OneWriterInv
  <2> QED
    BY <1>10, <2>1, <2>2, <2>4, <2>5 DEF OneWriterInv, WriterInv, SourceInv, CellInv, AllBefore, Covers
<1>25. RunInv(writer["run"], source["run"], checkpoint)'
  <2>1. PICK x, tt : x = writer["run"] /\ tt = source["run"]
    OBVIOUS
  <2>2. PICK y : y = writer'["run"]
    OBVIOUS
  <2>3. RunInv(x, tt, checkpoint)
    BY <2>1 DEF HistoryInv
  <2>4. y = x \/ (y = new /\ x = me /\ w = "run")
    BY <1>20, <2>1, <2>2 DEF Writers
  <2>5. /\ y.at # "next" /\ (y.at # "rest" => x.at # "rest") /\ y.index = x.index
        /\ y.at \in InWork <=> x.at \in InWork
    BY <1>1, <1>14, <1>15, <2>3, <2>4 DEF RunInv, InWork
  <2>6. ASSUME y.at # "rest", NEW d \in DataCells
        PROVE  /\ Covers(tt[d], checkpoint[d].cursor)
               /\ y.at \notin InWork \/ d # CellOrder[y.index] => AllBefore(more[d], tt[d].served + 1)
    BY <1>8, <2>3, <2>5, <2>6 DEF RunInv
  <2> QED
    BY <1>10, <2>1, <2>2, <2>5, <2>6 DEF RunInv, AllBefore, Covers
<1>26. CatchUpInv(writer["catchUp"])'
  <2>1. PICK x : x = writer["catchUp"]
    OBVIOUS
  <2>2. PICK y : y = writer'["catchUp"]
    OBVIOUS
  <2>3. CatchUpInv(x)
    BY <2>1 DEF HistoryInv
  <2>4. y = x \/ (y = new /\ x = me /\ w = "catchUp")
    BY <1>20, <2>1, <2>2 DEF Writers
  <2>5. y.at # "next" \/ x.at = "next"
    BY <1>15, <2>4
  <2>6. y.index = x.index /\ y.allWell = x.allWell /\ y.end = x.end /\ y.boundary = x.boundary
    BY <1>14, <2>4
  <2>7. \A d \in DataCells : AllBefore(more[d], y.boundary)
    BY <1>8, <2>3, <2>6 DEF CatchUpInv
  <2>8. ASSUME y.allWell, NEW j \in 1..Len(CellOrder), j < y.index \/ (j = y.index /\ y.at = "next")
        PROVE  AllBefore(more[CellOrder[j]], y.end)
    BY <1>8, <2>3, <2>5, <2>6, <2>8, CellsAre DEF CatchUpInv
  <2> QED
    BY <1>10, <2>2, <2>7, <2>8 DEF CatchUpInv, AllBefore
<1> QED
  BY <1>3, <1>10, <1>12, <1>20, <1>24, <1>25, <1>26 DEF HistoryInv

LEMMA FreshIsSound ==
  /\ FreshSource \in SourceStates /\ FreshSource.frontier = 0 /\ FreshSource.floor = 0
  /\ FreshSource.served = 0 /\ FreshSource.walked = FALSE /\ FreshSource.history = {}
BY DEF FreshSource, SourceStates

LEMMA RestIsSound ==
  /\ Resting \in WriterStates /\ Resting.at = "rest" /\ Resting.index = 1 /\ Resting.cursor = 0
  /\ Resting.end = 0 /\ Resting.rows = {} /\ Resting.next = 0 /\ Resting.to = 0
  /\ Resting.allWell = TRUE /\ Resting.boundary = 0
BY DEF Resting, WriterStates, InWork

\* A new process of a writer: it stands nowhere and knows nothing.
LEMMA ProcessIsNew ==
  ASSUME HistoryInv, StoreInv', UNCHANGED <<moment, malformed, stored>>, UNCHANGED checkpoint,
         NEW w \in Writers, NEW me \in WriterStates, writer' = [writer EXCEPT ![w] = me],
         me.at = "rest", me.index = 1, me.end <= moment, me.rows = {}, me.allWell,
         w = "catchUp" => \A c \in DataCells : AllBefore(stored[c], me.boundary),
         ProcessGone(w)
  PROVE  HistoryInv'
<1>1. PICK ss : ss = [c \in DataCells |-> FreshSource]
  OBVIOUS
<1>2. ss \in [DataCells -> SourceStates] /\ \A c \in DataCells : ss[c] = FreshSource
  BY <1>1, FreshIsSound
<1>3. source' = [source EXCEPT ![w] = ss]
  BY <1>1 DEF ProcessGone
<1>4. \A b \in Good : b \in Nat /\ b >= 1
  BY BootstrapAssumption DEF Good, Bars
<1>5. \A c \in DataCells : SourceInv(c, ss[c])
  <2>1. \A c \in DataCells : AllBefore(stored[c], 0 + 1)
    BY <1>4 DEF AllBefore
  <2> QED
    BY <1>2, <2>1, FreshIsSound DEF SourceInv
<1>6. WriterInv(me)
  BY CellsAre DEF WriterInv, InWork
<1>7. OneWriterInv(me, ss)
  BY <1>5, <1>6 DEF OneWriterInv, InWork
<1>8. RunInv(me, ss, checkpoint')
  BY DEF RunInv
<1>9. w = "catchUp" => CatchUpInv(me)
  BY CellsAre DEF CatchUpInv
<1> QED
  BY <1>2, <1>3, <1>7, <1>8, <1>9, OneWriterMoves

\* Nothing good opens before the first moment.
LEMMA NothingBeforeZero == \A S : AllBefore(S, 0) /\ AllBefore(S, 1)
<1>1. \A b \in Good : b \in Nat /\ b >= 1
  BY BootstrapAssumption DEF Good, Bars
<1> QED
  BY <1>1 DEF AllBefore

LEMMA RestKeeps ==
  ASSUME HistoryInv, NEW w \in Writers, writer' = [writer EXCEPT ![w] = Resting], ProcessGone(w),
         UNCHANGED <<moment, malformed, durable>>
  PROVE  HistoryInv'
<1>1. StoreInv' /\ UNCHANGED <<moment, malformed, stored>> /\ UNCHANGED checkpoint
  BY StoreStays DEF HistoryInv, durable
<1>2. moment \in Nat
  BY DEF HistoryInv, StoreInv
<1>3. Resting.end <= moment
  BY <1>2, RestIsSound
<1> QED
  BY <1>1, <1>3, RestIsSound, NothingBeforeZero, ProcessIsNew

LEMMA DeathsKeep ==
  HistoryInv /\ (BudgetReached \/ RunEnds \/ \E w \in Writers : WriterDies(w)) => HistoryInv'
<1>1. ASSUME HistoryInv, BudgetReached \/ RunEnds PROVE HistoryInv'
  <2>1. "run" \in Writers
    BY DEF Writers
  <2> QED
    BY <1>1, <2>1, RestKeeps DEF BudgetReached, RunEnds
<1>2. ASSUME HistoryInv, NEW w \in Writers, WriterDies(w) PROVE HistoryInv'
  BY <1>2, RestKeeps DEF WriterDies
<1> QED
  BY <1>1, <1>2

\* A writer moves on with its sources as they are.
LEMMA PlaceMoves ==
  ASSUME HistoryInv, UNCHANGED <<moment, malformed, durable, source>>,
         NEW w \in Writers, NEW me \in WriterStates, writer' = [writer EXCEPT ![w] = me],
         WriterInv(me),
         me.at \in InWork => CellInv(me, CellOrder[me.index], source[w][CellOrder[me.index]]),
         w = "run" => RunInv(me, source[w], checkpoint),
         w = "catchUp" => CatchUpInv(me)
  PROVE  HistoryInv'
<1>1. StoreInv' /\ UNCHANGED <<moment, malformed, stored>> /\ checkpoint' = checkpoint
  BY StoreStays DEF HistoryInv, durable
<1>2. /\ source[w] \in [DataCells -> SourceStates] /\ source' = [source EXCEPT ![w] = source[w]]
      /\ \A c \in DataCells : SourceInv(c, source[w][c])
  BY InHandIs DEF HistoryInv
<1>3. OneWriterInv(me, source[w])
  BY <1>2 DEF OneWriterInv
<1> QED
  BY <1>1, <1>2, <1>3, OneWriterMoves

LEMMA CellFailsKeeps == HistoryInv /\ (\E w \in Writers : CellFails(w)) => HistoryInv'
<1> SUFFICES ASSUME HistoryInv, NEW w \in Writers, CellFails(w) PROVE HistoryInv'
  OBVIOUS
<1>1. CASE w = "run"
  BY <1>1, RestKeeps DEF CellFails
<1>2. CASE w = "catchUp"
  <2>1. PICK me : me = writer[w]
    OBVIOUS
  <2>2. PICK new : new = CellRefused(me)
    OBVIOUS
  <2>3. /\ me.at \in {"walk", "ingest"} /\ writer' = [writer EXCEPT ![w] = new]
        /\ UNCHANGED <<moment, malformed, durable, source>>
    BY <1>2, <2>1, <2>2 DEF CellFails
  <2>4. me \in WriterStates /\ WriterInv(me) /\ CatchUpInv(me)
    BY <1>2, <2>1, InHandIs DEF HistoryInv
  <2>5. /\ new \in WriterStates /\ new.at = "next" /\ new.rows = {} /\ new.allWell = FALSE
        /\ new.index = me.index /\ new.end = me.end /\ new.boundary = me.boundary
    BY <2>2, <2>4 DEF CellRefused, WriterStates, InWork
  <2>6. WriterInv(new)
    BY <2>3, <2>4, <2>5 DEF WriterInv, InWork
  <2>7. new.at \notin InWork
    BY <2>5 DEF InWork
  <2>8. CatchUpInv(new)
    BY <2>4, <2>5 DEF CatchUpInv
  <2> QED
    BY <1>2, <2>3, <2>5, <2>6, <2>7, <2>8, PlaceMoves
<1> QED
  BY <1>1, <1>2 DEF Writers

LEMMA RateLimitedKeeps == HistoryInv /\ (\E w \in Writers : RateLimited(w)) => HistoryInv'
<1> SUFFICES ASSUME HistoryInv, NEW w \in Writers, RateLimited(w) PROVE HistoryInv'
  OBVIOUS
<1>1. PICK me : me = writer[w]
  OBVIOUS
<1>2. PICK new : new = [me EXCEPT !.at = "page"]
  OBVIOUS
<1>3. /\ me.at = "walk" /\ w = "run" /\ UNCHANGED <<moment, malformed, durable, source>>
      /\ me.at \in InWork
  BY <1>1 DEF RateLimited, At, InWork
<1>4. /\ me \in WriterStates /\ WriterInv(me) /\ writer \in [Writers -> WriterStates]
      /\ CellInv(me, CellOrder[me.index], source[w][CellOrder[me.index]])
      /\ RunInv(me, source[w], checkpoint)
  BY <1>1, <1>3, InHandIs DEF HistoryInv
<1>5. writer' = [writer EXCEPT ![w] = new]
  BY <1>1, <1>2, <1>4 DEF RateLimited, Goes
<1>6. /\ new \in WriterStates /\ new.at = "page" /\ new.rows = me.rows /\ new.cursor = me.cursor
      /\ new.index = me.index /\ new.end = me.end
  BY <1>2, <1>4 DEF WriterStates, InWork
<1>7. WriterInv(new)
  BY <1>3, <1>4, <1>6 DEF WriterInv, InWork
<1>8. CellInv(new, CellOrder[new.index], source[w][CellOrder[new.index]])
  BY <1>4, <1>6 DEF CellInv
<1>9. RunInv(new, source[w], checkpoint)
  BY <1>3, <1>4, <1>6 DEF RunInv, InWork
<1> QED
  BY <1>3, <1>5, <1>6, <1>7, <1>8, <1>9, PlaceMoves

\* A source that begins at the newest stored bar knows what is stored.
LEMMA FrontierIsStored ==
  ASSUME HistoryInv, NEW c \in DataCells, NEW n, n = Newest(stored[c])
  PROVE  /\ n \in Nat /\ AllBefore(stored[c], n + 1)
         /\ \A m \in Nat : AllBefore(stored[c], m) => \A b \in Good : b < m => b <= n
<1>1. stored[c] \in SUBSET Bars /\ \A b \in stored[c] : AllBefore(stored[c], b)
  BY DEF HistoryInv, StoreInv, Good
<1>2. n \in Nat /\ (\A b \in stored[c] : b <= n) /\ (n = 0 \/ n \in stored[c])
  BY <1>1, NewestIs
<1>3. \A b \in Good : b \in Nat /\ b >= 1
  BY BootstrapAssumption DEF Good, Bars
<1>4. AllBefore(stored[c], n + 1)
  <2>1. ASSUME NEW b \in Good, b < n + 1 PROVE b \in stored[c]
    <3>1. n # 0 /\ (b < n \/ b = n)
      BY <1>2, <1>3, <2>1
    <3>2. n \in stored[c] /\ AllBefore(stored[c], n)
      BY <1>1, <1>2, <3>1
    <3> QED
      BY <3>1, <3>2 DEF AllBefore
  <2> QED
    BY <2>1 DEF AllBefore
<1> QED
  BY <1>2, <1>4 DEF AllBefore

LEMMA StartRunKeeps == HistoryInv /\ StartRun => HistoryInv'
<1> SUFFICES ASSUME HistoryInv, StartRun PROVE HistoryInv'
  OBVIOUS
<1>1. PICK me : me = [Resting EXCEPT !.at = "cell", !.end = moment]
  OBVIOUS
<1>2. PICK ss : ss = [c \in DataCells |-> SetFrontier(FreshSource, Newest(stored[c]))]
  OBVIOUS
<1>3. /\ UNCHANGED <<moment, malformed, durable>> /\ checkpoint' = checkpoint
      /\ writer' = [writer EXCEPT !["run"] = me] /\ source' = [source EXCEPT !["run"] = ss]
  BY <1>1, <1>2 DEF StartRun, durable
<1>4. StoreInv' /\ UNCHANGED <<moment, malformed, stored>> /\ moment \in Nat
  BY <1>3, StoreStays DEF HistoryInv, StoreInv, durable
<1>5. /\ me \in WriterStates /\ me.at = "cell" /\ me.index = 1 /\ me.end = moment /\ me.rows = {}
  BY <1>1, <1>4, RestIsSound DEF WriterStates, InWork
<1>6. ASSUME NEW c \in DataCells
      PROVE  /\ ss[c] \in SourceStates /\ SourceInv(c, ss[c])
             /\ Covers(ss[c], checkpoint[c].cursor) /\ AllBefore(stored[c], ss[c].served + 1)
  <2>1. PICK n : n = Newest(stored[c])
    OBVIOUS
  <2>2. /\ n \in Nat /\ AllBefore(stored[c], n + 1)
        /\ \A m \in Nat : AllBefore(stored[c], m) => \A b \in Good : b < m => b <= n
    BY <2>1, FrontierIsStored
  <2>3. ss[c] = [FreshSource EXCEPT !.frontier = n]
    BY <1>2, <2>1 DEF SetFrontier
  <2>4. /\ ss[c] \in SourceStates /\ ss[c].frontier = n /\ ss[c].floor = 0 /\ ss[c].served = 0
        /\ ss[c].walked = FALSE /\ ss[c].history = {}
    BY <2>2, <2>3, FreshIsSound DEF SourceStates
  <2>5. checkpoint[c].cursor \in Nat /\ AllBefore(stored[c], checkpoint[c].cursor)
    BY DEF HistoryInv, StoreInv, Checkpoints
  <2>6. Covers(ss[c], checkpoint[c].cursor)
    BY <2>2, <2>4, <2>5 DEF Covers
  <2>7. AllBefore(stored[c], 0 + 1)
    BY NothingBeforeZero
  <2> QED
    BY <2>2, <2>4, <2>6, <2>7 DEF SourceInv
<1>7. ss \in [DataCells -> SourceStates]
  BY <1>2, <1>6
<1>8. WriterInv(me)
  BY <1>4, <1>5, CellsAre DEF WriterInv, InWork
<1>9. OneWriterInv(me, ss)
  BY <1>5, <1>6, <1>8 DEF OneWriterInv, InWork
<1>10. RunInv(me, ss, checkpoint')
  BY <1>3, <1>5, <1>6 DEF RunInv, InWork
<1> QED
  BY <1>3, <1>4, <1>5, <1>7, <1>9, <1>10, OneWriterMoves DEF Writers

\* A save keeps the rows true when nothing before its cursor is missing.
LEMMA SaveIsTrue ==
  ASSUME HistoryInv, NEW c \in DataCells, NEW status \in {"IN_PROGRESS", "COMPLETE"},
         NEW cursor \in Nat, AllBefore(stored[c], cursor), SaveBootstrap(c, status, cursor),
         UNCHANGED <<moment, malformed, stored>>
  PROVE  /\ StoreInv'
         /\ checkpoint'[c].cursor \in {checkpoint[c].cursor, cursor}
         /\ \A d \in DataCells : d # c => checkpoint'[d] = checkpoint[d]
<1>1. /\ checkpoint \in [DataCells -> Checkpoints] /\ mirror \in [DataCells -> Nat]
      /\ \A d \in DataCells : mirror[d] <= checkpoint[d].cursor /\ checkpoint[d].cursor \in Nat
                              /\ mirror[d] \in Nat
      /\ \A d \in DataCells : AllBefore(stored[d], checkpoint[d].cursor)
  BY DEF HistoryInv, StoreInv, Checkpoints
<1>2. PICK top : top = Max({checkpoint[c].cursor, cursor})
  OBVIOUS
<1>3. top \in {checkpoint[c].cursor, cursor} /\ checkpoint[c].cursor <= top /\ cursor <= top /\ top \in Nat
  BY <1>1, <1>2, MaxOfTwo
<1>4. PICK drops : drops = DropEvidence(c, status)
  OBVIOUS
<1>5. drops \in Nat
  <2>1. checkpoint[c].dropped \in Nat /\ source["run"][c].dropped \in Nat
    BY <1>1 DEF Checkpoints, HistoryInv, SourceStates, Writers
  <2>2. PICK most : most = Max({source["run"][c].dropped, checkpoint[c].dropped})
    OBVIOUS
  <2>3. most \in Nat
    BY <2>1, <2>2, MaxOfTwo
  <2>4. drops = most \/ drops = checkpoint[c].dropped
    BY <1>4, <2>2 DEF DropEvidence
  <2> QED
    BY <2>1, <2>3, <2>4
<1>6. PICK row : row = [status |-> status, cursor |-> top, dropped |-> drops]
  OBVIOUS
<1>7. row \in Checkpoints /\ row.cursor = top
  BY <1>3, <1>5, <1>6 DEF Checkpoints
<1>8. checkpoint' = [checkpoint EXCEPT ![c] = row]
  BY <1>2, <1>4, <1>6 DEF SaveBootstrap
<1>9. /\ checkpoint' \in [DataCells -> Checkpoints] /\ checkpoint'[c].cursor = top
      /\ \A d \in DataCells : d # c => checkpoint'[d] = checkpoint[d]
  BY <1>1, <1>7, <1>8
<1>10. mirror' \in [DataCells -> Nat] /\ \A d \in DataCells : mirror'[d] <= checkpoint'[d].cursor
  <2>1. CASE UNCHANGED mirror
    <3>1. \A d \in DataCells : mirror[d] <= checkpoint'[d].cursor
      BY <1>1, <1>3, <1>9
    <3> QED
      BY <1>1, <2>1, <3>1
  <2>2. CASE mirror' = [mirror EXCEPT ![c] = Max({@, cursor})]
    <3>1. PICK high : high = Max({mirror[c], cursor})
      OBVIOUS
    <3>2. high \in {mirror[c], cursor} /\ high \in Nat
      BY <1>1, <3>1, MaxOfTwo
    <3>3. high <= top
      BY <1>1, <1>3, <3>2
    <3>4. mirror' = [mirror EXCEPT ![c] = high]
      BY <2>2, <3>1
    <3> QED
      BY <1>1, <1>9, <3>2, <3>3, <3>4
  <2> QED
    BY <2>1, <2>2 DEF SaveBootstrap
<1>11. \A d \in DataCells : AllBefore(stored[d], checkpoint'[d].cursor)
  BY <1>1, <1>3, <1>9
<1>12. Good' = Good /\ moment' = moment /\ stored' = stored
  BY DEF Good
<1>13. /\ moment \in Nat /\ stored \in [DataCells -> SUBSET Good]
       /\ \A d \in DataCells : \A b \in stored[d] : b < moment /\ AllBefore(stored[d], b)
  BY DEF HistoryInv, StoreInv
<1> QED
  BY <1>3, <1>9, <1>10, <1>11, <1>12, <1>13 DEF StoreInv, AllBefore

\* Nothing before a cursor the source covers is missing once no row is in hand.
LEMMA CoveredIsStored ==
  ASSUME NEW c \in DataCells, NEW me, NEW s \in SourceStates, NEW n \in Nat,
         CellInv(me, c, s), SourceInv(c, s), me.rows = {}, Covers(s, n)
  PROVE  AllBefore(stored[c], n) /\ AllBefore(stored[c], s.served + 1)
<1>1. /\ s.served \in Nat /\ s.frontier \in Nat
      /\ \A b \in Good : b \in Nat
  BY DEF SourceStates, Good, Bars
<1>2. stored[c] \cup me.rows = stored[c]
  OBVIOUS
<1>3. AllBefore(stored[c], s.served + 1) /\ AllBefore(stored[c], s.frontier + 1)
  BY <1>2 DEF CellInv, SourceInv
<1>4. ASSUME NEW b \in Good, b < n
      PROVE  b \in stored[c]
  <2>1. b < s.frontier + 1 \/ b < s.served + 1
    BY <1>1, <1>4 DEF Covers
  <2> QED
    BY <1>3, <2>1 DEF AllBefore
<1> QED
  BY <1>3, <1>4 DEF AllBefore

LEMMA PageFromIs ==
  ASSUME NEW me \in WriterStates, NEW cursor \in Nat, NEW new, new = PageFrom(me, cursor)
  PROVE  /\ new \in WriterStates /\ new.at = "page" /\ new.cursor = cursor /\ new.next = 0
         /\ new.index = me.index /\ new.end = me.end /\ new.rows = me.rows
         /\ new.allWell = me.allWell /\ new.boundary = me.boundary
BY DEF PageFrom, WriterStates, InWork

LEMMA RunSavesKeep == HistoryInv /\ (EnterCell \/ PageSaved) => HistoryInv'
<1> SUFFICES ASSUME HistoryInv, EnterCell \/ PageSaved PROVE HistoryInv'
  OBVIOUS
<1>1. PICK me : me = writer["run"]
  OBVIOUS
<1>2. PICK ss : ss = source["run"]
  OBVIOUS
<1>3. PICK c : c = InCell("run")
  OBVIOUS
<1>4. "run" \in Writers
  BY DEF Writers
<1>5. /\ me \in WriterStates /\ ss \in [DataCells -> SourceStates] /\ WriterInv(me)
      /\ \A d \in DataCells : SourceInv(d, ss[d])
      /\ RunInv(me, ss, checkpoint)
      /\ source \in [Writers -> [DataCells -> SourceStates]]
      /\ me.at \in InWork => CellInv(me, c, ss[c])
  BY <1>1, <1>2, <1>3, <1>4, InHandIs DEF HistoryInv
<1>6. /\ me.at \in {"cell", "ingest", "kept"} /\ me.index <= Len(CellOrder)
      /\ UNCHANGED <<moment, malformed, stored, source>>
      /\ me.rows = {}
  BY <1>1, <1>5 DEF EnterCell, PageSaved, At, WriterInv
<1>7. me.index \in 1..Len(CellOrder) /\ c = CellOrder[me.index] /\ c \in DataCells
  <2>1. me.index \in Nat \ {0}
    BY <1>5 DEF WriterStates
  <2>2. me.index \in 1..Len(CellOrder)
    BY <1>6, <2>1, CellsAre
  <2> QED
    BY <1>1, <1>3, <2>2, CellsAre DEF InCell
<1>8. checkpoint[c].cursor \in Nat /\ AllBefore(stored[c], checkpoint[c].cursor)
  BY <1>7 DEF HistoryInv, StoreInv, Checkpoints
<1>9. PICK s : s = ss[c]
  OBVIOUS
<1>10. s \in SourceStates /\ SourceInv(c, s) /\ Covers(s, checkpoint[c].cursor)
  BY <1>5, <1>6, <1>7, <1>9 DEF RunInv
\* The cursor the cell goes on from.
<1>11. PICK cursor \in Nat :
         /\ SaveBootstrap(c, "IN_PROGRESS", cursor)
         /\ writer' = [writer EXCEPT !["run"] = PageFrom(me, cursor)]
         /\ AllBefore(stored[c], cursor) /\ Covers(s, cursor)
         /\ AllBefore(stored[c], s.served + 1)
  <2>1. CASE EnterCell
    <3>1. /\ SaveBootstrap(c, "IN_PROGRESS", checkpoint[c].cursor) /\ me.at = "cell"
          /\ writer' = [writer EXCEPT !["run"] = PageFrom(me, checkpoint[c].cursor)]
      BY <1>1, <1>3, <2>1 DEF EnterCell, At
    <3>2. AllBefore(stored[c], s.served + 1)
      BY <1>5, <1>7, <1>9, <3>1 DEF RunInv, InWork
    <3> QED
      BY <1>8, <1>10, <3>1, <3>2
  <2>2. CASE PageSaved
    <3>1. /\ SaveBootstrap(c, "IN_PROGRESS", me.next) /\ me.at \in {"ingest", "kept"}
          /\ writer' = [writer EXCEPT !["run"] = PageFrom(me, me.next)]
      BY <1>1, <1>3, <2>2 DEF PageSaved, At
    <3>2. me.next \in Nat /\ CellInv(me, c, s)
      BY <1>5, <1>9, <3>1 DEF WriterStates, InWork
    <3>3. Covers(s, me.next)
      BY <3>1, <3>2 DEF CellInv
    <3>4. AllBefore(stored[c], me.next) /\ AllBefore(stored[c], s.served + 1)
      BY <1>6, <1>7, <1>10, <3>2, <3>3, CoveredIsStored
    <3> QED
      BY <3>1, <3>2, <3>3, <3>4
  <2> QED
    BY <2>1, <2>2
<1>12. PICK new : new = PageFrom(me, cursor)
  OBVIOUS
<1>13. /\ new \in WriterStates /\ new.at = "page" /\ new.cursor = cursor
       /\ new.index = me.index /\ new.end = me.end /\ new.rows = {}
  <2>1. me \in WriterStates /\ cursor \in Nat /\ me.rows = {}
    BY <1>5, <1>6, <1>11
  <2> QED
    BY <1>12, <2>1, PageFromIs
<1>14. /\ StoreInv' /\ checkpoint'[c].cursor \in {checkpoint[c].cursor, cursor}
       /\ \A d \in DataCells : d # c => checkpoint'[d] = checkpoint[d]
  BY <1>6, <1>7, <1>11, SaveIsTrue
<1>15. WriterInv(new)
  BY <1>5, <1>6, <1>13 DEF WriterInv, InWork
<1>16. CellInv(new, c, s)
  <2>1. stored[c] \cup new.rows = stored[c]
    BY <1>13
  <2> QED
    BY <1>11, <1>13, <2>1 DEF CellInv
<1>17. OneWriterInv(new, ss)
  BY <1>5, <1>7, <1>9, <1>13, <1>15, <1>16 DEF OneWriterInv
<1>18. RunInv(new, ss, checkpoint')
  <2>1. ASSUME NEW d \in DataCells
        PROVE  /\ Covers(ss[d], checkpoint'[d].cursor)
               /\ d # c => AllBefore(stored[d], ss[d].served + 1)
    <3>1. /\ Covers(ss[d], checkpoint[d].cursor)
          /\ d # c => AllBefore(stored[d], ss[d].served + 1)
      BY <1>5, <1>6, <1>7 DEF RunInv
    <3> QED
      BY <1>9, <1>11, <1>14, <3>1
  <2>2. new.at \in InWork /\ new.at # "next" /\ CellOrder[new.index] = c
    BY <1>7, <1>13 DEF InWork
  <2> QED
    BY <2>1, <2>2 DEF RunInv
<1>19. writer' = [writer EXCEPT !["run"] = new] /\ source' = [source EXCEPT !["run"] = ss]
  BY <1>2, <1>5, <1>6, <1>11, <1>12
<1> QED
  BY <1>4, <1>5, <1>6, <1>13, <1>14, <1>17, <1>18, <1>19, OneWriterMoves

LEMMA NextCellIs ==
  ASSUME NEW me \in WriterStates, NEW new, new = NextCell(me)
  PROVE  /\ new \in WriterStates /\ new.at = "cell" /\ new.index = me.index + 1
         /\ new.index \in Nat \ {0} /\ new.end = me.end /\ new.rows = me.rows
         /\ new.allWell = me.allWell /\ new.boundary = me.boundary
<1>1. PICK index : index = me.index + 1
  OBVIOUS
<1>2. index \in Nat \ {0}
  BY <1>1 DEF WriterStates
<1>3. new = [me EXCEPT !.at = "cell", !.index = index]
  BY <1>1 DEF NextCell
<1> QED
  BY <1>1, <1>2, <1>3 DEF WriterStates, InWork

LEMMA CellCompleteKeeps == HistoryInv /\ CellComplete => HistoryInv'
<1> SUFFICES ASSUME HistoryInv, CellComplete PROVE HistoryInv'
  OBVIOUS
<1>1. PICK me : me = writer["run"]
  OBVIOUS
<1>2. PICK ss : ss = source["run"]
  OBVIOUS
<1>3. PICK c : c = InCell("run")
  OBVIOUS
<1>4. "run" \in Writers
  BY DEF Writers
<1>5. /\ me.at = "page" /\ me.at \in InWork
      /\ UNCHANGED <<moment, malformed, stored, source>>
      /\ SaveBootstrap(c, "COMPLETE", me.cursor)
  BY <1>1, <1>3 DEF CellComplete, At, InWork
<1>6. /\ me \in WriterStates /\ ss \in [DataCells -> SourceStates] /\ WriterInv(me)
      /\ \A d \in DataCells : SourceInv(d, ss[d])
      /\ RunInv(me, ss, checkpoint)
      /\ source \in [Writers -> [DataCells -> SourceStates]]
      /\ CellInv(me, c, ss[c]) /\ c \in DataCells /\ c = CellOrder[me.index]
      /\ me.index \in 1..Len(CellOrder)
  BY <1>1, <1>2, <1>3, <1>4, <1>5, InHandIs DEF HistoryInv
<1>7. me.rows = {} /\ me.cursor \in Nat /\ Covers(ss[c], me.cursor) /\ me.index \in Nat
  BY <1>5, <1>6 DEF WriterInv, WriterStates, CellInv
<1>8. AllBefore(stored[c], me.cursor) /\ AllBefore(stored[c], ss[c].served + 1)
  BY <1>6, <1>7, CoveredIsStored
<1>9. /\ StoreInv' /\ checkpoint'[c].cursor \in {checkpoint[c].cursor, me.cursor}
      /\ \A d \in DataCells : d # c => checkpoint'[d] = checkpoint[d]
  BY <1>5, <1>6, <1>7, <1>8, SaveIsTrue
<1>10. PICK new : new = NextCell(me)
  OBVIOUS
<1>11. /\ new \in WriterStates /\ new.at = "cell" /\ new.index = me.index + 1 /\ new.end = me.end
       /\ new.rows = {} /\ new.index \in Nat
  BY <1>6, <1>7, <1>10, NextCellIs
<1>12. new.index <= Len(CellOrder) + 1
  BY <1>6, <1>11, CellsAre
<1>13. WriterInv(new)
  BY <1>6, <1>11, <1>12 DEF WriterInv, InWork
<1>14. OneWriterInv(new, ss)
  BY <1>6, <1>11, <1>13 DEF OneWriterInv, InWork
<1>15. RunInv(new, ss, checkpoint')
  <2>1. ASSUME NEW d \in DataCells
        PROVE  /\ Covers(ss[d], checkpoint'[d].cursor)
               /\ AllBefore(stored[d], ss[d].served + 1)
    <3>1. /\ Covers(ss[d], checkpoint[d].cursor)
          /\ d # c => AllBefore(stored[d], ss[d].served + 1)
      BY <1>5, <1>6 DEF RunInv
    <3> QED
      BY <1>7, <1>8, <1>9, <3>1
  <2> QED
    BY <1>11, <2>1 DEF RunInv
<1>16. writer' = [writer EXCEPT !["run"] = new] /\ source' = [source EXCEPT !["run"] = ss]
  <2>1. writer' = [writer EXCEPT !["run"] = new]
    BY <1>1, <1>10 DEF CellComplete
  <2> QED
    BY <1>2, <1>5, <1>6, <2>1
<1> QED
  BY <1>4, <1>5, <1>6, <1>9, <1>11, <1>14, <1>15, <1>16, OneWriterMoves

LEMMA CatchUpCellKeeps == HistoryInv /\ CatchUpCell => HistoryInv'
<1> SUFFICES ASSUME HistoryInv, CatchUpCell PROVE HistoryInv'
  OBVIOUS
<1>1. PICK me : me = writer["catchUp"]
  OBVIOUS
<1>2. PICK ss : ss = source["catchUp"]
  OBVIOUS
<1>3. PICK c : c = InCell("catchUp")
  OBVIOUS
<1>4. PICK n : n = Newest(stored[c])
  OBVIOUS
<1>5. PICK t : t = BeginCatchUp(ss[c], n)
  OBVIOUS
<1>6. PICK tt : tt = [ss EXCEPT ![c] = t]
  OBVIOUS
<1>7. PICK new : new = PageFrom(me, n)
  OBVIOUS
<1>8. "catchUp" \in Writers /\ "catchUp" # "run"
  BY DEF Writers
<1>9. /\ me.at = "cell" /\ me.index <= Len(CellOrder)
      /\ UNCHANGED <<moment, malformed, durable>> /\ checkpoint' = checkpoint
      /\ writer' = [writer EXCEPT !["catchUp"] = new]
      /\ source' = [source EXCEPT !["catchUp"][c] = t]
  BY <1>1, <1>2, <1>3, <1>4, <1>5, <1>7 DEF CatchUpCell, At, durable
<1>10. /\ me \in WriterStates /\ ss \in [DataCells -> SourceStates] /\ WriterInv(me)
       /\ \A d \in DataCells : SourceInv(d, ss[d])
       /\ source \in [Writers -> [DataCells -> SourceStates]] /\ CatchUpInv(me)
  BY <1>1, <1>2, <1>8, InHandIs DEF HistoryInv
<1>11. c \in DataCells /\ c = CellOrder[me.index]
  <2>1. me.index \in 1..Len(CellOrder)
    BY <1>9, <1>10, CellsAre DEF WriterStates
  <2> QED
    BY <1>1, <1>3, <2>1, CellsAre DEF InCell
<1>12. n \in Nat /\ AllBefore(stored[c], n + 1)
  BY <1>4, <1>11, FrontierIsStored
<1>13. /\ t \in SourceStates /\ t.frontier = n /\ t.floor = n /\ t.served = 0
       /\ t.walked = FALSE /\ t.history = {}
  <2>1. ss[c] \in SourceStates
    BY <1>10, <1>11
  <2> QED
    BY <1>5, <1>12, <2>1 DEF BeginCatchUp, SourceStates
<1>14. /\ new \in WriterStates /\ new.at = "page" /\ new.cursor = n /\ new.next = 0
       /\ new.index = me.index /\ new.end = me.end /\ new.rows = me.rows
       /\ new.allWell = me.allWell /\ new.boundary = me.boundary
  BY <1>7, <1>10, <1>12, PageFromIs
<1>15. new.rows = {} /\ new.at \in InWork
  BY <1>9, <1>10, <1>14 DEF WriterInv, InWork
<1>16. WriterInv(new)
  BY <1>9, <1>10, <1>14, <1>15 DEF WriterInv, InWork
<1>17. CellInv(new, c, t)
  <2>1. stored[c] \cup new.rows = stored[c] /\ AllBefore(stored[c], 0 + 1)
    BY <1>15, NothingBeforeZero
  <2>2. Covers(t, n)
    <3>1. \A b \in Good : b \in Nat
      BY DEF Good, Bars
    <3> QED
      BY <1>12, <1>13, <3>1 DEF Covers
  <2> QED
    BY <1>13, <1>14, <1>15, <2>1, <2>2 DEF CellInv
<1>18. /\ tt \in [DataCells -> SourceStates] /\ tt[c] = t
       /\ \A d \in DataCells : d # c => tt[d] = ss[d]
  BY <1>6, <1>10, <1>11, <1>13
<1>19. \A d \in DataCells : SourceInv(d, tt[d])
  <2>1. SourceInv(c, t)
    BY <1>12, <1>13 DEF SourceInv
  <2> QED
    BY <1>10, <1>18, <2>1
<1>20. OneWriterInv(new, tt)
  BY <1>11, <1>14, <1>16, <1>17, <1>18, <1>19 DEF OneWriterInv
<1>21. CatchUpInv(new)
  BY <1>10, <1>14 DEF CatchUpInv
<1>22. source' = [source EXCEPT !["catchUp"] = tt]
  BY <1>2, <1>6, <1>8, <1>9, <1>10
<1>23. StoreInv' /\ UNCHANGED <<moment, malformed, stored>>
  BY <1>9, StoreStays DEF HistoryInv, durable
<1> QED
  BY <1>8, <1>9, <1>14, <1>18, <1>20, <1>21, <1>22, <1>23, OneWriterMoves

LEMMA CatchUpPageDoneKeeps == HistoryInv /\ CatchUpPageDone => HistoryInv'
<1> SUFFICES ASSUME HistoryInv, CatchUpPageDone PROVE HistoryInv'
  OBVIOUS
<1>1. PICK me : me = writer["catchUp"]
  OBVIOUS
<1>2. PICK c : c = InCell("catchUp")
  OBVIOUS
<1>3. PICK s : s = source["catchUp"][c]
  OBVIOUS
<1>4. "catchUp" \in Writers /\ "catchUp" # "run"
  BY DEF Writers
<1>5. /\ me.at \in {"ingest", "kept"} /\ me.at \in InWork
      /\ UNCHANGED <<moment, malformed, durable, source>>
  BY <1>1 DEF CatchUpPageDone, At, InWork
<1>6. /\ me \in WriterStates /\ WriterInv(me) /\ CellInv(me, c, s) /\ CatchUpInv(me)
      /\ c \in DataCells /\ c = CellOrder[me.index] /\ me.index \in 1..Len(CellOrder)
      /\ SourceInv(c, s) /\ s \in SourceStates /\ writer \in [Writers -> WriterStates]
  BY <1>1, <1>2, <1>3, <1>4, <1>5, InHandIs DEF HistoryInv
<1>7. me.next \in Nat /\ Covers(s, me.next) /\ me.rows = {}
  BY <1>1, <1>5, <1>6 DEF CellInv, WriterStates, WriterInv, CatchUpPageDone, At
<1>8. AllBefore(stored[c], me.next) /\ AllBefore(stored[c], s.served + 1)
  BY <1>6, <1>7, CoveredIsStored
<1>9. CASE me.at = "kept"
  <2>1. PICK new : new = PageFrom(me, me.next)
    OBVIOUS
  <2>2. writer' = [writer EXCEPT !["catchUp"] = new]
    BY <1>1, <1>9, <2>1 DEF CatchUpPageDone, At
  <2>3. /\ new \in WriterStates /\ new.at = "page" /\ new.cursor = me.next
        /\ new.index = me.index /\ new.end = me.end /\ new.rows = me.rows
        /\ new.allWell = me.allWell /\ new.boundary = me.boundary
    <3>1. me \in WriterStates /\ me.next \in Nat
      BY <1>6, <1>7
    <3> QED
      BY <2>1, <3>1, PageFromIs
  <2>4. WriterInv(new)
    BY <1>5, <1>6, <1>7, <2>3 DEF WriterInv, InWork
  <2>5. CellInv(new, c, s)
    <3>1. stored[c] \cup new.rows = stored[c]
      BY <1>7, <2>3
    <3> QED
      BY <1>7, <1>8, <2>3, <3>1 DEF CellInv
  <2>6. CatchUpInv(new)
    BY <1>6, <1>9, <2>3 DEF CatchUpInv
  <2> QED
    BY <1>3, <1>4, <1>5, <1>6, <2>2, <2>3, <2>4, <2>5, <2>6, PlaceMoves
<1>10. CASE me.at = "ingest"
  <2>1. PICK new : new = [me EXCEPT !.at = "next"]
    OBVIOUS
  <2>2. writer' = [writer EXCEPT !["catchUp"] = new]
    BY <1>1, <1>4, <1>6, <1>10, <2>1 DEF CatchUpPageDone, At, Goes
  <2>3. /\ new \in WriterStates /\ new.at = "next"
        /\ new.index = me.index /\ new.end = me.end /\ new.rows = me.rows
        /\ new.allWell = me.allWell /\ new.boundary = me.boundary
    BY <1>6, <2>1 DEF WriterStates, InWork
  <2>4. new.at \notin InWork
    BY <2>3 DEF InWork
  <2>5. WriterInv(new)
    BY <1>5, <1>6, <1>7, <2>3 DEF WriterInv, InWork
  <2>6. AllBefore(stored[c], me.end)
    BY <1>6, <1>7, <1>8, <1>10 DEF WriterInv
  <2>7. CatchUpInv(new)
    <3>1. ASSUME new.allWell, NEW j \in 1..Len(CellOrder),
                 j < new.index \/ (j = new.index /\ new.at = "next")
          PROVE  AllBefore(stored[CellOrder[j]], new.end)
      BY <1>6, <2>3, <2>6, <3>1 DEF CatchUpInv
    <3> QED
      BY <1>6, <2>3, <3>1 DEF CatchUpInv
  <2> QED
    BY <1>4, <1>5, <2>2, <2>3, <2>4, <2>5, <2>7, PlaceMoves
<1> QED
  BY <1>5, <1>9, <1>10

LEMMA CatchUpGoesOnKeeps ==
  HistoryInv /\ (CatchUpDue \/ CatchUpNextCell \/ CatchUpEnds) => HistoryInv'
<1> SUFFICES ASSUME HistoryInv, CatchUpDue \/ CatchUpNextCell \/ CatchUpEnds PROVE HistoryInv'
  OBVIOUS
<1>1. PICK me : me = writer["catchUp"]
  OBVIOUS
<1>2. "catchUp" \in Writers /\ "catchUp" # "run"
  BY DEF Writers
<1>3. UNCHANGED <<moment, malformed, durable, source>>
  BY DEF CatchUpDue, CatchUpNextCell, CatchUpEnds
<1>4. /\ me \in WriterStates /\ WriterInv(me) /\ CatchUpInv(me) /\ moment \in Nat
      /\ Len(CellOrder) \in Nat
  BY <1>1, <1>2, InHandIs, CellsAre DEF HistoryInv, StoreInv
<1>5. CASE CatchUpDue
  <2>1. PICK new : new = [me EXCEPT !.at = "cell", !.end = moment]
    OBVIOUS
  <2>2. me.at = "rest" /\ writer' = [writer EXCEPT !["catchUp"] = new]
    BY <1>1, <1>5, <2>1 DEF CatchUpDue
  <2>3. /\ new \in WriterStates /\ new.at = "cell" /\ new.end = moment
        /\ new.index = me.index /\ new.rows = me.rows
        /\ new.allWell = me.allWell /\ new.boundary = me.boundary
    BY <1>4, <2>1 DEF WriterStates, InWork
  <2>4. new.index = 1 /\ new.rows = {}
    BY <1>4, <2>2, <2>3 DEF WriterInv
  <2>5. WriterInv(new)
    BY <1>4, <2>3, <2>4 DEF WriterInv, InWork
  <2>6. CatchUpInv(new)
    BY <1>4, <2>3, <2>4 DEF CatchUpInv
  <2> QED
    BY <1>2, <1>3, <2>2, <2>3, <2>5, <2>6, PlaceMoves DEF InWork
<1>6. CASE CatchUpNextCell
  <2>1. PICK moved : moved = NextCell(me)
    OBVIOUS
  <2>2. PICK new : new = Cleared(moved)
    OBVIOUS
  <2>3. /\ me.at = "next" /\ me.index <= Len(CellOrder)
        /\ writer' = [writer EXCEPT !["catchUp"] = new]
    BY <1>1, <1>6, <2>1, <2>2 DEF CatchUpNextCell, At
  <2>4. /\ moved \in WriterStates /\ moved.at = "cell" /\ moved.index = me.index + 1
        /\ moved.end = me.end /\ moved.rows = me.rows
        /\ moved.allWell = me.allWell /\ moved.boundary = me.boundary
    BY <1>4, <2>1, NextCellIs
  <2>5. /\ new \in WriterStates /\ new.at = moved.at /\ new.index = moved.index
        /\ new.end = moved.end /\ new.rows = moved.rows
        /\ new.allWell = moved.allWell /\ new.boundary = moved.boundary
    BY <2>2, <2>4 DEF Cleared, WriterStates
  <2>6. new.rows = {} /\ new.index <= Len(CellOrder) + 1 /\ me.index \in Nat /\ new.at = "cell"
    <3>1. me.rows = {} /\ me.index \in Nat
      BY <1>4, <2>3 DEF WriterInv, WriterStates
    <3>2. new.index = me.index + 1
      BY <2>4, <2>5
    <3> QED
      BY <1>4, <2>3, <2>4, <2>5, <3>1, <3>2
  <2>7. WriterInv(new)
    BY <1>4, <2>4, <2>5, <2>6 DEF WriterInv, InWork
  <2>8. \A j \in 1..Len(CellOrder) : j < new.index => j < me.index \/ (j = me.index /\ me.at = "next")
    BY <1>4, <2>3, <2>4, <2>5, <2>6
  <2>9. CatchUpInv(new)
    BY <1>4, <2>4, <2>5, <2>6, <2>8 DEF CatchUpInv
  <2> QED
    BY <1>2, <1>3, <2>3, <2>5, <2>6, <2>7, <2>9, PlaceMoves DEF InWork
<1>7. CASE CatchUpEnds
  <2>1. PICK reached : reached = IF me.allWell THEN me.end ELSE me.boundary
    OBVIOUS
  <2>2. PICK new : new = [Resting EXCEPT !.boundary = reached]
    OBVIOUS
  <2>3. me.index > Len(CellOrder) /\ writer' = [writer EXCEPT !["catchUp"] = new]
    BY <1>1, <1>7, <2>1, <2>2 DEF CatchUpEnds
  <2>4. reached \in Nat /\ me.index \in Nat
    BY <1>4, <2>1 DEF WriterStates
  <2>5. /\ new \in WriterStates /\ new.at = "rest" /\ new.end = 0 /\ new.boundary = reached
        /\ new.index = 1 /\ new.rows = {} /\ new.allWell
    BY <2>2, <2>4, RestIsSound DEF WriterStates
  <2>6. WriterInv(new)
    BY <1>4, <2>5 DEF WriterInv, InWork
  <2>7. ASSUME NEW c \in DataCells
        PROVE  AllBefore(stored[c], reached)
    <3>1. PICK j \in 1..Len(CellOrder) : CellOrder[j] = c
      BY CellsAre
    <3>2. j < me.index
      BY <1>4, <2>3, <2>4
    <3> QED
      BY <1>4, <2>1, <3>1, <3>2 DEF CatchUpInv
  <2>8. CatchUpInv(new)
    BY <1>4, <2>5, <2>7 DEF CatchUpInv
  <2> QED
    BY <1>2, <1>3, <2>3, <2>5, <2>6, <2>8, PlaceMoves DEF InWork
<1> QED
  BY <1>5, <1>6, <1>7

LEMMA ClockTickKeeps == HistoryInv /\ ClockTick => HistoryInv'
<1> SUFFICES ASSUME HistoryInv, ClockTick PROVE HistoryInv'
  OBVIOUS
<1>1. /\ moment' = moment + 1 /\ moment \in Nat
      /\ malformed' = malformed /\ stored' = stored /\ checkpoint' = checkpoint /\ mirror' = mirror
      /\ source' = source /\ writer' = writer
  BY DEF ClockTick, durable, HistoryInv, StoreInv
<1>2. Good' = Good /\ \A b \in Good : b \in Nat
  BY <1>1 DEF Good, Bars
<1>3. StoreInv'
  <2>1. stored \in [DataCells -> SUBSET Good]
    BY DEF HistoryInv, StoreInv
  <2>2. \A c \in DataCells : \A b \in stored[c] : b < moment + 1 /\ AllBefore(stored[c], b)
    BY <1>1, <1>2, <2>1 DEF HistoryInv, StoreInv
  <2>3. /\ mirror \in [DataCells -> Nat] /\ checkpoint \in [DataCells -> Checkpoints]
        /\ \A c \in DataCells : AllBefore(stored[c], checkpoint[c].cursor) /\ mirror[c] <= checkpoint[c].cursor
    BY DEF HistoryInv, StoreInv
  <2> QED
    BY <1>1, <1>2, <2>1, <2>2, <2>3 DEF StoreInv, AllBefore
<1>4. ASSUME NEW w \in Writers
      PROVE  OneWriterInv(writer[w], source[w])'
  <2>1. PICK x, ss : x = writer[w] /\ ss = source[w]
    OBVIOUS
  <2>2. OneWriterInv(x, ss) /\ x.end \in Nat
    BY <2>1 DEF HistoryInv, WriterStates
  <2>3. x.end <= moment + 1
    BY <1>1, <2>2 DEF OneWriterInv, WriterInv
  <2>4. OneWriterInv(x, ss)'
    BY <1>1, <1>2, <2>2, <2>3 DEF OneWriterInv, WriterInv, SourceInv, CellInv, AllBefore, Covers
  <2>5. x = writer'[w] /\ ss = source'[w]
    BY <1>1, <2>1
  <2> QED
    BY <2>4, <2>5 DEF OneWriterInv, WriterInv, SourceInv, CellInv, AllBefore, Covers
<1>5. RunInv(writer["run"], source["run"], checkpoint)'
  BY <1>1, <1>2 DEF HistoryInv, RunInv, AllBefore, Covers
<1>6. CatchUpInv(writer["catchUp"])'
  BY <1>1, <1>2 DEF HistoryInv, CatchUpInv, AllBefore
<1> QED
  BY <1>1, <1>3, <1>4, <1>5, <1>6 DEF HistoryInv

LEMMA HistoryStarts == BootstrapInit => HistoryInv
<1> SUFFICES ASSUME BootstrapInit PROVE HistoryInv
  OBVIOUS
<1>1. /\ moment = 2 /\ stored = [c \in DataCells |-> {}] /\ mirror = [c \in DataCells |-> 0]
      /\ checkpoint = [c \in DataCells |-> NoCheckpoint]
      /\ source = [w \in Writers |-> [c \in DataCells |-> FreshSource]]
      /\ writer = [w \in Writers |-> Resting]
  BY DEF BootstrapInit
<1>2. NoCheckpoint \in Checkpoints /\ NoCheckpoint.cursor = 0
  BY DEF NoCheckpoint, Checkpoints
<1>3. StoreInv
  BY <1>1, <1>2, NothingBeforeZero DEF StoreInv
<1>4. /\ writer \in [Writers -> WriterStates] /\ source \in [Writers -> [DataCells -> SourceStates]]
      /\ \A w \in Writers : writer[w] = Resting /\ \A c \in DataCells : source[w][c] = FreshSource
      /\ "run" \in Writers /\ "catchUp" \in Writers
  BY <1>1, RestIsSound, FreshIsSound DEF Writers
<1>5. \A w \in Writers : OneWriterInv(writer[w], source[w])
  <2>1. WriterInv(Resting)
    BY <1>1, RestIsSound, CellsAre DEF WriterInv, InWork
  <2>2. AllBefore({}, 0 + 1)
    BY NothingBeforeZero
  <2>3. \A c \in DataCells : SourceInv(c, FreshSource)
    BY <1>1, <2>2, FreshIsSound DEF SourceInv
  <2>4. Resting.at \notin InWork
    BY RestIsSound DEF InWork
  <2> QED
    BY <1>4, <2>1, <2>3, <2>4 DEF OneWriterInv
<1>6. RunInv(writer["run"], source["run"], checkpoint)
  BY <1>4, RestIsSound DEF RunInv
<1>7. CatchUpInv(writer["catchUp"])
  BY <1>1, <1>4, RestIsSound, NothingBeforeZero, CellsAre DEF CatchUpInv
<1> QED
  BY <1>3, <1>4, <1>5, <1>6, <1>7 DEF HistoryInv

LEMMA HistoryInvIsEnough == HistoryInv => HistoryIsWhole
<1> SUFFICES ASSUME HistoryInv, NEW c \in DataCells
             PROVE  /\ stored[c] = ClosedBy(Newest(stored[c]) + 1) \ malformed
                    /\ stored[c] \subseteq ClosedBy(moment)
                    /\ checkpoint[c].status = "COMPLETE" =>
                         ClosedBy(checkpoint[c].cursor) \ malformed \subseteq stored[c]
                    /\ ClosedBy(writer["catchUp"].boundary) \ malformed \subseteq stored[c]
                    /\ mirror[c] <= checkpoint[c].cursor
  BY DEF HistoryIsWhole
<1>1. \A b \in Good : b \in Nat /\ b \in Bars /\ b \notin malformed
  BY DEF Good, Bars
<1>2. /\ stored[c] \in SUBSET Good /\ moment \in Nat
      /\ \A b \in stored[c] : b < moment
      /\ AllBefore(stored[c], checkpoint[c].cursor) /\ checkpoint[c].cursor \in Nat
      /\ mirror[c] <= checkpoint[c].cursor
  BY DEF HistoryInv, StoreInv, Checkpoints
<1>3. PICK n : n = Newest(stored[c])
  OBVIOUS
<1>4. n \in Nat /\ AllBefore(stored[c], n + 1) /\ \A b \in stored[c] : b <= n
  <2>1. stored[c] \in SUBSET Bars
    BY <1>1, <1>2
  <2> QED
    BY <1>3, <2>1, FrontierIsStored, NewestIs
\* What closed by a moment and is well formed opened before it.
<1>5. ASSUME NEW m \in Nat, NEW b \in ClosedBy(m) \ malformed
      PROVE  b \in Good /\ b < m
  BY DEF ClosedBy, Good, Bars
<1>6. stored[c] = ClosedBy(n + 1) \ malformed
  <2>1. ASSUME NEW b \in stored[c] PROVE b \in ClosedBy(n + 1) \ malformed
    BY <1>1, <1>2, <1>4, <2>1 DEF ClosedBy
  <2>2. ASSUME NEW b \in ClosedBy(n + 1) \ malformed PROVE b \in stored[c]
    <3>1. n + 1 \in Nat
      BY <1>4
    <3> QED
      BY <1>4, <1>5, <3>1 DEF AllBefore
  <2> QED
    BY <2>1, <2>2
<1>7. stored[c] \subseteq ClosedBy(moment)
  BY <1>1, <1>2 DEF ClosedBy
<1>8. ClosedBy(checkpoint[c].cursor) \ malformed \subseteq stored[c]
  BY <1>2, <1>5 DEF AllBefore
<1>9. ClosedBy(writer["catchUp"].boundary) \ malformed \subseteq stored[c]
  <2>1. writer["catchUp"].boundary \in Nat
    BY DEF HistoryInv, WriterStates, Writers
  <2>2. AllBefore(stored[c], writer["catchUp"].boundary)
    BY DEF HistoryInv, CatchUpInv
  <2> QED
    BY <1>5, <2>1, <2>2 DEF AllBefore
<1> QED
  BY <1>2, <1>3, <1>6, <1>7, <1>8, <1>9

\* However the bootstrap run and the catch-up interleave, whichever page fails
\* and whichever process dies, the history of a cell has no hole, holds nothing
\* that has not closed, and everything a COMPLETE row or a boundary claims: for
\* every set of cells, page limit, budget and bounds on the clock and the faults
\* (src/apex/ops/bootstrap_service.py, src/apex/research/bootstrap.py,
\* src/apex/research/checkpoints.py).
THEOREM HistoryStaysWhole == BootstrapSpec => []HistoryIsWhole
<1>1. HistoryInv /\ [BootstrapNext]_bootstrapVars => HistoryInv'
  <2> SUFFICES ASSUME HistoryInv, [BootstrapNext]_bootstrapVars PROVE HistoryInv'
    OBVIOUS
  <2>1. CASE UNCHANGED bootstrapVars
    <3>1. /\ moment' = moment /\ malformed' = malformed /\ stored' = stored
          /\ checkpoint' = checkpoint /\ mirror' = mirror /\ source' = source /\ writer' = writer
      BY <2>1 DEF bootstrapVars
    <3>2. UNCHANGED <<moment, malformed, durable, source>> /\ "run" \in Writers
      BY <3>1 DEF durable, Writers
    <3>3. PICK me : me = writer["run"]
      OBVIOUS
    <3>4. me \in WriterStates /\ writer' = [writer EXCEPT !["run"] = me] /\ WriterInv(me)
      BY <3>1, <3>2, <3>3, InHandIs DEF HistoryInv
    <3>5. me.at \in InWork => CellInv(me, CellOrder[me.index], source["run"][CellOrder[me.index]])
      BY <3>2, <3>3 DEF HistoryInv, OneWriterInv
    <3>6. RunInv(me, source["run"], checkpoint)
      BY <3>3 DEF HistoryInv
    <3> QED
      BY <3>2, <3>4, <3>5, <3>6, PlaceMoves
  <2>2. CASE BootstrapNext
    BY <2>2, FetchKeeps, WalkPageKeeps, IngestRowKeeps, DeathsKeep, CellFailsKeeps,
       RateLimitedKeeps, StartRunKeeps, RunSavesKeep, CellCompleteKeeps, CatchUpCellKeeps,
       CatchUpPageDoneKeeps, CatchUpGoesOnKeeps, ClockTickKeeps DEF BootstrapNext
  <2> QED
    BY <2>1, <2>2
<1> QED
  BY <1>1, HistoryStarts, HistoryInvIsEnough, PTL DEF BootstrapSpec
=============================================================================
