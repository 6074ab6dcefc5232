--------------------------- MODULE ServeLoopProofs ----------------------------
(***************************************************************************)
(* Proofs about ServeLoop, for every set of chats and cells, every level,  *)
(* any number of updates, repetitions, closes and restarts.                *)
(***************************************************************************)
EXTENDS ServeLoop, FiniteSetTheorems, SequenceTheorems, TLAPS

Updates == [id : Ids, chat : Chats, body : Bodies]

-----------------------------------------------------------------------------
\* Type correctness but for the number of confirmations, whose bound needs the
\* replay argument below.

\* What a handler may make of the variables of the control plane.
SaneControl ==
  /\ level \in Levels \cup {0}
  /\ paused \in BOOLEAN /\ newDisabled \in BOOLEAN /\ safeMode \in BOOLEAN
  /\ locked \in BOOLEAN
  /\ seen \in Seq(Ids) /\ Len(seen) <= DedupSize
  /\ ran \in [Ids -> Nat]

\* What the loop keeps outside of the control plane and the cells.
SaneLoop ==
  /\ inbox \in Seq(Updates) /\ batch \in Seq(Updates)
  /\ sent \in 0..MaxUpdates /\ offset \in 0..(MaxUpdates + 1)
  /\ bar \in {"none", "new", "current"}
  /\ at \in Places
  /\ proc \in {"up", "raised", "down"} /\ restarts \in 0..MaxRestarts

\* UpdateDeduplicator.record: the table keeps its bound, gains the id at its
\* end and loses at most its first entry.
LEMMA RecordedIsBounded ==
  ASSUME SaneControl, NEW u \in Updates
  PROVE  /\ Recorded(u) \in Seq(Ids) /\ Len(Recorded(u)) <= DedupSize
         /\ Len(Recorded(u)) > 0 /\ Recorded(u)[Len(Recorded(u))] = u.id
         /\ \E cut \in {0, 1} :
              /\ Len(Recorded(u)) = Len(seen) - cut + 1
              /\ cut = 1 => Len(seen) = DedupSize
              /\ \A j \in 1..(Len(seen) - cut) : Recorded(u)[j] = seen[j + cut]
<1> USE ControlAssumption
<1>1. u.id \in Ids
  BY DEF Updates
<1>2. CASE Len(seen) < DedupSize
  BY <1>1, <1>2 DEF Recorded, SaneControl
<1>3. CASE ~(Len(seen) < DedupSize)
  <2>1. seen # <<>> /\ Len(seen) = DedupSize
    BY <1>3 DEF SaneControl
  <2>2. Tail(seen) \in Seq(Ids) /\ Len(Tail(seen)) = Len(seen) - 1
        /\ \A j \in 1..(Len(seen) - 1) : Tail(seen)[j] = seen[j + 1]
    BY <2>1 DEF SaneControl
  <2> QED
    BY <1>1, <1>3, <2>1, <2>2 DEF Recorded, SaneControl
<1> QED
  BY <1>2, <1>3

\* A handler leaves the control plane sane.
LEMMA HandlersAreSane ==
  ASSUME SaneControl, nonces \subseteq Nonces, NEW u \in Updates, HandleUpdate(u)
  PROVE  SaneControl'
<1> USE ControlAssumption
<1>1. Recorded(u) \in Seq(Ids) /\ Len(Recorded(u)) <= DedupSize
  BY RecordedIsBounded
<1>2. u.id \in Ids /\ u.body \in Bodies
  BY DEF Updates
<1>3. ASSUME Executed(u)
      PROVE  seen' \in Seq(Ids) /\ Len(seen') <= DedupSize /\ ran' \in [Ids -> Nat]
  BY <1>1, <1>2, <1>3 DEF Executed, SaneControl
<1>4. CASE Skipped(u)
  BY <1>1, <1>4 DEF Skipped, SaneControl, emergency, flags
<1>5. CASE AskLevel(u)
  <2>1. u.body.level \in Levels
    BY <1>2, <1>5 DEF AskLevel, Served, Bodies
  <2> QED
    BY <1>3, <1>5, <2>1 DEF AskLevel, SaneControl, emergency, flags
<1>6. CASE Confirm(u)
  <2>1. ASSUME NEW n \in nonces
        PROVE  n.level \in Levels
    BY <2>1 DEF Nonces
  <2> QED
    BY <1>3, <1>6, <2>1 DEF Confirm, Effect, SaneControl, flags
<1>7. CASE Recover(u)
  BY <1>3, <1>7 DEF Recover, SaneControl, flags
<1>8. CASE Lock(u) \/ Unlock(u)
  BY <1>3, <1>8 DEF Lock, Unlock, SaneControl, emergency, flags
<1>9. CASE Word(u) \/ Other(u)
  BY <1>3, <1>9 DEF Word, Other, SaneControl, emergency, flags
<1> QED
  BY <1>4, <1>5, <1>6, <1>7, <1>8, <1>9 DEF HandleUpdate

-----------------------------------------------------------------------------
\* Repeated updates

\* poll holds every update of the last poll; what the table remembers of them
\* it remembers after everything older.
PollWindow(poll) ==
  /\ Cardinality(poll) <= DedupSize
  /\ \A k \in 1..Len(batch) : batch[k].id \in poll
  /\ \A j, k \in 1..Len(seen) : j < k /\ seen[j] \in poll => seen[k] \in poll

\* ExecutedOnce and what makes it inductive: what was executed lies below the
\* offset, and as long as its repetition may still come up it is remembered,
\* because the table only loses entries that are older than the last poll.
ReplayInv ==
  /\ ExecutedOnce
  /\ \A i \in Ids : ran[i] > 0 => i < offset
  /\ \A j \in 1..Len(seen) : seen[j] < offset
  /\ \A j, k \in 1..Len(seen) : seen[j] = seen[k] => j = k
  /\ \A k \in 1..Len(batch) : ran[batch[k].id] > 0 => Contains(seen, batch[k].id)
  /\ \E poll \in SUBSET Ids : PollWindow(poll)

\* An update is answered from the record, recorded without being executed, or
\* executed and recorded.
LEMMA HandlersRecord ==
  ASSUME NEW u, HandleUpdate(u)
  PROVE  \/ UNCHANGED <<seen, ran>>
         \/ /\ ~IsReplay(u) /\ seen' = Recorded(u)
            /\ ran' = ran \/ ran' = [ran EXCEPT ![u.id] = @ + 1]
<1> USE DEF Executed, Served
<1>1. CASE Skipped(u)
  BY <1>1 DEF Skipped
<1>2. CASE ~Skipped(u)
  BY <1>2 DEF HandleUpdate, AskLevel, Confirm, Recover, Lock, Unlock, Word, Other
<1> QED
  BY <1>1, <1>2

LEMMA IdsAreFinite ==
  ASSUME NEW S \in SUBSET Ids
  PROVE  IsFiniteSet(S) /\ Cardinality(S) \in Nat /\ Cardinality(S) <= MaxUpdates
<1>1. IsFiniteSet(Ids) /\ Cardinality(Ids) = MaxUpdates
  BY ControlAssumption, FS_Interval DEF Ids
<1> QED
  BY <1>1, FS_Subset, FS_CardinalityType

\* A full table that lacks one id of the poll still has an entry that is not of
\* the poll, and so its oldest entry is none.
LEMMA OldestIsOlderThanPoll ==
  ASSUME SaneControl, ReplayInv, NEW poll \in SUBSET Ids, PollWindow(poll),
         NEW i \in poll, ~Contains(seen, i), Len(seen) = DedupSize
  PROVE  seen[1] \notin poll
<1> SUFFICES ASSUME seen[1] \in poll PROVE FALSE
  OBVIOUS
<1> USE ControlAssumption
<1> DEFINE rest == poll \ {i}
           places == 1..Len(seen)
<1>1. Len(seen) \in Nat \ {0} /\ seen \in [places -> Ids]
  BY DEF SaneControl
<1>2. \A k \in places : seen[k] \in rest
  BY <1>1 DEF PollWindow, Contains
<1>3. IsFiniteSet(rest) /\ Cardinality(rest) = Cardinality(poll) - 1
      /\ Cardinality(poll) \in Nat /\ Cardinality(poll) <= DedupSize
  BY IdsAreFinite, FS_RemoveElement DEF PollWindow
<1>4. IsFiniteSet(places) /\ Cardinality(places) = Len(seen)
  BY <1>1, FS_Interval
<1>5. seen \in [places -> rest]
  BY <1>1, <1>2
<1>6. Cardinality(rest) < Cardinality(places)
  BY <1>1, <1>3, <1>4
<1>7. \E x, y \in places : x # y /\ seen[x] = seen[y]
  <2> HIDE DEF rest, places
  <2> QED
    BY <1>3, <1>4, <1>5, <1>6, FS_PigeonHole
<1> QED
  BY <1>7 DEF ReplayInv

\* One update handled: the offset passes it, and the table loses nothing that
\* may still come up.
LEMMA HandleKeepsReplay ==
  ASSUME SaneControl, SaneLoop, nonces \subseteq Nonces, ReplayInv, Handle
  PROVE  ReplayInv'
<1> USE ControlAssumption
<1> DEFINE u == Head(batch)
<1>1. /\ u = batch[1] /\ u \in Updates /\ u.id \in Ids /\ u.id \in Nat
      /\ batch' \in Seq(Updates) /\ Len(batch') = Len(batch) - 1
      /\ \A k \in 1..Len(batch') : batch'[k] = batch[k + 1]
      /\ Len(batch) \in Nat \ {0}
      /\ \A k \in 1..Len(batch) : batch[k].id \in Ids
  <2>1. batch \in Seq(Updates) /\ batch # <<>> /\ batch' = Tail(batch)
    BY DEF Handle, SaneLoop
  <2>2. \A v \in Updates : v.id \in Ids
    BY DEF Updates
  <2>3. /\ Len(batch) \in Nat \ {0} /\ u = batch[1]
        /\ \A k \in 1..Len(batch) : batch[k] \in Updates
    BY <2>1
  <2>4. /\ batch' \in Seq(Updates) /\ Len(batch') = Len(batch) - 1
        /\ \A k \in 1..Len(batch') : batch'[k] = batch[k + 1]
    BY <2>1, HeadTailProperties
  <2> QED
    BY <2>2, <2>3, <2>4 DEF Ids
<1>2. /\ offset \in Nat /\ offset' \in Nat /\ offset <= offset' /\ u.id < offset'
  BY <1>1 DEF Handle, SaneLoop
<1>3. SaneControl'
  BY <1>1, HandlersAreSane DEF Handle
<1>4. PICK poll \in SUBSET Ids : PollWindow(poll)
  BY DEF ReplayInv
<1>5. u.id \in poll
  BY <1>1, <1>4 DEF PollWindow
<1>8. \A k \in 1..Len(batch') : batch'[k].id \in poll
  <2>1. \A k \in 1..Len(batch') : k + 1 \in 1..Len(batch)
    BY <1>1
  <2> QED
    BY <1>1, <1>4, <2>1 DEF PollWindow
<1>6. CASE UNCHANGED <<seen, ran>>
  <2>1. PollWindow(poll)'
    BY <1>4, <1>6, <1>8 DEF PollWindow
  <2>2. ExecutedOnce'
    BY <1>6 DEF ReplayInv, ExecutedOnce
  <2>3. \A k \in 1..Len(batch') : ran'[batch'[k].id] > 0 => Contains(seen', batch'[k].id)
    BY <1>1, <1>6 DEF ReplayInv
  <2>4. /\ \A i \in Ids : ran'[i] > 0 => i < offset'
        /\ \A j \in 1..Len(seen') : seen'[j] < offset'
    <3>1. \A j \in 1..Len(seen) : seen[j] \in Nat
      BY DEF SaneControl, Ids
    <3> QED
      BY <1>2, <1>6, <3>1 DEF ReplayInv, Ids
  <2> QED
    BY <1>6, <2>1, <2>2, <2>3, <2>4 DEF ReplayInv
<1>7. CASE /\ ~IsReplay(u) /\ seen' = Recorded(u)
           /\ ran' = ran \/ ran' = [ran EXCEPT ![u.id] = @ + 1]
  <2>1. PICK cut \in {0, 1} :
          /\ Len(seen') = Len(seen) - cut + 1 /\ seen'[Len(seen')] = u.id
          /\ cut = 1 => Len(seen) = DedupSize
          /\ \A j \in 1..(Len(seen) - cut) : seen'[j] = seen[j + cut]
    BY <1>1, <1>7, RecordedIsBounded
  <2>2. /\ Len(seen) \in Nat /\ Len(seen') \in Nat
        /\ \A j \in 1..Len(seen) : seen[j] \in Ids /\ seen[j] # u.id
        /\ \A j \in 1..Len(seen') : seen'[j] \in Ids
    BY <1>3, <1>7 DEF SaneControl, IsReplay, Contains
  <2>3. cut = 1 => seen[1] \notin poll
    BY <1>4, <1>5, <1>7, <2>1, OldestIsOlderThanPoll DEF IsReplay
  <2>12. ASSUME NEW j \in 1..Len(seen')
         PROVE  \/ j = Len(seen') /\ seen'[j] = u.id
                \/ /\ j < Len(seen') /\ j + cut \in 1..Len(seen)
                   /\ seen'[j] = seen[j + cut]
    <3>1. CASE j = Len(seen')
      BY <2>1, <3>1
    <3>2. CASE j # Len(seen')
      <4>1. j \in 1..(Len(seen) - cut) /\ j < Len(seen')
        BY <2>1, <2>2, <3>2
      <4> QED
        BY <2>1, <2>2, <4>1
    <3> QED
      BY <3>1, <3>2
  <2>4. PollWindow(poll)'
    <3>1. ASSUME NEW j \in 1..Len(seen'), NEW k \in 1..Len(seen'), j < k, seen'[j] \in poll
          PROVE  seen'[k] \in poll
      <4>1. CASE k = Len(seen')
        BY <1>5, <2>1, <4>1
      <4>2. CASE k # Len(seen')
        <5>1. /\ j + cut \in 1..Len(seen) /\ seen'[j] = seen[j + cut]
              /\ k + cut \in 1..Len(seen) /\ seen'[k] = seen[k + cut]
              /\ j + cut < k + cut
          BY SMTT(30), <2>2, <2>12, <3>1, <4>2
        <5> QED
          BY <1>4, <3>1, <5>1 DEF PollWindow
      <4> QED
        BY <4>1, <4>2
    <3> QED
      BY <1>4, <1>8, <3>1 DEF PollWindow
  <2>5. ran[u.id] = 0
    BY <1>1, <1>7 DEF ReplayInv, IsReplay, SaneControl
  <2>6. ExecutedOnce'
    BY <1>1, <1>7, <2>5 DEF ReplayInv, ExecutedOnce, SaneControl
  <2>7. ASSUME NEW i \in Ids, ran'[i] > 0
        PROVE  i < offset'
    <3>1. i = u.id \/ ran[i] > 0
      BY <1>1, <1>7, <2>7 DEF SaneControl
    <3>2. i \in Nat
      BY DEF Ids
    <3> QED
      BY <1>2, <3>1, <3>2 DEF ReplayInv
  <2>8. ASSUME NEW j \in 1..Len(seen')
        PROVE  seen'[j] < offset'
    <3>1. \A k \in 1..Len(seen) : seen[k] \in Nat /\ seen[k] < offset
      BY <2>2 DEF ReplayInv, Ids
    <3> QED
      BY <1>2, <2>12, <3>1
  <2>9. ASSUME NEW j \in 1..Len(seen'), NEW k \in 1..Len(seen'), seen'[j] = seen'[k]
        PROVE  j = k
    <3>1. CASE j < Len(seen') /\ k < Len(seen')
      <4>1. j + cut = k + cut
        BY <2>9, <2>12, <3>1 DEF ReplayInv
      <4> QED
        BY <4>1
    <3>2. CASE ~(j < Len(seen') /\ k < Len(seen'))
      BY <2>2, <2>9, <2>12, <3>2
    <3> QED
      BY <3>1, <3>2
  <2>10. ASSUME NEW k \in 1..Len(batch'), ran'[batch'[k].id] > 0
         PROVE  Contains(seen', batch'[k].id)
    <3>1. CASE batch'[k].id = u.id
      BY <2>1, <2>2, <3>1 DEF Contains
    <3>2. CASE batch'[k].id # u.id
      <4>1. batch'[k] = batch[k + 1] /\ k + 1 \in 1..Len(batch)
        BY <1>1
      <4>2. ran[batch[k + 1].id] > 0
        BY <1>1, <1>7, <2>10, <3>2, <4>1 DEF SaneControl
      <4>3. PICK j \in 1..Len(seen) : seen[j] = batch[k + 1].id
        BY <4>1, <4>2 DEF ReplayInv, Contains
      <4>4. cut = 1 => j # 1
        BY <1>4, <2>3, <4>1, <4>3 DEF PollWindow
      <4>5. j - cut \in 1..(Len(seen) - cut) /\ seen'[j - cut] = seen[j]
        BY <2>1, <2>2, <4>4
      <4> QED
        <5>1. j - cut \in 1..Len(seen')
          BY <2>1, <2>2, <4>5
        <5> QED
          BY <4>1, <4>3, <4>5, <5>1 DEF Contains
    <3> QED
      BY <3>1, <3>2
  <2> QED
    BY <2>4, <2>6, <2>7, <2>8, <2>9, <2>10 DEF ReplayInv
<1> QED
  BY <1>6, <1>7, HandlersRecord DEF Handle

\* A poll returns updates at or above the offset, at most BatchLimit different
\* ones however often it repeats them; none of them was handled before.
LEMMA PollKeepsReplay ==
  ASSUME SaneControl, SaneLoop, ReplayInv, NEW repeats \in BOOLEAN, PollAnswered(repeats)
  PROVE  ReplayInv' /\ batch' \in Seq(Updates) /\ inbox' \in Seq(Updates)
<1> USE ControlAssumption, ServeAssumption
<1>1. PICK first \in 1..(Len(inbox) + 1) :
        /\ \A k \in DOMAIN inbox : inbox[k].id >= offset <=> k >= first
        /\ LET rest == SubSeq(inbox, first, Len(inbox))
               new == SubSeq(rest, 1, IF Len(rest) < BatchLimit THEN Len(rest)
                                      ELSE BatchLimit)
           IN  /\ inbox' = rest
               /\ batch' = IF repeats THEN new \o new ELSE new
  BY DEF PollAnswered
<1> DEFINE rest == SubSeq(inbox, first, Len(inbox))
           size == IF Len(rest) < BatchLimit THEN Len(rest) ELSE BatchLimit
           new == SubSeq(rest, 1, size)
           poll == {new[k].id : k \in 1..size}
<1>2. /\ Len(inbox) \in Nat /\ rest \in Seq(Updates) /\ Len(rest) \in Nat
      /\ Len(rest) = Len(inbox) - first + 1
      /\ \A k \in 1..Len(rest) : rest[k] = inbox[first + k - 1]
  BY SubSeqProperties DEF SaneLoop
<1>3. \A k \in 1..Len(rest) : rest[k] \in Updates /\ rest[k].id >= offset
  <2>1. ASSUME NEW k \in 1..Len(rest)
        PROVE  first + k - 1 \in 1..Len(inbox) /\ first + k - 1 >= first
    BY <1>2
  <2> QED
    BY <1>1, <1>2, <2>1 DEF SaneLoop
<1> HIDE DEF rest
<1>4. size \in Nat /\ size <= Len(rest) /\ size <= DedupSize
  BY <1>2
<1>5. /\ new \in Seq(Updates) /\ Len(new) = size
      /\ \A k \in 1..size : new[k] = rest[k]
  <2> HIDE DEF size
  <2>1. \A k \in 1..size : rest[k] \in Updates
    BY <1>3, <1>4
  <2> QED
    BY <1>4, <2>1, SubSeqProperties
<1> HIDE DEF size, new
<1>6. \A k \in 1..size : new[k] \in Updates /\ new[k].id \in Ids /\ new[k].id >= offset
  BY <1>2, <1>3, <1>4, <1>5 DEF Updates
<1>7. /\ batch' \in Seq(Updates)
      /\ \A k \in 1..Len(batch') : \E m \in 1..size : batch'[k] = new[m]
  <2>1. CASE repeats
    <3>1. batch' = new \o new
      BY <1>1, <2>1 DEF rest, size, new
    <3>2. /\ batch' \in Seq(Updates) /\ Len(batch') = size + size
          /\ \A k \in 1..(size + size) :
               batch'[k] = IF k <= size THEN new[k] ELSE new[k - size]
      BY ZenonT(40), <1>5, <3>1, ConcatProperties
    <3>3. \A k \in 1..(size + size) : k > size => k - size \in 1..size
      BY <1>4
    <3> QED
      BY <1>4, <3>2, <3>3
  <2>2. CASE ~repeats
    <3>1. batch' = new
      BY <1>1, <2>2 DEF rest, size, new
    <3> QED
      BY <1>5, <3>1
  <2> QED
    BY <2>1, <2>2
<1>8. \A k \in 1..Len(batch') : batch'[k].id \in poll /\ batch'[k].id >= offset
  BY <1>6, <1>7
<1>9. poll \in SUBSET Ids /\ Cardinality(poll) <= DedupSize
  <2>1. IsFiniteSet(1..size) /\ Cardinality(1..size) = size
    BY <1>4, FS_Interval
  <2>2. Cardinality(poll) <= size
    <3>1. [k \in 1..size |-> new[k].id] \in Surjection(1..size, poll)
      BY DEF Surjection
    <3> QED
      BY <2>1, <3>1, FS_Surjection
  <2>3. poll \in SUBSET Ids
    BY <1>6
  <2> QED
    BY <1>4, <2>2, <2>3, IdsAreFinite
<1>10. UNCHANGED <<seen, ran, offset>>
  BY DEF PollAnswered, control
<1>11. offset \in Nat /\ Len(seen) \in Nat /\ \A j \in 1..Len(seen) : seen[j] \in Nat
  BY SMTT(30) DEF SaneLoop, SaneControl, Ids
<1>12. \A j \in 1..Len(seen) : seen[j] \notin poll
  BY <1>6, <1>11 DEF ReplayInv, Ids
<1>13. \E p \in SUBSET Ids : PollWindow(p)'
  <2>1. PICK p \in SUBSET Ids : p = poll
    BY <1>9
  <2> HIDE DEF poll
  <2>2. PollWindow(p)'
    BY <1>8, <1>9, <1>10, <1>12, <2>1 DEF PollWindow
  <2> QED
    BY <2>2
<1>14. ASSUME NEW k \in 1..Len(batch')
       PROVE  ~(ran'[batch'[k].id] > 0)
  <2> HIDE DEF poll
  <2>1. PICK i \in Ids : i = batch'[k].id
    BY <1>8, <1>9
  <2>2. i \in Nat /\ i >= offset
    BY <1>8, <2>1 DEF Ids
  <2>3. ~(ran[i] > 0)
    BY <1>11, <2>2 DEF ReplayInv
  <2> QED
    BY <1>10, <2>1, <2>3
<1>15. inbox' \in Seq(Updates)
  BY <1>1, <1>2 DEF rest
<1> QED
  BY <1>7, <1>9, <1>10, <1>13, <1>14, <1>15 DEF ReplayInv, ExecutedOnce

-----------------------------------------------------------------------------
\* The cycle

Busy == InState("executing") \cup InState("complete")

\* The slots taken cover the requests on their way and submitted; a settled
\* cell whose sources were fresh is decided; what is decided lies below the
\* cursor or is this cycle's and still to be recorded; what is due is not yet
\* decided.
CellsInv ==
  /\ CycleTypeOK
  /\ Cardinality(Busy) <= taken
  /\ \A c \in Cells : run[c] \in Settled /\ c \notin failed => <<c, moment[c]>> \in decided
  /\ \A c \in Cells, m \in Closes :
       <<c, m>> \in decided =>
         m <= cursor[c] \/ (m = moment[c] /\ c \in Recordable \ recorded)
  /\ \A c \in recorded : run[c] \in Settled
  /\ \A c \in Cells : run[c] = "due" => moment[c] > cursor[c]

\* Until its cells run a cycle has nothing to record, and when it has left the
\* cursor nothing waits to be recorded.
RecordedInv ==
  /\ at \in {"poll", "updates", "select"} => recorded = {} /\ Recordable = {}
  /\ at \in {"manage", "top"} => Recordable \subseteq recorded

LEMMA CellSetsAreFinite ==
  ASSUME NEW S \in SUBSET Cells
  PROVE  IsFiniteSet(S) /\ Cardinality(S) \in Nat
BY CycleAssumption, FS_Subset, FS_CardinalityType

\* A cycle begins when everything decided has been recorded.
LEMMA BeginKeepsCells ==
  ASSUME CellsInv, Recordable \subseteq recorded, NEW stale \in SUBSET Cells,
         BeginCycle(stale)
  PROVE  CellsInv' /\ Recordable' = {}
<1> USE DEF BeginCycle, RunStates, Settled
<1>1. CycleTypeOK'
  BY CycleAssumption DEF CellsInv, CycleTypeOK
<1>2. Busy' = {} /\ Recordable' = {} /\ \A c \in Cells : run'[c] = "none"
  BY DEF Busy, InState, Recordable
<1>3. Cardinality(Busy') <= taken'
  BY <1>2, FS_EmptySet
<1>4. ASSUME NEW c \in Cells, NEW m \in Closes, <<c, m>> \in decided'
      PROVE  m <= cursor'[c]
  BY <1>4 DEF CellsInv
<1> QED
  BY <1>1, <1>2, <1>3, <1>4 DEF CellsInv

LEMMA SelectKeepsCells ==
  ASSUME CellsInv, recorded = {}, Recordable = {}, NEW unprepared \in SUBSET Cells,
         SelectDue(unprepared)
  PROVE  CellsInv'
<1> USE DEF SelectDue, NotYetDecided, RunStates, Settled
<1>1. CycleTypeOK'
  BY DEF CellsInv, CycleTypeOK
<1>2. Busy' = {} /\ \A c \in Cells : run'[c] \in {"due", "none"}
  BY DEF Busy, InState
<1>3. Cardinality(Busy') <= taken'
  <2>1. Cardinality(Busy') = 0
    BY <1>2, FS_EmptySet
  <2>2. taken' = taken /\ taken \in 0..MaxTrades
    BY DEF CellsInv, CycleTypeOK
  <2> QED
    BY <2>1, <2>2, CycleAssumption
<1>4. ASSUME NEW c \in Cells, NEW m \in Closes, <<c, m>> \in decided'
      PROVE  m <= cursor'[c]
  BY <1>4 DEF CellsInv
<1>5. \A c \in Cells : run'[c] = "due" => moment'[c] > cursor'[c]
  OBVIOUS
<1> QED
  BY <1>1, <1>2, <1>3, <1>4, <1>5 DEF CellsInv

\* A cell leaves a state and settles; nothing else of the cycle moves but the
\* slot it may give back.
LEMMA SettlingKeepsCells ==
  ASSUME CellsInv, NEW c \in Cells, NEW s \in Settled, Settle(c, s),
         run[c] \in {"running", "executing"},
         taken' \in 0..MaxTrades, Cardinality(Busy') <= taken',
         UNCHANGED <<close, cursor, drifting, moment, failed, recorded>>
  PROVE  CellsInv'
<1> USE DEF Settle, Settled, RunStates
<1>1. CycleTypeOK'
  BY DEF CellsInv, CycleTypeOK
<1>2. /\ run'[c] = s
      /\ \A d \in Cells \ {c} : run'[d] = run[d]
  BY DEF CellsInv, CycleTypeOK
<1>3. ASSUME NEW d \in Cells, run'[d] \in Settled, d \notin failed'
      PROVE  <<d, moment'[d]>> \in decided'
  BY <1>2, <1>3 DEF CellsInv
<1>4. ASSUME NEW d \in Cells, NEW m \in Closes, <<d, m>> \in decided'
      PROVE  m <= cursor'[d] \/ (m = moment'[d] /\ d \in Recordable' \ recorded')
  <2>1. CASE <<d, m>> \in decided
    BY <1>2, <1>4, <2>1 DEF CellsInv, Recordable, Decides
  <2>2. CASE <<d, m>> \notin decided
    <3>1. d = c /\ m = moment[c] /\ c \notin failed
      BY <1>4, <2>2
    <3>2. c \notin recorded
      BY DEF CellsInv
    <3> QED
      BY <1>2, <3>1, <3>2 DEF Recordable, Decides
  <2> QED
    BY <2>1, <2>2
<1>5. \A d \in Cells : run'[d] = "due" => moment'[d] > cursor'[d]
  BY <1>2 DEF CellsInv
<1>6. \A d \in recorded' : run'[d] \in Settled
  BY <1>2 DEF CellsInv, CycleTypeOK
<1> QED
  BY <1>1, <1>3, <1>4, <1>5, <1>6 DEF CellsInv

\* A cell that starts takes no slot; one that is admitted takes the one it
\* occupies; one that ends gives back at most its own.
LEMMA CellStepKeepsCells ==
  ASSUME CellsInv, NEW c \in Cells, CellRunStep(c)
  PROVE  CellsInv'
<1>1. /\ Busy \in SUBSET Cells /\ IsFiniteSet(Busy) /\ Cardinality(Busy) \in Nat
      /\ taken \in Nat /\ taken <= MaxTrades /\ Cardinality(Busy) <= taken
      /\ MaxTrades \in Nat
  BY CellSetsAreFinite, CycleAssumption DEF Busy, InState, CellsInv, CycleTypeOK
<1>2. ASSUME NEW s, run' = [run EXCEPT ![c] = s]
      PROVE  /\ run'[c] = s /\ \A d \in Cells \ {c} : run'[d] = run[d]
             /\ s \in {"executing", "complete"} => Busy' = Busy \cup {c}
             /\ s \notin {"executing", "complete"} => Busy' = Busy \ {c}
  BY <1>2 DEF CellsInv, CycleTypeOK, Busy, InState
<1>3. CASE EnterCell(c)
  <2>1. run[c] = "due" /\ run' = [run EXCEPT ![c] = "running"]
    BY <1>3 DEF EnterCell
  <2>2. Busy' = Busy
    BY <1>2, <2>1 DEF Busy, InState
  <2>3. \A d \in Cells : run'[d] = IF d = c THEN "running" ELSE run[d]
    BY <1>2, <2>1
  <2>4. Recordable' = Recordable
    BY <1>3, <2>1, <2>3 DEF EnterCell, Recordable, Decides, Settled
  <2>5. CycleTypeOK'
    BY <1>3 DEF EnterCell, CellsInv, CycleTypeOK, RunStates
  <2>6. c \notin recorded
    BY <2>1 DEF CellsInv, Settled
  <2> QED
    BY <1>3, <2>2, <2>3, <2>4, <2>5, <2>6 DEF EnterCell, CellsInv, CycleTypeOK, Settled
<1>4. CASE BlockCell(c) \/ HaltCell(c)
  <2>1. PICK s \in {"blocked", "halted"} : Settle(c, s)
    BY <1>4 DEF BlockCell, HaltCell
  <2>2. Busy' = Busy \ {c}
    BY <1>2, <2>1 DEF Settle
  <2>3. Busy' = Busy
    BY <1>4, <2>2 DEF BlockCell, HaltCell, Busy, InState
  <2> QED
    BY <1>1, <1>4, <2>1, <2>3, SettlingKeepsCells DEF BlockCell, HaltCell, Settled
<1>5. CASE AdmitCell(c)
  <2>1. run[c] = "running" /\ run' = [run EXCEPT ![c] = "executing"]
    BY <1>5 DEF AdmitCell
  <2>2. taken' = taken + 1 /\ taken' <= MaxTrades
    BY <1>1, <1>5 DEF AdmitCell, TakeBudget
  <2>8. Busy' = Busy \cup {c}
    BY <2>1 DEF Busy, InState, CellsInv, CycleTypeOK
  <2>3. Cardinality(Busy') <= Cardinality(Busy) + 1
    BY <1>1, <2>8, FS_AddElement
  <2>4. Cardinality(Busy') <= taken'
    <3>1. IsFiniteSet(Busy') /\ Cardinality(Busy') \in Nat
      BY <1>1, <2>8, FS_AddElement, FS_CardinalityType
    <3> QED
      BY <1>1, <2>2, <2>3, <3>1
  <2>5. \A d \in Cells : run'[d] = IF d = c THEN "executing" ELSE run[d]
    BY <1>2, <2>1
  <2>6. Recordable' = Recordable /\ c \notin recorded
    BY <1>5, <2>1, <2>5 DEF AdmitCell, Recordable, Decides, Settled, CellsInv
  <2>7. CycleTypeOK'
    BY <1>1, <1>5, <2>2 DEF AdmitCell, CellsInv, CycleTypeOK, RunStates
  <2> QED
    BY <1>5, <2>4, <2>5, <2>6, <2>7 DEF AdmitCell, CellsInv, CycleTypeOK, Settled
<1>6. CASE FailCell(c)
  <2>1. Settle(c, "halted")
    BY <1>6 DEF FailCell
  <2>2. Busy' = Busy \ {c}
    BY <2>1 DEF Settle, Busy, InState, CellsInv, CycleTypeOK
  <2>3. Cardinality(Busy') <= Cardinality(Busy) /\ Cardinality(Busy') \in Nat
    BY <1>1, <2>2, CellSetsAreFinite, FS_Subset
  <2>4. Cardinality(Busy') <= taken
    BY <1>1, <2>3
  <2> QED
    BY <1>1, <1>6, <2>1, <2>4, SettlingKeepsCells DEF FailCell, Settled
<1>7. ASSUME NEW submitted \in BOOLEAN, FinishCell(c, submitted)
      PROVE  CellsInv'
  <2>1. c \in Busy /\ run[c] = "executing"
    BY <1>7 DEF FinishCell, Busy, InState
  <2>2. Cardinality(Busy) >= 1
    BY <1>1, <2>1, FS_EmptySet
  <2>3. CASE submitted
    <3>1. Settle(c, "complete") /\ taken' = taken
      BY <1>7, <2>3 DEF FinishCell
    <3>2. Busy' = Busy
      BY <2>1, <3>1 DEF Settle, Busy, InState, CellsInv, CycleTypeOK
    <3>3. taken' \in 0..MaxTrades /\ Cardinality(Busy') <= taken' /\ "complete" \in Settled
      BY <1>1, <3>1, <3>2 DEF Settled
    <3> QED
      BY <1>7, <2>1, <3>1, <3>3, SettlingKeepsCells DEF FinishCell
  <2>4. CASE ~submitted
    <3>1. Settle(c, "unsubmitted") /\ taken' = taken - 1
      BY <1>7, <2>4 DEF FinishCell
    <3>2. Busy' = Busy \ {c}
      BY <2>1, <3>1 DEF Settle, Busy, InState, CellsInv, CycleTypeOK
    <3>3. Cardinality(Busy') = Cardinality(Busy) - 1
      BY <1>1, <2>1, <3>2, FS_RemoveElement
    <3>4. taken' \in 0..MaxTrades /\ Cardinality(Busy') <= taken'
      BY <1>1, <2>2, <3>1, <3>3
    <3> QED
      BY <1>7, <2>1, <3>1, <3>4, SettlingKeepsCells DEF FinishCell, Settled
  <2> QED
    BY <2>3, <2>4
<1> QED
  BY <1>3, <1>4, <1>5, <1>6, <1>7 DEF CellRunStep

\* One cursor is written: what was decided in this cycle is below it now.
LEMMA RecordKeepsCells ==
  ASSUME CellsInv, NEW c \in Cells, RecordCursor(c)
  PROVE  CellsInv'
<1> USE DEF RecordCursor
<1>1. CycleTypeOK'
  BY DEF CellsInv, CycleTypeOK
<1>2. /\ cursor'[c] >= moment[c] /\ cursor'[c] >= cursor[c]
      /\ \A d \in Cells \ {c} : cursor'[d] = cursor[d]
      /\ \A d \in Cells : cursor[d] \in Nat /\ cursor'[d] \in Nat /\ moment[d] \in Nat
  BY CycleAssumption DEF CellsInv, CycleTypeOK, Closes
<1>3. Busy' = Busy /\ Recordable' = Recordable
  BY DEF Busy, InState, Recordable, Decides
<1>4. ASSUME NEW d \in Cells, NEW m \in Closes, <<d, m>> \in decided'
      PROVE  m <= cursor'[d] \/ (m = moment'[d] /\ d \in Recordable' \ recorded')
  <2>1. m \in Nat
    BY CycleAssumption DEF Closes
  <2>2. m <= cursor[d] \/ (m = moment[d] /\ d \in Recordable \ recorded)
    BY <1>4 DEF CellsInv
  <2> QED
    BY <1>2, <1>3, <2>1, <2>2
<1>5. \A d \in Cells : run'[d] = "due" => moment'[d] > cursor'[d]
  BY <1>2 DEF CellsInv, Recordable, Settled
<1>6. \A d \in recorded' : run'[d] \in Settled
  BY DEF CellsInv, Recordable
<1> QED
  BY <1>1, <1>3, <1>4, <1>5, <1>6 DEF CellsInv

\* The market moves on, or a new process has forgotten the cycle.
LEMMA CloseKeepsCells ==
  ASSUME CellsInv, NEW c \in Cells, BarCloses(c)
  PROVE  CellsInv' /\ Recordable' = Recordable
<1>1. CycleTypeOK'
  BY CycleAssumption DEF BarCloses, cycle, CellsInv, CycleTypeOK, Closes
<1>2. Busy' = Busy /\ Recordable' = Recordable
  BY DEF BarCloses, cycle, Busy, InState, Recordable, Decides
<1> QED
  BY <1>1, <1>2 DEF BarCloses, cycle, CellsInv

LEMMA IdleCells ==
  ASSUME CycleAssumption, close \in [Cells -> Closes], cursor \in [Cells -> Closes],
         IdleCycle, decided' = {}, drifting' \in BOOLEAN, UNCHANGED <<close, cursor>>
  PROVE  CellsInv' /\ Recordable' = {} /\ recorded' = {}
<1> USE DEF IdleCycle, RunStates, Settled
<1>1. CycleTypeOK'
  BY DEF CycleTypeOK, Closes
<1>2. Busy' = {} /\ Recordable' = {}
  BY DEF Busy, InState, Recordable
<1>3. Cardinality(Busy') <= taken'
  BY <1>2, FS_EmptySet
<1> QED
  BY <1>1, <1>2, <1>3 DEF CellsInv

-----------------------------------------------------------------------------
\* The inductive invariant of the loop

Executions == {i \in Ids : ran[i] > 0}

\* Every process executes an update at most once, and issues at most one
\* confirmation for it.
IssuedInv ==
  /\ nonces \subseteq Nonces /\ issued \in Nat
  /\ issued <= restarts * MaxUpdates + Cardinality(Executions)

ServeInv ==
  /\ SaneControl /\ SaneLoop
  /\ ReplayInv /\ IssuedInv
  /\ CellsInv /\ RecordedInv

LEMMA ProductsGrow ==
  ASSUME NEW m \in Nat, NEW r \in Nat, NEW n \in Nat, r <= n
  PROVE  r * m <= n * m /\ (r + 1) * m = r * m + m /\ r * m \in Nat
         /\ m * (n + 1) = n * m + m
<1>1. PICK d \in Nat : n = r + d
  BY n - r \in Nat
<1>2. n * m = r * m + d * m
  BY <1>1
<1>3. d * m \in Nat /\ r * m \in Nat /\ n * m \in Nat
  OBVIOUS
<1> QED
  BY <1>2, <1>3

\* The keys suffice.
LEMMA IssuedIsBounded ==
  ASSUME SaneLoop, IssuedInv
  PROVE  issued <= MaxNonces
<1> USE ControlAssumption, ServeAssumption
<1>1. Cardinality(Executions) \in Nat /\ Cardinality(Executions) <= MaxUpdates
  BY IdsAreFinite DEF Executions
<1>2. restarts \in Nat /\ restarts <= MaxRestarts
  BY DEF SaneLoop
<1>3. restarts * MaxUpdates <= MaxRestarts * MaxUpdates
      /\ MaxUpdates * (MaxRestarts + 1) = MaxRestarts * MaxUpdates + MaxUpdates
      /\ restarts * MaxUpdates \in Nat
  BY <1>2, ProductsGrow
<1> QED
  BY <1>1, <1>3 DEF IssuedInv

\* An update issues a confirmation only when it is executed, for the first time
\* in this process.
LEMMA HandleKeepsIssued ==
  ASSUME SaneControl, SaneLoop, ReplayInv, IssuedInv, Handle
  PROVE  IssuedInv'
<1> USE ControlAssumption, ServeAssumption
<1> DEFINE u == Head(batch)
<1>1. u \in Updates /\ u.id \in Ids /\ u.chat \in Chats /\ u.body \in Bodies /\ u = batch[1]
      /\ 1 \in 1..Len(batch)
  <2>1. batch \in Seq(Updates) /\ batch # <<>>
    BY DEF Handle, SaneLoop
  <2>2. u \in Updates /\ u = batch[1] /\ 1 \in 1..Len(batch)
    BY <2>1
  <2> QED
    BY <2>2 DEF Updates
<1>2. restarts' = restarts /\ restarts \in Nat /\ restarts <= MaxRestarts
  BY DEF Handle, SaneLoop
<1>3. Cardinality(Executions) \in Nat /\ IsFiniteSet(Executions)
  BY IdsAreFinite DEF Executions
<1>4. IsFiniteSet(Executions') /\ Cardinality(Executions') \in Nat
      /\ Cardinality(Executions') <= MaxUpdates
  BY IdsAreFinite DEF Executions
<1>5. restarts * MaxUpdates \in Nat
      /\ restarts * MaxUpdates <= MaxRestarts * MaxUpdates
      /\ MaxUpdates * (MaxRestarts + 1) = MaxRestarts * MaxUpdates + MaxUpdates
  BY <1>2, ProductsGrow
<1>6. ASSUME ~IsReplay(u), Executed(u)
      PROVE  Cardinality(Executions') = Cardinality(Executions) + 1
  <2>1. ran[u.id] = 0 /\ ran'[u.id] = 1
    <3>1. ~(ran[u.id] > 0)
      BY <1>1, <1>6 DEF ReplayInv, IsReplay
    <3> QED
      BY <1>1, <1>6, <3>1 DEF SaneControl, Executed
  <2>2. Executions' = Executions \cup {u.id} /\ u.id \notin Executions
    BY <1>1, <1>6, <2>1 DEF Executions, Executed, SaneControl
  <2> QED
    BY <1>3, <2>2, FS_AddElement
<1>7. Executions \subseteq Executions'
  <2>1. ran' = ran \/ ran' = [ran EXCEPT ![u.id] = @ + 1]
    BY HandlersRecord DEF Handle
  <2>2. \A i \in Ids : ran[i] \in Nat /\ (ran[i] > 0 => ran'[i] > 0)
    BY <1>1, <2>1 DEF SaneControl
  <2> QED
    BY <2>2 DEF Executions
<1>8. Cardinality(Executions) <= Cardinality(Executions')
  BY <1>4, <1>7, FS_Subset
<1>9. CASE issued' = issued /\ nonces' \subseteq Nonces
  BY <1>2, <1>3, <1>4, <1>5, <1>8, <1>9 DEF IssuedInv
<1>10. CASE AskLevel(u) /\ ~(issued' = issued)
  <2>1. /\ issued' = issued + 1 /\ ~IsReplay(u) /\ Executed(u)
        /\ nonces' = nonces \cup {[key |-> issued + 1, level |-> u.body.level,
                                   chat |-> u.chat, state |-> "fresh"]}
        /\ u.body.kind = "level"
    BY <1>10 DEF AskLevel, Served, emergency
  <2>2. issued' <= restarts * MaxUpdates + Cardinality(Executions')
    BY <1>3, <1>5, <1>6, <2>1 DEF IssuedInv
  <2>3. issued + 1 \in Keys
    BY <1>4, <1>5, <2>1, <2>2 DEF IssuedInv, Keys
  <2>4. u.body.level \in Levels
    BY <1>1, <2>1 DEF Bodies
  <2>5. nonces' \subseteq Nonces
    BY <1>1, <2>1, <2>3, <2>4 DEF Nonces, IssuedInv
  <2> QED
    BY <1>2, <2>1, <2>2, <2>5 DEF IssuedInv
<1>11. CASE Confirm(u)
  <2>1. \A n \in nonces : [n EXCEPT !.state = "consumed"] \in Nonces
    BY DEF IssuedInv, Nonces
  <2>2. issued' = issued /\ nonces' \subseteq Nonces
    BY <1>11, <2>1 DEF Confirm, Consume, IssuedInv
  <2> QED
    BY <1>9, <2>2
<1>12. CASE ~Confirm(u) /\ ~(AskLevel(u) /\ ~(issued' = issued))
  <2>1. issued' = issued /\ nonces' = nonces
    <3>1. CASE AskLevel(u)
      BY <1>12, <3>1 DEF AskLevel, emergency, IssuedInv
    <3>2. CASE ~AskLevel(u)
      BY <1>12, <3>2 DEF Handle, HandleUpdate, Skipped, AskLevel, Recover, Lock, Unlock, Word,
         Other, emergency
    <3> QED
      BY <3>1, <3>2
  <2> QED
    BY <1>9, <2>1 DEF IssuedInv
<1> QED
  BY <1>10, <1>11, <1>12

\* Steps that leave the control plane and the batch alone.
LEMMA ControlKept ==
  ASSUME ServeInv, UNCHANGED <<control, batch, offset, restarts>>
  PROVE  SaneControl' /\ ReplayInv' /\ IssuedInv'
<1> USE DEF control, emergency, flags
<1>1. SaneControl'
  BY DEF ServeInv, SaneControl
<1>2. ReplayInv'
  BY DEF ServeInv, ReplayInv, ExecutedOnce, PollWindow
<1>3. IssuedInv'
  BY DEF ServeInv, IssuedInv, Executions
<1> QED
  BY <1>1, <1>2, <1>3

\* Steps that leave the cells alone.
LEMMA CellsKept ==
  ASSUME ServeInv, UNCHANGED cells
  PROVE  CellsInv' /\ Recordable' = Recordable /\ recorded' = recorded
<1> USE DEF cells, cycle
<1>1. CycleTypeOK'
  BY DEF ServeInv, CellsInv, CycleTypeOK
<1>2. Busy' = Busy /\ Recordable' = Recordable
  BY DEF Busy, InState, Recordable, Decides
<1> QED
  BY <1>1, <1>2 DEF ServeInv, CellsInv

\* A new process: the flags and the cycle are forgotten, and its updates may
\* issue MaxUpdates confirmations more.
LEMMA RestartKeepsServe ==
  ASSUME ServeInv, Restart
  PROVE  ServeInv'
<1> USE ControlAssumption, ServeAssumption DEF ForgetProcess, ResetControl
<1>1. SaneControl'
  <2>1. seen' = <<>> /\ ran' = [i \in Ids |-> 0]
    BY DEF Restart
  <2>2. <<>> \in Seq(Ids) /\ Len(<<>>) <= DedupSize /\ [i \in Ids |-> 0] \in [Ids -> Nat]
    OBVIOUS
  <2>3. seen' \in Seq(Ids) /\ Len(seen') <= DedupSize /\ ran' \in [Ids -> Nat]
    BY <2>1, <2>2
  <2> QED
    BY <2>3 DEF Restart, SaneControl
<1>2. SaneLoop'
  BY DEF Restart, ServeInv, SaneLoop, Places, telegram
<1>3. ReplayInv'
  <2>1. seen' = <<>> /\ batch' = <<>> /\ ran' = [i \in Ids |-> 0] /\ offset' = 0
    BY DEF Restart
  <2>2. {} \in SUBSET Ids /\ Cardinality({}) = 0
    BY FS_EmptySet
  <2>3. \E poll \in SUBSET Ids : PollWindow(poll)'
    BY <2>1, <2>2 DEF PollWindow
  <2> QED
    BY <2>1, <2>3 DEF ReplayInv, ExecutedOnce, Contains
<1>4. IssuedInv'
  <2>1. Cardinality(Executions) \in Nat /\ Cardinality(Executions) <= MaxUpdates
    BY IdsAreFinite DEF Executions
  <2>2. Executions' = {} /\ Cardinality(Executions') = 0
    <3>1. ran' = [i \in Ids |-> 0]
      BY DEF Restart
    <3>2. Executions' = {}
      BY <3>1 DEF Executions
    <3> QED
      BY <3>2, FS_EmptySet
  <2>3. restarts' = restarts + 1 /\ restarts \in Nat
    BY DEF Restart, ServeInv, SaneLoop
  <2>4. (restarts + 1) * MaxUpdates = restarts * MaxUpdates + MaxUpdates
        /\ restarts * MaxUpdates \in Nat
    BY <2>3, ProductsGrow
  <2>5. issued \in Nat /\ issued <= restarts * MaxUpdates + Cardinality(Executions)
    BY DEF ServeInv, IssuedInv
  <2>6. issued' = issued /\ nonces' = {}
    BY DEF Restart
  <2>7. restarts' * MaxUpdates = restarts * MaxUpdates + MaxUpdates
    BY <2>3, <2>4
  <2>8. issued' <= restarts' * MaxUpdates + Cardinality(Executions')
    BY <2>1, <2>2, <2>4, <2>5, <2>6, <2>7
  <2> QED
    BY <2>5, <2>6, <2>8 DEF IssuedInv
<1>5. CellsInv' /\ RecordedInv'
  <2>1. close \in [Cells -> Closes] /\ cursor \in [Cells -> Closes]
    BY DEF ServeInv, CellsInv, CycleTypeOK
  <2>2. CellsInv' /\ Recordable' = {} /\ recorded' = {}
    BY <2>1, CycleAssumption, IdleCells DEF Restart
  <2> QED
    BY <2>2 DEF RecordedInv
<1> QED
  BY <1>1, <1>2, <1>3, <1>4, <1>5 DEF ServeInv

\* Every step keeps the invariant.
LEMMA ServeStep == ServeInv /\ [Next]_vars => ServeInv'
<1> SUFFICES ASSUME ServeInv, [Next]_vars PROVE ServeInv'
  OBVIOUS
<1> USE DEF Places, loop, telegram
<1>1. ASSUME NEW stale \in SUBSET Cells, Begin(stale)
      PROVE  ServeInv'
  <2>1. SaneControl' /\ ReplayInv' /\ IssuedInv'
    BY <1>1, ControlKept DEF Begin
  <2>2. SaneLoop'
    BY <1>1 DEF Begin, ServeInv, SaneLoop
  <2>3. CellsInv' /\ Recordable' = {}
    BY <1>1, BeginKeepsCells DEF Begin, ServeInv, RecordedInv
  <2>4. RecordedInv'
    BY <1>1, <2>3 DEF Begin, BeginCycle, RecordedInv
  <2> QED
    BY <2>1, <2>2, <2>3, <2>4 DEF ServeInv
<1>2. ASSUME NEW repeats \in BOOLEAN, PollAnswered(repeats)
      PROVE  ServeInv'
  <2>1. ReplayInv' /\ batch' \in Seq(Updates) /\ inbox' \in Seq(Updates)
    BY <1>2, PollKeepsReplay DEF ServeInv
  <2>2. SaneLoop'
    BY <1>2, <2>1 DEF PollAnswered, ServeInv, SaneLoop
  <2>3. SaneControl' /\ IssuedInv'
    BY <1>2 DEF PollAnswered, control, emergency, flags, ServeInv, SaneControl, IssuedInv,
       Executions
  <2>4. CellsInv' /\ RecordedInv'
    BY <1>2, CellsKept DEF PollAnswered, ServeInv, RecordedInv
  <2> QED
    BY <2>1, <2>2, <2>3, <2>4 DEF ServeInv
<1>3. CASE PollFails \/ UpdatesHandled \/ Gathered \/ CursorWritten \/ Manage
           \/ HandleRaises \/ BarTouches \/ Crash
  <2>1. UNCHANGED <<control, cells, telegram, offset, batch, restarts>>
    BY <1>3 DEF PollFails, UpdatesHandled, Gathered, CursorWritten, Manage, HandleRaises,
       BarTouches, Crash
  <2>2. SaneControl' /\ ReplayInv' /\ IssuedInv'
    BY <2>1, ControlKept
  <2>3. SaneLoop'
    BY <1>3, <2>1 DEF PollFails, UpdatesHandled, Gathered, CursorWritten, Manage,
       HandleRaises, BarTouches, Crash, ServeInv, SaneLoop
  <2>4. CellsInv' /\ Recordable' = Recordable /\ recorded' = recorded
    BY <2>1, CellsKept
  <2>5. RecordedInv'
    BY <1>3, <2>4 DEF PollFails, UpdatesHandled, Gathered, CursorWritten, Manage,
       HandleRaises, BarTouches, Crash, ServeInv, RecordedInv
  <2> QED
    BY <2>2, <2>3, <2>4, <2>5 DEF ServeInv
<1>4. CASE Handle
  <2>1. batch \in Seq(Updates) /\ batch # <<>>
    BY <1>4 DEF Handle, ServeInv, SaneLoop
  <2>2. Head(batch) \in Updates /\ batch' \in Seq(Updates) /\ Head(batch).id \in Ids
    <3>1. Head(batch) \in Updates /\ Tail(batch) \in Seq(Updates)
      BY <2>1, HeadTailProperties
    <3>2. Head(batch).id \in Ids
      BY <3>1 DEF Updates
    <3> QED
      BY <1>4, <3>1, <3>2 DEF Handle
  <2>3. SaneControl'
    BY <1>4, <2>2, HandlersAreSane DEF Handle, ServeInv, IssuedInv
  <2>4. ReplayInv' /\ IssuedInv'
    BY <1>4, HandleKeepsReplay, HandleKeepsIssued DEF ServeInv, IssuedInv
  <2>5. SaneLoop'
    BY <1>4, <2>2, ControlAssumption DEF Handle, ServeInv, SaneLoop, Ids
  <2>6. CellsInv' /\ RecordedInv'
    BY <1>4, CellsKept DEF Handle, ServeInv, RecordedInv
  <2> QED
    BY <2>3, <2>4, <2>5, <2>6 DEF ServeInv
<1>5. ASSUME NEW unprepared \in SUBSET Cells, Select(unprepared)
      PROVE  ServeInv'
  <2>1. SaneControl' /\ ReplayInv' /\ IssuedInv'
    BY <1>5, ControlKept DEF Select
  <2>2. SaneLoop'
    BY <1>5 DEF Select, ServeInv, SaneLoop
  <2>3. CellsInv'
    BY <1>5, SelectKeepsCells DEF Select, ServeInv, RecordedInv
  <2>4. RecordedInv'
    BY <1>5 DEF Select, RecordedInv
  <2> QED
    BY <2>1, <2>2, <2>3, <2>4 DEF ServeInv
<1>6. CASE RunCell \/ WriteCursor
  <2>1. at \in {"cells", "cursor"} /\ UNCHANGED <<control, telegram, loop, bar, proc, restarts>>
    BY <1>6 DEF RunCell, WriteCursor
  <2>2. SaneControl' /\ ReplayInv' /\ IssuedInv'
    BY <2>1, ControlKept
  <2>3. SaneLoop'
    BY <2>1 DEF ServeInv, SaneLoop
  <2>4. CellsInv'
    BY <1>6, CellStepKeepsCells, RecordKeepsCells DEF RunCell, WriteCursor, ServeInv
  <2>5. RecordedInv'
    BY <2>1 DEF RecordedInv
  <2> QED
    BY <2>2, <2>3, <2>4, <2>5 DEF ServeInv
<1>7. ASSUME NEW chat \in Chats, NEW body \in Bodies, Send(chat, body)
      PROVE  ServeInv'
  <2>1. SaneControl' /\ ReplayInv' /\ IssuedInv'
    BY <1>7, ControlKept DEF Send
  <2>2. sent + 1 \in Ids /\ sent' = sent + 1
    BY <1>7, ControlAssumption DEF Send, ServeInv, SaneLoop, Ids
  <2>3. [id |-> sent + 1, chat |-> chat, body |-> body] \in Updates
    BY <2>2 DEF Updates
  <2>4. SaneLoop'
    BY <1>7, <2>2, <2>3 DEF Send, ServeInv, SaneLoop, Ids
  <2>5. CellsInv' /\ RecordedInv'
    BY <1>7, CellsKept DEF Send, ServeInv, RecordedInv
  <2> QED
    BY <2>1, <2>4, <2>5 DEF ServeInv
<1>8. CASE NonceExpires
  <2>1. PICK n \in nonces : Expire(n)
    BY <1>8 DEF NonceExpires
  <2>2. [n EXCEPT !.state = "expired"] \in Nonces /\ n \in Nonces
    BY DEF ServeInv, IssuedInv, Nonces
  <2>3. UNCHANGED <<level, issued, flags, locked, seen, ran, cells, telegram, loop, bar, proc,
                    restarts>>
    BY <1>8, <2>1 DEF NonceExpires, Expire
  <2>4. SaneControl' /\ ReplayInv'
    BY <2>3 DEF flags, ServeInv, SaneControl, ReplayInv, ExecutedOnce, PollWindow
  <2>5. IssuedInv'
    BY <2>1, <2>2, <2>3 DEF Expire, ServeInv, IssuedInv, Executions
  <2>6. SaneLoop'
    BY <2>3 DEF ServeInv, SaneLoop
  <2>7. CellsInv' /\ RecordedInv'
    BY <2>3, CellsKept DEF ServeInv, RecordedInv
  <2> QED
    BY <2>4, <2>5, <2>6, <2>7 DEF ServeInv
<1>9. ASSUME NEW c \in Cells, MarketCloses(c)
      PROVE  ServeInv'
  <2>1. SaneControl' /\ ReplayInv' /\ IssuedInv'
    BY <1>9, ControlKept DEF MarketCloses
  <2>2. SaneLoop'
    BY <1>9 DEF MarketCloses, ServeInv, SaneLoop
  <2>3. CellsInv' /\ Recordable' = Recordable /\ recorded' = recorded
    BY <1>9, CloseKeepsCells DEF MarketCloses, ServeInv, BarCloses, cycle
  <2>4. RecordedInv'
    BY <1>9, <2>3 DEF MarketCloses, ServeInv, RecordedInv
  <2> QED
    BY <2>1, <2>2, <2>3, <2>4 DEF ServeInv
<1>10. CASE Restart
  BY <1>10, RestartKeepsServe
<1>11. CASE UNCHANGED vars
  <2>1. SaneControl' /\ ReplayInv' /\ IssuedInv'
    BY <1>11, ControlKept DEF vars
  <2>2. SaneLoop' /\ CellsInv' /\ RecordedInv'
    BY <1>11, CellsKept DEF vars, ServeInv, SaneLoop, RecordedInv
  <2> QED
    BY <2>1, <2>2 DEF ServeInv
<1> QED
  BY <1>1, <1>2, <1>3, <1>4, <1>5, <1>6, <1>7, <1>8, <1>9, <1>10, <1>11 DEF Next, LoopStep

LEMMA ServeInitially == Init => ServeInv
<1> SUFFICES ASSUME Init PROVE ServeInv
  OBVIOUS
<1> USE ControlAssumption, CycleAssumption, ServeAssumption
        DEF Init, ControlInit, CycleInit
<1>1. SaneControl /\ SaneLoop
  <2>1. <<>> \in Seq(Ids) /\ <<>> \in Seq(Updates) /\ Len(<<>>) <= DedupSize
    OBVIOUS
  <2>2. [i \in Ids |-> 0] \in [Ids -> Nat]
    OBVIOUS
  <2>3. SaneControl
    BY <2>1, <2>2 DEF SaneControl
  <2>4. SaneLoop
    BY <2>1 DEF SaneLoop, Places
  <2> QED
    BY <2>3, <2>4
<1>2. ReplayInv
  <2>1. {} \in SUBSET Ids /\ Cardinality({}) = 0
    BY FS_EmptySet
  <2>2. \E poll \in SUBSET Ids : PollWindow(poll)
    BY <2>1 DEF PollWindow
  <2> QED
    BY <2>2 DEF ReplayInv, ExecutedOnce
<1>3. IssuedInv
  <2>1. Executions = {} /\ Cardinality(Executions) = 0
    <3>1. ran = [i \in Ids |-> 0]
      OBVIOUS
    <3>2. Executions = {}
      BY <3>1 DEF Executions
    <3> QED
      BY <3>2, FS_EmptySet
  <2> QED
    BY <2>1 DEF IssuedInv
<1>4. CellsInv /\ RecordedInv
  <2>1. Busy = {} /\ Recordable = {}
    BY DEF Busy, InState, Recordable, Settled
  <2>2. Cardinality(Busy) <= taken
    BY <2>1, FS_EmptySet
  <2>3. CycleTypeOK
    BY DEF CycleTypeOK, Closes, RunStates
  <2> QED
    BY <2>1, <2>2, <2>3 DEF CellsInv, RecordedInv, Settled
<1> QED
  BY <1>1, <1>2, <1>3, <1>4 DEF ServeInv

THEOREM ServeInvariant == Spec => []ServeInv
BY ServeInitially, ServeStep, PTL DEF Spec

-----------------------------------------------------------------------------
\* The properties the runs check, for every instance

\* The variables of the program stay in their types: the replay table in its
\* bound, no confirmation beyond the one an update of a process may issue.
THEOREM ServeTyped == Spec => []TypeOK
<1>1. ServeInv => TypeOK
  <2> SUFFICES ASSUME ServeInv PROVE TypeOK
    OBVIOUS
  <2>1. issued \in 0..MaxNonces
    BY IssuedIsBounded, ControlAssumption DEF ServeInv, IssuedInv
  <2>2. ControlTypeOK
    BY <2>1 DEF ServeInv, SaneControl, IssuedInv, ControlTypeOK
  <2>3. CycleTypeOK
    BY DEF ServeInv, CellsInv
  <2> QED
    BY <2>2, <2>3 DEF ServeInv, SaneLoop, Updates, TypeOK
<1> QED
  BY <1>1, ServeInvariant, PTL

\* However Telegram repeats updates, a process executes each at most once.
THEOREM NeverExecutedTwice == Spec => []ExecutedOnce
<1>1. ServeInv => ExecutedOnce
  BY DEF ServeInv, ReplayInv
<1> QED
  BY <1>1, ServeInvariant, PTL

\* However the coroutines of the cells interleave, a cycle has no more requests
\* admitted or submitted than its budget.
THEOREM BudgetIsRespected == Spec => []BudgetRespected
<1>1. ServeInv => BudgetRespected
  <2> SUFFICES ASSUME ServeInv PROVE BudgetRespected
    OBVIOUS
  <2>1. Cardinality(Busy) \in Nat
    BY CellSetsAreFinite DEF Busy, InState
  <2>2. Cardinality(Busy) <= taken /\ taken \in 0..MaxTrades
    BY DEF ServeInv, CellsInv, CycleTypeOK
  <2> QED
    BY <2>1, <2>2, CycleAssumption DEF BudgetRespected, Busy
<1> QED
  BY <1>1, ServeInvariant, PTL

\* What a cell runs is a close above its cursor, and everything decided before
\* the cycle's own cells ran lies below it: no close is decided twice.
THEOREM NoCloseDecidedTwice == Spec => DecidedOnce
<1>1. ServeInv /\ [Next]_vars => [\A c \in Cells :
        run[c] = "due" /\ run'[c] = "running" => <<c, moment[c]>> \notin decided]_vars
  <2> SUFFICES ASSUME ServeInv, NEW c \in Cells, run[c] = "due", <<c, moment[c]>> \in decided
               PROVE  FALSE
    OBVIOUS
  <2>1. moment[c] \in Closes /\ moment[c] > cursor[c] /\ cursor[c] \in Closes
    BY DEF ServeInv, CellsInv, CycleTypeOK
  <2>2. c \in Recordable
    BY <2>1, CycleAssumption DEF ServeInv, CellsInv, Closes
  <2> QED
    BY <2>2 DEF Recordable, Settled
<1> QED
  BY <1>1, ServeInvariant, PTL DEF Spec, DecidedOnce

\* Only the cursor stage moves the cells.
LEMMA CursorMoves ==
  ASSUME [Next]_vars
  PROVE  (\E c \in Cells : RecordCursor(c)) \/ UNCHANGED cursor
<1> USE DEF cells, cycle, vars
<1>1. CASE LoopStep
  <2>1. CASE RunCell
    BY <2>1 DEF RunCell, CellRunStep, EnterCell, BlockCell, HaltCell, AdmitCell, FinishCell,
       FailCell
  <2>2. CASE ~RunCell
    BY <1>1, <2>2 DEF LoopStep, Begin, BeginCycle, PollAnswered, PollFails, Handle,
       HandleRaises, UpdatesHandled, Select, SelectDue, Gathered, WriteCursor, CursorWritten,
       Manage
  <2> QED
    BY <2>1, <2>2
<1>2. CASE ~LoopStep
  BY <1>2 DEF Next, Send, NonceExpires, MarketCloses, BarCloses, BarTouches, Crash, Restart
<1> QED
  BY <1>1, <1>2

\* The durable cursor moves only to a close this process decided with fresh
\* sources.
THEOREM CursorFollowsDecisions == Spec => CursorIsEarned
<1>1. ServeInv /\ [Next]_vars => [\A c \in Cells :
        cursor'[c] # cursor[c] => <<c, cursor'[c]>> \in decided]_vars
  <2> SUFFICES ASSUME ServeInv, [Next]_vars, NEW c \in Cells, cursor'[c] # cursor[c]
               PROVE  <<c, cursor'[c]>> \in decided
    OBVIOUS
  <2>1. PICK d \in Cells : RecordCursor(d)
    BY CursorMoves
  <2>2. d = c /\ cursor'[c] = moment[c]
    BY <2>1 DEF RecordCursor, ServeInv, CellsInv, CycleTypeOK
  <2> QED
    BY <2>1, <2>2 DEF RecordCursor, Recordable, Decides, ServeInv, CellsInv
<1> QED
  BY <1>1, ServeInvariant, PTL DEF Spec, CursorIsEarned

\* Who moves the control plane: an update, an expiry, or a new process.
LEMMA ControlMoves ==
  ASSUME [Next]_vars
  PROVE  Handle \/ NonceExpires \/ Restart \/ UNCHANGED control
<1> USE DEF vars
<1>1. CASE LoopStep
  BY <1>1 DEF LoopStep, Begin, PollAnswered, PollFails, HandleRaises, UpdatesHandled, Select,
     RunCell, Gathered, WriteCursor, CursorWritten, Manage
<1>2. CASE ~LoopStep
  BY <1>2 DEF Next, Send, MarketCloses, BarTouches, Crash
<1> QED
  BY <1>1, <1>2

\* A level acts only by spending a live confirmation that an owner asked for,
\* for the level then standing, with the Panic Lock off.
THEOREM LevelsActByNonce == Spec => ActsBySpendingNonce
<1>1. ServeInv /\ [Next]_vars =>
        [(paused' /\ ~paused) \/ (newDisabled' /\ ~newDisabled) =>
           /\ ~locked
           /\ \E n \in nonces :
                /\ n.state = "fresh" /\ n.chat \in Owners /\ n.level = level'
                /\ [n EXCEPT !.state = "consumed"] \in nonces']_vars
  <2> SUFFICES ASSUME ServeInv, [Next]_vars,
                      (paused' /\ ~paused) \/ (newDisabled' /\ ~newDisabled)
               PROVE  /\ ~locked
                      /\ \E n \in nonces :
                           /\ n.state = "fresh" /\ n.chat \in Owners /\ n.level = level'
                           /\ [n EXCEPT !.state = "consumed"] \in nonces'
    OBVIOUS
  <2>1. Handle
    BY ControlMoves DEF control, flags, NonceExpires, Expire, Restart, ForgetProcess,
       ResetControl
  <2> DEFINE u == Head(batch)
  <2>2. Confirm(u)
    BY <2>1 DEF Handle, HandleUpdate, Skipped, AskLevel, Recover, Lock, Unlock, Word, Other,
       flags
  <2>3. PICK n \in nonces : /\ Consumable(n, u) /\ nonces' = Consume(n)
                            /\ IsOwner(u) /\ level' = n.level
    BY <2>2 DEF Confirm, flags
  <2>4. ~locked
    BY <2>2 DEF Confirm, Served, LockAdmits
  <2> QED
    BY <2>3, <2>4 DEF Consumable, Consume, IsOwner
<1> QED
  BY <1>1, ServeInvariant, PTL DEF Spec, ActsBySpendingNonce

\* While the Panic Lock stays on, no level moves, no confirmation is issued or
\* spent, no flag is set, and nothing but a refused /unlock is executed.
THEOREM LockedIsQuiet == Spec => LockIsQuiet
<1>1. ServeInv /\ [Next]_vars =>
        [locked /\ locked' =>
           /\ UNCHANGED <<level, issued, flags>>
           /\ {n \in nonces' : n.state = "consumed"} \subseteq nonces
           /\ ran' # ran => Head(batch).body.kind = "unlock"]_vars
  <2> SUFFICES ASSUME ServeInv, [Next]_vars, locked, locked'
               PROVE  /\ UNCHANGED <<level, issued, flags>>
                      /\ {n \in nonces' : n.state = "consumed"} \subseteq nonces
                      /\ ran' # ran => Head(batch).body.kind = "unlock"
    OBVIOUS
  <2>1. CASE Handle
    <3> DEFINE u == Head(batch)
    <3>1. Skipped(u) \/ Unlock(u)
      BY <2>1 DEF Handle, HandleUpdate, AskLevel, Confirm, Recover, Lock, Word, Other, Served,
         LockAdmits
    <3> QED
      BY <3>1 DEF Skipped, Unlock, Served, emergency
  <2>2. CASE NonceExpires
    <3>1. PICK n \in nonces : Expire(n)
      BY <2>2 DEF NonceExpires
    <3>2. [n EXCEPT !.state = "expired"].state = "expired"
      BY DEF ServeInv, IssuedInv, Nonces
    <3> QED
      BY <3>1, <3>2 DEF Expire
  <2>3. CASE Restart
    BY <2>3 DEF Restart, ForgetProcess, ResetControl
  <2>4. CASE UNCHANGED control
    BY <2>4 DEF control, emergency
  <2> QED
    BY <2>1, <2>2, <2>3, <2>4, ControlMoves
<1> QED
  BY <1>1, ServeInvariant, PTL DEF Spec, LockIsQuiet

\* Inside a process the level falls only when an owner recovers.
THEOREM LevelFallsByRecovery == Spec => OnlyRecoveryLowers
<1>1. ServeInv /\ [Next]_vars =>
        [proc' = "up" /\ proc = "up" /\ level' < level =>
           Head(batch).body.kind = "recover" /\ Head(batch).chat \in Owners]_vars
  <2> SUFFICES ASSUME ServeInv, [Next]_vars, proc = "up", level' < level
               PROVE  Head(batch).body.kind = "recover" /\ Head(batch).chat \in Owners
    OBVIOUS
  <2>1. level \in Nat
    BY ControlAssumption DEF ServeInv, SaneControl
  <2>2. Handle
    BY <2>1, ControlMoves DEF control, emergency, NonceExpires, Expire, Restart
  <2> DEFINE u == Head(batch)
  <2>3. level' # level /\ ~(level' >= level)
    <3>1. level' \in Nat
      <4>1. ServeInv'
        BY ServeStep
      <4> QED
        BY <4>1, ControlAssumption DEF ServeInv, SaneControl
    <3> QED
      BY <2>1, <3>1
  <2>4. Recover(u)
    BY <2>2, <2>3 DEF Handle, HandleUpdate, Skipped, AskLevel, Confirm, Lock, Unlock, Word,
       Other, emergency, RatchetAllows
  <2> QED
    BY <2>3, <2>4 DEF Recover, Served, IsOwner
<1> QED
  BY <1>1, ServeInvariant, PTL DEF Spec, OnlyRecoveryLowers
=============================================================================
