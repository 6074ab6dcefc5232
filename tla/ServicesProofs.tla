---------------------------- MODULE ServicesProofs -----------------------------
(***************************************************************************)
(* Proofs about services around the decision that share no state with one  *)
(* another: the ladder of the risk kernel, the entry point, the signaling  *)
(* plane, the recovery log of the watchdog, the adapter to the venue (for  *)
(* every set of orders, lattice, bucket and number of requests) and the    *)
(* reconciliation of a boot (for every set of contracts and tolerance).    *)
(***************************************************************************)
EXTENDS RiskKernel, RunApex, Signaling, Watchdog, ToobitAdapter, StartupReconciliation,
        SequenceTheorems, FiniteSetTheorems, TLAPS

-----------------------------------------------------------------------------
(* The ladder of the risk kernel.                                          *)

LadderSpec == LadderInit /\ [][LadderNext]_ladderVars

Revisions == [emergency : 1..6, parent : Int, stated : BOOLEAN, owner : BOOLEAN]

\* A later level is not below an earlier one, unless the earlier is the pause
\* and the owner resumed from it since, or a revision since was unchecked.
NotSoftened(i, j) ==
  \/ ladder[i].emergency <= ladder[j].emergency
  \/ ladder[i].emergency = 2 /\ \E k \in i..j : ladder[k].emergency = 1 /\ ladder[k].owner
  \/ \E k \in i + 1..j : ~Checked(k)

LadderInv ==
  /\ ladder \in Seq(Revisions)
  /\ \A i, j \in 1..Len(ladder) : i <= j => NotSoftened(i, j)

\* A revision the ratchet permits is not below its base, or it is the owner's
\* resumption from the pause.
LEMMA PermittedRevisions ==
  ASSUME NEW src \in 1..6, NEW dst \in 1..6, NEW owner \in BOOLEAN,
         Permitted(Ratchet(src, dst, owner))
  PROVE  src <= dst \/ (src = 2 /\ dst = 1 /\ owner)
BY DEF Permitted, Ratchet

\* A checked revision was checked against the newest one, and what holds
\* pairwise up to that one holds with it.
LEMMA LadderStepKeeps == LadderInv /\ [LadderNext]_ladderVars => LadderInv'
<1> SUFFICES ASSUME LadderInv, [LadderNext]_ladderVars PROVE LadderInv'
  OBVIOUS
<1> USE DEF LadderInv
<1>1. ASSUME NEW base \in 0..Len(ladder), NEW level \in 1..Len(Emergency),
             NEW stated \in BOOLEAN, NEW owner \in BOOLEAN,
             AppendRevision(base, level, stated, owner)
      PROVE  LadderInv'
  <2>0. PICK n \in Nat : n = Len(ladder)
    OBVIOUS
  <2> DEFINE row == [emergency |-> level, parent |-> base, stated |-> stated, owner |-> owner]
  <2>1. /\ level \in 1..6 /\ base \in Int
        /\ stated /\ base # 0 => Permitted(Ratchet(ladder[base].emergency, level, owner))
        /\ ladder' = Append(ladder, row)
    BY <1>1 DEF AppendRevision, Emergency
  <2>c. level \in 1..6
    BY <2>1
  <2>2. row \in Revisions
    BY <2>1 DEF Revisions
  <2>3. /\ ladder' \in Seq(Revisions) /\ Len(ladder') = n + 1 /\ ladder'[n + 1] = row
        /\ \A k \in 1..n : ladder'[k] = ladder[k] /\ ladder[k] \in Revisions
    BY <2>0, <2>1, <2>2, AppendProperties
  <2>4. /\ ladder'[n + 1].emergency = level /\ ladder'[n + 1].owner = owner
        /\ ladder'[n + 1].stated = stated /\ ladder'[n + 1].parent = base
    BY <2>3
  <2> HIDE DEF row
  <2>a. \A k \in 1..n : Checked(k)' <=> Checked(k)
    BY <2>3 DEF Checked
  <2>b. Checked(n + 1)' => stated /\ base = n
    BY <2>0, <2>1, <2>4 DEF Checked
  <2>5. ASSUME NEW i \in 1..n, NEW j \in i..n
        PROVE  NotSoftened(i, j)'
    <3>1. NotSoftened(i, j) /\ j \in 1..n /\ \A k \in i..j : k \in 1..n
      BY <2>0
    <3>2. \A k \in i + 1..j : k \in 1..n
      BY <2>0
    <3> QED
      BY <2>3, <2>a, <3>1, <3>2 DEF NotSoftened
  <2>6. ASSUME NEW i \in 1..n
        PROVE  NotSoftened(i, n + 1)'
    <3>0. n \in 1..n /\ i \in Nat /\ i <= n /\ n # 0
      BY <2>0
    <3>1. /\ NotSoftened(i, n) /\ \A k \in i..n : k \in 1..n /\ k \in i..(n + 1)
          /\ ladder[i].emergency \in 1..6 /\ ladder[n].emergency \in 1..6
      BY <2>0, <2>3, <3>0 DEF Revisions
    <3>2. n + 1 \in i..(n + 1) /\ n + 1 \in i + 1..n + 1
      BY <3>0
    <3>3. CASE ~Checked(n + 1)'
      BY <3>2, <3>3 DEF NotSoftened
    <3>4. CASE Checked(n + 1)'
      <4>1. ladder[n].emergency <= level \/ (ladder[n].emergency = 2 /\ level = 1 /\ owner)
        BY <2>1, <2>b, <3>0, <3>1, <3>4, PermittedRevisions
      <4>2. CASE ladder[i].emergency <= ladder[n].emergency
        <5>1. PICK first \in 1..6 : first = ladder[i].emergency
          BY <3>1
        <5>2. PICK newest \in 1..6 : newest = ladder[n].emergency
          BY <3>1
        <5>3. CASE newest <= level
          <6>1. first <= level
            <7>1. first <= newest
              BY <4>2, <5>1, <5>2, Zenon
            <7>2. \A x, y, z \in 1..6 : x <= y /\ y <= z => x <= z
              OBVIOUS
            <7> QED
              BY <2>c, <5>3, <7>1, <7>2
          <6> QED
            BY <2>3, <2>4, <5>1, <6>1 DEF NotSoftened
        <5>4. CASE newest = 2 /\ level = 1
          <6>1. owner
            BY <4>1, <5>2, <5>4
          <6>2. first = 1 \/ first = 2
            <7>1. first <= newest /\ newest = 2
              BY <4>2, <5>1, <5>2, <5>4, Zenon
            <7> QED
              BY ONLY first \in 1..6, <7>1
          <6>3. CASE first = 1
            <7>1. ladder'[i].emergency = 1
              BY <2>3, <5>1, <6>3
            <7>2. ladder'[n + 1].emergency = 1
              BY <2>4, <5>4
            <7> QED
              BY <7>1, <7>2 DEF NotSoftened
          <6>4. CASE first = 2
            BY <2>3, <2>4, <3>2, <5>1, <5>4, <6>1, <6>4 DEF NotSoftened
          <6> QED
            BY <6>2, <6>3, <6>4
        <5> QED
          BY <4>1, <5>2, <5>3, <5>4
      <4>3. CASE \E k \in i + 1..n : ~Checked(k)
        <5>1. PICK k \in i + 1..n : ~Checked(k)
          BY <4>3
        <5>2. k \in 1..n /\ k \in i + 1..n + 1
          BY <3>0
        <5> QED
          BY <2>a, <5>1, <5>2 DEF NotSoftened
      <4>4. CASE /\ ladder[i].emergency = 2
                 /\ \E k \in i..n : ladder[k].emergency = 1 /\ ladder[k].owner
        <5>1. PICK k \in i..n : ladder[k].emergency = 1 /\ ladder[k].owner
          BY <4>4
        <5>2. /\ ladder'[i].emergency = 2
              /\ ladder'[k].emergency = 1 /\ ladder'[k].owner /\ k \in i..(n + 1)
          BY <2>3, <3>0, <3>1, <4>4, <5>1
        <5> QED
          BY <5>2 DEF NotSoftened
      <4> QED
        BY <3>1, <4>2, <4>3, <4>4 DEF NotSoftened
    <3> QED
      BY <3>3, <3>4
  <2>7. NotSoftened(n + 1, n + 1)'
    BY <2>1, <2>4 DEF NotSoftened
  <2>8. \A i, j \in 1..(n + 1) : i <= j =>
          \/ i \in 1..n /\ j \in i..n
          \/ i \in 1..n /\ j = n + 1
          \/ i = n + 1 /\ j = n + 1
    BY <2>0
  <2>9. \A i, j \in 1..Len(ladder') : i <= j => NotSoftened(i, j)'
    BY <2>3, <2>5, <2>6, <2>7, <2>8
  <2> QED
    BY <2>3, <2>9
<1> QED
  BY <1>1 DEF LadderNext, ladderVars, NotSoftened, Checked

\* The level read back is never below one recorded before it, unless the owner
\* resumed from a pause in between or an unchecked revision lies in between, below
\* the newest: however many revisions, and whatever their callers had read.
THEOREM LadderOnlyHardens == LadderSpec => []LadderNeverSoftens
<1>1. LadderInit => LadderInv
  BY DEF LadderInit, LadderInv
<1>2. LadderInv => LadderNeverSoftens
  <2> SUFFICES ASSUME LadderInv, LadderReadable, NEW i \in 1..Len(ladder)
               PROVE  \/ ladder[i].emergency <= ladder[Len(ladder)].emergency
                      \/ ladder[i].emergency = 2 /\ \E j \in i..Len(ladder) :
                           ladder[j].emergency = 1 /\ ladder[j].owner
                      \/ \E j \in i + 1..Len(ladder) - 1 : ~Checked(j)
    BY DEF LadderNeverSoftens
  <2>1. PICK n \in Nat : n = Len(ladder)
    BY DEF LadderInv
  <2>2. \A k \in 1..n : ladder[k].emergency \in 1..6
    <3>1. \A k \in 1..n : ladder[k] \in Revisions
      BY <2>1 DEF LadderInv
    <3> QED
      BY <3>1 DEF Revisions
  <2>3. CASE i = n
    BY <2>1, <2>2, <2>3
  <2>4. CASE i # n
    <3>1. n > 1 /\ n - 1 \in 1..n /\ i \in 1..n /\ i <= n - 1 /\ n \in 1..n
      BY <2>1, <2>4
    <3>2. ladder[n - 1].emergency <= ladder[n].emergency
      <4>1. PICK nobody \in BOOLEAN : nobody = FALSE
        OBVIOUS
      <4>2. Permitted(Ratchet(ladder[n - 1].emergency, ladder[n].emergency, nobody))
        BY <2>1, <3>1, <4>1 DEF LadderReadable
      <4>3. ladder[n - 1].emergency \in 1..6 /\ ladder[n].emergency \in 1..6
        BY <2>2, <3>1
      <4>4. ~nobody
        BY <4>1
      <4> QED
        BY <4>2, <4>3, <4>4, PermittedRevisions
    <3>3. NotSoftened(i, n - 1)
      BY <2>1, <3>1 DEF LadderInv
    <3>4. ladder[i].emergency \in 1..6 /\ ladder[n - 1].emergency \in 1..6
          /\ ladder[n].emergency \in 1..6
      BY <2>2, <3>1
    <3>5. \A j \in i..n - 1 : j \in i..n
      BY <3>1
    <3>6. ladder[i].emergency <= ladder[n - 1].emergency
            => ladder[i].emergency <= ladder[n].emergency
      <4>1. \A x, y, z \in 1..6 : x <= y /\ y <= z => x <= z
        OBVIOUS
      <4> QED
        BY <3>2, <3>4, <4>1
    <3> QED
      BY <2>1, <3>3, <3>5, <3>6 DEF NotSoftened
  <2> QED
    BY <2>3, <2>4
<1> QED
  BY <1>1, <1>2, LadderStepKeeps, PTL DEF LadderSpec

-----------------------------------------------------------------------------
(* The entry point.                                                        *)

RootSpec == RootInit /\ [][RootNext]_rootVars

\* What a code says of the data, once the work is done.
CodeTrueOfData ==
  /\ code = "READY" =>
       CASE verb = "bootstrap" -> Selected(config) \subseteq cellsDone
         [] verb = "status" -> RootCells \subseteq cellsDone
         [] verb = "train-e11" -> artifact = commands /\ reports > 0
         [] OTHER -> TRUE
  /\ code = "DEGRADED" => artifact = before.artifact
  /\ partialRows # before.rows => verb = "repair-partial" /\ config.apply
  /\ artifact # before.artifact => verb = "train-e11"

RootInv ==
  /\ reports \in Nat
  /\ rootAt \in {"open", "work", "close", "ended", "hung"}
  /\ rootAt \in {"open", "work"} => artifact = before.artifact /\ partialRows = before.rows
  /\ rootAt \in {"open", "work", "close"} => verb \in Verbs /\ opened \subseteq Range(Closing(verb))
  /\ rootAt = "work" /\ Opening(verb) = <<>> => opened = {}
  /\ rootAt \in {"close", "ended"} => CodeTrueOfData
  /\ rootAt = "ended" /\ code \in {"READY", "DEGRADED", "RECOVERY"} => opened = {}

\* What a command holds, from its prologue or its work, is closed by its
\* finally; the two commands that open nothing come to hold nothing.
LEMMA EverythingIsClosed ==
  ASSUME NEW v \in Verbs
  PROVE  /\ Range(Opening(v)) \subseteq Range(Closing(v))
         /\ \A more \in Wired(v) : more \subseteq Range(Closing(v))
         /\ Opening(v) = <<>> => v \in {"train-e11", "fit-study"}
         /\ v \in {"train-e11", "fit-study"} => \A more \in Wired(v) : more = {}
<1> DEFINE T == {"store", "ledger", "bus", "checkpoints", "source", "gateway"}
<1> USE DEF RuntimeStarts, RuntimeStops, ServiceCloses
<1>1. /\ RuntimeStarts \in Seq(T) /\ RuntimeStops \in Seq(T)
      /\ ServiceCloses \in Seq(T)
      /\ <<"checkpoints">> \in Seq(T) /\ <<"gateway">> \in Seq(T)
      /\ <<"store">> \in Seq(T)
  OBVIOUS
<1>2. /\ Range(RuntimeStarts) = {"store", "ledger", "bus"} /\ Range(RuntimeStops) = {"store", "ledger", "bus"}
      /\ Range(ServiceCloses) = {"source", "checkpoints"} /\ Range(<<"store">>) = {"store"}
      /\ Range(<<"checkpoints">>) = {"checkpoints"} /\ Range(<<"gateway">>) = {"gateway"}
      /\ Range(<<"store", "checkpoints">>) = {"store", "checkpoints"}
  BY DEF Range
<1> HIDE DEF T, RuntimeStarts, RuntimeStops, ServiceCloses
<1>3. CASE v = "boot"
  BY <1>2, <1>3 DEF Opening, Closing, Wired, RuntimeStarts
<1>4. CASE v = "serve"
  <2>1. Range(RuntimeStarts \o <<"checkpoints">>) = Range(RuntimeStarts) \cup Range(<<"checkpoints">>)
    BY <1>1, RangeConcatenation, ZenonT(40)
  <2>2. /\ <<"gateway">> \o ServiceCloses \in Seq(T)
        /\ Range(<<"gateway">> \o ServiceCloses) = Range(<<"gateway">>) \cup Range(ServiceCloses)
    BY <1>1, RangeConcatenation, ConcatProperties, ZenonT(40)
  <2>3. Range((<<"gateway">> \o ServiceCloses) \o RuntimeStops)
          = Range(<<"gateway">> \o ServiceCloses) \cup Range(RuntimeStops)
    <3>1. PICK u \in Seq(T) : u = <<"gateway">> \o ServiceCloses
      BY <2>2
    <3>2. Range(u \o RuntimeStops) = Range(u) \cup Range(RuntimeStops)
      BY <1>1, RangeConcatenation, ZenonT(40)
    <3> QED
      BY <3>1, <3>2, Zenon
  <2>4. Range(<<>>) = {}
    BY DEF Range
  <2>5. /\ Opening(v) = RuntimeStarts \o <<"checkpoints">>
        /\ Closing(v) = (<<"gateway">> \o ServiceCloses) \o RuntimeStops
        /\ Wired(v) = SUBSET {"gateway", "source"}
    BY <1>4 DEF Opening, Closing, Wired
  <2>6. /\ Range(Opening(v)) = {"store", "ledger", "bus", "checkpoints"}
        /\ Range(Closing(v)) = {"gateway", "source", "checkpoints", "store", "ledger", "bus"}
    BY <1>2, <2>1, <2>2, <2>3, <2>4, <2>5, Zenon
  <2>7. Opening(v) # <<>>
    BY <2>4, <2>6
  <2> QED
    BY <1>4, <2>5, <2>6, <2>7
<1>5. CASE v \in {"bootstrap", "status"}
  <2>1. Range(ServiceCloses \o <<"store">>) = Range(ServiceCloses) \cup Range(<<"store">>)
    BY <1>1, RangeConcatenation, ZenonT(40)
  <2>2. /\ Opening(v) = <<"store", "checkpoints">> /\ Closing(v) = ServiceCloses \o <<"store">>
        /\ Wired(v) \subseteq {{}, {"source"}}
    BY <1>5 DEF Opening, Closing, Wired
  <2>3. Range(Closing(v)) = {"source", "checkpoints", "store"}
    BY <1>2, <2>1, <2>2, Zenon
  <2> QED
    BY SMTT(30), <1>2, <1>5, <2>2, <2>3
<1>6. CASE v \in Verbs \ {"boot", "serve", "bootstrap", "status"}
  BY <1>2, <1>6 DEF Opening, Closing, Wired, Verbs
<1> QED
  BY <1>3, <1>4, <1>5, <1>6

\* Whatever the work comes to, the code it leaves is true of the data.
LEMMA BodyTellsTheTruth ==
  ASSUME RootInv, rootAt = "work", Body(verb), UNCHANGED <<verb, config, before, commands>>
  PROVE  CodeTrueOfData' /\ reports' \in Nat
<1> USE DEF RootInv, Leaves, NothingStays, rootDurable, CodeTrueOfData
<1>1. CASE verb = "boot"
  BY <1>1 DEF Body, BootBody
<1>2. CASE verb = "bootstrap"
  BY <1>2 DEF Body, BootstrapBody, BootstrapCode
<1>3. CASE verb = "status"
  BY <1>3 DEF Body, StatusBody
<1>4. CASE verb = "repair-partial"
  BY <1>4 DEF Body, RepairBody, RepairCode
<1>5. CASE verb = "serve"
  BY <1>5 DEF Body, ServeBody
<1>6. CASE verb = "train-e11"
  BY <1>6 DEF Body, TrainBody, TrainRefused, WriteClassifier, CodeOf
<1>7. CASE verb = "fit-study"
  BY <1>7 DEF Body, FitStudyBody
<1>8. CASE verb = "publish-quality-backfill"
  BY <1>8 DEF Body, BackfillBody
<1> QED
  BY <1>1, <1>2, <1>3, <1>4, <1>5, <1>6, <1>7, <1>8 DEF Verbs

LEMMA RootStepKeeps == RootInv /\ [RootNext]_rootVars => RootInv'
<1> SUFFICES ASSUME RootInv, [RootNext]_rootVars PROVE RootInv'
  OBVIOUS
<1> USE DEF RootInv, rootDurable
<1>1. ASSUME NEW v \in Verbs, NEW c \in ConfigsOf(v), Invoke(v, c)
      PROVE  RootInv'
  BY <1>1 DEF Invoke, CodeOf, CodeTrueOfData
<1>2. CASE OpenNext
  <2>1. PICK n \in DOMAIN Opening(verb) :
          /\ opened' = opened \cup {Opening(verb)[n]}
          /\ rootAt' \in {"work", "open"}
    BY <1>2 DEF OpenNext
  <2>2. verb \in Verbs /\ Opening(verb)[n] \in Range(Opening(verb)) /\ Opening(verb) # <<>>
    BY <1>2, <2>1 DEF OpenNext, Range
  <2> QED
    BY <1>2, <2>1, <2>2, EverythingIsClosed DEF OpenNext
<1>3. CASE OpenFails
  BY <1>3 DEF OpenFails, CodeOf, EndOf, CodeTrueOfData
<1>4. CASE Works
  <2>1. PICK more \in Wired(verb) : opened' = opened \cup more
    BY <1>4 DEF Works
  <2>2. verb \in Verbs /\ CodeTrueOfData' /\ reports' \in Nat
    BY <1>4, BodyTellsTheTruth DEF Works
  <2> QED
    BY <1>4, <2>1, <2>2, EverythingIsClosed DEF Works
<1>5. CASE WorkRaises
  <2>1. PICK more \in Wired(verb) : opened' = opened \cup more
    BY <1>5 DEF WorkRaises
  <2>2. code' # "READY"
    BY <1>5 DEF WorkRaises, CodeOf
  <2>3. verb \in Verbs /\ CodeTrueOfData'
    BY <1>5, <2>2 DEF WorkRaises, CodeTrueOfData
  <2> QED
    BY <1>5, <2>1, <2>3, EverythingIsClosed DEF WorkRaises
<1>6. CASE CloseNext
  <2>1. CodeTrueOfData'
    BY <1>6 DEF CloseNext, CodeTrueOfData
  <2> QED
    BY <1>6, <2>1 DEF CloseNext, EndOf
<1>7. CASE CloseFails
  BY <1>7 DEF CloseFails, CodeOf, EndOf, CodeTrueOfData
<1> QED
  BY <1>1, <1>2, <1>3, <1>4, <1>5, <1>6, <1>7 DEF RootNext, rootVars, CodeTrueOfData

\* The exit code is true of what the command did and holds, whichever of its
\* steps fails or is interrupted.
THEOREM CodeCanBeTrusted == RootSpec => []ExitCodeIsTrue
<1>1. RootInit => RootInv
  BY DEF RootInit, RootInv, CodeTrueOfData
<1>2. RootInv => ExitCodeIsTrue
  BY DEF RootInv, ExitCodeIsTrue, CodeTrueOfData
<1> QED
  BY <1>1, <1>2, RootStepKeeps, PTL DEF RootSpec

-----------------------------------------------------------------------------
(* The signaling plane.                                                    *)

SignalSpec == SignalInit /\ [][SignalNext]_signalVars

Sendings == [pc : {"idle", "ledger", "bucket", "attempt", "backoff"},
             what : What \cup {"none"}, attempt : Nat, suppressed : BOOLEAN]
Boxes == [what : What, status : {"SKIPPED", "SENT", "FAILED"}]
Entries == [what : What, suppressed : BOOLEAN]

SignalTyped ==
  /\ sender \in [Senders -> Sendings]
  /\ \A c \in Senders : sender[c].pc # "idle" => sender[c].what \in What
  /\ outbox \in Seq(Boxes) /\ trail \in Seq(Entries)
  /\ received \in [What -> Nat]

AlertKeys == {a.key : a \in PolicyAlerts}
OnTrail == {trail[n].what : n \in {m \in DOMAIN trail : ~trail[m].suppressed}}
SentOf(w) == {n \in DOMAIN outbox : outbox[n].what = w /\ outbox[n].status = "SENT"}
Suppressible == {w \in What : \A a \in PolicyAlerts : a.key = w => a.alert \notin Exempt}

\* An alert goes out only after its entry is on the ledger, and is held back
\* only under a name that may be.
SenderFine(c) ==
  /\ sender[c].pc \in {"bucket", "attempt", "backoff"} /\ sender[c].what \in AlertKeys
       => sender[c].what \in OnTrail
  /\ sender[c].pc = "ledger" /\ sender[c].suppressed => sender[c].what \in Suppressible

SignalInv ==
  /\ SignalTyped
  /\ \A c \in Senders : SenderFine(c)
  /\ \A w \in AlertKeys : received[w] > 0 => w \in OnTrail
  /\ \A w \in What : Cardinality(SentOf(w)) <= received[w]
  /\ \A n \in DOMAIN trail : trail[n].suppressed => trail[n].what \in Suppressible

\* One more record in the outbox is one more of its kind.
LEMMA BoxCounts ==
  ASSUME outbox \in Seq(Boxes), NEW box \in Boxes, outbox' = Append(outbox, box)
  PROVE  /\ outbox' \in Seq(Boxes)
         /\ \A w : /\ Cardinality(SentOf(w)) \in Nat
                   /\ Cardinality(SentOf(w)') =
                        IF box.what = w /\ box.status = "SENT"
                        THEN Cardinality(SentOf(w)) + 1 ELSE Cardinality(SentOf(w))
<1>1. /\ outbox' \in Seq(Boxes) /\ Len(outbox') = Len(outbox) + 1
      /\ outbox'[Len(outbox) + 1] = box /\ Len(outbox) \in Nat
      /\ \A n \in 1..Len(outbox) : outbox'[n] = outbox[n]
      /\ DOMAIN outbox' = 1..(Len(outbox) + 1) /\ DOMAIN outbox = 1..Len(outbox)
  BY AppendProperties
<1>2. ASSUME NEW w
      PROVE  /\ Cardinality(SentOf(w)) \in Nat
             /\ Cardinality(SentOf(w)') =
                  IF box.what = w /\ box.status = "SENT"
                  THEN Cardinality(SentOf(w)) + 1 ELSE Cardinality(SentOf(w))
  <2>1. IsFiniteSet(SentOf(w)) /\ Len(outbox) + 1 \notin SentOf(w)
    <3>1. SentOf(w) \subseteq 1..Len(outbox)
      BY <1>1 DEF SentOf
    <3>2. IsFiniteSet(1..Len(outbox))
      BY <1>1, FS_Interval
    <3> QED
      BY <1>1, <3>1, <3>2, FS_Subset
  <2>2. SentOf(w)' = IF box.what = w /\ box.status = "SENT"
                     THEN SentOf(w) \cup {Len(outbox) + 1} ELSE SentOf(w)
    <3>1. \A n : n \in DOMAIN outbox' <=> n \in 1..Len(outbox) \/ n = Len(outbox) + 1
      BY <1>1
    <3> QED
      BY <1>1, <3>1 DEF SentOf
  <2> QED
    BY <2>1, <2>2, FS_AddElement, FS_CardinalityType
<1> QED
  BY <1>1, <1>2

\* One more entry on the ledger; what was on it stays.
LEMMA TrailGrows ==
  ASSUME trail \in Seq(Entries), NEW entry \in Entries, trail' = Append(trail, entry)
  PROVE  /\ trail' \in Seq(Entries)
         /\ OnTrail \subseteq OnTrail'
         /\ ~entry.suppressed => entry.what \in OnTrail'
         /\ \A n \in DOMAIN trail' : (n \in DOMAIN trail /\ trail'[n] = trail[n]) \/ trail'[n] = entry
<1>1. /\ trail' \in Seq(Entries) /\ Len(trail') = Len(trail) + 1
      /\ trail'[Len(trail) + 1] = entry /\ Len(trail) \in Nat
      /\ \A n \in 1..Len(trail) : trail'[n] = trail[n]
      /\ DOMAIN trail' = 1..(Len(trail) + 1) /\ DOMAIN trail = 1..Len(trail)
  BY AppendProperties
<1>2. /\ Len(trail) + 1 \in DOMAIN trail'
      /\ \A n \in DOMAIN trail : n \in DOMAIN trail'
      /\ \A n \in DOMAIN trail' : n \in DOMAIN trail \/ n = Len(trail) + 1
  BY <1>1
<1> QED
  BY <1>1, <1>2 DEF OnTrail

\* A coroutine moves, and only it.
LEMMA SenderMoves ==
  ASSUME SignalTyped, \A c \in Senders : SenderFine(c),
         NEW c \in Senders, NEW s \in Sendings, sender' = [sender EXCEPT ![c] = s],
         s.pc # "idle" => s.what \in What,
         OnTrail \subseteq OnTrail',
         s.pc \in {"bucket", "attempt", "backoff"} /\ s.what \in AlertKeys => s.what \in OnTrail',
         s.pc = "ledger" /\ s.suppressed => s.what \in Suppressible
  PROVE  /\ sender' \in [Senders -> Sendings]
         /\ \A d \in Senders : sender'[d].pc # "idle" => sender'[d].what \in What
         /\ \A d \in Senders : SenderFine(d)'
<1>1. /\ sender' \in [Senders -> Sendings]
      /\ \A d \in Senders : sender'[d] = IF d = c THEN s ELSE sender[d]
  BY DEF SignalTyped
<1> QED
  BY <1>1 DEF SenderFine, SignalTyped, Suppressible

LEMMA SignalStepKeeps == SignalInv /\ [SignalNext]_signalVars => SignalInv'
<1> SUFFICES ASSUME SignalInv, [SignalNext]_signalVars PROVE SignalInv'
  OBVIOUS
<1>0. /\ SignalTyped /\ \A c \in Senders : SenderFine(c) /\ sender[c] \in Sendings
      /\ NotSending \in Sendings /\ NotSending.pc = "idle"
      /\ \A a \in PolicyAlerts : a.key \in What /\ a.key \in AlertKeys
      /\ \A s \in Signals : s.key \in What /\ s.key \notin AlertKeys
  BY KeysAreHashes DEF SignalInv, SignalTyped, NotSending, Sendings, What, AlertKeys
<1>1. ASSUME NEW c \in Senders, NEW s \in Signals, SendSignal(c, s)
      PROVE  SignalInv'
  <2> DEFINE next == [NotSending EXCEPT !.pc = "bucket", !.what = s.key]
  <2>1. /\ next \in Sendings /\ next.pc = "bucket" /\ next.what = s.key
    BY <1>0 DEF NotSending, Sendings
  <2>2. /\ sender' = sender \/ sender' = [sender EXCEPT ![c] = next]
        /\ UNCHANGED <<trail, received>>
        /\ outbox' = outbox \/ Boxed(s.key, "SKIPPED")
    BY <1>1 DEF SendSignal
  <2> HIDE DEF next
  <2>3. OnTrail' = OnTrail /\ Suppressible' = Suppressible
    BY <2>2 DEF OnTrail, Suppressible
  <2>4. /\ sender' \in [Senders -> Sendings]
        /\ \A d \in Senders : sender'[d].pc # "idle" => sender'[d].what \in What
        /\ \A d \in Senders : SenderFine(d)'
    <3>1. CASE sender' = sender
      BY <1>0, <2>3, <3>1 DEF SignalTyped, SenderFine
    <3>2. CASE sender' = [sender EXCEPT ![c] = next]
      BY <1>0, <2>1, <2>3, <3>2, SenderMoves
    <3> QED
      BY <2>2, <3>1, <3>2
  <2>5. /\ outbox' \in Seq(Boxes)
        /\ \A w \in What : Cardinality(SentOf(w)') <= received[w]
    <3>1. CASE outbox' = outbox
      BY <3>1 DEF SignalInv, SignalTyped, SentOf
    <3>2. CASE Boxed(s.key, "SKIPPED")
      <4>1. PICK box \in Boxes : box = [what |-> s.key, status |-> "SKIPPED"]
        BY <1>0 DEF Boxes
      <4>2. outbox' = Append(outbox, box) /\ box.status # "SENT"
        BY <3>2, <4>1 DEF Boxed
      <4> QED
        BY <4>2, BoxCounts DEF SignalInv, SignalTyped
    <3> QED
      BY <2>2, <3>1, <3>2
  <2> QED
    BY <2>2, <2>3, <2>4, <2>5 DEF SignalInv, SignalTyped
\* A coroutine moves, and nothing is recorded.
<1>2. ASSUME NEW c \in Senders, NEW s \in Sendings, sender' = [sender EXCEPT ![c] = s],
             UNCHANGED <<outbox, trail, received>>,
             s.pc # "idle" => s.what \in What,
             s.pc \in {"bucket", "attempt", "backoff"} /\ s.what \in AlertKeys => s.what \in OnTrail,
             s.pc = "ledger" /\ s.suppressed => s.what \in Suppressible
      PROVE  SignalInv'
  <2>1. OnTrail' = OnTrail /\ Suppressible' = Suppressible /\ \A w : SentOf(w)' = SentOf(w)
    BY <1>2 DEF OnTrail, Suppressible, SentOf
  <2>2. /\ sender' \in [Senders -> Sendings]
        /\ \A d \in Senders : sender'[d].pc # "idle" => sender'[d].what \in What
        /\ \A d \in Senders : SenderFine(d)'
    BY <1>0, <1>2, <2>1, SenderMoves
  <2> QED
    BY <1>2, <2>1, <2>2 DEF SignalInv, SignalTyped
<1>3. ASSUME NEW c \in Senders, NEW a \in PolicyAlerts, EmitAlert(c, a)
      PROVE  SignalInv'
  <2> DEFINE next == [NotSending EXCEPT !.pc = "ledger", !.what = a.key, !.suppressed = Suppressed(a)]
  <2>1. Suppressed(a) \in BOOLEAN /\ (Suppressed(a) => a.alert \notin Exempt)
    BY DEF Suppressed, Within
  <2>2. /\ next \in Sendings /\ next.pc = "ledger" /\ next.what = a.key
        /\ next.suppressed = Suppressed(a)
    <3>1. PICK w \in What, b \in BOOLEAN : w = a.key /\ b = Suppressed(a)
      BY <1>0, <2>1
    <3>2. next = [NotSending EXCEPT !.pc = "ledger", !.what = w, !.suppressed = b]
      BY <3>1
    <3> QED
      BY <3>1, <3>2 DEF NotSending, Sendings
  <2>3. sender' = [sender EXCEPT ![c] = next] /\ UNCHANGED <<outbox, trail, received>>
    BY <1>3 DEF EmitAlert
  <2> HIDE DEF next
  <2>4. next.suppressed => next.what \in Suppressible
    BY <1>0, <2>1, <2>2, KeysAreHashes DEF Suppressible
  <2> QED
    BY <1>0, <1>2, <2>2, <2>3, <2>4
<1>4. ASSUME NEW c \in Senders, AlertAppended(c)
      PROVE  SignalInv'
  <2> DEFINE entry == [what |-> sender[c].what, suppressed |-> sender[c].suppressed]
             next == IF sender[c].suppressed THEN NotSending ELSE [sender[c] EXCEPT !.pc = "bucket"]
  <2>1. sender[c].pc = "ledger" /\ sender[c].what \in What /\ sender[c].suppressed \in BOOLEAN
    BY <1>0, <1>4 DEF AlertAppended, SignalTyped, Sendings
  <2>2. /\ entry \in Entries /\ entry.what = sender[c].what
        /\ entry.suppressed = sender[c].suppressed
    BY <2>1 DEF Entries
  <2>3. /\ next \in Sendings /\ next.pc \in {"idle", "bucket"}
        /\ next.pc = "bucket" => next.what = sender[c].what /\ ~sender[c].suppressed
    BY <1>0, <2>1 DEF Sendings
  <2>4. /\ sender' = [sender EXCEPT ![c] = next] /\ UNCHANGED <<outbox, received>>
        /\ trail' = Append(trail, entry)
    BY <1>4 DEF AlertAppended, Ends, GoTo
  <2> HIDE DEF entry, next
  <2>5. /\ trail' \in Seq(Entries) /\ OnTrail \subseteq OnTrail'
        /\ ~entry.suppressed => entry.what \in OnTrail'
        /\ \A n \in DOMAIN trail' : (n \in DOMAIN trail /\ trail'[n] = trail[n]) \/ trail'[n] = entry
    BY <1>0, <2>2, <2>4, TrailGrows DEF SignalTyped
  <2>6. /\ sender' \in [Senders -> Sendings]
        /\ \A d \in Senders : sender'[d].pc # "idle" => sender'[d].what \in What
        /\ \A d \in Senders : SenderFine(d)'
    BY <1>0, <2>1, <2>2, <2>3, <2>4, <2>5, SenderMoves
  <2>7. entry.suppressed => entry.what \in Suppressible
    BY <1>0, <2>1, <2>2 DEF SenderFine
  <2>8. \A n \in DOMAIN trail' : trail'[n].suppressed => trail'[n].what \in Suppressible
    BY <2>5, <2>7 DEF SignalInv
  <2>9. Suppressible' = Suppressible /\ \A w : SentOf(w)' = SentOf(w)
    BY <2>4 DEF Suppressible, SentOf
  <2> QED
    BY <2>4, <2>5, <2>6, <2>8, <2>9 DEF SignalInv, SignalTyped
<1>5. ASSUME NEW c \in Senders, AlertAppendRaises(c) \/ TransportMissing(c)
      PROVE  SignalInv'
  <2>1. sender' = [sender EXCEPT ![c] = NotSending] /\ UNCHANGED <<outbox, trail, received>>
    BY <1>5 DEF AlertAppendRaises, TransportMissing, Ends
  <2> QED
    BY <1>0, <1>2, <2>1
<1>6. ASSUME NEW c \in Senders, AcquireChatToken(c) \/ BackoffOver(c)
      PROVE  SignalInv'
  <2>1. PICK n \in Nat : /\ sender' = [sender EXCEPT ![c] = [sender[c] EXCEPT !.pc = "attempt", !.attempt = n]]
                         /\ UNCHANGED <<outbox, trail, received>>
                         /\ sender[c].pc \in {"bucket", "backoff"}
    <3>1. sender[c].attempt + 1 \in Nat
      BY <1>0 DEF Sendings
    <3> QED
      BY <1>6, <3>1 DEF AcquireChatToken, BackoffOver
  <2> DEFINE next == [sender[c] EXCEPT !.pc = "attempt", !.attempt = n]
  <2>2. next \in Sendings /\ next.pc = "attempt" /\ next.what = sender[c].what
    BY <1>0 DEF Sendings
  <2>3. sender' = [sender EXCEPT ![c] = next]
    BY <2>1
  <2> HIDE DEF next
  <2> QED
    BY <1>0, <1>2, <2>1, <2>2, <2>3 DEF SignalTyped, SenderFine
<1>7. ASSUME NEW c \in Senders, NEW here \in BOOLEAN, NEW answered \in BOOLEAN, Attempt(c, here, answered)
      PROVE  SignalInv'
  <2>1. PICK what \in What : /\ what = sender[c].what /\ sender[c].pc = "attempt"
                             /\ what \in AlertKeys => what \in OnTrail
    BY <1>0, <1>7 DEF Attempt, SignalTyped, SenderFine
  <2>2. /\ received' = IF here THEN [received EXCEPT ![what] = @ + 1] ELSE received
        /\ received' \in [What -> Nat] /\ \A w \in What : received[w] \in Nat
        /\ \A w \in What : received'[w] = IF here /\ w = what THEN received[w] + 1 ELSE received[w]
        /\ UNCHANGED trail
    BY <1>0, <1>7, <2>1 DEF Attempt, SignalTyped
  <2>3. PICK next \in Sendings :
          /\ sender' = [sender EXCEPT ![c] = next]
          /\ next.pc \in {"idle", "backoff"} /\ (next.pc = "backoff" => next.what = what)
    <3>1. /\ [sender[c] EXCEPT !.pc = "backoff"] \in Sendings
          /\ [sender[c] EXCEPT !.pc = "backoff"].pc = "backoff"
          /\ [sender[c] EXCEPT !.pc = "backoff"].what = what
      BY <1>0, <2>1 DEF Sendings
    <3>2. \/ sender' = [sender EXCEPT ![c] = NotSending]
          \/ sender' = [sender EXCEPT ![c] = [sender[c] EXCEPT !.pc = "backoff"]]
      BY <1>7 DEF Attempt, Ends, GoTo
    <3> QED
      BY <1>0, <3>1, <3>2
  <2>4. OnTrail' = OnTrail /\ Suppressible' = Suppressible
    BY <2>2 DEF OnTrail, Suppressible
  <2>5. /\ sender' \in [Senders -> Sendings]
        /\ \A d \in Senders : sender'[d].pc # "idle" => sender'[d].what \in What
        /\ \A d \in Senders : SenderFine(d)'
    BY <1>0, <2>1, <2>3, <2>4, SenderMoves
  <2>6. \/ outbox' = outbox
        \/ Boxed(what, "FAILED")
        \/ Boxed(what, "SENT") /\ here
    BY <1>7, <2>1 DEF Attempt
  <2>7. /\ outbox' \in Seq(Boxes)
        /\ \A w \in What : Cardinality(SentOf(w)') <= received'[w]
    <3>1. CASE outbox' = outbox
      <4>1. \A w : SentOf(w)' = SentOf(w)
        BY <3>1 DEF SentOf
      <4>2. ASSUME NEW w \in What
            PROVE  Cardinality(SentOf(w)) \in Nat
        <5>1. SentOf(w) \subseteq 1..Len(outbox) /\ Len(outbox) \in Nat
          BY <1>0 DEF SentOf, SignalTyped
        <5>2. IsFiniteSet(1..Len(outbox))
          BY <5>1, FS_Interval
        <5> QED
          BY <5>1, <5>2, FS_Subset, FS_CardinalityType
      <4> QED
        BY <2>2, <3>1, <4>1, <4>2 DEF SignalInv, SignalTyped
    <3>2. ASSUME NEW status \in {"FAILED", "SENT"}, Boxed(what, status), status = "SENT" => here
          PROVE  /\ outbox' \in Seq(Boxes)
                 /\ \A w \in What : Cardinality(SentOf(w)') <= received'[w]
      <4>1. PICK box \in Boxes : box = [what |-> what, status |-> status]
        BY <3>2 DEF Boxes
      <4>2. outbox' = Append(outbox, box) /\ box.what = what /\ (box.status = "SENT" => here)
        BY <3>2, <4>1 DEF Boxed
      <4>3. /\ outbox' \in Seq(Boxes)
            /\ \A w : /\ Cardinality(SentOf(w)) \in Nat
                      /\ Cardinality(SentOf(w)') =
                           IF box.what = w /\ box.status = "SENT"
                           THEN Cardinality(SentOf(w)) + 1 ELSE Cardinality(SentOf(w))
        BY <1>0, <4>2, BoxCounts DEF SignalTyped
      <4> QED
        BY <2>2, <4>2, <4>3 DEF SignalInv
    <3> QED
      BY <2>6, <3>1, <3>2
  <2>8. \A w \in AlertKeys : received'[w] > 0 => w \in OnTrail'
    <3>1. AlertKeys \subseteq What
      BY DEF AlertKeys, What
    <3> QED
      BY <2>1, <2>2, <2>4, <3>1 DEF SignalInv
  <2> QED
    BY <2>2, <2>4, <2>5, <2>7, <2>8 DEF SignalInv, SignalTyped
<1>8. CASE Tick \/ UNCHANGED signalVars
  <2>1. UNCHANGED <<sender, outbox, trail, received>>
    BY <1>8 DEF Tick, signalVars
  <2> QED
    BY <2>1 DEF SignalInv, SignalTyped, SenderFine, OnTrail, SentOf, Suppressible
<1>9. CASE SignalRestart
  <2>1. /\ sender' = [c \in Senders |-> NotSending] /\ outbox' = <<>>
        /\ UNCHANGED <<trail, received>>
    BY <1>9 DEF SignalRestart
  <2>2. \A w : SentOf(w)' = {}
    BY <2>1 DEF SentOf
  <2>3. \A w : Cardinality(SentOf(w)') = 0
    BY <2>2, FS_EmptySet
  <2>4. OnTrail' = OnTrail /\ Suppressible' = Suppressible
    BY <2>1 DEF OnTrail, Suppressible
  <2> QED
    BY <1>0, <2>1, <2>3, <2>4 DEF SignalInv, SignalTyped, SenderFine
<1> QED
  BY <1>1, <1>3, <1>4, <1>5, <1>6, <1>7, <1>8, <1>9 DEF SignalNext, SenderStep

\* What is in a chat has its entry on the ledger, what is recorded as sent was
\* delivered as often, and an exempt alert is never held back.
THEOREM ChatIsTraceable == SignalSpec => []DeliveriesAreTraceable
<1>1. SignalInit => SignalInv
  <2> SUFFICES ASSUME SignalInit PROVE SignalInv
    OBVIOUS
  <2>1. \A w : SentOf(w) = {}
    BY DEF SignalInit, SentOf
  <2>2. \A w : Cardinality(SentOf(w)) = 0
    BY <2>1, FS_EmptySet
  <2>3. NotSending \in Sendings /\ NotSending.pc = "idle"
    BY DEF NotSending, Sendings
  <2>4. AlertKeys \subseteq What
    BY DEF AlertKeys, What
  <2> QED
    BY <2>2, <2>3, <2>4 DEF SignalInit, SignalInv, SignalTyped, SenderFine
<1>2. SignalInv => DeliveriesAreTraceable
  <2> SUFFICES ASSUME SignalInv PROVE DeliveriesAreTraceable
    OBVIOUS
  <2>1. ASSUME NEW a \in PolicyAlerts, received[a.key] > 0
        PROVE  CountOf(trail, LAMBDA r : r.what = a.key /\ ~r.suppressed) > 0
    <3> DEFINE mine == {n \in DOMAIN trail : trail[n].what = a.key /\ ~trail[n].suppressed}
    <3>1. a.key \in OnTrail
      BY <2>1 DEF SignalInv, AlertKeys
    <3>2. mine # {}
      BY <3>1 DEF OnTrail
    <3>3. mine \subseteq 1..Len(trail) /\ Len(trail) \in Nat
      BY DEF SignalInv, SignalTyped
    <3>4. IsFiniteSet(mine)
      BY <3>3, FS_Interval, FS_Subset
    <3>5. Cardinality(mine) > 0
      BY <3>2, <3>4, FS_EmptySet, FS_CardinalityType
    <3> QED
      BY <3>5 DEF CountOf
  <2>2. ASSUME NEW w \in What
        PROVE  CountOf(outbox, LAMBDA r : r.what = w /\ r.status = "SENT") <= received[w]
    BY DEF SignalInv, SentOf, CountOf
  <2>3. ASSUME NEW n \in DOMAIN trail, NEW a \in PolicyAlerts,
               trail[n].what = a.key /\ trail[n].suppressed
        PROVE  a.alert \notin Exempt
    BY <2>3 DEF SignalInv, Suppressible
  <2> QED
    BY <2>1, <2>2, <2>3 DEF DeliveriesAreTraceable
<1> QED
  BY <1>1, <1>2, SignalStepKeeps, PTL DEF SignalSpec

-----------------------------------------------------------------------------
(* The recovery log of the watchdog.                                       *)

WatchdogSpec == WatchdogInit /\ [][LogNext \/ BackupNext]_watchdogVars

LogKinds == {"HOST_DOWN", "FAIL_CLOSED_ENTRY", "STATE_TRANSITION"}
LogRows == [kind : LogKinds, hash : Seq(LogKinds)]

\* verify() calls the rows broken from the first place of a set on.
BrokenFrom(rows, cut) ==
  \A n \in 1..Len(rows) : n \in LogBreaks(rows) <=> \E h \in cut : h <= n

\* A hash holds one kind per row up to it, at least.
NothingForgotten(rows) == \A n \in 1..Len(rows) : n <= Len(rows[n].hash)

WatchInv ==
  /\ logMirror \in Seq(LogRows) /\ logDisk \in Seq(LogRows)
  /\ holes \subseteq 1..Len(logDisk) /\ inherited \subseteq 1..Len(logMirror)
  /\ BrokenFrom(logDisk, holes) /\ BrokenFrom(logMirror, inherited)
  /\ NothingForgotten(logMirror) /\ NothingForgotten(logDisk)
  /\ logOpen => /\ Len(logMirror) >= Len(logDisk)
                /\ Len(logMirror) = Len(logDisk) => logMirror = logDisk

LEMMA RowsAreRecords ==
  ASSUME NEW rows \in Seq(LogRows), NEW n \in 1..Len(rows)
  PROVE  /\ rows[n] \in LogRows /\ rows[n].kind \in LogKinds
         /\ rows[n].hash \in Seq(LogKinds) /\ Len(rows[n].hash) \in Nat
<1>1. rows[n] \in LogRows
  BY ElementOfSeq
<1>2. rows[n].kind \in LogKinds /\ rows[n].hash \in Seq(LogKinds)
  BY <1>1 DEF LogRows
<1> QED
  BY <1>1, <1>2, LenProperties

LEMMA HeadIsAHash == ASSUME NEW rows \in Seq(LogRows) PROVE HeadOf(rows) \in Seq(LogKinds)
<1>1. CASE rows = <<>>
  BY <1>1 DEF HeadOf
<1>2. CASE rows # <<>>
  <2>1. Len(rows) \in 1..Len(rows)
    BY <1>2, EmptySeq
  <2> QED
    BY <1>2, <2>1, RowsAreRecords DEF HeadOf, Last
<1> QED
  BY <1>1, <1>2

\* A row more: what was broken stays broken, and nothing else of the old rows.
LEMMA BreaksStay ==
  ASSUME NEW rows \in Seq(LogRows), NEW row \in LogRows, NEW n \in 1..Len(rows)
  PROVE  n \in LogBreaks(rows) <=> n \in LogBreaks(Append(rows, row))
<1> DEFINE more == Append(rows, row)
<1>1. /\ Len(more) = Len(rows) + 1 /\ Len(rows) \in Nat
      /\ \A m \in 1..Len(rows) : more[m] = rows[m]
  BY AppendProperties
<1>2. n \in 1..Len(more) /\ \A m \in 1..n : m \in 1..Len(rows)
  BY <1>1
<1> HIDE DEF more
<1>3. [m \in 1..n |-> more[m].kind] = [m \in 1..n |-> rows[m].kind]
  BY <1>1, <1>2
<1> QED
  BY <1>1, <1>2, <1>3 DEF LogBreaks, more

\* A row chained to the newest one is broken just if that one is.
LEMMA BreaksAreInherited ==
  ASSUME NEW rows \in Seq(LogRows), NEW row \in LogRows,
         row.hash = Append(HeadOf(rows), row.kind)
  PROVE  Len(rows) + 1 \in LogBreaks(Append(rows, row)) <=> Len(rows) \in LogBreaks(rows)
<1> DEFINE more == Append(rows, row)
           n == Len(rows)
           kinds == [m \in 1..n |-> rows[m].kind]
<1>1. /\ Len(more) = n + 1 /\ n \in Nat /\ more[n + 1] = row
      /\ \A m \in 1..n : more[m] = rows[m]
  BY AppendProperties
<1>2. n \in LogBreaks(rows) <=> HeadOf(rows) # kinds
  <2>1. CASE rows = <<>>
    <3>1. n = 0 /\ kinds = <<>> /\ HeadOf(rows) = <<>>
      BY <2>1 DEF HeadOf
    <3> QED
      BY <3>1 DEF LogBreaks
  <2>2. CASE rows # <<>>
    <3>1. n \in 1..n /\ HeadOf(rows) = rows[n].hash
      BY <1>1, <2>2, EmptySeq DEF HeadOf, Last
    <3> QED
      BY <3>1 DEF LogBreaks
  <2> QED
    BY <2>1, <2>2
<1>3. /\ HeadOf(rows) \in Seq(LogKinds) /\ row.kind \in LogKinds
      /\ row.hash \in Seq(LogKinds)
  BY HeadIsAHash DEF LogRows
<1>4. PICK head \in Seq(LogKinds) : head = HeadOf(rows)
  BY <1>3
<1>5. /\ Len(head) \in Nat /\ Len(row.hash) = Len(head) + 1
      /\ row.hash[Len(head) + 1] = row.kind
      /\ \A m \in 1..Len(head) : row.hash[m] = head[m]
  BY <1>3, <1>4, AppendProperties
<1>6. n + 1 \in LogBreaks(more) <=> row.hash # [m \in 1..(n + 1) |-> more[m].kind]
  <2>1. n + 1 \in 1..Len(more) /\ more[n + 1] = row
    BY <1>1
  <2> HIDE DEF more, n
  <2> QED
    BY <2>1, Zenon DEF LogBreaks
<1>7. \A m \in 1..n : rows[m].kind \in LogKinds
  BY RowsAreRecords
<1> HIDE DEF more, n
<1>8. kinds \in Seq(LogKinds) /\ Len(kinds) = n
  BY <1>1, <1>7
<1>9. ASSUME head = kinds
      PROVE  row.hash = [m \in 1..(n + 1) |-> more[m].kind]
  <2>1. Len(head) = n
    BY <1>8, <1>9
  <2>2. row.hash \in [1..(n + 1) -> LogKinds]
    BY <1>3, <1>5, <2>1, LenProperties
  <2>3. ASSUME NEW m \in 1..(n + 1)
        PROVE  row.hash[m] = more[m].kind
    <3>1. CASE m = n + 1
      BY <1>1, <1>5, <2>1, <3>1
    <3>2. CASE m \in 1..n
      <4>1. row.hash[m] = head[m] /\ head[m] = rows[m].kind
        BY <1>5, <1>9, <2>1, <3>2
      <4> QED
        BY <1>1, <3>2, <4>1
    <3>3. m \in 1..n \/ m = n + 1
      BY <1>1
    <3> QED
      BY <3>1, <3>2, <3>3
  <2> QED
    BY <2>2, <2>3
<1>10. ASSUME row.hash = [m \in 1..(n + 1) |-> more[m].kind]
       PROVE  head = kinds
  <2>1. Len(head) = n
    <3>1. DOMAIN row.hash = 1..Len(row.hash) /\ DOMAIN row.hash = 1..(n + 1)
      BY <1>3, <1>10, LenProperties
    <3> QED
      BY <1>1, <1>5, <3>1
  <2>2. head \in [1..n -> LogKinds]
    BY <2>1, LenProperties
  <2>3. ASSUME NEW m \in 1..n
        PROVE  head[m] = rows[m].kind
    <3>1. m \in 1..(n + 1) /\ row.hash[m] = head[m]
      BY <1>1, <1>5, <2>1
    <3>2. row.hash[m] = more[m].kind
      BY <1>10, <3>1
    <3> QED
      BY <1>1, <3>1, <3>2
  <2> QED
    BY <2>2, <2>3
<1>11. n + 1 \in LogBreaks(more) <=> n \in LogBreaks(rows)
  BY <1>2, <1>4, <1>6, <1>9, <1>10
<1> QED
  BY <1>11 DEF more, n

\* One more row on a chain that verify() calls broken from a set of places on:
\* chained to it, it changes nothing; with more in its hash, it is one of them.
LEMMA BrokenAsBefore ==
  ASSUME NEW rows \in Seq(LogRows), NEW row \in LogRows, NEW cut,
         cut \subseteq 1..Len(rows), BrokenFrom(rows, cut),
         row.hash = Append(HeadOf(rows), row.kind)
  PROVE  BrokenFrom(Append(rows, row), cut)
<1>1. PICK n \in Nat : n = Len(rows)
  BY LenProperties
<1>2. PICK more : more = Append(rows, row)
  OBVIOUS
<1>3. Len(more) = n + 1
  BY <1>1, <1>2, AppendProperties
<1>4. ASSUME NEW m \in 1..(n + 1)
      PROVE  m \in LogBreaks(more) <=> \E h \in cut : h <= m
  <2>1. CASE m \in 1..n
    BY <1>1, <1>2, <2>1, BreaksStay DEF BrokenFrom
  <2>2. CASE m = n + 1
    <3>1. m \in LogBreaks(more) <=> n \in LogBreaks(rows)
      BY <1>1, <1>2, <2>2, BreaksAreInherited
    <3>2. CASE n = 0
      <4>1. cut = {} /\ n \notin LogBreaks(rows)
        BY <1>1, <3>2 DEF LogBreaks
      <4> QED
        BY <3>1, <4>1
    <3>3. CASE n # 0
      <4>1. n \in LogBreaks(rows) <=> \E h \in cut : h <= n
        BY <1>1, <3>3 DEF BrokenFrom
      <4>2. \A h \in cut : h <= n /\ h <= m
        BY <1>1, <2>2
      <4> QED
        BY <3>1, <4>1, <4>2
    <3> QED
      BY <3>2, <3>3
  <2> QED
    BY <2>1, <2>2
<1> QED
  BY <1>2, <1>3, <1>4 DEF BrokenFrom

LEMMA BrokenFromHere ==
  ASSUME NEW rows \in Seq(LogRows), NEW row \in LogRows, NEW cut,
         cut \subseteq 1..Len(rows), BrokenFrom(rows, cut),
         Len(row.hash) > Len(rows) + 1
  PROVE  BrokenFrom(Append(rows, row), cut \cup {Len(rows) + 1})
<1>1. PICK n \in Nat : n = Len(rows)
  BY LenProperties
<1>2. PICK more : more = Append(rows, row)
  OBVIOUS
<1>3. Len(more) = n + 1 /\ more[n + 1] = row
  BY <1>1, <1>2, AppendProperties
<1>4. n + 1 \in LogBreaks(more)
  <2>1. row.hash # [m \in 1..(n + 1) |-> more[m].kind]
    <3>1. DOMAIN row.hash = 1..Len(row.hash) /\ Len(row.hash) \in Nat
      BY LenProperties DEF LogRows
    <3>2. n + 2 \in DOMAIN row.hash /\ n + 2 \notin 1..(n + 1)
      BY <1>1, <3>1
    <3> QED
      BY <3>2
  <2>2. n + 1 \in 1..Len(more) /\ more[n + 1] = row
    BY <1>3
  <2> QED
    BY <2>1, <2>2, Zenon DEF LogBreaks
<1>5. ASSUME NEW m \in 1..(n + 1)
      PROVE  m \in LogBreaks(more) <=> \E h \in cut \cup {n + 1} : h <= m
  <2>1. CASE m \in 1..n
    <3>1. m \in LogBreaks(more) <=> \E h \in cut : h <= m
      BY <1>1, <1>2, <2>1, BreaksStay DEF BrokenFrom
    <3>2. ~(n + 1 <= m)
      BY <2>1
    <3> QED
      BY <3>1, <3>2
  <2>2. CASE m = n + 1
    BY <1>4, <2>2
  <2> QED
    BY <2>1, <2>2
<1> QED
  BY <1>1, <1>2, <1>3, <1>5 DEF BrokenFrom

LEMMA StillNothingForgotten ==
  ASSUME NEW rows \in Seq(LogRows), NEW row \in LogRows, NothingForgotten(rows),
         Len(row.hash) > Len(rows)
  PROVE  NothingForgotten(Append(rows, row))
<1>1. PICK n \in Nat : n = Len(rows)
  BY LenProperties
<1>2. PICK more : more = Append(rows, row)
  OBVIOUS
<1>3. Len(more) = n + 1 /\ more[n + 1] = row /\ \A m \in 1..n : more[m] = rows[m]
  BY <1>1, <1>2, AppendProperties
<1>4. ASSUME NEW m \in 1..(n + 1)
      PROVE  m <= Len(more[m].hash)
  <2>1. CASE m \in 1..n
    BY <1>1, <1>3, <2>1 DEF NothingForgotten
  <2>2. CASE m = n + 1
    <3>1. Len(row.hash) \in Nat
      BY LenProperties DEF LogRows
    <3> QED
      BY <1>1, <1>3, <2>2, <3>1
  <2> QED
    BY <2>1, <2>2
<1> QED
  BY <1>2, <1>3, <1>4 DEF NothingForgotten

\* A row of the log, stored or not, keeps what verify() goes by.
LEMMA LoggedKeeps ==
  ASSUME WatchInv, NEW kind \in LogKinds, NEW inserted \in BOOLEAN, Logged(kind, inserted)
  PROVE  WatchInv'
<1> USE DEF WatchInv
<1>1. PICK head \in Seq(LogKinds) : head = HeadOf(logMirror)
  BY HeadIsAHash
<1>2. PICK row \in LogRows : row.kind = kind /\ row.hash = Append(head, kind)
  <2>1. PICK hash \in Seq(LogKinds) : hash = Append(head, kind)
    BY <1>1, AppendProperties
  <2>2. [kind |-> kind, hash |-> hash] \in LogRows
    BY DEF LogRows
  <2> QED
    BY <2>1, <2>2
<1>3. row = [kind |-> kind, hash |-> Append(head, kind)]
  BY <1>2 DEF LogRows
<1>4. /\ logMirror' = Append(logMirror, row) /\ logOpen' = logOpen
      /\ logDisk' = IF logOpen /\ inserted THEN Append(logDisk, row) ELSE logDisk
      /\ holes' = IF logOpen /\ inserted /\ Len(logMirror) > Len(logDisk)
                  THEN holes \cup {Len(logDisk) + 1} ELSE holes
      /\ inherited' = inherited
  BY <1>1, <1>3 DEF Logged
<1>5. PICK a \in Nat : a = Len(logMirror)
  BY LenProperties
<1>6. PICK b \in Nat : b = Len(logDisk)
  BY LenProperties
<1>7. Len(head) \in Nat /\ a <= Len(head) /\ Len(row.hash) = Len(head) + 1
  <2>1. Len(head) \in Nat /\ Len(row.hash) = Len(head) + 1
    BY <1>1, <1>2, LenProperties, AppendProperties
  <2>2. CASE logMirror = <<>>
    BY <1>5, <2>1, <2>2
  <2>3. CASE logMirror # <<>>
    <3>1. a \in 1..a /\ HeadOf(logMirror) = logMirror[a].hash
      BY <1>5, <2>3, EmptySeq DEF HeadOf, Last
    <3> QED
      BY <1>1, <1>5, <2>1, <3>1 DEF NothingForgotten
  <2> QED
    BY <2>1, <2>2, <2>3
<1>8. /\ logMirror' \in Seq(LogRows) /\ Len(logMirror') = a + 1
      /\ NothingForgotten(logMirror') /\ BrokenFrom(logMirror', inherited)
      /\ inherited' \subseteq 1..Len(logMirror')
  <2>1. logMirror' \in Seq(LogRows) /\ Len(logMirror') = a + 1
    BY <1>4, <1>5, AppendProperties
  <2>2. Len(row.hash) > Len(logMirror)
    BY <1>5, <1>7
  <2>3. NothingForgotten(logMirror')
    BY <1>4, <2>2, StillNothingForgotten
  <2>4. row.hash = Append(HeadOf(logMirror), row.kind)
    BY <1>1, <1>2
  <2>5. BrokenFrom(logMirror', inherited)
    BY <1>4, <2>4, BrokenAsBefore
  <2> QED
    BY <1>4, <1>5, <2>1, <2>3, <2>5
<1>9. CASE ~(logOpen /\ inserted)
  <2>1. logDisk' = logDisk /\ holes' = holes
    BY <1>4, <1>9
  <2>2. logOpen' => Len(logMirror') >= Len(logDisk') /\ Len(logMirror') # Len(logDisk')
    BY <1>4, <1>5, <1>6, <1>8, <2>1
  <2> QED
    BY <1>4, <1>8, <2>1, <2>2
<1>10. CASE logOpen /\ inserted
  <2>1. /\ logDisk' = Append(logDisk, row) /\ logDisk' \in Seq(LogRows)
        /\ Len(logDisk') = b + 1 /\ a >= b
    BY <1>4, <1>5, <1>6, <1>10, AppendProperties
  <2>2. Len(row.hash) > Len(logDisk)
    BY <1>6, <1>7, <2>1
  <2>3. NothingForgotten(logDisk')
    BY <2>1, <2>2, StillNothingForgotten
  <2>4. CASE a = b
    <3>1. logMirror = logDisk /\ holes' = holes /\ logMirror' = logDisk'
      BY <1>4, <1>5, <1>6, <1>10, <2>1, <2>4
    <3>2. row.hash = Append(HeadOf(logDisk), row.kind)
      BY <1>1, <1>2, <3>1
    <3>3. BrokenFrom(logDisk', holes')
      BY <2>1, <3>1, <3>2, BrokenAsBefore
    <3>4. holes' \subseteq 1..Len(logDisk')
      BY <1>6, <2>1, <3>1
    <3> QED
      BY <1>4, <1>8, <2>1, <2>3, <3>1, <3>3, <3>4
  <2>5. CASE a > b
    <3>1. holes' = holes \cup {Len(logDisk) + 1} /\ Len(row.hash) > Len(logDisk) + 1
      BY <1>4, <1>5, <1>6, <1>7, <1>10, <2>5
    <3>2. BrokenFrom(logDisk', holes')
      BY <2>1, <3>1, BrokenFromHere
    <3>3. holes' \subseteq 1..Len(logDisk')
      <4>1. holes \subseteq 1..b /\ holes' = holes \cup {b + 1}
        BY <1>6, <3>1
      <4>2. holes' \subseteq 1..(b + 1)
        BY ONLY b \in Nat, <4>1
      <4> QED
        BY <2>1, <4>2
    <3>4. Len(logMirror') >= Len(logDisk') /\ Len(logMirror') # Len(logDisk')
      BY <1>8, <2>1, <2>5
    <3> QED
      BY <1>4, <1>8, <2>1, <2>3, <3>2, <3>3, <3>4
  <2> QED
    BY <2>1, <2>4, <2>5
<1> QED
  BY <1>9, <1>10

LEMMA WatchStepKeeps == WatchInv /\ [LogNext \/ BackupNext]_watchdogVars => WatchInv'
<1> SUFFICES ASSUME WatchInv, [LogNext \/ BackupNext]_watchdogVars PROVE WatchInv'
  OBVIOUS
<1>1. CASE OpenLog
  BY <1>1 DEF OpenLog, WatchInv
<1>2. CASE ProcessRestarts
  <2>1. /\ logMirror' = <<>> /\ inherited' = {} /\ logDisk' = logDisk /\ holes' = holes
        /\ ~logOpen'
    BY <1>2 DEF ProcessRestarts
  <2>2. /\ <<>> \in Seq(LogRows) /\ NothingForgotten(<<>>) /\ BrokenFrom(<<>>, {})
    BY DEF NothingForgotten, BrokenFrom
  <2> QED
    BY <2>1, <2>2 DEF WatchInv
<1>3. ASSUME NEW inserted \in BOOLEAN, NEW to \in ResolvedStates,
             Check(inserted) \/ EnterFailClosed(inserted) \/ Resolve(to, inserted)
      PROVE  WatchInv'
  BY <1>3, LoggedKeeps DEF Check, EnterFailClosed, Resolve, LogKinds
<1>4. CASE UNCHANGED logVars
  BY <1>4 DEF logVars, WatchInv
<1>5. Beat \/ IntervalPasses \/ BackupNext \/ UNCHANGED watchdogVars => UNCHANGED logVars
  BY DEF Beat, IntervalPasses, BackupNext, CommitRow, Backup, Restore, watchdogVars, logVars
<1>6. ResolvedStates # {}
  BY DEF ResolvedStates
<1> QED
  BY <1>1, <1>2, <1>3, <1>4, <1>5, <1>6 DEF LogNext

\* What verify() calls broken is exactly what is broken: of the stored log each row
\* from the first one written after a lost row on, of the log in memory what was
\* broken when it was read from the disk and what was recorded on top of it.
THEOREM LogCanBeTrusted == WatchdogSpec => []LogVerdictIsTrue
<1>1. WatchdogInit => WatchInv
  <2> SUFFICES ASSUME WatchdogInit PROVE WatchInv
    OBVIOUS
  <2>1. /\ logMirror = <<>> /\ logDisk = <<>> /\ holes = {} /\ inherited = {} /\ ~logOpen
    BY DEF WatchdogInit
  <2>2. /\ <<>> \in Seq(LogRows) /\ NothingForgotten(<<>>) /\ BrokenFrom(<<>>, {})
    BY DEF NothingForgotten, BrokenFrom
  <2> QED
    BY <2>1, <2>2 DEF WatchInv
<1>2. WatchInv => LogVerdictIsTrue
  <2>1. LogBreaks(logDisk) \subseteq 1..Len(logDisk)
    BY DEF LogBreaks
  <2>2. LogBreaks(logMirror) \subseteq 1..Len(logMirror)
    BY DEF LogBreaks
  <2>3. ASSUME WatchInv
        PROVE  LogVerdictIsTrue
    <3>1. BrokenFrom(logDisk, holes) /\ BrokenFrom(logMirror, inherited)
      BY <2>3 DEF WatchInv
    <3>2. LogBreaks(logDisk) = {n \in 1..Len(logDisk) : \E h \in holes : h <= n}
      BY <2>1, <3>1 DEF BrokenFrom
    <3>3. LogBreaks(logMirror) = {n \in 1..Len(logMirror) : \E h \in inherited : h <= n}
      BY <2>2, <3>1 DEF BrokenFrom
    <3> QED
      BY <3>2, <3>3, Zenon DEF LogVerdictIsTrue
  <2> QED
    BY <2>3
<1> QED
  BY <1>1, <1>2, WatchStepKeeps, PTL DEF WatchdogSpec
-----------------------------------------------------------------------------
(* The venue adapter and the reconciliation at startup.                    *)

AdapterSpec == AdapterInit /\ [][AdapterNext]_adapterVars

Outcomes == {"ACKNOWLEDGED", "PARTIAL", "FILLED", "CANCELLED", "REJECTED", "UNKNOWN"}
Kinds == {"submit", "cancel", "query"}

Calls == [pc : {"idle", "queued", "sent", "backoff"},
          kind : Kinds \cup {"none"},
          attempt : Nat, reply : {"none", "took", "left"}]

\* The bucket's line holds the waiting calls, each once.
LineInv ==
  /\ line \in Seq(Orders)
  /\ \A k \in 1..Len(line) : call[line[k]].pc = "queued"
  /\ \A j, k \in 1..Len(line) : line[j] = line[k] => j = k

\* An id without a record has at most its first submission under way, and the
\* venue has nothing of it but what that submission may yet hear of.
Unrecorded(o) ==
  /\ call[o].pc # "idle" => call[o].kind = "submit"
  /\ call[o].pc # "sent" => wire[o] = <<>> /\ o \notin held
  /\ call[o].pc = "sent" =>
       \/ wire[o] = <<"submit">> /\ call[o].reply = "none" /\ o \notin held
       \/ wire[o] = <<>> /\ call[o].reply = "took"
       \/ wire[o] = <<>> /\ call[o].reply = "left" /\ o \notin held

\* Nothing of an order that was refused is at the venue or on its way there.
NotThere(o) == o \notin held /\ \A n \in DOMAIN wire[o] : wire[o][n] # "submit"

Fine(o) ==
  /\ IF duplicates[o] = "none" THEN Unrecorded(o) ELSE call[o].kind # "submit"
  /\ duplicates[o] = "REJECTED" => NotThere(o)
  /\ call[o].pc # "idle" => call[o].kind # "none"
  /\ call[o].pc # "sent" => call[o].reply = "none"

AdapterTyped ==
  /\ call \in [Orders -> Calls]
  /\ duplicates \in [Orders -> Outcomes \cup {"none"}]
  /\ wire \in [Orders -> Seq(Kinds)]

AdapterInv == AdapterTyped /\ LineInv /\ \A o \in Orders : Fine(o)

\* An order nothing was done for stays fine.
LEMMA OthersStayFine ==
  ASSUME NEW o \in Orders, Fine(o), duplicates'[o] = duplicates[o],
         call'[o] = call[o], wire'[o] = wire[o], o \in held' <=> o \in held
  PROVE  Fine(o)'
BY DEF Fine, Unrecorded, NotThere

\* A call that is not waiting is not in the line; a call may join its end.
LEMMA LineGrows ==
  ASSUME LineInv, AdapterTyped, NEW o \in Orders, call[o].pc # "queued",
         line' = Append(line, o), NEW c, c.pc = "queued", call' = [call EXCEPT ![o] = c]
  PROVE  LineInv'
<1> USE DEF LineInv, AdapterTyped
<1>1. \A k \in 1..Len(line) : line[k] \in Orders /\ line[k] # o
  OBVIOUS
<1>2. /\ line' \in Seq(Orders) /\ Len(line') = Len(line) + 1 /\ line'[Len(line) + 1] = o
      /\ \A k \in 1..Len(line) : line'[k] = line[k]
  BY AppendProperties
<1>3. \A k \in 1..Len(line') : k \in 1..Len(line) \/ k = Len(line) + 1
  BY <1>2
<1>4. \A p \in Orders : call'[p] = IF p = o THEN c ELSE call[p]
  OBVIOUS
<1>5. \A k \in 1..Len(line') : call'[line'[k]].pc = "queued"
  BY <1>1, <1>2, <1>3, <1>4
<1>6. \A j, k \in 1..Len(line') : line'[j] = line'[k] => j = k
  BY <1>1, <1>2, <1>3
<1> QED
  BY <1>2, <1>5, <1>6

\* A call that is not waiting may move without joining the line.
LEMMA LineStays ==
  ASSUME LineInv, AdapterTyped, NEW o \in Orders, call[o].pc # "queued",
         line' = line, NEW c, call' = [call EXCEPT ![o] = c]
  PROVE  LineInv'
<1> USE DEF LineInv, AdapterTyped
<1>1. \A k \in 1..Len(line) : line[k] \in Orders /\ line[k] # o
  OBVIOUS
<1> QED
  BY <1>1

\* The oldest waiting call leaves the line.
LEMMA LineMoves ==
  ASSUME LineInv, AdapterTyped, NEW o \in Orders, line # <<>>, Head(line) = o,
         line' = Tail(line), NEW c, call' = [call EXCEPT ![o] = c]
  PROVE  call[o].pc = "queued" /\ LineInv'
<1> USE DEF LineInv, AdapterTyped
<1>1. /\ line' \in Seq(Orders) /\ Len(line') = Len(line) - 1 /\ Len(line) \in Nat
      /\ \A k \in 1..Len(line') : line'[k] = line[k + 1]
      /\ line[1] = o /\ 1 \in 1..Len(line)
  BY HeadTailProperties
<1>2. \A k \in 1..Len(line') : /\ k + 1 \in 1..Len(line) /\ k + 1 # 1
                               /\ line'[k] \in Orders /\ line'[k] # o
  BY <1>1
<1>3. \A k \in 1..Len(line') : call'[line'[k]].pc = "queued"
  BY <1>1, <1>2
<1>4. \A j, k \in 1..Len(line') : line'[j] = line'[k] => j = k
  BY <1>1, <1>2
<1> QED
  BY <1>1, <1>3, <1>4

\* A REJECTED outcome is read only off an answer the venue gives when it did
\* not take the request; only then is a request tried again.
LEMMA AnswersTellRefusals ==
  /\ \A a \in Unclear \cup TookIt :
       LET class == Classify(a.code, a.http200) IN
         class # "BACKOFF" /\ OutcomeFor(class, a.status) \in Outcomes \ {"REJECTED"}
  /\ \A a \in LeftIt :
       OutcomeFor(Classify(a.code, a.http200), a.status) \in Outcomes
  /\ Classify("timeout", FALSE) = "UNKNOWN" /\ OutcomeFor("UNKNOWN", "none") = "UNKNOWN"
BY DEF Unclear, TookIt, LeftIt, Classify, OutcomeFor, StatusOutcome, Outcomes

\* A call that is answered, refused or given up: it is tried again only after
\* the venue left it, and it is refused for good only then.
LEMMA ConcludeStaysFine ==
  ASSUME AdapterInv, NEW o \in Orders, call[o].pc = "sent", UNCHANGED <<wire, held>>,
         NEW heard, NEW http200, NEW status,
         LET class == Classify(heard, http200) IN
           /\ OutcomeFor(class, status) \in Outcomes
           /\ class = "BACKOFF" \/ OutcomeFor(class, status) = "REJECTED" =>
                call[o].reply = "left",
         Conclude(o, heard, http200, status)
  PROVE  AdapterInv'
<1> DEFINE class == Classify(heard, http200)
           again == [Idle EXCEPT !.pc = "backoff", !.kind = call[o].kind,
                                 !.attempt = call[o].attempt + 1]
<1>1. call[o] \in Calls /\ Fine(o)
  BY DEF AdapterInv, AdapterTyped
<1>2. CASE TriedAgain(class, call[o].attempt)
  <2>1. /\ call' = [call EXCEPT ![o] = again] /\ UNCHANGED <<duplicates, line, wire, held>>
        /\ class = "BACKOFF"
    BY <1>2 DEF Conclude, TriedAgain
  <2>2. /\ again \in Calls /\ again.pc = "backoff" /\ again.kind = call[o].kind
        /\ again.reply = "none"
    <3>1. PICK kind \in Kinds \cup {"none"}, n \in Nat :
            kind = call[o].kind /\ n = call[o].attempt + 1
      BY <1>1 DEF Calls, Kinds
    <3>2. again = [Idle EXCEPT !.pc = "backoff", !.kind = kind, !.attempt = n]
      BY <3>1
    <3> QED
      BY <3>1, <3>2 DEF Calls, Kinds, Idle
  <2> HIDE DEF again
  <2>3. AdapterTyped'
    BY <2>1, <2>2 DEF AdapterInv, AdapterTyped
  <2>4. LineInv'
    BY <2>1, LineStays DEF AdapterInv
  <2>5. call'[o] = again /\ \A p \in Orders \ {o} : call'[p] = call[p]
    BY <2>1 DEF AdapterInv, AdapterTyped
  <2>6. Fine(o)'
    BY <1>1, <2>1, <2>2, <2>5 DEF Fine, Unrecorded, NotThere
  <2>7. \A p \in Orders \ {o} : Fine(p)'
    BY <2>1, <2>5, OthersStayFine DEF AdapterInv
  <2> QED
    BY <2>3, <2>4, <2>6, <2>7 DEF AdapterInv
<1>3. CASE ~TriedAgain(class, call[o].attempt)
  <2> DEFINE outcome == OutcomeFor(class, status)
  <2>1. /\ call' = [call EXCEPT ![o] = Idle] /\ UNCHANGED <<line, wire, held>>
        /\ duplicates' = Recorded(o, outcome)
        /\ outcome \in Outcomes
        /\ outcome = "REJECTED" => call[o].reply = "left"
    BY <1>3 DEF Conclude
  <2> HIDE DEF outcome
  <2>2. Idle \in Calls /\ Idle.pc = "idle" /\ Idle.kind = "none" /\ Idle.reply = "none"
    BY DEF Idle, Calls, Kinds
  <2>3. AdapterTyped'
    BY <2>1, <2>2 DEF AdapterInv, AdapterTyped, Recorded
  <2>4. LineInv'
    BY <2>1, LineStays DEF AdapterInv
  <2>5. /\ call'[o] = Idle /\ \A p \in Orders \ {o} : call'[p] = call[p]
        /\ \A p \in Orders \ {o} : duplicates'[p] = duplicates[p]
        /\ duplicates'[o] = IF call[o].kind = "submit" THEN outcome ELSE duplicates[o]
    BY <2>1 DEF AdapterInv, AdapterTyped, Recorded
  <2>6. Fine(o)'
    <3>1. CASE call[o].kind = "submit"
      <4>1. duplicates[o] = "none" /\ duplicates'[o] = outcome /\ outcome # "none"
        BY <1>1, <2>1, <2>5, <3>1 DEF Fine, Outcomes
      <4>2. outcome = "REJECTED" => NotThere(o)
        BY <1>1, <2>1, <4>1 DEF Fine, Unrecorded, NotThere
      <4> QED
        BY <2>1, <2>2, <2>5, <4>1, <4>2 DEF Fine, NotThere
    <3>2. CASE call[o].kind # "submit"
      <4>1. duplicates[o] # "none"
        BY <1>1, <3>2 DEF Fine, Unrecorded
      <4> QED
        BY <1>1, <2>1, <2>2, <2>5, <3>2, <4>1 DEF Fine, NotThere
    <3> QED
      BY <3>1, <3>2
  <2>7. \A p \in Orders \ {o} : Fine(p)'
    BY <2>1, <2>5, OthersStayFine DEF AdapterInv
  <2> QED
    BY <2>3, <2>4, <2>6, <2>7 DEF AdapterInv
<1> QED
  BY <1>2, <1>3

\* Every step of a call, of the venue and of the clock keeps the invariant.
LEMMA AdapterStepKeeps == AdapterInv /\ [AdapterNext]_adapterVars => AdapterInv'
<1> SUFFICES ASSUME AdapterInv, [AdapterNext]_adapterVars PROVE AdapterInv'
  OBVIOUS
<1>1. ASSUME NEW o \in Orders
      PROVE  /\ call[o] \in Calls /\ wire[o] \in Seq(Kinds) /\ Fine(o)
             /\ Idle.kind = "none" /\ Idle.reply = "none"
  BY DEF AdapterInv, AdapterTyped, Idle
<1>2. ASSUME NEW o \in Orders, NEW kind \in Kinds, call[o].pc = "idle", Start(o, kind),
             IF kind = "submit" THEN duplicates[o] = "none" ELSE duplicates[o] # "none"
      PROVE  AdapterInv'
  <2> DEFINE c == [Idle EXCEPT !.pc = "queued", !.kind = kind, !.attempt = 1]
  <2>1. /\ c \in Calls /\ c.pc = "queued" /\ c.kind = kind /\ c.reply = "none"
        /\ kind # "none"
    BY DEF Calls, Kinds, Idle
  <2>2. /\ call' = [call EXCEPT ![o] = c] /\ line' = Append(line, o)
        /\ UNCHANGED <<duplicates, disabled, tokens, wire, held>>
    BY <1>2 DEF Start
  <2> HIDE DEF c
  <2>3. AdapterTyped' /\ call'[o] = c /\ \A p \in Orders \ {o} : call'[p] = call[p]
    BY <2>1, <2>2 DEF AdapterInv, AdapterTyped
  <2>4. LineInv'
    BY <1>2, <2>1, <2>2, LineGrows DEF AdapterInv
  <2>5. Fine(o)'
    BY <1>1, <1>2, <2>1, <2>2, <2>3 DEF Fine, Unrecorded, NotThere
  <2>6. \A p \in Orders \ {o} : Fine(p)'
    BY <2>2, <2>3, OthersStayFine DEF AdapterInv
  <2> QED
    BY <2>3, <2>4, <2>5, <2>6 DEF AdapterInv
<1>3. ASSUME NEW o \in Orders, SubmitOrder(o) \/ CancelOrder(o) \/ QueryOrder(o)
      PROVE  AdapterInv'
  BY <1>2, <1>3 DEF SubmitOrder, CancelOrder, QueryOrder, Kinds
<1>4. ASSUME NEW o \in Orders, AcquireToken(o)
      PROVE  AdapterInv'
  <2> DEFINE c == [call[o] EXCEPT !.pc = "sent"]
  <2>1. /\ c \in Calls /\ c.pc = "sent" /\ c.kind = call[o].kind
        /\ c.reply = call[o].reply
    BY <1>1 DEF Calls
  <2>2. /\ line # <<>> /\ Head(line) = o /\ line' = Tail(line)
        /\ call' = [call EXCEPT ![o] = c]
        /\ wire' = [wire EXCEPT ![o] = Append(wire[o], call[o].kind)]
        /\ UNCHANGED <<duplicates, held>>
    BY <1>4 DEF AcquireToken
  <2> HIDE DEF c
  <2>3. call[o].pc = "queued" /\ LineInv'
    BY <2>2, LineMoves DEF AdapterInv
  <2>4. call[o].kind \in Kinds /\ call[o].kind # "none" /\ call[o].reply = "none"
    BY <1>1, <2>3 DEF Fine, Calls
  <2>5. /\ AdapterTyped' /\ call'[o] = c /\ wire'[o] = Append(wire[o], call[o].kind)
        /\ \A p \in Orders \ {o} : call'[p] = call[p] /\ wire'[p] = wire[p]
    BY <1>1, <2>1, <2>2, <2>4 DEF AdapterInv, AdapterTyped
  <2>6. Fine(o)'
    <3>1. CASE duplicates[o] = "none"
      <4>1. call[o].kind = "submit" /\ wire[o] = <<>> /\ o \notin held
        BY <1>1, <2>3, <3>1 DEF Fine, Unrecorded
      <4>2. wire'[o] = <<"submit">>
        BY <2>5, <4>1
      <4> QED
        BY <2>1, <2>2, <2>4, <2>5, <3>1, <4>1, <4>2 DEF Fine, Unrecorded
    <3>2. CASE duplicates[o] # "none"
      <4>1. call[o].kind # "submit"
        BY <1>1, <3>2 DEF Fine
      <4>2. ASSUME NotThere(o)
            PROVE  NotThere(o)'
        <5>1. /\ Len(wire'[o]) = Len(wire[o]) + 1 /\ wire'[o][Len(wire[o]) + 1] = call[o].kind
              /\ \A n \in 1..Len(wire[o]) : wire'[o][n] = wire[o][n]
              /\ DOMAIN wire'[o] = 1..Len(wire'[o]) /\ DOMAIN wire[o] = 1..Len(wire[o])
          BY <1>1, <2>4, <2>5, AppendProperties
        <5>2. \A n \in DOMAIN wire'[o] : n \in DOMAIN wire[o] \/ n = Len(wire[o]) + 1
          BY <5>1
        <5> QED
          BY <2>2, <4>1, <4>2, <5>1, <5>2 DEF NotThere
      <4> QED
        BY <1>1, <2>1, <2>2, <2>4, <2>5, <3>2, <4>1, <4>2 DEF Fine
    <3> QED
      BY <3>1, <3>2
  <2>7. \A p \in Orders \ {o} : Fine(p)'
    BY <2>2, <2>5, OthersStayFine DEF AdapterInv
  <2> QED
    BY <2>3, <2>5, <2>6, <2>7 DEF AdapterInv
<1>5. ASSUME NEW o \in Orders, AcquireTimesOut(o)
      PROVE  AdapterInv'
  <2>1. /\ line # <<>> /\ Head(line) = o /\ line' = Tail(line)
        /\ call' = [call EXCEPT ![o] = Idle] /\ duplicates' = Recorded(o, "UNKNOWN")
        /\ UNCHANGED <<wire, held>>
    BY <1>5 DEF AcquireTimesOut
  <2>2. call[o].pc = "queued" /\ LineInv'
    BY <2>1, LineMoves DEF AdapterInv
  <2>3. /\ Idle \in Calls /\ Idle.pc = "idle"
    BY DEF Idle, Calls, Kinds
  <2>4. AdapterTyped'
    BY <2>1, <2>3 DEF AdapterInv, AdapterTyped, Recorded, Outcomes
  <2>5. /\ call'[o] = Idle /\ \A p \in Orders \ {o} : call'[p] = call[p]
        /\ \A p \in Orders \ {o} : duplicates'[p] = duplicates[p]
        /\ duplicates'[o] = IF call[o].kind = "submit" THEN "UNKNOWN" ELSE duplicates[o]
    BY <2>1 DEF AdapterInv, AdapterTyped, Recorded
  <2>6. Fine(o)'
    BY <1>1, <2>1, <2>2, <2>3, <2>5 DEF Fine, Unrecorded, NotThere
  <2>7. \A p \in Orders \ {o} : Fine(p)'
    BY <2>1, <2>5, OthersStayFine DEF AdapterInv
  <2> QED
    BY <2>2, <2>4, <2>6, <2>7 DEF AdapterInv
<1>6. ASSUME NEW o \in Orders, Answered(o)
      PROVE  AdapterInv'
  <2>1. PICK a \in Unclear \cup (IF call[o].reply = "took" THEN TookIt ELSE LeftIt) :
          Conclude(o, a.code, a.http200, a.status)
    BY <1>6 DEF Answered
  <2>2. call[o].pc = "sent" /\ call[o].reply \in {"took", "left"} /\ UNCHANGED <<wire, held>>
    BY <1>1, <1>6 DEF Answered, Calls
  <2> DEFINE class == Classify(a.code, a.http200)
  <2>3. CASE a \in Unclear \cup TookIt
    <3>1. class # "BACKOFF" /\ OutcomeFor(class, a.status) \in Outcomes \ {"REJECTED"}
      BY <2>3, AnswersTellRefusals
    <3> QED
      BY <2>1, <2>2, <3>1, ConcludeStaysFine
  <2>4. CASE a \notin Unclear \cup TookIt
    <3>1. a \in LeftIt /\ call[o].reply = "left"
      BY <2>1, <2>2, <2>4
    <3>2. OutcomeFor(class, a.status) \in Outcomes
      BY <3>1, AnswersTellRefusals
    <3> QED
      BY <2>1, <2>2, <3>1, <3>2, ConcludeStaysFine
  <2> QED
    BY <2>3, <2>4
<1>7. ASSUME NEW o \in Orders, RequestTimesOut(o)
      PROVE  AdapterInv'
  <2>1. call[o].pc = "sent" /\ UNCHANGED <<wire, held>> /\ Conclude(o, "timeout", FALSE, "none")
    BY <1>7 DEF RequestTimesOut
  <2>2. OutcomeFor("UNKNOWN", "none") \in Outcomes
    BY AnswersTellRefusals DEF Outcomes
  <2> QED
    BY <2>1, <2>2, AnswersTellRefusals, ConcludeStaysFine
<1>8. ASSUME NEW o \in Orders, BackoffElapsed(o)
      PROVE  AdapterInv'
  <2> DEFINE c == [call[o] EXCEPT !.pc = "queued"]
  <2>1. /\ c \in Calls /\ c.pc = "queued" /\ c.kind = call[o].kind
        /\ c.reply = call[o].reply
    BY <1>1 DEF Calls
  <2>2. /\ call[o].pc = "backoff" /\ line' = Append(line, o)
        /\ call' = [call EXCEPT ![o] = c]
        /\ UNCHANGED <<duplicates, wire, held>>
    BY <1>8 DEF BackoffElapsed
  <2> HIDE DEF c
  <2>3. AdapterTyped' /\ call'[o] = c /\ \A p \in Orders \ {o} : call'[p] = call[p]
    BY <2>1, <2>2 DEF AdapterInv, AdapterTyped
  <2>4. LineInv'
    BY <2>1, <2>2, LineGrows DEF AdapterInv
  <2>5. Fine(o)'
    BY <1>1, <2>1, <2>2, <2>3 DEF Fine, Unrecorded, NotThere
  <2>6. \A p \in Orders \ {o} : Fine(p)'
    BY <2>2, <2>3, OthersStayFine DEF AdapterInv
  <2> QED
    BY <2>3, <2>4, <2>5, <2>6 DEF AdapterInv
<1>9. ASSUME NEW o \in Orders, Deliver(o)
      PROVE  AdapterInv'
  <2>1. PICK took \in BOOLEAN :
          /\ held' = CASE took /\ Head(wire[o]) = "submit" -> held \cup {o}
                       [] took /\ Head(wire[o]) = "cancel" -> held \ {o}
                       [] OTHER -> held
          /\ call' = IF call[o].pc = "sent" /\ Len(wire[o]) = 1
                     THEN [call EXCEPT ![o].reply = IF took THEN "took" ELSE "left"]
                     ELSE call
    BY <1>9 DEF Deliver
  <2>2. /\ wire[o] # <<>> /\ wire' = [wire EXCEPT ![o] = Tail(wire[o])]
        /\ UNCHANGED <<duplicates, line>>
    BY <1>9 DEF Deliver
  <2>3. /\ Tail(wire[o]) \in Seq(Kinds) /\ Len(Tail(wire[o])) = Len(wire[o]) - 1
        /\ Len(wire[o]) \in Nat \ {0}
        /\ \A n \in 1..Len(Tail(wire[o])) : Tail(wire[o])[n] = wire[o][n + 1]
        /\ Head(wire[o]) = wire[o][1]
    BY <1>1, <2>2, HeadTailProperties, EmptySeq
  <2>4. /\ wire'[o] = Tail(wire[o]) /\ \A p \in Orders \ {o} : wire'[p] = wire[p]
        /\ \A p \in Orders \ {o} : p \in held' <=> p \in held
        /\ \A p \in Orders \ {o} : call'[p] = call[p]
    BY <2>1, <2>2 DEF AdapterInv, AdapterTyped
  <2>5. call'[o] \in Calls /\ call'[o].pc = call[o].pc /\ call'[o].kind = call[o].kind
    BY <1>1, <2>1 DEF AdapterInv, AdapterTyped, Calls
  <2>6. AdapterTyped'
    BY <1>1, <2>1, <2>2, <2>3, <2>5 DEF AdapterInv, AdapterTyped, Calls
  <2>7. LineInv'
    BY <2>1, <2>2, <2>4, <2>5 DEF AdapterInv, AdapterTyped, LineInv
  <2>8. Fine(o)'
    <3>1. CASE duplicates[o] = "none"
      <4>1. /\ call[o].pc = "sent" /\ wire[o] = <<"submit">> /\ o \notin held
            /\ call[o].kind = "submit"
        BY <1>1, <2>2, <3>1 DEF Fine, Unrecorded
      <4>2. Len(wire[o]) = 1 /\ Head(wire[o]) = "submit" /\ Tail(wire[o]) = <<>>
        BY <4>1
      <4>3. /\ call'[o].reply = IF took THEN "took" ELSE "left"
            /\ held' = IF took THEN held \cup {o} ELSE held
        BY <1>1, <2>1, <4>1, <4>2 DEF Calls, AdapterInv, AdapterTyped
      <4> QED
        BY <2>2, <2>4, <2>5, <3>1, <4>1, <4>2, <4>3 DEF Fine, Unrecorded
    <3>2. CASE duplicates[o] # "none"
      <4>1. ASSUME NotThere(o)
            PROVE  NotThere(o)'
        <5>1. Head(wire[o]) # "submit" /\ \A n \in 1..Len(Tail(wire[o])) : Tail(wire[o])[n] # "submit"
          <6>1. DOMAIN wire[o] = 1..Len(wire[o])
            BY <1>1
          <6>2. 1 \in DOMAIN wire[o] /\ \A n \in 1..Len(Tail(wire[o])) : n + 1 \in DOMAIN wire[o]
            BY <2>3, <6>1
          <6> QED
            BY <2>3, <4>1, <6>2 DEF NotThere
        <5>2. DOMAIN Tail(wire[o]) = 1..Len(Tail(wire[o]))
          BY <2>3
        <5>3. o \notin held'
          BY <2>1, <4>1, <5>1 DEF NotThere
        <5> QED
          BY <2>4, <5>1, <5>2, <5>3 DEF NotThere
      <4>2. call[o].pc # "sent" => call'[o].reply = call[o].reply
        BY <2>1
      <4> QED
        BY <1>1, <2>2, <2>5, <3>2, <4>1, <4>2 DEF Fine
    <3> QED
      BY <3>1, <3>2
  <2>9. \A p \in Orders \ {o} : Fine(p)'
    BY <2>2, <2>4, OthersStayFine DEF AdapterInv
  <2> QED
    BY <2>6, <2>7, <2>8, <2>9 DEF AdapterInv
<1>10. CASE Refill \/ UNCHANGED adapterVars
  BY <1>10 DEF Refill, adapterVars, AdapterInv, AdapterTyped, LineInv, Fine, Unrecorded,
     NotThere
<1> QED
  BY <1>3, <1>4, <1>5, <1>6, <1>7, <1>8, <1>9, <1>10 DEF AdapterNext, AdapterStep

\* A submission recorded as REJECTED was not taken by the venue and no request
\* of it is still travelling, whatever is lost, late or tried again.
THEOREM RefusedIsNowhere == AdapterSpec => []RefusalMeansNoOrder
<1>1. AdapterInit => AdapterInv
  BY DEF AdapterInit, AdapterInv, AdapterTyped, LineInv, Fine, Unrecorded, Idle, Calls, Kinds
<1>2. AdapterInv => RefusalMeansNoOrder
  BY DEF AdapterInv, Fine, NotThere, RefusalMeansNoOrder
<1> QED
  BY <1>1, <1>2, AdapterStepKeeps, PTL DEF AdapterSpec
-----------------------------------------------------------------------------
(* The reconciliation of a boot.                                           *)

BootSpec == BootInit /\ [][BootNext]_bootVars

\* The names under which the two sides, as they were read, disagree.
ApartAsRead == Disagreeing(ledgerRead, venueRead)

\* What a verdict that allows trades rests on.
Grounds ==
  AdapterWired /\ ordersKnown /\ ApartAsRead = {} /\ ledgerRead = netLedger

Reconciling == {"ask_positions", "ask_orders", "compare"}

BootReads ==
  /\ positionsShown /\ settled => venueRead = netVenue
  /\ bootAt \in Reconciling => ledgerRead = netLedger /\ AdapterWired

BootPlace ==
  /\ bootAt = "self_test" =>
       ~ordersKnown /\ recovery = "none" /\ bootState \in {"STARTING", "SELF_TEST"}
  /\ bootAt \in Reconciling \cup {"read_ledger"} =>
       recovery \in {"none", "running"} /\ (recovery = "none" => bootState = "RECONCILING")
  /\ bootAt = "verdict" => recovery = "none"
  /\ bootAt = "recheck" => recovery = "running" /\ (recoveryChecks => Grounds)

BootVerdicts ==
  /\ bootState = "READY" => bootAt = "verdict" /\ Grounds
  /\ recovery = "RESUME" => bootAt = "recovered" /\ Grounds
  /\ (bootAt = "verdict" /\ bootState = "RECOVERY_REQUIRED" /\ ordersKnown) =>
       ApartAsRead # {} /\ ApartAsRead \subseteq corrections

BootInv == BootReads /\ BootPlace /\ BootVerdicts

LEMMA ReconcilingEnds ==
  /\ BootTransitions["RECONCILING"]["RECONCILE_MATCH"] = "READY"
  /\ BootTransitions["RECONCILING"]["RECONCILE_DIVERGENCE"] = "RECOVERY_REQUIRED"
  /\ BootTransitions["RECONCILING"]["DEPENDENCY_UNAVAILABLE"] = "DEGRADED"
BY DEF BootTransitions

\* What reconcile_boot returns ends the boot in a verdict, or is one of the
\* checks of a recovery.
LEMMA ReturnsAreChecked ==
  ASSUME NEW agree \in BOOLEAN, NEW trigger, ReconcileReturns(agree, trigger)
  PROVE  \/ /\ recovery = "running" /\ recovery' = "running" /\ bootAt' = "recheck"
            /\ bootState' = bootState /\ (recoveryChecks' => agree)
         \/ /\ recovery # "running" /\ recovery' = recovery /\ bootAt' = "verdict"
            /\ bootState' = BootTransitions[bootState][trigger]
<1>1. CASE recovery = "running"
  <2>1. recoveryChecks' = (recoveryChecks /\ agree)
    BY <1>1 DEF ReconcileReturns
  <2>2. recoveryChecks' => agree
    BY <2>1, Zenon
  <2> QED
    BY <1>1, <2>2 DEF ReconcileReturns
<1>2. CASE recovery # "running"
  BY <1>2 DEF ReconcileReturns, BootAdvance, recoveryVars
<1> QED
  BY <1>1, <1>2

LEMMA BootStepKeeps == BootInv /\ [BootNext]_bootVars => BootInv'
<1> SUFFICES ASSUME BootInv, [BootNext]_bootVars PROVE BootInv'
  OBVIOUS
<1> USE DEF BootInv
<1>1. ASSUME UNCHANGED <<ledgerRead, venueRead>>
      PROVE  ApartAsRead' = ApartAsRead
  BY <1>1 DEF ApartAsRead
<1>2. ASSUME UNCHANGED <<ledgerRead, venueRead, ordersKnown, netLedger>>
      PROVE  Grounds' = Grounds
  BY <1>1, <1>2 DEF Grounds
<1>3. CASE SelfTestBegins
  BY <1>1, <1>2, <1>3 DEF SelfTestBegins, BootAdvance, BootTransitions, BootReads, BootPlace,
     BootVerdicts, Reconciling, bootLocals, recoveryVars, bootHistory
<1>4. CASE SelfTestEnds
  <2>1. /\ bootAt = "self_test" /\ bootState = "SELF_TEST" /\ ~ordersKnown /\ recovery = "none"
        /\ UNCHANGED <<ledgerRead, venueRead, ordersKnown, netLedger, netVenue, corrections,
                       positionsShown, settled, recovery, recoveryChecks>>
        /\ bootAt' = IF bootState' = "RECONCILING" THEN "read_ledger" ELSE "verdict"
    BY <1>4 DEF SelfTestEnds, BootPlace, bootLocals, recoveryVars, bootHistory
  <2>2. bootState' \in {"RECONCILING", "RECOVERY_REQUIRED", "DEGRADED"}
    <3>1. PICK checks : BootAdvance(SelfTestTrigger(checks))
      BY <1>4 DEF SelfTestEnds
    <3>2. SelfTestTrigger(checks) \in {"SELF_TEST_FAIL", "SELF_TEST_PASS", "DRIFT_BEYOND_TOLERANCE"}
      BY DEF SelfTestTrigger
    <3> QED
      BY <2>1, <3>1, <3>2 DEF BootAdvance, BootTransitions
  <2> QED
    BY <1>1, <1>2, <2>1, <2>2 DEF BootReads, BootPlace, BootVerdicts, Reconciling
<1>5. CASE ReadLedger
  <2>1. /\ bootAt = "read_ledger" /\ ledgerRead' = netLedger
        /\ UNCHANGED <<venueRead, ordersKnown, netLedger, netVenue, corrections, positionsShown,
                       settled>>
    BY <1>5 DEF ReadLedger, bootHistory
  <2>2. BootReads'
    BY <1>5, <2>1 DEF ReadLedger, ReconcileReturns, BootReads, Reconciling
  <2>3. /\ recovery \in {"none", "running"} /\ (recovery = "none" => bootState = "RECONCILING")
        /\ bootState # "READY"
    BY <2>1 DEF BootPlace, BootVerdicts
  <2>4. CASE AdapterWired
    BY <1>5, <2>1, <2>2, <2>3, <2>4
       DEF ReadLedger, BootPlace, BootVerdicts, Reconciling, recoveryVars
  <2>5. CASE ~AdapterWired
    <3>1. ReconcileReturns(FALSE, "DEPENDENCY_UNAVAILABLE")
      BY <1>5, <2>5 DEF ReadLedger
    <3>2. (bootState' # "READY" /\ bootState' # "RECOVERY_REQUIRED") \/ bootAt' = "recheck"
      BY <2>3, <3>1, ReturnsAreChecked, ReconcilingEnds
    <3> QED
      BY <2>1, <2>2, <2>3, <3>1, <3>2, ReturnsAreChecked
         DEF BootPlace, BootVerdicts, Reconciling
  <2> QED
    BY <2>4, <2>5
<1>6. CASE AskPositions
  <2>1. PICK answer \in Answers : /\ venueRead' = IF answer = "answered" THEN netVenue ELSE Flat
                                  /\ positionsShown' = (answer = "answered")
    BY <1>6 DEF AskPositions
  <2>2. /\ bootAt = "ask_positions" /\ bootAt' = "ask_orders"
        /\ UNCHANGED <<bootState, ledgerRead, netLedger, netVenue, corrections, recovery,
                       recoveryChecks>>
    BY <1>6 DEF AskPositions, recoveryVars
  <2>3. positionsShown' => venueRead' = netVenue'
    BY <2>1, <2>2
  <2> QED
    BY <2>2, <2>3 DEF BootReads, BootPlace, BootVerdicts, Reconciling
<1>7. CASE AskOrders
  BY <1>1, <1>2, <1>7 DEF AskOrders, BootReads, BootPlace, BootVerdicts, Reconciling, recoveryVars,
     bootHistory
<1>8. CASE CompareUnknown
  <2>1. /\ bootAt = "compare" /\ ~ordersKnown /\ ReconcileReturns(FALSE, "RECONCILE_DIVERGENCE")
        /\ UNCHANGED <<ledgerRead, venueRead, ordersKnown, netLedger, netVenue, corrections,
                       positionsShown, settled>>
    BY <1>8 DEF CompareUnknown, bootLocals, bootHistory
  <2>2. /\ recovery \in {"none", "running"} /\ (recovery = "none" => bootState = "RECONCILING")
        /\ bootState # "READY"
    BY <2>1 DEF BootPlace, BootVerdicts, Reconciling
  <2>3. BootReads'
    BY <2>1, ReturnsAreChecked DEF BootReads, Reconciling
  <2> QED
    BY <2>1, <2>2, <2>3, ReturnsAreChecked, ReconcilingEnds
       DEF BootPlace, BootVerdicts, Reconciling
<1>9. CASE CompareEnds
  <2>1. /\ bootAt = "compare" /\ ordersKnown /\ ApartAsRead \subseteq corrections
        /\ UNCHANGED <<ledgerRead, venueRead, ordersKnown, netLedger, netVenue, corrections,
                       positionsShown, settled>>
        /\ ReconcileReturns(ApartAsRead = {}, IF ApartAsRead = {} THEN "RECONCILE_MATCH"
                                                   ELSE "RECONCILE_DIVERGENCE")
    BY <1>9 DEF CompareEnds, bootLocals, bootHistory, Deltas, ApartAsRead
  <2>2. /\ recovery \in {"none", "running"} /\ (recovery = "none" => bootState = "RECONCILING")
        /\ bootState # "READY" /\ (ApartAsRead = {} => Grounds)
    BY <2>1 DEF BootReads, BootPlace, BootVerdicts, Reconciling, Grounds
  <2>3. ApartAsRead' = ApartAsRead /\ Grounds' = Grounds
    BY <1>1, <1>2, <2>1
  <2>4. BootReads'
    BY <2>1, ReturnsAreChecked DEF BootReads, Reconciling
  <2>5. CASE recovery = "running"
    BY <2>1, <2>2, <2>3, <2>5, ReturnsAreChecked, <2>4 DEF BootPlace, BootVerdicts, Reconciling
  <2>6. CASE recovery = "none"
    <3>1. bootState' = IF ApartAsRead = {} THEN "READY" ELSE "RECOVERY_REQUIRED"
      <4>1. CASE ApartAsRead = {}
        <5>1. ReconcileReturns(TRUE, "RECONCILE_MATCH")
          BY <2>1, <4>1
        <5> QED
          BY <2>2, <2>6, <4>1, <5>1, ReturnsAreChecked, ReconcilingEnds
      <4>2. CASE ApartAsRead # {}
        <5>1. ReconcileReturns(FALSE, "RECONCILE_DIVERGENCE")
          BY <2>1, <4>2
        <5> QED
          BY <2>2, <2>6, <4>2, <5>1, ReturnsAreChecked, ReconcilingEnds
      <4> QED
        BY <4>1, <4>2
    <3> QED
      BY <2>1, <2>2, <2>3, <2>4, <2>6, <3>1, ReturnsAreChecked
         DEF BootPlace, BootVerdicts, Reconciling
  <2> QED
    BY <2>2, <2>5, <2>6
<1>10. ASSUME NEW name, RecordDelta(name)
       PROVE  BootInv'
  BY <1>1, <1>2, <1>10 DEF RecordDelta, BootReads, BootPlace, BootVerdicts, Reconciling,
     bootLocals, recoveryVars, bootHistory
<1>11. CASE RecoveryBegins
  BY <1>1, <1>2, <1>11 DEF RecoveryBegins, BootReads, BootPlace, BootVerdicts, Reconciling, bootLocals
<1>12. CASE RecoveryEnds
  <2>1. /\ bootAt = "recheck" /\ bootAt' = "recovered" /\ recovery = "running"
        /\ recovery' \in {"RESUME", "HALT_AND_ESCALATE_MANUAL"}
        /\ recovery' = "RESUME" => recoveryChecks
        /\ UNCHANGED <<bootState, ledgerRead, venueRead, ordersKnown, netLedger, netVenue,
                       corrections, positionsShown, settled>>
    BY <1>12 DEF RecoveryEnds, BootPlace, bootLocals, bootHistory
  <2>2. recoveryChecks => Grounds
    BY <2>1 DEF BootPlace
  <2> QED
    BY <1>1, <1>2, <2>1, <2>2 DEF BootReads, BootPlace, BootVerdicts, Reconciling
<1>13. CASE RestingOrderFills
  BY <1>1, <1>2, <1>13 DEF RestingOrderFills, BootReads, BootPlace, BootVerdicts, Reconciling,
     bootLocals, recoveryVars
<1>14. CASE BootAgain
  BY <1>14 DEF BootAgain, BootReads, BootPlace, BootVerdicts, Reconciling
<1>15. CASE UNCHANGED bootVars
  BY <1>1, <1>2, <1>15 DEF bootVars, bootLocals, bootHistory, recoveryVars, BootReads, BootPlace, BootVerdicts
<1> QED
  BY <1>3, <1>4, <1>5, <1>6, <1>7, <1>8, <1>9, <1>10, <1>11, <1>12, <1>13, <1>14, <1>15
     DEF BootNext, BootStep

\* A boot allows trades, and a recovery resumes, only when both sides agreed under
\* every name either uses, as they were read and, unless the venue refused to show
\* its positions, in truth; a boot is kept from READY by a divergence only if there
\* is one, with its correction on record.  For every set of contracts and names,
\* positions, tolerance, number of boots, refused and unknown answers, and fills at
\* any point (src/apex/execution/fsm.py StartupReconciliation).
THEOREM VerdictsAreTrue == BootSpec => []VerdictIsTrue
<1>1. BootInit => BootInv
  BY DEF BootInit, BootInv, BootReads, BootPlace, BootVerdicts, Reconciling
<1>2. BootInv /\ [BootNext]_bootVars => BootInv'
  BY BootStepKeeps
<1>3. BootInv => VerdictIsTrue
  BY DEF BootInv, BootReads, BootVerdicts, VerdictIsTrue, Grounded, TradingEnabled, Grounds,
     ApartAsRead
<1> QED
  BY <1>1, <1>2, <1>3, PTL DEF BootSpec
=============================================================================
