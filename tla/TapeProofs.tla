----------------------------- MODULE TapeProofs ------------------------------
(***************************************************************************)
(* What E06, E07, E11 and E12 say of the tape they were fed is right:      *)
(* blocks, verdicts, regimes and the journal of the day.                   *)
(***************************************************************************)
EXTENDS EngineProofs

-----------------------------------------------------------------------------
(* E06.  Lists of blocks are taken apart, ordered and put together again;  *)
(* what is kept in view is which names a list holds, each of them once.    *)

BlockSpec == BlockInit /\ [][BlockNext]_blockVars

BlockRow(b) == {"name", "fate", "salience"} \subseteq DOMAIN b /\ b.salience \in Int

BlockRows(s) ==
  /\ IsSeq(s) /\ Len(s) \in Nat /\ DOMAIN s = 1 .. Len(s)
  /\ \A n \in DOMAIN s : BlockRow(s[n])

\* A list holds a block of each of some names, and no other.
HoldsNames(s, N) ==
  /\ BlockRows(s)
  /\ \A m, n \in DOMAIN s : s[m].name = s[n].name => m = n
  /\ NamesOf(s) = N

NamesAt(s, I) == {s[i].name : i \in I}

\* t is what stands at the places I of s.
TakenFrom(t, s, I) ==
  /\ HoldsNames(t, NamesAt(s, I))
  /\ \A n \in DOMAIN t : \E i \in I : t[n] = s[i]
  /\ \A i \in I : \E n \in DOMAIN t : t[n] = s[i]

\* A rank gives the places of a set the numbers from 1 on.
Ranks(rank, I) ==
  /\ IsFiniteSet(I) /\ Cardinality(I) \in Nat /\ DOMAIN rank = I
  /\ \A i \in I : rank[i] \in 1 .. Cardinality(I)
  /\ \A i, j \in I : rank[i] = rank[j] => i = j
  /\ \A n \in 1 .. Cardinality(I) : \E i \in I : rank[i] = n

\* Of each place the places up to it, in some order of them all.
Orders(D, I) ==
  /\ IsFiniteSet(I) /\ DOMAIN D = I
  /\ \A i \in I : D[i] \in SUBSET I /\ i \in D[i]
  /\ \A i, j \in I : D[i] \subseteq D[j] \/ D[j] \subseteq D[i]
  /\ \A i, j \in I : D[i] = D[j] => i = j

LEMMA OrderRanks ==
  ASSUME NEW I, NEW D, Orders(D, I), NEW rank, rank = [i \in I |-> Cardinality(D[i])]
  PROVE  Ranks(rank, I)
<1>1. IsFiniteSet(I) /\ Cardinality(I) \in Nat
  BY FS_CardinalityType DEF Orders
<1>2. ASSUME NEW i \in I
      PROVE  /\ IsFiniteSet(D[i]) /\ Cardinality(D[i]) \in Nat /\ Cardinality(D[i]) <= Cardinality(I)
             /\ Cardinality(D[i]) # 0
  <2>1. D[i] \subseteq I /\ i \in D[i]
    BY DEF Orders
  <2>2. IsFiniteSet(D[i]) /\ Cardinality(D[i]) <= Cardinality(I)
    BY <1>1, <2>1, FS_Subset
  <2>3. Cardinality(D[i]) \in Nat /\ (Cardinality(D[i]) = 0 <=> D[i] = {})
    BY <2>2, FS_CardinalityType, FS_EmptySet
  <2> QED
    BY <2>1, <2>2, <2>3
<1>3. \A i \in I : rank[i] \in 1 .. Cardinality(I)
  BY <1>1, <1>2
<1>4. ASSUME NEW i \in I, NEW j \in I, Cardinality(D[i]) = Cardinality(D[j])
      PROVE  i = j
  <2>1. CASE D[i] \subseteq D[j]
    <3>1. D[i] = D[j]
      BY <1>2, <1>4, <2>1, FS_Subset
    <3> QED
      BY <3>1 DEF Orders
  <2>2. CASE D[j] \subseteq D[i]
    <3>1. D[i] = D[j]
      BY <1>2, <1>4, <2>2, FS_Subset
    <3> QED
      BY <3>1 DEF Orders
  <2> QED
    BY <2>1, <2>2 DEF Orders
<1>5. \A i, j \in I : rank[i] = rank[j] => i = j
  BY <1>4
<1>6. rank \in Injection(I, 1 .. Cardinality(I))
  <2>1. rank \in [I -> 1 .. Cardinality(I)]
    BY <1>3
  <2> QED
    BY <1>3, <1>5, <2>1 DEF Injection, IsInjective
<1>7. IsFiniteSet(1 .. Cardinality(I)) /\ Cardinality(1 .. Cardinality(I)) = Cardinality(I)
  BY <1>1, FS_Interval
<1>8. rank \in Surjection(I, 1 .. Cardinality(I))
  BY <1>1, <1>6, <1>7, FS_Injection
<1>9. \A n \in 1 .. Cardinality(I) : \E i \in I : rank[i] = n
  BY <1>8 DEF Surjection
<1> QED
  BY <1>1, <1>3, <1>5, <1>9 DEF Ranks

LEMMA ArrangedTakes ==
  ASSUME NEW s, NEW N, HoldsNames(s, N), NEW I \in SUBSET DOMAIN s, NEW rank, Ranks(rank, I)
  PROVE  TakenFrom(Arranged(s, rank), s, I)
<1>1. PICK m \in Nat : m = Cardinality(I)
  BY DEF Ranks
<1> DEFINE at(n) == CHOOSE i \in DOMAIN rank : rank[i] = n
<1>2. \A n \in 1 .. m : at(n) \in I /\ rank[at(n)] = n
  BY <1>1 DEF Ranks
<1>3. \A i \in I : rank[i] \in 1 .. m /\ at(rank[i]) = i
  BY <1>1, <1>2 DEF Ranks
<1>4. PICK t : t = Arranged(s, rank)
  OBVIOUS
<1>5. t = [n \in 1 .. m |-> s[at(n)]]
  BY <1>1, <1>4 DEF Arranged, Ranks
<1> HIDE DEF at
<1>6. IsSeq(t) /\ Len(t) = m /\ DOMAIN t = 1 .. m
  <2>1. PICK S : S = {s[i] : i \in I}
    OBVIOUS
  <2>2. t \in Seq(S) /\ Len(t) = m /\ DOMAIN t = 1 .. m
    BY <1>2, <1>5, <2>1
  <2> QED
    BY <2>2, Zenon DEF IsSeq
<1>7. \A n \in 1 .. m : t[n] = s[at(n)]
  BY <1>5
<1>8. \A i \in I : i \in DOMAIN s /\ BlockRow(s[i])
  BY DEF HoldsNames, BlockRows
<1>9. BlockRows(t)
  BY <1>1, <1>2, <1>6, <1>7, <1>8 DEF BlockRows
<1>10. \A k, n \in DOMAIN t : t[k].name = t[n].name => k = n
  <2> TAKE k, n \in DOMAIN t
  <2> HAVE t[k].name = t[n].name
  <2>1. at(k) \in I /\ at(n) \in I /\ rank[at(k)] = k /\ rank[at(n)] = n /\ t[k] = s[at(k)] /\ t[n] = s[at(n)]
    BY <1>2, <1>6, <1>7
  <2>2. at(k) = at(n)
    BY <1>8, <2>1 DEF HoldsNames
  <2> QED
    BY <2>1, <2>2
<1>11. \A n \in DOMAIN t : \E i \in I : t[n] = s[i]
  BY <1>2, <1>6, <1>7
<1>12. \A i \in I : \E n \in DOMAIN t : t[n] = s[i]
  BY <1>3, <1>6, <1>7
<1>13. NamesOf(t) = NamesAt(s, I)
  BY <1>11, <1>12 DEF NamesOf, NamesAt
<1>14. HoldsNames(t, NamesAt(s, I))
  BY <1>9, <1>10, <1>13 DEF HoldsNames
<1> QED
  BY <1>4, <1>11, <1>12, <1>14 DEF TakenFrom

\* Filtering a list takes the places filtered.
LEMMA PickedTakes ==
  ASSUME NEW s, NEW N, HoldsNames(s, N), NEW I \in SUBSET DOMAIN s
  PROVE  TakenFrom(Picked(s, I), s, I)
<1>1. I \subseteq Nat /\ IsFiniteSet(I)
  <2>1. DOMAIN s = 1 .. Len(s) /\ Len(s) \in Nat
    BY DEF HoldsNames, BlockRows
  <2>2. IsFiniteSet(1 .. Len(s))
    BY <2>1, FS_Interval
  <2> QED
    BY <2>1, <2>2, FS_Subset
<1> DEFINE D == [i \in I |-> {j \in I : j <= i}]
<1>2. Orders(D, I)
  <2>1. \A i \in I : D[i] \in SUBSET I /\ i \in D[i]
    BY <1>1
  <2>2. \A i, j \in I : D[i] \subseteq D[j] \/ D[j] \subseteq D[i]
    <3> TAKE i, j \in I
    <3>1. i \in Nat /\ j \in Nat
      BY <1>1
    <3>2. CASE i <= j
      BY <1>1, <3>1, <3>2
    <3>3. CASE j <= i
      BY <1>1, <3>1, <3>3
    <3> QED
      BY <3>1, <3>2, <3>3
  <2>3. \A i, j \in I : D[i] = D[j] => i = j
    <3> TAKE i, j \in I
    <3> HAVE D[i] = D[j]
    <3>1. i \in D[j] /\ j \in D[i]
      BY <2>1
    <3>2. i <= j /\ j <= i
      BY <3>1
    <3> QED
      BY <1>1, <3>2
  <2> QED
    BY <1>1, <2>1, <2>2, <2>3 DEF Orders
<1>3. PICK rank : rank = [i \in I |-> Cardinality({j \in I : j <= i})]
  OBVIOUS
<1>4. Ranks(rank, I)
  <2>1. rank = [i \in I |-> Cardinality(D[i])]
    BY <1>3
  <2> HIDE DEF D
  <2> QED
    BY <1>2, <2>1, OrderRanks
<1>5. Picked(s, I) = Arranged(s, rank)
  BY <1>3 DEF Picked
<1> QED
  BY <1>4, <1>5, ArrangedTakes

\* Sorting a list loses none of it.
LEMMA SortedTakes ==
  ASSUME NEW s, NEW N, HoldsNames(s, N)
  PROVE  TakenFrom(Sorted(s), s, DOMAIN s)
<1>1. PICK I : I = DOMAIN s
  OBVIOUS
<1>2. /\ I \subseteq Nat /\ IsFiniteSet(I)
      /\ \A i \in I : s[i].salience \in Int
  <2>1. DOMAIN s = 1 .. Len(s) /\ Len(s) \in Nat
    BY DEF HoldsNames, BlockRows
  <2>2. IsFiniteSet(1 .. Len(s))
    BY <2>1, FS_Interval
  <2>3. \A i \in I : s[i].salience \in Int
    BY <1>1 DEF HoldsNames, BlockRows, BlockRow
  <2> QED
    BY <1>1, <2>1, <2>2, <2>3
<1>3. /\ \A i \in I : Stronger(s, i, i)
      /\ \A i, j \in I : Stronger(s, i, j) \/ Stronger(s, j, i)
      /\ \A i, j \in I : Stronger(s, i, j) /\ Stronger(s, j, i) => i = j
      /\ \A i, j, k \in I : Stronger(s, i, j) /\ Stronger(s, j, k) => Stronger(s, i, k)
  BY <1>2 DEF Stronger
<1> DEFINE D == [i \in I |-> {j \in I : Stronger(s, j, i)}]
<1>4. Orders(D, I)
  <2>1. \A i \in I : D[i] \in SUBSET I /\ i \in D[i]
    BY <1>3
  <2>2. \A i, j \in I : D[i] \subseteq D[j] \/ D[j] \subseteq D[i]
    <3> TAKE i, j \in I
    <3>1. CASE Stronger(s, i, j)
      <4>1. D[i] \subseteq D[j]
        BY <1>3, <3>1
      <4> QED
        BY <4>1
    <3>2. CASE Stronger(s, j, i)
      <4>1. D[j] \subseteq D[i]
        BY <1>3, <3>2
      <4> QED
        BY <4>1
    <3> QED
      BY <1>3, <3>1, <3>2
  <2>3. \A i, j \in I : D[i] = D[j] => i = j
    <3> TAKE i, j \in I
    <3> HAVE D[i] = D[j]
    <3>1. i \in D[j] /\ j \in D[i]
      BY <2>1
    <3>2. Stronger(s, i, j) /\ Stronger(s, j, i)
      BY <3>1
    <3> QED
      BY <1>3, <3>2
  <2> QED
    BY <1>2, <2>1, <2>2, <2>3 DEF Orders
<1>5. PICK rank : rank = [i \in DOMAIN s |-> Cardinality({j \in DOMAIN s : Stronger(s, j, i)})]
  OBVIOUS
<1>6. Ranks(rank, I)
  <2>1. rank = [i \in I |-> Cardinality(D[i])]
    BY <1>1, <1>5
  <2> HIDE DEF D
  <2> QED
    BY <1>4, <2>1, OrderRanks
<1>7. Sorted(s) = Arranged(s, rank)
  BY <1>5 DEF Sorted
<1> QED
  BY <1>1, <1>6, <1>7, ArrangedTakes

\* One list after another.
ComesAfter(u, s, t) ==
  /\ \A n \in DOMAIN u : (\E i \in DOMAIN s : u[n] = s[i]) \/ (\E i \in DOMAIN t : u[n] = t[i])
  /\ \A i \in DOMAIN s : \E n \in DOMAIN u : u[n] = s[i]
  /\ \A i \in DOMAIN t : \E n \in DOMAIN u : u[n] = t[i]

LEMMA JoinedHolds ==
  ASSUME NEW s, NEW A, HoldsNames(s, A), NEW t, NEW B, HoldsNames(t, B), A \cap B = {}
  PROVE  HoldsNames(s \o t, A \cup B) /\ ComesAfter(s \o t, s, t)
<1>1. PICK S : s \in Seq(S)
  BY DEF HoldsNames, BlockRows, IsSeq
<1>2. PICK T : t \in Seq(T)
  BY DEF HoldsNames, BlockRows, IsSeq
<1>3. PICK u : u = s \o t
  OBVIOUS
<1>4. PICK a \in Nat : a = Len(s)
  BY <1>1
<1>5. PICK b \in Nat : b = Len(t)
  BY <1>2
<1>6. s \in Seq(S \cup T) /\ t \in Seq(S \cup T)
  <2>1. DOMAIN s = 1 .. a /\ \A i \in 1 .. a : s[i] \in S \cup T
    BY <1>1, <1>4
  <2>2. DOMAIN t = 1 .. b /\ \A i \in 1 .. b : t[i] \in S \cup T
    BY <1>2, <1>5
  <2>3. s = [i \in 1 .. a |-> s[i]]
    BY <1>1, <1>4
  <2>4. t = [i \in 1 .. b |-> t[i]]
    BY <1>2, <1>5
  <2>5. s \in Seq(S \cup T)
    BY <2>1, <2>3
  <2>6. t \in Seq(S \cup T)
    BY <2>2, <2>4
  <2> QED
    BY <2>5, <2>6
<1>7. /\ u \in Seq(S \cup T) /\ Len(u) = a + b
      /\ \A i \in 1 .. a + b : u[i] = IF i <= a THEN s[i] ELSE t[i - a]
  BY <1>3, <1>4, <1>5, <1>6, ConcatProperties
<1>8. DOMAIN u = 1 .. a + b /\ DOMAIN s = 1 .. a /\ DOMAIN t = 1 .. b
  BY <1>1, <1>2, <1>4, <1>5, <1>7
<1>9. \A n \in DOMAIN u : \/ n \in DOMAIN s /\ u[n] = s[n]
                          \/ n \notin DOMAIN s /\ n - a \in DOMAIN t /\ u[n] = t[n - a]
  BY <1>7, <1>8
<1>10. /\ \A i \in DOMAIN s : i \in DOMAIN u /\ u[i] = s[i]
       /\ \A i \in DOMAIN t : i + a \in DOMAIN u /\ u[i + a] = t[i]
  <2>1. \A i \in 1 .. b : i + a \in 1 .. a + b /\ ~(i + a <= a) /\ (i + a) - a = i
    OBVIOUS
  <2> QED
    BY <1>7, <1>8, <2>1
<1>11. ComesAfter(u, s, t)
  BY <1>9, <1>10 DEF ComesAfter
<1>12. \A n \in DOMAIN u : BlockRow(u[n])
  BY <1>9 DEF HoldsNames, BlockRows
<1>13. BlockRows(u)
  <2>1. IsSeq(u)
    BY <1>7, Zenon DEF IsSeq
  <2> QED
    BY <1>7, <1>8, <1>12, <2>1 DEF BlockRows
<1>14. \A i \in DOMAIN s : s[i].name \in A
  BY DEF HoldsNames, NamesOf
<1>15. \A i \in DOMAIN t : t[i].name \in B
  BY DEF HoldsNames, NamesOf
<1>16. ASSUME NEW m \in DOMAIN u, NEW n \in DOMAIN u, u[m].name = u[n].name
       PROVE  m = n
  <2>1. CASE m \in DOMAIN s /\ n \in DOMAIN s
    <3>1. s[m].name = s[n].name
      BY <1>10, <1>16, <2>1
    <3> QED
      BY <2>1, <3>1 DEF HoldsNames
  <2>2. CASE m \notin DOMAIN s /\ n \notin DOMAIN s
    <3>1. m - a \in DOMAIN t /\ n - a \in DOMAIN t /\ t[m - a].name = t[n - a].name
      BY <1>9, <1>16, <2>2
    <3>2. m - a = n - a
      BY <3>1 DEF HoldsNames
    <3> QED
      BY <1>8, <3>2
  <2>3. CASE m \in DOMAIN s /\ n \notin DOMAIN s
    <3>1. u[m].name \in A /\ u[n].name \in B
      BY <1>9, <1>14, <1>15, <2>3
    <3> QED
      BY <1>16, <3>1
  <2>4. CASE m \notin DOMAIN s /\ n \in DOMAIN s
    <3>1. u[m].name \in B /\ u[n].name \in A
      BY <1>9, <1>14, <1>15, <2>4
    <3> QED
      BY <1>16, <3>1
  <2> QED
    BY <2>1, <2>2, <2>3, <2>4
<1>17. NamesOf(u) = A \cup B
  <2>1. A = {s[i].name : i \in DOMAIN s} /\ B = {t[i].name : i \in DOMAIN t}
    BY DEF HoldsNames, NamesOf
  <2>2. \A x \in A : \E n \in DOMAIN u : u[n].name = x
    BY <1>10, <2>1
  <2>3. \A x \in B : \E n \in DOMAIN u : u[n].name = x
    BY <1>10, <2>1
  <2>4. \A n \in DOMAIN u : u[n].name \in A \cup B
    BY <1>9, <1>14, <1>15
  <2> QED
    BY <2>2, <2>3, <2>4 DEF NamesOf
<1>18. HoldsNames(u, A \cup B)
  BY <1>13, <1>16, <1>17 DEF HoldsNames
<1> QED
  BY <1>3, <1>11, <1>18, Zenon

\* The same blocks, each of them changed but for its name.
LEMMA RenamedNot ==
  ASSUME NEW s, NEW N, HoldsNames(s, N), NEW t, DOMAIN t = 1 .. Len(s),
         t = [n \in 1 .. Len(s) |-> t[n]],
         \A n \in 1 .. Len(s) : BlockRow(t[n]) /\ t[n].name = s[n].name
  PROVE  HoldsNames(t, N)
<1>1. Len(s) \in Nat /\ DOMAIN s = 1 .. Len(s)
  BY DEF HoldsNames, BlockRows
<1>2. IsSeq(t) /\ Len(t) = Len(s)
  <2>1. PICK S : S = {t[n] : n \in 1 .. Len(s)}
    OBVIOUS
  <2>2. t \in Seq(S) /\ Len(t) = Len(s)
    BY <1>1, <2>1
  <2> QED
    BY <2>2, Zenon DEF IsSeq
<1>3. BlockRows(t)
  BY <1>1, <1>2 DEF BlockRows
<1>4. \A m, n \in DOMAIN t : t[m].name = t[n].name => m = n
  BY <1>1 DEF HoldsNames
<1>5. NamesOf(t) = NamesOf(s)
  BY <1>1 DEF NamesOf
<1> QED
  BY <1>3, <1>4, <1>5 DEF HoldsNames

LEMMA BlockWorked ==
  ASSUME NEW b, BlockRow(b), NEW w, NEW i
  PROVE  BlockRow(WorkedBlock(b, w, i)) /\ WorkedBlock(b, w, i).name = b.name
<1>1. \A c : DOMAIN c = DOMAIN b /\ c.name = b.name /\ c.salience = b.salience
             => BlockRow(c) /\ c.name = b.name
  BY DEF BlockRow
<1>2. PICK x : x = WorkedBlock(b, w, i)
  OBVIOUS
<1>3. {"name", "fate", "salience"} \subseteq DOMAIN b
  BY DEF BlockRow
<1>4. CASE i <= b.confirmed
  <2>1. x = b
    BY <1>2, <1>4 DEF WorkedBlock
  <2> QED
    BY <1>2, <2>1
<1>5. CASE ~(i <= b.confirmed) /\ ClosedThrough(b, w[i])
  <2>1. x = [b EXCEPT !.age = @ + 1, !.fate = "INVALIDATED"]
    BY <1>2, <1>5 DEF WorkedBlock
  <2>2. DOMAIN x = DOMAIN b /\ x.name = b.name /\ x.salience = b.salience
    BY <1>3, <2>1
  <2> QED
    BY <1>1, <1>2, <2>2
<1>6. CASE ~(i <= b.confirmed) /\ ~ClosedThrough(b, w[i])
  <2>3. DOMAIN x = DOMAIN b /\ x.name = b.name /\ x.salience = b.salience
    BY <1>2, <1>3, <1>6 DEF WorkedBlock
  <2> QED
    BY <1>1, <1>2, <2>3
<1> QED
  BY <1>4, <1>5, <1>6

LEMMA BlockFated ==
  ASSUME NEW b, BlockRow(b), NEW fate
  PROVE  BlockRow(Fated(b, fate)) /\ Fated(b, fate).name = b.name /\ Fated(b, fate).fate = fate
<1>1. PICK x : x = Fated(b, fate)
  OBVIOUS
<1>2. DOMAIN x = DOMAIN b /\ x.name = b.name /\ x.salience = b.salience /\ x.fate = fate
  BY <1>1 DEF Fated, BlockRow
<1>3. BlockRow(x)
  BY <1>2 DEF BlockRow
<1> QED
  BY <1>1, <1>2, <1>3

\* A block made of another.
MadeOf(x, b, kind) == BlockRow(x) /\ x.name = Append(b.name, kind)

LEMMA BlockReborn ==
  ASSUME NEW b, BlockRow(b), NEW kind, NEW dir, NEW i, NEW percent \in Nat
  PROVE  MadeOf(Reborn(b, kind, dir, i, percent), b, kind)
<1>1. PICK x : x = Reborn(b, kind, dir, i, percent)
  OBVIOUS
<1>2. PICK name : name = Append(b.name, kind)
  OBVIOUS
<1>3. PICK salience \in Int : salience = (percent * b.salience) \div 100
  BY DEF BlockRow
<1>4. x = [b EXCEPT !.name = name, !.dir = dir, !.kind = kind, !.origin = i, !.confirmed = i,
             !.age = 0, !.touches = 0, !.depth = 0, !.fate = "ACTIVE", !.salience = salience]
  BY <1>1, <1>2, <1>3, Zenon DEF Reborn
<1>5. DOMAIN x = DOMAIN b /\ x.name = name /\ x.salience = salience
  BY <1>4 DEF BlockRow
<1> QED
  BY <1>1, <1>2, <1>3, <1>5 DEF BlockRow, MadeOf

\* The name of a block found, or of one made from another, at bar i or before.
NamedBy(name, i) ==
  /\ IsSeq(name) /\ Len(name) \in Nat /\ Len(name) >= 2
  /\ name[1] \in Nat /\ name[1] <= i

LEMMA GrownName ==
  ASSUME NEW name, NEW i \in Int, NamedBy(name, i), NEW kind
  PROVE  NamedBy(Append(name, kind), i) /\ Len(Append(name, kind)) # 2
<1>1. PICK t : t = Append(name, kind)
  OBVIOUS
<1>2. Grows(name, kind, t)
  BY <1>1, OneMoreOf DEF NamedBy
<1>3. NamedBy(t, i) /\ Len(t) # 2
  BY <1>2 DEF Grows, NamedBy
<1> QED
  BY <1>1, <1>3

LEMMA GrewFromOne ==
  ASSUME NEW m, NEW n, IsSeq(m), IsSeq(n), NEW k, NEW l, NEW t, Grows(m, k, t), Grows(n, l, t)
  PROVE  m = n /\ k = l
<1>1. Len(m) = Len(n) /\ Len(m) \in Nat
  <2>1. Len(t) = Len(m) + 1 /\ Len(m) \in Nat
    BY DEF Grows
  <2>2. Len(t) = Len(n) + 1 /\ Len(n) \in Nat
    BY DEF Grows
  <2> QED
    BY <2>1, <2>2
<1>2. k = l
  BY <1>1 DEF Grows
<1>3. \A i \in 1 .. Len(m) : m[i] = n[i]
  BY <1>1 DEF Grows
<1>4. m = [i \in 1 .. Len(m) |-> m[i]]
  BY DEF IsSeq
<1>5. n = [i \in 1 .. Len(n) |-> n[i]]
  BY DEF IsSeq
<1> QED
  BY <1>1, <1>2, <1>3, <1>4, <1>5

LEMMA GrownApart ==
  ASSUME NEW m, NEW n, IsSeq(m), IsSeq(n), NEW k, NEW l, Append(m, k) = Append(n, l)
  PROVE  m = n /\ k = l
<1>1. Grows(m, k, Append(m, k)) /\ Grows(n, l, Append(n, l))
  BY OneMoreOf, Zenon
<1>2. Grows(n, l, Append(m, k))
  BY <1>1, Zenon
<1> QED
  BY <1>1, <1>2, GrewFromOne, Zenon

\* The names of what is made of blocks of some names.
Grown(N, kind) == {Append(name, kind) : name \in N}

LEMMA RebornHold ==
  ASSUME NEW s, NEW N, HoldsNames(s, N), \A name \in N : IsSeq(name), NEW kind,
         NEW t, DOMAIN t = 1 .. Len(s), t = [n \in 1 .. Len(s) |-> t[n]],
         \A n \in 1 .. Len(s) : BlockRow(t[n]) /\ t[n].name = Append(s[n].name, kind)
  PROVE  HoldsNames(t, Grown(N, kind))
<1>1. Len(s) \in Nat /\ DOMAIN s = 1 .. Len(s)
  BY DEF HoldsNames, BlockRows
<1>2. IsSeq(t) /\ Len(t) = Len(s)
  <2>1. PICK S : S = {t[n] : n \in 1 .. Len(s)}
    OBVIOUS
  <2>2. t \in Seq(S) /\ Len(t) = Len(s)
    BY <1>1, <2>1
  <2> QED
    BY <2>2, Zenon DEF IsSeq
<1>3. BlockRows(t)
  BY <1>1, <1>2 DEF BlockRows
<1>4. \A n \in DOMAIN s : s[n].name \in N
  BY DEF HoldsNames, NamesOf
<1>5. ASSUME NEW m \in DOMAIN t, NEW n \in DOMAIN t, t[m].name = t[n].name
      PROVE  m = n
  <2>1. m \in DOMAIN s /\ n \in DOMAIN s
    BY <1>1
  <2>2. Append(s[m].name, kind) = Append(s[n].name, kind)
    BY <1>5
  <2>3. IsSeq(s[m].name) /\ IsSeq(s[n].name)
    BY <1>4, <2>1
  <2>4. s[m].name = s[n].name
    <3>1. /\ Grows(s[m].name, kind, Append(s[m].name, kind))
          /\ Grows(s[n].name, kind, Append(s[n].name, kind))
      BY <2>3, OneMoreOf, Zenon
    <3>2. Grows(s[n].name, kind, Append(s[m].name, kind))
      BY <2>2, <3>1, Zenon
    <3> QED
      BY <2>3, <3>1, <3>2, GrewFromOne, ZenonT(60)
  <2> QED
    BY <2>1, <2>4 DEF HoldsNames
<1>6. NamesOf(t) = Grown(N, kind)
  <2>1. N = {s[n].name : n \in 1 .. Len(s)}
    BY <1>1 DEF HoldsNames, NamesOf
  <2>2. \A x \in NamesOf(t) : x \in Grown(N, kind)
    BY <2>1 DEF NamesOf, Grown
  <2>3. \A x \in Grown(N, kind) : x \in NamesOf(t)
    BY <2>1 DEF NamesOf, Grown
  <2> QED
    BY <2>2, <2>3
<1> QED
  BY <1>3, <1>5, <1>6 DEF HoldsNames

\* What is filtered out and what is left are apart and all there is.
LEMMA NamesSplit ==
  ASSUME NEW s, NEW N, HoldsNames(s, N), NEW I \in SUBSET DOMAIN s
  PROVE  /\ NamesAt(s, I) \cap NamesAt(s, (DOMAIN s) \ I) = {}
         /\ NamesAt(s, I) \cup NamesAt(s, (DOMAIN s) \ I) = N
<1>1. \A m \in I, n \in (DOMAIN s) \ I : s[m].name # s[n].name
  BY DEF HoldsNames
<1>2. N = {s[n].name : n \in DOMAIN s}
  BY DEF HoldsNames, NamesOf
<1> QED
  BY <1>1, <1>2 DEF NamesAt

\* A list has a block that was merged away, or converted.
HasMerged(s, name) == \E n \in DOMAIN s : s[n].name = name /\ s[n].fate = "MERGED"

\* What a block was made from has been converted, and is at its end.
Converted(names, s) ==
  \A name, kind : IsSeq(name) /\ Len(name) >= 2 /\ Append(name, kind) \in names => HasMerged(s, name)

WholeBlocks(a, e, names, i) ==
  /\ HoldsNames(a, NamesOf(a)) /\ HoldsNames(e, NamesOf(e))
  /\ NamesOf(a) \cap NamesOf(e) = {} /\ NamesOf(a) \cup NamesOf(e) = names
  /\ \A name \in names : NamedBy(name, i)
  /\ Converted(names, e)

\* One of something, as a list.
Alone(x) == <<x>>

\* The block detect_at finds at a bar, if any.
FoundNames(i) == {<<i, dir>> : dir \in {"UP", "DOWN"}}

WholeTape(w) == IsSeq(w) /\ Len(w) \in Nat /\ \A n \in 1 .. Len(w) : {w[n].o, w[n].h, w[n].l, w[n].c} \subseteq Int

LEMMA SalienceIsInt ==
  ASSUME NEW w, WholeTape(w), NEW i \in Nat, i + DispMaxK + 1 <= Len(w), NEW dir, NEW loud
  PROVE  Salience(Displacement(w, i, StructureAfter(w, i, dir)), StructureAfter(w, i, dir), loud) \in Int
<1>1. DispMaxK \in Nat /\ DispMaxK > 0 /\ BlockAtr \in Nat /\ Len(w) \in Nat
  BY BlockBounds DEF WholeTape
<1>2. PICK struct : struct = StructureAfter(w, i, dir)
  OBVIOUS
<1>3. PICK last : last = IF struct = {} THEN Min({DispMaxK, Len(w) - i}) ELSE Min(struct)
  OBVIOUS
<1>4. last \in Nat /\ i + last <= Len(w)
  <2>1. CASE struct = {}
    <3>1. DispMaxK <= Len(w) - i /\ Len(w) - i \in Int
      BY <1>1
    <3>2. Min({DispMaxK, Len(w) - i}) = DispMaxK
      BY <1>1, <3>1, OfTwo
    <3> QED
      BY <1>1, <1>3, <2>1, <3>1, <3>2
  <2>2. CASE struct # {}
    <3>1. struct \in SUBSET Nat /\ \A k \in struct : i + k <= Len(w)
      BY <1>2 DEF StructureAfter
    <3>2. Min(struct) \in struct
      BY <2>2, <3>1, LeastOf
    <3> QED
      BY <1>3, <2>2, <3>1, <3>2
  <2> QED
    BY <2>1, <2>2
<1>5. PICK travel : travel = [k \in 1 .. last |-> w[i + k].h - w[i + k].l]
  OBVIOUS
<1>6. \A k \in 1 .. last : travel[k] \in Int
  <2> TAKE k \in 1 .. last
  <2>1. i + k \in 1 .. Len(w)
    BY <1>1, <1>4
  <2>2. w[i + k].h \in Int /\ w[i + k].l \in Int
    BY <2>1 DEF WholeTape
  <2> QED
    BY <1>5, <2>2
<1>7. PICK disp : disp = Displacement(w, i, struct)
  OBVIOUS
<1>8. disp = Total(travel, 1 .. last)
  BY <1>3, <1>5, <1>7 DEF Displacement, Total
<1>9. disp \in Int
  <2>1. IsFiniteSet(1 .. last)
    BY <1>4, FS_Interval
  <2> QED
    BY <1>6, <1>8, <2>1, TotalIsInt
<1>10. Min({disp, 3 * BlockAtr}) \in Int
  <2>1. PICK bound \in Int : bound = 3 * BlockAtr
    BY <1>1
  <2>2. CASE disp <= bound
    BY <1>9, <2>1, <2>2, OfTwo
  <2>3. CASE bound <= disp
    BY <1>9, <2>1, <2>3, OfTwo
  <2> QED
    BY <1>9, <2>1, <2>2, <2>3
<1>11. Salience(disp, struct, loud) \in Int
  <2>1. PICK least \in Int : least = Min({disp, 3 * BlockAtr})
    BY <1>10
  <2>2. PICK a \in Nat : a = IF struct = {} THEN 8 ELSE 25
    OBVIOUS
  <2>3. PICK c \in Nat : c = IF loud THEN 25 ELSE 10
    OBVIOUS
  <2>4. 35 * least \in Int /\ a * BlockAtr \in Int /\ c * BlockAtr \in Int
    BY <1>1
  <2>5. Salience(disp, struct, loud) = 35 * least + a * BlockAtr + c * BlockAtr
    BY <2>1, <2>2, <2>3 DEF Salience
  <2> QED
    BY <2>4, <2>5
<1> QED
  BY <1>2, <1>7, <1>11

LEMMA FoundIsNamed ==
  ASSUME NEW w, WholeTape(w), NEW i \in Nat, i + DispMaxK + 1 <= Len(w)
  PROVE  \/ DetectedAt(w, i) = <<>>
         \/ \E b : BlockRow(b) /\ b.name \in FoundNames(i) /\ DetectedAt(w, i) = Alone(b)
<1>1. PICK dir : dir = DirectionAt(w, i)
  OBVIOUS
<1>2. PICK struct : struct = StructureAfter(w, i, dir)
  OBVIOUS
<1>3. PICK disp : disp = Displacement(w, i, struct)
  OBVIOUS
<1>4. PICK salience : salience = Salience(disp, struct, w[i + 1].loud)
  OBVIOUS
<1>5. salience \in Int
  BY <1>2, <1>3, <1>4, SalienceIsInt
<1>6. PICK b : b = BlockAt(w, i, dir, struct, disp)
  OBVIOUS
<1>7. dir \in {"UP", "DOWN"}
  BY <1>1 DEF DirectionAt
<1>8. b.name = <<i, dir>> /\ b.salience = salience /\ {"name", "fate", "salience"} \subseteq DOMAIN b
  BY <1>4, <1>6 DEF BlockAt
<1>9. BlockRow(b) /\ b.name \in FoundNames(i)
  BY <1>5, <1>7, <1>8 DEF BlockRow, FoundNames
<1>10. DetectedAt(w, i) = <<>> \/ DetectedAt(w, i) = Alone(b)
  BY <1>1, <1>2, <1>3, <1>6, Zenon DEF DetectedAt, Alone
<1> QED
  BY <1>9, <1>10

LEMMA FoundHolds ==
  ASSUME NEW w, WholeTape(w), NEW i \in Nat, i + DispMaxK + 1 <= Len(w)
  PROVE  \E F \in SUBSET FoundNames(i) : HoldsNames(DetectedAt(w, i), F)
<1>1. CASE DetectedAt(w, i) = <<>>
  <2>1. IsSeq(<<>>) /\ Len(<<>>) = 0 /\ DOMAIN <<>> = {}
    BY DEF IsSeq
  <2>2. HoldsNames(<<>>, {})
    BY <2>1 DEF HoldsNames, BlockRows, NamesOf
  <2> QED
    BY <1>1, <2>2
<1>2. CASE \E b : BlockRow(b) /\ b.name \in FoundNames(i) /\ DetectedAt(w, i) = Alone(b)
  <2>1. PICK b : BlockRow(b) /\ b.name \in FoundNames(i) /\ DetectedAt(w, i) = Alone(b)
    BY <1>2
  <2>2. PICK t : t = Alone(b)
    OBVIOUS
  <2>3. t \in Seq({b}) /\ Len(t) = 1 /\ DOMAIN t = 1 .. 1 /\ t[1] = b
    BY <2>2 DEF Alone
  <2>4. IsSeq(t)
    BY <2>3, Zenon DEF IsSeq
  <2>5. BlockRows(t)
    BY <2>1, <2>3, <2>4 DEF BlockRows
  <2>6. HoldsNames(t, {b.name})
    BY <2>3, <2>5 DEF HoldsNames, NamesOf
  <2> QED
    BY <2>1, <2>2, <2>6
<1> QED
  BY <1>1, <1>2, FoundIsNamed

\* A name given at bar i is none that was given before, nor one made of another.
LEMMA FoundIsNew ==
  ASSUME NEW i \in Int, NEW name \in FoundNames(i), i >= 1
  PROVE  /\ NamedBy(name, i) /\ ~NamedBy(name, i - 1)
         /\ Len(name) = 2
<1>1. PICK dir \in {"UP", "DOWN"} : name = <<i, dir>>
  BY DEF FoundNames
<1>2. name \in Seq({i, dir}) /\ Len(name) = 2 /\ name[1] = i
  BY <1>1
<1>3. IsSeq(name)
  BY <1>2, Zenon DEF IsSeq
<1> QED
  BY <1>2, <1>3 DEF NamedBy

\* The blocks of a bar, and what the bar makes of them.
LEMMA WorkedHold ==
  ASSUME NEW s, NEW N, HoldsNames(s, N), NEW w, NEW i
  PROVE  HoldsNames(WorkedBlocks(s, w, i), N)
<1>1. PICK t : t = [n \in 1 .. Len(s) |-> WorkedBlock(s[n], w, i)]
  OBVIOUS
<1>2. DOMAIN s = 1 .. Len(s) /\ \A n \in 1 .. Len(s) : BlockRow(s[n])
  BY DEF HoldsNames, BlockRows
<1>3. \A n \in 1 .. Len(s) : BlockRow(t[n]) /\ t[n].name = s[n].name
  BY <1>1, <1>2, BlockWorked
<1>4. DOMAIN t = 1 .. Len(s) /\ t = [n \in 1 .. Len(s) |-> t[n]]
  BY <1>1
<1> QED
  BY <1>1, <1>3, <1>4, RenamedNot DEF WorkedBlocks

LEMMA FatedHold ==
  ASSUME NEW s, NEW N, HoldsNames(s, N), NEW fate
  PROVE  /\ HoldsNames(AllFated(s, fate), N)
         /\ \A n \in DOMAIN AllFated(s, fate) : AllFated(s, fate)[n].fate = fate
<1>1. PICK t : t = AllFated(s, fate)
  OBVIOUS
<1>2. DOMAIN s = 1 .. Len(s) /\ \A n \in 1 .. Len(s) : BlockRow(s[n])
  BY DEF HoldsNames, BlockRows
<1>3. t = [n \in 1 .. Len(s) |-> Fated(s[n], fate)]
  BY <1>1 DEF AllFated
<1>4. \A n \in 1 .. Len(s) : BlockRow(t[n]) /\ t[n].name = s[n].name /\ t[n].fate = fate
  BY <1>2, <1>3, BlockFated
<1>5. DOMAIN t = 1 .. Len(s) /\ t = [n \in 1 .. Len(s) |-> t[n]]
  BY <1>3
<1>6. HoldsNames(t, N)
  BY <1>4, <1>5, RenamedNot
<1> QED
  BY <1>1, <1>4, <1>5, <1>6

\* History with the converted ones marked.
LEMMA ClaimedHold ==
  ASSUME NEW s, NEW N, HoldsNames(s, N), NEW I \in SUBSET DOMAIN s,
         \A n \in I : s[n].fate # "MERGED",
         NEW t, t = [n \in 1 .. Len(s) |-> IF n \in I THEN Fated(s[n], "MERGED") ELSE s[n]]
  PROVE  /\ HoldsNames(t, N)
         /\ \A name : HasMerged(s, name) \/ name \in NamesAt(s, I) => HasMerged(t, name)
<1>2. DOMAIN s = 1 .. Len(s) /\ \A n \in 1 .. Len(s) : BlockRow(s[n])
  BY DEF HoldsNames, BlockRows
<1>3. \A n \in 1 .. Len(s) : /\ BlockRow(t[n]) /\ t[n].name = s[n].name
                             /\ s[n].fate = "MERGED" \/ n \in I => t[n].fate = "MERGED"
  BY <1>2, BlockFated
<1>4. DOMAIN t = 1 .. Len(s) /\ t = [n \in 1 .. Len(s) |-> t[n]]
  OBVIOUS
<1>5. HoldsNames(t, N)
  BY <1>3, <1>4, RenamedNot
<1>6. ASSUME NEW name, HasMerged(s, name) \/ name \in NamesAt(s, I)
      PROVE  HasMerged(t, name)
  <2>1. PICK n \in 1 .. Len(s) : s[n].name = name /\ (s[n].fate = "MERGED" \/ n \in I)
    BY <1>2, <1>6 DEF HasMerged, NamesAt
  <2> QED
    BY <1>3, <1>4, <2>1 DEF HasMerged
<1> QED
  BY <1>5, <1>6

LEMMA MergedFollows ==
  ASSUME NEW u, NEW s, NEW t, ComesAfter(u, s, t), NEW name, HasMerged(s, name) \/ HasMerged(t, name)
  PROVE  HasMerged(u, name)
BY DEF ComesAfter, HasMerged

AllSomewhere(A, E, F, B, R, L, M, D, Q) ==
  /\ E \cap L = {} /\ (E \cup L) \cap M = {} /\ ((E \cup L) \cup M) \cap D = {}
  /\ Q \cap (((E \cup L) \cup M) \cup D) = {}
  /\ Q \cup (((E \cup L) \cup M) \cup D) = (((A \cup E) \cup F) \cup B) \cup R

\* What the lists of a bar hold, and that every name is in one of them.
LEMMA NamesGoSomewhere ==
  ASSUME NEW A, NEW E, NEW F, NEW B, NEW R, NEW L, NEW S, NEW K, NEW M, NEW D, NEW Q, NEW G,
         A \cap E = {}, F \cap (A \cup E) = {},
         B \cap (A \cup E) = {}, R \cap (A \cup E) = {}, B \cap F = {}, R \cap F = {}, B \cap R = {},
         L \cap S = {}, L \cup S = A \cup F, G = (S \cup B) \cup R,
         K \cap M = {}, K \cup M = G, D \cap Q = {}, D \cup Q = K
  PROVE  AllSomewhere(A, E, F, B, R, L, M, D, Q)
BY Zenon DEF AllSomewhere

\* Names that bar i is the first to give.
NewNames(G, names, F, i) ==
  G \cap names = {} /\ G \cap F = {} /\ \A name \in G : NamedBy(name, i)

\* What is made of blocks that were not made anything of before is new.
LEMMA GrownIsNew ==
  ASSUME NEW a, NEW e, NEW names, NEW i \in Nat, i >= 1, WholeBlocks(a, e, names, i - 1),
         NEW F \in SUBSET FoundNames(i), NEW N \in SUBSET (names \cup F), NEW kind,
         \A name \in N : ~HasMerged(e, name)
  PROVE  NewNames(Grown(N, kind), names, F, i)
<1>1. ASSUME NEW name \in N
      PROVE  NamedBy(name, i)
  <2>1. CASE name \in names
    <3>1. NamedBy(name, i - 1)
      BY <2>1 DEF WholeBlocks
    <3> QED
      BY <3>1 DEF NamedBy
  <2>2. CASE name \in F
    BY <2>2, FoundIsNew
  <2> QED
    BY <2>1, <2>2
<1>2. ASSUME NEW name \in N
      PROVE  NamedBy(Append(name, kind), i) /\ Len(Append(name, kind)) # 2
  BY <1>1, GrownName
<1>3. ASSUME NEW name \in N
      PROVE  Append(name, kind) \notin names
  <2>1. IsSeq(name) /\ Len(name) >= 2
    BY <1>1 DEF NamedBy
  <2>2. Converted(names, e)
    BY DEF WholeBlocks
  <2> QED
    BY <2>1, <2>2, Zenon DEF Converted
<1>4. ASSUME NEW name \in N
      PROVE  Append(name, kind) \notin F
  <2>1. \A x \in F : Len(x) = 2
    BY FoundIsNew
  <2> QED
    BY <1>2, <2>1, Zenon
<1>5. ASSUME NEW x \in Grown(N, kind)
      PROVE  x \notin names /\ x \notin F /\ NamedBy(x, i)
  <2>1. PICK name \in N : x = Append(name, kind)
    BY Zenon DEF Grown
  <2> QED
    BY <1>2, <1>3, <1>4, <2>1, Zenon
<1> QED
  BY <1>5, Zenon DEF NewNames

LEMMA GrownOfTwoKinds ==
  ASSUME NEW M, NEW N, \A name \in M \cup N : IsSeq(name)
  PROVE  Grown(M, "BREAKER") \cap Grown(N, "MITIGATION") = {}
<1> SUFFICES ASSUME NEW m \in M, NEW n \in N, Append(m, "BREAKER") = Append(n, "MITIGATION")
             PROVE  FALSE
  BY Zenon DEF Grown
<1>1. IsSeq(m) /\ IsSeq(n)
  OBVIOUS
<1>2. Grows(m, "BREAKER", Append(m, "BREAKER")) /\ Grows(n, "MITIGATION", Append(n, "MITIGATION"))
  BY <1>1, OneMoreOf, Zenon
<1>3. Grows(n, "MITIGATION", Append(m, "BREAKER"))
  BY <1>2, Zenon
<1>4. "BREAKER" = "MITIGATION"
  BY <1>1, <1>2, <1>3, GrewFromOne, Zenon
<1> QED
  BY <1>4

\* The lists of one bar, as WorkBar makes them.
BarWorked(w, i, found, F) ==
  /\ i \in Nat /\ i >= 1 /\ F \in SUBSET FoundNames(i) /\ HoldsNames(found, F)
  /\ found = DetectedAt(w, i) /\ WorkBar(w, i)
  /\ WholeBlocks(active, ended, made, i - 1)

LEMMA FoundJoins ==
  ASSUME NEW w, NEW i, NEW found, NEW F, BarWorked(w, i, found, F)
  PROVE  /\ HoldsNames(active \o found, NamesOf(active) \cup F)
         /\ F \cap made = {} /\ NamesOf(found) = F
<1>1. F \cap made = {}
  <2>1. \A name \in F : ~NamedBy(name, i - 1)
    BY FoundIsNew DEF BarWorked
  <2>2. \A name \in made : NamedBy(name, i - 1)
    BY DEF BarWorked, WholeBlocks
  <2> QED
    BY <2>1, <2>2
<1>2. NamesOf(active) \cap F = {} /\ HoldsNames(active, NamesOf(active)) /\ HoldsNames(found, F)
  BY <1>1 DEF BarWorked, WholeBlocks
<1> QED
  BY <1>1, <1>2, JoinedHolds DEF HoldsNames

LEMMA FirstBarIsWhole ==
  ASSUME NEW w, NEW i, NEW found, NEW F, BarWorked(w, i, found, F), i = 1
  PROVE  WholeBlocks(active', ended', made', i)
<1>1. PICK u : u = active \o found
  OBVIOUS
<1>2. active' = u /\ ended' = ended /\ made' = made \cup F
  BY <1>1, FoundJoins DEF BarWorked, WorkBar
<1>3. HoldsNames(u, NamesOf(active) \cup F) /\ F \cap made = {}
  BY <1>1, FoundJoins
<1>4. NamesOf(u) = NamesOf(active) \cup F
  BY <1>3 DEF HoldsNames
<1>5. /\ HoldsNames(ended, NamesOf(ended)) /\ NamesOf(active) \cap NamesOf(ended) = {}
      /\ NamesOf(active) \cup NamesOf(ended) = made
      /\ \A name \in made : NamedBy(name, i - 1)
      /\ Converted(made, ended) /\ i \in Nat /\ F \in SUBSET FoundNames(i)
  BY DEF BarWorked, WholeBlocks
<1>6. \A name \in F : NamedBy(name, i) /\ Len(name) = 2
  BY <1>5, FoundIsNew, i = 1
<1>7. \A name \in made \cup F : NamedBy(name, i)
  BY <1>5, <1>6 DEF NamedBy
<1>8. Converted(made \cup F, ended)
  <2> SUFFICES ASSUME NEW name, NEW kind, IsSeq(name), Len(name) >= 2, Append(name, kind) \in made \cup F
               PROVE  HasMerged(ended, name)
    BY Zenon DEF Converted
  <2>1. Append(name, kind) \notin F
    <3>1. Grows(name, kind, Append(name, kind))
      BY OneMoreOf, Zenon
    <3>2. Len(Append(name, kind)) # 2
      BY <3>1 DEF Grows
    <3> QED
      BY <1>6, <3>2
  <2>2. Append(name, kind) \in made
    BY <2>1
  <2> QED
    BY <1>5, <2>2, Zenon DEF Converted
<1> QED
  BY <1>2, <1>3, <1>4, <1>5, <1>7, <1>8 DEF WholeBlocks

LEMMA BreakersHold ==
  ASSUME NEW s, NEW N, HoldsNames(s, N), \A name \in N : IsSeq(name), NEW i
  PROVE  HoldsNames(Breakers(s, i), Grown(N, "BREAKER"))
<1>1. PICK t : t = [n \in 1 .. Len(s) |-> Breaker(s[n], i)]
  OBVIOUS
<1>2. DOMAIN s = 1 .. Len(s) /\ \A n \in 1 .. Len(s) : BlockRow(s[n])
  BY DEF HoldsNames, BlockRows
<1>3. \A n \in 1 .. Len(s) : BlockRow(t[n]) /\ t[n].name = Append(s[n].name, "BREAKER")
  <2> TAKE n \in 1 .. Len(s)
  <2>1. PICK dir : dir = IF s[n].dir = "UP" THEN "DOWN" ELSE "UP"
    OBVIOUS
  <2>2. t[n] = Reborn(s[n], "BREAKER", dir, i, 90)
    BY <1>1, <2>1 DEF Breaker
  <2>3. BlockRow(s[n]) /\ 90 \in Nat
    BY <1>2
  <2>4. MadeOf(t[n], s[n], "BREAKER")
    BY <2>2, <2>3, BlockReborn, Zenon
  <2> QED
    BY <2>4 DEF MadeOf
<1>4. DOMAIN t = 1 .. Len(s) /\ t = [n \in 1 .. Len(s) |-> t[n]]
  BY <1>1
<1>5. HoldsNames(t, Grown(N, "BREAKER"))
  BY <1>3, <1>4, RebornHold, Zenon
<1> QED
  BY <1>1, <1>5 DEF Breakers

LEMMA MitigationBlocksHold ==
  ASSUME NEW s, NEW N, HoldsNames(s, N), \A name \in N : IsSeq(name), NEW i
  PROVE  HoldsNames(MitigationBlocks(s, i), Grown(N, "MITIGATION"))
<1>1. PICK t : t = [n \in 1 .. Len(s) |-> Reborn(s[n], "MITIGATION", s[n].dir, i, 80)]
  OBVIOUS
<1>2. DOMAIN s = 1 .. Len(s) /\ \A n \in 1 .. Len(s) : BlockRow(s[n])
  BY DEF HoldsNames, BlockRows
<1>3. \A n \in 1 .. Len(s) : BlockRow(t[n]) /\ t[n].name = Append(s[n].name, "MITIGATION")
  <2> TAKE n \in 1 .. Len(s)
  <2>1. t[n] = Reborn(s[n], "MITIGATION", s[n].dir, i, 80)
    BY <1>1
  <2>2. BlockRow(s[n]) /\ 80 \in Nat
    BY <1>2
  <2>3. MadeOf(t[n], s[n], "MITIGATION")
    BY <2>1, <2>2, BlockReborn, Zenon
  <2> QED
    BY <2>3 DEF MadeOf
<1>4. DOMAIN t = 1 .. Len(s) /\ t = [n \in 1 .. Len(s) |-> t[n]]
  BY <1>1
<1>5. HoldsNames(t, Grown(N, "MITIGATION"))
  BY <1>3, <1>4, RebornHold, Zenon
<1> QED
  BY <1>1, <1>5 DEF MitigationBlocks

LEMMA NotBelowNought == \A x \in Int : Max({0, x}) \in Nat
<1> TAKE x \in Int
<1> PICK nought \in Int : nought = 0
  OBVIOUS
<1>1. CASE nought <= x
  <2>1. Max({nought, x}) = x
    BY <1>1, OfTwo
  <2> QED
    BY <1>1, <2>1
<1>2. CASE x <= nought
  <2>1. Max({nought, x}) = nought
    BY <1>2, OfTwo
  <2> QED
    BY <2>1
<1> QED
  BY <1>1, <1>2

LEMMA LaterBarIsWhole ==
  ASSUME NEW w, NEW i, NEW found, NEW F, BarWorked(w, i, found, F), i # 1
  PROVE  WholeBlocks(active', ended', made', i)
<1> PICK A : A = NamesOf(active)
  OBVIOUS
<1> PICK E : E = NamesOf(ended)
  OBVIOUS
<1>1. /\ HoldsNames(active, A) /\ HoldsNames(ended, E) /\ A \cap E = {} /\ A \cup E = made
      /\ \A name \in made : NamedBy(name, i - 1)
      /\ Converted(made, ended) /\ i \in Nat /\ i >= 1 /\ F \in SUBSET FoundNames(i)
      /\ WholeBlocks(active, ended, made, i - 1)
  BY DEF BarWorked, WholeBlocks
<1>a. PICK blocks : blocks = active \o found
  OBVIOUS
<1>2. HoldsNames(blocks, A \cup F) /\ F \cap made = {} /\ NamesOf(found) = F
  BY <1>a, FoundJoins
<1>b. PICK worked : worked = WorkedBlocks(blocks, w, i)
  OBVIOUS
<1>3. HoldsNames(worked, A \cup F)
  BY <1>2, <1>b, WorkedHold
<1>4. \A name \in made \cup F : IsSeq(name) /\ NamedBy(name, i)
  <2>1. \A name \in made : NamedBy(name, i)
    BY <1>1 DEF NamedBy
  <2>2. \A name \in F : NamedBy(name, i)
    BY <1>1, FoundIsNew
  <2> QED
    BY <2>1, <2>2 DEF NamedBy
<1>c. PICK claimed : claimed = ClaimedBy(w[i])
  OBVIOUS
<1>5. /\ claimed \in SUBSET DOMAIN ended
      /\ \A n \in claimed : ended[n].fate # "MERGED"
  <2>1. DOMAIN ended = 1 .. Len(ended) /\ Len(ended) \in Nat
    BY <1>1 DEF HoldsNames, BlockRows
  <2>2. PICK from : from = Max({0, Len(ended) - HistoryLooked})
    OBVIOUS
  <2>3. from \in Nat
    <3>1. Len(ended) - HistoryLooked \in Int
      BY <2>1 DEF HistoryLooked
    <3> QED
      BY <2>2, <3>1, NotBelowNought, Zenon
  <2>4. claimed = {n \in (from + 1) .. Len(ended) : Reclaimed(ended[n], w[i])}
    BY <1>c, <2>2 DEF ClaimedBy
  <2> QED
    BY <2>1, <2>3, <2>4 DEF Reclaimed
<1>d. PICK C : C = NamesAt(ended, claimed)
  OBVIOUS
<1>e. PICK taken : taken = Picked(ended, claimed)
  OBVIOUS
<1>6. HoldsNames(taken, C) /\ C \subseteq E
  <2>1. TakenFrom(taken, ended, claimed)
    BY <1>1, <1>5, <1>e, PickedTakes
  <2>2. C \subseteq E
    BY <1>1, <1>5, <1>d DEF NamesAt, HoldsNames, NamesOf
  <2> QED
    BY <1>d, <2>1, <2>2 DEF TakenFrom
<1>f. PICK breakers : breakers = Breakers(taken, i)
  OBVIOUS
<1>g. PICK B : B = Grown(C, "BREAKER")
  OBVIOUS
<1>7. HoldsNames(breakers, B) /\ NamesOf(breakers) = B
  <2>1. \A name \in C : IsSeq(name)
    BY <1>1, <1>4, <1>6
  <2>2. HoldsNames(breakers, B)
    BY <1>6, <1>f, <1>g, <2>1, BreakersHold
  <2> QED
    BY <2>2 DEF HoldsNames
<1>h. PICK leaving : leaving = LeavingAt(worked, w[i])
  OBVIOUS
<1>i. PICK left : left = Picked(worked, leaving)
  OBVIOUS
<1>j. PICK L : L = NamesAt(worked, leaving)
  OBVIOUS
<1>k. PICK rest : rest = Picked(worked, (DOMAIN worked) \ leaving)
  OBVIOUS
<1>l. PICK S : S = NamesAt(worked, (DOMAIN worked) \ leaving)
  OBVIOUS
<1>8. HoldsNames(left, L) /\ HoldsNames(rest, S) /\ L \cap S = {} /\ L \cup S = A \cup F
  <2>1. leaving \in SUBSET DOMAIN worked /\ (DOMAIN worked) \ leaving \in SUBSET DOMAIN worked
    BY <1>h DEF LeavingAt
  <2>2. TakenFrom(left, worked, leaving) /\ TakenFrom(rest, worked, (DOMAIN worked) \ leaving)
    BY <1>3, <1>i, <1>k, <2>1, PickedTakes
  <2>3. L \cap S = {} /\ L \cup S = A \cup F
    BY <1>3, <1>j, <1>l, <2>1, NamesSplit
  <2> QED
    BY <1>j, <1>l, <2>2, <2>3 DEF TakenFrom
<1>m. PICK reborn : reborn = MitigationBlocks(left, i)
  OBVIOUS
<1>n. PICK R : R = Grown(L, "MITIGATION")
  OBVIOUS
<1>9. HoldsNames(reborn, R) /\ NamesOf(reborn) = R
  <2>1. \A name \in L : IsSeq(name)
    BY <1>1, <1>4, <1>8
  <2>2. HoldsNames(reborn, R)
    BY <1>8, <1>m, <1>n, <2>1, MitigationBlocksHold
  <2> QED
    BY <2>2 DEF HoldsNames
<1>10. /\ B \cap made = {} /\ B \cap F = {} /\ R \cap made = {} /\ R \cap F = {} /\ B \cap R = {}
       /\ \A name \in B \cup R : NamedBy(name, i)
  <2>1. \A name \in C : ~HasMerged(ended, name)
    <3> SUFFICES ASSUME NEW name \in C, HasMerged(ended, name)
                 PROVE  FALSE
      OBVIOUS
    <3>1. PICK n \in DOMAIN ended : ended[n].name = name /\ ended[n].fate = "MERGED"
      BY DEF HasMerged
    <3>2. PICK m \in claimed : ended[m].name = name
      BY <1>d DEF NamesAt
    <3>3. m = n
      BY <1>1, <1>5, <3>1, <3>2 DEF HoldsNames
    <3> QED
      BY <1>5, <3>1, <3>2, <3>3
  <2>2. \A name \in L : ~HasMerged(ended, name)
    <3> SUFFICES ASSUME NEW name \in L, HasMerged(ended, name)
                 PROVE  FALSE
      OBVIOUS
    <3>1. name \in E
      BY <1>1 DEF HasMerged, HoldsNames, NamesOf
    <3> QED
      BY <1>1, <1>2, <1>8, <3>1
  <2>3. C \in SUBSET (made \cup F) /\ L \in SUBSET (made \cup F)
    BY <1>1, <1>6, <1>8
  <2>4. B \cap made = {} /\ B \cap F = {} /\ \A name \in B : NamedBy(name, i)
    <3>1. NewNames(B, made, F, i)
      BY <1>1, <1>g, <2>1, <2>3, GrownIsNew, Zenon
    <3> QED
      BY <3>1 DEF NewNames
  <2>5. R \cap made = {} /\ R \cap F = {} /\ \A name \in R : NamedBy(name, i)
    <3>1. NewNames(R, made, F, i)
      BY <1>1, <1>n, <2>2, <2>3, GrownIsNew, Zenon
    <3> QED
      BY <3>1 DEF NewNames
  <2>6. B \cap R = {}
    <3>1. \A name \in C \cup L : IsSeq(name)
      BY <1>4, <2>3
    <3> QED
      BY <1>g, <1>n, <3>1, GrownOfTwoKinds
  <2> QED
    BY <2>4, <2>5, <2>6
<1>o. PICK G : G = (S \cup B) \cup R
  OBVIOUS
<1>p. PICK sorted : sorted = Sorted(rest \o breakers \o reborn)
  OBVIOUS
<1>11. HoldsNames(sorted, G)
  <2>1. S \cap B = {} /\ (S \cup B) \cap R = {}
    BY <1>1, <1>8, <1>10
  <2>2. PICK t : t = rest \o breakers
    OBVIOUS
  <2>3. HoldsNames(t, S \cup B)
    BY <1>7, <1>8, <2>1, <2>2, JoinedHolds
  <2>4. PICK u : u = t \o reborn
    OBVIOUS
  <2>5. HoldsNames(u, G)
    BY <1>9, <1>o, <2>1, <2>3, <2>4, JoinedHolds
  <2>6. sorted = Sorted(u)
    BY <1>p, <2>2, <2>4
  <2>7. TakenFrom(sorted, u, DOMAIN u)
    BY <2>5, <2>6, SortedTakes
  <2>8. NamesAt(u, DOMAIN u) = G
    BY <2>5 DEF HoldsNames, NamesAt, NamesOf
  <2> QED
    BY <2>7, <2>8 DEF TakenFrom
<1>q. PICK staying : staying = Staying(sorted)
  OBVIOUS
<1>r. PICK kept : kept = Kept(sorted)
  OBVIOUS
<1>s. PICK away : away = MergedAway(sorted)
  OBVIOUS
<1>t. PICK K : K = NamesAt(sorted, staying)
  OBVIOUS
<1>u. PICK M : M = NamesAt(sorted, (DOMAIN sorted) \ staying)
  OBVIOUS
<1>12. HoldsNames(kept, K) /\ HoldsNames(away, M) /\ K \cap M = {} /\ K \cup M = G
  <2>1. staying \in SUBSET DOMAIN sorted /\ (DOMAIN sorted) \ staying \in SUBSET DOMAIN sorted
    <3>1. DOMAIN sorted = 1 .. Len(sorted)
      BY <1>11 DEF HoldsNames, BlockRows
    <3> QED
      BY <1>q, <3>1 DEF Staying
  <2>2. kept = Picked(sorted, staying) /\ away = Picked(sorted, (DOMAIN sorted) \ staying)
    BY <1>q, <1>r, <1>s DEF Kept, MergedAway
  <2>3. TakenFrom(kept, sorted, staying) /\ TakenFrom(away, sorted, (DOMAIN sorted) \ staying)
    BY <1>11, <2>1, <2>2, PickedTakes
  <2>4. K \cap M = {} /\ K \cup M = G
    BY <1>11, <1>t, <1>u, <2>1, NamesSplit
  <2> QED
    BY <1>t, <1>u, <2>3, <2>4 DEF TakenFrom
<1>v. PICK removed : removed = Removed(worked, kept)
  OBVIOUS
<1>w. PICK D : D = NamesAt(kept, DeadIn(kept))
  OBVIOUS
<1>x. PICK Q : Q = NamesAt(kept, (DOMAIN kept) \ DeadIn(kept))
  OBVIOUS
<1>y. PICK stay : stay = Picked(kept, (DOMAIN kept) \ DeadIn(kept))
  OBVIOUS
<1>13. HoldsNames(removed, D) /\ HoldsNames(stay, Q) /\ D \cap Q = {} /\ D \cup Q = K
  <2>1. DeadIn(kept) \in SUBSET DOMAIN kept /\ (DOMAIN kept) \ DeadIn(kept) \in SUBSET DOMAIN kept
    BY DEF DeadIn
  <2>2. removed = Picked(kept, DeadIn(kept))
    BY <1>v DEF Removed
  <2>3. TakenFrom(removed, kept, DeadIn(kept)) /\ TakenFrom(stay, kept, (DOMAIN kept) \ DeadIn(kept))
    BY <1>12, <1>y, <2>1, <2>2, PickedTakes
  <2>4. D \cap Q = {} /\ D \cup Q = K
    BY <1>12, <1>w, <1>x, <2>1, NamesSplit
  <2> QED
    BY <1>w, <1>x, <2>3, <2>4 DEF TakenFrom
<1>14. /\ E \cap L = {} /\ (E \cup L) \cap M = {} /\ ((E \cup L) \cup M) \cap D = {}
       /\ Q \cap (((E \cup L) \cup M) \cup D) = {}
       /\ Q \cup (((E \cup L) \cup M) \cup D) = (((A \cup E) \cup F) \cup B) \cup R
  <2>1. F \cap (A \cup E) = {} /\ B \cap (A \cup E) = {} /\ R \cap (A \cup E) = {}
    BY <1>1, <1>2, <1>10
  <2>2. AllSomewhere(A, E, F, B, R, L, M, D, Q)
    BY <1>1, <1>8, <1>10, <1>12, <1>13, <1>o, <2>1, NamesGoSomewhere, ZenonT(60)
  <2> QED
    BY <2>2, Zenon DEF AllSomewhere
<1>z. PICK old : old = Consumed(claimed)
  OBVIOUS
<1>15. /\ HoldsNames(old, E)
       /\ \A name : HasMerged(ended, name) \/ name \in C => HasMerged(old, name)
  <2>1. old = [n \in 1 .. Len(ended) |-> IF n \in claimed THEN Fated(ended[n], "MERGED") ELSE ended[n]]
    BY <1>z DEF Consumed
  <2> QED
    BY <1>1, <1>5, <1>d, <2>1, ClaimedHold
<1> PICK gone : gone = AllFated(left, "MERGED")
  OBVIOUS
<1> PICK dead : dead = AllFated(away, "MERGED")
  OBVIOUS
<1>16. /\ HoldsNames(gone, L) /\ HoldsNames(dead, M)
       /\ \A name \in L : HasMerged(gone, name)
  <2>1. HoldsNames(gone, L) /\ \A n \in DOMAIN gone : gone[n].fate = "MERGED"
    BY <1>8, FatedHold
  <2>2. HoldsNames(dead, M)
    BY <1>12, FatedHold
  <2>3. \A name \in L : \E n \in DOMAIN gone : gone[n].name = name
    BY <2>1 DEF HoldsNames, NamesOf
  <2> QED
    BY <2>1, <2>2, <2>3 DEF HasMerged
<1> PICK t : t = old \o gone
  OBVIOUS
<1> PICK u : u = t \o dead
  OBVIOUS
<1> PICK v : v = u \o removed
  OBVIOUS
<1>17. HoldsNames(t, E \cup L) /\ ComesAfter(t, old, gone)
  BY <1>14, <1>15, <1>16, JoinedHolds
<1>18. HoldsNames(u, (E \cup L) \cup M) /\ ComesAfter(u, t, dead)
  BY <1>14, <1>16, <1>17, JoinedHolds
<1>19. HoldsNames(v, ((E \cup L) \cup M) \cup D) /\ ComesAfter(v, u, removed)
  BY <1>13, <1>14, <1>18, JoinedHolds
<1>20. \A name : HasMerged(ended, name) \/ name \in C \/ name \in L => HasMerged(v, name)
  BY <1>15, <1>16, <1>17, <1>18, <1>19, MergedFollows
<1>21. active' = stay /\ ended' = v /\ made' = ((made \cup F) \cup B) \cup R
  BY <1>2, <1>7, <1>9, <1>a, <1>b, <1>c, <1>e, <1>f, <1>h, <1>i, <1>k, <1>m, <1>p, <1>r, <1>s, <1>v, <1>y, <1>z, i # 1,
     ZenonT(60) DEF BarWorked, WorkBar
<1>22. Converted(((made \cup F) \cup B) \cup R, v)
  <2> SUFFICES ASSUME NEW name, NEW kind, IsSeq(name), Len(name) >= 2,
                      Append(name, kind) \in ((made \cup F) \cup B) \cup R
               PROVE  HasMerged(v, name)
    BY Zenon DEF Converted
  <2>0. Grows(name, kind, Append(name, kind))
    BY OneMoreOf, Zenon
  <2>1. CASE Append(name, kind) \in made
    <3>1. HasMerged(ended, name)
      BY <1>1, <2>1, Zenon DEF Converted
    <3> QED
      BY <1>20, <3>1
  <2>2. CASE Append(name, kind) \in F
    <3>1. \A x \in F : Len(x) = 2
      BY <1>1, FoundIsNew
    <3>2. Len(Append(name, kind)) # 2
      BY <2>0 DEF Grows
    <3> QED
      BY <2>2, <3>1, <3>2, Zenon
  <2>3. CASE Append(name, kind) \in B
    <3>1. PICK m \in C : Append(name, kind) = Append(m, "BREAKER")
      BY <1>g, <2>3, Zenon DEF Grown
    <3>2. IsSeq(m)
      BY <1>1, <1>4, <1>6
    <3>3. Grows(m, "BREAKER", Append(name, kind))
      BY <3>1, <3>2, OneMoreOf, Zenon
    <3>4. name = m
      BY <2>0, <3>2, <3>3, GrewFromOne, Zenon
    <3> QED
      BY <1>20, <3>4, Zenon
  <2>4. CASE Append(name, kind) \in R
    <3>1. PICK m \in L : Append(name, kind) = Append(m, "MITIGATION")
      BY <1>n, <2>4, Zenon DEF Grown
    <3>2. IsSeq(m)
      BY <1>1, <1>4, <1>8
    <3>3. Grows(m, "MITIGATION", Append(name, kind))
      BY <3>1, <3>2, OneMoreOf, Zenon
    <3>4. name = m
      BY <2>0, <3>2, <3>3, GrewFromOne, Zenon
    <3> QED
      BY <1>20, <3>4, Zenon
  <2> QED
    BY <2>1, <2>2, <2>3, <2>4
<1>23. \A name \in ((made \cup F) \cup B) \cup R : NamedBy(name, i)
  BY <1>4, <1>10
<1>24. NamesOf(v) = ((E \cup L) \cup M) \cup D /\ NamesOf(stay) = Q
  BY <1>13, <1>19 DEF HoldsNames
<1> QED
  BY <1>1, <1>13, <1>14, <1>19, <1>21, <1>22, <1>23, <1>24 DEF WholeBlocks

BlockInv ==
  /\ WholeTape(blockBars)
  /\ WholeBlocks(active, ended, made, Len(blockBars) - DispMaxK - 1)

LEMMA BlockStarts == BlockInit => BlockInv
<1> SUFFICES ASSUME BlockInit
             PROVE  BlockInv
  OBVIOUS
<1>1. IsSeq(<<>>) /\ Len(<<>>) = 0 /\ DOMAIN <<>> = {}
  BY DEF IsSeq
<1>2. WholeTape(blockBars)
  BY <1>1 DEF WholeTape, BlockInit
<1>3. HoldsNames(<<>>, {}) /\ NamesOf(<<>>) = {}
  BY <1>1 DEF HoldsNames, BlockRows, NamesOf
<1>4. active = <<>> /\ ended = <<>> /\ made = {}
  BY DEF BlockInit
<1>5. WholeBlocks(active, ended, made, Len(blockBars) - DispMaxK - 1)
  BY <1>3, <1>4 DEF WholeBlocks, Converted
<1> QED
  BY <1>2, <1>5 DEF BlockInv

LEMMA BlockGoesOn == BlockInv /\ [BlockNext]_blockVars => BlockInv'
<1> SUFFICES ASSUME BlockInv, [BlockNext]_blockVars
             PROVE  BlockInv'
  OBVIOUS
<1>1. CASE BlockNext
  <2>0. PICK n \in 1 .. Len(BlockTape) : \E b \in BlockTape[n] : BlockBarCloses(b)
    BY <1>1 DEF BlockNext
  <2>1. PICK b \in BlockTape[n] : BlockBarCloses(b)
    BY <2>0
  <2>2. {b.o, b.h, b.l, b.c} \subseteq Int
    BY <2>1, BlockBounds
  <2>3. PICK w : w = blockBars'
    OBVIOUS
  <2>4. Grows(blockBars, b, w)
    BY <2>1, <2>3, OneMoreOf DEF BlockBarCloses, BlockInv, WholeTape
  <2>5. WholeTape(w) /\ Len(w) = Len(blockBars) + 1 /\ Len(blockBars) \in Nat
    <3>1. \A k \in 1 .. Len(w) : k \in 1 .. Len(blockBars) \/ k = Len(blockBars) + 1
      BY <2>4 DEF Grows
    <3>2. \A k \in 1 .. Len(blockBars) :
             {blockBars[k].o, blockBars[k].h, blockBars[k].l, blockBars[k].c} \subseteq Int
      BY DEF BlockInv, WholeTape
    <3>3. \A k \in 1 .. Len(w) : {w[k].o, w[k].h, w[k].l, w[k].c} \subseteq Int
      BY <2>2, <2>4, <3>1, <3>2 DEF Grows
    <3> QED
      BY <2>4, <3>3 DEF Grows, WholeTape
  <2>6. PICK i \in Int : i = Len(w) - DispMaxK - 1
    BY <2>5, BlockBounds
  <2>7. WholeBlocks(active, ended, made, i - 1)
    <3>1. Len(blockBars) - DispMaxK - 1 = i - 1
      BY <2>5, <2>6, BlockBounds
    <3> QED
      BY <3>1 DEF BlockInv
  <2>8. CASE i < 1
    <3>1. active' = active /\ ended' = ended /\ made' = made
      BY <2>1, <2>3, <2>6, <2>8 DEF BlockBarCloses
    <3>2. \A name \in made : NamedBy(name, i)
      <4>1. \A name \in made : NamedBy(name, i - 1)
        BY <2>7 DEF WholeBlocks
      <4> QED
        BY <4>1 DEF NamedBy
    <3>3. WholeBlocks(active', ended', made', i)
      BY <2>7, <3>1, <3>2 DEF WholeBlocks
    <3> QED
      BY <2>3, <2>5, <2>6, <3>3 DEF BlockInv
  <2>9. CASE ~(i < 1)
    <3>1. WorkBar(w, i)
      BY <2>1, <2>3, <2>6, <2>9, Zenon DEF BlockBarCloses
    <3>2. i \in Nat /\ i >= 1 /\ i + DispMaxK + 1 <= Len(w)
      BY <2>5, <2>6, <2>9, BlockBounds
    <3>3. PICK F \in SUBSET FoundNames(i) : HoldsNames(DetectedAt(w, i), F)
      BY <2>5, <3>2, FoundHolds
    <3>4. BarWorked(w, i, DetectedAt(w, i), F)
      BY <2>7, <3>1, <3>2, <3>3, Zenon DEF BarWorked
    <3>5. WholeBlocks(active', ended', made', i)
      BY <3>4, FirstBarIsWhole, LaterBarIsWhole, Zenon
    <3> QED
      BY <2>3, <2>5, <2>6, <3>5 DEF BlockInv
  <2> QED
    BY <2>8, <2>9
<1>2. CASE UNCHANGED blockVars
  <2>1. blockBars' = blockBars /\ active' = active /\ ended' = ended /\ made' = made
    BY <1>2 DEF blockVars
  <2> QED
    BY <2>1, Zenon DEF BlockInv
<1> QED
  BY <1>1, <1>2

LEMMA NamesCount ==
  ASSUME NEW s, NEW N, HoldsNames(s, N)
  PROVE  Len(s) = Cardinality(N)
<1>1. DOMAIN s = 1 .. Len(s) /\ Len(s) \in Nat
  BY DEF HoldsNames, BlockRows
<1>2. PICK f : f = [n \in 1 .. Len(s) |-> s[n].name]
  OBVIOUS
<1>3. \A x \in N : \E n \in 1 .. Len(s) : f[n] = x
  BY <1>1, <1>2 DEF HoldsNames, NamesOf
<1>4. f \in [1 .. Len(s) -> N]
  BY <1>1, <1>2 DEF HoldsNames, NamesOf
<1>5. \A m, n \in 1 .. Len(s) : f[m] = f[n] => m = n
  BY <1>1, <1>2 DEF HoldsNames
<1>6. f \in Injection(1 .. Len(s), N)
  BY <1>4, <1>5 DEF Injection, IsInjective
<1>7. f \in Surjection(1 .. Len(s), N)
  BY <1>3, <1>4 DEF Surjection
<1>8. IsFiniteSet(1 .. Len(s)) /\ Cardinality(1 .. Len(s)) = Len(s)
  <2>1. PICK m \in Nat : m = Len(s)
    BY <1>1
  <2>2. IsFiniteSet(1 .. m) /\ Cardinality(1 .. m) = m
    BY FS_Interval
  <2> QED
    BY <2>1, <2>2, ZenonT(60)
<1> QED
  BY <1>6, <1>7, <1>8, FS_Surjection

\* However blocks are merged, converted and ended on one and the same bar
\* (update_with_bar, _merge_overlapping, _detect_breaker_conversion,
\* _detect_mitigation_block): each is in exactly one of the two lists, once.
THEOREM BlocksStayConserved == BlockSpec => []BlocksAreConserved
<1>1. BlockInv => BlocksAreConserved
  <2> SUFFICES ASSUME BlockInv
               PROVE  BlocksAreConserved
    OBVIOUS
  <2>1. /\ HoldsNames(active, NamesOf(active)) /\ HoldsNames(ended, NamesOf(ended))
        /\ NamesOf(active) \cap NamesOf(ended) = {} /\ NamesOf(active) \cup NamesOf(ended) = made
    BY DEF BlockInv, WholeBlocks
  <2>2. PICK u : u = active \o ended
    OBVIOUS
  <2>3. HoldsNames(u, made)
    BY <2>1, <2>2, JoinedHolds
  <2>4. NamesOf(u) = made /\ Len(u) = Cardinality(made)
    BY <2>3, NamesCount DEF HoldsNames
  <2> QED
    BY <2>2, <2>4 DEF BlocksAreConserved
<1> QED
  BY <1>1, BlockStarts, BlockGoesOn, PTL DEF BlockSpec

-----------------------------------------------------------------------------
(* E07.  The components are judged one by one, the last of them last, so   *)
(* what is claimed of all of them is shown of every set of places that     *)
(* the walk has come through.                                              *)

RtmSpec == RtmInit /\ [][RtmNext]_rtmVars

\* Places of a list of components with a time each.
Timed(D, present, times) ==
  /\ IsFiniteSet(D) /\ D \in SUBSET Nat
  /\ \A i \in D : present[i] \in ToSet(Chain) /\ times[present[i]] \in Int

IsLastInTime(k, places, present, times) ==
  /\ k \in places
  /\ \A j \in places : \/ times[present[j]] < times[present[k]]
                       \/ times[present[j]] = times[present[k]] /\ j <= k

LEMMA SlotsTellApart ==
  /\ \A x \in ToSet(Chain) : SeqIdx(x) \in Nat /\ SeqIdx(x) >= 1
  /\ \A x, y \in ToSet(Chain) : SeqIdx(x) = SeqIdx(y) => x = y
<1>1. Chain \in Seq(ToSet(Chain))
  BY RtmBounds
<1>2. \A x \in ToSet(Chain) : \E i \in DOMAIN Chain : Chain[i] = x
  BY DEF ToSet
<1>3. \A x \in ToSet(Chain) : SeqIdx(x) \in DOMAIN Chain /\ Chain[SeqIdx(x)] = x
  BY <1>2 DEF SeqIdx
<1>4. \A i \in DOMAIN Chain : i \in Nat /\ i >= 1
  BY <1>1
<1> QED
  BY <1>3, <1>4

LEMMA SomeComeLast ==
  ASSUME NEW present, NEW times, NEW D, Timed(D, present, times),
         NEW T \in SUBSET D, T # {}
  PROVE  IsLastInTime(LastInTime(T, present, times), T, present, times)
<1> DEFINE F == {U \in SUBSET D : U # {} => \E k \in U : IsLastInTime(k, U, present, times)}
<1>1. {} \in F
  OBVIOUS
<1>2. ASSUME NEW U \in SUBSET D, U # {}, \A x \in U : U \ {x} \in F
      PROVE  U \in F
  <2>1. PICK x \in U : TRUE
    BY <1>2
  <2>2. \A i \in D : i \in Nat /\ times[present[i]] \in Int
    BY DEF Timed
  <2>3. CASE U \ {x} = {}
    <3>1. U = {x}
      BY <2>1, <2>3
    <3>2. IsLastInTime(x, U, present, times)
      BY <2>1, <2>2, <3>1 DEF IsLastInTime
    <3> QED
      BY <2>1, <3>2
  <2>4. CASE U \ {x} # {}
    <3>1. PICK k \in U \ {x} : IsLastInTime(k, U \ {x}, present, times)
      BY <1>2, <2>1, <2>4
    <3>2. CASE \/ times[present[x]] < times[present[k]]
               \/ times[present[x]] = times[present[k]] /\ x <= k
      <4>1. IsLastInTime(k, U, present, times)
        BY <3>1, <3>2 DEF IsLastInTime
      <4> QED
        BY <3>1, <4>1
    <3>3. CASE ~(\/ times[present[x]] < times[present[k]]
                 \/ times[present[x]] = times[present[k]] /\ x <= k)
      <4>1. k \in Nat /\ x \in Nat /\ times[present[x]] \in Int /\ times[present[k]] \in Int
        BY <2>1, <2>2, <3>1
      <4>2. times[present[k]] < times[present[x]] \/ (times[present[k]] = times[present[x]] /\ k <= x)
        BY <3>3, <4>1
      <4>3. ASSUME NEW j \in U
            PROVE  times[present[j]] < times[present[x]] \/ (times[present[j]] = times[present[x]] /\ j <= x)
        <5>1. CASE j = x
          BY <4>1, <5>1
        <5>2. CASE j # x
          <6>1. j \in Nat /\ times[present[j]] \in Int
            BY <2>2
          <6>2. times[present[j]] < times[present[k]] \/ (times[present[j]] = times[present[k]] /\ j <= k)
            BY <3>1, <5>2 DEF IsLastInTime
          <6> QED
            BY <4>1, <4>2, <6>1, <6>2
        <5> QED
          BY <5>1, <5>2
      <4>4. IsLastInTime(x, U, present, times)
        BY <2>1, <4>3 DEF IsLastInTime
      <4> QED
        BY <2>1, <4>4
    <3> QED
      BY <3>2, <3>3
  <2> QED
    BY <2>3, <2>4
<1>3. \A U \in SUBSET D : U \in F
  <2> HIDE DEF F
  <2>1. IsFiniteSet(D)
    BY DEF Timed
  <2> QED
    BY <1>1, <1>2, <2>1, EverySubset
<1>4. \E k \in T : IsLastInTime(k, T, present, times)
  BY <1>3
<1> QED
  BY <1>4 DEF LastInTime, IsLastInTime

\* h holds the judgement of every set of places in a family.
Judges(F, present, times, h) ==
  h = [s \in F |-> IF s = {} THEN [slot |-> 0, ok |-> {}]
                   ELSE Judged(h[s \ {LastInTime(s, present, times)}],
                               present[LastInTime(s, present, times)])]

LEMMA JudgementExists ==
  ASSUME NEW present, NEW times, NEW D, Timed(D, present, times)
  PROVE  \E h : Judges(SUBSET D, present, times, h)
<1> DEFINE L(s) == LastInTime(s, present, times)
           base == [slot |-> 0, ok |-> {}]
           N == {n \in Nat : \E h : Judges(Small(D, n), present, times, h)}
<1>0. /\ IsFiniteSet(D)
      /\ \A s \in SUBSET D : s # {} => L(s) \in s
  <2>1. IsFiniteSet(D)
    BY DEF Timed
  <2> QED
    BY <2>1, SomeComeLast DEF IsLastInTime
<1>9. \A s \in SUBSET D : /\ IsFiniteSet(s) /\ Cardinality(s) \in Nat
                          /\ s # {} => Cardinality(s) > 0
                          /\ \A x \in s : Cardinality(s \ {x}) = Cardinality(s) - 1
  BY <1>0, FS_Subset, FS_CardinalityType, SmallerSets, FS_RemoveElement
<1>1. 0 \in N
  <2>1. Small(D, 0) = {{}}
    BY <1>9, FS_EmptySet DEF Small
  <2>2. Judges({{}}, present, times, [s \in {{}} |-> base])
    BY DEF Judges
  <2> QED
    BY <2>1, <2>2
<1>2. ASSUME NEW n \in Nat, n \in N
      PROVE  n + 1 \in N
  <2>1. PICK g : Judges(Small(D, n), present, times, g)
    BY <1>2
  <2> DEFINE h == [s \in Small(D, n + 1) |-> IF s = {} THEN base ELSE Judged(g[s \ {L(s)}], present[L(s)])]
  <2>2. \A s \in Small(D, n) : s \in Small(D, n + 1)
    BY <1>9 DEF Small
  <2>3. ASSUME NEW s \in Small(D, n)
        PROVE  g[s] = IF s = {} THEN base ELSE Judged(g[s \ {L(s)}], present[L(s)])
    BY <2>1, Zenon DEF Judges
  <2>4. \A s \in Small(D, n) : h[s] = g[s]
    BY <2>2, <2>3
  <2>5. ASSUME NEW s \in Small(D, n + 1), s # {}
        PROVE  s \ {L(s)} \in Small(D, n)
    <3>1. s \in SUBSET D /\ Cardinality(s) <= n + 1
      BY DEF Small
    <3>2. s \ {L(s)} \in SUBSET D /\ Cardinality(s) \in Nat
          /\ Cardinality(s \ {L(s)}) = Cardinality(s) - 1
      BY <1>0, <1>9, <2>5, <3>1
    <3> QED
      BY <3>1, <3>2 DEF Small
  <2>6. ASSUME NEW s \in Small(D, n + 1)
        PROVE  h[s] = IF s = {} THEN base ELSE Judged(h[s \ {L(s)}], present[L(s)])
    BY <2>4, <2>5
  <2>7. h = [s \in Small(D, n + 1) |-> h[s]]
    OBVIOUS
  <2> HIDE DEF h
  <2>8. Judges(Small(D, n + 1), present, times, h)
    BY <2>6, <2>7 DEF Judges
  <2> QED
    BY <2>8
<1>3. Nat \subseteq N
  <2> HIDE DEF N
  <2> QED
    BY <1>1, <1>2, EveryNatural
<1>4. Cardinality(D) \in Nat /\ Small(D, Cardinality(D)) = SUBSET D
  BY <1>0, FS_Subset, FS_CardinalityType DEF Small
<1> QED
  BY <1>3, <1>4

\* What the walk has made of the components met so far.
WalkedThrough(met, times, slot, ok) ==
  /\ ok \subseteq met /\ slot \in Nat
  /\ slot = 0 \/ \E z \in ok : SeqIdx(z) = slot
  /\ \A x, y \in ok : times[x] < times[y] => SeqIdx(x) < SeqIdx(y)
  /\ \A x \in ok : SeqIdx(x) <= slot
  /\ \A x \in met \ ok : \E y \in ok : SeqIdx(y) > SeqIdx(x) /\ times[y] <= times[x]

\* One more component, no earlier than those met.
LEMMA WalkGoesOn ==
  ASSUME NEW met \in SUBSET ToSet(Chain), NEW times, NEW slot, NEW ok,
         WalkedThrough(met, times, slot, ok),
         NEW cid \in ToSet(Chain), times[cid] \in Int,
         \A x \in met : times[x] \in Int /\ times[x] <= times[cid]
  PROVE  /\ SeqIdx(cid) >= slot => WalkedThrough(met \cup {cid}, times, SeqIdx(cid), ok \cup {cid})
         /\ ~(SeqIdx(cid) >= slot) => WalkedThrough(met \cup {cid}, times, slot, ok \ {cid})
<1>1. /\ \A x \in met \cup {cid} : x \in ToSet(Chain) /\ SeqIdx(x) \in Nat /\ times[x] \in Int
      /\ SeqIdx(cid) >= 1
      /\ \A x, y \in met \cup {cid} : SeqIdx(x) = SeqIdx(y) => x = y
  BY SlotsTellApart
<1>2. /\ ok \subseteq met /\ slot \in Nat
      /\ slot = 0 \/ \E z \in ok : SeqIdx(z) = slot
      /\ \A x, y \in ok : times[x] < times[y] => SeqIdx(x) < SeqIdx(y)
      /\ \A x \in ok : SeqIdx(x) <= slot
      /\ \A x \in met \ ok : \E y \in ok : SeqIdx(y) > SeqIdx(x) /\ times[y] <= times[x]
  BY DEF WalkedThrough
<1>3. CASE SeqIdx(cid) >= slot
  <2>1. ok \cup {cid} \subseteq met \cup {cid} /\ SeqIdx(cid) \in Nat /\ cid \in ok \cup {cid}
    BY <1>1, <1>2
  <2>2. ASSUME NEW x \in ok \cup {cid}, NEW y \in ok \cup {cid}, times[x] < times[y]
        PROVE  SeqIdx(x) < SeqIdx(y)
    <3>0. x \in met \cup {cid} /\ y \in met \cup {cid} /\ x # y
      BY <1>1, <1>2, <2>2
    <3>1. CASE x \in ok /\ y \in ok
      BY <1>2, <2>2, <3>1
    <3>2. CASE x = cid
      BY <1>1, <2>2, <3>0, <3>2
    <3>3. CASE x \in ok /\ y = cid
      <4>1. SeqIdx(x) <= slot /\ SeqIdx(x) # SeqIdx(cid)
        BY <1>1, <1>2, <3>0, <3>3
      <4>2. SeqIdx(x) \in Nat /\ SeqIdx(cid) \in Nat
        BY <1>1, <3>0
      <4> QED
        BY <1>2, <1>3, <3>3, <4>1, <4>2
    <3> QED
      BY <3>1, <3>2, <3>3
  <2>3. \A x \in ok \cup {cid} : SeqIdx(x) <= SeqIdx(cid)
    <3> TAKE x \in ok \cup {cid}
    <3>1. SeqIdx(x) \in Nat /\ SeqIdx(cid) \in Nat
      BY <1>1, <1>2
    <3>2. x = cid \/ SeqIdx(x) <= slot
      BY <1>2
    <3> QED
      BY <1>2, <1>3, <3>1, <3>2
  <2>4. \A x \in (met \cup {cid}) \ (ok \cup {cid}) :
          \E y \in ok \cup {cid} : SeqIdx(y) > SeqIdx(x) /\ times[y] <= times[x]
    BY <1>2
  <2>5. WalkedThrough(met \cup {cid}, times, SeqIdx(cid), ok \cup {cid})
    BY <2>1, <2>2, <2>3, <2>4 DEF WalkedThrough
  <2> QED
    BY <1>3, <2>5
<1>4. CASE ~(SeqIdx(cid) >= slot)
  <2>1. PICK z \in ok : SeqIdx(z) = slot
    BY <1>1, <1>2, <1>4
  <2>2. SeqIdx(z) > SeqIdx(cid) /\ z # cid /\ times[z] <= times[cid] /\ z \in ok \ {cid}
    BY <1>1, <1>2, <1>4, <2>1
  <2>3. ASSUME NEW x \in (met \cup {cid}) \ (ok \ {cid})
        PROVE  \E y \in ok \ {cid} : SeqIdx(y) > SeqIdx(x) /\ times[y] <= times[x]
    <3>1. CASE x = cid
      BY <2>2, <3>1
    <3>2. CASE x # cid
      <4>1. x \in met \ ok
        BY <3>2
      <4>2. PICK y \in ok : SeqIdx(y) > SeqIdx(x) /\ times[y] <= times[x]
        BY <1>2, <4>1
      <4>3. CASE y # cid
        BY <4>2, <4>3
      <4>4. CASE y = cid
        <5>1. /\ SeqIdx(z) \in Nat /\ SeqIdx(cid) \in Nat /\ SeqIdx(x) \in Nat
              /\ times[z] \in Int /\ times[cid] \in Int /\ times[x] \in Int
          BY <1>1, <1>2, <2>1, <4>1
        <5>2. SeqIdx(z) > SeqIdx(x) /\ times[z] <= times[x]
          BY <2>2, <4>2, <4>4, <5>1
        <5> QED
          BY <2>2, <5>2
      <4> QED
        BY <4>3, <4>4
    <3> QED
      BY <3>1, <3>2
  <2>4. WalkedThrough(met \cup {cid}, times, slot, ok \ {cid})
    <3>1. ok \ {cid} \subseteq met \cup {cid}
      BY <1>2
    <3>2. \E w \in ok \ {cid} : SeqIdx(w) = slot
      BY <2>1, <2>2
    <3> QED
      BY <1>2, <2>3, <3>1, <3>2 DEF WalkedThrough
  <2> QED
    BY <1>4, <2>4
<1> QED
  BY <1>3, <1>4

\* What the verdicts make of a list of components.
LEMMA VerdictsOf ==
  ASSUME NEW present, NEW times, Timed(DOMAIN present, present, times)
  PROVE  \E slot : WalkedThrough(Listed(present), times, slot, Verdicts(present, times))
<1> PICK D : D = DOMAIN present
  OBVIOUS
<1> DEFINE L(s) == LastInTime(s, present, times)
           base == [slot |-> 0, ok |-> {}]
           body(h) == [s \in SUBSET DOMAIN present |->
                         IF s = {} THEN [slot |-> 0, ok |-> {}]
                         ELSE LET k == LastInTime(s, present, times) IN Judged(h[s \ {k}], present[k])]
           after == CHOOSE h : h = body(h)
<1>1. Verdicts(present, times) = after[DOMAIN present].ok
  BY DEF Verdicts
<1>2. \E h : h = body(h)
  <2>1. PICK h : Judges(SUBSET DOMAIN present, present, times, h)
    BY JudgementExists
  <2>2. h = body(h)
    BY <2>1 DEF Judges
  <2> QED
    BY <2>2, Zenon
<1>3. after = body(after)
  BY <1>2
<1> HIDE DEF after
<1>4. \A s \in SUBSET D : after[s] = IF s = {} THEN base ELSE Judged(after[s \ {L(s)}], present[L(s)])
  BY <1>3
<1> DEFINE F == {s \in SUBSET D : WalkedThrough({present[i] : i \in s}, times, after[s].slot, after[s].ok)}
<1>5. {} \in F
  <2>1. after[{}].slot = 0 /\ after[{}].ok = {}
    BY <1>4
  <2>2. {present[i] : i \in {}} = {}
    OBVIOUS
  <2> QED
    BY <2>1, <2>2 DEF WalkedThrough
<1>6. ASSUME NEW s \in SUBSET D, s # {}, \A x \in s : s \ {x} \in F
      PROVE  s \in F
  <2>1. PICK k : k = L(s)
    OBVIOUS
  <2>2. IsLastInTime(k, s, present, times)
    BY <1>6, <2>1, SomeComeLast
  <2>3. PICK met : met = {present[i] : i \in s \ {k}}
    OBVIOUS
  <2>4. PICK was : was = after[s \ {k}]
    OBVIOUS
  <2>5. PICK cid : cid = present[k]
    OBVIOUS
  <2>6. k \in s /\ WalkedThrough(met, times, was.slot, was.ok)
    BY <1>6, <2>2, <2>3, <2>4 DEF IsLastInTime
  <2>7. /\ met \in SUBSET ToSet(Chain) /\ cid \in ToSet(Chain) /\ times[cid] \in Int
        /\ \A x \in met : times[x] \in Int /\ times[x] <= times[cid]
    BY <2>2, <2>3, <2>5, <2>6 DEF Timed, IsLastInTime
  <2>8. {present[i] : i \in s} = met \cup {cid}
    BY <2>3, <2>5, <2>6
  <2>9. after[s] = Judged(was, cid)
    BY <1>4, <1>6, <2>1, <2>4, <2>5
  <2>10. CASE SeqIdx(cid) >= was.slot
    <3>1. after[s].slot = SeqIdx(cid) /\ after[s].ok = was.ok \cup {cid}
      BY <2>9, <2>10 DEF Judged
    <3>2. WalkedThrough(met \cup {cid}, times, SeqIdx(cid), was.ok \cup {cid})
      BY <2>6, <2>7, <2>10, WalkGoesOn
    <3> QED
      BY <2>8, <3>1, <3>2
  <2>11. CASE ~(SeqIdx(cid) >= was.slot)
    <3>1. after[s].slot = was.slot /\ after[s].ok = was.ok \ {cid}
      BY <2>9, <2>11 DEF Judged
    <3>2. WalkedThrough(met \cup {cid}, times, was.slot, was.ok \ {cid})
      BY <2>6, <2>7, <2>11, WalkGoesOn
    <3> QED
      BY <2>8, <3>1, <3>2
  <2> QED
    BY <2>10, <2>11
<1>7. D \in F
  <2> HIDE DEF F
  <2>1. IsFiniteSet(D)
    BY DEF Timed
  <2>2. \A s \in SUBSET D : s \in F
    BY <1>5, <1>6, <2>1, EverySubset
  <2> QED
    BY <2>2
<1> QED
  BY <1>1, <1>7 DEF Listed

LEMMA WeightsAddUp ==
  /\ Summable(WeightOf, ToSet(Chain)) /\ Adds(WeightOf, ToSet(Chain))
  /\ \A S : WeightIn(S) = Total(WeightOf, S)
  /\ TotalWeight = Total(WeightOf, ToSet(Chain))
  /\ \A x \in ToSet(Chain) : WeightOf[x] \in Nat /\ WeightOf[x] > 0
<1>1. Chain \in Seq(ToSet(Chain)) /\ WeightOf \in [ToSet(Chain) -> Nat \ {0}]
  BY RtmBounds
<1>2. \A x \in ToSet(Chain) : WeightOf[x] \in Nat /\ WeightOf[x] > 0
  BY <1>1
<1>3. IsFiniteSet(ToSet(Chain))
  <2>1. IsFiniteSet(1 .. Len(Chain)) /\ DOMAIN Chain = 1 .. Len(Chain)
    BY <1>1, FS_Interval
  <2>2. Chain \in Surjection(DOMAIN Chain, ToSet(Chain))
    BY <1>1 DEF Surjection, ToSet
  <2> QED
    BY <2>1, <2>2, FS_Surjection
<1>4. Summable(WeightOf, ToSet(Chain))
  BY <1>2, <1>3 DEF Summable
<1>5. Adds(WeightOf, ToSet(Chain))
  BY <1>4, TotalByElement
<1>6. ASSUME NEW S
      PROVE  WeightIn(S) = Total(WeightOf, S)
  BY DEF WeightIn, Total
<1>7. TotalWeight = Total(WeightOf, ToSet(Chain))
  BY DEF TotalWeight, Total
<1> QED
  BY <1>2, <1>4, <1>5, <1>6, <1>7

\* No weight is negative, and only no components weigh nothing.
LEMMA WeightsCount ==
  \A S \in SUBSET ToSet(Chain) :
    /\ Total(WeightOf, S) \in Nat
    /\ Total(WeightOf, S) = 0 => S = {}
<1> DEFINE F == {T \in SUBSET ToSet(Chain) : Total(WeightOf, T) \in Nat /\ (Total(WeightOf, T) = 0 => T = {})}
<1>1. {} \in F
  BY TotalOfNone
<1>2. ASSUME NEW T \in SUBSET ToSet(Chain), T # {}, \A x \in T : T \ {x} \in F
      PROVE  T \in F
  <2>1. PICK x \in T : TRUE
    BY <1>2
  <2>2. Total(WeightOf, T) = WeightOf[x] + Total(WeightOf, T \ {x})
    BY <2>1, WeightsAddUp DEF Adds
  <2>3. WeightOf[x] \in Nat /\ WeightOf[x] > 0 /\ Total(WeightOf, T \ {x}) \in Nat
    BY <1>2, <2>1, WeightsAddUp
  <2> QED
    BY <2>2, <2>3
<1>3. \A T \in SUBSET ToSet(Chain) : T \in F
  <2> HIDE DEF F
  <2> QED
    BY <1>1, <1>2, WeightsAddUp, EverySubset DEF Summable
<1> QED
  BY <1>3

\* Only the whole chain, all of it in order, is of full strength.
LEMMA FullStrength ==
  ASSUME NEW c \in SUBSET ToSet(Chain), c # {}, NEW ok \in SUBSET c, Integrity(c, ok) = 1000
  PROVE  ok = c /\ c = ToSet(Chain)
<1> PICK S : S = ToSet(Chain)
  OBVIOUS
<1> PICK a : a = Total(WeightOf, ok)
  OBVIOUS
<1> PICK b : b = Total(WeightOf, c \ ok)
  OBVIOUS
<1> PICK d : d = Total(WeightOf, S \ c)
  OBVIOUS
<1> PICK t : t = Total(WeightOf, S)
  OBVIOUS
<1>1. /\ a \in Nat /\ b \in Nat /\ d \in Nat /\ t \in Nat
      /\ b = 0 => c \ ok = {}
      /\ d = 0 => S \ c = {}
      /\ t = 0 => S = {}
  BY WeightsCount
<1>2. Total(WeightOf, c) = a + b
  <2>1. SplitsAt(WeightOf, S, ok)
    BY WeightsAddUp, TotalOfParts
  <2>2. c \cap ok = ok
    OBVIOUS
  <2> QED
    BY <2>1, <2>2 DEF SplitsAt
<1>3. t = Total(WeightOf, c) + d
  <2>1. SplitsAt(WeightOf, S, c)
    BY WeightsAddUp, TotalOfParts
  <2>2. S \cap c = c
    OBVIOUS
  <2> QED
    BY <2>1, <2>2 DEF SplitsAt
<1>4. t > 0
  BY <1>1
<1>5. (1000 * a + 500 * b) \div t = 1000
  BY WeightsAddUp DEF Integrity
<1>6. b = 0 /\ d = 0
  <2> PICK n \in Nat : n = 1000 * a + 500 * b
    BY <1>1
  <2>1. n \div t = 1000
    BY <1>5
  <2>2. 1000 * t <= n
    BY <1>1, <1>4, <2>1
  <2>3. t = a + b + d
    BY <1>1, <1>2, <1>3
  <2> QED
    BY <1>1, <2>2, <2>3
<1> QED
  BY <1>1, <1>6

\* A bundle says what VerdictsFormAChain has it say.
SoundBundle(b) ==
  /\ {"order", "ok", "integrity"} \subseteq DOMAIN b
  /\ DOMAIN b.order \in SUBSET ToSet(Chain) /\ b.ok \in SUBSET DOMAIN b.order
  /\ \A x, y \in b.ok : b.order[x] < b.order[y] => SeqIdx(x) < SeqIdx(y)
  /\ DOMAIN b.order # {} /\ b.integrity = 1000 =>
       (b.ok = DOMAIN b.order /\ DOMAIN b.order = ToSet(Chain))
  /\ \A x \in (DOMAIN b.order) \ b.ok :
       \E y \in b.ok : SeqIdx(y) > SeqIdx(x) /\ b.order[y] <= b.order[x]

SoundBundles(s) ==
  /\ IsSeq(s) /\ Len(s) \in Nat /\ DOMAIN s = 1 .. Len(s)
  /\ \A i \in DOMAIN s : SoundBundle(s[i])

RtmInv ==
  /\ rtmBar \in Nat
  /\ confirmations \in Seq([cid : ToSet(Chain), at : Nat])
  /\ SoundBundles(bundles)

\* Of every component confirmed there is the bar of its first confirmation.
LEMMA FirstConfirmations ==
  ASSUME NEW known \in SUBSET [cid : ToSet(Chain), at : Nat]
  PROVE  /\ DOMAIN OrderMap(known) = {c.cid : c \in known}
         /\ \A x \in DOMAIN OrderMap(known) : x \in ToSet(Chain) /\ OrderMap(known)[x] \in Nat
<1>1. DOMAIN OrderMap(known) = {c.cid : c \in known}
  BY DEF OrderMap
<1>2. ASSUME NEW x \in DOMAIN OrderMap(known)
      PROVE  x \in ToSet(Chain) /\ OrderMap(known)[x] \in Nat
  <2>1. PICK c \in known : c.cid = x
    BY <1>1
  <2>2. PICK S : S = {d.at : d \in {e \in known : e.cid = x}}
    OBVIOUS
  <2>3. S \in SUBSET Nat /\ c.at \in S
    BY <2>1, <2>2
  <2>4. Min(S) \in Nat
    BY <2>3, LeastOf
  <2>5. OrderMap(known)[x] = Min(S)
    BY <1>1, <2>2 DEF OrderMap
  <2>6. c \in [cid : ToSet(Chain), at : Nat]
    OBVIOUS
  <2> QED
    BY <2>1, <2>4, <2>5, <2>6
<1> QED
  BY <1>1, <1>2

LEMMA BuiltIsSound ==
  ASSUME NEW present, NEW times, Timed(DOMAIN present, present, times),
         DOMAIN times = Listed(present), NEW ctx, NEW direction
  PROVE  \/ BuiltBundles(present, times, ctx, direction) = <<>>
         \/ \E b : SoundBundle(b) /\ BuiltBundles(present, times, ctx, direction) = Alone(b)
<1>1. PICK ok : ok = Verdicts(present, times)
  OBVIOUS
<1>2. PICK integrity : integrity = Integrity(Listed(present), ok)
  OBVIOUS
<1>3. PICK slot : WalkedThrough(Listed(present), times, slot, ok)
  BY <1>1, VerdictsOf
<1>4. PICK conf : conf = Confidence(integrity, ctx)
  OBVIOUS
<1>5. PICK b : b = [at |-> rtmBar, dir |-> direction, order |-> times, ok |-> ok,
                    integrity |-> integrity, conf |-> conf,
                    class |-> QualityClassOf(integrity, conf, ctx),
                    degraded |-> ActivityWindow(ctx).degraded, fate |-> "active", rival |-> NoRival]
  OBVIOUS
<1>6. SoundBundle(b)
  <2>1. b.order = times /\ b.ok = ok /\ b.integrity = integrity
        /\ {"order", "ok", "integrity"} \subseteq DOMAIN b
    BY <1>5
  <2>2. DOMAIN times \in SUBSET ToSet(Chain) /\ ok \in SUBSET DOMAIN times
    BY <1>3 DEF Timed, Listed, WalkedThrough
  <2>3. \A x, y \in ok : times[x] < times[y] => SeqIdx(x) < SeqIdx(y)
    BY <1>3 DEF WalkedThrough
  <2>4. \A x \in (DOMAIN times) \ ok : \E y \in ok : SeqIdx(y) > SeqIdx(x) /\ times[y] <= times[x]
    BY <1>3 DEF WalkedThrough
  <2>5. DOMAIN times # {} /\ integrity = 1000 => (ok = DOMAIN times /\ DOMAIN times = ToSet(Chain))
    BY <1>2, <2>2, FullStrength, ZenonT(60)
  <2> QED
    BY <2>1, <2>2, <2>3, <2>4, <2>5, ZenonT(60) DEF SoundBundle
<1>7. \/ BuiltBundles(present, times, ctx, direction) = <<>>
      \/ BuiltBundles(present, times, ctx, direction) = Alone(b)
  BY <1>1, <1>2, <1>4, <1>5, Zenon DEF BuiltBundles, Alone
<1> QED
  BY <1>6, <1>7

LEMMA OneMoreBundle ==
  ASSUME NEW s, SoundBundles(s), NEW t,
         t = <<>> \/ \E b : SoundBundle(b) /\ t = Alone(b)
  PROVE  SoundBundles(s \o t)
<1>1. PICK S : s \in Seq(S)
  BY DEF SoundBundles, IsSeq
<1>2. CASE t = <<>>
  <2>1. s \o t = s
    BY <1>1, <1>2, ConcatEmptySeq
  <2> QED
    BY <2>1
<1>3. CASE \E b : SoundBundle(b) /\ t = Alone(b)
  <2>1. PICK b : SoundBundle(b) /\ t = Alone(b)
    BY <1>3
  <2>2. PICK T : T = S \cup {b}
    OBVIOUS
  <2>3. s \in Seq(T) /\ b \in T
    <3>1. \A i \in 1 .. Len(s) : s[i] \in T
      BY <1>1, <2>2
    <3>2. s = [i \in 1 .. Len(s) |-> s[i]] /\ Len(s) \in Nat
      BY <1>1
    <3> QED
      BY <2>2, <3>1, <3>2
  <2>4. Append(s, b) = s \o t
    BY <2>1, <2>3, AppendIsConcat DEF Alone
  <2>5. Grows(s, b, s \o t)
    BY <2>4, OneMoreOf DEF SoundBundles
  <2>6. PICK z : z = s \o t
    OBVIOUS
  <2>7. Grows(s, b, z)
    BY <2>5, <2>6
  <2>8. \A i \in 1 .. Len(s) + 1 : i \in 1 .. Len(s) \/ i = Len(s) + 1
    BY <2>7 DEF Grows
  <2>9. \A i \in 1 .. Len(s) : SoundBundle(s[i])
    BY <2>7 DEF SoundBundles, Grows
  <2>10. \A i \in DOMAIN z : SoundBundle(z[i])
    BY <2>1, <2>7, <2>8, <2>9 DEF Grows
  <2>11. IsSeq(z) /\ Len(z) \in Nat /\ DOMAIN z = 1 .. Len(z)
    BY <2>7 DEF Grows
  <2>12. SoundBundles(z)
    BY <2>10, <2>11 DEF SoundBundles
  <2> QED
    BY <2>6, <2>12, Zenon
<1> QED
  BY <1>2, <1>3

\* A bundle's fate and its rival are no part of what it says of its chain.
LEMMA FateIsApart ==
  ASSUME NEW b, SoundBundle(b), NEW fate, NEW rival
  PROVE  SoundBundle([b EXCEPT !.fate = fate]) /\ SoundBundle([b EXCEPT !.rival = rival])
<1>1. \A c : (DOMAIN c = DOMAIN b /\ c.order = b.order /\ c.ok = b.ok /\ c.integrity = b.integrity)
             => SoundBundle(c)
  BY DEF SoundBundle
<1>2. {"order", "ok", "integrity"} \subseteq DOMAIN b
  BY DEF SoundBundle
<1>3. /\ DOMAIN [b EXCEPT !.fate = fate] = DOMAIN b
      /\ [b EXCEPT !.fate = fate].order = b.order /\ [b EXCEPT !.fate = fate].ok = b.ok
      /\ [b EXCEPT !.fate = fate].integrity = b.integrity
  BY <1>2
<1>4. /\ DOMAIN [b EXCEPT !.rival = rival] = DOMAIN b
      /\ [b EXCEPT !.rival = rival].order = b.order /\ [b EXCEPT !.rival = rival].ok = b.ok
      /\ [b EXCEPT !.rival = rival].integrity = b.integrity
  BY <1>2
<1> QED
  BY <1>1, <1>3, <1>4

\* The bundles with what one of them has become.
LEMMA BundleRetouched ==
  ASSUME NEW s, SoundBundles(s), NEW i, NEW c, i \in DOMAIN s => SoundBundle(c)
  PROVE  SoundBundles([s EXCEPT ![i] = c]) /\ DOMAIN [s EXCEPT ![i] = c] = DOMAIN s
<1>1. PICK z : z = [s EXCEPT ![i] = c]
  OBVIOUS
<1>2. PICK S : s \in Seq(S)
  BY DEF SoundBundles, IsSeq
<1>3. DOMAIN z = DOMAIN s /\ z = [k \in DOMAIN s |-> z[k]]
      /\ \A k \in DOMAIN s : z[k] = IF k = i THEN c ELSE s[k]
  BY <1>1
<1>4. z \in Seq(S \cup {c}) /\ Len(z) = Len(s)
  <2>1. DOMAIN s = 1 .. Len(s) /\ Len(s) \in Nat /\ \A k \in 1 .. Len(s) : s[k] \in S
    BY <1>2
  <2>2. \A k \in 1 .. Len(s) : z[k] \in S \cup {c}
    BY <1>3, <2>1
  <2> QED
    BY <1>3, <2>1, <2>2
<1>5. IsSeq(z)
  BY <1>4, Zenon DEF IsSeq
<1>6. \A k \in DOMAIN s : SoundBundle(z[k])
  BY <1>3 DEF SoundBundles
<1> QED
  BY <1>1, <1>3, <1>4, <1>5, <1>6 DEF SoundBundles

\* The resolver at work.
Resolving(acc) ==
  /\ {"all", "active"} \subseteq DOMAIN acc
  /\ SoundBundles(acc.all) /\ DOMAIN acc.all = DOMAIN bundles

LEMMA ConfrontedIsSound ==
  ASSUME NEW acc, Resolving(acc), NEW i \in DOMAIN bundles
  PROVE  Resolving(Confronted(acc, i))
<1>0. i \in DOMAIN acc.all /\ SoundBundles(acc.all) /\ {"all", "active"} \subseteq DOMAIN acc
      /\ DOMAIN acc.all = DOMAIN bundles
  BY DEF Resolving
<1>1. PICK b : b = acc.all[i]
  OBVIOUS
<1>2. PICK rivals : rivals = {j \in acc.active : IsRivalOf(b, acc.all[j])}
  OBVIOUS
<1>3. PICK a : a = Min(rivals)
  OBVIOUS
<1>4. \A j \in DOMAIN acc.all : SoundBundle(acc.all[j])
  BY <1>0 DEF SoundBundles
<1>5. CASE rivals = {}
  <2>1. PICK now : now = IF b.fate = "active" THEN acc.active \cup {i} ELSE acc.active
    OBVIOUS
  <2>2. Confronted(acc, i) = [acc EXCEPT !.active = now]
    BY <1>1, <1>2, <1>5, <2>1 DEF Confronted
  <2>3. [acc EXCEPT !.active = now].all = acc.all /\ DOMAIN [acc EXCEPT !.active = now] = DOMAIN acc
    BY <1>0
  <2> QED
    BY <1>0, <2>2, <2>3 DEF Resolving
<1>6. CASE rivals # {} /\ b.conf > acc.all[a].conf + ConflictMargin
  <2>1. PICK c : c = [[acc.all[a] EXCEPT !.fate = "superseded"] EXCEPT !.rival = i]
    OBVIOUS
  <2>2. a \in DOMAIN acc.all => SoundBundle(c)
    BY <1>4, <2>1, FateIsApart
  <2>3. PICK s : s = [acc.all EXCEPT ![a] = c]
    OBVIOUS
  <2>4. SoundBundles(s) /\ DOMAIN s = DOMAIN bundles
    BY <1>0, <2>2, <2>3, BundleRetouched
  <2>5. Confronted(acc, i) = [all |-> s, active |-> acc.active \cup {i}]
    BY <1>1, <1>2, <1>3, <1>6, <2>1, <2>3 DEF Confronted
  <2> QED
    BY <2>4, <2>5 DEF Resolving
<1>7. CASE rivals # {} /\ ~(b.conf > acc.all[a].conf + ConflictMargin)
  <2>1. PICK c : c = [[acc.all[i] EXCEPT !.fate = "invalidated"] EXCEPT !.rival = a]
    OBVIOUS
  <2>2. SoundBundle(c)
    BY <1>0, <1>4, <2>1, FateIsApart
  <2>3. PICK s : s = [acc.all EXCEPT ![i] = c]
    OBVIOUS
  <2>4. SoundBundles(s) /\ DOMAIN s = DOMAIN bundles
    BY <1>0, <2>2, <2>3, BundleRetouched
  <2>5. Confronted(acc, i) = [acc EXCEPT !.all = s]
    BY <1>1, <1>2, <1>3, <1>7, <2>1, <2>3 DEF Confronted
  <2>6. [acc EXCEPT !.all = s].all = s /\ DOMAIN [acc EXCEPT !.all = s] = DOMAIN acc
    BY <1>0
  <2> QED
    BY <1>0, <2>4, <2>5, <2>6 DEF Resolving
<1> QED
  BY <1>5, <1>6, <1>7

\* h is the resolver's work on the first bundles, up to n.
WorksOut(h, n) ==
  h = [k \in 0 .. n |-> IF k = 0 THEN [all |-> bundles, active |-> {}] ELSE Confronted(h[k - 1], k)]

LEMMA WorkExists ==
  ASSUME NEW m \in Nat
  PROVE  \E h : WorksOut(h, m)
<1> DEFINE start == [all |-> bundles, active |-> {}]
           N == {n \in Nat : \E h : WorksOut(h, n)}
<1>1. 0 \in N
  <2>1. WorksOut([k \in 0 .. 0 |-> start], 0)
    BY DEF WorksOut
  <2> QED
    BY <2>1
<1>2. ASSUME NEW n \in Nat, n \in N
      PROVE  n + 1 \in N
  <2>1. PICK g : WorksOut(g, n)
    BY <1>2
  <2> DEFINE h == [k \in 0 .. n + 1 |-> IF k = 0 THEN start ELSE Confronted(g[k - 1], k)]
  <2>2. \A k \in 0 .. n : g[k] = IF k = 0 THEN start ELSE Confronted(g[k - 1], k)
    BY <2>1, Zenon DEF WorksOut
  <2>3. \A k \in 0 .. n : h[k] = g[k]
    <3>1. \A k \in 0 .. n : k \in 0 .. n + 1
      OBVIOUS
    <3> QED
      BY <2>2, <3>1, Zenon
  <2>4. \A k \in 0 .. n + 1 : k # 0 => k - 1 \in 0 .. n
    OBVIOUS
  <2>5. \A k \in 0 .. n + 1 : h[k] = IF k = 0 THEN start ELSE Confronted(h[k - 1], k)
    BY <2>3, <2>4
  <2>6. h = [k \in 0 .. n + 1 |-> h[k]]
    OBVIOUS
  <2> HIDE DEF h
  <2>7. WorksOut(h, n + 1)
    BY <2>5, <2>6 DEF WorksOut
  <2> QED
    BY <2>7
<1> HIDE DEF N
<1>3. Nat \subseteq N
  BY <1>1, <1>2, EveryNatural
<1> QED
  BY <1>3 DEF N

LEMMA ResolvedIsSound ==
  ASSUME SoundBundles(bundles), Resolves
  PROVE  SoundBundles(bundles')
<1>1. PICK m \in Nat : m = Len(bundles)
  BY DEF SoundBundles
<1> DEFINE body(h) == [n \in 0 .. Len(bundles) |->
                         IF n = 0 THEN [all |-> bundles, active |-> {}] ELSE Confronted(h[n - 1], n)]
           after == CHOOSE h : h = body(h)
<1>2. bundles' = after[Len(bundles)].all
  BY DEF Resolves
<1>3. \E h : h = body(h)
  <2>1. PICK h : WorksOut(h, m)
    BY WorkExists
  <2>2. h = body(h)
    BY <1>1, <2>1 DEF WorksOut
  <2> QED
    BY <2>2, Zenon
<1>4. after = body(after)
  BY <1>3
<1> HIDE DEF after
<1>5. \A k \in 0 .. m : after[k] = IF k = 0 THEN [all |-> bundles, active |-> {}]
                                     ELSE Confronted(after[k - 1], k)
  BY <1>1, <1>4
<1> DEFINE N == {k \in Nat : k <= m => Resolving(after[k])}
<1>6. 0 \in N
  BY <1>5 DEF Resolving
<1>7. ASSUME NEW k \in Nat, k \in N
      PROVE  k + 1 \in N
  <2>1. SUFFICES ASSUME k + 1 <= m
                 PROVE  Resolving(after[k + 1])
    OBVIOUS
  <2>2. Resolving(after[k])
    BY <1>1, <1>7, <2>1
  <2>3. k + 1 \in DOMAIN bundles
    BY <1>1, <2>1 DEF SoundBundles
  <2>4. after[k + 1] = Confronted(after[k], k + 1)
    <3>1. k + 1 \in 0 .. m /\ k + 1 # 0 /\ (k + 1) - 1 = k
      BY <2>1
    <3> QED
      BY <1>5, <3>1
  <2> QED
    BY <2>2, <2>3, <2>4, ConfrontedIsSound
<1>8. m \in N
  <2> HIDE DEF N
  <2>1. Nat \subseteq N
    BY <1>6, <1>7, EveryNatural
  <2> QED
    BY <2>1
<1> QED
  BY <1>1, <1>2, <1>8, SMTT(40) DEF Resolving

LEMMA RtmStarts == RtmInit => RtmInv
<1> SUFFICES ASSUME RtmInit
             PROVE  RtmInv
  OBVIOUS
<1>1. rtmBar = 0 /\ confirmations = <<>> /\ bundles = <<>>
  BY DEF RtmInit
<1>2. IsSeq(<<>>) /\ Len(<<>>) = 0 /\ DOMAIN <<>> = {}
  BY DEF IsSeq
<1>3. SoundBundles(bundles)
  BY <1>1, <1>2 DEF SoundBundles
<1> QED
  BY <1>1, <1>3 DEF RtmInv

LEMMA BucketIsSound ==
  ASSUME RtmInv, ProcessesBucket
  PROVE  SoundBundles(bundles')
<1>1. PICK known : known = Known(confirmations)
  OBVIOUS
<1>2. PICK places : places = {i \in DOMAIN confirmations : confirmations[i] \in known}
  OBVIOUS
<1>3. PICK present : present = [i \in places |-> confirmations[i].cid]
  OBVIOUS
<1>4. PICK ctx, direction : bundles' = bundles \o BuiltBundles(present, OrderMap(known), ctx, direction)
  BY <1>1, <1>2, <1>3 DEF ProcessesBucket
<1>5. /\ confirmations \in Seq([cid : ToSet(Chain), at : Nat])
      /\ known \in SUBSET ToSet(confirmations)
      /\ SoundBundles(bundles)
  BY <1>1 DEF RtmInv, Known
<1>6. known \in SUBSET [cid : ToSet(Chain), at : Nat]
  <2>1. \A c \in known : \E i \in DOMAIN confirmations : c = confirmations[i]
    BY <1>5, Zenon DEF ToSet
  <2>2. \A i \in DOMAIN confirmations : confirmations[i] \in [cid : ToSet(Chain), at : Nat]
    <3>1. PICK R : R = [cid : ToSet(Chain), at : Nat]
      OBVIOUS
    <3>2. confirmations \in Seq(R)
      BY <1>5, <3>1, Zenon
    <3>3. \A i \in DOMAIN confirmations : confirmations[i] \in R
      BY <3>2
    <3> QED
      BY <3>1, <3>3, Zenon
  <2> QED
    BY <2>1, <2>2, Zenon
<1>7. places \in SUBSET Nat /\ IsFiniteSet(places) /\ DOMAIN present = places
  <2>1. IsFiniteSet(1 .. Len(confirmations)) /\ DOMAIN confirmations = 1 .. Len(confirmations)
    BY <1>5, FS_Interval
  <2>2. places \subseteq 1 .. Len(confirmations)
    BY <1>2, <2>1
  <2> QED
    BY <1>3, <2>1, <2>2, FS_Subset
<1>8. Listed(present) = {c.cid : c \in known}
  <2>1. \A i \in places : present[i] = confirmations[i].cid /\ confirmations[i] \in known
    BY <1>2, <1>3
  <2>2. \A c \in known : \E i \in places : confirmations[i] = c
    BY <1>2, <1>5 DEF ToSet
  <2>3. Listed(present) = {present[i] : i \in places}
    BY <1>7, Zenon DEF Listed
  <2> QED
    BY <2>1, <2>2, <2>3
<1>9. DOMAIN OrderMap(known) = Listed(present)
  BY <1>6, <1>8, FirstConfirmations
<1>10. Timed(DOMAIN present, present, OrderMap(known))
  <2>1. PICK times : times = OrderMap(known)
    OBVIOUS
  <2>2. \A i \in places : present[i] \in DOMAIN times
    BY <1>7, <1>9, <2>1, Zenon DEF Listed
  <2>3. \A x \in DOMAIN times : x \in ToSet(Chain) /\ times[x] \in Nat
    BY <1>6, <2>1, FirstConfirmations
  <2>4. Timed(places, present, times)
    BY <1>7, <2>2, <2>3 DEF Timed
  <2> QED
    BY <1>7, <2>1, <2>4, Zenon
<1>11. PICK t : t = BuiltBundles(present, OrderMap(known), ctx, direction)
  OBVIOUS
<1>12. t = <<>> \/ \E b : SoundBundle(b) /\ t = Alone(b)
  BY <1>9, <1>10, <1>11, BuiltIsSound
<1> QED
  BY <1>4, <1>5, <1>11, <1>12, OneMoreBundle

LEMMA BatchIsSound ==
  ASSUME RtmInv, RunsBatch
  PROVE  SoundBundles(bundles')
<1>1. PICK known : known = {c \in Known(confirmations) : c.at > rtmBar - WindowBars}
  OBVIOUS
<1>2. PICK places : places = {i \in DOMAIN NameOrder : \E d \in known : d.cid = NameOrder[i]}
  OBVIOUS
<1>3. PICK present : present = [i \in places |-> NameOrder[i]]
  OBVIOUS
<1>4. PICK ctx, direction : bundles' = bundles \o BuiltBundles(present, OrderMap(known), ctx, direction)
  BY <1>1, <1>2, <1>3 DEF RunsBatch
<1>5. /\ confirmations \in Seq([cid : ToSet(Chain), at : Nat])
      /\ known \in SUBSET ToSet(confirmations)
      /\ SoundBundles(bundles)
  BY <1>1 DEF RtmInv, Known
<1>6. known \in SUBSET [cid : ToSet(Chain), at : Nat]
  <2>1. \A c \in known : \E i \in DOMAIN confirmations : c = confirmations[i]
    BY <1>5, Zenon DEF ToSet
  <2>2. \A i \in DOMAIN confirmations : confirmations[i] \in [cid : ToSet(Chain), at : Nat]
    <3>1. PICK R : R = [cid : ToSet(Chain), at : Nat]
      OBVIOUS
    <3>2. confirmations \in Seq(R)
      BY <1>5, <3>1, Zenon
    <3>3. \A i \in DOMAIN confirmations : confirmations[i] \in R
      BY <3>2
    <3> QED
      BY <3>1, <3>3, Zenon
  <2> QED
    BY <2>1, <2>2, Zenon
<1>0. NameOrder \in Seq(ToSet(Chain)) /\ \A x \in ToSet(Chain) : \E i \in DOMAIN NameOrder : NameOrder[i] = x
  BY RtmBounds DEF ToSet
<1>7. places \in SUBSET Nat /\ IsFiniteSet(places) /\ DOMAIN present = places
  <2>1. IsFiniteSet(1 .. Len(NameOrder)) /\ DOMAIN NameOrder = 1 .. Len(NameOrder)
    BY <1>0, FS_Interval
  <2>2. places \subseteq 1 .. Len(NameOrder)
    BY <1>2, <2>1
  <2> QED
    BY <1>3, <2>1, <2>2, FS_Subset
<1>8. Listed(present) = {c.cid : c \in known}
  <2>1. \A i \in places : present[i] = NameOrder[i] /\ \E d \in known : d.cid = NameOrder[i]
    BY <1>2, <1>3
  <2>2. \A c \in known : \E i \in places : NameOrder[i] = c.cid
    <3> TAKE c \in known
    <3>1. c.cid \in ToSet(Chain)
      BY <1>6
    <3>2. PICK i \in DOMAIN NameOrder : NameOrder[i] = c.cid
      BY <1>0, <3>1
    <3> QED
      BY <1>2, <3>2
  <2>3. Listed(present) = {present[i] : i \in places}
    BY <1>7, Zenon DEF Listed
  <2> QED
    BY <2>1, <2>2, <2>3
<1>9. DOMAIN OrderMap(known) = Listed(present)
  BY <1>6, <1>8, FirstConfirmations
<1>10. Timed(DOMAIN present, present, OrderMap(known))
  <2>1. PICK times : times = OrderMap(known)
    OBVIOUS
  <2>2. \A i \in places : present[i] \in DOMAIN times
    BY <1>7, <1>9, <2>1, Zenon DEF Listed
  <2>3. \A x \in DOMAIN times : x \in ToSet(Chain) /\ times[x] \in Nat
    BY <1>6, <2>1, FirstConfirmations
  <2>4. Timed(places, present, times)
    BY <1>7, <2>2, <2>3 DEF Timed
  <2> QED
    BY <1>7, <2>1, <2>4, Zenon
<1>11. PICK t : t = BuiltBundles(present, OrderMap(known), ctx, direction)
  OBVIOUS
<1>12. t = <<>> \/ \E b : SoundBundle(b) /\ t = Alone(b)
  BY <1>9, <1>10, <1>11, BuiltIsSound
<1> QED
  BY <1>4, <1>5, <1>11, <1>12, OneMoreBundle

LEMMA RtmGoesOn == RtmInv /\ [RtmNext]_rtmVars => RtmInv'
<1> SUFFICES ASSUME RtmInv, [RtmNext]_rtmVars
             PROVE  RtmInv'
  OBVIOUS
<1> USE DEF RtmInv
<1>1. CASE RtmBarCloses
  BY <1>1 DEF RtmBarCloses
<1>2. CASE ConfirmationArrives
  <2>1. PICK cid \in ToSet(Chain), at \in 1 .. rtmBar : confirmations' = Append(confirmations, [cid |-> cid, at |-> at])
    BY <1>2 DEF ConfirmationArrives
  <2>2. [cid |-> cid, at |-> at] \in [cid : ToSet(Chain), at : Nat]
    BY <2>1
  <2>3. confirmations' \in Seq([cid : ToSet(Chain), at : Nat])
    BY <2>1, <2>2
  <2> QED
    BY <1>2, <2>3 DEF ConfirmationArrives
<1>3. CASE ProcessesBucket
  <2>1. SoundBundles(bundles')
    BY <1>3, BucketIsSound
  <2> QED
    BY <1>3, <2>1 DEF ProcessesBucket
<1>4. CASE RunsBatch
  <2>1. SoundBundles(bundles')
    BY <1>4, BatchIsSound
  <2> QED
    BY <1>4, <2>1 DEF RunsBatch
<1>5. CASE Resolves
  <2>1. SoundBundles(bundles')
    BY <1>5, ResolvedIsSound
  <2> QED
    BY <1>5, <2>1 DEF Resolves
<1>6. CASE FateMoves
  <2>1. PICK i \in DOMAIN bundles, fate \in {"invalidated", "completed", "expired"} :
          bundles' = [bundles EXCEPT ![i].fate = fate]
    BY <1>6 DEF FateMoves
  <2>2. PICK c : c = [bundles[i] EXCEPT !.fate = fate]
    OBVIOUS
  <2>3. SoundBundle(c)
    BY <2>1, <2>2, FateIsApart DEF SoundBundles
  <2>4. bundles' = [bundles EXCEPT ![i] = c]
    BY <2>1, <2>2
  <2>5. SoundBundles(bundles')
    BY <2>3, <2>4, BundleRetouched
  <2> QED
    BY <1>6, <2>5 DEF FateMoves
<1>7. CASE UNCHANGED rtmVars
  BY <1>7 DEF rtmVars
<1> QED
  BY <1>1, <1>2, <1>3, <1>4, <1>5, <1>6, <1>7 DEF RtmNext

\* Whatever is confirmed, however late and in whatever order it is reported,
\* and whichever of its two paths makes a bundle (evaluate_order_ok,
\* sequence_integrity_v4): full strength is the whole chain in order, what is
\* called in order is a chain, and what is not has its reason.
THEOREM VerdictsAreChains == RtmSpec => []VerdictsFormAChain
<1>1. RtmInv => VerdictsFormAChain
  <2> SUFFICES ASSUME RtmInv, NEW b \in ToSet(bundles), NEW x \in DOMAIN b.order
               PROVE  /\ x \in b.ok => \A y \in b.ok : b.order[x] < b.order[y] => SeqIdx(x) < SeqIdx(y)
                      /\ RtmRow(b).strength = 1000 => (x \in b.ok /\ DOMAIN b.order = ToSet(Chain))
                      /\ x \notin b.ok => \E y \in b.ok : SeqIdx(y) > SeqIdx(x) /\ b.order[y] <= b.order[x]
    BY Zenon DEF VerdictsFormAChain
  <2>1. SoundBundle(b)
    BY DEF RtmInv, SoundBundles, ToSet
  <2>2. RtmRow(b).strength = b.integrity
    BY DEF RtmRow
  <2>3. x \in b.ok => \A y \in b.ok : b.order[x] < b.order[y] => SeqIdx(x) < SeqIdx(y)
    BY <2>1 DEF SoundBundle
  <2>4. RtmRow(b).strength = 1000 => (x \in b.ok /\ DOMAIN b.order = ToSet(Chain))
    BY <2>1, <2>2 DEF SoundBundle
  <2>5. x \notin b.ok => \E y \in b.ok : SeqIdx(y) > SeqIdx(x) /\ b.order[y] <= b.order[x]
    BY <2>1 DEF SoundBundle
  <2> QED
    BY <2>3, <2>4, <2>5
<1> QED
  BY <1>1, RtmStarts, RtmGoesOn, PTL DEF RtmSpec

-----------------------------------------------------------------------------
(* E11.  The raw labels an engine keeps are those of the candles it        *)
(* classified, in order, and a candle's place among them is how many were  *)
(* classified up to it.                                                    *)

RegimeSpec == RegimeInit /\ [][RegimeNext]_regimeVars

SettledInv ==
  /\ IsSeq(regimes) /\ IsSeq(rawStates)
  /\ Len(rawStates) = Cardinality(Classified)
  /\ \A j \in Classified : rawStates[Cardinality(ClassifiedFrom(1, j))] = regimes[j].raw
  /\ \A j \in Classified : (\A k \in Classified : k <= j) => regimes[j].state = confirmed
  /\ ChangesAreSettled

\* An engine built for one candle confirms that candle's own label.
OwnLabelInv ==
  /\ IsSeq(regimes)
  /\ \A i \in Classified : regimes[i].state = regimes[i].raw /\ regimes[i].status = "CONFIRMED"

RegimeInv ==
  /\ streaming \in BOOLEAN
  /\ streaming => SettledInv
  /\ ~streaming => OwnLabelInv

UpTo(C, j) == {k \in C : k <= j}
Onward(C, j) == {k \in C : j <= k}

\* What there is of a set up to j, and of it and a greater number from j on.
LEMMA CountedTwice ==
  ASSUME NEW C \in SUBSET Nat, NEW n \in Nat, \A k \in C : k < n, NEW j \in C
  PROVE  /\ Cardinality(UpTo(C, j)) \in Nat /\ Cardinality(Onward(C \cup {n}, j)) \in Nat
         /\ Cardinality(UpTo(C, j)) >= 1 /\ Cardinality(UpTo(C, j)) <= Cardinality(C)
         /\ Cardinality(UpTo(C, j)) + Cardinality(Onward(C \cup {n}, j)) = Cardinality(C) + 2
<1> PICK upto : upto = {k \in C : k <= j}
  OBVIOUS
<1> PICK from : from = {k \in C \cup {n} : j <= k}
  OBVIOUS
<1>1. C \cup {n} \in SUBSET Nat /\ \A k \in C \cup {n} : k <= n
  OBVIOUS
<1>2. IsFiniteSet(C) /\ IsFiniteSet(C \cup {n})
  BY <1>1, FS_BoundedSetOfNaturals
<1>3. n \notin C
  OBVIOUS
<1>4. upto \subseteq C /\ from \subseteq C \cup {n} /\ upto \cup from = C \cup {n} /\ upto \cap from = {j}
  <2>1. j \in upto /\ j \in from /\ n \in from
    OBVIOUS
  <2>2. \A k \in C \cup {n} : k \in upto \cup from
    OBVIOUS
  <2>3. \A k \in upto \cap from : k = j
    OBVIOUS
  <2>4. upto \subseteq C /\ from \subseteq C \cup {n}
    OBVIOUS
  <2> QED
    BY <2>1, <2>2, <2>3, <2>4
<1>5. IsFiniteSet(upto) /\ IsFiniteSet(from) /\ Cardinality(upto) <= Cardinality(C)
  BY <1>2, <1>4, FS_Subset
<1>6. Cardinality(C \cup {n}) = Cardinality(C) + 1 /\ Cardinality({j}) = 1
  BY <1>2, <1>3, FS_AddElement, FS_Singleton
<1>7. /\ Cardinality(upto) \in Nat /\ Cardinality(from) \in Nat /\ Cardinality(C) \in Nat
  BY <1>2, <1>5, FS_CardinalityType
<1>8. Cardinality(upto) # 0
  <2>1. j \in upto
    OBVIOUS
  <2> QED
    BY <1>5, <2>1, FS_EmptySet
<1>9. Cardinality(C \cup {n}) = Cardinality(upto) + Cardinality(from) - 1
  BY <1>4, <1>5, <1>6, FS_Union
<1>10. Cardinality(upto) >= 1 /\ Cardinality(upto) + Cardinality(from) = Cardinality(C) + 2
  BY <1>6, <1>7, <1>8, <1>9
<1>11. upto = UpTo(C, j) /\ from = Onward(C \cup {n}, j)
  BY Zenon DEF UpTo, Onward
<1> QED
  BY <1>5, <1>7, <1>10, <1>11, Zenon

LEMMA RegimeStarts == RegimeInit => RegimeInv
<1> SUFFICES ASSUME RegimeInit PROVE RegimeInv
  OBVIOUS
<1>1. regimes = <<>> /\ rawStates = <<>>
  BY DEF RegimeInit
<1>2. IsSeq(<<>>) /\ Len(<<>>) = 0 /\ DOMAIN <<>> = {}
  BY DEF IsSeq
<1>3. Classified = {}
  BY <1>1, <1>2, Zenon DEF Classified
<1>4. Cardinality({}) = 0
  BY FS_EmptySet
<1> QED
  <2>1. SettledInv
    BY <1>1, <1>2, <1>3, <1>4, Zenon DEF SettledInv, ChangesAreSettled
  <2>2. OwnLabelInv
    BY <1>1, <1>2, <1>3, Zenon DEF OwnLabelInv
  <2>3. streaming \in BOOLEAN
    BY DEF RegimeInit
  <2> QED
    BY <2>1, <2>2, <2>3, Zenon DEF RegimeInv

\* An answer that classifies nothing settles nothing.
LEMMA NothingClassified ==
  ASSUME SettledInv, UNCHANGED <<rawStates, confirmed>>,
         NEW x, regimes' = Append(regimes, x), x.kind # "state"
  PROVE  SettledInv'
<1>1. Grows(regimes, x, regimes')
  BY OneMoreOf, Zenon DEF SettledInv
<1>2. Classified' = Classified
  BY <1>1 DEF Classified, Grows
<1>3. \A i \in Classified : regimes'[i] = regimes[i]
  BY <1>1 DEF Classified, Grows
<1>4. \A j, i : ClassifiedFrom(j, i)' = ClassifiedFrom(j, i)
  BY <1>2, Zenon DEF ClassifiedFrom
<1>5. \A j, i \in Classified' : ClassifiedFrom(j, i)' = ClassifiedFrom(j, i)
  BY <1>4
<1>6. \A i \in Classified' : ClassifiedFrom(1, i)' = ClassifiedFrom(1, i)
  BY <1>4
<1>7. ChangesAreSettled'
  <2> SUFFICES ASSUME NEW p \in Classified', NEW i \in Classified',
                      (p < i)', (ClassifiedFrom(p, i) = {p, i})', (regimes[i].state # regimes[p].state)'
               PROVE  /\ Cardinality(ClassifiedFrom(1, i)') >= ConfirmBars
                      /\ \A j \in ClassifiedFrom(1, i)' :
                           Cardinality(ClassifiedFrom(j, i)') <= ConfirmBars => regimes'[j].raw = regimes'[i].state
    BY Zenon DEF ChangesAreSettled
  <2>1. p \in Classified /\ i \in Classified /\ p < i /\ ClassifiedFrom(p, i) = {p, i}
        /\ regimes[i].state # regimes[p].state
    BY <1>2, <1>3, <1>4
  <2>2. /\ Cardinality(ClassifiedFrom(1, i)) >= ConfirmBars
        /\ \A j \in ClassifiedFrom(1, i) :
             Cardinality(ClassifiedFrom(j, i)) <= ConfirmBars => regimes[j].raw = regimes[i].state
    BY <2>1, Zenon DEF SettledInv, ChangesAreSettled
  <2>3. \A j \in ClassifiedFrom(1, i) : j \in Classified
    BY DEF ClassifiedFrom
  <2> QED
    BY <1>3, <1>4, <2>1, <2>2, <2>3, Zenon
<1>8. IsSeq(regimes')
  BY <1>1 DEF Grows
<1> QED
  BY <1>2, <1>3, <1>6, <1>7, <1>8, Zenon DEF SettledInv
\* A candle that is classified turns the label only as hysteresis allows.
LEMMA OneMoreClassified ==
  ASSUME SettledInv, NEW x, x.kind = "state",
         regimes' = Append(regimes, x), rawStates' = Append(rawStates, x.raw), confirmed' = x.state,
         rawStates # <<>> /\ x.state # confirmed =>
           /\ Len(rawStates) >= ConfirmBars - 1 /\ x.raw = x.state
           /\ \A i \in Len(rawStates) - ConfirmBars + 2 .. Len(rawStates) : rawStates[i] = x.state
  PROVE  SettledInv'
<1>1. Grows(regimes, x, regimes') /\ Grows(rawStates, x.raw, rawStates')
  BY OneMoreOf, Zenon DEF SettledInv
<1> PICK C : C = Classified
  OBVIOUS
<1> PICK m : m = Len(regimes)
  OBVIOUS
<1> PICK n : n = m + 1
  OBVIOUS
<1>2. C \in SUBSET Nat /\ m \in Nat /\ n \in Nat /\ n = m + 1 /\ \A k \in C : k <= m /\ k >= 1 /\ k < n
  BY <1>1 DEF Classified, Grows
<1>3. Classified' = C \cup {n} /\ regimes'[n] = x /\ \A k \in C : regimes'[k] = regimes[k]
  BY <1>1 DEF Classified, Grows
<1>4. Len(rawStates) = Cardinality(C) /\ Len(rawStates) \in Nat /\ Len(rawStates') = Cardinality(C) + 1
      /\ rawStates'[Cardinality(C) + 1] = x.raw
      /\ \A i \in 1 .. Len(rawStates) : rawStates'[i] = rawStates[i]
  BY <1>1, Zenon DEF SettledInv, Grows
<1>5. IsFiniteSet(C)
  BY <1>2, FS_BoundedSetOfNaturals
<1>6. Cardinality(Classified') = Cardinality(C) + 1
  <2>1. n \notin C
    BY <1>2
  <2> QED
    BY <1>3, <1>5, <2>1, FS_AddElement
<1>7. ASSUME NEW j, NEW i \in C
      PROVE  ClassifiedFrom(j, i)' = ClassifiedFrom(j, i)
  <2>1. ~(n <= i)
    BY <1>2
  <2> QED
    BY <1>3, <2>1, Zenon DEF ClassifiedFrom
<1>8. ClassifiedFrom(1, n)' = Classified'
  <2>1. \A k \in C \cup {n} : 1 <= k /\ k <= n
    BY <1>2
  <2>2. ClassifiedFrom(1, n)' = {k \in C \cup {n} : 1 <= k /\ k <= n}
    BY <1>3, Zenon DEF ClassifiedFrom
  <2> QED
    BY <1>3, <2>1, <2>2
<1>9. ASSUME NEW j \in C
      PROVE  /\ Cardinality(ClassifiedFrom(1, j)) \in Nat /\ Cardinality(ClassifiedFrom(j, n)') \in Nat
             /\ Cardinality(ClassifiedFrom(1, j)) >= 1 /\ Cardinality(ClassifiedFrom(1, j)) <= Cardinality(C)
             /\ Cardinality(ClassifiedFrom(1, j)) + Cardinality(ClassifiedFrom(j, n)') = Cardinality(C) + 2
  <2>1. ClassifiedFrom(1, j) = UpTo(C, j)
    <3>1. \A k \in C : 1 <= k
      BY <1>2
    <3> QED
      BY <3>1, Zenon DEF ClassifiedFrom, UpTo
  <2>2. ClassifiedFrom(j, n)' = Onward(C \cup {n}, j)
    <3>1. \A k \in C \cup {n} : k <= n
      BY <1>2
    <3>2. ClassifiedFrom(j, n)' = {k \in C \cup {n} : j <= k /\ k <= n}
      BY <1>3, Zenon DEF ClassifiedFrom
    <3> QED
      BY <3>1, <3>2 DEF Onward
  <2>3. \A k \in C : k <= m
    BY <1>2
  <2> QED
    <3>1. C \in SUBSET Nat /\ n \in Nat /\ \A k \in C : k < n
      BY <1>2
    <3>2. Cardinality(UpTo(C, j)) \in Nat
      BY <3>1, CountedTwice
    <3>3. Cardinality(Onward(C \cup {n}, j)) \in Nat
      BY <3>1, CountedTwice
    <3>4. Cardinality(UpTo(C, j)) >= 1
      BY <3>1, CountedTwice
    <3>5. Cardinality(UpTo(C, j)) <= Cardinality(C)
      BY <3>1, CountedTwice
    <3>6. Cardinality(UpTo(C, j)) + Cardinality(Onward(C \cup {n}, j)) = Cardinality(C) + 2
      BY <3>1, CountedTwice
    <3> QED
      BY <2>1, <2>2, <3>2, <3>3, <3>4, <3>5, <3>6, Zenon
<1>10. IsSeq(regimes') /\ IsSeq(rawStates')
  BY <1>1 DEF Grows
<1>11. ASSUME NEW j \in Classified'
       PROVE  rawStates'[Cardinality(ClassifiedFrom(1, j)')] = regimes'[j].raw
  <2>1. CASE j = n
    BY <1>3, <1>4, <1>6, <1>8, <2>1, Zenon
  <2>2. CASE j \in C
    <3>1. Cardinality(ClassifiedFrom(1, j)) \in 1 .. Len(rawStates)
      BY <1>4, <1>9, <2>2
    <3>2. rawStates[Cardinality(ClassifiedFrom(1, j))] = regimes[j].raw
      BY <2>2, Zenon DEF SettledInv
    <3> QED
      BY <1>3, <1>4, <1>7, <2>2, <3>1, <3>2, Zenon
  <2> QED
    BY <1>3, <2>1, <2>2
<1>12. ASSUME NEW j \in Classified', \A k \in Classified' : k <= j
       PROVE  regimes'[j].state = confirmed'
  <2>1. n <= j
    BY <1>3, <1>12
  <2>2. j = n
    BY <1>2, <1>3, <2>1
  <2> QED
    BY <1>3, <2>2
<1>13. ASSUME NEW p \in Classified', NEW i \in Classified',
              p < i, ClassifiedFrom(p, i)' = {p, i}, regimes'[i].state # regimes'[p].state
       PROVE  /\ Cardinality(ClassifiedFrom(1, i)') >= ConfirmBars
              /\ \A j \in ClassifiedFrom(1, i)' :
                   Cardinality(ClassifiedFrom(j, i)') <= ConfirmBars => regimes'[j].raw = regimes'[i].state
  <2>1. CASE i \in C
    <3>1. p \in C
      <4>1. n # p
        BY <1>2, <1>13, <2>1
      <4> QED
        BY <1>3, <4>1
    <3>2. /\ Cardinality(ClassifiedFrom(1, i)) >= ConfirmBars
          /\ \A j \in ClassifiedFrom(1, i) :
               Cardinality(ClassifiedFrom(j, i)) <= ConfirmBars => regimes[j].raw = regimes[i].state
      <4>1. ClassifiedFrom(p, i)' = ClassifiedFrom(p, i)
        BY <1>7, <2>1
      <4>2. regimes'[i] = regimes[i] /\ regimes'[p] = regimes[p]
        BY <1>3, <2>1, <3>1
      <4> QED
        BY <1>13, <2>1, <3>1, <4>1, <4>2, Zenon DEF SettledInv, ChangesAreSettled
    <3>3. \A j \in ClassifiedFrom(1, i) : j \in C
      BY DEF ClassifiedFrom
    <3> QED
      <4>1. \A j : ClassifiedFrom(j, i)' = ClassifiedFrom(j, i)
        BY <1>7, <2>1
      <4>2. ClassifiedFrom(1, i)' = ClassifiedFrom(1, i)
        BY <1>7, <2>1
      <4>3. regimes'[i] = regimes[i]
        BY <1>3, <2>1
      <4>4. ASSUME NEW j \in ClassifiedFrom(1, i)', Cardinality(ClassifiedFrom(j, i)') <= ConfirmBars
            PROVE  regimes'[j].raw = regimes'[i].state
        <5>1. j \in ClassifiedFrom(1, i) /\ Cardinality(ClassifiedFrom(j, i)) <= ConfirmBars
          BY <4>1, <4>2, <4>4
        <5>2. regimes[j].raw = regimes[i].state /\ regimes'[j] = regimes[j]
          BY <1>3, <3>2, <3>3, <5>1
        <5> QED
          BY <4>3, <5>2
      <4> QED
        BY <3>2, <4>2, <4>4, Zenon
  <2>2. CASE i = n
    <3>1. p \in C
      BY <1>3, <1>13, <2>2, <1>2
    <3>2. \A k \in C : k <= p
      <4> SUFFICES ASSUME NEW k \in C, ~(k <= p) PROVE FALSE
        OBVIOUS
      <4>1. k \in Nat /\ p \in Nat /\ p <= k /\ k <= n /\ k # p /\ k # n
        BY <1>2, <3>1
      <4>2. k \in ClassifiedFrom(p, i)'
        BY <1>3, <2>2, <4>1, Zenon DEF ClassifiedFrom
      <4> QED
        BY <1>13, <2>2, <4>1, <4>2, Zenon
    <3>3. regimes[p].state = confirmed
      BY <3>1, <3>2, Zenon DEF SettledInv
    <3>4. x.state # confirmed
      BY <1>3, <1>13, <2>2, <3>1, <3>3, Zenon
    <3>5. Cardinality(C) >= 1
      BY <1>9, <3>1, <1>4
    <3>6. rawStates # <<>>
      BY <1>4, <3>5
    <3>7. /\ Len(rawStates) >= ConfirmBars - 1 /\ x.raw = x.state
          /\ \A k \in Len(rawStates) - ConfirmBars + 2 .. Len(rawStates) : rawStates[k] = x.state
      BY <3>4, <3>6
    <3>8. Cardinality(ClassifiedFrom(1, n)') >= ConfirmBars
      BY <1>4, <1>6, <1>8, <3>7, RegimeBounds
    <3>9. ASSUME NEW j \in C, Cardinality(ClassifiedFrom(j, n)') <= ConfirmBars
          PROVE  regimes'[j].raw = x.state
      <4>1. Cardinality(ClassifiedFrom(1, j)) \in Len(rawStates) - ConfirmBars + 2 .. Len(rawStates)
        BY <1>4, <1>9, <3>9, RegimeBounds
      <4>2. rawStates[Cardinality(ClassifiedFrom(1, j))] = regimes[j].raw
        BY Zenon DEF SettledInv
      <4> QED
        BY <1>3, <3>7, <4>1, <4>2, Zenon
    <3>10. \A j \in ClassifiedFrom(1, n)' : j \in C \/ j = n
      BY <1>3, <1>8
    <3> QED
      BY <1>3, <2>2, <3>7, <3>8, <3>9, <3>10, Zenon
  <2> QED
    BY <1>3, <2>1, <2>2
<1>14. ChangesAreSettled'
  BY <1>13, Zenon DEF ChangesAreSettled
<1>15. Len(rawStates') = Cardinality(Classified')
  BY <1>4, <1>6, Zenon
<1> QED
  BY <1>10, <1>11, <1>12, <1>14, <1>15, Zenon DEF SettledInv

\* What a step of E11 does to what it has said, in either kind of behaviour.
LEMMA WhatACandleDoes ==
  ASSUME NEW c, CandleCloses(c), streaming \in BOOLEAN
  PROVE  \/ UNCHANGED <<regimes, rawStates, confirmed>>
         \/ /\ UNCHANGED <<rawStates, confirmed>>
            /\ \E x : regimes' = Append(regimes, x) /\ x.kind # "state"
         \/ \E x, raw, before, label :
              /\ regimes' = Append(regimes, x)
              /\ rawStates' = Append(before, x.raw) /\ confirmed' = x.state
              /\ x.kind = "state" /\ x.raw = raw
              /\ <<x.state, x.status>> = Hysteresis(before, raw, label)
              /\ streaming => before = rawStates /\ label = confirmed
              /\ ~streaming => before = <<>>
<1> PICK engine : engine = IF streaming THEN [raw |-> rawStates, confirmed |-> confirmed, asOf |-> lastAsOf]
                           ELSE Fresh
  OBVIOUS
<1>1. /\ streaming => engine.raw = rawStates /\ engine.confirmed = confirmed
      /\ ~streaming => engine.raw = <<>>
  BY DEF Fresh
<1>2. \/ UNCHANGED <<regimes, rawStates, confirmed>>
      \/ WarmsUp(c) \/ Refused(c, "H<L") \/ Refused(c, "AMBIGUOUS") \/ Classifies(c, engine)
  BY Zenon DEF CandleCloses
<1>3. CASE WarmsUp(c)
  BY <1>3 DEF WarmsUp
<1>4. ASSUME NEW why, why # "state", Refused(c, why)
      PROVE  /\ UNCHANGED <<rawStates, confirmed>>
             /\ \E x : regimes' = Append(regimes, x) /\ x.kind # "state"
  <2>1. [kind |-> why, at |-> c.at].kind # "state"
    BY <1>4
  <2> QED
    BY <1>4, <2>1, Zenon DEF Refused
<1>5. CASE Classifies(c, engine)
  <2>1. PICK v, raw, verdict, q :
          /\ verdict = Hysteresis(engine.raw, raw, engine.confirmed)
          /\ rawStates' = Append(engine.raw, raw) /\ confirmed' = verdict[1]
          /\ regimes' = Append(regimes, Said(c, v, raw, verdict, q))
    BY <1>5, Zenon DEF Classifies
  <2> PICK x : x = Said(c, v, raw, verdict, q)
    OBVIOUS
  <2>2. x.kind = "state" /\ x.raw = raw /\ x.state = verdict[1] /\ x.status = verdict[2]
    BY DEF Said
  <2>3. verdict = <<verdict[1], verdict[2]>>
    <3>1. verdict = <<raw, "CONFIRMED">> \/ verdict = <<engine.confirmed, "SUSPECTED">>
      BY <2>1, Zenon DEF Hysteresis
    <3> QED
      BY <3>1
  <2>4. <<x.state, x.status>> = Hysteresis(engine.raw, raw, engine.confirmed)
    BY <2>1, <2>2, <2>3, Zenon
  <2> PICK before, label : before = engine.raw /\ label = engine.confirmed
    OBVIOUS
  <2>5. /\ regimes' = Append(regimes, x)
        /\ rawStates' = Append(before, x.raw) /\ confirmed' = x.state
        /\ x.kind = "state" /\ x.raw = raw
        /\ <<x.state, x.status>> = Hysteresis(before, raw, label)
    BY <2>1, <2>2, <2>4, Zenon
  <2>6. /\ streaming => before = rawStates /\ label = confirmed
        /\ ~streaming => before = <<>>
    BY <1>1
  <2> QED
    BY <2>5, <2>6, Zenon
<1> QED
  BY <1>2, <1>3, <1>4, <1>5, Zenon

\* One engine for all candles keeps SettledInv.
LEMMA StreamGoesOn ==
  ASSUME streaming, SettledInv, NEW x, NEW raw, x.kind = "state", x.raw = raw,
         regimes' = Append(regimes, x), rawStates' = Append(rawStates, x.raw), confirmed' = x.state,
         <<x.state, x.status>> = Hysteresis(rawStates, raw, confirmed)
  PROVE  SettledInv'
<1>1. \/ rawStates = <<>> \/ raw = confirmed
      \/ /\ Len(rawStates) >= ConfirmBars - 1
         /\ \A i \in Len(rawStates) - ConfirmBars + 2 .. Len(rawStates) : rawStates[i] = raw
         /\ <<x.state, x.status>> = <<raw, "CONFIRMED">>
      \/ <<x.state, x.status>> = <<confirmed, "SUSPECTED">>
  BY Zenon DEF Hysteresis
<1>2. raw = confirmed => <<x.state, x.status>> = <<raw, "CONFIRMED">>
  BY Zenon DEF Hysteresis
<1>3. \A s : /\ <<x.state, x.status>> = <<raw, s>> => x.state = raw
             /\ <<x.state, x.status>> = <<confirmed, s>> => x.state = confirmed
  OBVIOUS
<1>4. rawStates # <<>> /\ x.state # confirmed =>
        /\ Len(rawStates) >= ConfirmBars - 1 /\ x.raw = x.state
        /\ \A i \in Len(rawStates) - ConfirmBars + 2 .. Len(rawStates) : rawStates[i] = x.state
  BY <1>1, <1>2, <1>3, Zenon
<1> QED
  BY <1>4, OneMoreClassified

\* An engine for each candle: one more answer leaves the earlier ones as they are.
LEMMA OwnLabelGoesOn ==
  ASSUME OwnLabelInv, NEW x, regimes' = Append(regimes, x),
         x.kind = "state" => x.state = x.raw /\ x.status = "CONFIRMED"
  PROVE  OwnLabelInv'
<1>1. Grows(regimes, x, regimes')
  BY OneMoreOf, Zenon DEF OwnLabelInv
<1>2. IsSeq(regimes')
  BY <1>1 DEF Grows
<1>3. \A i \in Classified' : \/ i \in Classified /\ regimes'[i] = regimes[i]
                             \/ regimes'[i] = x /\ x.kind = "state"
  BY <1>1 DEF Grows, Classified
<1> QED
  BY <1>2, <1>3, Zenon DEF OwnLabelInv

LEMMA RegimeGoesOn == RegimeInv /\ [RegimeNext]_regimeVars => RegimeInv'
<1> SUFFICES ASSUME RegimeInv, [RegimeNext]_regimeVars PROVE RegimeInv'
  OBVIOUS
<1>1. CASE UNCHANGED <<streaming, regimes, rawStates, confirmed>>
  BY <1>1 DEF RegimeInv, SettledInv, OwnLabelInv, ChangesAreSettled, Classified, ClassifiedFrom
<1>2. CASE RegimeNext
  <2>1. PICK c : CandleCloses(c)
    BY <1>2, Zenon DEF RegimeNext
  <2>2. streaming' = streaming /\ streaming \in BOOLEAN
    BY <2>1, Zenon DEF CandleCloses, RegimeInv
  <2>3. ASSUME NEW x, regimes' = Append(regimes, x), x.kind # "state", UNCHANGED <<rawStates, confirmed>>
        PROVE  RegimeInv'
    BY <2>2, <2>3, NothingClassified, OwnLabelGoesOn, Zenon DEF RegimeInv
  <2>4. ASSUME NEW x, NEW raw, NEW before, NEW label,
               regimes' = Append(regimes, x), rawStates' = Append(before, x.raw), confirmed' = x.state,
               x.kind = "state", x.raw = raw, <<x.state, x.status>> = Hysteresis(before, raw, label),
               streaming => before = rawStates /\ label = confirmed, ~streaming => before = <<>>
        PROVE  RegimeInv'
    <3>1. CASE streaming
      <4>1. SettledInv'
        BY <2>4, <3>1, StreamGoesOn, Zenon DEF RegimeInv
      <4> QED
        BY <2>2, <3>1, <4>1, Zenon DEF RegimeInv
    <3>2. CASE ~streaming
      <4>1. <<x.state, x.status>> = <<raw, "CONFIRMED">>
        BY <2>4, <3>2, Zenon DEF Hysteresis
      <4>2. x.state = x.raw /\ x.status = "CONFIRMED"
        BY <2>4, <4>1
      <4>3. OwnLabelInv'
        BY <2>4, <3>2, <4>2, OwnLabelGoesOn, Zenon DEF RegimeInv
      <4> QED
        BY <2>2, <3>2, <4>3, Zenon DEF RegimeInv
    <3> QED
      BY <3>1, <3>2
  <2>5. CASE UNCHANGED <<regimes, rawStates, confirmed>>
    BY <1>1, <2>2, <2>5
  <2> QED
    BY <2>1, <2>2, <2>3, <2>4, <2>5, WhatACandleDoes, Zenon
<1> QED
  BY <1>1, <1>2 DEF regimeVars

\* Fed candle after candle, a published label changes only to what the last
\* ConfirmBars classified candles all said, over refused, repeated and degraded
\* candles (engine.py, hysteresis_manager); an engine built for each candle, as
\* the decision path builds it (engine_context.py, complete_engine_bundle),
\* confirms that candle's own raw label.
THEOREM RegimesAreSettled == RegimeSpec => []LabelsFollowTheirFeed
<1>1. RegimeInv => LabelsFollowTheirFeed
  BY Zenon DEF RegimeInv, SettledInv, OwnLabelInv, LabelsFollowTheirFeed
<1> QED
  BY <1>1, RegimeStarts, RegimeGoesOn, PTL DEF RegimeSpec

-----------------------------------------------------------------------------
(* E12.  The journal is told entry by entry: an entry of one code leaves   *)
(* what the other codes say as it was.                                     *)

TemporalSpec == TemporalInit /\ [][TemporalNext]_temporalVars

MoveCodes == {"EV_TMP_001", "EV_TMP_002"}

\* The entries of a journal with one of some codes.
ToldIn(j, codes) == {i \in DOMAIN j : j[i].code \in codes}

\* Entries S continue each other and come to where things are now; there are
\* none before there is a state.
ChangesOn(j, S, known, last) ==
  \A i \in S :
    /\ known
    /\ \A p \in S : Follows(i, p, S) => j[i].from = j[p].to
    /\ IsLastOf(i, S) => j[i].to = last
ChangesTo(j, codes, known, last) == ChangesOn(j, ToldIn(j, codes), known, last)

\* A window is entered first and left before the next is entered.
AlternateOn(j, S) ==
  \A i \in S :
    /\ (\A k \in S : i <= k) => j[i].code = "EV_TMP_001"
    /\ \A p \in S : Follows(i, p, S) =>
         /\ j[i].code # j[p].code
         /\ j[i].code = "EV_TMP_002" => j[i].from = j[p].to
MovesAlternate(j) == AlternateOn(j, ToldIn(j, MoveCodes))

\* The last move of a journal, or none.
LastOn(j, S, code, to) == \E i \in S : IsLastOf(i, S) /\ j[i].code = code /\ j[i].to = to
LastMove(j, code, to) == LastOn(j, ToldIn(j, MoveCodes), code, to)
NoMove(j) == ToldIn(j, MoveCodes) = {}

\* What the journal says of the state st it has come to.
TellsOf(j, st) ==
  /\ IsSeq(j) /\ MovesAlternate(j)
  /\ IF Accepts(st) THEN LastMove(j, "EV_TMP_001", st.window) ELSE NoMove(j)
  /\ ChangesTo(j, {"EV_TMP_004"}, Accepts(st), st.phase)
  /\ ChangesTo(j, {"EV_TMP_005"}, Accepts(st), st.day)

TemporalInv ==
  /\ TellsOf(journal, temporalState)
  /\ Accepts(temporalAnswer) => temporalAnswer = temporalState

\* An entry of another code, and one of these codes.
LEMMA ToldMore ==
  ASSUME NEW j, NEW x, NEW t, Grows(j, x, t), NEW codes
  PROVE  /\ IsSeq(t)
         /\ x.code \notin codes => ToldIn(t, codes) = ToldIn(j, codes)
         /\ \A i \in ToldIn(j, codes) : t[i] = j[i] /\ i < Len(t) /\ i \in Nat
         /\ x.code \in codes => ToldIn(t, codes) = ToldIn(j, codes) \cup {Len(t)}
         /\ t[Len(t)] = x /\ Len(t) \in Nat
  BY DEF Grows, ToldIn

LEMMA OtherCode ==
  ASSUME NEW j, NEW x, NEW t, Grows(j, x, t)
  PROVE  /\ \A codes, known, last : x.code \notin codes /\ ChangesTo(j, codes, known, last)
               => ChangesTo(t, codes, known, last)
         /\ x.code \notin MoveCodes /\ MovesAlternate(j) => MovesAlternate(t)
         /\ x.code \notin MoveCodes /\ NoMove(j) => NoMove(t)
         /\ \A code, to : x.code \notin MoveCodes /\ LastMove(j, code, to) => LastMove(t, code, to)
<1>1. ASSUME NEW codes, x.code \notin codes
      PROVE  ToldIn(t, codes) = ToldIn(j, codes) /\ \A i \in ToldIn(j, codes) : t[i] = j[i]
  BY <1>1, ToldMore
<1>2. ASSUME NEW codes, NEW known, NEW last, x.code \notin codes, ChangesTo(j, codes, known, last)
      PROVE  ChangesTo(t, codes, known, last)
  <2> PICK S : S = ToldIn(j, codes)
    OBVIOUS
  <2>1. ToldIn(t, codes) = S /\ \A i \in S : t[i] = j[i]
    BY <1>1, <1>2
  <2>2. ASSUME NEW i \in S
        PROVE  /\ known
               /\ \A p \in S : Follows(i, p, S) => t[i].from = t[p].to
               /\ IsLastOf(i, S) => t[i].to = last
    <3>1. /\ known
          /\ \A p \in S : Follows(i, p, S) => j[i].from = j[p].to
          /\ IsLastOf(i, S) => j[i].to = last
      <4>1. ChangesOn(j, S, known, last)
        BY <1>2, Zenon DEF ChangesTo
      <4> QED
        BY <4>1, Zenon DEF ChangesOn
    <3> QED
      BY <2>1, <3>1, Zenon
  <2>3. ChangesOn(t, S, known, last)
    BY <2>2, Zenon DEF ChangesOn
  <2> QED
    BY <2>1, <2>3, Zenon DEF ChangesTo
<1>3. ASSUME x.code \notin MoveCodes
      PROVE  /\ MovesAlternate(j) => MovesAlternate(t)
             /\ NoMove(j) => NoMove(t)
             /\ \A code, to : LastMove(j, code, to) => LastMove(t, code, to)
  <2> PICK S : S = ToldIn(j, MoveCodes)
    OBVIOUS
  <2>1. ToldIn(t, MoveCodes) = S /\ \A i \in S : t[i] = j[i]
    BY <1>1, <1>3
  <2>2. ASSUME MovesAlternate(j)
        PROVE  MovesAlternate(t)
    <3>1. ASSUME NEW i \in S
          PROVE  /\ (\A k \in S : i <= k) => t[i].code = "EV_TMP_001"
                 /\ \A p \in S : Follows(i, p, S) => /\ t[i].code # t[p].code
                                                     /\ t[i].code = "EV_TMP_002" => t[i].from = t[p].to
      <4>1. /\ (\A k \in S : i <= k) => j[i].code = "EV_TMP_001"
            /\ \A p \in S : Follows(i, p, S) => /\ j[i].code # j[p].code
                                                /\ j[i].code = "EV_TMP_002" => j[i].from = j[p].to
        BY <2>2, Zenon DEF MovesAlternate, AlternateOn
      <4> QED
        BY <2>1, <4>1, Zenon
    <3> QED
      <4>1. AlternateOn(t, S)
        <5> SUFFICES ASSUME NEW i \in S
                     PROVE  /\ (\A k \in S : i <= k) => t[i].code = "EV_TMP_001"
                            /\ \A p \in S : Follows(i, p, S) =>
                                 /\ t[i].code # t[p].code
                                 /\ t[i].code = "EV_TMP_002" => t[i].from = t[p].to
          BY Zenon DEF AlternateOn
        <5> QED
          BY <3>1
      <4> QED
        BY <2>1, <4>1, Zenon DEF MovesAlternate
  <2>3. NoMove(j) => NoMove(t)
    BY <2>1, Zenon DEF NoMove
  <2>4. ASSUME NEW code, NEW to, LastMove(j, code, to)
        PROVE  LastMove(t, code, to)
    <3>1. PICK i \in S : IsLastOf(i, S) /\ j[i].code = code /\ j[i].to = to
      BY <2>4, Zenon DEF LastMove, LastOn
    <3>2. t[i].code = code /\ t[i].to = to
      BY <2>1, <3>1
    <3> QED
      BY <2>1, <3>1, <3>2, Zenon DEF LastMove, LastOn
  <2> QED
    BY <2>2, <2>3, <2>4, Zenon
<1> QED
  BY <1>2, <1>3, Zenon

\* A change from where things were to where they are.
LEMMA ChangeTold ==
  ASSUME NEW j, NEW x, NEW t, Grows(j, x, t), NEW codes, x.code \in codes,
         NEW known, NEW last, ChangesTo(j, codes, known, last), known \in BOOLEAN, known, x.from = last
  PROVE  ChangesTo(t, codes, known, x.to)
<1> PICK n : n = Len(t)
  OBVIOUS
<1> PICK S : S = ToldIn(j, codes)
  OBVIOUS
<1>1. /\ ToldIn(t, codes) = S \cup {n} /\ t[n] = x /\ n \in Nat
      /\ \A i \in S : t[i] = j[i] /\ i < n /\ i \in Nat
  BY ToldMore
<1>2. /\ \A i, p \in S : Follows(i, p, S) => j[i].from = j[p].to
      /\ \A i \in S : IsLastOf(i, S) => j[i].to = last
  <2>1. ChangesOn(j, S, known, last)
    BY Zenon DEF ChangesTo
  <2> QED
    BY <2>1 DEF ChangesOn
<1>3. ASSUME NEW i \in S \cup {n}, NEW p \in S \cup {n}, Follows(i, p, S \cup {n})
      PROVE  t[i].from = t[p].to
  <2>1. p < i /\ \A k \in S \cup {n} : k <= p \/ i <= k
    BY <1>3 DEF Follows
  <2>2. p \in S
    BY <1>1, <2>1
  <2>3. CASE i \in S
    <3>1. Follows(i, p, S)
      BY <2>1 DEF Follows
    <3>2. j[i].from = j[p].to /\ t[i] = j[i] /\ t[p] = j[p]
      BY <1>1, <1>2, <2>2, <2>3, <3>1, Zenon
    <3> QED
      BY <3>2
  <2>4. CASE i = n
    <3>1. IsLastOf(p, S)
      <4>1. \A k \in S : k <= p
        <5> TAKE k \in S
        <5>1. k < n /\ k \in Nat /\ n \in Nat /\ (k <= p \/ i <= k)
          BY <1>1, <2>1
        <5> QED
          BY <5>1, <2>4
      <4> QED
        BY <2>2, <4>1, Zenon DEF IsLastOf
    <3> QED
      BY <1>1, <1>2, <2>2, <2>4, <3>1
  <2> QED
    BY <2>3, <2>4
<1>4. ASSUME NEW i \in S \cup {n}, IsLastOf(i, S \cup {n})
      PROVE  t[i].to = x.to
  <2>1. n <= i
    BY <1>4 DEF IsLastOf
  <2> QED
    BY <1>1, <2>1
<1>5. ChangesOn(t, S \cup {n}, known, x.to)
  BY <1>3, <1>4, Zenon DEF ChangesOn
<1> QED
  BY <1>1, <1>5, Zenon DEF ChangesTo

\* A window is entered, after none or after the last one was left.
LEMMA WindowEntered ==
  ASSUME NEW j, NEW x, NEW t, Grows(j, x, t), x.code = "EV_TMP_001",
         MovesAlternate(j), NoMove(j) \/ \E to : LastMove(j, "EV_TMP_002", to)
  PROVE  MovesAlternate(t) /\ LastMove(t, "EV_TMP_001", x.to)
<1> PICK n : n = Len(t)
  OBVIOUS
<1> PICK S : S = ToldIn(j, MoveCodes)
  OBVIOUS
<1>1. /\ ToldIn(t, MoveCodes) = S \cup {n} /\ t[n] = x /\ n \in Nat
      /\ \A i \in S : t[i] = j[i] /\ i < n /\ i \in Nat
  <2>1. x.code \in MoveCodes
    BY DEF MoveCodes
  <2> QED
    BY <2>1, ToldMore
<1>2. \A i \in S :
        /\ (\A k \in S : i <= k) => j[i].code = "EV_TMP_001"
        /\ \A p \in S : Follows(i, p, S) => /\ j[i].code # j[p].code
                                            /\ j[i].code = "EV_TMP_002" => j[i].from = j[p].to
  BY DEF MovesAlternate, AlternateOn
<1>3. ASSUME NEW i \in S \cup {n}, NEW p \in S \cup {n}, Follows(i, p, S \cup {n})
      PROVE  t[i].code # t[p].code /\ (t[i].code = "EV_TMP_002" => t[i].from = t[p].to)
  <2>1. p < i /\ \A k \in S \cup {n} : k <= p \/ i <= k
    BY <1>3 DEF Follows
  <2>2. p \in S
    BY <1>1, <2>1
  <2>3. CASE i \in S
    <3>1. Follows(i, p, S)
      BY <2>1 DEF Follows
    <3>2. /\ j[i].code # j[p].code /\ (j[i].code = "EV_TMP_002" => j[i].from = j[p].to)
          /\ t[i] = j[i] /\ t[p] = j[p]
      BY <1>1, <1>2, <2>2, <2>3, <3>1, ZenonT(60)
    <3> QED
      BY <3>2
  <2>4. CASE i = n
    <3>1. \A k \in S : k <= p
      <4> TAKE k \in S
      <4>1. k < n /\ k \in Nat /\ n \in Nat /\ (k <= p \/ i <= k)
        BY <1>1, <2>1
      <4> QED
        BY <4>1, <2>4
    <3>2. PICK q \in S : IsLastOf(q, S) /\ j[q].code = "EV_TMP_002"
      <4>1. ~NoMove(j)
        BY <2>2, Zenon DEF NoMove
      <4> QED
        <5>1. LastOn(j, S, "EV_TMP_002", x.to) \/ \E to : LastOn(j, S, "EV_TMP_002", to)
          BY <4>1, Zenon DEF LastMove
        <5> QED
          BY <5>1 DEF LastOn
    <3>3. q = p
      BY <1>1, <2>2, <3>1, <3>2 DEF IsLastOf
    <3> QED
      BY <1>1, <2>2, <2>4, <3>2, <3>3
  <2> QED
    BY <2>3, <2>4
<1>4. ASSUME NEW i \in S \cup {n}, \A k \in S \cup {n} : i <= k
      PROVE  t[i].code = "EV_TMP_001"
  <2>1. CASE i \in S
    BY <1>1, <1>2, <1>4, <2>1
  <2>2. CASE i = n
    BY <1>1, <2>2
  <2> QED
    BY <2>1, <2>2
<1>5. IsLastOf(n, S \cup {n})
  BY <1>1 DEF IsLastOf
<1>6. AlternateOn(t, S \cup {n})
  BY <1>3, <1>4, Zenon DEF AlternateOn
<1>7. LastOn(t, S \cup {n}, x.code, x.to)
  BY <1>1, <1>5 DEF LastOn
<1> QED
  BY <1>1, <1>6, <1>7, Zenon DEF MovesAlternate, LastMove

\* The window things are in is left.
LEMMA WindowLeft ==
  ASSUME NEW j, NEW x, NEW t, Grows(j, x, t), x.code = "EV_TMP_002",
         MovesAlternate(j), LastMove(j, "EV_TMP_001", x.from)
  PROVE  MovesAlternate(t) /\ LastMove(t, "EV_TMP_002", x.to)
<1> PICK n : n = Len(t)
  OBVIOUS
<1> PICK S : S = ToldIn(j, MoveCodes)
  OBVIOUS
<1>1. /\ ToldIn(t, MoveCodes) = S \cup {n} /\ t[n] = x /\ n \in Nat
      /\ \A i \in S : t[i] = j[i] /\ i < n /\ i \in Nat
  <2>1. x.code \in MoveCodes
    BY DEF MoveCodes
  <2> QED
    BY <2>1, ToldMore
<1>2. \A i \in S :
        /\ (\A k \in S : i <= k) => j[i].code = "EV_TMP_001"
        /\ \A p \in S : Follows(i, p, S) => /\ j[i].code # j[p].code
                                            /\ j[i].code = "EV_TMP_002" => j[i].from = j[p].to
  BY DEF MovesAlternate, AlternateOn
<1>q. PICK q \in S : IsLastOf(q, S) /\ j[q].code = "EV_TMP_001" /\ j[q].to = x.from
  BY DEF LastMove, LastOn
<1>3. ASSUME NEW i \in S \cup {n}, NEW p \in S \cup {n}, Follows(i, p, S \cup {n})
      PROVE  t[i].code # t[p].code /\ (t[i].code = "EV_TMP_002" => t[i].from = t[p].to)
  <2>1. p < i /\ \A k \in S \cup {n} : k <= p \/ i <= k
    BY <1>3 DEF Follows
  <2>2. p \in S
    BY <1>1, <2>1
  <2>3. CASE i \in S
    <3>1. Follows(i, p, S)
      BY <2>1 DEF Follows
    <3>2. /\ j[i].code # j[p].code /\ (j[i].code = "EV_TMP_002" => j[i].from = j[p].to)
          /\ t[i] = j[i] /\ t[p] = j[p]
      BY <1>1, <1>2, <2>2, <2>3, <3>1, ZenonT(60)
    <3> QED
      BY <3>2
  <2>4. CASE i = n
    <3>1. \A k \in S : k <= p
      <4> TAKE k \in S
      <4>1. k < n /\ k \in Nat /\ n \in Nat /\ (k <= p \/ i <= k)
        BY <1>1, <2>1
      <4> QED
        BY <4>1, <2>4
    <3>2. q = p
      BY <1>1, <1>q, <2>2, <3>1 DEF IsLastOf
    <3> QED
      BY <1>1, <1>q, <2>2, <2>4, <3>2
  <2> QED
    BY <2>3, <2>4
<1>4. ASSUME NEW i \in S \cup {n}, \A k \in S \cup {n} : i <= k
      PROVE  t[i].code = "EV_TMP_001"
  <2>1. i \in S
    BY <1>1, <1>q, <1>4
  <2> QED
    BY <1>1, <1>2, <1>4, <2>1
<1>5. IsLastOf(n, S \cup {n})
  BY <1>1 DEF IsLastOf
<1>6. AlternateOn(t, S \cup {n})
  BY <1>3, <1>4, Zenon DEF AlternateOn
<1>7. LastOn(t, S \cup {n}, x.code, x.to)
  BY <1>1, <1>5 DEF LastOn
<1> QED
  BY <1>1, <1>6, <1>7, Zenon DEF MovesAlternate, LastMove

\* Concatenation under a name of its own, entry by entry.
Joined(s, t) == s \o t

LEMMA JoinedOneMore ==
  ASSUME NEW R, NEW s \in Seq(R), NEW x \in R, NEW t, t = <<x>>
  PROVE  t \in Seq(R) /\ Joined(s, t) \in Seq(R) /\ Grows(s, x, Joined(s, t))
<1>1. t \in Seq(R) /\ Joined(s, t) = Append(s, x)
  BY AppendIsConcat, SMT DEF Joined
<1>2. Append(s, x) \in Seq(R)
  BY SMT
<1>3. IsSeq(s)
  BY Zenon DEF IsSeq
<1> QED
  BY <1>1, <1>2, <1>3, OneMoreOf, Zenon

LEMMA JoinedNothing ==
  ASSUME NEW R, NEW s \in Seq(R), NEW t, t = <<>>
  PROVE  t \in Seq(R) /\ Joined(s, t) = s
BY ConcatEmptySeq, SMT DEF Joined

LEMMA JoinedIs ==
  ASSUME NEW R, NEW x \in Seq(R), NEW y \in Seq(R)
  PROVE  Joined(x, y) \in Seq(R)
BY ConcatProperties, SMT DEF Joined

LEMMA JoinedAssociates ==
  ASSUME NEW R, NEW x \in Seq(R), NEW y \in Seq(R), NEW z \in Seq(R)
  PROVE  Joined(x, Joined(y, z)) = Joined(Joined(x, y), z)
BY ConcatAssociative, SMT DEF Joined

One(x) == <<x>>

LEMMA JoinedOne ==
  ASSUME NEW R, NEW s \in Seq(R), NEW x \in R
  PROVE  Joined(s, One(x)) \in Seq(R) /\ Grows(s, x, Joined(s, One(x)))
<1> PICK t : t = One(x)
  OBVIOUS
<1>1. t = <<x>>
  BY DEF One
<1>2. Joined(s, t) \in Seq(R) /\ Grows(s, x, Joined(s, t))
  BY <1>1, JoinedOneMore
<1> QED
  BY <1>2

LEMMA OneAndOne ==
  ASSUME NEW R, NEW x \in R, NEW y \in R
  PROVE  One(x) \in Seq(R) /\ Joined(One(x), One(y)) = <<x, y>>
<1>1. One(x) \in Seq(R) /\ One(y) \in Seq(R)
  BY DEF One
<1>2. Joined(One(x), One(y)) = Append(One(x), y)
  BY <1>1, AppendIsConcat, SMT DEF Joined, One
<1>3. Append(One(x), y) = <<x, y>>
  <2> PICK o : o = One(x)
    OBVIOUS
  <2> PICK t : t = Append(o, y)
    OBVIOUS
  <2> PICK p : p = <<x, y>>
    OBVIOUS
  <2>1. o \in Seq(R) /\ Len(o) = 1 /\ o[1] = x
    BY DEF One
  <2>2. t \in Seq(R) /\ Len(t) = 2 /\ t[1] = x /\ t[2] = y
    BY <2>1
  <2>3. p \in Seq(R) /\ Len(p) = 2 /\ p[1] = x /\ p[2] = y
    OBVIOUS
  <2>4. Len(t) = Len(p) /\ \A i \in 1 .. Len(t) : t[i] = p[i]
    BY <2>2, <2>3
  <2>5. t = p
    BY <2>2, <2>3, <2>4, SeqEqual
  <2> QED
    BY <2>5
<1> QED
  BY <1>1, <1>2, <1>3, Zenon

LEMMA JoinedTwo ==
  ASSUME NEW R, NEW s \in Seq(R), NEW x \in R, NEW y \in R
  PROVE  <<x, y>> \in Seq(R) /\ Joined(s, <<x, y>>) = Joined(Joined(s, One(x)), One(y))
<1>1. One(x) \in Seq(R) /\ One(y) \in Seq(R)
  BY OneAndOne
<1>2. Joined(s, Joined(One(x), One(y))) = Joined(Joined(s, One(x)), One(y))
  BY <1>1, JoinedAssociates
<1>3. <<x, y>> \in Seq(R)
  OBVIOUS
<1>4. Joined(One(x), One(y)) = <<x, y>>
  BY OneAndOne
<1> QED
  BY <1>2, <1>3, <1>4, Zenon

LEMMA FourJoined ==
  ASSUME NEW R, NEW s \in Seq(R), NEW a \in Seq(R), NEW b \in Seq(R), NEW c \in Seq(R), NEW d \in Seq(R)
  PROVE  Joined(s, Joined(Joined(Joined(a, b), c), d)) = Joined(Joined(Joined(Joined(s, a), b), c), d)
<1>1. Joined(a, b) \in Seq(R)
  BY JoinedIs
<1>2. Joined(Joined(a, b), c) \in Seq(R)
  BY <1>1, JoinedIs
<1>3. Joined(s, Joined(Joined(Joined(a, b), c), d)) = Joined(Joined(s, Joined(Joined(a, b), c)), d)
  BY <1>2, JoinedAssociates
<1>4. Joined(s, Joined(Joined(a, b), c)) = Joined(Joined(s, Joined(a, b)), c)
  BY <1>1, JoinedAssociates
<1>5. Joined(s, Joined(a, b)) = Joined(Joined(s, a), b)
  BY JoinedAssociates
<1> QED
  BY <1>3, <1>4, <1>5, Zenon

\* What comes to be noted: one entry on a condition, or nothing.
LEMMA NotedOrNot ==
  ASSUME NEW R, NEW s \in Seq(R), NEW x \in R, NEW on \in BOOLEAN, NEW t, t = IF on THEN <<x>> ELSE <<>>
  PROVE  /\ t \in Seq(R) /\ Joined(s, t) \in Seq(R)
         /\ on => Grows(s, x, Joined(s, t))
         /\ ~on => Joined(s, t) = s
<1>1. CASE on
  <2>1. t = <<x>>
    BY <1>1
  <2>2. t \in Seq(R) /\ Joined(s, t) \in Seq(R) /\ Grows(s, x, Joined(s, t))
    BY <2>1, JoinedOneMore, Zenon
  <2> QED
    BY <1>1, <2>2, Zenon
<1>2. CASE ~on
  <2>1. t = <<>>
    BY <1>2
  <2>2. t \in Seq(R) /\ Joined(s, t) = s
    BY <2>1, JoinedNothing, Zenon
  <2> QED
    BY <1>2, <2>2, Zenon
<1> QED
  BY <1>1, <1>2

\* What a journal holds, other entries may be added to.
LEMMA RoomFor ==
  ASSUME NEW j, IsSeq(j), NEW E
  PROVE  \E R : j \in Seq(R) /\ E \subseteq R
<1>1. PICK S : j \in Seq(S)
  BY DEF IsSeq
<1>2. PICK R : R = S \cup E
  OBVIOUS
<1>3. S \subseteq R /\ E \subseteq R
  BY <1>2
<1>4. j \in Seq(R)
  <2>1. \A i \in 1 .. Len(j) : j[i] \in R
    BY <1>1, <1>3
  <2>2. j = [i \in 1 .. Len(j) |-> j[i]] /\ Len(j) \in Nat
    BY <1>1
  <2> QED
    BY <2>1, <2>2
<1> QED
  BY <1>3, <1>4, Zenon

\* An entry of the changes of a code, or none when nothing changed or nothing
\* was known before.
LEMMA LinkGoesOn ==
  ASSUME NEW j, NEW t, NEW codes, NEW known \in BOOLEAN,
         NEW x, x.code \in codes, ChangesTo(j, codes, known, x.from),
         known /\ x.from # x.to => Grows(j, x, t),
         ~(known /\ x.from # x.to) => t = j
  PROVE  ChangesTo(t, codes, TRUE, x.to)
<1>1. CASE known /\ x.from # x.to
  <2>1. ChangesTo(t, codes, known, x.to)
    BY <1>1, ChangeTold
  <2>2. known = TRUE
    BY <1>1
  <2> QED
    BY <2>1, <2>2, Zenon
<1>2. CASE known /\ x.from = x.to
  <2>1. known = TRUE /\ t = j
    BY <1>2
  <2> QED
    BY <1>2, <2>1, Zenon
<1>3. CASE ~known
  <2>1. t = j
    BY <1>3
  <2>2. ChangesOn(j, ToldIn(j, codes), known, x.from)
    BY Zenon DEF ChangesTo
  <2>3. ToldIn(j, codes) = {}
    BY <1>3, <2>2 DEF ChangesOn
  <2>4. ChangesOn(j, ToldIn(j, codes), TRUE, x.to)
    BY <2>3 DEF ChangesOn
  <2> QED
    BY <2>1, <2>4, Zenon DEF ChangesTo
<1> QED
  BY <1>1, <1>2, <1>3

LEMMA ConstantIsASeq ==
  ASSUME NEW R, NEW e \in R, NEW n \in Nat
  PROVE  [i \in 1 .. n |-> e] \in Seq(R)
  OBVIOUS

LEMMA TemporalStarts == TemporalInit => TemporalInv
<1> SUFFICES ASSUME TemporalInit PROVE TemporalInv
  OBVIOUS
<1> DEFINE calendar == [code |-> "EV_TMP_008", from |-> "none", to |-> "none"]
           attached == [code |-> "EV_TMP_006", from |-> "none", to |-> "none"]
           R == {calendar, attached}
<1>1. PICK u \in Seq(R), v \in Seq(R) : journal = u \o v
  <2>1. Cardinality({x \in {RedDays} : NoCalendar \in x}) \in Nat
    <3>1. IsFiniteSet({RedDays})
      BY FS_Singleton
    <3>2. IsFiniteSet({x \in {RedDays} : NoCalendar \in x})
      BY <3>1, FS_Subset
    <3> QED
      BY <3>2, FS_CardinalityType
  <2>2. PICK m \in Nat : DOMAIN profile = 1 .. m
    <3>1. profile = <<>> \/ \E p : profile = <<p>>
      BY DEF TemporalInit
    <3> QED
      BY <3>1
  <2>3. PICK n \in Nat : n = Cardinality({x \in {RedDays} : NoCalendar \in x})
    BY <2>1
  <2>4. journal = [i \in 1 .. n |-> calendar] \o [i \in 1 .. m |-> attached]
    BY <2>2, <2>3, Zenon DEF TemporalInit
  <2> HIDE DEF calendar, attached
  <2>5. [i \in 1 .. n |-> calendar] \in Seq(R) /\ [i \in 1 .. m |-> attached] \in Seq(R)
    BY Zenon, <2>2, <2>3, ConstantIsASeq
  <2> QED
    BY <2>4, <2>5
<1>2. journal \in Seq(R)
  BY <1>1, ConcatProperties
<1>3. \A i \in DOMAIN journal : journal[i].code \in {"EV_TMP_008", "EV_TMP_006"}
  <2>1. \A i \in DOMAIN journal : journal[i] \in R
    BY <1>2
  <2> QED
    BY <2>1
<1>4. \A codes : codes \cap {"EV_TMP_008", "EV_TMP_006"} = {} => ToldIn(journal, codes) = {}
  <2> HIDE DEF R
  <2> QED
    BY <1>3 DEF ToldIn
<1>5. /\ ToldIn(journal, MoveCodes) = {} /\ ToldIn(journal, {"EV_TMP_004"}) = {}
      /\ ToldIn(journal, {"EV_TMP_005"}) = {}
  BY <1>4 DEF MoveCodes
<1>6. ~Accepts(temporalState) /\ ~Accepts(temporalAnswer)
  BY DEF TemporalInit, Accepts, NoState
<1>7. IsSeq(journal)
  BY <1>2, Zenon DEF IsSeq
<1>8. \A st : ChangesTo(journal, {"EV_TMP_004"}, Accepts(st), st.phase)
              /\ ChangesTo(journal, {"EV_TMP_005"}, Accepts(st), st.day)
  <2>1. \A known, last : ChangesOn(journal, {}, known, last)
    BY Zenon DEF ChangesOn
  <2> QED
    BY <1>5, <2>1, Zenon DEF ChangesTo
<1>9. AlternateOn(journal, {})
  BY Zenon DEF AlternateOn
<1> QED
  BY <1>5, <1>6, <1>7, <1>8, <1>9, Zenon DEF TemporalInv, TellsOf, MovesAlternate, NoMove

\* An entry of a code none of the claims is about.
LEMMA OtherNoted ==
  ASSUME NEW j, NEW st, TellsOf(j, st), NEW x, NEW t, Grows(j, x, t),
         x.code \notin MoveCodes, x.code \notin {"EV_TMP_004"}, x.code \notin {"EV_TMP_005"}
  PROVE  TellsOf(t, st)
<1>1. IsSeq(t)
  BY DEF Grows
<1> QED
  BY <1>1, OtherCode, Zenon DEF TellsOf

\* The window the journal is in after what Windows adds.
LEMMA InTheNewWindow ==
  ASSUME NEW old, NEW new, NEW R, NEW j \in Seq(R), NEW t, t = Joined(j, Windows(old, new)),
         Noted("EV_TMP_001", "none", new.window) \in R, Noted("EV_TMP_002", old.window, "none") \in R,
         MovesAlternate(j),
         IF Accepts(old) THEN LastMove(j, "EV_TMP_001", old.window) ELSE NoMove(j)
  PROVE  /\ Windows(old, new) \in Seq(R) /\ t \in Seq(R) /\ MovesAlternate(t)
         /\ LastMove(t, "EV_TMP_001", new.window)
         /\ \A codes, known, last : codes \cap MoveCodes = {} /\ ChangesTo(j, codes, known, last)
               => ChangesTo(t, codes, known, last)
<1> PICK x : x = Noted("EV_TMP_001", "none", new.window)
  OBVIOUS
<1> PICK y : y = Noted("EV_TMP_002", old.window, "none")
  OBVIOUS
<1>1. x \in R /\ y \in R
  OBVIOUS
<1>2. /\ x.code = "EV_TMP_001" /\ x.to = new.window
      /\ y.code = "EV_TMP_002" /\ y.from = old.window /\ y.to = "none"
  BY DEF Noted
<1>3. \A codes : codes \cap MoveCodes = {} => x.code \notin codes /\ y.code \notin codes
  BY <1>2 DEF MoveCodes
<1>4. CASE ~Accepts(old)
  <2>1. Windows(old, new) = <<x>>
    BY <1>4, Zenon DEF Windows
  <2>2. Windows(old, new) \in Seq(R) /\ t \in Seq(R) /\ Grows(j, x, t)
    BY <1>1, <2>1, JoinedOneMore, Zenon
  <2>3. NoMove(j)
    BY <1>4
  <2>4. MovesAlternate(t) /\ LastMove(t, "EV_TMP_001", x.to)
    BY <1>2, <2>2, <2>3, WindowEntered, Zenon
  <2> QED
    BY <1>2, <1>3, <2>2, <2>4, OtherCode, Zenon
<1>5. CASE Accepts(old) /\ old.window = new.window
  <2>1. Windows(old, new) = <<>>
    BY <1>5, Zenon DEF Windows
  <2>2. Windows(old, new) \in Seq(R) /\ t = j
    BY <2>1, JoinedNothing, Zenon
  <2> QED
    BY <1>5, <2>2, Zenon
<1>6. CASE Accepts(old) /\ old.window # new.window
  <2>1. Windows(old, new) = <<y, x>>
    BY <1>6, Zenon DEF Windows
  <2> PICK m : m = Joined(j, One(y))
    OBVIOUS
  <2>2. <<y, x>> \in Seq(R) /\ Joined(j, <<y, x>>) = Joined(Joined(j, One(y)), One(x))
    BY <1>1, JoinedTwo
  <2>3. t = Joined(m, One(x)) /\ Windows(old, new) \in Seq(R)
    BY <2>1, <2>2, Zenon
  <2>5. m \in Seq(R) /\ Grows(j, y, m)
    BY <1>1, JoinedOne
  <2>6. t \in Seq(R) /\ Grows(m, x, t)
    BY <1>1, <2>3, <2>5, JoinedOne
  <2>7. LastMove(j, "EV_TMP_001", y.from)
    BY <1>2, <1>6
  <2>8. MovesAlternate(m) /\ LastMove(m, "EV_TMP_002", y.to)
    BY <1>2, <2>5, <2>7, WindowLeft
  <2>9. MovesAlternate(t) /\ LastMove(t, "EV_TMP_001", x.to)
    BY <1>2, <2>6, <2>8, WindowEntered
  <2>10. \A codes, known, last : codes \cap MoveCodes = {} /\ ChangesTo(j, codes, known, last)
               => ChangesTo(t, codes, known, last)
    <3> SUFFICES ASSUME NEW codes, NEW known, NEW last,
                        codes \cap MoveCodes = {}, ChangesTo(j, codes, known, last)
                 PROVE  ChangesTo(t, codes, known, last)
      OBVIOUS
    <3>1. x.code \notin codes /\ y.code \notin codes
      BY <1>3
    <3>2. ChangesTo(m, codes, known, last)
      BY <2>5, <3>1, OtherCode, Zenon
    <3> QED
      BY <2>6, <3>1, <3>2, OtherCode, Zenon
  <2> QED
    BY <1>2, <2>3, <2>6, <2>9, <2>10, Zenon
<1> QED
  BY <1>4, <1>5, <1>6

\* One entry, of a code none of the claims is about, on a condition.
LEMMA OverlapNoted ==
  ASSUME NEW R, NEW j \in Seq(R), NEW x \in R, x.code = "EV_TMP_003", NEW on \in BOOLEAN,
         NEW b, b = IF on THEN <<x>> ELSE <<>>, NEW t, t = Joined(j, b)
  PROVE  /\ b \in Seq(R) /\ t \in Seq(R)
         /\ MovesAlternate(j) => MovesAlternate(t)
         /\ \A code, to : LastMove(j, code, to) => LastMove(t, code, to)
         /\ \A codes, known, last : "EV_TMP_003" \notin codes /\ ChangesTo(j, codes, known, last)
               => ChangesTo(t, codes, known, last)
<1>1. b \in Seq(R) /\ t \in Seq(R) /\ (on => Grows(j, x, t)) /\ (~on => t = j)
  BY NotedOrNot, Zenon
<1>2. CASE on
  <2>1. Grows(j, x, t)
    BY <1>1, <1>2
  <2>2. x.code \notin MoveCodes
    BY DEF MoveCodes
  <2> QED
    BY <1>1, <2>1, <2>2, OtherCode, ZenonT(60)
<1>3. CASE ~on
  BY <1>1, <1>3, Zenon
<1> QED
  BY <1>2, <1>3

\* What is said of moves and of other codes stays as it was.
KeepsTheRest(j, t, code) ==
  /\ MovesAlternate(j) => MovesAlternate(t)
  /\ \A move, to : LastMove(j, move, to) => LastMove(t, move, to)
  /\ \A codes, was, last : code \notin codes /\ ChangesTo(j, codes, was, last)
       => ChangesTo(t, codes, was, last)

\* The changes b noted after j, with one to where x comes to.
LinkAdded(R, j, b, x, codes) ==
  /\ b \in Seq(R) /\ Joined(j, b) \in Seq(R)
  /\ ChangesTo(Joined(j, b), codes, TRUE, x.to)
  /\ KeepsTheRest(j, Joined(j, b), x.code)

\* One entry of the changes of a code, on a change of what was known.
LEMMA ChangeNoted ==
  ASSUME NEW R, NEW j \in Seq(R), NEW x \in R, NEW codes, x.code \in codes, x.code \notin MoveCodes,
         NEW known \in BOOLEAN,
         ChangesTo(j, codes, known, x.from),
         NEW b, known = TRUE /\ x.from # x.to => b = <<x>>, ~(known = TRUE /\ x.from # x.to) => b = <<>>
  PROVE  LinkAdded(R, j, b, x, codes)
<1> PICK t : t = Joined(j, b)
  OBVIOUS
<1> PICK on \in BOOLEAN : on <=> known /\ x.from # x.to
  <2>1. (known /\ x.from # x.to) \in BOOLEAN
    OBVIOUS
  <2> QED
    BY <2>1
<1>1. b = IF on THEN <<x>> ELSE <<>>
  <2>1. known = TRUE <=> known
    OBVIOUS
  <2> QED
    BY <2>1
<1>2. b \in Seq(R) /\ t \in Seq(R) /\ (on => Grows(j, x, t)) /\ (~on => t = j)
  BY <1>1, NotedOrNot, Zenon
<1>3. ChangesTo(t, codes, TRUE, x.to)
  <2>1. known /\ x.from # x.to => Grows(j, x, t)
    BY <1>2
  <2>2. ~(known /\ x.from # x.to) => t = j
    BY <1>2
  <2>3. ChangesTo(j, codes, known, x.from)
    BY Zenon
  <2> QED
    BY <2>1, <2>2, <2>3, LinkGoesOn
<1>4. CASE on
  <2>1. Grows(j, x, t)
    BY <1>2, <1>4
  <2> QED
    BY <1>2, <1>3, <2>1, OtherCode, Zenon DEF KeepsTheRest, LinkAdded
<1>5. CASE ~on
  BY <1>2, <1>3, <1>5, Zenon DEF KeepsTheRest, LinkAdded
<1> QED
  BY <1>4, <1>5

LEMMA ChangesAreTold ==
  ASSUME NEW j, NEW old, NEW new, TellsOf(j, old), Accepts(new)
  PROVE  TellsOf(j \o ChangesSince(old, new), new)
<1>e1. PICK e1 : e1 = Noted("EV_TMP_001", "none", new.window)
  OBVIOUS
<1>e2. PICK e2 : e2 = Noted("EV_TMP_002", old.window, "none")
  OBVIOUS
<1>e3. PICK e3 : e3 = Noted("EV_TMP_003", "none", new.window)
  OBVIOUS
<1>e4. PICK e4 : e4 = Noted("EV_TMP_004", old.phase, new.phase)
  OBVIOUS
<1>e5. PICK e5 : e5 = Noted("EV_TMP_005", old.day, new.day)
  OBVIOUS
<1>E. PICK E : E = {e1, e2, e3, e4, e5}
  OBVIOUS
<1>1. PICK R : j \in Seq(R) /\ E \subseteq R
  <2>1. IsSeq(j)
    BY DEF TellsOf
  <2> QED
    BY <2>1, RoomFor, Zenon
<1>2. e1 \in R /\ e2 \in R /\ e3 \in R /\ e4 \in R /\ e5 \in R
  BY <1>1, <1>E
<1>k. PICK known \in BOOLEAN : known <=> Accepts(old)
  BY DEF Accepts
<1>o. PICK on \in BOOLEAN : on <=> new.overlap /\ ~(Accepts(old) /\ old.overlap)
  <2>1. (new.overlap /\ ~(Accepts(old) /\ old.overlap)) \in BOOLEAN
    OBVIOUS
  <2> QED
    BY <2>1
<1>a. PICK a : a = Windows(old, new)
  OBVIOUS
<1>b. PICK b : b = IF on THEN <<e3>> ELSE <<>>
  OBVIOUS
<1>c. PICK c : c = IF known /\ old.phase # new.phase THEN <<e4>> ELSE <<>>
  OBVIOUS
<1>d. PICK d : d = IF known /\ old.day # new.day THEN <<e5>> ELSE <<>>
  OBVIOUS
<1>j1. PICK j1 : j1 = Joined(j, a)
  OBVIOUS
<1>j2. PICK j2 : j2 = Joined(j1, b)
  OBVIOUS
<1>j3. PICK j3 : j3 = Joined(j2, c)
  OBVIOUS
<1>j4. PICK j4 : j4 = Joined(j3, d)
  OBVIOUS
<1>3. /\ MovesAlternate(j)
      /\ IF Accepts(old) THEN LastMove(j, "EV_TMP_001", old.window) ELSE NoMove(j)
      /\ ChangesTo(j, {"EV_TMP_004"}, known, old.phase)
      /\ ChangesTo(j, {"EV_TMP_005"}, known, old.day)
  <2>1. known = Accepts(old)
    BY <1>k DEF Accepts
  <2> QED
    BY <2>1, Zenon DEF TellsOf
<1>4. /\ {"EV_TMP_004"} \cap MoveCodes = {} /\ {"EV_TMP_005"} \cap MoveCodes = {}
      /\ "EV_TMP_004" \notin MoveCodes /\ "EV_TMP_005" \notin MoveCodes
  BY DEF MoveCodes
<1>5. /\ a \in Seq(R) /\ j1 \in Seq(R) /\ MovesAlternate(j1) /\ LastMove(j1, "EV_TMP_001", new.window)
      /\ ChangesTo(j1, {"EV_TMP_004"}, known, old.phase)
      /\ ChangesTo(j1, {"EV_TMP_005"}, known, old.day)
  BY <1>1, <1>2, <1>3, <1>4, <1>e1, <1>e2, <1>a, <1>j1, InTheNewWindow, Zenon
<1>6. /\ e3.code = "EV_TMP_003"
      /\ e4.code = "EV_TMP_004" /\ e4.from = old.phase /\ e4.to = new.phase
      /\ e5.code = "EV_TMP_005" /\ e5.from = old.day /\ e5.to = new.day
  BY <1>e3, <1>e4, <1>e5 DEF Noted
<1>7. /\ b \in Seq(R) /\ j2 \in Seq(R) /\ MovesAlternate(j2) /\ LastMove(j2, "EV_TMP_001", new.window)
      /\ ChangesTo(j2, {"EV_TMP_004"}, known, old.phase)
      /\ ChangesTo(j2, {"EV_TMP_005"}, known, old.day)
  <2>1. "EV_TMP_003" \notin {"EV_TMP_004"} /\ "EV_TMP_003" \notin {"EV_TMP_005"}
    OBVIOUS
  <2> QED
    BY <1>2, <1>5, <1>6, <1>b, <1>j2, <1>o, <2>1, OverlapNoted
<1>8. /\ c \in Seq(R) /\ j3 \in Seq(R) /\ MovesAlternate(j3) /\ LastMove(j3, "EV_TMP_001", new.window)
      /\ ChangesTo(j3, {"EV_TMP_004"}, TRUE, new.phase)
      /\ ChangesTo(j3, {"EV_TMP_005"}, known, old.day)
  <2>1. "EV_TMP_004" \notin {"EV_TMP_005"}
    OBVIOUS
  <2>2. ChangesTo(j2, {e4.code}, known, e4.from) /\ e4.code \notin MoveCodes
    BY <1>4, <1>6, <1>7, Zenon
  <2>3. /\ c \in Seq(R) /\ j3 \in Seq(R)
        /\ ChangesTo(j3, {e4.code}, TRUE, e4.to)
        /\ KeepsTheRest(j2, j3, e4.code)
    <3>1. /\ known = TRUE /\ e4.from # e4.to => c = <<e4>>
          /\ ~(known = TRUE /\ e4.from # e4.to) => c = <<>>
      <4>1. known = TRUE <=> known
        OBVIOUS
      <4> QED
        BY <1>6, <1>c, <4>1
    <3>2. j2 \in Seq(R) /\ e4 \in R
      BY <1>2, <1>7
    <3> QED
      <4>1. e4.code \in {e4.code}
        OBVIOUS
      <4> QED
        <5>c. PICK codes : codes = {e4.code}
          OBVIOUS
        <5>1. e4.code \in codes /\ ChangesTo(j2, codes, known, e4.from) /\ e4.code \notin MoveCodes
          BY <2>2, <4>1, <5>c, Zenon
        <5>2. LinkAdded(R, j2, c, e4, codes)
          BY <3>1, <3>2, <5>1, ChangeNoted, Zenon
        <5> QED
          BY <1>j3, <5>2, <5>c, Zenon DEF LinkAdded
  <2> QED
    BY <1>6, <1>7, <2>1, <2>3, Zenon DEF KeepsTheRest
<1>9. /\ d \in Seq(R) /\ j4 \in Seq(R) /\ MovesAlternate(j4) /\ LastMove(j4, "EV_TMP_001", new.window)
      /\ ChangesTo(j4, {"EV_TMP_004"}, TRUE, new.phase)
      /\ ChangesTo(j4, {"EV_TMP_005"}, TRUE, new.day)
  <2>1. "EV_TMP_005" \notin {"EV_TMP_004"}
    OBVIOUS
  <2>2. ChangesTo(j3, {e5.code}, known, e5.from) /\ e5.code \notin MoveCodes
    BY <1>4, <1>6, <1>8, Zenon
  <2>3. /\ d \in Seq(R) /\ j4 \in Seq(R)
        /\ ChangesTo(j4, {e5.code}, TRUE, e5.to)
        /\ KeepsTheRest(j3, j4, e5.code)
    <3>1. /\ known = TRUE /\ e5.from # e5.to => d = <<e5>>
          /\ ~(known = TRUE /\ e5.from # e5.to) => d = <<>>
      <4>1. known = TRUE <=> known
        OBVIOUS
      <4> QED
        BY <1>6, <1>d, <4>1
    <3>2. j3 \in Seq(R) /\ e5 \in R
      BY <1>2, <1>8
    <3> QED
      <4>1. e5.code \in {e5.code}
        OBVIOUS
      <4> QED
        <5>c. PICK codes : codes = {e5.code}
          OBVIOUS
        <5>1. e5.code \in codes /\ ChangesTo(j3, codes, known, e5.from) /\ e5.code \notin MoveCodes
          BY <2>2, <4>1, <5>c, Zenon
        <5>2. LinkAdded(R, j3, d, e5, codes)
          BY <3>1, <3>2, <5>1, ChangeNoted, Zenon
        <5> QED
          BY <1>j4, <5>2, <5>c, Zenon DEF LinkAdded
  <2> QED
    BY <1>6, <1>8, <2>1, <2>3, Zenon DEF KeepsTheRest
<1>10. j \o ChangesSince(old, new) = j4
  <2>1. b = IF new.overlap /\ ~(Accepts(old) /\ old.overlap) THEN <<e3>> ELSE <<>>
    BY <1>b, <1>o, Zenon
  <2>2. c = IF Accepts(old) /\ old.phase # new.phase THEN <<e4>> ELSE <<>>
    BY <1>c, <1>k, Zenon
  <2>3. d = IF Accepts(old) /\ old.day # new.day THEN <<e5>> ELSE <<>>
    BY <1>d, <1>k, Zenon
  <2>4. ChangesSince(old, new) = Joined(Joined(Joined(a, b), c), d)
    BY <1>a, <1>e3, <1>e4, <1>e5, <2>1, <2>2, <2>3 DEF ChangesSince, Changes, Joined
  <2>5. j \o ChangesSince(old, new) = Joined(j, ChangesSince(old, new))
    BY DEF Joined
  <2>6. Joined(j, Joined(Joined(Joined(a, b), c), d)) = j4
    <3>1. Joined(j, Joined(Joined(Joined(a, b), c), d)) = Joined(Joined(Joined(Joined(j, a), b), c), d)
      <4>1. a \in Seq(R) /\ b \in Seq(R) /\ c \in Seq(R) /\ d \in Seq(R) /\ j \in Seq(R)
        BY <1>1, <1>5, <1>7, <1>8, <1>9
      <4> QED
        BY <4>1, FourJoined
    <3> QED
      BY <1>j1, <1>j2, <1>j3, <1>j4, <3>1, Zenon
  <2> QED
    BY <2>4, <2>5, <2>6, Zenon
<1>11. IsSeq(j4)
  BY <1>9, Zenon DEF IsSeq
<1>12. TRUE = Accepts(new)
  BY DEF Accepts
<1>13. TellsOf(j4, new)
  BY <1>9, <1>11, <1>12, Zenon DEF TellsOf
<1> QED
  BY <1>10, <1>13, Zenon

LEMMA TemporalGoesOn == TemporalInv /\ [TemporalNext]_temporalVars => TemporalInv'
<1> SUFFICES ASSUME TemporalInv, [TemporalNext]_temporalVars
             PROVE  TemporalInv'
  OBVIOUS
<1>1. ASSUME TemporalNext
      PROVE  TemporalInv'
  <2>1. PICK c : RefusedCandle(c) \/ RepeatedCandle(c) \/ NewCandle(c)
    BY <1>1 DEF TemporalNext, TemporalCandle
  <2>2. CASE RefusedCandle(c)
    <3>1. temporalState' = temporalState
      BY <2>2 DEF RefusedCandle
    <3>2. ~Accepts(temporalAnswer')
      BY <2>2 DEF RefusedCandle, Accepts, NoState
    <3>3. TellsOf(journal', temporalState)
      <4> PICK x : x = Noted("EV_TMP_009", "none", "none")
        OBVIOUS
      <4>1. journal' = journal \/ journal' = Append(journal, x)
        BY <2>2 DEF RefusedCandle
      <4>2. CASE journal' = journal
        BY <4>2, Zenon DEF TemporalInv
      <4>3. CASE journal' = Append(journal, x)
        <5>1. Grows(journal, x, Append(journal, x))
          BY OneMoreOf, Zenon DEF TemporalInv, TellsOf
        <5>2. Grows(journal, x, journal')
          BY <4>3, <5>1, Zenon
        <5>3. x.code \notin MoveCodes /\ x.code \notin {"EV_TMP_004"} /\ x.code \notin {"EV_TMP_005"}
          BY DEF MoveCodes, Noted
        <5>4. TellsOf(journal, temporalState)
          BY DEF TemporalInv
        <5> QED
          BY <5>2, <5>3, <5>4, OtherNoted
      <4> QED
        BY <4>1, <4>2, <4>3
    <3> QED
      BY <3>1, <3>2, <3>3, Zenon DEF TemporalInv
  <2>3. CASE RepeatedCandle(c)
    <3>1. temporalState' = temporalState /\ journal' = journal /\ temporalAnswer' = temporalState
      BY <2>3 DEF RepeatedCandle
    <3> QED
      BY <3>1, Zenon DEF TemporalInv
  <2>4. CASE NewCandle(c)
    <3> PICK st : st = StateAt(c)
      OBVIOUS
    <3>1. /\ temporalState' = st /\ temporalAnswer' = st
          /\ journal' = journal \o ChangesSince(temporalState, st)
      BY <2>4, Zenon DEF NewCandle
    <3>2. Accepts(st)
      <4>1. st.quality = TemporalQuality(c)
        BY DEF StateAt
      <4>2. TemporalQuality(c) \in {"Q1", "Q2", "Q3", "Q4"}
        BY DEF TemporalQuality, ProfileQuality
      <4> QED
        BY <4>1, <4>2 DEF Accepts
    <3>3. TellsOf(journal \o ChangesSince(temporalState, st), st)
      BY <3>2, ChangesAreTold DEF TemporalInv
    <3>4. TellsOf(journal', temporalState')
      BY <3>1, <3>3, Zenon
    <3> QED
      BY <3>1, <3>4, Zenon DEF TemporalInv
  <2> QED
    BY <2>1, <2>2, <2>3, <2>4
<1>2. ASSUME UNCHANGED temporalVars
      PROVE  TemporalInv'
  <2>1. journal' = journal /\ temporalState' = temporalState /\ temporalAnswer' = temporalAnswer
    BY <1>2 DEF temporalVars
  <2> QED
    BY <2>1, Zenon DEF TemporalInv
<1> QED
  BY <1>1, <1>2

LEMMA JournalTold == TemporalInv => JournalTellsTheDay
<1> SUFFICES ASSUME TemporalInv PROVE JournalTellsTheDay
  OBVIOUS
<1> DEFINE moves == Told({"EV_TMP_001", "EV_TMP_002"})
           In(window) == \E i \in moves : IsLastOf(i, moves) /\ journal[i].to = window
<1>1. \A codes : Told(codes) = ToldIn(journal, codes)
  BY Zenon DEF Told, ToldIn
<1>2. /\ TellsOf(journal, temporalState)
      /\ Accepts(temporalAnswer) => temporalAnswer = temporalState
  BY DEF TemporalInv
<1>3. AlternateOn(journal, moves)
  BY <1>1, <1>2, Zenon DEF TellsOf, MovesAlternate, MoveCodes
<1>4. Accepts(temporalState) => In(temporalState.window)
  BY <1>1, <1>2, Zenon DEF TellsOf, LastMove, LastOn, MoveCodes
<1>5. ASSUME NEW codes, NEW known, NEW last, ChangesTo(journal, codes, known, last)
      PROVE  Linked(Told(codes), last)
  <2>1. ChangesOn(journal, Told(codes), known, last)
    BY <1>1, <1>5, Zenon DEF ChangesTo
  <2> QED
    BY <2>1, Zenon DEF ChangesOn, Linked
<1>6. ASSUME NEW row \in TemporalRows(temporalAnswer)
      PROVE  In(row.window)
  <2>1. Accepts(temporalAnswer)
    BY <1>6 DEF TemporalRows, CodesFired
  <2>2. row.window = temporalAnswer.window
    BY <1>6 DEF TemporalRows
  <2> QED
    BY <1>2, <1>4, <2>1, <2>2, Zenon
<1>7. Linked(Told({"EV_TMP_004"}), temporalState.phase) /\ Linked(Told({"EV_TMP_005"}), temporalState.day)
  BY <1>2, <1>5, Zenon DEF TellsOf
<1>8. \A i \in moves :
        /\ (\A k \in moves : i <= k) => journal[i].code = "EV_TMP_001"
        /\ \A p \in moves : Follows(i, p, moves) =>
             /\ journal[i].code # journal[p].code
             /\ journal[i].code = "EV_TMP_002" => journal[i].from = journal[p].to
  BY <1>3, Zenon DEF AlternateOn
<1> QED
  BY <1>4, <1>6, <1>7, <1>8, Zenon DEF JournalTellsTheDay

\* The journal of E12 always tells the day of the last accepted candle.
THEOREM JournalIsTrue == TemporalSpec => []JournalTellsTheDay
<1>1. TemporalInit => TemporalInv
  BY TemporalStarts
<1>2. TemporalInv /\ [TemporalNext]_temporalVars => TemporalInv'
  BY TemporalGoesOn
<1>3. TemporalInv => JournalTellsTheDay
  BY JournalTold
<1> QED
  BY <1>1, <1>2, <1>3, PTL DEF TemporalSpec

-----------------------------------------------------------------------------
\* Whatever the tapes of E06, E07, E11 and E12 hold, blocks are conserved,
\* verdicts form a chain, a label is worth what its feed makes of it and the
\* journal tells the day of the last accepted candle.
THEOREM TapesStayRight ==
  BlockSpec /\ RtmSpec /\ RegimeSpec /\ TemporalSpec => []TapesAreReadRightly
<1>1. BlocksAreConserved /\ VerdictsFormAChain /\ LabelsFollowTheirFeed /\ JournalTellsTheDay
      => TapesAreReadRightly
  BY DEF TapesAreReadRightly
<1> QED
  BY <1>1, BlocksStayConserved, VerdictsAreChains, RegimesAreSettled, JournalIsTrue, PTL
=============================================================================
