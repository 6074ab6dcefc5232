---------------------------- MODULE DecisionProofs ----------------------------
(***************************************************************************)
(* Proofs about what a decision is made from: the disagreement the fabric  *)
(* measures, the trend of the uncertainty, the samples the classifier is   *)
(* trained on, the account a plan is admitted on, the timeline of the      *)
(* bars, and the checks of the plan bridge.                                *)
(***************************************************************************)
EXTENDS Fabric, ContextProducer, Training, PaperAccount, FeatureTimeline, PlanBridge,
        SequenceTheorems, FiniteSetTheorems, WellFoundedInduction, TLAPS

-----------------------------------------------------------------------------
(* Sums over finite sets.  Total is a fold along arbitrary choices; these  *)
(* lemmas show that it does not depend on them.                            *)

\* A set of naturals that holds of 0, and of n + 1 when of n, is all of them.
LEMMA EveryNatural ==
  ASSUME NEW S, 0 \in S, \A n \in Nat : n \in S => n + 1 \in S
  PROVE  Nat \subseteq S
<1> DEFINE missing == Nat \ S
<1> SUFFICES ASSUME missing # {} PROVE FALSE
  OBVIOUS
<1>1. PICK x \in missing : \A y \in missing : ~(<<y, x>> \in OpToRel(<, Nat))
  BY NatLessThanWellFounded, WFMin
<1>0. x \in Nat /\ x \notin S /\ x # 0
  OBVIOUS
<1>2. x - 1 \in Nat /\ x - 1 < x /\ (x - 1) + 1 = x
  BY <1>0
<1>3. <<x - 1, x>> \in OpToRel(<, Nat)
  BY <1>0, <1>2 DEF OpToRel
<1>4. x - 1 \in S
  BY <1>1, <1>2, <1>3
<1> QED
  BY <1>0, <1>2, <1>4, Zenon

Pick(s) == CHOOSE x \in s : TRUE

\* h holds the sums of f along the choices, for a family of sets.
SumsOn(F, f, h) ==
  h = [s \in F |-> IF s = {} THEN 0 ELSE f[Pick(s)] + h[s \ {Pick(s)}]]

Small(S, n) == {s \in SUBSET S : Cardinality(s) <= n}

LEMMA SmallerSets ==
  ASSUME NEW S, IsFiniteSet(S), NEW s \in SUBSET S, s # {}
  PROVE  /\ Pick(s) \in s /\ Pick(s) \in S
         /\ IsFiniteSet(s) /\ Cardinality(s) \in Nat /\ s \ {Pick(s)} \in SUBSET S
         /\ IsFiniteSet(s \ {Pick(s)})
         /\ Cardinality(s \ {Pick(s)}) = Cardinality(s) - 1
         /\ Cardinality(s) > 0
<1>1. Pick(s) \in s
  BY DEF Pick
<1>2. IsFiniteSet(s) /\ Cardinality(s) \in Nat
  BY FS_Subset, FS_CardinalityType
<1>3. Cardinality(s) # 0
  BY <1>2, FS_EmptySet
<1> QED
  BY <1>1, <1>2, <1>3, FS_RemoveElement

LEMMA SumsExist ==
  ASSUME NEW S, IsFiniteSet(S), NEW f
  PROVE  \E h : SumsOn(SUBSET S, f, h)
<1> DEFINE N == {n \in Nat : \E h : SumsOn(Small(S, n), f, h)}
<1>1. 0 \in N
  <2>1. Small(S, 0) = {{}}
    <3>1. ASSUME NEW s \in SUBSET S, Cardinality(s) <= 0, s # {}
          PROVE  FALSE
      <4>1. Cardinality(s) \in Nat /\ Cardinality(s) > 0
        BY <3>1, SmallerSets
      <4> QED
        BY <3>1, <4>1
    <3>2. Cardinality({}) = 0
      BY FS_EmptySet
    <3> QED
      BY <3>1, <3>2 DEF Small
  <2>2. SumsOn({{}}, f, [s \in {{}} |-> 0])
    BY DEF SumsOn
  <2> QED
    BY <2>1, <2>2
<1>2. ASSUME NEW n \in Nat, n \in N
      PROVE  n + 1 \in N
  <2>1. PICK g : SumsOn(Small(S, n), f, g)
    BY <1>2
  <2> DEFINE h == [s \in Small(S, n + 1) |->
                     IF s = {} THEN 0 ELSE f[Pick(s)] + g[s \ {Pick(s)}]]
  <2>2. \A s \in Small(S, n) : s \in Small(S, n + 1)
    <3>1. \A s \in SUBSET S : Cardinality(s) \in Nat
      BY FS_Subset, FS_CardinalityType
    <3> QED
      BY <3>1 DEF Small
  <2>3. ASSUME NEW s \in Small(S, n)
        PROVE  g[s] = IF s = {} THEN 0 ELSE f[Pick(s)] + g[s \ {Pick(s)}]
    BY <2>1 DEF SumsOn
  <2>4. \A s \in Small(S, n) : h[s] = g[s]
    BY <2>2, <2>3
  <2>5. ASSUME NEW s \in Small(S, n + 1), s # {}
        PROVE  s \ {Pick(s)} \in Small(S, n)
    <3>1. s \in SUBSET S /\ Cardinality(s) <= n + 1
      BY DEF Small
    <3>2. /\ s \ {Pick(s)} \in SUBSET S /\ Cardinality(s) \in Nat
          /\ Cardinality(s \ {Pick(s)}) = Cardinality(s) - 1
      BY <2>5, <3>1, SmallerSets
    <3> QED
      BY <3>1, <3>2 DEF Small
  <2>6. ASSUME NEW s \in Small(S, n + 1)
        PROVE  h[s] = IF s = {} THEN 0 ELSE f[Pick(s)] + h[s \ {Pick(s)}]
    BY <2>4, <2>5
  <2>7. h = [s \in Small(S, n + 1) |-> h[s]]
    OBVIOUS
  <2> HIDE DEF h
  <2>8. SumsOn(Small(S, n + 1), f, h)
    BY <2>6, <2>7 DEF SumsOn
  <2> QED
    BY <2>8
<1>3. Nat \subseteq N
  <2> HIDE DEF N
  <2> QED
    BY <1>1, <1>2, EveryNatural
<1>4. Cardinality(S) \in Nat /\ Small(S, Cardinality(S)) = SUBSET S
  BY FS_Subset, FS_CardinalityType DEF Small
<1> QED
  BY <1>3, <1>4

\* What a fold takes from its choices it takes from a table of sums.
LEMMA TotalIsOnTable ==
  ASSUME NEW S, IsFiniteSet(S), NEW f
  PROVE  \E h : SumsOn(SUBSET S, f, h) /\ Total(f, S) = h[S]
<1> DEFINE body(h) == [s \in SUBSET S |-> IF s = {} THEN 0
                                          ELSE f[CHOOSE x \in s : TRUE] + h[s \ {CHOOSE x \in s : TRUE}]]
           iter == CHOOSE h : h = body(h)
<1>1. \E h : h = body(h)
  <2>1. PICK h : SumsOn(SUBSET S, f, h)
    BY SumsExist
  <2>2. h = body(h)
    BY <2>1 DEF SumsOn, Pick
  <2> QED
    BY <2>2, Zenon
<1>2. iter = body(iter)
  BY <1>1
<1>3. Total(f, S) = iter[S]
  BY DEF Total, MapThenSumSet, MapThenFoldSet
<1>4. SumsOn(SUBSET S, f, iter)
  <2> HIDE DEF iter
  <2> QED
    BY <1>2 DEF SumsOn, Pick
<1> QED
  BY <1>3, <1>4

\* A family of subsets that holds of the empty one, and of a set when of all
\* that lack one of its elements, holds of every subset.
LEMMA EverySubset ==
  ASSUME NEW S, IsFiniteSet(S), NEW F, {} \in F,
         \A T \in SUBSET S : T # {} /\ (\A x \in T : T \ {x} \in F) => T \in F
  PROVE  \A T \in SUBSET S : T \in F
<1> DEFINE N == {n \in Nat : \A T \in SUBSET S : Cardinality(T) <= n => T \in F}
<1>1. \A T \in SUBSET S : IsFiniteSet(T) /\ Cardinality(T) \in Nat
  BY FS_Subset, FS_CardinalityType
<1>2. 0 \in N
  <2>1. ASSUME NEW T \in SUBSET S, Cardinality(T) <= 0
        PROVE  T \in F
    <3>1. Cardinality(T) = 0
      BY <1>1, <2>1
    <3>2. T = {}
      BY <1>1, <3>1, FS_EmptySet
    <3> QED
      BY <3>2
  <2> QED
    BY <2>1
<1>3. ASSUME NEW n \in Nat, n \in N
      PROVE  n + 1 \in N
  <2>1. ASSUME NEW T \in SUBSET S, Cardinality(T) <= n + 1
        PROVE  T \in F
    <3>1. ASSUME NEW x \in T
          PROVE  T \ {x} \in F
      <4>1. T \ {x} \in SUBSET S /\ Cardinality(T \ {x}) = Cardinality(T) - 1
        BY <1>1, FS_RemoveElement
      <4>2. Cardinality(T \ {x}) <= n
        BY <1>1, <2>1, <4>1
      <4> QED
        BY <1>3, <4>1, <4>2
    <3> QED
      BY <2>1, <3>1
  <2> QED
    BY <2>1
<1>4. Nat \subseteq N
  <2> HIDE DEF N
  <2> QED
    BY <1>2, <1>3, EveryNatural
<1> QED
  BY <1>1, <1>4

\* Two tables agree where both have a sum.
LEMMA TablesAgree ==
  ASSUME NEW S, IsFiniteSet(S), NEW f, NEW h, SumsOn(SUBSET S, f, h),
         NEW T \in SUBSET S, NEW k, SumsOn(SUBSET T, f, k)
  PROVE  h[T] = k[T]
<1> DEFINE F == {U \in SUBSET T : h[U] = k[U]}
<1>1. /\ \A s \in SUBSET S : h[s] = IF s = {} THEN 0 ELSE f[Pick(s)] + h[s \ {Pick(s)}]
      /\ \A s \in SUBSET T : k[s] = IF s = {} THEN 0 ELSE f[Pick(s)] + k[s \ {Pick(s)}]
  BY DEF SumsOn
<1>2. {} \in F
  BY <1>1
<1>3. ASSUME NEW U \in SUBSET T, U # {}, \A x \in U : U \ {x} \in F
      PROVE  U \in F
  <2>1. Pick(U) \in U
    BY <1>3 DEF Pick
  <2>2. h[U \ {Pick(U)}] = k[U \ {Pick(U)}]
    BY <1>3, <2>1
  <2>3. U \in SUBSET S
    OBVIOUS
  <2>4. /\ h[U] = f[Pick(U)] + h[U \ {Pick(U)}]
        /\ k[U] = f[Pick(U)] + k[U \ {Pick(U)}]
    BY <1>1, <1>3, <2>3
  <2> QED
    BY <2>2, <2>4
<1>4. IsFiniteSet(T)
  BY FS_Subset
<1>5. T \in F
  <2> HIDE DEF F
  <2>1. \A U \in SUBSET T : U \in F
    BY <1>2, <1>3, <1>4, EverySubset
  <2> QED
    BY <2>1
<1> QED
  BY <1>5

LEMMA TotalOfNone ==
  ASSUME NEW f
  PROVE  Total(f, {}) = 0
<1>1. PICK h : SumsOn(SUBSET {}, f, h) /\ Total(f, {}) = h[{}]
  BY FS_EmptySet, TotalIsOnTable
<1> QED
  BY <1>1 DEF SumsOn

LEMMA TotalPicks ==
  ASSUME NEW S, IsFiniteSet(S), S # {}, NEW f
  PROVE  Total(f, S) = f[Pick(S)] + Total(f, S \ {Pick(S)})
<1>1. PICK h : SumsOn(SUBSET S, f, h) /\ Total(f, S) = h[S]
  BY TotalIsOnTable
<1>2. PICK T : T = S \ {Pick(S)}
  OBVIOUS
<1>3. T \in SUBSET S /\ IsFiniteSet(T)
  BY <1>2, FS_Subset
<1>4. PICK k : SumsOn(SUBSET T, f, k) /\ Total(f, T) = k[T]
  BY <1>3, TotalIsOnTable
<1>5. h[T] = k[T]
  <2>1. SumsOn(SUBSET S, f, h) /\ SumsOn(SUBSET T, f, k)
    BY <1>1, <1>4
  <2> QED
    BY <1>3, <2>1, TablesAgree, SMTT(20)
<1>6. h[S] = f[Pick(S)] + h[T]
  BY <1>1, <1>2 DEF SumsOn
<1> QED
  BY <1>1, <1>2, <1>4, <1>5, <1>6

LEMMA TotalIsInt ==
  ASSUME NEW S, IsFiniteSet(S), NEW f, \A x \in S : f[x] \in Int
  PROVE  \A T \in SUBSET S : Total(f, T) \in Int
<1> DEFINE F == {T \in SUBSET S : Total(f, T) \in Int}
<1>1. {} \in F
  BY TotalOfNone
<1>2. ASSUME NEW T \in SUBSET S, T # {}, \A x \in T : T \ {x} \in F
      PROVE  T \in F
  <2>1. Pick(T) \in T /\ IsFiniteSet(T)
    BY <1>2, SmallerSets
  <2>2. Total(f, T) = f[Pick(T)] + Total(f, T \ {Pick(T)})
    BY <1>2, <2>1, TotalPicks
  <2>3. Total(f, T \ {Pick(T)}) \in Int /\ f[Pick(T)] \in Int
    BY <1>2, <2>1
  <2> QED
    BY <2>2, <2>3
<1>3. \A T \in SUBSET S : T \in F
  <2> HIDE DEF F
  <2> QED
    BY <1>1, <1>2, EverySubset
<1> QED
  BY <1>3

\* Any element may be taken out of a sum.
LEMMA TotalTakesAny ==
  ASSUME NEW S, IsFiniteSet(S), NEW f, \A x \in S : f[x] \in Int
  PROVE  \A x \in S : Total(f, S) = f[x] + Total(f, S \ {x})
<1> DEFINE F == {T \in SUBSET S : \A x \in T : Total(f, T) = f[x] + Total(f, T \ {x})}
<1>1. {} \in F
  OBVIOUS
<1>2. ASSUME NEW T \in SUBSET S, T # {}, \A x \in T : T \ {x} \in F
      PROVE  T \in F
  <2>0. PICK p : p = Pick(T)
    OBVIOUS
  <2>1. p \in T /\ IsFiniteSet(T)
    BY <1>2, <2>0, SmallerSets
  <2>2. Total(f, T) = f[p] + Total(f, T \ {p})
    BY <1>2, <2>0, <2>1, TotalPicks
  <2>3. ASSUME NEW x \in T, x # p
        PROVE  Total(f, T) = f[x] + Total(f, T \ {x})
    <3>1. x \in T \ {p} /\ p \in T \ {x} /\ (T \ {p}) \ {x} = (T \ {x}) \ {p}
      BY <2>1, <2>3
    <3>2. PICK rest : rest = Total(f, (T \ {x}) \ {p})
      OBVIOUS
    <3>3. Total(f, T \ {p}) = f[x] + rest
      BY <1>2, <2>1, <3>1, <3>2
    <3>4. Total(f, T \ {x}) = f[p] + rest
      BY <1>2, <3>1, <3>2
    <3>5. f[x] \in Int /\ f[p] \in Int /\ rest \in Int
      BY <2>1, <3>2, TotalIsInt
    <3> QED
      BY <2>2, <3>3, <3>4, <3>5
  <2> QED
    BY <2>2, <2>3
<1>3. \A T \in SUBSET S : T \in F
  <2> HIDE DEF F
  <2> QED
    BY <1>1, <1>2, EverySubset
<1> QED
  BY <1>3

\* f can be summed over S, and then its sums are taken apart by elements.
Summable(f, S) == IsFiniteSet(S) /\ \A x \in S : f[x] \in Int

Adds(f, S) ==
  \A T \in SUBSET S :
    /\ Total(f, T) \in Int
    /\ \A x \in T : /\ T \ {x} \in SUBSET S /\ Total(f, T \ {x}) \in Int /\ f[x] \in Int
                   /\ Total(f, T) = f[x] + Total(f, T \ {x})

LEMMA TotalByElement ==
  ASSUME NEW S, NEW f, Summable(f, S)
  PROVE  Adds(f, S)
<1> SUFFICES ASSUME NEW T \in SUBSET S
             PROVE  /\ Total(f, T) \in Int
                    /\ \A x \in T : /\ Total(f, T \ {x}) \in Int /\ f[x] \in Int
                                   /\ Total(f, T) = f[x] + Total(f, T \ {x})
  BY DEF Adds
<1>1. IsFiniteSet(T) /\ IsFiniteSet(S) /\ (\A y \in S : f[y] \in Int) /\ \A y \in T : f[y] \in Int
  BY FS_Subset DEF Summable
<1>2. \A U \in SUBSET S : Total(f, U) \in Int
  BY <1>1, TotalIsInt
<1> QED
  BY <1>1, <1>2, TotalTakesAny

\* Terms that are not larger have no larger sum; equal terms have equal sums.
LEMMA TotalGrows ==
  ASSUME NEW S, NEW f, Summable(f, S), NEW g, Summable(g, S), \A x \in S : f[x] <= g[x]
  PROVE  \A T \in SUBSET S : Total(f, T) <= Total(g, T)
<1> DEFINE F == {T \in SUBSET S : Total(f, T) <= Total(g, T)}
<1>1. {} \in F
  BY TotalOfNone
<1>2. ASSUME NEW T \in SUBSET S, T # {}, \A x \in T : T \ {x} \in F
      PROVE  T \in F
  <2>1. PICK x \in T : TRUE
    BY <1>2
  <2>2. /\ Total(f, T) = f[x] + Total(f, T \ {x}) /\ Total(g, T) = g[x] + Total(g, T \ {x})
        /\ Total(f, T \ {x}) \in Int /\ Total(g, T \ {x}) \in Int
        /\ f[x] \in Int /\ g[x] \in Int
    <3>1. Adds(f, S) /\ Adds(g, S)
      BY TotalByElement
    <3> QED
      BY <2>1, <3>1 DEF Adds
  <2>3. f[x] <= g[x] /\ Total(f, T \ {x}) <= Total(g, T \ {x})
    BY <1>2
  <2> QED
    BY <2>2, <2>3
<1>3. \A T \in SUBSET S : T \in F
  <2> HIDE DEF F
  <2> QED
    BY <1>1, <1>2, EverySubset DEF Summable
<1> QED
  BY <1>3

\* A sum of two parts.
SplitsAt(f, S, A) ==
  \A T \in SUBSET S : Total(f, T) = Total(f, T \cap A) + Total(f, T \ A)

LEMMA TotalOfParts ==
  ASSUME NEW S, NEW f, Summable(f, S), NEW A \in SUBSET S
  PROVE  SplitsAt(f, S, A)
<1> DEFINE F == {T \in SUBSET S : Total(f, T) = Total(f, T \cap A) + Total(f, T \ A)}
<1>1. {} \in F
  <2>1. {} \cap A = {} /\ {} \ A = {}
    OBVIOUS
  <2> QED
    BY <2>1, TotalOfNone
<1>2. ASSUME NEW T \in SUBSET S, T # {}, \A x \in T : T \ {x} \in F
      PROVE  T \in F
  <2>0. Adds(f, S)
    BY TotalByElement
  <2>1. PICK x \in T : TRUE
    BY <1>2
  <2>2. PICK in : in = Total(f, (T \ {x}) \cap A)
    OBVIOUS
  <2>3. PICK out : out = Total(f, (T \ {x}) \ A)
    OBVIOUS
  <2>4. (T \ {x}) \cap A \in SUBSET S /\ (T \ {x}) \ A \in SUBSET S
    OBVIOUS
  <2>5. in \in Int /\ out \in Int /\ f[x] \in Int
    BY <2>0, <2>1, <2>2, <2>3, <2>4 DEF Adds
  <2>6. Total(f, T) = f[x] + (in + out)
    <3>1. Total(f, T \ {x}) = in + out
      BY <1>2, <2>1, <2>2, <2>3
    <3> QED
      BY <2>0, <2>1, <3>1 DEF Adds
  <2>7. CASE x \in A
    <3>1. T \ A = (T \ {x}) \ A /\ (T \cap A) \ {x} = (T \ {x}) \cap A
          /\ T \cap A \in SUBSET S /\ x \in T \cap A
      BY <2>1, <2>7
    <3>2. Total(f, T \cap A) = f[x] + in /\ Total(f, T \ A) = out
      BY <2>0, <2>2, <2>3, <3>1 DEF Adds
    <3> QED
      BY <2>5, <2>6, <3>2
  <2>8. CASE x \notin A
    <3>1. T \cap A = (T \ {x}) \cap A /\ (T \ A) \ {x} = (T \ {x}) \ A
          /\ T \ A \in SUBSET S /\ x \in T \ A
      BY <2>1, <2>8
    <3>2. Total(f, T \ A) = f[x] + out /\ Total(f, T \cap A) = in
      BY <2>0, <2>2, <2>3, <3>1 DEF Adds
    <3> QED
      BY <2>5, <2>6, <3>2
  <2> QED
    BY <2>7, <2>8
<1>3. \A T \in SUBSET S : T \in F
  <2> HIDE DEF F
  <2> QED
    BY <1>1, <1>2, EverySubset DEF Summable
<1> QED
  BY <1>3 DEF SplitsAt

\* Equal terms: their sum is their number times the term.
LEMMA TotalOfEqual ==
  ASSUME NEW S, NEW f, IsFiniteSet(S), NEW v \in Int, \A x \in S : f[x] = v
  PROVE  \A T \in SUBSET S : Total(f, T) = Cardinality(T) * v
<1> DEFINE F == {T \in SUBSET S : Total(f, T) = Cardinality(T) * v}
<1>0. Summable(f, S)
  BY DEF Summable
<1>1. {} \in F
  BY TotalOfNone, FS_EmptySet
<1>2. ASSUME NEW T \in SUBSET S, T # {}, \A x \in T : T \ {x} \in F
      PROVE  T \in F
  <2>1. PICK x \in T : TRUE
    BY <1>2
  <2>2. Total(f, T) = v + Total(f, T \ {x})
    BY <1>0, <2>1, TotalByElement DEF Adds
  <2>3. Total(f, T \ {x}) = Cardinality(T \ {x}) * v
    BY <1>2
  <2>4. IsFiniteSet(T) /\ Cardinality(T) \in Nat
    BY FS_Subset, FS_CardinalityType
  <2>5. Cardinality(T \ {x}) = Cardinality(T) - 1
    BY <2>4, FS_RemoveElement
  <2>6. PICK n \in Nat : n = Cardinality(T)
    BY <2>4
  <2>7. v + (n - 1) * v = n * v
    OBVIOUS
  <2> QED
    BY <2>2, <2>3, <2>5, <2>6, <2>7
<1>3. \A T \in SUBSET S : T \in F
  <2> HIDE DEF F
  <2> QED
    BY <1>1, <1>2, EverySubset
<1> QED
  BY <1>3

LEMMA TotalOfZeros ==
  ASSUME NEW S, NEW f, IsFiniteSet(S), \A x \in S : f[x] = 0
  PROVE  Total(f, S) = 0
<1> DEFINE F == {T \in SUBSET S : Total(f, T) = 0}
<1>1. {} \in F
  BY TotalOfNone
<1>2. ASSUME NEW T \in SUBSET S, T # {}, \A x \in T : T \ {x} \in F
      PROVE  T \in F
  <2>1. Pick(T) \in T /\ IsFiniteSet(T)
    BY <1>2, SmallerSets
  <2>2. Total(f, T) = f[Pick(T)] + Total(f, T \ {Pick(T)})
    BY <1>2, <2>1, TotalPicks
  <2>3. Total(f, T \ {Pick(T)}) = 0 /\ f[Pick(T)] = 0
    BY <1>2, <2>1
  <2> QED
    BY <2>2, <2>3
<1>3. \A T \in SUBSET S : T \in F
  <2> HIDE DEF F
  <2> QED
    BY <1>1, <1>2, EverySubset
<1> QED
  BY <1>3

LEMMA TotalOfTwo ==
  ASSUME NEW S, NEW f, Summable(f, S), NEW g, Summable(g, S),
         NEW h, \A x \in S : h[x] = f[x] + g[x]
  PROVE  Summable(h, S) /\ \A T \in SUBSET S : Total(h, T) = Total(f, T) + Total(g, T)
<1> DEFINE F == {T \in SUBSET S : Total(h, T) = Total(f, T) + Total(g, T)}
<1>0. Summable(h, S)
  BY DEF Summable
<1>1. {} \in F
  BY TotalOfNone
<1>2. ASSUME NEW T \in SUBSET S, T # {}, \A x \in T : T \ {x} \in F
      PROVE  T \in F
  <2>0. Adds(f, S) /\ Adds(g, S) /\ Adds(h, S)
    BY <1>0, TotalByElement
  <2>1. PICK x \in T : TRUE
    BY <1>2
  <2>2. /\ Total(f, T) = f[x] + Total(f, T \ {x}) /\ Total(g, T) = g[x] + Total(g, T \ {x})
        /\ Total(h, T) = h[x] + Total(h, T \ {x})
        /\ Total(f, T \ {x}) \in Int /\ Total(g, T \ {x}) \in Int
        /\ f[x] \in Int /\ g[x] \in Int
    BY <2>0, <2>1 DEF Adds
  <2>3. Total(h, T \ {x}) = Total(f, T \ {x}) + Total(g, T \ {x}) /\ h[x] = f[x] + g[x]
    BY <1>2, <2>1
  <2> QED
    BY <2>2, <2>3
<1>3. \A T \in SUBSET S : T \in F
  <2> HIDE DEF F
  <2> QED
    BY <1>1, <1>2, EverySubset DEF Summable
<1> QED
  BY <1>0, <1>3

\* What classes of S sum up to bounds what S sums up to.
LEMMA TotalByClasses ==
  ASSUME NEW S, NEW f, Summable(f, S), NEW key, NEW w,
         \A n \in {key[x] : x \in S} :
            w[n] \in Int /\ Total(f, {x \in S : key[x] = n}) <= w[n]
  PROVE  Total(f, S) <= Total(w, {key[x] : x \in S})
<1> DEFINE Keys == {key[x] : x \in S}
           Class(N) == {x \in S : key[x] \in N}
           F == {N \in SUBSET Keys : Total(f, Class(N)) <= Total(w, N)}
<1>1. IsFiniteSet(Keys)
  <2>1. [x \in S |-> key[x]] \in Surjection(S, Keys)
    BY DEF Surjection
  <2> QED
    BY <2>1, FS_Surjection DEF Summable
<1>2. Summable(w, Keys)
  BY <1>1 DEF Summable
<1>3. Adds(f, S) /\ Adds(w, Keys)
  BY <1>2, TotalByElement
<1>4. {} \in F
  <2>1. Class({}) = {}
    OBVIOUS
  <2> QED
    BY <2>1, TotalOfNone
<1>5. ASSUME NEW N \in SUBSET Keys, N # {}, \A n \in N : N \ {n} \in F
      PROVE  N \in F
  <2>1. PICK n \in N : TRUE
    BY <1>5
  <2>2. PICK A : A = {x \in S : key[x] = n}
    OBVIOUS
  <2>3. /\ A \in SUBSET S /\ Class(N) \in SUBSET S /\ Class(N \ {n}) \in SUBSET S
        /\ Class(N) \cap A = A /\ Class(N) \ A = Class(N \ {n})
    BY <2>1, <2>2
  <2>4. Total(f, Class(N)) = Total(f, Class(N) \cap A) + Total(f, Class(N) \ A)
    <3>1. SplitsAt(f, S, A)
      BY <2>3, TotalOfParts
    <3>2. PICK C \in SUBSET S : C = Class(N)
      BY <2>3
    <3>3. Total(f, C) = Total(f, C \cap A) + Total(f, C \ A)
      BY <3>1 DEF SplitsAt
    <3> QED
      BY <3>2, <3>3
  <2>5. Total(f, A) <= w[n] /\ w[n] \in Int
    BY <2>1, <2>2
  <2>6. Total(f, Class(N \ {n})) <= Total(w, N \ {n})
    BY <1>5, <2>1
  <2>7. /\ Total(w, N) = w[n] + Total(w, N \ {n}) /\ Total(w, N \ {n}) \in Int
        /\ Total(f, A) \in Int /\ Total(f, Class(N \ {n})) \in Int
    <3> HIDE DEF Class, Keys
    <3> QED
      BY <1>3, <2>1, <2>3 DEF Adds
  <2>8. Total(f, Class(N)) = Total(f, A) + Total(f, Class(N \ {n}))
    <3> HIDE DEF Class
    <3> QED
      BY <2>3, <2>4
  <2>9. Total(f, Class(N)) <= Total(w, N)
    <3> HIDE DEF Class
    <3> QED
      BY <2>5, <2>6, <2>7, <2>8
  <2> QED
    BY <2>9
<1>6. \A N \in SUBSET Keys : N \in F
  <2> HIDE DEF F, Keys
  <2> QED
    BY <1>1, <1>4, <1>5, EverySubset
<1>7. Class(Keys) = S /\ Keys \in SUBSET Keys
  OBVIOUS
<1>8. Total(f, Class(Keys)) <= Total(w, Keys)
  <2> HIDE DEF Class, Keys
  <2> QED
    BY <1>6, <1>7
<1> QED
  BY <1>7, <1>8

-----------------------------------------------------------------------------
(* The fabric.                                                             *)

LEMMA Division ==
  ASSUME NEW n \in Nat, NEW k \in Nat \ {0}
  PROVE  n \div k \in Nat /\ k * (n \div k) <= n
<1>1. n \div k \in Int /\ k * (n \div k) <= n /\ n < k * (n \div k) + k
  OBVIOUS
<1>2. ASSUME NEW q \in Int, k * q <= n, n < k * q + k
      PROVE  q \in Nat
  <2>1. ASSUME q < 0 PROVE FALSE
    <3>1. k * q + k <= 0
      <4>1. k * (q + 1) <= 0
        BY <2>1
      <4>2. k * (q + 1) = k * q + k
        OBVIOUS
      <4> QED
        BY <4>1, <4>2
    <3> QED
      BY <1>2, <3>1
  <2> QED
    BY <2>1
<1> QED
  BY <1>1, <1>2

Comrades(n, ms) == {e \in ms : Voice[e].engine = n}

LEMMA VoteIsShared ==
  ASSUME NEW ms \in SUBSET Evidence, NEW e \in ms
  PROVE  LET k == Cardinality(Comrades(Voice[e].engine, ms))
         IN  /\ Vote(e, ms) \in Nat /\ k \in Nat
             /\ k * Vote(e, ms) <= EngineWeight[Voice[e].engine] * Share
<1>1. PICK k : k = Cardinality(Comrades(Voice[e].engine, ms))
  OBVIOUS
<1>2. PICK n : n = EngineWeight[Voice[e].engine] * Share
  OBVIOUS
<1>3. EngineWeight[Voice[e].engine] \in Nat
  BY FabricAssumption
<1>4. n \in Nat
  BY <1>2, <1>3 DEF Share
<1>5. IsFiniteSet(Comrades(Voice[e].engine, ms)) /\ k \in Nat
  <2>1. Comrades(Voice[e].engine, ms) \in SUBSET Evidence
    BY DEF Comrades
  <2> QED
    BY <1>1, <2>1, FabricAssumption, FS_Subset, FS_CardinalityType
<1>6. k # 0
  <2>1. e \in Comrades(Voice[e].engine, ms)
    BY DEF Comrades
  <2> QED
    BY <1>1, <1>5, <2>1, FS_EmptySet
<1>7. Vote(e, ms) = n \div k
  BY <1>1, <1>2 DEF Vote, Comrades
<1>8. n \div k \in Nat /\ k * (n \div k) <= n
  BY <1>4, <1>5, <1>6, Division
<1> QED
  BY <1>1, <1>2, <1>5, <1>7, <1>8

Votes(ms) == [e \in ms |-> Vote(e, ms)]

LEMMA VotesSummable ==
  ASSUME NEW ms \in SUBSET Evidence
  PROVE  /\ IsFiniteSet(ms)
         /\ Summable(Votes(ms), ms)
         /\ \A e \in ms : Votes(ms)[e] = Vote(e, ms) /\ Vote(e, ms) \in Nat
<1>1. IsFiniteSet(ms)
  BY FabricAssumption, FS_Subset
<1>2. \A e \in ms : Votes(ms)[e] = Vote(e, ms) /\ Vote(e, ms) \in Nat
  BY VoteIsShared DEF Votes
<1> QED
  BY <1>1, <1>2 DEF Summable

\* All the votes together are at most the weight present.
LEMMA VotesFitThePresent ==
  ASSUME NEW ms \in SUBSET Evidence
  PROVE  Total(Votes(ms), ms) <= Present(ms)
<1> DEFINE key == [e \in ms |-> Voice[e].engine]
           w == [n \in EnginesOf(ms) |-> EngineWeight[n] * Share]
<1>1. {key[e] : e \in ms} = EnginesOf(ms)
  BY DEF EnginesOf
<1>2. ASSUME NEW n \in EnginesOf(ms)
      PROVE  w[n] \in Int /\ Total(Votes(ms), {e \in ms : key[e] = n}) <= w[n]
  <2>1. PICK e \in ms : Voice[e].engine = n
    BY DEF EnginesOf
  <2>2. {x \in ms : key[x] = n} = Comrades(n, ms)
    BY DEF Comrades
  <2>3. PICK k : k = Cardinality(Comrades(n, ms))
    OBVIOUS
  <2>4. PICK v : v = Vote(e, ms)
    OBVIOUS
  <2>5. v \in Nat /\ k \in Nat /\ k * v <= w[n]
    BY <2>1, <2>3, <2>4, VoteIsShared
  <2>6. \A x \in Comrades(n, ms) : Votes(ms)[x] = v
    BY <2>1, <2>4 DEF Votes, Vote, Comrades
  <2>7. IsFiniteSet(Comrades(n, ms))
    BY FabricAssumption, FS_Subset DEF Comrades
  <2>8. Total(Votes(ms), Comrades(n, ms)) = k * v
    BY <2>3, <2>5, <2>6, <2>7, TotalOfEqual
  <2>9. EngineWeight[n] \in Nat
    BY <2>1, FabricAssumption
  <2>10. w[n] \in Int
    BY <2>9 DEF Share
  <2> HIDE DEF key, w
  <2> QED
    BY <2>2, <2>5, <2>8, <2>10
<1>3. Summable(Votes(ms), ms)
  BY VotesSummable
<1>4. Total(Votes(ms), ms) <= Total(w, EnginesOf(ms))
  <2> HIDE DEF key, w
  <2> QED
    BY <1>1, <1>2, <1>3, TotalByClasses
<1> QED
  BY <1>4 DEF Present

Signed(ms) == [e \in ms |-> Voice[e].dir * Vote(e, ms)]
Negated(ms) == [e \in ms |-> -(Voice[e].dir * Vote(e, ms))]
Dissent(ms) == [e \in ms |-> IF Opposes(e, ms) THEN Vote(e, ms) ELSE 0]
\* Twice the dissent, less the votes.
Gap(ms) == [e \in ms |-> IF Opposes(e, ms) THEN Vote(e, ms) ELSE -Vote(e, ms)]

LEMMA VoteTerms ==
  ASSUME NEW ms \in SUBSET Evidence, NEW e \in ms
  PROVE  \E v \in Nat, d \in {-1, 0, 1} :
            /\ Votes(ms)[e] = v /\ Voice[e].dir = d
            /\ Signed(ms)[e] = d * v /\ Negated(ms)[e] = -(d * v)
            /\ Dissent(ms)[e] = (IF Opposes(e, ms) THEN v ELSE 0)
            /\ Gap(ms)[e] = (IF Opposes(e, ms) THEN v ELSE -v)
<1>1. PICK v : v = Vote(e, ms)
  OBVIOUS
<1>2. PICK d : d = Voice[e].dir
  OBVIOUS
<1>3. v \in Nat
  BY <1>1, VoteIsShared
<1>4. d \in {-1, 0, 1}
  BY <1>2, FabricAssumption
<1>5. Votes(ms)[e] = v /\ Signed(ms)[e] = d * v /\ Negated(ms)[e] = -(d * v)
  BY <1>1, <1>2 DEF Votes, Signed, Negated
<1>6. /\ Dissent(ms)[e] = (IF Opposes(e, ms) THEN v ELSE 0)
      /\ Gap(ms)[e] = (IF Opposes(e, ms) THEN v ELSE -v)
  BY <1>1 DEF Dissent, Gap
<1> QED
  BY <1>2, <1>3, <1>4, <1>5, <1>6

\* Inside a group, those against its lean weigh no more than the rest.
LEMMA GroupGap ==
  ASSUME NEW ms \in SUBSET Evidence, NEW g
  PROVE  Total(Gap(ms), GroupMembers(g, ms)) <= 0
<1>1. PICK G : G = GroupMembers(g, ms)
  OBVIOUS
<1>2. G \in SUBSET ms /\ G \in SUBSET G
  BY <1>1 DEF GroupMembers
<1>3. IsFiniteSet(G) /\ IsFiniteSet(ms)
  BY <1>2, FabricAssumption, FS_Subset
<1>4. PICK s : s = Total(Signed(ms), G)
  OBVIOUS
<1>5. PICK L : L = Lean(g, ms)
  OBVIOUS
<1>6. L = (IF s > 0 THEN 1 ELSE IF s < 0 THEN -1 ELSE 0)
  BY <1>1, <1>4, <1>5 DEF Lean, Signed
<1>7. PICK none : none = [e \in ms |-> 0]
  OBVIOUS
<1>8. /\ Summable(Signed(ms), G) /\ Summable(Negated(ms), G)
      /\ Summable(Gap(ms), G) /\ Summable(none, G)
  <2>1. \A e \in G : /\ Signed(ms)[e] \in Int /\ Negated(ms)[e] \in Int
                     /\ Gap(ms)[e] \in Int /\ none[e] \in Int
    <3> SUFFICES ASSUME NEW e \in G
                 PROVE  /\ Signed(ms)[e] \in Int /\ Negated(ms)[e] \in Int
                        /\ Gap(ms)[e] \in Int /\ none[e] \in Int
      OBVIOUS
    <3>1. e \in ms
      BY <1>2
    <3> QED
      BY <3>1, <1>7, VoteTerms
  <2> QED
    BY <1>3, <2>1 DEF Summable
<1>9. Total(none, G) = 0
  <2>1. \A e \in G : none[e] = 0
    BY <1>2, <1>7
  <2>2. Total(none, G) = Cardinality(G) * 0
    BY <1>2, <1>3, <2>1, TotalOfEqual
  <2>3. Cardinality(G) \in Nat
    BY <1>3, FS_CardinalityType
  <2> QED
    BY <2>2, <2>3
<1>10. s \in Int /\ Total(Negated(ms), G) \in Int /\ Total(Gap(ms), G) \in Int
  <2>1. Adds(Signed(ms), G) /\ Adds(Negated(ms), G) /\ Adds(Gap(ms), G)
    BY <1>8, TotalByElement
  <2> QED
    BY <1>2, <1>4, <2>1 DEF Adds
<1>11. Total(Negated(ms), G) = -s
  <2>1. \A e \in G : none[e] = Signed(ms)[e] + Negated(ms)[e]
    <3> SUFFICES ASSUME NEW e \in G PROVE none[e] = Signed(ms)[e] + Negated(ms)[e]
      OBVIOUS
    <3>1. e \in ms
      BY <1>2
    <3> QED
      BY <3>1, <1>7, VoteTerms
  <2>2. \A T \in SUBSET G : Total(none, T) = Total(Signed(ms), T) + Total(Negated(ms), T)
    BY <1>8, <2>1, TotalOfTwo
  <2>3. Total(none, G) = Total(Signed(ms), G) + Total(Negated(ms), G)
    BY <2>2
  <2> QED
    BY <1>4, <1>9, <1>10, <2>3
<1>12. ASSUME NEW e \in G
       PROVE  /\ L = 1 => Gap(ms)[e] <= Negated(ms)[e]
              /\ L = -1 => Gap(ms)[e] <= Signed(ms)[e]
              /\ L = 0 => Gap(ms)[e] <= none[e]
  <2>1. e \in ms /\ EngineGroup[Voice[e].engine] = g
    BY <1>1 DEF GroupMembers
  <2>2. PICK v \in Nat, d \in {-1, 0, 1} :
            /\ Voice[e].dir = d
            /\ Signed(ms)[e] = d * v /\ Negated(ms)[e] = -(d * v)
            /\ Gap(ms)[e] = (IF Opposes(e, ms) THEN v ELSE -v)
    BY <2>1, VoteTerms
  <2>3. Opposes(e, ms) <=> (L # 0 /\ d = -L)
    BY <1>5, <2>1, <2>2 DEF Opposes
  <2>4. none[e] = 0
    BY <1>7, <2>1
  <2> QED
    BY <1>6, <2>2, <2>3, <2>4
<1>13. CASE L = 1
  <2>1. \A e \in G : Gap(ms)[e] <= Negated(ms)[e]
    BY <1>12, <1>13
  <2>2. \A T \in SUBSET G : Total(Gap(ms), T) <= Total(Negated(ms), T)
    BY <1>8, <2>1, TotalGrows
  <2>3. Total(Gap(ms), G) <= -s
    BY <1>11, <2>2
  <2>4. s > 0
    BY <1>6, <1>10, <1>13
  <2> QED
    BY <1>1, <1>10, <2>3, <2>4
<1>14. CASE L = -1
  <2>1. \A e \in G : Gap(ms)[e] <= Signed(ms)[e]
    BY <1>12, <1>14
  <2>2. \A T \in SUBSET G : Total(Gap(ms), T) <= Total(Signed(ms), T)
    BY <1>8, <2>1, TotalGrows
  <2>3. Total(Gap(ms), G) <= s
    BY <1>4, <2>2
  <2>4. s < 0
    BY <1>6, <1>10, <1>14
  <2> QED
    BY <1>1, <1>10, <2>3, <2>4
<1>15. CASE L = 0
  <2>1. \A e \in G : Gap(ms)[e] <= none[e]
    BY <1>12, <1>15
  <2>2. \A T \in SUBSET G : Total(Gap(ms), T) <= Total(none, T)
    BY <1>8, <2>1, TotalGrows
  <2> QED
    BY <1>1, <1>9, <2>2
<1> QED
  BY <1>6, <1>13, <1>14, <1>15

\* Over all groups: twice the opposing votes are at most all the votes.
LEMMA OpposingIsMinority ==
  ASSUME NEW ms \in SUBSET Evidence
  PROVE  2 * Opposing(ms) <= Present(ms)
<1>1. PICK opp : opp = {e \in ms : Opposes(e, ms)}
  OBVIOUS
<1>2. IsFiniteSet(ms) /\ opp \in SUBSET ms /\ ms \in SUBSET ms
  BY <1>1, FabricAssumption, FS_Subset
<1>3. \A e \in ms : /\ Votes(ms)[e] \in Int /\ Dissent(ms)[e] \in Int /\ Gap(ms)[e] \in Int
                    /\ Dissent(ms)[e] + Dissent(ms)[e] = Votes(ms)[e] + Gap(ms)[e]
                    /\ e \in opp => Dissent(ms)[e] = Votes(ms)[e]
                    /\ e \notin opp => Dissent(ms)[e] = 0
  <2> SUFFICES ASSUME NEW e \in ms
               PROVE  /\ Votes(ms)[e] \in Int /\ Dissent(ms)[e] \in Int /\ Gap(ms)[e] \in Int
                      /\ Dissent(ms)[e] + Dissent(ms)[e] = Votes(ms)[e] + Gap(ms)[e]
                      /\ e \in opp => Dissent(ms)[e] = Votes(ms)[e]
                      /\ e \notin opp => Dissent(ms)[e] = 0
    OBVIOUS
  <2>1. PICK v \in Nat :
            /\ Votes(ms)[e] = v
            /\ Dissent(ms)[e] = (IF Opposes(e, ms) THEN v ELSE 0)
            /\ Gap(ms)[e] = (IF Opposes(e, ms) THEN v ELSE -v)
    BY VoteTerms
  <2> QED
    BY <1>1, <2>1
<1>4. Summable(Votes(ms), ms) /\ Summable(Dissent(ms), ms) /\ Summable(Gap(ms), ms)
  BY <1>2, <1>3 DEF Summable
<1>5. Total(Gap(ms), ms) <= 0
  <2> DEFINE key == [e \in ms |-> EngineGroup[Voice[e].engine]]
             Groups == {key[e] : e \in ms}
             zero == [g \in Groups |-> 0]
  <2>1. \A g : {e \in ms : key[e] = g} = GroupMembers(g, ms)
    BY DEF GroupMembers
  <2>2. \A g \in Groups : zero[g] \in Int /\ Total(Gap(ms), {e \in ms : key[e] = g}) <= zero[g]
    <3>1. \A g \in Groups : zero[g] = 0
      OBVIOUS
    <3> HIDE DEF key, Groups, zero
    <3>2. \A g \in Groups : Total(Gap(ms), {e \in ms : key[e] = g}) <= 0
      BY <2>1, GroupGap
    <3> QED
      BY <3>1, <3>2
  <2>3. Total(Gap(ms), ms) <= Total(zero, Groups)
    <3> HIDE DEF key, zero
    <3> QED
      BY ZenonT(40), <1>4, <2>2, TotalByClasses
  <2>4. IsFiniteSet(Groups)
    <3>1. key \in Surjection(ms, Groups)
      BY DEF Surjection
    <3> HIDE DEF key, Groups
    <3> QED
      BY <1>2, <3>1, FS_Surjection
  <2>5. Total(zero, Groups) = 0
    <3>1. \A g \in Groups : zero[g] = 0
      OBVIOUS
    <3> HIDE DEF zero, Groups
    <3> QED
      BY <2>4, <3>1, TotalOfZeros
  <2> HIDE DEF zero, Groups
  <2> QED
    BY <2>3, <2>5
<1>6. /\ Total(Votes(ms), ms) \in Int /\ Total(Gap(ms), ms) \in Int
      /\ Total(Dissent(ms), ms) \in Int /\ Total(Dissent(ms), opp) \in Int
  <2>1. Adds(Votes(ms), ms) /\ Adds(Gap(ms), ms) /\ Adds(Dissent(ms), ms)
    BY <1>4, TotalByElement
  <2> QED
    BY <1>2, <2>1 DEF Adds
<1>7. Total(Dissent(ms), ms) + Total(Dissent(ms), ms) = Total(Votes(ms), ms) + Total(Gap(ms), ms)
  <2>1. PICK both : both = [e \in ms |-> Dissent(ms)[e] + Dissent(ms)[e]]
    OBVIOUS
  <2>2. /\ \A e \in ms : both[e] = Dissent(ms)[e] + Dissent(ms)[e]
        /\ \A e \in ms : both[e] = Votes(ms)[e] + Gap(ms)[e]
    BY <1>3, <2>1
  <2>3. \A T \in SUBSET ms : Total(both, T) = Total(Dissent(ms), T) + Total(Dissent(ms), T)
    BY <1>4, <2>2, TotalOfTwo
  <2>4. \A T \in SUBSET ms : Total(both, T) = Total(Votes(ms), T) + Total(Gap(ms), T)
    BY <1>4, <2>2, TotalOfTwo
  <2> QED
    BY <1>2, <2>3, <2>4
<1>8. Total(Dissent(ms), ms) = Total(Votes(ms), opp)
  <2>1. SplitsAt(Dissent(ms), ms, opp)
    BY <1>2, <1>4, TotalOfParts
  <2>2. PICK rest : rest = ms \ opp
    OBVIOUS
  <2>3. Total(Dissent(ms), ms) = Total(Dissent(ms), opp) + Total(Dissent(ms), rest)
    <3>1. ms \cap opp = opp
      BY <1>2
    <3> QED
      BY <1>2, <2>1, <2>2, <3>1 DEF SplitsAt
  <2>4. Total(Dissent(ms), rest) = 0
    <3>1. IsFiniteSet(rest) /\ rest \in SUBSET rest
      BY <1>2, <2>2, FS_Subset
    <3>2. \A e \in rest : Dissent(ms)[e] = 0
      BY <1>3, <2>2
    <3> QED
      BY <3>1, <3>2, TotalOfZeros
  <2>5. Total(Dissent(ms), opp) = Total(Votes(ms), opp)
    <3>1. IsFiniteSet(opp) /\ opp \in SUBSET opp
      BY <1>2, FS_Subset
    <3>2. Summable(Dissent(ms), opp) /\ Summable(Votes(ms), opp)
      BY <1>2, <1>3, <3>1 DEF Summable
    <3>3. \A e \in opp : Dissent(ms)[e] <= Votes(ms)[e] /\ Votes(ms)[e] <= Dissent(ms)[e]
      BY <1>2, <1>3
    <3>4. \A T \in SUBSET opp : Total(Dissent(ms), T) <= Total(Votes(ms), T)
      BY <3>2, <3>3, TotalGrows
    <3>5. \A T \in SUBSET opp : Total(Votes(ms), T) <= Total(Dissent(ms), T)
      BY <3>2, <3>3, TotalGrows
    <3>6. Adds(Votes(ms), opp)
      BY <3>2, TotalByElement
    <3>7. Total(Votes(ms), opp) \in Int
      BY <3>1, <3>6 DEF Adds
    <3> QED
      BY <1>6, <3>1, <3>4, <3>5, <3>7
  <2> QED
    BY <1>6, <2>3, <2>4, <2>5
<1>9. Opposing(ms) = Total(Votes(ms), opp)
  BY <1>1 DEF Opposing, Votes
<1>10. Total(Votes(ms), ms) <= Present(ms)
  BY VotesFitThePresent
<1>11. Present(ms) \in Int
  <2> DEFINE w == [n \in EnginesOf(ms) |-> EngineWeight[n] * Share]
  <2>1. [e \in ms |-> Voice[e].engine] \in Surjection(ms, EnginesOf(ms))
    BY DEF Surjection, EnginesOf
  <2>2. IsFiniteSet(EnginesOf(ms))
    BY <1>2, <2>1, FS_Surjection
  <2>3. \A n \in EnginesOf(ms) : w[n] \in Int
    <3>1. \A n \in EnginesOf(ms) : EngineWeight[n] \in Nat
      BY FabricAssumption DEF EnginesOf
    <3> QED
      BY <3>1 DEF Share
  <2>4. Present(ms) = Total(w, EnginesOf(ms)) /\ EnginesOf(ms) \in SUBSET EnginesOf(ms)
    BY DEF Present
  <2> HIDE DEF w
  <2>5. Adds(w, EnginesOf(ms))
    BY <2>2, <2>3, TotalByElement DEF Summable
  <2> QED
    BY <2>4, <2>5 DEF Adds
<1> QED
  BY <1>5, <1>6, <1>7, <1>8, <1>9, <1>10, <1>11

FabricSpec == FabricInit /\ [][FabricNext]_fabricVars

\* However evidence is emitted, ages and dies, the voices against their
\* group's lean never weigh more than half of what is present: resolve can
\* call no disagreement_of a HARD_CONFLICT (conflict.py 220).
THEOREM DissentStaysMinority == FabricSpec => []DissentIsMinority
<1> DEFINE Members == fabric \in SUBSET Evidence
<1>1. FabricInit => Members
  BY DEF FabricInit
<1>2. Members /\ [FabricNext]_fabricVars => Members'
  <2> SUFFICES ASSUME Members, [FabricNext]_fabricVars PROVE Members'
    OBVIOUS
  <2>1. CASE UNCHANGED fabricVars
    BY <2>1 DEF fabricVars
  <2>2. CASE \E e \in Evidence : EmitEvidence(e) \/ ZoneDies(e)
    BY <2>2 DEF EmitEvidence, ZoneDies
  <2>3. CASE FabricBarCloses
    BY <2>3 DEF FabricBarCloses
  <2>4. ASSUME NEW trust, NEW q, NEW mtf, Compose(trust, q, mtf)
        PROVE  Members'
    BY <2>4 DEF Compose, Assemble
  <2> QED
    BY <2>1, <2>2, <2>3, <2>4 DEF FabricNext
<1>3. Members => DissentIsMinority
  BY OpposingIsMinority DEF DissentIsMinority
<1> QED
  BY <1>1, <1>2, <1>3, PTL DEF FabricSpec

-----------------------------------------------------------------------------
(* Flattened sequences.  FlattenSeq is a recursive function on the indices *)
(* of a sequence; one more item is one more concatenation.                 *)

Joins(f, n, h) == h = [i \in 1 .. n |-> IF i = 1 THEN f[i] ELSE h[i - 1] \o f[i]]

\* What the first n items of f flatten to.
Flat(f, n) == FlattenSeq([i \in 1 .. n |-> f[i]])

LEMMA JoinsAt ==
  ASSUME NEW n \in Nat, NEW f, NEW h, Joins(f, n, h)
  PROVE  \A i \in 1 .. n : h[i] = IF i = 1 THEN f[i] ELSE h[i - 1] \o f[i]
BY DEF Joins

LEMMA JoinsExist ==
  ASSUME NEW f
  PROVE  \A n \in Nat : \E h : Joins(f, n, h)
<1> DEFINE N == {n \in Nat : \E h : Joins(f, n, h)}
<1>1. 0 \in N
  <2>1. Joins(f, 0, [i \in 1 .. 0 |-> 0])
    BY DEF Joins
  <2> QED
    BY <2>1
<1>2. ASSUME NEW n \in Nat, n \in N
      PROVE  n + 1 \in N
  <2>1. PICK g : Joins(f, n, g)
    BY <1>2
  <2> DEFINE h == [i \in 1 .. n + 1 |-> IF i = 1 THEN f[i] ELSE g[i - 1] \o f[i]]
  <2>2. \A i \in 1 .. n : h[i] = g[i]
    BY <2>1, JoinsAt
  <2>3. ASSUME NEW i \in 1 .. n + 1
        PROVE  h[i] = IF i = 1 THEN f[i] ELSE h[i - 1] \o f[i]
    <3>1. i # 1 => i - 1 \in 1 .. n
      OBVIOUS
    <3>2. i # 1 => h[i - 1] = g[i - 1]
      BY <2>2, <3>1
    <3> QED
      BY <3>2
  <2>4. h = [i \in 1 .. n + 1 |-> h[i]]
    OBVIOUS
  <2> HIDE DEF h
  <2>5. Joins(f, n + 1, h)
    BY <2>3, <2>4 DEF Joins
  <2> QED
    BY <2>5
<1>3. Nat \subseteq N
  <2> HIDE DEF N
  <2> QED
    BY <1>1, <1>2, EveryNatural
<1> QED
  BY <1>3

LEMMA JoinsAgree ==
  ASSUME NEW f, NEW n \in Nat, NEW m \in Nat, NEW g, NEW h, Joins(f, n, g), Joins(f, m, h),
         n <= m
  PROVE  \A i \in 1 .. n : g[i] = h[i]
<1> DEFINE N == {i \in Nat : i \in 1 .. n => g[i] = h[i]}
<1>1. 0 \in N
  OBVIOUS
<1>2. ASSUME NEW i \in Nat, i \in N
      PROVE  i + 1 \in N
  <2> SUFFICES ASSUME i + 1 \in 1 .. n PROVE g[i + 1] = h[i + 1]
    OBVIOUS
  <2>1. i + 1 \in 1 .. m /\ (i + 1 # 1 => i \in 1 .. n) /\ (i + 1) - 1 = i
    OBVIOUS
  <2>2. g[i + 1] = (IF i + 1 = 1 THEN f[i + 1] ELSE g[i] \o f[i + 1])
    BY <2>1, JoinsAt
  <2>3. h[i + 1] = (IF i + 1 = 1 THEN f[i + 1] ELSE h[i] \o f[i + 1])
    BY <2>1, JoinsAt
  <2>4. i + 1 # 1 => g[i] = h[i]
    BY <1>2, <2>1
  <2> QED
    BY <2>2, <2>3, <2>4
<1>3. Nat \subseteq N
  <2> HIDE DEF N
  <2> QED
    BY <1>1, <1>2, EveryNatural
<1> QED
  BY <1>3

LEMMA FlatIsJoined ==
  ASSUME NEW f, NEW n \in Nat, n # 0
  PROVE  \E h : Joins(f, n, h) /\ Flat(f, n) = h[n]
<1>1. PICK s : s = [i \in 1 .. n |-> f[i]]
  OBVIOUS
<1>2. s \in Seq({f[i] : i \in 1 .. n}) /\ Len(s) = n
  BY <1>1
<1>3. PICK h : h = CHOOSE x : Joins(s, n, x)
  OBVIOUS
<1>4. Joins(s, n, h)
  BY <1>3, JoinsExist
<1>5. FlattenSeq(s) = h[n]
  BY <1>2, <1>3 DEF FlattenSeq, Joins
<1>6. Joins(f, n, h)
  BY <1>1, <1>4 DEF Joins
<1> QED
  BY <1>1, <1>5, <1>6 DEF Flat

LEMMA FlatOfNone ==
  ASSUME NEW f
  PROVE  Flat(f, 0) = <<>>
<1>1. [i \in 1 .. 0 |-> f[i]] = <<>>
  OBVIOUS
<1> QED
  BY <1>1 DEF Flat, FlattenSeq

LEMMA FlatGrows ==
  ASSUME NEW f, NEW n \in Nat, NEW A, f[n + 1] \in Seq(A)
  PROVE  Flat(f, n + 1) = Flat(f, n) \o f[n + 1]
<1>1. PICK h : Joins(f, n + 1, h) /\ Flat(f, n + 1) = h[n + 1]
  BY FlatIsJoined
<1>2. n + 1 \in 1 .. n + 1 /\ (n + 1) - 1 = n
  OBVIOUS
<1>3. h[n + 1] = (IF n + 1 = 1 THEN f[n + 1] ELSE h[n] \o f[n + 1])
  BY <1>1, <1>2, JoinsAt
<1>4. CASE n = 0
  <2>1. <<>> \o f[n + 1] = f[n + 1]
    OBVIOUS
  <2> QED
    BY <1>1, <1>3, <1>4, <2>1, FlatOfNone
<1>5. CASE n # 0
  <2>1. PICK g : Joins(f, n, g) /\ Flat(f, n) = g[n]
    BY <1>5, FlatIsJoined
  <2>2. g[n] = h[n]
    <3>1. n \in 1 .. n /\ n <= n + 1 /\ n + 1 \in Nat
      BY <1>5
    <3> QED
      BY <1>1, <2>1, <3>1, JoinsAgree
  <2>3. n + 1 # 1
    BY <1>5
  <2>4. h[n + 1] = h[n] \o f[n + 1]
    BY <1>3, <2>3
  <2> QED
    BY <1>1, <2>1, <2>2, <2>4
<1> QED
  BY <1>4, <1>5

-----------------------------------------------------------------------------
(* The training of the classifier.                                         *)

LEMMA MaxOfTwo ==
  ASSUME NEW a \in Int, NEW b \in Int
  PROVE  Max({a, b}) = IF a < b THEN b ELSE a
<1>1. PICK m : m = IF a < b THEN b ELSE a
  OBVIOUS
<1>2. m \in {a, b} /\ \A y \in {a, b} : m >= y
  BY <1>1
<1>3. \A x \in {a, b} : (\A y \in {a, b} : x >= y) => x = m
  BY <1>2
<1> QED
  BY <1>1, <1>2, <1>3 DEF Max

StoredRows == UNION {RowsOf[c] : c \in DOMAIN RowsOf}
AnyRows == StoredRows \cup {<<>>}
Scope == Range(TrainedCells)
LabelsOf(w) == [i \in Nat |-> Labelled(w, i, [k \in 1 .. LabelDelay |-> i + k])]

FitInput == [Scope -> {[rows |-> w, samples |-> SamplesOf(w)] : w \in AnyRows}]
Fitted == {x \in FitInput : RequiredClasses \subseteq ClassesOf(x)}
CacheFile == {[hash |-> w, samples |-> SamplesOf(w), there |-> b] : w \in AnyRows, b \in BOOLEAN}
Message ==
  [kind : {"cell"}, cell : Scope]
    \cup [kind : {"error"}, reason : {"TRAINING_TIME_LIMIT", "TRAINING_WORKER_FAILED"}]
    \cup [kind : {"degenerate"}] \cup [kind : {"result"}, cells : Fitted]
LabelRuns == {Flat(LabelsOf(w), m) : w \in AnyRows, m \in Nat}
WorkerState ==
  [ cell : Nat \ {0}, window : AnyRows, bar : Nat, pending : Seq(Nat),
    samples : LabelRuns,
    cells : FitInput, stage : {"next", "replay", "cached"} ]

\* How far a replay has come: the last candidates are pending, and all that are
\* before them have their labels.
Replayed(x) ==
  LET m == x.bar - Len(x.pending)
  IN  /\ x.cell <= Len(TrainedCells)
      /\ x.bar <= Len(x.window)
      /\ Len(x.pending) = (IF x.bar <= LabelDelay THEN x.bar ELSE LabelDelay)
      /\ x.pending = [k \in 1 .. Len(x.pending) |-> m + k]
      /\ x.samples = Flat(LabelsOf(x.window), m)
      /\ x.stage = "cached" => x.bar = Len(x.window)

WorkerOnTrack ==
  \/ worker = DeadWorker
  \/ worker \in WorkerState /\ (worker.stage # "next" => Replayed(worker))

RowsInScope == DOMAIN rows = Scope /\ \A c \in Scope : rows[c] \in AnyRows

TrainingInv ==
  /\ RowsInScope
  /\ cellCache \in [Scope -> CacheFile]
  /\ WorkerOnTrack
  /\ pipe \in Seq(Message)
  /\ artifact = Nothing \/ artifact \in Fitted

LEMMA RowsAreSequences ==
  ASSUME NEW w \in AnyRows
  PROVE  w \in Seq(Range(w)) /\ Len(w) \in Nat
<1>1. CASE w = <<>>
  BY <1>1
<1>2. CASE w # <<>>
  <2>0. w \in StoredRows
    BY <1>2 DEF AnyRows
  <2>1. PICK c \in DOMAIN RowsOf : w \in RowsOf[c]
    BY <2>0, Zenon DEF StoredRows
  <2>2. w \in Seq(Range(w))
    BY <2>1, TrainingBounds
  <2> QED
    BY <2>2
<1> QED
  BY <1>1, <1>2

LEMMA ScopeHasRows ==
  /\ Scope \subseteq DOMAIN RowsOf /\ Len(TrainedCells) \in Nat
  /\ \A n \in 1 .. Len(TrainedCells) : TrainedCells[n] \in Scope
BY TrainingBounds DEF Scope, Range

LEMMA LabelIsSequence ==
  ASSUME NEW w, NEW i \in Nat
  PROVE  \E A : LabelsOf(w)[i] \in Seq(A)
<1> DEFINE x == [at |-> i, label |-> IF \E n \in DOMAIN [k \in 1 .. LabelDelay |-> i + k] :
                                        w[[k \in 1 .. LabelDelay |-> i + k][n]].confirmed = "yes"
                                     THEN w[i].rule0 ELSE "TRANSITION"]
<1>1. LabelsOf(w)[i] = <<x>> \/ LabelsOf(w)[i] = <<>>
  BY DEF LabelsOf, Labelled
<1> HIDE DEF x
<1>2. <<x>> \in Seq({x}) /\ <<>> \in Seq({x})
  OBVIOUS
<1> QED
  BY <1>1, <1>2

\* One more label.
LEMMA LabelsGrow ==
  ASSUME NEW w, NEW m \in Nat
  PROVE  Flat(LabelsOf(w), m + 1)
           = Flat(LabelsOf(w), m) \o Labelled(w, m + 1, [k \in 1 .. LabelDelay |-> (m + 1) + k])
<1>1. m + 1 \in Nat
  OBVIOUS
<1>2. PICK A : LabelsOf(w)[m + 1] \in Seq(A)
  BY <1>1, LabelIsSequence
<1>3. LabelsOf(w)[m + 1] = Labelled(w, m + 1, [k \in 1 .. LabelDelay |-> (m + 1) + k])
  BY <1>1 DEF LabelsOf
<1> QED
  BY <1>2, <1>3, FlatGrows

LEMMA SamplesAreLabels ==
  ASSUME NEW w \in AnyRows
  PROVE  SamplesOf(w)
           = Flat(LabelsOf(w), IF Len(w) <= LabelDelay THEN 0 ELSE Len(w) - LabelDelay)
<1>1. Len(w) \in Nat /\ LabelDelay \in Nat \ {0}
  BY RowsAreSequences, TrainingBounds
<1>2. PICK n : n = IF Len(w) <= LabelDelay THEN 0 ELSE Len(w) - LabelDelay
  OBVIOUS
<1>3. n \in Nat /\ Max({0, Len(w) - LabelDelay}) = n
  BY <1>1, <1>2, MaxOfTwo
<1>4. [i \in 1 .. n |-> Labelled(w, i, [k \in 1 .. LabelDelay |-> i + k])]
        = [i \in 1 .. n |-> LabelsOf(w)[i]]
  BY <1>3 DEF LabelsOf
<1> QED
  BY <1>2, <1>3, <1>4 DEF SamplesOf, Flat

LEMMA NoRowsNoSamples == <<>> \in AnyRows /\ SamplesOf(<<>>) = <<>>
<1>1. <<>> \in AnyRows
  BY DEF AnyRows
<1>2. Len(<<>>) = 0 /\ 0 <= LabelDelay
  BY TrainingBounds
<1> QED
  BY <1>1, <1>2, SamplesAreLabels, FlatOfNone

LEMMA CacheFiles ==
  ASSUME NEW w \in AnyRows, NEW b \in BOOLEAN
  PROVE  [hash |-> w, samples |-> SamplesOf(w), there |-> b] \in CacheFile
BY DEF CacheFile

LEMMA FitInputIsTrue ==
  ASSUME NEW x \in FitInput
  PROVE  DOMAIN x = Scope /\ \A c \in Scope : x[c].samples = SamplesOf(x[c].rows)
<1>1. DOMAIN x = Scope
  BY DEF FitInput
<1>2. ASSUME NEW c \in Scope
      PROVE  x[c].samples = SamplesOf(x[c].rows)
  <2>1. PICK w \in AnyRows : x[c] = [rows |-> w, samples |-> SamplesOf(w)]
    BY DEF FitInput
  <2> QED
    BY <2>1
<1> QED
  BY <1>1, <1>2

\* A cell that is done, with the samples of its rows.
LEMMA CellDoneKeepsTrack ==
  ASSUME worker \in WorkerState, worker.cell <= Len(TrainedCells),
         NEW w \in AnyRows, CellDone(w, SamplesOf(w))
  PROVE  WorkerOnTrack' /\ Current \in Scope
<1>1. Current \in Scope
  BY ScopeHasRows DEF Current, WorkerState
<1>2. PICK r : r = [rows |-> w, samples |-> SamplesOf(w)]
  OBVIOUS
<1>3. worker' = [worker EXCEPT !.cell = worker.cell + 1, !.stage = "next",
                               !.cells = [worker.cells EXCEPT ![Current] = r]]
  BY <1>2 DEF CellDone
<1>4. [worker.cells EXCEPT ![Current] = r] \in FitInput
  <2>1. worker.cells \in FitInput
    BY DEF WorkerState
  <2>2. r \in {[rows |-> u, samples |-> SamplesOf(u)] : u \in AnyRows}
    BY <1>2
  <2> QED
    BY <2>1, <2>2 DEF FitInput
<1>5. worker.cell + 1 \in Nat \ {0}
  BY DEF WorkerState
<1>6. PICK new \in FitInput : new = [worker.cells EXCEPT ![Current] = r]
  BY <1>4
<1>7. worker' \in WorkerState
  <2>1. worker' = [ cell |-> worker.cell + 1, window |-> worker.window, bar |-> worker.bar,
                    pending |-> worker.pending, samples |-> worker.samples,
                    cells |-> new, stage |-> "next" ]
    <3>1. worker = [ cell |-> worker.cell, window |-> worker.window, bar |-> worker.bar,
                     pending |-> worker.pending, samples |-> worker.samples,
                     cells |-> worker.cells, stage |-> worker.stage ]
      BY DEF WorkerState
    <3> QED
      BY <1>3, <1>6, <3>1
  <2>2. /\ worker.window \in AnyRows /\ worker.bar \in Nat /\ worker.pending \in Seq(Nat)
        /\ worker.samples \in LabelRuns
    BY DEF WorkerState
  <2> QED
    BY <1>5, <2>1, <2>2 DEF WorkerState
<1>8. worker'.stage = "next"
  BY <1>3 DEF WorkerState
<1> QED
  BY <1>1, <1>7, <1>8 DEF WorkerOnTrack

LEMMA WorkerFields ==
  ASSUME worker \in WorkerState
  PROVE  /\ worker = [ cell |-> worker.cell, window |-> worker.window, bar |-> worker.bar,
                       pending |-> worker.pending, samples |-> worker.samples,
                       cells |-> worker.cells, stage |-> worker.stage ]
         /\ worker.cell \in Nat \ {0} /\ worker.window \in AnyRows /\ worker.bar \in Nat
         /\ worker.pending \in Seq(Nat) /\ worker.samples \in LabelRuns
         /\ worker.cells \in FitInput /\ worker.stage \in {"next", "replay", "cached"}
BY DEF WorkerState

LEMMA AliveIsInState ==
  ASSUME WorkerOnTrack, Alive
  PROVE  worker \in WorkerState /\ (worker.stage # "next" => Replayed(worker))
BY DEF WorkerOnTrack, Alive, DeadWorker

LEMMA LabelStepKeepsTrack ==
  ASSUME WorkerOnTrack, BarLabelled
  PROVE  WorkerOnTrack'
<1>1. worker \in WorkerState /\ Replayed(worker)
  BY AliveIsInState DEF BarLabelled
<1>2. LabelDelay \in Nat \ {0}
  BY TrainingBounds
<1>3. PICK w, b, p, s, old :
         /\ w = worker.window /\ b = worker.bar /\ p = worker.pending /\ s = worker.samples
         /\ old = [ cell |-> worker.cell, window |-> w, bar |-> b, pending |-> p,
                    samples |-> s, cells |-> worker.cells, stage |-> "replay" ]
  OBVIOUS
<1>4. /\ worker = old /\ w \in AnyRows /\ b \in Nat /\ p \in Seq(Nat) /\ s \in LabelRuns
      /\ worker.cell \in Nat \ {0} /\ worker.cells \in FitInput
  BY <1>1, <1>3, WorkerFields DEF BarLabelled
<1>5. PICK m : m = b - Len(p)
  OBVIOUS
<1>6. /\ Len(p) \in Nat /\ m \in Nat
      /\ Len(p) = (IF b <= LabelDelay THEN b ELSE LabelDelay)
      /\ p = [k \in 1 .. Len(p) |-> m + k] /\ s = Flat(LabelsOf(w), m)
      /\ worker.cell <= Len(TrainedCells) /\ b < Len(w) /\ Len(w) \in Nat
  <2>1. Len(p) \in Nat /\ Len(w) \in Nat
    BY <1>4, RowsAreSequences
  <2>2. /\ Len(p) = (IF b <= LabelDelay THEN b ELSE LabelDelay)
        /\ p = [k \in 1 .. Len(p) |-> m + k] /\ s = Flat(LabelsOf(w), m)
        /\ worker.cell <= Len(TrainedCells)
    BY <1>1, <1>3, <1>5 DEF Replayed
  <2>3. m \in Nat
    BY <1>2, <1>4, <1>5, <2>1, <2>2
  <2>4. b < Len(w)
    BY <1>3 DEF BarLabelled
  <2> QED
    BY <2>1, <2>2, <2>3, <2>4
<1>7. PICK q : q = Append(p, b + 1)
  OBVIOUS
<1>8. /\ q \in Seq(Nat) /\ Len(q) = Len(p) + 1
      /\ \A k \in 1 .. Len(q) : q[k] = m + k
  <2>1. q \in Seq(Nat) /\ Len(q) = Len(p) + 1 /\ q[Len(p) + 1] = b + 1
        /\ \A k \in 1 .. Len(p) : q[k] = p[k]
    BY <1>4, <1>7
  <2>2. \A k \in 1 .. Len(p) : p[k] = m + k
    BY <1>6
  <2>3. b + 1 = m + (Len(p) + 1)
    BY <1>4, <1>5, <1>6
  <2>4. \A k \in 1 .. Len(q) : k \in 1 .. Len(p) \/ k = Len(p) + 1
    BY <1>6, <2>1
  <2>5. \A k \in 1 .. Len(q) : q[k] = m + k
    BY <2>1, <2>2, <2>3, <2>4
  <2> QED
    BY <2>1, <2>5
<1>9. CASE Ripe(q)
  <2>0. Len(q) > LabelDelay /\ Len(q) = Len(p) + 1
    BY <1>8, <1>9 DEF Ripe
  <2>1. Len(p) = LabelDelay /\ b >= LabelDelay
    <3>1. Len(p) >= LabelDelay
      BY <1>2, <1>6, <2>0
    <3> QED
      BY <1>2, <1>4, <1>6, <3>1
  <2>2. /\ Tail(q) \in Seq(Nat) /\ Len(Tail(q)) = LabelDelay /\ Head(q) = m + 1
        /\ \A k \in 1 .. LabelDelay : Tail(q)[k] = (m + 1) + k
    <3>1. q # <<>> /\ Len(q) = LabelDelay + 1
      BY <1>2, <1>8, <2>1
    <3>2. /\ Tail(q) \in Seq(Nat) /\ Len(Tail(q)) = LabelDelay /\ Head(q) = q[1]
          /\ \A k \in 1 .. LabelDelay : Tail(q)[k] = q[k + 1]
      <4>1. /\ Tail(q) \in Seq(Nat) /\ Len(Tail(q)) = Len(q) - 1 /\ Head(q) = q[1]
            /\ \A k \in 1 .. Len(q) - 1 : Tail(q)[k] = q[k + 1]
        BY <1>8, <3>1, HeadTailProperties
      <4>2. Len(q) - 1 = LabelDelay
        BY <1>2, <3>1
      <4> QED
        BY <4>1, <4>2
    <3>3. q[1] = m + 1 /\ \A k \in 1 .. LabelDelay : q[k + 1] = (m + 1) + k
      <4>1. /\ 1 \in 1 .. Len(q)
            /\ \A k \in 1 .. LabelDelay : k + 1 \in 1 .. Len(q) /\ m + (k + 1) = (m + 1) + k
        BY <1>2, <1>6, <3>1
      <4> QED
        BY <1>8, <4>1
    <3> QED
      BY <3>2, <3>3
  <2>3. Tail(q) = [k \in 1 .. LabelDelay |-> (m + 1) + k]
    <3>1. PICK r : r = Tail(q)
      OBVIOUS
    <3>2. r \in Seq(Nat) /\ Len(r) = LabelDelay /\ \A k \in 1 .. LabelDelay : r[k] = (m + 1) + k
      BY <2>2, <3>1
    <3>3. r = [k \in 1 .. Len(r) |-> r[k]]
      BY <3>2
    <3> QED
      BY <3>1, <3>2, <3>3
  <2>4. PICK t : t = Flat(LabelsOf(w), m + 1)
    OBVIOUS
  <2>5. s \o Labelled(w, Head(q), Tail(q)) = t
    BY ZenonT(40), <1>6, <2>2, <2>3, <2>4, LabelsGrow
  <2>6. worker' = [old EXCEPT !.bar = b + 1, !.pending = Tail(q),
                              !.samples = s \o Labelled(w, Head(q), Tail(q))]
    BY <1>3, <1>4, <1>7, <1>9 DEF BarLabelled
  <2>7. worker' = [ cell |-> worker.cell, window |-> w, bar |-> b + 1, pending |-> Tail(q),
                    samples |-> t, cells |-> worker.cells, stage |-> "replay" ]
    BY <1>3, <2>5, <2>6
  <2>8. t \in LabelRuns
    BY <1>4, <1>6, <2>4 DEF LabelRuns
  <2>9. worker' \in WorkerState
    BY <1>4, <2>2, <2>7, <2>8 DEF WorkerState
  <2>10. Replayed(worker')
    <3>1. (b + 1) - Len(Tail(q)) = m + 1
      <4>1. m = b - LabelDelay /\ Len(Tail(q)) = LabelDelay
        BY <1>5, <2>1, <2>2
      <4> QED
        <5>1. b \in Nat /\ LabelDelay \in Nat
          BY <1>2, <1>4
        <5>2. (b + 1) - LabelDelay = (b - LabelDelay) + 1
          BY <5>1
        <5> QED
          BY <4>1, <5>2
    <3>2. Len(Tail(q)) = (IF b + 1 <= LabelDelay THEN b + 1 ELSE LabelDelay)
      BY <1>2, <1>4, <2>1, <2>2
    <3>3. b + 1 <= Len(w)
      BY <1>4, <1>6
    <3> QED
      BY <1>6, <2>2, <2>3, <2>4, <2>7, <3>1, <3>2, <3>3 DEF Replayed
  <2> QED
    BY <2>9, <2>10 DEF WorkerOnTrack
<1>10. CASE ~Ripe(q)
  <2>1. Len(p) = b /\ b < LabelDelay /\ m = 0
    BY <1>2, <1>4, <1>5, <1>6, <1>8, <1>10 DEF Ripe
  <2>2. worker' = [old EXCEPT !.bar = b + 1, !.pending = q, !.samples = s]
    BY <1>3, <1>4, <1>7, <1>10 DEF BarLabelled
  <2>3. worker' = [ cell |-> worker.cell, window |-> w, bar |-> b + 1, pending |-> q,
                    samples |-> s, cells |-> worker.cells, stage |-> "replay" ]
    BY <1>3, <2>2
  <2>4. worker' \in WorkerState
    BY <1>4, <1>8, <2>3 DEF WorkerState
  <2>5. Replayed(worker')
    <3>1. (b + 1) - Len(q) = m
      BY <1>4, <1>8, <2>1
    <3>2. Len(q) = (IF b + 1 <= LabelDelay THEN b + 1 ELSE LabelDelay)
      BY <1>2, <1>4, <1>8, <2>1
    <3>3. b + 1 <= Len(w)
      BY <1>4, <1>6
    <3>4. q = [k \in 1 .. Len(q) |-> m + k]
      <4>1. q = [k \in 1 .. Len(q) |-> q[k]]
        BY <1>8
      <4> QED
        BY <1>8, <4>1
    <3> QED
      BY <1>6, <2>3, <3>1, <3>2, <3>3, <3>4 DEF Replayed
  <2> QED
    BY <2>4, <2>5 DEF WorkerOnTrack
<1> QED
  BY <1>9, <1>10

LEMMA SendKeepsPipe ==
  ASSUME pipe \in Seq(Message), NEW message \in Message, Send(message)
  PROVE  pipe' \in Seq(Message)
BY DEF Send

LEMMA TrainingStarts == TrainingInit => TrainingInv
<1> SUFFICES ASSUME TrainingInit PROVE TrainingInv
  OBVIOUS
<1>1. RowsInScope
  <2>1. DOMAIN rows = Scope /\ \A c \in Scope : rows[c] \in RowsOf[c]
    BY DEF TrainingInit, Scope
  <2>2. ASSUME NEW c \in Scope PROVE rows[c] \in AnyRows
    <3>1. c \in DOMAIN RowsOf /\ rows[c] \in RowsOf[c]
      BY <2>1, ScopeHasRows
    <3>2. rows[c] \in StoredRows
      BY <3>1, Zenon DEF StoredRows
    <3> QED
      BY <3>2 DEF AnyRows
  <2> QED
    BY <2>1, <2>2 DEF RowsInScope
<1>2. cellCache \in [Scope -> CacheFile]
  <2>1. NoFile \in CacheFile
    <3>1. FALSE \in BOOLEAN
      OBVIOUS
    <3>2. [hash |-> <<>>, samples |-> SamplesOf(<<>>), there |-> FALSE] \in CacheFile
      BY <3>1, NoRowsNoSamples, CacheFiles
    <3> QED
      BY <3>2, NoRowsNoSamples DEF NoFile
  <2> QED
    BY <2>1 DEF TrainingInit, Scope
<1>3. WorkerOnTrack /\ pipe \in Seq(Message) /\ artifact = Nothing
  BY DEF TrainingInit, WorkerOnTrack
<1> QED
  BY <1>1, <1>2, <1>3 DEF TrainingInv

LEMMA TrainingGoesOn ==
  ASSUME TrainingInv, [TrainingNext]_trainingVars
  PROVE  TrainingInv'
<1>0. /\ RowsInScope /\ cellCache \in [Scope -> CacheFile] /\ WorkerOnTrack
      /\ pipe \in Seq(Message) /\ (artifact = Nothing \/ artifact \in Fitted)
  BY DEF TrainingInv
<1>dead. worker' = DeadWorker => WorkerOnTrack'
  BY DEF WorkerOnTrack
<1>none. <<>> \in Seq(Message)
  OBVIOUS
<1>1. CASE UNCHANGED trainingVars
  BY <1>0, <1>1 DEF TrainingInv, RowsInScope, WorkerOnTrack, Replayed, trainingVars
<1>2. CASE InvocationStarts
  <2>1. PICK x : x = [c \in Scope |-> [rows |-> <<>>, samples |-> <<>>]]
    OBVIOUS
  <2>2. x \in FitInput
    <3>1. [rows |-> <<>>, samples |-> <<>>]
            \in {[rows |-> w, samples |-> SamplesOf(w)] : w \in AnyRows}
      BY NoRowsNoSamples
    <3> QED
      BY <2>1, <3>1 DEF FitInput
  <2>3. worker' = [ cell |-> 1, window |-> <<>>, bar |-> 0, pending |-> <<>>, samples |-> <<>>,
                    cells |-> x, stage |-> "next" ]
    BY <1>2, <2>1 DEF InvocationStarts, Scope
  <2>4. <<>> \in LabelRuns /\ <<>> \in AnyRows /\ <<>> \in Seq(Nat)
    <3>1. <<>> = Flat(LabelsOf(<<>>), 0)
      BY FlatOfNone
    <3> QED
      BY <3>1, NoRowsNoSamples DEF LabelRuns
  <2>5. worker' \in WorkerState /\ worker'.stage = "next"
    BY <2>2, <2>3, <2>4 DEF WorkerState
  <2>6. WorkerOnTrack'
    BY <2>5 DEF WorkerOnTrack
  <2> QED
    BY <1>0, <1>2, <1>none, <2>6 DEF TrainingInv, RowsInScope, InvocationStarts
<1>3. CASE CellStarts
  <2>1. worker \in WorkerState /\ worker.cell <= Len(TrainedCells)
    BY <1>0, <1>3, AliveIsInState DEF CellStarts
  <2>2. Current \in Scope
    BY <2>1, ScopeHasRows DEF Current, WorkerState
  <2>3. PICK w : w = rows[Current]
    OBVIOUS
  <2>4. w \in AnyRows
    BY <1>0, <2>2, <2>3 DEF RowsInScope
  <2>5. [kind |-> "cell", cell |-> Current] \in Message
    BY <2>2 DEF Message
  <2>6. CASE w = <<>>
    <3>1. CellDone(w, SamplesOf(w)) /\ Send([kind |-> "cell", cell |-> Current])
      BY <1>3, <2>3, <2>6, NoRowsNoSamples DEF CellStarts
    <3>2. WorkerOnTrack' /\ pipe' \in Seq(Message)
      BY <1>0, <2>1, <2>4, <2>5, <3>1, CellDoneKeepsTrack, SendKeepsPipe
    <3> QED
      BY <1>0, <1>3, <3>2 DEF TrainingInv, RowsInScope, CellStarts
  <2>7. CASE w # <<>> /\ CacheHit(Current, w)
    <3>1. cellCache[Current].samples = SamplesOf(w)
      <4>1. PICK u \in AnyRows, b \in BOOLEAN :
               cellCache[Current] = [hash |-> u, samples |-> SamplesOf(u), there |-> b]
        BY <1>0, <2>2 DEF CacheFile
      <4> QED
        BY <2>7, <4>1 DEF CacheHit, InputHash
    <3>2. CellDone(w, cellCache[Current].samples) /\ Send([kind |-> "cell", cell |-> Current])
      BY <1>3, <2>3, <2>7 DEF CellStarts
    <3>3. WorkerOnTrack' /\ pipe' \in Seq(Message)
      BY <1>0, <2>1, <2>4, <2>5, <3>1, <3>2, CellDoneKeepsTrack, SendKeepsPipe
    <3> QED
      BY <1>0, <1>3, <3>3 DEF TrainingInv, RowsInScope, CellStarts
  <2>8. CASE w # <<>> /\ ~CacheHit(Current, w)
    <3>1. worker' = [worker EXCEPT !.window = w, !.bar = 0, !.pending = <<>>,
                                   !.samples = <<>>, !.stage = "replay"] /\ pipe' = pipe
      BY <1>3, <2>3, <2>8 DEF CellStarts
    <3>2. worker' = [ cell |-> worker.cell, window |-> w, bar |-> 0, pending |-> <<>>,
                      samples |-> <<>>, cells |-> worker.cells, stage |-> "replay" ]
      BY <2>1, <3>1, WorkerFields
    <3>3. <<>> = Flat(LabelsOf(w), 0)
      BY FlatOfNone
    <3>4. <<>> \in LabelRuns /\ <<>> \in Seq(Nat)
      BY <2>4, <3>3 DEF LabelRuns
    <3>5. worker' \in WorkerState
      BY <2>1, <2>4, <3>2, <3>4, WorkerFields DEF WorkerState
    <3>6. Replayed(worker')
      <4>1. Len(<<>>) = 0 /\ <<>> = [k \in 1 .. 0 |-> 0 + k] /\ 0 - 0 = 0
        OBVIOUS
      <4>2. Len(w) \in Nat /\ LabelDelay \in Nat
        BY <2>4, RowsAreSequences, TrainingBounds
      <4> QED
        BY <2>1, <3>2, <3>3, <4>1, <4>2 DEF Replayed
    <3>7. WorkerOnTrack'
      BY <3>5, <3>6 DEF WorkerOnTrack
    <3> QED
      BY <1>0, <1>3, <3>1, <3>7 DEF TrainingInv, RowsInScope, CellStarts
  <2> QED
    BY <2>6, <2>7, <2>8
<1>4. CASE BarLabelled
  <2>1. WorkerOnTrack'
    BY <1>0, <1>4, LabelStepKeepsTrack
  <2> QED
    BY <1>0, <1>4, <2>1 DEF TrainingInv, RowsInScope, BarLabelled
<1>5. CASE CellCached
  <2>1. worker \in WorkerState /\ Replayed(worker)
    BY <1>0, <1>5, AliveIsInState DEF CellCached
  <2>2. Current \in Scope
    BY <2>1, ScopeHasRows DEF Current, WorkerState, Replayed
  <2>3. worker.window \in AnyRows /\ worker.samples = SamplesOf(worker.window)
    <3>1. PICK w : w = worker.window
      OBVIOUS
    <3>2. /\ w \in AnyRows /\ Len(w) \in Nat /\ LabelDelay \in Nat
          /\ Len(worker.pending) = (IF Len(w) <= LabelDelay THEN Len(w) ELSE LabelDelay)
          /\ worker.samples = Flat(LabelsOf(w), Len(w) - Len(worker.pending))
      BY <1>5, <2>1, <3>1, RowsAreSequences, TrainingBounds, WorkerFields DEF Replayed, CellCached
    <3>3. Len(w) - Len(worker.pending) = (IF Len(w) <= LabelDelay THEN 0 ELSE Len(w) - LabelDelay)
      BY <3>2
    <3> QED
      BY <3>1, <3>2, <3>3, SamplesAreLabels
  <2>4. PICK file : file = [hash |-> worker.window, samples |-> worker.samples, there |-> TRUE]
    OBVIOUS
  <2>5. file \in CacheFile
    <3>1. TRUE \in BOOLEAN
      OBVIOUS
    <3>2. [hash |-> worker.window, samples |-> SamplesOf(worker.window), there |-> TRUE]
            \in CacheFile
      BY <2>3, <3>1, CacheFiles
    <3> QED
      BY <2>3, <2>4, <3>2
  <2>6. cellCache' = [cellCache EXCEPT ![Current] = file]
    BY <1>5, <2>4 DEF CellCached, InputHash
  <2>7. cellCache' \in [Scope -> CacheFile]
    BY <1>0, <2>2, <2>5, <2>6
  <2>8. worker' = [ cell |-> worker.cell, window |-> worker.window, bar |-> worker.bar,
                    pending |-> worker.pending, samples |-> worker.samples,
                    cells |-> worker.cells, stage |-> "cached" ]
    BY <1>5, <2>1, WorkerFields DEF CellCached
  <2>9. worker' \in WorkerState
    BY <2>1, <2>8, WorkerFields DEF WorkerState
  <2>10. Replayed(worker')
    BY <1>5, <2>1, <2>8 DEF Replayed, CellCached
  <2>11. WorkerOnTrack'
    BY <2>9, <2>10 DEF WorkerOnTrack
  <2> QED
    BY <1>0, <1>5, <2>7, <2>11 DEF TrainingInv, RowsInScope, CellCached
<1>6. CASE CellReported
  <2>1. worker \in WorkerState /\ Replayed(worker) /\ worker.bar = Len(worker.window)
    BY <1>0, <1>6, AliveIsInState DEF CellReported, Replayed
  <2>2. worker.window \in AnyRows /\ worker.samples = SamplesOf(worker.window)
    <3>1. PICK w : w = worker.window
      OBVIOUS
    <3>2. /\ w \in AnyRows /\ Len(w) \in Nat /\ LabelDelay \in Nat
          /\ Len(worker.pending) = (IF Len(w) <= LabelDelay THEN Len(w) ELSE LabelDelay)
          /\ worker.samples = Flat(LabelsOf(w), Len(w) - Len(worker.pending))
      BY <2>1, <3>1, RowsAreSequences, TrainingBounds, WorkerFields DEF Replayed
    <3>3. Len(w) - Len(worker.pending) = (IF Len(w) <= LabelDelay THEN 0 ELSE Len(w) - LabelDelay)
      BY <3>2
    <3> QED
      BY <3>1, <3>2, <3>3, SamplesAreLabels
  <2>3. CellDone(worker.window, SamplesOf(worker.window)) /\ worker.cell <= Len(TrainedCells)
    BY <1>6, <2>1, <2>2 DEF CellReported, Replayed
  <2>4. WorkerOnTrack' /\ Current \in Scope
    BY <2>1, <2>2, <2>3, CellDoneKeepsTrack
  <2>5. pipe' \in Seq(Message)
    <3>1. [kind |-> "cell", cell |-> Current] \in Message
      BY <2>4 DEF Message
    <3> QED
      BY <1>0, <1>6, <3>1, SendKeepsPipe DEF CellReported
  <2> QED
    BY <1>0, <1>6, <2>4, <2>5 DEF TrainingInv, RowsInScope, CellReported
<1>7. CASE WorkerFinishes
  <2>1. worker.cells \in FitInput
    BY <1>0, <1>7, AliveIsInState, WorkerFields DEF WorkerFinishes
  <2>2. PICK x \in Message : Send(x)
    <3>1. CASE RequiredClasses \subseteq ClassesOf(worker.cells)
      <4>1. worker.cells \in Fitted
        BY <2>1, <3>1 DEF Fitted
      <4>2. [kind |-> "result", cells |-> worker.cells] \in Message
        BY <4>1 DEF Message
      <4> QED
        BY <1>7, <3>1, <4>2 DEF WorkerFinishes
    <3>2. CASE ~(RequiredClasses \subseteq ClassesOf(worker.cells))
      <4>1. [kind |-> "degenerate"] \in Message
        BY DEF Message
      <4> QED
        BY <1>7, <3>2, <4>1 DEF WorkerFinishes
    <3> QED
      BY <3>1, <3>2
  <2>3. pipe' \in Seq(Message)
    BY <1>0, <2>2, SendKeepsPipe
  <2> QED
    BY <1>0, <1>7, <1>dead, <2>3 DEF TrainingInv, RowsInScope, WorkerFinishes
<1>8. CASE WorkerGivesUp
  <2>1. PICK why \in {"TRAINING_TIME_LIMIT", "TRAINING_WORKER_FAILED"} :
           Send([kind |-> "error", reason |-> why])
    BY <1>8 DEF WorkerGivesUp
  <2>2. [kind |-> "error", reason |-> why] \in Message
    BY DEF Message
  <2>3. pipe' \in Seq(Message)
    BY <1>0, <2>1, <2>2, SendKeepsPipe
  <2> QED
    BY <1>0, <1>8, <1>dead, <2>3 DEF TrainingInv, RowsInScope, WorkerGivesUp
<1>9. CASE DeadlinePasses
  BY <1>0, <1>9, <1>dead, <1>none DEF TrainingInv, RowsInScope, DeadlinePasses, Ends
<1>10. CASE MessageReceived
  <2>1. PICK message : message = Head(pipe)
    OBVIOUS
  <2>2. message \in Message /\ Tail(pipe) \in Seq(Message)
    BY <1>0, <1>10, <2>1 DEF MessageReceived
  <2>3. WorkerOnTrack' /\ pipe' \in Seq(Message) /\ (artifact' = Nothing \/ artifact' \in Fitted)
    <3>1. CASE message.kind = "cell"
      <4>1. UNCHANGED <<worker, artifact>> /\ pipe' = Tail(pipe)
        BY <1>10, <2>1, <3>1 DEF MessageReceived
      <4> QED
        BY <1>0, <2>2, <4>1 DEF WorkerOnTrack, Replayed
    <3>2. CASE message.kind \in {"error", "degenerate"}
      <4>1. worker' = DeadWorker /\ pipe' = <<>> /\ artifact' = artifact
        BY <1>10, <2>1, <3>2 DEF MessageReceived, Ends
      <4> QED
        BY <1>0, <1>dead, <1>none, <4>1
    <3>3. CASE message.kind = "result"
      <4>1. worker' = DeadWorker /\ pipe' = <<>> /\ artifact' = message.cells
        BY <1>10, <2>1, <3>3 DEF MessageReceived, Ends
      <4>2. message.cells \in Fitted
        BY <2>2, <3>3 DEF Message
      <4> QED
        BY <1>dead, <1>none, <4>1, <4>2
    <3> QED
      BY <2>2, <3>1, <3>2, <3>3 DEF Message
  <2> QED
    BY <1>0, <1>10, <2>3 DEF TrainingInv, RowsInScope, MessageReceived
<1>11. CASE StoreChanges
  <2>1. PICK c \in DOMAIN rows : \E w \in RowsOf[c] \ {rows[c]} : rows' = [rows EXCEPT ![c] = w]
    BY <1>11 DEF StoreChanges
  <2>2. PICK w \in RowsOf[c] : rows' = [rows EXCEPT ![c] = w]
    BY <2>1
  <2>3. w \in AnyRows
    <3>1. c \in DOMAIN RowsOf
      BY <1>0, ScopeHasRows DEF RowsInScope
    <3>2. w \in StoredRows
      BY <3>1, Zenon DEF StoredRows
    <3> QED
      BY <3>2 DEF AnyRows
  <2>4. RowsInScope'
    BY <1>0, <2>2, <2>3 DEF RowsInScope
  <2> QED
    BY <1>0, <1>11, <2>4 DEF TrainingInv, WorkerOnTrack, Replayed, StoreChanges
<1> QED
  BY <1>1, <1>2, <1>3, <1>4, <1>5, <1>6, <1>7, <1>8, <1>9, <1>10, <1>11 DEF TrainingNext

TrainingSpec == TrainingInit /\ [][TrainingNext]_trainingVars

\* Every classifier that is ever written was fitted on the delayed labels of the
\* very rows its invocation read, replayed or reloaded, with every required class
\* among them, whatever invocations were cut off and whatever the store did.
THEOREM ClassifierIsTrainedOnItsRows == TrainingSpec => []TrainedOnItsRows
<1>1. TrainingInv => TrainedOnItsRows
  <2> SUFFICES ASSUME artifact \in Fitted
               PROVE  /\ RequiredClasses \subseteq ClassesOf(artifact)
                      /\ \A c \in DOMAIN artifact :
                            artifact[c].samples = SamplesOf(artifact[c].rows)
    BY DEF TrainingInv, TrainedOnItsRows
  <2>1. artifact \in FitInput /\ RequiredClasses \subseteq ClassesOf(artifact)
    BY DEF Fitted
  <2> QED
    BY <2>1, FitInputIsTrue
<1> QED
  BY <1>1, TrainingStarts, TrainingGoesOn, PTL DEF TrainingSpec

-----------------------------------------------------------------------------
(* The context of a cell.                                                  *)

UncertaintyFact == [at : Nat, bar : Int, version : Nat, level : Nat]
MadeContext == [bar : Int, at : Nat, version : Nat, level : Nat, rising : BOOLEAN]

\* The facts a context is compared with.
Before(one) == {i \in DOMAIN trend : /\ trend[i].bar = one.bar - 1
                                     /\ trend[i].version = one.version
                                     /\ trend[i].at < CloseOf(one.bar)}

\* The trend of a context is the comparison with the last of them.
TrendIsTrue(one) ==
  \E m \in Before(one) : /\ \A i \in Before(one) : i <= m
                         /\ one.rising <=> one.level > trend[m].level

CycleStages == {"rest", "fetch", "measure", "stamp", "funding", "venue", "prepare", "decide"}

ContextInv ==
  /\ tick \in Nat /\ version \in Nat /\ trend \in Seq(UncertaintyFact)
  /\ work.stage \in CycleStages
  /\ work = [ stage |-> work.stage, moment |-> work.moment, fetched |-> work.fetched,
              caughtUp |-> work.caughtUp, asOf |-> work.asOf, failed |-> work.failed,
              ready |-> work.ready, refusal |-> work.refusal ]
  /\ work.moment \in Nat /\ work.moment <= tick /\ work.asOf \in Nat /\ work.asOf <= tick
  /\ work.stage # "decide" => work.ready = NoContext
  /\ work.ready # NoContext => work.ready \in MadeContext /\ TrendIsTrue(work.ready)
  /\ \A c \in contexts :
        /\ c.made \in MadeContext /\ c.at \in Nat /\ c.at <= tick
        /\ CloseOf(c.made.bar) <= c.at /\ TrendIsTrue(c.made)
        /\ work.stage \in {"funding", "venue", "prepare"} => c.at <= work.asOf

LEMMA BoundaryIsBefore ==
  ASSUME NEW t \in Nat
  PROVE  Boundary(t) \in Nat /\ CloseOf(Boundary(t)) <= t
<1>1. BarTicks \in Nat \ {0}
  BY ContextAssumption
<1>2. t \div BarTicks \in Nat /\ BarTicks * (t \div BarTicks) <= t
  BY <1>1, Division
<1>3. PICK q \in Nat : q = t \div BarTicks
  BY <1>2
<1>4. q * BarTicks = BarTicks * q
  BY <1>1
<1> QED
  BY <1>2, <1>3, <1>4 DEF Boundary, CloseOf

\* A later fact does not reach the comparison of an earlier context.
LEMMA LaterFactChangesNothing ==
  ASSUME trend \in Seq(UncertaintyFact), NEW fact \in UncertaintyFact,
         trend' = Append(trend, fact) \/ trend' = trend,
         NEW one, one \in MadeContext, TrendIsTrue(one), CloseOf(one.bar) <= fact.at
  PROVE  TrendIsTrue(one)'
<1>1. CASE trend' = trend
  BY <1>1 DEF TrendIsTrue, Before
<1>2. CASE trend' = Append(trend, fact)
  <2>1. PICK n \in Nat : n = Len(trend)
    OBVIOUS
  <2>2. /\ DOMAIN trend = 1 .. n /\ DOMAIN trend' = 1 .. n + 1
        /\ trend'[n + 1] = fact
        /\ \A i \in 1 .. n : trend'[i] = trend[i]
    BY <1>2, <2>1
  <2>3. ~(fact.at < CloseOf(one.bar))
    <3>1. PICK c : c = CloseOf(one.bar)
      OBVIOUS
    <3>2. BarTicks \in Nat /\ one.bar \in Int
      BY ContextAssumption DEF MadeContext
    <3>3. c \in Int /\ fact.at \in Nat /\ c <= fact.at
      BY <3>1, <3>2 DEF CloseOf, UncertaintyFact
    <3> QED
      BY <3>1, <3>3
  <2>4. \A i \in 1 .. n + 1 : i \in 1 .. n \/ i = n + 1
    OBVIOUS
  <2>5. Before(one)' = Before(one)
    <3>1. ASSUME NEW i \in 1 .. n
          PROVE  i \in Before(one)' <=> i \in Before(one)
      BY <2>2, <3>1 DEF Before
    <3>2. n + 1 \notin Before(one)'
      BY <2>2, <2>3 DEF Before
    <3>3. Before(one)' \subseteq 1 .. n + 1 /\ Before(one) \subseteq 1 .. n
      BY <2>2 DEF Before
    <3> QED
      BY <2>4, <3>1, <3>2, <3>3
  <2>6. PICK m \in Before(one) : /\ \A i \in Before(one) : i <= m
                                 /\ one.rising <=> one.level > trend[m].level
    BY DEF TrendIsTrue
  <2>7. m \in 1 .. n
    BY <2>2, <2>6 DEF Before
  <2>8. trend'[m] = trend[m]
    BY <2>2, <2>7
  <2> QED
    BY <2>5, <2>6, <2>8 DEF TrendIsTrue
<1> QED
  BY <1>1, <1>2

LEMMA TrueTrendIsOverOneBar ==
  ASSUME trend \in Seq(UncertaintyFact), NEW one, TrendIsTrue(one)
  PROVE  Before(one) # {} /\ (one.rising <=> one.level > trend[Max(Before(one))].level)
<1>1. PICK m \in Before(one) : /\ \A i \in Before(one) : i <= m
                               /\ one.rising <=> one.level > trend[m].level
  BY DEF TrendIsTrue
<1>2. Before(one) \subseteq Nat
  BY DEF Before
<1>3. \A i \in Before(one) : (\A y \in Before(one) : i >= y) => i = m
  BY <1>1, <1>2
<1>4. \A y \in Before(one) : m >= y
  BY <1>1, <1>2
<1>5. Max(Before(one)) = m
  BY <1>1, <1>3, <1>4 DEF Max
<1> QED
  BY <1>1, <1>5

\* What prepare composes: the observation before the close is one bar back.
LEMMA MadeIsTrue ==
  ASSUME trend \in Seq(UncertaintyFact), NEW at \in Nat, NEW level \in Nat, version \in Nat,
         NEW made, NEW prior,
         prior = LatestAt(trend, CloseOf(Boundary(at)) - 1),
         \E f \in prior : f.version = version /\ f.bar + 1 = Boundary(at),
         made = [ bar |-> Boundary(at), at |-> at, version |-> version, level |-> level,
                  rising |-> \E f \in prior : level > f.level ]
  PROVE  made \in MadeContext /\ TrendIsTrue(made)
<1>1. PICK b : b = Boundary(at)
  OBVIOUS
<1>2. b \in Nat
  BY <1>1, BoundaryIsBefore
<1>3. PICK c : c = CloseOf(b)
  OBVIOUS
<1>4. c \in Nat
  BY SMTT(30), <1>2, <1>3, ContextAssumption DEF CloseOf
<1>5. PICK f \in prior : f.version = version /\ f.bar + 1 = b
  BY <1>1
<1>6. PICK m \in DOMAIN trend :
         /\ trend[m].at <= c - 1 /\ f = trend[m]
         /\ \A j \in DOMAIN trend : trend[j].at <= c - 1 => j <= m
  BY <1>1, <1>3, <1>5 DEF LatestAt
<1>7. \A i \in DOMAIN trend : /\ i \in Nat /\ trend[i].at \in Nat /\ trend[i].bar \in Int
                              /\ trend[i].level \in Nat
  <2>1. \A i \in DOMAIN trend : trend[i] \in UncertaintyFact /\ i \in Nat
    OBVIOUS
  <2> QED
    BY <2>1 DEF UncertaintyFact
<1>8. \A i \in DOMAIN trend : trend[i].at < c <=> trend[i].at <= c - 1
  BY <1>4, <1>7
<1>9. prior = {trend[m]}
  <2>1. ASSUME NEW i \in DOMAIN trend, trend[i].at <= c - 1,
               \A j \in DOMAIN trend : trend[j].at <= c - 1 => j <= i
        PROVE  i = m
    BY <1>6, <1>7, <2>1
  <2> QED
    BY <1>1, <1>3, <1>6, <2>1 DEF LatestAt
<1>10. made.bar = b /\ made.version = version /\ made.level = level
       /\ made.rising = (\E g \in prior : level > g.level)
  BY <1>1
<1>11. m \in Before(made)
  BY <1>2, <1>3, <1>5, <1>6, <1>7, <1>8, <1>10 DEF Before
<1>12. \A i \in Before(made) : i <= m
  BY <1>3, <1>6, <1>8, <1>10 DEF Before
<1>13. made.rising <=> made.level > trend[m].level
  BY <1>9, <1>10
<1>14. made \in MadeContext
  <2>1. made.rising \in BOOLEAN
    BY <1>10
  <2> QED
    BY <1>1, <1>2, <1>10, <2>1 DEF MadeContext
<1> QED
  BY <1>11, <1>12, <1>13, <1>14 DEF TrendIsTrue

\* What the invariant says of the cycle in progress, and of the saved contexts.
WorkOk ==
  /\ work.stage \in CycleStages
  /\ work = [ stage |-> work.stage, moment |-> work.moment, fetched |-> work.fetched,
              caughtUp |-> work.caughtUp, asOf |-> work.asOf, failed |-> work.failed,
              ready |-> work.ready, refusal |-> work.refusal ]
  /\ work.moment \in Nat /\ work.moment <= tick /\ work.asOf \in Nat /\ work.asOf <= tick
  /\ work.stage # "decide" => work.ready = NoContext

SavedOk(c) ==
  /\ c.made \in MadeContext /\ c.at \in Nat /\ c.at <= tick
  /\ CloseOf(c.made.bar) <= c.at /\ TrendIsTrue(c.made)
  /\ work.stage \in {"funding", "venue", "prepare"} => c.at <= work.asOf

LEMMA ContextInvParts ==
  ContextInv <=>
    /\ tick \in Nat /\ version \in Nat /\ trend \in Seq(UncertaintyFact) /\ WorkOk
    /\ work.ready # NoContext => work.ready \in MadeContext /\ TrendIsTrue(work.ready)
    /\ \A c \in contexts : SavedOk(c)
BY DEF ContextInv, WorkOk, SavedOk

LEMMA SameTrend ==
  ASSUME trend' = trend, NEW one, TrendIsTrue(one)
  PROVE  TrendIsTrue(one)'
BY DEF TrendIsTrue, Before

\* A step of the cycle that leaves the clock, the trend and the contexts alone
\* and decides nothing.
LEMMA PlainStage ==
  ASSUME ContextInv, NEW stage2 \in CycleStages \ {"decide", "funding"},
         stage2 \in {"venue", "prepare"} => work.stage \in {"funding", "venue"},
         NEW fetched2, NEW caught2, NEW failed2, work.stage # "decide",
         work' = [ stage |-> stage2, moment |-> work.moment, fetched |-> fetched2,
                   caughtUp |-> caught2, asOf |-> work.asOf, failed |-> failed2,
                   ready |-> NoContext, refusal |-> work.refusal ],
         UNCHANGED <<tick, version, trend, contexts>>
  PROVE  ContextInv'
<1>1. /\ tick \in Nat /\ version \in Nat /\ trend \in Seq(UncertaintyFact) /\ WorkOk
      /\ \A c \in contexts : SavedOk(c)
  BY ContextInvParts
<1>2. work' = [ stage |-> stage2, moment |-> work.moment, fetched |-> fetched2,
                caughtUp |-> caught2, asOf |-> work.asOf, failed |-> failed2,
                ready |-> NoContext, refusal |-> work.refusal ]
  OBVIOUS
<1>3. WorkOk'
  BY <1>1, <1>2 DEF WorkOk
<1>4. work'.ready = NoContext /\ work'.stage = stage2 /\ work'.asOf = work.asOf
  BY ONLY <1>2, Zenon
<1>5. ASSUME NEW c \in contexts PROVE SavedOk(c)'
  <2>1. SavedOk(c)
    BY <1>1
  <2>2. TrendIsTrue(c.made)'
    BY <2>1, SameTrend DEF SavedOk
  <2>3. stage2 \in {"venue", "prepare", "funding"} => c.at <= work.asOf
    BY <2>1 DEF SavedOk
  <2> QED
    BY <1>4, <2>1, <2>2, <2>3 DEF SavedOk
<1> QED
  BY <1>1, <1>3, <1>4, <1>5 DEF ContextInv, WorkOk, SavedOk

Idle(stage2, moment2) ==
  [ stage |-> stage2, moment |-> moment2, fetched |-> {}, caughtUp |-> TRUE, asOf |-> 0,
    failed |-> {}, ready |-> NoContext, refusal |-> "none" ]

\* The cycle comes to rest, or starts, or dies.
LEMMA RestStage ==
  ASSUME ContextInv, NEW stage2 \in {"rest", "fetch"}, NEW moment2 \in Nat, moment2 <= tick,
         work' = Idle(stage2, moment2),
         version' \in Nat, UNCHANGED <<tick, trend>>, contexts' \subseteq contexts
  PROVE  ContextInv'
<1>1. /\ tick \in Nat /\ trend \in Seq(UncertaintyFact)
      /\ \A c \in contexts : SavedOk(c)
  BY ContextInvParts
<1>2. PICK yes, z, none : yes = TRUE /\ z = {} /\ none = "none"
  OBVIOUS
<1>5. work' = [ stage |-> stage2, moment |-> moment2, fetched |-> z, caughtUp |-> yes,
                asOf |-> 0, failed |-> z, ready |-> NoContext, refusal |-> none ]
  BY <1>2 DEF Idle
<1>3. work'.ready = NoContext /\ work'.stage = stage2
  BY ONLY <1>5, Zenon
<1>6. WorkOk'
  <2>1. work'.stage \in CycleStages /\ work'.moment = moment2 /\ work'.asOf = 0
    <3>1. work'.moment = moment2 /\ work'.asOf = 0
      BY ONLY <1>5, Zenon
    <3>2. stage2 \in CycleStages
      BY DEF CycleStages
    <3> QED
      BY <1>3, <3>1, <3>2, Zenon
  <2>2. tick' = tick
    OBVIOUS
  <2>3. work' = [ stage |-> work'.stage, moment |-> work'.moment, fetched |-> work'.fetched,
                  caughtUp |-> work'.caughtUp, asOf |-> work'.asOf, failed |-> work'.failed,
                  ready |-> work'.ready, refusal |-> work'.refusal ]
    BY ONLY <1>5
  <2> QED
    BY <1>1, <1>3, <2>1, <2>2, <2>3 DEF WorkOk
<1>4. ASSUME NEW c \in contexts' PROVE SavedOk(c)'
  <2>1. SavedOk(c)
    BY <1>1
  <2>2. TrendIsTrue(c.made)'
    BY <2>1, SameTrend DEF SavedOk
  <2> QED
    BY <1>3, <2>1, <2>2 DEF SavedOk
<1> QED
  BY <1>1, <1>3, <1>4, <1>6 DEF ContextInv, WorkOk, SavedOk

LEMMA MinOfTwo ==
  ASSUME NEW a \in Int, NEW b \in Int
  PROVE  Min({a, b}) = IF a < b THEN a ELSE b
<1>1. PICK m : m = IF a < b THEN a ELSE b
  OBVIOUS
<1>2. m \in {a, b} /\ \A y \in {a, b} : m <= y
  BY <1>1
<1>3. \A x \in {a, b} : (\A y \in {a, b} : x <= y) => x = m
  BY <1>2
<1> QED
  BY <1>1, <1>2, <1>3 DEF Min

\* The fields of the cycle in progress while nothing is decided.
LEMMA WorkFields ==
  ASSUME ContextInv, work.stage # "decide"
  PROVE  /\ work = [ stage |-> work.stage, moment |-> work.moment, fetched |-> work.fetched,
                     caughtUp |-> work.caughtUp, asOf |-> work.asOf, failed |-> work.failed,
                     ready |-> work.ready, refusal |-> work.refusal ]
         /\ work.ready = NoContext
BY DEF ContextInv

LEMMA CatchUpKeepsContext ==
  ASSUME ContextInv,
         CatchUpFetches \/ CatchUpFails \/ QualityPublished \/ QualityNotPublished
  PROVE  ContextInv'
<1>1. UNCHANGED <<tick, version, trend, contexts>>
  BY DEF CatchUpFetches, CatchUpFails, QualityPublished, QualityNotPublished, factVars
<1>2. work.stage \in {"fetch", "measure"}
  BY DEF CatchUpFetches, CatchUpFails, QualityPublished, QualityNotPublished, At
<1>3. PICK no : no = FALSE
  BY Zenon
<1>4. \E stage2 \in {"stamp", "measure"} : \E fetched2, caught2 :
         work' = [work EXCEPT !.stage = stage2, !.fetched = fetched2, !.caughtUp = caught2]
  <2>1. CASE CatchUpFetches
    <3>1. PICK missing : \E stage2 \in {"stamp", "measure"} :
             work' = [work EXCEPT !.stage = stage2, !.fetched = missing]
      BY Zenon, <2>1 DEF CatchUpFetches
    <3>3. PICK stage2 \in {"stamp", "measure"} :
             work' = [work EXCEPT !.stage = stage2, !.fetched = missing]
      BY <3>1
    <3>2. work' = [work EXCEPT !.stage = stage2, !.fetched = missing, !.caughtUp = work.caughtUp]
      BY <1>2, <3>3, WorkFields
    <3> QED
      BY ZenonT(40), <3>2
  <2>2. CASE CatchUpFails
    <3>1. work' = [work EXCEPT !.stage = "stamp", !.caughtUp = no]
      BY <1>3, <2>2 DEF CatchUpFails
    <3>2. work' = [work EXCEPT !.stage = "stamp", !.fetched = work.fetched, !.caughtUp = no]
      BY <1>2, <3>1, WorkFields
    <3> QED
      BY <3>2
  <2>3. CASE QualityPublished \/ QualityNotPublished
    <3>1. work' = [work EXCEPT !.stage = "stamp"]
      BY <2>3 DEF QualityPublished, QualityNotPublished
    <3>2. work' = [work EXCEPT !.stage = "stamp", !.fetched = work.fetched,
                               !.caughtUp = work.caughtUp]
      BY <1>2, <3>1, WorkFields
    <3> QED
      BY <3>2
  <2> QED
    BY <2>1, <2>2, <2>3
<1>8. PICK stage2 \in {"stamp", "measure"} : \E fetched2, caught2 :
         work' = [work EXCEPT !.stage = stage2, !.fetched = fetched2, !.caughtUp = caught2]
  BY <1>4
<1>5. PICK fetched2, caught2 :
         work' = [work EXCEPT !.stage = stage2, !.fetched = fetched2, !.caughtUp = caught2]
  BY <1>8
<1>6. work' = [ stage |-> stage2, moment |-> work.moment, fetched |-> fetched2,
                caughtUp |-> caught2, asOf |-> work.asOf, failed |-> work.failed,
                ready |-> NoContext, refusal |-> work.refusal ]
  BY <1>2, <1>5, WorkFields
<1>7. stage2 \in CycleStages \ {"decide", "funding"} /\ stage2 \notin {"venue", "prepare"}
  BY <1>8 DEF CycleStages
<1> QED
  BY <1>1, <1>2, <1>6, <1>7, PlainStage

LEMMA RefreshKeepsContext ==
  ASSUME ContextInv,
         \E ok \in BOOLEAN : FundingRefreshed(ok) \/ VenueRefreshed(ok)
  PROVE  ContextInv'
<1>1. UNCHANGED <<tick, version, trend, contexts>> /\ work.stage \in {"funding", "venue"}
  BY DEF FundingRefreshed, VenueRefreshed, At
<1>5. PICK stage2 \in {"venue", "prepare"} : \E failed2 :
         work' = [work EXCEPT !.stage = stage2, !.failed = failed2]
  BY DEF FundingRefreshed, VenueRefreshed
<1>2. PICK failed2 : work' = [work EXCEPT !.stage = stage2, !.failed = failed2]
  BY <1>5
<1>3. work' = [ stage |-> stage2, moment |-> work.moment, fetched |-> work.fetched,
                caughtUp |-> work.caughtUp, asOf |-> work.asOf, failed |-> failed2,
                ready |-> NoContext, refusal |-> work.refusal ]
  BY <1>1, <1>2, WorkFields
<1>4. stage2 \in CycleStages \ {"decide", "funding"}
  BY <1>5 DEF CycleStages
<1> QED
  BY <1>1, <1>3, <1>4, PlainStage

LEMMA AtRestFields ==
  \A x : [AtRest EXCEPT !.moment = x] = Idle("rest", x)
         /\ [AtRest EXCEPT !.stage = "fetch", !.moment = x] = Idle("fetch", x)
         /\ AtRest = Idle("rest", 0)
<1>1. PICK yes, z, none : yes = TRUE /\ z = {} /\ none = "none"
  OBVIOUS
<1>2. \A s, x : Idle(s, x) = [ stage |-> s, moment |-> x, fetched |-> z, caughtUp |-> yes,
                               asOf |-> 0, failed |-> z, ready |-> NoContext,
                               refusal |-> none ]
  BY <1>1 DEF Idle
<1>3. ASSUME NEW x, NEW e, e = [AtRest EXCEPT !.moment = x]
      PROVE  e = [ stage |-> "rest", moment |-> x, fetched |-> z, caughtUp |-> yes,
                   asOf |-> 0, failed |-> z, ready |-> NoContext, refusal |-> none ]
  BY <1>1, <1>3 DEF AtRest
<1>4. ASSUME NEW x, NEW e, e = [AtRest EXCEPT !.stage = "fetch", !.moment = x]
      PROVE  e = [ stage |-> "fetch", moment |-> x, fetched |-> z, caughtUp |-> yes,
                   asOf |-> 0, failed |-> z, ready |-> NoContext, refusal |-> none ]
  BY <1>1, <1>4 DEF AtRest
<1>5. AtRest = [ stage |-> "rest", moment |-> 0, fetched |-> z, caughtUp |-> yes,
                 asOf |-> 0, failed |-> z, ready |-> NoContext, refusal |-> none ]
  BY <1>1 DEF AtRest
<1> QED
  BY ONLY <1>2, <1>3, <1>4, <1>5, Zenon

LEMMA RestKeepsContext ==
  ASSUME ContextInv, CatchUpStarts \/ CellDecided \/ ProcessDies
  PROVE  ContextInv'
<1>1. /\ tick \in Nat /\ version \in Nat /\ work.moment \in Nat /\ work.moment <= tick
  BY DEF ContextInv
<1>2. CASE CatchUpStarts
  <2>1. work' = Idle("fetch", tick) /\ UNCHANGED <<tick, version, trend, contexts>>
    BY <1>2, AtRestFields DEF CatchUpStarts, factVars
  <2>2. /\ "fetch" \in {"rest", "fetch"} /\ tick <= tick /\ version' \in Nat
        /\ contexts' \subseteq contexts
    BY <1>1, <2>1
  <2> QED
    BY <1>1, <2>1, <2>2, RestStage
<1>4. CASE CellDecided
  <2>1. work' = Idle("rest", work.moment)
    BY <1>4, AtRestFields DEF CellDecided, Resting
  <2>2. UNCHANGED <<tick, version, trend, contexts>>
    BY <1>4 DEF CellDecided
  <2> QED
    BY <1>1, <2>1, <2>2, RestStage
<1>5. CASE ProcessDies
  <2>1. work' = Idle("rest", 0)
    BY <1>5, AtRestFields DEF ProcessDies
  <2>2. UNCHANGED <<tick, trend, contexts>>
    BY <1>5 DEF ProcessDies, factVars
  <2>3. version' \in Nat
    <3>1. MaxVersions \in Nat
      BY ContextAssumption
    <3>2. PICK a \in Int : a = Min({version + 1, MaxVersions})
      BY <1>1, <3>1, MinOfTwo
    <3>3. PICK b \in Int : b = Max({version, a})
      BY <1>1, MaxOfTwo
    <3>4. version' \in version .. b
      BY <1>5, <3>2, <3>3 DEF ProcessDies
    <3> QED
      BY <1>1, <3>3, <3>4
  <2>4. 0 \in Nat /\ 0 <= tick
    BY <1>1
  <2> QED
    BY <2>1, <2>2, <2>3, <2>4, RestStage
<1> QED
  BY <1>2, <1>4, <1>5

LEMMA StampKeepsContext ==
  ASSUME ContextInv, Stamped
  PROVE  ContextInv'
<1>1. /\ tick \in Nat /\ version \in Nat /\ trend \in Seq(UncertaintyFact) /\ WorkOk
      /\ \A c \in contexts : SavedOk(c)
  BY ContextInvParts
<1>2. PICK m : m = work.moment
  OBVIOUS
<1>3. m \in Nat /\ m <= tick
  BY <1>1, <1>2 DEF WorkOk
<1>4. UNCHANGED <<tick, version, trend>> /\ contexts' = {c \in contexts : c.at >= tick}
      /\ work.stage = "stamp"
  BY DEF Stamped, At
<1>5. CASE ~(Boundary(m) > lastClose)
  <2>1. work' = [AtRest EXCEPT !.moment = m]
    BY <1>2, <1>5 DEF Stamped, Resting
  <2>2. work' = Idle("rest", m)
    BY <2>1, AtRestFields
  <2>3. contexts' \subseteq contexts /\ version' \in Nat
    BY <1>1, <1>4
  <2> QED
    BY <1>3, <1>4, <2>2, <2>3, RestStage
<1>6. CASE Boundary(m) > lastClose
  <2>1. PICK d : d = Max({CloseOf(Boundary(m)), tick})
    OBVIOUS
  <2>2. d = tick
    <3>1. PICK q \in Nat : q = Boundary(m)
      BY <1>3, BoundaryIsBefore
    <3>2. PICK e : e = CloseOf(q)
      OBVIOUS
    <3>3. e \in Int
      BY <3>1, <3>2, ContextAssumption DEF CloseOf
    <3>4. e <= m
      BY <1>3, <3>1, <3>2, BoundaryIsBefore
    <3>5. d = Max({e, tick})
      BY <2>1, <3>1, <3>2
    <3>6. e <= tick
      BY <1>1, <1>3, <3>3, <3>4
    <3> QED
      BY <1>1, <3>3, <3>5, <3>6, MaxOfTwo
  <2>3. work' = [work EXCEPT !.stage = "funding", !.asOf = tick]
    BY <1>2, <1>6, <2>1, <2>2 DEF Stamped
  <2>4. work' = [ stage |-> "funding", moment |-> m, fetched |-> work.fetched,
                  caughtUp |-> work.caughtUp, asOf |-> tick, failed |-> work.failed,
                  ready |-> NoContext, refusal |-> work.refusal ]
    BY <1>2, <1>4, <2>3, WorkFields
  <2>5. work'.stage = "funding" /\ work'.moment = m /\ work'.asOf = tick
        /\ work'.ready = NoContext
    BY ONLY <2>4, Zenon
  <2>6. WorkOk'
    <3>1. work' = [ stage |-> work'.stage, moment |-> work'.moment, fetched |-> work'.fetched,
                    caughtUp |-> work'.caughtUp, asOf |-> work'.asOf, failed |-> work'.failed,
                    ready |-> work'.ready, refusal |-> work'.refusal ]
      BY ONLY <2>4
    <3>2. work'.stage \in CycleStages
      BY <2>5 DEF CycleStages
    <3> QED
      BY <1>1, <1>3, <1>4, <2>5, <3>1, <3>2 DEF WorkOk
  <2>7. ASSUME NEW c \in contexts' PROVE SavedOk(c)'
    <3>1. SavedOk(c) /\ c \in contexts
      BY <1>1, <1>4
    <3>2. TrendIsTrue(c.made)'
      BY <1>4, <3>1, SameTrend DEF SavedOk
    <3> QED
      BY <1>4, <2>5, <3>1, <3>2 DEF SavedOk
  <2> QED
    BY <1>1, <1>4, <2>5, <2>6, <2>7 DEF ContextInv, WorkOk, SavedOk
<1> QED
  BY <1>5, <1>6

\* A context that may be saved or handed on at `at`.
MayBeUsed(one, at) == one \in MadeContext /\ CloseOf(one.bar) <= at /\ TrendIsTrue(one)

LEMMA DecideStage ==
  ASSUME ContextInv, work.stage = "prepare",
         NEW refusal2, NEW ready2, ready2 = NoContext \/ MayBeUsed(ready2, work.asOf),
         work' = [work EXCEPT !.stage = "decide", !.refusal = refusal2, !.ready = ready2],
         NEW fact \in UncertaintyFact, fact.at = work.asOf,
         trend' = Append(trend, fact) \/ trend' = trend,
         NEW new, new.at = work.asOf, new.made = NoContext \/ MayBeUsed(new.made, work.asOf),
         new.made = NoContext => contexts' = contexts,
         contexts' \subseteq contexts \cup {new},
         UNCHANGED <<tick, version>>
  PROVE  ContextInv'
<1>1. /\ tick \in Nat /\ version \in Nat /\ trend \in Seq(UncertaintyFact) /\ WorkOk
      /\ \A c \in contexts : SavedOk(c)
  BY ContextInvParts
<1>2. work.asOf \in Nat /\ work.asOf <= tick /\ work.moment \in Nat /\ work.moment <= tick
  BY <1>1 DEF WorkOk
<1>3. work' = [ stage |-> "decide", moment |-> work.moment, fetched |-> work.fetched,
                caughtUp |-> work.caughtUp, asOf |-> work.asOf, failed |-> work.failed,
                ready |-> ready2, refusal |-> refusal2 ]
  BY WorkFields
<1>4. work'.stage = "decide" /\ work'.moment = work.moment /\ work'.asOf = work.asOf
      /\ work'.ready = ready2
  BY ONLY <1>3, Zenon
<1>5. trend' \in Seq(UncertaintyFact)
  BY <1>1
<1>6. WorkOk'
  <2>1. work' = [ stage |-> work'.stage, moment |-> work'.moment, fetched |-> work'.fetched,
                  caughtUp |-> work'.caughtUp, asOf |-> work'.asOf, failed |-> work'.failed,
                  ready |-> work'.ready, refusal |-> work'.refusal ]
    BY ONLY <1>3
  <2>2. work'.stage \in CycleStages
    BY <1>4 DEF CycleStages
  <2>3. tick' = tick
    OBVIOUS
  <2> QED
    BY <1>2, <1>4, <2>1, <2>2, <2>3 DEF WorkOk
<1>7. ASSUME NEW one, MayBeUsed(one, work.asOf)
      PROVE  one \in MadeContext /\ CloseOf(one.bar) <= work.asOf /\ TrendIsTrue(one)'
  <2>1. one \in MadeContext /\ CloseOf(one.bar) <= fact.at /\ TrendIsTrue(one)
    BY <1>7 DEF MayBeUsed
  <2> QED
    BY <1>1, <2>1, LaterFactChangesNothing
<1>8. ASSUME NEW c \in contexts
      PROVE  SavedOk(c)'
  <2>1. /\ SavedOk(c) /\ c.at <= work.asOf
    BY <1>1 DEF SavedOk
  <2>2. c.made \in MadeContext /\ c.at \in Nat /\ CloseOf(c.made.bar) <= c.at
        /\ TrendIsTrue(c.made)
    BY <2>1 DEF SavedOk
  <2>3. CloseOf(c.made.bar) \in Int
    <3>1. c.made.bar \in Int /\ BarTicks \in Nat
      BY <2>2, ContextAssumption DEF MadeContext
    <3> QED
      BY <3>1 DEF CloseOf
  <2>4. CloseOf(c.made.bar) <= work.asOf
    BY <1>2, <2>1, <2>2, <2>3
  <2>5. TrendIsTrue(c.made)'
    BY <1>7, <2>2, <2>4 DEF MayBeUsed
  <2> QED
    BY <1>4, <2>1, <2>5 DEF SavedOk
<1>9. ASSUME NEW c \in contexts'
      PROVE  SavedOk(c)'
  <2>1. CASE c \in contexts
    BY <1>8, <2>1
  <2>2. CASE c \notin contexts
    <3>1. c = new /\ MayBeUsed(new.made, work.asOf)
      BY <2>2
    <3>2. c.made \in MadeContext /\ CloseOf(c.made.bar) <= c.at /\ TrendIsTrue(c.made)'
          /\ c.at = work.asOf
      BY <1>7, <3>1
    <3> QED
      BY <1>2, <1>4, <3>2 DEF SavedOk
  <2> QED
    BY <2>1, <2>2
<1>10. (work.ready # NoContext => work.ready \in MadeContext /\ TrendIsTrue(work.ready))'
  BY <1>4, <1>7
<1>11. tick' \in Nat /\ version' \in Nat
  BY <1>1
<1> QED
  BY <1>5, <1>6, <1>9, <1>10, <1>11 DEF ContextInv, WorkOk, SavedOk

LEMMA PrepareKeepsContext ==
  ASSUME ContextInv, NEW level \in Levels, NEW broken, Prepare(level, broken)
  PROVE  ContextInv'
<1>1. PICK at : at = work.asOf
  OBVIOUS
<1>2. /\ at \in Nat /\ version \in Nat /\ trend \in Seq(UncertaintyFact) /\ level \in Nat
  BY <1>1, ContextAssumption DEF ContextInv
<1>3. PICK b : b = Boundary(at)
  OBVIOUS
<1>4. b \in Nat /\ CloseOf(b) <= at
  BY <1>2, <1>3, BoundaryIsBefore
<1>5. PICK current : current = [at |-> at, bar |-> b, version |-> version, level |-> level]
  OBVIOUS
<1>6. current \in UncertaintyFact /\ current.at = at /\ current.version = version
      /\ current.bar = b
  BY <1>2, <1>4, <1>5 DEF UncertaintyFact
<1>7. PICK prior : prior = LatestAt(trend, CloseOf(b) - 1)
  OBVIOUS
<1>8. PICK early, late : /\ early = EarlyRefusal(at, broken)
                         /\ late = LateRefusal(at, prior, current, broken)
  OBVIOUS
<1>9. PICK made : made = [ bar |-> b, at |-> at, version |-> version, level |-> level,
                           rising |-> \E f \in prior : level > f.level ]
  OBVIOUS
<1>10. PICK new : new = [at |-> at, print |-> Fingerprint(at), made |-> made]
  OBVIOUS
<1>11. /\ trend' = IF early = "none" THEN Append1(trend, current) ELSE trend
       /\ contexts' = IF early = "none" /\ late \in {"none", "shape"}
                      THEN contexts \cup {new} ELSE contexts
       /\ work' = [work EXCEPT !.stage = "decide",
                      !.refusal = IF early # "none" THEN early ELSE late,
                      !.ready = IF early = "none" /\ late = "none" THEN made ELSE NoContext]
       /\ UNCHANGED <<tick, version>> /\ work.stage = "prepare"
  BY <1>1, <1>3, <1>5, <1>7, <1>8, <1>9, <1>10 DEF Prepare, At
<1>12. trend' = Append(trend, current) \/ trend' = trend
  BY <1>11 DEF Append1
<1>13. ASSUME late \in {"none", "shape"}
       PROVE  MayBeUsed(made, at)
  <2>1. \E f \in prior : Comparable(f, current)
    BY <1>8, <1>13 DEF LateRefusal
  <2>2. \E f \in prior : f.version = version /\ f.bar + 1 = Boundary(at)
    BY <1>3, <1>6, <2>1 DEF Comparable
  <2>3. made \in MadeContext /\ TrendIsTrue(made)
    BY <1>2, <1>3, <1>7, <1>9, <2>2, MadeIsTrue
  <2>4. made.bar = b
    BY <1>9
  <2> QED
    BY <1>4, <2>3, <2>4 DEF MayBeUsed
<1>14. PICK refusal2, ready2 :
          /\ refusal2 = IF early # "none" THEN early ELSE late
          /\ ready2 = IF early = "none" /\ late = "none" THEN made ELSE NoContext
  OBVIOUS
<1>15. work' = [work EXCEPT !.stage = "decide", !.refusal = refusal2, !.ready = ready2]
  BY <1>11, <1>14
<1>16. ready2 = NoContext \/ MayBeUsed(ready2, work.asOf)
  BY <1>1, <1>13, <1>14
<1>17. CASE early = "none" /\ late \in {"none", "shape"}
  <2>1. contexts' \subseteq contexts \cup {new} /\ new.at = work.asOf /\ new.made = made
    BY <1>1, <1>10, <1>11, <1>17
  <2>2. MayBeUsed(new.made, work.asOf) /\ new.made # NoContext
    <3>1. MayBeUsed(new.made, work.asOf)
      BY <1>1, <1>13, <1>17, <2>1
    <3>2. "at" \in DOMAIN made /\ "at" \notin DOMAIN NoContext
      BY <1>9 DEF NoContext
    <3> QED
      BY <2>1, <3>1, <3>2
  <2> QED
    BY <1>1, <1>6, <1>11, <1>12, <1>15, <1>16, <2>1, <2>2, DecideStage
<1>18. CASE ~(early = "none" /\ late \in {"none", "shape"})
  <2>1. PICK no : no = [at |-> at, made |-> NoContext]
    OBVIOUS
  <2>2. no.at = work.asOf /\ no.made = NoContext
    BY <1>1, <2>1
  <2>3. contexts' = contexts /\ contexts' \subseteq contexts \cup {no}
    BY <1>11, <1>18
  <2> QED
    BY ZenonT(40), <1>1, <1>6, <1>11, <1>12, <1>15, <1>16, <2>2, <2>3, DecideStage
<1> QED
  BY <1>17, <1>18

LEMMA ReuseKeepsContext ==
  ASSUME ContextInv, PrepareSaved \/ NotPrepared
  PROVE  ContextInv'
<1>1. UNCHANGED <<tick, version, trend, contexts>> /\ work.stage = "prepare"
  BY DEF PrepareSaved, NotPrepared, At, factVars
<1>2. work.asOf \in Nat
  BY DEF ContextInv
<1>3. PICK fact : fact = [at |-> work.asOf, bar |-> 0, version |-> 0, level |-> 0]
  OBVIOUS
<1>4. fact \in UncertaintyFact /\ fact.at = work.asOf
  BY <1>2, <1>3 DEF UncertaintyFact
<1>5. PICK no : no = [at |-> work.asOf, made |-> NoContext]
  OBVIOUS
<1>6. no.at = work.asOf /\ no.made = NoContext /\ contexts' \subseteq contexts \cup {no}
  BY <1>1, <1>5
<1>7. CASE PrepareSaved
  <2>1. PICK c \in contexts :
           /\ c.at = work.asOf
           /\ work' = [work EXCEPT !.stage = "decide", !.ready = c.made]
    BY <1>7 DEF PrepareSaved
  <2>2. MayBeUsed(c.made, work.asOf)
    BY <2>1 DEF ContextInv, MayBeUsed
  <2>3. work' = [work EXCEPT !.stage = "decide", !.refusal = work.refusal, !.ready = c.made]
    BY <1>1, <2>1, WorkFields
  <2> QED
    BY <1>1, <1>4, <1>6, <2>2, <2>3, DecideStage
<1>8. CASE NotPrepared
  <2>1. work' = [work EXCEPT !.stage = "decide", !.refusal = "CATCH_UP_FAILED"]
    BY <1>8 DEF NotPrepared
  <2>2. work' = [work EXCEPT !.stage = "decide", !.refusal = "CATCH_UP_FAILED",
                             !.ready = work.ready]
    BY <1>1, <2>1, WorkFields
  <2>3. work.ready = NoContext
    BY <1>1, WorkFields
  <2> QED
    BY <1>1, <1>4, <1>6, <2>2, <2>3, DecideStage
<1> QED
  BY <1>7, <1>8

LEMMA ClockKeepsContext ==
  ASSUME ContextInv, ClockTicks \/ BackfillQuality \/ UNCHANGED contextVars
  PROVE  ContextInv'
<1>1. tick' \in {tick, tick + 1} /\ UNCHANGED <<version, trend, contexts, work>>
  BY DEF ClockTicks, BackfillQuality, contextVars, factVars
<1>2. /\ tick \in Nat /\ version \in Nat /\ trend \in Seq(UncertaintyFact) /\ WorkOk
      /\ work.ready # NoContext => work.ready \in MadeContext /\ TrendIsTrue(work.ready)
      /\ \A c \in contexts : SavedOk(c)
  BY ContextInvParts
<1>3. tick' \in Nat /\ \A n \in Nat : n <= tick => n <= tick'
  BY <1>1, <1>2
<1>4. WorkOk'
  BY <1>1, <1>2, <1>3 DEF WorkOk
<1>5. ASSUME NEW c \in contexts PROVE SavedOk(c)'
  <2>1. SavedOk(c)
    BY <1>2
  <2>2. TrendIsTrue(c.made)'
    BY <1>1, <2>1, SameTrend DEF SavedOk
  <2> QED
    BY <1>1, <1>3, <2>1, <2>2 DEF SavedOk
<1>6. work.ready # NoContext => work.ready \in MadeContext /\ TrendIsTrue(work.ready)'
  BY <1>1, <1>2, SameTrend
<1> QED
  BY <1>1, <1>2, <1>3, <1>4, <1>5, <1>6 DEF ContextInv, WorkOk, SavedOk

LEMMA ContextStarts == ContextInit => ContextInv
<1> SUFFICES ASSUME ContextInit PROVE ContextInv
  OBVIOUS
<1>1. tick \in Nat /\ version \in Nat
  <2>1. BarTicks \in Nat /\ Bootstrapped \in Nat
    BY ContextAssumption
  <2> QED
    BY <2>1 DEF ContextInit, CloseOf
<1>2. trend \in Seq(UncertaintyFact) /\ contexts = {}
  BY DEF ContextInit
<1>3. PICK yes, z, none : yes = TRUE /\ z = {} /\ none = "none"
  OBVIOUS
<1>4. work = [ stage |-> "rest", moment |-> 0, fetched |-> z, caughtUp |-> yes, asOf |-> 0,
               failed |-> z, ready |-> NoContext, refusal |-> none ]
  BY <1>3, AtRestFields DEF ContextInit, Idle
<1>5. work.stage = "rest" /\ work.moment = 0 /\ work.asOf = 0 /\ work.ready = NoContext
  BY ONLY <1>4, Zenon
<1>6. work = [ stage |-> work.stage, moment |-> work.moment, fetched |-> work.fetched,
               caughtUp |-> work.caughtUp, asOf |-> work.asOf, failed |-> work.failed,
               ready |-> work.ready, refusal |-> work.refusal ]
  BY ONLY <1>4
<1> QED
  BY <1>1, <1>2, <1>5, <1>6 DEF ContextInv, CycleStages

LEMMA ContextGoesOn ==
  ASSUME ContextInv, [ContextNext]_contextVars
  PROVE  ContextInv'
<1>1. CASE CatchUpFetches \/ CatchUpFails \/ QualityPublished \/ QualityNotPublished
  BY <1>1, CatchUpKeepsContext
<1>2. CASE \E ok \in BOOLEAN : FundingRefreshed(ok) \/ VenueRefreshed(ok)
  BY <1>2, RefreshKeepsContext
<1>3. CASE CatchUpStarts \/ CellDecided \/ ProcessDies
  BY <1>3, RestKeepsContext
<1>4. CASE Stamped
  BY <1>4, StampKeepsContext
<1>5. ASSUME NEW level \in Levels, NEW broken, Prepare(level, broken)
      PROVE  ContextInv'
  BY <1>5, PrepareKeepsContext
<1>6. CASE PrepareSaved \/ NotPrepared
  BY <1>6, ReuseKeepsContext
<1>7. CASE ClockTicks \/ BackfillQuality \/ UNCHANGED contextVars
  BY <1>7, ClockKeepsContext
<1> QED
  BY <1>1, <1>2, <1>3, <1>4, <1>5, <1>6, <1>7 DEF ContextNext

ContextSpec == ContextInit /\ [][ContextNext]_contextVars

\* The trend of every context that is handed on, new or saved, compares it with
\* the bar right before it under the same package and classifier, however cycles
\* fail, repeat or are cut off (engine_context.py, uncertainty_trend).
THEOREM TrendComparesNeighbours == ContextSpec => []TrendIsOverOneBar
<1>1. ContextInv => TrendIsOverOneBar
  <2> SUFFICES ASSUME ContextInv, work.ready # NoContext
               PROVE  /\ Before(work.ready) # {}
                      /\ work.ready.rising <=>
                           work.ready.level > trend[Max(Before(work.ready))].level
    BY DEF TrendIsOverOneBar, Before
  <2>1. trend \in Seq(UncertaintyFact) /\ TrendIsTrue(work.ready)
    BY DEF ContextInv
  <2> QED
    BY <2>1, TrueTrendIsOverOneBar
<1> QED
  BY <1>1, ContextStarts, ContextGoesOn, PTL DEF ContextSpec

-----------------------------------------------------------------------------
(* The PAPER account.  Fill rows never say more than the venue executed,   *)
(* an order never has more at the venue than its plan asked for, and       *)
(* outcome rows are in the order of their times.                           *)

AccountSpec == AccountInit /\ [][AccountNext]_accountVars

KernelVerdicts == {"NONE", "REJECT", "ALLOW", "REDUCE"}
PlanRow == [decision : KernelVerdicts, quantity : Int]
FillRow == [open : BOOLEAN, quantity : Int]
Outcome == [of : Proposals, pnl : Results, at : Nat]
MachineStates == FsmStates \ {"READY"}
Lots == [sent : BOOLEAN, resting : Nat, filled : Nat, closed : Nat]

Moved(b) == [i \in DOMAIN b |-> IF b[i].open THEN b[i].quantity ELSE -b[i].quantity]
Opened(b) == [i \in DOMAIN b |-> IF b[i].open THEN b[i].quantity ELSE 0]
Shut(b) == [i \in DOMAIN b |-> IF b[i].open THEN 0 ELSE b[i].quantity]

AccountTyped ==
  /\ closeAt \in Nat
  /\ plans \in [Proposals -> PlanRow]
  /\ history \in [Proposals -> Seq(MachineStates)]
  /\ booked \in [Proposals -> Seq(FillRow)]
  /\ order \in [Proposals -> Lots]

ResultsInTime ==
  /\ results \in Seq(Outcome)
  /\ \A i \in 1 .. Len(results) :
       /\ results[i].at <= closeAt + 1
       /\ \A j \in i .. Len(results) : results[i].at <= results[j].at

\* What a plan, the rows of its machine, its fill rows and the venue have in common.
Tallies(plan, steps, b, o) ==
  /\ plan = NoPlan => steps = <<>>
  /\ steps = <<>> => b = <<>> /\ ~o.sent
  /\ steps # <<>> => plan.quantity > 0
  /\ ~o.sent => o.resting = 0 /\ o.filled = 0
  /\ o.sent => o.resting + o.filled <= plan.quantity
  /\ o.closed <= o.filled
  /\ OpenedLots(b) <= o.filled /\ ShutLots(b) <= o.closed
  /\ SumOf(Moved(b)) = OpenedLots(b) - ShutLots(b)

AccountInv ==
  /\ AccountTyped /\ ResultsInTime
  /\ \A p \in Proposals : Tallies(plans[p], history[p], booked[p], order[p])

LEMMA SumIsTotal ==
  ASSUME NEW f
  PROVE  SumOf(f) = Total(f, DOMAIN f)
BY DEF SumOf, Total

\* A sum over positions grows by the term of the position that is added.
LEMMA SumGrows ==
  ASSUME NEW n \in Nat, NEW f, DOMAIN f = 1 .. n, NEW g, DOMAIN g = 1 .. n + 1,
         \A i \in 1 .. n : f[i] \in Int /\ g[i] = f[i], g[n + 1] \in Int
  PROVE  SumOf(f) \in Int /\ SumOf(g) \in Int /\ SumOf(g) = SumOf(f) + g[n + 1]
<1>1. PICK S : S = 1 .. n
  OBVIOUS
<1>2. PICK T : T = 1 .. n + 1
  OBVIOUS
<1>3. n + 1 \in T /\ T \ {n + 1} = S
  BY <1>1, <1>2
<1>4. IsFiniteSet(S) /\ IsFiniteSet(T)
  BY <1>1, <1>2, FS_Interval
<1>5. Summable(f, S) /\ Summable(g, S) /\ Summable(g, T)
  BY <1>1, <1>2, <1>4 DEF Summable
<1>6. Total(g, T) = g[n + 1] + Total(g, S) /\ Total(g, T) \in Int /\ Total(g, S) \in Int
  BY <1>3, <1>5, TotalByElement DEF Adds
<1>7. \A x \in S : f[x] <= g[x] /\ g[x] <= f[x]
  BY <1>1
<1>8. Total(f, S) <= Total(g, S) /\ Total(g, S) <= Total(f, S)
  BY <1>5, <1>7, TotalGrows
<1>9. Total(f, S) \in Int
  BY <1>5, TotalByElement DEF Adds
<1>10. Total(f, S) = Total(g, S)
  BY <1>6, <1>8, <1>9
<1>11. SumOf(f) = Total(f, S) /\ SumOf(g) = Total(g, T)
  BY <1>1, <1>2, SumIsTotal
<1> QED
  BY <1>6, <1>9, <1>10, <1>11

LEMMA SumIsInt ==
  ASSUME NEW n \in Nat, NEW f, DOMAIN f = 1 .. n, \A i \in 1 .. n : f[i] \in Int
  PROVE  SumOf(f) \in Int
<1>1. IsFiniteSet(1 .. n)
  BY FS_Interval
<1>2. Total(f, 1 .. n) \in Int
  BY <1>1, TotalIsInt
<1> QED
  BY <1>2, SumIsTotal

LEMMA LotsCounted ==
  \A b : OpenedLots(b) = SumOf(Opened(b)) /\ ShutLots(b) = SumOf(Shut(b))
BY DEF OpenedLots, ShutLots, SumOver, Opened, Shut

LEMMA NoFills ==
  SumOf(Moved(<<>>)) = 0 /\ OpenedLots(<<>>) = 0 /\ ShutLots(<<>>) = 0
<1>1. DOMAIN Moved(<<>>) = {} /\ DOMAIN Opened(<<>>) = {} /\ DOMAIN Shut(<<>>) = {}
  BY DEF Moved, Opened, Shut
<1> QED
  BY <1>1, SumIsTotal, TotalOfNone, LotsCounted

LEMMA BookSums ==
  ASSUME NEW b \in Seq(FillRow)
  PROVE  SumOf(Moved(b)) \in Int /\ OpenedLots(b) \in Int /\ ShutLots(b) \in Int
<1>1. PICK n \in Nat : n = Len(b)
  OBVIOUS
<1>2. \A i \in 1 .. n : b[i].open \in BOOLEAN /\ b[i].quantity \in Int
  <2>1. \A i \in 1 .. n : b[i] \in FillRow
    BY <1>1
  <2> QED
    BY <2>1 DEF FillRow
<1>3. DOMAIN Moved(b) = 1 .. n /\ DOMAIN Opened(b) = 1 .. n /\ DOMAIN Shut(b) = 1 .. n
  BY <1>1 DEF Moved, Opened, Shut
<1>4. \A i \in 1 .. n : Moved(b)[i] \in Int /\ Opened(b)[i] \in Int /\ Shut(b)[i] \in Int
  BY <1>1, <1>2 DEF Moved, Opened, Shut
<1> QED
  BY <1>3, <1>4, SumIsInt, LotsCounted

\* A fill row adds its quantity to the lots of its kind and to no other.
LEMMA BookGrows ==
  ASSUME NEW b \in Seq(FillRow), NEW opens \in BOOLEAN, NEW q \in Int
  PROVE  LET c == Append(b, [open |-> opens, quantity |-> q])
         IN  /\ c \in Seq(FillRow)
             /\ SumOf(Moved(c)) = SumOf(Moved(b)) + (IF opens THEN q ELSE -q)
             /\ OpenedLots(c) = OpenedLots(b) + (IF opens THEN q ELSE 0)
             /\ ShutLots(c) = ShutLots(b) + (IF opens THEN 0 ELSE q)
<1>1. PICK fill : fill = [open |-> opens, quantity |-> q]
  OBVIOUS
<1>2. PICK c : c = Append(b, fill)
  OBVIOUS
<1>3. fill \in FillRow /\ fill.open = opens /\ fill.quantity = q
  BY <1>1 DEF FillRow
<1>4. PICK n \in Nat : n = Len(b)
  OBVIOUS
<1>5. c \in Seq(FillRow) /\ DOMAIN b = 1 .. n /\ DOMAIN c = 1 .. n + 1
  BY <1>2, <1>3, <1>4
<1>6. (\A i \in 1 .. n : c[i] = b[i]) /\ c[n + 1] = fill
  BY <1>2, <1>3, <1>4
<1>7. \A i \in 1 .. n : b[i].open \in BOOLEAN /\ b[i].quantity \in Int
  <2>1. \A i \in 1 .. n : b[i] \in FillRow
    BY <1>4, <1>5
  <2> QED
    BY <2>1 DEF FillRow
<1>8. /\ DOMAIN Moved(b) = 1 .. n /\ DOMAIN Moved(c) = 1 .. n + 1
      /\ DOMAIN Opened(b) = 1 .. n /\ DOMAIN Opened(c) = 1 .. n + 1
      /\ DOMAIN Shut(b) = 1 .. n /\ DOMAIN Shut(c) = 1 .. n + 1
  BY <1>5 DEF Moved, Opened, Shut
<1>9. \A i \in 1 .. n : /\ Moved(b)[i] \in Int /\ Moved(c)[i] = Moved(b)[i]
                        /\ Opened(b)[i] \in Int /\ Opened(c)[i] = Opened(b)[i]
                        /\ Shut(b)[i] \in Int /\ Shut(c)[i] = Shut(b)[i]
  BY <1>5, <1>6, <1>7 DEF Moved, Opened, Shut
<1>10. /\ Moved(c)[n + 1] = IF opens THEN q ELSE -q
       /\ Opened(c)[n + 1] = IF opens THEN q ELSE 0
       /\ Shut(c)[n + 1] = IF opens THEN 0 ELSE q
  BY <1>3, <1>5, <1>6 DEF Moved, Opened, Shut
<1>11. Moved(c)[n + 1] \in Int /\ Opened(c)[n + 1] \in Int /\ Shut(c)[n + 1] \in Int
  BY <1>10
<1>12. /\ SumOf(Moved(c)) = SumOf(Moved(b)) + Moved(c)[n + 1]
       /\ SumOf(Opened(c)) = SumOf(Opened(b)) + Opened(c)[n + 1]
       /\ SumOf(Shut(c)) = SumOf(Shut(b)) + Shut(c)[n + 1]
  BY <1>8, <1>9, <1>11, SumGrows
<1> QED
  BY <1>1, <1>2, <1>5, <1>10, <1>12, LotsCounted

LEMMA RowsLeaveReady ==
  ASSUME NEW e \in LegalTransitions
  PROVE  e[3] \in MachineStates
BY DEF LegalTransitions, Edges, OpenStates, FsmStates, MachineStates

LEMMA MaxIsMax ==
  ASSUME NEW n \in Nat, NEW S \in SUBSET (0 .. n), S # {}
  PROVE  Max(S) \in S /\ \A y \in S : Max(S) >= y
<1>1. PICK top \in S : \A y \in S : top >= y
  <2>1. IsFiniteSet(S)
    <3>1. IsFiniteSet(0 .. n)
      BY FS_Interval
    <3> QED
      BY <3>1, FS_Subset
  <2> DEFINE F == {T \in SUBSET S : T # {} => \E x \in T : \A y \in T : x >= y}
  <2>2. {} \in F
    OBVIOUS
  <2>3. ASSUME NEW T \in SUBSET S, T # {}, \A x \in T : T \ {x} \in F
        PROVE  T \in F
    <3>1. PICK a \in T : TRUE
      BY <2>3
    <3>2. CASE T \ {a} = {}
      <4>1. \A y \in T : y = a /\ a >= y
        BY <3>2
      <4> QED
        BY <4>1
    <3>3. CASE T \ {a} # {}
      <4>1. T \ {a} \in F
        BY <2>3
      <4>2. PICK b \in T \ {a} : \A y \in T \ {a} : b >= y
        BY <3>3, <4>1
      <4>3. a \in Int /\ b \in Int /\ \A y \in T : y \in Int
        OBVIOUS
      <4>4. CASE a >= b
        <5>1. \A y \in T : a >= y
          BY <4>2, <4>3, <4>4
        <5> QED
          BY <5>1
      <4>5. CASE b > a
        <5>1. \A y \in T : b >= y
          BY <4>2, <4>3, <4>5
        <5> QED
          BY <5>1
      <4> QED
        BY <4>3, <4>4, <4>5
    <3> QED
      BY <3>2, <3>3
  <2>4. \A T \in SUBSET S : T \in F
    <3> HIDE DEF F
    <3> QED
      BY <2>1, <2>2, <2>3, EverySubset
  <2> QED
    BY <2>4
<1>2. \A x \in S : (\A y \in S : x >= y) => x = top
  BY <1>1
<1> QED
  BY <1>1, <1>2 DEF Max

-----------------------------------------------------------------------------
(* What a decision sees and answers.                                       *)

\* A decision sees the outcome rows of its time and before, in their order.
LEMMA ResultsSeen ==
  ASSUME ResultsInTime, NEW t \in Nat
  PROVE  /\ ResultsAt(t) \in Seq(Outcome)
         /\ \A i \in 1 .. Len(ResultsAt(t)) :
              /\ ResultsAt(t)[i].at \in Nat /\ ResultsAt(t)[i].at <= t
              /\ \A j \in i .. Len(ResultsAt(t)) : ResultsAt(t)[i].at <= ResultsAt(t)[j].at
<1>1. PICK n \in Nat : n = Len(results)
  BY DEF ResultsInTime
<1>2. \A i \in 1 .. n : /\ results[i].at \in Nat
                        /\ \A j \in i .. n : results[i].at <= results[j].at
  <2>1. \A i \in 1 .. n : results[i] \in Outcome
    BY <1>1 DEF ResultsInTime
  <2> QED
    BY <1>1, <2>1 DEF ResultsInTime, Outcome
<1> DEFINE past == {0} \cup {i \in DOMAIN results : results[i].at <= t}
<1>3. past \in SUBSET (0 .. n) /\ past # {}
  BY <1>1 DEF ResultsInTime
<1>4. PICK k : k = Max(past)
  OBVIOUS
<1>5. k \in past
  BY <1>3, <1>4, MaxIsMax
<1>6. k \in 0 .. n /\ (k > 0 => results[k].at <= t)
  BY <1>3, <1>5
<1>7. ResultsAt(t) = SubSeq(results, 1, k)
  BY <1>4 DEF ResultsAt
<1>8. /\ ResultsAt(t) \in Seq(Outcome) /\ Len(ResultsAt(t)) = k
      /\ \A i \in 1 .. k : ResultsAt(t)[i] = results[i]
  BY <1>1, <1>6, <1>7 DEF ResultsInTime
<1>9. \A i \in 1 .. k : results[i].at <= t
  BY <1>2, <1>6
<1> QED
  BY <1>2, <1>6, <1>8, <1>9

LEMMA BalanceIsInt ==
  ASSUME ResultsInTime, NEW t \in Nat
  PROVE  Balance(t) \in Int
<1>1. PICK w \in Seq(Outcome) : w = ResultsAt(t)
  BY ResultsSeen
<1>2. PICK n \in Nat : n = Len(w)
  OBVIOUS
<1>3. PICK f : f = [i \in DOMAIN w |-> w[i].pnl]
  OBVIOUS
<1>4. DOMAIN f = 1 .. n /\ \A i \in 1 .. n : f[i] \in Int
  <2>1. \A i \in 1 .. n : w[i] \in Outcome
    BY <1>2
  <2> QED
    <3>1. \A i \in 1 .. n : w[i].pnl \in Results
      BY <2>1 DEF Outcome
    <3>2. Results \subseteq Int
      BY AccountBounds
    <3>3. DOMAIN w = 1 .. n
      BY <1>2
    <3> QED
      BY <1>3, <3>1, <3>2, <3>3
<1>5. SumOf(f) \in Int
  BY <1>4, SumIsInt
<1>6. Balance(t) = Capital + SumOf(f)
  BY <1>1, <1>3 DEF Balance, SumOver
<1> QED
  BY <1>5, <1>6, AccountBounds

LEMMA RiskFields ==
  ASSUME NEW p, NEW t, NEW r, r = RiskInput(p, t)
  PROVE  /\ r.capital = Balance(t) /\ r.declared = 1 /\ r.stop = 1 /\ r.mult = 1
         /\ r.atr = 0 /\ r.rho = 0 /\ r.openNotional = 0 /\ ~r.cvarHigh
         /\ r.raised = IF Latches(t) # {} THEN {4} ELSE {}
BY DEF RiskInput

\* The kernel answers a whole number of units, and admits nothing it vetoes.
LEMMA AdjudicateAnswers ==
  ASSUME ResultsInTime, NEW p, NEW t \in Nat
  PROVE  LET risk == Adjudicate(RiskInput(p, t))
         IN  /\ risk.decision \in KernelVerdicts /\ risk.quantity \in Int
             /\ risk.decision = "ALLOW" => Latches(t) = {}
<1>1. PICK r : r = RiskInput(p, t)
  OBVIOUS
<1>2. /\ r.capital = Balance(t) /\ r.declared = 1 /\ r.stop = 1 /\ r.mult = 1
      /\ r.atr = 0 /\ r.rho = 0 /\ r.openNotional = 0 /\ ~r.cvarHigh
      /\ r.raised = IF Latches(t) # {} THEN {4} ELSE {}
  BY <1>1, RiskFields
<1>3. PICK capital \in Int : capital = r.capital
  BY <1>2, BalanceIsInt
<1>4. PICK derived : derived = IF r.capital <= 0 THEN 5
                               ELSE LadderState(Min({r.exposure, r.capital}), r.capital)
  OBVIOUS
<1>5. derived \in 1 .. 5
  <2>1. ASSUME NEW u, NEW c
        PROVE  LadderState(u, c) \in 1 .. 5
    <3> DEFINE over == {k \in 0 .. 3 : IF k = 0 THEN u > 0 ELSE 4 * u >= k * c}
    <3>1. IsFiniteSet(0 .. 3) /\ Cardinality(0 .. 3) = 4
      <4>1. 0 \in Int /\ 3 \in Int /\ ~(0 > 3) /\ 3 - 0 + 1 = 4
        OBVIOUS
      <4> QED
        BY ONLY <4>1, FS_Interval
    <3>2. Cardinality(over) \in Nat /\ Cardinality(over) <= 4
      <4>1. over \in SUBSET (0 .. 3)
        OBVIOUS
      <4> HIDE DEF over
      <4> QED
        BY <3>1, <4>1, FS_Subset, FS_CardinalityType
    <3>3. LadderState(u, c) = 1 + Cardinality(over)
      BY DEF LadderState
    <3> HIDE DEF over
    <3> QED
      BY <3>2, <3>3
  <2> QED
    BY <1>4, <2>1
<1>6. PICK state : state = Max({r.declared, derived})
  OBVIOUS
<1>7. state = derived
  BY <1>2, <1>5, <1>6, MaxOfTwo
<1>8. PICK sized : sized = Size(r, state)
  OBVIOUS
<1>9. ASSUME state # 5, sized[1] \in {"ALLOW", "REDUCE"}
      PROVE  sized[2] \in Int
  <2>1. PICK quarters \in Int : quarters = Quarters(state)
    BY <1>5, <1>7, <1>9 DEF Quarters
  <2>2. PICK byRisk : byRisk = (BudgetPermille * r.capital * Quarters(state)) \div (4000 * r.stop * r.mult)
    OBVIOUS
  <2>3. byRisk \in Int
    <3>1. BudgetPermille * r.capital * Quarters(state) \in Int
      BY <1>3, <2>1, RiskBounds
    <3>2. 4000 * r.stop * r.mult = 4000
      BY <1>2
    <3> QED
      BY <2>2, <3>1, <3>2
  <2>4. BoundedQuantity(r, state) = Max({0, Min({byRisk, byRisk})})
    BY <1>2, <2>2 DEF BoundedQuantity
  <2>5. Min({byRisk, byRisk}) = byRisk
    BY <2>3 DEF Min
  <2>6. PICK q \in Int : q = BoundedQuantity(r, state)
    BY <2>3, <2>4, <2>5, MaxOfTwo
  <2>7. ReducedQuantity(r, q) = q
    <3>1. q * r.stop * r.mult = q /\ r.stop * r.mult = 1
      BY <1>2
    <3>2. CorrelationLeaves(r.rho, r.openNotional, q) = q
      BY <1>2 DEF CorrelationLeaves
    <3> QED
      BY <3>1, <3>2 DEF ReducedQuantity
  <2>8. CvarDowngrade(state, r.cvarHigh) = state
    BY <1>2 DEF CvarDowngrade
  <2>9. sized[1] \in {"ALLOW", "REDUCE"} => sized[2] = q
    BY <1>8, <2>6, <2>7, <2>8 DEF Size
  <2> QED
    BY <1>9, <2>9
<1>10. PICK risk : risk = Adjudicate(r)
  OBVIOUS
<1>11. \/ risk.decision = "REJECT" /\ risk.quantity = 0
       \/ /\ risk.decision \in {"ALLOW", "REDUCE"} /\ risk.decision = sized[1]
          /\ risk.quantity = sized[2] /\ state # 5 /\ FiredVetoes(r) = {}
  BY <1>4, <1>6, <1>8, <1>10 DEF Adjudicate
<1>12. FiredVetoes(r) = {} => Latches(t) = {}
  <2>1. ASSUME Latches(t) # {}
        PROVE  4 \in FiredVetoes(r)
    <3>1. 4 \in r.raised \cap {1, 2, 4, 6, 7, 8, 9}
      BY <1>2, <2>1
    <3> QED
      BY <3>1 DEF FiredVetoes
  <2> QED
    BY <2>1
<1> QED
  BY <1>1, <1>9, <1>10, <1>11, <1>12 DEF KernelVerdicts

-----------------------------------------------------------------------------
(* The steps.                                                              *)

LEMMA AccountStarts == AccountInit => AccountInv
<1> SUFFICES ASSUME AccountInit PROVE AccountInv
  OBVIOUS
<1>1. NoPlan \in PlanRow /\ NotAtVenue \in Lots
  BY DEF NoPlan, PlanRow, KernelVerdicts, NotAtVenue, Lots
<1>2. AccountTyped /\ ResultsInTime
  BY <1>1 DEF AccountInit, AccountTyped, ResultsInTime
<1>3. ASSUME NEW p \in Proposals
      PROVE  Tallies(plans[p], history[p], booked[p], order[p])
  <2>1. plans[p] = NoPlan /\ history[p] = <<>> /\ booked[p] = <<>> /\ order[p] = NotAtVenue
    BY DEF AccountInit
  <2>2. OpenedLots(<<>>) = 0 /\ ShutLots(<<>>) = 0 /\ SumOf(Moved(<<>>)) = 0
    BY NoFills
  <2> QED
    BY <2>1, <2>2 DEF Tallies, NotAtVenue
<1> QED
  BY <1>2, <1>3 DEF AccountInv

\* A step of one plan, of its machine, of its fill rows or of its order keeps the
\* invariant if what it leaves still tallies.
LEMMA OnePlanMoves ==
  ASSUME AccountInv, NEW p \in Proposals,
         NEW plan \in PlanRow, NEW steps \in Seq(MachineStates),
         NEW b \in Seq(FillRow), NEW o \in Lots, Tallies(plan, steps, b, o),
         plans' = [plans EXCEPT ![p] = plan], history' = [history EXCEPT ![p] = steps],
         booked' = [booked EXCEPT ![p] = b], order' = [order EXCEPT ![p] = o],
         closeAt' = closeAt, results' = results
  PROVE  AccountInv'
<1>1. AccountTyped' /\ ResultsInTime'
  BY DEF AccountInv, AccountTyped, ResultsInTime
<1>2. ASSUME NEW r \in Proposals
      PROVE  Tallies(plans[r], history[r], booked[r], order[r])'
  <2>1. CASE r = p
    <3>1. plans'[r] = plan /\ history'[r] = steps /\ booked'[r] = b /\ order'[r] = o
      BY <2>1 DEF AccountInv, AccountTyped
    <3> QED
      BY <3>1
  <2>2. CASE r # p
    <3>1. /\ plans'[r] = plans[r] /\ history'[r] = history[r] /\ booked'[r] = booked[r]
          /\ order'[r] = order[r]
      BY <2>2 DEF AccountInv, AccountTyped
    <3>2. Tallies(plans[r], history[r], booked[r], order[r])
      BY DEF AccountInv
    <3> QED
      BY <3>1, <3>2
  <2> QED
    BY <2>1, <2>2
<1> QED
  BY <1>1, <1>2 DEF AccountInv

\* What the invariant says of one plan.
LEMMA OnePlan ==
  ASSUME AccountInv, NEW p \in Proposals
  PROVE  /\ plans[p] \in PlanRow /\ history[p] \in Seq(MachineStates)
         /\ booked[p] \in Seq(FillRow) /\ order[p] \in Lots
         /\ Tallies(plans[p], history[p], booked[p], order[p])
         /\ plans = [plans EXCEPT ![p] = plans[p]]
         /\ history = [history EXCEPT ![p] = history[p]]
         /\ booked = [booked EXCEPT ![p] = booked[p]]
         /\ order = [order EXCEPT ![p] = order[p]]
BY DEF AccountInv, AccountTyped

LEMMA DecideKeepsAccount ==
  ASSUME AccountInv, NEW q \in Proposals, Decide(q)
  PROVE  AccountInv'
<1>1. PICK risk : risk = Adjudicate(RiskInput(q, closeAt))
  OBVIOUS
<1>2. PICK row : row = [decision |-> risk.decision, quantity |-> risk.quantity]
  OBVIOUS
<1>3. risk.decision \in KernelVerdicts /\ risk.quantity \in Int
  BY <1>1, AdjudicateAnswers DEF AccountInv, AccountTyped
<1>4. row \in PlanRow
  BY <1>2, <1>3 DEF PlanRow
<1>5. /\ plans' = [plans EXCEPT ![q] = row] /\ plans[q] = NoPlan
      /\ closeAt' = closeAt /\ history' = history /\ booked' = booked
      /\ results' = results /\ order' = order
  BY <1>1, <1>2 DEF Decide, ledgerRows, snapshot
<1>6. history[q] = <<>> /\ ~order[q].sent
  BY <1>5, OnePlan DEF Tallies
<1>7. Tallies(row, history[q], booked[q], order[q])
  BY <1>6, OnePlan DEF Tallies
<1>8. /\ history' = [history EXCEPT ![q] = history[q]]
      /\ booked' = [booked EXCEPT ![q] = booked[q]]
      /\ order' = [order EXCEPT ![q] = order[q]]
  BY <1>5, OnePlan
<1>9. PICK steps \in Seq(MachineStates), b \in Seq(FillRow), o \in Lots :
        steps = history[q] /\ b = booked[q] /\ o = order[q]
  BY OnePlan
<1>10. /\ Tallies(row, steps, b, o) /\ history' = [history EXCEPT ![q] = steps]
       /\ booked' = [booked EXCEPT ![q] = b] /\ order' = [order EXCEPT ![q] = o]
  BY <1>7, <1>8, <1>9
<1>11. closeAt' = closeAt /\ results' = results /\ plans' = [plans EXCEPT ![q] = row]
  BY <1>5
<1> QED
  BY ONLY AccountInv, q \in Proposals, <1>4, <1>9, <1>10, <1>11, OnePlanMoves

\* Another row of the machine: only a plan of some size ever has its first one.
LEMMA AdvanceKeepsAccount ==
  ASSUME AccountInv, NEW p \in Proposals, NEW e \in LegalTransitions, Advance(p, e)
  PROVE  AccountInv'
<1>1. PICK steps : steps = Append(history[p], e[3])
  OBVIOUS
<1>2. steps \in Seq(MachineStates) /\ steps # <<>>
  BY <1>1, OnePlan, RowsLeaveReady
<1>3. /\ history' = [history EXCEPT ![p] = steps]
      /\ plans' = plans /\ booked' = booked /\ order' = order
      /\ closeAt' = closeAt /\ results' = results
  BY <1>1 DEF Advance, snapshot
<1>4. plans[p].quantity > 0 /\ plans[p] # NoPlan
  <2>1. CASE history[p] = <<>>
    <3>1. Fires(p, "READY", e[2])
      BY <2>1 DEF Advance, StateOf
    <3>2. Submittable(p)
      BY <3>1 DEF Fires
    <3> QED
      BY <3>2 DEF Submittable, NoPlan
  <2>2. CASE history[p] # <<>>
    <3>1. plans[p].quantity > 0 /\ plans[p] # NoPlan
      BY <2>2, OnePlan DEF Tallies
    <3> QED
      BY <3>1
  <2> QED
    BY <2>1, <2>2
<1>5. Tallies(plans[p], steps, booked[p], order[p])
  BY <1>2, <1>4, OnePlan DEF Tallies
<1>6. /\ plans' = [plans EXCEPT ![p] = plans[p]]
      /\ booked' = [booked EXCEPT ![p] = booked[p]]
      /\ order' = [order EXCEPT ![p] = order[p]]
  BY <1>3, OnePlan
<1>7. PICK plan \in PlanRow, b \in Seq(FillRow), o \in Lots :
        plan = plans[p] /\ b = booked[p] /\ o = order[p]
  BY OnePlan
<1>8. /\ Tallies(plan, steps, b, o) /\ plans' = [plans EXCEPT ![p] = plan]
      /\ booked' = [booked EXCEPT ![p] = b] /\ order' = [order EXCEPT ![p] = o]
  BY <1>5, <1>6, <1>7
<1>9. closeAt' = closeAt /\ results' = results /\ history' = [history EXCEPT ![p] = steps]
  BY <1>3
<1> QED
  BY ONLY AccountInv, p \in Proposals, <1>2, <1>7, <1>8, <1>9, OnePlanMoves

\* A fill row for lots that were executed.
LEMMA BookingKeepsAccount ==
  ASSUME AccountInv, NEW p \in Proposals, NEW q \in Int, NEW opens \in BOOLEAN,
         Booked(p, opens, q), history[p] # <<>>,
         opens => booked[p] = <<>> /\ q <= order[p].filled,
         ~opens => ShutLots(booked[p]) = 0 /\ q <= order[p].closed
  PROVE  AccountInv'
<1>1. PICK b : b = Append(booked[p], [open |-> opens, quantity |-> q])
  OBVIOUS
<1>2. /\ b \in Seq(FillRow)
      /\ SumOf(Moved(b)) = SumOf(Moved(booked[p])) + (IF opens THEN q ELSE -q)
      /\ OpenedLots(b) = OpenedLots(booked[p]) + (IF opens THEN q ELSE 0)
      /\ ShutLots(b) = ShutLots(booked[p]) + (IF opens THEN 0 ELSE q)
  BY <1>1, OnePlan, BookGrows
<1>3. /\ booked' = [booked EXCEPT ![p] = b]
      /\ plans' = plans /\ history' = history /\ order' = order
      /\ closeAt' = closeAt /\ results' = results
  BY <1>1 DEF Booked, snapshot
<1>4. PICK net \in Int : net = SumOf(Moved(booked[p]))
  BY OnePlan, BookSums
<1>5. PICK opened \in Int : opened = OpenedLots(booked[p])
  BY OnePlan, BookSums
<1>6. PICK shut \in Int : shut = ShutLots(booked[p])
  BY OnePlan, BookSums
<1>7. order[p].filled \in Nat /\ order[p].closed \in Nat
  BY OnePlan DEF Lots
<1>8. opened <= order[p].filled /\ shut <= order[p].closed /\ net = opened - shut
  BY <1>4, <1>5, <1>6, OnePlan DEF Tallies
<1>9. opens => opened = 0
  BY <1>5, NoFills
<1>10. /\ OpenedLots(b) <= order[p].filled /\ ShutLots(b) <= order[p].closed
       /\ SumOf(Moved(b)) = OpenedLots(b) - ShutLots(b)
  <2>1. CASE opens
    <3>1. /\ SumOf(Moved(b)) = net + q /\ OpenedLots(b) = opened + q
          /\ ShutLots(b) = shut + 0
      BY <1>2, <1>4, <1>5, <1>6, <2>1, Zenon
    <3>2. q <= order[p].filled /\ opened = 0
      BY <1>9, <2>1
    <3> QED
      BY <1>7, <1>8, <3>1, <3>2
  <2>2. CASE ~opens
    <3>1. /\ SumOf(Moved(b)) = net + (-q) /\ OpenedLots(b) = opened + 0
          /\ ShutLots(b) = shut + q
      BY <1>2, <1>4, <1>5, <1>6, <2>2, Zenon
    <3>2. q <= order[p].closed /\ shut = 0
      BY <1>6, <2>2
    <3> QED
      BY <1>7, <1>8, <3>1, <3>2
  <2> QED
    BY <2>1, <2>2
<1>11. Tallies(plans[p], history[p], b, order[p])
  BY <1>10, OnePlan DEF Tallies
<1>12. /\ plans' = [plans EXCEPT ![p] = plans[p]]
       /\ history' = [history EXCEPT ![p] = history[p]]
       /\ order' = [order EXCEPT ![p] = order[p]]
  BY <1>3, OnePlan
<1>13. PICK plan \in PlanRow, steps \in Seq(MachineStates), o \in Lots :
         plan = plans[p] /\ steps = history[p] /\ o = order[p]
  BY OnePlan
<1>14. /\ Tallies(plan, steps, b, o) /\ plans' = [plans EXCEPT ![p] = plan]
       /\ history' = [history EXCEPT ![p] = steps] /\ order' = [order EXCEPT ![p] = o]
  BY <1>11, <1>12, <1>13
<1>15. closeAt' = closeAt /\ results' = results /\ booked' = [booked EXCEPT ![p] = b]
  BY <1>3
<1>16. b \in Seq(FillRow)
  BY <1>2
<1> QED
  BY ONLY AccountInv, p \in Proposals, <1>13, <1>14, <1>15, <1>16, OnePlanMoves

LEMMA BooksKeepAccount ==
  ASSUME AccountInv, NEW p \in Proposals, NEW q \in Int, BookEntry(p, q) \/ BookExit(p, q)
  PROVE  AccountInv'
<1>1. history[p] # <<>>
  BY DEF BookEntry, BookExit, StateOf
<1>2. CASE BookEntry(p, q)
  <2>1. PICK opens \in BOOLEAN : opens
    OBVIOUS
  <2>2. Booked(p, opens, q) /\ booked[p] = <<>> /\ q <= order[p].filled
    <3>1. opens = TRUE
      BY <2>1
    <3> QED
      BY <1>2, <3>1 DEF BookEntry
  <2> QED
    BY <1>1, <2>1, <2>2, BookingKeepsAccount
<1>3. CASE BookExit(p, q)
  <2>1. PICK opens \in BOOLEAN : ~opens
    OBVIOUS
  <2>2. Booked(p, opens, q) /\ ShutLots(booked[p]) = 0 /\ q <= order[p].closed
    <3>1. opens = FALSE
      BY <2>1
    <3> QED
      BY <1>3, <3>1 DEF BookExit
  <2> QED
    BY <1>1, <2>1, <2>2, BookingKeepsAccount
<1> QED
  BY <1>2, <1>3

\* The venue rests, executes, ends and closes lots within what was asked for.
LEMMA VenueKeepsAccount ==
  ASSUME AccountInv, NEW p \in Proposals, NEW q \in Nat,
         EntryRests(p) \/ EntryExecutes(p, q) \/ EntryEnds(p) \/ LotsClose(p, q)
  PROVE  AccountInv'
<1>1. PICK rest \in Nat : rest = order[p].resting
  BY OnePlan DEF Lots
<1>2. PICK filled \in Nat : filled = order[p].filled
  BY OnePlan DEF Lots
<1>3. PICK closed \in Nat : closed = order[p].closed
  BY OnePlan DEF Lots
<1>4. PICK sent \in BOOLEAN : sent = order[p].sent
  BY OnePlan DEF Lots
<1>5. PICK size \in Int : size = plans[p].quantity
  BY OnePlan DEF PlanRow
<1>6. order[p] = [sent |-> sent, resting |-> rest, filled |-> filled, closed |-> closed]
  BY <1>1, <1>2, <1>3, <1>4, OnePlan DEF Lots
<1>7. /\ history[p] = <<>> => ~sent
      /\ history[p] # <<>> => size > 0
      /\ ~sent => rest = 0 /\ filled = 0
      /\ sent => rest + filled <= size
      /\ closed <= filled
      /\ OpenedLots(booked[p]) <= filled /\ ShutLots(booked[p]) <= closed
  BY <1>1, <1>2, <1>3, <1>4, <1>5, OnePlan DEF Tallies
<1>8. PICK opened \in Int : opened = OpenedLots(booked[p])
  BY OnePlan, BookSums
<1>9. PICK shut \in Int : shut = ShutLots(booked[p])
  BY OnePlan, BookSums
<1>10. ASSUME NEW o \in Lots, VenueMoves(p, o), o.sent => history[p] # <<>>,
              ~o.sent => o.resting = 0 /\ o.filled = 0,
              o.sent => o.resting + o.filled <= size, o.closed <= o.filled,
              opened <= o.filled, shut <= o.closed
       PROVE  AccountInv'
  <2>1. Tallies(plans[p], history[p], booked[p], o)
    BY <1>5, <1>8, <1>9, <1>10, OnePlan DEF Tallies
  <2>2. /\ order' = [order EXCEPT ![p] = o]
        /\ plans' = plans /\ history' = history /\ booked' = booked
        /\ closeAt' = closeAt /\ results' = results
    BY <1>10 DEF VenueMoves, ledgerRows, snapshot
  <2>3. /\ plans' = [plans EXCEPT ![p] = plans[p]]
        /\ history' = [history EXCEPT ![p] = history[p]]
        /\ booked' = [booked EXCEPT ![p] = booked[p]]
    BY <2>2, OnePlan
  <2>4. /\ plans[p] \in PlanRow /\ history[p] \in Seq(MachineStates)
        /\ booked[p] \in Seq(FillRow)
    BY OnePlan
  <2> QED
    BY <1>10, <2>1, <2>2, <2>3, <2>4, OnePlanMoves
<1>11. CASE EntryRests(p)
  <2>1. history[p] # <<>> /\ ~sent
    BY <1>4, <1>11 DEF EntryRests, StateOf
  <2>2. PICK o : o = [sent |-> TRUE, resting |-> size, filled |-> 0, closed |-> 0]
    OBVIOUS
  <2>3. VenueMoves(p, o)
    BY <1>5, <1>11, <2>2 DEF EntryRests
  <2>4. filled = 0 /\ closed = 0 /\ size > 0
    BY <1>7, <2>1
  <2>5. o \in Lots /\ o.sent /\ o.resting = size /\ o.filled = 0 /\ o.closed = 0
    <3>1. size \in Nat
      BY <2>4
    <3> QED
      BY <2>2, <3>1 DEF Lots
  <2> QED
    BY <1>7, <1>8, <1>9, <1>10, <2>1, <2>3, <2>4, <2>5
<1>12. CASE EntryExecutes(p, q)
  <2>1. q <= rest
    BY <1>1, <1>12 DEF EntryExecutes
  <2>2. PICK o : o = [sent |-> sent, resting |-> rest - q, filled |-> filled + q,
                      closed |-> closed]
    OBVIOUS
  <2>3. VenueMoves(p, o)
    <3>1. o = [sent |-> order[p].sent, resting |-> order[p].resting - q,
               filled |-> order[p].filled + q, closed |-> order[p].closed]
      BY <1>1, <1>2, <1>3, <1>4, <2>2
    <3> QED
      BY <1>12, <3>1 DEF EntryExecutes
  <2>4. /\ o \in Lots /\ o.sent = sent /\ o.resting = rest - q /\ o.filled = filled + q
        /\ o.closed = closed
    BY <2>1, <2>2 DEF Lots
  <2>5. /\ sent => history[p] # <<>>
        /\ ~sent => rest - q = 0 /\ filled + q = 0
        /\ sent => (rest - q) + (filled + q) <= size
        /\ closed <= filled + q /\ opened <= filled + q /\ shut <= closed
    <3>1. opened <= filled /\ shut <= closed
      BY <1>7, <1>8, <1>9
    <3>2. ~sent => rest - q = 0 /\ filled + q = 0
      BY <1>7, <2>1
    <3>3. (rest - q) + (filled + q) = rest + filled
      OBVIOUS
    <3> QED
      BY <1>7, <3>1, <3>2, <3>3
  <2> QED
    BY <1>10, <2>3, <2>4, <2>5
<1>13. CASE EntryEnds(p)
  <2>1. PICK o : o = [sent |-> sent, resting |-> 0, filled |-> filled, closed |-> closed]
    OBVIOUS
  <2>2. VenueMoves(p, o)
    <3>1. o = [order[p] EXCEPT !.resting = 0]
      BY <1>6, <2>1
    <3> QED
      BY <1>13, <3>1 DEF EntryEnds
  <2>3. o \in Lots /\ o.sent = sent /\ o.resting = 0 /\ o.filled = filled /\ o.closed = closed
    BY <2>1 DEF Lots
  <2> QED
    BY <1>7, <1>8, <1>9, <1>10, <2>2, <2>3
<1>14. CASE LotsClose(p, q)
  <2>1. q <= filled - closed
    BY <1>2, <1>3, <1>14 DEF LotsClose
  <2>2. PICK o : o = [sent |-> sent, resting |-> rest, filled |-> filled,
                      closed |-> closed + q]
    OBVIOUS
  <2>3. VenueMoves(p, o)
    <3>1. o = [order[p] EXCEPT !.closed = @ + q]
      BY <1>6, <2>2
    <3> QED
      BY <1>14, <3>1 DEF LotsClose
  <2>4. /\ o \in Lots /\ o.sent = sent /\ o.resting = rest /\ o.filled = filled
        /\ o.closed = closed + q
    BY <2>2 DEF Lots
  <2>5. /\ opened <= filled /\ shut <= closed + q /\ closed + q <= filled
        /\ sent => history[p] # <<>>
    BY <1>7, <1>8, <1>9, <2>1
  <2> QED
    BY <1>7, <1>10, <2>3, <2>4, <2>5
<1> QED
  BY <1>11, <1>12, <1>13, <1>14

LEMMA OutcomeKeepsAccount ==
  ASSUME AccountInv, NEW p \in Proposals, NEW pnl \in Results, BookOutcome(p, pnl)
  PROVE  AccountInv'
<1>1. /\ plans' = plans /\ history' = history /\ booked' = booked /\ order' = order
      /\ closeAt' = closeAt
  BY DEF BookOutcome, snapshot
<1>2. PICK row : row = [of |-> p, pnl |-> pnl, at |-> closeAt + 1]
  OBVIOUS
<1>3. closeAt \in Nat /\ row \in Outcome /\ row.at = closeAt + 1
  BY <1>2 DEF AccountInv, AccountTyped, Outcome
<1>4. results' = Append(results, row)
  BY <1>2 DEF BookOutcome
<1>5. PICK n \in Nat : n = Len(results)
  BY DEF AccountInv, ResultsInTime
<1>6. /\ results' \in Seq(Outcome) /\ Len(results') = n + 1
      /\ \A i \in 1 .. n : results'[i] = results[i]
      /\ results'[n + 1] = row
  BY <1>3, <1>4, <1>5 DEF AccountInv, ResultsInTime
<1>7. \A i \in 1 .. n : /\ results[i].at <= closeAt + 1
                        /\ \A j \in i .. n : results[i].at <= results[j].at
  BY <1>5 DEF AccountInv, ResultsInTime
<1>8. ResultsInTime'
  <2>1. ASSUME NEW i \in 1 .. n + 1
        PROVE  /\ results'[i].at <= closeAt' + 1
               /\ \A j \in i .. n + 1 : results'[i].at <= results'[j].at
    <3>1. CASE i = n + 1
      BY <1>1, <1>3, <1>6, <3>1
    <3>2. CASE i \in 1 .. n
      <4>1. results'[i].at = results[i].at /\ results[i].at <= row.at
        BY <1>3, <1>6, <1>7, <3>2
      <4>2. ASSUME NEW j \in i .. n + 1
            PROVE  results'[i].at <= results'[j].at
        <5>1. CASE j = n + 1
          BY <1>6, <4>1, <5>1
        <5>2. CASE j \in i .. n
          BY <1>6, <1>7, <3>2, <4>1, <5>2
        <5> QED
          BY <5>1, <5>2
      <4> QED
        BY <1>1, <1>7, <3>2, <4>1, <4>2
    <3> QED
      BY <3>1, <3>2
  <2> QED
    BY <1>6, <2>1 DEF ResultsInTime
<1> QED
  BY <1>1, <1>8 DEF AccountInv, AccountTyped

LEMMA AccountGoesOn == AccountInv /\ [AccountNext]_accountVars => AccountInv'
<1> SUFFICES ASSUME AccountInv, [AccountNext]_accountVars PROVE AccountInv'
  OBVIOUS
<1>1. CASE UNCHANGED accountVars
  BY <1>1 DEF accountVars, ledgerRows, snapshot, AccountInv, AccountTyped, ResultsInTime
<1>2. CASE NextClose
  <2>1. closeAt \in Nat /\ closeAt' = closeAt + 1
    BY <1>2 DEF NextClose, AccountInv, AccountTyped
  <2>2. /\ plans' = plans /\ history' = history /\ booked' = booked
        /\ results' = results /\ order' = order
    BY <1>2 DEF NextClose, ledgerRows
  <2>3. \A i \in 1 .. Len(results) : results[i].at \in Nat
    <3>1. \A i \in 1 .. Len(results) : results[i] \in Outcome
      BY DEF AccountInv, ResultsInTime
    <3> QED
      BY <3>1 DEF Outcome
  <2>4. ResultsInTime'
    <3>1. /\ results' \in Seq(Outcome)
          /\ \A i \in 1 .. Len(results) : /\ results[i].at <= closeAt + 1
                                           /\ \A j \in i .. Len(results) : results[i].at <= results[j].at
      BY <2>2 DEF AccountInv, ResultsInTime
    <3>2. \A i \in 1 .. Len(results) : results[i].at <= closeAt' + 1
      BY <2>1, <2>3, <3>1
    <3> QED
      BY <2>2, <3>1, <3>2 DEF ResultsInTime
  <2>5. AccountTyped'
    BY <2>1, <2>2 DEF AccountInv, AccountTyped
  <2> QED
    BY <2>2, <2>4, <2>5 DEF AccountInv
<1>3. ASSUME NEW p \in Proposals, Decide(p)
      PROVE  AccountInv'
  BY <1>3, DecideKeepsAccount
<1>4. ASSUME NEW p \in Proposals, NEW e \in LegalTransitions, Advance(p, e)
      PROVE  AccountInv'
  BY <1>4, AdvanceKeepsAccount
<1>5. ASSUME NEW p \in Proposals, NEW q \in 1 .. plans[p].quantity,
             BookEntry(p, q) \/ BookExit(p, q) \/ EntryExecutes(p, q) \/ LotsClose(p, q)
      PROVE  AccountInv'
  <2>1. q \in Nat /\ q \in Int
    <3>1. plans[p].quantity \in Int
      BY OnePlan DEF PlanRow
    <3> QED
      BY <3>1
  <2> QED
    BY <1>5, <2>1, BooksKeepAccount, VenueKeepsAccount
<1>6. ASSUME NEW p \in Proposals, NEW pnl \in Results, BookOutcome(p, pnl)
      PROVE  AccountInv'
  BY <1>6, OutcomeKeepsAccount
<1>7. ASSUME NEW p \in Proposals, EntryRests(p) \/ EntryEnds(p)
      PROVE  AccountInv'
  <2>1. 0 \in Nat
    OBVIOUS
  <2> QED
    BY <1>7, <2>1, VenueKeepsAccount
<1>8. ASSUME NEW p \in Proposals, Materialize(p)
      PROVE  AccountInv'
  BY <1>8 DEF Materialize, snapshot, AccountInv, AccountTyped, ResultsInTime
<1> QED
  BY <1>1, <1>2, <1>3, <1>4, <1>5, <1>6, <1>7, <1>8, Zenon DEF AccountNext

LEMMA DaysFollow ==
  ASSUME NEW t \in Nat, NEW u \in Nat, t <= u
  PROVE  DayOf(t) \in Int /\ DayOf(u) \in Int /\ DayOf(t) <= DayOf(u)
BY AccountBounds DEF DayOf

-----------------------------------------------------------------------------
(* What follows for the account.                                           *)

\* What an order reserves at the next close, if the account can be read then.
LEMMA OrderReservesWhatIsTrue ==
  ASSUME AccountInv, Readable(closeAt + 1), NEW p \in Proposals,
         NEW ended \in BOOLEAN, ended = EndedByItsRows(p, closeAt + 1),
         NEW o, o = order[p], NEW atVenue, atVenue = o.resting + o.filled - o.closed
  PROVE  /\ ~ended => ShareOf(p, closeAt + 1) >= atVenue
         /\ /\ OpenedLots(booked[p]) = o.filled /\ ShutLots(booked[p]) = o.closed
            /\ o.resting = IF ended THEN 0 ELSE plans[p].quantity - o.filled
            => ShareOf(p, closeAt + 1) = atVenue
<1>1. closeAt \in Nat /\ closeAt + 1 > closeAt
  BY DEF AccountInv, AccountTyped
<1>2. /\ plans[p] \in PlanRow /\ booked[p] \in Seq(FillRow) /\ o \in Lots
      /\ Tallies(plans[p], history[p], booked[p], o)
  BY OnePlan
<1>3. PICK steps : steps = history[p]
  OBVIOUS
<1>4. PICK state : state = SettledState(steps)
  OBVIOUS
<1>5. RowsAt(p, closeAt + 1) = steps /\ FillsAt(p, closeAt + 1) = booked[p]
  BY <1>1, <1>3 DEF RowsAt, FillsAt
<1>6. PICK net \in Int : net = SumOf(Moved(booked[p]))
  BY <1>2, BookSums
<1>7. PICK opened \in Int : opened = OpenedLots(booked[p])
  BY <1>2, BookSums
<1>8. PICK shut \in Int : shut = ShutLots(booked[p])
  BY <1>2, BookSums
<1>9. PICK size \in Int : size = plans[p].quantity
  BY <1>2 DEF PlanRow
<1>10. NetOf(p, closeAt + 1) = net /\ FilledOf(p, closeAt + 1) = opened
  BY <1>5, <1>6, <1>7 DEF NetOf, FilledOf, SumOver, Moved
<1>11. PendingOf(p, closeAt + 1) =
         IF steps # <<>> /\ state \in {"SUBMITTING", "ACKNOWLEDGED", "PARTIAL"}
         THEN size - opened ELSE 0
  BY <1>4, <1>5, <1>9, <1>10 DEF PendingOf
<1>12. PICK pending \in Int : pending = PendingOf(p, closeAt + 1)
  <2>1. size - opened \in Int /\ 0 \in Int
    BY <1>7, <1>9
  <2> QED
    BY <1>11, <2>1
<1>13. ShareOf(p, closeAt + 1) = net + pending
  BY <1>10, <1>12 DEF ShareOf
<1>14. o.resting \in Nat /\ o.filled \in Nat /\ o.closed \in Nat /\ o.sent \in BOOLEAN
  BY <1>2 DEF Lots
<1>15. /\ steps = <<>> => ~o.sent /\ booked[p] = <<>>
       /\ steps # <<>> => size > 0
       /\ ~o.sent => o.resting = 0 /\ o.filled = 0
       /\ o.sent => o.resting + o.filled <= size
       /\ o.closed <= o.filled /\ opened <= o.filled /\ shut <= o.closed
       /\ net = opened - shut
  BY <1>2, <1>3, <1>6, <1>7, <1>8, <1>9 DEF Tallies
<1>a. PICK rest \in Nat, filled \in Nat, closed \in Nat :
        rest = o.resting /\ filled = o.filled /\ closed = o.closed
  BY <1>14
<1>b. /\ atVenue = rest + filled - closed
      /\ closed <= filled /\ opened <= filled /\ shut <= closed /\ net = opened - shut
  BY <1>15, <1>a
<1>c. ~o.sent => rest + filled = 0
  BY <1>15, <1>a
<1>d. o.sent => rest + filled <= size
  BY <1>15, <1>a
<1>e. ShareOf(p, closeAt + 1) \in Int /\ ShareOf(p, closeAt + 1) = net + pending
  BY <1>13
<1>f. PICK share \in Int : share = ShareOf(p, closeAt + 1)
  BY <1>e
<1>g. SUFFICES /\ ~ended => share >= atVenue
               /\ /\ opened = filled /\ shut = closed
                  /\ rest = IF ended THEN 0 ELSE size - filled
                  => share = atVenue
  BY <1>7, <1>8, <1>9, <1>a, <1>f
<1>h. share = net + pending
  BY <1>e, <1>f
<1>16. CASE steps = <<>>
  <2>1. opened = 0 /\ shut = 0 /\ pending = 0 /\ ~o.sent
    BY <1>7, <1>8, <1>11, <1>12, <1>15, <1>16, NoFills
  <2>2. rest = 0 /\ filled = 0 /\ closed = 0 /\ atVenue = 0 /\ share = 0
    BY <1>b, <1>c, <1>h, <2>1
  <2> QED
    BY <2>2
<1>17. CASE steps # <<>>
  <2>1. /\ state \in OpenStates \cup {"CLOSED", "CANCELLED", "REJECTED"}
        /\ state \in {"FILLED", "PROTECTED", "MANAGED", "CLOSED"} => size - opened = 0
    <3>1. OrderReadable(p, closeAt + 1)
      BY <1>5, <1>17 DEF Readable
    <3> QED
      BY <1>4, <1>5, <1>9, <1>10, <3>1 DEF OrderReadable
  <2>2. ended <=> state \in {"CANCELLED", "REJECTED"}
    BY <1>4, <1>5, <1>17 DEF EndedByItsRows
  <2>3. CASE state \in {"SUBMITTING", "ACKNOWLEDGED", "PARTIAL"}
    <3>1. pending = size - opened /\ ~ended
      BY <1>11, <1>12, <1>17, <2>2, <2>3
    <3>2. share = size - shut
      BY <1>b, <1>h, <3>1
    <3>3. rest + filled <= size
      <4>1. 0 <= size
        BY <1>15, <1>17
      <4>2. rest + filled = 0 \/ rest + filled <= size
        BY <1>c, <1>d
      <4> QED
        BY <4>1, <4>2
    <3>4. share >= atVenue /\ (shut = closed /\ rest = size - filled => share = atVenue)
      BY <1>b, <3>2, <3>3
    <3> QED
      BY <3>1, <3>4
  <2>4. CASE state \in {"FILLED", "PROTECTED", "MANAGED", "CLOSED"}
    <3>1. pending = 0 /\ size = opened /\ ~ended
      BY <1>11, <1>12, <2>1, <2>2, <2>4
    <3>2. share = size - shut
      BY <1>b, <1>h, <3>1
    <3>3. rest + filled <= size
      <4>1. 0 < filled
        BY <1>15, <1>17, <1>b, <3>1
      <4> QED
        BY <1>c, <1>d, <4>1
    <3>4. share >= atVenue /\ (shut = closed /\ rest = size - filled => share = atVenue)
      BY <1>b, <3>2, <3>3
    <3> QED
      BY <3>1, <3>4
  <2>5. CASE state \in {"CANCELLED", "REJECTED"}
    <3>1. pending = 0 /\ ended
      BY <1>11, <1>12, <2>2, <2>5
    <3>2. opened = filled /\ shut = closed /\ rest = 0 => share = atVenue
      BY <1>b, <1>h, <3>1
    <3> QED
      BY <3>1, <3>2
  <2> QED
    BY <2>1, <2>3, <2>4, <2>5 DEF OpenStates
<1> QED
  BY <1>16, <1>17

\* An account that can be read reserves at least what the venue has resting and
\* holds of every order its rows do not call cancelled or rejected, and exactly that
\* once the fill rows are complete (engine_context.py 680-731, 734-833): for every
\* set of plans, every kernel setting, and whatever the venue does and whichever
\* rows come late or never.
THEOREM ReadableAccountIsTrue == AccountSpec => []AccountIsTrue
<1>1. AccountInit => AccountInv
  BY AccountStarts
<1>2. AccountInv /\ [AccountNext]_accountVars => AccountInv'
  BY AccountGoesOn
<1>3. AccountInv => AccountIsTrue
  <2> SUFFICES ASSUME AccountInv, Readable(closeAt + 1), NEW p \in Proposals
               PROVE  LET o == order[p]
                          ended == EndedByItsRows(p, closeAt + 1)
                          atVenue == o.resting + o.filled - o.closed
                      IN  /\ ~ended => ShareOf(p, closeAt + 1) >= atVenue
                          /\ /\ OpenedLots(booked[p]) = o.filled
                             /\ ShutLots(booked[p]) = o.closed
                             /\ o.resting = IF ended THEN 0 ELSE plans[p].quantity - o.filled
                             => ShareOf(p, closeAt + 1) = atVenue
    BY Zenon DEF AccountIsTrue
  <2>1. EndedByItsRows(p, closeAt + 1) \in BOOLEAN
    BY DEF EndedByItsRows
  <2>2. PICK ended \in BOOLEAN : ended = EndedByItsRows(p, closeAt + 1)
    BY <2>1
  <2> QED
    BY <2>2, OrderReservesWhatIsTrue
<1> QED
  BY <1>1, <1>2, <1>3, PTL DEF AccountSpec

\* What Decide admits, it admits on a known account and outside of every latch.
LEMMA AdmittedIsKnown ==
  ASSUME AccountInv, NEW p \in Proposals, Decide(p), plans'[p].decision = "ALLOW"
  PROVE  AccountIsKnown
<1>1. closeAt \in Nat /\ Readable(closeAt)
  BY DEF Decide, AccountInv, AccountTyped
<1>2. ASSUME NEW q \in Proposals, RowsAt(q, closeAt) # <<>>
      PROVE  Last(RowsAt(q, closeAt)) # "RECOVERY_REQUIRED"
  <2>1. OrderReadable(q, closeAt)
    BY <1>1, <1>2 DEF Readable
  <2>2. SettledState(RowsAt(q, closeAt)) # "RECOVERY_REQUIRED"
    BY <2>1 DEF OrderReadable, OpenStates
  <2> QED
    BY <2>2 DEF SettledState, Last
<1>3. Latches(closeAt) = {}
  <2>1. PICK risk : risk = Adjudicate(RiskInput(p, closeAt))
    OBVIOUS
  <2>2. plans'[p] = [decision |-> risk.decision, quantity |-> risk.quantity]
    BY <2>1 DEF Decide, AccountInv, AccountTyped
  <2>3. risk.decision = "ALLOW"
    BY <2>2
  <2>4. risk.decision = "ALLOW" => Latches(closeAt) = {}
    BY <1>1, <2>1, AdjudicateAnswers DEF AccountInv
  <2> QED
    BY <2>3, <2>4
<1>4. PICK w : w = ResultsAt(closeAt)
  OBVIOUS
<1>5. PICK m : m = Len(w)
  OBVIOUS
<1>6. /\ m \in Nat
      /\ \A i \in 1 .. m : /\ w[i].at \in Nat /\ w[i].at <= closeAt
                           /\ \A j \in i .. m : w[i].at <= w[j].at
  <2>1. w \in Seq(Outcome)
    BY <1>1, <1>4, ResultsSeen DEF AccountInv
  <2>2. ResultsInTime
    BY DEF AccountInv
  <2>3. \A i \in 1 .. Len(ResultsAt(closeAt)) :
          /\ ResultsAt(closeAt)[i].at \in Nat /\ ResultsAt(closeAt)[i].at <= closeAt
          /\ \A j \in i .. Len(ResultsAt(closeAt)) :
               ResultsAt(closeAt)[i].at <= ResultsAt(closeAt)[j].at
    BY <1>1, <2>2, ResultsSeen
  <2>4. m \in Nat
    BY <1>5, <2>1
  <2> QED
    BY ONLY <1>4, <1>5, <2>3, <2>4, Zenon
<1>7. ASSUME NEW n \in 1 .. m, NEW kind \in Breaks(w, n)
      PROVE  kind = "DAILY_LOSS_LIMIT" /\ DayOf(w[LastBreak(kind, w)].at) # DayOf(closeAt)
  <2>1. kind \in UNION {Breaks(w, i) : i \in 1 .. Len(w)}
    BY <1>5, <1>7
  <2>2. kind \notin Latches(closeAt)
    BY <1>3
  <2> QED
    BY <1>4, <2>1, <2>2, Zenon DEF Latches
<1>8. ASSUME NEW n \in 1 .. m, NEW kind \in Breaks(w, n)
      PROVE  DayOf(w[n].at) # DayOf(closeAt)
  <2> DEFINE marks == {0} \cup {i \in 1 .. Len(w) : kind \in Breaks(w, i)}
  <2>1. marks \in SUBSET (0 .. m) /\ n \in marks
    BY <1>5, <1>6, <1>8
  <2>2. PICK k : k = LastBreak(kind, w)
    OBVIOUS
  <2>3. k = Max(marks)
    BY <2>2 DEF LastBreak
  <2>4. k \in 0 .. m /\ k >= n
    <3> HIDE DEF marks
    <3>1. k \in marks /\ k >= n
      BY <1>6, <2>1, <2>3, MaxIsMax
    <3> QED
      BY <2>1, <3>1
  <2>5. k \in n .. m /\ k \in 1 .. m
    BY <1>6, <2>4
  <2>6. w[n].at \in Nat /\ w[k].at \in Nat /\ w[n].at <= w[k].at /\ w[k].at <= closeAt
    BY <1>6, <2>5
  <2>7. DayOf(w[n].at) <= DayOf(w[k].at) /\ DayOf(w[k].at) <= DayOf(closeAt)
    BY <1>1, <2>6, DaysFollow
  <2>8. DayOf(w[k].at) # DayOf(closeAt)
    BY <1>7, <1>8, <2>2
  <2>9. DayOf(w[n].at) \in Int /\ DayOf(w[k].at) \in Int /\ DayOf(closeAt) \in Int
    BY <1>1, <2>6, DaysFollow
  <2> QED
    BY <2>7, <2>8, <2>9
<1>9. \A n \in 1 .. m : /\ Breaks(w, n) \subseteq {"DAILY_LOSS_LIMIT"}
                        /\ Breaks(w, n) # {} => DayOf(w[n].at) # DayOf(closeAt)
  BY <1>7, <1>8, Zenon
<1> QED
  BY <1>2, <1>4, <1>5, <1>9 DEF AccountIsKnown

\* A plan is admitted only while no order is in an unknown state, and never
\* once a weekly or a streak limit was broken, nor on the day of a daily break
\* (engine_context.py 247-314), whatever the limits and the results are.
THEOREM PlansNeedKnownAccount == AccountSpec => AdmittedOnKnownAccount
<1> DEFINE Known == \A p \in Proposals : plans[p] = NoPlan /\ plans'[p].decision = "ALLOW" =>
                      AccountIsKnown
<1>1. AccountInit => AccountInv
  BY AccountStarts
<1>2. AccountInv /\ [AccountNext]_accountVars => AccountInv'
  BY AccountGoesOn
<1>3. AccountInv /\ [AccountNext]_accountVars => [Known]_accountVars
  <2> SUFFICES ASSUME AccountInv, AccountNext,
                      NEW p \in Proposals, plans[p] = NoPlan, plans'[p].decision = "ALLOW"
               PROVE  Decide(p)
    BY AdmittedIsKnown
  <2>1. NoPlan.decision # "ALLOW"
    BY DEF NoPlan
  <2>2. plans' # plans
    BY <2>1
  <2>3. \A r \in Proposals :
          /\ ~Materialize(r) /\ ~EntryRests(r) /\ ~EntryEnds(r)
          /\ \A e \in LegalTransitions : ~Advance(r, e)
          /\ \A q : ~BookEntry(r, q) /\ ~BookExit(r, q) /\ ~EntryExecutes(r, q) /\ ~LotsClose(r, q)
          /\ \A pnl \in Results : ~BookOutcome(r, pnl)
    <3>1. \A r, o : ~VenueMoves(r, o)
      BY <2>2 DEF VenueMoves
    <3>2. \A r, q, opens : ~Booked(r, opens, q)
      BY <2>2 DEF Booked
    <3>3. \A r, q : ~BookEntry(r, q) /\ ~BookExit(r, q)
      BY <3>2, Zenon DEF BookEntry, BookExit
    <3>4. \A r, q : ~EntryRests(r) /\ ~EntryEnds(r) /\ ~EntryExecutes(r, q) /\ ~LotsClose(r, q)
      BY <3>1, Zenon DEF EntryRests, EntryEnds, EntryExecutes, LotsClose
    <3>5. \A r, x : ~Materialize(r) /\ ~Advance(r, x) /\ ~BookOutcome(r, x)
      BY <2>2 DEF Materialize, Advance, BookOutcome
    <3> QED
      BY <3>3, <3>4, <3>5
  <2>4. ~NextClose
    BY <2>2 DEF NextClose
  <2>5. PICK q \in Proposals : Decide(q)
    BY <2>3, <2>4, Zenon DEF AccountNext
  <2>6. \E row : plans' = [plans EXCEPT ![q] = row]
    BY <2>5 DEF Decide
  <2>7. plans'[p] = plans[p] \/ p = q
    BY <2>6 DEF AccountInv, AccountTyped
  <2> QED
    BY <2>1, <2>5, <2>7
<1> QED
  BY <1>1, <1>2, <1>3, PTL DEF AccountSpec, AdmittedOnKnownAccount

-----------------------------------------------------------------------------
(* The feature timeline.  A run of feature_timeline works on the bars of   *)
(* the store as they are, since nothing is written to the store while it   *)
(* runs; so what has to be shown is that the cache it continues is the     *)
(* accumulation of the bars that SamePrefix finds unchanged.               *)

\* The bars of a window up to one of them that are past the warm-up and met one of
\* these fates.
Heard(w, at, fates) == {i \in 1 .. at : i > WarmUpBars /\ w[i].fate \in fates}
BarsOf(norms) == [k \in DOMAIN norms |-> norms[k].bar]

\* What is accumulated is what the bars of w up to the given one leave, each norm
\* with the version the bar had.
Accumulated(g, w, versions, at) ==
  /\ Enumerates(BarsOf(g.history), Heard(w, at, Measured))
  /\ \A k \in DOMAIN g.history :
       g.history[k] = [bar |-> g.history[k].bar, version |-> versions[g.history[k].bar],
                       htf |-> 0]
  /\ Enumerates(g.norm, Heard(w, at, {"ok"}))
  /\ IsInjective(g.atr) /\ \A k \in DOMAIN g.atr : g.atr[k] <= at

\* The item of a bar holds what was accumulated before the bar.
ItemOf(item, w, versions, at) == item.at = at /\ Accumulated(item, w, versions, at - 1)

NormEntry == [bar : Nat, version : Nat, htf : Nat]
Item == [at : Nat, vector : BOOLEAN, history : Seq(NormEntry), atr : Seq(Nat), norm : Seq(Nat)]
Cache == [sigs : Seq(Nat), history : Seq(NormEntry), atr : Seq(Nat), seeded : BOOLEAN,
          norm : Seq(Nat), item : Item]
Run == [window : Seq(Bar), at : Nat, resumed : BOOLEAN, atrShared : BOOLEAN,
        history : Seq(NormEntry), atr : Seq(Nat), seeded : BOOLEAN, norm : Seq(Nat),
        item : Item \cup {None}]

TimelineTyped ==
  /\ ownBars \in Seq(Bar) /\ htfRows \in Nat
  /\ setbacks \in [fixes : Nat, htf : Nat, escapes : Nat] /\ htfRows = setbacks.htf
  /\ timeline \in Cache \cup {None} /\ replay \in Run \cup {None}
  /\ replay # None /\ replay.resumed => timeline # None

Undisturbed == setbacks.htf = 0 /\ setbacks.escapes = 0

RunIsTrue ==
  /\ ownBars # <<>> /\ replay.window = ownBars /\ replay.at \in 0 .. Len(ownBars)
  /\ Accumulated(replay, ownBars, Signatures(ownBars), replay.at)
  /\ ~replay.seeded => replay.atr = <<>>
  /\ replay.item = None \/ ItemOf(replay.item, ownBars, Signatures(ownBars), replay.at)

CacheIsTrue ==
  /\ Len(timeline.sigs) <= Len(ownBars)
  /\ Accumulated(timeline, ownBars, timeline.sigs, Len(timeline.sigs))
  /\ ~timeline.seeded => timeline.atr = <<>>
  /\ timeline.sigs # <<>>
  /\ ItemOf(timeline.item, ownBars, timeline.sigs, Len(timeline.sigs))

TimelineInv ==
  /\ TimelineTyped
  /\ Undisturbed => /\ replay # None => RunIsTrue
                    /\ replay = None /\ timeline # None => CacheIsTrue
  /\ DecisionIsReplay

TimelineSpec == TimelineInit /\ [][TimelineNext]_timelineVars

\* A higher number at the end of an enumeration enumerates one more.
LEMMA OneMoreEnumerated ==
  ASSUME NEW s \in Seq(Nat), NEW S, NEW n \in Nat, Enumerates(s, S), \A i \in S : i < n
  PROVE  Enumerates(Append(s, n), S \cup {n})
<1> DEFINE t == Append(s, n)
<1>1. t \in Seq(Nat) /\ Len(t) = Len(s) + 1 /\ t[Len(s) + 1] = n
      /\ \A k \in 1 .. Len(s) : t[k] = s[k]
  OBVIOUS
<1>2. DOMAIN t = 1 .. Len(s) + 1 /\ DOMAIN s = 1 .. Len(s) /\ Len(s) \in Nat
  BY <1>1
<1>3. \A k \in 1 .. Len(s) : s[k] \in S /\ s[k] \in Nat
  BY <1>2 DEF Enumerates
<1> HIDE DEF t
<1>4. ASSUME NEW k \in DOMAIN t, NEW m \in DOMAIN t, k < m PROVE t[k] < t[m]
  <2>1. k \in 1 .. Len(s)
    BY <1>2, <1>4
  <2>2. CASE m = Len(s) + 1
    BY <1>1, <1>3, <2>1, <2>2
  <2>3. CASE m \in 1 .. Len(s)
    BY <1>1, <1>2, <1>4, <2>1, <2>3 DEF Enumerates
  <2> QED
    BY <1>2, <2>2, <2>3
<1>5. S \cup {n} = {t[k] : k \in DOMAIN t}
  <2>1. S = {s[k] : k \in 1 .. Len(s)}
    BY <1>2 DEF Enumerates
  <2>2. ASSUME NEW x, x \in S PROVE \E k \in DOMAIN t : x = t[k]
    <3>1. PICK k \in 1 .. Len(s) : x = s[k]
      BY <2>1, <2>2
    <3>2. k \in DOMAIN t /\ t[k] = x
      BY <1>1, <1>2, <3>1
    <3> QED
      BY <3>2
  <2>3. \E k \in DOMAIN t : n = t[k]
    <3>1. Len(s) + 1 \in DOMAIN t
      BY <1>2
    <3> QED
      BY <1>1, <3>1, Zenon
  <2>4. \A k \in DOMAIN t : t[k] \in S \cup {n}
    BY <1>1, <1>2, <1>3
  <2> QED
    BY <2>2, <2>3, <2>4, Zenon
<1> QED
  BY <1>4, <1>5 DEF Enumerates, t

LEMMA OneMoreApart ==
  ASSUME NEW a \in Seq(Nat), NEW n \in Nat, IsInjective(a), \A k \in DOMAIN a : a[k] <= n
  PROVE  /\ IsInjective(Append(a, n + 1))
         /\ \A k \in DOMAIN Append(a, n + 1) : Append(a, n + 1)[k] <= n + 1
<1> DEFINE t == Append(a, n + 1)
<1>1. PICK m \in Nat : m = Len(a)
  OBVIOUS
<1>2. DOMAIN a = 1 .. m /\ \A k \in 1 .. m : a[k] \in Nat /\ a[k] <= n
  BY <1>1
<1>3. DOMAIN t = 1 .. m + 1 /\ t[m + 1] = n + 1 /\ \A k \in 1 .. m : t[k] = a[k]
  BY <1>1
<1>4. \A k, i \in 1 .. m : a[k] = a[i] => k = i
  BY <1>2 DEF IsInjective
<1> HIDE DEF t
<1>5. ASSUME NEW k \in 1 .. m + 1, NEW i \in 1 .. m + 1, t[k] = t[i] PROVE k = i
  <2>1. CASE k = m + 1 /\ i \in 1 .. m
    BY <1>2, <1>3, <1>5, <2>1
  <2>2. CASE i = m + 1 /\ k \in 1 .. m
    BY <1>2, <1>3, <1>5, <2>2
  <2>3. CASE i \in 1 .. m /\ k \in 1 .. m
    BY <1>3, <1>4, <1>5, <2>3
  <2> QED
    BY <1>5, <2>1, <2>2, <2>3
<1>6. \A k \in 1 .. m + 1 : t[k] <= n + 1
  BY <1>2, <1>3
<1> QED
  BY <1>3, <1>5, <1>6 DEF IsInjective, t

LEMMA BarsOfOneMore ==
  ASSUME NEW norms \in Seq(NormEntry), NEW e \in NormEntry
  PROVE  /\ BarsOf(norms) \in Seq(Nat)
         /\ BarsOf(Append(norms, e)) = Append(BarsOf(norms), e.bar)
<1> DEFINE t == Append(norms, e)
<1>1. PICK m \in Nat : m = Len(norms)
  OBVIOUS
<1>2. DOMAIN norms = 1 .. m /\ \A k \in 1 .. m : norms[k] \in NormEntry
  BY <1>1
<1>3. DOMAIN t = 1 .. m + 1 /\ t[m + 1] = e /\ \A k \in 1 .. m : t[k] = norms[k]
  BY <1>1
<1>4. e.bar \in Nat /\ \A x \in NormEntry : x.bar \in Nat
  BY DEF NormEntry
<1> HIDE DEF t
<1>5. BarsOf(norms) = [k \in 1 .. m |-> norms[k].bar]
  BY <1>2 DEF BarsOf
<1>6. BarsOf(t) = [k \in 1 .. m + 1 |-> t[k].bar]
  BY <1>3 DEF BarsOf
<1>7. PICK u \in Seq(Nat) : u = BarsOf(norms)
  <2>1. \A k \in 1 .. m : norms[k].bar \in Nat
    BY <1>2, <1>4
  <2> QED
    BY <1>1, <1>5, <2>1
<1>8. Len(u) = m /\ \A k \in 1 .. m : u[k] = norms[k].bar
  BY <1>5, <1>7
<1>9. Append(u, e.bar) = [k \in 1 .. m + 1 |-> t[k].bar]
  <2>1. Append(u, e.bar) = [k \in 1 .. m + 1 |-> IF k = m + 1 THEN e.bar ELSE u[k]]
    BY <1>4, <1>7, <1>8
  <2>2. \A k \in 1 .. m + 1 : (IF k = m + 1 THEN e.bar ELSE u[k]) = t[k].bar
    BY <1>3, <1>8
  <2> QED
    BY <2>1, <2>2
<1> QED
  BY <1>6, <1>7, <1>9 DEF t

LEMMA HeardSoFar ==
  ASSUME NEW w, NEW at \in Nat, NEW fates
  PROVE  /\ \A i \in Heard(w, at, fates) : i \in Nat /\ i < at + 1
         /\ Heard(w, at + 1, fates)
              = IF at + 1 > WarmUpBars /\ w[at + 1].fate \in fates
                THEN Heard(w, at, fates) \cup {at + 1} ELSE Heard(w, at, fates)
<1>1. WarmUpBars \in Nat
  BY TimelineBounds
<1>2. 1 .. at + 1 = 1 .. at \cup {at + 1} /\ \A i \in 1 .. at : i \in Nat /\ i < at + 1
  OBVIOUS
<1> QED
  BY <1>1, <1>2 DEF Heard

\* The norms of one more bar are those of the bars before and, if the bar was measured, its
\* own.
LEMMA OneBarMore ==
  ASSUME NEW g, NEW h, NEW w \in Seq(Bar), NEW versions \in Seq(Nat), NEW at \in Nat,
         g.history \in Seq(NormEntry), g.norm \in Seq(Nat), g.atr \in Seq(Nat),
         at + 1 \in DOMAIN versions, Accumulated(g, w, versions, at),
         h.history = IF at + 1 > WarmUpBars /\ w[at + 1].fate \in Measured
                     THEN Append(g.history, [bar |-> at + 1, version |-> versions[at + 1],
                                             htf |-> 0])
                     ELSE g.history,
         h.norm = IF at + 1 > WarmUpBars /\ w[at + 1].fate \in {"ok"}
                  THEN Append(g.norm, at + 1) ELSE g.norm,
         h.atr \in {g.atr, Append(g.atr, at + 1), [i \in 1 .. at + 1 |-> i]}
  PROVE  Accumulated(h, w, versions, at + 1)
<1> DEFINE e == [bar |-> at + 1, version |-> versions[at + 1], htf |-> 0]
<1>1. e \in NormEntry /\ e.bar = at + 1
  BY DEF NormEntry
<1>2. Enumerates(BarsOf(h.history), Heard(w, at + 1, Measured))
  <2>1. CASE at + 1 > WarmUpBars /\ w[at + 1].fate \in Measured
    <3>1. h.history = Append(g.history, e)
      BY <2>1
    <3>2. BarsOf(g.history) \in Seq(Nat) /\ BarsOf(h.history) = Append(BarsOf(g.history), at + 1)
      <4> HIDE DEF e
      <4>1. BarsOf(Append(g.history, e)) = Append(BarsOf(g.history), e.bar)
            /\ BarsOf(g.history) \in Seq(Nat)
        BY <1>1, BarsOfOneMore
      <4> QED
        BY <1>1, <3>1, <4>1
    <3>3. Heard(w, at + 1, Measured) = Heard(w, at, Measured) \cup {at + 1}
      BY <2>1, HeardSoFar
    <3>4. \A i \in Heard(w, at, Measured) : i < at + 1
      BY HeardSoFar
    <3>5. Enumerates(BarsOf(g.history), Heard(w, at, Measured))
      BY DEF Accumulated
    <3>6. PICK n \in Nat : n = at + 1
      OBVIOUS
    <3>7. Enumerates(Append(BarsOf(g.history), n), Heard(w, at, Measured) \cup {n})
      BY <3>2, <3>4, <3>5, <3>6, OneMoreEnumerated
    <3> QED
      BY <3>2, <3>3, <3>6, <3>7, Zenon
  <2>2. CASE ~(at + 1 > WarmUpBars /\ w[at + 1].fate \in Measured)
    BY <2>2, HeardSoFar DEF Accumulated
  <2> QED
    BY <2>1, <2>2
<1>3. ASSUME NEW k \in DOMAIN h.history
      PROVE  h.history[k] = [bar |-> h.history[k].bar,
                             version |-> versions[h.history[k].bar], htf |-> 0]
  <2>1. \A m \in DOMAIN g.history :
          g.history[m] = [bar |-> g.history[m].bar, version |-> versions[g.history[m].bar],
                          htf |-> 0]
    BY DEF Accumulated
  <2>2. CASE h.history = Append(g.history, e)
    <3> HIDE DEF e
    <3>1. k \in 1 .. Len(g.history) + 1 /\ Len(g.history) \in Nat
      BY <1>1, <1>3, <2>2
    <3>2. CASE k = Len(g.history) + 1
      <4>1. PICK norms \in Seq(NormEntry) : norms = g.history
        OBVIOUS
      <4>2. Append(norms, e)[Len(norms) + 1] = e
        BY <1>1
      <4>3. h.history[k] = e
        BY <2>2, <3>2, <4>1, <4>2, Zenon
      <4> QED
        BY <1>1, <4>3 DEF e
    <3>3. CASE k \in 1 .. Len(g.history)
      <4>1. h.history[k] = g.history[k] /\ k \in DOMAIN g.history
        BY <1>1, <2>2, <3>3
      <4> QED
        BY <2>1, <4>1
    <3> QED
      BY <3>1, <3>2, <3>3
  <2>3. CASE h.history = g.history
    BY <1>3, <2>1, <2>3
  <2> QED
    BY <2>2, <2>3
<1>4. Enumerates(h.norm, Heard(w, at + 1, {"ok"}))
  <2>1. Enumerates(g.norm, Heard(w, at, {"ok"}))
    BY DEF Accumulated
  <2>2. CASE at + 1 > WarmUpBars /\ w[at + 1].fate \in {"ok"}
    <3>1. h.norm = Append(g.norm, at + 1)
      BY <2>2
    <3>2. Heard(w, at + 1, {"ok"}) = Heard(w, at, {"ok"}) \cup {at + 1}
      BY <2>2, HeardSoFar
    <3>3. \A i \in Heard(w, at, {"ok"}) : i < at + 1
      BY HeardSoFar
    <3>4. PICK n \in Nat : n = at + 1
      OBVIOUS
    <3>5. Enumerates(Append(g.norm, n), Heard(w, at, {"ok"}) \cup {n})
      BY <2>1, <3>3, <3>4, OneMoreEnumerated
    <3> QED
      BY <3>1, <3>2, <3>4, <3>5, Zenon
  <2>3. CASE ~(at + 1 > WarmUpBars /\ w[at + 1].fate \in {"ok"})
    BY <2>1, <2>3, HeardSoFar
  <2> QED
    BY <2>2, <2>3
<1>5. IsInjective(h.atr) /\ \A k \in DOMAIN h.atr : h.atr[k] <= at + 1
  <2>1. IsInjective(g.atr) /\ \A k \in DOMAIN g.atr : g.atr[k] <= at
    BY DEF Accumulated
  <2>2. CASE h.atr = g.atr
    <3>1. \A k \in DOMAIN g.atr : g.atr[k] \in Nat
      <4>1. PICK a \in Seq(Nat) : a = g.atr
        OBVIOUS
      <4>2. \A k \in DOMAIN a : a[k] \in Nat
        OBVIOUS
      <4> QED
        BY <4>1, <4>2
    <3> QED
      BY <2>1, <2>2, <3>1
  <2>3. CASE h.atr = [i \in 1 .. at + 1 |-> i]
    BY <2>3 DEF IsInjective
  <2>4. CASE h.atr = Append(g.atr, at + 1)
    BY <2>1, <2>4, OneMoreApart
  <2> QED
    BY <2>2, <2>3, <2>4
<1> QED
  BY <1>2, <1>3, <1>4, <1>5 DEF Accumulated

\* Only the fates and the versions of the bars that were accumulated matter.
LEMMA AccumulatedOf ==
  ASSUME NEW g, NEW w, NEW u, NEW v1, NEW v2, NEW at \in Nat,
         g.history \in Seq(NormEntry), Accumulated(g, w, v1, at),
         \A i \in 1 .. at : w[i].fate = u[i].fate /\ v1[i] = v2[i]
  PROVE  Accumulated(g, u, v2, at)
<1>1. \A fates : Heard(u, at, fates) = Heard(w, at, fates)
  BY DEF Heard
<1>2. ASSUME NEW k \in DOMAIN g.history
      PROVE  g.history[k].bar \in 1 .. at
  <2>1. g.history[k].bar \in {BarsOf(g.history)[m] : m \in DOMAIN BarsOf(g.history)}
    BY <1>2 DEF BarsOf
  <2> QED
    BY <2>1 DEF Accumulated, Enumerates, Heard
<1> QED
  BY <1>1, <1>2 DEF Accumulated

LEMMA AscendingInterval ==
  ASSUME NEW a \in Nat, NEW b \in Nat, a <= b
  PROVE  Ascending(a .. b) = [k \in 1 .. b - a + 1 |-> a + k - 1]
<1>1. Cardinality(a .. b) = b - a + 1
  BY FS_Interval
<1>2. ASSUME NEW i \in a .. b PROVE Cardinality({j \in a .. b : j < i}) = i - a
  <2>1. {j \in a .. b : j < i} = a .. i - 1
    OBVIOUS
  <2>2. CASE i = a
    <3>1. a > i - 1
      BY <2>2
    <3>2. Cardinality(a .. i - 1) = 0
      BY <3>1, FS_Interval
    <3>3. i - a = 0
      BY <2>2
    <3> QED
      BY ONLY <2>1, <3>2, <3>3, Zenon
  <2>3. CASE i > a
    <3>1. Cardinality(a .. i - 1) = (i - 1) - a + 1
      BY <2>3, FS_Interval
    <3>2. (i - 1) - a + 1 = i - a
      OBVIOUS
    <3> QED
      BY ONLY <2>1, <3>1, <3>2, Zenon
  <2> QED
    BY <2>2, <2>3
<1>3. ASSUME NEW k \in 1 .. b - a + 1
      PROVE  (CHOOSE i \in a .. b : Cardinality({j \in a .. b : j < i}) = k - 1) = a + k - 1
  <2>1. a + k - 1 \in a .. b
    OBVIOUS
  <2>2. \A i \in a .. b : Cardinality({j \in a .. b : j < i}) = k - 1 <=> i = a + k - 1
    BY <1>2
  <2> QED
    BY <2>1, <2>2
<1> QED
  BY <1>1, <1>3 DEF Ascending

\* A window that has a frontier hands E06 one evidence for every bar it covers.
LEMMA EvidenceForEveryBar ==
  ASSUME NEW w \in Seq(Bar), NEW first \in JointFrontier(w)
  PROVE  HandedToE06(w, first).evidence = HandedToE06(w, first).window
<1> DEFINE joint == {i \in DOMAIN w : w[i].e03 /\ w[i].e04}
<1>1. joint = first .. Len(w) /\ first \in joint
  BY DEF JointFrontier
<1>2. PICK n \in Nat : n = Len(w)
  OBVIOUS
<1>3. DOMAIN w = 1 .. n
  BY <1>2
<1>4. first \in Nat /\ first <= n
  BY <1>1, <1>3
<1>5. Ascending(first .. n) = [k \in 1 .. n - first + 1 |-> first + k - 1]
  BY <1>2, <1>4, AscendingInterval
<1>6. HandedToE06(w, first) = [window |-> [k \in 1 .. Len(w) - first + 1 |-> first + k - 1],
                               evidence |-> Ascending(joint)]
  BY DEF HandedToE06
<1> HIDE DEF joint
<1> QED
  BY <1>1, <1>2, <1>5, <1>6

LEMMA NoneOrRecord ==
  /\ IsNone(None) /\ \A x \in Cache \cup Run : ~IsNone(x) /\ x # None
<1>1. IsNone(None)
  BY DEF IsNone, None
<1>2. \A x \in Cache : ~IsNone(x)
  BY DEF IsNone, Cache
<1>3. \A x \in Run : ~IsNone(x)
  BY DEF IsNone, Run
<1> QED
  BY <1>1, <1>2, <1>3, Zenon

LEMMA TimelineStarts == TimelineInit => TimelineInv
<1> SUFFICES ASSUME TimelineInit PROVE TimelineInv
  OBVIOUS
<1>1. TimelineTyped /\ (Undisturbed => (replay # None => RunIsTrue)
                                      /\ (replay = None /\ timeline # None => CacheIsTrue))
  BY DEF TimelineInit, TimelineTyped
<1>2. DecisionIsReplay
  BY NoneOrRecord DEF TimelineInit, DecisionIsReplay
<1> QED
  BY <1>1, <1>2 DEF TimelineInv

\* A decision is not rewritten: what it was made from stays true of it.
LEMMA DecisionKept ==
  ASSUME TimelineInv, prepared' = prepared, htfRows' = htfRows,
         setbacks'.htf = setbacks.htf, setbacks'.escapes = setbacks.escapes
  PROVE  DecisionIsReplay'
<1> QED
  BY Zenon DEF TimelineInv, DecisionIsReplay, Entry

\* The cache does not notice that bars were added or corrected.
LEMMA CacheKept ==
  ASSUME TimelineInv, ownBars' \in Seq(Bar), Len(ownBars) <= Len(ownBars'),
         \A i \in 1 .. Len(ownBars) : ownBars'[i].fate = ownBars[i].fate,
         timeline' = timeline, replay' = replay, replay = None, timeline # None,
         setbacks.htf = 0, setbacks.escapes = 0
  PROVE  CacheIsTrue'
<1>1. CacheIsTrue /\ timeline \in Cache /\ ownBars \in Seq(Bar)
  BY DEF TimelineInv, TimelineTyped, Undisturbed
<1>2. PICK n \in Nat : n = Len(timeline.sigs)
  BY <1>1 DEF Cache
<1>3. PICK m \in Nat : m = Len(ownBars)
  BY <1>1
<1>4. n <= m /\ \A i \in 1 .. n : ownBars[i].fate = ownBars'[i].fate
  BY <1>1, <1>2, <1>3 DEF CacheIsTrue
<1>5. timeline.history \in Seq(NormEntry) /\ timeline.item.history \in Seq(NormEntry)
  BY <1>1 DEF Cache, Item
<1>6. Accumulated(timeline, ownBars', timeline.sigs, n)
  <2>1. Accumulated(timeline, ownBars, timeline.sigs, n)
    BY <1>1, <1>2 DEF CacheIsTrue
  <2> QED
    BY <1>4, <1>5, <2>1, AccumulatedOf
<1>7. ItemOf(timeline.item, ownBars', timeline.sigs, n)
  <2>1. timeline.item.at = n /\ Accumulated(timeline.item, ownBars, timeline.sigs, n - 1)
    BY <1>1, <1>2 DEF CacheIsTrue, ItemOf
  <2>2. CASE n = 0
    <3>1. Accumulated(timeline.item, ownBars', timeline.sigs, n - 1)
      <4>1. \A fates : Heard(ownBars', n - 1, fates) = Heard(ownBars, n - 1, fates)
        BY <2>2 DEF Heard
      <4> QED
        BY <2>1, <4>1 DEF Accumulated
    <3> QED
      BY <2>1, <3>1 DEF ItemOf
  <2>3. CASE n > 0
    <3>1. PICK k \in Nat : k = n - 1
      BY <2>3
    <3>2. Accumulated(timeline.item, ownBars', timeline.sigs, k)
      BY <1>4, <1>5, <2>1, <3>1, AccumulatedOf
    <3> QED
      BY <2>1, <3>1, <3>2 DEF ItemOf
  <2> QED
    BY <2>2, <2>3
<1>8. n <= Len(ownBars')
  BY <1>3, <1>4
<1> QED
  BY <1>1, <1>2, <1>6, <1>7, <1>8 DEF CacheIsTrue

LEMMA RowClosesSafe ==
  ASSUME TimelineInv, NEW b \in Bar, RowCloses(b)
  PROVE  TimelineInv'
<1>1. TimelineTyped /\ IsNone(replay) /\ replay \in Run \cup {None}
  BY DEF TimelineInv, TimelineTyped, RowCloses
<1>2. replay = None /\ UNCHANGED <<htfRows, timeline, replay, prepared, setbacks>>
  BY <1>1, NoneOrRecord DEF RowCloses
<1>3. PICK m \in Nat : m = Len(ownBars) /\ DOMAIN ownBars = 1 .. m
  BY <1>1 DEF TimelineTyped
<1>4. ownBars' \in Seq(Bar) /\ Len(ownBars') = m + 1 /\ \A i \in 1 .. m : ownBars'[i] = ownBars[i]
  BY <1>1, <1>3 DEF TimelineTyped, RowCloses
<1>5. TimelineTyped'
  BY <1>1, <1>2, <1>4 DEF TimelineTyped
<1>6. Undisturbed /\ timeline # None => CacheIsTrue'
  BY <1>2, <1>3, <1>4, CacheKept DEF Undisturbed
<1>7. DecisionIsReplay'
  BY <1>2, DecisionKept
<1> QED
  BY <1>2, <1>5, <1>6, <1>7 DEF TimelineInv, Undisturbed

LEMMA BarCorrectedSafe ==
  ASSUME TimelineInv, NEW i \in DOMAIN ownBars, BarCorrected(i)
  PROVE  TimelineInv'
<1>1. TimelineTyped /\ IsNone(replay) /\ replay \in Run \cup {None}
  BY DEF TimelineInv, TimelineTyped, BarCorrected
<1>2. replay = None /\ UNCHANGED <<htfRows, timeline, replay, prepared>>
  BY <1>1, NoneOrRecord DEF BarCorrected
<1>3. PICK m \in Nat : m = Len(ownBars) /\ DOMAIN ownBars = 1 .. m
  BY <1>1 DEF TimelineTyped
<1>4. /\ setbacks' \in [fixes : Nat, htf : Nat, escapes : Nat]
      /\ setbacks'.htf = setbacks.htf /\ setbacks'.escapes = setbacks.escapes
  BY <1>1 DEF TimelineTyped, BarCorrected
<1>5. /\ [ownBars[i] EXCEPT !.version = @ + 1] \in Bar
      /\ [ownBars[i] EXCEPT !.version = @ + 1].fate = ownBars[i].fate
  <2>1. ownBars[i] \in Bar
    BY <1>1, <1>3 DEF TimelineTyped
  <2> QED
    BY <2>1 DEF Bar
<1>6. /\ ownBars' \in Seq(Bar) /\ Len(ownBars') = m
      /\ \A k \in 1 .. m : ownBars'[k].fate = ownBars[k].fate
  <2>1. PICK c \in Bar : c = [ownBars[i] EXCEPT !.version = @ + 1]
    BY <1>5
  <2>2. ownBars' = [ownBars EXCEPT ![i] = c]
    BY <2>1 DEF BarCorrected
  <2> QED
    BY <1>1, <1>3, <1>5, <2>1, <2>2 DEF TimelineTyped
<1>7. TimelineTyped'
  BY <1>1, <1>2, <1>4, <1>6 DEF TimelineTyped
<1>8. Undisturbed /\ timeline # None => CacheIsTrue'
  BY <1>2, <1>3, <1>6, CacheKept DEF Undisturbed
<1>9. DecisionIsReplay'
  BY <1>2, <1>4, DecisionKept
<1> QED
  BY <1>2, <1>4, <1>7, <1>8, <1>9 DEF TimelineInv, Undisturbed

LEMMA HtfCorrectedSafe ==
  ASSUME TimelineInv, HtfCorrected
  PROVE  TimelineInv'
<1>1. TimelineTyped
  BY DEF TimelineInv
<1>2. setbacks' \in [fixes : Nat, htf : Nat, escapes : Nat] /\ setbacks'.htf = setbacks.htf + 1
      /\ setbacks.htf \in Nat
  BY <1>1 DEF TimelineTyped, HtfCorrected
<1>3. TimelineTyped'
  BY <1>1, <1>2 DEF TimelineTyped, HtfCorrected
<1>4. setbacks'.htf # 0
  BY <1>2
<1> QED
  BY <1>3, <1>4 DEF TimelineInv, Undisturbed, DecisionIsReplay

\* The types of what a run leaves in the lists it shares with the cache.
LEMMA AliasedTyped ==
  ASSUME TimelineTyped, replay # None, NEW atr \in Seq(Nat), NEW norms \in Seq(NormEntry)
  PROVE  /\ Aliased(replay, atr, norms) \in Cache \cup {None}
         /\ replay.resumed => Aliased(replay, atr, norms) # None
<1>1. CASE ~replay.resumed
  BY <1>1 DEF Aliased, TimelineTyped
<1>2. CASE replay.resumed
  <2>1. timeline \in Cache
    BY <1>2 DEF TimelineTyped
  <2>2. [timeline EXCEPT !.history = norms, !.atr = IF replay.atrShared THEN atr ELSE @] \in Cache
    BY <2>1 DEF Cache
  <2>3. Aliased(replay, atr, norms) \in Cache
    BY <1>2, <2>2 DEF Aliased
  <2> QED
    BY <2>3, NoneOrRecord
<1> QED
  BY <1>1, <1>2

LEMMA AtrTyped ==
  ASSUME NEW g \in Run, NEW n \in Nat
  PROVE  AtrAfter(g, n) \in Seq(Nat)
<1>1. g.atr \in Seq(Nat)
  BY DEF Run
<1>2. [i \in 1 .. n |-> i] \in Seq(Nat)
  OBVIOUS
<1> QED
  BY <1>1, <1>2 DEF AtrAfter

LEMMA ErrorEscapesSafe ==
  ASSUME TimelineInv, ErrorEscapes
  PROVE  TimelineInv'
<1>1. TimelineTyped /\ replay \in Run /\ replay # None
  BY NoneOrRecord DEF TimelineInv, TimelineTyped, ErrorEscapes
<1>2. replay.at \in Nat /\ replay.history \in Seq(NormEntry)
  BY <1>1 DEF Run
<1>3. AtrAfter(replay, replay.at + 1) \in Seq(Nat)
  BY <1>1, <1>2, AtrTyped
<1>4. timeline' \in Cache \cup {None}
  BY <1>1, <1>2, <1>3, AliasedTyped DEF ErrorEscapes
<1>5. /\ setbacks' \in [fixes : Nat, htf : Nat, escapes : Nat]
      /\ setbacks'.htf = setbacks.htf /\ setbacks'.escapes # 0
  BY <1>1 DEF TimelineTyped, ErrorEscapes
<1>6. TimelineTyped'
  BY <1>1, <1>4, <1>5 DEF TimelineTyped, ErrorEscapes
<1> QED
  BY <1>5, <1>6 DEF TimelineInv, Undisturbed, DecisionIsReplay

LEMMA BlankRun ==
  ASSUME NEW w \in Seq(Bar)
  PROVE  /\ Blank(w) \in Run /\ Blank(w).window = w /\ Blank(w).at = 0
         /\ ~Blank(w).resumed /\ Blank(w).atr = <<>> /\ Blank(w).item = None
         /\ \A versions : Accumulated(Blank(w), w, versions, 0)
<1>1. Blank(w) \in Run
  BY DEF Blank, Run
<1>2. /\ Blank(w).window = w /\ Blank(w).at = 0 /\ ~Blank(w).resumed /\ Blank(w).atr = <<>>
      /\ Blank(w).item = None /\ Blank(w).history = <<>> /\ Blank(w).norm = <<>>
  BY DEF Blank
<1>3. \A fates : Heard(w, 0, fates) = {}
  BY DEF Heard
<1>4. Enumerates(<<>>, {}) /\ BarsOf(<<>>) = <<>> /\ IsInjective(<<>>)
  BY DEF Enumerates, BarsOf, IsInjective
<1>5. ASSUME NEW versions PROVE Accumulated(Blank(w), w, versions, 0)
  <2>1. /\ Enumerates(BarsOf(Blank(w).history), Heard(w, 0, Measured))
        /\ Enumerates(Blank(w).norm, Heard(w, 0, {"ok"})) /\ IsInjective(Blank(w).atr)
    BY <1>2, <1>3, <1>4
  <2>2. DOMAIN Blank(w).history = {} /\ DOMAIN Blank(w).atr = {}
    BY <1>2
  <2> QED
    BY <2>1, <2>2, Zenon DEF Accumulated
<1> QED
  BY <1>1, <1>2, <1>5

LEMMA PrepareBeginsSafe ==
  ASSUME TimelineInv, PrepareBegins
  PROVE  TimelineInv'
<1> DEFINE old == timeline
           go == ~IsNone(timeline) /\ SamePrefix(timeline.sigs, ownBars)
           next == [ Blank(ownBars) EXCEPT !.at = Len(old.sigs), !.resumed = TRUE,
                      !.atrShared = TRUE, !.history = old.history, !.atr = old.atr,
                      !.seeded = old.seeded, !.norm = old.norm, !.item = old.item ]
<1>1. /\ TimelineTyped /\ IsNone(replay) /\ replay \in Run \cup {None}
      /\ ownBars \in Seq(Bar) /\ timeline \in Cache \cup {None}
  BY DEF TimelineInv, TimelineTyped, PrepareBegins
<1>2. replay = None /\ UNCHANGED <<ownBars, htfRows, timeline, prepared, setbacks>>
  BY <1>1, NoneOrRecord DEF PrepareBegins
<1>3. DecisionIsReplay'
  BY <1>2, DecisionKept
<1>0. ownBars # <<>>
  BY DEF PrepareBegins
<1>4. TimelineTyped' <=> replay' \in Run \cup {None}
                        /\ (replay' # None /\ replay'.resumed => timeline # None)
  BY <1>1, <1>2 DEF TimelineTyped
<1>5. CASE ~go
  <2>1. replay' = Blank(ownBars)
    BY <1>5 DEF PrepareBegins
  <2>2. /\ replay' \in Run /\ replay'.window = ownBars /\ replay'.at = 0 /\ ~replay'.resumed
        /\ replay'.atr = <<>> /\ replay'.item = None
        /\ Accumulated(replay', ownBars, Signatures(ownBars), 0)
    BY <1>1, <2>1, BlankRun
  <2>3. replay' # None
    BY <2>2, NoneOrRecord
  <2>4. RunIsTrue'
    BY <1>0, <1>1, <1>2, <2>2 DEF RunIsTrue, Signatures
  <2> QED
    BY <1>1, <1>3, <1>4, <2>2, <2>3, <2>4 DEF TimelineInv
<1>6. CASE go
  <2>1. timeline \in Cache /\ timeline # None /\ replay' = next
    BY <1>1, <1>6, NoneOrRecord DEF PrepareBegins
  <2>2. PICK n \in Nat : n = Len(timeline.sigs) /\ DOMAIN timeline.sigs = 1 .. n
    BY <2>1 DEF Cache
  <2>3. n <= Len(ownBars) /\ \A i \in 1 .. n : timeline.sigs[i] = ownBars[i].version
    BY <1>6, <2>2 DEF SamePrefix
  <2>4. Blank(ownBars) \in Run
    BY <1>1, BlankRun
  <2>5. /\ next \in Run /\ next.window = ownBars /\ next.at = n
        /\ next.history = old.history /\ next.atr = old.atr /\ next.norm = old.norm
        /\ next.seeded = old.seeded /\ next.item = old.item
    BY <1>1, <2>1, <2>2 DEF Blank, Run, Cache
  <2>6. next # None
    BY <2>5, NoneOrRecord
  <2> HIDE DEF next
  <2>7. TimelineTyped'
    BY <1>1, <1>4, <2>1, <2>5
  <2>8. ASSUME Undisturbed PROVE RunIsTrue'
    <3>1. CacheIsTrue
      BY <1>2, <2>1, <2>8 DEF TimelineInv
    <3>2. PICK m \in Nat : m = Len(ownBars) /\ DOMAIN ownBars = 1 .. m
      BY <1>1
    <3>3. \A i \in 1 .. n : timeline.sigs[i] = Signatures(ownBars)[i]
      BY <2>3, <3>2 DEF Signatures
    <3>4. Accumulated(timeline, ownBars, Signatures(ownBars), n)
      <4>1. Accumulated(timeline, ownBars, timeline.sigs, n) /\ timeline.history \in Seq(NormEntry)
        BY <2>1, <2>2, <3>1 DEF CacheIsTrue, Cache
      <4> QED
        BY <3>3, <4>1, AccumulatedOf
    <3>5. Accumulated(next, ownBars, Signatures(ownBars), n)
      BY <2>5, <3>4 DEF Accumulated
    <3>6. ItemOf(timeline.item, ownBars, Signatures(ownBars), n)
      <4>1. /\ timeline.item.at = n /\ timeline.item.history \in Seq(NormEntry)
            /\ Accumulated(timeline.item, ownBars, timeline.sigs, n - 1)
        BY <2>1, <2>2, <3>1 DEF CacheIsTrue, Cache, Item, ItemOf
      <4>2. n # 0
        BY <2>1, <2>2, <3>1 DEF CacheIsTrue, Cache
      <4>3. PICK k \in Nat : k = n - 1
        BY <4>2
      <4>4. Accumulated(timeline.item, ownBars, Signatures(ownBars), k)
        BY <3>3, <4>1, <4>3, AccumulatedOf
      <4> QED
        BY <4>1, <4>3, <4>4 DEF ItemOf
    <3>7. ~next.seeded => next.atr = <<>>
      BY <2>5, <3>1 DEF CacheIsTrue
    <3> QED
      BY <1>0, <1>2, <2>1, <2>2, <2>3, <2>5, <3>2, <3>5, <3>6, <3>7 DEF RunIsTrue, Signatures
  <2> QED
    BY <1>2, <1>3, <2>1, <2>6, <2>7, <2>8 DEF TimelineInv, Undisturbed
<1> QED
  BY <1>5, <1>6

LEMMA BarReplayedSafe ==
  ASSUME TimelineInv, BarReplayed
  PROVE  TimelineInv'
<1> DEFINE n == replay.at + 1
           fate == replay.window[n].fate
           framed == n > WarmUpBars /\ fate \in Framed
           measured == n > WarmUpBars /\ fate \in Measured
           atr == IF framed THEN AtrAfter(replay, n) ELSE replay.atr
           norms == IF measured THEN Append(replay.history, Entry(replay.window, n))
                    ELSE replay.history
           item == [ at |-> n, vector |-> measured /\ fate = "ok", history |-> replay.history,
                     atr |-> replay.atr, norm |-> replay.norm ]
           next == [ replay EXCEPT !.at = n, !.atr = atr, !.history = norms,
                      !.seeded = @ \/ framed, !.atrShared = @ /\ ~framed,
                      !.norm = IF item.vector THEN Append(@, n) ELSE @, !.item = item ]
<1>1. TimelineTyped /\ replay \in Run /\ replay # None
  BY NoneOrRecord DEF TimelineInv, TimelineTyped, BarReplayed
<1>2. replay' = next /\ timeline' = Aliased(replay, atr, norms)
      /\ UNCHANGED <<ownBars, htfRows, prepared, setbacks>>
  BY DEF BarReplayed
<1>3. /\ replay.at \in Nat /\ n \in Nat /\ replay.window \in Seq(Bar) /\ replay.at < Len(replay.window)
      /\ replay.history \in Seq(NormEntry) /\ replay.atr \in Seq(Nat) /\ replay.norm \in Seq(Nat)
      /\ replay.seeded \in BOOLEAN /\ replay.atrShared \in BOOLEAN
  BY <1>1 DEF Run, BarReplayed
<1>4. n \in DOMAIN replay.window /\ replay.window[n] \in Bar
  BY <1>3
<1>5. Entry(replay.window, n) \in NormEntry
  BY <1>1, <1>3, <1>4 DEF Entry, NormEntry, Bar, TimelineTyped
<1>6. atr \in Seq(Nat) /\ norms \in Seq(NormEntry)
  BY <1>1, <1>3, <1>5, AtrTyped
<1>7. item \in Item
  BY <1>3 DEF Item
<1>8. item.at = n /\ item.history = replay.history /\ item.atr = replay.atr
      /\ item.norm = replay.norm /\ item.vector = (measured /\ fate = "ok")
      /\ item.vector \in BOOLEAN
  OBVIOUS
<1>9. (IF item.vector THEN Append(replay.norm, n) ELSE replay.norm) \in Seq(Nat)
  BY <1>3
<1> HIDE DEF item, atr, norms
<1>10. /\ next \in Run /\ next.window = replay.window /\ next.at = n /\ next.atr = atr
       /\ next.history = norms /\ next.item = item /\ next.resumed = replay.resumed
       /\ next.seeded = (replay.seeded \/ framed)
       /\ next.norm = IF item.vector THEN Append(replay.norm, n) ELSE replay.norm
  BY <1>1, <1>3, <1>6, <1>7, <1>9 DEF Run
<1> HIDE DEF next
<1>11. TimelineTyped'
  <2>1. timeline' \in Cache \cup {None} /\ (replay.resumed => timeline' # None)
    BY <1>1, <1>2, <1>6, AliasedTyped
  <2> QED
    BY <1>1, <1>2, <1>10, <2>1 DEF TimelineTyped
<1>12. DecisionIsReplay'
  BY <1>2, DecisionKept
<1>13. ASSUME Undisturbed PROVE RunIsTrue'
  <2>1. RunIsTrue /\ htfRows = 0 /\ ownBars \in Seq(Bar)
    BY <1>1, <1>13 DEF TimelineInv, TimelineTyped, Undisturbed
  <2>2. PICK m \in Nat : m = Len(ownBars) /\ DOMAIN ownBars = 1 .. m
    BY <2>1
  <2>3. PICK k \in Nat : k = replay.at
    BY <1>3
  <2>4. PICK versions : versions = Signatures(ownBars)
    OBVIOUS
  <2>5. /\ versions \in Seq(Nat) /\ DOMAIN versions = 1 .. m
        /\ \A i \in 1 .. m : versions[i] = ownBars[i].version
    <3>1. \A i \in 1 .. m : ownBars[i].version \in Nat
      <4>1. \A i \in 1 .. m : ownBars[i] \in Bar
        BY <2>1, <2>2
      <4> QED
        BY <4>1 DEF Bar
    <3> QED
      BY <2>2, <2>4, <3>1 DEF Signatures
  <2>6. replay.window = ownBars /\ Accumulated(replay, ownBars, versions, k)
    BY <2>1, <2>3, <2>4 DEF RunIsTrue
  <2>7. k + 1 = n /\ k + 1 \in 1 .. m
    BY <1>3, <2>2, <2>3, <2>6
  <2>8. Entry(ownBars, k + 1) = [bar |-> k + 1, version |-> versions[k + 1], htf |-> 0]
    BY <2>1, <2>5, <2>7 DEF Entry
  <2>9. next.history = IF k + 1 > WarmUpBars /\ ownBars[k + 1].fate \in Measured
                       THEN Append(replay.history, [bar |-> k + 1, version |-> versions[k + 1],
                                                    htf |-> 0])
                       ELSE replay.history
    BY <1>10, <2>6, <2>7, <2>8, Zenon DEF norms
  <2>10. next.norm = IF k + 1 > WarmUpBars /\ ownBars[k + 1].fate \in {"ok"}
                     THEN Append(replay.norm, k + 1) ELSE replay.norm
    <3>1. item.vector <=> k + 1 > WarmUpBars /\ ownBars[k + 1].fate \in {"ok"}
      BY <1>8, <2>6, <2>7 DEF Measured
    <3> QED
      BY <1>10, <2>7, <3>1
  <2>11. next.atr \in {replay.atr, Append(replay.atr, k + 1), [i \in 1 .. k + 1 |-> i]}
    BY <1>10, <2>7 DEF atr, AtrAfter
  <2>12. Accumulated(next, ownBars, versions, k + 1)
    BY <1>3, <2>1, <2>5, <2>6, <2>7, <2>9, <2>10, <2>11, OneBarMore
  <2>13. ItemOf(next.item, ownBars, versions, k + 1)
    <3>1. Accumulated(item, ownBars, versions, k)
      BY <1>8, <2>6 DEF Accumulated
    <3>2. (k + 1) - 1 = k
      OBVIOUS
    <3> QED
      BY <1>8, <1>10, <2>7, <3>1, <3>2 DEF ItemOf
  <2>14. ~next.seeded => next.atr = <<>>
    BY <1>10, <2>1 DEF RunIsTrue, atr
  <2>15. next.window = ownBars /\ next.at = k + 1 /\ k + 1 \in 0 .. Len(ownBars)
    BY <1>10, <2>2, <2>6, <2>7
  <2>16. Signatures(ownBars)' = versions
    BY <1>2, <2>4 DEF Signatures
  <2> QED
    BY <1>2, <2>12, <2>13, <2>14, <2>15, <2>16 DEF RunIsTrue
<1>14. replay' # None
  BY <1>2, <1>10, NoneOrRecord
<1> QED
  BY <1>2, <1>11, <1>12, <1>13, <1>14 DEF TimelineInv, Undisturbed

LEMMA PrepareEndsSafe ==
  ASSUME TimelineInv, NEW trouble, PrepareEnds(trouble)
  PROVE  TimelineInv'
<1> DEFINE item == replay.item
           whole == ~IsNone(item) /\ item.at = Len(replay.window) /\ item.vector
           frontier == JointFrontier(replay.window)
           refusal == BundleRefusal(whole, frontier, trouble)
           kept == [ sigs |-> Signatures(replay.window), history |-> replay.history,
                     atr |-> replay.atr, seeded |-> replay.seeded, norm |-> replay.norm,
                     item |-> item ]
           made == [ window |-> replay.window, item |-> item,
                     e06 |-> HandedToE06(replay.window, CHOOSE f \in frontier : TRUE) ]
<1>1. TimelineTyped /\ replay \in Run /\ replay # None
  BY NoneOrRecord DEF TimelineInv, TimelineTyped, PrepareEnds
<1>2. /\ replay' = None /\ UNCHANGED <<ownBars, htfRows, setbacks>>
      /\ timeline' = IF whole THEN kept ELSE None
      /\ prepared' = IF refusal # "none" THEN [none |-> TRUE, refusal |-> refusal] ELSE made
      /\ replay.at = Len(replay.window)
  BY DEF PrepareEnds
<1>3. /\ replay.window \in Seq(Bar) /\ replay.history \in Seq(NormEntry)
      /\ replay.atr \in Seq(Nat) /\ replay.norm \in Seq(Nat) /\ replay.seeded \in BOOLEAN
      /\ item \in Item \cup {None}
  BY <1>1 DEF Run
<1>4. PICK m \in Nat : m = Len(replay.window) /\ DOMAIN replay.window = 1 .. m
  BY <1>3
<1>5. /\ Signatures(replay.window) \in Seq(Nat) /\ Len(Signatures(replay.window)) = m
      /\ \A i \in 1 .. m : Signatures(replay.window)[i] = replay.window[i].version
  <2>1. \A i \in 1 .. m : replay.window[i].version \in Nat
    <3>1. \A i \in 1 .. m : replay.window[i] \in Bar
      BY <1>3, <1>4
    <3> QED
      BY <3>1 DEF Bar
  <2> QED
    BY <1>4, <2>1 DEF Signatures
<1>6. whole => item \in Item /\ item # None
  BY <1>3, NoneOrRecord DEF Item, IsNone, None
<1>7. whole => kept \in Cache
  BY <1>3, <1>5, <1>6 DEF Cache
<1>8. TimelineTyped'
  BY <1>1, <1>2, <1>7 DEF TimelineTyped
<1>9. ASSUME Undisturbed PROVE RunIsTrue /\ htfRows = 0
  BY <1>1, <1>9 DEF TimelineInv, TimelineTyped, Undisturbed
<1>10. ASSUME Undisturbed, whole
       PROVE  /\ replay.window = ownBars /\ Accumulated(replay, ownBars, Signatures(ownBars), m)
              /\ ItemOf(item, ownBars, Signatures(ownBars), m)
              /\ (~replay.seeded => replay.atr = <<>>)
  BY <1>2, <1>4, <1>6, <1>9, <1>10 DEF RunIsTrue
<1>11. ASSUME Undisturbed, timeline' # None PROVE CacheIsTrue'
  <2>1. whole /\ timeline' = kept
    BY <1>2, <1>11
  <2>2. Signatures(ownBars) # <<>>
    <3>1. ownBars # <<>>
      BY <1>9, <1>11 DEF RunIsTrue
    <3>2. m # 0
      BY <1>1, <1>4, <1>10, <1>11, <2>1, <3>1 DEF TimelineTyped
    <3> QED
      BY <1>5, <1>10, <1>11, <2>1, <3>2
  <2>3. Accumulated(kept, ownBars, Signatures(ownBars), m)
    BY <1>10, <1>11, <2>1 DEF Accumulated
  <2>4. /\ kept.sigs = Signatures(ownBars) /\ kept.item = item /\ kept.atr = replay.atr
        /\ kept.seeded = replay.seeded
    BY <1>10, <1>11, <2>1
  <2>5. Len(ownBars) = m /\ Len(kept.sigs) = m
    BY <1>4, <1>5, <1>10, <1>11, <2>1, <2>4
  <2> HIDE DEF kept
  <2> QED
    BY <1>2, <1>10, <1>11, <2>1, <2>2, <2>3, <2>4, <2>5 DEF CacheIsTrue
<1>12. DecisionIsReplay'
  <2> SUFFICES ASSUME ~IsNone(prepared'), Undisturbed
               PROVE  DecisionIsReplay'
    BY Zenon, <1>2 DEF DecisionIsReplay, Undisturbed
  <2>1. prepared' = made /\ refusal = "none"
    BY <1>2 DEF IsNone
  <2>2. whole /\ frontier # {}
    BY <2>1 DEF BundleRefusal, EarlyTroubles
  <2>3. PICK first \in frontier : first = CHOOSE f \in frontier : TRUE
    BY <2>2
  <2>4. made.window = ownBars /\ made.item = item /\ made.e06 = HandedToE06(ownBars, first)
    BY <1>10, <2>2, <2>3
  <2>5. made.e06.evidence = made.e06.window
    BY <1>3, <1>10, <2>2, <2>3, <2>4, EvidenceForEveryBar
  <2>6. item.at = m /\ Accumulated(item, ownBars, Signatures(ownBars), m - 1)
    BY <1>10, <2>2 DEF ItemOf
  <2>7. /\ item.history \in Seq(NormEntry) /\ item.atr \in Seq(Nat) /\ item.norm \in Seq(Nat)
    BY <1>6, <2>2 DEF Item
  <2>8. \A fates : {i \in 1 .. item.at - 1 : i > WarmUpBars /\ ownBars[i].fate \in fates}
                     = Heard(ownBars, m - 1, fates)
    BY <2>6 DEF Heard
  <2>9. ASSUME NEW k \in DOMAIN item.history
        PROVE  item.history[k] = Entry(ownBars, item.history[k].bar)
    <3>1. item.history[k].bar \in {BarsOf(item.history)[j] : j \in DOMAIN BarsOf(item.history)}
      BY <2>9 DEF BarsOf
    <3>2. item.history[k].bar \in Heard(ownBars, m - 1, Measured)
      BY <2>6, <3>1 DEF Accumulated, Enumerates
    <3>3. item.history[k].bar \in 1 .. m
      BY <3>2 DEF Heard
    <3>4. Signatures(ownBars)[item.history[k].bar] = ownBars[item.history[k].bar].version
      BY <1>5, <1>10, <2>2, <3>3
    <3>5. item.history[k] = [bar |-> item.history[k].bar,
                             version |-> Signatures(ownBars)[item.history[k].bar], htf |-> 0]
      BY <2>6, <2>9 DEF Accumulated
    <3> QED
      BY <1>9, <3>4, <3>5 DEF Entry
  <2>10. Enumerates([k \in DOMAIN item.history |-> item.history[k].bar],
                    Heard(ownBars, m - 1, Measured))
         /\ Enumerates(item.norm, Heard(ownBars, m - 1, {"ok"}))
    BY <2>6 DEF Accumulated, BarsOf
  <2>11. IsInjective(item.atr) /\ \A k \in DOMAIN item.atr : item.atr[k] < item.at
    <3>1. IsInjective(item.atr) /\ \A k \in DOMAIN item.atr : item.atr[k] <= m - 1
      BY <2>6 DEF Accumulated
    <3>2. \A k \in DOMAIN item.atr : item.atr[k] \in Nat
      <4>1. PICK a \in Seq(Nat) : a = item.atr
        BY <2>7
      <4>2. \A k \in DOMAIN a : a[k] \in Nat
        OBVIOUS
      <4> QED
        BY <4>1, <4>2
    <3> QED
      BY <2>6, <3>1, <3>2
  <2> HIDE DEF made, item
  <2> QED
    BY Zenon, <1>2, <2>1, <2>4, <2>5, <2>8, <2>9, <2>10, <2>11 DEF DecisionIsReplay, Entry
<1> QED
  BY <1>2, <1>8, <1>11, <1>12 DEF TimelineInv, Undisturbed

LEMMA TimelineGoesOn == TimelineInv /\ [TimelineNext]_timelineVars => TimelineInv'
<1> SUFFICES ASSUME TimelineInv, [TimelineNext]_timelineVars PROVE TimelineInv'
  OBVIOUS
<1>1. ASSUME NEW i \in DOMAIN BarFates, NEW b \in BarFates[i], RowCloses(b) PROVE TimelineInv'
  <2>1. b \in Bar
    BY <1>1, TimelineBounds
  <2> QED
    BY <1>1, <2>1, RowClosesSafe
<1>2. CASE UNCHANGED timelineVars
  <2>1. /\ ownBars' = ownBars /\ htfRows' = htfRows /\ timeline' = timeline
        /\ replay' = replay /\ prepared' = prepared /\ setbacks' = setbacks
    BY <1>2 DEF timelineVars
  <2> QED
    BY <2>1, Zenon DEF TimelineInv, TimelineTyped, Undisturbed, RunIsTrue, CacheIsTrue,
       DecisionIsReplay, Entry
<1> QED
  BY <1>1, <1>2, PrepareBeginsSafe, BarReplayedSafe, ErrorEscapesSafe, HtfCorrectedSafe,
     PrepareEndsSafe, BarCorrectedSafe, Zenon DEF TimelineNext

\* As long as no error escaped and no row of another timeframe was corrected, a
\* decision rests on what a replay of all its bars would have accumulated
\* (engine_context.py 2430-2560, 1490-1580), whatever the bars and their fates.
THEOREM DecisionsReplayTheirBars == TimelineSpec => []DecisionIsReplay
<1>1. TimelineInv => DecisionIsReplay
  BY DEF TimelineInv
<1> QED
  BY <1>1, TimelineStarts, TimelineGoesOn, PTL DEF TimelineSpec

-----------------------------------------------------------------------------
(* The plan bridge.  Every measurement lists its values from the soundest  *)
(* to the worst; what is shown is that each check of the bridge that       *)
(* passes a measurement passes the sounder ones, whichever of the others   *)
(* got better with it.                                                     *)

BridgeSpec == BridgeInit /\ [][BridgeNext]_bridgeVars

Cells == {k \in [Measures -> Nat] : \A m \in Measures : k[m] \in DOMAIN Scale[m]}

BridgeInv == cell \in Cells /\ answer = CallBridge(Read(cell))

Sounder(k, j) == \A m \in Measures : k[m] <= j[m]

\* Of the values a measurement may take, the sounder cell has the same or an earlier one.
LEMMA SounderValue ==
  ASSUME NEW k \in Cells, NEW j \in Cells, Sounder(k, j), NEW m \in Measures
  PROVE  /\ k[m] \in DOMAIN Scale[m] /\ j[m] \in DOMAIN Scale[m] /\ k[m] <= j[m]
         /\ Read(k)[m] = Scale[m][k[m]] /\ Read(j)[m] = Scale[m][j[m]]
<1> QED
  BY DEF Cells, Sounder, Read

LEMMA SounderOfTwo ==
  ASSUME NEW k \in Cells, NEW j \in Cells, Sounder(k, j), NEW m \in Measures,
         NEW a, NEW b, Scale[m] = <<a, b>>
  PROVE  \/ Read(k)[m] = a /\ Read(j)[m] \in {a, b}
         \/ Read(k)[m] = b /\ Read(j)[m] \in {b}
<1>1. DOMAIN Scale[m] = 1 .. 2
  OBVIOUS
<1>2. k[m] \in 1 .. 2 /\ j[m] \in 1 .. 2 /\ k[m] <= j[m]
  BY <1>1, SounderValue
<1>3. Read(k)[m] = Scale[m][k[m]] /\ Read(j)[m] = Scale[m][j[m]]
  BY SounderValue
<1> QED
  BY <1>2, <1>3

LEMMA SounderOfThree ==
  ASSUME NEW k \in Cells, NEW j \in Cells, Sounder(k, j), NEW m \in Measures,
         NEW a, NEW b, NEW c, Scale[m] = <<a, b, c>>
  PROVE  \/ Read(k)[m] = a /\ Read(j)[m] \in {a, b, c}
         \/ Read(k)[m] = b /\ Read(j)[m] \in {b, c}
         \/ Read(k)[m] = c /\ Read(j)[m] \in {c}
<1>1. DOMAIN Scale[m] = 1 .. 3
  OBVIOUS
<1>2. k[m] \in 1 .. 3 /\ j[m] \in 1 .. 3 /\ k[m] <= j[m]
  BY <1>1, SounderValue
<1>3. Read(k)[m] = Scale[m][k[m]] /\ Read(j)[m] = Scale[m][j[m]]
  BY SounderValue
<1> QED
  BY <1>2, <1>3

LEMMA SounderOfFour ==
  ASSUME NEW k \in Cells, NEW j \in Cells, Sounder(k, j), NEW m \in Measures,
         NEW a, NEW b, NEW c, NEW d, Scale[m] = <<a, b, c, d>>
  PROVE  \/ Read(k)[m] = a /\ Read(j)[m] \in {a, b, c, d}
         \/ Read(k)[m] = b /\ Read(j)[m] \in {b, c, d}
         \/ Read(k)[m] = c /\ Read(j)[m] \in {c, d}
         \/ Read(k)[m] = d /\ Read(j)[m] \in {d}
<1>1. DOMAIN Scale[m] = 1 .. 4
  OBVIOUS
<1>2. k[m] \in 1 .. 4 /\ j[m] \in 1 .. 4 /\ k[m] <= j[m]
  BY <1>1, SounderValue
<1>3. Read(k)[m] = Scale[m][k[m]] /\ Read(j)[m] = Scale[m][j[m]]
  BY SounderValue
<1> QED
  BY <1>2, <1>3

Soundness(u, v) ==
  /\ u["record"] = "COMPLETE" \/ RecordRefusal(v) # "NO"
  /\ (v["members"] # "NONE" => u["members"] # "NONE") /\ (v["members"] = "ALL" => u["members"] = "ALL")
  /\ u["trust"] \in Int /\ v["trust"] \in Int /\ u["trust"] >= v["trust"]
  /\ u["qRaw"] \in Int /\ v["qRaw"] \in Nat /\ u["qRaw"] >= v["qRaw"]
  /\ u["dissent"] \in Int /\ v["dissent"] \in Int /\ u["dissent"] <= v["dissent"]
  /\ (v["mtf"] # "CONFLICTING" => u["mtf"] # "CONFLICTING") /\
        (v["mtf"] \notin {"CONFLICTING", "INSUFFICIENT"} => u["mtf"] # "INSUFFICIENT")
  /\ u["opposed"] \in BOOLEAN /\ v["opposed"] \in BOOLEAN /\ (u["opposed"] => v["opposed"])
  /\ v["pattern"] \notin {"AGAINST", "ABSENT"} => u["pattern"] \notin {"AGAINST", "ABSENT"}
  /\ v["atr"] # "UNAVAILABLE" => u["atr"] # "UNAVAILABLE"
  /\ v["sweep"] # "NO" /\ (v["sweep"] = "RECLAIMED" => u["sweep"] = "RECLAIMED")
  /\ u["zoneAge"] \in Int /\ v["zoneAge"] \in Int /\ u["zoneAge"] <= v["zoneAge"]
  /\ u["zoneFilled"] \in BOOLEAN /\ v["zoneFilled"] \in BOOLEAN /\ (u["zoneFilled"] => v["zoneFilled"])
  /\ v["bosSide"] # "NONE" => u["bosSide"] # "NONE"
  /\ u["bosStrength"] \in Int /\ v["bosStrength"] \in Int /\ u["bosStrength"] >= v["bosStrength"]
  /\ v["regime"] # "CRISIS" => u["regime"] # "CRISIS"
  /\ v["inputs"] # "MISSING" => u["inputs"] # "MISSING"
  /\ u["score"] \in {100, 80, 54} /\ v["score"] \in {100, 80, 54} /\ u["score"] >= v["score"]
  /\ u["rho"] \in {0, 86} /\ v["rho"] \in {0, 86} /\ u["rho"] <= v["rho"]
  /\ v["window"] = "VALID" => u["window"] = "VALID"
  /\ u["entropy"] \in Int /\ v["entropy"] \in Int /\ u["entropy"] <= v["entropy"]
  /\ v["temporalQ"] \in {"Q3", "Q2"} => u["temporalQ"] \in {"Q3", "Q2"}
  /\ v["volatilityQ"] \in {"Q3", "Q2"} => u["volatilityQ"] \in {"Q3", "Q2"}
  /\ u["qForecast"] \in Int /\ v["qForecast"] \in Int /\ u["qForecast"] >= v["qForecast"]
  /\ v["package"] \in {"CALIBRATED", "BOOTSTRAP"} => u["package"] \in {"CALIBRATED", "BOOTSTRAP"}
  /\ v["lineage"] = "INTACT" => u["lineage"] = "INTACT"
  /\ v["stopSide"] # "WRONG" => u["stopSide"] # "WRONG"
  /\ u["fresh"] \in BOOLEAN /\ v["fresh"] \in BOOLEAN /\ (v["fresh"] => u["fresh"])
  /\ u["p"] \in Int /\ v["p"] \in Int /\ u["p"] >= v["p"]
  /\ u["c"] \in Int /\ v["c"] \in Int /\ u["c"] >= v["c"]
  /\ u["rising"] \in BOOLEAN /\ v["rising"] \in BOOLEAN /\ (u["rising"] => v["rising"])
  /\ v["weights"] = "GOVERNED" => u["weights"] = "GOVERNED"
  /\ v["family"] = "ACTIVE" => u["family"] = "ACTIVE"
  /\ v["riskKeys"] # "MISSING" => u["riskKeys"] # "MISSING"
  /\ v["store"] # "DOWN" => u["store"] # "DOWN"
  /\ v["veto"] = "NONE" => u["veto"] = "NONE"

\* What every check reads is at least as sound in the sounder cell.
LEMMA SoundestFirst ==
  ASSUME NEW k \in Cells, NEW j \in Cells, Sounder(k, j)
  PROVE  Soundness(Read(k), Read(j))
<1> DEFINE u == Read(k)
           v == Read(j)
<1>0. QMin \in 1 .. 80
  BY BridgeBounds
<1>1. u["record"] = "COMPLETE" \/ RecordRefusal(v) # "NO"
  <2>1. "record" \in Measures /\ Scale["record"] = <<"COMPLETE", "MISSING_KEYS", "BAD_E11", "BAD_EVENT", "BAD_ADMISSION",
                                                        "NO_PACKAGE", "BAR_AFTER_AS_OF", "BAR_NOT_CLOSED">>
    BY DEF Scale, Measures
  <2>2. k["record"] \in 1 .. 8 /\ j["record"] \in 1 .. 8 /\ k["record"] <= j["record"]
        /\ u["record"] = Scale["record"][k["record"]] /\ v["record"] = Scale["record"][j["record"]]
    BY <2>1, SounderValue
  <2> HIDE DEF u, v
  <2> QED
    BY <2>1, <2>2 DEF RecordRefusal
<1>2. (v["members"] # "NONE" => u["members"] # "NONE") /\ (v["members"] = "ALL" => u["members"] = "ALL")
  <2>1. "members" \in Measures /\ Scale["members"] = <<"ALL", "SOME", "NONE">>
    BY DEF Scale, Measures
  <2>2. \/ u["members"] = "ALL" /\ v["members"] \in {"ALL", "SOME", "NONE"}
        \/ u["members"] = "SOME" /\ v["members"] \in {"SOME", "NONE"}
        \/ u["members"] = "NONE" /\ v["members"] \in {"NONE"}
    BY <2>1, SounderOfThree
  <2> HIDE DEF u, v
  <2> QED
    BY <2>2
<1>3. u["trust"] \in Int /\ v["trust"] \in Int /\ u["trust"] >= v["trust"]
  <2>1. "trust" \in Measures /\ Scale["trust"] = <<80, TrustFloor, TrustFloor - 1>>
    BY DEF Scale, Measures
  <2>2. \/ u["trust"] = 80 /\ v["trust"] \in {80, TrustFloor, TrustFloor - 1}
        \/ u["trust"] = TrustFloor /\ v["trust"] \in {TrustFloor, TrustFloor - 1}
        \/ u["trust"] = TrustFloor - 1 /\ v["trust"] \in {TrustFloor - 1}
    BY <2>1, SounderOfThree
  <2> HIDE DEF u, v
  <2> QED
    BY <2>2 DEF TrustFloor
<1>4. u["qRaw"] \in Int /\ v["qRaw"] \in Nat /\ u["qRaw"] >= v["qRaw"]
  <2>1. "qRaw" \in Measures /\ Scale["qRaw"] = <<80, QMin, QMin - 1>>
    BY DEF Scale, Measures
  <2>2. \/ u["qRaw"] = 80 /\ v["qRaw"] \in {80, QMin, QMin - 1}
        \/ u["qRaw"] = QMin /\ v["qRaw"] \in {QMin, QMin - 1}
        \/ u["qRaw"] = QMin - 1 /\ v["qRaw"] \in {QMin - 1}
    BY <2>1, SounderOfThree
  <2> HIDE DEF u, v
  <2> QED
    BY <1>0, <2>2
<1>5. u["dissent"] \in Int /\ v["dissent"] \in Int /\ u["dissent"] <= v["dissent"]
  <2>1. "dissent" \in Measures /\ Scale["dissent"] = <<0, MaterialPercent - 1, MaterialPercent, 50>>
    BY DEF Scale, Measures
  <2>2. \/ u["dissent"] = 0 /\ v["dissent"] \in {0, MaterialPercent - 1, MaterialPercent, 50}
        \/ u["dissent"] = MaterialPercent - 1 /\ v["dissent"] \in {MaterialPercent - 1, MaterialPercent, 50}
        \/ u["dissent"] = MaterialPercent /\ v["dissent"] \in {MaterialPercent, 50}
        \/ u["dissent"] = 50 /\ v["dissent"] \in {50}
    BY <2>1, SounderOfFour
  <2> HIDE DEF u, v
  <2> QED
    BY <2>2 DEF MaterialPercent
<1>6. (v["mtf"] # "CONFLICTING" => u["mtf"] # "CONFLICTING") /\
        (v["mtf"] \notin {"CONFLICTING", "INSUFFICIENT"} => u["mtf"] # "INSUFFICIENT")
  <2>1. "mtf" \in Measures /\ Scale["mtf"] = <<"ALIGNED", "PARTIALLY_ALIGNED", "STALE", "UNAVAILABLE", "INSUFFICIENT", "CONFLICTING">>
    BY DEF Scale, Measures
  <2>2. k["mtf"] \in 1 .. 6 /\ j["mtf"] \in 1 .. 6 /\ k["mtf"] <= j["mtf"]
        /\ u["mtf"] = Scale["mtf"][k["mtf"]] /\ v["mtf"] = Scale["mtf"][j["mtf"]]
    BY <2>1, SounderValue
  <2> HIDE DEF u, v
  <2> QED
    BY <2>1, <2>2
<1>7. u["opposed"] \in BOOLEAN /\ v["opposed"] \in BOOLEAN /\ (u["opposed"] => v["opposed"])
  <2>0. PICK no \in BOOLEAN, yes \in BOOLEAN : ~no /\ yes
    OBVIOUS
  <2>1. "opposed" \in Measures /\ Scale["opposed"] = <<no, yes>>
    BY <2>0 DEF Scale, Measures
  <2>2. \/ u["opposed"] = no /\ v["opposed"] \in {no, yes}
        \/ u["opposed"] = yes /\ v["opposed"] \in {yes}
    BY <2>1, SounderOfTwo
  <2> HIDE DEF u, v
  <2> QED
    BY <2>0, <2>2
<1>8. v["pattern"] \notin {"AGAINST", "ABSENT"} => u["pattern"] \notin {"AGAINST", "ABSENT"}
  <2>1. "pattern" \in Measures /\ Scale["pattern"] = <<"WITH", "ABSENT", "AGAINST">>
    BY DEF Scale, Measures
  <2>2. \/ u["pattern"] = "WITH" /\ v["pattern"] \in {"WITH", "ABSENT", "AGAINST"}
        \/ u["pattern"] = "ABSENT" /\ v["pattern"] \in {"ABSENT", "AGAINST"}
        \/ u["pattern"] = "AGAINST" /\ v["pattern"] \in {"AGAINST"}
    BY <2>1, SounderOfThree
  <2> HIDE DEF u, v
  <2> QED
    BY <2>2
<1>9. v["atr"] # "UNAVAILABLE" => u["atr"] # "UNAVAILABLE"
  <2>1. "atr" \in Measures /\ Scale["atr"] = <<"MEASURED", "UNAVAILABLE">>
    BY DEF Scale, Measures
  <2>2. \/ u["atr"] = "MEASURED" /\ v["atr"] \in {"MEASURED", "UNAVAILABLE"}
        \/ u["atr"] = "UNAVAILABLE" /\ v["atr"] \in {"UNAVAILABLE"}
    BY <2>1, SounderOfTwo
  <2> HIDE DEF u, v
  <2> QED
    BY <2>2
<1>10. v["sweep"] # "NO" /\ (v["sweep"] = "RECLAIMED" => u["sweep"] = "RECLAIMED")
  <2>1. "sweep" \in Measures /\ Scale["sweep"] = <<"RECLAIMED", "NO_RECLAIM", "NO_SWEEP">>
    BY DEF Scale, Measures
  <2>2. \/ u["sweep"] = "RECLAIMED" /\ v["sweep"] \in {"RECLAIMED", "NO_RECLAIM", "NO_SWEEP"}
        \/ u["sweep"] = "NO_RECLAIM" /\ v["sweep"] \in {"NO_RECLAIM", "NO_SWEEP"}
        \/ u["sweep"] = "NO_SWEEP" /\ v["sweep"] \in {"NO_SWEEP"}
    BY <2>1, SounderOfThree
  <2> HIDE DEF u, v
  <2> QED
    BY <2>2
<1>11. u["zoneAge"] \in Int /\ v["zoneAge"] \in Int /\ u["zoneAge"] <= v["zoneAge"]
  <2>1. "zoneAge" \in Measures /\ Scale["zoneAge"] = <<0, ZoneWindow, ZoneWindow + 1>>
    BY DEF Scale, Measures
  <2>2. \/ u["zoneAge"] = 0 /\ v["zoneAge"] \in {0, ZoneWindow, ZoneWindow + 1}
        \/ u["zoneAge"] = ZoneWindow /\ v["zoneAge"] \in {ZoneWindow, ZoneWindow + 1}
        \/ u["zoneAge"] = ZoneWindow + 1 /\ v["zoneAge"] \in {ZoneWindow + 1}
    BY <2>1, SounderOfThree
  <2> HIDE DEF u, v
  <2> QED
    BY <2>2 DEF ZoneWindow
<1>12. u["zoneFilled"] \in BOOLEAN /\ v["zoneFilled"] \in BOOLEAN /\ (u["zoneFilled"] => v["zoneFilled"])
  <2>0. PICK no \in BOOLEAN, yes \in BOOLEAN : ~no /\ yes
    OBVIOUS
  <2>1. "zoneFilled" \in Measures /\ Scale["zoneFilled"] = <<no, yes>>
    BY <2>0 DEF Scale, Measures
  <2>2. \/ u["zoneFilled"] = no /\ v["zoneFilled"] \in {no, yes}
        \/ u["zoneFilled"] = yes /\ v["zoneFilled"] \in {yes}
    BY <2>1, SounderOfTwo
  <2> HIDE DEF u, v
  <2> QED
    BY <2>0, <2>2
<1>13. v["bosSide"] # "NONE" => u["bosSide"] # "NONE"
  <2>1. "bosSide" \in Measures /\ Scale["bosSide"] = <<"WITH", "AGAINST", "NONE">>
    BY DEF Scale, Measures
  <2>2. \/ u["bosSide"] = "WITH" /\ v["bosSide"] \in {"WITH", "AGAINST", "NONE"}
        \/ u["bosSide"] = "AGAINST" /\ v["bosSide"] \in {"AGAINST", "NONE"}
        \/ u["bosSide"] = "NONE" /\ v["bosSide"] \in {"NONE"}
    BY <2>1, SounderOfThree
  <2> HIDE DEF u, v
  <2> QED
    BY <2>2
<1>14. u["bosStrength"] \in Int /\ v["bosStrength"] \in Int /\ u["bosStrength"] >= v["bosStrength"]
  <2>1. "bosStrength" \in Measures /\ Scale["bosStrength"] = <<80, StructMin, StructMin - 1>>
    BY DEF Scale, Measures
  <2>2. \/ u["bosStrength"] = 80 /\ v["bosStrength"] \in {80, StructMin, StructMin - 1}
        \/ u["bosStrength"] = StructMin /\ v["bosStrength"] \in {StructMin, StructMin - 1}
        \/ u["bosStrength"] = StructMin - 1 /\ v["bosStrength"] \in {StructMin - 1}
    BY <2>1, SounderOfThree
  <2> HIDE DEF u, v
  <2> QED
    BY <2>2 DEF StructMin
<1>15. v["regime"] # "CRISIS" => u["regime"] # "CRISIS"
  <2>1. "regime" \in Measures /\ Scale["regime"] = <<"TREND", "CRISIS">>
    BY DEF Scale, Measures
  <2>2. \/ u["regime"] = "TREND" /\ v["regime"] \in {"TREND", "CRISIS"}
        \/ u["regime"] = "CRISIS" /\ v["regime"] \in {"CRISIS"}
    BY <2>1, SounderOfTwo
  <2> HIDE DEF u, v
  <2> QED
    BY <2>2
<1>16. v["inputs"] # "MISSING" => u["inputs"] # "MISSING"
  <2>1. "inputs" \in Measures /\ Scale["inputs"] = <<"PRESENT", "MISSING">>
    BY DEF Scale, Measures
  <2>2. \/ u["inputs"] = "PRESENT" /\ v["inputs"] \in {"PRESENT", "MISSING"}
        \/ u["inputs"] = "MISSING" /\ v["inputs"] \in {"MISSING"}
    BY <2>1, SounderOfTwo
  <2> HIDE DEF u, v
  <2> QED
    BY <2>2
<1>17. u["score"] \in {100, 80, 54} /\ v["score"] \in {100, 80, 54} /\ u["score"] >= v["score"]
  <2>1. "score" \in Measures /\ Scale["score"] = <<100, 80, ScoreMin - 1>>
    BY DEF Scale, Measures
  <2>2. \/ u["score"] = 100 /\ v["score"] \in {100, 80, ScoreMin - 1}
        \/ u["score"] = 80 /\ v["score"] \in {80, ScoreMin - 1}
        \/ u["score"] = ScoreMin - 1 /\ v["score"] \in {ScoreMin - 1}
    BY <2>1, SounderOfThree
  <2> HIDE DEF u, v
  <2> QED
    BY <2>2 DEF ScoreMin
<1>18. u["rho"] \in {0, 86} /\ v["rho"] \in {0, 86} /\ u["rho"] <= v["rho"]
  <2>1. "rho" \in Measures /\ Scale["rho"] = <<0, 86>>
    BY DEF Scale, Measures
  <2>2. \/ u["rho"] = 0 /\ v["rho"] \in {0, 86}
        \/ u["rho"] = 86 /\ v["rho"] \in {86}
    BY <2>1, SounderOfTwo
  <2> HIDE DEF u, v
  <2> QED
    BY <2>2
<1>19. v["window"] = "VALID" => u["window"] = "VALID"
  <2>1. "window" \in Measures /\ Scale["window"] = <<"VALID", "BELOW_Q_THR">>
    BY DEF Scale, Measures
  <2>2. \/ u["window"] = "VALID" /\ v["window"] \in {"VALID", "BELOW_Q_THR"}
        \/ u["window"] = "BELOW_Q_THR" /\ v["window"] \in {"BELOW_Q_THR"}
    BY <2>1, SounderOfTwo
  <2> HIDE DEF u, v
  <2> QED
    BY <2>2
<1>20. u["entropy"] \in Int /\ v["entropy"] \in Int /\ u["entropy"] <= v["entropy"]
  <2>1. "entropy" \in Measures /\ Scale["entropy"] = <<0, EntropyMax, EntropyMax + 1>>
    BY DEF Scale, Measures
  <2>2. \/ u["entropy"] = 0 /\ v["entropy"] \in {0, EntropyMax, EntropyMax + 1}
        \/ u["entropy"] = EntropyMax /\ v["entropy"] \in {EntropyMax, EntropyMax + 1}
        \/ u["entropy"] = EntropyMax + 1 /\ v["entropy"] \in {EntropyMax + 1}
    BY <2>1, SounderOfThree
  <2> HIDE DEF u, v
  <2> QED
    BY <2>2 DEF EntropyMax
<1>21. v["temporalQ"] \in {"Q3", "Q2"} => u["temporalQ"] \in {"Q3", "Q2"}
  <2>1. "temporalQ" \in Measures /\ Scale["temporalQ"] = <<"Q3", "Q2", "Q1", "QX">>
    BY DEF Scale, Measures
  <2>2. \/ u["temporalQ"] = "Q3" /\ v["temporalQ"] \in {"Q3", "Q2", "Q1", "QX"}
        \/ u["temporalQ"] = "Q2" /\ v["temporalQ"] \in {"Q2", "Q1", "QX"}
        \/ u["temporalQ"] = "Q1" /\ v["temporalQ"] \in {"Q1", "QX"}
        \/ u["temporalQ"] = "QX" /\ v["temporalQ"] \in {"QX"}
    BY <2>1, SounderOfFour
  <2> HIDE DEF u, v
  <2> QED
    BY <2>2
<1>22. v["volatilityQ"] \in {"Q3", "Q2"} => u["volatilityQ"] \in {"Q3", "Q2"}
  <2>1. "volatilityQ" \in Measures /\ Scale["volatilityQ"] = <<"Q3", "Q2", "Q1", "QX">>
    BY DEF Scale, Measures
  <2>2. \/ u["volatilityQ"] = "Q3" /\ v["volatilityQ"] \in {"Q3", "Q2", "Q1", "QX"}
        \/ u["volatilityQ"] = "Q2" /\ v["volatilityQ"] \in {"Q2", "Q1", "QX"}
        \/ u["volatilityQ"] = "Q1" /\ v["volatilityQ"] \in {"Q1", "QX"}
        \/ u["volatilityQ"] = "QX" /\ v["volatilityQ"] \in {"QX"}
    BY <2>1, SounderOfFour
  <2> HIDE DEF u, v
  <2> QED
    BY <2>2
<1>23. u["qForecast"] \in Int /\ v["qForecast"] \in Int /\ u["qForecast"] >= v["qForecast"]
  <2>1. "qForecast" \in Measures /\ Scale["qForecast"] = <<80, ForecastMin, ForecastMin - 1, Unmeasured>>
    BY DEF Scale, Measures
  <2>2. \/ u["qForecast"] = 80 /\ v["qForecast"] \in {80, ForecastMin, ForecastMin - 1, Unmeasured}
        \/ u["qForecast"] = ForecastMin /\ v["qForecast"] \in {ForecastMin, ForecastMin - 1, Unmeasured}
        \/ u["qForecast"] = ForecastMin - 1 /\ v["qForecast"] \in {ForecastMin - 1, Unmeasured}
        \/ u["qForecast"] = Unmeasured /\ v["qForecast"] \in {Unmeasured}
    BY <2>1, SounderOfFour
  <2> HIDE DEF u, v
  <2> QED
    BY <2>2 DEF ForecastMin, Unmeasured
<1>24. v["package"] \in {"CALIBRATED", "BOOTSTRAP"} => u["package"] \in {"CALIBRATED", "BOOTSTRAP"}
  <2>1. "package" \in Measures /\ Scale["package"] = <<"CALIBRATED", "BOOTSTRAP", "DEGRADED", "NO_METRICS">>
    BY DEF Scale, Measures
  <2>2. \/ u["package"] = "CALIBRATED" /\ v["package"] \in {"CALIBRATED", "BOOTSTRAP", "DEGRADED", "NO_METRICS"}
        \/ u["package"] = "BOOTSTRAP" /\ v["package"] \in {"BOOTSTRAP", "DEGRADED", "NO_METRICS"}
        \/ u["package"] = "DEGRADED" /\ v["package"] \in {"DEGRADED", "NO_METRICS"}
        \/ u["package"] = "NO_METRICS" /\ v["package"] \in {"NO_METRICS"}
    BY <2>1, SounderOfFour
  <2> HIDE DEF u, v
  <2> QED
    BY <2>2
<1>25. v["lineage"] = "INTACT" => u["lineage"] = "INTACT"
  <2>1. "lineage" \in Measures /\ Scale["lineage"] = <<"INTACT", "MALFORMED">>
    BY DEF Scale, Measures
  <2>2. \/ u["lineage"] = "INTACT" /\ v["lineage"] \in {"INTACT", "MALFORMED"}
        \/ u["lineage"] = "MALFORMED" /\ v["lineage"] \in {"MALFORMED"}
    BY <2>1, SounderOfTwo
  <2> HIDE DEF u, v
  <2> QED
    BY <2>2
<1>26. v["stopSide"] # "WRONG" => u["stopSide"] # "WRONG"
  <2>1. "stopSide" \in Measures /\ Scale["stopSide"] = <<"RIGHT", "WRONG">>
    BY DEF Scale, Measures
  <2>2. \/ u["stopSide"] = "RIGHT" /\ v["stopSide"] \in {"RIGHT", "WRONG"}
        \/ u["stopSide"] = "WRONG" /\ v["stopSide"] \in {"WRONG"}
    BY <2>1, SounderOfTwo
  <2> HIDE DEF u, v
  <2> QED
    BY <2>2
<1>27. u["fresh"] \in BOOLEAN /\ v["fresh"] \in BOOLEAN /\ (v["fresh"] => u["fresh"])
  <2>0. PICK no \in BOOLEAN, yes \in BOOLEAN : ~no /\ yes
    OBVIOUS
  <2>1. "fresh" \in Measures /\ Scale["fresh"] = <<yes, no>>
    BY <2>0 DEF Scale, Measures
  <2>2. \/ u["fresh"] = yes /\ v["fresh"] \in {yes, no}
        \/ u["fresh"] = no /\ v["fresh"] \in {no}
    BY <2>1, SounderOfTwo
  <2> HIDE DEF u, v
  <2> QED
    BY <2>0, <2>2
<1>28. u["p"] \in Int /\ v["p"] \in Int /\ u["p"] >= v["p"]
  <2>1. "p" \in Measures /\ Scale["p"] = <<80, ProbabilityMin, ProbabilityMin - 1>>
    BY DEF Scale, Measures
  <2>2. \/ u["p"] = 80 /\ v["p"] \in {80, ProbabilityMin, ProbabilityMin - 1}
        \/ u["p"] = ProbabilityMin /\ v["p"] \in {ProbabilityMin, ProbabilityMin - 1}
        \/ u["p"] = ProbabilityMin - 1 /\ v["p"] \in {ProbabilityMin - 1}
    BY <2>1, SounderOfThree
  <2> HIDE DEF u, v
  <2> QED
    BY <2>2 DEF ProbabilityMin
<1>29. u["c"] \in Int /\ v["c"] \in Int /\ u["c"] >= v["c"]
  <2>1. "c" \in Measures /\ Scale["c"] = <<80, ConfidenceMin, ConfidenceMin - 1>>
    BY DEF Scale, Measures
  <2>2. \/ u["c"] = 80 /\ v["c"] \in {80, ConfidenceMin, ConfidenceMin - 1}
        \/ u["c"] = ConfidenceMin /\ v["c"] \in {ConfidenceMin, ConfidenceMin - 1}
        \/ u["c"] = ConfidenceMin - 1 /\ v["c"] \in {ConfidenceMin - 1}
    BY <2>1, SounderOfThree
  <2> HIDE DEF u, v
  <2> QED
    BY <2>2 DEF ConfidenceMin
<1>30. u["rising"] \in BOOLEAN /\ v["rising"] \in BOOLEAN /\ (u["rising"] => v["rising"])
  <2>0. PICK no \in BOOLEAN, yes \in BOOLEAN : ~no /\ yes
    OBVIOUS
  <2>1. "rising" \in Measures /\ Scale["rising"] = <<no, yes>>
    BY <2>0 DEF Scale, Measures
  <2>2. \/ u["rising"] = no /\ v["rising"] \in {no, yes}
        \/ u["rising"] = yes /\ v["rising"] \in {yes}
    BY <2>1, SounderOfTwo
  <2> HIDE DEF u, v
  <2> QED
    BY <2>0, <2>2
<1>31. v["weights"] = "GOVERNED" => u["weights"] = "GOVERNED"
  <2>1. "weights" \in Measures /\ Scale["weights"] = <<"GOVERNED", "ALIGNMENT_UNAVAILABLE", "MISSING">>
    BY DEF Scale, Measures
  <2>2. \/ u["weights"] = "GOVERNED" /\ v["weights"] \in {"GOVERNED", "ALIGNMENT_UNAVAILABLE", "MISSING"}
        \/ u["weights"] = "ALIGNMENT_UNAVAILABLE" /\ v["weights"] \in {"ALIGNMENT_UNAVAILABLE", "MISSING"}
        \/ u["weights"] = "MISSING" /\ v["weights"] \in {"MISSING"}
    BY <2>1, SounderOfThree
  <2> HIDE DEF u, v
  <2> QED
    BY <2>2
<1>32. v["family"] = "ACTIVE" => u["family"] = "ACTIVE"
  <2>1. "family" \in Measures /\ Scale["family"] = <<"ACTIVE", "DEGRADING", "DEMOTED">>
    BY DEF Scale, Measures
  <2>2. \/ u["family"] = "ACTIVE" /\ v["family"] \in {"ACTIVE", "DEGRADING", "DEMOTED"}
        \/ u["family"] = "DEGRADING" /\ v["family"] \in {"DEGRADING", "DEMOTED"}
        \/ u["family"] = "DEMOTED" /\ v["family"] \in {"DEMOTED"}
    BY <2>1, SounderOfThree
  <2> HIDE DEF u, v
  <2> QED
    BY <2>2
<1>33. v["riskKeys"] # "MISSING" => u["riskKeys"] # "MISSING"
  <2>1. "riskKeys" \in Measures /\ Scale["riskKeys"] = <<"COMPLETE", "MISSING">>
    BY DEF Scale, Measures
  <2>2. \/ u["riskKeys"] = "COMPLETE" /\ v["riskKeys"] \in {"COMPLETE", "MISSING"}
        \/ u["riskKeys"] = "MISSING" /\ v["riskKeys"] \in {"MISSING"}
    BY <2>1, SounderOfTwo
  <2> HIDE DEF u, v
  <2> QED
    BY <2>2
<1>34. v["store"] # "DOWN" => u["store"] # "DOWN"
  <2>1. "store" \in Measures /\ Scale["store"] = <<"UP", "DOWN">>
    BY DEF Scale, Measures
  <2>2. \/ u["store"] = "UP" /\ v["store"] \in {"UP", "DOWN"}
        \/ u["store"] = "DOWN" /\ v["store"] \in {"DOWN"}
    BY <2>1, SounderOfTwo
  <2> HIDE DEF u, v
  <2> QED
    BY <2>2
<1>35. v["veto"] = "NONE" => u["veto"] = "NONE"
  <2>1. "veto" \in Measures /\ Scale["veto"] = <<"NONE", "FIRED">>
    BY DEF Scale, Measures
  <2>2. \/ u["veto"] = "NONE" /\ v["veto"] \in {"NONE", "FIRED"}
        \/ u["veto"] = "FIRED" /\ v["veto"] \in {"FIRED"}
    BY <2>1, SounderOfTwo
  <2> HIDE DEF u, v
  <2> QED
    BY <2>2
<1> QED
  BY <1>1, <1>2, <1>3, <1>4, <1>5, <1>6, <1>7, <1>8, <1>9, <1>10, <1>11, <1>12, <1>13, <1>14, <1>15, <1>16, <1>17, <1>18, <1>19, <1>20, <1>21, <1>22, <1>23, <1>24, <1>25, <1>26, <1>27, <1>28, <1>29, <1>30, <1>31, <1>32, <1>33, <1>34, <1>35
     DEF Soundness

LEMMA FabricSounder ==
  ASSUME NEW u, NEW v, Soundness(u, v), FabricRefusal(v) = "NO"
  PROVE  FabricRefusal(u) = "NO"
<1>1. /\ v["members"] # "NONE" /\ Solvent(v["trust"], v["qRaw"])
      /\ v["pattern"] \notin {"AGAINST", "ABSENT"}
  BY DEF FabricRefusal
<1>2. u["members"] # "NONE" /\ u["pattern"] \notin {"AGAINST", "ABSENT"}
  BY <1>1 DEF Soundness
<1>3. Solvent(u["trust"], u["qRaw"])
  <2>1. QMin \in Int /\ v["qRaw"] # Unmeasured
    BY BridgeBounds DEF Soundness, Unmeasured
  <2> QED
    BY <1>1, <2>1 DEF Soundness, Solvent, TrustFloor
<1> QED
  BY <1>2, <1>3 DEF FabricRefusal

LEMMA EntrySounder ==
  ASSUME NEW u, NEW v, Soundness(u, v), EntryRefusal(v) = "NO"
  PROVE  EntryRefusal(u) = "NO"
<1>1. /\ v["atr"] # "UNAVAILABLE" /\ v["sweep"] = "RECLAIMED" /\ v["zoneAge"] <= ZoneWindow
      /\ ~v["zoneFilled"] /\ v["bosSide"] # "NONE" /\ v["bosStrength"] >= StructMin
      /\ v["regime"] # "CRISIS" /\ v["members"] = "ALL" /\ v["inputs"] # "MISSING"
  BY DEF EntryRefusal, StructureRefusal, Soundness, StructMin, ZoneWindow
<1>2. /\ u["atr"] # "UNAVAILABLE" /\ u["sweep"] = "RECLAIMED" /\ u["zoneAge"] <= ZoneWindow
      /\ ~u["zoneFilled"] /\ u["bosSide"] # "NONE" /\ u["bosStrength"] >= StructMin
      /\ u["regime"] # "CRISIS" /\ u["members"] = "ALL" /\ u["inputs"] # "MISSING"
  BY <1>1 DEF Soundness, StructMin, ZoneWindow
<1>3. StructureRefusal(u) = "NO"
  BY <1>2 DEF StructureRefusal, Soundness, StructMin
<1> QED
  BY <1>2, <1>3 DEF EntryRefusal, Soundness, ZoneWindow

\* What the score is after the penalties: two of them together, or one under a score of
\* 80, take it below the threshold.
LEMMA ScoreAfterPenalties ==
  ASSUME NEW v, v["score"] \in {100, 80, 54}, v["rho"] \in {0, 86}, v["opposed"] \in BOOLEAN
  PROVE  FinalScore(v) >= ScoreMin <=> \/ v["score"] = 100 /\ ~(v["opposed"] /\ v["rho"] = 86)
                                       \/ v["score"] = 80 /\ ~v["opposed"] /\ v["rho"] = 0
<1>1. (RedundancyPenalty(v["rho"]) > 0) <=> v["rho"] = 86
  BY DEF RedundancyPenalty
<1>2. FinalScore(v) = ((IF v["rho"] = 86 THEN v["score"] - v["score"] \div 10 ELSE v["score"])
                        * (IF v["opposed"] THEN 60 ELSE 100)
                        * (IF v["rho"] = 86 THEN 70 ELSE 100)) \div 10000
  BY <1>1 DEF FinalScore
<1>3. CASE v["score"] = 100
  BY <1>2, <1>3 DEF ScoreMin
<1>4. CASE v["score"] = 80
  BY <1>2, <1>4 DEF ScoreMin
<1>5. CASE v["score"] = 54
  BY <1>2, <1>5 DEF ScoreMin
<1> QED
  BY <1>3, <1>4, <1>5

LEMMA ScoreSounder ==
  ASSUME NEW u, NEW v, Soundness(u, v), FinalScore(v) >= ScoreMin
  PROVE  FinalScore(u) >= ScoreMin
<1>1. /\ v["score"] \in {100, 80, 54} /\ v["rho"] \in {0, 86} /\ v["opposed"] \in BOOLEAN
      /\ u["score"] \in {100, 80, 54} /\ u["rho"] \in {0, 86} /\ u["opposed"] \in BOOLEAN
      /\ u["score"] >= v["score"] /\ u["rho"] <= v["rho"] /\ (u["opposed"] => v["opposed"])
  BY DEF Soundness
<1>2. \/ v["score"] = 100 /\ ~(v["opposed"] /\ v["rho"] = 86)
      \/ v["score"] = 80 /\ ~v["opposed"] /\ v["rho"] = 0
  BY <1>1, ScoreAfterPenalties
<1>3. \/ u["score"] = 100 /\ ~(u["opposed"] /\ u["rho"] = 86)
      \/ u["score"] = 80 /\ ~u["opposed"] /\ u["rho"] = 0
  BY <1>1, <1>2
<1> QED
  BY <1>1, <1>3, ScoreAfterPenalties

\* The thirteen gates, one by one.
LEMMA GatesOpen ==
  ASSUME NEW v
  PROVE  BlockedBy(v) = {} <=>
           /\ FinalScore(v) >= ScoreMin /\ v["window"] = "VALID"
           /\ ConflictPenalty(Output(v)) <= 50 /\ RedundancyPenalty(v["rho"]) <= 30
           /\ v["mtf"] # "CONFLICTING" /\ (v["mtf"] # "INSUFFICIENT" \/ Vacuous)
           /\ v["entropy"] <= EntropyMax
           /\ QualityClass(v["temporalQ"]) >= 2 /\ QualityClass(v["volatilityQ"]) >= 2
           /\ v["qForecast"] >= ForecastMin /\ v["lineage"] = "INTACT"
           /\ (v["qForecast"] # Unmeasured /\ v["qForecast"] >= ForecastMin)
           /\ v["package"] \in {"CALIBRATED", "BOOTSTRAP"}
<1>1. BlockedBy(v) = {} <=> \A g \in 1 .. 13 : GatePasses(v)[g]
  BY Zenon DEF BlockedBy
<1>2. \A G : (\A g \in 1 .. 13 : G[g]) <=>
        /\ G[1] /\ G[2] /\ G[3] /\ G[4] /\ G[5] /\ G[6] /\ G[7] /\ G[8] /\ G[9] /\ G[10]
        /\ G[11] /\ G[12] /\ G[13]
  OBVIOUS
<1>3. BlockedBy(v) = {} <=>
        /\ GatePasses(v)[1] /\ GatePasses(v)[2] /\ GatePasses(v)[3] /\ GatePasses(v)[4]
        /\ GatePasses(v)[5] /\ GatePasses(v)[6] /\ GatePasses(v)[7] /\ GatePasses(v)[8]
        /\ GatePasses(v)[9] /\ GatePasses(v)[10] /\ GatePasses(v)[11] /\ GatePasses(v)[12]
        /\ GatePasses(v)[13]
  BY <1>1, <1>2, Zenon
<1> QED
  BY <1>3 DEF GatePasses

LEMMA GatesSounder ==
  ASSUME NEW u, NEW v, Soundness(u, v), BlockedBy(v) = {}
  PROVE  BlockedBy(u) = {}
<1>1. /\ FinalScore(v) >= ScoreMin /\ v["window"] = "VALID"
      /\ v["mtf"] # "CONFLICTING" /\ (v["mtf"] # "INSUFFICIENT" \/ Vacuous)
      /\ v["entropy"] <= EntropyMax
      /\ QualityClass(v["temporalQ"]) >= 2 /\ QualityClass(v["volatilityQ"]) >= 2
      /\ v["qForecast"] >= ForecastMin /\ v["lineage"] = "INTACT"
      /\ v["package"] \in {"CALIBRATED", "BOOTSTRAP"}
  BY GatesOpen, Zenon
<1>2. FinalScore(u) >= ScoreMin
  BY <1>1, ScoreSounder
<1>3. ConflictPenalty(Output(u)) <= 50 /\ RedundancyPenalty(u["rho"]) <= 30
  BY DEF ConflictPenalty, RedundancyPenalty
<1>4. u["mtf"] # "CONFLICTING" /\ (u["mtf"] # "INSUFFICIENT" \/ Vacuous)
  BY <1>1, Zenon DEF Soundness
<1>5. QualityClass(u["temporalQ"]) >= 2 /\ QualityClass(u["volatilityQ"]) >= 2
  <2>1. v["temporalQ"] \in {"Q3", "Q2"} /\ v["volatilityQ"] \in {"Q3", "Q2"}
    BY <1>1 DEF QualityClass
  <2>2. u["temporalQ"] \in {"Q3", "Q2"} /\ u["volatilityQ"] \in {"Q3", "Q2"}
    BY <2>1 DEF Soundness
  <2> QED
    BY <2>2 DEF QualityClass
<1>6. /\ u["window"] = "VALID" /\ u["entropy"] <= EntropyMax /\ u["lineage"] = "INTACT"
      /\ u["package"] \in {"CALIBRATED", "BOOTSTRAP"}
      /\ u["qForecast"] >= ForecastMin /\ u["qForecast"] # Unmeasured
  BY <1>1 DEF Soundness, EntropyMax, ForecastMin, Unmeasured
<1> QED
  BY <1>2, <1>3, <1>4, <1>5, <1>6, GatesOpen, Zenon

LEMMA OutputSounder ==
  ASSUME NEW u, NEW v, Soundness(u, v), Output(v) # "HARD_CONFLICT"
  PROVE  Output(u) # "HARD_CONFLICT"
<1>1. \A x : Output(x) = "HARD_CONFLICT"
              <=> x["dissent"] >= HardPercent \/ x["mtf"] = "CONFLICTING"
  BY Zenon DEF Output, Resolve
<1>2. ~(v["dissent"] >= HardPercent) => ~(u["dissent"] >= HardPercent)
  BY DEF Soundness, HardPercent
<1>3. v["mtf"] # "CONFLICTING" => u["mtf"] # "CONFLICTING"
  BY Zenon DEF Soundness
<1> QED
  BY <1>1, <1>2, <1>3, Zenon

LEMMA DecisionSounder ==
  ASSUME NEW u, NEW v, Soundness(u, v), BlockedBy(u) = {}, DecisionRefusal(v) = "NO"
  PROVE  DecisionRefusal(u) = "NO"
<1>1. /\ v["stopSide"] # "WRONG" /\ ~Ineligible(v) /\ ~v["rising"] /\ v["weights"] = "GOVERNED"
      /\ v["family"] = "ACTIVE" /\ v["riskKeys"] # "MISSING" /\ v["store"] # "DOWN"
  BY DEF DecisionRefusal, StopRefusal
<1>2. /\ Output(v) # "HARD_CONFLICT" /\ ~(v["qRaw"] < QMin) /\ v["fresh"]
      /\ ~(v["trust"] < TrustFloor) /\ ~(v["p"] < ProbabilityMin) /\ ~(v["c"] < ConfidenceMin)
  BY <1>1, Zenon DEF Ineligible
<1>3. /\ ~(u["qRaw"] < QMin) /\ ~(u["trust"] < TrustFloor) /\ ~(u["p"] < ProbabilityMin)
      /\ ~(u["c"] < ConfidenceMin)
  <2>1. QMin \in Int
    BY BridgeBounds
  <2> QED
    BY <1>2, <2>1 DEF Soundness, TrustFloor, ProbabilityMin, ConfidenceMin
<1>4. u["fresh"]
  BY <1>2, Zenon DEF Soundness
<1>5. GatePasses(u)[10]
  <2>1. u["qForecast"] >= ForecastMin
    BY GatesOpen, Zenon
  <2> QED
    BY <2>1 DEF GatePasses
<1>6. ~Ineligible(u)
  BY <1>2, <1>3, <1>4, <1>5, OutputSounder, Zenon DEF Ineligible
<1>7. /\ u["stopSide"] # "WRONG" /\ ~u["rising"] /\ u["weights"] = "GOVERNED"
      /\ u["family"] = "ACTIVE" /\ u["riskKeys"] # "MISSING" /\ u["store"] # "DOWN"
  BY <1>1, Zenon DEF Soundness
<1> QED
  BY <1>6, <1>7 DEF DecisionRefusal, StopRefusal

LEMMA PlanOfSounder ==
  ASSUME NEW k \in Cells, NEW j \in Cells, Sounder(k, j), CallBridge(Read(j)).plan
  PROVE  CallBridge(Read(k)).plan
<1> DEFINE u == Read(k)
           v == Read(j)
<1>1. Soundness(u, v)
  BY SoundestFirst
<1>2. \A x : CallBridge(x).plan <=> Refusal(x) = "NO"
  BY DEF CallBridge
<1> HIDE DEF u, v
<1>3. Refusal(v) = "NO"
  BY <1>2 DEF v
<1>4. /\ RecordRefusal(v) = "NO" /\ FabricRefusal(v) = "NO" /\ FamilyRefusal(v) = "NO"
      /\ DecisionRefusal(v) = "NO"
  BY <1>3 DEF Refusal
<1>5. EntryRefusal(v) = "NO" /\ BlockedBy(v) = {}
  BY <1>4 DEF FamilyRefusal
<1>6. RecordRefusal(u) = "NO"
  BY <1>1, <1>4 DEF Soundness, RecordRefusal
<1>7. FabricRefusal(u) = "NO"
  BY <1>1, <1>4, FabricSounder
<1>8. EntryRefusal(u) = "NO" /\ BlockedBy(u) = {}
  BY <1>1, <1>5, EntrySounder, GatesSounder
<1>9. DecisionRefusal(u) = "NO"
  BY <1>1, <1>4, <1>8, DecisionSounder
<1>10. Refusal(u) = "NO"
  BY <1>6, <1>7, <1>8, <1>9 DEF Refusal, FamilyRefusal
<1> QED
  BY <1>2, <1>10 DEF u

\* A plan that is sized in the worse cell is sized in the sounder one.
LEMMA SizeOfSounder ==
  ASSUME NEW k \in Cells, NEW j \in Cells, Sounder(k, j), CallBridge(Read(j)).sized
  PROVE  CallBridge(Read(k)).sized
<1> DEFINE u == Read(k)
           v == Read(j)
<1>1. v["veto"] = "NONE" => u["veto"] = "NONE"
  BY SoundestFirst DEF Soundness
<1>2. CallBridge(v).plan => CallBridge(u).plan
  BY PlanOfSounder
<1>3. CallBridge(v).sized
  OBVIOUS
<1> HIDE DEF u, v
<1>4. Refusal(v) = "NO" /\ v["veto"] = "NONE"
  BY <1>3 DEF CallBridge
<1>5. CallBridge(v).plan
  BY <1>4 DEF CallBridge
<1>6. Refusal(u) = "NO"
  BY <1>2, <1>5 DEF CallBridge
<1>7. CallBridge(u).sized
  BY <1>1, <1>4, <1>6 DEF CallBridge
<1> QED
  BY <1>7 DEF u

LEMMA BridgeStarts == BridgeInit => BridgeInv
<1>1. \A m \in Measures : 1 \in DOMAIN Scale[m]
  BY DEF Measures, Scale
<1> QED
  BY <1>1 DEF BridgeInit, BridgeInv, Sound, Cells

LEMMA BridgeGoesOn == BridgeInv /\ [BridgeNext]_bridgeVars => BridgeInv'
<1> SUFFICES ASSUME BridgeInv, [BridgeNext]_bridgeVars PROVE BridgeInv'
  OBVIOUS
<1>1. ASSUME NEW m \in Measures, NEW i \in DOMAIN Scale[m], Reassess(m, i) PROVE BridgeInv'
  <2>1. i \in Nat
    <3>1. DOMAIN Scale[m] \in {1 .. 2, 1 .. 3, 1 .. 4, 1 .. 6, 1 .. 8}
      BY <1>1 DEF Measures, Scale
    <3> QED
      BY <1>1, <3>1
  <2>2. cell' = [cell EXCEPT ![m] = i] /\ answer' = CallBridge(Read(cell'))
    BY <1>1 DEF Reassess
  <2>3. cell' \in Cells
    BY <1>1, <2>1, <2>2 DEF BridgeInv, Cells
  <2> QED
    BY <2>2, <2>3 DEF BridgeInv
<1>2. CASE UNCHANGED bridgeVars
  BY <1>2, Zenon DEF BridgeInv, bridgeVars
<1> QED
  BY <1>1, <1>2, Zenon DEF BridgeNext

\* A cell that was refused is not traded because measurements got worse
\* (plan_bridge.py 614, gates.py, pipeline.py, conflict.py I3), whatever the
\* timeframes are and however many measurements are off.
THEOREM WorseCellsAreNotTraded == BridgeSpec => WorseNeverTrades
<1> DEFINE Worse == (\A m \in Measures : cell'[m] >= cell[m]) =>
                      (answer'.plan => answer.plan) /\ (answer'.sized => answer.sized)
<1>1. BridgeInv /\ BridgeInv' => Worse
  <2> SUFFICES ASSUME BridgeInv, BridgeInv', \A m \in Measures : cell'[m] >= cell[m]
               PROVE  (answer'.plan => answer.plan) /\ (answer'.sized => answer.sized)
    OBVIOUS
  <2>1. cell \in Cells /\ cell' \in Cells
    BY DEF BridgeInv
  <2>2. answer = CallBridge(Read(cell)) /\ answer' = CallBridge(Read(cell'))
    BY DEF BridgeInv, Read
  <2>3. Sounder(cell, cell')
    BY <2>1 DEF Sounder, Cells
  <2> QED
    BY <2>1, <2>2, <2>3, PlanOfSounder, SizeOfSounder, Zenon
<1>2. BridgeInv /\ BridgeInv' => [Worse]_bridgeVars
  BY <1>1, Zenon
<1> QED
  BY <1>2, BridgeStarts, BridgeGoesOn, PTL DEF BridgeSpec, WorseNeverTrades
=============================================================================
