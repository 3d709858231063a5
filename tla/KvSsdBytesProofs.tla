-------------------------- MODULE KvSsdBytesProofs --------------------------
(***************************************************************************)
(* Proofs about the byte counters of KvSsdCache and its types: whatever    *)
(* is stored, loaded, promoted and demoted, hot_bytes and warm_bytes are   *)
(* the sizes of what is in the two RAM caches, and the hot tier exceeds    *)
(* its budget by one checkpoint at most.                                   *)
(*                                                                         *)
(* The sizes of a set of checkpoints are added by a fold, which is a       *)
(* recursive function on the subsets of the set.  The first section shows  *)
(* that it exists and what it computes, by looking at a smallest subset    *)
(* on which it would not; the second what each part of an operation does   *)
(* to the counters.                                                        *)
(***************************************************************************)
EXTENDS KvSsdProofs, WellFoundedInduction

(* Sums of sizes                                                           *)

\* A set of subsets of a finite set has a smallest member.
LEMMA SmallestSubset ==
    ASSUME NEW D, IsFiniteSet(D), NEW T \in SUBSET (SUBSET D), T # {}
    PROVE  \E s \in T : \A u \in T : u \subseteq s => u = s
<1>1. IsWellFoundedOn(StrictSubsetOrdering(D), SUBSET D)
  BY FS_StrictSubsetOrderingWellFounded, FS_FiniteSubsetsOfFinite
<1>2. PICK s \in T : \A u \in T : ~ (<<u, s>> \in StrictSubsetOrdering(D))
  BY <1>1, WFMin
<1>3. ASSUME NEW u \in T, u \subseteq s, u # s PROVE FALSE
  BY <1>2, <1>3 DEF StrictSubsetOrdering
<1> QED BY <1>3

\* The body of the function that Bytes folds with.
SumStep(f, sum, s) ==
    IF s = {} THEN 0
    ELSE LET i == CHOOSE i \in s : TRUE IN SizeOf[f[i]] + sum[s \ {i}]

IsSum(f, D, sum) == sum = [s \in SUBSET D |-> SumStep(f, sum, s)]

LEMMA BytesIsFold ==
    ASSUME NEW f, NEW D
    PROVE  Bytes(f, D) = (CHOOSE sum : IsSum(f, D, sum))[D]
BY DEF Bytes, MapThenSumSet, MapThenFoldSet, IsSum, SumStep

\* The fold exists: on the empty set, and then on one element more.
LEMMA SumExists ==
    ASSUME NEW f, NEW D, IsFiniteSet(D)
    PROVE  \E sum : IsSum(f, D, sum)
<1> DEFINE UpTo(n) == {s \in SUBSET D : Cardinality(s) <= n}
           Good(n) == \E sum : sum = [s \in UpTo(n) |-> SumStep(f, sum, s)]
           Bad == {n \in Nat : ~ Good(n)}
<1>1. \A s \in SUBSET D : IsFiniteSet(s) /\ Cardinality(s) \in Nat
                          /\ Cardinality(s) <= Cardinality(D)
  BY FS_Subset, FS_CardinalityType
<1>2. UpTo(Cardinality(D)) = SUBSET D /\ Cardinality(D) \in Nat
  BY <1>1
<1>3. SUFFICES ASSUME Bad # {} PROVE FALSE
  <2>1. Good(Cardinality(D))
    <3> HIDE DEF Good
    <3> QED BY <1>2, <1>3
  <2> QED BY <2>1, <1>2 DEF IsSum
<1>4. PICK n \in Bad : \A m \in Bad : ~ (m < n)
  <2> HIDE DEF Good
  <2>1. \E n \in Bad : \A m \in Bad : ~ (<<m, n>> \in OpToRel(<, Nat))
    BY <1>3, WFMin, NatLessThanWellFounded
  <2> QED BY <2>1 DEF OpToRel
<1>5. n # 0
  <2> DEFINE zero == [s \in UpTo(0) |-> 0]
  <2>1. \A s \in UpTo(0) : s = {}
    BY <1>1, FS_EmptySet
  <2>2. \A s \in UpTo(0) : SumStep(f, zero, s) = 0
    <3> HIDE DEF zero
    <3> QED BY <2>1 DEF SumStep
  <2>3. zero = [s \in UpTo(0) |-> SumStep(f, zero, s)]
    BY <2>2
  <2>4. Good(0)
    <3> HIDE DEF zero
    <3> QED BY <2>3
  <2> HIDE DEF Good
  <2> QED BY <2>4
<1>6. n - 1 \in Nat /\ n - 1 < n
  BY <1>5
<1>7. Good(n - 1)
  <2> HIDE DEF Good
  <2> QED BY <1>4, <1>6
<1>8. PICK h : h = [s \in UpTo(n - 1) |-> SumStep(f, h, s)]
  BY <1>7
<1> DEFINE g == [s \in UpTo(n) |-> SumStep(f, h, s)]
<1>9. \A s \in UpTo(n - 1) : g[s] = h[s]
  <2>1. \A s \in UpTo(n - 1) : s \in UpTo(n)
    BY <1>1, <1>6
  <2> HIDE DEF UpTo
  <2> QED BY <1>8, <2>1
<1>10. \A s \in UpTo(n) : SumStep(f, g, s) = SumStep(f, h, s)
  <2> TAKE s \in UpTo(n)
  <2>1. CASE s = {}
    BY <2>1 DEF SumStep
  <2>2. CASE s # {}
    <3> DEFINE i == CHOOSE i \in s : TRUE
    <3>1. i \in s
      BY <2>2
    <3>2. SumStep(f, g, s) = SizeOf[f[i]] + g[s \ {i}]
          /\ SumStep(f, h, s) = SizeOf[f[i]] + h[s \ {i}]
      BY <2>2 DEF SumStep
    <3> HIDE DEF i, g
    <3>3. Cardinality(s \ {i}) = Cardinality(s) - 1 /\ Cardinality(s) \in Nat
      BY <1>1, <3>1, FS_RemoveElement
    <3>4. s \ {i} \in UpTo(n - 1)
      BY <3>3, <1>6
    <3> HIDE DEF UpTo
    <3> QED BY <3>2, <3>4, <1>9
  <2> QED BY <2>1, <2>2
<1>11. g = [s \in UpTo(n) |-> SumStep(f, g, s)]
  <2> HIDE DEF UpTo
  <2> QED BY <1>10
<1>12. Good(n)
  <2> HIDE DEF g, UpTo
  <2> QED BY <1>11
<1> HIDE DEF Good
<1> QED BY <1>12, <1>4

LEMMA BytesIsSum ==
    ASSUME NEW f, NEW D, IsFiniteSet(D)
    PROVE  \E sum : IsSum(f, D, sum) /\ Bytes(f, D) = sum[D]
<1>1. \E sum : IsSum(f, D, sum)
  BY SumExists
<1> QED BY <1>1, BytesIsFold

\* Two such functions agree where both are defined.
LEMMA SumsAgree ==
    ASSUME NEW f, NEW C, NEW D, IsFiniteSet(D), C \subseteq D,
           NEW g, IsSum(f, C, g), NEW h, IsSum(f, D, h)
    PROVE  \A s \in SUBSET C : g[s] = h[s]
<1> DEFINE T == {s \in SUBSET C : g[s] # h[s]}
<1>1. SUFFICES ASSUME T # {} PROVE FALSE
  OBVIOUS
<1>2. IsFiniteSet(C)
  BY FS_Subset
<1>3. PICK s \in T : \A u \in T : u \subseteq s => u = s
  <2> HIDE DEF T
  <2>1. T \in SUBSET (SUBSET C)
    BY DEF T
  <2> QED BY <2>1, <1>1, <1>2, SmallestSubset
<1>4. g[s] = SumStep(f, g, s) /\ h[s] = SumStep(f, h, s)
  BY DEF IsSum
<1>5. CASE s = {}
  BY <1>3, <1>4, <1>5 DEF SumStep
<1>6. CASE s # {}
  <2> DEFINE i == CHOOSE i \in s : TRUE
  <2>1. i \in s
    BY <1>6
  <2> HIDE DEF i
  <2>2. g[s \ {i}] = h[s \ {i}]
    BY <1>3, <2>1
  <2> QED BY <1>3, <1>4, <1>6, <2>2 DEF SumStep, i
<1> QED BY <1>5, <1>6

LEMMA BytesEmpty == ASSUME NEW f PROVE Bytes(f, {}) = 0
<1>1. PICK sum : IsSum(f, {}, sum) /\ Bytes(f, {}) = sum[{}]
  BY FS_EmptySet, BytesIsSum
<1> QED BY <1>1 DEF IsSum, SumStep

LEMMA BytesChosen ==
    ASSUME NEW f, NEW D, IsFiniteSet(D), D # {}
    PROVE  \E i \in D : Bytes(f, D) = SizeOf[f[i]] + Bytes(f, D \ {i})
<1>1. PICK h : IsSum(f, D, h) /\ Bytes(f, D) = h[D]
  BY BytesIsSum
<1> DEFINE i == CHOOSE i \in D : TRUE
<1>2. i \in D /\ h[D] = SizeOf[f[i]] + h[D \ {i}]
  BY <1>1 DEF IsSum, SumStep
<1> HIDE DEF i
<1>3. IsFiniteSet(D \ {i}) /\ D \ {i} \subseteq D
  BY FS_RemoveElement
<1>4. PICK C : C = D \ {i}
  OBVIOUS
<1>5. PICK g : IsSum(f, C, g) /\ Bytes(f, C) = g[C]
  BY <1>3, <1>4, BytesIsSum
<1>6. g[C] = h[C]
  <2>1. C \subseteq D /\ IsSum(f, C, g) /\ IsSum(f, D, h)
    BY <1>1, <1>4, <1>5
  <2>2. \A s \in SUBSET C : g[s] = h[s]
    BY <2>1, SumsAgree
  <2> QED BY <2>2
<1> QED BY <1>1, <1>2, <1>4, <1>5, <1>6

\* f gives a blob to each element of the finite set D.
Holds(f, D) == IsFiniteSet(D) /\ \A i \in D : f[i] \in Blobs

LEMMA HoldsPart ==
    ASSUME NEW f, NEW D, Holds(f, D), NEW s \in SUBSET D
    PROVE  Holds(f, s)
BY FS_Subset DEF Holds

LEMMA BytesType ==
    ASSUME NEW f, NEW D, Holds(f, D)
    PROVE  Bytes(f, D) \in Nat
<1> DEFINE T == {s \in SUBSET D : Bytes(f, s) \notin Nat}
<1>1. SUFFICES ASSUME T # {} PROVE FALSE
  OBVIOUS
<1>2. PICK s \in T : \A u \in T : u \subseteq s => u = s
  <2> HIDE DEF T
  <2>1. T \in SUBSET (SUBSET D)
    BY DEF T
  <2> QED BY <2>1, <1>1, SmallestSubset DEF Holds
<1>3. s # {}
  <2>1. Bytes(f, {}) \in Nat
    BY BytesEmpty
  <2> QED BY <2>1, <1>2
<1>4. PICK i \in s : Bytes(f, s) = SizeOf[f[i]] + Bytes(f, s \ {i})
  BY <1>3, HoldsPart, BytesChosen DEF Holds
<1>5. Bytes(f, s \ {i}) \in Nat
  BY <1>2
<1>6. SizeOf[f[i]] \in Nat
  BY ConstantsAssumption DEF Holds
<1> QED BY <1>2, <1>4, <1>5, <1>6

\* Any element may be taken out first.
LEMMA BytesLess ==
    ASSUME NEW f, NEW D, Holds(f, D), NEW i \in D
    PROVE  Bytes(f, D) = SizeOf[f[i]] + Bytes(f, D \ {i})
<1> DEFINE Odd(s) == \E j \in s : Bytes(f, s) # SizeOf[f[j]] + Bytes(f, s \ {j})
           T == {s \in SUBSET D : Odd(s)}
<1>1. SUFFICES ASSUME T # {} PROVE FALSE
  OBVIOUS
<1>2. PICK s \in T : \A u \in T : u \subseteq s => u = s
  <2> HIDE DEF T
  <2>1. T \in SUBSET (SUBSET D)
    BY DEF T
  <2> QED BY <2>1, <1>1, SmallestSubset DEF Holds
<1>3. PICK j \in s : Bytes(f, s) # SizeOf[f[j]] + Bytes(f, s \ {j})
  BY <1>2
<1>4. PICK k \in s : Bytes(f, s) = SizeOf[f[k]] + Bytes(f, s \ {k})
  BY <1>3, HoldsPart, BytesChosen DEF Holds
<1>5. j # k
  BY <1>3, <1>4
<1>6. ASSUME NEW u \in SUBSET s, u # s, NEW e \in u
      PROVE  Bytes(f, u) = SizeOf[f[e]] + Bytes(f, u \ {e})
  BY <1>2, <1>6
<1>7. PICK r : r = s \ {j, k}
  OBVIOUS
<1>8. (s \ {k}) \ {j} = r /\ (s \ {j}) \ {k} = r
  BY <1>7
<1>9. Bytes(f, s \ {k}) = SizeOf[f[j]] + Bytes(f, r)
  BY <1>5, <1>6, <1>8
<1>10. Bytes(f, s \ {j}) = SizeOf[f[k]] + Bytes(f, r)
  BY <1>5, <1>6, <1>8
<1>11. Bytes(f, r) \in Nat /\ SizeOf[f[j]] \in Nat /\ SizeOf[f[k]] \in Nat
  BY <1>7, HoldsPart, BytesType, ConstantsAssumption DEF Holds
<1>12. Bytes(f, s) = SizeOf[f[k]] + (SizeOf[f[j]] + Bytes(f, r))
       /\ Bytes(f, s) # SizeOf[f[j]] + (SizeOf[f[k]] + Bytes(f, r))
  BY <1>3, <1>4, <1>9, <1>10
<1> QED BY <1>11, <1>12

\* A sum depends on the sizes only.
LEMMA BytesSame ==
    ASSUME NEW f, NEW g, NEW D, IsFiniteSet(D), \A i \in D : f[i] = g[i]
    PROVE  Bytes(f, D) = Bytes(g, D)
<1>1. \A sum : \A s \in SUBSET D : SumStep(f, sum, s) = SumStep(g, sum, s)
  BY DEF SumStep
<1>2. PICK h : IsSum(f, D, h) /\ Bytes(f, D) = h[D]
  BY BytesIsSum
<1>3. IsSum(g, D, h)
  BY <1>1, <1>2 DEF IsSum
<1>4. PICK k : IsSum(g, D, k) /\ Bytes(g, D) = k[D]
  BY BytesIsSum
<1> QED BY <1>2, <1>3, <1>4, SumsAgree

\* The sum over a set is the sum over a part of it and over the rest.
LEMMA BytesSplit ==
    ASSUME NEW f, NEW D, Holds(f, D), NEW E \in SUBSET D
    PROVE  Bytes(f, D) = Bytes(f, E) + Bytes(f, D \ E)
<1> DEFINE T == {s \in SUBSET D : Bytes(f, D) # Bytes(f, s) + Bytes(f, D \ s)}
<1>1. SUFFICES ASSUME T # {} PROVE FALSE
  OBVIOUS
<1>2. PICK s \in T : \A u \in T : u \subseteq s => u = s
  <2> HIDE DEF T
  <2>1. T \in SUBSET (SUBSET D)
    BY DEF T
  <2> QED BY <2>1, <1>1, SmallestSubset DEF Holds
<1>3. s # {}
  <2> SUFFICES ASSUME s = {} PROVE FALSE
    OBVIOUS
  <2>1. Bytes(f, s) = 0 /\ D \ s = D /\ Bytes(f, D) \in Nat
    BY BytesEmpty, BytesType
  <2>2. Bytes(f, D) # Bytes(f, s) + Bytes(f, D \ s)
    BY <1>2
  <2>3. Bytes(f, D) # 0 + Bytes(f, D)
    BY <2>1, <2>2
  <2> QED BY <2>1, <2>3
<1>4. PICK i : i \in s
  BY <1>3
<1> DEFINE u == s \ {i}
<1>5. Bytes(f, D) = Bytes(f, u) + Bytes(f, D \ u)
  BY <1>2, <1>4
<1>6. Bytes(f, s) = SizeOf[f[i]] + Bytes(f, u)
  BY <1>4, HoldsPart, BytesLess
<1>7. Bytes(f, D \ u) = SizeOf[f[i]] + Bytes(f, (D \ u) \ {i})
  BY <1>4, HoldsPart, BytesLess
<1>8. (D \ u) \ {i} = D \ s
  BY <1>4
<1>9. /\ Bytes(f, u) \in Nat /\ Bytes(f, D \ s) \in Nat
      /\ SizeOf[f[i]] \in Nat
  BY <1>4, HoldsPart, BytesType, ConstantsAssumption DEF Holds
<1>10. Bytes(f, D) # Bytes(f, s) + Bytes(f, D \ s)
  BY <1>2
<1> HIDE DEF u
<1>11. Bytes(f, D) = Bytes(f, u) + (SizeOf[f[i]] + Bytes(f, D \ s))
       /\ Bytes(f, D) # (SizeOf[f[i]] + Bytes(f, u)) + Bytes(f, D \ s)
  BY <1>5, <1>6, <1>7, <1>8, <1>10
<1> QED BY <1>9, <1>11
-----------------------------------------------------------------------------
(* What a cache object must satisfy, and what each part of an operation    *)
(* does to it.                                                             *)

\* Files with a blob under an id: what finiteness and sizes rest on.
Filed(F) == DOMAIN F \subseteq 1 .. MaxId /\ \A i \in DOMAIN F : F[i].blob \in Blobs

Counted(c) ==
    /\ c.hotBytes  = Bytes(c.hot, DOMAIN c.hot)
    /\ c.warmBytes = Bytes(c.warm, DOMAIN c.warm)

Recorded(c) ==
    \A i \in DOMAIN c.index : /\ c.index[i].blob \in Blobs /\ c.index[i].turn \in Nat
                              /\ c.index[i].compat \in Models /\ c.index[i].last \in Nat

Bounded(c) ==
    \/ c.hotBytes <= HotBudget
    \/ \E i \in DOMAIN c.hot : c.hotBytes - SizeOf[c.hot[i]] <= HotBudget

LEMMA RamHolds ==
    ASSUME NEW c, NEW F, Copies(c, F), Filed(F)
    PROVE  Holds(c.hot, DOMAIN c.hot) /\ Holds(c.warm, DOMAIN c.warm)
<1>1. IsFiniteSet(1 .. MaxId)
  BY FS_Interval, ConstantsAssumption
<1>2. DOMAIN c.hot \subseteq 1 .. MaxId /\ DOMAIN c.warm \subseteq 1 .. MaxId
  BY DEF Copies, Filed
<1>3. IsFiniteSet(DOMAIN c.hot) /\ IsFiniteSet(DOMAIN c.warm)
  BY <1>1, <1>2, FS_Subset
<1> QED BY <1>3 DEF Copies, Filed, Holds

LEMMA CountersAreNumbers ==
    ASSUME NEW c, NEW F, Copies(c, F), Filed(F), Counted(c)
    PROVE  c.hotBytes \in Nat /\ c.warmBytes \in Nat
BY RamHolds, BytesType DEF Counted

\* Bytes of a part of f that has been dropped.
LEMMA DropBytes ==
    ASSUME NEW f, Holds(f, DOMAIN f), NEW D \in SUBSET DOMAIN f
    PROVE  /\ Bytes(Drop(f, D), DOMAIN Drop(f, D)) = Bytes(f, DOMAIN f) - Bytes(f, D)
           /\ Bytes(f, D) \in Nat /\ Bytes(f, DOMAIN f) \in Nat
           /\ Bytes(f, D) <= Bytes(f, DOMAIN f)
<1> DEFINE g == Drop(f, D)
           R == DOMAIN f \ D
<1>1. DOMAIN g = R /\ \A i \in R : g[i] = f[i]
  BY DEF Drop
<1>2. Holds(f, D) /\ Holds(f, R)
  BY HoldsPart
<1>3. Bytes(f, DOMAIN f) = Bytes(f, D) + Bytes(f, R)
  BY BytesSplit
<1> HIDE DEF g, R
<1>4. Bytes(f, R) = Bytes(g, R)
  BY <1>1, <1>2, BytesSame DEF Holds
<1>5. Bytes(f, D) \in Nat /\ Bytes(f, R) \in Nat /\ Bytes(f, DOMAIN f) \in Nat
  BY <1>2, BytesType
<1>6. Bytes(g, DOMAIN g) = Bytes(f, R)
  BY <1>1, <1>4
<1>7. Bytes(f, R) = Bytes(f, DOMAIN f) - Bytes(f, D) /\ Bytes(f, D) <= Bytes(f, DOMAIN f)
  BY <1>3, <1>5
<1> QED BY <1>5, <1>6, <1>7 DEF g

\* A checkpoint that is demoted takes its bytes along.
LEMMA MoveToWarmCounts ==
    ASSUME NEW c, NEW F, NEW X, NEW D \in SUBSET DOMAIN c.hot,
           Shape(c), Placed(c, X), Copies(c, F), Filed(F), Counted(c), Recorded(c)
    PROVE  LET d == MoveToWarm(c, D) IN
           /\ Counted(d) /\ Recorded(d)
           /\ d.hotBytes = c.hotBytes - Bytes(c.hot, D)
           /\ d.hot = Drop(c.hot, D)
<1> DEFINE d == MoveToWarm(c, D)
<1>1. /\ d.index = SetTier(c.index, D, "warm") /\ d.hot = Drop(c.hot, D)
      /\ d.warm = [i \in DOMAIN c.warm \cup D |-> IF i \in D THEN c.hot[i] ELSE c.warm[i]]
      /\ d.hotBytes = c.hotBytes - Bytes(c.hot, D)
      /\ d.warmBytes = c.warmBytes + Bytes(c.hot, D)
  BY DEF Shape, IsCache, IsFcn, MoveToWarm
<1> HIDE DEF d
<1>2. Holds(c.hot, DOMAIN c.hot) /\ Holds(c.warm, DOMAIN c.warm)
  BY RamHolds
<1>3. d.hotBytes = Bytes(d.hot, DOMAIN d.hot)
  BY <1>1, <1>2, DropBytes DEF Counted
<1>4. PICK W : W = DOMAIN c.warm
  OBVIOUS
<1>5. W \cap D = {}
  BY <1>4 DEF Placed, InTier
<1>6. Holds(c.hot, D) /\ Holds(c.warm, W)
  BY <1>2, <1>4, HoldsPart
<1>7. /\ DOMAIN d.warm = W \cup D
      /\ \A i \in D : d.warm[i] = c.hot[i]
      /\ \A i \in W : d.warm[i] = c.warm[i]
  BY <1>1, <1>4, <1>5
<1>8. Bytes(d.warm, D) = Bytes(c.hot, D) /\ Bytes(d.warm, W) = Bytes(c.warm, W)
  BY <1>6, <1>7, BytesSame DEF Holds
<1>9. Holds(d.warm, W \cup D)
  <2>1. IsFiniteSet(W \cup D)
    BY <1>6, FS_Union DEF Holds
  <2> QED BY <1>6, <1>7, <2>1 DEF Holds
<1>10. Bytes(d.warm, W \cup D) = Bytes(d.warm, D) + Bytes(d.warm, W)
  <2>1. (W \cup D) \ D = W
    BY <1>5
  <2>2. Bytes(d.warm, W \cup D) = Bytes(d.warm, D) + Bytes(d.warm, (W \cup D) \ D)
    BY <1>9, BytesSplit
  <2> QED BY <2>1, <2>2
<1>11. Bytes(c.hot, D) \in Nat /\ Bytes(c.warm, W) \in Nat
  BY <1>6, BytesType
<1>12. d.warmBytes = Bytes(d.warm, DOMAIN d.warm)
  <2>1. d.warmBytes = Bytes(c.warm, W) + Bytes(c.hot, D)
    BY <1>1, <1>4 DEF Counted
  <2>2. Bytes(d.warm, DOMAIN d.warm) = Bytes(c.hot, D) + Bytes(c.warm, W)
    BY <1>7, <1>8, <1>10
  <2> QED BY <1>11, <2>1, <2>2
<1>13. Recorded(d)
  BY <1>1 DEF SetTier, Recorded, Shape, IsRecord
<1> QED BY <1>1, <1>3, <1>12, <1>13 DEF Counted, d

LEMMA MoveToColdCounts ==
    ASSUME NEW c, NEW F, NEW D \in SUBSET DOMAIN c.warm,
           Shape(c), Copies(c, F), Filed(F), Counted(c), Recorded(c)
    PROVE  LET d == MoveToCold(c, D) IN
           /\ Counted(d) /\ Recorded(d)
           /\ d.hot = c.hot /\ d.hotBytes = c.hotBytes
<1> DEFINE d == MoveToCold(c, D)
<1>1. /\ d.index = SetTier(c.index, D, "cold") /\ d.hot = c.hot
      /\ d.warm = Drop(c.warm, D) /\ d.hotBytes = c.hotBytes
      /\ d.warmBytes = c.warmBytes - Bytes(c.warm, D)
  BY DEF Shape, IsCache, IsFcn, MoveToCold
<1> HIDE DEF d
<1>2. Holds(c.warm, DOMAIN c.warm)
  BY RamHolds
<1>3. d.warmBytes = Bytes(d.warm, DOMAIN d.warm)
  BY <1>1, <1>2, DropBytes DEF Counted
<1>4. Recorded(d)
  BY <1>1 DEF SetTier, Recorded, Shape, IsRecord
<1> QED BY <1>1, <1>3, <1>4 DEF Counted, d

LEMMA ForgetCounts ==
    ASSUME NEW c, NEW D, Shape(c), Counted(c), Recorded(c)
    PROVE  LET d == [c EXCEPT !.index = SetTier(c.index, D, "cold")] IN
           Counted(d) /\ Recorded(d) /\ d.hot = c.hot /\ d.hotBytes = c.hotBytes
<1> DEFINE d == [c EXCEPT !.index = SetTier(c.index, D, "cold")]
<1>1. /\ d.index = SetTier(c.index, D, "cold") /\ d.hot = c.hot /\ d.warm = c.warm
      /\ d.hotBytes = c.hotBytes /\ d.warmBytes = c.warmBytes
  BY DEF Shape, IsCache, IsFcn
<1> HIDE DEF d
<1>2. Recorded(d)
  BY <1>1 DEF SetTier, Recorded, Shape, IsRecord
<1> QED BY <1>1, <1>2 DEF Counted, d

\* The demotion loop ends with the hot tier within its budget, or empty.
LEMMA DemoteHotCounts ==
    ASSUME NEW c, NEW F, NEW X,
           Shape(c), Placed(c, X), Copies(c, F), Filed(F), Counted(c), Recorded(c),
           NEW d \in DemoteHot(c)
    PROVE  Counted(d) /\ Recorded(d) /\ d.hotBytes <= HotBudget
<1>1. PICK D \in LruVictims(c, "hot", c.hot, c.hotBytes - HotBudget) :
         d = MoveToWarm([c EXCEPT !.index = SetTier(c.index, D \ (D \cap DOMAIN c.hot), "cold")],
                        D \cap DOMAIN c.hot)
  BY DEF DemoteHot
<1>2. /\ D \subseteq DOMAIN c.hot
      /\ \/ DOMAIN c.hot \ D = {}
         \/ ~ (Bytes(c.hot, D \cap DOMAIN c.hot) < c.hotBytes - HotBudget)
  BY <1>1 DEF LruVictims, Placed
<1>3. D \ (D \cap DOMAIN c.hot) = {} /\ D \cap DOMAIN c.hot = D
  BY <1>2
<1> DEFINE a == [c EXCEPT !.index = SetTier(c.index, {}, "cold")]
<1>4. /\ Shape(a) /\ Placed(a, X) /\ Copies(a, F) /\ a.hot = c.hot
      /\ Counted(a) /\ Recorded(a) /\ a.hotBytes = c.hotBytes
  <2>1. {} \in SUBSET (X \cap InTier(c, "warm"))
    OBVIOUS
  <2> QED BY <2>1, ForgetKeeps, ForgetCounts
<1>5. d = MoveToWarm(a, D)
  BY <1>1, <1>3
<1> HIDE DEF a
<1>6. Counted(d) /\ Recorded(d) /\ d.hotBytes = c.hotBytes - Bytes(c.hot, D)
  BY <1>2, <1>4, <1>5, MoveToWarmCounts
<1>7. Holds(c.hot, DOMAIN c.hot) /\ Holds(c.hot, D)
  BY <1>2, RamHolds, HoldsPart
<1>8. /\ Bytes(c.hot, D) \in Nat /\ Bytes(c.hot, DOMAIN c.hot) \in Nat
      /\ c.hotBytes = Bytes(c.hot, DOMAIN c.hot)
  BY <1>7, BytesType DEF Counted
<1>9. CASE DOMAIN c.hot \ D = {}
  <2>1. D = DOMAIN c.hot
    BY <1>2, <1>9
  <2>2. d.hotBytes = 0
    BY <1>6, <1>8, <2>1
  <2> QED BY <1>6, <2>2, ConstantsAssumption
<1>10. CASE ~ (Bytes(c.hot, D) < c.hotBytes - HotBudget)
  BY <1>6, <1>8, <1>10, ConstantsAssumption
<1> QED BY <1>2, <1>3, <1>9, <1>10

LEMMA DemoteWarmCounts ==
    ASSUME NEW c, NEW F, NEW X,
           Shape(c), Placed(c, X), Copies(c, F), Filed(F), Counted(c), Recorded(c),
           NEW d \in DemoteWarm(c)
    PROVE  Counted(d) /\ Recorded(d) /\ d.hotBytes = c.hotBytes
<1>1. PICK D \in LruVictims(c, "warm", c.warm, c.warmBytes - WarmBudget) :
         d = MoveToCold([c EXCEPT !.index = SetTier(c.index, D \ (D \cap DOMAIN c.warm), "cold")],
                        D \cap DOMAIN c.warm)
  BY DEF DemoteWarm
<1> DEFINE N == D \ (D \cap DOMAIN c.warm)
           M == D \cap DOMAIN c.warm
           a == [c EXCEPT !.index = SetTier(c.index, N, "cold")]
<1>2. N \in SUBSET (X \cap InTier(c, "warm")) /\ M \in SUBSET DOMAIN c.warm
  BY <1>1 DEF LruVictims, Placed
<1>3. d = MoveToCold(a, M)
  BY <1>1
<1> HIDE DEF N, M
<1>4. /\ Shape(a) /\ Copies(a, F) /\ a.warm = c.warm
      /\ Counted(a) /\ Recorded(a) /\ a.hotBytes = c.hotBytes
  BY <1>2, ForgetKeeps, ForgetCounts
<1> HIDE DEF a
<1> QED BY <1>2, <1>3, <1>4, MoveToColdCounts

\* make_room_hot leaves the hot tier within its budget, whatever is needed,
\* unless it was empty: then there is nothing in it.
LEMMA MakeRoomCounts ==
    ASSUME NEW c, NEW F, NEW X, NEW needed \in Nat,
           Shape(c), Placed(c, X), Copies(c, F), X \cap DOMAIN c.hot = {},
           Filed(F), Counted(c), Recorded(c),
           NEW d \in MakeRoom(c, needed)
    PROVE  Counted(d) /\ Recorded(d) /\ d.hotBytes <= HotBudget
<1>1. c.hotBytes \in Nat /\ HotBudget \in Nat
  BY CountersAreNumbers, ConstantsAssumption
<1>2. CASE d = c /\ c.hotBytes + needed <= HotBudget
  BY <1>1, <1>2
<1>3. CASE d = c /\ DOMAIN c.hot = {}
  <2>1. c.hotBytes = 0
    BY <1>3, BytesEmpty DEF Counted
  <2> QED BY <1>1, <1>3, <2>1
<1>4. CASE d \in DemoteHot(c)
  BY <1>4, DemoteHotCounts
<1>5. ASSUME NEW e \in DemoteHot(c), d \in DemoteWarm(e)
      PROVE  Counted(d) /\ Recorded(d) /\ d.hotBytes <= HotBudget
  <2>1. Shape(e) /\ Placed(e, X) /\ Copies(e, F)
    BY DemoteHotKeeps
  <2>2. Counted(e) /\ Recorded(e) /\ e.hotBytes <= HotBudget
    BY DemoteHotCounts
  <2>3. Counted(d) /\ Recorded(d) /\ d.hotBytes = e.hotBytes
    BY <1>5, <2>1, <2>2, DemoteWarmCounts
  <2> QED BY <2>2, <2>3
<1> QED BY <1>2, <1>3, <1>4, <1>5 DEF MakeRoom

\* One checkpoint more than what fits.
LEMMA MakeHotCounts ==
    ASSUME NEW c, NEW i \in DOMAIN c.index, NEW b \in Blobs, NEW t \in Nat,
           Shape(c), Holds(c.hot, DOMAIN c.hot), Counted(c), Recorded(c),
           i \notin DOMAIN c.hot, c.hotBytes <= HotBudget
    PROVE  LET d == MakeHot(c, i, b, t) IN Counted(d) /\ Recorded(d) /\ Bounded(d)
<1> DEFINE d == MakeHot(c, i, b, t)
<1>1. /\ d.index = [c.index EXCEPT ![i].tier = "hot", ![i].last = t]
      /\ d.hot = Put(c.hot, i, b) /\ d.warm = c.warm
      /\ d.hotBytes = c.hotBytes + SizeOf[b] /\ d.warmBytes = c.warmBytes
  BY DEF Shape, IsCache, IsFcn, MakeHot
<1> HIDE DEF d
<1>2. PICK H : H = DOMAIN c.hot
  OBVIOUS
<1>3. /\ DOMAIN d.hot = H \cup {i} /\ d.hot[i] = b
      /\ \A j \in H : d.hot[j] = c.hot[j]
  BY <1>1, <1>2 DEF Put
<1>4. Holds(d.hot, H \cup {i})
  <2>1. IsFiniteSet(H \cup {i})
    BY <1>2, FS_AddElement DEF Holds
  <2> QED BY <1>2, <1>3, <2>1 DEF Holds
<1>5. Bytes(d.hot, H \cup {i}) = SizeOf[b] + Bytes(d.hot, H)
  <2>1. (H \cup {i}) \ {i} = H
    BY <1>2
  <2>2. Bytes(d.hot, H \cup {i}) = SizeOf[d.hot[i]] + Bytes(d.hot, (H \cup {i}) \ {i})
    BY <1>4, BytesLess
  <2> QED BY <1>3, <2>1, <2>2
<1>6. Bytes(d.hot, H) = Bytes(c.hot, H)
  BY <1>2, <1>3, BytesSame DEF Holds
<1>7. Bytes(c.hot, H) \in Nat /\ SizeOf[b] \in Nat /\ c.hotBytes = Bytes(c.hot, H)
  BY <1>2, BytesType, ConstantsAssumption DEF Counted
<1>8. Counted(d)
  <2>1. d.hotBytes = Bytes(d.hot, DOMAIN d.hot)
    BY <1>1, <1>3, <1>5, <1>6, <1>7
  <2> QED BY <1>1, <2>1 DEF Counted
<1>9. Recorded(d)
  BY <1>1 DEF Recorded, Shape, IsRecord
<1>10. Bounded(d)
  <2>1. d.hotBytes - SizeOf[b] <= HotBudget
    BY <1>1, <1>7, ConstantsAssumption
  <2> QED BY <1>3, <2>1 DEF Bounded
<1> QED BY <1>8, <1>9, <1>10 DEF d

\* A demotion from a bounded hot tier leaves it bounded: a checkpoint that
\* made it exceed the budget is still there, or its bytes are gone.
LEMMA DropKeepsBounded ==
    ASSUME NEW c, NEW d, Holds(c.hot, DOMAIN c.hot), Counted(c), Bounded(c),
           NEW D \in SUBSET DOMAIN c.hot,
           d.hot = Drop(c.hot, D), d.hotBytes = c.hotBytes - Bytes(c.hot, D)
    PROVE  Bounded(d)
<1>1. c.hotBytes \in Nat /\ Bytes(c.hot, D) \in Nat /\ HotBudget \in Nat
  BY HoldsPart, BytesType, ConstantsAssumption DEF Counted
<1>2. CASE c.hotBytes <= HotBudget
  BY <1>1, <1>2 DEF Bounded
<1>3. ASSUME NEW i \in DOMAIN c.hot, c.hotBytes - SizeOf[c.hot[i]] <= HotBudget
      PROVE  Bounded(d)
  <2>1. SizeOf[c.hot[i]] \in Nat
    BY ConstantsAssumption DEF Holds
  <2>2. CASE i \in D
    <3>1. Bytes(c.hot, D) = SizeOf[c.hot[i]] + Bytes(c.hot, D \ {i})
      BY <2>2, HoldsPart, BytesLess
    <3>2. Bytes(c.hot, D \ {i}) \in Nat
      BY HoldsPart, BytesType
    <3>3. d.hotBytes <= HotBudget
      BY <1>1, <1>3, <2>1, <3>1, <3>2
    <3> QED BY <3>3 DEF Bounded
  <2>3. CASE i \notin D
    <3>1. i \in DOMAIN d.hot /\ d.hot[i] = c.hot[i]
      BY <2>3 DEF Drop
    <3>2. d.hotBytes - SizeOf[d.hot[i]] <= HotBudget
      BY <1>1, <1>3, <2>1, <3>1
    <3> QED BY <3>1, <3>2 DEF Bounded
  <2> QED BY <2>2, <2>3
<1> QED BY <1>2, <1>3 DEF Bounded

\* A set of numbers that is finite and not empty has a greatest one.
LEMMA GreatestExists ==
    ASSUME NEW S, IsFiniteSet(S), S # {}
    PROVE  (\A x \in S : x \in Nat) => \E x \in S : \A y \in S : y <= x
<1> DEFINE Top(s) == \E x \in s : \A y \in s : y <= x
           T == {s \in SUBSET S : s # {} /\ ~ Top(s)}
<1>1. SUFFICES ASSUME T # {} PROVE ~ (\A x \in S : x \in Nat)
  OBVIOUS
<1>2. PICK s \in T : \A u \in T : u \subseteq s => u = s
  <2> HIDE DEF T
  <2>1. T \in SUBSET (SUBSET S)
    BY DEF T
  <2> QED BY <2>1, <1>1, SmallestSubset
<1>3. SUFFICES ASSUME \A x \in S : x \in Nat PROVE FALSE
  OBVIOUS
<1>4. PICK x \in s : x \in Nat
  BY <1>2, <1>3
<1>5. CASE s \ {x} = {}
  <2>1. \A y \in s : y <= x
    BY <1>4, <1>5
  <2> QED BY <2>1, <1>2, <1>4
<1>6. CASE s \ {x} # {}
  <2>1. s \ {x} \in SUBSET S /\ s \ {x} # s /\ s \ {x} \subseteq s
    BY <1>2, <1>4
  <2>2. Top(s \ {x})
    <3> HIDE DEF Top
    <3> QED BY <2>1, <1>2, <1>6
  <2>3. PICK z \in s \ {x} : \A y \in s \ {x} : y <= z
    BY <2>2
  <2>4. z \in Nat /\ \A y \in s : y \in Nat
    BY <1>2, <1>3
  <2>5. CASE z <= x
    <3>1. \A y \in s : y <= x
      BY <1>4, <2>3, <2>4, <2>5
    <3> QED BY <3>1, <1>2, <1>4
  <2>6. CASE ~ (z <= x)
    <3>1. \A y \in s : y <= z
      BY <1>4, <2>3, <2>4, <2>6
    <3> QED BY <3>1, <1>2, <2>3
  <2> QED BY <2>5, <2>6
<1> QED BY <1>5, <1>6

-----------------------------------------------------------------------------
(* The operations                                                          *)

\* A cache object whose counters and entries are in order.
Sound(c) == Counted(c) /\ Recorded(c) /\ Bounded(c)

ByteInv ==
    /\ Inv /\ Sound(cache)
    /\ \A i \in DOMAIN files : files[i].turn \in Nat
    /\ cache.next \in Nat /\ cache.compat \in Models \cup {Miss}
    /\ turn \in Nat /\ clock \in Nat
    /\ out \in [id : Nat, compat : Models \cup {Miss}, blob : Blobs \cup {Miss}]

LEMMA FilesAreFiled == Inv => Filed(files)
BY DEF Inv, DiskInv, Filed

LEMMA TickType == ASSUME clock \in Nat, NEW t \in Tick PROVE t \in Nat
BY DEF Tick

LEMMA StoreCounts ==
    ASSUME ByteInv, NEW b \in Blobs, NEW dn, FinishStore(b, dn)
    PROVE  Sound(cache')
<1> DEFINE i == cache.next
           c0 == [cache EXCEPT !.next = i + 1]
<1>1. PICK t \in Tick : \E c \in MakeRoom(c0, SizeOf[b]) :
            cache' = MakeHot([c EXCEPT !.index = Put(c.index, i, Checkpoint(b, "hot", t))], i, b, t)
  BY DEF FinishStore
<1>2. PICK c \in MakeRoom(c0, SizeOf[b]) :
            cache' = MakeHot([c EXCEPT !.index = Put(c.index, i, Checkpoint(b, "hot", t))], i, b, t)
  BY <1>1
<1>3. Inv /\ up /\ i \notin DOMAIN cache.hot \cup DOMAIN cache.warm
  BY NextIsFree DEF ByteInv, FinishStore
<1>4. /\ IsCache(c0) /\ c0.index = cache.index /\ c0.hot = cache.hot /\ c0.warm = cache.warm
      /\ c0.hotBytes = cache.hotBytes /\ c0.warmBytes = cache.warmBytes
  BY <1>3 DEF Inv, CacheInv, Shape, IsCache
<1> HIDE DEF c0
<1>5. Shape(c0) /\ Placed(c0, {}) /\ Copies(c0, files) /\ Counted(c0) /\ Recorded(c0)
  BY <1>4 DEF ByteInv, Sound, Inv, CacheInv, Shape, Placed, InTier, Copies, Counted, Recorded
<1>6. Filed(files) /\ SizeOf[b] \in Nat
  BY <1>3, FilesAreFiled, ConstantsAssumption
<1>7. Shape(c) /\ Copies(c, files) /\ SameEntries(c0, c)
  BY <1>5, MakeRoomKeeps
<1>8. Counted(c) /\ Recorded(c) /\ c.hotBytes <= HotBudget
  <2>1. {} \cap DOMAIN c0.hot = {}
    OBVIOUS
  <2> QED BY <2>1, <1>5, <1>6, MakeRoomCounts
<1>9. i \notin DOMAIN c.hot
  BY <1>3, <1>4, <1>7 DEF SameEntries
<1> HIDE DEF i
<1> DEFINE e == [c EXCEPT !.index = Put(c.index, i, Checkpoint(b, "hot", t))]
<1>10. /\ IsCache(e) /\ e.index = Put(c.index, i, Checkpoint(b, "hot", t))
       /\ e.hot = c.hot /\ e.warm = c.warm
       /\ e.hotBytes = c.hotBytes /\ e.warmBytes = c.warmBytes
  BY <1>7 DEF Shape, IsCache
<1>11. cache' = MakeHot(e, i, b, t)
  BY <1>2
<1> HIDE DEF e
<1>12. t \in Nat
  BY TickType DEF ByteInv
<1>13. /\ IsRecord(Checkpoint(b, "hot", t)) /\ Checkpoint(b, "hot", t).tier = "hot"
       /\ Checkpoint(b, "hot", t).blob = b /\ Checkpoint(b, "hot", t).turn = turn
       /\ Checkpoint(b, "hot", t).compat = cache.compat /\ Checkpoint(b, "hot", t).last = t
  BY DEF IsRecord, Checkpoint
<1>14. /\ DOMAIN e.index = DOMAIN c.index \cup {i} /\ IsFcn(e.index)
       /\ \A j \in DOMAIN e.index :
             e.index[j] = IF j = i THEN Checkpoint(b, "hot", t) ELSE c.index[j]
  BY <1>10 DEF Put, IsFcn
<1>15. Shape(e)
  BY <1>7, <1>10, <1>13, <1>14 DEF Shape, Tiers
<1>16. Recorded(e)
  <2>1. cache.compat \in Models /\ turn \in Nat
    BY <1>3 DEF ByteInv, Inv
  <2> QED BY <1>8, <1>12, <1>13, <1>14, <2>1 DEF Recorded
<1>17. Counted(e) /\ Holds(e.hot, DOMAIN e.hot) /\ i \notin DOMAIN e.hot
       /\ e.hotBytes <= HotBudget /\ i \in DOMAIN e.index
  BY <1>6, <1>7, <1>8, <1>9, <1>10, <1>14, RamHolds DEF Counted
<1> QED BY <1>11, <1>12, <1>15, <1>16, <1>17, MakeHotCounts DEF Sound

LEMMA LoadHotCounts ==
    ASSUME ByteInv, NEW i \in DOMAIN cache.index, LoadHot(i)
    PROVE  Sound(cache')
<1>1. PICK t \in Tick : cache' = [cache EXCEPT !.index[i].last = t]
  BY DEF LoadHot
<1>2. /\ cache'.hot = cache.hot /\ cache'.warm = cache.warm
      /\ cache'.hotBytes = cache.hotBytes /\ cache'.warmBytes = cache.warmBytes
      /\ cache'.index = [cache.index EXCEPT ![i].last = t]
  BY <1>1 DEF ByteInv, Inv, CacheInv, Shape, IsCache
<1>3. Recorded(cache')
  <2>1. t \in Nat
    BY TickType DEF ByteInv
  <2> QED BY <1>2, <2>1 DEF ByteInv, Sound, Recorded, Inv, CacheInv, Shape, IsRecord
<1> QED BY <1>2, <1>3 DEF ByteInv, Sound, Counted, Bounded

\* The checkpoint leaves the warm cache with its bytes before room is made.
LEMMA LoadWarmCounts ==
    ASSUME ByteInv, NEW i \in DOMAIN cache.index, LoadWarm(i)
    PROVE  Sound(cache')
<1> DEFINE b == cache.warm[i]
           a == [cache EXCEPT !.warm = Drop(cache.warm, {i}),
                              !.warmBytes = cache.warmBytes - SizeOf[b]]
<1>1. i \in DOMAIN cache.warm /\ i \notin DOMAIN cache.hot
  BY DEF LoadWarm
<1>2. PICK t \in Tick : \E c \in MakeRoom(a, SizeOf[b]) : cache' = MakeHot(c, i, b, t)
  BY DEF LoadWarm
<1>3. PICK c \in MakeRoom(a, SizeOf[b]) : cache' = MakeHot(c, i, b, t)
  BY <1>2
<1>4. /\ IsCache(a) /\ a.index = cache.index /\ a.hot = cache.hot
      /\ a.warm = Drop(cache.warm, {i})
      /\ a.hotBytes = cache.hotBytes /\ a.warmBytes = cache.warmBytes - SizeOf[b]
  BY DEF ByteInv, Inv, CacheInv, Shape, IsCache
<1>5. /\ Shape(cache) /\ Placed(cache, {}) /\ Copies(cache, files)
      /\ Counted(cache) /\ Recorded(cache) /\ Filed(files)
  BY FilesAreFiled DEF ByteInv, Sound, Inv, CacheInv
<1>6. Holds(cache.hot, DOMAIN cache.hot) /\ Holds(cache.warm, DOMAIN cache.warm)
  BY <1>5, RamHolds
<1>7. b \in Blobs /\ SizeOf[b] \in Nat
  BY <1>1, <1>6, ConstantsAssumption DEF Holds
<1>8. Bytes(cache.warm, {i}) = SizeOf[b]
  <2>1. Holds(cache.warm, {i}) /\ {i} \ {i} = {}
    BY <1>1, <1>6, HoldsPart
  <2>2. Bytes(cache.warm, {i}) = SizeOf[b] + Bytes(cache.warm, {i} \ {i})
    BY <2>1, BytesLess
  <2> QED BY <1>7, <2>1, <2>2, BytesEmpty
<1> HIDE DEF a, b
<1>9. Counted(a)
  <2>1. Bytes(a.warm, DOMAIN a.warm) = Bytes(cache.warm, DOMAIN cache.warm) - SizeOf[b]
    BY <1>1, <1>4, <1>6, <1>8, DropBytes
  <2> QED BY <1>4, <1>5, <2>1 DEF Counted
<1>10. /\ DOMAIN a.warm = DOMAIN cache.warm \ {i} /\ IsFcn(a.warm)
       /\ \A j \in DOMAIN a.warm : a.warm[j] = cache.warm[j]
  BY <1>4 DEF Drop, IsFcn
<1>11. Shape(a) /\ Placed(a, {i}) /\ Copies(a, files) /\ Recorded(a)
  <2>1. Shape(a)
    BY <1>4, <1>5, <1>10 DEF Shape
  <2>2. InTier(a, "hot") = InTier(cache, "hot") /\ InTier(a, "warm") = InTier(cache, "warm")
    BY <1>4 DEF InTier
  <2>3. Placed(a, {i})
    BY <1>4, <1>5, <1>10, <2>2 DEF Placed
  <2> QED BY <1>4, <1>5, <1>10, <2>1, <2>3 DEF Copies, Recorded
<1>12. {i} \cap DOMAIN a.hot = {}
  BY <1>1, <1>4
<1>13. Shape(c) /\ Copies(c, files) /\ SameEntries(a, c)
  BY <1>11, <1>12, MakeRoomKeeps
<1>14. Counted(c) /\ Recorded(c) /\ c.hotBytes <= HotBudget
  BY <1>5, <1>7, <1>9, <1>11, <1>12, MakeRoomCounts
<1>15. i \in DOMAIN c.index /\ i \notin DOMAIN c.hot
  BY <1>1, <1>4, <1>10, <1>13 DEF SameEntries
<1>16. Holds(c.hot, DOMAIN c.hot) /\ t \in Nat
  BY <1>5, <1>13, RamHolds, TickType DEF ByteInv
<1> QED BY <1>3, <1>7, <1>13, <1>14, <1>15, <1>16, MakeHotCounts DEF Sound

LEMMA LoadColdCounts ==
    ASSUME ByteInv, NEW i \in DOMAIN cache.index, LoadCold(i)
    PROVE  Sound(cache')
<1> DEFINE b == files[i].blob
<1>1. i \in DOMAIN files /\ i \notin DOMAIN cache.hot \cup DOMAIN cache.warm
  BY DEF LoadCold, InRam
<1>2. PICK c \in MakeRoom(cache, SizeOf[b]) :
          \/ cache' = c
          \/ \E t \in Tick : cache' = MakeHot(c, i, b, t)
  BY DEF LoadCold
<1>3. /\ Shape(cache) /\ Placed(cache, {}) /\ Copies(cache, files)
      /\ Counted(cache) /\ Recorded(cache) /\ Filed(files)
  BY FilesAreFiled DEF ByteInv, Sound, Inv, CacheInv
<1>4. b \in Blobs /\ SizeOf[b] \in Nat
  BY <1>1, <1>3, ConstantsAssumption DEF Filed
<1> HIDE DEF b
<1>5. Shape(c) /\ Copies(c, files) /\ SameEntries(cache, c)
  BY <1>3, MakeRoomKeeps
<1>6. Counted(c) /\ Recorded(c) /\ c.hotBytes <= HotBudget
  <2>1. {} \cap DOMAIN cache.hot = {}
    OBVIOUS
  <2> QED BY <2>1, <1>3, <1>4, MakeRoomCounts
<1>7. CASE cache' = c
  BY <1>6, <1>7 DEF Sound, Bounded
<1>8. ASSUME NEW t \in Tick, cache' = MakeHot(c, i, b, t)
      PROVE  Sound(cache')
  <2>1. i \in DOMAIN c.index /\ i \notin DOMAIN c.hot
    BY <1>1, <1>5 DEF SameEntries
  <2>2. Holds(c.hot, DOMAIN c.hot) /\ t \in Nat
    BY <1>3, <1>5, RamHolds, TickType DEF ByteInv
  <2> QED BY <1>4, <1>5, <1>6, <1>8, <2>1, <2>2, MakeHotCounts DEF Sound
<1> QED BY <1>2, <1>7, <1>8

LEMMA LoadMissingCounts ==
    ASSUME ByteInv, NEW i \in DOMAIN cache.index, LoadMissing(i)
    PROVE  Sound(cache')
<1>1. cache' = [cache EXCEPT !.index = Drop(cache.index, {i})]
  BY DEF LoadMissing
<1>2. /\ cache'.hot = cache.hot /\ cache'.warm = cache.warm
      /\ cache'.hotBytes = cache.hotBytes /\ cache'.warmBytes = cache.warmBytes
      /\ cache'.index = Drop(cache.index, {i})
  BY <1>1 DEF ByteInv, Inv, CacheInv, Shape, IsCache
<1> QED BY <1>2 DEF ByteInv, Sound, Counted, Recorded, Bounded, Drop

LEMMA LoadCounts ==
    ASSUME ByteInv, NEW i \in DOMAIN cache.index, Load(i)
    PROVE  Sound(cache')
<1>1. CASE LoadRejected(i)
  BY <1>1 DEF LoadRejected, ByteInv
<1> QED BY <1>1, LoadHotCounts, LoadWarmCounts, LoadColdCounts, LoadMissingCounts DEF Load

LEMMA TurnCompleteCounts ==
    ASSUME ByteInv, TurnComplete
    PROVE  Sound(cache')
<1> DEFINE D1 == Inactive(cache, "hot", HotTurns) \cap DOMAIN cache.hot
           c1 == MoveToWarm(cache, D1)
           D2 == Inactive(c1, "warm", WarmTurns) \cap DOMAIN c1.warm
           c2 == MoveToCold(c1, D2)
<1>1. PICK E \in Oldest(c2) : cache' = [c2 EXCEPT !.index = Drop(c2.index, E)]
  BY DEF TurnComplete
<1>2. D1 \in SUBSET DOMAIN cache.hot /\ D2 \in SUBSET DOMAIN c1.warm
  OBVIOUS
<1> HIDE DEF D1, D2
<1>3. /\ Shape(cache) /\ Placed(cache, {}) /\ Copies(cache, files)
      /\ Counted(cache) /\ Recorded(cache) /\ Bounded(cache) /\ Filed(files)
  BY FilesAreFiled DEF ByteInv, Sound, Inv, CacheInv
<1>4. Shape(c1) /\ Placed(c1, {}) /\ Copies(c1, files)
  BY <1>2, <1>3, MoveToWarmKeeps
<1>5. /\ Counted(c1) /\ Recorded(c1)
      /\ c1.hotBytes = cache.hotBytes - Bytes(cache.hot, D1)
      /\ c1.hot = Drop(cache.hot, D1)
  BY <1>2, <1>3, MoveToWarmCounts
<1> HIDE DEF c1
<1>6. Bounded(c1)
  BY <1>2, <1>3, <1>5, RamHolds, DropKeepsBounded
<1>7. Shape(c2)
  BY <1>2, <1>4, MoveToColdKeeps
<1>8. Counted(c2) /\ Recorded(c2) /\ c2.hot = c1.hot /\ c2.hotBytes = c1.hotBytes
  BY <1>2, <1>3, <1>4, <1>5, MoveToColdCounts
<1> HIDE DEF c2
<1>9. /\ cache'.hot = c2.hot /\ cache'.warm = c2.warm
      /\ cache'.hotBytes = c2.hotBytes /\ cache'.warmBytes = c2.warmBytes
      /\ cache'.index = Drop(c2.index, E)
  BY <1>1, <1>7 DEF Shape, IsCache
<1>10. Recorded(cache')
  BY <1>8, <1>9 DEF Recorded, Drop
<1> QED BY <1>6, <1>8, <1>9, <1>10 DEF Sound, Counted, Bounded

\* A cache that was just opened, or is not open, has nothing in RAM.
LEMMA EmptyCacheCounts ==
    ASSUME NEW n, NEW m, NEW x
    PROVE  LET c == EmptyCache(n, m, x) IN Counted(c) /\ Bounded(c) /\ c.index = x
                                           /\ c.next = n /\ c.compat = m
<1>1. Bytes(NoCheckpoints, DOMAIN NoCheckpoints) = 0
  BY BytesEmpty DEF NoCheckpoints
<1> QED BY <1>1, ConstantsAssumption DEF EmptyCache, Counted, Bounded

LEMMA DownCounts ==
    ASSUME Down
    PROVE  /\ Sound(cache') /\ up' = FALSE
           /\ cache'.next \in Nat /\ cache'.compat \in Models \cup {Miss}
<1>1. cache' = EmptyCache(0, Miss, NoCheckpoints) /\ up' = FALSE
  BY DEF Down
<1>2. DOMAIN NoCheckpoints = {}
  BY DEF NoCheckpoints
<1> QED BY <1>1, <1>2, EmptyCacheCounts DEF Sound, Recorded

\* The highest turn in the headers.
LEMMA MaxTurnType ==
    ASSUME ByteInv
    PROVE  MaxTurnOnDisk \in Nat
<1>1. CASE diskNext = 0 \/ DOMAIN files = {}
  BY <1>1 DEF MaxTurnOnDisk
<1>2. CASE ~ (diskNext = 0 \/ DOMAIN files = {})
  <2> DEFINE S == {files[i].turn : i \in DOMAIN files}
  <2>1. (\A t \in S : t \in Nat) /\ S # {}
    BY <1>2 DEF ByteInv
  <2>2. IsFiniteSet(S)
    <3>1. IsFiniteSet(DOMAIN files)
      <4>1. IsFiniteSet(1 .. MaxId)
        BY FS_Interval, ConstantsAssumption
      <4>2. DOMAIN files \subseteq 1 .. MaxId
        BY DEF ByteInv, Inv, DiskInv
      <4> QED BY <4>1, <4>2, FS_Subset
    <3> DEFINE g == [i \in DOMAIN files |-> files[i].turn]
    <3>2. g \in Surjection(DOMAIN files, S)
      BY DEF Surjection
    <3> HIDE DEF g, S
    <3> QED BY <3>1, <3>2, FS_Surjection
  <2>3. \E t \in S : \A s \in S : s <= t
    <3> HIDE DEF S
    <3> QED BY <2>1, <2>2, GreatestExists
  <2>4. \E t \in S : \A i \in DOMAIN files : files[i].turn <= t
    BY <2>3
  <2>5. MaxTurnOnDisk = CHOOSE t \in S : \A i \in DOMAIN files : files[i].turn <= t
    BY <1>2 DEF MaxTurnOnDisk
  <2>6. MaxTurnOnDisk \in S
    <3> HIDE DEF S
    <3> QED BY <2>4, <2>5
  <2> QED BY <2>1, <2>6
<1> QED BY <1>1, <1>2

LEMMA RestartCounts ==
    ASSUME ByteInv, NEW m \in Models, Restart(m)
    PROVE  Sound(cache') /\ turn' \in Nat
<1> DEFINE x == [i \in DOMAIN files |->
                   [blob |-> files[i].blob, turn |-> files[i].turn,
                    compat |-> files[i].compat, tier |-> "cold", last |-> 0]]
<1>1. cache' = EmptyCache(Resume, m, x)
      /\ turn' = MaxTurnOnDisk + 1
  BY DEF Restart, RestartAt
<1>2. \A i \in DOMAIN files : files[i].blob \in Blobs /\ files[i].compat \in Models
                              /\ files[i].turn \in Nat
  BY DEF ByteInv, Inv, DiskInv
<1>3. /\ DOMAIN x = DOMAIN files
      /\ \A i \in DOMAIN x : /\ x[i].blob \in Blobs /\ x[i].turn \in Nat
                             /\ x[i].compat \in Models /\ x[i].last \in Nat
  BY <1>2
<1> HIDE DEF x
<1>4. Counted(cache') /\ Bounded(cache') /\ cache'.index = x
  BY <1>1, EmptyCacheCounts
<1> QED BY <1>1, <1>3, <1>4, MaxTurnType DEF Sound, Recorded

\* What a step does to the cache object.
LEMMA CacheCounts ==
    ASSUME NoIndexFault, ByteInv, [Next]_vars
    PROVE  Sound(cache')
<1>1. CASE UNCHANGED vars
  BY <1>1 DEF vars, ByteInv
<1>2. ASSUME NEW b \in Blobs, Store(b) PROVE Sound(cache')
  BY <1>2, StoreCounts DEF Store
<1>3. ASSUME NEW b \in Blobs, StoreIndexFails(b) \/ CrashBeforeIndex(b) PROVE FALSE
  BY <1>3 DEF StoreIndexFails, CrashBeforeIndex, NoIndexFault
<1>4. ASSUME NEW b \in Blobs, CrashTorn(b) PROVE Sound(cache')
  BY <1>4, DownCounts DEF CrashTorn
<1>5. CASE StoreFails \/ EmptyTurn
  BY <1>5 DEF StoreFails, EmptyTurn, ByteInv
<1>6. CASE Stop
  BY <1>6, DownCounts DEF Stop
<1> QED BY <1>1, <1>2, <1>3, <1>4, <1>5, <1>6, LoadCounts, TurnCompleteCounts, RestartCounts
        DEF Next

\* What a step does to the types of the other variables.
LEMMA HeaderTurns ==
    ASSUME ByteInv, [Next]_vars, NEW j \in DOMAIN files'
    PROVE  files'[j].turn \in Nat
<1>1. turn \in Nat /\ \A i \in DOMAIN files : files[i].turn \in Nat
  BY DEF ByteInv
<1>2. \A b, whole : Header(b, whole).turn \in Nat
  BY <1>1 DEF Header
<1>3. ASSUME NEW b, NEW whole, files' = Put(files, cache.next, Header(b, whole))
      PROVE  files'[j].turn \in Nat
  BY <1>1, <1>2, <1>3 DEF Put
<1>4. ASSUME NEW D, files' = Drop(files, D)
      PROVE  files'[j].turn \in Nat
  BY <1>1, <1>4 DEF Drop
<1>5. CASE files' = files
  BY <1>1, <1>5
<1>6. ASSUME Next
      PROVE  \/ files' = files
             \/ \E D : files' = Drop(files, D)
             \/ \E b, whole : files' = Put(files, cache.next, Header(b, whole))
  <2>1. ASSUME NEW b \in Blobs, NEW dn, FinishStore(b, dn)
        PROVE  files' = Put(files, cache.next, Header(b, TRUE))
    BY <2>1 DEF FinishStore
  <2>2. ASSUME NEW b \in Blobs, Store(b) \/ StoreIndexFails(b)
        PROVE  files' = Put(files, cache.next, Header(b, TRUE))
    BY <2>1, <2>2 DEF Store, StoreIndexFails
  <2>3. ASSUME NEW b \in Blobs, CrashTorn(b) \/ CrashBeforeIndex(b)
        PROVE  \/ files' = Drop(files, {cache.next})
               \/ \E whole : files' = Put(files, cache.next, Header(b, whole))
    BY <2>3 DEF CrashTorn, CrashBeforeIndex
  <2>4. ASSUME NEW i, Load(i) PROVE files' = files
    BY <2>4 DEF Load, LoadRejected, LoadHot, LoadWarm, LoadCold, LoadMissing, diskVars
  <2>5. ASSUME TurnComplete PROVE \E D : files' = Drop(files, D)
    BY <2>5 DEF TurnComplete
  <2>6. ASSUME StoreFails PROVE files' = files \/ files' = Drop(files, {cache.next})
    BY <2>6 DEF StoreFails
  <2>7. ASSUME EmptyTurn \/ Stop \/ \E m \in Models : Restart(m) PROVE files' = files
    BY <2>7 DEF EmptyTurn, Stop, Restart, RestartAt, diskVars
  <2> QED BY <1>6, <2>2, <2>3, <2>4, <2>5, <2>6, <2>7 DEF Next
<1>7. CASE UNCHANGED vars
  BY <1>5, <1>7 DEF vars, diskVars
<1> QED BY <1>3, <1>4, <1>5, <1>6, <1>7

LEMMA ClocksTicks ==
    ASSUME ByteInv, [Next]_vars
    PROVE  turn' \in Nat /\ clock' \in Nat
<1>1. turn \in Nat /\ clock \in Nat /\ \A t \in Tick : t \in Nat
  BY TickType DEF ByteInv
<1>2. CASE UNCHANGED vars
  BY <1>1, <1>2 DEF vars
<1>3. ASSUME NEW b \in Blobs, Store(b) \/ StoreIndexFails(b) \/ CrashTorn(b) \/ CrashBeforeIndex(b)
      PROVE  turn' \in Nat /\ clock' \in Nat
  BY <1>1, <1>3 DEF Store, StoreIndexFails, FinishStore, CrashTorn, CrashBeforeIndex
<1>4. ASSUME NEW i, Load(i) PROVE turn' \in Nat /\ clock' \in Nat
  BY <1>1, <1>4 DEF Load, LoadRejected, LoadHot, LoadWarm, LoadCold, LoadMissing
<1>5. CASE StoreFails \/ TurnComplete \/ EmptyTurn \/ Stop
  BY <1>1, <1>5 DEF StoreFails, TurnComplete, EmptyTurn, Stop
<1>6. ASSUME NEW m \in Models, Restart(m) PROVE turn' \in Nat /\ clock' \in Nat
  BY <1>1, <1>6, RestartCounts DEF Restart, RestartAt
<1> QED BY <1>2, <1>3, <1>4, <1>5, <1>6 DEF Next

\* What a load of i answers: the file of i, or nothing.
answered(i) == IF i \in Whole /\ files[i].compat = cache.compat THEN files[i].blob ELSE Miss

LEMMA LoadAnswers ==
    ASSUME Inv, NEW i \in DOMAIN cache.index, Load(i)
    PROVE  /\ up /\ i \in 1 .. MaxId /\ cache.compat \in Models /\ files' = files
           /\ out' = [id |-> i, compat |-> cache.compat, blob |-> answered(i)]
<1>1. up /\ i \in 1 .. MaxId /\ cache.compat \in Models /\ files' = files
  <2>1. up /\ files' = files
    BY DEF Load, LoadRejected, LoadHot, LoadWarm, LoadCold, LoadMissing, diskVars
  <2> QED BY <2>1 DEF Inv, CacheInv
<1>2. i # cache.next => /\ i \in DOMAIN files
                        /\ cache.index[i].compat = files[i].compat
  BY DEF Inv, CacheInv, Describes
<1>3. i = cache.next => i \notin Whole
  BY <1>1, NextIsFree DEF Whole
<1>4. i \in DOMAIN cache.hot  => i \in Whole /\ cache.hot[i] = files[i].blob
  BY DEF Inv, CacheInv, Copies, Whole
<1>5. i \in DOMAIN cache.warm => i \in Whole /\ cache.warm[i] = files[i].blob
  BY DEF Inv, CacheInv, Copies, Whole
<1>6. out' = [id |-> i, compat |-> cache.compat, blob |-> answered(i)]
  <2>1. CASE LoadRejected(i)
    BY <2>1, <1>2, <1>3 DEF LoadRejected, Answer, answered
  <2>2. CASE LoadHot(i)
    BY <2>2, <1>2, <1>3, <1>4 DEF LoadHot, Compatible, Answer, answered
  <2>3. CASE LoadWarm(i)
    BY <2>3, <1>2, <1>3, <1>5 DEF LoadWarm, Compatible, Answer, answered
  <2>4. CASE LoadCold(i)
    <3>1. \/ ~files[i].whole /\ Answer(i, Miss)
          \/ files[i].whole /\ Answer(i, files[i].blob)
      BY <2>4 DEF LoadCold
    <3>2. Compatible(i) /\ i \in DOMAIN files
      BY <2>4 DEF LoadCold
    <3> QED BY <3>1, <3>2, <1>2, <1>3 DEF Compatible, Answer, Whole, answered
  <2>5. CASE LoadMissing(i)
    BY <2>5 DEF LoadMissing, Answer, Whole, answered
  <2> QED BY <2>1, <2>2, <2>3, <2>4, <2>5 DEF Load
<1> QED BY <1>1, <1>6

LEMMA AnswerTypes ==
    ASSUME ByteInv, [Next]_vars
    PROVE  out' \in [id : Nat, compat : Models \cup {Miss}, blob : Blobs \cup {Miss}]
<1>1. CASE out' = out
  BY <1>1 DEF ByteInv
<1>2. ASSUME NEW i \in DOMAIN cache.index, Load(i)
      PROVE  out' \in [id : Nat, compat : Models \cup {Miss}, blob : Blobs \cup {Miss}]
  <2>1. /\ i \in 1 .. MaxId /\ cache.compat \in Models
        /\ out' = [id |-> i, compat |-> cache.compat, blob |-> answered(i)]
    BY <1>2, LoadAnswers DEF ByteInv
  <2>2. answered(i) \in Blobs \cup {Miss}
    BY DEF answered, Whole, ByteInv, Inv, DiskInv
  <2>3. i \in Nat
    BY <2>1, ConstantsAssumption
  <2> QED BY <2>1, <2>2, <2>3
<1>3. CASE UNCHANGED vars
  BY <1>1, <1>3 DEF vars
<1>4. ASSUME NEW b \in Blobs, Store(b) \/ StoreIndexFails(b) \/ CrashTorn(b) \/ CrashBeforeIndex(b)
      PROVE  out' = out
  BY <1>4 DEF Store, StoreIndexFails, FinishStore, CrashTorn, CrashBeforeIndex
<1>5. CASE StoreFails \/ TurnComplete \/ EmptyTurn \/ Stop \/ \E m \in Models : Restart(m)
  <2>1. out' = out
    BY <1>5 DEF StoreFails, TurnComplete, EmptyTurn, Stop, Restart, RestartAt
  <2> QED BY <1>1, <2>1
<1> QED BY <1>1, <1>2, <1>3, <1>4, <1>5 DEF Next

\* A server that runs resumes from the disk; one that does not has no cache.
LEMMA NextIdTypes ==
    ASSUME ByteInv, Inv', [Next]_vars
    PROVE  cache'.next \in Nat /\ cache'.compat \in Models \cup {Miss}
<1>1. CASE up' = TRUE
  <2>1. cache'.next = Resume' /\ cache'.compat \in Models /\ diskNext' \in Nat
    BY <1>1 DEF Inv, DiskInv
  <2> QED BY <2>1 DEF Resume
<1>2. CASE cache' = cache
  BY <1>2 DEF ByteInv
<1>3. CASE Down
  BY <1>3, DownCounts
<1>4. CASE up' # TRUE
  <2>1. ASSUME NEW b \in Blobs, Store(b) \/ StoreIndexFails(b) PROVE up' = TRUE
    BY <2>1 DEF Store, StoreIndexFails, FinishStore
  <2>2. ASSUME NEW b \in Blobs, CrashTorn(b) \/ CrashBeforeIndex(b) PROVE Down
    BY <2>2 DEF CrashTorn, CrashBeforeIndex
  <2>3. ASSUME NEW i, Load(i) PROVE up' = TRUE
    BY <2>3 DEF Load, LoadRejected, LoadHot, LoadWarm, LoadCold, LoadMissing
  <2>4. ASSUME StoreFails \/ TurnComplete \/ EmptyTurn PROVE up' = TRUE
    BY <2>4 DEF StoreFails, TurnComplete, EmptyTurn
  <2>5. ASSUME NEW m \in Models, Restart(m) PROVE up' = TRUE
    BY <2>5 DEF Restart, RestartAt
  <2>6. ASSUME Stop PROVE Down
    BY <2>6 DEF Stop
  <2>7. ASSUME UNCHANGED vars PROVE cache' = cache
    BY <2>7 DEF vars
  <2> QED BY <1>2, <1>3, <1>4, <2>1, <2>2, <2>3, <2>4, <2>5, <2>6, <2>7 DEF Next
<1> QED BY <1>1, <1>4

\* While index.bin keeps up with the checkpoint files, the counters and the
\* records of every reachable state are in order (kv-ssd-cache.cpp:335-507,
\* 606-727, 912-963): the invariant of KvSsdProofs, with sizes and types.
THEOREM ByteInvariant ==
    ASSUME NoIndexFault
    PROVE  Spec => []ByteInv
<1>1. Init => ByteInv
  <2> SUFFICES ASSUME Init PROVE ByteInv
    OBVIOUS
  <2>1. /\ cache = EmptyCache(0, Miss, NoCheckpoints) /\ files = NoCheckpoints
        /\ turn = 1 /\ clock = 1 /\ out = [id |-> 0, compat |-> Miss, blob |-> Miss]
    BY DEF Init
  <2>2. DOMAIN NoCheckpoints = {}
    BY DEF NoCheckpoints
  <2>3. Sound(cache) /\ cache.next = 0 /\ cache.compat = Miss
    BY <2>1, <2>2, EmptyCacheCounts DEF Sound, Recorded
  <2> QED BY <2>1, <2>2, <2>3, InitInv DEF ByteInv
<1>2. ByteInv /\ [Next]_vars => ByteInv'
  <2> SUFFICES ASSUME ByteInv, [Next]_vars PROVE ByteInv'
    OBVIOUS
  <2>1. Inv'
    BY NextKeeps DEF ByteInv
  <2>2. Sound(cache)'
    <3>1. Sound(cache')
      BY CacheCounts
    <3> QED BY <3>1 DEF Sound, Counted, Recorded, Bounded, Bytes, MapThenSumSet, MapThenFoldSet
  <2> QED BY <2>1, <2>2, HeaderTurns, ClocksTicks, AnswerTypes, NextIdTypes DEF ByteInv
<1> QED BY <1>1, <1>2, PTL DEF Spec

-----------------------------------------------------------------------------
(* The properties.                                                         *)

\* hot_bytes and warm_bytes are the sizes of what is in hot_cache and
\* warm_cache, along any sequence of stores, loads, promotions, demotions,
\* failures and restarts (kv-ssd-cache.cpp:335-507, 606-727, 912-963).
THEOREM CountersAreExact ==
    ASSUME NoIndexFault
    PROVE  Spec => []BytesExact
<1>1. ByteInv => BytesExact
  BY DEF ByteInv, Sound, Counted, BytesExact
<1> QED BY <1>1, ByteInvariant, PTL

\* make_room_hot is called before a checkpoint enters the hot tier, so that
\* hot_ram_bytes is exceeded by that checkpoint at most, whatever the sizes
\* and however many checkpoints one demotion has to move.
THEOREM HotTierIsBounded ==
    ASSUME NoIndexFault
    PROVE  Spec => []HotBounded
<1>1. ByteInv => HotBounded
  BY DEF ByteInv, Sound, Bounded, HotBounded
<1> QED BY <1>1, ByteInvariant, PTL

\* Every variable has its type; the byte counters, which the code keeps in
\* size_t, are never taken below zero (kv-ssd-cache.cpp:358, 389, 433, 930, 949).
THEOREM TypeCorrect ==
    ASSUME NoIndexFault
    PROVE  Spec => []TypeOK
<1>1. ByteInv => TypeOK
  <2> SUFFICES ASSUME ByteInv PROVE TypeOK
    OBVIOUS
  <2>1. up \in BOOLEAN /\ diskNext \in Nat /\ IsCache(cache)
    BY DEF ByteInv, Inv, DiskInv, CacheInv, Shape
  <2>2. DOMAIN cache = {"index", "hot", "warm", "hotBytes", "warmBytes", "next", "compat"}
    BY <2>1 DEF IsCache
  <2>3. Copies(cache, files) /\ Filed(files) /\ 1 .. MaxId \subseteq Ids
    BY FilesAreFiled, ConstantsAssumption DEF ByteInv, Inv, CacheInv, Ids
  <2>4. IsPartial(cache.index, IndexRecords)
    <3>1. DOMAIN cache.index \subseteq Ids
      BY <2>3 DEF ByteInv, Inv, CacheInv
    <3>2. \A i \in DOMAIN cache.index : cache.index[i] \in IndexRecords
      BY DEF ByteInv, Sound, Recorded, Inv, CacheInv, Shape, IsRecord, IndexRecords
    <3>3. IsFcn(cache.index)
      BY DEF ByteInv, Inv, CacheInv, Shape
    <3> QED BY <3>1, <3>2, <3>3 DEF IsPartial, IsFcn
  <2>5. IsPartial(cache.hot, Blobs) /\ IsPartial(cache.warm, Blobs)
    <3>1. IsFcn(cache.hot) /\ IsFcn(cache.warm)
      BY DEF ByteInv, Inv, CacheInv, Shape
    <3> QED BY <2>3, <3>1 DEF IsPartial, IsFcn, Copies, Filed
  <2>6. cache.hotBytes \in Nat /\ cache.warmBytes \in Nat
    BY <2>3, CountersAreNumbers DEF ByteInv, Sound
  <2>7. IsPartial(files, FileRecords)
    <3>1. \A i \in DOMAIN files : files[i] \in FileRecords
      BY DEF ByteInv, Inv, DiskInv, IsHeader, FileRecords
    <3> QED BY <2>3, <3>1 DEF ByteInv, Inv, DiskInv, IsFcn, IsPartial, Filed
  <2> QED BY <2>1, <2>2, <2>4, <2>5, <2>6, <2>7 DEF ByteInv, TypeOK
<1> QED BY <1>1, ByteInvariant, PTL

=============================================================================
