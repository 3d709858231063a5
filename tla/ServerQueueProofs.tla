-------------------------- MODULE ServerQueueProofs --------------------------
(***************************************************************************)
(* Theorems of ServerQueue for every number of clients, tasks and slots.   *)
(***************************************************************************)
EXTENDS ServerQueue, TLAPS, NaturalsInduction, SequenceTheorems,
        FiniteSetTheorems, FunctionTheorems, WellFoundedInduction

\* Every nonempty set of naturals has a least element.
LEMMA LeastNat ==
  ASSUME NEW T \in SUBSET Nat, T # {}
  PROVE  \E x \in T : \A y \in T : ~ (y < x)
<1>1. PICK x \in T : \A y \in T : ~ (<<y, x>> \in OpToRel(<, Nat))
  BY WFMin, NatLessThanWellFounded
<1>2. \A y \in T : y < x => <<y, x>> \in OpToRel(<, Nat)
  BY DEF OpToRel
<1> QED BY <1>1, <1>2

\* The body of the function that Without defines.
KeepStep(q, D, f, i) ==
  IF i = 0 THEN << >>
  ELSE IF q[i] \in D THEN f[i-1] ELSE Append(f[i-1], q[i])

\* The sequence that Without builds exists: its recursion is well founded.
LEMMA KeptExists ==
  ASSUME NEW S, NEW q \in Seq(S), NEW D
  PROVE  \E f : f = [i \in 0 .. Len(q) |-> KeepStep(q, D, f, i)]
<1> DEFINE Step(f, i) == KeepStep(q, D, f, i)
           Good(n) == \E f : f = [i \in 0 .. n |-> Step(f, i)]
           Bad == {n \in Nat : ~ Good(n)}
<1>1. SUFFICES ASSUME Bad # {} PROVE FALSE
  <2>1. Len(q) \in Nat
    BY LenProperties
  <2> QED BY <2>1
<1>2. PICK n \in Bad : \A m \in Bad : ~ (m < n)
  <2> HIDE DEF Good
  <2> QED BY <1>1, LeastNat
<1>3. n # 0
  <2> DEFINE g == [i \in 0 .. 0 |-> << >>]
  <2>1. g = [i \in 0 .. 0 |-> Step(g, i)]
    BY DEF KeepStep
  <2>2. Good(0)
    <3> HIDE DEF g, Step
    <3> QED BY <2>1
  <2> HIDE DEF Good
  <2> QED BY <2>2
<1>4. n \in Nat /\ n - 1 \in Nat /\ n - 1 < n
  BY <1>2, <1>3
<1>5. Good(n-1)
  <2> HIDE DEF Good
  <2> QED BY <1>2, <1>4
<1>6. PICK f : f = [i \in 0 .. n-1 |-> Step(f, i)]
  <2> HIDE DEF Step
  <2> QED BY <1>5
<1> DEFINE g == [i \in 0 .. n |-> Step(f, i)]
<1>7. \A i \in 0 .. n-1 : g[i] = f[i]
  <2>1. \A i \in 0 .. n-1 : i \in 0 .. n
    BY <1>4
  <2> HIDE DEF Step
  <2> QED BY <1>6, <2>1
<1>8. \A i \in 0 .. n : Step(g, i) = Step(f, i)
  <2> SUFFICES ASSUME NEW i \in 0 .. n, i # 0 PROVE g[i-1] = f[i-1]
    <3> HIDE DEF g
    <3> QED BY DEF KeepStep
  <2>1. i - 1 \in 0 .. n-1
    BY <1>4
  <2> HIDE DEF g
  <2> QED BY <2>1, <1>7
<1>9. g = [i \in 0 .. n |-> Step(g, i)]
  <2> HIDE DEF Step
  <2> QED BY <1>8
<1>10. Good(n)
  <2> HIDE DEF g, Step
  <2> QED BY <1>9
<1> HIDE DEF Good
<1> QED BY <1>10, <1>2

\* Without(q, D) is a sequence over the same set; it has the elements of q that
\* are not in D and no others.
LEMMA WithoutProperties ==
  ASSUME NEW S, NEW q \in Seq(S), NEW D
  PROVE  /\ Without(q, D) \in Seq(S)
         /\ \A i \in DOMAIN Without(q, D) : \E j \in DOMAIN q : Without(q, D)[i] = q[j] /\ q[j] \notin D
         /\ \A j \in DOMAIN q : q[j] \notin D => \E i \in DOMAIN Without(q, D) : Without(q, D)[i] = q[j]
<1> DEFINE Step(f, i) == KeepStep(q, D, f, i)
           kept == CHOOSE f : f = [i \in 0 .. Len(q) |-> Step(f, i)]
<1>1. kept = [i \in 0 .. Len(q) |-> Step(kept, i)]
  <2>1. \E f : f = [i \in 0 .. Len(q) |-> Step(f, i)]
    BY KeptExists
  <2> HIDE DEF Step
  <2> QED BY <2>1
<1>2. Without(q, D) = kept[Len(q)]
  BY DEF Without, KeepStep
<1> HIDE DEF kept
<1> DEFINE From(s, n) == /\ s \in Seq(S)
                         /\ \A i \in DOMAIN s : \E j \in 1 .. n : s[i] = q[j] /\ q[j] \notin D
                         /\ \A j \in 1 .. n : q[j] \notin D => \E i \in DOMAIN s : s[i] = q[j]
           Bad == {n \in 0 .. Len(q) : ~ From(kept[n], n)}
<1>3. Len(q) \in Nat /\ DOMAIN q = 1 .. Len(q)
  BY LenProperties
<1>4. SUFFICES ASSUME Bad # {} PROVE FALSE
  <2>1. From(kept[Len(q)], Len(q))
    <3> HIDE DEF From
    <3> QED BY <1>4, <1>3
  <2>2. From(Without(q, D), Len(q))
    <3> HIDE DEF From
    <3> QED BY <2>1, <1>2
  <2> QED BY <2>2, <1>3
<1>5. PICK n \in Bad : \A m \in Bad : ~ (m < n)
  <2> HIDE DEF From
  <2>1. Bad \in SUBSET Nat
    BY <1>3
  <2> QED BY <2>1, <1>4, LeastNat
<1>6. n # 0
  <2>1. kept[0] = << >>
    BY <1>1, <1>3 DEF KeepStep
  <2>2. From(kept[0], 0)
    BY <2>1
  <2> HIDE DEF From
  <2> QED BY <2>2, <1>5
<1>7. n \in 1 .. Len(q) /\ n - 1 \in 0 .. Len(q) /\ n - 1 < n
  BY <1>5, <1>6, <1>3
<1> DEFINE s == kept[n-1]
<1>8. From(s, n-1)
  <2> HIDE DEF From
  <2> QED BY <1>7, <1>5
<1>9. kept[n] = IF q[n] \in D THEN s ELSE Append(s, q[n])
  <2>1. kept[n] = Step(kept, n)
    <3>1. n \in 0 .. Len(q)
      BY <1>5
    <3> HIDE DEF Step
    <3> QED BY <1>1, <3>1
  <2> QED BY <2>1, <1>7 DEF KeepStep
<1> HIDE DEF s
<1>10. q[n] \in S /\ n \in Nat /\ 1 .. n = (1 .. n-1) \cup {n}
  BY <1>7, <1>3
<1>11. CASE q[n] \in D
  <2>1. From(s, n)
    BY <1>8, <1>10, <1>11
  <2> HIDE DEF From
  <2> QED BY <2>1, <1>9, <1>11, <1>5
<1>12. CASE q[n] \notin D
  <2> DEFINE a == Append(s, q[n])
  <2>1. /\ a \in Seq(S) /\ Len(a) = Len(s) + 1 /\ Len(s) \in Nat
        /\ DOMAIN a = 1 .. Len(a) /\ DOMAIN s = 1 .. Len(s)
        /\ \A i \in 1 .. Len(s) : a[i] = s[i]
        /\ a[Len(a)] = q[n]
    BY <1>8, <1>10, AppendProperties, LenProperties
  <2> HIDE DEF a
  <2>2. \A i \in DOMAIN a : \E j \in 1 .. n : a[i] = q[j] /\ q[j] \notin D
    <3> TAKE i \in DOMAIN a
    <3>1. CASE i = Len(a)
      BY <3>1, <2>1, <1>10, <1>12
    <3>2. CASE i # Len(a)
      <4>1. i \in 1 .. Len(s)
        BY <3>2, <2>1
      <4> QED BY <4>1, <2>1, <1>8, <1>10
    <3> QED BY <3>1, <3>2
  <2>3. \A j \in 1 .. n : q[j] \notin D => \E i \in DOMAIN a : a[i] = q[j]
    <3> SUFFICES ASSUME NEW j \in 1 .. n, q[j] \notin D
                 PROVE  \E i \in DOMAIN a : a[i] = q[j]
      OBVIOUS
    <3>1. CASE j = n
      BY <3>1, <2>1
    <3>2. CASE j # n
      <4>1. PICK i \in DOMAIN s : s[i] = q[j]
        BY <3>2, <1>8, <1>10
      <4>2. i \in DOMAIN a /\ a[i] = s[i]
        BY <4>1, <2>1
      <4> QED BY <4>1, <4>2
    <3> QED BY <3>1, <3>2
  <2>4. From(a, n)
    BY <2>1, <2>2, <2>3
  <2>5. a = kept[n]
    BY <1>9, <1>12 DEF a
  <2> HIDE DEF From
  <2> QED BY <2>4, <2>5, <1>5
<1> QED BY <1>11, <1>12

-----------------------------------------------------------------------------
(* Types                                                                   *)

LEMMA IdsType ==
  ASSUME NEW r \in Readers
  PROVE  Ids(r) \subseteq Tasks
<1> USE ConstantsAssumption
<1>1. \A t \in Tasks : Info[t].kids \in Seq(Tasks)
  BY DEF TaskInfo
<1>2. \A s \in Seq(Tasks) : Elems(s) \subseteq Tasks
  BY LenProperties DEF Elems
<1>3. \A t \in Tasks : Kids(t) \subseteq Tasks
  BY <1>1, <1>2 DEF Kids
<1>4. Elems(TasksOf[r]) \subseteq Tasks
  BY <1>2
<1> QED BY <1>3, <1>4 DEF Ids

LEMMA ElemsFinite ==
  ASSUME NEW S, NEW s \in Seq(S)
  PROVE  IsFiniteSet(Elems(s))
<1>1. Elems(s) = {s[i] : i \in 1 .. Len(s)} /\ Len(s) \in Nat
  BY LenProperties DEF Elems
<1>2. IsFiniteSet(1 .. Len(s))
  BY <1>1, FS_Interval
<1> DEFINE f == [i \in 1 .. Len(s) |-> s[i]]
<1>3. f \in Surjection(1 .. Len(s), Elems(s))
  BY <1>1 DEF Surjection
<1> HIDE DEF f
<1> QED BY <1>2, <1>3, FS_Surjection

\* A request has finitely many tasks.
LEMMA IdsFinite ==
  ASSUME NEW r \in Readers
  PROVE  IsFiniteSet(Ids(r))
<1> DEFINE P == Elems(TasksOf[r])
           K == {Kids(t) : t \in P}
<1>1. IsFiniteSet(P) /\ P \subseteq Tasks
  <2>1. TasksOf[r] \in Seq(Tasks)
    BY ConstantsAssumption
  <2>2. P \subseteq Tasks
    BY <2>1, LenProperties DEF Elems
  <2> QED BY <2>1, <2>2, ElemsFinite
<1>2. \A t \in P : IsFiniteSet(Kids(t))
  <2>1. \A t \in P : Info[t].kids \in Seq(Tasks)
    BY <1>1, ConstantsAssumption DEF TaskInfo
  <2> QED BY <2>1, ElemsFinite DEF Kids
<1>3. IsFiniteSet(K)
  <2> DEFINE f == [t \in P |-> Kids(t)]
  <2>1. f \in Surjection(P, K)
    <3> HIDE DEF P
    <3> QED BY DEF Surjection
  <2> HIDE DEF f, K
  <2> QED BY <2>1, <1>1, FS_Surjection
<1>4. IsFiniteSet(UNION K)
  <2>1. \A k \in K : IsFiniteSet(k)
    BY <1>2
  <2> HIDE DEF K
  <2> QED BY <2>1, <1>3, FS_UNION
<1> QED BY <1>1, <1>4, FS_Union DEF Ids

LEMMA NotifyOneType ==
  ASSUME TypeOK, cvWait' \in NotifyOne
  PROVE  cvWait' \subseteq cvWait
BY DEF NotifyOne

\* Removing one element keeps a sequence over the same set.
LEMMA RemoveAtType ==
  ASSUME NEW S, NEW s \in Seq(S), NEW i \in DOMAIN s
  PROVE  SubSeq(s, 1, i-1) \o SubSeq(s, i+1, Len(s)) \in Seq(S)
<1>1. Len(s) \in Nat /\ DOMAIN s = 1 .. Len(s)
  BY LenProperties
<1>2. SubSeq(s, 1, i-1) \in Seq(S) /\ SubSeq(s, i+1, Len(s)) \in Seq(S)
  BY <1>1
<1> QED BY <1>2, ConcatProperties

LEMMA ElemsConcat ==
  ASSUME NEW S, NEW s \in Seq(S), NEW u \in Seq(S)
  PROVE  Elems(s \o u) = Elems(s) \cup Elems(u)
<1>1. /\ Len(s \o u) = Len(s) + Len(u) /\ Len(s) \in Nat /\ Len(u) \in Nat
      /\ DOMAIN s = 1 .. Len(s) /\ DOMAIN u = 1 .. Len(u) /\ DOMAIN (s \o u) = 1 .. Len(s \o u)
      /\ \A i \in 1 .. Len(s) + Len(u) : (s \o u)[i] = IF i <= Len(s) THEN s[i] ELSE u[i - Len(s)]
  BY ConcatProperties, LenProperties
<1> DEFINE c == s \o u
<1> HIDE DEF c
<1>2. \A x \in Elems(c) : x \in Elems(s) \cup Elems(u)
  <2> SUFFICES ASSUME NEW i \in DOMAIN c PROVE c[i] \in Elems(s) \cup Elems(u)
    BY DEF Elems
  <2>1. CASE i <= Len(s)
    BY <1>1, <2>1 DEF Elems, c
  <2>2. CASE ~ (i <= Len(s))
    <3>1. i - Len(s) \in DOMAIN u /\ c[i] = u[i - Len(s)]
      BY <1>1, <2>2 DEF c
    <3> QED BY <3>1 DEF Elems
  <2> QED BY <2>1, <2>2
<1>3. \A i \in DOMAIN s : i \in DOMAIN c /\ c[i] = s[i]
  BY <1>1 DEF c
<1>4. \A i \in DOMAIN u : i + Len(s) \in DOMAIN c /\ c[i + Len(s)] = u[i]
  BY <1>1 DEF c
<1>5. Elems(s) \subseteq Elems(c) /\ Elems(u) \subseteq Elems(c)
  BY <1>3, <1>4 DEF Elems
<1> QED BY <1>2, <1>5 DEF c

\* PopDeferredTask keeps the types, and puts a task in the queue at most.
LEMMA PopDeferredType ==
  ASSUME TypeOK, NEW s, PopDeferredTask(s)
  PROVE  /\ queue' \in Seq(Items) /\ deferred' \in Seq(Tasks)
         /\ cvWait' \subseteq cvWait
         /\ Elems(queue) \subseteq Elems(queue')
<1> DEFINE i == PopIndex(s)
<1>1. cvWait' \subseteq cvWait
  BY NotifyOneType DEF PopDeferredTask
<1>2. CASE deferred = << >>
  BY <1>1, <1>2 DEF PopDeferredTask, TypeOK, queueVars
<1>3. CASE deferred # << >>
  <2>1. i \in DOMAIN deferred
    <3> DEFINE wants == {k \in DOMAIN deferred : IdSlot(deferred[k]) = s}
    <3>1. Len(deferred) \in Nat /\ DOMAIN deferred = 1 .. Len(deferred) /\ Len(deferred) # 0
      BY <1>3, LenProperties, EmptySeq DEF TypeOK
    <3>2. CASE wants = {}
      BY <3>1, <3>2 DEF PopIndex
    <3>3. CASE wants # {}
      <4>1. wants \in SUBSET Nat
        BY <3>1
      <4>2. PICK k \in wants : \A j \in wants : ~ (j < k)
        <5> HIDE DEF wants
        <5> QED BY <4>1, <3>3, LeastNat
      <4>3. \A j \in wants : k <= j
        BY <4>1, <4>2
      <4>4. i = CHOOSE m \in wants : \A j \in wants : m <= j
        BY <3>3 DEF PopIndex
      <4>5. i \in wants
        <5> HIDE DEF i, wants
        <5> QED BY <4>2, <4>3, <4>4
      <4> QED BY <4>5
    <3> QED BY <3>2, <3>3
  <2>2. /\ queue' = <<TaskItem(deferred[i])>> \o queue
        /\ deferred' = SubSeq(deferred, 1, i-1) \o SubSeq(deferred, i+1, Len(deferred))
    BY <1>3 DEF PopDeferredTask
  <2> HIDE DEF i
  <2>3. deferred' \in Seq(Tasks)
    BY <2>1, <2>2, RemoveAtType DEF TypeOK
  <2>4. <<TaskItem(deferred[i])>> \in Seq(Items)
    BY <2>1 DEF TypeOK, Items, TaskItem
  <2>5. queue' \in Seq(Items) /\ Elems(queue) \subseteq Elems(queue')
    <3> DEFINE a == <<TaskItem(deferred[i])>>
    <3>1. a \in Seq(Items) /\ queue \in Seq(Items) /\ queue' = a \o queue /\ Len(a) = 1
      BY <2>4, <2>2 DEF TypeOK
    <3> HIDE DEF a
    <3> QED BY <3>1, ConcatProperties, ElemsConcat
  <2> QED BY <1>1, <2>3, <2>5
<1> QED BY <1>2, <1>3

LEMMA IdleSlotType == IdleSlot \in SlotRecords
BY DEF IdleSlot, SlotRecords

LEMMA ReleaseType ==
  ASSUME TypeOK, NEW s \in Slots, Release(s)
  PROVE  /\ queue' \in Seq(Items) /\ deferred' \in Seq(Tasks)
         /\ cvWait' \subseteq cvWait
         /\ Elems(queue) \subseteq Elems(queue')
         /\ slots' = [slots EXCEPT ![s] = IdleSlot]
         /\ slots' \in [Slots -> SlotRecords]
         /\ UNCHANGED userCount
<1>1. PopDeferredTask(s)
  BY DEF Release
<1>2. slots' = [slots EXCEPT ![s] = IdleSlot]
  BY DEF Release
<1>3. [slots EXCEPT ![s] = IdleSlot][s].user = NoUser
  BY DEF TypeOK, IdleSlot
<1>4. UNCHANGED userCount
  BY <1>3, ConstantsAssumption DEF Release
<1>5. slots' \in [Slots -> SlotRecords]
  BY <1>2, IdleSlotType DEF TypeOK
<1> QED BY <1>1, <1>2, <1>4, <1>5, PopDeferredType

LEMMA SendType ==
  ASSUME TypeOK, NEW t, NEW kind \in {"partial", "final", "error"}, Send(t, kind)
  PROVE  results' \in Seq(Results)
<1>1. CASE t \in waiting
  <2>1. [id |-> t, kind |-> kind] \in Results
    BY <1>1 DEF TypeOK, Results
  <2>2. results' = Append(results, [id |-> t, kind |-> kind])
    BY <1>1 DEF Send
  <2> QED BY <2>1, <2>2, AppendProperties DEF TypeOK
<1>2. CASE t \notin waiting
  BY <1>2 DEF Send, TypeOK
<1> QED BY <1>1, <1>2

LEMMA WithoutElems ==
  ASSUME NEW S, NEW s \in Seq(S), NEW D
  PROVE  Without(s, D) \in Seq(S) /\ Elems(Without(s, D)) = Elems(s) \ D
<1> DEFINE w == Without(s, D)
<1>1. /\ w \in Seq(S)
      /\ \A i \in DOMAIN w : \E j \in DOMAIN s : w[i] = s[j] /\ s[j] \notin D
      /\ \A j \in DOMAIN s : s[j] \notin D => \E i \in DOMAIN w : w[i] = s[j]
  BY WithoutProperties
<1> HIDE DEF w
<1>2. Elems(w) = Elems(s) \ D
  BY <1>1 DEF Elems
<1> QED BY <1>1, <1>2 DEF w

LEMMA StopCancelType ==
  ASSUME TypeOK, NEW r \in Readers, StopCancel(r)
  PROVE  /\ queue' \in Seq(Items) /\ deferred' \in Seq(Tasks)
         /\ cvWait' \subseteq cvWait
         /\ NextItem \in Elems(queue) => NextItem \in Elems(queue')
<1>1. PICK f \in [1 .. Cardinality(Ids(r)) -> Ids(r)] :
        queue' = [i \in DOMAIN f |-> CancelItem(f[i])] \o
                    Without(queue, {TaskItem(t) : t \in Ids(r)})
  BY DEF StopCancel
<1> DEFINE c == [i \in DOMAIN f |-> CancelItem(f[i])]
           w == Without(queue, {TaskItem(t) : t \in Ids(r)})
<1>2. c \in Seq(Items)
  <2>1. \A i \in DOMAIN f : CancelItem(f[i]) \in Items
    BY IdsType DEF Items, CancelItem
  <2>2. Cardinality(Ids(r)) \in Nat
    BY IdsFinite, FS_CardinalityType
  <2> QED BY <2>1, <2>2
<1>3. w \in Seq(Items) /\ Elems(w) = Elems(queue) \ {TaskItem(t) : t \in Ids(r)}
  BY WithoutElems DEF TypeOK
<1>4. NextItem \notin {TaskItem(t) : t \in Ids(r)}
  BY DEF NextItem, TaskItem
<1>5. queue' = c \o w
  BY <1>1
<1>6. deferred' \in Seq(Tasks)
  BY WithoutElems DEF TypeOK, StopCancel
<1> HIDE DEF c, w
<1>7. queue' \in Seq(Items) /\ Elems(queue') = Elems(c) \cup Elems(w)
  BY <1>2, <1>3, <1>5, ConcatProperties, ElemsConcat
<1> QED BY <1>3, <1>4, <1>6, <1>7, NotifyOneType DEF StopCancel

LEMMA LaunchedType ==
  ASSUME TypeOK, NEW t \in Tasks, NEW s \in Slots, NEW f \in ChildSlots(t, s), NEW n
  PROVE  Launched(t, s, f, n) \in [Slots -> SlotRecords]
<1>1. Info[t].kids \in Seq(Tasks) /\ Info[t].user \in Users \cup {NoUser}
  BY ConstantsAssumption DEF TaskInfo
<1>2. DOMAIN f = DOMAIN Info[t].kids
  BY DEF ChildSlots
<1>3. \A i \in DOMAIN f : Info[t].kids[i] \in Tasks
  BY <1>1, <1>2, LenProperties
<1>4. \A x \in Slots : (\E i \in DOMAIN f : i <= n /\ f[i] = x) =>
        Info[t].kids[CHOOSE i \in DOMAIN f : f[i] = x] \in Tasks
  BY <1>3
<1> QED BY <1>1, <1>4 DEF Launched, TypeOK, SlotRecords

\* A choice of slots for the children is a sequence of slots, as long as kids.
LEMMA ChildSlotsType ==
  ASSUME NEW t \in Tasks, NEW s, NEW f \in ChildSlots(t, s)
  PROVE  /\ f \in Seq(Slots) /\ Len(f) = Len(Info[t].kids) /\ Len(f) \in Nat
         /\ DOMAIN f = 1 .. Len(f)
         /\ \A i \in DOMAIN f : f[i] \in Slots \ (Processing \cup {s})
<1>1. Info[t].kids \in Seq(Tasks)
  BY ConstantsAssumption DEF TaskInfo
<1>2. DOMAIN Info[t].kids = 1 .. Len(Info[t].kids) /\ Len(Info[t].kids) \in Nat
  BY <1>1, LenProperties
<1>3. f \in [1 .. Len(Info[t].kids) -> Slots \ (Processing \cup {s})]
  BY <1>2 DEF ChildSlots
<1>4. f \in Seq(Slots) /\ Len(f) = Len(Info[t].kids)
  BY <1>2, <1>3
<1> QED BY <1>2, <1>3, <1>4

LEMMA CountUserType ==
  ASSUME TypeOK, NEW t \in Tasks, NEW s, CountUser(t, s)
  PROVE  userCount' \in [Users -> Nat]
BY DEF CountUser, TypeOK

LEMMA ProcessType ==
  ASSUME TypeOK, ProcessSingleTask
  PROVE  TypeOK'
<1> USE ConstantsAssumption
<1>1. /\ UNCHANGED <<running, sleeping, reqStop, rpc, answered>>
      /\ mpc' \in {"drain", "undo"} /\ cur' = NextItem
  BY DEF ProcessSingleTask, LaunchFails, sleepVars, readerVars
<1>2. cur' \in Items
  BY <1>1 DEF Items
<1>3. cur.type = "task" \/ cur.type = "cancel" => cur.id \in Tasks
  BY DEF TypeOK, Items, NextItem
<1> DEFINE Changed == /\ queue' \in Seq(Items) /\ deferred' \in Seq(Tasks)
                      /\ cvWait' \subseteq cvWait
                      /\ waiting' \subseteq Tasks /\ results' \in Seq(Results)
                      /\ slots' \in [Slots -> SlotRecords]
                      /\ userCount' \in [Users -> Nat]
<1>0. todo' \subseteq Slots
  <2>1. CASE UNCHANGED todo
    BY <2>1 DEF TypeOK
  <2>2. CASE LaunchFails
    <3>1. cur.id \in Tasks
      BY <2>2, <1>3 DEF LaunchFails
    <3>2. PICK s \in Slots : \E f \in ChildSlots(cur.id, s) : \E n \in 0 .. Len(f) :
             todo' = {f[i] : i \in 1 .. n}
      BY <2>2 DEF LaunchFails
    <3>4. PICK f \in ChildSlots(cur.id, s) : \E n \in 0 .. Len(f) : todo' = {f[i] : i \in 1 .. n}
      BY <3>2
    <3>3. /\ DOMAIN f = 1 .. Len(f) /\ Len(f) \in Nat
          /\ \A i \in DOMAIN f : f[i] \in Slots
      BY <3>1, ChildSlotsType
    <3> QED BY <3>4, <3>3
  <2> QED BY <2>1, <2>2 DEF ProcessSingleTask
<1>4. SUFFICES Changed
  BY <1>0, <1>1, <1>2 DEF TypeOK
<1>5. ASSUME NEW t \in Tasks, Defer(t)
      PROVE  deferred' \in Seq(Tasks) /\ cvWait' \subseteq cvWait
  BY <1>5, NotifyOneType, AppendProperties DEF Defer, TypeOK
<1>6. CASE ProcessCompletion
  <2>1. cur.id \in Tasks
    BY <1>3, <1>6 DEF ProcessCompletion
  <2>2. CASE DeferCompletion
    BY <2>1, <2>2, <1>5, CountUserType DEF DeferCompletion, TypeOK, resultVars
  <2>3. CASE LaunchCompletion
    <3>0. PICK s \in Slots : \E f \in ChildSlots(cur.id, s) :
             CountUser(cur.id, s) /\ slots' = Launched(cur.id, s, f, Len(f) + 1)
      BY <2>3 DEF LaunchCompletion
    <3>1. PICK f \in ChildSlots(cur.id, s) :
             CountUser(cur.id, s) /\ slots' = Launched(cur.id, s, f, Len(f) + 1)
      BY <3>0
    <3>2. slots' \in [Slots -> SlotRecords]
      BY <2>1, <3>1, LaunchedType
    <3>3. userCount' \in [Users -> Nat]
      BY <2>1, <3>1, CountUserType
    <3> QED BY <2>3, <3>2, <3>3 DEF LaunchCompletion, TypeOK, resultVars, queueVars
  <2>4. CASE TokenizeFails
    <3>1. results' \in Seq(Results)
      BY <2>4, SendType DEF TokenizeFails
    <3> QED BY <2>4, <3>1 DEF TokenizeFails, TypeOK, queueVars, slotVars
  <2> QED BY <1>6, <2>2, <2>3, <2>4 DEF ProcessCompletion
<1>11. CASE LaunchFails
  <2>1. cur.id \in Tasks
    BY <1>3, <1>11 DEF LaunchFails
  <2>2. PICK s \in Slots : \E f \in ChildSlots(cur.id, s) : \E n \in 0 .. Len(f) :
           /\ CountUser(cur.id, s) /\ slots' = Launched(cur.id, s, f, n)
           /\ Send(IF n = Len(f) THEN cur.id ELSE Info[cur.id].kids[n+1], "error")
    BY <1>11 DEF LaunchFails
  <2>3. PICK f \in ChildSlots(cur.id, s) : \E n \in 0 .. Len(f) :
           /\ CountUser(cur.id, s) /\ slots' = Launched(cur.id, s, f, n)
           /\ Send(IF n = Len(f) THEN cur.id ELSE Info[cur.id].kids[n+1], "error")
    BY <2>2
  <2>4. PICK n \in 0 .. Len(f) :
           /\ CountUser(cur.id, s) /\ slots' = Launched(cur.id, s, f, n)
           /\ Send(IF n = Len(f) THEN cur.id ELSE Info[cur.id].kids[n+1], "error")
    BY <2>3
  <2>5. results' \in Seq(Results)
    BY <2>4, SendType
  <2>6. slots' \in [Slots -> SlotRecords] /\ userCount' \in [Users -> Nat]
    BY <2>1, <2>4, LaunchedType, CountUserType
  <2> QED BY <1>11, <2>5, <2>6 DEF LaunchFails, TypeOK, queueVars
<1>7. CASE ProcessSlotAction
  <2>1. cur.id \in Tasks
    BY <1>3, <1>7 DEF ProcessSlotAction
  <2>2. results' \in Seq(Results)
    BY <1>7, SendType DEF ProcessSlotAction, TypeOK
  <2>3. queue' \in Seq(Items) /\ deferred' \in Seq(Tasks) /\ cvWait' \subseteq cvWait
    BY <1>7, <2>1, <1>5 DEF ProcessSlotAction, TypeOK, queueVars
  <2> QED BY <1>7, <2>2, <2>3 DEF ProcessSlotAction, TypeOK, slotVars
<1>8. CASE ProcessQuery
  <2>1. results' \in Seq(Results)
    BY <1>8, SendType DEF ProcessQuery
  <2> QED BY <1>8, <2>1 DEF ProcessQuery, TypeOK, queueVars, slotVars
<1>9. CASE ProcessCancel
  <2>1. CASE \E s \in Slots : slots[s].task = cur.id
    <3>1. PICK s \in Slots : Release(s)
      BY <1>9, <2>1 DEF ProcessCancel
    <3> QED BY <1>9, <3>1, ReleaseType DEF ProcessCancel, TypeOK, resultVars
  <2>2. CASE ~ \E s \in Slots : slots[s].task = cur.id
    BY <1>9, <2>2 DEF ProcessCancel, TypeOK, resultVars, queueVars, slotVars
  <2> QED BY <2>1, <2>2
<1>10. CASE ProcessNextResponse
  BY <1>10 DEF ProcessNextResponse, TypeOK, resultVars, queueVars, slotVars
<1> QED BY <1>6, <1>7, <1>8, <1>9, <1>10, <1>11 DEF ProcessSingleTask

\* One slot of update_slots: a result is sent and the slot may be released.
LEMMA SlotType ==
  ASSUME TypeOK, NEW s \in Slots, KeepGoing(s) \/ DecodeStep(s)
  PROVE  TypeOK'
<1>1. /\ UNCHANGED <<running, sleeping, reqStop, rpc, answered, mpc, cur, waiting>>
      /\ todo' \subseteq Slots
  BY DEF KeepGoing, DecodeStep, PromptDone, SlotFinal, EmptyPrompt, SlotError, Visit,
         sleepVars, readerVars, resultVars, TypeOK
<1>2. CASE KeepGoing(s)
  BY <1>1, <1>2 DEF KeepGoing, TypeOK, queueVars, resultVars, slotVars
<1>3. CASE PromptDone(s)
  <2>1. results' \in Seq(Results)
    BY <1>3, SendType DEF PromptDone
  <2>2. slots' \in [Slots -> SlotRecords]
    BY <1>3 DEF PromptDone, TypeOK, SlotRecords
  <2> QED BY <1>1, <1>3, <2>1, <2>2 DEF PromptDone, TypeOK, queueVars
<1>4. CASE SlotFinal(s) \/ EmptyPrompt(s) \/ SlotError(s)
  <2>1. results' \in Seq(Results)
    BY <1>4, SendType DEF SlotFinal, EmptyPrompt, SlotError
  <2>2. Release(s)
    BY <1>4 DEF SlotFinal, EmptyPrompt, SlotError
  <2> QED BY <1>1, <2>1, <2>2, ReleaseType DEF TypeOK
<1> QED BY <1>2, <1>3, <1>4 DEF DecodeStep

LEMMA MainType ==
  ASSUME TypeOK, MainStep \/ StartAbort \/ GoToSleep \/ Terminate
  PROVE  TypeOK'
<1> USE DEF TypeOK, queueVars, sleepVars, resultVars, readerVars, mainVars, slotVars
<1>1. CASE PopTask
  <2>1. queue # << >>
    BY <1>1 DEF PopTask
  <2>2. Head(queue) \in Items /\ Tail(queue) \in Seq(Items)
    BY <2>1, HeadTailProperties
  <2> QED BY <1>1, <2>2 DEF PopTask
<1>2. CASE Drained \/ ExitLoop \/ UpdateIdle \/ WakeForTask \/ StartAbort \/ UpdateDone
  BY <1>2 DEF Drained, ExitLoop, UpdateIdle, WakeForTask, StartAbort, UpdateDone
<1>3. CASE PostNextResponse
  <2>1. queue' \in Seq(Items)
    <3>1. NextItem \in Items
      BY DEF Items
    <3> QED BY <3>1, <1>3, AppendProperties DEF PostNextResponse
  <2>2. cvWait' \subseteq cvWait
    BY <1>3, NotifyOneType DEF PostNextResponse
  <2> QED BY <1>3, <2>1, <2>2 DEF PostNextResponse
<1>4. CASE GoToSleep \/ Terminate
  BY <1>4 DEF GoToSleep, Terminate
<1>5. CASE MainNotified
  BY <1>5, IdleSlotType DEF MainNotified
<1>6. CASE AbortSlot
  <2>1. PICK s \in Slots : Send(slots[s].task, "error") /\ Release(s)
    BY <1>6 DEF AbortSlot, Processing
  <2>2. results' \in Seq(Results)
    BY <2>1, SendType
  <2>3. /\ queue' \in Seq(Items) /\ deferred' \in Seq(Tasks)
        /\ cvWait' \subseteq cvWait
        /\ slots' \in [Slots -> SlotRecords]
        /\ UNCHANGED userCount
    <3> HIDE DEF TypeOK
    <3> QED BY <2>1, ReleaseType
  <2> QED BY <1>6, <2>2, <2>3 DEF AbortSlot
<1> HIDE DEF TypeOK
<1>7. CASE ProcessSingleTask
  BY <1>7, ProcessType
<1>8. CASE \E s \in Slots : KeepGoing(s) \/ DecodeStep(s)
  BY <1>8, SlotType
<1>9. CASE ReleaseLaunched
  <2>1. PICK s \in Slots : Release(s) /\ todo' \subseteq Slots
    BY <1>9 DEF ReleaseLaunched, TypeOK
  <2>2. mpc' \in {"drain", "undo"}
    BY <1>9 DEF ReleaseLaunched
  <2>3. UNCHANGED <<running, sleeping, reqStop, waiting, results, rpc, answered, cur>>
    BY <1>9 DEF ReleaseLaunched
  <2> QED BY <2>1, <2>2, <2>3, ReleaseType DEF TypeOK
<1> QED BY <1>1, <1>2, <1>3, <1>4, <1>5, <1>6, <1>7, <1>8, <1>9 DEF MainStep

LEMMA PostedType ==
  ASSUME NEW r \in Readers
  PROVE  [i \in DOMAIN TasksOf[r] |-> TaskItem(TasksOf[r][i])] \in Seq(Items)
<1>1. TasksOf[r] \in Seq(Tasks)
  BY ConstantsAssumption
<1>2. \A i \in DOMAIN TasksOf[r] : TaskItem(TasksOf[r][i]) \in Items
  BY <1>1, LenProperties DEF TaskItem, Items
<1>3. DOMAIN TasksOf[r] = 1 .. Len(TasksOf[r]) /\ Len(TasksOf[r]) \in Nat
  BY <1>1, LenProperties
<1> QED BY <1>2, <1>3

LEMMA ReaderType ==
  ASSUME TypeOK, NEW r \in Readers, ReaderStep(r) \/ BadRequest(r) \/ Disconnect(r)
  PROVE  TypeOK'
<1> USE DEF TypeOK, queueVars, sleepVars, resultVars, readerVars, mainVars, slotVars
<1>1. CASE Arrive(r)
  <2>1. cvWait' \subseteq Readers \cup {Main}
    BY <1>1 DEF Arrive, NotifyOne
  <2> QED BY <1>1, <2>1 DEF Arrive
<1>2. CASE ReaderNotified(r) \/ BadRequest(r) \/ Disconnect(r) \/ AllReceived(r) \/ StopRemove(r)
  BY <1>2 DEF ReaderNotified, BadRequest, Disconnect, AllReceived, StopRemove
<1>3. CASE AddWaiting(r)
  BY <1>3, IdsType DEF AddWaiting
<1>4. CASE PostTasks(r)
  <2> DEFINE items == [i \in DOMAIN TasksOf[r] |-> TaskItem(TasksOf[r][i])]
  <2>1. items \in Seq(Items)
    BY PostedType
  <2>2. queue' = items \o queue \/ queue' = queue \o items
    BY <1>4 DEF PostTasks
  <2> HIDE DEF items
  <2>3. queue' \in Seq(Items)
    <3>1. queue \in Seq(Items)
      OBVIOUS
    <3> HIDE DEF TypeOK
    <3> QED BY <2>1, <2>2, <3>1, ConcatProperties
  <2>4. cvWait' \subseteq cvWait
    BY <1>4, NotifyOneType DEF PostTasks
  <2> QED BY <1>4, <2>3, <2>4 DEF PostTasks
<1>5. CASE ReceiveResult(r)
  <2>1. PICK i \in DOMAIN results :
          /\ results' = SubSeq(results, 1, i-1) \o SubSeq(results, i+1, Len(results))
          /\ rpc' = IF results[i].kind = "error" THEN [rpc EXCEPT ![r] = "stopping"] ELSE rpc
          /\ answered' = IF results[i].kind = "final"
                         THEN [answered EXCEPT ![r] = @ \cup {results[i].id}] ELSE answered
    BY <1>5 DEF ReceiveResult
  <2>2. results' \in Seq(Results)
    BY <2>1, RemoveAtType
  <2>3. results[i].id \in Tasks
    <3>1. results \in Seq(Results)
      OBVIOUS
    <3> HIDE DEF TypeOK
    <3>2. results[i] \in Results
      BY <3>1, LenProperties
    <3> QED BY <3>2 DEF Results
  <2> QED BY <1>5, <2>1, <2>2, <2>3 DEF ReceiveResult
<1>6. CASE StopCancel(r)
  <2>1. /\ queue' \in Seq(Items) /\ deferred' \in Seq(Tasks)
        /\ cvWait' \subseteq cvWait
    <3> HIDE DEF TypeOK
    <3> QED BY <1>6, StopCancelType
  <2> QED BY <1>6, <2>1 DEF StopCancel
<1>7. CASE StopPurge(r)
  <2>1. results' \in Seq(Results)
    <3>1. results \in Seq(Results)
      OBVIOUS
    <3> HIDE DEF TypeOK
    <3> QED BY <1>7, <3>1, WithoutElems DEF StopPurge
  <2> QED BY <1>7, <2>1 DEF StopPurge
<1> QED BY <1>1, <1>2, <1>3, <1>4, <1>5, <1>6, <1>7 DEF ReaderStep

\* Every variable keeps its type, whatever the clients, tasks and slots: in
\* particular the queue never holds a task without an id, and a user's count
\* never goes below zero (TypeOK).
THEOREM TypeCorrect == Spec => []TypeOK
<1>1. Init => TypeOK
  <2> SUFFICES ASSUME Init PROVE TypeOK
    OBVIOUS
  <2>1. cur \in Items /\ queue \in Seq(Items) /\ deferred \in Seq(Tasks) /\ results \in Seq(Results)
    BY DEF Init, Items
  <2>2. slots \in [Slots -> SlotRecords]
    BY IdleSlotType DEF Init
  <2> QED BY <2>1, <2>2 DEF Init, TypeOK
<1>2. TypeOK /\ [Next]_vars => TypeOK'
  <2> SUFFICES ASSUME TypeOK, [Next]_vars PROVE TypeOK'
    OBVIOUS
  <2>1. CASE MainStep \/ StartAbort \/ GoToSleep \/ Terminate
    BY <2>1, MainType
  <2>2. CASE \E r \in Readers : ReaderStep(r) \/ BadRequest(r) \/ Disconnect(r)
    BY <2>2, ReaderType
  <2>3. CASE UNCHANGED vars
    BY <2>3 DEF TypeOK, vars, queueVars, sleepVars, resultVars, readerVars, mainVars, slotVars
  <2> QED BY <2>1, <2>2, <2>3 DEF Next
<1> QED BY <1>1, <1>2, PTL DEF Spec

-----------------------------------------------------------------------------
(* A server that has unloaded its model is idle                            *)

\* While it sleeps the main thread is blocked, or is on its way out.
AsleepIsBlocked ==
    sleeping => /\ Processing = {}
                /\ mpc = "asleep" \/ (~running /\ mpc \in {"drain", "exited"})

\* After update_slots a busy slot has a NEXT_RESPONSE in the queue: no step
\* before the next PopTask removes it.
LoopContinues ==
    /\ mpc \in {"decode", "abort"} => NextItem \in Elems(queue)
    /\ mpc = "idle" => Processing = {} \/ NextItem \in Elems(queue)

SleepInv == AsleepIsBlocked /\ LoopContinues

LEMMA SleepMain ==
  ASSUME TypeOK, SleepInv, MainStep \/ StartAbort \/ GoToSleep \/ Terminate
  PROVE  SleepInv'
<1> USE DEF SleepInv, AsleepIsBlocked, LoopContinues,
            queueVars, sleepVars, resultVars, readerVars, mainVars, slotVars
<1>1. CASE PopTask
  BY <1>1 DEF PopTask, Processing, IsProcessing
<1>2. CASE ProcessSingleTask \/ ReleaseLaunched
  BY <1>2 DEF ProcessSingleTask, LaunchFails, ReleaseLaunched
<1>3. CASE Drained \/ ExitLoop \/ UpdateIdle \/ WakeForTask \/ StartAbort
  BY <1>3 DEF Drained, ExitLoop, UpdateIdle, WakeForTask, StartAbort, Processing, IsProcessing
<1>4. CASE PostNextResponse
  <2>1. NextItem \in Elems(queue')
    <3>1. queue' = Append(queue, NextItem) /\ queue \in Seq(Items)
      BY <1>4 DEF PostNextResponse, TypeOK
    <3>2. Len(queue') \in DOMAIN queue' /\ queue'[Len(queue')] = NextItem
      BY <3>1, AppendProperties, LenProperties
    <3> QED BY <3>2 DEF Elems
  <2> QED BY <1>4, <2>1 DEF PostNextResponse
<1>5. CASE \E s \in Slots : KeepGoing(s) \/ DecodeStep(s)
  <2>1. PICK s \in Slots : KeepGoing(s) \/ DecodeStep(s)
    BY <1>5
  <2>2. mpc = "decode" /\ UNCHANGED <<mpc, running, sleeping>>
    BY <2>1 DEF KeepGoing, DecodeStep, PromptDone, SlotFinal, EmptyPrompt, SlotError, Visit
  <2>3. Elems(queue) \subseteq Elems(queue')
    <3>1. CASE Release(s)
      BY <3>1, ReleaseType
    <3>2. CASE ~ Release(s)
      BY <2>1, <3>2 DEF KeepGoing, DecodeStep, PromptDone, SlotFinal, EmptyPrompt, SlotError
    <3> QED BY <3>1, <3>2
  <2> QED BY <2>2, <2>3
<1>6. CASE AbortSlot
  <2>1. PICK s \in Slots : Release(s)
    BY <1>6 DEF AbortSlot, Processing
  <2>2. Elems(queue) \subseteq Elems(queue')
    BY <2>1, ReleaseType
  <2> QED BY <1>6, <2>2 DEF AbortSlot
<1>7. CASE UpdateDone
  BY <1>7 DEF UpdateDone
<1>8. CASE GoToSleep
  <2>1. Processing = {}
    <3>1. Elems(queue) = {}
      BY <1>8 DEF GoToSleep, Elems
    <3> QED BY <1>8, <3>1 DEF GoToSleep
  <2> QED BY <1>8, <2>1 DEF GoToSleep, Processing, IsProcessing
<1>9. CASE MainNotified
  BY <1>9 DEF MainNotified, Processing, IsProcessing
<1>10. CASE Terminate
  BY <1>10 DEF Terminate, Processing, IsProcessing
<1> QED BY <1>1, <1>2, <1>3, <1>4, <1>5, <1>6, <1>7, <1>8, <1>9, <1>10 DEF MainStep

LEMMA SleepReader ==
  ASSUME TypeOK, SleepInv, NEW r \in Readers, ReaderStep(r) \/ BadRequest(r) \/ Disconnect(r)
  PROVE  SleepInv'
<1> USE DEF queueVars, sleepVars, resultVars, readerVars, mainVars, slotVars
<1>1. /\ UNCHANGED <<running, sleeping, mpc, slots>>
      /\ NextItem \in Elems(queue) => NextItem \in Elems(queue')
  <2>1. CASE PostTasks(r)
    <3> DEFINE items == [i \in DOMAIN TasksOf[r] |-> TaskItem(TasksOf[r][i])]
    <3>1. queue' = items \o queue \/ queue' = queue \o items
      BY <2>1 DEF PostTasks
    <3>2. items \in Seq(Items)
      BY PostedType
    <3> HIDE DEF items
    <3>3. Elems(queue) \subseteq Elems(queue')
      <4>1. queue \in Seq(Items)
        BY DEF TypeOK
      <4>2. CASE queue' = items \o queue
        BY <4>1, <4>2, <3>2, ElemsConcat
      <4>3. CASE queue' = queue \o items
        BY <4>1, <4>3, <3>2, ElemsConcat
      <4> QED BY <3>1, <4>2, <4>3
    <3> QED BY <2>1, <3>3 DEF PostTasks
  <2>2. CASE StopCancel(r)
    BY <2>2, StopCancelType DEF StopCancel
  <2>3. CASE ~ PostTasks(r) /\ ~ StopCancel(r)
    BY <2>3 DEF ReaderStep, Arrive, ReaderNotified, BadRequest, AddWaiting, ReceiveResult,
                Disconnect, AllReceived, StopRemove, StopPurge
  <2> QED BY <2>1, <2>2, <2>3
<1>2. Processing' = Processing
  BY <1>1 DEF Processing, IsProcessing
<1> QED BY <1>1, <1>2 DEF SleepInv, AsleepIsBlocked, LoopContinues

LEMMA SleepInvariant == Spec => []SleepInv
<1>1. Init => SleepInv
  BY DEF Init, SleepInv, AsleepIsBlocked, LoopContinues
<1>2. TypeOK /\ SleepInv /\ [Next]_vars => SleepInv'
  <2> SUFFICES ASSUME TypeOK, SleepInv, [Next]_vars PROVE SleepInv'
    OBVIOUS
  <2>1. CASE MainStep \/ StartAbort \/ GoToSleep \/ Terminate
    BY <2>1, SleepMain
  <2>2. CASE \E r \in Readers : ReaderStep(r) \/ BadRequest(r) \/ Disconnect(r)
    BY <2>2, SleepReader
  <2>3. CASE UNCHANGED vars
    BY <2>3 DEF SleepInv, AsleepIsBlocked, LoopContinues, Processing, IsProcessing,
                vars, queueVars, sleepVars, mainVars, slotVars
  <2> QED BY <2>1, <2>2, <2>3 DEF Next
<1> QED BY <1>1, <1>2, TypeCorrect, PTL DEF Spec

\* The model is unloaded only while no slot is processing (AsleepMeansIdle):
\* update_slots posts a NEXT_RESPONSE whenever a slot is busy, and no client's
\* post or cancel, and no release, takes it out of the queue before start_loop
\* does; so start_loop cannot find the queue empty and go to sleep.
THEOREM AsleepIsIdle == Spec => []AsleepMeansIdle
<1>1. SleepInv => AsleepMeansIdle
  BY DEF SleepInv, AsleepIsBlocked, AsleepMeansIdle
<1> QED BY <1>1, SleepInvariant, PTL

-----------------------------------------------------------------------------
(* The cap on a user's slots                                               *)

SlotsOf(u) == {s \in Slots : slots[s].user = u}

\* A user holds at most as many slots as user_counts_ says, and user_counts_ is
\* at most the cap.  (It may say more: release() does not decrement it.)
CountBounds ==
    UserCap > 0 => \A u \in Users : /\ Cardinality(SlotsOf(u)) <= userCount[u]
                                    /\ userCount[u] <= UserCap

LEMMA SlotsOfFinite ==
  ASSUME NEW u
  PROVE  /\ IsFiniteSet(SlotsOf(u)) /\ IsFiniteSet(SlotsOf(u)')
         /\ Cardinality(SlotsOf(u)) \in Nat /\ Cardinality(SlotsOf(u)') \in Nat
<1>1. IsFiniteSet(Slots) /\ SlotsOf(u) \subseteq Slots /\ SlotsOf(u)' \subseteq Slots
  BY ConstantsAssumption DEF SlotsOf
<1> QED BY <1>1, FS_Subset, FS_CardinalityType

\* A step that gives no slot to a user and keeps the counts keeps the bounds.
LEMMA BoundsKept ==
  ASSUME TypeOK, CountBounds, UNCHANGED userCount,
         \A s \in Slots : slots'[s].user \in {slots[s].user, NoUser}
  PROVE  CountBounds'
<1> SUFFICES ASSUME UserCap > 0, NEW u \in Users
             PROVE  Cardinality(SlotsOf(u)') <= userCount'[u] /\ userCount'[u] <= UserCap
  BY DEF CountBounds
<1>1. SlotsOf(u)' \subseteq SlotsOf(u)
  BY ConstantsAssumption DEF SlotsOf
<1>2. Cardinality(SlotsOf(u)') <= Cardinality(SlotsOf(u))
  BY <1>1, SlotsOfFinite, FS_Subset
<1>3. Cardinality(SlotsOf(u)) <= userCount[u] /\ userCount[u] <= UserCap /\ userCount[u] \in Nat
  BY DEF CountBounds, TypeOK
<1> QED BY <1>2, <1>3, SlotsOfFinite, ConstantsAssumption

\* get_available_slot chose slot s, or none, for task t below the cap, and s
\* alone may have become the user's.
LEMMA BoundsCounted ==
  ASSUME TypeOK, CountBounds, NEW t \in Tasks, NEW s, s \in AvailableSlots(t), CountUser(t, s),
         \A x \in Slots : \/ slots'[x].user \in {slots[x].user, NoUser}
                          \/ x = s /\ slots'[x].user = Info[t].user
  PROVE  CountBounds'
<1> SUFFICES ASSUME UserCap > 0, NEW u \in Users
             PROVE  Cardinality(SlotsOf(u)') <= userCount'[u] /\ userCount'[u] <= UserCap
  BY DEF CountBounds
<1>1. /\ Cardinality(SlotsOf(u)) <= userCount[u] /\ userCount[u] <= UserCap /\ userCount[u] \in Nat
      /\ UserCap \in Nat /\ NoUser \notin Users /\ NoSlot \notin Slots
  BY ConstantsAssumption DEF CountBounds, TypeOK
<1>2. CASE u = Info[t].user /\ s # NoSlot
  <2>1. ~ AtCap(t)
    BY <1>2 DEF AvailableSlots
  <2>2. userCount[u] < UserCap
    BY <2>1, <1>1, <1>2 DEF AtCap
  <2>3. userCount'[u] = userCount[u] + 1
    BY <1>2 DEF CountUser, TypeOK
  <2>4. SlotsOf(u)' \subseteq SlotsOf(u) \cup {s}
    BY <1>1 DEF SlotsOf
  <2>5. /\ IsFiniteSet(SlotsOf(u) \cup {s})
        /\ Cardinality(SlotsOf(u) \cup {s}) <= Cardinality(SlotsOf(u)) + 1
        /\ Cardinality(SlotsOf(u) \cup {s}) \in Nat
    <3> DEFINE A == SlotsOf(u)
    <3>1. IsFiniteSet(A) /\ Cardinality(A) \in Nat
      BY SlotsOfFinite
    <3> HIDE DEF A
    <3>2. /\ IsFiniteSet(A \cup {s})
          /\ Cardinality(A \cup {s}) = IF s \in A THEN Cardinality(A) ELSE Cardinality(A) + 1
      BY <3>1, FS_AddElement
    <3>3. Cardinality(A \cup {s}) \in Nat /\ Cardinality(A \cup {s}) <= Cardinality(A) + 1
      BY <3>1, <3>2
    <3> QED BY <3>2, <3>3 DEF A
  <2>6. Cardinality(SlotsOf(u)') <= Cardinality(SlotsOf(u) \cup {s})
    BY <2>4, <2>5, FS_Subset
  <2> QED BY <1>1, <2>2, <2>3, <2>5, <2>6, SlotsOfFinite
<1>3. CASE ~ (u = Info[t].user /\ s # NoSlot)
  <2>1. userCount'[u] = userCount[u]
    BY <1>3 DEF CountUser, TypeOK
  <2>2. SlotsOf(u)' \subseteq SlotsOf(u)
    BY <1>1, <1>3 DEF SlotsOf
  <2>3. Cardinality(SlotsOf(u)') <= Cardinality(SlotsOf(u))
    BY <2>2, SlotsOfFinite, FS_Subset
  <2> QED BY <1>1, <2>1, <2>3, SlotsOfFinite
<1> QED BY <1>2, <1>3

LEMMA BoundsRelease ==
  ASSUME TypeOK, CountBounds, NEW s \in Slots, Release(s)
  PROVE  CountBounds'
<1>1. slots' = [slots EXCEPT ![s] = IdleSlot] /\ UNCHANGED userCount
  BY ReleaseType
<1>2. \A x \in Slots : slots'[x].user \in {slots[x].user, NoUser}
  BY <1>1 DEF IdleSlot, TypeOK
<1> QED BY <1>1, <1>2, BoundsKept

LEMMA BoundsProcess ==
  ASSUME TypeOK, CountBounds, ProcessSingleTask
  PROVE  CountBounds'
<1>1. CASE ProcessCompletion
  <2>1. PICK t \in Tasks : t = cur.id
    BY <1>1 DEF ProcessCompletion, TypeOK, Items, NextItem
  <2>2. CASE DeferCompletion
    <3>1. PICK s \in AvailableSlots(t) : CountUser(t, s)
      BY <2>1, <2>2 DEF DeferCompletion
    <3>2. \A x \in Slots : slots'[x].user \in {slots[x].user, NoUser}
      BY <2>2 DEF DeferCompletion
    <3> QED BY <3>1, <3>2, BoundsCounted
  <2>3. CASE LaunchCompletion
    <3>1. PICK s \in AvailableSlots(t) : \E f \in ChildSlots(t, s) :
             CountUser(t, s) /\ slots' = Launched(t, s, f, Len(f) + 1)
      BY <2>1, <2>3 DEF LaunchCompletion
    <3>2. PICK f : CountUser(t, s) /\ slots' = Launched(t, s, f, Len(f) + 1)
      BY <3>1
    <3>3. \A x \in Slots : \/ slots'[x].user \in {slots[x].user, NoUser}
                           \/ x = s /\ slots'[x].user = Info[t].user
      BY <3>2 DEF Launched
    <3> QED BY <3>1, <3>2, <3>3, BoundsCounted
  <2>4. CASE TokenizeFails
    BY <2>4, BoundsKept DEF TokenizeFails, slotVars
  <2> QED BY <1>1, <2>2, <2>3, <2>4 DEF ProcessCompletion
<1>4. CASE LaunchFails
  <2>1. PICK t \in Tasks : t = cur.id
    BY <1>4 DEF LaunchFails, TypeOK, Items, NextItem
  <2>2. PICK s \in AvailableSlots(t) : \E f, n :
           CountUser(t, s) /\ slots' = Launched(t, s, f, n)
    BY <1>4, <2>1 DEF LaunchFails
  <2>3. PICK f, n : CountUser(t, s) /\ slots' = Launched(t, s, f, n)
    BY <2>2
  <2>4. \A x \in Slots : \/ slots'[x].user \in {slots[x].user, NoUser}
                         \/ x = s /\ slots'[x].user = Info[t].user
    BY <2>3 DEF Launched
  <2> QED BY <2>2, <2>3, <2>4, BoundsCounted
<1>2. CASE ProcessCancel
  <2>1. CASE \E s \in Slots : slots[s].task = cur.id
    <3>1. PICK s \in Slots : Release(s)
      BY <1>2, <2>1 DEF ProcessCancel
    <3> QED BY <3>1, BoundsRelease
  <2>2. CASE ~ \E s \in Slots : slots[s].task = cur.id
    BY <1>2, <2>2, BoundsKept DEF ProcessCancel, slotVars
  <2> QED BY <2>1, <2>2
<1>3. CASE ProcessSlotAction \/ ProcessQuery \/ ProcessNextResponse
  BY <1>3, BoundsKept DEF ProcessSlotAction, ProcessQuery, ProcessNextResponse, slotVars
<1> QED BY <1>1, <1>2, <1>3, <1>4 DEF ProcessSingleTask

\* No user ever holds more slots than --max-concurrent-per-user (CapRespected):
\* get_available_slot refuses a slot to a user whose count has reached the cap,
\* and counts the slot before the task that will hold it is launched.
THEOREM CapIsRespected == Spec => []CapRespected
<1>1. Init => CountBounds
  <2> SUFFICES ASSUME Init, UserCap > 0, NEW u \in Users
               PROVE  Cardinality(SlotsOf(u)) <= userCount[u] /\ userCount[u] <= UserCap
    BY DEF CountBounds
  <2>1. SlotsOf(u) = {} /\ userCount[u] = 0
    BY ConstantsAssumption DEF Init, SlotsOf, IdleSlot
  <2>2. Cardinality({}) = 0
    BY FS_EmptySet
  <2> QED BY <2>1, <2>2, ConstantsAssumption
<1>2. TypeOK /\ CountBounds /\ [Next]_vars => CountBounds'
  <2> SUFFICES ASSUME TypeOK, CountBounds, [Next]_vars PROVE CountBounds'
    OBVIOUS
  <2> USE DEF slotVars
  <2>1. CASE ProcessSingleTask
    BY <2>1, BoundsProcess
  <2>2. CASE \E s \in Slots : DecodeStep(s) /\ ~ PromptDone(s)
    <3>1. PICK s \in Slots : Release(s)
      BY <2>2 DEF DecodeStep, SlotFinal, EmptyPrompt, SlotError
    <3> QED BY <3>1, BoundsRelease
  <2>3. CASE AbortSlot
    <3>1. PICK s \in Slots : Release(s)
      BY <2>3 DEF AbortSlot, Processing
    <3> QED BY <3>1, BoundsRelease
  <2>4. CASE \E s \in Slots : PromptDone(s)
    <3>1. UNCHANGED userCount /\ \A x \in Slots : slots'[x].user = slots[x].user
      BY <2>4 DEF PromptDone, TypeOK, SlotRecords
    <3> QED BY <3>1, BoundsKept
  <2>5. CASE MainNotified
    <3>1. UNCHANGED userCount /\ \A x \in Slots : slots'[x].user \in {slots[x].user, NoUser}
      BY <2>5 DEF MainNotified, IdleSlot
    <3> QED BY <3>1, BoundsKept
  <2>8. CASE ReleaseLaunched
    <3>1. PICK s \in Slots : Release(s)
      BY <2>8 DEF ReleaseLaunched, TypeOK
    <3> QED BY <3>1, BoundsRelease
  <2>6. CASE UNCHANGED slotVars
    BY <2>6, BoundsKept
  <2>7. \/ ProcessSingleTask \/ ReleaseLaunched \/ AbortSlot \/ MainNotified \/ UNCHANGED slotVars
        \/ \E s \in Slots : DecodeStep(s)
    BY DEF Next, MainStep, PopTask, Drained, ExitLoop, UpdateIdle, PostNextResponse,
           KeepGoing, UpdateDone, WakeForTask, StartAbort, GoToSleep, Terminate,
           ReaderStep, Arrive, ReaderNotified, AddWaiting, PostTasks, ReceiveResult,
           AllReceived, StopRemove, StopPurge, StopCancel, BadRequest, Disconnect, vars
  <2> QED BY <2>1, <2>2, <2>3, <2>4, <2>5, <2>6, <2>7, <2>8
<1>3. TypeOK /\ CountBounds => CapRespected
  <2> SUFFICES ASSUME TypeOK, CountBounds, UserCap > 0, NEW u \in Users
               PROVE  Cardinality(SlotsOf(u)) <= UserCap
    BY DEF CapRespected, SlotsOf
  <2>1. userCount[u] \in Nat
    BY DEF TypeOK
  <2> QED BY <2>1, SlotsOfFinite, ConstantsAssumption DEF CountBounds
<1> QED BY <1>1, <1>2, <1>3, TypeCorrect, PTL DEF Spec

=============================================================================
