------------------------ MODULE ServerQueueTaskProofs ------------------------
(***************************************************************************)
(* No task of ServerQueue is lost, duplicated or answered twice, for every *)
(* number of clients, tasks and slots.                                     *)
(***************************************************************************)
EXTENDS ServerQueueProofs

-----------------------------------------------------------------------------
(* The inductive invariant                                                 *)

\* Where a task may be: with the queues or the main thread, or in a slot.
InHand(t) == TaskItem(t) \in Elems(queue) \/ t \in Elems(deferred) \/ cur = TaskItem(t)
InSlot(t) == \E s \in Slots : slots[s].task = t
Placed(t) == InHand(t) \/ InSlot(t)

\* A CANCEL for t is on its way.
Cancelled(t) == CancelItem(t) \in Elems(queue) \/ cur = CancelItem(t)

Result(t, kind) == [id |-> t, kind |-> kind]
Sent(t, kind) == Result(t, kind) \in Elems(results)
\* The final result of t has been sent.
Finished(t) == Sent(t, "final") \/ \E r \in Readers : t \in answered[r]

\* x occurs in a sequence at most once.
Once(s, x) == \A i, j \in DOMAIN s : s[i] = x /\ s[j] = x => i = j

OnceInHand(t) ==
    /\ Once(queue, TaskItem(t))
    /\ Once(deferred, t)
    /\ t \in Elems(deferred) => TaskItem(t) \notin Elems(queue)
    /\ cur = TaskItem(t) => TaskItem(t) \notin Elems(queue) /\ t \notin Elems(deferred)

OneSlot(t) == \A x, y \in Slots : slots[x].task = t /\ slots[y].task = t => x = y

\* A task is in one place, and there once.
Single(t) == OnceInHand(t) /\ OneSlot(t) /\ (InSlot(t) => ~ InHand(t))

\* The children of a task are not there before it is bound to a slot.
ChildrenUnborn(p) ==
    InHand(p) => \A k \in Kids(p) : ~ Placed(k) /\ ~ Finished(k)

TasksAgree ==
    \A t \in Tasks : /\ Single(t)
                     /\ ChildrenUnborn(t)
                     /\ Finished(t) => ~ Placed(t)
                     /\ InHand(t) => \E r \in Readers : t \in Elems(TasksOf[r])

\* The final result of a task is the last one that is sent for it.
ResultsInOrder ==
    /\ \A i, j \in DOMAIN results :
          results[i].kind = "final" /\ results[j].id = results[i].id => j <= i
    /\ \A r \in Readers : \A i \in DOMAIN results : results[i].id \notin answered[r]

\* What the tasks of a request may have done follows from where its handler is.
ReaderAgrees(r) ==
    /\ rpc[r] \in {"start", "sleepwait", "parsing", "registered"} =>
          \A t \in Ids(r) : ~ Placed(t) /\ ~ Finished(t)
    /\ IF rpc[r] \in {"registered", "receiving", "stopping"}
       THEN Ids(r) \subseteq waiting
       ELSE Ids(r) \cap waiting = {}
    /\ rpc[r] \in {"start", "sleepwait", "parsing", "cancelling", "closed"} =>
          \A i \in DOMAIN results : results[i].id \notin Ids(r)
    /\ \A t \in Ids(r) : Cancelled(t) => rpc[r] = "closed"

\* No task in hand is forgotten by the main thread.
MainAgrees ==
    /\ mpc # "process" => cur = NextItem
    /\ mpc = "asleep" => sleeping
    /\ \A s \in Slots : slots[s].task = NoTask <=> slots[s].state = "idle"

\* A task of a request that waits for it is somewhere, or its result is.
Accounted(r) ==
    rpc[r] = "receiving" =>
        \A t \in Ids(r) \ answered[r] :
            \/ Placed(t) \/ Sent(t, "final")
            \/ \E p \in ParentsOf(t) : InHand(p)
            \/ \E x \in Ids(r) : Sent(x, "error")

TaskInv ==
    /\ TasksAgree
    /\ ResultsInOrder
    /\ \A r \in Readers : ReaderAgrees(r) /\ Accounted(r)
    /\ MainAgrees

\* The request of r is being torn down, or is about to be.
Excused(r) == \/ rpc[r] \in {"stopping", "purging", "cancelling", "closed"}
              \/ \E x \in Ids(r) : Sent(x, "error")

\* The children that are still to be released after a refusal wait in their
\* slots, and their request is told of the refusal.
RefusedInv ==
    mpc = "undo" =>
        \A s \in todo : /\ slots[s].state = "wait_other"
                        /\ \E r \in Readers : slots[s].task \in Ids(r) /\ Excused(r)

-----------------------------------------------------------------------------
(* Sequences that lose elements                                            *)

\* w is what is left of q when some elements are taken out.
Embeds(w, q) ==
    \E e \in [DOMAIN w -> DOMAIN q] : /\ \A i \in DOMAIN w : w[i] = q[e[i]]
                                      /\ \A i, j \in DOMAIN w : i < j => e[i] < e[j]

LEMMA WithoutEmbeds ==
  ASSUME NEW S, NEW q \in Seq(S), NEW D
  PROVE  Embeds(Without(q, D), q)
<1> DEFINE Step(f, i) == KeepStep(q, D, f, i)
           kept == CHOOSE f : f = [i \in 0 .. Len(q) |-> Step(f, i)]
<1>1. kept = [i \in 0 .. Len(q) |-> Step(kept, i)]
  <2>1. \E f : f = [i \in 0 .. Len(q) |-> Step(f, i)]
    BY KeptExists
  <2> HIDE DEF Step
  <2> QED BY <2>1
<1>2. Without(q, D) = kept[Len(q)]
  BY DEF Without, KeepStep
<1> HIDE DEF kept
<1> DEFINE Rises(s, e) == /\ \A i \in DOMAIN s : s[i] = q[e[i]]
                          /\ \A i, j \in DOMAIN s : i < j => e[i] < e[j]
           From(s, n) == s \in Seq(S) /\ \E e \in [DOMAIN s -> 1 .. n] : Rises(s, e)
           Bad == {n \in 0 .. Len(q) : ~ From(kept[n], n)}
<1>3. Len(q) \in Nat /\ DOMAIN q = 1 .. Len(q)
  BY LenProperties
<1>4. SUFFICES ASSUME Bad # {} PROVE FALSE
  <2>1. From(kept[Len(q)], Len(q))
    <3> HIDE DEF From
    <3> QED BY <1>4, <1>3
  <2>2. From(Without(q, D), Len(q))
    <3> HIDE DEF From
    <3> QED BY <2>1, <1>2
  <2> QED BY <2>2, <1>3 DEF Embeds
<1>5. PICK n \in Bad : \A m \in Bad : ~ (m < n)
  <2> HIDE DEF From
  <2>1. Bad \in SUBSET Nat
    BY <1>3
  <2> QED BY <2>1, <1>4, LeastNat
<1>6. n # 0
  <2>1. kept[0] = << >>
    BY <1>1, <1>3 DEF KeepStep
  <2>2. From(kept[0], 0)
    <3>1. << >> \in Seq(S) /\ DOMAIN << >> = {}
      OBVIOUS
    <3> DEFINE e == [i \in {} |-> 0]
    <3>2. e \in [{} -> 1 .. 0]
      OBVIOUS
    <3>3. Rises(<< >>, e)
      BY <3>1
    <3> HIDE DEF e, Rises
    <3> QED BY <2>1, <3>1, <3>2, <3>3
  <2> HIDE DEF From
  <2> QED BY <2>2, <1>5
<1>7. n \in 1 .. Len(q) /\ n - 1 \in 0 .. Len(q) /\ n - 1 < n /\ n \in Nat
  BY <1>5, <1>6, <1>3
<1> DEFINE s == kept[n-1]
<1>8. From(s, n-1)
  <2> HIDE DEF From
  <2> QED BY <1>7, <1>5
<1>9. kept[n] = IF q[n] \in D THEN s ELSE Append(s, q[n])
  <2>1. kept[n] = Step(kept, n)
    <3>1. n \in 0 .. Len(q)
      BY <1>5
    <3> HIDE DEF Step
    <3> QED BY <1>1, <3>1
  <2> QED BY <2>1, <1>7 DEF KeepStep
<1> HIDE DEF s
<1>10. PICK e \in [DOMAIN s -> 1 .. n-1] : Rises(s, e)
  <2> HIDE DEF Rises
  <2> QED BY <1>8
<1>11. CASE q[n] \in D
  <2>1. e \in [DOMAIN s -> 1 .. n]
    BY <1>7
  <2>2. From(s, n)
    <3> HIDE DEF Rises
    <3> QED BY <1>8, <1>10, <2>1
  <2> HIDE DEF From
  <2> QED BY <2>2, <1>9, <1>11, <1>5
<1>12. CASE q[n] \notin D
  <2> DEFINE a == Append(s, q[n])
             g == [i \in DOMAIN a |-> IF i = Len(a) THEN n ELSE e[i]]
  <2>1. /\ a \in Seq(S) /\ Len(a) = Len(s) + 1 /\ Len(s) \in Nat
        /\ DOMAIN a = 1 .. Len(a) /\ DOMAIN s = 1 .. Len(s)
        /\ \A i \in 1 .. Len(s) : a[i] = s[i]
        /\ a[Len(a)] = q[n]
    <3>1. q[n] \in S /\ s \in Seq(S)
      BY <1>7, <1>3, <1>8
    <3> QED BY <3>1, AppendProperties, LenProperties
  <2> HIDE DEF a
  <2>2. \A i \in DOMAIN a : i # Len(a) => i \in DOMAIN s
    BY <2>1
  <2>3. g \in [DOMAIN a -> 1 .. n]
    BY <2>2, <1>7, <1>10
  <2>4. \A i \in DOMAIN a : a[i] = q[g[i]]
    BY <2>1, <2>2, <1>10
  <2>5. \A i, j \in DOMAIN a : i < j => g[i] < g[j]
    <3> SUFFICES ASSUME NEW i \in DOMAIN a, NEW j \in DOMAIN a, i < j PROVE g[i] < g[j]
      OBVIOUS
    <3>1. i \in DOMAIN s /\ g[i] = e[i] /\ e[i] \in 1 .. n-1
      BY <2>1, <2>2, <1>10
    <3>2. CASE j = Len(a)
      BY <3>1, <3>2, <1>7
    <3>3. CASE j # Len(a)
      BY <3>1, <3>3, <2>2, <1>10
    <3> QED BY <3>2, <3>3
  <2>6. From(a, n)
    <3> HIDE DEF g
    <3> QED BY <2>1, <2>3, <2>4, <2>5
  <2>7. a = kept[n]
    BY <1>9, <1>12 DEF a
  <2> HIDE DEF From
  <2> QED BY <2>6, <2>7, <1>5
<1> QED BY <1>11, <1>12

\* The sequence without its i-th element.
RemoveAt(s, i) == SubSeq(s, 1, i-1) \o SubSeq(s, i+1, Len(s))

LEMMA RemoveAtEmbeds ==
  ASSUME NEW S, NEW s \in Seq(S), NEW i \in DOMAIN s
  PROVE  /\ Embeds(RemoveAt(s, i), s)
         /\ \A k \in DOMAIN RemoveAt(s, i) : \E j \in DOMAIN s : j # i /\ RemoveAt(s, i)[k] = s[j]
         /\ \A j \in DOMAIN s : j # i => s[j] \in Elems(RemoveAt(s, i))
<1> DEFINE w == RemoveAt(s, i)
           n == Len(s)
           e == [k \in 1 .. n-1 |-> IF k < i THEN k ELSE k + 1]
<1>1. n \in Nat /\ DOMAIN s = 1 .. n /\ i \in 1 .. n
  BY LenProperties
<1> HIDE DEF n
<1>2. DOMAIN w = 1 .. n-1 /\ \A k \in 1 .. n-1 : w[k] = IF k < i THEN s[k] ELSE s[k+1]
  <2> DEFINE a == SubSeq(s, 1, i-1)
             b == SubSeq(s, i+1, n)
  <2>1. a \in Seq(S) /\ Len(a) = i-1 /\ \A k \in 1 .. i-1 : a[k] = s[k]
    BY <1>1, SubSeqProperties DEF n
  <2>2. b \in Seq(S) /\ Len(b) = n-i /\ \A k \in 1 .. n-i : b[k] = s[i+k]
    BY <1>1, SubSeqProperties DEF n
  <2>3. w = a \o b
    BY DEF RemoveAt, n
  <2> HIDE DEF a, b, w
  <2>4. /\ w \in Seq(S) /\ Len(w) = (i-1) + (n-i)
        /\ \A k \in 1 .. (i-1) + (n-i) : w[k] = IF k <= i-1 THEN a[k] ELSE b[k - (i-1)]
    BY <2>1, <2>2, <2>3, ConcatProperties
  <2>5. Len(w) = n-1 /\ DOMAIN w = 1 .. n-1
    BY <2>4, <1>1, LenProperties
  <2>6. ASSUME NEW k \in 1 .. n-1 PROVE w[k] = IF k < i THEN s[k] ELSE s[k+1]
    <3>1. CASE k < i
      BY <3>1, <2>1, <2>4, <1>1
    <3>2. CASE ~ (k < i)
      <4>1. k - (i-1) \in 1 .. n-i /\ i + (k - (i-1)) = k+1
        BY <3>2, <1>1
      <4>2. b[k - (i-1)] = s[k+1]
        BY <4>1, <2>2
      <4>3. w[k] = b[k - (i-1)]
        BY <3>2, <2>4, <1>1
      <4> QED BY <3>2, <4>2, <4>3
    <3> QED BY <3>1, <3>2
  <2> QED BY <2>5, <2>6
<1> HIDE DEF w
<1>3. e \in [DOMAIN w -> DOMAIN s] /\ \A k \in DOMAIN w : w[k] = s[e[k]] /\ e[k] # i
  BY <1>1, <1>2
<1>4. \A j, k \in DOMAIN w : j < k => e[j] < e[k]
  BY <1>1, <1>2
<1>5. Embeds(w, s)
  <2> HIDE DEF e
  <2> QED BY <1>3, <1>4 DEF Embeds
<1>6. \A j \in DOMAIN s : j # i => s[j] \in Elems(w)
  <2> SUFFICES ASSUME NEW j \in DOMAIN s, j # i PROVE s[j] \in Elems(w)
    OBVIOUS
  <2>1. CASE j < i
    BY <2>1, <1>1, <1>2 DEF Elems
  <2>2. CASE j > i
    <3>1. j-1 \in DOMAIN w /\ w[j-1] = s[j]
      BY <2>2, <1>1, <1>2
    <3> QED BY <3>1 DEF Elems
  <2> QED BY <2>1, <2>2, <1>1
<1>7. \A k \in DOMAIN w : \E j \in DOMAIN s : j # i /\ w[k] = s[j]
  <2> HIDE DEF e
  <2> QED BY <1>3
<1> QED BY <1>5, <1>6, <1>7 DEF w

LEMMA TailEmbeds ==
  ASSUME NEW S, NEW s \in Seq(S), s # << >>
  PROVE  /\ Embeds(Tail(s), s) /\ Elems(s) = Elems(Tail(s)) \cup {Head(s)}
         /\ Once(s, Head(s)) => Head(s) \notin Elems(Tail(s))
<1> DEFINE w == Tail(s)
           e == [k \in DOMAIN w |-> k+1]
<1>1. /\ Len(s) \in Nat /\ DOMAIN s = 1 .. Len(s) /\ Len(s) # 0 /\ Head(s) = s[1]
      /\ w \in Seq(S) /\ Len(w) = Len(s)-1 /\ DOMAIN w = 1 .. Len(s)-1
      /\ \A k \in 1 .. Len(s)-1 : w[k] = s[k+1]
  BY HeadTailProperties, LenProperties, EmptySeq
<1> HIDE DEF w
<1>2. e \in [DOMAIN w -> DOMAIN s] /\ \A k \in DOMAIN w : w[k] = s[e[k]] /\ e[k] # 1
  BY <1>1
<1>3. \A j, k \in DOMAIN w : j < k => e[j] < e[k]
  BY <1>1
<1>4. Embeds(w, s)
  <2> HIDE DEF e
  <2> QED BY <1>2, <1>3 DEF Embeds
<1>5. \A j \in DOMAIN s : j = 1 \/ s[j] \in Elems(w)
  <2> SUFFICES ASSUME NEW j \in DOMAIN s, j # 1 PROVE s[j] \in Elems(w)
    OBVIOUS
  <2>1. j-1 \in DOMAIN w /\ w[j-1] = s[j]
    BY <1>1
  <2> QED BY <2>1 DEF Elems
<1>6. 1 \in DOMAIN s
  BY <1>1
<1>7. Elems(s) = Elems(w) \cup {Head(s)}
  <2> HIDE DEF e
  <2>1. Head(s) \in Elems(s)
    BY <1>1, <1>6 DEF Elems
  <2>2. \A k \in DOMAIN w : w[k] \in Elems(s)
    BY <1>2 DEF Elems
  <2>3. \A j \in DOMAIN s : s[j] \in Elems(w) \cup {Head(s)}
    BY <1>1, <1>5
  <2> QED BY <2>1, <2>2, <2>3 DEF Elems
<1>8. Once(s, Head(s)) => Head(s) \notin Elems(w)
  <2> HIDE DEF e
  <2> QED BY <1>1, <1>2, <1>6 DEF Once, Elems
<1> QED BY <1>4, <1>7, <1>8 DEF w

LEMMA EmbedsKeeps ==
  ASSUME NEW S, NEW w \in Seq(S), NEW q \in Seq(S), Embeds(w, q)
  PROVE  /\ Elems(w) \subseteq Elems(q)
         /\ \A x : Once(q, x) => Once(w, x)
<1>1. PICK e \in [DOMAIN w -> DOMAIN q] : /\ \A i \in DOMAIN w : w[i] = q[e[i]]
                                          /\ \A i, j \in DOMAIN w : i < j => e[i] < e[j]
  BY DEF Embeds
<1>2. Elems(w) \subseteq Elems(q)
  BY <1>1 DEF Elems
<1>3. ASSUME NEW x, Once(q, x), NEW i \in DOMAIN w, NEW j \in DOMAIN w, w[i] = x, w[j] = x
      PROVE  i = j
  <2>1. e[i] = e[j]
    BY <1>1, <1>3 DEF Once
  <2>2. DOMAIN w = 1 .. Len(w) /\ Len(w) \in Nat
    BY LenProperties
  <2>3. ~ (i < j) /\ ~ (j < i)
    <3>1. e[i] \in DOMAIN q /\ DOMAIN q = 1 .. Len(q) /\ Len(q) \in Nat
      BY <1>1, LenProperties
    <3>2. ~ (e[i] < e[j]) /\ ~ (e[j] < e[i])
      BY <2>1, <3>1
    <3> QED BY <1>1, <3>2
  <2> QED BY <2>2, <2>3
<1> QED BY <1>2, <1>3 DEF Once

LEMMA OnceConcat ==
  ASSUME NEW S, NEW s \in Seq(S), NEW u \in Seq(S), NEW x, Once(s, x), Once(u, x),
         ~ (x \in Elems(s) /\ x \in Elems(u))
  PROVE  Once(s \o u, x)
<1> DEFINE c == s \o u
<1>1. /\ Len(s) \in Nat /\ Len(u) \in Nat /\ DOMAIN c = 1 .. Len(s) + Len(u)
      /\ DOMAIN s = 1 .. Len(s) /\ DOMAIN u = 1 .. Len(u)
      /\ \A i \in 1 .. Len(s) + Len(u) : c[i] = IF i <= Len(s) THEN s[i] ELSE u[i - Len(s)]
  BY ConcatProperties, LenProperties
<1> HIDE DEF c
<1>2. ASSUME NEW i \in DOMAIN c, c[i] = x
      PROVE  \/ i \in DOMAIN s /\ s[i] = x
             \/ i - Len(s) \in DOMAIN u /\ u[i - Len(s)] = x
  <2>1. CASE i <= Len(s)
    BY <1>1, <1>2, <2>1
  <2>2. CASE ~ (i <= Len(s))
    <3>1. i - Len(s) \in DOMAIN u
      BY <1>1, <1>2, <2>2
    <3> QED BY <1>1, <1>2, <2>2, <3>1
  <2> QED BY <2>1, <2>2
<1>3. ASSUME NEW i \in DOMAIN c, NEW j \in DOMAIN c, c[i] = x, c[j] = x
      PROVE  i = j
  <2>1. CASE x \notin Elems(u)
    <3>1. i \in DOMAIN s /\ s[i] = x /\ j \in DOMAIN s /\ s[j] = x
      BY <1>2, <1>3, <2>1 DEF Elems
    <3> QED BY <3>1 DEF Once
  <2>2. CASE x \notin Elems(s)
    <3>1. /\ i - Len(s) \in DOMAIN u /\ u[i - Len(s)] = x
          /\ j - Len(s) \in DOMAIN u /\ u[j - Len(s)] = x
      BY <1>2, <1>3, <2>2 DEF Elems
    <3>2. i - Len(s) = j - Len(s)
      BY <3>1 DEF Once
    <3> QED BY <3>2, <1>1
  <2> QED BY <2>1, <2>2
<1> QED BY <1>3 DEF Once, c

LEMMA Singleton ==
  ASSUME NEW S, NEW a \in S
  PROVE  <<a>> \in Seq(S) /\ Elems(<<a>>) = {a} /\ \A x : Once(<<a>>, x)
<1>1. <<a>> \in Seq(S) /\ DOMAIN <<a>> = {1} /\ <<a>>[1] = a
  OBVIOUS
<1> QED BY <1>1 DEF Elems, Once

LEMMA OnceAbsent ==
  ASSUME NEW s, NEW x, x \notin Elems(s)
  PROVE  Once(s, x)
BY DEF Once, Elems

LEMMA ElemsAppend ==
  ASSUME NEW S, NEW s \in Seq(S), NEW a \in S
  PROVE  /\ Append(s, a) \in Seq(S) /\ Elems(Append(s, a)) = Elems(s) \cup {a}
         /\ \A x : Once(s, x) /\ ~ (x = a /\ a \in Elems(s)) => Once(Append(s, a), x)
<1>1. <<a>> \in Seq(S) /\ Elems(<<a>>) = {a} /\ \A x : Once(<<a>>, x)
  BY Singleton
<1>2. Append(s, a) = s \o <<a>>
  OBVIOUS
<1> DEFINE b == <<a>>
<1> HIDE DEF b
<1>3. b \in Seq(S) /\ Elems(b) = {a} /\ Append(s, a) = s \o b /\ \A x : Once(b, x)
  BY <1>1, <1>2 DEF b
<1>4. s \o b \in Seq(S) /\ Elems(s \o b) = Elems(s) \cup Elems(b)
  BY <1>3, ConcatProperties, ElemsConcat
<1>5. ASSUME NEW x, Once(s, x), ~ (x = a /\ a \in Elems(s))
      PROVE  Once(s \o b, x)
  BY <1>3, <1>5, OnceConcat
<1> QED BY <1>3, <1>4, <1>5

-----------------------------------------------------------------------------
(* What the steps do to the tasks in hand                                  *)

\* The tasks in hand stay there, except some of D, and no task comes into hand.
HandStep(D) ==
    \A t \in Tasks : OnceInHand(t) =>
        /\ OnceInHand(t)'
        /\ InHand(t)' => InHand(t)
        /\ InHand(t) /\ t \notin D => InHand(t)'

CancelsKept == \A t \in Tasks : Cancelled(t)' => Cancelled(t)

LEMMA HandQuiet ==
  ASSUME UNCHANGED queueVars, UNCHANGED cur
  PROVE  HandStep({}) /\ CancelsKept
BY DEF HandStep, CancelsKept, OnceInHand, InHand, Cancelled, queueVars

\* The main thread is done with what it had popped.
LEMMA HandDropped ==
  ASSUME UNCHANGED queueVars, cur' = NextItem
  PROVE  /\ HandStep({cur.id}) /\ CancelsKept
         /\ \A t \in Tasks : OnceInHand(t) /\ cur = TaskItem(t) => ~ InHand(t)'
         /\ cur.type # "task" => HandStep({})
BY DEF HandStep, CancelsKept, OnceInHand, InHand, Cancelled, queueVars, NextItem, TaskItem, CancelItem

LEMMA HandPopped ==
  ASSUME TypeOK, PopTask, cur = NextItem
  PROVE  HandStep({}) /\ CancelsKept
<1>1. /\ queue \in Seq(Items) /\ queue # << >>
      /\ cur' = Head(queue) /\ queue' = Tail(queue) /\ UNCHANGED deferred
  BY DEF PopTask, TypeOK
<1>2. queue' \in Seq(Items)
  BY <1>1, HeadTailProperties
<1>3. /\ Embeds(queue', queue) /\ Elems(queue) = Elems(queue') \cup {cur'}
      /\ Once(queue, cur') => cur' \notin Elems(queue')
  BY <1>1, TailEmbeds
<1>4. \A x : Once(queue, x) => Once(queue', x)
  BY <1>1, <1>2, <1>3, EmbedsKeeps
<1>5. \A t \in Tasks : cur # TaskItem(t)
  BY DEF NextItem, TaskItem
<1>6. HandStep({})
  BY <1>1, <1>3, <1>4, <1>5 DEF HandStep, OnceInHand, InHand
<1>7. CancelsKept
  BY <1>1, <1>3 DEF CancelsKept, Cancelled
<1> QED BY <1>6, <1>7

LEMMA HandDeferred ==
  ASSUME TypeOK, NEW u \in Tasks, cur = TaskItem(u), Defer(u), UNCHANGED queue, cur' = NextItem
  PROVE  HandStep({}) /\ CancelsKept
<1>1. deferred \in Seq(Tasks) /\ deferred' = Append(deferred, u)
  BY DEF TypeOK, Defer
<1>2. /\ Elems(deferred') = Elems(deferred) \cup {u}
      /\ \A x : Once(deferred, x) /\ ~ (x = u /\ u \in Elems(deferred)) => Once(deferred', x)
  BY <1>1, ElemsAppend
<1>3. \A t \in Tasks : (cur = TaskItem(t) <=> t = u) /\ cur' # TaskItem(t) /\ cur' # CancelItem(t)
  BY DEF NextItem, TaskItem, CancelItem
<1>4. HandStep({})
  BY <1>2, <1>3 DEF HandStep, OnceInHand, InHand
<1>5. CancelsKept
  BY <1>3 DEF CancelsKept, Cancelled
<1> QED BY <1>4, <1>5

LEMMA HandNext ==
  ASSUME TypeOK, queue' = Append(queue, NextItem), UNCHANGED <<deferred, cur>>
  PROVE  HandStep({}) /\ CancelsKept
<1>1. queue \in Seq(Items) /\ NextItem \in Items
  BY DEF TypeOK, Items
<1>2. /\ Elems(queue') = Elems(queue) \cup {NextItem}
      /\ \A x : Once(queue, x) /\ ~ (x = NextItem /\ NextItem \in Elems(queue)) => Once(queue', x)
  BY <1>1, ElemsAppend
<1>3. \A t \in Tasks : TaskItem(t) # NextItem /\ CancelItem(t) # NextItem
  BY DEF NextItem, TaskItem, CancelItem
<1>4. HandStep({})
  BY <1>2, <1>3 DEF HandStep, OnceInHand, InHand
<1>5. CancelsKept
  BY <1>2, <1>3 DEF CancelsKept, Cancelled
<1> QED BY <1>4, <1>5

LEMMA PopIndexType ==
  ASSUME NEW s, deferred \in Seq(Tasks), deferred # << >>
  PROVE  PopIndex(s) \in DOMAIN deferred
<1> DEFINE wants == {k \in DOMAIN deferred : IdSlot(deferred[k]) = s}
           i == PopIndex(s)
<1>1. Len(deferred) \in Nat /\ DOMAIN deferred = 1 .. Len(deferred) /\ Len(deferred) # 0
  BY LenProperties, EmptySeq
<1>2. CASE wants = {}
  BY <1>1, <1>2 DEF PopIndex
<1>3. CASE wants # {}
  <2>1. wants \in SUBSET Nat
    BY <1>1
  <2>2. PICK k \in wants : \A j \in wants : ~ (j < k)
    <3> HIDE DEF wants
    <3> QED BY <2>1, <1>3, LeastNat
  <2>3. \A j \in wants : k <= j
    BY <2>1, <2>2
  <2>4. i = CHOOSE m \in wants : \A j \in wants : m <= j
    BY <1>3 DEF PopIndex
  <2>5. i \in wants
    <3> HIDE DEF i, wants
    <3> QED BY <2>2, <2>3, <2>4
  <2> QED BY <2>5
<1> QED BY <1>2, <1>3

\* A deferred task goes back to the queue when a slot is released.
LEMMA HandReleased ==
  ASSUME TypeOK, NEW s, PopDeferredTask(s),
         cur' = cur \/ (cur' = NextItem /\ cur.type # "task")
  PROVE  HandStep({}) /\ CancelsKept
<1>0. ASSUME NEW t \in Tasks
      PROVE  /\ (cur = TaskItem(t))' <=> cur = TaskItem(t)
             /\ (cur = CancelItem(t))' => cur = CancelItem(t)
  <2>1. CASE cur' = cur
    BY <2>1
  <2>2. CASE cur' = NextItem /\ cur.type # "task"
    BY <2>2 DEF NextItem, TaskItem, CancelItem
  <2> QED BY <2>1, <2>2
<1>1. CASE deferred = << >>
  <2>1. UNCHANGED <<queue, deferred>>
    BY <1>1 DEF PopDeferredTask, queueVars
  <2>2. HandStep({})
    BY <1>0, <2>1 DEF HandStep, OnceInHand, InHand
  <2>3. CancelsKept
    <3> SUFFICES ASSUME NEW t \in Tasks, Cancelled(t)' PROVE Cancelled(t)
      BY DEF CancelsKept
    <3>1. CASE cur' = CancelItem(t)
      <4>1. cur = CancelItem(t)
        BY <1>0, <3>1
      <4> QED BY <4>1 DEF Cancelled
    <3>2. CASE cur' # CancelItem(t)
      <4>1. (CancelItem(t) \in Elems(queue))'
        BY <3>2 DEF Cancelled
      <4> QED BY <4>1, <2>1 DEF Cancelled
    <3> QED BY <3>1, <3>2
  <2> QED BY <2>2, <2>3
<1>2. CASE deferred # << >>
  <2> DEFINE i == PopIndex(s)
             u == deferred[i]
  <2>1. deferred \in Seq(Tasks) /\ i \in DOMAIN deferred /\ u \in Tasks
    BY <1>2, PopIndexType DEF TypeOK
  <2>2. deferred' = RemoveAt(deferred, i) /\ queue' = <<TaskItem(u)>> \o queue
    BY <1>2 DEF PopDeferredTask, RemoveAt
  <2> HIDE DEF i
  <2>3. /\ Embeds(deferred', deferred)
        /\ \A k \in DOMAIN deferred' : \E j \in DOMAIN deferred : j # i /\ deferred'[k] = deferred[j]
        /\ \A j \in DOMAIN deferred : j # i => deferred[j] \in Elems(deferred')
    BY <2>1, <2>2, RemoveAtEmbeds
  <2>4. deferred' \in Seq(Tasks)
    BY <2>1, <2>2, RemoveAtType DEF RemoveAt
  <2>5. /\ Elems(deferred') \subseteq Elems(deferred)
        /\ \A x : Once(deferred, x) => Once(deferred', x)
    BY <2>1, <2>3, <2>4, EmbedsKeeps
  <2>6. Once(deferred, u) => u \notin Elems(deferred')
    BY <2>1, <2>3 DEF Once, Elems
  <2>7. \A x \in Elems(deferred) : x = u \/ x \in Elems(deferred')
    BY <2>3 DEF Elems
  <2>8. u \in Elems(deferred)
    BY <2>1 DEF Elems
  <2> HIDE DEF u
  <2> DEFINE a == <<TaskItem(u)>>
  <2>9. a \in Seq(Items) /\ Elems(a) = {TaskItem(u)} /\ \A x : Once(a, x)
    <3>1. TaskItem(u) \in Items
      BY <2>1 DEF TaskItem, Items
    <3> QED BY <3>1, Singleton
  <2>10. queue \in Seq(Items) /\ queue' = a \o queue
    BY <2>2 DEF TypeOK
  <2> HIDE DEF a
  <2>11. Elems(queue') = Elems(queue) \cup {TaskItem(u)}
    BY <2>9, <2>10, ElemsConcat
  <2>12. \A x : Once(queue, x) /\ ~ (x = TaskItem(u) /\ x \in Elems(queue)) => Once(queue', x)
    BY <2>9, <2>10, OnceConcat
  <2>13. \A t \in Tasks : (TaskItem(t) = TaskItem(u) <=> t = u) /\ CancelItem(t) # TaskItem(u)
    BY <2>1 DEF TaskItem, CancelItem
  <2>14. CancelsKept
    BY <1>0, <2>11, <2>13 DEF CancelsKept, Cancelled
  <2>15. ASSUME NEW t \in Tasks, OnceInHand(t)
         PROVE  OnceInHand(t)' /\ (InHand(t)' <=> InHand(t))
    <3>1. CASE t = u
      BY <3>1, <1>0, <2>15, <2>5, <2>6, <2>8, <2>11, <2>12 DEF OnceInHand, InHand
    <3>2. CASE t # u
      BY <3>2, <1>0, <2>15, <2>5, <2>7, <2>11, <2>12, <2>13 DEF OnceInHand, InHand
    <3> QED BY <3>1, <3>2
  <2> QED BY <2>14, <2>15 DEF HandStep
<1> QED BY <1>1, <1>2

\* A request takes back what it still has in the queues, and cancels the rest.
LEMMA HandCancelled ==
  ASSUME TypeOK, NEW r \in Readers, StopCancel(r)
  PROVE  /\ HandStep(Ids(r))
         /\ \A t \in Tasks : Cancelled(t)' => Cancelled(t) \/ t \in Ids(r)
<1>1. PICK f \in [1 .. Cardinality(Ids(r)) -> Ids(r)] :
        queue' = [i \in DOMAIN f |-> CancelItem(f[i])] \o
                    Without(queue, {TaskItem(t) : t \in Ids(r)})
  BY DEF StopCancel
<1> DEFINE c == [i \in DOMAIN f |-> CancelItem(f[i])]
           D == {TaskItem(t) : t \in Ids(r)}
           w == Without(queue, D)
<1>2. c \in Seq(Items)
  <2>1. \A i \in DOMAIN f : CancelItem(f[i]) \in Items
    BY IdsType DEF Items, CancelItem
  <2>2. Cardinality(Ids(r)) \in Nat
    BY IdsFinite, FS_CardinalityType
  <2> QED BY <2>1, <2>2
<1>3. Elems(c) \subseteq {CancelItem(t) : t \in Ids(r)}
  BY DEF Elems
<1>4. queue \in Seq(Items) /\ deferred \in Seq(Tasks)
  BY DEF TypeOK
<1>5. w \in Seq(Items) /\ Elems(w) = Elems(queue) \ D /\ Embeds(w, queue)
  BY <1>4, WithoutElems, WithoutEmbeds
<1>6. /\ deferred' \in Seq(Tasks) /\ Elems(deferred') = Elems(deferred) \ Ids(r)
      /\ Embeds(deferred', deferred)
  BY <1>4, WithoutElems, WithoutEmbeds DEF StopCancel
<1>7. queue' = c \o w /\ UNCHANGED cur
  BY <1>1 DEF StopCancel, mainVars
<1>8. ASSUME NEW t \in Tasks
      PROVE  /\ TaskItem(t) \in D <=> t \in Ids(r)
             /\ CancelItem(t) \notin D
             /\ TaskItem(t) \notin Elems(c)
             /\ CancelItem(t) \in Elems(c) => t \in Ids(r)
  BY <1>3 DEF TaskItem, CancelItem
<1> HIDE DEF c, D, w
<1>9. Elems(queue') = Elems(c) \cup Elems(w)
  BY <1>2, <1>5, <1>7, ElemsConcat
<1>10. ASSUME NEW t \in Tasks, Once(queue, TaskItem(t))
       PROVE  Once(queue', TaskItem(t))
  <2>1. Once(w, TaskItem(t))
    BY <1>4, <1>5, <1>10, EmbedsKeeps
  <2>2. Once(c, TaskItem(t)) /\ TaskItem(t) \notin Elems(c)
    BY <1>8, OnceAbsent
  <2> QED BY <1>2, <1>5, <1>7, <2>1, <2>2, OnceConcat
<1>11. \A t \in Tasks : Once(deferred, t) => Once(deferred', t)
  BY <1>4, <1>6, EmbedsKeeps
<1>12. \A t \in Tasks : TaskItem(t) \in Elems(queue') <=> TaskItem(t) \in Elems(queue) /\ t \notin Ids(r)
  BY <1>5, <1>8, <1>9
<1>13. HandStep(Ids(r))
  BY <1>6, <1>7, <1>10, <1>11, <1>12 DEF HandStep, OnceInHand, InHand
<1>14. \A t \in Tasks : Cancelled(t)' => Cancelled(t) \/ t \in Ids(r)
  BY <1>5, <1>7, <1>8, <1>9 DEF Cancelled
<1> QED BY <1>13, <1>14

\* A request posts its tasks, which nobody has seen before.
LEMMA HandPosted ==
  ASSUME TypeOK, NEW r \in Readers, PostTasks(r),
         \A t \in Elems(TasksOf[r]) : ~ InHand(t)
  PROVE  /\ \A t \in Tasks : OnceInHand(t) =>
               /\ OnceInHand(t)'
               /\ InHand(t)' <=> InHand(t) \/ t \in Elems(TasksOf[r])
         /\ CancelsKept
<1> DEFINE P == Elems(TasksOf[r])
           items == [i \in DOMAIN TasksOf[r] |-> TaskItem(TasksOf[r][i])]
<1>1. items \in Seq(Items) /\ queue \in Seq(Items)
  BY PostedType DEF TypeOK
<1>2. (queue' = items \o queue \/ queue' = queue \o items) /\ UNCHANGED <<deferred, cur>>
  BY DEF PostTasks, mainVars
<1>3. Elems(items) = {TaskItem(t) : t \in P}
  BY DEF Elems
<1>4. \A t \in Tasks : /\ TaskItem(t) \in Elems(items) <=> t \in P
                       /\ CancelItem(t) \notin Elems(items)
  BY <1>3 DEF TaskItem, CancelItem
<1>5. ASSUME NEW t \in Tasks PROVE Once(items, TaskItem(t))
  <2>1. \A i, j \in DOMAIN TasksOf[r] : TasksOf[r][i] = TasksOf[r][j] => i = j
    BY IdsAreUnique
  <2> QED BY <2>1 DEF Once, TaskItem
<1>6. \A t \in P : TaskItem(t) \notin Elems(queue) /\ t \notin Elems(deferred) /\ cur # TaskItem(t)
  BY DEF InHand
<1> HIDE DEF items, P
<1>7. Elems(queue') = Elems(queue) \cup Elems(items)
  <2>1. CASE queue' = items \o queue
    BY <1>1, <2>1, ElemsConcat
  <2>2. CASE queue' = queue \o items
    BY <1>1, <2>2, ElemsConcat
  <2> QED BY <1>2, <2>1, <2>2
<1>8. ASSUME NEW t \in Tasks, Once(queue, TaskItem(t))
      PROVE  Once(queue', TaskItem(t))
  <2>1. ~ (TaskItem(t) \in Elems(items) /\ TaskItem(t) \in Elems(queue))
    BY <1>4, <1>6
  <2>2. Once(items, TaskItem(t))
    BY <1>5
  <2>3. CASE queue' = items \o queue
    BY <1>1, <1>8, <2>1, <2>2, <2>3, OnceConcat
  <2>4. CASE queue' = queue \o items
    BY <1>1, <1>8, <2>1, <2>2, <2>4, OnceConcat
  <2> QED BY <1>2, <2>3, <2>4
<1>9. CancelsKept
  BY <1>2, <1>4, <1>7 DEF CancelsKept, Cancelled
<1>10. ASSUME NEW t \in Tasks, OnceInHand(t)
       PROVE  OnceInHand(t)' /\ (InHand(t)' <=> InHand(t) \/ t \in P)
  BY <1>2, <1>4, <1>6, <1>7, <1>8, <1>10 DEF OnceInHand, InHand
<1> QED BY <1>9, <1>10 DEF P

-----------------------------------------------------------------------------
(* What the steps do to the slots                                          *)

\* The tasks in slots stay there, except some of D, and no task gets a slot.
SlotStep(D) ==
    \A t \in Tasks : OneSlot(t) =>
        /\ OneSlot(t)'
        /\ InSlot(t)' => InSlot(t)
        /\ InSlot(t) /\ t \notin D => InSlot(t)'

LEMMA SlotsQuiet ==
  ASSUME \A s \in Slots : slots'[s].task = slots[s].task
  PROVE  SlotStep({})
BY DEF SlotStep, OneSlot, InSlot

LEMMA SlotReleased ==
  ASSUME TypeOK, NEW s \in Slots, slots' = [slots EXCEPT ![s] = IdleSlot]
  PROVE  /\ SlotStep({slots[s].task})
         /\ \A t \in Tasks : OneSlot(t) /\ slots[s].task = t => ~ InSlot(t)'
<1>1. \A x \in Slots : slots'[x].task = IF x = s THEN NoTask ELSE slots[x].task
  BY DEF TypeOK, IdleSlot
<1>2. NoTask \notin Tasks
  BY ConstantsAssumption
<1> QED BY <1>1, <1>2 DEF SlotStep, OneSlot, InSlot

\* The tasks of the family of u that n launches bind to slots.
Bound(u, n) == {Info[u].kids[i] : i \in {j \in DOMAIN Info[u].kids : j <= n}}
               \cup (IF n > Len(Info[u].kids) THEN {u} ELSE {})

LEMMA BoundType ==
  ASSUME NEW u \in Tasks, NEW n \in Nat
  PROVE  /\ Bound(u, n) \subseteq {u} \cup Kids(u)
         /\ n > Len(Info[u].kids) => Bound(u, n) = {u} \cup Kids(u)
         /\ n <= Len(Info[u].kids) => Bound(u, n) \subseteq Kids(u)
<1> DEFINE kids == Info[u].kids
<1>1. Len(kids) \in Nat /\ DOMAIN kids = 1 .. Len(kids)
  <2>1. kids \in Seq(Tasks)
    BY ConstantsAssumption DEF TaskInfo
  <2> QED BY <2>1, LenProperties
<1>2. Kids(u) = {kids[i] : i \in DOMAIN kids}
  BY DEF Kids, Elems
<1>3. n > Len(kids) => \A i \in DOMAIN kids : i <= n
  BY <1>1
<1>4. n <= Len(kids) => ~ (n > Len(kids))
  BY <1>1
<1> QED BY <1>2, <1>3, <1>4 DEF Bound

\* The slots of a parent and its children are taken, or of some of the children.
LEMMA SlotsLaunched ==
  ASSUME TypeOK, MainAgrees, NEW u \in Tasks, NEW s \in Slots \ Processing, NEW n \in Nat,
         NEW f \in ChildSlots(u, s), slots' = Launched(u, s, f, n),
         ~ InSlot(u), u \notin Kids(u), \A k \in Kids(u) : ~ InSlot(k)
  PROVE  /\ \A t \in Tasks : OneSlot(t) =>
               /\ OneSlot(t)'
               /\ InSlot(t)' <=> InSlot(t) \/ t \in Bound(u, n)
         /\ \A x \in Slots : slots'[x].task = NoTask <=> slots'[x].state = "idle"
         /\ \A i \in DOMAIN f : i <= n =>
               /\ slots'[f[i]].task = Info[u].kids[i] /\ slots'[f[i]].state = "wait_other"
<1> DEFINE kids == Info[u].kids
           D == {i \in DOMAIN f : i <= n}
           Mine == IF n > Len(kids) THEN {s} ELSE {}
           Taken == Mine \cup {f[i] : i \in D}
<1>1. /\ DOMAIN f = DOMAIN kids
      /\ \A i \in DOMAIN f : f[i] \in Slots /\ f[i] \notin Processing /\ f[i] # s
      /\ \A i, j \in DOMAIN f : f[i] = f[j] => i = j
  BY DEF ChildSlots
<1>2. \A i, j \in DOMAIN kids : kids[i] = kids[j] => i = j
  BY IdsAreUnique
<1>3. \A i \in DOMAIN kids : kids[i] \in Kids(u) /\ kids[i] \in Tasks
  <2>1. kids \in Seq(Tasks)
    BY ConstantsAssumption DEF TaskInfo
  <2> QED BY <2>1, LenProperties DEF Kids, Elems
<1>4. \A x \in Slots : x \notin Processing => slots[x].task = NoTask
  BY DEF MainAgrees, Processing, IsProcessing
<1>5. /\ n > Len(kids) => slots'[s].task = u /\ slots'[s].state = "started"
      /\ \A i \in D : slots'[f[i]].task = kids[i] /\ slots'[f[i]].state = "wait_other"
      /\ \A x \in Slots \ Taken : slots'[x] = slots[x]
  <2>1. n > Len(kids) => slots'[s].task = u /\ slots'[s].state = "started"
    BY DEF Launched
  <2>2. ASSUME NEW i \in D
        PROVE  slots'[f[i]].task = kids[i] /\ slots'[f[i]].state = "wait_other"
    <3>1. (CHOOSE j \in DOMAIN f : f[j] = f[i]) = i
      BY <1>1
    <3>2. i \in DOMAIN f /\ i <= n /\ f[i] \in Slots /\ f[i] # s
      BY <1>1
    <3> QED BY <3>1, <3>2 DEF Launched
  <2>3. \A x \in Slots \ Taken : slots'[x] = slots[x]
    BY DEF Launched
  <2> QED BY <2>1, <2>2, <2>3
<1>6. NoTask \notin Tasks
  BY ConstantsAssumption
<1>7. \A t : t \in Bound(u, n) <=> (t = u /\ n > Len(kids)) \/ \E i \in D : kids[i] = t
  BY <1>1 DEF Bound
<1>10. \A x : x \in Mine => x = s /\ n > Len(kids)
  OBVIOUS
<1>11. \A i \in D : i \in DOMAIN f /\ i \in DOMAIN kids /\ i <= n
  BY <1>1
<1>12. \A i \in DOMAIN f : i <= n => i \in D
  OBVIOUS
<1>13. n > Len(kids) => s \in Mine
  OBVIOUS
<1> HIDE DEF kids, D, Mine
<1>8. \A x \in Slots : slots'[x].task = NoTask <=> slots'[x].state = "idle"
  <2> TAKE x \in Slots
  <2>1. CASE x \in Mine
    BY <2>1, <1>5, <1>6, <1>10
  <2>2. CASE \E i \in D : x = f[i]
    BY <2>2, <1>3, <1>5, <1>6, <1>11
  <2>3. CASE x \notin Taken
    BY <2>3, <1>5 DEF MainAgrees
  <2> QED BY <2>1, <2>2, <2>3
<1>9. ASSUME NEW t \in Tasks, OneSlot(t)
      PROVE  OneSlot(t)' /\ (InSlot(t)' <=> InSlot(t) \/ t \in Bound(u, n))
  <2>1. CASE t = u /\ n > Len(kids)
    <3>1. \A x \in Slots : slots'[x].task = t => x = s
      <4> SUFFICES ASSUME NEW x \in Slots, slots'[x].task = t, x # s PROVE FALSE
        OBVIOUS
      <4>1. x \notin Mine
        BY <1>10
      <4>2. \A i \in D : x # f[i]
        BY <2>1, <1>3, <1>5, <1>11
      <4> QED BY <2>1, <4>1, <4>2, <1>5 DEF InSlot
    <3> QED BY <2>1, <3>1, <1>5, <1>7 DEF OneSlot, InSlot
  <2>2. CASE \E i \in D : kids[i] = t
    <3>1. PICK i \in D : kids[i] = t
      BY <2>2
    <3>2. t \in Kids(u) /\ t # u /\ ~ InSlot(t)
      BY <3>1, <1>3, <1>11
    <3>3. \A x \in Slots : slots'[x].task = t => x = f[i]
      <4> SUFFICES ASSUME NEW x \in Slots, slots'[x].task = t PROVE x = f[i]
        OBVIOUS
      <4>1. x \notin Mine
        BY <3>2, <1>5, <1>10
      <4>2. x \in Taken
        BY <3>2, <1>5 DEF InSlot
      <4>3. PICK j \in D : x = f[j]
        BY <4>1, <4>2
      <4>4. kids[j] = kids[i]
        BY <4>3, <3>1, <1>5
      <4> QED BY <4>3, <4>4, <1>2, <1>11
    <3>4. f[i] \in Slots /\ slots'[f[i]].task = t
      BY <3>1, <1>1, <1>5, <1>11
    <3> QED BY <3>1, <3>3, <3>4, <1>7 DEF OneSlot, InSlot
  <2>3. CASE ~ (t = u /\ n > Len(kids)) /\ ~ \E i \in D : kids[i] = t
    <3>1. \A x \in Taken : x \in Slots => slots'[x].task # t /\ slots[x].task # t
      <4> TAKE x \in Taken
      <4>1. CASE x \in Mine
        BY <4>1, <2>3, <1>4, <1>5, <1>6, <1>10
      <4>2. CASE x \notin Mine
        <5>1. PICK i \in D : x = f[i]
          BY <4>2
        <5> QED BY <5>1, <2>3, <1>1, <1>4, <1>5, <1>6, <1>11
      <4> QED BY <4>1, <4>2
    <3>2. \A x \in Slots : slots'[x].task = t <=> slots[x].task = t
      BY <3>1, <1>5
    <3> QED BY <2>3, <3>2, <1>7, <1>9 DEF OneSlot, InSlot
  <2> QED BY <2>1, <2>2, <2>3
<1>14. \A i \in DOMAIN f : i <= n =>
         slots'[f[i]].task = kids[i] /\ slots'[f[i]].state = "wait_other"
  BY <1>5, <1>12
<1> QED BY <1>8, <1>9, <1>14 DEF kids

-----------------------------------------------------------------------------
(* A step of the main thread that starts no task                           *)

\* The main thread may have sent a result of x.
Sends(x, kind) == results' = results \/ Send(x, kind)

LEMMA KidsType ==
  ASSUME NEW t \in Tasks
  PROVE  Kids(t) \subseteq Tasks
<1>1. Info[t].kids \in Seq(Tasks)
  BY ConstantsAssumption DEF TaskInfo
<1> QED BY <1>1, LenProperties DEF Kids, Elems

LEMMA SendElems ==
  ASSUME TypeOK, NEW x, NEW kind \in {"partial", "final", "error"}, Sends(x, kind)
  PROVE  /\ Elems(results) \subseteq Elems(results')
         /\ Elems(results') \subseteq Elems(results) \cup {Result(x, kind)}
         /\ x \notin waiting => results' = results
         /\ x \in waiting /\ Send(x, kind) =>
              results' = Append(results, Result(x, kind)) /\ Sent(x, kind)'
<1>1. CASE results' = results /\ ~ (x \in waiting /\ Send(x, kind))
  BY <1>1
<1>2. CASE x \in waiting /\ Send(x, kind)
  <2>1. results \in Seq(Results) /\ Result(x, kind) \in Results
    BY <1>2 DEF TypeOK, Results, Result
  <2>2. results' = Append(results, Result(x, kind))
    BY <1>2 DEF Send, Result
  <2>3. Elems(results') = Elems(results) \cup {Result(x, kind)}
    BY <2>1, <2>2, ElemsAppend
  <2> QED BY <1>2, <2>2, <2>3 DEF Sent
<1>3. x \notin waiting => results' = results
  BY DEF Sends, Send
<1> QED BY <1>1, <1>2, <1>3 DEF Sends

\* A result is sent for a task that runs, or for a child that could not start.
MaySend(x, kind) ==
    \/ results' = results
    \/ Placed(x) /\ (kind = "final" => ~ Placed(x)')
    \/ kind = "error" /\ \E p \in Tasks : InHand(p) /\ x \in Kids(p)

LEMMA NotFinished ==
  ASSUME TypeOK, TasksAgree, NEW x, NEW kind, Sends(x, kind), MaySend(x, kind), results' # results
  PROVE  ~ Finished(x)
<1>1. x \in Tasks
  BY DEF Sends, Send, TypeOK
<1> QED BY <1>1 DEF TasksAgree, MaySend, ChildrenUnborn

LEMMA FinishedBySend ==
  ASSUME TypeOK, NEW x, NEW kind \in {"partial", "final", "error"}, Sends(x, kind),
         UNCHANGED answered, NEW t \in Tasks
  PROVE  /\ Finished(t)' => Finished(t) \/ (t = x /\ kind = "final" /\ results' # results)
         /\ \A k : Sent(t, k) => Sent(t, k)'
<1>1. /\ Elems(results) \subseteq Elems(results')
      /\ Elems(results') \subseteq Elems(results) \cup {Result(x, kind)}
  BY SendElems
<1> QED BY <1>1 DEF Finished, Sent, Result

LEMMA TasksAgreeKept ==
  ASSUME TypeOK, TasksAgree, NEW DH, NEW DS, HandStep(DH), SlotStep(DS), UNCHANGED answered,
         NEW x, NEW kind \in {"partial", "final", "error"},
         Sends(x, kind), MaySend(x, kind)
  PROVE  TasksAgree'
<1>1. ASSUME NEW t \in Tasks
      PROVE  /\ Single(t)'
             /\ InHand(t)' => InHand(t)
             /\ Placed(t)' => Placed(t)
  <2>1. Single(t)
    BY DEF TasksAgree
  <2>2. OnceInHand(t)' /\ OneSlot(t)' /\ (InHand(t)' => InHand(t)) /\ (InSlot(t)' => InSlot(t))
    BY <2>1 DEF Single, HandStep, SlotStep
  <2> QED BY <2>1, <2>2 DEF Single, Placed
<1>2. ASSUME NEW t \in Tasks, Finished(t)'
      PROVE  ~ Placed(t)'
  <2>1. Finished(t) \/ (t = x /\ kind = "final" /\ results' # results)
    BY <1>2, FinishedBySend
  <2>2. CASE Finished(t)
    BY <2>2, <1>1 DEF TasksAgree
  <2>3. CASE t = x /\ kind = "final" /\ results' # results
    <3>1. \/ Placed(x) /\ ~ Placed(x)'
          \/ \E p \in Tasks : InHand(p) /\ x \in Kids(p) /\ kind = "error"
      BY <2>3 DEF MaySend
    <3> QED BY <2>3, <3>1
  <2> QED BY <2>1, <2>2, <2>3
<1>3. ASSUME NEW p \in Tasks, InHand(p)', NEW k \in Kids(p)
      PROVE  ~ Placed(k)' /\ ~ Finished(k)'
  <2>1. k \in Tasks
    BY KidsType
  <2>2. InHand(p) /\ ~ Placed(k) /\ ~ Finished(k)
    BY <1>1, <1>3 DEF TasksAgree, ChildrenUnborn
  <2>3. ~ (k = x /\ kind = "final" /\ results' # results)
    BY <2>2 DEF MaySend
  <2>4. ~ Finished(k)'
    BY <2>1, <2>2, <2>3, FinishedBySend
  <2> QED BY <1>1, <2>1, <2>2, <2>4
<1> QED BY <1>1, <1>2, <1>3 DEF TasksAgree, ChildrenUnborn

LEMMA ResultsKept ==
  ASSUME TypeOK, TasksAgree, ResultsInOrder, UNCHANGED answered,
         NEW x, NEW kind \in {"partial", "final", "error"},
         Sends(x, kind), MaySend(x, kind)
  PROVE  ResultsInOrder'
<1>1. CASE results' = results
  BY <1>1 DEF ResultsInOrder
<1>2. CASE results' # results
  <2>1. results' = Append(results, Result(x, kind)) /\ x \in Tasks
    <3>1. Send(x, kind) /\ x \in waiting
      BY <1>2 DEF Sends, Send
    <3> QED BY <3>1, SendElems DEF TypeOK
  <2> DEFINE n == Len(results)
             y == Result(x, kind)
  <2>2. results \in Seq(Results) /\ y \in Results /\ y.id = x
    BY <2>1 DEF TypeOK, Results, Result
  <2>3. /\ n \in Nat /\ DOMAIN results = 1 .. n /\ DOMAIN results' = 1 .. n+1
        /\ \A i \in 1 .. n : results'[i] = results[i]
        /\ results'[n+1] = y
    BY <2>1, <2>2, AppendProperties, LenProperties
  <2>4. \A i \in 1 .. n : ~ (results[i].kind = "final" /\ results[i].id = x)
    <3> SUFFICES ASSUME NEW i \in 1 .. n, results[i].kind = "final", results[i].id = x
                 PROVE  FALSE
      OBVIOUS
    <3>1. results[i] \in Results
      BY <2>2, <2>3
    <3>2. results[i] = Result(x, "final")
      BY <3>1 DEF Results, Result
    <3>3. Result(x, "final") \in Elems(results)
      BY <3>2, <2>3 DEF Elems
    <3> QED BY <3>3, <1>2, NotFinished DEF Finished, Sent
  <2> HIDE DEF n, y
  <2>5. \A i, j \in DOMAIN results' :
          results'[i].kind = "final" /\ results'[j].id = results'[i].id => j <= i
    <3> SUFFICES ASSUME NEW i \in 1 .. n+1, NEW j \in 1 .. n+1,
                        results'[i].kind = "final", results'[j].id = results'[i].id
                 PROVE  j <= i
      BY <2>3
    <3>1. CASE i = n+1
      BY <3>1, <2>3
    <3>2. CASE i # n+1 /\ j = n+1
      <4>1. i \in 1 .. n /\ results'[i] = results[i] /\ results'[j] = y
        BY <3>2, <2>3
      <4> QED BY <4>1, <2>2, <2>4
    <3>3. CASE i # n+1 /\ j # n+1
      <4>1. i \in 1 .. n /\ j \in 1 .. n
        BY <3>3, <2>3
      <4> QED BY <4>1, <2>3 DEF ResultsInOrder
    <3> QED BY <3>1, <3>2, <3>3
  <2>6. \A r \in Readers : \A i \in DOMAIN results' : results'[i].id \notin answered[r]
    <3> TAKE r \in Readers
    <3> TAKE i \in DOMAIN results'
    <3>1. CASE i = n+1
      BY <3>1, <1>2, <2>2, <2>3, NotFinished DEF Finished
    <3>2. CASE i # n+1
      <4>1. i \in 1 .. n
        BY <3>2, <2>3
      <4> QED BY <4>1, <2>3 DEF ResultsInOrder
    <3> QED BY <3>1, <3>2
  <2> QED BY <2>5, <2>6 DEF ResultsInOrder
<1> QED BY <1>1, <1>2

\* What is sent is not for a request that has left the waiting list.
LEMMA UnclaimedKept ==
  ASSUME TypeOK, NEW x, NEW kind \in {"partial", "final", "error"}, Sends(x, kind),
         NEW r \in Readers, ReaderAgrees(r),
         rpc[r] \in {"start", "sleepwait", "parsing", "cancelling", "closed"}
  PROVE  \A i \in DOMAIN results' : results'[i].id \notin Ids(r)
<1> SUFFICES ASSUME NEW i \in DOMAIN results' PROVE results'[i].id \notin Ids(r)
  OBVIOUS
<1>1. \A j \in DOMAIN results : results[j].id \notin Ids(r)
  BY DEF ReaderAgrees
<1>2. Ids(r) \cap waiting = {}
  BY DEF ReaderAgrees
<1>3. results'[i] \in Elems(results) \/ (results'[i] = Result(x, kind) /\ x \in waiting)
  BY SendElems DEF Elems
<1> QED BY <1>1, <1>2, <1>3 DEF Elems, Result

LEMMA ReaderKept ==
  ASSUME TypeOK, TasksAgree, NEW DH, NEW DS, HandStep(DH), SlotStep(DS), CancelsKept,
         UNCHANGED <<answered, rpc, waiting>>,
         NEW x, NEW kind \in {"partial", "final", "error"},
         Sends(x, kind), MaySend(x, kind),
         NEW r \in Readers, ReaderAgrees(r)
  PROVE  ReaderAgrees(r)'
<1>0. Ids(r) \subseteq Tasks
  BY IdsType
<1>1. ASSUME rpc[r] \in {"start", "sleepwait", "parsing", "registered"}, NEW t \in Ids(r)
      PROVE  ~ Placed(t)' /\ ~ Finished(t)'
  <2>1. Single(t) /\ ~ Placed(t) /\ ~ Finished(t)
    BY <1>0, <1>1 DEF TasksAgree, ReaderAgrees
  <2>2. ~ Placed(t)'
    BY <1>0, <2>1 DEF HandStep, SlotStep, Placed, Single
  <2>3. ~ (t = x /\ kind = "final" /\ results' # results)
    BY <2>1 DEF MaySend
  <2> QED BY <1>0, <2>1, <2>2, <2>3, FinishedBySend
<1>2. rpc[r] \in {"start", "sleepwait", "parsing", "cancelling", "closed"} =>
         \A i \in DOMAIN results' : results'[i].id \notin Ids(r)
  BY UnclaimedKept
<1>3. \A t \in Ids(r) : Cancelled(t)' => rpc[r] = "closed"
  BY <1>0 DEF CancelsKept, ReaderAgrees
<1> QED BY <1>1, <1>2, <1>3 DEF ReaderAgrees

\* A task that is dropped is answered, or an error of its request is on its way.
Answers(DH, DS, x, kind) ==
    \A r \in Readers : rpc[r] = "receiving" =>
        \A t \in Ids(r) : t \in DH \cup DS \/ (\E p \in ParentsOf(t) : p \in DH) =>
            \/ /\ Send(x, kind)
               /\ (kind = "final" /\ x = t) \/ (kind = "error" /\ x \in Ids(r))
            \/ \E y \in Ids(r) : Sent(y, "error")

LEMMA AccountKept ==
  ASSUME TypeOK, TasksAgree, NEW DH, NEW DS, HandStep(DH), SlotStep(DS),
         UNCHANGED <<answered, rpc, waiting>>,
         NEW x, NEW kind \in {"partial", "final", "error"},
         Sends(x, kind), Answers(DH, DS, x, kind),
         NEW r \in Readers, ReaderAgrees(r), Accounted(r)
  PROVE  Accounted(r)'
<1> SUFFICES ASSUME rpc[r] = "receiving", NEW t \in Ids(r) \ answered[r]
             PROVE  \/ Placed(t)' \/ Sent(t, "final")'
                    \/ \E p \in ParentsOf(t) : InHand(p)'
                    \/ \E y \in Ids(r) : Sent(y, "error")'
  BY DEF Accounted, ParentsOf
<1>0. Ids(r) \subseteq Tasks /\ Ids(r) \subseteq waiting
  BY IdsType DEF ReaderAgrees
<1>1. CASE t \in DH \cup DS \/ (\E p \in ParentsOf(t) : p \in DH)
  <2>1. \/ Send(x, kind) /\ ((kind = "final" /\ x = t) \/ (kind = "error" /\ x \in Ids(r)))
        \/ \E y \in Ids(r) : Sent(y, "error")
    BY <1>1 DEF Answers
  <2>2. CASE Send(x, kind) /\ ((kind = "final" /\ x = t) \/ (kind = "error" /\ x \in Ids(r)))
    <3>1. Sent(x, kind)'
      BY <1>0, <2>2, SendElems
    <3> QED BY <2>2, <3>1
  <2>3. CASE \E y \in Ids(r) : Sent(y, "error")
    BY <1>0, <2>3, FinishedBySend
  <2> QED BY <2>1, <2>2, <2>3
<1>2. CASE t \notin DH \cup DS /\ \A p \in ParentsOf(t) : p \notin DH
  <2>1. \A p \in Tasks : OnceInHand(p) /\ OneSlot(p)
    BY DEF TasksAgree, Single
  <2>2. CASE Placed(t)
    BY <1>0, <1>2, <2>1, <2>2 DEF HandStep, SlotStep, Placed
  <2>3. CASE Sent(t, "final")
    BY <1>0, <2>3, FinishedBySend
  <2>4. CASE \E p \in ParentsOf(t) : InHand(p)
    BY <1>2, <2>1, <2>4 DEF HandStep, ParentsOf
  <2>5. CASE \E y \in Ids(r) : Sent(y, "error")
    BY <1>0, <2>5, FinishedBySend
  <2> QED BY <2>2, <2>3, <2>4, <2>5 DEF Accounted
<1> QED BY <1>1, <1>2

LEMMA StepKept ==
  ASSUME TypeOK, TaskInv, MainAgrees',
         NEW DH, NEW DS, HandStep(DH), SlotStep(DS), CancelsKept,
         UNCHANGED <<answered, rpc, waiting>>,
         NEW x, NEW kind \in {"partial", "final", "error"},
         Sends(x, kind), MaySend(x, kind), Answers(DH, DS, x, kind)
  PROVE  TaskInv'
<1>1. TasksAgree'
  BY TasksAgreeKept DEF TaskInv
<1>2. ResultsInOrder'
  BY ResultsKept DEF TaskInv
<1>3. ASSUME NEW r \in Readers
      PROVE  ReaderAgrees(r)' /\ Accounted(r)'
  <2>1. ReaderAgrees(r) /\ Accounted(r) /\ TasksAgree
    BY DEF TaskInv
  <2>2. ReaderAgrees(r)'
    BY <2>1, ReaderKept
  <2>3. Accounted(r)'
    BY <2>1, AccountKept
  <2> QED BY <2>2, <2>3
<1> QED BY <1>1, <1>2, <1>3 DEF TaskInv

\* No task is dropped and nothing is sent.
LEMMA QuietKept ==
  ASSUME TypeOK, TaskInv, MainAgrees', HandStep({}), SlotStep({}), CancelsKept,
         UNCHANGED <<answered, rpc, waiting, results>>
  PROVE  TaskInv'
<1>1. Sends(NoTask, "partial") /\ MaySend(NoTask, "partial")
  BY DEF Sends, MaySend
<1>2. Answers({}, {}, NoTask, "partial")
  BY DEF Answers
<1> QED BY <1>1, <1>2, StepKept

-----------------------------------------------------------------------------
(* The main thread                                                         *)

LEMMA Owner ==
  ASSUME NEW r \in Readers, NEW p \in Elems(TasksOf[r])
  PROVE  p \in Ids(r) /\ Kids(p) \subseteq Ids(r)
BY DEF Ids

LEMMA SlotsAgree ==
  ASSUME TypeOK, MainAgrees, NEW s \in Slots, slots' = [slots EXCEPT ![s] = IdleSlot]
  PROVE  \A x \in Slots : slots'[x].task = NoTask <=> slots'[x].state = "idle"
BY DEF TypeOK, MainAgrees, IdleSlot

LEMMA BusySlot ==
  ASSUME TypeOK, MainAgrees, NEW s \in Slots, slots[s].state # "idle"
  PROVE  slots[s].task \in Tasks /\ InSlot(slots[s].task)
BY DEF TypeOK, SlotRecords, MainAgrees, InSlot

\* A slot ends: its result is sent and the slot is released.
LEMMA EndKept ==
  ASSUME TypeOK, TaskInv, NEW s \in Slots, slots[s].state # "idle",
         NEW kind \in {"final", "error"}, Send(slots[s].task, kind), Release(s),
         UNCHANGED <<waiting, answered, rpc, mpc, sleeping, cur>>
  PROVE  TaskInv'
<1>0. MainAgrees /\ TasksAgree
  BY DEF TaskInv
<1>1. PICK t \in Tasks : t = slots[s].task /\ InSlot(t) /\ Single(t)
  BY <1>0, BusySlot DEF TasksAgree
<1>2. slots' = [slots EXCEPT ![s] = IdleSlot] /\ PopDeferredTask(s)
  BY ReleaseType DEF Release
<1>3. HandStep({}) /\ CancelsKept
  BY <1>2, HandReleased
<1>4. SlotStep({t}) /\ ~ InSlot(t)'
  BY <1>1, <1>2, SlotReleased DEF Single
<1>5. MainAgrees'
  <2>1. \A x \in Slots : slots'[x].task = NoTask <=> slots'[x].state = "idle"
    BY <1>0, <1>2, SlotsAgree
  <2> QED BY <1>0, <2>1 DEF MainAgrees
<1>6. ~ Placed(t)'
  BY <1>1, <1>3, <1>4 DEF HandStep, Single, Placed
<1>7. Sends(t, kind) /\ MaySend(t, kind)
  BY <1>1, <1>6 DEF Sends, MaySend, Placed
<1>8. Answers({}, {t}, t, kind)
  BY <1>1 DEF Answers
<1> QED BY <1>3, <1>4, <1>5, <1>7, <1>8, StepKept

\* The main thread answers the task it has popped, or refuses it.
LEMMA DropKept ==
  ASSUME TypeOK, TaskInv, NEW u \in Tasks, cur = TaskItem(u), cur' = NextItem, mpc' = "drain",
         NEW x, NEW kind \in {"final", "error"}, Send(x, kind),
         \/ x = u /\ (kind = "error" \/ Kids(u) = {})
         \/ x \in Kids(u) /\ kind = "error",
         UNCHANGED <<queueVars, slots, waiting, answered, rpc>>
  PROVE  TaskInv'
<1>1. InHand(u) /\ Single(u) /\ MainAgrees /\ cur.id = u
  BY DEF TaskInv, TasksAgree, InHand, TaskItem
<1>2. HandStep({u}) /\ CancelsKept /\ ~ InHand(u)'
  BY <1>1, HandDropped DEF Single
<1>3. SlotStep({})
  BY SlotsQuiet
<1>4. MainAgrees'
  BY <1>1 DEF MainAgrees
<1>5. ~ Placed(u)'
  BY <1>1, <1>2, <1>3 DEF SlotStep, Single, Placed
<1>6. Sends(x, kind) /\ MaySend(x, kind)
  BY <1>1, <1>5 DEF Sends, MaySend, Placed
<1>7. PICK q \in Readers : u \in Elems(TasksOf[q])
  BY <1>1 DEF TaskInv, TasksAgree
<1>8. ASSUME NEW r \in Readers, NEW t \in Ids(r), t = u \/ u \in ParentsOf(t)
      PROVE  (kind = "final" /\ x = t) \/ (kind = "error" /\ x \in Ids(r))
  <2>1. u \in Ids(q) /\ Kids(u) \subseteq Ids(q)
    BY <1>7, Owner
  <2>2. t \in Ids(q) /\ (t = u \/ t \in Kids(u))
    BY <1>8, <2>1 DEF ParentsOf
  <2>3. q = r
    BY <2>2, IdsAreUnique
  <2> QED BY <2>1, <2>2, <2>3
<1>9. Answers({u}, {}, x, kind)
  BY <1>8 DEF Answers
<1> QED BY <1>2, <1>3, <1>4, <1>6, <1>9, StepKept

\* The popped task and its children are bound to slots; or some of the children
\* are, and an error of one of the family is sent.
LEMMA BindKept ==
  ASSUME TypeOK, TaskInv, NEW u \in Tasks, cur = TaskItem(u), cur' = NextItem,
         mpc' \in {"drain", "undo"}, NEW s \in Slots \ Processing, NEW n \in Nat,
         NEW f \in ChildSlots(u, s), slots' = Launched(u, s, f, n),
         UNCHANGED <<queueVars, waiting, answered, rpc>>,
         NEW x \in {u} \cup Kids(u),
         \/ n > Len(Info[u].kids) /\ results' = results
         \/ Send(x, "error")
  PROVE  TaskInv'
<1>1. InHand(u) /\ Single(u) /\ MainAgrees /\ cur.id = u /\ TasksAgree
  BY DEF TaskInv, TasksAgree, InHand, TaskItem
<1>2. HandStep({u}) /\ CancelsKept /\ ~ InHand(u)'
  BY <1>1, HandDropped DEF Single
<1>3. \A k \in Kids(u) : k \in Tasks /\ ~ Placed(k) /\ ~ Finished(k)
  BY <1>1, KidsType DEF TaskInv, TasksAgree, ChildrenUnborn
<1>4. /\ \A t \in Tasks : OneSlot(t) =>
            /\ OneSlot(t)'
            /\ InSlot(t)' <=> InSlot(t) \/ t \in Bound(u, n)
      /\ \A y \in Slots : slots'[y].task = NoTask <=> slots'[y].state = "idle"
  <2>1. ~ InSlot(u) /\ u \notin Kids(u) /\ \A k \in Kids(u) : ~ InSlot(k)
    BY <1>1, <1>3 DEF Single, Placed
  <2> QED BY <1>1, <2>1, SlotsLaunched
<1>5. /\ Bound(u, n) \subseteq {u} \cup Kids(u)
      /\ n > Len(Info[u].kids) => Bound(u, n) = {u} \cup Kids(u)
  BY BoundType
<1>6. Sends(x, "error") /\ MaySend(x, "error")
  BY <1>1 DEF Sends, MaySend, Placed
<1>7. ASSUME NEW t \in Tasks
      PROVE  /\ OnceInHand(t)' /\ OneSlot(t)'
             /\ InHand(t)' <=> InHand(t) /\ t # u
             /\ InSlot(t)' <=> InSlot(t) \/ t \in Bound(u, n)
             /\ Finished(t)' => Finished(t)
  <2>1. Single(t)
    BY DEF TaskInv, TasksAgree
  <2>2. Finished(t)' => Finished(t)
    BY <1>6, FinishedBySend
  <2> QED BY <2>1, <2>2, <1>2, <1>4 DEF Single, HandStep
<1>8. PICK q \in Readers : u \in Elems(TasksOf[q])
  BY <1>1 DEF TaskInv, TasksAgree
<1>9. u \in Ids(q) /\ Kids(u) \subseteq Ids(q)
  BY <1>8, Owner
<1>10. TasksAgree'
  <2>1. ASSUME NEW t \in Tasks
        PROVE  Single(t)' /\ (Finished(t)' => ~ Placed(t)')
    <3>1. Single(t) /\ (Finished(t) => ~ Placed(t))
      BY DEF TaskInv, TasksAgree
    <3>2. InSlot(t)' => ~ InHand(t)'
      BY <3>1, <1>3, <1>5, <1>7 DEF Single, Placed
    <3>3. Finished(t) => ~ Placed(t)'
      BY <3>1, <1>1, <1>3, <1>5, <1>7 DEF Placed
    <3> QED BY <3>2, <3>3, <1>7 DEF Single
  <2>2. ASSUME NEW p \in Tasks, InHand(p)', NEW k \in Kids(p)
        PROVE  ~ Placed(k)' /\ ~ Finished(k)'
    <3>1. InHand(p) /\ p # u /\ k \in Tasks
      BY <2>2, <1>7, KidsType
    <3>2. ~ Placed(k) /\ ~ Finished(k)
      BY <3>1 DEF TaskInv, TasksAgree, ChildrenUnborn
    <3>3. k # u /\ k \notin Kids(u)
      BY <3>1, <3>2, <1>1, IdsAreUnique DEF Placed
    <3> QED BY <3>1, <3>2, <3>3, <1>5, <1>7 DEF Placed
  <2>3. ASSUME NEW t \in Tasks, InHand(t)'
        PROVE  \E r \in Readers : t \in Elems(TasksOf[r])
    BY <2>3, <1>7 DEF TaskInv, TasksAgree
  <2> QED BY <2>1, <2>2, <2>3 DEF TasksAgree, ChildrenUnborn
<1>11. ResultsInOrder' /\ MainAgrees'
  <2>1. ResultsInOrder'
    BY <1>1, <1>6, ResultsKept DEF TaskInv
  <2> QED BY <1>1, <1>4, <2>1 DEF MainAgrees
<1>12. ASSUME NEW r \in Readers
       PROVE  ReaderAgrees(r)' /\ Accounted(r)'
  <2>0. ReaderAgrees(r) /\ Accounted(r) /\ Ids(r) \subseteq Tasks
    BY IdsType DEF TaskInv
  <2>1. ASSUME rpc[r] \in {"start", "sleepwait", "parsing", "registered"}, NEW t \in Ids(r)
        PROVE  ~ Placed(t)' /\ ~ Finished(t)'
    <3>1. \A v \in Ids(r) : ~ Placed(v) /\ ~ Finished(v)
      BY <2>0, <2>1 DEF ReaderAgrees
    <3>2. u \notin Ids(r)
      BY <3>1, <1>1 DEF Placed
    <3>3. q # r
      BY <3>2, <1>9
    <3>4. t # u /\ t \notin Kids(u)
      BY <3>2, <3>3, <1>9, IdsAreUnique
    <3> QED BY <2>0, <3>1, <3>4, <1>5, <1>7 DEF Placed
  <2>2. \A t \in Ids(r) : Cancelled(t)' => rpc[r] = "closed"
    BY <2>0, <1>2 DEF CancelsKept, ReaderAgrees
  <2>3. rpc[r] \in {"start", "sleepwait", "parsing", "cancelling", "closed"} =>
           \A i \in DOMAIN results' : results'[i].id \notin Ids(r)
    BY <2>0, <1>6, UnclaimedKept
  <2>4. ReaderAgrees(r)'
    BY <2>0, <2>1, <2>2, <2>3 DEF ReaderAgrees
  <2>5. ASSUME rpc[r] = "receiving", NEW t \in Ids(r) \ answered[r]
        PROVE  \/ Placed(t)' \/ Sent(t, "final")'
               \/ \E p \in ParentsOf(t) : InHand(p)'
               \/ \E y \in Ids(r) : Sent(y, "error")'
    <3>0. Ids(r) \subseteq waiting
      BY <2>0, <2>5 DEF ReaderAgrees
    <3>1. CASE t = u \/ t \in Kids(u)
      <4>1. q = r
        BY <3>1, <1>9, IdsAreUnique
      <4>2. CASE Send(x, "error")
        <5>1. x \in Ids(r)
          BY <4>1, <1>9
        <5>2. Sent(x, "error")'
          BY <3>0, <4>2, <5>1, <1>6, SendElems
        <5> QED BY <5>1, <5>2
      <4>3. CASE n > Len(Info[u].kids)
        BY <2>0, <3>1, <4>3, <1>5, <1>7 DEF Placed
      <4> QED BY <4>2, <4>3
    <3>2. CASE Placed(t) /\ t # u
      BY <2>0, <3>2, <1>7 DEF Placed
    <3>3. CASE (\E p \in ParentsOf(t) : InHand(p)) /\ t \notin Kids(u)
      <4>1. PICK p \in Tasks : t \in Kids(p) /\ InHand(p)
        BY <3>3 DEF ParentsOf
      <4>2. p # u
        BY <3>3, <4>1
      <4> QED BY <4>1, <4>2, <1>7 DEF ParentsOf
    <3>4. CASE Sent(t, "final") \/ \E y \in Ids(r) : Sent(y, "error")
      BY <2>0, <3>4, <1>6, FinishedBySend
    <3> QED BY <2>0, <2>5, <3>1, <3>2, <3>3, <3>4 DEF Accounted
  <2>6. Accounted(r)'
    BY <2>5 DEF Accounted, ParentsOf
  <2> QED BY <2>4, <2>6
<1> QED BY <1>10, <1>11, <1>12 DEF TaskInv

\* What a refused launch does.
LEMMA RefusalIs ==
  ASSUME TypeOK, ProcessSingleTask, LaunchFails
  PROVE  \E u \in Tasks : \E s \in Slots \ Processing : \E f \in ChildSlots(u, s) :
         \E n \in Nat : \E x \in {u} \cup Kids(u) :
           /\ cur = TaskItem(u) /\ cur' = NextItem /\ mpc' \in {"drain", "undo"}
           /\ n <= Len(Info[u].kids) /\ slots' = Launched(u, s, f, n) /\ Send(x, "error")
           /\ todo' = {f[i] : i \in 1 .. n} /\ 1 .. n \subseteq DOMAIN f
           /\ UNCHANGED <<queueVars, waiting, answered, rpc, sleeping>>
<1>1. PICK u \in Tasks : cur.id = u /\ cur = TaskItem(u)
  BY DEF LaunchFails, TypeOK, Items, NextItem, TaskItem
<1>2. PICK s \in Slots \ Processing : \E f \in ChildSlots(u, s) : \E n \in 0 .. Len(f) :
        /\ slots' = Launched(u, s, f, n)
        /\ todo' = {f[i] : i \in 1 .. n}
        /\ Send(IF n = Len(f) THEN u ELSE Info[u].kids[n+1], "error")
  BY <1>1 DEF LaunchFails
<1>3. PICK f \in ChildSlots(u, s) : \E n \in 0 .. Len(f) :
        /\ slots' = Launched(u, s, f, n)
        /\ todo' = {f[i] : i \in 1 .. n}
        /\ Send(IF n = Len(f) THEN u ELSE Info[u].kids[n+1], "error")
  BY <1>2
<1>4. PICK n \in 0 .. Len(f) :
        /\ slots' = Launched(u, s, f, n)
        /\ todo' = {f[i] : i \in 1 .. n}
        /\ Send(IF n = Len(f) THEN u ELSE Info[u].kids[n+1], "error")
  BY <1>3
<1>5. /\ Len(f) = Len(Info[u].kids) /\ Len(f) \in Nat /\ DOMAIN f = 1 .. Len(f)
      /\ DOMAIN Info[u].kids = DOMAIN f
  BY ChildSlotsType DEF ChildSlots
<1>6. PICK x : x = IF n = Len(f) THEN u ELSE Info[u].kids[n+1]
  OBVIOUS
<1>7. x \in {u} \cup Kids(u)
  <2>1. CASE n = Len(f)
    BY <1>6, <2>1
  <2>2. CASE n # Len(f)
    <3>1. n + 1 \in DOMAIN Info[u].kids
      BY <1>5, <2>2
    <3> QED BY <1>6, <2>2, <3>1 DEF Kids, Elems
  <2> QED BY <2>1, <2>2
<1>8. n \in Nat /\ n <= Len(Info[u].kids) /\ 1 .. n \subseteq DOMAIN f
  BY <1>5
<1>9. /\ cur' = NextItem /\ mpc' \in {"drain", "undo"}
      /\ UNCHANGED <<queueVars, waiting, answered, rpc, sleeping>>
  BY DEF ProcessSingleTask, LaunchFails, sleepVars, readerVars
<1>10. Send(x, "error")
  BY <1>4, <1>6
<1> QED BY <1>1, <1>4, <1>7, <1>8, <1>9, <1>10

LEMMA ProcessKept ==
  ASSUME TypeOK, TaskInv, ProcessSingleTask
  PROVE  TaskInv'
<1>1. /\ cur' = NextItem /\ UNCHANGED <<answered, rpc, sleeping>>
      /\ LaunchFails \/ mpc' = "drain"
      /\ MainAgrees /\ TasksAgree
  BY DEF ProcessSingleTask, readerVars, sleepVars, TaskInv
<1>9. CASE LaunchFails
  <2>1. PICK u \in Tasks : \E s \in Slots \ Processing : \E f \in ChildSlots(u, s) :
         \E n \in Nat : \E x \in {u} \cup Kids(u) :
           /\ cur = TaskItem(u) /\ cur' = NextItem /\ mpc' \in {"drain", "undo"}
           /\ slots' = Launched(u, s, f, n) /\ Send(x, "error")
           /\ UNCHANGED <<queueVars, waiting, answered, rpc>>
    BY <1>9, RefusalIs
  <2> QED BY <2>1, BindKept
<1>10. SUFFICES ASSUME mpc' = "drain"
                PROVE  LaunchFails \/ TaskInv'
  BY <1>1, <1>9
<1>2. ASSUME cur.type = "task"
      PROVE  cur.id \in Tasks /\ cur = TaskItem(cur.id)
  BY <1>2 DEF TypeOK, Items, NextItem, TaskItem
<1>3. ASSUME UNCHANGED slots
      PROVE  MainAgrees' /\ SlotStep({})
  BY <1>1, <1>3, <1>10, SlotsQuiet DEF MainAgrees
<1>4. ASSUME NEW u \in Tasks, cur = TaskItem(u), Defer(u), UNCHANGED <<queue, slots, resultVars>>
      PROVE  TaskInv'
  <2>1. HandStep({}) /\ CancelsKept
    BY <1>1, <1>4, HandDeferred
  <2> QED BY <1>1, <1>3, <1>4, <2>1, QuietKept DEF resultVars
<1>5. CASE ProcessCompletion
  <2>1. PICK u \in Tasks : cur.id = u /\ cur = TaskItem(u)
    BY <1>2, <1>5 DEF ProcessCompletion
  <2>2. CASE DeferCompletion
    BY <1>4, <2>1, <2>2 DEF DeferCompletion
  <2>3. CASE LaunchCompletion
    <3>1. PICK s \in Slots \ Processing : \E f \in ChildSlots(u, s) :
             slots' = Launched(u, s, f, Len(f) + 1) /\ UNCHANGED <<queueVars, resultVars>>
      BY <2>1, <2>3 DEF LaunchCompletion
    <3>2. PICK f \in ChildSlots(u, s) :
             slots' = Launched(u, s, f, Len(f) + 1) /\ UNCHANGED <<queueVars, resultVars>>
      BY <3>1
    <3>3. PICK n \in Nat : n = Len(f) + 1 /\ n > Len(Info[u].kids)
      BY ChildSlotsType
    <3>4. slots' = Launched(u, s, f, n) /\ UNCHANGED <<queueVars, waiting, results>>
      BY <3>2, <3>3 DEF resultVars
    <3>5. u \in {u} \cup Kids(u)
      OBVIOUS
    <3> QED BY <1>1, <1>10, <2>1, <3>3, <3>4, <3>5, BindKept
  <2>4. CASE TokenizeFails
    <3>1. Send(u, "error") /\ UNCHANGED <<queueVars, waiting, slots>>
      BY <2>1, <2>4 DEF TokenizeFails, slotVars
    <3> QED BY <1>1, <1>10, <2>1, <3>1, DropKept
  <2> QED BY <1>5, <2>2, <2>3, <2>4 DEF ProcessCompletion
<1>6. CASE ProcessSlotAction \/ ProcessQuery
  <2>1. PICK u \in Tasks : cur.id = u /\ cur = TaskItem(u)
    BY <1>2, <1>6 DEF ProcessSlotAction, ProcessQuery
  <2>2. Kids(u) = {}
    BY <1>6, <2>1, ConstantsAssumption DEF ProcessSlotAction, ProcessQuery, Kids, Elems
  <2>3. UNCHANGED <<waiting, slots>>
    BY <1>6 DEF ProcessSlotAction, ProcessQuery, slotVars
  <2>4. \/ Defer(u) /\ UNCHANGED <<queue, results>>
        \/ \E kind \in {"final", "error"} : Send(u, kind) /\ UNCHANGED queueVars
    BY <1>6, <2>1 DEF ProcessSlotAction, ProcessQuery
  <2>5. CASE Defer(u) /\ UNCHANGED <<queue, results>>
    BY <1>4, <2>1, <2>3, <2>5 DEF resultVars
  <2>6. CASE \E kind \in {"final", "error"} : Send(u, kind) /\ UNCHANGED queueVars
    BY <1>1, <1>10, <2>1, <2>2, <2>3, <2>6, DropKept
  <2> QED BY <2>4, <2>5, <2>6
<1>7. CASE ProcessCancel
  <2>1. PICK u \in Tasks : cur.id = u /\ cur = CancelItem(u)
    BY <1>7 DEF ProcessCancel, TypeOK, Items, NextItem, CancelItem
  <2>2. UNCHANGED <<waiting, results>>
    BY <1>7 DEF ProcessCancel, resultVars
  <2>3. CASE \E s \in Slots : slots[s].task = u
    <3>1. PICK s \in Slots : slots[s].task = u /\ Release(s)
      BY <1>7, <2>1, <2>3 DEF ProcessCancel
    <3>2. slots' = [slots EXCEPT ![s] = IdleSlot] /\ PopDeferredTask(s)
      BY <3>1, ReleaseType DEF Release
    <3>3. HandStep({}) /\ CancelsKept
      BY <1>1, <1>7, <3>2, HandReleased DEF ProcessCancel
    <3>4. SlotStep({u})
      BY <3>1, <3>2, SlotReleased
    <3>5. MainAgrees'
      <4>1. \A x \in Slots : slots'[x].task = NoTask <=> slots'[x].state = "idle"
        BY <1>1, <3>2, SlotsAgree
      <4> QED BY <1>1, <1>10, <4>1 DEF MainAgrees
    <3>6. \A r \in Readers : rpc[r] = "receiving" => u \notin Ids(r)
      BY <2>1 DEF TaskInv, ReaderAgrees, Cancelled
    <3>7. Sends(NoTask, "partial") /\ MaySend(NoTask, "partial") /\ Answers({}, {u}, NoTask, "partial")
      BY <2>2, <3>6 DEF Sends, MaySend, Answers
    <3> QED BY <1>1, <2>2, <3>3, <3>4, <3>5, <3>7, StepKept
  <2>4. CASE ~ \E s \in Slots : slots[s].task = u
    <3>1. UNCHANGED <<queueVars, slots>> /\ cur.type # "task"
      BY <1>7, <2>1, <2>4 DEF ProcessCancel, slotVars
    <3>2. HandStep({}) /\ CancelsKept
      BY <1>1, <3>1, HandDropped
    <3> QED BY <1>1, <1>3, <2>2, <3>1, <3>2, QuietKept
  <2> QED BY <2>3, <2>4
<1>8. CASE ProcessNextResponse
  <2>1. UNCHANGED <<queueVars, slots, waiting, results>> /\ cur.type # "task"
    BY <1>8 DEF ProcessNextResponse, slotVars, resultVars
  <2>2. HandStep({}) /\ CancelsKept
    BY <1>1, <2>1, HandDropped
  <2> QED BY <1>1, <1>3, <2>1, <2>2, QuietKept
<1> QED BY <1>5, <1>6, <1>7, <1>8 DEF ProcessSingleTask

LEMMA DecodeKept ==
  ASSUME TypeOK, TaskInv, NEW s \in Slots, KeepGoing(s) \/ DecodeStep(s)
  PROVE  TaskInv'
<1>1. /\ s \in Decodable /\ slots[s].state # "idle"
      /\ UNCHANGED <<waiting, answered, rpc, mpc, sleeping, cur>>
  BY DEF KeepGoing, DecodeStep, PromptDone, SlotFinal, EmptyPrompt, SlotError, Visit,
         Decodable, sleepVars, readerVars, resultVars
<1>2. MainAgrees /\ TasksAgree
  BY DEF TaskInv
<1>3. CASE KeepGoing(s)
  <2>1. UNCHANGED <<queueVars, slots, results>>
    BY <1>3 DEF KeepGoing, slotVars, resultVars
  <2>2. HandStep({}) /\ CancelsKept /\ SlotStep({}) /\ MainAgrees'
    BY <1>1, <1>2, <2>1, HandQuiet, SlotsQuiet DEF MainAgrees
  <2> QED BY <1>1, <2>1, <2>2, QuietKept
<1>4. CASE PromptDone(s)
  <2>1. PICK t \in Tasks : t = slots[s].task /\ InSlot(t)
    BY <1>1, <1>2, BusySlot
  <2>2. UNCHANGED queueVars /\ Send(t, "partial")
    BY <1>4, <2>1 DEF PromptDone
  <2>3. \A x \in Slots : /\ slots'[x].task = slots[x].task
                         /\ slots'[x].state = "idle" <=> slots[x].state = "idle"
    BY <1>1, <1>4 DEF PromptDone, TypeOK, SlotRecords
  <2>4. HandStep({}) /\ CancelsKept /\ SlotStep({})
    BY <1>1, <2>2, <2>3, HandQuiet, SlotsQuiet
  <2>5. MainAgrees'
    BY <1>1, <1>2, <2>3 DEF MainAgrees
  <2>6. Sends(t, "partial") /\ MaySend(t, "partial") /\ Answers({}, {}, t, "partial")
    BY <2>1, <2>2 DEF Sends, MaySend, Answers, Placed
  <2> QED BY <1>1, <2>4, <2>5, <2>6, StepKept
<1>5. CASE SlotFinal(s) \/ EmptyPrompt(s) \/ SlotError(s)
  <2>1. PICK kind \in {"final", "error"} : Send(slots[s].task, kind) /\ Release(s)
    BY <1>5 DEF SlotFinal, EmptyPrompt, SlotError
  <2> QED BY <1>1, <2>1, EndKept
<1> QED BY <1>3, <1>4, <1>5 DEF DecodeStep

\* A launched child is released; its request has been told.
LEMMA UndoneKept ==
  ASSUME TypeOK, TaskInv, RefusedInv, ReleaseLaunched
  PROVE  TaskInv'
<1>1. PICK s \in Slots : s \in todo /\ Release(s)
  BY DEF ReleaseLaunched, TypeOK
<1>2. /\ UNCHANGED <<answered, rpc, waiting, results, sleeping, cur>>
      /\ mpc = "undo" /\ mpc' \in {"drain", "undo"}
  BY DEF ReleaseLaunched, sleepVars, resultVars, readerVars
<1>3. slots[s].state = "wait_other" /\ MainAgrees /\ cur = NextItem
  BY <1>1, <1>2 DEF RefusedInv, TaskInv, MainAgrees
<1>4. PICK t \in Tasks : t = slots[s].task /\ InSlot(t) /\ OneSlot(t)
  BY <1>3, BusySlot DEF TaskInv, TasksAgree, Single
<1>5. PICK q \in Readers : t \in Ids(q) /\ Excused(q)
  BY <1>1, <1>2, <1>4 DEF RefusedInv
<1>6. slots' = [slots EXCEPT ![s] = IdleSlot] /\ PopDeferredTask(s)
  BY <1>1, ReleaseType DEF Release
<1>7. HandStep({}) /\ CancelsKept
  BY <1>2, <1>6, HandReleased
<1>8. SlotStep({t})
  BY <1>4, <1>6, SlotReleased
<1>9. MainAgrees'
  <2>1. \A x \in Slots : slots'[x].task = NoTask <=> slots'[x].state = "idle"
    BY <1>3, <1>6, SlotsAgree
  <2> QED BY <1>2, <1>3, <2>1 DEF MainAgrees
<1>10. Sends(t, "error") /\ MaySend(t, "error")
  BY <1>2 DEF Sends, MaySend
<1>11. Answers({}, {t}, t, "error")
  <2> SUFFICES ASSUME NEW r \in Readers, rpc[r] = "receiving", t \in Ids(r)
               PROVE  \E y \in Ids(r) : Sent(y, "error")
    BY DEF Answers
  <2>1. q = r
    BY <1>5, IdsAreUnique
  <2> QED BY <2>1, <1>5 DEF Excused
<1> QED BY <1>2, <1>7, <1>8, <1>9, <1>10, <1>11, StepKept

LEMMA MainKept ==
  ASSUME TypeOK, TaskInv, RefusedInv, SleepInv, MainStep \/ StartAbort \/ GoToSleep \/ Terminate
  PROVE  TaskInv'
<1>1. MainAgrees
  BY DEF TaskInv
<1> USE DEF queueVars, sleepVars, resultVars, readerVars, mainVars, slotVars
<1>2. CASE PopTask
  <2>1. UNCHANGED <<answered, rpc, waiting, results, slots, sleeping>> /\ mpc' = "process" /\ mpc = "drain"
    BY <1>2 DEF PopTask
  <2>2. HandStep({}) /\ CancelsKept
    BY <1>1, <1>2, <2>1, HandPopped DEF MainAgrees
  <2>3. SlotStep({}) /\ MainAgrees'
    BY <1>1, <2>1, SlotsQuiet DEF MainAgrees
  <2> QED BY <2>1, <2>2, <2>3, QuietKept
<1>3. CASE \/ Drained \/ ExitLoop \/ UpdateIdle \/ WakeForTask \/ StartAbort \/ UpdateDone
           \/ GoToSleep \/ Terminate
  <2>1. /\ UNCHANGED <<queueVars, cur, answered, rpc, waiting, results, slots>>
        /\ mpc' = "process" => mpc = "process"
        /\ mpc = "process" => mpc' = "process"
        /\ mpc' = "asleep" => sleeping'
    BY <1>1, <1>3 DEF Drained, ExitLoop, UpdateIdle, WakeForTask, StartAbort, UpdateDone,
                      GoToSleep, Terminate, MainAgrees
  <2>2. HandStep({}) /\ CancelsKept
    BY <2>1, HandQuiet
  <2>3. SlotStep({}) /\ MainAgrees'
    BY <1>1, <2>1, SlotsQuiet DEF MainAgrees
  <2> QED BY <2>1, <2>2, <2>3, QuietKept
<1>4. CASE PostNextResponse
  <2>1. UNCHANGED <<cur, deferred, answered, rpc, waiting, results, slots>> /\ mpc' = "decode" /\ mpc = "update"
    BY <1>4 DEF PostNextResponse
  <2>2. HandStep({}) /\ CancelsKept
    BY <1>4, <2>1, HandNext DEF PostNextResponse
  <2>3. SlotStep({}) /\ MainAgrees'
    BY <1>1, <2>1, SlotsQuiet DEF MainAgrees
  <2> QED BY <2>1, <2>2, <2>3, QuietKept
<1>5. CASE AbortSlot
  <2>1. PICK s \in Slots : slots[s].state # "idle" /\ Send(slots[s].task, "error") /\ Release(s)
    BY <1>5 DEF AbortSlot, Processing, IsProcessing
  <2> QED BY <1>5, <2>1, EndKept DEF AbortSlot
<1>6. CASE MainNotified
  <2>1. /\ UNCHANGED <<queueVars, cur, answered, rpc, waiting, results>>
        /\ mpc = "asleep" /\ mpc' \in {"drain", "asleep"}
        /\ mpc' = "asleep" => sleeping' = sleeping
        /\ slots' = slots \/ slots' = [s \in Slots |-> IdleSlot]
    BY <1>6 DEF MainNotified
  <2>2. \A s \in Slots : slots[s].state = "idle" /\ slots[s].task = NoTask
    BY <1>1, <2>1 DEF MainAgrees, SleepInv, AsleepIsBlocked, Processing, IsProcessing
  <2>3. \A s \in Slots : slots'[s].state = "idle" /\ slots'[s].task = NoTask
    BY <2>1, <2>2 DEF IdleSlot
  <2>4. SlotStep({})
    BY <2>2, <2>3, SlotsQuiet
  <2>5. MainAgrees'
    <3>1. cur' = NextItem /\ mpc' # "process"
      BY <1>1, <2>1 DEF MainAgrees
    <3>2. mpc' = "asleep" => sleeping'
      <4>1. sleeping
        BY <1>1, <2>1 DEF MainAgrees
      <4>2. mpc' = "asleep" => sleeping' = sleeping
        BY <2>1
      <4> QED BY <4>1, <4>2
    <3>3. \A s \in Slots : slots'[s].task = NoTask <=> slots'[s].state = "idle"
      BY <2>3
    <3> QED BY <3>1, <3>2, <3>3 DEF MainAgrees
  <2>6. HandStep({}) /\ CancelsKept
    BY <2>1, HandQuiet
  <2> QED BY <2>1, <2>4, <2>5, <2>6, QuietKept
<1>7. CASE ProcessSingleTask
  BY <1>7, ProcessKept
<1>8. CASE \E s \in Slots : KeepGoing(s) \/ DecodeStep(s)
  BY <1>8, DecodeKept
<1>9. CASE ReleaseLaunched
  BY <1>9, UndoneKept
<1> QED BY <1>2, <1>3, <1>4, <1>5, <1>6, <1>7, <1>8, <1>9 DEF MainStep

-----------------------------------------------------------------------------
(* HTTP handlers                                                           *)

\* Nothing but the state of one handler and the waiting list changes.
LEMMA HandlerKept ==
  ASSUME TypeOK, TaskInv, NEW r \in Readers, NEW v, v # "receiving", rpc' = [rpc EXCEPT ![r] = v],
         UNCHANGED <<queueVars, cur, mpc, sleeping, slots, results, answered>>,
         \A q \in Readers \ {r} : Ids(q) \cap waiting' = Ids(q) \cap waiting,
         ReaderAgrees(r)'
  PROVE  TaskInv'
<1>1. UNCHANGED <<queue, deferred, cur, mpc, sleeping, slots, results, answered>>
  BY DEF queueVars
<1>2. \A t : /\ Placed(t)' <=> Placed(t)
             /\ InHand(t)' <=> InHand(t)
             /\ Finished(t)' <=> Finished(t)
             /\ Cancelled(t)' <=> Cancelled(t)
             /\ Single(t)' <=> Single(t)
  BY <1>1 DEF Placed, InHand, InSlot, Finished, Sent, Cancelled, Single, OnceInHand, OneSlot
<1>3. TasksAgree' /\ ResultsInOrder' /\ MainAgrees'
  BY <1>1, <1>2 DEF TaskInv, TasksAgree, ResultsInOrder, MainAgrees, ChildrenUnborn
<1>4. ASSUME NEW q \in Readers, q # r
      PROVE  ReaderAgrees(q)' /\ Accounted(q)'
  <2>1. ReaderAgrees(q) /\ Accounted(q) /\ rpc'[q] = rpc[q]
    BY <1>4 DEF TaskInv, TypeOK
  <2>2. Ids(q) \cap waiting' = Ids(q) \cap waiting
    BY <1>4
  <2>3. ReaderAgrees(q)'
    BY <1>1, <1>2, <2>1, <2>2 DEF ReaderAgrees
  <2>4. Accounted(q)'
    BY <1>1, <1>2, <2>1 DEF Accounted, Sent, ParentsOf
  <2> QED BY <2>3, <2>4
<1>5. Accounted(r)'
  <2>1. rpc'[r] = v
    BY DEF TypeOK
  <2> QED BY <2>1 DEF Accounted
<1> QED BY <1>3, <1>4, <1>5 DEF TaskInv

LEMMA PostKept ==
  ASSUME TypeOK, TaskInv, NEW r \in Readers, PostTasks(r)
  PROVE  TaskInv'
<1> DEFINE P == Elems(TasksOf[r])
<1>1. /\ rpc[r] = "registered" /\ rpc' = [rpc EXCEPT ![r] = "receiving"]
      /\ UNCHANGED <<deferred, cur, mpc, sleeping, slots, results, answered, waiting>>
  BY DEF PostTasks, sleepVars, resultVars, mainVars, slotVars
<1>2. \A t \in Ids(r) : t \in Tasks /\ ~ Placed(t) /\ ~ Finished(t)
  BY <1>1, IdsType DEF TaskInv, ReaderAgrees
<1>3. P \subseteq Ids(r)
  BY DEF Ids
<1>4. /\ \A t \in Tasks : OnceInHand(t) =>
            /\ OnceInHand(t)'
            /\ InHand(t)' <=> InHand(t) \/ t \in P
      /\ CancelsKept
  <2>1. \A t \in P : ~ InHand(t)
    BY <1>2, <1>3 DEF Placed
  <2> QED BY <2>1, HandPosted
<1> HIDE DEF P
<1>5. ASSUME NEW t \in Tasks
      PROVE  /\ OnceInHand(t)' /\ OneSlot(t)'
             /\ InHand(t)' <=> InHand(t) \/ t \in P
             /\ InSlot(t)' <=> InSlot(t)
             /\ Finished(t)' <=> Finished(t)
  <2>1. Single(t)
    BY DEF TaskInv, TasksAgree
  <2> QED BY <2>1, <1>1, <1>4 DEF Single, OneSlot, InSlot, Finished, Sent
<1>6. TasksAgree'
  <2>1. ASSUME NEW t \in Tasks
        PROVE  /\ Single(t)' /\ (Finished(t)' => ~ Placed(t)')
               /\ InHand(t)' => \E q \in Readers : t \in Elems(TasksOf[q])
    <3>1. Single(t) /\ (Finished(t) => ~ Placed(t))
      BY DEF TaskInv, TasksAgree
    <3>2. t \in P => ~ Placed(t) /\ ~ Finished(t)
      BY <1>2, <1>3
    <3>3. InHand(t) => \E q \in Readers : t \in Elems(TasksOf[q])
      BY DEF TaskInv, TasksAgree
    <3> QED BY <3>1, <3>2, <3>3, <1>5 DEF Single, Placed, P
  <2>2. ASSUME NEW p \in Tasks, InHand(p)', NEW k \in Kids(p)
        PROVE  ~ Placed(k)' /\ ~ Finished(k)'
    <3>1. k \in Tasks /\ k \notin P
      BY KidsType, IdsAreUnique DEF P
    <3>2. ~ Placed(k) /\ ~ Finished(k)
      <4>1. CASE InHand(p)
        BY <4>1 DEF TaskInv, TasksAgree, ChildrenUnborn
      <4>2. CASE p \in P
        <5>1. k \in Ids(r)
          BY <4>2, Owner DEF P
        <5> QED BY <5>1, <1>2
      <4> QED BY <2>2, <4>1, <4>2, <1>5
    <3> QED BY <3>1, <3>2, <1>5 DEF Placed
  <2> QED BY <2>1, <2>2 DEF TasksAgree, ChildrenUnborn
<1>7. ResultsInOrder' /\ MainAgrees'
  BY <1>1 DEF TaskInv, ResultsInOrder, MainAgrees
<1>8. ASSUME NEW q \in Readers, q # r
      PROVE  ReaderAgrees(q)' /\ Accounted(q)'
  <2>1. /\ ReaderAgrees(q) /\ Accounted(q) /\ rpc'[q] = rpc[q]
        /\ Ids(q) \subseteq Tasks /\ Ids(q) \cap P = {}
    BY <1>1, <1>3, <1>8, IdsType, IdsAreUnique DEF TaskInv, TypeOK
  <2>2. \A t \in Ids(q) : /\ Placed(t)' <=> Placed(t)
                          /\ Finished(t)' <=> Finished(t)
                          /\ Cancelled(t)' => Cancelled(t)
    BY <1>4, <1>5, <2>1 DEF Placed, CancelsKept
  <2>3. ReaderAgrees(q)'
    BY <1>1, <2>1, <2>2 DEF ReaderAgrees
  <2>4. \A p \in Tasks : InHand(p) => InHand(p)'
    BY <1>5
  <2>5. Accounted(q)'
    BY <1>1, <2>1, <2>2, <2>4 DEF Accounted, Sent, ParentsOf
  <2> QED BY <2>3, <2>5
<1>9. ReaderAgrees(r)'
  <2>1. rpc'[r] = "receiving" /\ ReaderAgrees(r)
    BY <1>1 DEF TypeOK, TaskInv
  <2>2. \A t \in Ids(r) : ~ Cancelled(t)'
    BY <1>1, <1>2, <1>4, <2>1 DEF CancelsKept, ReaderAgrees
  <2> QED BY <1>1, <2>1, <2>2 DEF ReaderAgrees
<1>10. Accounted(r)'
  <2> SUFFICES ASSUME NEW t \in Ids(r)
               PROVE  Placed(t)' \/ \E p \in ParentsOf(t) : InHand(p)'
    BY DEF Accounted, ParentsOf
  <2>1. CASE t \in P
    BY <1>2, <1>5, <2>1 DEF Placed
  <2>2. CASE t \notin P
    <3>1. PICK p \in P : t \in Kids(p)
      BY <2>2 DEF Ids, P
    <3>2. p \in Tasks
      BY <1>2, <1>3
    <3> QED BY <3>1, <3>2, <1>5 DEF ParentsOf
  <2> QED BY <2>1, <2>2
<1> QED BY <1>6, <1>7, <1>8, <1>9, <1>10 DEF TaskInv

\* The results of a reader change, and its handler's state: other readers see
\* neither.
LEMMA OthersKept ==
  ASSUME TypeOK, TaskInv, NEW r \in Readers, NEW q \in Readers, q # r,
         rpc'[q] = rpc[q], answered'[q] = answered[q], UNCHANGED waiting,
         \A t \in Ids(q) : /\ Placed(t)' <=> Placed(t)
                           /\ Cancelled(t)' => Cancelled(t)
                           /\ Finished(t)' => Finished(t),
         \A p \in Tasks : InHand(p) /\ p \notin Ids(r) => InHand(p)',
         Elems(results') \subseteq Elems(results),
         \A x \in Elems(results) : x.id \notin Ids(r) => x \in Elems(results')
  PROVE  ReaderAgrees(q)' /\ Accounted(q)'
<1>1. ReaderAgrees(q) /\ Accounted(q) /\ Ids(q) \subseteq Tasks /\ Ids(q) \cap Ids(r) = {}
  BY IdsType, IdsAreUnique DEF TaskInv
<1>2. \A i \in DOMAIN results' : \E j \in DOMAIN results : results'[i] = results[j]
  BY DEF Elems
<1>3. ReaderAgrees(q)'
  BY <1>1, <1>2 DEF ReaderAgrees
<1>4. \A t \in Ids(q) : \A k : Sent(t, k) => Sent(t, k)'
  BY <1>1 DEF Sent, Result
<1>5. \A t \in Ids(q) : \A p \in ParentsOf(t) : InHand(p) => InHand(p)'
  <2> SUFFICES ASSUME NEW t \in Ids(q), NEW p \in Tasks, t \in Kids(p), InHand(p)
               PROVE  p \notin Ids(r)
    BY DEF ParentsOf
  <2>1. PICK o \in Readers : p \in Elems(TasksOf[o])
    BY DEF TaskInv, TasksAgree
  <2>2. p \in Ids(o) /\ t \in Ids(o)
    BY <2>1, Owner
  <2>3. o = q
    BY <2>2, IdsAreUnique
  <2> QED BY <1>1, <2>2, <2>3
<1>6. Accounted(q)'
  BY <1>1, <1>4, <1>5 DEF Accounted, ParentsOf
<1> QED BY <1>3, <1>6

\* Taking results out keeps their order, and finishes no task.
LEMMA OrderKept ==
  ASSUME TypeOK, ResultsInOrder, results' \in Seq(Results), Embeds(results', results)
  PROVE  /\ \A i, j \in DOMAIN results' :
              results'[i].kind = "final" /\ results'[j].id = results'[i].id => j <= i
         /\ UNCHANGED answered => ResultsInOrder'
<1>1. PICK e \in [DOMAIN results' -> DOMAIN results] :
        /\ \A i \in DOMAIN results' : results'[i] = results[e[i]]
        /\ \A i, j \in DOMAIN results' : i < j => e[i] < e[j]
  BY DEF Embeds
<1>2. /\ DOMAIN results' = 1 .. Len(results') /\ Len(results') \in Nat
      /\ DOMAIN results = 1 .. Len(results) /\ Len(results) \in Nat
  BY LenProperties DEF TypeOK
<1>3. ASSUME NEW i \in DOMAIN results', NEW j \in DOMAIN results',
             results'[i].kind = "final", results'[j].id = results'[i].id
      PROVE  j <= i
  <2>1. e[j] <= e[i] /\ e[i] \in Nat /\ e[j] \in Nat
    BY <1>1, <1>2, <1>3 DEF ResultsInOrder
  <2>2. ~ (e[i] < e[j])
    BY <2>1
  <2>3. ~ (i < j)
    BY <1>1, <2>2
  <2> QED BY <1>2, <2>3
<1>4. UNCHANGED answered => ResultsInOrder'
  BY <1>1, <1>3 DEF ResultsInOrder
<1> QED BY <1>3, <1>4

\* Places are only left, and no task is finished.
LEMMA TasksAgreeFewer ==
  ASSUME TasksAgree, NEW D, HandStep(D), SlotStep({}),
         \A t \in Tasks : Finished(t)' => Finished(t)
  PROVE  /\ TasksAgree'
         /\ \A t \in Tasks : /\ Placed(t)' => Placed(t)
                             /\ Placed(t) /\ t \notin D => Placed(t)'
<1>1. ASSUME NEW t \in Tasks
      PROVE  /\ Single(t)'
             /\ InHand(t)' => InHand(t)
             /\ InSlot(t)' <=> InSlot(t)
             /\ InHand(t) /\ t \notin D => InHand(t)'
  <2>1. Single(t)
    BY DEF TasksAgree
  <2> QED BY <2>1 DEF Single, HandStep, SlotStep
<1>2. \A t \in Tasks : /\ Placed(t)' => Placed(t)
                       /\ Placed(t) /\ t \notin D => Placed(t)'
  BY <1>1 DEF Placed
<1>3. TasksAgree'
  <2>1. \A p \in Tasks : \A k \in Kids(p) : k \in Tasks
    BY KidsType
  <2> QED BY <1>1, <1>2, <2>1 DEF TasksAgree, ChildrenUnborn
<1> QED BY <1>2, <1>3

LEMMA ReceiveKept ==
  ASSUME TypeOK, TypeOK', TaskInv, NEW r \in Readers, ReceiveResult(r)
  PROVE  TaskInv'
<1>1. /\ rpc[r] = "receiving"
      /\ UNCHANGED <<queueVars, cur, mpc, sleeping, slots, waiting>>
  BY DEF ReceiveResult, sleepVars, mainVars, slotVars
<1>2. PICK i \in DOMAIN results :
        /\ results[i].id \in Ids(r)
        /\ \A j \in 1 .. i-1 : results[j].id \notin Ids(r)
        /\ results' = RemoveAt(results, i)
        /\ rpc' = IF results[i].kind = "error" THEN [rpc EXCEPT ![r] = "stopping"] ELSE rpc
        /\ answered' = IF results[i].kind = "final"
                       THEN [answered EXCEPT ![r] = @ \cup {results[i].id}] ELSE answered
  BY DEF ReceiveResult, RemoveAt
<1> DEFINE y == results[i]
<1>3. /\ results \in Seq(Results) /\ DOMAIN results = 1 .. Len(results) /\ Len(results) \in Nat
      /\ y \in Results /\ y = Result(y.id, y.kind) /\ y \in Elems(results)
  <2>1. results \in Seq(Results) /\ DOMAIN results = 1 .. Len(results) /\ Len(results) \in Nat
    BY LenProperties DEF TypeOK
  <2>2. y \in Results /\ y \in Elems(results)
    BY <2>1 DEF Elems
  <2> QED BY <2>1, <2>2 DEF Results, Result
<1>4. /\ results' \in Seq(Results) /\ Embeds(results', results)
      /\ \A k \in DOMAIN results' : \E j \in DOMAIN results : j # i /\ results'[k] = results[j]
      /\ \A j \in DOMAIN results : j # i => results[j] \in Elems(results')
  <2>1. results' \in Seq(Results)
    BY DEF TypeOK
  <2>2. i \in DOMAIN results /\ results' = RemoveAt(results, i)
    BY <1>2
  <2>3. results \in Seq(Results)
    BY <1>3
  <2> DEFINE w == RemoveAt(results, i)
  <2>4. /\ Embeds(w, results)
        /\ \A k \in DOMAIN w : \E j \in DOMAIN results : j # i /\ w[k] = results[j]
        /\ \A j \in DOMAIN results : j # i => results[j] \in Elems(w)
    BY <2>2, <2>3, RemoveAtEmbeds
  <2> HIDE DEF w
  <2>5. results' = w
    BY <2>2 DEF w
  <2> QED BY <2>1, <2>4, <2>5
<1>5. /\ Elems(results') \subseteq Elems(results)
      /\ \A x \in Elems(results) : x # y => x \in Elems(results')
  BY <1>4 DEF Elems
<1>6. /\ answered'[r] = IF y.kind = "final" THEN answered[r] \cup {y.id} ELSE answered[r]
      /\ \A q \in Readers \ {r} : answered'[q] = answered[q] /\ rpc'[q] = rpc[q]
      /\ rpc'[r] = IF y.kind = "error" THEN "stopping" ELSE "receiving"
  BY <1>1, <1>2 DEF TypeOK
<1>7. ASSUME NEW t \in Tasks, Finished(t)'
      PROVE  Finished(t)
  <2>1. CASE Sent(t, "final")'
    BY <2>1, <1>5 DEF Finished, Sent
  <2>2. CASE \E q \in Readers : t \in answered'[q]
    <3>1. (\E q \in Readers : t \in answered[q]) \/ (t = y.id /\ y.kind = "final")
      BY <2>2, <1>6
    <3> QED BY <3>1, <1>3 DEF Finished, Sent
  <2> QED BY <1>7, <2>1, <2>2 DEF Finished
<1>8. HandStep({}) /\ CancelsKept /\ SlotStep({})
  BY <1>1, HandQuiet, SlotsQuiet
<1>9. TasksAgree' /\ \A t \in Tasks : Placed(t)' <=> Placed(t)
  BY <1>7, <1>8, TasksAgreeFewer DEF TaskInv
<1>10. ResultsInOrder'
  <2>1. \A k, j \in DOMAIN results' :
          results'[k].kind = "final" /\ results'[j].id = results'[k].id => j <= k
    BY <1>4, OrderKept DEF TaskInv
  <2>2. ASSUME NEW q \in Readers, NEW k \in DOMAIN results', results'[k].id \in answered'[q]
        PROVE  FALSE
    <3>1. PICK j \in DOMAIN results : j # i /\ results'[k] = results[j]
      BY <1>4
    <3>2. results[j].id \notin answered[q]
      BY DEF TaskInv, ResultsInOrder
    <3>3. q = r /\ y.kind = "final" /\ results[j].id = y.id
      BY <2>2, <3>1, <3>2, <1>6
    <3>4. j <= i
      BY <3>3 DEF TaskInv, ResultsInOrder
    <3>5. j \in 1 .. i-1
      BY <3>1, <3>4, <1>3
    <3> QED BY <3>3, <3>5, <1>2
  <2> QED BY <2>1, <2>2 DEF ResultsInOrder
<1>11. MainAgrees'
  BY <1>1 DEF TaskInv, MainAgrees
<1>12. ASSUME NEW q \in Readers, q # r
       PROVE  ReaderAgrees(q)' /\ Accounted(q)'
  <2>1. Ids(q) \subseteq Tasks
    BY IdsType
  <2>2. \A x \in Elems(results) : x.id \notin Ids(r) => x \in Elems(results')
    BY <1>2, <1>5
  <2>3. \A p \in Tasks : InHand(p) => InHand(p)'
    BY <1>1 DEF InHand, queueVars
  <2>4. \A t \in Ids(q) : /\ Placed(t)' <=> Placed(t)
                          /\ Cancelled(t)' => Cancelled(t)
                          /\ Finished(t)' => Finished(t)
    BY <2>1, <1>7, <1>8, <1>9 DEF CancelsKept
  <2> QED BY <1>1, <1>5, <1>6, <1>12, <2>2, <2>3, <2>4, OthersKept
<1>13. ReaderAgrees(r)'
  <2>1. ReaderAgrees(r) /\ Ids(r) \subseteq Tasks
    BY IdsType DEF TaskInv
  <2>2. rpc'[r] \in {"receiving", "stopping"}
    BY <1>6
  <2>3. \A t \in Ids(r) : ~ Cancelled(t)'
    BY <1>1, <1>8, <2>1 DEF CancelsKept, ReaderAgrees
  <2> QED BY <1>1, <2>1, <2>2, <2>3 DEF ReaderAgrees
<1>14. Accounted(r)'
  <2> SUFFICES ASSUME rpc'[r] = "receiving", NEW t \in Ids(r), t \notin answered'[r]
               PROVE  \/ Placed(t)' \/ Sent(t, "final")'
                      \/ \E p \in ParentsOf(t) : InHand(p)'
                      \/ \E x \in Ids(r) : Sent(x, "error")'
    BY DEF Accounted, ParentsOf
  <2>1. t \in Tasks /\ t \notin answered[r] /\ y.kind # "error"
    BY <1>6, IdsType
  <2>2. \A x : Sent(x, "error") => Sent(x, "error")'
    BY <1>5, <2>1 DEF Sent, Result
  <2>3. Sent(t, "final") => Sent(t, "final")'
    <3>1. Result(t, "final") # y
      BY <1>6 DEF Result
    <3> QED BY <3>1, <1>5 DEF Sent
  <2>4. \A p : InHand(p) => InHand(p)'
    BY <1>1 DEF InHand, queueVars
  <2> QED BY <1>1, <1>9, <2>1, <2>2, <2>3, <2>4 DEF TaskInv, Accounted
<1> QED BY <1>9, <1>10, <1>11, <1>12, <1>13, <1>14 DEF TaskInv

LEMMA PurgeKept ==
  ASSUME TypeOK, TypeOK', TaskInv, NEW r \in Readers, StopPurge(r)
  PROVE  TaskInv'
<1> DEFINE R == [id : Ids(r), kind : {"partial", "final", "error"}]
<1>1. /\ rpc[r] = "purging" /\ rpc' = [rpc EXCEPT ![r] = "cancelling"]
      /\ results' = Without(results, R)
      /\ UNCHANGED <<queueVars, cur, mpc, sleeping, slots, waiting, answered>>
  BY DEF StopPurge, sleepVars, mainVars, slotVars
<1>2. results \in Seq(Results) /\ results' \in Seq(Results)
  BY DEF TypeOK
<1>3. Elems(results') = Elems(results) \ R /\ Embeds(results', results)
  BY <1>1, <1>2, WithoutElems, WithoutEmbeds
<1>4. /\ Elems(results') \subseteq Elems(results)
      /\ \A x \in Elems(results') : x.id \notin Ids(r)
      /\ \A x \in Elems(results) : x.id \notin Ids(r) => x \in Elems(results')
  <2>1. \A x \in Elems(results) : x \in Results
    BY <1>2, LenProperties DEF Elems
  <2>2. \A x \in Results : x \in R <=> x.id \in Ids(r)
    BY DEF Results
  <2> QED BY <1>3, <2>1, <2>2
<1> HIDE DEF R
<1>5. \A t \in Tasks : Finished(t)' => Finished(t)
  BY <1>1, <1>4 DEF Finished, Sent
<1>6. HandStep({}) /\ SlotStep({}) /\ CancelsKept
  BY <1>1, HandQuiet, SlotsQuiet
<1>7. TasksAgree' /\ \A t \in Tasks : Placed(t)' <=> Placed(t)
  BY <1>5, <1>6, TasksAgreeFewer DEF TaskInv
<1>8. ResultsInOrder'
  BY <1>1, <1>2, <1>3, OrderKept DEF TaskInv
<1>9. MainAgrees'
  BY <1>1 DEF TaskInv, MainAgrees
<1>10. ASSUME NEW q \in Readers, q # r
       PROVE  ReaderAgrees(q)' /\ Accounted(q)'
  <2>1. Ids(q) \subseteq Tasks
    BY IdsType
  <2>2. \A t \in Ids(q) : /\ Placed(t)' <=> Placed(t)
                          /\ Cancelled(t)' => Cancelled(t)
                          /\ Finished(t)' => Finished(t)
    BY <2>1, <1>5, <1>6, <1>7 DEF CancelsKept
  <2>3. \A p \in Tasks : InHand(p) => InHand(p)'
    BY <1>1 DEF InHand, queueVars
  <2>4. rpc'[q] = rpc[q] /\ answered'[q] = answered[q]
    BY <1>1, <1>10 DEF TypeOK
  <2> QED BY <1>1, <1>4, <1>10, <2>2, <2>3, <2>4, OthersKept
<1>11. ReaderAgrees(r)' /\ Accounted(r)'
  <2>1. rpc'[r] = "cancelling" /\ ReaderAgrees(r) /\ Ids(r) \subseteq Tasks
    BY <1>1, IdsType DEF TypeOK, TaskInv
  <2>2. Ids(r) \cap waiting' = {} /\ \A t \in Ids(r) : ~ Cancelled(t)
    BY <1>1, <2>1 DEF ReaderAgrees
  <2>3. \A i \in DOMAIN results' : results'[i].id \notin Ids(r)
    BY <1>4 DEF Elems
  <2>4. \A t \in Ids(r) : ~ Cancelled(t)'
    BY <1>6, <2>1, <2>2 DEF CancelsKept
  <2> QED BY <2>1, <2>2, <2>3, <2>4 DEF ReaderAgrees, Accounted
<1> QED BY <1>7, <1>8, <1>9, <1>10, <1>11 DEF TaskInv

LEMMA StopKept ==
  ASSUME TypeOK, TaskInv, NEW r \in Readers, StopCancel(r)
  PROVE  TaskInv'
<1>1. /\ rpc[r] = "cancelling" /\ rpc' = [rpc EXCEPT ![r] = "closed"]
      /\ UNCHANGED <<cur, mpc, sleeping, slots, waiting, results, answered>>
  BY DEF StopCancel, sleepVars, resultVars, mainVars, slotVars
<1>2. \A t \in Tasks : Finished(t)' => Finished(t)
  BY <1>1 DEF Finished, Sent
<1>3. /\ HandStep(Ids(r)) /\ SlotStep({})
      /\ \A t \in Tasks : Cancelled(t)' => Cancelled(t) \/ t \in Ids(r)
  BY <1>1, HandCancelled, SlotsQuiet
<1>4. /\ TasksAgree'
      /\ \A t \in Tasks : /\ Placed(t)' => Placed(t)
                          /\ Placed(t) /\ t \notin Ids(r) => Placed(t)'
  BY <1>2, <1>3, TasksAgreeFewer DEF TaskInv
<1>5. ResultsInOrder' /\ MainAgrees'
  BY <1>1 DEF TaskInv, ResultsInOrder, MainAgrees
<1>6. ASSUME NEW q \in Readers, q # r
      PROVE  ReaderAgrees(q)' /\ Accounted(q)'
  <2>1. Ids(q) \subseteq Tasks /\ Ids(q) \cap Ids(r) = {}
    BY <1>6, IdsType, IdsAreUnique
  <2>2. \A t \in Ids(q) : /\ Placed(t)' <=> Placed(t)
                          /\ Cancelled(t)' => Cancelled(t)
                          /\ Finished(t)' => Finished(t)
    BY <2>1, <1>2, <1>3, <1>4
  <2>3. \A p \in Tasks : InHand(p) /\ p \notin Ids(r) => InHand(p)'
    BY <1>3 DEF HandStep, TaskInv, TasksAgree, Single
  <2>4. rpc'[q] = rpc[q] /\ answered'[q] = answered[q]
    BY <1>1, <1>6 DEF TypeOK
  <2>5. Elems(results') = Elems(results)
    BY <1>1
  <2> QED BY <1>1, <1>6, <2>2, <2>3, <2>4, <2>5, OthersKept
<1>7. ReaderAgrees(r)' /\ Accounted(r)'
  <2>1. rpc'[r] = "closed" /\ ReaderAgrees(r)
    BY <1>1 DEF TypeOK, TaskInv
  <2>2. Ids(r) \cap waiting' = {} /\ \A i \in DOMAIN results' : results'[i].id \notin Ids(r)
    BY <1>1, <2>1 DEF ReaderAgrees
  <2> QED BY <2>1, <2>2 DEF ReaderAgrees, Accounted
<1> QED BY <1>4, <1>5, <1>6, <1>7 DEF TaskInv

\* Leaving the waiting list is done in one step of the handler, after which the
\* main thread drops what it sends to it.
LEMMA RemoveKept ==
  ASSUME TypeOK, TaskInv, NEW r \in Readers, StopRemove(r)
  PROVE  TaskInv'
<1> DEFINE v == IF HasNext(r) THEN "purging" ELSE "closed"
<1>1. /\ rpc[r] = "stopping" /\ rpc' = [rpc EXCEPT ![r] = v]
      /\ waiting' = waiting \ Ids(r)
      /\ UNCHANGED <<queueVars, cur, mpc, sleeping, slots, results, answered>>
  BY DEF StopRemove, sleepVars, mainVars, slotVars
<1>2. \A q \in Readers \ {r} : Ids(q) \cap waiting' = Ids(q) \cap waiting
  <2> SUFFICES ASSUME NEW q \in Readers \ {r} PROVE Ids(q) \cap waiting' = Ids(q) \cap waiting
    OBVIOUS
  <2>1. Ids(q) \cap Ids(r) = {}
    BY IdsAreUnique
  <2> QED BY <1>1, <2>1
<1>3. v \in {"purging", "closed"} /\ (v = "closed" => answered[r] = Ids(r))
  BY DEF HasNext
<1> HIDE DEF v
<1>4. ReaderAgrees(r)'
  <2>1. rpc'[r] = v /\ Ids(r) \cap waiting' = {} /\ UNCHANGED <<queue, cur, results>>
    BY <1>1 DEF TypeOK, queueVars
  <2>2. \A t \in Ids(r) : ~ Cancelled(t)'
    BY <1>1, <2>1 DEF TaskInv, ReaderAgrees, Cancelled
  <2>3. v = "closed" => \A i \in DOMAIN results' : results'[i].id \notin Ids(r)
    BY <1>3, <2>1 DEF TaskInv, ResultsInOrder
  <2> QED BY <1>3, <2>1, <2>2, <2>3 DEF ReaderAgrees
<1>5. v # "receiving"
  BY <1>3
<1> QED BY <1>1, <1>2, <1>4, <1>5, HandlerKept

\* The steps of a handler that touch neither the queues nor the results.
LEMMA WaitKept ==
  ASSUME TypeOK, TaskInv, NEW r \in Readers,
         \/ Arrive(r) \/ ReaderNotified(r) \/ BadRequest(r) \/ AddWaiting(r)
         \/ Disconnect(r) \/ AllReceived(r)
  PROVE  TaskInv'
<1> DEFINE quiet == UNCHANGED <<queueVars, cur, mpc, sleeping, slots, results, answered>>
<1>1. /\ quiet
      /\ UNCHANGED waiting \/ (rpc[r] = "parsing" /\ waiting' = waiting \cup Ids(r))
  BY DEF Arrive, ReaderNotified, BadRequest, AddWaiting, Disconnect, AllReceived,
         sleepVars, resultVars, mainVars, slotVars
<1>2. CASE UNCHANGED <<rpc, waiting>>
  <2>1. UNCHANGED <<queue, deferred, cur, mpc, sleeping, slots, results, answered, rpc, waiting>>
    BY <1>1, <1>2 DEF queueVars
  <2> QED BY <2>1 DEF TaskInv, TasksAgree, ResultsInOrder, MainAgrees, ChildrenUnborn, ReaderAgrees,
                      Accounted, ParentsOf, Placed, InHand, InSlot, Finished, Sent, Cancelled,
                      Single, OnceInHand, OneSlot
<1>3. CASE ~ UNCHANGED <<rpc, waiting>>
  <2>1. PICK v \in {"sleepwait", "parsing", "closed", "registered", "stopping"} :
          /\ rpc' = [rpc EXCEPT ![r] = v]
          /\ CASE v \in {"sleepwait", "parsing"} -> rpc[r] \in {"start", "sleepwait"} /\ UNCHANGED waiting
               [] v = "closed"     -> rpc[r] = "parsing" /\ UNCHANGED waiting
               [] v = "registered" -> rpc[r] = "parsing" /\ waiting' = waiting \cup Ids(r)
               [] v = "stopping"   -> rpc[r] = "receiving" /\ UNCHANGED waiting
    BY <1>3 DEF Arrive, ReaderNotified, BadRequest, AddWaiting, Disconnect, AllReceived, resultVars
  <2>2. \A q \in Readers \ {r} : Ids(q) \cap waiting' = Ids(q) \cap waiting
    <3> SUFFICES ASSUME NEW q \in Readers \ {r} PROVE Ids(q) \cap waiting' = Ids(q) \cap waiting
      OBVIOUS
    <3>1. Ids(q) \cap Ids(r) = {}
      BY IdsAreUnique
    <3> QED BY <1>1, <3>1
  <2>3. ReaderAgrees(r)'
    <3>1. rpc'[r] = v /\ ReaderAgrees(r)
      BY <2>1 DEF TypeOK, TaskInv
    <3>2. UNCHANGED <<queue, deferred, cur, slots, results, answered>>
      BY <1>1 DEF queueVars
    <3>3. \A t : /\ Placed(t)' <=> Placed(t)
                 /\ Finished(t)' <=> Finished(t)
                 /\ Cancelled(t)' <=> Cancelled(t)
      BY <3>2 DEF Placed, InHand, InSlot, Finished, Sent, Cancelled
    <3>4. \A i \in DOMAIN results' : results'[i] = results[i] /\ i \in DOMAIN results
      BY <3>2
    <3>5. CASE v \in {"sleepwait", "parsing"}
      BY <2>1, <3>1, <3>3, <3>4, <3>5 DEF ReaderAgrees
    <3>6. CASE v = "closed"
      BY <2>1, <3>1, <3>3, <3>4, <3>6 DEF ReaderAgrees
    <3>7. CASE v = "registered"
      BY <2>1, <3>1, <3>3, <3>4, <3>7 DEF ReaderAgrees
    <3>8. CASE v = "stopping"
      BY <2>1, <3>1, <3>3, <3>4, <3>8 DEF ReaderAgrees
    <3> QED BY <3>5, <3>6, <3>7, <3>8
  <2>4. v # "receiving"
    OBVIOUS
  <2> HIDE DEF quiet
  <2> QED BY <1>1, <2>1, <2>2, <2>3, <2>4, HandlerKept DEF quiet
<1> QED BY <1>2, <1>3

-----------------------------------------------------------------------------
(* A refused family is undone, and its request knows                       *)

LEMMA ExcusedKept ==
  ASSUME UNCHANGED rpc, Elems(results) \subseteq Elems(results')
  PROVE  \A r \in Readers : Excused(r) => Excused(r)'
BY DEF Excused, Sent

\* A failing task of a request that waits for it is reported to the request.
LEMMA ErrorExcuses ==
  ASSUME TypeOK, TaskInv, NEW r \in Readers, NEW v \in Ids(r), Placed(v),
         NEW t \in Ids(r), Send(t, "error"), UNCHANGED rpc
  PROVE  Excused(r)'
<1>1. ReaderAgrees(r) /\ rpc[r] \notin {"start", "sleepwait", "parsing", "registered"}
  BY DEF TaskInv, ReaderAgrees
<1>2. CASE rpc[r] = "receiving"
  <2>1. t \in waiting
    BY <1>1, <1>2 DEF ReaderAgrees
  <2>2. Sent(t, "error")'
    BY <2>1, SendElems DEF Sends
  <2> QED BY <2>2 DEF Excused
<1>3. CASE rpc[r] # "receiving"
  BY <1>1, <1>3 DEF Excused, TypeOK
<1> QED BY <1>2, <1>3

\* A handler does not forget that its request fails.
LEMMA ExcusedByReader ==
  ASSUME TypeOK, TypeOK', NEW r \in Readers, ReaderStep(r) \/ BadRequest(r) \/ Disconnect(r)
  PROVE  UNCHANGED slots /\ \A q \in Readers : Excused(q) => Excused(q)'
<1> DEFINE Ending == {"stopping", "purging", "cancelling", "closed"}
<1>1. UNCHANGED slots
  BY DEF ReaderStep, Arrive, ReaderNotified, BadRequest, AddWaiting, PostTasks, ReceiveResult,
         Disconnect, AllReceived, StopRemove, StopPurge, StopCancel, slotVars
<1>2. \A q \in Readers \ {r} : rpc'[q] = rpc[q]
  BY DEF ReaderStep, Arrive, ReaderNotified, BadRequest, AddWaiting, PostTasks, ReceiveResult,
         Disconnect, AllReceived, StopRemove, StopPurge, StopCancel, TypeOK
<1>3. CASE ReceiveResult(r)
  <2>1. PICK i \in DOMAIN results :
          /\ rpc[r] = "receiving"
          /\ results[i].id \in Ids(r)
          /\ results' = RemoveAt(results, i)
          /\ rpc' = IF results[i].kind = "error" THEN [rpc EXCEPT ![r] = "stopping"] ELSE rpc
    BY <1>3 DEF ReceiveResult, RemoveAt
  <2>2. \A j \in DOMAIN results : j # i => results[j] \in Elems(results')
    <3>1. results \in Seq(Results)
      BY DEF TypeOK
    <3> QED BY <2>1, <3>1, RemoveAtEmbeds
  <2>3. ASSUME NEW q \in Readers, Excused(q)
        PROVE  Excused(q)'
    <3>1. CASE rpc[q] \in Ending
      BY <1>2, <2>1, <3>1 DEF Excused
    <3>2. CASE \E x \in Ids(q) : Sent(x, "error")
      <4>1. PICK x \in Ids(q) : Sent(x, "error")
        BY <3>2
      <4>2. PICK j \in DOMAIN results : results[j] = Result(x, "error")
        BY <4>1 DEF Sent, Elems
      <4>3. CASE j # i
        BY <2>2, <4>2, <4>3 DEF Excused, Sent
      <4>4. CASE j = i
        <5>1. x \in Ids(r) /\ results[i].kind = "error"
          BY <2>1, <4>2, <4>4 DEF Result
        <5>2. q = r /\ rpc'[r] = "stopping"
          BY <2>1, <5>1, IdsAreUnique DEF TypeOK
        <5> QED BY <5>2 DEF Excused
      <4> QED BY <4>3, <4>4
    <3> QED BY <2>3, <3>1, <3>2 DEF Excused
  <2> QED BY <1>1, <2>3
<1>4. CASE StopPurge(r)
  <2> DEFINE R == [id : Ids(r), kind : {"partial", "final", "error"}]
  <2>1. results' = Without(results, R) /\ rpc'[r] = "cancelling"
    BY <1>4 DEF StopPurge, TypeOK
  <2>2. Elems(results') = Elems(results) \ R
    BY <2>1, WithoutElems DEF TypeOK
  <2>3. ASSUME NEW q \in Readers \ {r}, NEW x \in Ids(q), Sent(x, "error")
        PROVE  Sent(x, "error")'
    <3>1. x \notin Ids(r)
      BY IdsAreUnique
    <3> QED BY <2>2, <2>3, <3>1 DEF Sent, Result
  <2> HIDE DEF R
  <2>4. \A q \in Readers : Excused(q) => Excused(q)'
    BY <1>2, <2>1, <2>3 DEF Excused
  <2> QED BY <1>1, <2>4
<1>5. CASE ~ ReceiveResult(r) /\ ~ StopPurge(r)
  <2>1. UNCHANGED results /\ (rpc[r] \in Ending => rpc'[r] \in Ending)
    BY <1>5 DEF ReaderStep, Arrive, ReaderNotified, BadRequest, AddWaiting, PostTasks, Disconnect,
                AllReceived, StopRemove, StopCancel, TypeOK, resultVars
  <2>2. \A q \in Readers : Excused(q) => Excused(q)'
    BY <1>2, <2>1 DEF Excused, Sent
  <2> QED BY <1>1, <2>2
<1> QED BY <1>3, <1>4, <1>5

\* The slots of a refused family wait in the slots that are to be released, and
\* its request is excused.
LEMMA RefusedExcused ==
  ASSUME TypeOK, TaskInv, NEW u \in Tasks, cur = TaskItem(u),
         NEW s \in Slots \ Processing, NEW n \in Nat, n <= Len(Info[u].kids),
         NEW f \in ChildSlots(u, s), slots' = Launched(u, s, f, n),
         1 .. n \subseteq DOMAIN f, NEW x \in {u} \cup Kids(u), Send(x, "error"), UNCHANGED rpc
  PROVE  /\ \E q \in Readers : u \in Elems(TasksOf[q]) /\ Excused(q)'
         /\ \A i \in 1 .. n : slots'[f[i]].state = "wait_other" /\ slots'[f[i]].task \in Kids(u)
<1>1. InHand(u) /\ Single(u) /\ MainAgrees
  BY DEF TaskInv, TasksAgree, InHand
<1>2. PICK q \in Readers : u \in Elems(TasksOf[q])
  BY <1>1 DEF TaskInv, TasksAgree
<1>3. u \in Ids(q) /\ x \in Ids(q) /\ Placed(u)
  BY <1>1, <1>2, Owner DEF Placed
<1>4. Excused(q)'
  BY <1>3, ErrorExcuses
<1>5. ~ InSlot(u) /\ u \notin Kids(u) /\ \A k \in Kids(u) : ~ InSlot(k)
  BY <1>1, KidsType DEF Single, TaskInv, TasksAgree, ChildrenUnborn, Placed
<1>6. \A i \in DOMAIN f : i <= n =>
         slots'[f[i]].task = Info[u].kids[i] /\ slots'[f[i]].state = "wait_other"
  BY <1>1, <1>5, SlotsLaunched
<1>7. DOMAIN f = DOMAIN Info[u].kids
  BY DEF ChildSlots
<1>8. ASSUME NEW i \in 1 .. n
      PROVE  slots'[f[i]].state = "wait_other" /\ slots'[f[i]].task \in Kids(u)
  <2>1. i \in DOMAIN f /\ i <= n
    OBVIOUS
  <2> QED BY <2>1, <1>6, <1>7 DEF Kids, Elems
<1> QED BY <1>2, <1>4, <1>8

LEMMA RefusedInvStep ==
  TypeOK /\ TypeOK' /\ TaskInv /\ RefusedInv /\ [Next]_vars => RefusedInv'
<1> SUFFICES ASSUME TypeOK, TypeOK', TaskInv, RefusedInv, [Next]_vars, mpc' = "undo"
             PROVE  \A s \in todo' : /\ slots'[s].state = "wait_other"
                                     /\ \E r \in Readers : slots'[s].task \in Ids(r) /\ Excused(r)'
  BY DEF RefusedInv
<1>1. CASE ProcessSingleTask
  <2>1. LaunchFails
    BY <1>1 DEF ProcessSingleTask
  <2>2. PICK u \in Tasks : \E s \in Slots \ Processing : \E f \in ChildSlots(u, s) :
         \E n \in Nat : \E x \in {u} \cup Kids(u) :
           /\ cur = TaskItem(u) /\ n <= Len(Info[u].kids) /\ slots' = Launched(u, s, f, n)
           /\ Send(x, "error") /\ todo' = {f[i] : i \in 1 .. n} /\ 1 .. n \subseteq DOMAIN f
           /\ UNCHANGED rpc
    BY <1>1, <2>1, RefusalIs
  <2>3. PICK s \in Slots \ Processing : \E f \in ChildSlots(u, s) :
         \E n \in Nat : \E x \in {u} \cup Kids(u) :
           /\ cur = TaskItem(u) /\ n <= Len(Info[u].kids) /\ slots' = Launched(u, s, f, n)
           /\ Send(x, "error") /\ todo' = {f[i] : i \in 1 .. n} /\ 1 .. n \subseteq DOMAIN f
           /\ UNCHANGED rpc
    BY <2>2
  <2>4. PICK f \in ChildSlots(u, s) : \E n \in Nat : \E x \in {u} \cup Kids(u) :
           /\ cur = TaskItem(u) /\ n <= Len(Info[u].kids) /\ slots' = Launched(u, s, f, n)
           /\ Send(x, "error") /\ todo' = {f[i] : i \in 1 .. n} /\ 1 .. n \subseteq DOMAIN f
           /\ UNCHANGED rpc
    BY <2>3
  <2>5. PICK n \in Nat : \E x \in {u} \cup Kids(u) :
           /\ cur = TaskItem(u) /\ n <= Len(Info[u].kids) /\ slots' = Launched(u, s, f, n)
           /\ Send(x, "error") /\ todo' = {f[i] : i \in 1 .. n} /\ 1 .. n \subseteq DOMAIN f
           /\ UNCHANGED rpc
    BY <2>4
  <2>6. /\ \E q \in Readers : u \in Elems(TasksOf[q]) /\ Excused(q)'
        /\ \A i \in 1 .. n : slots'[f[i]].state = "wait_other" /\ slots'[f[i]].task \in Kids(u)
    BY <2>5, RefusedExcused
  <2> QED BY <2>5, <2>6, Owner
<1>2. CASE ReleaseLaunched
  <2>1. PICK s \in todo : Release(s) /\ todo' = todo \ {s}
    BY <1>2 DEF ReleaseLaunched
  <2>2. mpc = "undo" /\ UNCHANGED <<results, rpc>>
    BY <1>2 DEF ReleaseLaunched, resultVars, readerVars
  <2>3. slots' = [slots EXCEPT ![s] = IdleSlot] /\ s \in Slots
    BY <2>1, ReleaseType DEF Release, TypeOK
  <2>4. \A x \in todo \ {s} : x \in Slots /\ slots'[x] = slots[x]
    BY <2>3 DEF TypeOK
  <2>5. \A r \in Readers : Excused(r) => Excused(r)'
    BY <2>2, ExcusedKept
  <2> QED BY <2>1, <2>2, <2>4, <2>5 DEF RefusedInv
<1>3. CASE UNCHANGED <<mpc, todo, slots, results, rpc>>
  <2>1. \A r \in Readers : Excused(r) => Excused(r)'
    BY <1>3, ExcusedKept
  <2> QED BY <1>3, <2>1 DEF RefusedInv
<1>4. ASSUME NEW r \in Readers, ReaderStep(r) \/ BadRequest(r) \/ Disconnect(r)
      PROVE  \A s \in todo' : /\ slots'[s].state = "wait_other"
                              /\ \E q \in Readers : slots'[s].task \in Ids(q) /\ Excused(q)'
  <2>1. UNCHANGED <<mpc, todo>>
    BY <1>4 DEF ReaderStep, Arrive, ReaderNotified, BadRequest, AddWaiting, PostTasks, ReceiveResult,
           Disconnect, AllReceived, StopRemove, StopPurge, StopCancel, mainVars
  <2>2. UNCHANGED slots /\ \A q \in Readers : Excused(q) => Excused(q)'
    BY <1>4, ExcusedByReader
  <2> QED BY <2>1, <2>2 DEF RefusedInv
<1>5. \/ ProcessSingleTask \/ ReleaseLaunched \/ UNCHANGED <<mpc, todo, slots, results, rpc>>
      \/ \E r \in Readers : ReaderStep(r) \/ BadRequest(r) \/ Disconnect(r)
  <2>1. CASE MainStep \/ StartAbort \/ GoToSleep
    BY <2>1 DEF MainStep, PopTask, Drained, ExitLoop, UpdateIdle, PostNextResponse, KeepGoing,
         DecodeStep, PromptDone, SlotFinal, EmptyPrompt, SlotError, Visit, AbortSlot, UpdateDone,
         WakeForTask, MainNotified, StartAbort, GoToSleep, mainVars
  <2>2. CASE Terminate \/ UNCHANGED vars
    BY <2>2 DEF Terminate, vars, mainVars, slotVars, resultVars, readerVars
  <2> QED BY <2>1, <2>2 DEF Next
<1> QED BY <1>1, <1>2, <1>3, <1>4, <1>5

-----------------------------------------------------------------------------
(* The theorems                                                            *)

LEMMA TaskInvInit == Init => TaskInv
<1> SUFFICES ASSUME Init PROVE TaskInv
  OBVIOUS
<1>1. /\ DOMAIN queue = {} /\ DOMAIN deferred = {} /\ DOMAIN results = {}
      /\ Elems(queue) = {} /\ Elems(deferred) = {} /\ Elems(results) = {}
  BY DEF Init, Elems
<1>2. \A t \in Tasks : /\ ~ InHand(t) /\ ~ InSlot(t) /\ ~ Cancelled(t) /\ ~ Finished(t)
                       /\ cur # TaskItem(t)
  <2> SUFFICES ASSUME NEW t \in Tasks
               PROVE  /\ ~ InHand(t) /\ ~ InSlot(t) /\ ~ Cancelled(t) /\ ~ Finished(t)
                      /\ cur # TaskItem(t)
    OBVIOUS
  <2>1. cur # TaskItem(t) /\ cur # CancelItem(t)
    BY DEF Init, NextItem, TaskItem, CancelItem
  <2>2. \A s \in Slots : slots[s].task # t
    BY ConstantsAssumption DEF Init, IdleSlot
  <2>3. \A r \in Readers : answered[r] = {}
    BY DEF Init
  <2> QED BY <1>1, <2>1, <2>2, <2>3 DEF InHand, InSlot, Cancelled, Finished, Sent
<1>3. TasksAgree
  BY <1>1, <1>2 DEF TasksAgree, Single, OnceInHand, Once, OneSlot, ChildrenUnborn, InSlot
<1>4. ResultsInOrder
  BY <1>1 DEF ResultsInOrder
<1>5. MainAgrees
  BY DEF Init, MainAgrees, IdleSlot
<1>6. ASSUME NEW r \in Readers PROVE ReaderAgrees(r) /\ Accounted(r)
  <2>1. rpc[r] = "start" /\ waiting = {}
    BY DEF Init
  <2>2. Ids(r) \subseteq Tasks
    BY IdsType
  <2> QED BY <1>1, <1>2, <2>1, <2>2 DEF ReaderAgrees, Accounted, Placed
<1> QED BY <1>3, <1>4, <1>5, <1>6 DEF TaskInv

LEMMA TaskInvStep ==
  TypeOK /\ TypeOK' /\ SleepInv /\ TaskInv /\ RefusedInv /\ [Next]_vars => TaskInv'
<1> SUFFICES ASSUME TypeOK, TypeOK', SleepInv, TaskInv, RefusedInv, [Next]_vars PROVE TaskInv'
  OBVIOUS
<1>1. CASE MainStep \/ StartAbort \/ GoToSleep \/ Terminate
  BY <1>1, MainKept
<1>2. CASE \E r \in Readers : ReaderStep(r) \/ BadRequest(r) \/ Disconnect(r)
  <2>1. PICK r \in Readers : ReaderStep(r) \/ BadRequest(r) \/ Disconnect(r)
    BY <1>2
  <2>2. CASE PostTasks(r)
    BY <2>2, PostKept
  <2>3. CASE ReceiveResult(r)
    BY <2>3, ReceiveKept
  <2>4. CASE StopRemove(r)
    BY <2>4, RemoveKept
  <2>5. CASE StopCancel(r)
    BY <2>5, StopKept
  <2>6. CASE \/ Arrive(r) \/ ReaderNotified(r) \/ BadRequest(r) \/ AddWaiting(r)
             \/ Disconnect(r) \/ AllReceived(r)
    BY <2>6, WaitKept
  <2>7. CASE StopPurge(r)
    BY <2>7, PurgeKept
  <2> QED BY <2>1, <2>2, <2>3, <2>4, <2>5, <2>6, <2>7 DEF ReaderStep
<1>3. CASE UNCHANGED vars
  <2>1. UNCHANGED <<queue, deferred, cur, mpc, sleeping, slots, results, answered, rpc, waiting>>
    BY <1>3 DEF vars, queueVars, sleepVars, resultVars, readerVars, mainVars, slotVars
  <2> QED BY <2>1 DEF TaskInv, TasksAgree, ResultsInOrder, MainAgrees, ChildrenUnborn, ReaderAgrees,
                      Accounted, ParentsOf, Placed, InHand, InSlot, Finished, Sent, Cancelled,
                      Single, OnceInHand, OneSlot
<1> QED BY <1>1, <1>2, <1>3 DEF Next

LEMMA TrackedWithRefusals == Spec => [](TaskInv /\ RefusedInv)
<1>1. Init => RefusedInv
  BY DEF Init, RefusedInv
<1> QED BY <1>1, TaskInvInit, TaskInvStep, RefusedInvStep, TypeCorrect, SleepInvariant, PTL DEF Spec

\* TaskInv is an invariant: wherever the handlers and the main thread are, a
\* task is in one place, and no result of it is sent after the final one.
LEMMA TasksAreTracked == Spec => []TaskInv
<1> QED BY TrackedWithRefusals, PTL

LEMMA RefusalIsUndone == Spec => []RefusedInv
<1> QED BY TrackedWithRefusals, PTL

LEMMA AtMostOne ==
  ASSUME NEW S, \A a, b \in S : a = b
  PROVE  Cardinality(S) <= 1
<1>1. CASE S = {}
  BY <1>1, FS_EmptySet
<1>2. CASE S # {}
  <2>1. PICK a \in S : S = {a}
    BY <1>2
  <2> QED BY <2>1, FS_Singleton
<1> QED BY <1>1, <1>2

\* Places in terms of the invariant.
LEMMA PlacesOf ==
  ASSUME NEW t
  PROVE  /\ Places(t) = {} <=> ~ Placed(t)
         /\ InHand(t) => \E pl \in Places(t) : pl[1] # "slot"
<1> DEFINE Q == {<<"queue", i>> : i \in {j \in DOMAIN queue : queue[j] = TaskItem(t)}}
           D == {<<"deferred", i>> : i \in {j \in DOMAIN deferred : deferred[j] = t}}
           S == {<<"slot", s>> : s \in {x \in Slots : slots[x].task = t}}
           C == IF cur = TaskItem(t) THEN {<<"cur", 0>>} ELSE {}
<1>1. Places(t) = Q \cup D \cup S \cup C
  BY DEF Places
<1>2. Q # {} <=> TaskItem(t) \in Elems(queue)
  BY DEF Elems
<1>3. D # {} <=> t \in Elems(deferred)
  BY DEF Elems
<1>4. S # {} <=> InSlot(t)
  BY DEF InSlot
<1>5. C # {} <=> cur = TaskItem(t)
  OBVIOUS
<1>6. \A pl \in Q \cup D \cup C : pl[1] # "slot"
  OBVIOUS
<1> HIDE DEF Q, D, S, C
<1> QED BY <1>1, <1>2, <1>3, <1>4, <1>5, <1>6 DEF Placed, InHand

LEMMA TaskInvOnePlace == TaskInv => OnePlace
<1> SUFFICES ASSUME TaskInv, NEW t \in Tasks, NEW a \in Places(t), NEW b \in Places(t)
             PROVE  a = b
  BY AtMostOne DEF OnePlace
<1>1. Single(t)
  BY DEF TaskInv, TasksAgree
<1> DEFINE At(p) ==
      \/ \E i \in DOMAIN queue : p = <<"queue", i>> /\ queue[i] = TaskItem(t)
      \/ \E i \in DOMAIN deferred : p = <<"deferred", i>> /\ deferred[i] = t
      \/ \E s \in Slots : p = <<"slot", s>> /\ slots[s].task = t
      \/ p = <<"cur", 0>> /\ cur = TaskItem(t)
<1>2. At(a) /\ At(b)
  BY DEF Places
<1> QED BY <1>1, <1>2 DEF Single, OnceInHand, OneSlot, Once, InHand, InSlot, Elems

\* No task is ever in two places (OnePlace): whatever the order in which the
\* handlers post and cancel and the slots release, a task popped, deferred,
\* launched or dropped leaves the place it was in.
THEOREM TaskHasOnePlace == Spec => []OnePlace
<1> QED BY TaskInvOnePlace, TasksAreTracked, PTL

\* While a handler waits for its tasks (next), each of them has been answered,
\* or is somewhere, or its parent is still to be launched, or its result or an
\* error of the request is on its way (NoTaskLost): no post, deferral, release
\* or cancel of another request loses it.
THEOREM TaskIsNeverLost == Spec => []NoTaskLost
<1>1. TaskInv => NoTaskLost
  <2> SUFFICES ASSUME TaskInv, NEW r \in Readers, rpc[r] = "receiving", NEW t \in Ids(r) \ answered[r]
               PROVE  \/ Places(t) # {}
                      \/ QueuedResults(t, "final") # {}
                      \/ \E p \in ParentsOf(t) : \E pl \in Places(p) : pl[1] # "slot"
                      \/ \E x \in Ids(r) : QueuedResults(x, "error") # {}
    BY DEF NoTaskLost
  <2>1. \A x, k : Sent(x, k) <=> QueuedResults(x, k) # {}
    BY DEF Sent, Result, QueuedResults, Elems
  <2>2. \/ Placed(t) \/ Sent(t, "final")
        \/ \E p \in ParentsOf(t) : InHand(p)
        \/ \E x \in Ids(r) : Sent(x, "error")
    BY DEF TaskInv, Accounted
  <2> QED BY <2>1, <2>2, PlacesOf
<1> QED BY <1>1, TasksAreTracked, PTL

\* A task is answered once (NoDuplicateFinal, the assertion of wait_for_all):
\* its slot is released or its place given up when the final result is sent, and
\* nothing that is posted, popped or deferred later brings it back.
THEOREM TaskIsAnsweredOnce == Spec => []NoDuplicateFinal
<1>1. TypeOK /\ TaskInv => NoDuplicateFinal
  <2> SUFFICES ASSUME TypeOK, TaskInv, NEW r \in Readers, NEW t \in Ids(r)
               PROVE  /\ Cardinality(QueuedResults(t, "final")) <= 1
                      /\ (t \in answered[r] \/ QueuedResults(t, "final") # {}) =>
                           /\ Places(t) = {}
                           /\ t \in answered[r] => QueuedResults(t, "final") = {}
    BY DEF NoDuplicateFinal
  <2>1. t \in Tasks
    BY IdsType
  <2>2. ASSUME NEW i \in QueuedResults(t, "final"), NEW j \in QueuedResults(t, "final")
        PROVE  i = j
    <3>1. /\ i \in DOMAIN results /\ results[i].id = t /\ results[i].kind = "final"
          /\ j \in DOMAIN results /\ results[j].id = t /\ results[j].kind = "final"
      BY <2>2 DEF QueuedResults
    <3>2. DOMAIN results = 1 .. Len(results) /\ Len(results) \in Nat
      BY LenProperties DEF TypeOK
    <3>3. i <= j /\ j <= i
      BY <3>1 DEF TaskInv, ResultsInOrder
    <3> QED BY <3>1, <3>2, <3>3
  <2>3. Cardinality(QueuedResults(t, "final")) <= 1
    BY <2>2, AtMostOne
  <2>4. QueuedResults(t, "final") # {} => Sent(t, "final")
    BY DEF QueuedResults, Sent, Result, Elems
  <2>5. t \in answered[r] \/ QueuedResults(t, "final") # {} => Places(t) = {}
    BY <2>1, <2>4, PlacesOf DEF Finished, TaskInv, TasksAgree
  <2>6. t \in answered[r] => QueuedResults(t, "final") = {}
    BY DEF TaskInv, ResultsInOrder, QueuedResults
  <2> QED BY <2>3, <2>5, <2>6
<1> QED BY <1>1, TypeCorrect, TasksAreTracked, PTL

\* A handler that is gone leaves no waiting id and no result behind
\* (NothingLeftBehind): stop() leaves the waiting list before it purges, so what
\* the main thread sends between the two is dropped.
THEOREM HandlerLeavesNothing == Spec => []NothingLeftBehind
<1>1. TaskInv => NothingLeftBehind
  BY DEF TaskInv, ReaderAgrees, NothingLeftBehind
<1> QED BY <1>1, TasksAreTracked, PTL

-----------------------------------------------------------------------------
(* A child that waits is not forgotten by its parent                       *)

Started(p) == \E x \in Slots : slots[x].task = p /\ slots[x].state = "started"

\* A child waits for a posted task: one in a slot, unless the request is failing.
ChildInv ==
    \A s \in Slots : slots[s].state = "wait_other" =>
        \E r \in Readers : \E p \in Elems(TasksOf[r]) :
            slots[s].task \in Kids(p) /\ (Started(p) \/ Excused(r))

\* No child starts to wait.
LEMMA ChildKept ==
  ASSUME ChildInv,
         \A s \in Slots : slots'[s].state = "wait_other" =>
            slots[s].state = "wait_other" /\ slots'[s].task = slots[s].task,
         \A r \in Readers : Excused(r) => Excused(r)',
         \A r \in Readers : \A p \in Elems(TasksOf[r]) : Started(p) =>
            \/ Started(p)' \/ Excused(r)'
            \/ \A s \in Slots : slots'[s].state = "wait_other" => slots'[s].task \notin Kids(p)
  PROVE  ChildInv'
<1> SUFFICES ASSUME NEW s \in Slots, slots'[s].state = "wait_other"
             PROVE  \E r \in Readers : \E p \in Elems(TasksOf[r]) :
                       slots'[s].task \in Kids(p) /\ (Started(p)' \/ Excused(r)')
  BY DEF ChildInv
<1>1. slots[s].state = "wait_other" /\ slots'[s].task = slots[s].task
  OBVIOUS
<1>2. PICK r \in Readers : \E p \in Elems(TasksOf[r]) :
         slots[s].task \in Kids(p) /\ (Started(p) \/ Excused(r))
  BY <1>1 DEF ChildInv
<1>3. PICK p \in Elems(TasksOf[r]) : slots[s].task \in Kids(p) /\ (Started(p) \/ Excused(r))
  BY <1>2
<1>4. Started(p)' \/ Excused(r)'
  BY <1>1, <1>3
<1> QED BY <1>1, <1>3, <1>4

\* A slot is released: its task was no parent with waiting children, or the
\* request of these children is excused.
LEMMA ChildReleased ==
  ASSUME TypeOK, ChildInv, NEW s \in Slots, slots' = [slots EXCEPT ![s] = IdleSlot],
         UNCHANGED rpc, Elems(results) \subseteq Elems(results'),
         \A r \in Readers : slots[s].task \in Elems(TasksOf[r]) /\ slots[s].state = "started" =>
            Kids(slots[s].task) = {} \/ Excused(r)'
  PROVE  ChildInv'
<1>1. \A x \in Slots : slots'[x] = IF x = s THEN IdleSlot ELSE slots[x]
  BY DEF TypeOK
<1>2. \A x \in Slots : slots'[x].state = "wait_other" =>
         slots[x].state = "wait_other" /\ slots'[x].task = slots[x].task
  BY <1>1 DEF IdleSlot
<1>3. ASSUME NEW r \in Readers, NEW p \in Elems(TasksOf[r]), Started(p), ~ Started(p)'
      PROVE  Excused(r)' \/ Kids(p) = {}
  <2>1. PICK x \in Slots : slots[x].task = p /\ slots[x].state = "started"
    BY <1>3 DEF Started
  <2>2. x = s
    BY <1>1, <1>3, <2>1 DEF Started
  <2> QED BY <2>1, <2>2
<1> QED BY <1>2, <1>3, ExcusedKept, ChildKept

\* A family is launched, or a part of it that is refused.
LEMMA ChildLaunched ==
  ASSUME TypeOK, TaskInv, ChildInv, NEW u \in Tasks, cur = TaskItem(u), NEW n \in Nat,
         NEW s \in Slots \ Processing, NEW f \in ChildSlots(u, s), slots' = Launched(u, s, f, n),
         UNCHANGED rpc, Elems(results) \subseteq Elems(results'),
         n > Len(Info[u].kids) \/ \E q \in Readers : u \in Elems(TasksOf[q]) /\ Excused(q)'
  PROVE  ChildInv'
<1>1. InHand(u)
  BY DEF InHand
<1>2. PICK q \in Readers : u \in Elems(TasksOf[q])
  BY <1>1 DEF TaskInv, TasksAgree
<1>3. /\ DOMAIN f = DOMAIN Info[u].kids
      /\ \A i \in DOMAIN f : f[i] \in Slots /\ f[i] \notin Processing
  BY DEF ChildSlots
<1>4. \A x \in Processing : x # s /\ slots'[x] = slots[x]
  BY <1>3 DEF Launched, Processing
<1>5. Started(u)' \/ \E o \in Readers : u \in Elems(TasksOf[o]) /\ Excused(o)'
  <2>1. CASE n > Len(Info[u].kids)
    BY <2>1 DEF Started, Launched
  <2> QED BY <2>1
<1>6. ASSUME NEW x \in Slots, slots'[x].state = "wait_other", x \notin Processing
      PROVE  slots'[x].task \in Kids(u)
  <2>1. ~ (x = s /\ n > Len(Info[u].kids))
    BY <1>6 DEF Launched
  <2>2. slots[x].state = "idle"
    BY <1>6 DEF Processing, IsProcessing
  <2>3. PICK i \in DOMAIN f : i <= n /\ f[i] = x
    BY <1>6, <2>1, <2>2 DEF Launched
  <2>4. slots'[x].task = Info[u].kids[CHOOSE j \in DOMAIN f : f[j] = x]
    BY <2>1, <2>3 DEF Launched
  <2> QED BY <2>3, <2>4, <1>3 DEF Kids, Elems
<1>7. \A p : Started(p) => Started(p)'
  BY <1>4 DEF Started, Processing, IsProcessing
<1>8. \A r \in Readers : Excused(r) => Excused(r)'
  BY ExcusedKept
<1>9. ASSUME NEW x \in Processing, slots'[x].state = "wait_other"
      PROVE  \E r \in Readers : \E p \in Elems(TasksOf[r]) :
                slots'[x].task \in Kids(p) /\ (Started(p)' \/ Excused(r)')
  <2>1. PICK r \in Readers : \E p \in Elems(TasksOf[r]) :
           slots[x].task \in Kids(p) /\ (Started(p) \/ Excused(r))
    BY <1>4, <1>9 DEF ChildInv, Processing
  <2> QED BY <1>4, <2>1, <1>7, <1>8
<1> QED BY <1>2, <1>5, <1>6, <1>9 DEF ChildInv

\* The parent's prompt is done: its children wait no longer.
LEMMA ChildActivated ==
  ASSUME TypeOK, TaskInv, ChildInv, NEW s \in Slots, PromptDone(s)
  PROVE  ChildInv'
<1>1. \A x \in Slots :
        slots'[x] = IF x = s \/ (slots[x].state = "wait_other" /\ slots[x].task \in Kids(slots[s].task))
                    THEN [slots[x] EXCEPT !.state = "generating"] ELSE slots[x]
  BY DEF PromptDone
<1>2. \A x \in Slots : slots[x] \in SlotRecords
  BY DEF TypeOK
<1>3. \A x \in Slots : slots'[x].state = "wait_other" =>
         /\ slots[x].state = "wait_other" /\ slots'[x].task = slots[x].task
         /\ slots[x].task \notin Kids(slots[s].task)
  BY <1>1, <1>2 DEF SlotRecords
<1>4. ASSUME NEW p, Started(p), ~ Started(p)'
      PROVE  p = slots[s].task
  <2>1. PICK x \in Slots : slots[x].task = p /\ slots[x].state = "started"
    BY <1>4 DEF Started
  <2>2. x = s
    BY <1>1, <1>4, <2>1 DEF Started
  <2> QED BY <2>1, <2>2
<1>5. Elems(results) \subseteq Elems(results') /\ UNCHANGED rpc
  BY SendElems DEF PromptDone, Sends, Visit, readerVars
<1> QED BY <1>3, <1>4, <1>5, ExcusedKept, ChildKept

LEMMA ChildMain ==
  ASSUME TypeOK, TaskInv, RefusedInv, ChildInv, SleepInv, "empty" \notin Faults,
         MainStep \/ StartAbort \/ GoToSleep \/ Terminate
  PROVE  ChildInv'
<1>1. UNCHANGED rpc
  BY DEF MainStep, PopTask, ProcessSingleTask, LaunchFails, ReleaseLaunched, Drained,
         ExitLoop, UpdateIdle, PostNextResponse, KeepGoing, DecodeStep, PromptDone, SlotFinal, EmptyPrompt, SlotError, Visit, AbortSlot,
         UpdateDone, WakeForTask, MainNotified, StartAbort, GoToSleep, Terminate, readerVars
<1>2. ASSUME UNCHANGED slots, Elems(results) \subseteq Elems(results')
      PROVE  ChildInv'
  BY <1>1, <1>2, ExcusedKept, ChildKept DEF Started
<1>3. CASE ProcessSingleTask
  <2>1. CASE LaunchCompletion /\ cur.type = "task"
    <3>1. PICK u \in Tasks : cur.id = u /\ cur = TaskItem(u)
      BY <2>1 DEF TypeOK, Items, NextItem, TaskItem
    <3>2. PICK s \in Slots \ Processing : \E f \in ChildSlots(u, s) :
             slots' = Launched(u, s, f, Len(f) + 1) /\ UNCHANGED results
      BY <2>1, <3>1 DEF LaunchCompletion, resultVars
    <3>3. PICK f \in ChildSlots(u, s) : slots' = Launched(u, s, f, Len(f) + 1) /\ UNCHANGED results
      BY <3>2
    <3>4. PICK n \in Nat : n = Len(f) + 1 /\ n > Len(Info[u].kids)
      BY ChildSlotsType
    <3>5. slots' = Launched(u, s, f, n) /\ Elems(results) \subseteq Elems(results')
      BY <3>3, <3>4
    <3> QED BY <1>1, <3>1, <3>4, <3>5, ChildLaunched
  <2>6. CASE LaunchFails
    <3>1. PICK u \in Tasks : \E s \in Slots \ Processing : \E f \in ChildSlots(u, s) :
         \E n \in Nat : \E x \in {u} \cup Kids(u) :
           /\ cur = TaskItem(u) /\ n <= Len(Info[u].kids) /\ slots' = Launched(u, s, f, n)
           /\ Send(x, "error") /\ 1 .. n \subseteq DOMAIN f
      BY <1>3, <2>6, RefusalIs
    <3>2. PICK s \in Slots \ Processing : \E f \in ChildSlots(u, s) :
         \E n \in Nat : \E x \in {u} \cup Kids(u) :
           /\ cur = TaskItem(u) /\ n <= Len(Info[u].kids) /\ slots' = Launched(u, s, f, n)
           /\ Send(x, "error") /\ 1 .. n \subseteq DOMAIN f
      BY <3>1
    <3>3. PICK f \in ChildSlots(u, s) : \E n \in Nat : \E x \in {u} \cup Kids(u) :
           /\ cur = TaskItem(u) /\ n <= Len(Info[u].kids) /\ slots' = Launched(u, s, f, n)
           /\ Send(x, "error") /\ 1 .. n \subseteq DOMAIN f
      BY <3>2
    <3>4. PICK n \in Nat : \E x \in {u} \cup Kids(u) :
           /\ cur = TaskItem(u) /\ n <= Len(Info[u].kids) /\ slots' = Launched(u, s, f, n)
           /\ Send(x, "error") /\ 1 .. n \subseteq DOMAIN f
      BY <3>3
    <3>5. Elems(results) \subseteq Elems(results')
      BY <3>4, SendElems DEF Sends
    <3>6. \E q \in Readers : u \in Elems(TasksOf[q]) /\ Excused(q)'
      BY <1>1, <3>4, RefusedExcused
    <3> QED BY <1>1, <3>4, <3>5, <3>6, ChildLaunched
  <2>2. CASE \E s \in Slots : slots[s].task = cur.id /\ Release(s) /\ cur.type = "cancel" /\ UNCHANGED results
    <3>1. PICK s \in Slots : slots[s].task = cur.id /\ Release(s) /\ cur.type = "cancel" /\ UNCHANGED results
      BY <2>2
    <3>2. slots' = [slots EXCEPT ![s] = IdleSlot]
      BY <3>1, ReleaseType DEF Release
    <3>3. cur = CancelItem(cur.id)
      BY <3>1 DEF TypeOK, Items, NextItem, CancelItem
    <3>4. \A r \in Readers : slots[s].task \in Elems(TasksOf[r]) => Excused(r)'
      <4> SUFFICES ASSUME NEW r \in Readers, slots[s].task \in Elems(TasksOf[r]) PROVE Excused(r)'
        OBVIOUS
      <4>1. cur.id \in Ids(r)
        BY <3>1, Owner
      <4>2. rpc[r] = "closed"
        BY <3>3, <4>1 DEF TaskInv, ReaderAgrees, Cancelled
      <4> QED BY <1>1, <4>2 DEF Excused
    <3> QED BY <1>1, <3>1, <3>2, <3>4, ChildReleased
  <2>3. CASE UNCHANGED slots /\ Elems(results) \subseteq Elems(results')
    BY <2>3, <1>2
  <2>4. \/ LaunchCompletion /\ cur.type = "task"
        \/ LaunchFails
        \/ \E s \in Slots : slots[s].task = cur.id /\ Release(s) /\ cur.type = "cancel" /\ UNCHANGED results
        \/ UNCHANGED slots /\ (results' = results \/ \E x : \E k \in {"final", "error"} : Send(x, k))
    BY <1>3 DEF ProcessSingleTask, ProcessCompletion, DeferCompletion, TokenizeFails, ProcessQuery,
                ProcessSlotAction, ProcessCancel, ProcessNextResponse, slotVars, resultVars
  <2>5. ASSUME NEW x, NEW k \in {"final", "error"}, Send(x, k)
        PROVE  Elems(results) \subseteq Elems(results')
    BY <2>5, SendElems DEF Sends
  <2> QED BY <2>1, <2>2, <2>3, <2>4, <2>5, <2>6
<1>11. CASE ReleaseLaunched
  <2>1. PICK s \in Slots : s \in todo /\ Release(s)
    BY <1>11 DEF ReleaseLaunched, TypeOK
  <2>2. mpc = "undo" /\ UNCHANGED results
    BY <1>11 DEF ReleaseLaunched, resultVars
  <2>3. slots[s].state = "wait_other"
    BY <2>1, <2>2 DEF RefusedInv
  <2>4. slots' = [slots EXCEPT ![s] = IdleSlot]
    BY <2>1, ReleaseType DEF Release
  <2> QED BY <1>1, <2>2, <2>3, <2>4, ChildReleased
<1>4. CASE \E s \in Slots : PromptDone(s)
  BY <1>4, ChildActivated
<1>5. ASSUME NEW s \in Slots, slots[s].state # "idle", Release(s),
             NEW k \in {"final", "error"}, Send(slots[s].task, k),
             k = "final" => slots[s].state # "started" \/ Kids(slots[s].task) = {}
      PROVE  ChildInv'
  <2>1. slots' = [slots EXCEPT ![s] = IdleSlot]
    BY <1>5, ReleaseType DEF Release
  <2>2. Elems(results) \subseteq Elems(results')
    BY <1>5, SendElems DEF Sends
  <2>3. ASSUME NEW r \in Readers, slots[s].task \in Elems(TasksOf[r]), slots[s].state = "started"
        PROVE  Kids(slots[s].task) = {} \/ Excused(r)'
    <3>1. slots[s].task \in Ids(r)
      BY <2>3, Owner
    <3>2. Placed(slots[s].task)
      BY DEF Placed, InSlot
    <3>3. CASE k = "error"
      BY <1>1, <1>5, <3>1, <3>2, <3>3, ErrorExcuses
    <3> QED BY <1>5, <2>3, <3>3
  <2> QED BY <1>1, <2>1, <2>2, <2>3, ChildReleased
<1>6. CASE \E s \in Slots : SlotFinal(s) \/ SlotError(s)
  <2>1. PICK s \in Slots : SlotFinal(s) \/ SlotError(s)
    BY <1>6
  <2>2. slots[s].state # "idle" /\ Release(s)
    BY <2>1 DEF SlotFinal, SlotError, Visit, Decodable
  <2>3. CASE SlotFinal(s)
    BY <2>2, <2>3, <1>5 DEF SlotFinal
  <2>4. CASE SlotError(s)
    BY <2>2, <2>4, <1>5 DEF SlotError
  <2> QED BY <2>1, <2>3, <2>4
<1>7. CASE AbortSlot
  <2>1. PICK s \in Slots : slots[s].state # "idle" /\ Send(slots[s].task, "error") /\ Release(s)
    BY <1>7 DEF AbortSlot, Processing, IsProcessing
  <2> QED BY <2>1, <1>5
<1>8. CASE MainNotified
  <2>1. CASE UNCHANGED slots
    BY <1>8, <2>1, <1>2 DEF MainNotified, resultVars
  <2>2. CASE slots' = [s \in Slots |-> IdleSlot]
    BY <2>2 DEF ChildInv, IdleSlot
  <2> QED BY <1>8, <2>1, <2>2 DEF MainNotified
<1>9. CASE UNCHANGED <<slots, results>>
  BY <1>2, <1>9
<1>10. \/ ProcessSingleTask \/ ReleaseLaunched \/ AbortSlot \/ MainNotified
       \/ UNCHANGED <<slots, results>>
       \/ \E s \in Slots : PromptDone(s) \/ SlotFinal(s) \/ SlotError(s)
  BY DEF MainStep, PopTask, Drained, ExitLoop, UpdateIdle, PostNextResponse, KeepGoing, DecodeStep,
         EmptyPrompt, UpdateDone, WakeForTask, StartAbort, GoToSleep, Terminate, slotVars, resultVars
<1> QED BY <1>3, <1>4, <1>6, <1>7, <1>8, <1>9, <1>10, <1>11

LEMMA ChildReader ==
  ASSUME TypeOK, TypeOK', ChildInv, NEW r \in Readers,
         ReaderStep(r) \/ BadRequest(r) \/ Disconnect(r)
  PROVE  ChildInv'
<1>1. UNCHANGED slots /\ \A q \in Readers : Excused(q) => Excused(q)'
  BY ExcusedByReader
<1> QED BY <1>1, ChildKept DEF Started

\* A child's slot does not wait for a parent that is gone (WaitingChildHasParent)
\* unless the request is ending: a parent's slot is released before its prompt
\* is done on an error, which the request is told of, and on a cancel, and when
\* a family is refused halfway the error goes out before its children are
\* released.  The one other way, an empty prompt, is excluded; there the code leaves the child.
THEOREM ChildHasParent ==
  ASSUME "empty" \notin Faults
  PROVE  Spec => []WaitingChildHasParent
<1>1. Init => ChildInv
  BY DEF Init, ChildInv, IdleSlot
<1>2. TypeOK /\ TypeOK' /\ SleepInv /\ TaskInv /\ RefusedInv /\ ChildInv /\ [Next]_vars => ChildInv'
  <2> SUFFICES ASSUME TypeOK, TypeOK', SleepInv, TaskInv, RefusedInv, ChildInv, [Next]_vars
               PROVE  ChildInv'
    OBVIOUS
  <2>1. CASE MainStep \/ StartAbort \/ GoToSleep \/ Terminate
    BY <2>1, ChildMain
  <2>2. CASE \E r \in Readers : ReaderStep(r) \/ BadRequest(r) \/ Disconnect(r)
    BY <2>2, ChildReader
  <2>3. CASE UNCHANGED vars
    <3>1. UNCHANGED <<slots, results, rpc>>
      BY <2>3 DEF vars, slotVars, resultVars, readerVars
    <3> QED BY <3>1, ExcusedKept, ChildKept DEF Started
  <2> QED BY <2>1, <2>2, <2>3 DEF Next
<1>3. ChildInv => WaitingChildHasParent
  <2> SUFFICES ASSUME ChildInv, NEW s \in Slots, slots[s].state = "wait_other"
               PROVE  \/ \E x \in Slots : slots[x].state = "started" /\ slots[s].task \in Kids(slots[x].task)
                      \/ \E r \in Readers : /\ slots[s].task \in Ids(r)
                                            /\ \/ rpc[r] \in {"stopping", "purging", "cancelling", "closed"}
                                               \/ \E x \in Ids(r) : QueuedResults(x, "error") # {}
    BY DEF WaitingChildHasParent
  <2>1. PICK r \in Readers : \E p \in Elems(TasksOf[r]) :
           slots[s].task \in Kids(p) /\ (Started(p) \/ Excused(r))
    BY DEF ChildInv
  <2>2. PICK p \in Elems(TasksOf[r]) : slots[s].task \in Kids(p) /\ (Started(p) \/ Excused(r))
    BY <2>1
  <2>3. slots[s].task \in Ids(r)
    BY <2>2, Owner
  <2>4. \A x : Sent(x, "error") => QueuedResults(x, "error") # {}
    BY DEF Sent, Result, QueuedResults, Elems
  <2> QED BY <2>2, <2>3, <2>4 DEF Started, Excused
<1> QED BY <1>1, <1>2, <1>3, TypeCorrect, SleepInvariant, TasksAreTracked, RefusalIsUndone, PTL
        DEF Spec


-----------------------------------------------------------------------------
(* No task goes back                                                       *)

Stage == [t \in Requested |-> StageOf(t)]
Received == UNION {answered[r] : r \in Readers}

\* A task that is not bound to a slot waits in hand, or with its parent.
Waits(t) == InHand(t) \/ \E p \in ParentsOf(t) : InHand(p)

SameNew == \A t \in Requested : Unposted(t)' <=> Unposted(t)

LEMMA RequestedType == Requested \subseteq Tasks
BY IdsType DEF Requested

LEMMA PendingIsInHand ==
  ASSUME NEW t
  PROVE  Pending(t) <=> InHand(t)
<1>1. ASSUME NEW pl \in Places(t), pl[1] # "slot" PROVE InHand(t)
  BY <1>1 DEF Places, InHand, Elems
<1> QED BY <1>1, PlacesOf DEF Pending

\* The stages in terms of the invariant.
LEMMA StageView ==
  OnePlace => \A t \in Requested :
     StageOf(t) = IF InSlot(t) THEN "running"
                  ELSE IF Unposted(t) THEN "new"
                  ELSE IF Waits(t) THEN "waiting" ELSE "over"
BY RequestedType, PendingIsInHand DEF OnePlace, StageOf, InSlot, Waits

LEMMA NextStageView ==
  OnePlace' => \A t \in Requested :
     StageOf(t)' = IF InSlot(t)' THEN "running"
                   ELSE IF Unposted(t)' THEN "new"
                   ELSE IF Waits(t)' THEN "waiting" ELSE "over"
<1>1. (OnePlace => \A t \in Requested :
         StageOf(t) = IF InSlot(t) THEN "running"
                      ELSE IF Unposted(t) THEN "new"
                      ELSE IF Waits(t) THEN "waiting" ELSE "over")'
  BY StageView, PTL
<1> QED BY <1>1 DEF Requested

\* A task in hand was posted by a request, and its children are with it.
LEMMA HandFamily ==
  ASSUME TaskInv, NEW p \in Tasks, InHand(p)
  PROVE  /\ p \in Requested /\ ~ Unposted(p) /\ ParentsOf(p) = {} /\ ~ InSlot(p)
         /\ \A k \in Kids(p) : /\ k \in Requested /\ ~ Unposted(k)
                               /\ ~ InSlot(k) /\ ParentsOf(k) = {p}
<1>1. Single(p) /\ ChildrenUnborn(p)
  BY DEF TaskInv, TasksAgree
<1>2. PICK q \in Readers : p \in Elems(TasksOf[q])
  BY DEF TaskInv, TasksAgree
<1>3. p \in Ids(q) /\ Kids(p) \subseteq Ids(q)
  BY <1>2, Owner
<1>4. ASSUME NEW t \in Ids(q), Unposted(t) PROVE FALSE
  <2>1. PICK r \in Readers : t \in Ids(r) /\ rpc[r] \in {"start", "sleepwait", "parsing", "registered"}
    BY <1>4 DEF Unposted
  <2>2. r = q
    BY <2>1, IdsAreUnique
  <2>3. ~ Placed(p)
    BY <1>3, <2>1, <2>2 DEF TaskInv, ReaderAgrees
  <2> QED BY <2>3 DEF Placed
<1>5. ParentsOf(p) = {}
  BY <1>2, IdsAreUnique DEF ParentsOf
<1>6. ASSUME NEW k \in Kids(p) PROVE ParentsOf(k) = {p}
  BY <1>6, IdsAreUnique DEF ParentsOf
<1>7. \A k \in Kids(p) : ~ InSlot(k)
  BY <1>1 DEF ChildrenUnborn, Placed
<1> QED BY <1>1, <1>3, <1>4, <1>5, <1>6, <1>7 DEF Single, Requested

LEMMA FamilyIs ==
  ASSUME NEW R \in SUBSET Tasks
  PROVE  Stages!Families(R) = {t \in Tasks : t \in R \/ \E p \in R : t \in Kids(p)}
<1>1. \A p \in R : Stages!Family(p) = {p} \cup Kids(p)
  BY DEF Stages!Family
<1> QED BY <1>1, KidsType DEF Stages!Families

\* A step that binds nothing to a slot and posts nothing may withdraw families.
LEMMA Withdrawn ==
  ASSUME TaskInv, OnePlace, OnePlace', NEW D, HandStep(D), SlotStep({}), SameNew,
         Received' = Received
  PROVE  \E R \in SUBSET Requested : Stages!Withdraw(R)
<1>1. PICK R \in SUBSET Requested : R = {t \in Tasks : InHand(t) /\ ~ InHand(t)'}
  BY HandFamily
<1> DEFINE F == Stages!Families(R)
<1>2. F = {t \in Tasks : t \in R \/ \E p \in R : t \in Kids(p)}
  BY RequestedType, FamilyIs
<1>3. ASSUME NEW t \in Tasks
      PROVE  /\ InSlot(t)' <=> InSlot(t)
             /\ InHand(t)' <=> InHand(t) /\ t \notin R
  BY <1>1 DEF TaskInv, TasksAgree, Single, HandStep, SlotStep
<1>4. ASSUME NEW t \in F
      PROVE  t \in Requested /\ StageOf(t) = "waiting" /\ StageOf(t)' = "over"
  <2>1. PICK p \in R : t = p \/ t \in Kids(p)
    BY <1>2
  <2>2. p \in Tasks /\ InHand(p)
    BY <1>1
  <2>3. t \in Requested /\ ~ Unposted(t) /\ ~ InSlot(t)
    BY <2>1, <2>2, HandFamily
  <2>4. Waits(t)
    BY <2>1, <2>2 DEF Waits, ParentsOf
  <2>5. ~ Waits(t)'
    <3>1. CASE t = p
      <4>1. ParentsOf(t) = {} /\ t \in R
        BY <2>2, <3>1, HandFamily
      <4> QED BY <1>3, <2>2, <3>1, <4>1 DEF Waits, ParentsOf
    <3>2. CASE t \in Kids(p)
      <4>1. ParentsOf(t) = {p} /\ ~ InSlot(t) /\ t \in Tasks
        BY <2>2, <3>2, HandFamily, KidsType
      <4>2. ~ InHand(t)
        BY <2>2, <3>2 DEF TaskInv, TasksAgree, ChildrenUnborn, Placed
      <4> QED BY <1>3, <2>1, <2>2, <4>1, <4>2 DEF Waits, ParentsOf
    <3> QED BY <2>1, <3>1, <3>2
  <2>6. t \in Tasks /\ ~ InSlot(t)' /\ ~ Unposted(t)'
    BY <2>3, <1>3, RequestedType DEF SameNew
  <2> QED BY <2>3, <2>4, <2>5, <2>6, StageView, NextStageView
<1>5. ASSUME NEW t \in Requested, t \notin F
      PROVE  StageOf(t)' = StageOf(t)
  <2>1. t \in Tasks /\ (InHand(t)' <=> InHand(t)) /\ (InSlot(t)' <=> InSlot(t))
    BY <1>2, <1>3, <1>5, RequestedType
  <2>2. \A p \in ParentsOf(t) : InHand(p)' <=> InHand(p)
    BY <1>2, <1>3, <1>5, <2>1 DEF ParentsOf
  <2>3. Waits(t)' <=> Waits(t)
    BY <2>1, <2>2 DEF Waits, ParentsOf
  <2> QED BY <2>1, <2>3, StageView, NextStageView DEF SameNew
<1>6. F \subseteq Stages!In("new") \cup Stages!In("waiting")
  BY <1>4 DEF Stages!In
<1>7. Stages!Move(F, "over")
  BY <1>4, <1>5 DEF Stages!Move
<1> QED BY <1>6, <1>7 DEF Stages!Withdraw, Received


LEMMA SameStage ==
  ASSUME OnePlace, OnePlace', NEW t \in Requested, InHand(t)' <=> InHand(t),
         InSlot(t)' <=> InSlot(t), Unposted(t)' <=> Unposted(t),
         \A p \in ParentsOf(t) : InHand(p)' <=> InHand(p)
  PROVE  StageOf(t)' = StageOf(t)
<1>1. Waits(t)' <=> Waits(t)
  BY DEF Waits, ParentsOf
<1> QED BY <1>1, StageView, NextStageView

LEMMA StageSame ==
  ASSUME UNCHANGED <<queue, deferred, cur, slots>>, SameNew
  PROVE  Stage' = Stage
<1>1. ASSUME NEW t \in Requested PROVE StageOf(t)' = StageOf(t)
  <2>1. \A p : Places(p)' = Places(p)
    BY DEF Places
  <2>2. \A p : Pending(p)' <=> Pending(p)
    BY <2>1 DEF Pending
  <2>3. (\E p \in ParentsOf(t) : Pending(p)') <=> \E p \in ParentsOf(t) : Pending(p)
    BY <2>2
  <2>4. (\E p \in ParentsOf(t) : Pending(p))' <=> \E p \in ParentsOf(t) : Pending(p)
    BY <2>3 DEF ParentsOf
  <2>5. Unposted(t)' <=> Unposted(t)
    BY <1>1 DEF SameNew
  <2>6. (\E s \in Slots : slots[s].task = t)' <=> \E s \in Slots : slots[s].task = t
    OBVIOUS
  <2>7. (Cardinality(Places(t)) <= 1)' <=> Cardinality(Places(t)) <= 1
    BY <2>1
  <2>8. Pending(t)' <=> Pending(t)
    BY <2>2
  <2> HIDE DEF Pending, Places, Unposted, ParentsOf
  <2> QED BY <2>4, <2>5, <2>6, <2>7, <2>8 DEF StageOf
<1> QED BY <1>1 DEF Stage, Requested

LEMMA RunningBound ==
  ASSUME NEW g, NEW T, \A t \in T : \E x \in Slots : g[x].task = t
  PROVE  Cardinality(T) <= Cardinality(Slots)
<1> DEFINE f == [x \in Slots |-> g[x].task]
           I == {f[x] : x \in Slots}
<1>1. IsFiniteSet(Slots)
  BY ConstantsAssumption
<1>2. f \in Surjection(Slots, I)
  BY DEF Surjection
<1>3. T \subseteq I
  OBVIOUS
<1> HIDE DEF f, I
<1>4. IsFiniteSet(I) /\ Cardinality(I) <= Cardinality(Slots)
  BY <1>1, <1>2, FS_Surjection
<1>5. IsFiniteSet(T) /\ Cardinality(T) <= Cardinality(I)
  BY <1>3, <1>4, FS_Subset
<1>6. Cardinality(T) \in Nat /\ Cardinality(I) \in Nat /\ Cardinality(Slots) \in Nat
  BY <1>1, <1>4, <1>5, FS_CardinalityType
<1> QED BY <1>4, <1>5, <1>6

\* A task in a slot was posted, and its parent is no longer in hand.
LEMMA RunsAlone ==
  ASSUME TaskInv, NEW u \in Tasks, InSlot(u)
  PROVE  /\ ~ Unposted(u) /\ ~ InHand(u)
         /\ \A p \in ParentsOf(u) : ~ InHand(p)
<1>1. ~ Unposted(u)
  BY DEF Unposted, TaskInv, ReaderAgrees, Placed
<1>2. ~ InHand(u)
  BY DEF TaskInv, TasksAgree, Single
<1>3. \A p \in ParentsOf(u) : ~ InHand(p)
  BY DEF ParentsOf, TaskInv, TasksAgree, ChildrenUnborn, Placed
<1> QED BY <1>1, <1>2, <1>3

\* The slot of one task is released.
LEMMA Ended ==
  ASSUME TaskInv, OnePlace, OnePlace', NEW u \in Tasks, InSlot(u), ~ InSlot(u)', HandStep({}),
         SlotStep({u}), SameNew, Received' = Received
  PROVE  \/ u \in Requested /\ Stages!Finish(u)
         \/ Stage' = Stage
<1>1. ASSUME NEW t \in Tasks
      PROVE  /\ InHand(t)' <=> InHand(t)
             /\ InSlot(t)' <=> InSlot(t) /\ t # u
  BY DEF TaskInv, TasksAgree, Single, HandStep, SlotStep
<1>2. ASSUME NEW t \in Requested, t # u
      PROVE  StageOf(t)' = StageOf(t)
  <2>1. t \in Tasks /\ (Unposted(t)' <=> Unposted(t))
    BY RequestedType DEF SameNew
  <2>2. \A p \in ParentsOf(t) : InHand(p)' <=> InHand(p)
    BY <1>1 DEF ParentsOf
  <2> QED BY <1>1, <1>2, <2>1, <2>2, SameStage
<1>3. CASE u \notin Requested
  BY <1>2, <1>3 DEF Stage, Requested
<1>4. CASE u \in Requested
  <2>1. ~ Unposted(u) /\ ~ Unposted(u)'
    BY <1>4, RunsAlone DEF SameNew
  <2>2. ~ Waits(u)'
    BY <1>1, RunsAlone DEF Waits, ParentsOf
  <2>3. StageOf(u) = "running" /\ StageOf(u)' = "over"
    BY <1>4, <2>1, <2>2, StageView, NextStageView
  <2>4. Stages!Move({u}, "over")
    BY <1>2, <2>3 DEF Stages!Move
  <2>5. [t \in Requested |-> StageOf(t)][u] = "running"
    BY <1>4, <2>3
  <2> QED BY <1>4, <2>4, <2>5 DEF Stages!Finish, Received
<1> QED BY <1>3, <1>4

\* The tasks of T, of the family of the popped task, are bound to slots.
LEMMA LaunchedStarts ==
  ASSUME TaskInv, OnePlace, OnePlace', NEW u \in Tasks, InHand(u),
         NEW T \in SUBSET ({u} \cup Kids(u)),
         \A t \in Tasks : /\ InHand(t)' <=> InHand(t) /\ t # u
                          /\ InSlot(t)' <=> InSlot(t) \/ t \in T,
         SameNew, Received' = Received
  PROVE  /\ u \in Requested /\ T \in SUBSET Requested
         /\ T = {u} \cup Kids(u) => Stages!Start(u)
         /\ T \subseteq Kids(u) => Stages!StartInPart(u, T)
<1> DEFINE F == Stages!Family(u)
<1>1. F = {u} \cup Kids(u)
  BY DEF Stages!Family
<1>2. /\ u \in Requested /\ ~ Unposted(u) /\ ~ InSlot(u) /\ ParentsOf(u) = {}
      /\ \A k \in Kids(u) : /\ k \in Requested /\ ~ Unposted(k)
                            /\ ~ InSlot(k) /\ ParentsOf(k) = {u}
  BY HandFamily
<1>3. ASSUME NEW t \in F
      PROVE  /\ t \in Requested /\ StageOf(t) = "waiting"
             /\ t \in T => InSlot(t)'
             /\ StageOf(t)' = IF t \in T THEN "running" ELSE "over"
  <2>1. t \in Requested /\ ~ Unposted(t) /\ ~ InSlot(t) /\ t \in Tasks
    BY <1>1, <1>2, RequestedType
  <2>2. Waits(t)
    BY <1>1, <1>2 DEF Waits
  <2>3. InSlot(t)' <=> t \in T
    BY <2>1
  <2>4. ~ InHand(t)'
    <3>1. t = u \/ ~ InHand(t)
      BY <1>1 DEF TaskInv, TasksAgree, ChildrenUnborn, Placed
    <3> QED BY <2>1, <3>1
  <2>5. \A p \in ParentsOf(t) : ~ InHand(p)'
    BY <1>1, <1>2
  <2>6. ~ Waits(t)' /\ ~ Unposted(t)'
    BY <2>1, <2>4, <2>5 DEF Waits, ParentsOf, SameNew
  <2> QED BY <2>1, <2>2, <2>3, <2>6, StageView, NextStageView
<1>4. ASSUME NEW t \in Requested, t \notin F
      PROVE  StageOf(t)' = StageOf(t)
  <2>1. t \in Tasks /\ (Unposted(t)' <=> Unposted(t)) /\ t \notin T
    BY <1>1, <1>4, RequestedType DEF SameNew
  <2>2. \A p \in ParentsOf(t) : InHand(p)' <=> InHand(p)
    BY <1>1, <1>4 DEF ParentsOf
  <2> QED BY <1>1, <1>4, <2>1, <2>2, SameStage
<1>5. F \subseteq Stages!In("waiting")
  BY <1>3 DEF Stages!In
<1>6. Cardinality(Stages!In("running") \cup T) <= Cardinality(Slots)
  <2> DEFINE U == Stages!In("running") \cup T
  <2>1. ASSUME NEW t \in U PROVE InSlot(t)'
    <3>1. CASE t \in T
      BY <1>1, <1>3, <3>1
    <3>2. CASE t \notin T
      <4>1. t \in Requested /\ StageOf(t) = "running"
        BY <3>2 DEF Stages!In
      <4>2. InSlot(t) /\ t \in Tasks
        BY <4>1, StageView, RequestedType
      <4> QED BY <4>2
    <3> QED BY <3>1, <3>2
  <2>2. \A t \in U : \E x \in Slots : slots'[x].task = t
    BY <2>1 DEF InSlot
  <2> HIDE DEF U
  <2> QED BY <2>2, RunningBound DEF U
<1>7. \A X : Stages!Cardinality(X) = Cardinality(X)
  BY DEF Stages!Cardinality, Cardinality
<1>8. ASSUME T = {u} \cup Kids(u) PROVE Stages!Start(u)
  <2>1. T = F
    BY <1>1, <1>8
  <2>2. Stages!Move(F, "running")
    BY <1>3, <1>4, <2>1 DEF Stages!Move
  <2> QED BY <1>5, <1>6, <1>7, <2>1, <2>2 DEF Stages!Start, Received
<1>9. ASSUME T \subseteq Kids(u) PROVE Stages!StartInPart(u, T)
  <2>1. \A t \in Requested : StageOf(t)' = IF t \in T THEN "running"
                                         ELSE IF t \in F THEN "over" ELSE StageOf(t)
    BY <1>1, <1>3, <1>4
  <2>2. [t \in Requested |-> StageOf(t)]' =
          [x \in Requested |-> IF x \in T THEN "running" ELSE IF x \in F THEN "over"
                              ELSE [t \in Requested |-> StageOf(t)][x]]
    BY <2>1 DEF Requested
  <2>3. u \in Requested /\ T \subseteq [t \in Tasks |-> Kids(t)][u]
    BY <1>2, <1>9
  <2>4. Received' = Received
    OBVIOUS
  <2> HIDE DEF F
  <2> QED BY <1>5, <1>6, <1>7, <2>2, <2>3, <2>4 DEF F, Stages!StartInPart, Received
<1>10. T \in SUBSET Requested
  BY <1>1, <1>3
<1> QED BY <1>2, <1>8, <1>9, <1>10

Early == {"start", "sleepwait", "parsing", "registered"}

\* A request that has not posted its tasks, seen from its tasks.
LEMMA NotYetPosted ==
  ASSUME TaskInv, NEW r \in Readers, rpc[r] \in Early, NEW t \in Ids(r)
  PROVE  /\ t \in Requested /\ t \in Tasks /\ Unposted(t)
         /\ ~ InHand(t) /\ ~ InSlot(t)
         /\ \A p \in ParentsOf(t) : p \in Ids(r) /\ ~ InHand(p)
<1>1. \A v \in Ids(r) : v \in Tasks /\ ~ Placed(v)
  BY IdsType DEF TaskInv, ReaderAgrees, Early
<1>2. ASSUME NEW p \in ParentsOf(t), InHand(p) PROVE p \in Ids(r)
  <2>1. p \in Tasks /\ t \in Kids(p)
    BY DEF ParentsOf
  <2>2. PICK q \in Readers : p \in Elems(TasksOf[q])
    BY <1>2, <2>1 DEF TaskInv, TasksAgree
  <2>3. p \in Ids(q) /\ t \in Ids(q)
    BY <2>1, <2>2, Owner
  <2>4. q = r
    BY <2>3, IdsAreUnique
  <2> QED BY <2>3, <2>4
<1>3. \A p \in ParentsOf(t) : ~ InHand(p)
  BY <1>1, <1>2 DEF Placed
<1>4. t \in Requested /\ Unposted(t)
  BY DEF Requested, Unposted, Early
<1>5. \A p \in ParentsOf(t) : p \in Ids(r)
  <2> SUFFICES ASSUME NEW p \in ParentsOf(t) PROVE p \in Ids(r)
    OBVIOUS
  <2>1. p \in Tasks /\ t \in Kids(p)
    BY DEF ParentsOf
  <2>2. t \notin Elems(TasksOf[r])
    BY <2>1, IdsAreUnique
  <2>3. PICK v \in Elems(TasksOf[r]) : t \in Kids(v)
    BY <2>2 DEF Ids
  <2>4. v \in Ids(r)
    BY <2>3, Owner
  <2>5. v = p
    BY <2>1, <2>3, <2>4, <1>1, IdsAreUnique
  <2> QED BY <2>4, <2>5
<1> QED BY <1>1, <1>3, <1>4, <1>5 DEF Placed

\* The families of what a request posts are its tasks.
LEMMA PostedFamilies ==
  ASSUME NEW r \in Readers
  PROVE  /\ Elems(TasksOf[r]) \in SUBSET Requested
         /\ Stages!Families(Elems(TasksOf[r])) = Ids(r)
<1>1. Elems(TasksOf[r]) \subseteq Ids(r) /\ Ids(r) \subseteq Tasks
  BY IdsType DEF Ids
<1>2. Elems(TasksOf[r]) \in SUBSET Tasks
  BY <1>1
<1>3. \A p \in Elems(TasksOf[r]) : Kids(p) \subseteq Tasks
  BY <1>2, KidsType
<1>4. Stages!Families(Elems(TasksOf[r])) =
        {t \in Tasks : t \in Elems(TasksOf[r]) \/ \E p \in Elems(TasksOf[r]) : t \in Kids(p)}
  BY <1>2, FamilyIs
<1>5. Ids(r) = {t \in Tasks : t \in Elems(TasksOf[r]) \/ \E p \in Elems(TasksOf[r]) : t \in Kids(p)}
  BY <1>1, <1>3 DEF Ids
<1>6. Ids(r) \subseteq Requested
  BY DEF Requested
<1> QED BY <1>1, <1>4, <1>5, <1>6

\* Only the tasks of r may cease to be unposted.
LEMMA OthersUnposted ==
  ASSUME NEW r \in Readers, \A q \in Readers \ {r} : rpc'[q] = rpc[q], rpc'[r] \notin Early
  PROVE  /\ \A t \in Ids(r) : ~ Unposted(t)'
         /\ \A t \in Requested \ Ids(r) : Unposted(t)' <=> Unposted(t)
<1>1. \A t \in Ids(r) : ~ Unposted(t)'
  <2> SUFFICES ASSUME NEW t \in Ids(r), NEW q \in Readers, t \in Ids(q), rpc'[q] \in Early PROVE FALSE
    BY DEF Unposted, Early
  <2>1. q = r
    BY IdsAreUnique
  <2> QED BY <2>1
<1>2. \A t \in Requested \ Ids(r) : Unposted(t)' <=> Unposted(t)
  BY DEF Unposted
<1> QED BY <1>1, <1>2

LEMMA PostMaps ==
  ASSUME TypeOK, TaskInv, OnePlace, OnePlace', NEW r \in Readers, PostTasks(r)
  PROVE  \E R \in SUBSET Requested : Stages!Post(R)
<1> DEFINE P == Elems(TasksOf[r])
<1>1. /\ rpc[r] = "registered" /\ rpc'[r] = "receiving" /\ \A q \in Readers \ {r} : rpc'[q] = rpc[q]
      /\ UNCHANGED <<slots, answered>>
  BY DEF PostTasks, TypeOK, slotVars
<1>2. \A t \in Ids(r) : /\ t \in Requested /\ t \in Tasks /\ Unposted(t) /\ ~ InHand(t) /\ ~ InSlot(t)
                        /\ \A p \in ParentsOf(t) : p \in Ids(r) /\ ~ InHand(p)
  BY <1>1, NotYetPosted DEF Early
<1>3. P \in SUBSET Requested /\ Stages!Families(P) = Ids(r) /\ P \subseteq Ids(r)
  BY PostedFamilies DEF Ids
<1>4. ASSUME NEW t \in Tasks
      PROVE  (InHand(t)' <=> InHand(t) \/ t \in P) /\ (InSlot(t)' <=> InSlot(t))
  <2>1. OnceInHand(t)
    BY DEF TaskInv, TasksAgree, Single
  <2>2. \A v \in P : ~ InHand(v)
    BY <1>2, <1>3
  <2>3. InHand(t)' <=> InHand(t) \/ t \in P
    BY <2>1, <2>2, HandPosted
  <2> QED BY <1>1, <2>3 DEF InSlot
<1> HIDE DEF P
<1>5. /\ \A t \in Ids(r) : ~ Unposted(t)'
      /\ \A t \in Requested \ Ids(r) : Unposted(t)' <=> Unposted(t)
  BY <1>1, OthersUnposted DEF Early
<1>6. ASSUME NEW t \in Ids(r)
      PROVE  t \in Requested /\ StageOf(t) = "new" /\ StageOf(t)' = "waiting"
  <2>1. Waits(t)'
    <3>1. CASE t \in P
      BY <1>2, <1>4, <3>1 DEF Waits
    <3>2. CASE t \notin P
      <4>1. PICK p \in P : t \in Kids(p)
        BY <3>2 DEF Ids, P
      <4>2. p \in Tasks
        BY <1>2, <1>3
      <4> QED BY <4>1, <4>2, <1>4 DEF Waits, ParentsOf
    <3> QED BY <3>1, <3>2
  <2> QED BY <1>2, <1>4, <1>5, <2>1, StageView, NextStageView
<1>7. ASSUME NEW t \in Requested, t \notin Ids(r)
      PROVE  StageOf(t)' = StageOf(t)
  <2>1. t \in Tasks /\ t \notin P
    BY <1>3, <1>7, RequestedType
  <2>2. \A p \in ParentsOf(t) : p \in Tasks /\ p \notin P
    BY <1>7, Owner DEF ParentsOf, P
  <2>3. \A p \in ParentsOf(t) : InHand(p)' <=> InHand(p)
    BY <1>4, <2>2
  <2> QED BY <1>4, <1>5, <1>7, <2>1, <2>3, SameStage
<1>8. Ids(r) \subseteq Stages!In("new")
  BY <1>6 DEF Stages!In
<1>9. Stages!Move(Ids(r), "waiting")
  BY <1>6, <1>7 DEF Stages!Move
<1>10. Stages!Post(P)
  BY <1>1, <1>3, <1>8, <1>9 DEF Stages!Post
<1> QED BY <1>3, <1>10

\* A request that is refused is over, with all its tasks.
LEMMA RefuseMaps ==
  ASSUME TypeOK, TaskInv, OnePlace, OnePlace', NEW r \in Readers, BadRequest(r)
  PROVE  \E R \in SUBSET Requested : Stages!Withdraw(R)
<1> DEFINE P == Elems(TasksOf[r])
<1>1. /\ rpc[r] = "parsing" /\ rpc'[r] = "closed" /\ \A q \in Readers \ {r} : rpc'[q] = rpc[q]
      /\ UNCHANGED <<queue, deferred, cur, slots, answered>>
  BY DEF BadRequest, TypeOK, queueVars, mainVars, slotVars
<1>2. \A t \in Ids(r) : /\ t \in Requested /\ t \in Tasks /\ Unposted(t) /\ ~ InHand(t) /\ ~ InSlot(t)
                        /\ \A p \in ParentsOf(t) : p \in Ids(r) /\ ~ InHand(p)
  BY <1>1, NotYetPosted DEF Early
<1>3. P \in SUBSET Requested /\ Stages!Families(P) = Ids(r)
  BY PostedFamilies
<1> HIDE DEF P
<1>4. \A t : (InHand(t)' <=> InHand(t)) /\ (InSlot(t)' <=> InSlot(t))
  BY <1>1 DEF InHand, InSlot
<1>5. /\ \A t \in Ids(r) : ~ Unposted(t)'
      /\ \A t \in Requested \ Ids(r) : Unposted(t)' <=> Unposted(t)
  BY <1>1, OthersUnposted DEF Early
<1>6. ASSUME NEW t \in Ids(r)
      PROVE  t \in Requested /\ StageOf(t) = "new" /\ StageOf(t)' = "over"
  <2>1. ~ Waits(t)'
    BY <1>2, <1>4 DEF Waits, ParentsOf
  <2> QED BY <1>2, <1>4, <1>5, <2>1, StageView, NextStageView
<1>7. ASSUME NEW t \in Requested, t \notin Ids(r)
      PROVE  StageOf(t)' = StageOf(t)
  BY <1>4, <1>5, <1>7, SameStage
<1>8. Ids(r) \subseteq Stages!In("new") \cup Stages!In("waiting")
  BY <1>6 DEF Stages!In
<1>9. Stages!Move(Ids(r), "over")
  BY <1>6, <1>7 DEF Stages!Move
<1>10. Stages!Withdraw(P)
  BY <1>1, <1>3, <1>8, <1>9 DEF Stages!Withdraw
<1> QED BY <1>3, <1>10

\* What a step is for TaskStages.
StageStep == Stages!Next \/ (Stage' = Stage /\ Received' = Received)

LEMMA WithdrawnStep ==
  ASSUME TaskInv, OnePlace, OnePlace', NEW D, HandStep(D), SlotStep({}), SameNew,
         UNCHANGED answered
  PROVE  StageStep
<1>1. PICK R \in SUBSET Requested : Stages!Withdraw(R)
  BY Withdrawn DEF Received
<1> QED BY <1>1 DEF StageStep, Stages!Next

LEMMA EndedStep ==
  ASSUME TaskInv, OnePlace, OnePlace', NEW u \in Tasks, InSlot(u), ~ InSlot(u)', HandStep({}),
         SlotStep({u}), SameNew, UNCHANGED answered
  PROVE  StageStep
<1>1. Received' = Received
  BY DEF Received
<1>2. (u \in Requested /\ Stages!Finish(u)) \/ Stage' = Stage
  BY <1>1, Ended
<1> QED BY <1>1, <1>2 DEF StageStep, Stages!Next

LEMMA SameRequests ==
  ASSUME UNCHANGED rpc
  PROVE  SameNew
BY DEF SameNew, Unposted

\* A client receives a result.
LEMMA ReceiveMaps ==
  ASSUME TypeOK, TaskInv, NEW r \in Readers, ReceiveResult(r)
  PROVE  StageStep
<1>1. PICK i \in DOMAIN results :
        /\ rpc[r] = "receiving" /\ results[i].id \in Ids(r)
        /\ rpc' = IF results[i].kind = "error" THEN [rpc EXCEPT ![r] = "stopping"] ELSE rpc
        /\ answered' = IF results[i].kind = "final"
                       THEN [answered EXCEPT ![r] = @ \cup {results[i].id}] ELSE answered
        /\ UNCHANGED <<queue, deferred, cur, slots>>
  BY DEF ReceiveResult, queueVars, mainVars, slotVars
<1>2. PICK t \in Tasks : t = results[i].id /\ t \in Requested
  BY <1>1, RequestedType DEF Requested
<1>3. SameNew
  <2>1. \A q \in Readers : rpc'[q] \in Early <=> rpc[q] \in Early
    BY <1>1 DEF TypeOK, Early
  <2> QED BY <2>1 DEF SameNew, Unposted, Early
<1>4. Stage' = Stage
  BY <1>1, <1>3, StageSame
<1>5. CASE results[i].kind # "final"
  <2>1. Received' = Received
    BY <1>1, <1>5 DEF Received
  <2> QED BY <1>4, <2>1 DEF StageStep
<1>6. CASE results[i].kind = "final"
  <2>1. Received' = Received \cup {t}
    <3>1. \A q \in Readers : answered'[q] = IF q = r THEN answered[r] \cup {t} ELSE answered[q]
      BY <1>1, <1>2, <1>6 DEF TypeOK
    <3> QED BY <3>1 DEF Received
  <2>2. t \notin Received
    BY <1>2 DEF Received, TaskInv, ResultsInOrder
  <2>3. Finished(t)
    <3>1. results[i] \in Results
      BY DEF TypeOK
    <3>2. results[i] = Result(t, "final")
      BY <1>2, <1>6, <3>1 DEF Results, Result
    <3> QED BY <3>2 DEF Finished, Sent, Elems
  <2>4. /\ ~ InSlot(t) /\ ~ InHand(t)
        /\ \A p \in ParentsOf(t) : ~ InHand(p)
    BY <2>3 DEF TaskInv, TasksAgree, ChildrenUnborn, ParentsOf, Placed
  <2>5. ~ Unposted(t)
    BY <2>3 DEF Unposted, TaskInv, ReaderAgrees
  <2>6. OnePlace
    BY TaskInvOnePlace
  <2>7. StageOf(t) = "over"
    BY <1>2, <2>4, <2>5, <2>6, StageView DEF Waits
  <2>8. [v \in Requested |-> StageOf(v)][t] = "over"
    BY <1>2, <2>7
  <2>9. Stages!Receive(t)
    BY <1>4, <2>1, <2>2, <2>8 DEF Stages!Receive, Stage, Received
  <2> QED BY <1>2, <2>9 DEF StageStep, Stages!Next
<1> QED BY <1>5, <1>6

\* A handler moves and its tasks do not.
LEMMA MovesMap ==
  ASSUME TypeOK, NEW r \in Readers, NEW v, rpc' = [rpc EXCEPT ![r] = v],
         rpc[r] \in Early <=> v \in Early,
         UNCHANGED <<queue, deferred, cur, slots, answered>>
  PROVE  StageStep
<1>1. \A q \in Readers : rpc'[q] \in Early <=> rpc[q] \in Early
  BY DEF TypeOK
<1>2. SameNew
  BY <1>1 DEF SameNew, Unposted, Early
<1> QED BY <1>2, StageSame DEF StageStep, Received

LEMMA ReaderMaps ==
  ASSUME TypeOK, TaskInv, OnePlace, OnePlace', NEW r \in Readers,
         ReaderStep(r) \/ BadRequest(r) \/ Disconnect(r)
  PROVE  StageStep
<1>1. CASE PostTasks(r)
  BY <1>1, PostMaps DEF StageStep, Stages!Next
<1>2. CASE BadRequest(r)
  BY <1>2, RefuseMaps DEF StageStep, Stages!Next
<1>3. CASE ReceiveResult(r)
  BY <1>3, ReceiveMaps
<1>4. CASE StopCancel(r)
  <2>1. /\ rpc[r] = "cancelling" /\ rpc' = [rpc EXCEPT ![r] = "closed"]
        /\ UNCHANGED <<answered, slots>>
    BY <1>4 DEF StopCancel, slotVars
  <2>2. \A q \in Readers : rpc'[q] \in Early <=> rpc[q] \in Early
    BY <2>1 DEF TypeOK, Early
  <2>3. SameNew
    BY <2>2 DEF SameNew, Unposted, Early
  <2>4. HandStep(Ids(r)) /\ SlotStep({})
    BY <1>4, <2>1, HandCancelled, SlotsQuiet
  <2> QED BY <2>1, <2>3, <2>4, WithdrawnStep
<1>5. CASE Arrive(r) \/ ReaderNotified(r)
  <2>1. /\ rpc[r] \in {"start", "sleepwait"}
        /\ UNCHANGED <<queue, deferred, cur, slots, answered>>
        /\ \/ rpc' = rpc
           \/ \E v \in {"sleepwait", "parsing"} : rpc' = [rpc EXCEPT ![r] = v]
    BY <1>5 DEF Arrive, ReaderNotified, queueVars, mainVars, slotVars
  <2>2. CASE rpc' = rpc
    BY <2>1, <2>2, SameRequests, StageSame DEF StageStep, Received
  <2>3. CASE \E v \in {"sleepwait", "parsing"} : rpc' = [rpc EXCEPT ![r] = v]
    <3>1. PICK v \in {"sleepwait", "parsing"} : rpc' = [rpc EXCEPT ![r] = v]
      BY <2>3
    <3>2. rpc[r] \in Early /\ v \in Early
      BY <2>1 DEF Early
    <3> QED BY <2>1, <3>1, <3>2, MovesMap
  <2> QED BY <2>1, <2>2, <2>3
<1>6. CASE AddWaiting(r)
  <2>1. /\ rpc[r] \in Early /\ "registered" \in Early
        /\ rpc' = [rpc EXCEPT ![r] = "registered"]
        /\ UNCHANGED <<queue, deferred, cur, slots, answered>>
    BY <1>6 DEF AddWaiting, queueVars, mainVars, slotVars, Early
  <2> QED BY <2>1, MovesMap
<1>7. CASE Disconnect(r) \/ AllReceived(r) \/ StopRemove(r) \/ StopPurge(r)
  <2>1. /\ rpc[r] \in {"receiving", "stopping", "purging"}
        /\ UNCHANGED <<queue, deferred, cur, slots, answered>>
        /\ \E v \in {"stopping", "purging", "cancelling", "closed"} : rpc' = [rpc EXCEPT ![r] = v]
    BY <1>7 DEF Disconnect, AllReceived, StopRemove, StopPurge, queueVars, mainVars, slotVars
  <2>2. PICK v \in {"stopping", "purging", "cancelling", "closed"} : rpc' = [rpc EXCEPT ![r] = v]
    BY <2>1
  <2>3. rpc[r] \notin Early /\ v \notin Early
    BY <2>1 DEF Early
  <2> QED BY <2>1, <2>2, <2>3, MovesMap
<1> QED BY <1>1, <1>2, <1>3, <1>4, <1>5, <1>6, <1>7 DEF ReaderStep

\* A slot ends, whatever it sends.
LEMMA ReleaseMaps ==
  ASSUME TypeOK, TaskInv, OnePlace, OnePlace', NEW s \in Slots, slots[s].task \in Tasks, Release(s),
         UNCHANGED <<answered, rpc>>, cur' = cur \/ (cur' = NextItem /\ cur.type # "task")
  PROVE  StageStep
<1>1. PICK t \in Tasks : t = slots[s].task
  OBVIOUS
<1>2. slots' = [slots EXCEPT ![s] = IdleSlot] /\ PopDeferredTask(s)
  BY ReleaseType DEF Release
<1>3. HandStep({})
  BY <1>2, HandReleased
<1>4. InSlot(t) /\ OneSlot(t)
  BY <1>1 DEF InSlot, TaskInv, TasksAgree, Single
<1>5. SlotStep({t}) /\ ~ InSlot(t)'
  BY <1>1, <1>2, <1>4, SlotReleased
<1>6. SameNew
  BY SameRequests
<1> QED BY <1>3, <1>4, <1>5, <1>6, EndedStep

LEMMA LaunchMaps ==
  ASSUME TypeOK, TaskInv, OnePlace, OnePlace', NEW u \in Tasks, cur = TaskItem(u), cur' = NextItem,
         NEW s \in Slots \ Processing, NEW n \in Nat, NEW f \in ChildSlots(u, s),
         slots' = Launched(u, s, f, n), UNCHANGED <<queueVars, answered, rpc>>
  PROVE  StageStep
<1>1. InHand(u) /\ Single(u) /\ MainAgrees /\ cur.id = u
  BY DEF TaskInv, TasksAgree, InHand, TaskItem
<1>2. HandStep({u}) /\ ~ InHand(u)'
  BY <1>1, HandDropped DEF Single
<1>3. PICK T : T = Bound(u, n)
  OBVIOUS
<1>4. \A t \in Tasks : OneSlot(t) => (InSlot(t)' <=> InSlot(t) \/ t \in T)
  <2>1. \A k \in Kids(u) : k \in Tasks /\ ~ Placed(k)
    BY <1>1, KidsType DEF TaskInv, TasksAgree, ChildrenUnborn
  <2>2. ~ InSlot(u) /\ u \notin Kids(u) /\ \A k \in Kids(u) : ~ InSlot(k)
    BY <1>1, <2>1 DEF Single, Placed
  <2> QED BY <1>1, <1>3, <2>2, SlotsLaunched
<1>5. /\ T \in SUBSET ({u} \cup Kids(u))
      /\ T = {u} \cup Kids(u) \/ T \subseteq Kids(u)
  <2>1. Len(Info[u].kids) \in Nat
    <3>1. Info[u].kids \in Seq(Tasks)
      BY ConstantsAssumption DEF TaskInfo
    <3> QED BY <3>1, LenProperties
  <2>2. n > Len(Info[u].kids) \/ n <= Len(Info[u].kids)
    BY <2>1
  <2> QED BY <1>3, <2>2, BoundType
<1>6. ASSUME NEW t \in Tasks
      PROVE  /\ InHand(t)' <=> InHand(t) /\ t # u
             /\ InSlot(t)' <=> InSlot(t) \/ t \in T
  <2>1. Single(t)
    BY DEF TaskInv, TasksAgree
  <2> QED BY <2>1, <1>2, <1>4 DEF Single, HandStep
<1>7. SameNew /\ Received' = Received
  BY SameRequests DEF Received
<1>8. /\ u \in Requested /\ T \in SUBSET Requested
      /\ Stages!Start(u) \/ Stages!StartInPart(u, T)
  BY <1>1, <1>5, <1>6, <1>7, LaunchedStarts
<1> QED BY <1>8 DEF StageStep, Stages!Next

LEMMA ProcessMaps ==
  ASSUME TypeOK, TaskInv, OnePlace, OnePlace', ProcessSingleTask
  PROVE  StageStep
<1>1. cur' = NextItem /\ UNCHANGED <<answered, rpc>> /\ SameNew
  BY SameRequests DEF ProcessSingleTask, readerVars
<1>2. ASSUME UNCHANGED queueVars, UNCHANGED slots
      PROVE  StageStep
  <2>1. HandStep({cur.id}) /\ SlotStep({})
    BY <1>1, <1>2, HandDropped, SlotsQuiet
  <2> QED BY <1>1, <2>1, WithdrawnStep
<1>3. ASSUME cur.type = "task"
      PROVE  cur.id \in Tasks /\ cur = TaskItem(cur.id)
  BY <1>3 DEF TypeOK, Items, NextItem, TaskItem
<1>4. ASSUME cur.type = "task", Defer(cur.id), UNCHANGED <<queue, slots>>
      PROVE  StageStep
  <2>1. PICK u \in Tasks : cur.id = u /\ cur = TaskItem(u)
    BY <1>3, <1>4
  <2>2. HandStep({}) /\ SlotStep({})
    BY <1>1, <1>4, <2>1, HandDeferred, SlotsQuiet
  <2> QED BY <1>1, <2>2, WithdrawnStep
<1>5. CASE ProcessCompletion /\ LaunchCompletion
  <2>1. PICK u \in Tasks : cur.id = u /\ cur = TaskItem(u)
    BY <1>3, <1>5 DEF ProcessCompletion
  <2>2. PICK s \in Slots \ Processing : \E f \in ChildSlots(u, s) :
           slots' = Launched(u, s, f, Len(f) + 1) /\ UNCHANGED queueVars
    BY <2>1, <1>5 DEF LaunchCompletion
  <2>3. PICK f \in ChildSlots(u, s) : slots' = Launched(u, s, f, Len(f) + 1) /\ UNCHANGED queueVars
    BY <2>2
  <2>4. PICK n \in Nat : n = Len(f) + 1
    BY ChildSlotsType
  <2>5. slots' = Launched(u, s, f, n) /\ UNCHANGED queueVars
    BY <2>3, <2>4
  <2> QED BY <1>1, <2>1, <2>5, LaunchMaps
<1>10. CASE LaunchFails
  <2>1. PICK u \in Tasks : \E s \in Slots \ Processing : \E f \in ChildSlots(u, s) : \E n \in Nat :
           cur = TaskItem(u) /\ slots' = Launched(u, s, f, n) /\ UNCHANGED queueVars
    BY <1>10, RefusalIs
  <2> QED BY <1>1, <2>1, LaunchMaps
<1>6. CASE ProcessCancel /\ \E s \in Slots : slots[s].task = cur.id
  <2>1. cur.type = "cancel" /\ cur.id \in Tasks
    BY <1>6 DEF ProcessCancel, TypeOK, Items, NextItem
  <2>2. PICK s \in Slots : slots[s].task = cur.id /\ Release(s)
    BY <1>6 DEF ProcessCancel
  <2> QED BY <1>1, <2>1, <2>2, ReleaseMaps
<1>7. CASE cur.type = "task" /\ Defer(cur.id) /\ UNCHANGED <<queue, slots>>
  BY <1>4, <1>7
<1>8. CASE UNCHANGED queueVars /\ UNCHANGED slots
  BY <1>2, <1>8
<1>9. \/ ProcessCompletion /\ LaunchCompletion
      \/ LaunchFails
      \/ ProcessCancel /\ \E s \in Slots : slots[s].task = cur.id
      \/ cur.type = "task" /\ Defer(cur.id) /\ UNCHANGED <<queue, slots>>
      \/ UNCHANGED queueVars /\ UNCHANGED slots
  BY DEF ProcessSingleTask, ProcessCompletion, DeferCompletion, TokenizeFails, ProcessSlotAction,
         ProcessQuery, ProcessCancel, ProcessNextResponse, slotVars
<1> QED BY <1>5, <1>6, <1>7, <1>8, <1>9, <1>10

LEMMA MainMaps ==
  ASSUME TypeOK, TaskInv, RefusedInv, SleepInv, OnePlace, OnePlace',
         MainStep \/ StartAbort \/ GoToSleep \/ Terminate
  PROVE  StageStep
<1>1. MainAgrees
  BY DEF TaskInv
<1>2. UNCHANGED <<answered, rpc>> /\ SameNew
  <2>1. UNCHANGED <<answered, rpc>>
    BY DEF MainStep, PopTask, ProcessSingleTask, ReleaseLaunched, Drained, ExitLoop,
           UpdateIdle, PostNextResponse, KeepGoing, DecodeStep, PromptDone, SlotFinal, EmptyPrompt, SlotError, Visit, AbortSlot,
           UpdateDone, WakeForTask, MainNotified, StartAbort, GoToSleep, Terminate, readerVars
  <2> QED BY <2>1, SameRequests
<1>3. ASSUME NEW s \in Slots, slots[s].state # "idle", Release(s), UNCHANGED cur
      PROVE  StageStep
  BY <1>1, <1>2, <1>3, BusySlot, ReleaseMaps
<1>4. ASSUME HandStep({}), \A s \in Slots : slots'[s].task = slots[s].task
      PROVE  StageStep
  BY <1>2, <1>4, SlotsQuiet, WithdrawnStep
<1>5. CASE PopTask
  <2>1. HandStep({})
    BY <1>1, <1>5, HandPopped DEF MainAgrees, PopTask
  <2> QED BY <1>4, <1>5, <2>1 DEF PopTask, slotVars
<1>6. CASE ProcessSingleTask
  BY <1>6, ProcessMaps
<1>7. CASE PostNextResponse
  <2>1. HandStep({})
    BY <1>7, HandNext DEF PostNextResponse
  <2> QED BY <1>4, <1>7, <2>1 DEF PostNextResponse, slotVars
<1>8. CASE \E s \in Slots : DecodeStep(s)
  <2>1. PICK s \in Slots : DecodeStep(s)
    BY <1>8
  <2>2. slots[s].state # "idle" /\ UNCHANGED cur
    BY <2>1 DEF DecodeStep, PromptDone, SlotFinal, EmptyPrompt, SlotError, Visit, Decodable
  <2>3. CASE PromptDone(s)
    <3>1. \A x \in Slots : slots'[x].task = slots[x].task
      BY <2>3 DEF PromptDone, TypeOK, SlotRecords
    <3>2. HandStep({})
      BY <2>2, <2>3, HandQuiet DEF PromptDone
    <3> QED BY <1>4, <3>1, <3>2
  <2>4. CASE Release(s)
    BY <1>3, <2>2, <2>4
  <2> QED BY <2>1, <2>3, <2>4 DEF DecodeStep, SlotFinal, EmptyPrompt, SlotError
<1>9. CASE AbortSlot
  <2>1. PICK s \in Slots : slots[s].state # "idle" /\ Release(s)
    BY <1>9 DEF AbortSlot, Processing, IsProcessing
  <2> QED BY <1>3, <1>9, <2>1 DEF AbortSlot, mainVars
<1>10. CASE MainNotified
  <2>1. /\ UNCHANGED <<queueVars, cur>> /\ mpc = "asleep"
        /\ slots' = slots \/ slots' = [s \in Slots |-> IdleSlot]
    BY <1>10 DEF MainNotified
  <2>2. \A s \in Slots : slots[s].task = NoTask
    BY <1>1, <2>1 DEF MainAgrees, SleepInv, AsleepIsBlocked, Processing, IsProcessing
  <2>3. \A s \in Slots : slots'[s].task = slots[s].task
    BY <2>1, <2>2 DEF IdleSlot
  <2>4. HandStep({})
    BY <2>1, HandQuiet
  <2> QED BY <1>4, <2>3, <2>4
<1>11. CASE UNCHANGED <<queueVars, cur, slots>>
  BY <1>4, <1>11, HandQuiet
<1>13. CASE ReleaseLaunched
  <2>1. PICK s \in Slots : s \in todo /\ Release(s)
    BY <1>13 DEF ReleaseLaunched, TypeOK
  <2>2. slots[s].state = "wait_other" /\ UNCHANGED cur
    BY <1>13, <2>1 DEF ReleaseLaunched, RefusedInv
  <2> QED BY <1>3, <2>1, <2>2
<1>12. \/ PopTask \/ ProcessSingleTask \/ ReleaseLaunched \/ PostNextResponse
       \/ (\E s \in Slots : DecodeStep(s)) \/ AbortSlot \/ MainNotified
       \/ UNCHANGED <<queueVars, cur, slots>>
  BY DEF MainStep, Drained, ExitLoop, UpdateIdle, KeepGoing, Visit, UpdateDone, WakeForTask,
         StartAbort, GoToSleep, Terminate, slotVars, mainVars
<1> QED BY <1>5, <1>6, <1>7, <1>8, <1>9, <1>10, <1>11, <1>12, <1>13

\* The request path implements the life of a task (ImplementsTaskStages): a
\* deferral, a pop, a release that brings back another task and a sleep change
\* no stage; a launch starts a family within n_parallel slots, or, when it is
\* refused, some of its children, which are then stopped; a cancel and a refusal
\* withdraw it; a client receives a task's final
\* result once, and only when its slot or its place in the queues is given up.
THEOREM RequestsImplementStages == Spec => ImplementsTaskStages
<1>1. Init => Stages!Init
  <2> SUFFICES ASSUME Init PROVE Stages!Init
    OBVIOUS
  <2>1. TaskInv /\ OnePlace
    BY TaskInvInit, TaskInvOnePlace
  <2>2. \A r \in Readers : rpc[r] \in Early /\ answered[r] = {}
    BY DEF Init, Early
  <2>3. \A t \in Requested : Unposted(t) /\ ~ InSlot(t)
    BY <2>1, <2>2, NotYetPosted DEF Requested
  <2>4. \A t \in Requested : StageOf(t) = "new"
    BY <2>1, <2>3, StageView
  <2>5. Received = {}
    BY <2>2 DEF Received
  <2> QED BY <2>4, <2>5 DEF Stages!Init, Received
<1>2. TypeOK /\ TaskInv /\ RefusedInv /\ SleepInv /\ OnePlace /\ OnePlace' /\ [Next]_vars => StageStep
  <2> SUFFICES ASSUME TypeOK, TaskInv, RefusedInv, SleepInv, OnePlace, OnePlace', [Next]_vars
               PROVE  StageStep
    OBVIOUS
  <2>1. CASE MainStep \/ StartAbort \/ GoToSleep \/ Terminate
    BY <2>1, MainMaps
  <2>2. CASE \E r \in Readers : ReaderStep(r) \/ BadRequest(r) \/ Disconnect(r)
    BY <2>2, ReaderMaps
  <2>3. CASE UNCHANGED vars
    <3>1. UNCHANGED <<queue, deferred, cur, slots, answered, rpc>>
      BY <2>3 DEF vars, queueVars, readerVars, mainVars, slotVars
    <3> QED BY <3>1, SameRequests, StageSame DEF StageStep, Received
  <2> QED BY <2>1, <2>2, <2>3 DEF Next
<1>3. StageStep => [Stages!Next]_<<Stage, Received>>
  BY DEF StageStep
<1> QED BY <1>1, <1>2, <1>3, TypeCorrect, SleepInvariant, TasksAreTracked, RefusalIsUndone,
        TaskHasOnePlace, PTL DEF Spec, ImplementsTaskStages, Stages!Spec, Stage, Received

=============================================================================
