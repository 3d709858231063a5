------------------------- MODULE PageManagerProofs -------------------------
(***************************************************************************)
(* Proofs about PageManager, for any slots, users, prompts and limits.     *)
(* Lookups compare less than they restore, so that a slot may believe in   *)
(* tokens that are not in the model's memory: it is spoilt.  What is       *)
(* proved says how far this goes.  Only a restore of other tokens, or from *)
(* another slot, spoils slots, two at most; a slot that is not spoilt      *)
(* answers the prompt it was sent, stores true checkpoints and does not    *)
(* abort; and checkpoints on disk are used.  PageManager implements        *)
(* PlainSlots, which says this without directories.                        *)
(*                                                                         *)
(* The invariant says of a checkpoint which prompt its count and prefix    *)
(* were made from, and nothing of its state, and of a slot which part of   *)
(* its task it claims.                                                     *)
(***************************************************************************)
EXTENDS PageManager, FiniteSetTheorems, SequenceTheorems, WellFoundedInduction, TLAPS

-----------------------------------------------------------------------------
(* Maxima of finite sets                                                   *)

\* Some member of a finite set comes first when its members are ordered by
\* three numbers, as kv_ssd_find_match orders checkpoints.
LEMMA FirstExists ==
    ASSUME NEW S, IsFiniteSet(S), S # {},
           NEW f \in [S -> Nat], NEW g \in [S -> Nat], NEW h \in [S -> Nat]
    PROVE  \E c \in S : \A d \in S :
              \/ f[c] > f[d]
              \/ f[c] = f[d] /\ g[c] > g[d]
              \/ f[c] = f[d] /\ g[c] = g[d] /\ h[c] >= h[d]
<1> DEFINE Leads(c, d) == \/ f[c] > f[d]
                          \/ f[c] = f[d] /\ g[c] > g[d]
                          \/ f[c] = f[d] /\ g[c] = g[d] /\ h[c] >= h[d]
           Led(s) == \E c \in s : \A d \in s : Leads(c, d)
           T == {s \in SUBSET S : s # {} /\ ~ Led(s)}
<1>1. ASSUME NEW c \in S, NEW d \in S PROVE Leads(c, d) \/ Leads(d, c)
  OBVIOUS
<1>2. ASSUME NEW c \in S, NEW d \in S, NEW e \in S, Leads(c, d), Leads(d, e)
      PROVE  Leads(c, e)
  BY <1>2
<1>3. ASSUME NEW c \in S PROVE Leads(c, c)
  OBVIOUS
<1> HIDE DEF Leads
<1>4. SUFFICES ASSUME T # {} PROVE FALSE
  <2>1. CASE T = {}
    <3>1. Led(S)
      BY <2>1
    <3> QED BY <3>1 DEF Leads
  <2> QED BY <2>1
<1>5. PICK s \in T : \A u \in T : ~ (<<u, s>> \in StrictSubsetOrdering(S))
  <2> HIDE DEF T
  <2>1. T \subseteq SUBSET S
    BY DEF T
  <2>2. IsWellFoundedOn(StrictSubsetOrdering(S), SUBSET S)
    BY FS_StrictSubsetOrderingWellFounded, FS_FiniteSubsetsOfFinite
  <2> QED BY <2>1, <2>2, <1>4, WFMin
<1>6. PICK x \in s : x \in S
  BY <1>5
<1>7. CASE s \ {x} = {}
  <2>1. \A d \in s : Leads(x, d)
    BY <1>3, <1>6, <1>7
  <2> QED BY <2>1, <1>5, <1>6
<1>8. CASE s \ {x} # {}
  <2>1. Led(s \ {x})
    <3> HIDE DEF Led
    <3>1. s \ {x} \in SUBSET S /\ s \ {x} # s /\ s \ {x} \subseteq s
      BY <1>5, <1>6
    <3> QED BY <3>1, <1>5, <1>8 DEF StrictSubsetOrdering
  <2>2. PICK z \in s \ {x} : \A y \in s \ {x} : Leads(z, y)
    BY <2>1
  <2>3. z \in S /\ \A y \in s : y \in S
    BY <1>5
  <2>4. CASE Leads(z, x)
    BY <2>2, <2>4, <1>5
  <2>5. CASE Leads(x, z)
    BY <2>2, <2>3, <2>5, <1>2, <1>3, <1>5, <1>6
  <2> QED BY <2>3, <2>4, <2>5, <1>1, <1>6
<1> QED BY <1>7, <1>8

\* Max returns the greatest number of a set of bounded ones.
LEMMA MaxOfBounded ==
    ASSUME NEW N \in Nat, NEW S, S # {}, S \subseteq 0 .. N
    PROVE  Max(S) \in S /\ \A y \in S : y <= Max(S)
<1>1. IsFiniteSet(S)
  <2>1. PICK I : I = 0 .. N
    OBVIOUS
  <2>2. IsFiniteSet(I)
    <3>1. IsFiniteSet(0 .. N)
      BY FS_Interval
    <3> QED BY <2>1, <3>1
  <2>3. S \in SUBSET I
    BY <2>1
  <2> QED BY <2>2, <2>3, FS_Subset
<1>2. \E x \in S : \A y \in S : x >= y
  <2> DEFINE f == [x \in S |-> x]
  <2>1. f \in [S -> Nat]
    OBVIOUS
  <2>2. \A x \in S : f[x] = x
    OBVIOUS
  <2> HIDE DEF f
  <2>3. PICK c \in S : \A d \in S : \/ f[c] > f[d]
                                    \/ f[c] = f[d] /\ f[c] > f[d]
                                    \/ f[c] = f[d] /\ f[c] = f[d] /\ f[c] >= f[d]
    BY <1>1, <2>1, FirstExists
  <2>4. \A d \in S : c >= d
    BY <2>1, <2>2, <2>3
  <2> QED BY <2>4
<1>3. Max(S) \in S /\ \A y \in S : Max(S) >= y
  BY <1>2 DEF Max
<1> QED BY <1>3

-----------------------------------------------------------------------------
(* Beginnings of prompts                                                   *)

LEMMA TakeIsPrefix ==
    ASSUME NEW T, NEW a \in Seq(T), NEW n \in Nat
    PROVE  /\ Take(a, n) \in Seq(T)
           /\ Len(Take(a, n)) = IF n < Len(a) THEN n ELSE Len(a)
           /\ \A i \in 1 .. Len(Take(a, n)) : Take(a, n)[i] = a[i]
<1> DEFINE m == IF n < Len(a) THEN n ELSE Len(a)
<1>1. m \in Nat /\ m <= Len(a) /\ Len(a) \in Nat
  OBVIOUS
<1>2. \A i \in 1 .. m : a[i] \in T
  BY <1>1, ElementOfSeq
<1>3. Take(a, n) = SubSeq(a, 1, m)
  BY DEF Take
<1> HIDE DEF m
<1>4. /\ SubSeq(a, 1, m) \in Seq(T)
      /\ Len(SubSeq(a, 1, m)) = m
      /\ \A i \in 1 .. m : SubSeq(a, 1, m)[i] = a[i]
  BY <1>1, <1>2, SubSeqProperties
<1> QED BY <1>3, <1>4 DEF m

LEMMA SameTake ==
    ASSUME NEW T, NEW a \in Seq(T), NEW b \in Seq(T), NEW n \in 0 .. Len(a)
    PROVE  Take(a, n) = Take(b, n) <=> n <= Len(b) /\ \A i \in 1 .. n : a[i] = b[i]
<1> DEFINE x == Take(a, n)
           y == Take(b, n)
<1>1. /\ x \in Seq(T) /\ Len(x) = n
      /\ \A i \in 1 .. n : x[i] = a[i]
  BY TakeIsPrefix
<1>2. /\ y \in Seq(T) /\ Len(y) = IF n < Len(b) THEN n ELSE Len(b)
      /\ \A i \in 1 .. Len(y) : y[i] = b[i]
  BY TakeIsPrefix
<1> HIDE DEF x, y
<1>3. ASSUME x = y PROVE n <= Len(b) /\ \A i \in 1 .. n : a[i] = b[i]
  BY <1>1, <1>2, <1>3
<1>4. ASSUME n <= Len(b), \A i \in 1 .. n : a[i] = b[i] PROVE x = y
  <2>1. Len(y) = n
    BY <1>2, <1>4
  <2> QED BY <1>1, <1>2, <1>4, <2>1, SeqEqual
<1> QED BY <1>3, <1>4 DEF x, y

\* get_common_prefix counts the tokens two sequences begin with.
LEMMA CommonCounts ==
    ASSUME NEW T, NEW a \in Seq(T), NEW b \in Seq(T)
    PROVE  /\ Common(a, b) \in 0 .. Len(a) /\ Common(a, b) <= Len(b)
           /\ \A i \in 1 .. Common(a, b) : a[i] = b[i]
           /\ \A n \in 0 .. Len(a) :
                 n <= Len(b) /\ (\A i \in 1 .. n : a[i] = b[i]) => n <= Common(a, b)
<1> DEFINE S == {n \in 0 .. Len(a) : Take(a, n) = Take(b, n)}
<1>1. Common(a, b) = Max(S)
  BY DEF Common
<1>2. \A n \in 0 .. Len(a) :
         n \in S <=> n <= Len(b) /\ \A i \in 1 .. n : a[i] = b[i]
  BY SameTake
<1>3. S \subseteq 0 .. Len(a) /\ 0 \in S
  BY <1>2
<1>4. Max(S) \in S /\ \A y \in S : y <= Max(S)
  <2>1. PICK N \in Nat : N = Len(a)
    OBVIOUS
  <2>2. S \subseteq 0 .. N /\ S # {}
    BY <1>3, <2>1
  <2> HIDE DEF S
  <2> QED BY <2>2, MaxOfBounded
<1>5. Common(a, b) \in 0 .. Len(a) /\ \A n \in S : n <= Common(a, b)
  BY <1>1, <1>3, <1>4
<1>6. Common(a, b) \in S
  BY <1>1, <1>4
<1> HIDE DEF S
<1>7. Common(a, b) <= Len(b) /\ \A i \in 1 .. Common(a, b) : a[i] = b[i]
  BY <1>2, <1>5, <1>6
<1> QED BY <1>2, <1>5, <1>7

\* Prompts are sequences of tokens.
LEMMA PromptsAreTokens ==
    ASSUME NEW p \in Prompts
    PROVE  p \in Seq(Tokens) /\ Len(p) \in Nat /\ Len(p) > 1
<1>1. p \in Seq(Nat) /\ Len(p) > 1 /\ Len(p) \in Nat
  BY ConstantsAssumption
<1>2. \A i \in 1 .. Len(p) : p[i] \in Tokens
  <2>1. DOMAIN p = 1 .. Len(p)
    BY <1>1, LenProperties
  <2>2. \A i \in 1 .. Len(p) : p[i] \in ToSet(p)
    BY <2>1 DEF ToSet
  <2> QED BY <2>2 DEF Tokens
<1>3. SubSeq(p, 1, Len(p)) = p
  BY <1>1, SubSeqFull
<1>4. SubSeq(p, 1, Len(p)) \in Seq(Tokens)
  BY <1>1, <1>2, SubSeqProperties
<1> QED BY <1>1, <1>3, <1>4

\* One token at least is left to evaluate, and what is kept begins the task.
LEMMA ReusedIsCommon ==
    ASSUME NEW a \in Seq(Tokens), NEW p \in Prompts
    PROVE  /\ Reused(a, p) \in Nat /\ Reused(a, p) <= Len(a) /\ Reused(a, p) < Len(p)
           /\ \A i \in 1 .. Reused(a, p) : a[i] = p[i]
<1> DEFINE n == Common(a, p)
<1>1. p \in Seq(Tokens) /\ Len(p) \in Nat /\ Len(p) > 1 /\ Len(a) \in Nat
  BY PromptsAreTokens
<1>2. n \in 0 .. Len(a) /\ n <= Len(p) /\ \A i \in 1 .. n : a[i] = p[i]
  BY <1>1, CommonCounts
<1> HIDE DEF n
<1>3. Reused(a, p) = IF n = Len(p) THEN n - 1 ELSE n
  BY DEF Reused, n
<1> QED BY <1>1, <1>2, <1>3

-----------------------------------------------------------------------------
(* What a step does to directories, slots and tokens                       *)

Bound == MaxTurn + Cardinality(Slots)

DirsOK ==
    /\ DOMAIN dirs = Keys
    /\ \A k \in Keys : /\ IsFiniteSet(dirs[k])
                       /\ \A c \in dirs[k] : c \in Checkpoint /\ c.turn < Bound

SlotsOK ==
    /\ slot \in [Slots -> [st : {"idle", "started", "prompt", "generating"},
                           owner : Owners, task : Prompts \cup {<<>>}]]
    /\ \A s \in Processing : slot[s].task \in Prompts

\* A turn ends for each slot that works, so they are counted together.
TurnsOK == turn \in Nat \ {0} /\ turn + Cardinality(Processing) <= Bound

TokensOK == claim \in [Slots -> Seq(Tokens)] /\ memory \in [Slots -> Seq(Tokens)]

TypeInv ==
    /\ DirsOK /\ SlotsOK /\ TurnsOK /\ TokensOK
    /\ loaded \subseteq Keys /\ aborted \in BOOLEAN

\* What FinishPrompt of slot s may store, and where.
Made(s, k, c) ==
    /\ slot[s].st = "prompt" /\ k = KeyOf(slot[s].owner, slot[s].task)
    /\ FinalCount(slot[s].task) >= MinFinal
    /\ c = FinalCheckpoint(s, memory[s] \o
              SubSeq(slot[s].task, Len(claim[s]) + 1, Len(slot[s].task)))

Kept == DOMAIN dirs' = Keys /\ \A k \in Keys : dirs'[k] \subseteq dirs[k]

LEMMA KeyTypes ==
    ASSUME NEW o \in Owners, NEW p \in Prompts
    PROVE  /\ KeyOf(o, p) \in Keys /\ Searched(o, p) \subseteq Keys
           /\ ConvKey(p) \in ConvKeys /\ ConvKeys \subseteq Keys
<1>1. ConvKey(p) \in ConvKeys /\ ConvKeys \subseteq Keys /\ Continued(p) \subseteq ConvKeys
  BY DEF ConvKeys, Keys, Continued
<1>2. KeyOf(o, p) \in Keys
  BY <1>1 DEF KeyOf, Keys, Owners
<1> QED BY <1>1, <1>2 DEF Searched

LEMMA TurnEndKeeps ==
    ASSUME DirsOK, NEW n, TurnComplete(n)
    PROVE  Kept
BY DEF TurnComplete, Kept, DirsOK, Keys

LEMMA StorePutsOne ==
    ASSUME NEW s \in Slots, FinishPrompt(s), DirsOK, SlotsOK
    PROVE  \/ Kept
           \/ /\ DOMAIN dirs' = Keys
              /\ \E k \in Keys : \E c :
                    /\ Made(s, k, c) /\ dirs'[k] \subseteq dirs[k] \cup {c}
                    /\ \A l \in Keys \ {k} : dirs'[l] \subseteq dirs[l]
<1> DEFINE state == memory[s] \o SubSeq(slot[s].task, Len(claim[s]) + 1, Len(slot[s].task))
           c == FinalCheckpoint(s, state)
           k == KeyOf(slot[s].owner, slot[s].task)
<1>1. CASE UNCHANGED <<dirs, loaded>>
  BY <1>1 DEF DirsOK, Kept
<1>2. ASSUME FinalCount(slot[s].task) >= MinFinal, Store(s, state)
      PROVE  /\ DOMAIN dirs' = Keys
             /\ k \in Keys /\ Made(s, k, c) /\ dirs'[k] \subseteq dirs[k] \cup {c}
             /\ \A l \in Keys \ {k} : dirs'[l] \subseteq dirs[l]
  <2>1. slot[s].st = "prompt" /\ slot[s].task \in Prompts /\ slot[s].owner \in Owners
    BY DEF FinishPrompt, SlotsOK, Processing
  <2>2. k \in Keys
    BY <2>1, KeyTypes
  <2>3. Made(s, k, c)
    BY <1>2, <2>1 DEF Made
  <2>4. PICK gone : dirs' = [Emptied(gone) EXCEPT ![k] = @ \cup {c}]
    BY <1>2 DEF Store
  <2> HIDE DEF k, c
  <2> QED BY <2>2, <2>3, <2>4 DEF Emptied
<1> QED BY <1>1, <1>2 DEF FinishPrompt

\* Directories only lose checkpoints, but for the one a slot may store.
LEMMA DirsStep ==
    ASSUME DirsOK, SlotsOK, [Next]_vars
    PROVE  \/ Kept
           \/ /\ DOMAIN dirs' = Keys
              /\ \E s \in Slots, k \in Keys : \E c :
                    /\ Made(s, k, c) /\ dirs'[k] \subseteq dirs[k] \cup {c}
                    /\ \A l \in Keys \ {k} : dirs'[l] \subseteq dirs[l]
<1>1. ASSUME dirs' = dirs PROVE Kept
  BY <1>1 DEF DirsOK, Kept
<1>2. ASSUME NEW s \in Slots, Launch(s) \/ WarmStart(s) \/ ProcessBatch(s)
                              \/ Generate(s) \/ ClearSlot(s)
      PROVE  dirs' = dirs
  BY <1>2 DEF Launch, WarmStart, ProcessBatch, Generate, ClearSlot
<1>3. ASSUME NEW s \in Slots, ColdStart(s) PROVE Kept
  <2>1. PICK gone : dirs' = Emptied(gone)
    BY <1>3 DEF ColdStart
  <2> QED BY <2>1 DEF Emptied, Kept
<1>4. ASSUME NEW s \in Slots, Release(s) PROVE Kept
  BY <1>4, TurnEndKeeps DEF Release
<1>5. ASSUME DecodeFails PROVE Kept
  BY <1>5, TurnEndKeeps DEF DecodeFails
<1>6. ASSUME Restart \/ UNCHANGED vars PROVE dirs' = dirs
  BY <1>6 DEF Restart, vars
<1> QED BY <1>1, <1>2, <1>3, <1>4, <1>5, <1>6, StorePutsOne DEF Next

\* What FinishPrompt stores is a checkpoint, of a turn that has begun.
LEMMA MadeIsCheckpoint ==
    ASSUME TypeInv, NEW s \in Slots, NEW k, NEW c, Made(s, k, c)
    PROVE  c \in Checkpoint /\ c.turn < Bound
<1> DEFINE p == slot[s].task
           rest == SubSeq(p, Len(claim[s]) + 1, Len(p))
<1>1. slot[s].st = "prompt" /\ s \in Processing /\ p \in Prompts
  BY DEF Made, Processing, TypeInv, SlotsOK
<1>2. p \in Seq(Tokens) /\ Len(p) \in Nat
  BY <1>1, PromptsAreTokens
<1>3. claim[s] \in Seq(Tokens) /\ memory[s] \in Seq(Tokens) /\ Len(claim[s]) \in Nat
  BY DEF TypeInv, TokensOK
<1> HIDE DEF p
<1>4. rest \in Seq(Tokens)
  <2>1. \A i \in Len(claim[s]) + 1 .. Len(p) : p[i] \in Tokens
    BY <1>2, <1>3, ElementOfSeq
  <2> QED BY <1>2, <1>3, <2>1, SubSeqProperties
<1> HIDE DEF rest
<1>5. memory[s] \o rest \in Seq(Tokens)
  BY <1>3, <1>4, ConcatProperties
<1>6. Take(p, PrefixMax) \in Seq(Tokens)
  BY <1>2, TakeIsPrefix, ConstantsAssumption
<1>7. FinalCount(p) \in Nat
  BY <1>2, ConstantsAssumption DEF Made, FinalCount, p
<1>8. turn \in Nat /\ turn < Bound
  <2>1. IsFiniteSet(Processing)
    BY FS_Subset, ConstantsAssumption DEF Processing
  <2>2. Cardinality(Processing) \in Nat /\ Cardinality(Processing) # 0
    BY <1>1, <2>1, FS_CardinalityType, FS_EmptySet
  <2>3. Bound \in Nat
    BY FS_CardinalityType, ConstantsAssumption DEF Bound
  <2> QED BY <2>2, <2>3 DEF TypeInv, TurnsOK
<1>9. c = [slot |-> s, state |-> memory[s] \o rest, n |-> FinalCount(p),
           prefix |-> Take(p, PrefixMax), turn |-> turn]
  BY DEF Made, FinalCheckpoint, p, rest
<1> QED BY <1>5, <1>6, <1>7, <1>8, <1>9 DEF Checkpoint

LEMMA DirsKeepType ==
    ASSUME TypeInv, [Next]_vars
    PROVE  DirsOK'
<1> SUFFICES /\ DOMAIN dirs' = Keys
             /\ \A k \in Keys : /\ IsFiniteSet(dirs'[k])
                                /\ \A c \in dirs'[k] : c \in Checkpoint /\ c.turn < Bound
  BY DEF DirsOK, Keys, ConvKeys, ConvKey, UserKey, Take, Checkpoint, Tokens, Bound
<1>1. CASE Kept
  BY <1>1, FS_Subset DEF Kept, TypeInv, DirsOK
<1>2. ASSUME DOMAIN dirs' = Keys, NEW s \in Slots, NEW k \in Keys, NEW c, Made(s, k, c),
             dirs'[k] \subseteq dirs[k] \cup {c},
             \A l \in Keys \ {k} : dirs'[l] \subseteq dirs[l]
      PROVE  \A l \in Keys : /\ IsFiniteSet(dirs'[l])
                             /\ \A d \in dirs'[l] : d \in Checkpoint /\ d.turn < Bound
  <2>1. c \in Checkpoint /\ c.turn < Bound
    BY <1>2, MadeIsCheckpoint
  <2>2. IsFiniteSet(dirs[k] \cup {c})
    BY FS_AddElement DEF TypeInv, DirsOK
  <2>3. IsFiniteSet(dirs'[k])
    BY <1>2, <2>2, FS_Subset
  <2>4. \A l \in Keys \ {k} : IsFiniteSet(dirs'[l])
    BY <1>2, FS_Subset DEF TypeInv, DirsOK
  <2> QED BY <1>2, <2>1, <2>3, <2>4 DEF TypeInv, DirsOK
<1> QED BY <1>1, <1>2, DirsStep DEF TypeInv

\* The states a slot goes through after it was launched.
LEMMA MovesOn ==
    ASSUME SlotsOK, NEW s \in Processing, NEW x \in {"started", "prompt", "generating"},
           slot' = [slot EXCEPT ![s].st = x]
    PROVE  /\ SlotsOK' /\ Processing' = Processing
           /\ slot'[s].st = x /\ slot'[s].task = slot[s].task
           /\ slot'[s].owner = slot[s].owner
           /\ \A r \in Slots \ {s} : slot'[r] = slot[r]
<1>1. s \in Slots /\ slot[s].st # "idle"
  BY DEF Processing
<1>2. slot[s] \in [st : {"idle", "started", "prompt", "generating"},
                   owner : Owners, task : Prompts \cup {<<>>}]
  BY <1>1 DEF SlotsOK
<1>3. /\ DOMAIN slot' = Slots
      /\ slot'[s] = [slot[s] EXCEPT !.st = x]
      /\ \A r \in Slots \ {s} : slot'[r] = slot[r]
  BY <1>1 DEF SlotsOK
<1>4. /\ slot'[s] \in [st : {"idle", "started", "prompt", "generating"},
                       owner : Owners, task : Prompts \cup {<<>>}]
      /\ slot'[s].st = x /\ slot'[s].task = slot[s].task /\ slot'[s].owner = slot[s].owner
  BY <1>2, <1>3
<1>5. slot' \in [Slots -> [st : {"idle", "started", "prompt", "generating"},
                           owner : Owners, task : Prompts \cup {<<>>}]]
  BY <1>3, <1>4 DEF SlotsOK
<1>6. Processing' = Processing
  BY <1>1, <1>3, <1>4 DEF Processing
<1>7. \A r \in Processing' : slot'[r].task \in Prompts
  BY <1>3, <1>4, <1>6 DEF SlotsOK, Processing
<1> QED BY <1>3, <1>4, <1>5, <1>6, <1>7 DEF SlotsOK, Owners

LEMMA IdleIsSlot ==
    Idle \in [st : {"idle", "started", "prompt", "generating"},
              owner : Owners, task : Prompts \cup {<<>>}] /\ Idle.st = "idle"
BY DEF Idle, Owners

LEMMA NoneWorks ==
    ASSUME slot' = [s \in Slots |-> Idle]
    PROVE  SlotsOK' /\ Processing' = {}
BY IdleIsSlot DEF SlotsOK, Processing, Owners

LEMMA WorkingIsFinite == IsFiniteSet(Processing) /\ Cardinality(Processing) \in Nat
<1>1. Processing \in SUBSET Slots
  BY DEF Processing
<1> QED BY <1>1, FS_Subset, FS_CardinalityType, ConstantsAssumption

LEMMA BoundType == Bound \in Nat /\ MaxTurn \in Nat /\ 1 <= Bound
BY FS_CardinalityType, ConstantsAssumption DEF Bound

LEMMA LaunchKeepsType ==
    ASSUME TypeInv, NEW s \in Slots, Launch(s)
    PROVE  SlotsOK' /\ TurnsOK'
<1>1. PICK o \in Owners, p \in Prompts :
         slot' = [slot EXCEPT ![s] = [st |-> "started", owner |-> o, task |-> p]]
  BY DEF Launch
<1>2. SlotsOK'
  BY <1>1 DEF TypeInv, SlotsOK, Processing, Owners
<1>3. Processing' \in SUBSET Slots
  BY DEF Processing
<1>4. Cardinality(Processing') <= Cardinality(Slots) /\ Cardinality(Processing') \in Nat
  BY <1>3, FS_Subset, FS_CardinalityType, ConstantsAssumption
<1>5. turn' = turn /\ turn <= MaxTurn /\ turn \in Nat \ {0}
  BY DEF Launch, TypeInv, TurnsOK
<1> QED BY <1>2, <1>4, <1>5, BoundType, FS_CardinalityType, ConstantsAssumption
        DEF TurnsOK, Bound

LEMMA ReleaseKeepsType ==
    ASSUME TypeInv, NEW s \in Slots, Release(s)
    PROVE  SlotsOK' /\ TurnsOK'
<1>1. s \in Processing /\ slot' = [slot EXCEPT ![s] = Idle] /\ turn' = turn + 1
  BY DEF Release, TurnComplete
<1>2. SlotsOK'
  BY <1>1, IdleIsSlot DEF TypeInv, SlotsOK, Processing, Owners
<1>3. Processing' = Processing \ {s}
  BY <1>1, IdleIsSlot DEF TypeInv, SlotsOK, Processing
<1>4. Cardinality(Processing') = Cardinality(Processing) - 1
  BY <1>1, <1>3, WorkingIsFinite, FS_RemoveElement
<1> QED BY <1>1, <1>2, <1>4, WorkingIsFinite, BoundType DEF TypeInv, TurnsOK, Bound

\* Turns on disk are turns that have begun.
LEMMA TurnOnDiskType ==
    ASSUME DirsOK
    PROVE  TurnOnDisk \in Nat /\ TurnOnDisk < Bound
<1> DEFINE S == {c.turn : c \in UNION {dirs[k] : k \in ConvKeys}} \cup {0}
<1>1. S # {} /\ \A x \in S : x \in Nat /\ x < Bound
  BY BoundType DEF DirsOK, Keys, Checkpoint
<1>2. TurnOnDisk = Max(S)
  BY DEF TurnOnDisk
<1> HIDE DEF S
<1>3. PICK N \in Nat : N = Bound
  BY BoundType
<1>4. S \subseteq 0 .. N
  BY <1>1, <1>3
<1>5. Max(S) \in S
  BY <1>1, <1>4, MaxOfBounded
<1> QED BY <1>1, <1>2, <1>5

LEMMA SlotsKeepType ==
    ASSUME TypeInv, [Next]_vars
    PROVE  SlotsOK' /\ TurnsOK'
<1> USE DEF TypeInv
<1>1. ASSUME slot' = slot, turn' = turn PROVE SlotsOK' /\ TurnsOK'
  BY <1>1 DEF SlotsOK, TurnsOK, Processing, Owners, Bound
<1>2. ASSUME NEW s \in Processing, NEW x \in {"started", "prompt", "generating"},
             slot' = [slot EXCEPT ![s].st = x], turn' = turn
      PROVE  SlotsOK' /\ TurnsOK'
  BY <1>2, MovesOn DEF TurnsOK, Bound
<1>3. ASSUME NEW s \in Slots, ColdStart(s) \/ WarmStart(s) PROVE SlotsOK' /\ TurnsOK'
  <2>1. s \in Processing /\ turn' = turn /\ slot' = [slot EXCEPT ![s].st = "prompt"]
    BY <1>3 DEF ColdStart, WarmStart, Prepare, Processing
  <2> QED BY <2>1, <1>2
<1>4. ASSUME NEW s \in Slots, FinishPrompt(s) PROVE SlotsOK' /\ TurnsOK'
  <2>1. s \in Processing /\ turn' = turn /\ slot' = [slot EXCEPT ![s].st = "generating"]
    BY <1>4 DEF FinishPrompt, Processing
  <2> QED BY <2>1, <1>2
<1>5. ASSUME NEW s \in Slots, ProcessBatch(s) \/ Generate(s) \/ ClearSlot(s)
      PROVE  SlotsOK' /\ TurnsOK'
  BY <1>5, <1>1 DEF ProcessBatch, Generate, ClearSlot
<1>6. ASSUME DecodeFails PROVE SlotsOK' /\ TurnsOK'
  <2>1. slot' = [s \in Slots |-> Idle] /\ turn' = turn + Cardinality(Processing)
    BY <1>6 DEF DecodeFails, TurnComplete
  <2>2. Cardinality(Processing') = 0
    BY <2>1, NoneWorks, FS_EmptySet
  <2> QED BY <2>1, <2>2, NoneWorks, WorkingIsFinite, BoundType DEF TurnsOK, Bound
<1>7. ASSUME Restart PROVE SlotsOK' /\ TurnsOK'
  <2>1. slot' = [s \in Slots |-> Idle] /\ turn' = TurnOnDisk + 1
    BY <1>7 DEF Restart
  <2>2. Cardinality(Processing') = 0
    BY <2>1, NoneWorks, FS_EmptySet
  <2> QED BY <2>1, <2>2, NoneWorks, TurnOnDiskType, BoundType DEF TurnsOK, Bound
<1>8. CASE UNCHANGED vars
  BY <1>1, <1>8 DEF vars
<1> QED BY <1>3, <1>4, <1>5, <1>6, <1>7, <1>8, LaunchKeepsType, ReleaseKeepsType DEF Next

LEMMA LoadedKeepsType ==
    ASSUME TypeInv, [Next]_vars
    PROVE  loaded' \subseteq Keys
<1>1. ASSUME NEW s \in Slots, Launch(s) \/ WarmStart(s) \/ ProcessBatch(s) \/ Generate(s)
                              \/ Release(s) \/ ClearSlot(s)
      PROVE  loaded' = loaded
  BY <1>1 DEF Launch, WarmStart, ProcessBatch, Generate, Release, ClearSlot
<1>2. ASSUME NEW s \in Slots, ColdStart(s) PROVE loaded' \subseteq Keys
  <2>1. PICK k \in Searched(slot[s].owner, slot[s].task) :
           \E gone \in Evictable(k) : loaded' = (loaded \ gone) \cup {k}
    BY <1>2 DEF ColdStart
  <2>2. slot[s].task \in Prompts /\ slot[s].owner \in Owners
    BY <1>2 DEF ColdStart, TypeInv, SlotsOK, Processing
  <2>3. k \in Keys
    BY <2>1, <2>2, KeyTypes
  <2> QED BY <2>1, <2>3 DEF TypeInv
<1>3. ASSUME NEW s \in Slots, FinishPrompt(s) PROVE loaded' \subseteq Keys
  <2>1. slot[s].task \in Prompts /\ slot[s].owner \in Owners
    BY <1>3 DEF FinishPrompt, TypeInv, SlotsOK, Processing
  <2>2. KeyOf(slot[s].owner, slot[s].task) \in Keys
    BY <2>1, KeyTypes
  <2>3. \/ loaded' = loaded
        \/ \E gone : loaded' = (loaded \ gone) \cup {KeyOf(slot[s].owner, slot[s].task)}
    BY <1>3 DEF FinishPrompt, Store
  <2> QED BY <2>2, <2>3 DEF TypeInv
<1>4. ASSUME DecodeFails \/ Restart \/ UNCHANGED vars PROVE loaded' \subseteq Keys
  BY <1>4 DEF DecodeFails, Restart, vars, TypeInv
<1> QED BY <1>1, <1>2, <1>3, <1>4 DEF Next, TypeInv

\* The beginning of the first iteration leaves sequences of tokens.
LEMMA PrepareKeepsType ==
    ASSUME TypeInv, NEW s \in Slots, slot[s].task \in Prompts,
           NEW a \in Seq(Tokens), NEW m \in [Slots -> Seq(Tokens)], Prepare(s, a, m)
    PROVE  TokensOK' /\ aborted' \in BOOLEAN
<1> DEFINE keep == Reused(a, slot[s].task)
<1>1. keep \in Nat
  BY ReusedIsCommon
<1>2. /\ claim' = [claim EXCEPT ![s] = Take(a, keep)]
      /\ memory' = [m EXCEPT ![s] = Take(m[s], keep)]
      /\ aborted' \in BOOLEAN
  BY DEF Prepare
<1> HIDE DEF keep
<1>3. Take(a, keep) \in Seq(Tokens) /\ Take(m[s], keep) \in Seq(Tokens)
  BY <1>1, TakeIsPrefix
<1> QED BY <1>2, <1>3 DEF TokensOK, TypeInv, Tokens

\* Every way of filling or emptying a slot leaves sequences of tokens.
LEMMA TokensKeepType ==
    ASSUME TypeInv, [Next]_vars
    PROVE  TokensOK' /\ aborted' \in BOOLEAN
<1> USE DEF TypeInv
<1>1. ASSUME claim' = claim, memory' = memory, aborted' = aborted
      PROVE  TokensOK' /\ aborted' \in BOOLEAN
  BY <1>1 DEF TokensOK, Tokens
<1>2. ASSUME NEW s \in Slots, NEW a \in Seq(Tokens), NEW b \in Seq(Tokens),
             claim' = [claim EXCEPT ![s] = a], memory' = [memory EXCEPT ![s] = b],
             aborted' = aborted
      PROVE  TokensOK' /\ aborted' \in BOOLEAN
  BY <1>2 DEF TokensOK, Tokens
<1>3. ASSUME NEW s \in Slots, Launch(s) \/ Release(s) PROVE TokensOK' /\ aborted' \in BOOLEAN
  BY <1>1, <1>3 DEF Launch, Release
<1>4. <<>> \in Seq(Tokens)
  BY EmptySeq
<1>5. ASSUME NEW s \in Slots, WarmStart(s) PROVE TokensOK' /\ aborted' \in BOOLEAN
  <2>1. slot[s].task \in Prompts /\ Prepare(s, claim[s], memory)
    BY <1>5 DEF WarmStart, SlotsOK, Processing
  <2> QED BY <2>1, PrepareKeepsType DEF TokensOK
<1>6. ASSUME NEW s \in Slots, ColdStart(s) PROVE TokensOK' /\ aborted' \in BOOLEAN
  <2>1. slot[s].task \in Prompts /\ slot[s].owner \in Owners
    BY <1>6 DEF ColdStart, SlotsOK, Processing
  <2>2. PICK k \in Searched(slot[s].owner, slot[s].task) :
           LET found == Matches(dirs[k], slot[s].task) IN
           \/ Prepare(s, <<>>, memory)
           \/ \E c \in found : Prepare(s, Claimed(slot[s].task, c),
                                       [memory EXCEPT ![Destination(s, c)] = c.state])
    BY <1>6 DEF ColdStart
  <2>3. CASE Prepare(s, <<>>, memory)
    BY <2>1, <2>3, <1>4, PrepareKeepsType DEF TokensOK
  <2>4. ASSUME NEW c \in Matches(dirs[k], slot[s].task),
               Prepare(s, Claimed(slot[s].task, c), [memory EXCEPT ![Destination(s, c)] = c.state])
        PROVE  TokensOK' /\ aborted' \in BOOLEAN
    <3>1. k \in Keys /\ c \in dirs[k]
      BY <2>1, <2>2, KeyTypes DEF Matches, BestOf
    <3>2. c \in Checkpoint
      BY <3>1 DEF DirsOK
    <3>3. c.slot \in Slots /\ c.state \in Seq(Tokens) /\ c.n \in Nat
      BY <3>2 DEF Checkpoint
    <3>4. Destination(s, c) \in Slots
      BY <3>3 DEF Destination
    <3>5. [memory EXCEPT ![Destination(s, c)] = c.state] \in [Slots -> Seq(Tokens)]
      BY <3>3, <3>4 DEF TokensOK
    <3>6. Claimed(slot[s].task, c) \in Seq(Tokens)
      BY <2>1, <3>3, PromptsAreTokens, TakeIsPrefix DEF Claimed
    <3> QED BY <2>1, <2>4, <3>5, <3>6, PrepareKeepsType
  <2> QED BY <2>2, <2>3, <2>4
<1>7. ASSUME NEW s \in Slots, ProcessBatch(s) PROVE TokensOK' /\ aborted' \in BOOLEAN
  <2>1. PICK n \in Len(claim[s]) + 1 .. Len(slot[s].task) - 1 :
           LET more == SubSeq(slot[s].task, Len(claim[s]) + 1, n) IN
           /\ claim' = [claim EXCEPT ![s] = @ \o more]
           /\ memory' = [memory EXCEPT ![s] = @ \o more]
    BY <1>7 DEF ProcessBatch
  <2> DEFINE more == SubSeq(slot[s].task, Len(claim[s]) + 1, n)
  <2>2. slot[s].task \in Prompts
    BY <1>7 DEF ProcessBatch, SlotsOK, Processing
  <2>3. more \in Seq(Tokens)
    <3>1. /\ slot[s].task \in Seq(Tokens) /\ Len(slot[s].task) \in Nat
          /\ Len(claim[s]) \in Nat
      BY <2>2, PromptsAreTokens DEF TokensOK
    <3>2. \A i \in Len(claim[s]) + 1 .. n : slot[s].task[i] \in Tokens
      BY <3>1, ElementOfSeq
    <3> QED BY <3>1, <3>2, SubSeqProperties
  <2>4. /\ claim' = [claim EXCEPT ![s] = claim[s] \o more]
        /\ memory' = [memory EXCEPT ![s] = memory[s] \o more]
    BY <2>1
  <2> HIDE DEF more
  <2>5. claim[s] \o more \in Seq(Tokens) /\ memory[s] \o more \in Seq(Tokens)
    BY <2>3, ConcatProperties DEF TokensOK
  <2>6. aborted' = aborted
    BY <1>7 DEF ProcessBatch
  <2> QED BY <2>4, <2>5, <2>6, <1>2
<1>8. ASSUME NEW s \in Slots, FinishPrompt(s) PROVE TokensOK' /\ aborted' \in BOOLEAN
  <2> DEFINE rest == SubSeq(slot[s].task, Len(claim[s]) + 1, Len(slot[s].task))
  <2>1. /\ claim' = [claim EXCEPT ![s] = slot[s].task]
        /\ memory' = [memory EXCEPT ![s] = memory[s] \o rest]
        /\ aborted' = aborted
    BY <1>8 DEF FinishPrompt
  <2>2. slot[s].task \in Prompts
    BY <1>8 DEF FinishPrompt, SlotsOK, Processing
  <2>3. /\ slot[s].task \in Seq(Tokens) /\ Len(slot[s].task) \in Nat
        /\ Len(claim[s]) \in Nat
    BY <2>2, PromptsAreTokens DEF TokensOK
  <2>4. rest \in Seq(Tokens)
    <3>1. \A i \in Len(claim[s]) + 1 .. Len(slot[s].task) : slot[s].task[i] \in Tokens
      BY <2>3, ElementOfSeq
    <3> QED BY <2>3, <3>1, SubSeqProperties
  <2> HIDE DEF rest
  <2>5. memory[s] \o rest \in Seq(Tokens)
    BY <2>4, ConcatProperties DEF TokensOK
  <2> QED BY <2>1, <2>3, <2>5, <1>2
<1>9. ASSUME NEW s \in Slots, Generate(s) PROVE TokensOK' /\ aborted' \in BOOLEAN
  <2>1. PICK t \in Reply : /\ claim' = [claim EXCEPT ![s] = Append(claim[s], t)]
                           /\ memory' = [memory EXCEPT ![s] = Append(memory[s], t)]
    BY <1>9 DEF Generate
  <2>2. t \in Tokens
    BY DEF Tokens
  <2>3. Append(claim[s], t) \in Seq(Tokens) /\ Append(memory[s], t) \in Seq(Tokens)
    BY <2>2, AppendProperties DEF TokensOK
  <2>4. aborted' = aborted
    BY <1>9 DEF Generate
  <2> QED BY <2>1, <2>3, <2>4, <1>2
<1>10. ASSUME NEW s \in Slots, ClearSlot(s) PROVE TokensOK' /\ aborted' \in BOOLEAN
  BY <1>2, <1>4, <1>10 DEF ClearSlot
<1>11. ASSUME DecodeFails \/ Restart PROVE TokensOK' /\ aborted' \in BOOLEAN
  <2>1. /\ DOMAIN claim' = Slots /\ claim' = [s \in Slots |-> claim'[s]]
        /\ DOMAIN memory' = Slots /\ memory' = [s \in Slots |-> memory'[s]]
        /\ \A s \in Slots : claim'[s] \in {<<>>, claim[s]} /\ memory'[s] \in {<<>>, memory[s]}
        /\ aborted' \in BOOLEAN
    BY <1>11 DEF DecodeFails, Restart
  <2>2. \A s \in Slots : claim[s] \in Seq(Tokens) /\ memory[s] \in Seq(Tokens)
    BY DEF TokensOK
  <2>3. \A s \in Slots : claim'[s] \in Seq(Tokens) /\ memory'[s] \in Seq(Tokens)
    BY <2>1, <2>2, <1>4
  <2>4. claim' \in [Slots -> Seq(Tokens)] /\ memory' \in [Slots -> Seq(Tokens)]
    BY <2>1, <2>3
  <2> QED BY <2>1, <2>4 DEF TokensOK, Tokens
<1>12. CASE UNCHANGED vars
  BY <1>1, <1>12 DEF vars
<1> QED BY <1>3, <1>5, <1>6, <1>7, <1>8, <1>9, <1>10, <1>11, <1>12 DEF Next

LEMMA InitTypes == Init => TypeInv
<1> SUFFICES ASSUME Init PROVE TypeInv
  OBVIOUS
<1>1. DirsOK /\ loaded \subseteq Keys /\ aborted \in BOOLEAN
  BY FS_EmptySet DEF Init, DirsOK
<1>2. SlotsOK /\ Processing = {}
  BY IdleIsSlot DEF Init, SlotsOK, Processing
<1>3. TurnsOK
  BY <1>2, FS_EmptySet, BoundType DEF Init, TurnsOK
<1>4. TokensOK
  BY EmptySeq DEF Init, TokensOK
<1> QED BY <1>1, <1>2, <1>3, <1>4 DEF TypeInv

LEMMA NextTypes == TypeInv /\ [Next]_vars => TypeInv'
<1> SUFFICES ASSUME TypeInv, [Next]_vars PROVE TypeInv'
  OBVIOUS
<1>1. loaded' \subseteq Keys /\ aborted' \in BOOLEAN /\ TokensOK'
  BY LoadedKeepsType, TokensKeepType
<1>2. (loaded \subseteq Keys)'
  BY <1>1 DEF Keys, ConvKeys, ConvKey, UserKey, Take
<1> QED BY <1>1, <1>2, DirsKeepType, SlotsKeepType DEF TypeInv

\* Directories hold checkpoints, slots hold tokens, and the turn counter stays
\* within the requests that began, for any prompts, owners and limits, whatever
\* is stored, restored, evicted, cut off and lost in a restart
\* (server-context.cpp:3446-3921, server-context-page-manager.cpp:106-251): the
\* final checkpoint's count, less by 4 than its tokens, never falls below zero.
THEOREM TypeCorrect == Spec => []TypeOK
<1>1. TypeInv => TypeOK
  <2> SUFFICES ASSUME TypeInv PROVE TypeOK
    OBVIOUS
  <2>1. turn \in 1 .. MaxTurn + Cardinality(Slots)
    BY WorkingIsFinite, BoundType DEF TypeInv, TurnsOK, Bound
  <2> QED BY <2>1 DEF TypeInv, TypeOK, DirsOK, SlotsOK, TokensOK
<1> QED BY <1>1, InitTypes, NextTypes, PTL DEF Spec

-----------------------------------------------------------------------------
(* What checkpoints were made of, and what slots do with their tokens      *)

\* A checkpoint was stored for a prompt, in the directory of its conversation or
\* of its user; the state may be that of other tokens.
MadeFor(k, c) ==
    \E p \in Prompts :
        /\ c.n = FinalCount(p) /\ c.n >= MinFinal /\ c.prefix = Take(p, PrefixMax)
        /\ k \in ConvKeys => k = ConvKey(p)

AtWork(s) ==
    /\ slot[s].st = "prompt" =>
          Len(claim[s]) < Len(slot[s].task) /\ IsPrefix(claim[s], slot[s].task)
    /\ slot[s].st = "generating" => IsPrefix(slot[s].task, claim[s])

PagesInv ==
    /\ TypeInv
    /\ \A k \in Keys : \A c \in dirs[k] : MadeFor(k, c)
    /\ \A s \in Slots : AtWork(s)
    /\ AbortsIfSpoilt

LEMMA PrefixAgrees ==
    ASSUME NEW T, NEW a \in Seq(T), NEW b \in Seq(T)
    PROVE  IsPrefix(a, b) <=> Len(a) <= Len(b) /\ \A i \in 1 .. Len(a) : a[i] = b[i]
<1>1. Len(a) \in Nat /\ Len(b) \in Nat
  OBVIOUS
<1>2. CASE Len(a) <= Len(b)
  <2>1. Take(a, Len(a)) = SubSeq(a, 1, Len(a)) /\ Take(b, Len(a)) = SubSeq(b, 1, Len(a))
    BY <1>1, <1>2 DEF Take
  <2>2. Len(a) \in 0 .. Len(a)
    BY <1>1
  <2>3. Take(a, Len(a)) = Take(b, Len(a)) <=>
           Len(a) <= Len(b) /\ \A i \in 1 .. Len(a) : a[i] = b[i]
    BY <2>2, SameTake
  <2> QED BY <1>2, <2>1, <2>3 DEF IsPrefix
<1>3. CASE ~ (Len(a) <= Len(b))
  BY <1>3 DEF IsPrefix
<1> QED BY <1>2, <1>3

\* The rest of a prompt completes its beginning.
LEMMA RestCompletes ==
    ASSUME NEW T, NEW a \in Seq(T), NEW p \in Seq(T), IsPrefix(a, p)
    PROVE  a \o SubSeq(p, Len(a) + 1, Len(p)) = p
<1> DEFINE r == SubSeq(p, Len(a) + 1, Len(p))
<1>1. /\ Len(a) \in Nat /\ Len(p) \in Nat /\ Len(a) <= Len(p)
      /\ \A i \in 1 .. Len(a) : a[i] = p[i]
  BY PrefixAgrees
<1>2. \A i \in Len(a) + 1 .. Len(p) : p[i] \in T
  BY <1>1, ElementOfSeq
<1>3. /\ r \in Seq(T) /\ Len(r) = Len(p) - Len(a)
      /\ \A i \in 1 .. Len(p) - Len(a) : r[i] = p[Len(a) + i]
  <2>1. /\ r \in Seq(T)
        /\ Len(r) = IF Len(a) + 1 <= Len(p) THEN Len(p) - (Len(a) + 1) + 1 ELSE 0
        /\ \A i \in 1 .. Len(p) - (Len(a) + 1) + 1 : r[i] = p[Len(a) + 1 + i - 1]
    BY <1>1, <1>2, SubSeqProperties
  <2> HIDE DEF r
  <2>2. Len(r) = Len(p) - Len(a)
    BY <1>1, <2>1
  <2>3. ASSUME NEW i \in 1 .. Len(p) - Len(a) PROVE r[i] = p[Len(a) + i]
    <3>1. i \in 1 .. Len(p) - (Len(a) + 1) + 1 /\ Len(a) + 1 + i - 1 = Len(a) + i
      BY <1>1
    <3> QED BY <2>1, <3>1
  <2> QED BY <2>1, <2>2, <2>3
<1> HIDE DEF r
<1>4. /\ a \o r \in Seq(T) /\ Len(a \o r) = Len(p)
      /\ \A i \in 1 .. Len(p) : (a \o r)[i] = IF i <= Len(a) THEN a[i] ELSE r[i - Len(a)]
  BY <1>1, <1>3, ConcatProperties
<1>5. \A i \in 1 .. Len(p) : (a \o r)[i] = p[i]
  <2> SUFFICES ASSUME NEW i \in 1 .. Len(p) PROVE (a \o r)[i] = p[i]
    OBVIOUS
  <2>1. CASE i <= Len(a)
    BY <1>1, <1>4, <2>1
  <2>2. CASE ~ (i <= Len(a))
    <3>1. i - Len(a) \in 1 .. Len(p) - Len(a) /\ Len(a) + (i - Len(a)) = i
      BY <1>1, <2>2
    <3>2. (a \o r)[i] = r[i - Len(a)]
      BY <1>4, <2>2
    <3>3. r[i - Len(a)] = p[Len(a) + (i - Len(a))]
      BY <1>3, <3>1
    <3> QED BY <3>1, <3>2, <3>3
  <2> QED BY <2>1, <2>2
<1>6. a \o r = p
  BY <1>4, <1>5, SeqEqual
<1> QED BY <1>6 DEF r

\* Sequences that end alike are the same if and only if they begin alike.
LEMMA SameBeginning ==
    ASSUME NEW T, NEW a \in Seq(T), NEW b \in Seq(T), NEW r \in Seq(T)
    PROVE  a \o r = b \o r <=> a = b
<1>1. ASSUME a \o r = b \o r PROVE a = b
  <2>1. PICK x : x = a \o r
    OBVIOUS
  <2>2. /\ Len(x) = Len(a) + Len(r) /\ \A i \in 1 .. Len(a) : x[i] = a[i]
        /\ Len(x) = Len(b) + Len(r) /\ \A i \in 1 .. Len(b) : x[i] = b[i]
    <3>1. /\ Len(a \o r) = Len(a) + Len(r)
          /\ \A i \in 1 .. Len(a) + Len(r) :
                (a \o r)[i] = IF i <= Len(a) THEN a[i] ELSE r[i - Len(a)]
      BY ConcatProperties
    <3>2. /\ Len(b \o r) = Len(b) + Len(r)
          /\ \A i \in 1 .. Len(b) + Len(r) :
                (b \o r)[i] = IF i <= Len(b) THEN b[i] ELSE r[i - Len(b)]
      BY ConcatProperties
    <3>3. Len(a) \in Nat /\ Len(b) \in Nat /\ Len(r) \in Nat
      OBVIOUS
    <3> QED BY <1>1, <2>1, <3>1, <3>2, <3>3
  <2>3. Len(a) = Len(b)
    BY <2>2
  <2> QED BY <2>2, <2>3, SeqEqual
<1> QED BY <1>1

\* The key of a user is none of a conversation.
LEMMA ConvKeyIsAnon ==
    ASSUME NEW o \in Owners, NEW p \in Prompts, KeyOf(o, p) \in ConvKeys
    PROVE  o = Anon /\ KeyOf(o, p) = ConvKey(p)
<1>1. ASSUME o # Anon PROVE FALSE
  <2>1. PICK q \in Prompts : <<"user", o>> = <<"conv", Take(q, HashLen)>>
    BY <1>1 DEF KeyOf, UserKey, ConvKeys, ConvKey
  <2>2. "user" = "conv"
    BY <2>1
  <2> QED BY <2>2
<1> QED BY <1>1 DEF KeyOf

\* What FinishPrompt stores is counted for the prompt that it is stored for.
LEMMA MadeIsMadeFor ==
    ASSUME PagesInv, NEW s \in Slots, NEW k \in Keys, NEW c, Made(s, k, c)
    PROVE  MadeFor(k, c)
<1> DEFINE p == slot[s].task
<1>1. p \in Prompts /\ slot[s].owner \in Owners
  BY DEF Made, PagesInv, TypeInv, SlotsOK, Processing
<1>2. c.n = FinalCount(p) /\ c.prefix = Take(p, PrefixMax)
  BY DEF Made, FinalCheckpoint
<1>3. FinalCount(p) >= MinFinal /\ k = KeyOf(slot[s].owner, p)
  BY DEF Made
<1>4. k \in ConvKeys => k = ConvKey(p)
  BY <1>1, <1>3, ConvKeyIsAnon
<1> QED BY <1>1, <1>2, <1>3, <1>4 DEF MadeFor

LEMMA DirsStayMade ==
    ASSUME PagesInv, [Next]_vars
    PROVE  \A k \in Keys : \A c \in dirs'[k] : MadeFor(k, c)
<1>1. CASE Kept
  BY <1>1 DEF Kept, PagesInv
<1>2. ASSUME NEW s \in Slots, NEW k \in Keys, NEW c, Made(s, k, c),
             dirs'[k] \subseteq dirs[k] \cup {c},
             \A l \in Keys \ {k} : dirs'[l] \subseteq dirs[l]
      PROVE  \A l \in Keys : \A d \in dirs'[l] : MadeFor(l, d)
  <2>1. MadeFor(k, c)
    BY <1>2, MadeIsMadeFor
  <2>2. \A l \in Keys : \A d \in dirs[l] : MadeFor(l, d)
    BY DEF PagesInv
  <2> QED BY <1>2, <2>1, <2>2
<1> QED BY <1>1, <1>2, DirsStep DEF PagesInv, TypeInv

\* A cold start finds nothing, or prepares the slot with a checkpoint that fits.
LEMMA ColdStarts ==
    ASSUME PagesInv, NEW s \in Slots, ColdStart(s)
    PROVE  /\ slot[s].task \in Prompts /\ slot[s].owner \in Owners
           /\ slot[s].st = "started" /\ s \in Processing /\ claim[s] = <<>>
           /\ \/ Prepare(s, <<>>, memory)
              \/ \E k \in Searched(slot[s].owner, slot[s].task) :
                    \E c \in Matches(dirs[k], slot[s].task) :
                       /\ k \in Keys /\ c \in dirs[k] /\ c \in Checkpoint
                       /\ MadeFor(k, c) /\ Fits(c, slot[s].task)
                       /\ Prepare(s, Claimed(slot[s].task, c),
                                  [memory EXCEPT ![Destination(s, c)] = c.state])
<1>1. /\ slot[s].task \in Prompts /\ slot[s].owner \in Owners
      /\ slot[s].st = "started" /\ s \in Processing /\ claim[s] = <<>>
  BY DEF ColdStart, PagesInv, TypeInv, SlotsOK, Processing
<1>2. PICK k \in Searched(slot[s].owner, slot[s].task) :
         LET found == Matches(dirs[k], slot[s].task) IN
         \/ Prepare(s, <<>>, memory)
         \/ \E c \in found : Prepare(s, Claimed(slot[s].task, c),
                                     [memory EXCEPT ![Destination(s, c)] = c.state])
  BY DEF ColdStart
<1>3. k \in Keys
  BY <1>1, <1>2, KeyTypes
<1>4. \A c \in Matches(dirs[k], slot[s].task) :
         /\ c \in dirs[k] /\ c \in Checkpoint /\ MadeFor(k, c) /\ Fits(c, slot[s].task)
  BY <1>3 DEF Matches, BestOf, PagesInv, TypeInv, DirsOK
<1> QED BY <1>1, <1>2, <1>3, <1>4

\* A slot that does not change says of its tokens what it said.
LEMMA OthersStayAtWork ==
    ASSUME PagesInv, NEW s, \A r \in Slots \ {s} : slot'[r] = slot[r] /\ claim'[r] = claim[r]
    PROVE  \A r \in Slots \ {s} : AtWork(r)'
BY DEF PagesInv, AtWork

\* A slot that starts with tokens a cuts them off where they leave the task; if it
\* aborts, it has none of the tokens that it believes in.
LEMMA PrepareWorks ==
    ASSUME PagesInv, NEW s \in Slots, slot[s].task \in Prompts, slot[s].st = "started",
           NEW a \in Seq(Tokens), NEW m, DOMAIN m = Slots, Prepare(s, a, m)
    PROVE  (\A r \in Slots : AtWork(r)') /\ AbortsIfSpoilt'
<1> DEFINE p == slot[s].task
           keep == Reused(a, p)
<1>1. /\ keep \in Nat /\ keep <= Len(a) /\ keep < Len(p)
      /\ \A i \in 1 .. keep : a[i] = p[i]
  BY ReusedIsCommon
<1>2. /\ aborted' = (Common(a, p) > 0 /\ m[s] = <<>>)
      /\ claim' = [claim EXCEPT ![s] = Take(a, keep)]
      /\ memory' = [m EXCEPT ![s] = Take(m[s], keep)]
      /\ slot' = [slot EXCEPT ![s].st = "prompt"]
  BY DEF Prepare
<1>3. p \in Seq(Tokens) /\ Len(p) \in Nat /\ Len(p) > 1 /\ s \in Processing /\ Len(a) \in Nat
  BY PromptsAreTokens DEF Processing
<1> HIDE DEF keep
<1>4. /\ claim'[s] = Take(a, keep) /\ memory'[s] = Take(m[s], keep)
      /\ \A r \in Slots \ {s} : claim'[r] = claim[r]
  BY <1>2 DEF PagesInv, TypeInv, TokensOK
<1>5. /\ slot'[s].st = "prompt" /\ slot'[s].task = p
      /\ \A r \in Slots \ {s} : slot'[r] = slot[r]
  BY <1>2, <1>3, MovesOn DEF PagesInv, TypeInv
<1> DEFINE x == Take(a, keep)
<1>6. /\ x \in Seq(Tokens) /\ Len(x) = keep
      /\ \A i \in 1 .. Len(x) : x[i] = a[i]
  <2>1. Len(x) = IF keep < Len(a) THEN keep ELSE Len(a)
    BY <1>1, TakeIsPrefix
  <2>2. Len(x) = keep
    BY <1>1, <1>3, <2>1
  <2> QED BY <1>1, <2>2, TakeIsPrefix
<1> HIDE DEF x
<1>7. Len(x) < Len(p) /\ IsPrefix(x, p)
  <2>1. \A i \in 1 .. Len(x) : x[i] = p[i]
    BY <1>1, <1>6
  <2> QED BY <1>1, <1>3, <1>6, <2>1, PrefixAgrees
<1>8. \A r \in Slots : AtWork(r)'
  <2>1. AtWork(s)'
    BY <1>4, <1>5, <1>7 DEF AtWork, x
  <2> QED BY <1>4, <1>5, <2>1, OthersStayAtWork
<1>9. ASSUME Common(a, p) > 0, m[s] = <<>> PROVE memory'[s] # claim'[s]
  <2>1. keep >= 1
    <3>1. Common(a, p) \in Nat
      BY <1>3, CommonCounts
    <3> QED BY <1>3, <1>9, <3>1 DEF Reused, keep
  <2>2. Take(<<>>, keep) = <<>>
    <3>1. PICK e \in Seq(Tokens) : e = <<>>
      BY EmptySeq
    <3>2. Len(e) = 0
      BY <3>1
    <3>3. Take(e, keep) \in Seq(Tokens) /\ Len(Take(e, keep)) = 0
      <4>1. Len(Take(e, keep)) = IF keep < Len(e) THEN keep ELSE Len(e)
        BY <1>1, TakeIsPrefix
      <4> QED BY <1>1, <2>1, <3>2, <4>1, TakeIsPrefix
    <3> QED BY <3>1, <3>3, EmptySeq
  <2>3. memory'[s] = <<>>
    BY <1>4, <1>9, <2>2
  <2>4. claim'[s] # <<>>
    <3>1. Len(<<>>) = 0
      OBVIOUS
    <3> QED BY <1>4, <1>6, <2>1, <3>1 DEF x
  <2> QED BY <2>3, <2>4
<1>10. AbortsIfSpoilt'
  BY <1>2, <1>9 DEF AbortsIfSpoilt
<1> QED BY <1>8, <1>10

LEMMA StartsWork ==
    ASSUME PagesInv, NEW s \in Slots, WarmStart(s) \/ ColdStart(s)
    PROVE  (\A r \in Slots : AtWork(r)') /\ AbortsIfSpoilt'
<1>1. DOMAIN memory = Slots /\ <<>> \in Seq(Tokens)
  BY EmptySeq DEF PagesInv, TypeInv, TokensOK
<1>2. CASE WarmStart(s)
  <2>1. slot[s].task \in Prompts /\ slot[s].st = "started" /\ claim[s] \in Seq(Tokens)
    BY <1>2 DEF WarmStart, PagesInv, TypeInv, SlotsOK, Processing, TokensOK
  <2>2. Prepare(s, claim[s], memory)
    BY <1>2 DEF WarmStart
  <2> QED BY <1>1, <2>1, <2>2, PrepareWorks
<1>3. CASE ColdStart(s)
  <2>1. slot[s].task \in Prompts /\ slot[s].st = "started"
    BY <1>3, ColdStarts
  <2>2. CASE Prepare(s, <<>>, memory)
    BY <1>1, <2>1, <2>2, PrepareWorks
  <2>3. ASSUME NEW c \in Checkpoint, NEW m, DOMAIN m = Slots,
               Prepare(s, Claimed(slot[s].task, c), m)
        PROVE  (\A r \in Slots : AtWork(r)') /\ AbortsIfSpoilt'
    <3>1. Claimed(slot[s].task, c) \in Seq(Tokens)
      BY <2>1, PromptsAreTokens, TakeIsPrefix DEF Claimed, Checkpoint
    <3> QED BY <2>1, <2>3, <3>1, PrepareWorks
  <2>4. ASSUME NEW c \in Checkpoint,
               Prepare(s, Claimed(slot[s].task, c), [memory EXCEPT ![Destination(s, c)] = c.state])
        PROVE  (\A r \in Slots : AtWork(r)') /\ AbortsIfSpoilt'
    <3>1. DOMAIN [memory EXCEPT ![Destination(s, c)] = c.state] = Slots
      BY <1>1
    <3> QED BY <2>3, <2>4, <3>1
  <2> QED BY <1>3, <2>2, <2>4, ColdStarts
<1> QED BY <1>2, <1>3

\* Nothing but the beginning of a request can abort.
LEMMA OthersDoNotAbort ==
    ASSUME PagesInv,
           \/ \E s \in Slots : \/ Launch(s) \/ ProcessBatch(s) \/ FinishPrompt(s)
                               \/ Generate(s) \/ Release(s) \/ ClearSlot(s)
           \/ DecodeFails \/ Restart \/ UNCHANGED vars
    PROVE  AbortsIfSpoilt'
<1>1. ASSUME UNCHANGED vars PROVE AbortsIfSpoilt'
  BY <1>1 DEF vars, PagesInv, AbortsIfSpoilt
<1>2. ASSUME aborted' = FALSE PROVE AbortsIfSpoilt'
  BY <1>2 DEF AbortsIfSpoilt
<1>3. ASSUME NEW s \in Slots, \/ Launch(s) \/ ProcessBatch(s) \/ FinishPrompt(s)
                              \/ Generate(s) \/ Release(s) \/ ClearSlot(s)
      PROVE  aborted' = FALSE
  BY <1>3 DEF Launch, ProcessBatch, FinishPrompt, Generate, Release, ClearSlot, Running,
              PagesInv, TypeInv
<1>4. ASSUME DecodeFails \/ Restart PROVE aborted' = FALSE
  BY <1>4 DEF DecodeFails, Restart, Running, PagesInv, TypeInv
<1> QED BY <1>1, <1>2, <1>3, <1>4


\* The tokens of a batch go on from those of the slot.
LEMMA BatchTokens ==
    ASSUME PagesInv, NEW s \in Slots, ProcessBatch(s)
    PROVE  /\ slot[s].st = "prompt" /\ slot[s].task \in Prompts /\ slot' = slot
           /\ \E r \in Seq(Tokens) :
                 /\ claim' = [claim EXCEPT ![s] = claim[s] \o r]
                 /\ memory' = [memory EXCEPT ![s] = memory[s] \o r]
           /\ \E n \in Len(claim[s]) + 1 .. Len(slot[s].task) - 1 :
                 claim'[s] = Take(slot[s].task, n)
<1> DEFINE p == slot[s].task
           a == claim[s]
<1>1. /\ slot[s].st = "prompt" /\ p \in Prompts /\ slot' = slot
      /\ a \in Seq(Tokens)
  BY DEF ProcessBatch, PagesInv, TypeInv, SlotsOK, Processing, TokensOK
<1>2. PICK n \in Len(a) + 1 .. Len(p) - 1 :
         /\ claim' = [claim EXCEPT ![s] = a \o SubSeq(p, Len(a) + 1, n)]
         /\ memory' = [memory EXCEPT ![s] = memory[s] \o SubSeq(p, Len(a) + 1, n)]
  BY DEF ProcessBatch
<1>3. IsPrefix(a, p)
  BY <1>1 DEF PagesInv, AtWork
<1>4. claim'[s] = a \o SubSeq(p, Len(a) + 1, n)
  BY <1>2 DEF PagesInv, TypeInv, TokensOK
<1> HIDE DEF p, a
<1>5. p \in Seq(Tokens) /\ Len(p) \in Nat /\ Len(a) \in Nat /\ n \in Nat
  BY <1>1, PromptsAreTokens
<1>6. Take(p, n) \in Seq(Tokens) /\ Len(Take(p, n)) = n
      /\ \A i \in 1 .. n : Take(p, n)[i] = p[i]
  BY <1>5, TakeIsPrefix
<1>7. a \o SubSeq(p, Len(a) + 1, n) = Take(p, n)
  <2> DEFINE x == Take(p, n)
  <2>1. Len(a) <= Len(p) /\ \A i \in 1 .. Len(a) : a[i] = p[i]
    BY <1>1, <1>3, <1>5, PrefixAgrees
  <2>2. IsPrefix(a, x)
    <3> HIDE DEF x
    <3>1. x \in Seq(Tokens) /\ Len(x) = n /\ \A i \in 1 .. n : x[i] = p[i]
      BY <1>6 DEF x
    <3> QED BY <1>1, <1>5, <2>1, <3>1, PrefixAgrees
  <2>3. a \o SubSeq(x, Len(a) + 1, Len(x)) = x
    BY <1>1, <1>6, <2>2, RestCompletes
  <2>4. SubSeq(x, Len(a) + 1, n) = SubSeq(p, Len(a) + 1, n)
    <3>1. x = SubSeq(p, 1, n)
      BY <1>5 DEF Take
    <3>2. /\ n \in 1 .. Len(p) /\ 1 \in 1 .. Len(p)
          /\ Len(a) + 1 \in 1 .. n - 1 + 1 /\ n \in 1 .. n - 1 + 1
      BY <1>5
    <3>3. SubSeq(SubSeq(p, 1, n), Len(a) + 1, n) = SubSeq(p, 1 + (Len(a) + 1) - 1, 1 + n - 1)
      BY <1>5, <3>2, SubSeqOfSubSeq
    <3>4. 1 + (Len(a) + 1) - 1 = Len(a) + 1 /\ 1 + n - 1 = n
      BY <1>5
    <3> QED BY <3>1, <3>3, <3>4
  <2> QED BY <1>6, <2>3, <2>4
<1>8. SubSeq(p, Len(a) + 1, n) \in Seq(Tokens)
  <2>1. \A i \in Len(a) + 1 .. n : p[i] \in Tokens
    BY <1>5, ElementOfSeq
  <2> QED BY <1>5, <2>1, SubSeqProperties
<1> QED BY <1>1, <1>2, <1>4, <1>7, <1>8 DEF p, a

LEMMA BatchWorks ==
    ASSUME PagesInv, NEW s \in Slots, ProcessBatch(s)
    PROVE  \A r \in Slots : AtWork(r)'
<1> DEFINE p == slot[s].task
<1>1. /\ slot[s].st = "prompt" /\ p \in Prompts /\ slot' = slot
      /\ \E r : claim' = [claim EXCEPT ![s] = claim[s] \o r]
  BY BatchTokens
<1>2. PICK n \in Len(claim[s]) + 1 .. Len(p) - 1 : claim'[s] = Take(p, n)
  BY BatchTokens
<1>3. \A r \in Slots \ {s} : claim'[r] = claim[r]
  BY <1>1 DEF PagesInv, TypeInv, TokensOK
<1>4. p \in Seq(Tokens) /\ Len(p) \in Nat /\ n \in Nat /\ n < Len(p)
  BY <1>1, PromptsAreTokens DEF PagesInv, TypeInv, TokensOK
<1> HIDE DEF p
<1>5. Take(p, n) \in Seq(Tokens) /\ Len(Take(p, n)) = n
      /\ \A i \in 1 .. n : Take(p, n)[i] = p[i]
  BY <1>4, TakeIsPrefix
<1>6. AtWork(s)'
  <2>1. IsPrefix(Take(p, n), p)
    BY <1>4, <1>5, PrefixAgrees
  <2> QED BY <1>1, <1>2, <1>4, <1>5, <2>1 DEF AtWork, p
<1> QED BY <1>1, <1>3, <1>6, OthersStayAtWork

\* The last batch completes the prompt.
LEMMA FinishTokens ==
    ASSUME PagesInv, NEW s \in Slots, FinishPrompt(s)
    PROVE  /\ slot[s].st = "prompt" /\ slot[s].task \in Prompts /\ s \in Processing
           /\ slot' = [slot EXCEPT ![s].st = "generating"]
           /\ claim' = [claim EXCEPT ![s] = slot[s].task]
           /\ \E r \in Seq(Tokens) :
                 /\ claim' = [claim EXCEPT ![s] = claim[s] \o r]
                 /\ memory' = [memory EXCEPT ![s] = memory[s] \o r]
<1> DEFINE p == slot[s].task
           r == SubSeq(p, Len(claim[s]) + 1, Len(p))
<1>1. /\ slot[s].st = "prompt" /\ p \in Prompts /\ s \in Processing
      /\ slot' = [slot EXCEPT ![s].st = "generating"]
      /\ claim[s] \in Seq(Tokens) /\ IsPrefix(claim[s], p)
  BY DEF FinishPrompt, PagesInv, TypeInv, SlotsOK, Processing, TokensOK, AtWork
<1>2. claim' = [claim EXCEPT ![s] = p] /\ memory' = [memory EXCEPT ![s] = memory[s] \o r]
  BY DEF FinishPrompt
<1>3. p \in Seq(Tokens) /\ Len(p) \in Nat /\ Len(claim[s]) \in Nat
  BY <1>1, PromptsAreTokens
<1> HIDE DEF p
<1>4. claim[s] \o r = p
  BY <1>1, <1>3, RestCompletes
<1>5. r \in Seq(Tokens)
  <2>1. \A i \in Len(claim[s]) + 1 .. Len(p) : p[i] \in Tokens
    BY <1>3, ElementOfSeq
  <2> QED BY <1>3, <2>1, SubSeqProperties
<1> HIDE DEF r
<1> QED BY <1>1, <1>2, <1>4, <1>5 DEF p

LEMMA FinishWorks ==
    ASSUME PagesInv, NEW s \in Slots, FinishPrompt(s)
    PROVE  \A r \in Slots : AtWork(r)'
<1> DEFINE p == slot[s].task
<1>1. /\ p \in Prompts /\ s \in Processing
      /\ slot' = [slot EXCEPT ![s].st = "generating"] /\ claim' = [claim EXCEPT ![s] = p]
  BY FinishTokens
<1>2. claim'[s] = p /\ \A r \in Slots \ {s} : claim'[r] = claim[r]
  BY <1>1 DEF PagesInv, TypeInv, TokensOK
<1>3. /\ slot'[s].st = "generating" /\ slot'[s].task = p
      /\ \A r \in Slots \ {s} : slot'[r] = slot[r]
  BY <1>1, MovesOn DEF PagesInv, TypeInv
<1>4. AtWork(s)'
  <2>1. IsPrefix(p, p)
    BY <1>1, PromptsAreTokens, PrefixAgrees
  <2> QED BY <1>2, <1>3, <2>1 DEF AtWork
<1> QED BY <1>2, <1>3, <1>4, OthersStayAtWork

LEMMA GenerateTokens ==
    ASSUME PagesInv, NEW s \in Slots, Generate(s)
    PROVE  /\ slot[s].st = "generating" /\ slot[s].task \in Prompts /\ slot' = slot
           /\ \E t \in Reply :
                 /\ t \in Tokens
                 /\ claim' = [claim EXCEPT ![s] = Append(claim[s], t)]
                 /\ memory' = [memory EXCEPT ![s] = Append(memory[s], t)]
<1>1. slot[s].st = "generating" /\ slot[s].task \in Prompts /\ slot' = slot
  BY DEF Generate, PagesInv, TypeInv, SlotsOK, Processing
<1>2. \A t \in Reply : t \in Tokens
  BY DEF Tokens
<1> QED BY <1>1, <1>2 DEF Generate

LEMMA GenerateWorks ==
    ASSUME PagesInv, NEW s \in Slots, Generate(s)
    PROVE  \A r \in Slots : AtWork(r)'
<1> DEFINE p == slot[s].task
           a == claim[s]
<1>1. slot[s].st = "generating" /\ p \in Prompts /\ slot' = slot /\ a \in Seq(Tokens)
  BY GenerateTokens DEF PagesInv, TypeInv, TokensOK
<1>2. PICK t \in Tokens : claim' = [claim EXCEPT ![s] = Append(a, t)]
  BY GenerateTokens
<1>3. IsPrefix(p, a) /\ p \in Seq(Tokens) /\ Len(p) \in Nat
  BY <1>1, PromptsAreTokens DEF PagesInv, AtWork
<1>4. claim'[s] = Append(a, t) /\ \A r \in Slots \ {s} : claim'[r] = claim[r]
  BY <1>2 DEF PagesInv, TypeInv, TokensOK
<1> HIDE DEF p, a
<1>5. IsPrefix(p, Append(a, t))
  <2>1. PICK x : x = Append(a, t)
    OBVIOUS
  <2>2. /\ x \in Seq(Tokens) /\ Len(x) = Len(a) + 1 /\ Len(a) \in Nat
        /\ \A i \in 1 .. Len(a) : x[i] = a[i]
    BY <1>1, <2>1, AppendProperties
  <2>3. Len(p) <= Len(a) /\ \A i \in 1 .. Len(p) : p[i] = a[i]
    BY <1>1, <1>3, PrefixAgrees
  <2>4. IsPrefix(p, x)
    BY <1>3, <2>2, <2>3, PrefixAgrees
  <2> QED BY <2>1, <2>4
<1>6. AtWork(s)'
  BY <1>1, <1>4, <1>5 DEF AtWork, p
<1> QED BY <1>1, <1>4, <1>6, OthersStayAtWork

\* A slot that is launched, released or cleared has nothing under way.
LEMMA OthersWork ==
    ASSUME PagesInv,
           \/ \E s \in Slots : Launch(s) \/ Release(s) \/ ClearSlot(s)
           \/ DecodeFails \/ Restart \/ UNCHANGED vars
    PROVE  \A r \in Slots : AtWork(r)'
<1>2. ASSUME NEW s \in Slots, Launch(s) PROVE \A r \in Slots : AtWork(r)'
  <2>1. claim' = claim /\ slot'[s].st = "started" /\ \A r \in Slots \ {s} : slot'[r] = slot[r]
    BY <1>2 DEF Launch, PagesInv, TypeInv, SlotsOK
  <2>2. AtWork(s)'
    BY <2>1 DEF AtWork
  <2> QED BY <2>1, <2>2, OthersStayAtWork
<1>3. ASSUME NEW s \in Slots, Release(s) PROVE \A r \in Slots : AtWork(r)'
  <2>1. claim' = claim /\ slot'[s].st = "idle" /\ \A r \in Slots \ {s} : slot'[r] = slot[r]
    BY <1>3, IdleIsSlot DEF Release, PagesInv, TypeInv, SlotsOK
  <2>2. AtWork(s)'
    BY <2>1 DEF AtWork
  <2> QED BY <2>1, <2>2, OthersStayAtWork
<1>4. ASSUME NEW s \in Slots, ClearSlot(s) PROVE \A r \in Slots : AtWork(r)'
  <2>1. slot' = slot /\ slot[s].st = "idle" /\ \A r \in Slots \ {s} : claim'[r] = claim[r]
    BY <1>4 DEF ClearSlot, Processing, PagesInv, TypeInv, TokensOK
  <2>2. AtWork(s)'
    BY <2>1 DEF AtWork
  <2> QED BY <2>1, <2>2, OthersStayAtWork
<1>5. ASSUME DecodeFails \/ Restart PROVE \A r \in Slots : AtWork(r)'
  <2>1. \A r \in Slots : slot'[r].st = "idle"
    BY <1>5, IdleIsSlot DEF DecodeFails, Restart
  <2> QED BY <2>1 DEF AtWork
<1>6. ASSUME UNCHANGED vars PROVE \A r \in Slots : AtWork(r)'
  BY <1>6 DEF vars, PagesInv, AtWork
<1> QED BY <1>2, <1>3, <1>4, <1>5, <1>6

LEMMA PagesNext ==
    ASSUME PagesInv, [Next]_vars
    PROVE  PagesInv'
<1>1. TypeInv'
  BY NextTypes DEF PagesInv
<1>2. \A k \in Keys : \A c \in dirs'[k] : MadeFor(k, c)
  BY DirsStayMade
<1>3. (\A k \in Keys : \A c \in dirs[k] : MadeFor(k, c))'
  BY <1>2 DEF MadeFor, Keys, ConvKeys, ConvKey, UserKey, Take, FinalCount
<1>4. \A r \in Slots : AtWork(r)'
  BY StartsWork, BatchWorks, FinishWorks, GenerateWorks, OthersWork DEF Next
<1>5. AbortsIfSpoilt'
  BY StartsWork, OthersDoNotAbort DEF Next
<1> QED BY <1>1, <1>3, <1>4, <1>5 DEF PagesInv

\* Checkpoints are counted for the prompt that they are stored for, in its
\* directory, and a slot claims a beginning of its task and, when it answers, all
\* of it, through stores, restores, evictions, failed decodes and restarts
\* (server-context.cpp:3446-4043), for any prompts and clients.
THEOREM PagesInvariant == Spec => []PagesInv
<1>1. Init => PagesInv
  <2> SUFFICES ASSUME Init PROVE PagesInv
    OBVIOUS
  <2>1. \A s \in Slots : AtWork(s)
    BY IdleIsSlot DEF Init, AtWork
  <2>2. AbortsIfSpoilt
    BY DEF Init, AbortsIfSpoilt
  <2> QED BY <2>1, <2>2, InitTypes DEF Init, PagesInv
<1>2. PagesInv /\ [Next]_vars => PagesInv'
  BY PagesNext
<1> QED BY <1>1, <1>2, PTL DEF Spec

\* A slot that is not spoilt answers after all of the prompt that was sent,
\* computed, left there or restored (server-context.cpp:3446-4043).
THEOREM UnspoiltAnswer == Spec => []AnswersUnlessSpoilt
<1>1. PagesInv => AnswersUnlessSpoilt
  BY DEF PagesInv, AtWork, AnswersUnlessSpoilt
<1> QED BY <1>1, PagesInvariant, PTL

\* The abort of server-context.cpp:3749, on a slot that believes in tokens its
\* memory does not have, takes a slot that is spoilt.
THEOREM UnspoiltDoNotAbort == Spec => []AbortsIfSpoilt
<1>1. PagesInv => AbortsIfSpoilt
  BY DEF PagesInv
<1> QED BY <1>1, PagesInvariant, PTL

-----------------------------------------------------------------------------
(* Who is spoilt                                                           *)

Spoilt == {s \in Slots : memory[s] # claim[s]}

\* A checkpoint that fits leaves tokens in the slot that restores it.
LEMMA RestoreClaims ==
    ASSUME PagesInv, NEW s \in Slots, slot[s].task \in Prompts, NEW k,
           NEW c \in Checkpoint, MadeFor(k, c), Fits(c, slot[s].task),
           NEW m, Prepare(s, Claimed(slot[s].task, c), m)
    PROVE  /\ c.n \in Nat
           /\ Claimed(slot[s].task, c) \in Seq(Tokens) /\ Len(Claimed(slot[s].task, c)) = c.n
           /\ \E n \in 1 .. c.n :
                 /\ claim' = [claim EXCEPT ![s] = Take(Claimed(slot[s].task, c), n)]
                 /\ memory' = [m EXCEPT ![s] = Take(m[s], n)]
           /\ claim'[s] # <<>>
<1> DEFINE p == slot[s].task
           a == Claimed(p, c)
           keep == Reused(a, p)
<1>1. p \in Prompts /\ p \in Seq(Tokens) /\ Len(p) \in Nat /\ Len(p) > 1
  BY PromptsAreTokens
<1>2. c.n \in Nat /\ c.n >= 1 /\ c.n <= Len(p)
  BY ConstantsAssumption DEF MadeFor, Fits, Checkpoint
<1>3. claim' = [claim EXCEPT ![s] = Take(a, keep)] /\ memory' = [m EXCEPT ![s] = Take(m[s], keep)]
  BY DEF Prepare
<1> HIDE DEF p
<1>4. /\ a \in Seq(Tokens) /\ Len(a) = c.n
      /\ \A i \in 1 .. c.n : a[i] = p[i]
  <2>1. Len(a) = IF c.n < Len(p) THEN c.n ELSE Len(p)
    BY <1>1, <1>2, TakeIsPrefix DEF Claimed
  <2>2. Len(a) = c.n
    BY <1>1, <1>2, <2>1
  <2> QED BY <1>1, <1>2, <2>2, TakeIsPrefix DEF Claimed
<1> HIDE DEF a
<1>5. keep \in 1 .. c.n
  <2>1. /\ Common(a, p) \in 0 .. Len(a)
        /\ \A n \in 0 .. Len(a) :
              n <= Len(p) /\ (\A i \in 1 .. n : a[i] = p[i]) => n <= Common(a, p)
    BY <1>1, <1>4, CommonCounts
  <2>2. c.n \in 0 .. Len(a)
    BY <1>2, <1>4
  <2>3. Common(a, p) = c.n
    BY <1>2, <1>4, <2>1, <2>2
  <2> QED BY <1>1, <1>2, <2>3 DEF Reused
<1> HIDE DEF keep
<1>6. claim'[s] = Take(a, keep)
  BY <1>3 DEF PagesInv, TypeInv, TokensOK
<1>7. Take(a, keep) # <<>>
  <2> DEFINE x == Take(a, keep)
  <2>1. Len(x) = IF keep < Len(a) THEN keep ELSE Len(a)
    BY <1>4, <1>5, TakeIsPrefix
  <2>2. Len(x) >= 1
    BY <1>2, <1>4, <1>5, <2>1
  <2> HIDE DEF x
  <2>3. x # <<>>
    <3>1. Len(<<>>) = 0
      OBVIOUS
    <3> QED BY <2>2, <3>1
  <2> QED BY <2>3 DEF x
<1> QED BY <1>2, <1>3, <1>4, <1>5, <1>6, <1>7 DEF a, p

\* A cold start ends with a slot that is not spoilt, and touches no other, unless
\* the checkpoint it restores is of other tokens or another slot.
LEMMA ColdSpoils ==
    ASSUME PagesInv, NEW s \in Slots, ColdStart(s)
    PROVE  /\ \A r \in Slots \ {s} : claim'[r] = claim[r]
           /\ \/ /\ memory'[s] = claim'[s]
                 /\ \A r \in Slots \ {s} : memory'[r] = memory[r]
              \/ \E t \in Slots :
                    /\ Spoils(s, {s, t}) /\ claim'[s] # <<>>
                    /\ \A r \in Slots \ {s, t} : memory'[r] = memory[r]
<1> DEFINE p == slot[s].task
<1>1. p \in Prompts /\ slot[s].owner \in Owners /\ s \in Processing /\ claim[s] = <<>>
  BY ColdStarts
<1>2. /\ DOMAIN claim = Slots /\ DOMAIN memory = Slots /\ memory[s] \in Seq(Tokens)
  BY DEF PagesInv, TypeInv, TokensOK
<1>3. CASE Prepare(s, <<>>, memory)
  <2> DEFINE keep == Reused(<<>>, p)
  <2>1. /\ claim' = [claim EXCEPT ![s] = Take(<<>>, keep)]
        /\ memory' = [memory EXCEPT ![s] = Take(memory[s], keep)]
    BY <1>3 DEF Prepare
  <2>2. PICK e \in Seq(Tokens) : e = <<>>
    BY EmptySeq
  <2>3. Len(e) = 0
    BY <2>2
  <2>4. Reused(e, p) = 0
    <3> HIDE DEF p
    <3>1. Reused(e, p) \in Nat /\ Reused(e, p) <= Len(e)
      BY <1>1, ReusedIsCommon
    <3> QED BY <2>3, <3>1
  <2>5. keep = 0
    BY <2>2, <2>4
  <2> HIDE DEF keep
  <2>6. \A x \in Seq(Tokens) : Take(x, 0) = <<>>
    <3> SUFFICES ASSUME NEW x \in Seq(Tokens) PROVE Take(x, 0) = <<>>
      OBVIOUS
    <3>1. Take(x, 0) \in Seq(Tokens) /\ Len(Take(x, 0)) = IF 0 < Len(x) THEN 0 ELSE Len(x)
      BY TakeIsPrefix
    <3>2. Len(Take(x, 0)) = 0
      BY <3>1
    <3> QED BY <3>1, <3>2, EmptySeq
  <2>7. Take(<<>>, 0) = <<>> /\ Take(memory[s], 0) = <<>>
    BY <1>2, <2>2, <2>6
  <2> QED BY <1>2, <2>1, <2>5, <2>7
<1>4. ASSUME NEW k \in Searched(slot[s].owner, p), NEW c \in Matches(dirs[k], p),
             c \in Checkpoint, MadeFor(k, c), Fits(c, p),
             Prepare(s, Claimed(p, c), [memory EXCEPT ![Destination(s, c)] = c.state])
      PROVE  /\ \A r \in Slots \ {s} : claim'[r] = claim[r]
             /\ \/ /\ memory'[s] = claim'[s]
                   /\ \A r \in Slots \ {s} : memory'[r] = memory[r]
                \/ \E t \in Slots :
                      /\ Spoils(s, {s, t}) /\ claim'[s] # <<>>
                      /\ \A r \in Slots \ {s, t} : memory'[r] = memory[r]
  <2> DEFINE a == Claimed(p, c)
             to == Destination(s, c)
  <2>1. PICK m : m = [memory EXCEPT ![to] = c.state]
    OBVIOUS
  <2>2. Prepare(s, a, m)
    BY <1>4, <2>1
  <2>3. /\ c.n \in Nat /\ a \in Seq(Tokens) /\ Len(a) = c.n /\ claim'[s] # <<>>
        /\ \E n \in 1 .. c.n :
              /\ claim' = [claim EXCEPT ![s] = Take(a, n)]
              /\ memory' = [m EXCEPT ![s] = Take(m[s], n)]
    BY <1>1, <1>4, <2>2, RestoreClaims
  <2>4. PICK n \in 1 .. c.n : /\ claim' = [claim EXCEPT ![s] = Take(a, n)]
                              /\ memory' = [m EXCEPT ![s] = Take(m[s], n)]
    BY <2>3
  <2>5. c.slot \in Slots /\ c.state \in Seq(Tokens) /\ to \in Slots
    BY <1>4 DEF Checkpoint, Destination
  <2>6. DOMAIN m = Slots /\ m[to] = c.state /\ \A r \in Slots \ {to} : m[r] = memory[r]
    BY <1>2, <2>5, <2>1
  <2>7. CASE SoundRestore(s, c)
    <3>1. to = s
      BY <2>7 DEF SoundRestore, Destination
    <3>2. Take(c.state, c.n) = a
      BY <2>7 DEF SoundRestore, Claimed
    <3> HIDE DEF a, to
    <3>3. Take(c.state, n) = Take(a, n)
      <4>1. /\ Len(Take(c.state, c.n)) = IF c.n < Len(c.state) THEN c.n ELSE Len(c.state)
            /\ \A i \in 1 .. Len(Take(c.state, c.n)) : Take(c.state, c.n)[i] = c.state[i]
        BY <2>3, <2>5, TakeIsPrefix
      <4>2. Len(c.state) \in Nat
        BY <2>5
      <4>3. c.n <= Len(c.state)
        BY <2>3, <3>2, <4>1, <4>2
      <4>4. \A i \in 1 .. c.n : a[i] = c.state[i]
        BY <2>3, <3>2, <4>1
      <4>5. n \in 0 .. Len(a) /\ n <= Len(c.state) /\ \A i \in 1 .. n : a[i] = c.state[i]
        BY <2>3, <4>2, <4>3, <4>4
      <4>6. PICK y \in Seq(Tokens) : y = c.state
        BY <2>5
      <4>7. Take(a, n) = Take(y, n)
        BY <2>3, <4>5, <4>6, SameTake
      <4> QED BY <4>6, <4>7
    <3>4. memory'[s] = claim'[s]
      BY <1>2, <2>4, <2>6, <3>1, <3>3
    <3> QED BY <1>2, <2>4, <2>6, <3>1, <3>4
  <2>8. CASE ~SoundRestore(s, c)
    <3>1. Spoils(s, {s, to})
      BY <1>4, <2>8 DEF Spoils
    <3> HIDE DEF to, a
    <3>2. \A r \in Slots \ {s, to} : memory'[r] = memory[r]
      BY <2>4, <2>6
    <3> QED BY <1>2, <2>3, <2>4, <2>5, <3>1, <3>2
  <2> QED BY <2>7, <2>8
<1> QED BY <1>3, <1>4, ColdStarts

\* A slot that goes on with its own tokens is no worse.
LEMMA WarmSpoilsNone ==
    ASSUME PagesInv, NEW s \in Slots, WarmStart(s)
    PROVE  /\ \A r \in Slots \ {s} : claim'[r] = claim[r] /\ memory'[r] = memory[r]
           /\ memory[s] = claim[s] => memory'[s] = claim'[s]
<1>1. Prepare(s, claim[s], memory)
  BY DEF WarmStart
<1>2. PICK n : /\ claim' = [claim EXCEPT ![s] = Take(claim[s], n)]
               /\ memory' = [memory EXCEPT ![s] = Take(memory[s], n)]
  BY <1>1 DEF Prepare
<1> QED BY <1>2 DEF PagesInv, TypeInv, TokensOK

\* Tokens are computed on both sides.
LEMMA WorkSpoilsNone ==
    ASSUME PagesInv, NEW s \in Slots, ProcessBatch(s) \/ FinishPrompt(s) \/ Generate(s)
    PROVE  \A r \in Slots : memory'[r] = claim'[r] <=> memory[r] = claim[r]
<1>1. /\ DOMAIN claim = Slots /\ DOMAIN memory = Slots
      /\ memory[s] \in Seq(Tokens) /\ claim[s] \in Seq(Tokens)
  BY DEF PagesInv, TypeInv, TokensOK
<1>2. ASSUME NEW r \in Seq(Tokens), claim' = [claim EXCEPT ![s] = claim[s] \o r],
             memory' = [memory EXCEPT ![s] = memory[s] \o r]
      PROVE  \A q \in Slots : memory'[q] = claim'[q] <=> memory[q] = claim[q]
  <2>1. memory[s] \o r = claim[s] \o r <=> memory[s] = claim[s]
    BY <1>1, SameBeginning
  <2> QED BY <1>1, <1>2, <2>1
<1>3. CASE ProcessBatch(s) \/ FinishPrompt(s)
  BY <1>2, <1>3, BatchTokens, FinishTokens
<1>4. CASE Generate(s)
  <2>1. PICK t \in Tokens : /\ claim' = [claim EXCEPT ![s] = Append(claim[s], t)]
                            /\ memory' = [memory EXCEPT ![s] = Append(memory[s], t)]
    BY <1>4, GenerateTokens
  <2>2. Append(memory[s], t) = Append(claim[s], t) <=> memory[s] = claim[s]
    BY <1>1, AppendInjective
  <2> QED BY <1>1, <2>1, <2>2
<1> QED BY <1>3, <1>4

\* What empties slots, and what leaves their tokens alone
LEMMA RestSpoilsNone ==
    ASSUME PagesInv, NEW r \in Slots, memory[r] = claim[r],
           \/ \E s \in Slots : Launch(s) \/ Release(s) \/ ClearSlot(s)
           \/ DecodeFails \/ Restart \/ UNCHANGED vars
    PROVE  memory'[r] = claim'[r]
BY DEF PagesInv, TypeInv, TokensOK, Launch, Release, ClearSlot, DecodeFails, Restart, vars

\* Memory and claims part in a restore only, of a checkpoint that holds other
\* tokens or, for an anonymous request, was made on another slot; and this spoils
\* no more than the slot that asked and the one the state went to
\* (server-context.cpp:3446-3556, server-context-page-manager.cpp:545): stores,
\* evictions, failed decodes, releases and restarts spoil nothing.
THEOREM OnlyRestoresSpoil == Spec => SpoiltByRestore
<1>1. ASSUME PagesInv, [Next]_vars, NEW s \in Slots, memory[s] = claim[s], memory'[s] # claim'[s]
      PROVE  \E t, r \in Slots : Spoils(t, {t, r}) /\ s \in {t, r}
  <2>1. PICK t \in Slots : WarmStart(t) \/ ColdStart(t)
    BY <1>1, WorkSpoilsNone, RestSpoilsNone DEF Next
  <2>2. ColdStart(t)
    BY <1>1, <2>1, WarmSpoilsNone
  <2>3. PICK r \in Slots : /\ Spoils(t, {t, r})
                           /\ \A q \in Slots \ {t, r} : memory'[q] = memory[q]
    BY <1>1, <2>2, ColdSpoils
  <2>4. \A q \in Slots \ {t} : claim'[q] = claim[q]
    BY <1>1, <2>2, ColdSpoils
  <2>5. s \in {t, r}
    BY <1>1, <2>3, <2>4
  <2> QED BY <2>3, <2>5
<1>2. PagesInv /\ [Next]_vars =>
         [\A s \in Slots : memory[s] = claim[s] /\ memory'[s] # claim'[s] =>
             \E t, r \in Slots : Spoils(t, {t, r}) /\ s \in {t, r}]_vars
  BY <1>1
<1> QED BY <1>2, PagesInvariant, PTL DEF Spec, SpoiltByRestore

\* What an unspoilt slot stores is the state of its prompt
\* (server-context.cpp:2586-2628), so that a restore can only be wrong where the
\* lookup compares less than it restores.
THEOREM UnspoiltStore == Spec => StoresUnlessSpoilt
<1>1. ASSUME PagesInv, [Next]_vars, NEW k \in Keys, NEW c \in dirs'[k] \ dirs[k],
             memory[c.slot] = claim[c.slot]
      PROVE  c.state = slot[c.slot].task
  <2>1. PICK s \in Slots, l \in Keys : \E d :
           /\ Made(s, l, d) /\ dirs'[l] \subseteq dirs[l] \cup {d}
           /\ \A j \in Keys \ {l} : dirs'[j] \subseteq dirs[j]
    BY <1>1, DirsStep DEF PagesInv, TypeInv, Kept
  <2>2. Made(s, l, c)
    BY <1>1, <2>1
  <2>3. /\ c.slot = s
        /\ c.state = memory[s] \o SubSeq(slot[s].task, Len(claim[s]) + 1, Len(slot[s].task))
    BY <2>2 DEF Made, FinalCheckpoint
  <2>4. /\ claim[s] \in Seq(Tokens) /\ slot[s].task \in Seq(Tokens)
        /\ IsPrefix(claim[s], slot[s].task)
    <3>1. slot[s].st = "prompt" /\ slot[s].task \in Prompts
      BY <1>1, <2>2 DEF Made, PagesInv, TypeInv, SlotsOK, Processing
    <3> QED BY <1>1, <3>1, PromptsAreTokens DEF PagesInv, TypeInv, TokensOK, AtWork
  <2>5. claim[s] \o SubSeq(slot[s].task, Len(claim[s]) + 1, Len(slot[s].task)) = slot[s].task
    BY <2>4, RestCompletes
  <2> QED BY <1>1, <2>3, <2>5
<1>2. PagesInv /\ [Next]_vars =>
         [\A k \in Keys : \A c \in dirs'[k] \ dirs[k] :
             memory[c.slot] = claim[c.slot] => c.state = slot[c.slot].task]_vars
  BY <1>1
<1> QED BY <1>2, PagesInvariant, PTL DEF Spec, StoresUnlessSpoilt

-----------------------------------------------------------------------------
(* Checkpoints on disk are found                                           *)

LEMMA TenthsType ==
    ASSUME NEW m \in Nat, NEW n \in Nat, m < n
    PROVE  /\ (10 * m) \div n \in 0 .. 9
           /\ m = 0 => (10 * m) \div n = 0
           /\ (10 * m) \div n >= 9 => 9 * n <= 10 * m
<1> DEFINE q == (10 * m) \div n
<1>1. q \in Int
  OBVIOUS
<1>2. n * q <= 10 * m /\ 10 * m < n * q + n
  OBVIOUS
<1> HIDE DEF q
<1>3. q \in 0 .. 9 /\ (m = 0 => q = 0)
  BY <1>1, <1>2
<1>4. ASSUME q >= 9 PROVE 9 * n <= 10 * m
  <2>1. q = 9
    BY <1>3, <1>4
  <2>2. n * 9 <= 10 * m
    BY <1>2, <2>1
  <2> QED BY <2>2
<1> QED BY <1>3, <1>4 DEF q

LEMMA ScoreType ==
    ASSUME NEW c \in Checkpoint, c.n >= 1, NEW p \in Prompts
    PROVE  /\ Score(c, p) \in 0 .. 10
           /\ Score(c, p) >= 9 => Common(c.prefix, p) > 0
           /\ Common(c.prefix, p) < c.n => Score(c, p) <= 9
           /\ Score(c, p) >= 9 /\ Common(c.prefix, p) < c.n => 9 * c.n <= 10 * Common(c.prefix, p)
           /\ /\ Common(c.prefix, p) >= c.n
              /\ Len(c.prefix) >= MinCompared /\ Len(p) >= MinCompared
              => Score(c, p) = 10
<1> DEFINE same == Common(c.prefix, p)
           tenths == (10 * same) \div c.n
<1>1. c.prefix \in Seq(Tokens) /\ p \in Seq(Tokens) /\ c.n \in Nat
  BY PromptsAreTokens DEF Checkpoint
<1>2. same \in Nat
  BY <1>1, CommonCounts
<1>3. Score(c, p) = IF Len(c.prefix) < MinCompared \/ Len(p) < MinCompared THEN 0
                    ELSE IF same >= c.n THEN 10 ELSE tenths
  BY DEF Score
<1>4. Len(c.prefix) \in Nat /\ Len(p) \in Nat /\ MinCompared \in Nat
  BY <1>1, ConstantsAssumption
<1> HIDE DEF same
<1>5. same < c.n => /\ tenths \in 0 .. 9 /\ (same = 0 => tenths = 0)
                    /\ tenths >= 9 => 9 * c.n <= 10 * same
  BY <1>1, <1>2, TenthsType
<1> HIDE DEF tenths
<1> QED BY <1>1, <1>2, <1>3, <1>4, <1>5 DEF same

\* The best score of a directory is that of one of its checkpoints.
LEMMA DirScoreIsOne ==
    ASSUME PagesInv, NEW k \in Keys, NEW p \in Prompts
    PROVE  /\ \A c \in dirs[k] : Score(c, p) <= DirScore(k, p)
           /\ DirScore(k, p) = 0 \/ \E c \in dirs[k] : DirScore(k, p) = Score(c, p)
<1> DEFINE S == {Score(c, p) : c \in dirs[k]} \cup {0}
<1>1. \A c \in dirs[k] : Score(c, p) \in 0 .. 10
  <2> SUFFICES ASSUME NEW c \in dirs[k] PROVE Score(c, p) \in 0 .. 10
    OBVIOUS
  <2>1. c \in Checkpoint /\ MadeFor(k, c)
    BY DEF PagesInv, TypeInv, DirsOK
  <2>2. c.n >= 1
    BY <2>1, ConstantsAssumption DEF MadeFor, Checkpoint
  <2> QED BY <2>1, <2>2, ScoreType
<1>2. S # {} /\ \A x \in S : x \in 0 .. 10
  BY <1>1
<1>3. DirScore(k, p) = Max(S)
  BY DEF DirScore
<1>4. \A c \in dirs[k] : Score(c, p) \in S
  OBVIOUS
<1>5. \A x \in S : x = 0 \/ \E c \in dirs[k] : x = Score(c, p)
  OBVIOUS
<1> HIDE DEF S
<1>6. Max(S) \in S /\ \A y \in S : y <= Max(S)
  <2>1. S \subseteq 0 .. 10
    BY <1>2
  <2> QED BY <1>2, <2>1, MaxOfBounded
<1> QED BY <1>3, <1>4, <1>5, <1>6

\* A checkpoint whose prefix begins the prompt fits, and scores as one that the
\* prompt continues unless its prefix was cut short.
LEMMA BeginningAgrees ==
    ASSUME NEW k, NEW c \in Checkpoint, MadeFor(k, c), NEW p \in Prompts,
           c.n < Len(p), IsPrefix(Take(c.prefix, c.n), p)
    PROVE  /\ c.n \in Nat /\ c.n >= MinFinal /\ c.n >= 1
           /\ Fits(c, p)
           /\ Len(c.prefix) \in Nat
           /\ Len(c.prefix) >= c.n => Common(c.prefix, p) >= c.n
           /\ Len(c.prefix) >= c.n \/ Len(c.prefix) = PrefixMax
<1> DEFINE x == c.prefix
           t == Take(x, c.n)
<1>1. PICK q \in Prompts : c.n = FinalCount(q) /\ c.n >= MinFinal /\ x = Take(q, PrefixMax)
  BY DEF MadeFor
<1>2. IsPrefix(t, p) /\ x \in Seq(Tokens)
  BY DEF Checkpoint
<1> HIDE DEF x
<1>3. /\ p \in Seq(Tokens) /\ Len(p) \in Nat
      /\ q \in Seq(Tokens) /\ Len(q) \in Nat /\ Len(q) > 1
  BY PromptsAreTokens
<1>4. /\ c.n \in Nat /\ 1 <= c.n /\ c.n <= Len(q)
  BY <1>1, <1>3, ConstantsAssumption DEF FinalCount
<1>5. PrefixMax \in Nat /\ PrefixMax >= 1
  BY ConstantsAssumption, LimitsAssumption
<1>6. /\ Len(x) \in Nat /\ Len(x) >= 1
      /\ Len(x) >= c.n \/ Len(x) = PrefixMax
  <2>1. Len(x) = IF PrefixMax < Len(q) THEN PrefixMax ELSE Len(q)
    BY <1>1, <1>3, <1>5, TakeIsPrefix
  <2> QED BY <1>3, <1>4, <1>5, <2>1
<1>7. /\ t \in Seq(Tokens) /\ Len(t) = IF c.n < Len(x) THEN c.n ELSE Len(x)
      /\ \A i \in 1 .. Len(t) : t[i] = x[i]
  BY <1>2, <1>4, TakeIsPrefix
<1> HIDE DEF t
<1>8. Len(t) <= Len(p) /\ \A i \in 1 .. Len(t) : t[i] = p[i]
  BY <1>2, <1>3, <1>7, PrefixAgrees
<1>9. Len(t) <= Common(x, p) /\ Common(x, p) \in Nat
  <2>1. Len(t) \in 0 .. Len(x) /\ \A i \in 1 .. Len(t) : x[i] = p[i]
    BY <1>4, <1>6, <1>7, <1>8
  <2> QED BY <1>2, <1>3, <1>8, <2>1, CommonCounts
<1>10. Common(x, p) > 0 /\ (Len(x) >= c.n => Common(x, p) >= c.n)
  BY <1>4, <1>6, <1>7, <1>9
<1> QED BY <1>1, <1>3, <1>4, <1>6, <1>10 DEF Fits, x

LEMMA BestExists ==
    ASSUME NEW S, IsFiniteSet(S), S # {}, NEW p,
           \A c \in S : Common(c.prefix, p) \in Nat /\ c.turn \in Nat /\ c.n \in Nat
    PROVE  BestOf(S, p) # {}
<1> DEFINE f == [c \in S |-> Common(c.prefix, p)]
           g == [c \in S |-> c.turn]
           h == [c \in S |-> c.n]
<1>1. f \in [S -> Nat] /\ g \in [S -> Nat] /\ h \in [S -> Nat]
  OBVIOUS
<1>2. \A c \in S : f[c] = Common(c.prefix, p) /\ g[c] = c.turn /\ h[c] = c.n
  OBVIOUS
<1> HIDE DEF f, g, h
<1>3. PICK c \in S : \A d \in S :
         \/ f[c] > f[d]
         \/ f[c] = f[d] /\ g[c] > g[d]
         \/ f[c] = f[d] /\ g[c] = g[d] /\ h[c] >= h[d]
  BY <1>1, FirstExists
<1>4. c \in BestOf(S, p)
  BY <1>2, <1>3 DEF BestOf
<1> QED BY <1>4

\* Some checkpoint wins the lookup in a directory that has one which fits, and
\* the slot that restores it starts with tokens.
LEMMA FoundIsRestored ==
    ASSUME PagesInv, NEW s \in Slots, slot[s].task \in Prompts, NEW k \in Keys,
           NEW d \in dirs[k], Fits(d, slot[s].task),
           LET found == Matches(dirs[k], slot[s].task) IN
              \/ /\ found = {}
                 /\ Prepare(s, <<>>, memory)
              \/ \E c \in found :
                    Prepare(s, Claimed(slot[s].task, c),
                            [memory EXCEPT ![Destination(s, c)] = c.state])
    PROVE  claim'[s] # <<>>
<1> DEFINE p == slot[s].task
           S == {c \in dirs[k] : Fits(c, p)}
<1>1. p \in Prompts /\ p \in Seq(Tokens) /\ Len(p) \in Nat /\ Len(p) > 1
  BY PromptsAreTokens
<1>2. \A c \in S : /\ c \in Checkpoint /\ MadeFor(k, c) /\ Fits(c, p)
                   /\ c.prefix \in Seq(Tokens) /\ c.turn \in Nat /\ c.n \in Nat
  BY DEF PagesInv, TypeInv, DirsOK, Checkpoint
<1>3. IsFiniteSet(S) /\ S # {}
  BY FS_Subset DEF PagesInv, TypeInv, DirsOK
<1>4. Matches(dirs[k], p) = BestOf(S, p)
  BY DEF Matches
<1> HIDE DEF p
<1>5. \A c \in S : Common(c.prefix, p) \in Nat
  <2> SUFFICES ASSUME NEW c \in S PROVE Common(c.prefix, p) \in Nat
    OBVIOUS
  <2>1. c.prefix \in Seq(Tokens) /\ Len(c.prefix) \in Nat
    BY <1>2
  <2> QED BY <1>1, <2>1, CommonCounts
<1> HIDE DEF S
<1>6. BestOf(S, p) # {}
  <2>1. \A c \in S : Common(c.prefix, p) \in Nat /\ c.turn \in Nat /\ c.n \in Nat
    BY <1>2, <1>5
  <2> QED BY <1>3, <2>1, BestExists
<1>7. PICK c \in BestOf(S, p) : Prepare(s, Claimed(p, c),
                                        [memory EXCEPT ![Destination(s, c)] = c.state])
  BY <1>4, <1>6 DEF p
<1>8. c \in Checkpoint /\ MadeFor(k, c) /\ Fits(c, p)
  BY <1>2 DEF BestOf
<1>9. PICK m : m = [memory EXCEPT ![Destination(s, c)] = c.state]
  OBVIOUS
<1>10. Prepare(s, Claimed(p, c), m)
  BY <1>7, <1>9
<1> QED BY <1>1, <1>8, <1>10, RestoreClaims DEF p

\* The conversation that continues the prompt best holds a checkpoint that fits,
\* if the prompt's own directory does: a longer one of another hash has less in
\* common with the prompt than the tokens that are hashed, and 9 tenths of it.
LEMMA ContinuedFits ==
    ASSUME PagesInv, NEW p \in Prompts, NEW k \in Continued(p),
           NEW c \in dirs[ConvKey(p)], c.n < Len(p), IsPrefix(Take(c.prefix, c.n), p)
    PROVE  \E d \in dirs[k] : Fits(d, p)
<1>1. k \in ConvKeys /\ k \in Keys /\ ConvKey(p) \in ConvKeys /\ ConvKey(p) \in Keys
  BY KeyTypes, ConstantsAssumption DEF Continued, Keys, ConvKeys
<1>2. c \in Checkpoint /\ MadeFor(ConvKey(p), c)
  BY <1>1 DEF PagesInv, TypeInv, DirsOK
<1>3. /\ c.n \in Nat /\ c.n >= MinFinal /\ c.n >= 1
      /\ Fits(c, p) /\ Len(c.prefix) \in Nat
      /\ Len(c.prefix) >= c.n => Common(c.prefix, p) >= c.n
      /\ Len(c.prefix) >= c.n \/ Len(c.prefix) = PrefixMax
  BY <1>2, BeginningAgrees
<1>4. DirScore(k, p) >= 9 /\ DirScore(ConvKey(p), p) <= DirScore(k, p)
  BY <1>1 DEF Continued
<1>5. PICK d \in dirs[k] : DirScore(k, p) = Score(d, p)
  BY <1>1, <1>4, DirScoreIsOne
<1>6. d \in Checkpoint /\ MadeFor(k, d)
  BY <1>1 DEF PagesInv, TypeInv, DirsOK
<1>7. PICK q \in Prompts : d.prefix = Take(q, PrefixMax) /\ d.n >= MinFinal /\ k = ConvKey(q)
  BY <1>1, <1>6 DEF MadeFor
<1>8. d.n \in Nat /\ d.n >= 1
  BY <1>6, <1>7, ConstantsAssumption DEF Checkpoint
<1>9. /\ Score(d, p) \in 0 .. 10 /\ Score(d, p) >= 9 /\ Common(d.prefix, p) > 0
      /\ Common(d.prefix, p) < d.n => Score(d, p) <= 9 /\ 9 * d.n <= 10 * Common(d.prefix, p)
  BY <1>4, <1>5, <1>6, <1>8, ScoreType
<1>10. /\ HashLen \in Nat /\ PrefixMax \in Nat /\ MinCompared <= MinFinal /\ MinFinal <= HashLen
       /\ MinCompared \in Nat /\ MinFinal \in Nat /\ 10 * HashLen <= 9 * PrefixMax
  BY ConstantsAssumption, LimitsAssumption
<1>11. CASE d.n <= Len(p)
  BY <1>9, <1>11 DEF Fits
<1>12. CASE ~ (d.n <= Len(p))
  <2> DEFINE x == d.prefix
             same == Common(x, p)
  <2>1. /\ p \in Seq(Tokens) /\ Len(p) \in Nat
        /\ q \in Seq(Tokens) /\ Len(q) \in Nat
    BY PromptsAreTokens
  <2>2. /\ x \in Seq(Tokens) /\ Len(x) = (IF PrefixMax < Len(q) THEN PrefixMax ELSE Len(q))
        /\ \A i \in 1 .. Len(x) : x[i] = q[i]
    BY <1>7, <1>10, <2>1, TakeIsPrefix
  <2> HIDE DEF x
  <2>3. /\ same \in 0 .. Len(x) /\ same <= Len(p)
        /\ \A i \in 1 .. same : x[i] = p[i]
    BY <2>1, <2>2, CommonCounts
  <2>4. same < d.n /\ Score(d, p) <= 9 /\ 9 * d.n <= 10 * same
    <3>1. same < d.n
      BY <1>8, <1>12, <2>1, <2>3
    <3> QED BY <1>9, <3>1 DEF x
  <2> HIDE DEF same
  <2>5. Score(c, p) # 10
    <3>1. Score(c, p) <= DirScore(ConvKey(p), p)
      BY <1>1, DirScoreIsOne
    <3>2. Score(c, p) \in 0 .. 10
      BY <1>2, <1>3, ScoreType
    <3>3. \A e \in dirs[ConvKey(p)] : Score(e, p) \in 0 .. 10
      <4> SUFFICES ASSUME NEW e \in dirs[ConvKey(p)] PROVE Score(e, p) \in 0 .. 10
        OBVIOUS
      <4>1. e \in Checkpoint /\ MadeFor(ConvKey(p), e)
        BY <1>1 DEF PagesInv, TypeInv, DirsOK
      <4>2. e.n >= 1
        BY <4>1, ConstantsAssumption DEF Checkpoint, MadeFor
      <4> QED BY <4>1, <4>2, ScoreType
    <3>4. DirScore(ConvKey(p), p) \in 0 .. 10
      BY <1>1, <3>3, DirScoreIsOne
    <3> QED BY <1>4, <1>5, <1>9, <2>4, <3>1, <3>2, <3>4
  <2>6. PrefixMax < Len(p)
    <3>1. CASE Len(c.prefix) >= c.n
      <4>1. Common(c.prefix, p) >= c.n
        BY <1>3, <3>1
      <4>2. Len(c.prefix) >= MinCompared /\ Len(p) >= MinCompared
        BY <1>3, <1>10, <2>1, <3>1
      <4> QED BY <1>2, <1>3, <2>5, <4>1, <4>2, ScoreType
    <3>2. CASE ~ (Len(c.prefix) >= c.n)
      BY <1>3, <1>10, <2>1, <3>2
    <3> QED BY <3>1, <3>2
  <2>7. CASE same < HashLen
    <3>1. 9 * d.n < 9 * PrefixMax
      BY <1>8, <1>10, <2>2, <2>3, <2>4, <2>7
    <3> QED BY <1>8, <1>10, <1>12, <2>1, <2>6, <3>1
  <2>8. CASE ~ (same < HashLen)
    <3>1. HashLen <= Len(p) /\ HashLen <= Len(q) /\ HashLen \in 0 .. Len(p)
      BY <1>10, <2>1, <2>2, <2>3, <2>8
    <3>2. \A i \in 1 .. HashLen : p[i] = q[i]
      BY <1>10, <2>2, <2>3, <2>8
    <3>3. Take(p, HashLen) = Take(q, HashLen)
      BY <2>1, <3>1, <3>2, SameTake
    <3>4. k = ConvKey(p)
      BY <1>7, <3>3 DEF ConvKey
    <3> QED BY <1>3, <3>4
  <2> QED BY <2>7, <2>8
<1> QED BY <1>11, <1>12

\* A cold start whose directory holds a checkpoint of a beginning of the prompt
\* never starts from nothing, whether the directory is loaded or found by
\* kv_ssd_find_continuation after a restart (server-context-page-manager.cpp:
\* 459-545, kv-ssd-cache.cpp:822-884, 1014-1115), and whatever limits the prefix
\* that is compared.
THEOREM CheckpointsAreUsed == Spec => DiskIsUsed
<1>1. ASSUME PagesInv, NEW s \in Slots, ColdStart(s), HasCheckpoint(s) PROVE claim'[s] # <<>>
  <2>1. slot[s].task \in Prompts /\ slot[s].owner \in Owners
    BY <1>1 DEF ColdStart, PagesInv, TypeInv, SlotsOK, Processing
  <2> DEFINE p == slot[s].task
             own == KeyOf(slot[s].owner, p)
  <2>2. PICK c \in dirs[own] : c.n < Len(p) /\ IsPrefix(Take(c.prefix, c.n), p)
    BY <1>1 DEF HasCheckpoint
  <2>3. own \in Keys
    BY <2>1, KeyTypes
  <2>4. c \in Checkpoint /\ MadeFor(own, c)
    BY <1>1, <2>2, <2>3 DEF PagesInv, TypeInv, DirsOK
  <2>5. PICK k \in Searched(slot[s].owner, p) :
           LET found == Matches(dirs[k], p) IN
              \/ /\ found = {}
                 /\ Prepare(s, <<>>, memory)
              \/ \E d \in found :
                    Prepare(s, Claimed(p, d),
                            [memory EXCEPT ![Destination(s, d)] = d.state])
    BY <1>1 DEF ColdStart
  <2>6. k \in Keys
    BY <2>1, <2>5, KeyTypes
  <2>7. \E d \in dirs[k] : Fits(d, p)
    <3>1. CASE k = own
      <4>1. Fits(c, p)
        BY <2>1, <2>2, <2>4, BeginningAgrees
      <4> QED BY <3>1, <4>1
    <3>2. CASE k # own
      <4>1. k \in Continued(p) /\ own = ConvKey(p)
        BY <2>5, <3>2 DEF Searched, KeyOf
      <4> HIDE DEF own
      <4> QED BY <1>1, <2>1, <2>2, <4>1, ContinuedFits
    <3> QED BY <3>1, <3>2
  <2> QED BY <1>1, <2>1, <2>5, <2>6, <2>7, FoundIsRestored
<1>2. PagesInv => [\A s \in Slots : ColdStart(s) /\ HasCheckpoint(s) => claim'[s] # <<>>]_vars
  BY <1>1
<1> QED BY <1>2, PagesInvariant, PTL DEF DiskIsUsed

-----------------------------------------------------------------------------
(* The slots keep the promise of PlainSlots                                *)

Asked == [s \in Slots |-> slot[s].task]
Phase == [s \in Slots |-> slot[s].st]

\* A free slot has no task (server_slot::reset).
FreeAskNothing == \A s \in Slots \ Processing : slot[s].task = <<>>

LEMMA FreeStayEmpty ==
    ASSUME SlotsOK, FreeAskNothing, [Next]_vars
    PROVE  FreeAskNothing'
<1>1. Idle.task = <<>> /\ Idle.st = "idle"
  BY DEF Idle
<1>2. ASSUME NEW s \in Slots, slot[s].st # "idle",
             NEW x \in {"prompt", "generating"}, slot' = [slot EXCEPT ![s].st = x]
      PROVE  FreeAskNothing'
  BY <1>2, MovesOn DEF FreeAskNothing, Processing
<1>3. ASSUME NEW s \in Slots, Launch(s) PROVE FreeAskNothing'
  <2>1. PICK o \in Owners, p \in Prompts :
           slot' = [slot EXCEPT ![s] = [st |-> "started", owner |-> o, task |-> p]]
    BY <1>3 DEF Launch
  <2>2. slot'[s].st = "started" /\ \A r \in Slots \ {s} : slot'[r] = slot[r]
    BY <2>1 DEF SlotsOK
  <2> QED BY <2>2 DEF FreeAskNothing, Processing
<1>4. ASSUME NEW s \in Slots, WarmStart(s) \/ ColdStart(s) PROVE FreeAskNothing'
  BY <1>2, <1>4 DEF WarmStart, ColdStart, Prepare
<1>5. ASSUME NEW s \in Slots, FinishPrompt(s) PROVE FreeAskNothing'
  BY <1>2, <1>5 DEF FinishPrompt
<1>6. ASSUME NEW s \in Slots, Release(s) PROVE FreeAskNothing'
  <2>1. slot'[s] = Idle /\ \A r \in Slots \ {s} : slot'[r] = slot[r]
    BY <1>6 DEF Release, SlotsOK
  <2> QED BY <1>1, <2>1 DEF FreeAskNothing, Processing
<1>7. ASSUME DecodeFails \/ Restart PROVE FreeAskNothing'
  BY <1>1, <1>7 DEF DecodeFails, Restart, FreeAskNothing
<1>8. ASSUME slot' = slot PROVE FreeAskNothing'
  BY <1>8 DEF FreeAskNothing, Processing
<1>9. ASSUME NEW s \in Slots, ProcessBatch(s) \/ Generate(s) \/ ClearSlot(s) PROVE slot' = slot
  BY <1>9 DEF ProcessBatch, Generate, ClearSlot
<1> QED BY <1>3, <1>4, <1>5, <1>6, <1>7, <1>8, <1>9 DEF Next, vars

LEMMA FreeSlots == Plain!Free = Slots \ Processing
BY DEF Plain!Free, Processing

\* A part of a prompt that leaves something to evaluate
LEMMA IsBeginning ==
    ASSUME NEW p \in Prompts, NEW x \in Seq(Tokens), Len(x) < Len(p), IsPrefix(x, p)
    PROVE  x \in Plain!Beginnings(p)
<1>1. p \in Seq(Tokens) /\ Len(p) \in Nat /\ Len(x) \in Nat
  BY PromptsAreTokens
<1>2. SubSeq(x, 1, Len(x)) = x /\ Len(x) \in 0 .. Len(p) - 1
  BY <1>1
<1>3. SubSeq(x, 1, Len(x)) = SubSeq(p, 1, Len(x))
  BY DEF IsPrefix
<1> QED BY <1>2, <1>3 DEF Plain!Beginnings

\* A slot that works moves on, and its client's prompt stays.
LEMMA PhaseMoves ==
    ASSUME SlotsOK, NEW s \in Slots, slot[s].st # "idle", NEW x \in {"prompt", "generating"},
           slot' = [slot EXCEPT ![s].st = x]
    PROVE  Phase' = [Phase EXCEPT ![s] = x] /\ Asked' = Asked
<1>1. /\ slot'[s].st = x /\ slot'[s].task = slot[s].task
      /\ \A r \in Slots \ {s} : slot'[r] = slot[r]
  BY MovesOn DEF Processing
<1>2. \A r \in Slots : slot'[r].st = (IF r = s THEN x ELSE slot[r].st)
  BY <1>1
<1>3. \A r \in Slots : slot'[r].task = slot[r].task
  BY <1>1
<1> QED BY <1>2, <1>3 DEF Phase, Asked

\* A slot changes, and it is spoilt if and only if it was, or is not any more.
LEMMA SpoiltStays ==
    ASSUME \A r \in Slots : memory'[r] = claim'[r] <=> memory[r] = claim[r]
    PROVE  Spoilt' = Spoilt
BY DEF Spoilt

LEMMA StartBegins ==
    ASSUME PagesInv, PagesInv', NEW s \in Slots, WarmStart(s) \/ ColdStart(s)
    PROVE  Plain!Begin(s)
<1>1. /\ slot[s].st = "started" /\ slot[s].task \in Prompts
      /\ slot' = [slot EXCEPT ![s].st = "prompt"]
  BY DEF WarmStart, ColdStart, Prepare, PagesInv, TypeInv, SlotsOK, Processing
<1>2. Phase' = [Phase EXCEPT ![s] = "prompt"] /\ Asked' = Asked
  BY <1>1, PhaseMoves DEF PagesInv, TypeInv
<1>3. slot'[s].st = "prompt" /\ slot'[s].task = slot[s].task
  BY <1>1, MovesOn DEF PagesInv, TypeInv, Processing
<1>4. claim'[s] \in Plain!Beginnings(slot[s].task)
  <2>1. /\ claim'[s] \in Seq(Tokens) /\ Len(claim'[s]) < Len(slot[s].task)
        /\ IsPrefix(claim'[s], slot[s].task)
    BY <1>3 DEF PagesInv, TypeInv, TokensOK, AtWork
  <2> QED BY <1>1, <2>1, IsBeginning
<1>5. claim' = [claim EXCEPT ![s] = claim'[s]]
  BY WarmSpoilsNone, ColdSpoils DEF PagesInv, TypeInv, TokensOK
<1>6. \/ Spoilt' \in {Spoilt, Spoilt \ {s}}
      \/ /\ claim[s] = <<>> /\ claim'[s] # <<>> /\ Spoilt' \in SUBSET Slots
         /\ \E t \in Slots : \A r \in Slots \ {s, t} : r \in Spoilt' <=> r \in Spoilt
  <2>1. CASE WarmStart(s)
    BY <2>1, WarmSpoilsNone DEF Spoilt
  <2>2. CASE /\ memory'[s] = claim'[s]
             /\ \A r \in Slots \ {s} : claim'[r] = claim[r] /\ memory'[r] = memory[r]
    <3>1. Spoilt' = Spoilt \ {s}
      BY <2>2 DEF Spoilt
    <3> QED BY <3>1
  <2>3. ASSUME NEW t \in Slots, ColdStart(s), claim'[s] # <<>>,
               \A r \in Slots \ {s} : claim'[r] = claim[r],
               \A r \in Slots \ {s, t} : memory'[r] = memory[r]
        PROVE  /\ claim[s] = <<>> /\ claim'[s] # <<>> /\ Spoilt' \in SUBSET Slots
               /\ \A r \in Slots \ {s, t} : r \in Spoilt' <=> r \in Spoilt
    BY <2>3, ColdStarts DEF Spoilt
  <2> QED BY <2>1, <2>2, <2>3, ColdSpoils
<1>7. \/ Spoilt' \in {Spoilt, Spoilt \ {s}}
      \/ /\ claim[s] = <<>> /\ claim'[s] # <<>> /\ Spoilt' \in SUBSET Slots
         /\ Plain!Restores(s)
  BY <1>6 DEF Plain!Restores, Spoilt
<1> QED BY <1>1, <1>2, <1>4, <1>5, <1>7 DEF Plain!Begin, Phase, Asked, Spoilt

LEMMA BatchAdvances ==
    ASSUME PagesInv, PagesInv', NEW s \in Slots, ProcessBatch(s)
    PROVE  Plain!Advance(s)
<1> DEFINE p == slot[s].task
<1>1. /\ slot[s].st = "prompt" /\ slot' = slot /\ p \in Prompts
      /\ claim[s] \in Seq(Tokens) /\ claim'[s] \in Seq(Tokens)
  BY BatchTokens DEF PagesInv, TypeInv, TokensOK
<1>2. claim' = [claim EXCEPT ![s] = claim'[s]]
  <2>1. \E r : claim' = [claim EXCEPT ![s] = claim[s] \o r]
    BY BatchTokens
  <2> QED BY <2>1 DEF PagesInv, TypeInv, TokensOK
<1>3. /\ Len(claim[s]) < Len(p) /\ IsPrefix(claim[s], p)
      /\ Len(claim'[s]) < Len(p) /\ IsPrefix(claim'[s], p)
  BY <1>1 DEF PagesInv, AtWork
<1>4. claim'[s] \in Plain!Beginnings(p)
  BY <1>1, <1>3, IsBeginning
<1>5. IsPrefix(claim[s], claim'[s])
  <2>1. PICK n \in Len(claim[s]) + 1 .. Len(p) - 1 : claim'[s] = Take(p, n)
    BY BatchTokens
  <2>2. PICK a \in Seq(Tokens), b \in Seq(Tokens) : a = claim[s] /\ b = claim'[s]
    BY <1>1
  <2>3. p \in Seq(Tokens) /\ Len(p) \in Nat /\ Len(a) \in Nat /\ Len(b) \in Nat /\ n \in Nat
    BY <1>1, <2>1, <2>2, PromptsAreTokens
  <2>4. Len(b) = n /\ Len(a) <= n
    <3>1. Len(Take(p, n)) = IF n < Len(p) THEN n ELSE Len(p)
      BY <2>3, TakeIsPrefix
    <3> QED BY <2>1, <2>2, <2>3, <3>1
  <2>5. /\ \A i \in 1 .. Len(a) : a[i] = p[i]
        /\ \A i \in 1 .. Len(b) : b[i] = p[i]
    BY <1>3, <2>2, <2>3, PrefixAgrees
  <2>6. IsPrefix(a, b)
    BY <2>3, <2>4, <2>5, PrefixAgrees
  <2> QED BY <2>2, <2>6
<1>6. Phase' = Phase /\ Asked' = Asked
  BY <1>1 DEF Phase, Asked
<1>7. Plain!IsPrefix(claim[s], claim'[s])
  BY <1>5 DEF IsPrefix, Plain!IsPrefix
<1>8. Spoilt' = Spoilt
  BY WorkSpoilsNone, SpoiltStays
<1> QED BY <1>1, <1>2, <1>4, <1>6, <1>7, <1>8 DEF Plain!Advance, Phase, Asked, Spoilt

LEMMA FinishAnswers ==
    ASSUME PagesInv, NEW s \in Slots, FinishPrompt(s)
    PROVE  Plain!Answer(s)
<1>1. /\ slot[s].st = "prompt" /\ slot[s].task \in Prompts
      /\ slot' = [slot EXCEPT ![s].st = "generating"]
      /\ claim' = [claim EXCEPT ![s] = slot[s].task]
  BY FinishTokens
<1>2. Phase' = [Phase EXCEPT ![s] = "generating"] /\ Asked' = Asked
  BY <1>1, PhaseMoves DEF PagesInv, TypeInv
<1>3. Spoilt' = Spoilt
  BY WorkSpoilsNone, SpoiltStays
<1> QED BY <1>1, <1>2, <1>3 DEF Plain!Answer, Phase, Asked, Spoilt

LEMMA GenerateSays ==
    ASSUME PagesInv, NEW s \in Slots, Generate(s)
    PROVE  \E t \in Reply : Plain!Say(s, t)
<1>1. PICK t \in Reply : claim' = [claim EXCEPT ![s] = Append(@, t)]
  BY DEF Generate
<1>2. slot[s].st = "generating" /\ Phase' = Phase /\ Asked' = Asked
  BY DEF Generate, Phase, Asked
<1>3. Spoilt' = Spoilt
  BY WorkSpoilsNone, SpoiltStays
<1> QED BY <1>1, <1>2, <1>3 DEF Plain!Say, Phase, Asked, Spoilt

LEMMA LaunchAsks ==
    ASSUME PagesInv, NEW s \in Slots, Launch(s)
    PROVE  \E p \in Prompts : Plain!Ask(s, p)
<1>1. PICK o \in Owners, p \in Prompts :
         slot' = [slot EXCEPT ![s] = [st |-> "started", owner |-> o, task |-> p]]
  BY DEF Launch
<1>2. /\ slot'[s].st = "started" /\ slot'[s].task = p
      /\ \A r \in Slots \ {s} : slot'[r] = slot[r]
  BY <1>1 DEF PagesInv, TypeInv, SlotsOK
<1>3. Phase' = [Phase EXCEPT ![s] = "started"] /\ Asked' = [Asked EXCEPT ![s] = p]
  BY <1>2 DEF Phase, Asked
<1>4. s \in Plain!Free /\ claim' = claim /\ Spoilt' = Spoilt
  BY FreeSlots DEF Launch, Spoilt
<1> QED BY <1>3, <1>4 DEF Plain!Ask, Phase, Asked, Spoilt

LEMMA ReleaseEnds ==
    ASSUME PagesInv, NEW s \in Slots, Release(s)
    PROVE  Plain!End(s)
<1>1. slot'[s] = Idle /\ \A r \in Slots \ {s} : slot'[r] = slot[r]
  BY DEF Release, PagesInv, TypeInv, SlotsOK
<1>2. Idle.st = "idle" /\ Idle.task = <<>>
  BY DEF Idle
<1>3. Phase' = [Phase EXCEPT ![s] = "idle"] /\ Asked' = [Asked EXCEPT ![s] = <<>>]
  BY <1>1, <1>2 DEF Phase, Asked
<1>4. s \notin Plain!Free /\ claim' = claim /\ Spoilt' = Spoilt
  BY FreeSlots DEF Release, Spoilt
<1> QED BY <1>3, <1>4 DEF Plain!End, Phase, Asked, Spoilt

LEMMA ClearLoses ==
    ASSUME PagesInv, FreeAskNothing, NEW s \in Slots, ClearSlot(s)
    PROVE  Plain!Lose({s})
<1>1. /\ s \in Slots \ Processing /\ slot' = slot
      /\ claim' = [claim EXCEPT ![s] = <<>>] /\ memory' = [memory EXCEPT ![s] = <<>>]
  BY DEF ClearSlot
<1>2. {s} \subseteq Plain!Free
  BY <1>1, FreeSlots
<1>3. slot[s].st = "idle" /\ slot[s].task = <<>>
  BY <1>1 DEF FreeAskNothing, Processing
<1>4. claim' = [r \in Slots |-> IF r \in {s} THEN <<>> ELSE claim[r]]
  BY <1>1 DEF PagesInv, TypeInv, TokensOK
<1>5. Spoilt' = Spoilt \ {s}
  BY <1>1 DEF Spoilt, PagesInv, TypeInv, TokensOK
<1> QED BY <1>1, <1>2, <1>3, <1>4, <1>5 DEF Plain!Lose, Spoilt

LEMMA FailureLoses ==
    ASSUME PagesInv, FreeAskNothing, DecodeFails, NEW S \in SUBSET Slots, S = Processing
    PROVE  Plain!Lose(S)
<1>1. slot' = [s \in Slots |-> Idle] /\ Idle.st = "idle" /\ Idle.task = <<>>
  BY DEF DecodeFails, Idle
<1>2. \A s \in Slots \ Processing : slot[s].st = "idle" /\ slot[s].task = <<>>
  BY DEF FreeAskNothing, Processing
<1>3. Slots \ Plain!Free \subseteq Processing
  BY FreeSlots
<1>4. /\ claim' = [s \in Slots |-> IF s \in Processing THEN <<>> ELSE claim[s]]
      /\ memory' = [s \in Slots |-> IF s \in Processing THEN <<>> ELSE memory[s]]
  BY DEF DecodeFails
<1>5. Spoilt' = Spoilt \ S
  BY <1>4 DEF Spoilt
<1> QED BY <1>1, <1>2, <1>3, <1>4, <1>5 DEF Plain!Lose, Spoilt

LEMMA RestartLoses ==
    ASSUME Restart
    PROVE  Plain!Lose(Slots)
BY DEF Restart, Idle, Plain!Lose

\* Whatever the directories hold, slots keep the promise of PlainSlots
\* (find_and_load_checkpoint, server_ssd_cache::load, pre_decode): each starts from
\* a beginning of its own prompt and claims all of it when it answers, only a
\* restore on an empty slot spoils slots, two at most, and a slot that is emptied
\* is no longer spoilt.
THEOREM SlotsKeepPromise == Spec => ImplementsPlainSlots
<1>1. Init => Plain!Init /\ FreeAskNothing
  BY DEF Init, Plain!Init, Idle, FreeAskNothing
<1>2. PagesInv /\ FreeAskNothing /\ [Next]_vars => FreeAskNothing'
  BY FreeStayEmpty DEF PagesInv, TypeInv
<1>3. PagesInv /\ PagesInv' /\ FreeAskNothing /\ [Next]_vars
      => [Plain!Next]_<<Phase, Asked, claim, Spoilt>>
  <2> SUFFICES ASSUME PagesInv, PagesInv', FreeAskNothing, [Next]_vars
               PROVE  \/ Plain!Next
                      \/ Phase' = Phase /\ Asked' = Asked /\ claim' = claim /\ Spoilt' = Spoilt
    OBVIOUS
  <2>1. CASE UNCHANGED vars
    BY <2>1 DEF vars, Phase, Asked, Spoilt
  <2>2. ASSUME NEW s \in Slots, \/ WarmStart(s) \/ ColdStart(s) \/ ProcessBatch(s)
                                \/ FinishPrompt(s) \/ Release(s)
        PROVE  Plain!Begin(s) \/ Plain!Advance(s) \/ Plain!Answer(s) \/ Plain!End(s)
    BY <2>2, StartBegins, BatchAdvances, FinishAnswers, ReleaseEnds
  <2>3. ASSUME NEW s \in Slots, Launch(s) PROVE \E p \in Prompts : Plain!Ask(s, p)
    BY <2>3, LaunchAsks
  <2>4. ASSUME NEW s \in Slots, Generate(s) PROVE \E t \in Reply : Plain!Say(s, t)
    BY <2>4, GenerateSays
  <2>5. ASSUME NEW s \in Slots, ClearSlot(s) PROVE \E S \in SUBSET Slots : Plain!Lose(S)
    BY <2>5, ClearLoses
  <2>6. ASSUME DecodeFails PROVE \E S \in SUBSET Slots : Plain!Lose(S)
    <3>1. PICK S \in SUBSET Slots : S = Processing
      BY DEF Processing
    <3> QED BY <2>6, <3>1, FailureLoses
  <2>7. ASSUME Restart PROVE \E S \in SUBSET Slots : Plain!Lose(S)
    <3>1. Plain!Lose(Slots)
      BY <2>7, RestartLoses
    <3> QED BY <3>1
  <2> QED BY <2>1, <2>2, <2>3, <2>4, <2>5, <2>6, <2>7 DEF Next, Plain!Next
<1>4. [Plain!Next]_<<Phase, Asked, claim, Spoilt>>
      => [Plain!Next]_<<[s \in Slots |-> slot[s].st], [s \in Slots |-> slot[s].task], claim,
                        {s \in Slots : memory[s] # claim[s]}>>
  BY DEF Phase, Asked, Spoilt
<1> QED BY <1>1, <1>2, <1>3, <1>4, PagesInvariant, PTL
        DEF Spec, ImplementsPlainSlots, Plain!Spec
=============================================================================
