----------------------------- MODULE KvSsdProofs -----------------------------
(***************************************************************************)
(* Proofs about KvSsdCache, for any budgets, sizes, models and bounds.     *)
(* As long as index.bin is written whenever a checkpoint file is, the      *)
(* tiers agree with the RAM caches and RAM with the disk.  Whether it is   *)
(* written or not, loads give back what the files hold, and the cache      *)
(* implements CheckpointStore.                                             *)
(*                                                                         *)
(* The first invariant, Inv, says that every file has an id below the one  *)
(* that the next store takes, except the file of an interrupted store,     *)
(* which has that very id and is not whole.  The second, KnownInv, which   *)
(* needs no assumption, says that what is in RAM of an id that has a file  *)
(* is what the file holds, and that no store takes an id below the one in  *)
(* index.bin.  The byte counters play no part in them: what is demoted,    *)
(* and when, does not matter for what is kept.                             *)
(***************************************************************************)
EXTENDS KvSsdCache, TLAPS, FiniteSetTheorems

NoIndexFault == "index" \notin Faults

IsFcn(f)    == f = [i \in DOMAIN f |-> f[i]]
IsRecord(r) == r \in [blob : {r.blob}, turn : {r.turn}, compat : {r.compat},
                      tier : {r.tier}, last : {r.last}]
IsHeader(r) == r \in [blob : {r.blob}, turn : {r.turn}, compat : {r.compat},
                      whole : {r.whole}]
IsCache(c)  == c \in [index : {c.index}, hot : {c.hot}, warm : {c.warm},
                      hotBytes : {c.hotBytes}, warmBytes : {c.warmBytes},
                      next : {c.next}, compat : {c.compat}]

\* The shape of a cache object; index entries of a known tier.
Shape(c) ==
    /\ IsCache(c)
    /\ IsFcn(c.index) /\ IsFcn(c.hot) /\ IsFcn(c.warm)
    /\ \A i \in DOMAIN c.index : IsRecord(c.index[i]) /\ c.index[i].tier \in Tiers

\* Tiers and RAM caches agree, except for the entries X that are being moved.
Placed(c, X) ==
    /\ DOMAIN c.hot = InTier(c, "hot")
    /\ DOMAIN c.warm = InTier(c, "warm") \ X

\* RAM says what the files F say.
Copies(c, F) ==
    /\ \A i \in DOMAIN c.hot  : i \in DOMAIN F /\ F[i].whole /\ c.hot[i]  = F[i].blob
    /\ \A i \in DOMAIN c.warm : i \in DOMAIN F /\ F[i].whole /\ c.warm[i] = F[i].blob

\* The index says what the files F say, but for X and the next id.
Describes(c, F, X) ==
    \A i \in DOMAIN c.index \ X :
       i # c.next => /\ i \in DOMAIN F
                     /\ c.index[i].blob = F[i].blob
                     /\ c.index[i].compat = F[i].compat

\* d has the entries of c, whose tiers and times may differ, and no more in RAM.
SameEntries(c, d) ==
    /\ d.next = c.next /\ d.compat = c.compat
    /\ DOMAIN d.index = DOMAIN c.index
    /\ \A i \in DOMAIN c.index : /\ d.index[i].blob = c.index[i].blob
                                 /\ d.index[i].compat = c.index[i].compat
    /\ DOMAIN d.hot \cup DOMAIN d.warm \subseteq DOMAIN c.hot \cup DOMAIN c.warm

DiskInv ==
    /\ diskNext \in Nat
    /\ IsFcn(files) /\ DOMAIN files \subseteq 1 .. MaxId
    /\ \A i \in DOMAIN files : /\ IsHeader(files[i])
                               /\ files[i].blob \in Blobs /\ files[i].compat \in Models
                               /\ files[i].whole \in BOOLEAN
                               /\ \/ i < Resume /\ files[i].whole
                                  \/ i = Resume /\ ~files[i].whole

CacheInv ==
    /\ Shape(cache) /\ Placed(cache, {})
    /\ Copies(cache, files) /\ Describes(cache, files, {})
    /\ DOMAIN cache.index \subseteq 1 .. MaxId

Inv ==
    /\ up \in BOOLEAN
    /\ DiskInv /\ CacheInv
    /\ up => cache.next = Resume /\ cache.compat \in Models
    /\ ~up => DOMAIN cache.index = {}

-----------------------------------------------------------------------------
(* Demotion moves entries between tiers and changes nothing else.          *)

LEMMA MoveToWarmKeeps ==
    ASSUME NEW c, NEW F, NEW X, NEW D \in SUBSET DOMAIN c.hot,
           Shape(c), Placed(c, X), Copies(c, F), X \cap DOMAIN c.hot = {}
    PROVE  LET d == MoveToWarm(c, D) IN
           Shape(d) /\ Placed(d, X) /\ Copies(d, F) /\ SameEntries(c, d)
<1> DEFINE d == MoveToWarm(c, D)
<1>1. /\ IsCache(d)
      /\ d.index = SetTier(c.index, D, "warm") /\ d.hot = Drop(c.hot, D)
      /\ d.warm = [i \in DOMAIN c.warm \cup D |-> IF i \in D THEN c.hot[i] ELSE c.warm[i]]
      /\ d.next = c.next /\ d.compat = c.compat
  BY DEF Shape, IsCache, IsFcn, MoveToWarm
<1>2. /\ DOMAIN d.index = DOMAIN c.index /\ IsFcn(d.index)
      /\ \A i \in DOMAIN c.index :
            /\ IsRecord(d.index[i])
            /\ d.index[i].blob = c.index[i].blob
            /\ d.index[i].compat = c.index[i].compat
            /\ d.index[i].tier = IF i \in D THEN "warm" ELSE c.index[i].tier
  <2> HIDE DEF d
  <2> QED BY <1>1 DEF SetTier, Shape, IsRecord, IsFcn
<1>3. /\ DOMAIN d.hot = DOMAIN c.hot \ D /\ IsFcn(d.hot)
      /\ \A i \in DOMAIN d.hot : d.hot[i] = c.hot[i]
  <2> HIDE DEF d
  <2> QED BY <1>1 DEF Drop, IsFcn
<1>4. /\ DOMAIN d.warm = DOMAIN c.warm \cup D /\ IsFcn(d.warm)
      /\ \A i \in DOMAIN d.warm : d.warm[i] = IF i \in D THEN c.hot[i] ELSE c.warm[i]
  <2> HIDE DEF d
  <2> QED BY <1>1 DEF IsFcn
<1>5. D \subseteq DOMAIN c.index /\ DOMAIN c.hot \cap DOMAIN c.warm = {}
  BY DEF Placed, InTier
<1> HIDE DEF d
<1>6. Shape(d)
  BY <1>1, <1>2, <1>3, <1>4 DEF Shape, Tiers
<1>7. Placed(d, X)
  BY <1>2, <1>3, <1>4, <1>5 DEF Placed, InTier
<1>8. Copies(d, F)
  BY <1>3, <1>4 DEF Copies
<1>9. SameEntries(c, d)
  BY <1>1, <1>2, <1>3, <1>4 DEF SameEntries
<1> QED BY <1>6, <1>7, <1>8, <1>9 DEF d

LEMMA MoveToColdKeeps ==
    ASSUME NEW c, NEW F, NEW X, NEW D \in SUBSET DOMAIN c.warm,
           Shape(c), Placed(c, X), Copies(c, F)
    PROVE  LET d == MoveToCold(c, D) IN
           Shape(d) /\ Placed(d, X) /\ Copies(d, F) /\ SameEntries(c, d)
<1> DEFINE d == MoveToCold(c, D)
<1>1. /\ IsCache(d)
      /\ d.index = SetTier(c.index, D, "cold") /\ d.hot = c.hot
      /\ d.warm = Drop(c.warm, D)
      /\ d.next = c.next /\ d.compat = c.compat
  BY DEF Shape, IsCache, IsFcn, MoveToCold
<1>2. /\ DOMAIN d.index = DOMAIN c.index /\ IsFcn(d.index)
      /\ \A i \in DOMAIN c.index :
            /\ IsRecord(d.index[i])
            /\ d.index[i].blob = c.index[i].blob
            /\ d.index[i].compat = c.index[i].compat
            /\ d.index[i].tier = IF i \in D THEN "cold" ELSE c.index[i].tier
  <2> HIDE DEF d
  <2> QED BY <1>1 DEF SetTier, Shape, IsRecord, IsFcn
<1>3. /\ DOMAIN d.warm = DOMAIN c.warm \ D /\ IsFcn(d.warm)
      /\ \A i \in DOMAIN d.warm : d.warm[i] = c.warm[i]
  <2> HIDE DEF d
  <2> QED BY <1>1 DEF Drop, IsFcn
<1>4. D \subseteq DOMAIN c.index
  BY DEF Placed, InTier
<1> HIDE DEF d
<1>5. Shape(d)
  BY <1>1, <1>2, <1>3 DEF Shape, Tiers
<1>6. Placed(d, X)
  BY <1>1, <1>2, <1>3, <1>4 DEF Placed, InTier
<1>7. Copies(d, F)
  BY <1>1, <1>3 DEF Copies
<1>8. SameEntries(c, d)
  BY <1>1, <1>2, <1>3 DEF SameEntries
<1> QED BY <1>5, <1>6, <1>7, <1>8 DEF d

\* A demotion loop may turn entries without data, which are all in X, cold.
LEMMA ForgetKeeps ==
    ASSUME NEW c, NEW F, NEW X, NEW D \in SUBSET (X \cap InTier(c, "warm")),
           Shape(c), Placed(c, X), Copies(c, F)
    PROVE  LET d == [c EXCEPT !.index = SetTier(c.index, D, "cold")] IN
           /\ Shape(d) /\ Placed(d, X) /\ Copies(d, F) /\ SameEntries(c, d)
           /\ d.hot = c.hot /\ d.warm = c.warm
<1> DEFINE d == [c EXCEPT !.index = SetTier(c.index, D, "cold")]
<1>1. /\ IsCache(d)
      /\ d.index = SetTier(c.index, D, "cold") /\ d.hot = c.hot /\ d.warm = c.warm
      /\ d.next = c.next /\ d.compat = c.compat
  BY DEF Shape, IsCache, IsFcn
<1>2. /\ DOMAIN d.index = DOMAIN c.index /\ IsFcn(d.index)
      /\ \A i \in DOMAIN c.index :
            /\ IsRecord(d.index[i])
            /\ d.index[i].blob = c.index[i].blob
            /\ d.index[i].compat = c.index[i].compat
            /\ d.index[i].tier = IF i \in D THEN "cold" ELSE c.index[i].tier
  <2> HIDE DEF d
  <2> QED BY <1>1 DEF SetTier, Shape, IsRecord, IsFcn
<1> HIDE DEF d
<1>3. Shape(d)
  BY <1>1, <1>2 DEF Shape, Tiers
<1>4. Placed(d, X)
  BY <1>1, <1>2 DEF Placed, InTier
<1>5. Copies(d, F)
  BY <1>1 DEF Copies
<1>6. SameEntries(c, d)
  BY <1>1, <1>2 DEF SameEntries
<1> QED BY <1>1, <1>3, <1>4, <1>5, <1>6 DEF d

LEMMA SameEntriesTransitive ==
    ASSUME NEW a, NEW b, NEW c, SameEntries(a, b), SameEntries(b, c)
    PROVE  SameEntries(a, c)
BY DEF SameEntries

LEMMA DemoteHotKeeps ==
    ASSUME NEW c, NEW F, NEW X,
           Shape(c), Placed(c, X), Copies(c, F), X \cap DOMAIN c.hot = {},
           NEW d \in DemoteHot(c)
    PROVE  Shape(d) /\ Placed(d, X) /\ Copies(d, F) /\ SameEntries(c, d)
<1>1. PICK D \in LruVictims(c, "hot", c.hot, c.hotBytes - HotBudget) :
         d = MoveToWarm([c EXCEPT !.index = SetTier(c.index, D \ (D \cap DOMAIN c.hot), "cold")],
                        D \cap DOMAIN c.hot)
  BY DEF DemoteHot
<1>2. D \subseteq InTier(c, "hot")
  BY DEF LruVictims
<1>3. D \ (D \cap DOMAIN c.hot) = {} /\ D \cap DOMAIN c.hot = D /\ D \subseteq DOMAIN c.hot
  BY <1>2 DEF Placed
<1> DEFINE a == [c EXCEPT !.index = SetTier(c.index, {}, "cold")]
<1>4. {} \in SUBSET (X \cap InTier(c, "warm"))
  OBVIOUS
<1>5. /\ Shape(a) /\ Placed(a, X) /\ Copies(a, F) /\ SameEntries(c, a)
      /\ a.hot = c.hot
  BY <1>4, ForgetKeeps
<1>6. d = MoveToWarm(a, D)
  BY <1>1, <1>3
<1> HIDE DEF a
<1>7. Shape(d) /\ Placed(d, X) /\ Copies(d, F) /\ SameEntries(a, d)
  BY <1>3, <1>5, <1>6, MoveToWarmKeeps
<1> QED BY <1>5, <1>7, SameEntriesTransitive

LEMMA DemoteWarmKeeps ==
    ASSUME NEW c, NEW F, NEW X,
           Shape(c), Placed(c, X), Copies(c, F),
           NEW d \in DemoteWarm(c)
    PROVE  Shape(d) /\ Placed(d, X) /\ Copies(d, F) /\ SameEntries(c, d)
<1>1. PICK D \in LruVictims(c, "warm", c.warm, c.warmBytes - WarmBudget) :
         d = MoveToCold([c EXCEPT !.index = SetTier(c.index, D \ (D \cap DOMAIN c.warm), "cold")],
                        D \cap DOMAIN c.warm)
  BY DEF DemoteWarm
<1>2. D \subseteq InTier(c, "warm")
  BY DEF LruVictims
<1> DEFINE N == D \ (D \cap DOMAIN c.warm)
           M == D \cap DOMAIN c.warm
           a == [c EXCEPT !.index = SetTier(c.index, N, "cold")]
<1>3. N \in SUBSET (X \cap InTier(c, "warm")) /\ M \in SUBSET DOMAIN c.warm
  BY <1>2 DEF Placed
<1>4. d = MoveToCold(a, M)
  BY <1>1
<1> HIDE DEF N, M
<1>5. /\ Shape(a) /\ Placed(a, X) /\ Copies(a, F) /\ SameEntries(c, a)
      /\ a.warm = c.warm
  BY <1>3, ForgetKeeps
<1> HIDE DEF a
<1>6. Shape(d) /\ Placed(d, X) /\ Copies(d, F) /\ SameEntries(a, d)
  BY <1>3, <1>4, <1>5, MoveToColdKeeps
<1> QED BY <1>5, <1>6, SameEntriesTransitive

LEMMA SameEntriesReflexive == ASSUME NEW c PROVE SameEntries(c, c)
BY DEF SameEntries

\* make_room_hot, whatever it decides to demote.
LEMMA MakeRoomKeeps ==
    ASSUME NEW c, NEW F, NEW X, NEW needed,
           Shape(c), Placed(c, X), Copies(c, F), X \cap DOMAIN c.hot = {},
           NEW d \in MakeRoom(c, needed)
    PROVE  Shape(d) /\ Placed(d, X) /\ Copies(d, F) /\ SameEntries(c, d)
<1>1. CASE d = c
  BY <1>1, SameEntriesReflexive
<1>2. CASE d \in DemoteHot(c)
  BY <1>2, DemoteHotKeeps
<1>3. ASSUME NEW e \in DemoteHot(c), d \in DemoteWarm(e)
      PROVE  Shape(d) /\ Placed(d, X) /\ Copies(d, F) /\ SameEntries(c, d)
  <2>1. Shape(e) /\ Placed(e, X) /\ Copies(e, F) /\ SameEntries(c, e)
    BY DemoteHotKeeps
  <2>2. Shape(d) /\ Placed(d, X) /\ Copies(d, F) /\ SameEntries(e, d)
    BY <1>3, <2>1, DemoteWarmKeeps
  <2> QED BY <2>1, <2>2, SameEntriesTransitive
<1> QED BY <1>1, <1>2, <1>3 DEF MakeRoom

LEMMA MakeHotKeeps ==
    ASSUME NEW c, NEW F, NEW i \in DOMAIN c.index, NEW b, NEW t,
           Shape(c), Copies(c, F),
           DOMAIN c.hot = InTier(c, "hot") \ {i},
           DOMAIN c.warm = InTier(c, "warm") \ {i},
           i \in DOMAIN F, F[i].whole, F[i].blob = b
    PROVE  LET d == MakeHot(c, i, b, t) IN
           /\ Shape(d) /\ Placed(d, {}) /\ Copies(d, F)
           /\ d.next = c.next /\ d.compat = c.compat
           /\ DOMAIN d.index = DOMAIN c.index
           /\ \A j \in DOMAIN c.index : /\ d.index[j].blob = c.index[j].blob
                                        /\ d.index[j].compat = c.index[j].compat
<1> DEFINE d == MakeHot(c, i, b, t)
<1>1. /\ IsCache(d)
      /\ d.index = [c.index EXCEPT ![i].tier = "hot", ![i].last = t]
      /\ d.hot = Put(c.hot, i, b) /\ d.warm = c.warm
      /\ d.next = c.next /\ d.compat = c.compat
  BY DEF Shape, IsCache, IsFcn, MakeHot
<1> HIDE DEF d
<1>2. /\ DOMAIN d.index = DOMAIN c.index /\ IsFcn(d.index)
      /\ \A j \in DOMAIN c.index :
            /\ IsRecord(d.index[j])
            /\ d.index[j].blob = c.index[j].blob
            /\ d.index[j].compat = c.index[j].compat
            /\ d.index[j].tier = IF j = i THEN "hot" ELSE c.index[j].tier
  BY <1>1 DEF Shape, IsRecord, IsFcn
<1>3. /\ DOMAIN d.hot = DOMAIN c.hot \cup {i} /\ IsFcn(d.hot)
      /\ \A j \in DOMAIN d.hot : d.hot[j] = IF j = i THEN b ELSE c.hot[j]
  BY <1>1 DEF Put, IsFcn
<1>4. Shape(d)
  BY <1>1, <1>2, <1>3 DEF Shape, Tiers
<1>5. Placed(d, {})
  BY <1>1, <1>2, <1>3 DEF Placed, InTier
<1>6. Copies(d, F)
  BY <1>1, <1>3 DEF Copies
<1> QED BY <1>1, <1>2, <1>4, <1>5, <1>6 DEF d

-----------------------------------------------------------------------------
(* One lemma per operation.                                                *)

\* What a store needs to know of the state: the id it takes holds nothing.
LEMMA NextIsFree ==
    ASSUME Inv, up
    PROVE  /\ cache.next \in Nat \ {0}
           /\ cache.next \notin DOMAIN cache.hot \cup DOMAIN cache.warm
           /\ cache.next \in DOMAIN files => ~files[cache.next].whole
           /\ \A i \in DOMAIN files : i # cache.next => i < cache.next
           /\ \A i \in DOMAIN cache.index : i \in DOMAIN cache.hot \cup DOMAIN cache.warm
                                            \/ cache.index[i].tier = "cold"
           /\ \A i \in DOMAIN cache.index : i \in Nat
<1>1. cache.next = Resume /\ Resume \in Nat \ {0}
  BY DEF Inv, DiskInv, Resume
<1>2. \A i \in DOMAIN files : i # cache.next => i < cache.next
  BY <1>1 DEF Inv, DiskInv
<1>3. cache.next \in DOMAIN files => ~files[cache.next].whole
  BY <1>1 DEF Inv, DiskInv
<1>4. \A i \in DOMAIN cache.hot \cup DOMAIN cache.warm : i \in DOMAIN files /\ files[i].whole
  BY DEF Inv, CacheInv, Copies
<1>5. \A i \in DOMAIN cache.index : i \in DOMAIN cache.hot \cup DOMAIN cache.warm
                                    \/ cache.index[i].tier = "cold"
  BY DEF Inv, CacheInv, Placed, Shape, InTier, Tiers
<1>6. \A i \in DOMAIN cache.index : i \in Nat
  BY ConstantsAssumption DEF Inv, CacheInv
<1> QED BY <1>1, <1>2, <1>3, <1>4, <1>5, <1>6

LEMMA StoreKeeps ==
    ASSUME Inv, NEW b \in Blobs, Store(b)
    PROVE  Inv'
<1> DEFINE i == cache.next
           F == Put(files, i, Header(b, TRUE))
           c0 == [cache EXCEPT !.next = i + 1]
<1>1. /\ up /\ i <= MaxId /\ up' = up
      /\ files' = F /\ diskNext' = i + 1
      /\ \E t \in Tick, c \in MakeRoom(c0, SizeOf[b]) :
            cache' = MakeHot([c EXCEPT !.index = Put(c.index, i, Checkpoint(b, "hot", t))], i, b, t)
  BY DEF Store, FinishStore
<1>2. PICK t \in Tick : \E c \in MakeRoom(c0, SizeOf[b]) :
            cache' = MakeHot([c EXCEPT !.index = Put(c.index, i, Checkpoint(b, "hot", t))], i, b, t)
  BY <1>1
<1>3. PICK c \in MakeRoom(c0, SizeOf[b]) :
            cache' = MakeHot([c EXCEPT !.index = Put(c.index, i, Checkpoint(b, "hot", t))], i, b, t)
  BY <1>2
<1>4. /\ i \in Nat \ {0} /\ i \notin DOMAIN cache.hot \cup DOMAIN cache.warm
      /\ i \in DOMAIN files => ~files[i].whole
      /\ \A j \in DOMAIN files : j # i => j < i
      /\ \A j \in DOMAIN cache.index : j \in Nat
  BY <1>1, NextIsFree
<1>5. IsRecord(Checkpoint(b, "hot", t)) /\ Checkpoint(b, "hot", t).tier = "hot"
      /\ Checkpoint(b, "hot", t).blob = b /\ Checkpoint(b, "hot", t).compat = cache.compat
  BY DEF IsRecord, Checkpoint
<1>6. /\ DOMAIN F = DOMAIN files \cup {i} /\ IsFcn(F)
      /\ \A j \in DOMAIN F : F[j] = IF j = i THEN Header(b, TRUE) ELSE files[j]
      /\ IsHeader(F[i]) /\ F[i].blob = b /\ F[i].whole /\ F[i].whole \in BOOLEAN
      /\ F[i].compat = cache.compat
  BY DEF Put, IsFcn, IsHeader, Header
<1>7. /\ IsCache(c0) /\ c0.index = cache.index /\ c0.hot = cache.hot /\ c0.warm = cache.warm
      /\ c0.next = i + 1 /\ c0.compat = cache.compat
  BY DEF Inv, CacheInv, Shape, IsCache
<1> HIDE DEF F, c0
<1>8. Shape(c0) /\ Placed(c0, {}) /\ Copies(c0, F)
  <2>1. Shape(c0) /\ Placed(c0, {})
    BY <1>7 DEF Inv, CacheInv, Shape, Placed, InTier
  <2>2. Copies(c0, F)
    BY <1>4, <1>6, <1>7 DEF Inv, CacheInv, Copies
  <2> QED BY <2>1, <2>2
<1>9. Shape(c) /\ Placed(c, {}) /\ Copies(c, F) /\ SameEntries(c0, c)
  BY <1>8, MakeRoomKeeps
<1> HIDE DEF i
<1> DEFINE e == [c EXCEPT !.index = Put(c.index, i, Checkpoint(b, "hot", t))]
<1>10. /\ IsCache(e) /\ e.index = Put(c.index, i, Checkpoint(b, "hot", t))
       /\ e.hot = c.hot /\ e.warm = c.warm /\ e.next = c.next /\ e.compat = c.compat
  BY <1>9 DEF Shape, IsCache
<1> HIDE DEF e
<1>11. /\ DOMAIN e.index = DOMAIN c.index \cup {i} /\ IsFcn(e.index)
       /\ \A j \in DOMAIN e.index :
             e.index[j] = IF j = i THEN Checkpoint(b, "hot", t) ELSE c.index[j]
  BY <1>10 DEF Put, IsFcn
<1>12. /\ Shape(e) /\ Copies(e, F) /\ i \in DOMAIN e.index
       /\ DOMAIN e.hot = InTier(e, "hot") \ {i}
       /\ DOMAIN e.warm = InTier(e, "warm") \ {i}
  <2>1. Shape(e)
    BY <1>5, <1>9, <1>10, <1>11 DEF Shape, Tiers
  <2>2. Copies(e, F)
    BY <1>9, <1>10 DEF Copies
  <2>3. i \notin DOMAIN c.hot \cup DOMAIN c.warm
    BY <1>4, <1>7, <1>9 DEF SameEntries
  <2>4. DOMAIN e.hot = InTier(e, "hot") \ {i} /\ DOMAIN e.warm = InTier(e, "warm") \ {i}
    BY <1>9, <1>10, <1>11, <2>3 DEF Placed, InTier
  <2> QED BY <1>11, <2>1, <2>2, <2>4
<1>13. cache' = MakeHot(e, i, b, t)
  BY <1>3 DEF e
<1>14. /\ Shape(cache') /\ Placed(cache', {}) /\ Copies(cache', F)
       /\ cache'.next = i + 1 /\ cache'.compat = cache.compat
       /\ DOMAIN cache'.index = DOMAIN cache.index \cup {i}
       /\ \A j \in DOMAIN cache'.index :
             /\ cache'.index[j].blob   = IF j = i THEN b ELSE cache.index[j].blob
             /\ cache'.index[j].compat = IF j = i THEN cache.compat ELSE cache.index[j].compat
  <2>1. /\ Shape(cache') /\ Placed(cache', {}) /\ Copies(cache', F)
        /\ cache'.next = e.next /\ cache'.compat = e.compat
        /\ DOMAIN cache'.index = DOMAIN e.index
        /\ \A j \in DOMAIN e.index : /\ cache'.index[j].blob = e.index[j].blob
                                     /\ cache'.index[j].compat = e.index[j].compat
    <3>1. i \in DOMAIN F /\ F[i].whole /\ F[i].blob = b
      BY <1>6
    <3>2. LET d == MakeHot(e, i, b, t) IN
          /\ Shape(d) /\ Placed(d, {}) /\ Copies(d, F)
          /\ d.next = e.next /\ d.compat = e.compat
          /\ DOMAIN d.index = DOMAIN e.index
          /\ \A j \in DOMAIN e.index : /\ d.index[j].blob = e.index[j].blob
                                       /\ d.index[j].compat = e.index[j].compat
      BY <1>12, <3>1, MakeHotKeeps
    <3> QED BY <1>13, <3>2
  <2> QED BY <1>5, <1>7, <1>9, <1>10, <1>11, <2>1 DEF SameEntries
<1>15. Describes(cache', F, {})
  BY <1>4, <1>6, <1>14 DEF Inv, CacheInv, Describes, i
<1>16. DOMAIN cache'.index \subseteq 1 .. MaxId
  BY <1>1, <1>4, <1>14, ConstantsAssumption DEF Inv, CacheInv
<1>17. CacheInv'
  BY <1>1, <1>14, <1>15, <1>16 DEF CacheInv, Shape, Placed, Copies, Describes, InTier,
        IsCache, IsFcn, IsRecord
<1>18. DiskInv' /\ Resume' = i + 1
  <2>1. diskNext' = i + 1 /\ i + 1 \in Nat \ {0} /\ Resume' = i + 1
    BY <1>1, <1>4 DEF Resume
  <2>2. DOMAIN F \subseteq 1 .. MaxId
    BY <1>1, <1>4, <1>6, ConstantsAssumption DEF Inv, DiskInv
  <2>3. \A j \in DOMAIN F : /\ IsHeader(F[j])
                            /\ F[j].blob \in Blobs /\ F[j].compat \in Models
                            /\ F[j].whole \in BOOLEAN
                            /\ j < i + 1 /\ F[j].whole
    <3>1. cache.compat \in Models
      BY <1>1 DEF Inv
    <3>2. \A j \in DOMAIN files : j < i + 1
      BY <1>4, ConstantsAssumption DEF Inv, DiskInv
    <3>3. \A j \in DOMAIN files : /\ IsHeader(files[j]) /\ files[j].blob \in Blobs
                                  /\ files[j].compat \in Models
                                  /\ files[j].whole \in BOOLEAN
                                  /\ j # i => files[j].whole
      BY <1>1 DEF Inv, DiskInv, i
    <3>4. i < i + 1
      BY <1>4
    <3>5. ASSUME NEW j \in DOMAIN F
          PROVE  /\ IsHeader(F[j])
                 /\ F[j].blob \in Blobs /\ F[j].compat \in Models
                 /\ F[j].whole \in BOOLEAN
                 /\ j < i + 1 /\ F[j].whole
      <4>1. CASE j = i
        BY <4>1, <1>6, <3>1, <3>4
      <4>2. CASE j # i
        BY <4>2, <1>6, <3>2, <3>3
      <4> QED BY <4>1, <4>2
    <3> QED BY <3>5
  <2> QED BY <1>1, <1>6, <2>1, <2>2, <2>3 DEF DiskInv, IsHeader, IsFcn
<1> QED BY <1>1, <1>14, <1>17, <1>18 DEF Inv

\* A step that leaves the disk alone and, in the index, only moves entries.
LEMMA CacheStepKeeps ==
    ASSUME Inv, up, UNCHANGED <<up, diskVars>>,
           Shape(cache'), Placed(cache', {}), Copies(cache', files),
           cache'.next = cache.next, cache'.compat = cache.compat,
           DOMAIN cache'.index \subseteq DOMAIN cache.index,
           \A j \in DOMAIN cache'.index : /\ cache'.index[j].blob = cache.index[j].blob
                                          /\ cache'.index[j].compat = cache.index[j].compat
    PROVE  Inv'
<1>1. files' = files /\ diskNext' = diskNext /\ up' = up
  BY DEF diskVars
<1>2. DiskInv' /\ Resume' = Resume
  BY <1>1 DEF Inv, DiskInv, Resume, IsHeader, IsFcn
<1>3. Describes(cache', files, {})
  BY DEF Inv, CacheInv, Describes
<1>4. CacheInv'
  BY <1>1, <1>3 DEF Inv, CacheInv, Shape, Placed, Copies, Describes, InTier, IsCache, IsFcn, IsRecord
<1> QED BY <1>1, <1>2, <1>4 DEF Inv

LEMMA LoadHotKeeps ==
    ASSUME Inv, up, NEW i \in DOMAIN cache.index, LoadHot(i)
    PROVE  Inv'
<1>1. PICK t \in Tick : cache' = [cache EXCEPT !.index[i].last = t]
  BY DEF LoadHot
<1>2. /\ IsCache(cache') /\ cache'.hot = cache.hot /\ cache'.warm = cache.warm
      /\ cache'.index = [cache.index EXCEPT ![i].last = t]
      /\ cache'.next = cache.next /\ cache'.compat = cache.compat
  BY <1>1 DEF Inv, CacheInv, Shape, IsCache
<1>3. /\ DOMAIN cache'.index = DOMAIN cache.index /\ IsFcn(cache'.index)
      /\ \A j \in DOMAIN cache.index :
            /\ IsRecord(cache'.index[j])
            /\ cache'.index[j].blob = cache.index[j].blob
            /\ cache'.index[j].compat = cache.index[j].compat
            /\ cache'.index[j].tier = cache.index[j].tier
  BY <1>2 DEF Inv, CacheInv, Shape, IsRecord, IsFcn
<1>4. Shape(cache') /\ Placed(cache', {}) /\ Copies(cache', files)
  BY <1>2, <1>3 DEF Inv, CacheInv, Shape, Placed, InTier, Copies
<1>5. UNCHANGED <<up, diskVars>>
  BY DEF LoadHot
<1> QED BY <1>2, <1>3, <1>4, <1>5, CacheStepKeeps

LEMMA LoadWarmKeeps ==
    ASSUME Inv, up, NEW i \in DOMAIN cache.index, LoadWarm(i)
    PROVE  Inv'
<1> DEFINE b == cache.warm[i]
           a == [cache EXCEPT !.warm = Drop(cache.warm, {i}),
                              !.warmBytes = cache.warmBytes - SizeOf[b]]
<1>1. i \in DOMAIN cache.warm /\ i \notin DOMAIN cache.hot
  BY DEF LoadWarm
<1>2. PICK t \in Tick : \E c \in MakeRoom(a, SizeOf[b]) : cache' = MakeHot(c, i, b, t)
  BY DEF LoadWarm
<1>3. PICK c \in MakeRoom(a, SizeOf[b]) : cache' = MakeHot(c, i, b, t)
  BY <1>2
<1>4. /\ IsCache(a) /\ a.index = cache.index /\ a.hot = cache.hot
      /\ a.warm = Drop(cache.warm, {i}) /\ a.next = cache.next /\ a.compat = cache.compat
  BY DEF Inv, CacheInv, Shape, IsCache
<1>5. /\ DOMAIN a.warm = DOMAIN cache.warm \ {i} /\ IsFcn(a.warm)
      /\ \A j \in DOMAIN a.warm : a.warm[j] = cache.warm[j]
  <2> HIDE DEF a
  <2> QED BY <1>4 DEF Drop, IsFcn
<1>6. i \in DOMAIN files /\ files[i].whole /\ files[i].blob = b
  BY <1>1 DEF Inv, CacheInv, Copies
<1> HIDE DEF a, b
<1>7. Shape(a) /\ Placed(a, {i}) /\ Copies(a, files)
  <2>1. Shape(cache) /\ Placed(cache, {}) /\ Copies(cache, files)
    BY DEF Inv, CacheInv
  <2>2. Shape(a)
    BY <1>4, <1>5, <2>1 DEF Shape
  <2>3. InTier(a, "hot") = InTier(cache, "hot") /\ InTier(a, "warm") = InTier(cache, "warm")
    BY <1>4 DEF InTier
  <2>4. Placed(a, {i})
    BY <1>4, <1>5, <2>1, <2>3 DEF Placed
  <2>5. Copies(a, files)
    BY <1>4, <1>5, <2>1 DEF Copies
  <2> QED BY <2>2, <2>4, <2>5
<1>8. {i} \cap DOMAIN a.hot = {}
  BY <1>1, <1>4
<1>9. Shape(c) /\ Placed(c, {i}) /\ Copies(c, files) /\ SameEntries(a, c)
  BY <1>7, <1>8, MakeRoomKeeps
<1>10. i \in DOMAIN c.index /\ DOMAIN c.index = DOMAIN cache.index
  BY <1>4, <1>9 DEF SameEntries
<1>11. i \notin DOMAIN c.hot
  BY <1>1, <1>4, <1>5, <1>9 DEF SameEntries
<1>12. DOMAIN c.hot = InTier(c, "hot") \ {i} /\ DOMAIN c.warm = InTier(c, "warm") \ {i}
  BY <1>9, <1>11 DEF Placed
<1> DEFINE d == MakeHot(c, i, b, t)
<1>13. /\ Shape(d) /\ Placed(d, {}) /\ Copies(d, files)
       /\ d.next = c.next /\ d.compat = c.compat
       /\ DOMAIN d.index = DOMAIN c.index
       /\ \A j \in DOMAIN c.index : /\ d.index[j].blob = c.index[j].blob
                                    /\ d.index[j].compat = c.index[j].compat
  BY <1>6, <1>9, <1>10, <1>12, MakeHotKeeps
<1>14. cache' = d
  BY <1>3
<1> HIDE DEF d
<1>15. /\ Shape(cache') /\ Placed(cache', {}) /\ Copies(cache', files)
       /\ cache'.next = cache.next /\ cache'.compat = cache.compat
       /\ DOMAIN cache'.index \subseteq DOMAIN cache.index
       /\ \A j \in DOMAIN cache'.index : /\ cache'.index[j].blob = cache.index[j].blob
                                         /\ cache'.index[j].compat = cache.index[j].compat
  BY <1>4, <1>9, <1>13, <1>14 DEF SameEntries
<1>16. UNCHANGED <<up, diskVars>>
  BY DEF LoadWarm
<1> QED BY <1>15, <1>16, CacheStepKeeps

LEMMA LoadColdKeeps ==
    ASSUME Inv, up, NEW i \in DOMAIN cache.index, LoadCold(i)
    PROVE  Inv'
<1> DEFINE b == files[i].blob
<1>1. i \in DOMAIN files /\ i \notin DOMAIN cache.hot \cup DOMAIN cache.warm
  BY DEF LoadCold, InRam
<1>2. PICK c \in MakeRoom(cache, SizeOf[b]) :
          \/ cache' = c
          \/ files[i].whole /\ \E t \in Tick : cache' = MakeHot(c, i, b, t)
  BY DEF LoadCold
<1>3. Shape(cache) /\ Placed(cache, {}) /\ Copies(cache, files)
  BY DEF Inv, CacheInv
<1>4. Shape(c) /\ Placed(c, {}) /\ Copies(c, files) /\ SameEntries(cache, c)
  BY <1>3, MakeRoomKeeps
<1>5. UNCHANGED <<up, diskVars>>
  BY DEF LoadCold
<1>6. CASE cache' = c
  <2>1. /\ cache'.next = cache.next /\ cache'.compat = cache.compat
        /\ DOMAIN cache'.index \subseteq DOMAIN cache.index
        /\ \A j \in DOMAIN cache'.index : /\ cache'.index[j].blob = cache.index[j].blob
                                          /\ cache'.index[j].compat = cache.index[j].compat
    BY <1>4, <1>6 DEF SameEntries
  <2> QED BY <1>4, <1>5, <1>6, <2>1, CacheStepKeeps
<1>7. ASSUME files[i].whole, NEW t \in Tick, cache' = MakeHot(c, i, b, t)
      PROVE  Inv'
  <2> DEFINE d == MakeHot(c, i, b, t)
  <2>1. i \in DOMAIN c.index /\ i \notin DOMAIN c.hot \cup DOMAIN c.warm
    BY <1>1, <1>4 DEF SameEntries
  <2>2. DOMAIN c.hot = InTier(c, "hot") \ {i} /\ DOMAIN c.warm = InTier(c, "warm") \ {i}
    BY <1>4, <2>1 DEF Placed
  <2> HIDE DEF b
  <2>3. files[i].blob = b /\ files[i].whole
    BY <1>7 DEF b
  <2>4. /\ Shape(d) /\ Placed(d, {}) /\ Copies(d, files)
        /\ d.next = c.next /\ d.compat = c.compat
        /\ DOMAIN d.index = DOMAIN c.index
        /\ \A j \in DOMAIN c.index : /\ d.index[j].blob = c.index[j].blob
                                     /\ d.index[j].compat = c.index[j].compat
    <3>1. Shape(c) /\ Copies(c, files) /\ i \in DOMAIN files
      BY <1>1, <1>4
    <3>2. i \in DOMAIN c.index
      BY <2>1
    <3> QED BY <2>2, <2>3, <3>1, <3>2, MakeHotKeeps
  <2>5. cache' = d
    BY <1>7 DEF b
  <2> HIDE DEF d
  <2>6. /\ Shape(cache') /\ Placed(cache', {}) /\ Copies(cache', files)
        /\ cache'.next = cache.next /\ cache'.compat = cache.compat
        /\ DOMAIN cache'.index \subseteq DOMAIN cache.index
        /\ \A j \in DOMAIN cache'.index : /\ cache'.index[j].blob = cache.index[j].blob
                                          /\ cache'.index[j].compat = cache.index[j].compat
    BY <1>4, <2>4, <2>5 DEF SameEntries
  <2> QED BY <1>5, <2>6, CacheStepKeeps
<1> QED BY <1>2, <1>6, <1>7

LEMMA LoadMissingKeeps ==
    ASSUME Inv, up, NEW i \in DOMAIN cache.index, LoadMissing(i)
    PROVE  Inv'
<1>1. /\ cache' = [cache EXCEPT !.index = Drop(cache.index, {i})]
      /\ i \notin DOMAIN cache.hot \cup DOMAIN cache.warm
      /\ UNCHANGED <<up, diskVars>>
  BY DEF LoadMissing, InRam
<1>2. /\ IsCache(cache') /\ cache'.hot = cache.hot /\ cache'.warm = cache.warm
      /\ cache'.index = Drop(cache.index, {i})
      /\ cache'.next = cache.next /\ cache'.compat = cache.compat
  BY <1>1 DEF Inv, CacheInv, Shape, IsCache
<1>3. /\ DOMAIN cache'.index = DOMAIN cache.index \ {i} /\ IsFcn(cache'.index)
      /\ \A j \in DOMAIN cache'.index : cache'.index[j] = cache.index[j]
  BY <1>2 DEF Drop, IsFcn
<1>4. Shape(cache) /\ Placed(cache, {}) /\ Copies(cache, files)
  BY DEF Inv, CacheInv
<1>5. Shape(cache')
  BY <1>2, <1>3, <1>4 DEF Shape
<1>6. Placed(cache', {})
  <2>1. \A j \in DOMAIN cache'.index : cache'.index[j].tier = cache.index[j].tier
    BY <1>3
  <2>2. /\ InTier(cache', "hot") = InTier(cache, "hot") \ {i}
        /\ InTier(cache', "warm") = InTier(cache, "warm") \ {i}
    BY <1>3, <2>1 DEF InTier
  <2>3. i \notin InTier(cache, "hot") \cup InTier(cache, "warm")
    BY <1>1, <1>4 DEF Placed
  <2> QED BY <1>2, <1>4, <2>2, <2>3 DEF Placed
<1>7. Copies(cache', files)
  BY <1>2, <1>4 DEF Copies
<1> QED BY <1>1, <1>2, <1>3, <1>5, <1>6, <1>7, CacheStepKeeps

LEMMA LoadKeeps ==
    ASSUME Inv, NEW i \in DOMAIN cache.index, Load(i)
    PROVE  Inv'
<1>1. up
  BY DEF Load
<1>2. CASE LoadRejected(i)
  <2>1. cache' = cache /\ UNCHANGED <<up, diskVars>>
    BY <1>2 DEF LoadRejected
  <2> QED BY <1>1, <2>1, CacheStepKeeps DEF Inv, CacheInv
<1> QED BY <1>1, <1>2, LoadHotKeeps, LoadWarmKeeps, LoadColdKeeps, LoadMissingKeeps DEF Load

LEMMA TurnCompleteKeeps ==
    ASSUME Inv, TurnComplete
    PROVE  Inv'
<1> DEFINE D1 == Inactive(cache, "hot", HotTurns) \cap DOMAIN cache.hot
           c1 == MoveToWarm(cache, D1)
           D2 == Inactive(c1, "warm", WarmTurns) \cap DOMAIN c1.warm
           c2 == MoveToCold(c1, D2)
<1>1. PICK E \in Oldest(c2) : /\ cache' = [c2 EXCEPT !.index = Drop(c2.index, E)]
                              /\ files' = Drop(files, E)
  BY DEF TurnComplete
<1>2. up /\ up' = up /\ diskNext' = diskNext
  BY DEF TurnComplete
<1>3. D1 \in SUBSET DOMAIN cache.hot /\ D2 \in SUBSET DOMAIN c1.warm
  OBVIOUS
<1> HIDE DEF D1, D2
<1>4. Shape(cache) /\ Placed(cache, {}) /\ Copies(cache, files)
  BY DEF Inv, CacheInv
<1>5. Shape(c1) /\ Placed(c1, {}) /\ Copies(c1, files) /\ SameEntries(cache, c1)
  BY <1>3, <1>4, MoveToWarmKeeps
<1> HIDE DEF c1
<1>6. Shape(c2) /\ Placed(c2, {}) /\ Copies(c2, files) /\ SameEntries(c1, c2)
  BY <1>3, <1>5, MoveToColdKeeps
<1> HIDE DEF c2
<1>7. SameEntries(cache, c2)
  BY <1>5, <1>6, SameEntriesTransitive
<1>8. E \subseteq InTier(c2, "cold")
  BY <1>1 DEF Oldest
<1>9. /\ IsCache(cache') /\ cache'.hot = c2.hot /\ cache'.warm = c2.warm
      /\ cache'.index = Drop(c2.index, E)
      /\ cache'.next = c2.next /\ cache'.compat = c2.compat
  BY <1>1, <1>6 DEF Shape, IsCache
<1>10. /\ DOMAIN cache'.index = DOMAIN c2.index \ E /\ IsFcn(cache'.index)
       /\ \A j \in DOMAIN cache'.index : cache'.index[j] = c2.index[j]
  BY <1>9 DEF Drop, IsFcn
<1>11. /\ DOMAIN files' = DOMAIN files \ E /\ IsFcn(files')
       /\ \A j \in DOMAIN files' : files'[j] = files[j]
  BY <1>1 DEF Drop, IsFcn
<1>12. Shape(cache')
  BY <1>6, <1>9, <1>10 DEF Shape
<1>13. E \cap (DOMAIN c2.hot \cup DOMAIN c2.warm) = {}
  BY <1>6, <1>8 DEF Placed, InTier
<1>14. Placed(cache', {})
  <2>1. \A j \in DOMAIN cache'.index : cache'.index[j].tier = c2.index[j].tier
    BY <1>10
  <2>2. /\ InTier(cache', "hot") = InTier(c2, "hot") \ E
        /\ InTier(cache', "warm") = InTier(c2, "warm") \ E
    BY <1>10, <2>1 DEF InTier
  <2> QED BY <1>6, <1>9, <1>13, <2>2 DEF Placed
<1>15. Copies(cache', files')
  BY <1>6, <1>9, <1>11, <1>13 DEF Copies
<1>16. Describes(cache', files', {})
  BY <1>7, <1>9, <1>10, <1>11 DEF Inv, CacheInv, Describes, SameEntries
<1>17. DOMAIN cache'.index \subseteq 1 .. MaxId
  BY <1>7, <1>10 DEF Inv, CacheInv, SameEntries
<1>18. CacheInv'
  BY <1>12, <1>14, <1>15, <1>16, <1>17 DEF CacheInv, Shape, Placed, Copies, Describes,
        InTier, IsCache, IsFcn, IsRecord
<1>19. Resume' = Resume
  BY <1>2 DEF Resume
<1>20. DiskInv'
  BY <1>2, <1>11, <1>19 DEF Inv, DiskInv, IsHeader, IsFcn
<1>21. cache'.next = Resume' /\ cache'.compat \in Models
  BY <1>2, <1>7, <1>9, <1>19 DEF Inv, SameEntries
<1> QED BY <1>2, <1>18, <1>20, <1>21 DEF Inv

\* The file of the id that the next store takes may come and go.
LEMMA SpoiltFileKeeps ==
    ASSUME Inv, up, diskNext' = diskNext,
           \/ files' = Drop(files, {cache.next})
           \/ \E b \in Blobs : cache.next <= MaxId
                               /\ files' = Put(files, cache.next, Header(b, FALSE))
    PROVE  /\ DiskInv' /\ Resume' = Resume
           /\ Copies(cache, files') /\ Describes(cache, files', {})
           /\ DOMAIN files' \subseteq DOMAIN files \cup {cache.next}
           /\ \A j \in DOMAIN files' \ {cache.next} : files'[j] = files[j]
           /\ \A j \in DOMAIN files \ {cache.next} : j \in DOMAIN files'
           /\ cache.next \in DOMAIN files' => ~files'[cache.next].whole
<1> DEFINE n == cache.next
<1>1. /\ n \in Nat \ {0} /\ n \notin DOMAIN cache.hot \cup DOMAIN cache.warm
      /\ \A i \in DOMAIN files : i # n => i < n
  BY NextIsFree
<1>2. Resume' = Resume /\ n = Resume /\ cache.compat \in Models
  BY DEF Resume, Inv
<1>3. /\ DOMAIN files' \subseteq DOMAIN files \cup {n} /\ IsFcn(files')
      /\ \A j \in DOMAIN files' \ {n} : files'[j] = files[j]
      /\ \A j \in DOMAIN files \ {n} : j \in DOMAIN files'
      /\ n \in DOMAIN files' => \E b \in Blobs : n <= MaxId /\ files'[n] = Header(b, FALSE)
  <2>1. CASE files' = Drop(files, {n})
    BY <2>1 DEF Drop, IsFcn
  <2>2. CASE \E b \in Blobs : n <= MaxId /\ files' = Put(files, n, Header(b, FALSE))
    BY <2>2 DEF Put, IsFcn
  <2> QED BY <2>1, <2>2
<1>4. ASSUME n \in DOMAIN files'
      PROVE  /\ IsHeader(files'[n]) /\ files'[n].blob \in Blobs
             /\ files'[n].compat \in Models /\ files'[n].whole = FALSE
             /\ n \in 1 .. MaxId
  <2>1. PICK b \in Blobs : n <= MaxId /\ files'[n] = Header(b, FALSE)
    BY <1>3, <1>4
  <2> QED BY <1>1, <1>2, <2>1, ConstantsAssumption DEF IsHeader, Header
<1> HIDE DEF n
<1>5. /\ DOMAIN files' \subseteq 1 .. MaxId
      /\ \A j \in DOMAIN files' : /\ IsHeader(files'[j])
                                  /\ files'[j].blob \in Blobs /\ files'[j].compat \in Models
                                  /\ files'[j].whole \in BOOLEAN
                                  /\ \/ j < Resume /\ files'[j].whole
                                     \/ j = Resume /\ ~files'[j].whole
  <2>1. ASSUME NEW j \in DOMAIN files', j # n
        PROVE  /\ j \in 1 .. MaxId /\ IsHeader(files'[j])
               /\ files'[j].blob \in Blobs /\ files'[j].compat \in Models
               /\ files'[j].whole \in BOOLEAN /\ files'[j].whole /\ j < Resume
    BY <1>1, <1>2, <1>3, <2>1 DEF Inv, DiskInv
  <2> QED BY <1>2, <1>4, <2>1
<1>6. DiskInv'
  BY <1>2, <1>3, <1>5 DEF Inv, DiskInv, IsHeader, IsFcn
<1>7. Copies(cache, files') /\ Describes(cache, files', {})
  <2>1. Copies(cache, files) /\ Describes(cache, files, {})
    BY DEF Inv, CacheInv
  <2>2. Copies(cache, files')
    BY <1>1, <1>3, <2>1 DEF Copies
  <2>3. Describes(cache, files', {})
    BY <1>3, <2>1 DEF Describes, n
  <2> QED BY <2>2, <2>3
<1> QED BY <1>2, <1>3, <1>4, <1>6, <1>7 DEF n

LEMMA StoreFailsKeeps ==
    ASSUME Inv, StoreFails
    PROVE  Inv'
<1>1. /\ up /\ up' = up /\ cache' = cache /\ diskNext' = diskNext
      /\ files' = files \/ files' = Drop(files, {cache.next})
  BY DEF StoreFails
<1>2. CASE files' = files
  <2>1. UNCHANGED <<up, diskVars>>
    BY <1>1, <1>2 DEF diskVars
  <2> QED BY <1>1, <2>1, CacheStepKeeps DEF Inv, CacheInv
<1>3. CASE files' = Drop(files, {cache.next})
  <2>1. DiskInv' /\ Resume' = Resume /\ Copies(cache, files') /\ Describes(cache, files', {})
    BY <1>1, <1>3, SpoiltFileKeeps
  <2>2. CacheInv'
    BY <1>1, <2>1 DEF Inv, CacheInv, Shape, Placed, Copies, Describes, InTier, IsCache,
          IsFcn, IsRecord
  <2> QED BY <1>1, <2>1, <2>2 DEF Inv
<1> QED BY <1>1, <1>2, <1>3

\* A cache object that holds nothing, as after the process ends, or only cold
\* entries that describe the files, as after a restart.
LEMMA ColdCache ==
    ASSUME NEW n, NEW m, NEW x, IsFcn(x),
           \A i \in DOMAIN x : IsRecord(x[i]) /\ x[i].tier = "cold"
    PROVE  LET c == EmptyCache(n, m, x) IN
           /\ Shape(c) /\ Placed(c, {})
           /\ DOMAIN c.hot = {} /\ DOMAIN c.warm = {}
           /\ c.index = x /\ c.next = n /\ c.compat = m
<1> DEFINE c == EmptyCache(n, m, x)
<1>1. /\ IsCache(c) /\ c.index = x /\ c.next = n /\ c.compat = m
      /\ c.hot = NoCheckpoints /\ c.warm = NoCheckpoints
  BY DEF EmptyCache, IsCache
<1>2. IsFcn(NoCheckpoints) /\ DOMAIN NoCheckpoints = {}
  BY DEF IsFcn, NoCheckpoints
<1> HIDE DEF c
<1>3. Shape(c)
  BY <1>1, <1>2 DEF Shape, Tiers
<1>4. Placed(c, {})
  BY <1>1, <1>2 DEF Placed, InTier
<1> QED BY <1>1, <1>2, <1>3, <1>4 DEF c

LEMMA DownKeeps ==
    ASSUME Down, DiskInv'
    PROVE  Inv'
<1>1. up' = FALSE /\ cache' = EmptyCache(0, Miss, NoCheckpoints)
  BY DEF Down
<1>2. IsFcn(NoCheckpoints) /\ DOMAIN NoCheckpoints = {}
  BY DEF IsFcn, NoCheckpoints
<1>3. /\ Shape(cache') /\ Placed(cache', {})
      /\ DOMAIN cache'.hot = {} /\ DOMAIN cache'.warm = {} /\ DOMAIN cache'.index = {}
  BY <1>1, <1>2, ColdCache
<1>4. Copies(cache', files') /\ Describes(cache', files', {})
  BY <1>3 DEF Copies, Describes
<1>5. CacheInv'
  BY <1>3, <1>4 DEF CacheInv, Shape, Placed, Copies, Describes, InTier, IsCache, IsFcn, IsRecord
<1> QED BY <1>1, <1>3, <1>5 DEF Inv

LEMMA CrashTornKeeps ==
    ASSUME Inv, NEW b \in Blobs, CrashTorn(b)
    PROVE  Inv'
<1>1. /\ up /\ Down /\ diskNext' = diskNext /\ cache.next <= MaxId
      /\ files' \in {Drop(files, {cache.next}), Put(files, cache.next, Header(b, FALSE))}
  BY DEF CrashTorn
<1>2. DiskInv'
  BY <1>1, SpoiltFileKeeps
<1> QED BY <1>1, <1>2, DownKeeps

LEMMA StopKeeps ==
    ASSUME Inv, Stop
    PROVE  Inv'
<1>1. Down /\ files' = files /\ diskNext' = diskNext
  BY DEF Stop, diskVars
<1>2. DiskInv'
  BY <1>1 DEF Inv, DiskInv, Resume, IsHeader, IsFcn
<1> QED BY <1>1, <1>2, DownKeeps

LEMMA RestartKeeps ==
    ASSUME Inv, NEW m \in Models, Restart(m)
    PROVE  Inv'
<1> DEFINE x == [i \in DOMAIN files |->
                    [blob |-> files[i].blob, turn |-> files[i].turn,
                     compat |-> files[i].compat, tier |-> "cold", last |-> 0]]
<1>1. /\ up' = TRUE /\ files' = files /\ diskNext' = diskNext
      /\ cache' = EmptyCache(Resume, m, x)
  BY DEF Restart, RestartAt, diskVars, Resume
<1>2. /\ IsFcn(x) /\ DOMAIN x = DOMAIN files
      /\ \A i \in DOMAIN x : /\ IsRecord(x[i]) /\ x[i].tier = "cold"
                             /\ x[i].blob = files[i].blob /\ x[i].compat = files[i].compat
  BY DEF IsFcn, IsRecord
<1> HIDE DEF x
<1>3. /\ Shape(cache') /\ Placed(cache', {})
      /\ DOMAIN cache'.hot = {} /\ DOMAIN cache'.warm = {}
      /\ cache'.index = x /\ cache'.next = Resume /\ cache'.compat = m
  BY <1>1, <1>2, ColdCache
<1>4. Copies(cache', files') /\ Describes(cache', files', {})
  BY <1>1, <1>2, <1>3 DEF Copies, Describes
<1>5. DiskInv' /\ Resume' = Resume
  BY <1>1 DEF Inv, DiskInv, Resume, IsHeader, IsFcn
<1>6. DOMAIN cache'.index \subseteq 1 .. MaxId
  BY <1>2, <1>3 DEF Inv, DiskInv
<1>7. CacheInv'
  BY <1>3, <1>4, <1>6 DEF CacheInv, Shape, Placed, Copies, Describes, InTier, IsCache,
        IsFcn, IsRecord
<1> QED BY <1>1, <1>3, <1>5, <1>7 DEF Inv

LEMMA InitInv == Init => Inv
<1> SUFFICES ASSUME Init PROVE Inv
  OBVIOUS
<1>1. up = FALSE /\ cache = EmptyCache(0, Miss, NoCheckpoints)
      /\ files = NoCheckpoints /\ diskNext = 0
  BY DEF Init
<1>2. IsFcn(NoCheckpoints) /\ DOMAIN NoCheckpoints = {}
  BY DEF IsFcn, NoCheckpoints
<1>3. /\ Shape(cache) /\ Placed(cache, {})
      /\ DOMAIN cache.hot = {} /\ DOMAIN cache.warm = {} /\ DOMAIN cache.index = {}
  BY <1>1, <1>2, ColdCache
<1>4. CacheInv
  BY <1>3 DEF CacheInv, Copies, Describes
<1>5. DiskInv
  BY <1>1, <1>2 DEF DiskInv
<1> QED BY <1>1, <1>3, <1>4, <1>5 DEF Inv

LEMMA NextKeeps ==
    ASSUME NoIndexFault, Inv, [Next]_vars
    PROVE  Inv'
<1>1. CASE UNCHANGED vars
  BY <1>1 DEF vars, diskVars, Inv, DiskInv, CacheInv, Resume, Shape, Placed, Copies,
        Describes, InTier, IsCache, IsFcn, IsRecord, IsHeader
<1>2. CASE Next
  <2>1. ASSUME NEW b \in Blobs, StoreIndexFails(b) \/ CrashBeforeIndex(b) PROVE FALSE
    BY <2>1 DEF StoreIndexFails, CrashBeforeIndex, NoIndexFault
  <2>2. ASSUME EmptyTurn PROVE Inv'
    <3>1. up /\ cache' = cache /\ UNCHANGED <<up, diskVars>>
      BY <2>2 DEF EmptyTurn
    <3> QED BY <3>1, CacheStepKeeps DEF Inv, CacheInv
  <2> QED BY <1>2, <2>1, <2>2, StoreKeeps, CrashTornKeeps, StoreFailsKeeps, LoadKeeps,
             TurnCompleteKeeps, StopKeeps, RestartKeeps DEF Next
<1> QED BY <1>1, <1>2

\* While index.bin keeps up with the checkpoint files, every reachable state
\* satisfies the invariant.
THEOREM Invariant ==
    ASSUME NoIndexFault
    PROVE  Spec => []Inv
<1>1. Inv /\ [Next]_vars => Inv'
  BY NextKeeps
<1> QED BY <1>1, InitInv, PTL DEF Spec

-----------------------------------------------------------------------------
(* The properties.                                                         *)

\* The tier of an entry says in which RAM cache its data is, for any budgets,
\* sizes and numbers of turns (kv-ssd-cache.cpp:336-475, 913-959).
THEOREM TiersAlwaysAgree ==
    ASSUME NoIndexFault
    PROVE  Spec => []TiersAgree
<1>1. Inv => TiersAgree
  BY DEF Inv, CacheInv, Placed, TiersAgree
<1> QED BY <1>1, Invariant, PTL

\* RAM and the index never contradict the files: what kv_ssd_load answers from
\* the hot or warm tier is what it would have read.
THEOREM RamMatchesDisk ==
    ASSUME NoIndexFault
    PROVE  Spec => []MatchesDisk
<1>1. Inv => MatchesDisk
  BY DEF Inv, CacheInv, Copies, Describes, MatchesDisk
<1> QED BY <1>1, Invariant, PTL

-----------------------------------------------------------------------------
(* Loads, even when index.bin is lost or stale and ids are given again.    *)

\* What is in RAM of an id that has a file, but for X, is what the file holds;
\* what was left in the warm cache under an id that is hot is never looked at.
Fresh(c, F, X) ==
    /\ Shape(c)
    /\ \A i \in (DOMAIN c.hot \cap DOMAIN F) \ X :
          F[i].whole /\ c.hot[i] = F[i].blob
    /\ \A i \in ((DOMAIN c.warm \ DOMAIN c.hot) \cap DOMAIN F) \ X :
          F[i].whole /\ c.warm[i] = F[i].blob
    /\ \A i \in (DOMAIN c.index \cap DOMAIN F) \ X : c.index[i].compat = F[i].compat
    /\ \A i \in DOMAIN c.hot  : c.hot[i]  \in Blobs
    /\ \A i \in DOMAIN c.warm : c.warm[i] \in Blobs
    /\ \A i \in DOMAIN F : F[i].blob \in Blobs

\* d has entries for the ids of c, and takes the same id next for the same model.
SameIds(c, d) ==
    d.next = c.next /\ d.compat = c.compat /\ DOMAIN d.index = DOMAIN c.index

LEMMA MoveToWarmFresh ==
    ASSUME NEW c, NEW F, NEW X, NEW D \in SUBSET DOMAIN c.hot, Fresh(c, F, X)
    PROVE  LET d == MoveToWarm(c, D) IN
           Fresh(d, F, X) /\ SameIds(c, d)
<1> DEFINE d == MoveToWarm(c, D)
<1>1. /\ IsCache(d)
      /\ d.index = SetTier(c.index, D, "warm") /\ d.hot = Drop(c.hot, D)
      /\ d.warm = [i \in DOMAIN c.warm \cup D |-> IF i \in D THEN c.hot[i] ELSE c.warm[i]]
      /\ d.next = c.next /\ d.compat = c.compat
  BY DEF Fresh, Shape, IsCache, IsFcn, MoveToWarm
<1> HIDE DEF d
<1>2. /\ DOMAIN d.index = DOMAIN c.index /\ IsFcn(d.index)
      /\ \A i \in DOMAIN d.index : /\ IsRecord(d.index[i]) /\ d.index[i].tier \in Tiers
                                   /\ d.index[i].compat = c.index[i].compat
  <2>1. /\ "warm" \in Tiers
        /\ \A i \in DOMAIN c.index : IsRecord(c.index[i]) /\ c.index[i].tier \in Tiers
    BY DEF Tiers, Fresh, Shape
  <2> QED BY <1>1, <2>1 DEF SetTier, IsRecord, IsFcn
<1>3. /\ DOMAIN d.hot = DOMAIN c.hot \ D /\ IsFcn(d.hot)
      /\ \A i \in DOMAIN d.hot : d.hot[i] = c.hot[i]
  BY <1>1 DEF Drop, IsFcn
<1>4. /\ DOMAIN d.warm = DOMAIN c.warm \cup D /\ IsFcn(d.warm)
      /\ \A i \in DOMAIN d.warm : d.warm[i] = IF i \in D THEN c.hot[i] ELSE c.warm[i]
  BY <1>1 DEF IsFcn
<1>5. Shape(d)
  BY <1>1, <1>2, <1>3, <1>4 DEF Shape
<1>6. Fresh(d, F, X)
  BY <1>2, <1>3, <1>4, <1>5 DEF Fresh
<1> QED BY <1>1, <1>2, <1>6 DEF SameIds, d

LEMMA MoveToColdFresh ==
    ASSUME NEW c, NEW F, NEW X, NEW D \in SUBSET DOMAIN c.warm, Fresh(c, F, X)
    PROVE  LET d == MoveToCold(c, D) IN
           Fresh(d, F, X) /\ SameIds(c, d)
<1> DEFINE d == MoveToCold(c, D)
<1>1. /\ IsCache(d)
      /\ d.index = SetTier(c.index, D, "cold") /\ d.hot = c.hot
      /\ d.warm = Drop(c.warm, D) /\ d.next = c.next /\ d.compat = c.compat
  BY DEF Fresh, Shape, IsCache, IsFcn, MoveToCold
<1> HIDE DEF d
<1>2. /\ DOMAIN d.index = DOMAIN c.index /\ IsFcn(d.index)
      /\ \A i \in DOMAIN d.index : /\ IsRecord(d.index[i]) /\ d.index[i].tier \in Tiers
                                   /\ d.index[i].compat = c.index[i].compat
  <2>1. /\ "cold" \in Tiers
        /\ \A i \in DOMAIN c.index : IsRecord(c.index[i]) /\ c.index[i].tier \in Tiers
    BY DEF Tiers, Fresh, Shape
  <2> QED BY <1>1, <2>1 DEF SetTier, IsRecord, IsFcn
<1>3. /\ DOMAIN d.warm = DOMAIN c.warm \ D /\ IsFcn(d.warm)
      /\ \A i \in DOMAIN d.warm : d.warm[i] = c.warm[i]
  BY <1>1 DEF Drop, IsFcn
<1>4. Shape(d)
  BY <1>1, <1>2, <1>3 DEF Shape, Fresh
<1>5. Fresh(d, F, X)
  BY <1>1, <1>2, <1>3, <1>4 DEF Fresh
<1> QED BY <1>1, <1>2, <1>5 DEF SameIds, d

LEMMA ForgetFresh ==
    ASSUME NEW c, NEW F, NEW X, NEW D, Fresh(c, F, X)
    PROVE  LET d == [c EXCEPT !.index = SetTier(c.index, D, "cold")] IN
           /\ Fresh(d, F, X) /\ SameIds(c, d)
           /\ d.hot = c.hot /\ d.warm = c.warm
<1> DEFINE d == [c EXCEPT !.index = SetTier(c.index, D, "cold")]
<1>1. /\ IsCache(d)
      /\ d.index = SetTier(c.index, D, "cold") /\ d.hot = c.hot /\ d.warm = c.warm
      /\ d.next = c.next /\ d.compat = c.compat
  BY DEF Fresh, Shape, IsCache, IsFcn
<1> HIDE DEF d
<1>2. /\ DOMAIN d.index = DOMAIN c.index /\ IsFcn(d.index)
      /\ \A i \in DOMAIN d.index : /\ IsRecord(d.index[i]) /\ d.index[i].tier \in Tiers
                                   /\ d.index[i].compat = c.index[i].compat
  <2>1. /\ "cold" \in Tiers
        /\ \A i \in DOMAIN c.index : IsRecord(c.index[i]) /\ c.index[i].tier \in Tiers
    BY DEF Tiers, Fresh, Shape
  <2> QED BY <1>1, <2>1 DEF SetTier, IsRecord, IsFcn
<1>3. Shape(d)
  BY <1>1, <1>2 DEF Shape, Fresh
<1> QED BY <1>1, <1>2, <1>3 DEF Fresh, SameIds, d

\* Whatever make_room_hot demotes, RAM says what the files say.
LEMMA MakeRoomFresh ==
    ASSUME NEW c, NEW F, NEW X, NEW needed, Fresh(c, F, X), NEW d \in MakeRoom(c, needed)
    PROVE  Fresh(d, F, X) /\ SameIds(c, d)
<1>1. CASE d = c
  BY <1>1 DEF SameIds
<1>2. ASSUME NEW e \in DemoteHot(c)
      PROVE  Fresh(e, F, X) /\ SameIds(c, e)
  <2>1. PICK D : e = MoveToWarm([c EXCEPT !.index =
                                   SetTier(c.index, D \ (D \cap DOMAIN c.hot), "cold")],
                                D \cap DOMAIN c.hot)
    BY DEF DemoteHot
  <2> DEFINE N == D \ (D \cap DOMAIN c.hot)
             M == D \cap DOMAIN c.hot
             a == [c EXCEPT !.index = SetTier(c.index, N, "cold")]
  <2>2. e = MoveToWarm(a, M) /\ M \in SUBSET DOMAIN c.hot
    BY <2>1
  <2> HIDE DEF N, M
  <2>3. Fresh(a, F, X) /\ SameIds(c, a) /\ a.hot = c.hot
    BY ForgetFresh
  <2> HIDE DEF a
  <2> QED BY <2>2, <2>3, MoveToWarmFresh DEF SameIds
<1>3. ASSUME NEW e, Fresh(e, F, X), d \in DemoteWarm(e)
      PROVE  Fresh(d, F, X) /\ SameIds(e, d)
  <2>1. PICK D : d = MoveToCold([e EXCEPT !.index =
                                   SetTier(e.index, D \ (D \cap DOMAIN e.warm), "cold")],
                                D \cap DOMAIN e.warm)
    BY <1>3 DEF DemoteWarm
  <2> DEFINE N == D \ (D \cap DOMAIN e.warm)
             M == D \cap DOMAIN e.warm
             a == [e EXCEPT !.index = SetTier(e.index, N, "cold")]
  <2>2. d = MoveToCold(a, M) /\ M \in SUBSET DOMAIN e.warm
    BY <2>1
  <2> HIDE DEF N, M
  <2>3. Fresh(a, F, X) /\ SameIds(e, a) /\ a.warm = e.warm
    BY <1>3, ForgetFresh
  <2> HIDE DEF a
  <2> QED BY <2>2, <2>3, MoveToColdFresh DEF SameIds
<1>4. ASSUME NEW e \in DemoteHot(c), d \in DemoteWarm(e)
      PROVE  Fresh(d, F, X) /\ SameIds(c, d)
  BY <1>2, <1>3, <1>4 DEF SameIds
<1> QED BY <1>1, <1>2, <1>4 DEF MakeRoom

LEMMA MakeHotFresh ==
    ASSUME NEW c, NEW F, NEW i \in DOMAIN c.index, NEW b \in Blobs, NEW t, Fresh(c, F, {i}),
           i \in DOMAIN F => F[i].whole /\ F[i].blob = b /\ c.index[i].compat = F[i].compat
    PROVE  LET d == MakeHot(c, i, b, t) IN Fresh(d, F, {}) /\ SameIds(c, d)
<1> DEFINE d == MakeHot(c, i, b, t)
<1>1. /\ IsCache(d)
      /\ d.index = [c.index EXCEPT ![i].tier = "hot", ![i].last = t]
      /\ d.hot = Put(c.hot, i, b) /\ d.warm = c.warm
      /\ d.next = c.next /\ d.compat = c.compat
  BY DEF Fresh, Shape, IsCache, IsFcn, MakeHot
<1> HIDE DEF d
<1>2. /\ DOMAIN d.index = DOMAIN c.index /\ IsFcn(d.index)
      /\ \A j \in DOMAIN d.index : /\ IsRecord(d.index[j]) /\ d.index[j].tier \in Tiers
                                   /\ d.index[j].compat = c.index[j].compat
  BY <1>1 DEF Fresh, Shape, IsRecord, IsFcn, Tiers
<1>3. /\ DOMAIN d.hot = DOMAIN c.hot \cup {i} /\ IsFcn(d.hot)
      /\ \A j \in DOMAIN d.hot : d.hot[j] = IF j = i THEN b ELSE c.hot[j]
  BY <1>1 DEF Put, IsFcn
<1>4. Shape(d)
  BY <1>1, <1>2, <1>3 DEF Shape, Fresh
<1>5. Fresh(d, F, {})
  BY <1>1, <1>2, <1>3, <1>4 DEF Fresh
<1> QED BY <1>1, <1>2, <1>5 DEF SameIds, d

FreshInv == Fresh(cache, files, {})

LEMMA FreshStore ==
    ASSUME FreshInv, NEW b \in Blobs, NEW dn, FinishStore(b, dn)
    PROVE  /\ Fresh(cache', files', {})
           /\ cache'.next = cache.next + 1 /\ cache'.compat = cache.compat
           /\ DOMAIN cache'.index = DOMAIN cache.index \cup {cache.next}
<1> DEFINE i == cache.next
           F == Put(files, i, Header(b, TRUE))
           c0 == [cache EXCEPT !.next = i + 1]
<1>1. files' = F
  BY DEF FinishStore
<1>2. PICK t \in Tick : \E c \in MakeRoom(c0, SizeOf[b]) :
            cache' = MakeHot([c EXCEPT !.index = Put(c.index, i, Checkpoint(b, "hot", t))], i, b, t)
  BY DEF FinishStore
<1>3. PICK c \in MakeRoom(c0, SizeOf[b]) :
            cache' = MakeHot([c EXCEPT !.index = Put(c.index, i, Checkpoint(b, "hot", t))], i, b, t)
  BY <1>2
<1>4. /\ IsCache(c0) /\ c0.index = cache.index /\ c0.hot = cache.hot /\ c0.warm = cache.warm
      /\ c0.next = cache.next + 1 /\ c0.compat = cache.compat
  BY DEF FreshInv, Fresh, Shape, IsCache
<1>5. /\ DOMAIN F = DOMAIN files \cup {i}
      /\ \A j \in DOMAIN F \ {i} : F[j] = files[j]
      /\ F[i].whole /\ F[i].blob = b /\ F[i].compat = cache.compat
  BY DEF Put, Header
<1> HIDE DEF c0, F, i
<1>6. Fresh(c0, F, {i})
  <2>1. Shape(c0)
    BY <1>4 DEF FreshInv, Fresh, Shape
  <2> QED BY <1>4, <1>5, <2>1 DEF FreshInv, Fresh
<1>7. Fresh(c, F, {i}) /\ SameIds(c0, c)
  BY <1>6, MakeRoomFresh
<1> DEFINE e == [c EXCEPT !.index = Put(c.index, i, Checkpoint(b, "hot", t))]
<1>8. /\ IsCache(e) /\ e.index = Put(c.index, i, Checkpoint(b, "hot", t))
      /\ e.hot = c.hot /\ e.warm = c.warm /\ e.next = c.next /\ e.compat = c.compat
  BY <1>7 DEF Fresh, Shape, IsCache
<1>9. cache' = MakeHot(e, i, b, t)
  BY <1>3
<1> HIDE DEF e
<1>10. /\ DOMAIN e.index = DOMAIN c.index \cup {i} /\ IsFcn(e.index)
       /\ \A j \in DOMAIN e.index :
             e.index[j] = IF j = i THEN Checkpoint(b, "hot", t) ELSE c.index[j]
  BY <1>8 DEF Put, IsFcn
<1>11. /\ IsRecord(Checkpoint(b, "hot", t)) /\ Checkpoint(b, "hot", t).tier = "hot"
       /\ Checkpoint(b, "hot", t).compat = cache.compat
  BY DEF IsRecord, Checkpoint
<1>12. Fresh(e, F, {i})
  <2>1. Shape(e)
    BY <1>7, <1>8, <1>10, <1>11 DEF Fresh, Shape, Tiers
  <2> QED BY <1>7, <1>8, <1>10, <2>1 DEF Fresh
<1>13. i \in DOMAIN e.index /\ e.index[i].compat = F[i].compat
  BY <1>5, <1>10, <1>11
<1> DEFINE d == MakeHot(e, i, b, t)
<1>14. Fresh(d, F, {}) /\ SameIds(e, d)
  BY <1>5, <1>12, <1>13, MakeHotFresh
<1>15. cache' = d
  BY <1>9
<1> HIDE DEF d
<1> QED BY <1>1, <1>4, <1>7, <1>8, <1>10, <1>14, <1>15 DEF SameIds, i

LEMMA FreshLoad ==
    ASSUME FreshInv, NEW i \in DOMAIN cache.index, Load(i)
    PROVE  /\ Fresh(cache', files', {})
           /\ cache'.next = cache.next /\ cache'.compat = cache.compat
           /\ DOMAIN cache'.index \subseteq DOMAIN cache.index
<1>1. files' = files
  BY DEF Load, LoadRejected, LoadHot, LoadWarm, LoadCold, LoadMissing, diskVars
<1>2. \A X : Fresh(cache, files, X)
  BY DEF FreshInv, Fresh
<1>3. ASSUME NEW c, Fresh(c, files, {}), SameIds(cache, c),
             NEW b \in Blobs, i \in DOMAIN files => files[i].whole /\ files[i].blob = b,
             NEW t, cache' = MakeHot(c, i, b, t)
      PROVE  Fresh(cache', files', {}) /\ SameIds(cache, cache')
  <2>1. Fresh(c, files, {i}) /\ i \in DOMAIN c.index
        /\ (i \in DOMAIN files => c.index[i].compat = files[i].compat)
    BY <1>3 DEF Fresh, SameIds
  <2> DEFINE d == MakeHot(c, i, b, t)
  <2>2. Fresh(d, files, {}) /\ SameIds(c, d)
    BY <1>3, <2>1, MakeHotFresh
  <2>3. cache' = d
    BY <1>3
  <2> HIDE DEF d
  <2> QED BY <1>1, <1>3, <2>2, <2>3 DEF SameIds
<1>4. CASE LoadRejected(i)
  BY <1>1, <1>2, <1>4 DEF LoadRejected
<1>5. CASE LoadHot(i)
  <2>1. PICK t \in Tick : cache' = [cache EXCEPT !.index[i].last = t]
    BY <1>5 DEF LoadHot
  <2>2. /\ IsCache(cache') /\ cache'.hot = cache.hot /\ cache'.warm = cache.warm
        /\ cache'.index = [cache.index EXCEPT ![i].last = t]
        /\ cache'.next = cache.next /\ cache'.compat = cache.compat
    BY <2>1 DEF FreshInv, Fresh, Shape, IsCache
  <2>3. /\ DOMAIN cache'.index = DOMAIN cache.index /\ IsFcn(cache'.index)
        /\ \A j \in DOMAIN cache'.index :
              /\ IsRecord(cache'.index[j]) /\ cache'.index[j].tier \in Tiers
              /\ cache'.index[j].compat = cache.index[j].compat
    BY <2>2 DEF FreshInv, Fresh, Shape, IsRecord, IsFcn
  <2>4. Shape(cache')
    BY <2>2, <2>3 DEF FreshInv, Fresh, Shape
  <2> QED BY <1>1, <2>2, <2>3, <2>4 DEF FreshInv, Fresh
<1>6. CASE LoadWarm(i)
  <2> DEFINE b == cache.warm[i]
             a == [cache EXCEPT !.warm = Drop(cache.warm, {i}),
                                !.warmBytes = cache.warmBytes - SizeOf[b]]
  <2>1. PICK t \in Tick : \E c \in MakeRoom(a, SizeOf[b]) : cache' = MakeHot(c, i, b, t)
    BY <1>6 DEF LoadWarm
  <2>2. PICK c \in MakeRoom(a, SizeOf[b]) : cache' = MakeHot(c, i, b, t)
    BY <2>1
  <2>3. /\ IsCache(a) /\ a.index = cache.index /\ a.hot = cache.hot
        /\ a.warm = Drop(cache.warm, {i})
        /\ a.next = cache.next /\ a.compat = cache.compat
    BY DEF FreshInv, Fresh, Shape, IsCache
  <2>4. b \in Blobs /\ (i \in DOMAIN files => files[i].whole /\ files[i].blob = b)
    BY <1>6 DEF LoadWarm, FreshInv, Fresh
  <2> HIDE DEF a, b
  <2>5. /\ DOMAIN a.warm = DOMAIN cache.warm \ {i} /\ IsFcn(a.warm)
        /\ \A j \in DOMAIN a.warm : a.warm[j] = cache.warm[j]
    BY <2>3 DEF Drop, IsFcn
  <2>6. Fresh(a, files, {})
    <3>1. Shape(a)
      BY <2>3, <2>5 DEF FreshInv, Fresh, Shape
    <3> QED BY <2>3, <2>5, <3>1 DEF FreshInv, Fresh
  <2>7. Fresh(c, files, {}) /\ SameIds(cache, c)
    BY <2>3, <2>6, MakeRoomFresh DEF SameIds
  <2> QED BY <1>3, <2>2, <2>4, <2>7 DEF SameIds
<1>7. CASE LoadCold(i)
  <2>1. PICK c \in MakeRoom(cache, SizeOf[files[i].blob]) :
            \/ cache' = c
            \/ files[i].whole /\ \E t \in Tick : cache' = MakeHot(c, i, files[i].blob, t)
    BY <1>7 DEF LoadCold
  <2>2. Fresh(c, files, {}) /\ SameIds(cache, c)
    BY <1>2, MakeRoomFresh
  <2>3. files[i].blob \in Blobs
    BY <1>7 DEF FreshInv, Fresh, LoadCold
  <2> QED BY <1>1, <1>3, <2>1, <2>2, <2>3 DEF SameIds
<1>8. CASE LoadMissing(i)
  <2>1. cache' = [cache EXCEPT !.index = Drop(cache.index, {i})]
    BY <1>8 DEF LoadMissing
  <2>2. /\ IsCache(cache') /\ cache'.hot = cache.hot /\ cache'.warm = cache.warm
        /\ cache'.index = Drop(cache.index, {i})
        /\ cache'.next = cache.next /\ cache'.compat = cache.compat
    BY <2>1 DEF FreshInv, Fresh, Shape, IsCache
  <2>3. /\ DOMAIN cache'.index = DOMAIN cache.index \ {i} /\ IsFcn(cache'.index)
        /\ \A j \in DOMAIN cache'.index : cache'.index[j] = cache.index[j]
    BY <2>2 DEF Drop, IsFcn
  <2>4. Shape(cache')
    BY <2>2, <2>3 DEF FreshInv, Fresh, Shape
  <2> QED BY <1>1, <2>2, <2>3, <2>4 DEF FreshInv, Fresh
<1> QED BY <1>4, <1>5, <1>6, <1>7, <1>8 DEF Load

\* The ring buffer deletes cold entries, with their files, and only while more
\* than MaxCold of them are cold.
Evicts(E) ==
    \/ E = {}
    \/ \E cold \in SUBSET DOMAIN cache.index :
          E \subseteq cold /\ MaxCold # 0 /\ ~(Cardinality(cold) - MaxCold <= 0)

LEMMA FreshTurn ==
    ASSUME FreshInv, TurnComplete
    PROVE  /\ Fresh(cache', files', {})
           /\ cache'.next = cache.next /\ cache'.compat = cache.compat
           /\ \E E : /\ Evicts(E) /\ files' = Drop(files, E)
                    /\ DOMAIN cache'.index = DOMAIN cache.index \ E
<1> DEFINE D1 == Inactive(cache, "hot", HotTurns) \cap DOMAIN cache.hot
           c1 == MoveToWarm(cache, D1)
           D2 == Inactive(c1, "warm", WarmTurns) \cap DOMAIN c1.warm
           c2 == MoveToCold(c1, D2)
<1>1. PICK E \in Oldest(c2) : /\ cache' = [c2 EXCEPT !.index = Drop(c2.index, E)]
                              /\ files' = Drop(files, E)
  BY DEF TurnComplete
<1>2. D1 \in SUBSET DOMAIN cache.hot /\ D2 \in SUBSET DOMAIN c1.warm
  OBVIOUS
<1> HIDE DEF D1, D2
<1>3. Fresh(c1, files, {}) /\ SameIds(cache, c1)
  BY <1>2, MoveToWarmFresh DEF FreshInv
<1> HIDE DEF c1
<1>4. Fresh(c2, files, {}) /\ SameIds(c1, c2)
  BY <1>2, <1>3, MoveToColdFresh
<1> HIDE DEF c2
<1>5. /\ IsCache(cache') /\ cache'.hot = c2.hot /\ cache'.warm = c2.warm
      /\ cache'.index = Drop(c2.index, E)
      /\ cache'.next = c2.next /\ cache'.compat = c2.compat
  BY <1>1, <1>4 DEF Fresh, Shape, IsCache
<1>6. /\ DOMAIN cache'.index = DOMAIN c2.index \ E /\ IsFcn(cache'.index)
      /\ \A j \in DOMAIN cache'.index : cache'.index[j] = c2.index[j]
  BY <1>5 DEF Drop, IsFcn
<1>7. /\ DOMAIN files' = DOMAIN files \ E
      /\ \A j \in DOMAIN files' : files'[j] = files[j]
  BY <1>1 DEF Drop
<1>8. Shape(cache')
  BY <1>4, <1>5, <1>6 DEF Fresh, Shape
<1>9. Fresh(cache', files', {})
  BY <1>4, <1>5, <1>6, <1>7, <1>8 DEF Fresh
<1>10. Evicts(E)
  <2>1. InTier(c2, "cold") \subseteq DOMAIN cache.index
    BY <1>3, <1>4 DEF InTier, SameIds
  <2>2. CASE MaxCold = 0 \/ Cardinality(InTier(c2, "cold")) - MaxCold <= 0
    BY <1>1, <2>2 DEF Oldest, Evicts
  <2>3. CASE ~(MaxCold = 0 \/ Cardinality(InTier(c2, "cold")) - MaxCold <= 0)
    <3>1. E \subseteq InTier(c2, "cold")
      BY <1>1, <2>3 DEF Oldest
    <3> QED BY <2>1, <2>3, <3>1 DEF Evicts
  <2> QED BY <2>2, <2>3
<1>11. DOMAIN cache'.index = DOMAIN cache.index \ E
  BY <1>3, <1>4, <1>6 DEF SameIds
<1> QED BY <1>1, <1>3, <1>4, <1>5, <1>9, <1>10, <1>11 DEF SameIds

\* A cache without RAM copies, whose index was read from the files, or is empty.
LEMMA FreshCold ==
    ASSUME NEW n, NEW m, NEW x, IsFcn(x), NEW F,
           \A i \in DOMAIN x : IsRecord(x[i]) /\ x[i].tier = "cold",
           \A i \in DOMAIN x \cap DOMAIN F : x[i].compat = F[i].compat,
           \A i \in DOMAIN F : F[i].blob \in Blobs
    PROVE  Fresh(EmptyCache(n, m, x), F, {})
<1>1. LET c == EmptyCache(n, m, x) IN
      Shape(c) /\ c.index = x /\ DOMAIN c.hot = {} /\ DOMAIN c.warm = {}
  BY ColdCache
<1> QED BY <1>1 DEF Fresh

LEMMA FreshDown ==
    ASSUME Down, \A i \in DOMAIN files' : files'[i].blob \in Blobs
    PROVE  Fresh(cache', files', {})
<1>1. cache' = EmptyCache(0, Miss, NoCheckpoints)
  BY DEF Down
<1>2. IsFcn(NoCheckpoints) /\ DOMAIN NoCheckpoints = {}
  BY DEF IsFcn, NoCheckpoints
<1> QED BY <1>1, <1>2, FreshCold

LEMMA FreshNext ==
    ASSUME FreshInv, [Next]_vars
    PROVE  Fresh(cache', files', {})
<1>1. ASSUME cache' = cache, files' = files PROVE Fresh(cache', files', {})
  BY <1>1 DEF FreshInv
<1>2. CASE UNCHANGED vars
  BY <1>1, <1>2 DEF vars, diskVars
<1>3. ASSUME NEW b \in Blobs, Store(b) \/ StoreIndexFails(b)
      PROVE  Fresh(cache', files', {})
  BY <1>3, FreshStore DEF Store, StoreIndexFails
<1>4. ASSUME NEW b \in Blobs, CrashTorn(b) \/ CrashBeforeIndex(b)
      PROVE  Fresh(cache', files', {})
  <2>1. Down /\ \/ files' = Drop(files, {cache.next})
                 \/ \E w : files' = Put(files, cache.next, Header(b, w))
    BY <1>4 DEF CrashTorn, CrashBeforeIndex
  <2>2. \A i \in DOMAIN files' : files'[i].blob \in Blobs
    BY <2>1 DEF Drop, Put, Header, FreshInv, Fresh
  <2> QED BY <2>1, <2>2, FreshDown
<1>5. ASSUME StoreFails PROVE Fresh(cache', files', {})
  <2>1. cache' = cache /\ (files' = files \/ files' = Drop(files, {cache.next}))
    BY <1>5 DEF StoreFails
  <2>2. DOMAIN files' \subseteq DOMAIN files /\ \A j \in DOMAIN files' : files'[j] = files[j]
    BY <2>1 DEF Drop
  <2> QED BY <2>1, <2>2 DEF FreshInv, Fresh
<1>6. ASSUME EmptyTurn PROVE Fresh(cache', files', {})
  BY <1>1, <1>6 DEF EmptyTurn, diskVars
<1>7. ASSUME Stop PROVE Fresh(cache', files', {})
  BY <1>7, FreshDown DEF Stop, diskVars, FreshInv, Fresh
<1>8. ASSUME NEW m \in Models, Restart(m) PROVE Fresh(cache', files', {})
  <2> DEFINE x == [i \in DOMAIN files |->
                     [blob |-> files[i].blob, turn |-> files[i].turn,
                      compat |-> files[i].compat, tier |-> "cold", last |-> 0]]
  <2>1. cache' = EmptyCache(Resume, m, x) /\ files' = files
    BY <1>8 DEF Restart, RestartAt, diskVars
  <2>2. /\ IsFcn(x) /\ DOMAIN x = DOMAIN files
        /\ \A i \in DOMAIN x : IsRecord(x[i]) /\ x[i].tier = "cold"
        /\ \A i \in DOMAIN x : x[i].compat = files[i].compat
    BY DEF IsFcn, IsRecord
  <2> HIDE DEF x
  <2>3. \A i \in DOMAIN files : files[i].blob \in Blobs
    BY DEF FreshInv, Fresh
  <2> QED BY <2>1, <2>2, <2>3, FreshCold
<1> QED BY <1>2, <1>3, <1>4, <1>5, <1>6, <1>7, <1>8, FreshLoad, FreshTurn DEF Next

\* Whatever stores, tiers, crashes and restarts came before, and even when an
\* id was given again because index.bin was lost or stale, a load that answers
\* gives back a whole file of the model that runs (kv_ssd_load,
\* promote_to_hot): the RAM copies are never those of an older file.
THEOREM LoadsAreFaithful == Spec => LoadAnswersFile
<1>1. Init => FreshInv
  <2> SUFFICES ASSUME Init PROVE FreshInv
    OBVIOUS
  <2>1. cache = EmptyCache(0, Miss, NoCheckpoints) /\ files = NoCheckpoints
    BY DEF Init
  <2>2. IsFcn(NoCheckpoints) /\ DOMAIN NoCheckpoints = {}
    BY DEF IsFcn, NoCheckpoints
  <2> QED BY <2>1, <2>2, FreshCold DEF FreshInv
<1>2. FreshInv /\ [Next]_vars => FreshInv'
  <2> SUFFICES ASSUME FreshInv, [Next]_vars PROVE FreshInv'
    OBVIOUS
  <2>1. Fresh(cache', files', {})
    BY FreshNext
  <2> QED BY <2>1 DEF FreshInv, Fresh, Shape, IsCache, IsFcn, IsRecord
<1>3. ASSUME FreshInv, NEW i \in DOMAIN cache.index, Load(i), out'.blob # Miss, i \in DOMAIN files
      PROVE  files[i].whole /\ files[i].blob = out'.blob /\ files[i].compat = cache.compat
  <2>1. cache.index[i].compat = files[i].compat
    BY <1>3 DEF FreshInv, Fresh
  <2>2. CASE LoadRejected(i) \/ LoadMissing(i)
    BY <1>3, <2>2 DEF LoadRejected, LoadMissing, Answer
  <2>3. CASE LoadHot(i)
    BY <1>3, <2>1, <2>3 DEF LoadHot, Compatible, Answer, FreshInv, Fresh
  <2>4. CASE LoadWarm(i)
    BY <1>3, <2>1, <2>4 DEF LoadWarm, Compatible, Answer, FreshInv, Fresh
  <2>5. CASE LoadCold(i)
    <3>1. Answer(i, Miss) \/ (files[i].whole /\ Answer(i, files[i].blob))
      BY <2>5 DEF LoadCold
    <3> QED BY <1>3, <2>1, <2>5, <3>1 DEF LoadCold, Compatible, Answer
  <2> QED BY <1>3, <2>2, <2>3, <2>4, <2>5 DEF Load
<1>4. FreshInv => [\A i \in DOMAIN cache.index :
                      Load(i) /\ out'.blob # Miss /\ i \in DOMAIN files =>
                         /\ files[i].whole
                         /\ files[i].blob = out'.blob
                         /\ files[i].compat = cache.compat]_vars
  BY <1>3
<1> QED BY <1>1, <1>2, <1>4, PTL DEF Spec, LoadAnswersFile

-----------------------------------------------------------------------------
(* The cache implements the abstract store, whatever faults there are.     *)

\* What the files say, and the index: its ids have a file, but for the one the
\* next store takes, which is never below the one a restart would take.
KnownInv ==
    /\ FreshInv
    /\ diskNext \in Nat
    /\ \A i \in DOMAIN files : /\ i \in 1 .. MaxId
                               /\ files[i].compat \in Models /\ files[i].whole \in BOOLEAN
    /\ \A i \in DOMAIN cache.index : /\ i \in 1 .. MaxId
                                     /\ i \in DOMAIN files \cup {cache.next}
    /\ up => /\ cache.next \in Nat /\ cache.next >= Resume
             /\ cache.compat \in Models

LEMMA KnownCache ==
    ASSUME KnownInv, files' = files, diskNext' = diskNext, Fresh(cache', files', {}),
           cache'.next = cache.next, cache'.compat = cache.compat, up' = up,
           DOMAIN cache'.index \subseteq DOMAIN cache.index
    PROVE  KnownInv'
BY DEF KnownInv, FreshInv, Resume, Fresh, Shape, IsCache, IsFcn, IsRecord

LEMMA KnownDown ==
    ASSUME Down, Fresh(cache', files', {}), diskNext' \in Nat,
           \A i \in DOMAIN files' : /\ i \in 1 .. MaxId
                                    /\ files'[i].compat \in Models
                                    /\ files'[i].whole \in BOOLEAN
    PROVE  KnownInv'
<1>1. cache' = EmptyCache(0, Miss, NoCheckpoints) /\ up' = FALSE
  BY DEF Down
<1>2. DOMAIN cache'.index = {}
  BY <1>1 DEF EmptyCache, NoCheckpoints
<1> QED BY <1>1, <1>2 DEF KnownInv, FreshInv, Fresh, Shape, IsCache, IsFcn, IsRecord

\* The files after a store has written, or spoilt, the file of the next id.
LEMMA KnownFiles ==
    ASSUME KnownInv, up, cache.next <= MaxId, NEW b, NEW w \in BOOLEAN,
           \/ files' = Put(files, cache.next, Header(b, w))
           \/ files' = Drop(files, {cache.next})
    PROVE  \A i \in DOMAIN files' : /\ i \in 1 .. MaxId
                                    /\ files'[i].compat \in Models
                                    /\ files'[i].whole \in BOOLEAN
<1>1. cache.next \in 1 .. MaxId /\ cache.compat \in Models
  BY ConstantsAssumption DEF KnownInv, Resume
<1> QED BY <1>1 DEF Put, Drop, Header, KnownInv

LEMMA KnownStore ==
    ASSUME KnownInv, NEW b \in Blobs, NEW dn \in Nat, FinishStore(b, dn), dn <= cache.next + 1
    PROVE  KnownInv'
<1>1. /\ up /\ up' = up /\ cache.next <= MaxId
      /\ files' = Put(files, cache.next, Header(b, TRUE)) /\ diskNext' = dn
  BY DEF FinishStore
<1>2. /\ Fresh(cache', files', {})
      /\ cache'.next = cache.next + 1 /\ cache'.compat = cache.compat
      /\ DOMAIN cache'.index = DOMAIN cache.index \cup {cache.next}
  BY FreshStore DEF KnownInv
<1>3. \A i \in DOMAIN files' : /\ i \in 1 .. MaxId
                               /\ files'[i].compat \in Models
                               /\ files'[i].whole \in BOOLEAN
  BY <1>1, KnownFiles
<1>4. cache.next \in 1 .. MaxId /\ cache.compat \in Models
  BY <1>1, ConstantsAssumption DEF KnownInv, Resume
<1>5. DOMAIN files' = DOMAIN files \cup {cache.next}
  BY <1>1 DEF Put
<1>6. \A i \in DOMAIN cache'.index : i \in 1 .. MaxId /\ i \in DOMAIN files' \cup {cache'.next}
  BY <1>2, <1>4, <1>5 DEF KnownInv
<1>7. cache'.next \in Nat /\ cache'.next >= Resume' /\ cache'.compat \in Models
  BY <1>1, <1>2, <1>4 DEF Resume
<1> QED BY <1>1, <1>2, <1>3, <1>6, <1>7 DEF KnownInv, FreshInv, Fresh, Shape, IsCache, IsFcn, IsRecord

LEMMA KnownTurn ==
    ASSUME KnownInv, TurnComplete
    PROVE  KnownInv'
<1>1. up /\ up' = up /\ diskNext' = diskNext
  BY DEF TurnComplete
<1>2. /\ Fresh(cache', files', {})
      /\ cache'.next = cache.next /\ cache'.compat = cache.compat
  BY FreshTurn DEF KnownInv
<1>3. PICK E : /\ files' = Drop(files, E)
               /\ DOMAIN cache'.index = DOMAIN cache.index \ E
  BY FreshTurn DEF KnownInv
<1>4. DOMAIN files' = DOMAIN files \ E /\ \A i \in DOMAIN files' : files'[i] = files[i]
  BY <1>3 DEF Drop
<1> QED BY <1>1, <1>2, <1>3, <1>4
        DEF KnownInv, FreshInv, Resume, Fresh, Shape, IsCache, IsFcn, IsRecord

LEMMA KnownNext ==
    ASSUME KnownInv, [Next]_vars
    PROVE  KnownInv'
<1>1. Fresh(cache', files', {})
  BY FreshNext DEF KnownInv
<1>2. CASE UNCHANGED vars
  BY <1>1, <1>2, KnownCache DEF vars, diskVars
<1>3. ASSUME NEW b \in Blobs, Store(b) \/ StoreIndexFails(b)
      PROVE  KnownInv'
  <2>1. PICK dn \in {cache.next + 1, diskNext, 0} : FinishStore(b, dn)
    BY <1>3 DEF Store, StoreIndexFails
  <2>2. up /\ cache.next \in Nat /\ diskNext \in Nat /\ diskNext <= cache.next
    BY <2>1 DEF FinishStore, KnownInv, Resume
  <2>3. dn \in Nat /\ dn <= cache.next + 1
    BY <2>2
  <2> QED BY <2>1, <2>3, KnownStore
<1>4. ASSUME NEW b \in Blobs, CrashTorn(b) \/ CrashBeforeIndex(b)
      PROVE  KnownInv'
  <2>1. /\ Down /\ up /\ cache.next <= MaxId
        /\ \/ files' = Drop(files, {cache.next})
           \/ files' = Put(files, cache.next, Header(b, FALSE))
           \/ files' = Put(files, cache.next, Header(b, TRUE))
        /\ diskNext' \in {diskNext, 0}
    BY <1>4 DEF CrashTorn, CrashBeforeIndex
  <2>2. \A i \in DOMAIN files' : /\ i \in 1 .. MaxId
                                 /\ files'[i].compat \in Models
                                 /\ files'[i].whole \in BOOLEAN
    <3>1. CASE files' = Put(files, cache.next, Header(b, TRUE))
      <4>1. TRUE \in BOOLEAN
        OBVIOUS
      <4> QED BY <2>1, <3>1, <4>1, KnownFiles
    <3>2. CASE files' = Drop(files, {cache.next}) \/ files' = Put(files, cache.next, Header(b, FALSE))
      <4>1. FALSE \in BOOLEAN
        OBVIOUS
      <4> QED BY <2>1, <3>2, <4>1, KnownFiles
    <3> QED BY <2>1, <3>1, <3>2
  <2>3. diskNext' \in Nat
    BY <2>1 DEF KnownInv
  <2> QED BY <1>1, <2>1, <2>2, <2>3, KnownDown
<1>5. ASSUME StoreFails PROVE KnownInv'
  <2>1. /\ cache' = cache /\ diskNext' = diskNext /\ up' = up /\ up
        /\ files' = files \/ files' = Drop(files, {cache.next})
    BY <1>5 DEF StoreFails
  <2>2. /\ DOMAIN files' \subseteq DOMAIN files /\ \A j \in DOMAIN files' : files'[j] = files[j]
        /\ DOMAIN files \subseteq DOMAIN files' \cup {cache.next}
    BY <2>1 DEF Drop
  <2> QED BY <1>1, <2>1, <2>2 DEF KnownInv, FreshInv, Resume
<1>6. ASSUME EmptyTurn PROVE KnownInv'
  BY <1>1, <1>6, KnownCache DEF EmptyTurn, diskVars
<1>7. ASSUME Stop PROVE KnownInv'
  BY <1>1, <1>7, KnownDown DEF Stop, diskVars, KnownInv
<1>8. ASSUME NEW m \in Models, Restart(m) PROVE KnownInv'
  <2>1. /\ up' = TRUE /\ files' = files /\ diskNext' = diskNext
        /\ cache'.next = Resume /\ cache'.compat = m
        /\ DOMAIN cache'.index = DOMAIN files
    BY <1>8 DEF Restart, RestartAt, diskVars, EmptyCache
  <2>2. Resume' = Resume /\ Resume \in Nat
    BY <2>1 DEF KnownInv, Resume
  <2> QED BY <1>1, <2>1, <2>2 DEF KnownInv, FreshInv
<1>9. ASSUME NEW i \in DOMAIN cache.index, Load(i) PROVE KnownInv'
  <2>1. up' = up /\ files' = files /\ diskNext' = diskNext
    BY <1>9 DEF Load, LoadRejected, LoadHot, LoadWarm, LoadCold, LoadMissing, diskVars
  <2>2. /\ cache'.next = cache.next /\ cache'.compat = cache.compat
        /\ DOMAIN cache'.index \subseteq DOMAIN cache.index
    BY <1>9, FreshLoad DEF KnownInv
  <2> QED BY <1>1, <2>1, <2>2, KnownCache
<1> QED BY <1>2, <1>3, <1>4, <1>5, <1>6, <1>7, <1>8, <1>9, KnownTurn DEF Next

LEMMA KnownInit == Init => KnownInv
<1> SUFFICES ASSUME Init PROVE KnownInv
  OBVIOUS
<1>1. /\ cache = EmptyCache(0, Miss, NoCheckpoints) /\ files = NoCheckpoints
      /\ up = FALSE /\ diskNext = 0
  BY DEF Init
<1>2. IsFcn(NoCheckpoints) /\ DOMAIN NoCheckpoints = {}
  BY DEF IsFcn, NoCheckpoints
<1>3. FreshInv
  BY <1>1, <1>2, FreshCold DEF FreshInv
<1>4. DOMAIN cache.index = {}
  BY <1>1, <1>2 DEF EmptyCache
<1> QED BY <1>1, <1>2, <1>3, <1>4 DEF KnownInv

\* What the abstract store holds, and the ids it may give out again.
saved == [i \in DOMAIN files |->
             [blob |-> IF files[i].whole THEN files[i].blob ELSE Miss,
              compat |-> files[i].compat]]
open  == {i \in DOMAIN files : i >= Resume}

\* The id a store takes, and the model it saves for.
LEMMA NextIsOpen ==
    ASSUME KnownInv, up, cache.next <= MaxId
    PROVE  /\ cache.next \in 1 .. MaxId /\ cache.compat \in Models
           /\ cache.next \notin DOMAIN saved \ open
           /\ cache.next >= Resume /\ Resume \in Nat \ {0}
<1>1. Resume \in Nat \ {0} /\ cache.next \in Nat /\ cache.next >= Resume /\ cache.compat \in Models
  BY DEF KnownInv, Resume
<1>2. cache.next \in 1 .. MaxId
  BY <1>1, ConstantsAssumption
<1> QED BY <1>1, <1>2 DEF saved, open

LEMMA FilePuts ==
    ASSUME KnownInv, up, cache.next <= MaxId, NEW b, NEW w \in BOOLEAN,
           NEW i, i = cache.next, NEW m, m = cache.compat,
           files' = Put(files, i, Header(b, w)), out' = out
    PROVE  /\ Promise!Put(i, IF w THEN b ELSE Miss, m)
           /\ DOMAIN files' = DOMAIN files \cup {i}
<1> DEFINE e == [blob |-> IF w THEN b ELSE Miss, compat |-> m]
<1>1. /\ DOMAIN files' = DOMAIN files \cup {i}
      /\ \A j \in DOMAIN files' : files'[j] = IF j = i THEN Header(b, w) ELSE files[j]
  BY DEF Put
<1>2. Header(b, w).whole = w /\ Header(b, w).blob = b /\ Header(b, w).compat = m
  BY DEF Header
<1>3. DOMAIN saved = DOMAIN files
  BY DEF saved
<1>4. \A j \in DOMAIN files \cup {i} :
         [blob |-> IF files'[j].whole THEN files'[j].blob ELSE Miss, compat |-> files'[j].compat]
            = IF j = i THEN e ELSE saved[j]
  BY <1>1, <1>2 DEF saved
<1>5. saved' = [j \in DOMAIN saved \cup {i} |-> IF j = i THEN e ELSE saved[j]]
  BY <1>1, <1>3, <1>4 DEF saved
<1>6. i \notin DOMAIN saved \ open
  BY NextIsOpen
<1>7. Promise!Put(i, IF w THEN b ELSE Miss, m)
  BY <1>5, <1>6 DEF Promise!Put, saved, open
<1> QED BY <1>1, <1>7

LEMMA PutIsNext ==
    ASSUME NEW i \in 1 .. MaxId, NEW m \in Models, NEW b \in Blobs,
           Promise!Save(i, b, m) \/ Promise!SaveUnindexed(i, b, m) \/ Promise!CutShort(i, m)
    PROVE  Promise!Next
<1>1. \/ \E b2 \in Blobs : Promise!Save(i, b2, m) \/ Promise!SaveUnindexed(i, b2, m)
      \/ Promise!CutShort(i, m)
  OBVIOUS
<1> QED BY <1>1, Zenon DEF Promise!Next

LEMMA StorePuts ==
    ASSUME KnownInv, NEW b \in Blobs, Store(b)
    PROVE  Promise!Next
<1> SUFFICES ASSUME NEW i, i = cache.next, NEW m, m = cache.compat PROVE Promise!Next
  OBVIOUS
<1>1. /\ up /\ i <= MaxId /\ files' = Put(files, i, Header(b, TRUE))
      /\ diskNext' = i + 1 /\ out' = out
  BY DEF Store, FinishStore
<1>2. i \in 1 .. MaxId /\ m \in Models /\ i >= Resume /\ Resume \in Nat \ {0}
  BY <1>1, NextIsOpen
<1>3. TRUE \in BOOLEAN
  OBVIOUS
<1>4. Promise!Put(i, b, m) /\ DOMAIN files' = DOMAIN files \cup {i}
  BY <1>1, <1>3, FilePuts
<1>5. Resume' = i + 1
  BY <1>1, <1>2 DEF Resume
<1>6. open' \in SUBSET (open \ {i})
  <2>1. \A j \in DOMAIN files' : j \in Int
    BY <1>2, <1>4 DEF KnownInv
  <2> QED BY <1>2, <1>4, <1>5, <2>1 DEF open
<1>7. Promise!Save(i, b, m)
  BY <1>4, <1>6 DEF Promise!Save, open
<1> QED BY <1>2, <1>7, PutIsNext

\* index.bin still says what it said, or nothing.
LEMMA UnindexedPuts ==
    ASSUME KnownInv, up, cache.next <= MaxId, NEW b \in Blobs, "index" \in Faults,
           files' = Put(files, cache.next, Header(b, TRUE)), diskNext' \in {diskNext, 0},
           out' = out
    PROVE  Promise!Next
<1> SUFFICES ASSUME NEW i, i = cache.next, NEW m, m = cache.compat PROVE Promise!Next
  OBVIOUS
<1>1. i \in 1 .. MaxId /\ m \in Models /\ i >= Resume /\ Resume \in Nat \ {0}
  BY NextIsOpen
<1>2. TRUE \in BOOLEAN
  OBVIOUS
<1>3. Promise!Put(i, b, m) /\ DOMAIN files' = DOMAIN files \cup {i}
  BY <1>2, FilePuts
<1>4. \A j \in DOMAIN files' : j \in Nat \ {0}
  <2>1. \A j \in 1 .. MaxId : j \in Nat \ {0}
    BY ConstantsAssumption
  <2>2. \A j \in DOMAIN files \cup {i} : j \in 1 .. MaxId
    BY <1>1 DEF KnownInv
  <2> QED BY <1>3, <2>1, <2>2
<1>5. Resume' \in {Resume, 1}
  BY DEF Resume
<1>6. DOMAIN saved = DOMAIN files
  BY DEF saved
<1>7. open' \in {open \cup {i}, DOMAIN saved \cup {i}}
  <2>1. CASE Resume' = Resume
    BY <1>1, <1>3, <2>1 DEF open
  <2>2. CASE Resume' = 1
    <3>1. \A j \in DOMAIN files' : j >= 1
      <4>1. \A j \in Nat \ {0} : j >= 1
        OBVIOUS
      <4> QED BY <1>4, <4>1
    <3>2. open' = DOMAIN files'
      BY <2>2, <3>1 DEF open
    <3> QED BY <1>3, <1>6, <3>2
  <2> QED BY <1>5, <2>1, <2>2
<1>8. Promise!SaveUnindexed(i, b, m)
  BY <1>3, <1>7 DEF Promise!SaveUnindexed, open, saved
<1> QED BY <1>1, <1>8, PutIsNext

LEMMA TornPuts ==
    ASSUME KnownInv, up, cache.next <= MaxId, NEW b \in Blobs,
           files' = Put(files, cache.next, Header(b, FALSE)), diskNext' = diskNext,
           out' = out
    PROVE  Promise!Next
<1> SUFFICES ASSUME NEW i, i = cache.next, NEW m, m = cache.compat PROVE Promise!Next
  OBVIOUS
<1>1. i \in 1 .. MaxId /\ m \in Models /\ i >= Resume
  BY NextIsOpen
<1>2. FALSE \in BOOLEAN
  OBVIOUS
<1>3. Promise!Put(i, Miss, m) /\ DOMAIN files' = DOMAIN files \cup {i}
  BY <1>2, FilePuts
<1>4. Resume' = Resume
  BY DEF Resume
<1>5. open' = open \cup {i}
  BY <1>1, <1>3, <1>4 DEF open
<1>6. Promise!CutShort(i, m)
  BY <1>3, <1>5 DEF Promise!CutShort, open
<1> QED BY <1>1, <1>6, PutIsNext

LEMMA SpoiltLoses ==
    ASSUME KnownInv, up, cache.next <= MaxId,
           files' = Drop(files, {cache.next}), diskNext' = diskNext, out' = out
    PROVE  (saved' = saved /\ open' = open) \/ Promise!Next
<1> SUFFICES ASSUME NEW i, i = cache.next
             PROVE  (saved' = saved /\ open' = open) \/ Promise!Next
  OBVIOUS
<1>1. i >= Resume
  BY NextIsOpen
<1>2. DOMAIN files' = DOMAIN files \ {i} /\ \A j \in DOMAIN files' : files'[j] = files[j]
  BY DEF Drop
<1>3. DOMAIN saved = DOMAIN files
  BY DEF saved
<1>4. saved' = [j \in DOMAIN saved \ {i} |-> saved[j]]
  <2>1. \A j \in DOMAIN files \ {i} :
           [blob |-> IF files'[j].whole THEN files'[j].blob ELSE Miss,
            compat |-> files'[j].compat] = saved[j]
    BY <1>2 DEF saved
  <2> QED BY <1>2, <1>3, <2>1 DEF saved
<1>5. open' = open \ {i}
  BY <1>2 DEF open, Resume
<1>6. CASE i \in DOMAIN files
  <2>1. i \in open
    BY <1>1, <1>6 DEF open
  <2>2. Promise!Lose(i)
    BY <1>4, <1>5, <2>1 DEF Promise!Lose, saved, open
  <2>3. \E j \in open : Promise!Lose(j)
    BY <2>1, <2>2
  <2> QED BY <2>3, Zenon DEF Promise!Next, open
<1>7. CASE i \notin DOMAIN files
  <2>1. open' = open
    BY <1>5, <1>7 DEF open
  <2>2. saved' = [j \in DOMAIN saved |-> saved[j]]
    BY <1>3, <1>4, <1>7
  <2> QED BY <2>1, <2>2 DEF saved
<1> QED BY <1>6, <1>7

LEMMA LoadGets ==
    ASSUME KnownInv, NoIndexFault => Inv, NEW i \in DOMAIN cache.index, Load(i)
    PROVE  Promise!Next
<1> DEFINE m == cache.compat
<1>1. /\ up /\ files' = files /\ diskNext' = diskNext
      /\ i \in 1 .. MaxId /\ m \in Models
  <2>1. up /\ files' = files /\ diskNext' = diskNext
    BY DEF Load, LoadRejected, LoadHot, LoadWarm, LoadCold, LoadMissing, diskVars
  <2> QED BY <2>1 DEF KnownInv
<1>2. Fresh(cache, files, {})
  BY DEF KnownInv, FreshInv
<1> DEFINE answer == IF files[i].compat = m /\ files[i].whole THEN files[i].blob ELSE Miss
<1>3. ASSUME i \in DOMAIN files
      PROVE  /\ answer \in Blobs \cup {Miss}
             /\ out' = [id |-> i, compat |-> m, blob |-> answer]
  <2>1. cache.index[i].compat = files[i].compat /\ files[i].blob \in Blobs
    BY <1>2, <1>3 DEF Fresh
  <2>2. CASE LoadRejected(i)
    BY <2>1, <2>2 DEF LoadRejected, Answer
  <2>3. CASE LoadHot(i)
    BY <1>2, <1>3, <2>1, <2>3 DEF LoadHot, Compatible, Answer, Fresh
  <2>4. CASE LoadWarm(i)
    BY <1>2, <1>3, <2>1, <2>4 DEF LoadWarm, Compatible, Answer, Fresh
  <2>5. CASE LoadCold(i)
    <3>1. \/ ~files[i].whole /\ Answer(i, Miss)
          \/ files[i].whole /\ Answer(i, files[i].blob)
      BY <2>5 DEF LoadCold
    <3> QED BY <2>1, <2>5, <3>1 DEF LoadCold, Compatible, Answer
  <2>6. CASE LoadMissing(i)
    BY <1>3, <2>6 DEF LoadMissing
  <2> QED BY <2>1, <2>2, <2>3, <2>4, <2>5, <2>6 DEF Load
<1>4. ASSUME i \notin DOMAIN files
      PROVE  \E b \in Blobs \cup {Miss} :
                /\ out' = [id |-> i, compat |-> m, blob |-> b]
                /\ b = Miss \/ "index" \in Faults
  <2>1. i \in DOMAIN cache.hot \cup DOMAIN cache.warm => "index" \in Faults
    BY <1>4 DEF NoIndexFault, Inv, CacheInv, Copies
  <2>2. CASE LoadRejected(i) \/ LoadMissing(i)
    BY <2>2 DEF LoadRejected, LoadMissing, Answer
  <2>3. CASE LoadHot(i)
    BY <1>2, <2>1, <2>3 DEF LoadHot, Answer, Fresh
  <2>4. CASE LoadWarm(i)
    BY <1>2, <2>1, <2>4 DEF LoadWarm, Answer, Fresh
  <2>5. CASE LoadCold(i)
    BY <1>4, <2>5 DEF LoadCold
  <2> QED BY <2>2, <2>3, <2>4, <2>5 DEF Load
<1>5. saved' = saved /\ open' = open
  BY <1>1 DEF saved, open, Resume
<1>6. DOMAIN saved = DOMAIN files
  BY DEF saved
<1>7. CASE i \in DOMAIN files
  <2>1. answer = IF saved[i].compat = m THEN saved[i].blob ELSE Miss
    BY <1>7 DEF saved
  <2>2. Promise!Get(i, m, answer)
    BY <1>3, <1>5, <1>6, <1>7, <2>1 DEF Promise!Get, saved, open
  <2> HIDE DEF answer
  <2> QED BY <1>1, <1>3, <1>7, <2>2 DEF Promise!Next
<1>8. CASE i \notin DOMAIN files
  <2>1. PICK b \in Blobs \cup {Miss} :
            /\ out' = [id |-> i, compat |-> m, blob |-> b]
            /\ b = Miss \/ "index" \in Faults
    BY <1>4, <1>8
  <2>2. Promise!Get(i, m, b)
    BY <1>5, <1>6, <1>8, <2>1 DEF Promise!Get, saved, open
  <2> QED BY <1>1, <2>2 DEF Promise!Next
<1> QED BY <1>7, <1>8

LEMMA SameCardinality == ASSUME NEW S PROVE Promise!Cardinality(S) = Cardinality(S)
BY DEF Promise!Cardinality, Cardinality

\* The ring buffer deletes files only while more than MaxCold entries are cold,
\* and of those one at most, the next id's, has no file.
LEMMA TurnExpires ==
    ASSUME KnownInv, TurnComplete
    PROVE  (saved' = saved /\ open' = open /\ out' = out) \/ Promise!Next
<1>1. PICK E : Evicts(E) /\ files' = Drop(files, E)
  BY FreshTurn DEF KnownInv
<1>2. up /\ out' = out /\ diskNext' = diskNext
  BY DEF TurnComplete
<1>3. DOMAIN files' = DOMAIN files \ E /\ \A j \in DOMAIN files' : files'[j] = files[j]
  BY <1>1 DEF Drop
<1>4. DOMAIN saved = DOMAIN files
  BY DEF saved
<1>5. PICK G \in SUBSET DOMAIN saved : G = E \cap DOMAIN saved
  OBVIOUS
<1>6. saved' = [j \in DOMAIN saved \ G |-> saved[j]]
  <2>1. \A j \in DOMAIN files \ E :
           [blob |-> IF files'[j].whole THEN files'[j].blob ELSE Miss,
            compat |-> files'[j].compat] = saved[j]
    BY <1>3 DEF saved
  <2>2. DOMAIN files \ E = DOMAIN saved \ G
    BY <1>4, <1>5
  <2> QED BY <1>3, <2>1, <2>2 DEF saved
<1>7. open' = open \ G
  BY <1>2, <1>3, <1>4, <1>5 DEF open, Resume
<1>8. CASE E = {}
  <2>1. G = {} /\ saved' = [j \in DOMAIN saved |-> saved[j]]
    BY <1>5, <1>6, <1>8
  <2> QED BY <1>2, <1>7, <2>1 DEF saved
<1>9. CASE E # {}
  <2>1. PICK cold \in SUBSET DOMAIN cache.index :
            E \subseteq cold /\ MaxCold # 0 /\ ~(Cardinality(cold) - MaxCold <= 0)
    BY <1>1, <1>9 DEF Evicts
  <2>2. IsFiniteSet(cold) /\ IsFiniteSet(DOMAIN files)
    <3>1. IsFiniteSet(1 .. MaxId)
      BY FS_Interval, ConstantsAssumption
    <3>2. cold \subseteq 1 .. MaxId /\ DOMAIN files \subseteq 1 .. MaxId
      BY <2>1 DEF KnownInv
    <3> QED BY <3>1, <3>2, FS_Subset
  <2>3. cold \ {cache.next} \subseteq DOMAIN files
    BY <2>1 DEF KnownInv
  <2>4. Cardinality(cold) \in Nat /\ Cardinality(cold) > MaxCold /\ MaxCold > 0
    BY <2>1, <2>2, FS_CardinalityType, ConstantsAssumption
  <2>5. Cardinality(DOMAIN files) >= MaxCold
    <3>1. IsFiniteSet(cold \ {cache.next})
          /\ Cardinality(cold \ {cache.next}) <= Cardinality(DOMAIN files)
      BY <2>2, <2>3, FS_Subset
    <3>2. Cardinality(cold \ {cache.next}) >= Cardinality(cold) - 1
      <4>1. CASE cache.next \in cold
        <5>1. Cardinality(cold \ {cache.next}) = Cardinality(cold) - 1
          BY <2>2, <4>1, FS_RemoveElement
        <5> QED BY <2>4, <5>1
      <4>2. CASE cache.next \notin cold
        <5>1. cold \ {cache.next} = cold
          BY <4>2
        <5> QED BY <2>4, <5>1
      <4> QED BY <4>1, <4>2
    <3>3. Cardinality(DOMAIN files) \in Nat /\ Cardinality(cold \ {cache.next}) \in Nat
      BY <2>2, <3>1, FS_CardinalityType
    <3> QED BY <2>4, <3>1, <3>2, <3>3, ConstantsAssumption
  <2>6. Promise!Cardinality(DOMAIN saved) >= MaxCold
    BY <1>4, <2>5, SameCardinality
  <2>7. Promise!Expire(G)
    BY <1>2, <1>6, <1>7, <2>4, <2>6 DEF Promise!Expire, saved, open
  <2> QED BY <1>5, <2>7 DEF Promise!Next, saved
<1> QED BY <1>8, <1>9

\* Whatever fails: a load answers what was stored, and crashes, restarts and
\* the tiers are invisible at the level of the abstract store; a checkpoint is
\* overwritten or lost only when its id was exposed by an index.bin that was
\* not written, which cannot happen where that file is reliable.
THEOREM CacheImplementsStore == Spec => ImplementsStore
<1> DEFINE Sound == KnownInv /\ (NoIndexFault => Inv)
<1>1. Init => Promise!Init
  <2>1. ASSUME Init PROVE saved = << >> /\ open = {}
    <3>1. DOMAIN files = {}
      BY <2>1 DEF Init, NoCheckpoints
    <3>2. saved = [i \in {} |-> 0]
      BY <3>1 DEF saved
    <3>3. open = {}
      BY <3>1 DEF open
    <3> QED BY <3>2, <3>3
  <2> QED BY <2>1 DEF Init, Promise!Init, saved, open
<1>2. Sound /\ [Next]_vars => [Promise!Next]_<<saved, open, out>>
  <2> SUFFICES ASSUME Sound, [Next]_vars
               PROVE  \/ saved' = saved /\ open' = open /\ out' = out
                      \/ Promise!Next
    OBVIOUS
  <2>1. ASSUME UNCHANGED <<files, diskNext, out>>
        PROVE  saved' = saved /\ open' = open /\ out' = out
    BY <2>1 DEF saved, open, Resume
  <2>2. CASE UNCHANGED vars \/ EmptyTurn \/ Stop
    BY <2>1, <2>2 DEF vars, diskVars, EmptyTurn, Stop
  <2>3. ASSUME NEW m \in Models, Restart(m) PROVE UNCHANGED <<files, diskNext, out>>
    BY <2>3 DEF Restart, RestartAt, diskVars
  <2>4. ASSUME NEW b \in Blobs, StoreIndexFails(b) \/ CrashBeforeIndex(b) PROVE Promise!Next
    BY <2>4, UnindexedPuts DEF StoreIndexFails, FinishStore, CrashBeforeIndex
  <2>5. ASSUME NEW b \in Blobs, CrashTorn(b)
        PROVE  (saved' = saved /\ open' = open /\ out' = out) \/ Promise!Next
    BY <2>5, TornPuts, SpoiltLoses DEF CrashTorn
  <2>6. CASE StoreFails
    <3>1. /\ up /\ cache.next <= MaxId /\ diskNext' = diskNext /\ out' = out
          /\ files' = files \/ files' = Drop(files, {cache.next})
      BY <2>6 DEF StoreFails
    <3> QED BY <2>1, <3>1, SpoiltLoses
  <2> QED BY <2>1, <2>2, <2>3, <2>4, <2>5, <2>6, StorePuts, LoadGets, TurnExpires DEF Next
<1>3. KnownInv /\ [Next]_vars => KnownInv'
  BY KnownNext
<1>4. CASE NoIndexFault
  BY <1>1, <1>2, <1>3, <1>4, KnownInit, Invariant, PTL
     DEF Spec, Promise!Spec, ImplementsStore, saved, open
<1>5. CASE ~NoIndexFault
  BY <1>1, <1>2, <1>3, <1>5, KnownInit, PTL
     DEF Spec, Promise!Spec, ImplementsStore, saved, open
<1> QED BY <1>4, <1>5

=============================================================================
