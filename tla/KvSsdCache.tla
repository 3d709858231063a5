----------------------------- MODULE KvSsdCache -----------------------------
(***************************************************************************)
(* The SSD-backed KV cache of one conversation (common/kv-ssd-cache.cpp):  *)
(* checkpoints are written to files at once and kept in RAM in a hot tier, *)
(* from which they sink to warm and to cold (file only); a ring buffer     *)
(* deletes the oldest cold files.  After a crash or a stop the index is    *)
(* rebuilt from the files.                                                 *)
(*                                                                         *)
(* One action is one call, which the cache's mutex makes atomic for its    *)
(* callers; a crash may cut kv_ssd_store() short.  A blob stands for the   *)
(* three concatenated states of a checkpoint.  Tokens, positions and slots *)
(* only serve lookups and are left out, as are the hashes of token         *)
(* prefixes and slot_latest, which nothing reads.  turn_id and             *)
(* turn_created are one field: the code never tells them apart.            *)
(***************************************************************************)
EXTENDS Integers, FiniteSets, FiniteSetsExt

CONSTANTS
    Blobs, SizeOf,          \* saved states and their sizes
    Models,                 \* the compat_hash of each model a server may run
    HotBudget, WarmBudget,  \* hot_ram_bytes, warm_ram_bytes
    HotTurns, WarmTurns,    \* hot_turns, warm_turns
    MaxCold,                \* max_cold_checkpoints, 0 = unlimited
    Faults,                 \* which of FaultKinds may happen
    Miss,                   \* no blob
    MaxId, MaxTurn, MaxClock \* bounds: stores, turns, distinct now_ms() values

\* "write": a checkpoint file cannot be written; "crash": the process dies
\* between two calls; "torn": it dies while it writes a checkpoint file;
\* "index": index.bin is not written after the checkpoint file is, because the
\* process dies or because write_index_file() fails, which is not looked at.
FaultKinds == {"write", "crash", "torn", "index"}

ASSUME ConstantsAssumption ==
    /\ SizeOf \in [Blobs -> Nat \ {0}]
    /\ HotBudget \in Nat /\ WarmBudget \in Nat
    /\ HotTurns \in Nat /\ WarmTurns \in Nat
    /\ MaxCold \in Nat
    /\ Faults \subseteq FaultKinds
    /\ Miss \notin Blobs /\ Miss \notin Models
    /\ Models # {}
    /\ MaxId \in Nat /\ MaxTurn \in Nat /\ MaxClock \in Nat

VARIABLES
    up,        \* the server runs
    cache,     \* the kv_ssd_cache object: see CacheType
    files,     \* ckpt-<id>.bin: header and whether the blob is all there
    diskNext,  \* next_id in index.bin, 0 when the file cannot be read
    turn,      \* ssd_turn_counter
    clock,     \* now_ms(): several calls may see the same millisecond
    out        \* what the last kv_ssd_load() returned

diskVars == <<files, diskNext>>
vars == <<up, cache, diskVars, turn, clock, out>>

Tiers == {"hot", "warm", "cold"}
Ids   == Nat \ {0}

\* functions with a finite domain of ids
Put(f, i, v)  == [j \in DOMAIN f \cup {i} |-> IF j = i THEN v ELSE f[j]]
Drop(f, D)    == [j \in DOMAIN f \ D |-> f[j]]
Bytes(f, D)   == MapThenSumSet(LAMBDA i : SizeOf[f[i]], D)

Checkpoint(b, t, last) ==
    [blob |-> b, turn |-> turn, compat |-> cache.compat, tier |-> t, last |-> last]

NoCheckpoints == [i \in {} |-> 0]
EmptyCache(next, m, idx) ==
    [index |-> idx, hot |-> NoCheckpoints, warm |-> NoCheckpoints,
     hotBytes |-> 0, warmBytes |-> 0, next |-> next, compat |-> m]

InTier(c, t) == {i \in DOMAIN c.index : c.index[i].tier = t}

-----------------------------------------------------------------------------
(* Demotion                                                                *)

SetTier(idx, D, t) ==
    [i \in DOMAIN idx |-> IF i \in D THEN [idx[i] EXCEPT !.tier = t] ELSE idx[i]]

\* mutated: the tier in the index is left as it was
MoveToWarm_NoTier(c, D) ==
    [c EXCEPT !.warm = [i \in DOMAIN c.warm \cup D |->
                           IF i \in D THEN c.hot[i] ELSE c.warm[i]],
              !.hot = Drop(c.hot, D),
              !.hotBytes = c.hotBytes - Bytes(c.hot, D),
              !.warmBytes = c.warmBytes + Bytes(c.hot, D)]

MoveToWarm(c, D) ==
    [c EXCEPT !.index = SetTier(c.index, D, "warm"),
              !.warm = [i \in DOMAIN c.warm \cup D |->
                           IF i \in D THEN c.hot[i] ELSE c.warm[i]],
              !.hot = Drop(c.hot, D),
              !.hotBytes = c.hotBytes - Bytes(c.hot, D),
              !.warmBytes = c.warmBytes + Bytes(c.hot, D)]

MoveToCold(c, D) ==
    [c EXCEPT !.index = SetTier(c.index, D, "cold"),
              !.warm = Drop(c.warm, D),
              !.warmBytes = c.warmBytes - Bytes(c.warm, D)]

\* The victims of a loop that takes the least recently used entry of tier t,
\* while the tier's map f is not empty, until `excess` bytes of it are free or
\* no entry has that tier any more.
LruVictims(c, t, f, excess) ==
    LET tier == InTier(c, t)
        lru(D) == \A i \in D, j \in tier \ D : c.index[i].last <= c.index[j].last
        over(D) == DOMAIN f \ D # {} /\ Bytes(f, D \cap DOMAIN f) < excess
    IN  {D \in SUBSET tier :
            /\ lru(D)
            /\ ~over(D) \/ D = tier
            /\ D = {} \/ \E e \in D : lru(D \ {e}) /\ over(D \ {e})}

\* A victim whose data is not in the map only becomes cold.
DemoteHot(c) ==
    {LET moved == D \cap DOMAIN c.hot
     IN  MoveToWarm([c EXCEPT !.index = SetTier(c.index, D \ moved, "cold")], moved) :
        D \in LruVictims(c, "hot", c.hot, c.hotBytes - HotBudget)}

DemoteWarm(c) ==
    {LET moved == D \cap DOMAIN c.warm
     IN  MoveToCold([c EXCEPT !.index = SetTier(c.index, D \ moved, "cold")], moved) :
        D \in LruVictims(c, "warm", c.warm, c.warmBytes - WarmBudget)}

\* mutated: nothing is demoted
MakeRoom_Never(c, needed) == {c}

\* make_room_hot: its loop runs once at most
MakeRoom(c, needed) ==
    IF c.hotBytes + needed <= HotBudget \/ DOMAIN c.hot = {} THEN {c}
    ELSE LET fits(d) == d.hotBytes + needed <= HotBudget IN
         {d \in DemoteHot(c) : fits(d)}
         \cup UNION {DemoteWarm(d) : d \in {d \in DemoteHot(c) : ~fits(d)}}

\* The blob of i enters the hot tier at time t.
MakeHot(c, i, b, t) ==
    [c EXCEPT !.hot = Put(c.hot, i, b),
              !.hotBytes = c.hotBytes + SizeOf[b],
              !.index = [c.index EXCEPT ![i].tier = "hot", ![i].last = t]]

Tick == {t \in {clock, clock + 1} : t <= MaxClock}

-----------------------------------------------------------------------------
(* kv_ssd_store                                                            *)

Header(b, whole) == [blob |-> b, turn |-> turn, compat |-> cache.compat, whole |-> whole]

\* What happens once the checkpoint file is on disk; index.bin then says dn.
FinishStore(b, dn) ==
    LET i == cache.next IN
    /\ up /\ i <= MaxId
    /\ files' = Put(files, i, Header(b, TRUE))
    /\ diskNext' = dn
    /\ \E t \in Tick, c \in MakeRoom([cache EXCEPT !.next = i + 1], SizeOf[b]) :
         /\ clock' = t
         /\ cache' = MakeHot([c EXCEPT !.index = Put(c.index, i, Checkpoint(b, "hot", t))],
                             i, b, t)
    /\ UNCHANGED <<up, turn, out>>

\* mutated: index.bin is only written when the server stops in good order
Store_NoIndex(b) == FinishStore(b, diskNext)

Store(b) == FinishStore(b, cache.next + 1)

\* The file cannot be created, or it cannot be filled and is removed.
StoreFails ==
    /\ "write" \in Faults
    /\ up /\ cache.next <= MaxId
    /\ files' \in {files, Drop(files, {cache.next})}
    /\ UNCHANGED <<up, cache, diskNext, turn, clock, out>>

\* write_index_file() failed: index.bin could not be opened, or was truncated
StoreIndexFails(b) ==
    /\ "index" \in Faults
    /\ FinishStore(b, diskNext) \/ FinishStore(b, 0)

Down == up' = FALSE /\ cache' = EmptyCache(0, Miss, NoCheckpoints)

\* The process dies after O_TRUNC: no readable header yet, or a header and
\* not all of the blob.
CrashTorn(b) ==
    /\ "torn" \in Faults
    /\ up /\ cache.next <= MaxId
    /\ files' \in {Drop(files, {cache.next}), Put(files, cache.next, Header(b, FALSE))}
    /\ Down
    /\ UNCHANGED <<diskNext, turn, clock, out>>

\* The process dies between the checkpoint file and index.bin, or in the
\* middle of write_index_file().
CrashBeforeIndex(b) ==
    /\ "index" \in Faults
    /\ up /\ cache.next <= MaxId
    /\ files' = Put(files, cache.next, Header(b, TRUE))
    /\ diskNext' \in {diskNext, 0}
    /\ Down
    /\ UNCHANGED <<turn, clock, out>>

-----------------------------------------------------------------------------
(* kv_ssd_load and promote_to_hot                                          *)

Answer(i, b) == out' = [id |-> i, compat |-> cache.compat, blob |-> b]

LoadRejected(i) ==
    /\ cache.index[i].compat # cache.compat
    /\ Answer(i, Miss)
    /\ UNCHANGED <<up, cache, diskVars, turn, clock>>

\* mutated: a checkpoint of any model is restored
Compatible_Any(i) == TRUE

Compatible(i) == cache.index[i].compat = cache.compat

LoadHot(i) ==
    /\ Compatible(i) /\ i \in DOMAIN cache.hot
    /\ \E t \in Tick : /\ clock' = t
                       /\ cache' = [cache EXCEPT !.index[i].last = t]
    /\ Answer(i, cache.hot[i])
    /\ UNCHANGED <<up, diskVars, turn>>

\* mutated: the data leaves warm_cache after room is made
LoadWarm_Late(i) ==
    /\ Compatible(i) /\ i \in DOMAIN cache.warm \ DOMAIN cache.hot
    /\ LET b == cache.warm[i] IN
       /\ \E t \in Tick, c \in MakeRoom(cache, SizeOf[b]) :
             /\ clock' = t
             /\ cache' = MakeHot([c EXCEPT !.warm = Drop(c.warm, {i}),
                                           !.warmBytes = c.warmBytes - SizeOf[b]], i, b, t)
       /\ Answer(i, b)
    /\ UNCHANGED <<up, diskVars, turn>>

\* The data leaves warm_cache before room is made, so making room may make the
\* entry cold for a moment.  (What is in warm_cache only has tier "warm".)
LoadWarm(i) ==
    /\ Compatible(i) /\ i \in DOMAIN cache.warm \ DOMAIN cache.hot
    /\ LET b == cache.warm[i]
           taken == [cache EXCEPT !.warm = Drop(cache.warm, {i}),
                                  !.warmBytes = cache.warmBytes - SizeOf[b]]
       IN /\ \E t \in Tick, c \in MakeRoom(taken, SizeOf[b]) :
                clock' = t /\ cache' = MakeHot(c, i, b, t)
          /\ Answer(i, b)
    /\ UNCHANGED <<up, diskVars, turn>>

InRam(c, i) == i \in DOMAIN c.hot \cup DOMAIN c.warm

\* There is a file: room is made before the blob is read.
LoadCold(i) ==
    /\ Compatible(i) /\ ~InRam(cache, i) /\ i \in DOMAIN files
    /\ LET b == files[i].blob IN
       \E c \in MakeRoom(cache, SizeOf[b]) :
          \/ /\ ~files[i].whole
             /\ cache' = c
             /\ Answer(i, Miss)
             /\ UNCHANGED clock
          \/ /\ files[i].whole
             /\ \E t \in Tick : clock' = t /\ cache' = MakeHot(c, i, b, t)
             /\ Answer(i, b)
    /\ UNCHANGED <<up, diskVars, turn>>

\* There is none: the entry is forgotten.
LoadMissing(i) ==
    /\ Compatible(i) /\ ~InRam(cache, i) /\ i \notin DOMAIN files
    /\ cache' = [cache EXCEPT !.index = Drop(cache.index, {i})]
    /\ Answer(i, Miss)
    /\ UNCHANGED <<up, diskVars, turn, clock>>

Load(i) ==
    /\ up
    /\ \/ LoadRejected(i) \/ LoadHot(i) \/ LoadWarm(i) \/ LoadCold(i) \/ LoadMissing(i)

-----------------------------------------------------------------------------
(* kv_ssd_on_turn_complete, and a new server                               *)

Inactive(c, t, n) == {i \in InTier(c, t) : c.index[i].turn + n <= turn'}

\* mutated: entries of any tier are candidates
Oldest_AnyTier(c) ==
    LET n == Cardinality(DOMAIN c.index) - MaxCold IN
    IF MaxCold = 0 \/ n <= 0 THEN {{}}
    ELSE {E \in SUBSET DOMAIN c.index :
            /\ Cardinality(E) = n
            /\ \A i \in E, j \in DOMAIN c.index \ E : c.index[i].turn <= c.index[j].turn}

\* ring_buffer_evict: the cold entries that go; std::sort orders those of one
\* turn in some way
Oldest(c) ==
    LET cold == InTier(c, "cold")
        n == Cardinality(cold) - MaxCold
    IN  IF MaxCold = 0 \/ n <= 0 THEN {{}}
        ELSE {E \in SUBSET cold :
                /\ Cardinality(E) = n
                /\ \A i \in E, j \in cold \ E : c.index[i].turn <= c.index[j].turn}

TurnComplete ==
    /\ up /\ turn < MaxTurn
    /\ turn' = turn + 1
    /\ LET c1 == MoveToWarm(cache, Inactive(cache, "hot", HotTurns) \cap DOMAIN cache.hot)
           c2 == MoveToCold(c1, Inactive(c1, "warm", WarmTurns) \cap DOMAIN c1.warm)
       IN \E E \in Oldest(c2) :
             /\ cache' = [c2 EXCEPT !.index = Drop(c2.index, E)]
             /\ files' = Drop(files, E)
    /\ UNCHANGED <<up, diskNext, clock, out>>

\* A turn whose slot holds no prompt is counted, and that is all.
EmptyTurn ==
    /\ up /\ turn < MaxTurn
    /\ turn' = turn + 1
    /\ UNCHANGED <<up, cache, diskVars, clock, out>>

\* The process ends: nothing is written then, kv_ssd_free() is never called.
Stop ==
    /\ "crash" \in Faults
    /\ up
    /\ Down
    /\ UNCHANGED <<diskVars, turn, clock, out>>

\* kv_ssd_get_max_turn_id_global skips a directory without a readable index.bin.
MaxTurnOnDisk ==
    IF diskNext = 0 \/ DOMAIN files = {} THEN 0
    ELSE CHOOSE t \in {files[i].turn : i \in DOMAIN files} :
            \A i \in DOMAIN files : files[i].turn <= t

\* The id the next store takes, now or after a restart.
Resume == IF diskNext = 0 THEN 1 ELSE diskNext

\* A server starts with model m, and the conversation's cache is opened; the
\* next store takes id n.
RestartAt(n, m) ==
    /\ ~up /\ MaxTurnOnDisk < MaxTurn
    /\ up' = TRUE
    /\ cache' = EmptyCache(n, m,
                   [i \in DOMAIN files |->
                      [blob |-> files[i].blob, turn |-> files[i].turn,
                       compat |-> files[i].compat, tier |-> "cold", last |-> 0]])
    /\ turn' = MaxTurnOnDisk + 1
    /\ UNCHANGED <<diskVars, clock, out>>

\* mutated: next_id is not read back from index.bin
Restart_First(m) == RestartAt(1, m)

Restart(m) == RestartAt(Resume, m)

-----------------------------------------------------------------------------
Init ==
    /\ up = FALSE
    /\ cache = EmptyCache(0, Miss, NoCheckpoints)
    /\ files = NoCheckpoints /\ diskNext = 0
    /\ turn = 1 /\ clock = 1
    /\ out = [id |-> 0, compat |-> Miss, blob |-> Miss]

Next ==
    \/ \E b \in Blobs : \/ Store(b) \/ StoreIndexFails(b)
                        \/ CrashTorn(b) \/ CrashBeforeIndex(b)
    \/ StoreFails
    \/ \E i \in DOMAIN cache.index : Load(i)
    \/ TurnComplete \/ EmptyTurn
    \/ Stop
    \/ \E m \in Models : Restart(m)

Spec == Init /\ [][Next]_vars

-----------------------------------------------------------------------------
(* Properties                                                              *)

IndexRecords == [blob : Blobs, turn : Nat, compat : Models, tier : Tiers, last : Nat]
FileRecords  == [blob : Blobs, turn : Nat, compat : Models, whole : BOOLEAN]

IsPartial(f, R) == DOMAIN f \subseteq Ids /\ f \in [DOMAIN f -> R]

\* Every variable has its type; the byte counters never go below zero.
TypeOK ==
    /\ up \in BOOLEAN
    /\ DOMAIN cache = {"index", "hot", "warm", "hotBytes", "warmBytes", "next", "compat"}
    /\ IsPartial(cache.index, IndexRecords)
    /\ IsPartial(cache.hot, Blobs) /\ IsPartial(cache.warm, Blobs)
    /\ cache.hotBytes \in Nat /\ cache.warmBytes \in Nat
    /\ cache.next \in Nat
    /\ cache.compat \in Models \cup {Miss}
    /\ IsPartial(files, FileRecords)
    /\ diskNext \in Nat /\ turn \in Nat /\ clock \in Nat
    /\ out \in [id : Nat, compat : Models \cup {Miss}, blob : Blobs \cup {Miss}]

\* The tier of an index entry says in which of the two RAM caches its data is:
\* the demotion loops look for their victim by tier and for its data in the
\* cache (kv-ssd-cache.cpp:336-393), and give up or lose bytes if they differ.
TiersAgree ==
    /\ DOMAIN cache.hot  = InTier(cache, "hot")
    /\ DOMAIN cache.warm = InTier(cache, "warm")

\* hot_bytes and warm_bytes are the sizes of what is in the caches, along any
\* sequence of stores, loads, failed loads and demotions.
BytesExact ==
    /\ cache.hotBytes  = Bytes(cache.hot, DOMAIN cache.hot)
    /\ cache.warmBytes = Bytes(cache.warm, DOMAIN cache.warm)

\* The hot tier exceeds its budget by one of its checkpoints at most.
HotBounded ==
    \/ cache.hotBytes <= HotBudget
    \/ \E i \in DOMAIN cache.hot : cache.hotBytes - SizeOf[cache.hot[i]] <= HotBudget

\* What the index and the RAM caches say of a checkpoint is what its file
\* says, and there is a file, except for the id a failed or interrupted store
\* left behind, which the next store uses again.
MatchesDisk ==
    /\ \A i \in DOMAIN cache.index :
          i # cache.next =>
             /\ i \in DOMAIN files
             /\ cache.index[i].blob = files[i].blob
             /\ cache.index[i].compat = files[i].compat
    /\ \A i \in DOMAIN cache.hot  : i \in DOMAIN files /\ cache.hot[i]  = files[i].blob
    /\ \A i \in DOMAIN cache.warm : i \in DOMAIN files /\ cache.warm[i] = files[i].blob

Whole == {i \in DOMAIN files : files[i].whole}

Promise == INSTANCE CheckpointStore WITH
    Ids      <- 1 .. MaxId,
    stored   <- [i \in DOMAIN files |->
                    [blob |-> IF files[i].whole THEN files[i].blob ELSE Miss,
                     compat |-> files[i].compat]],
    exposed  <- {i \in DOMAIN files : i >= Resume},
    got      <- out,
    Keep     <- MaxCold,
    Reliable <- "index" \notin Faults

\* The cache behaves as a CheckpointStore, over any number of crashes and
\* restarts: a load answers what was stored, and a stored checkpoint is
\* neither overwritten nor lost until the ring buffer drops it, unless an
\* index.bin that was not written gives its id, or a lower one, to the next
\* store (kv-ssd-cache.cpp:606-727, 187-262).
ImplementsStore == Promise!Spec

\* A load gives back what the checkpoint's file holds, complete and written by
\* the model that runs, or nothing (a file that a failed store removed has no
\* say): whatever stores, tiers and restarts came before, the RAM copies are
\* never stale (README.md:21, "prevent mismatched checkpoint restoration").
LoadAnswersFile ==
    [][\A i \in DOMAIN cache.index :
          Load(i) /\ out'.blob # Miss /\ i \in DOMAIN files =>
             /\ files[i].whole
             /\ files[i].blob = out'.blob
             /\ files[i].compat = cache.compat]_vars

\* README.md:21, "Conversation state survives server restarts and power
\* cycles": only the ring buffer, which runs at the end of a turn, takes a
\* stored checkpoint away.
SurvivesPowerCycles ==
    [][\A i \in Whole : files' # files /\ turn' = turn
          => i \in DOMAIN files' /\ files'[i] = files[i]]_vars

=============================================================================
