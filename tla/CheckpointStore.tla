--------------------------- MODULE CheckpointStore ---------------------------
(***************************************************************************)
(* What the SSD cache of one conversation promises: a checkpoint that was  *)
(* stored stays as it is, whatever restarts happen, until the ring buffer  *)
(* drops it, and loading it gives back what was stored, to the model that  *)
(* stored it and to no other.  Tiers, RAM budgets and crashes are not      *)
(* visible.                                                                *)
(*                                                                         *)
(* Two things spoil the promise, and the specification says how far.  A    *)
(* store that is cut short leaves an entry that answers nothing.  A store  *)
(* after which index.bin is not written leaves its checkpoint, or all of   *)
(* them, exposed: the ids of exposed entries are given out again, and an   *)
(* entry whose id is taken is replaced.  Where index.bin is reliable, only *)
(* entries that answer nothing are ever exposed.                           *)
(***************************************************************************)
EXTENDS Integers, FiniteSets

CONSTANTS
    Ids,      \* the ids the store may give
    Blobs,    \* the states that can be saved
    Models,   \* compatibility hashes
    Keep,     \* the ring buffer drops nothing while fewer are stored
    Miss,     \* the answer when nothing is restored
    Reliable  \* index.bin is written after every checkpoint file

VARIABLES
    stored,   \* a function from the ids in use to what is saved under them
    exposed,  \* those of them whose id may be taken by another store
    got       \* the last answer: [id, compat, blob]

\* An id is taken, which is free or exposed.
Put(i, b, m) ==
    /\ i \notin DOMAIN stored \ exposed
    /\ stored' = [j \in DOMAIN stored \cup {i} |->
                     IF j = i THEN [blob |-> b, compat |-> m] ELSE stored[j]]
    /\ UNCHANGED got

Save(i, b, m) ==
    /\ Put(i, b, m)
    /\ exposed' \in SUBSET (exposed \ {i})

CutShort(i, m) ==
    /\ Put(i, Miss, m)
    /\ exposed' = exposed \cup {i}

SaveUnindexed(i, b, m) ==
    /\ ~Reliable
    /\ Put(i, b, m)
    /\ exposed' \in {exposed \cup {i}, DOMAIN stored \cup {i}}

\* A store that fails takes the entry it was to replace with it.
Lose(i) ==
    /\ i \in exposed
    /\ stored' = [j \in DOMAIN stored \ {i} |-> stored[j]]
    /\ exposed' = exposed \ {i}
    /\ UNCHANGED got

\* What was stored, to its model; an id that was lost may still be in RAM.
Get(i, m, b) ==
    /\ IF i \in DOMAIN stored
       THEN b = IF stored[i].compat = m THEN stored[i].blob ELSE Miss
       ELSE b = Miss \/ ~Reliable
    /\ got' = [id |-> i, compat |-> m, blob |-> b]
    /\ UNCHANGED <<stored, exposed>>

Expire(E) ==
    /\ Keep > 0 /\ Cardinality(DOMAIN stored) >= Keep
    /\ stored' = [i \in DOMAIN stored \ E |-> stored[i]]
    /\ exposed' = exposed \ E
    /\ UNCHANGED got

Init ==
    /\ stored = << >> /\ exposed = {}
    /\ got = [id |-> 0, compat |-> Miss, blob |-> Miss]

Next ==
    \/ \E i \in Ids, m \in Models :
          \/ \E b \in Blobs : Save(i, b, m) \/ SaveUnindexed(i, b, m)
          \/ CutShort(i, m)
          \/ \E b \in Blobs \cup {Miss} : Get(i, m, b)
    \/ \E i \in exposed : Lose(i)
    \/ \E E \in SUBSET DOMAIN stored : Expire(E)

Spec == Init /\ [][Next]_<<stored, exposed, got>>

=============================================================================
