---------------------------- MODULE PageManager ----------------------------
(***************************************************************************)
(* How the slots of llama-server use the SSD cache: the page manager       *)
(* (tools/server/server-context-page-manager.cpp), which keeps a directory *)
(* of checkpoints for each conversation and each user, and the part of     *)
(* server-context.cpp that looks for a checkpoint when a request starts on *)
(* an empty slot and saves one when the prompt has been processed.         *)
(*                                                                         *)
(* Everything runs on the main loop, so a step is what one iteration does  *)
(* for one slot.  A prompt is a sequence of tokens.  A slot has two of     *)
(* them: the tokens it believes are in its part of the model's memory, and *)
(* the tokens that really are there, which a checkpoint copies and a       *)
(* restore replaces.  They should agree; a slot where they do not is       *)
(* spoilt.                                                                 *)
(*                                                                         *)
(* The model has full attention, so no checkpoints are made in the middle  *)
(* of a prompt and the checks for hybrid models do not apply, and nothing  *)
(* is reset for a sliding window.  Requests cache their prompt and reuse   *)
(* no chunks, which are the defaults (cache_prompt, n_cache_reuse).  A     *)
(* load that fails is a miss, like a checkpoint that is gone.  What the    *)
(* tiers of one directory do is in KvSsdCache; here a directory is a set.  *)
(***************************************************************************)
EXTENDS Integers, Sequences, FiniteSets, FiniteSetsExt, SequencesExt

CONSTANTS
    Slots,
    Users, Anon,   \* who asks; Anon sends no user id
    Prompts,       \* the prompts they send
    Reply,         \* tokens the model generates
    HashLen,       \* tokens that conv_hash is computed from (1024)
    PrefixMax,     \* KV_SSD_TOKEN_PREFIX_MAX (4096)
    MinCompared,   \* shorter comparisons continue no conversation (16)
    Withheld,      \* tokens the final checkpoint leaves out (4)
    MinFinal,      \* the smallest final checkpoint (64)
    MaxConvs,      \* max_conversations
    MaxTurn,       \* bound: no request begins at a later turn
    MaxPerDir      \* bound: no more checkpoints are stored in a directory

Owners == Users \cup {Anon}

ASSUME ConstantsAssumption ==
    /\ IsFiniteSet(Slots) /\ Anon \notin Users
    /\ \A p \in Prompts : p \in Seq(Nat) /\ Len(p) > 1
    /\ HashLen \in Nat \ {0} /\ PrefixMax \in Nat /\ MinCompared \in Nat
    /\ Withheld \in Nat /\ MinFinal \in Nat \ {0}
    /\ MaxConvs \in Nat \ {0} /\ MaxTurn \in Nat \ {0}

\* How the limits of the code stand to each other.
ASSUME LimitsAssumption ==
    MinCompared <= MinFinal /\ MinFinal <= HashLen /\ 10 * HashLen <= 9 * PrefixMax

VARIABLES
    dirs,    \* the checkpoints in each directory; {} when there is none
    loaded,  \* conv_wrappers_ and user_wrappers_
    turn,    \* ssd_turn_counter
    slot,    \* state, owner and task of each slot
    claim,   \* slot.prompt.tokens
    memory,  \* the tokens under each slot's sequence id
    aborted  \* GGML_ABORT was reached

vars == <<dirs, loaded, turn, slot, claim, memory, aborted>>

Take(seq, n) == SubSeq(seq, 1, IF n < Len(seq) THEN n ELSE Len(seq))

\* get_common_prefix, and the loops that compare with a stored prefix
Common(a, b) == Max({n \in 0 .. Len(a) : Take(a, n) = Take(b, n)})

-----------------------------------------------------------------------------
(* Directories                                                             *)

ConvKey(task) == <<"conv", Take(task, HashLen)>>
UserKey(u) == <<"user", u>>
KeyOf(o, task) == IF o = Anon THEN ConvKey(task) ELSE UserKey(o)

ConvKeys == {ConvKey(p) : p \in Prompts}
Keys == ConvKeys \cup {UserKey(u) : u \in Users}
SameKind(k) == IF k \in ConvKeys THEN ConvKeys ELSE Keys \ ConvKeys

Room(k) == Cardinality(loaded \cap SameKind(k)) < MaxConvs

\* get_or_create_cache, get_or_create_user_cache: the caches that may go to
\* make room for k.  Modification times are left out, so any may be oldest.
Evictable(k) ==
    IF k \in loaded \/ Room(k) THEN {{}} ELSE {{old} : old \in loaded \cap SameKind(k)}

\* The directories are deleted with their files.
Emptied(gone) == [k \in Keys |-> IF k \in gone THEN {} ELSE dirs[k]]

\* kv_ssd_find_match
\* mutated: the tokens left out are left out twice
Fits_Twice(c, task) == c.n + Withheld < Len(task) /\ Common(c.prefix, task) > 0

Fits(c, task) == c.n <= Len(task) /\ Common(c.prefix, task) > 0

BestOf(found, task) ==
    {c \in found :
        \A d \in found :
            LET lc == Common(c.prefix, task)
                ld == Common(d.prefix, task) IN
            \/ lc > ld
            \/ lc = ld /\ c.turn > d.turn
            \/ lc = ld /\ c.turn = d.turn /\ c.n >= d.n}

Matches(ckpts, task) == BestOf({c \in ckpts : Fits(c, task)}, task)

\* kv_ssd_find_continuation.  A score is a number of tenths, rounded down.
Score(c, task) ==
    LET same == Common(c.prefix, task) IN
    IF Len(c.prefix) < MinCompared \/ Len(task) < MinCompared THEN 0
    ELSE IF same >= c.n THEN 10 ELSE (10 * same) \div c.n

DirScore(k, task) == Max({Score(c, task) : c \in dirs[k]} \cup {0})

Continued(task) ==
    {k \in ConvKeys : /\ DirScore(k, task) >= 9
                      /\ \A l \in ConvKeys : DirScore(l, task) <= DirScore(k, task)}

\* The directory in which find_and_load_checkpoint looks for a checkpoint.
Searched(o, task) ==
    IF o # Anon \/ ConvKey(task) \in loaded \/ Continued(task) = {}
      THEN {KeyOf(o, task)}
      ELSE Continued(task)

-----------------------------------------------------------------------------
(* A request                                                               *)

Idle == [st |-> "idle", owner |-> Anon, task |-> <<>>]
Processing == {s \in Slots : slot[s].st # "idle"}
Running == ~aborted

\* get_available_slot and launch_slot_with_task
Launch(s) ==
    /\ Running /\ s \notin Processing /\ turn <= MaxTurn
    /\ \E o \in Owners, p \in Prompts :
          slot' = [slot EXCEPT ![s] = [st |-> "started", owner |-> o, task |-> p]]
    /\ UNCHANGED <<dirs, loaded, turn, claim, memory, aborted>>

\* mutated: a checkpoint of a user goes where it came from
Destination_Stored(s, c) == c.slot

\* The sequence that server_ssd_cache::load fills: dest_seq_id reaches it for
\* users only.
Destination(s, c) == IF slot[s].owner = Anon THEN c.slot ELSE s

\* The tokens of the task that a restored checkpoint is taken to cover.
Claimed(task, c) == Take(task, c.n)

\* mutated: what is in the slot is taken to be the beginning of the task
Reused_Unchecked(tokens, task) ==
    IF Len(tokens) < Len(task) THEN Len(tokens) ELSE Len(task) - 1

\* n_past, once one token at least is left to evaluate [TAG_PROMPT_LOGITS]
Reused(tokens, task) ==
    LET n == Common(tokens, task) IN IF n = Len(task) THEN n - 1 ELSE n

\* The rest of the first iteration: what is not common is cut off.
Prepare(s, tokens, mem) ==
    LET keep == Reused(tokens, slot[s].task) IN
    /\ aborted' = (Common(tokens, slot[s].task) > 0 /\ mem[s] = <<>>)
    /\ claim' = [claim EXCEPT ![s] = Take(tokens, keep)]
    /\ memory' = [mem EXCEPT ![s] = Take(mem[s], keep)]
    /\ slot' = [slot EXCEPT ![s].st = "prompt"]

WarmStart(s) ==
    /\ Running /\ slot[s].st = "started" /\ claim[s] # <<>>
    /\ Prepare(s, claim[s], memory)
    /\ UNCHANGED <<dirs, loaded, turn>>

\* find_and_load_checkpoint on an empty slot
ColdStart(s) ==
    /\ Running /\ slot[s].st = "started" /\ claim[s] = <<>>
    /\ \E k \in Searched(slot[s].owner, slot[s].task) : \E gone \in Evictable(k) :
          /\ loaded' = (loaded \ gone) \cup {k}
          /\ dirs' = Emptied(gone)
          /\ LET found == Matches(dirs[k], slot[s].task) IN
             \/ /\ found = {}
                /\ Prepare(s, <<>>, memory)
             \/ \E c \in found :
                   Prepare(s, Claimed(slot[s].task, c),
                           [memory EXCEPT ![Destination(s, c)] = c.state])
    /\ UNCHANGED turn

\* A batch that does not reach the end of the prompt
ProcessBatch(s) ==
    /\ Running /\ slot[s].st = "prompt"
    /\ \E n \in Len(claim[s]) + 1 .. Len(slot[s].task) - 1 :
          LET more == SubSeq(slot[s].task, Len(claim[s]) + 1, n) IN
          /\ claim' = [claim EXCEPT ![s] = @ \o more]
          /\ memory' = [memory EXCEPT ![s] = @ \o more]
    /\ UNCHANGED <<dirs, loaded, turn, slot, aborted>>

\* deferred_create_final_checkpoint: the state covers the whole prompt, the
\* count a little less.
FinalCount(task) == Len(task) - Withheld

FinalCheckpoint(s, state) ==
    [slot |-> s, state |-> state, n |-> FinalCount(slot[s].task),
     prefix |-> Take(slot[s].task, PrefixMax), turn |-> turn]

\* store_checkpoint_with_tokens
Store(s, state) ==
    LET k == KeyOf(slot[s].owner, slot[s].task) IN
    /\ Cardinality(dirs[k]) < MaxPerDir
    /\ \E gone \in Evictable(k) :
        /\ loaded' = (loaded \ gone) \cup {k}
        /\ dirs' = [Emptied(gone) EXCEPT ![k] = @ \cup {FinalCheckpoint(s, state)}]

\* The last batch, the first token, and the checkpoint, unless the one
\* before it is too close or it cannot be written.
FinishPrompt(s) ==
    /\ Running /\ slot[s].st = "prompt"
    /\ LET state == memory[s] \o SubSeq(slot[s].task, Len(claim[s]) + 1, Len(slot[s].task)) IN
       /\ memory' = [memory EXCEPT ![s] = state]
       /\ claim' = [claim EXCEPT ![s] = slot[s].task]
       /\ slot' = [slot EXCEPT ![s].st = "generating"]
       /\ \/ FinalCount(slot[s].task) >= MinFinal /\ Store(s, state)
          \/ UNCHANGED <<dirs, loaded>>
    /\ UNCHANGED <<turn, aborted>>

\* A token that was sampled goes through the model; one is enough here.
Generate(s) ==
    /\ Running /\ slot[s].st = "generating" /\ Len(claim[s]) = Len(slot[s].task)
    /\ \E t \in Reply : /\ claim' = [claim EXCEPT ![s] = Append(@, t)]
                        /\ memory' = [memory EXCEPT ![s] = Append(@, t)]
    /\ UNCHANGED <<dirs, loaded, turn, slot, aborted>>

\* kv_ssd_on_turn_complete reaches the loaded conversations, and deletes the
\* oldest checkpoints of those that have too many.
TurnComplete(n) ==
    /\ turn' = turn + n
    /\ \/ UNCHANGED dirs
       \/ \E k \in loaded \cap ConvKeys : \E c \in dirs[k] :
             /\ \A d \in dirs[k] : c.turn <= d.turn
             /\ dirs' = [dirs EXCEPT ![k] = @ \ {c}]

\* The end of a request, or its cancellation
Release(s) ==
    /\ Running /\ s \in Processing
    /\ slot' = [slot EXCEPT ![s] = Idle]
    /\ TurnComplete(1)
    /\ UNCHANGED <<loaded, claim, memory, aborted>>

-----------------------------------------------------------------------------
(* What empties slots                                                      *)

\* prompt_clear of an idle slot: its tokens go to the prompt cache in RAM, it
\* is purged to make room, or its cache is erased on request.
ClearSlot(s) ==
    /\ Running /\ s \notin Processing /\ claim[s] # <<>>
    /\ claim' = [claim EXCEPT ![s] = <<>>]
    /\ memory' = [memory EXCEPT ![s] = <<>>]
    /\ UNCHANGED <<dirs, loaded, turn, slot, aborted>>

\* decode() fails for good: every slot that works is released and cleared.
DecodeFails ==
    /\ Running /\ \E s \in Processing : slot[s].st # "started"
    /\ slot' = [s \in Slots |-> Idle]
    /\ claim' = [s \in Slots |-> IF s \in Processing THEN <<>> ELSE claim[s]]
    /\ memory' = [s \in Slots |-> IF s \in Processing THEN <<>> ELSE memory[s]]
    /\ TurnComplete(Cardinality(Processing))
    /\ UNCHANGED <<loaded, aborted>>

\* mutated: an empty disk is not told from an error
TurnOnDisk_Error == Max({c.turn : c \in UNION {dirs[k] : k \in ConvKeys}} \cup {-1})

\* kv_ssd_get_max_turn_id_global, which does not look below u/
TurnOnDisk == Max({c.turn : c \in UNION {dirs[k] : k \in ConvKeys}} \cup {0})

\* The server ends or aborts, and is started again on the same directory.
Restart ==
    /\ slot' = [s \in Slots |-> Idle]
    /\ claim' = [s \in Slots |-> <<>>]
    /\ memory' = [s \in Slots |-> <<>>]
    /\ loaded' = {}
    /\ turn' = TurnOnDisk + 1
    /\ aborted' = FALSE
    /\ UNCHANGED dirs

-----------------------------------------------------------------------------
Init ==
    /\ dirs = [k \in Keys |-> {}]
    /\ loaded = {}
    /\ turn = 1
    /\ slot = [s \in Slots |-> Idle]
    /\ claim = [s \in Slots |-> <<>>]
    /\ memory = [s \in Slots |-> <<>>]
    /\ aborted = FALSE

Next ==
    \/ \E s \in Slots : \/ Launch(s) \/ WarmStart(s) \/ ColdStart(s)
                        \/ ProcessBatch(s) \/ FinishPrompt(s) \/ Generate(s)
                        \/ Release(s) \/ ClearSlot(s)
    \/ DecodeFails
    \/ Restart

Spec == Init /\ [][Next]_vars
-----------------------------------------------------------------------------
(* Properties                                                              *)

Tokens == Reply \cup UNION {ToSet(p) : p \in Prompts}
Checkpoint ==
    [slot : Slots, state : Seq(Tokens), n : Nat, prefix : Seq(Tokens), turn : Nat]

\* The type invariant; a directory that is not loaded may still be on disk.
TypeOK ==
    /\ \A k \in Keys : \A c \in dirs[k] : c \in Checkpoint
    /\ loaded \subseteq Keys
    /\ turn \in 1 .. MaxTurn + Cardinality(Slots)
    /\ slot \in [Slots -> [st : {"idle", "started", "prompt", "generating"},
                           owner : Owners, task : Prompts \cup {<<>>}]]
    /\ claim \in [Slots -> Seq(Tokens)]
    /\ memory \in [Slots -> Seq(Tokens)]
    /\ aborted \in BOOLEAN

\* What is restored goes to the slot that asked, and begins with the tokens of
\* the task that it is taken to cover.
SoundRestore(t, c) ==
    /\ slot[t].owner = Anon => c.slot = t
    /\ Take(c.state, c.n) = Take(slot[t].task, c.n)

\* A restore for slot t that is not sound, and the slots that it writes to
Spoils(t, S) ==
    /\ ColdStart(t)
    /\ \E k \in Searched(slot[t].owner, slot[t].task) :
          \E c \in Matches(dirs[k], slot[t].task) :
              /\ ~SoundRestore(t, c) /\ S = {t, Destination(t, c)}
              /\ Prepare(t, Claimed(slot[t].task, c),
                         [memory EXCEPT ![Destination(t, c)] = c.state])

\* The tokens a slot believes to be in the model's memory stay the ones that are
\* there, whatever is restored, cut off, generated, cleared or lost, unless a
\* lookup returns a checkpoint of other tokens or, for an anonymous request, of
\* another slot; and then only the slot that asked and the one the state went to
\* are spoilt (server-context.cpp:3446-3556, server-context-ssd-cache.cpp:71-88).
SpoiltByRestore ==
    [][\A s \in Slots : memory[s] = claim[s] /\ memory'[s] # claim'[s] =>
          \E t, r \in Slots : Spoils(t, {t, r}) /\ s \in {t, r}]_vars

\* While a slot answers, the model's memory begins with the prompt that was
\* sent, whether it was computed, left by an earlier request or restored.
AnswersThePrompt ==
    \A s \in Slots :
        Running /\ slot[s].st = "generating" => IsPrefix(slot[s].task, memory[s])

\* It does if the slot was not spoilt (pre_decode, post_decode).
AnswersUnlessSpoilt ==
    \A s \in Slots : slot[s].st = "generating" /\ memory[s] = claim[s] =>
        IsPrefix(slot[s].task, memory[s])

\* The final checkpoint of a slot that is not spoilt holds the state of the
\* prompt it is stored for (deferred_create_final_checkpoint).
StoresUnlessSpoilt ==
    [][\A k \in Keys : \A c \in dirs'[k] \ dirs[k] :
          memory[c.slot] = claim[c.slot] => c.state = slot[c.slot].task]_vars

Plain == INSTANCE PlainSlots WITH
            phase <- [s \in Slots |-> slot[s].st],
            asked <- [s \in Slots |-> slot[s].task],
            context <- claim,
            spoilt <- {s \in Slots : memory[s] # claim[s]}

\* The slots keep the promise of PlainSlots: each starts from a beginning of its
\* own prompt and answers after all of it; only a restore on an empty slot may
\* spoil slots, two at most, and a slot is no longer spoilt once it was emptied
\* (find_and_load_checkpoint, pre_decode, prompt_clear).
ImplementsPlainSlots == Plain!Spec

\* "pos_min == -1, but n_past > 0 - should not happen" does not happen.
NeverAborts == ~aborted

\* It does not happen while no slot is spoilt (server-context.cpp:3749).
AbortsIfSpoilt == aborted => \E s \in Slots : memory[s] # claim[s]

\* A request on an empty slot whose directory holds a checkpoint of a prefix
\* of its prompt, as far as prefixes are stored, starts from a checkpoint, loaded
\* or not, across restarts (find_and_load_checkpoint, kv_ssd_find_continuation).
HasCheckpoint(s) ==
    \E c \in dirs[KeyOf(slot[s].owner, slot[s].task)] :
        c.n < Len(slot[s].task) /\ IsPrefix(Take(c.prefix, c.n), slot[s].task)

DiskIsUsed ==
    [][\A s \in Slots : ColdStart(s) /\ HasCheckpoint(s) => claim'[s] # <<>>]_vars
=============================================================================
