----------------------------- MODULE PlainSlots -----------------------------
(***************************************************************************)
(* What the slots of llama-server do for their clients                     *)
(* (tools/server/README.md:607, cache_prompt: "the common prefix does not  *)
(* have to be re-processed, only the suffix that differs between the       *)
(* requests").  A slot may skip any beginning of the prompt it is sent,    *)
(* and answers after the whole of that prompt and nothing else.            *)
(*                                                                         *)
(* A checkpoint may be restored to an empty slot only, and what a restore  *)
(* may do wrong is bounded: it spoils the slot that asked and one other,   *)
(* whose answers then depend on other tokens than their context.           *)
(***************************************************************************)
EXTENDS Integers, Sequences, SequencesExt

CONSTANTS
    Slots,
    Prompts,  \* what clients send, sequences of two tokens at least
    Reply     \* tokens the model generates

VARIABLES
    phase,    \* what each slot does
    asked,    \* the prompt it was sent
    context,  \* the tokens its next token is to depend on
    spoilt    \* the slots whose next token depends on others

Free == {s \in Slots : phase[s] = "idle"}

\* All of the prompt but one token at least, which is left to evaluate
Beginnings(p) == {SubSeq(p, 1, n) : n \in 0 .. Len(p) - 1}

Ask(s, p) ==
    /\ s \in Free
    /\ phase' = [phase EXCEPT ![s] = "started"]
    /\ asked' = [asked EXCEPT ![s] = p]
    /\ UNCHANGED <<context, spoilt>>

\* The slots that a restore for slot s may spoil, or replace the tokens of
Restores(s) ==
    \E t \in Slots : \A r \in Slots \ {s, t} : r \in spoilt' <=> r \in spoilt

\* Whatever the slot did before, it goes on from a beginning of its prompt.
Begin(s) ==
    /\ phase[s] = "started"
    /\ phase' = [phase EXCEPT ![s] = "prompt"]
    /\ \E part \in Beginnings(asked[s]) :
          /\ context' = [context EXCEPT ![s] = part]
          /\ \/ spoilt' \in {spoilt, spoilt \ {s}}
             \/ context[s] = <<>> /\ part # <<>> /\ spoilt' \in SUBSET Slots /\ Restores(s)
    /\ UNCHANGED asked

Advance(s) ==
    /\ phase[s] = "prompt"
    /\ \E part \in Beginnings(asked[s]) :
          /\ IsPrefix(context[s], part)
          /\ context' = [context EXCEPT ![s] = part]
    /\ UNCHANGED <<phase, asked, spoilt>>

Answer(s) ==
    /\ phase[s] = "prompt"
    /\ phase' = [phase EXCEPT ![s] = "generating"]
    /\ context' = [context EXCEPT ![s] = asked[s]]
    /\ UNCHANGED <<asked, spoilt>>

Say(s, token) ==
    /\ phase[s] = "generating"
    /\ context' = [context EXCEPT ![s] = Append(@, token)]
    /\ UNCHANGED <<phase, asked, spoilt>>

\* The answer is complete, or nobody waits for it any more.
End(s) ==
    /\ s \notin Free
    /\ phase' = [phase EXCEPT ![s] = "idle"]
    /\ asked' = [asked EXCEPT ![s] = <<>>]
    /\ UNCHANGED <<context, spoilt>>

\* Free slots may be emptied; those that have something to do fail together.
Lose(S) ==
    /\ S \subseteq Free \/ Slots \ Free \subseteq S
    /\ phase' = [s \in Slots |-> IF s \in S THEN "idle" ELSE phase[s]]
    /\ asked' = [s \in Slots |-> IF s \in S THEN <<>> ELSE asked[s]]
    /\ context' = [s \in Slots |-> IF s \in S THEN <<>> ELSE context[s]]
    /\ spoilt' = spoilt \ S

Init ==
    /\ phase = [s \in Slots |-> "idle"]
    /\ asked = [s \in Slots |-> <<>>]
    /\ context = [s \in Slots |-> <<>>]
    /\ spoilt = {}

Next ==
    \/ \E s \in Slots :
          \/ \E p \in Prompts : Ask(s, p)
          \/ Begin(s) \/ Advance(s) \/ Answer(s) \/ End(s)
          \/ \E token \in Reply : Say(s, token)
    \/ \E S \in SUBSET Slots : Lose(S)

Spec == Init /\ [][Next]_<<phase, asked, context, spoilt>>

=============================================================================
