--------------------------- MODULE MCPageManager ---------------------------
(* Instances of PageManager.  A token stands for a stretch of a prompt.    *)
EXTENDS PageManager, TLC

CONSTANTS s1, s2, u1

\* A prompt, and one that repeats it but for the last token, which asks the model
\* to reply.  The checkpoint of the first begins the second; that of the second
\* is of other tokens than the first, and as long.
Mixed == {<<1, 2, 3>>, <<1, 2, 4, 3>>}

\* Two conversations.  The prompts of one extend each other but for the last
\* token, 3.
Growing == {<<1, 2, 3>>, <<1, 2, 4, 5, 3>>, <<6, 7>>}

\* Two conversations with one system prompt, <<1, 2>>
Branching == {<<1, 2, 3, 4>>, <<1, 2, 5, 6>>}

Replies == {4}

\* Slots differ in nothing.
SlotSymmetry == Permutations(Slots)
=============================================================================
