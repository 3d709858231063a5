--------------------------- MODULE MCStreamSession ---------------------------
(***************************************************************************)
(* Two completions of one conversation for TLC, the second of which        *)
(* replaces the first.                                                     *)
(***************************************************************************)
EXTENDS StreamSession

CONSTANTS p1, p2, r1, d1, c1

MCConvOf == [p \in Requests |-> c1]

\* bytes of the generations, before the End of each
MCLong  == [p \in Requests |-> IF p = p1 THEN 3 ELSE 0]
MCShort == [p \in Requests |-> IF p = p1 THEN 1 ELSE 0]

=============================================================================
