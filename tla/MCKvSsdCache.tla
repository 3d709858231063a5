---------------------------- MODULE MCKvSsdCache ----------------------------
(* Two blobs, one larger than the other, for TLC.                          *)
EXTENDS KvSsdCache, TLC

CONSTANTS small, big, m1, m2

MCSizeOf == (small :> 1) @@ (big :> 2)

=============================================================================
