------------------------------ MODULE MCRouter ------------------------------
(* Values for the constants of Router. *)
EXTENDS Router, TLC
CONSTANTS m1, m2, c1, c2
=============================================================================
