---------------------------- MODULE MCModelSetup ----------------------------
(* An instance of ModelSetup: a model in two shards, and one in one file.  *)
EXTENDS ModelSetup, TLC

CONSTANTS split, single, part1, part2, whole

MCFilesOf == (split :> <<part1, part2>>) @@ (single :> <<whole>>)
MCSize == (part1 :> 2) @@ (part2 :> 1) @@ (whole :> 2)
=============================================================================
