------------------------------ MODULE MCWorld ------------------------------
(* World on a small instance: every tree shape of at most four channels.   *)
EXTENDS World, TLC

CONSTANTS c1, c2, c3, c4

Symmetric == Permutations({c1, c2, c3, c4})
=============================================================================
