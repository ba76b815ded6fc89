-------------------------- MODULE MCWorldManager --------------------------
(* WorldManager with two clients, two channels and a queue of two.       *)
EXTENDS WorldManager

CONSTANTS c1, c2, k1, k2

OneConfig == {default}
AbortOnly == {[kind |-> "Abort"]}
=============================================================================
