----------------------------- MODULE MCSessions -----------------------------
(* Two processes on one session of two components, one of which loads anew   *)
(* at every start.                                                           *)
EXTENDS Sessions, TLC

CONSTANTS p1, p2, s1, keeper, loader, i1, i2, i3

MCAsset == [Component -> 0..MaxWork]

\* What was in a file that nothing refers to any more makes no difference.
Visible ==
  LET Kept(i) == ~Free(i) \/ \E p \in Process : handle[p] = i
  IN <<names, [i \in Inode |-> IF Kept(i) THEN data[i] ELSE Blank], call, pc, handle, answer, clashed, avars>>

Interchangeable == Permutations(Process) \cup Permutations(Inode)
=============================================================================
