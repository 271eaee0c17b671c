---------------------------- MODULE MCReaperStore ----------------------------
(* Small instances of ReaperStore for TLC.                                   *)
EXTENDS ReaperStore, TLC

CONSTANTS r, a, b, c, w1, w2, w3, m1, m2   \* model values

\* One graph: the root r submits a and b; a waits for b, which r submitted.
Trio == {r, a, b}
TrioRoot == [x \in Trio |-> r]
TrioChildren == [x \in Trio |-> IF x = r THEN {a, b} ELSE {}]
TrioAwait == [x \in Trio |-> CASE x = r -> {a, b} [] x = a -> {b} [] x = b -> {}]

\* The same with a grandchild: a submits c, and both r and b may wait for it.
Quartet == {r, a, b, c}
QuartetRoot == [x \in Quartet |-> r]
QuartetChildren ==
  [x \in Quartet |-> CASE x = r -> {a, b} [] x = a -> {c} [] OTHER -> {}]
QuartetAwait ==
  [x \in Quartet |-> CASE x = r -> {a, b} [] x = a -> {b, c} [] x = b -> {c} [] x = c -> {}]

NoRetry == {"settle", "suspend"}

\* Nothing tells one worker, or one maintenance skeleton, from another.
SessionSymmetry == Permutations(Workers) \cup Permutations(Sweepers)
=============================================================================
