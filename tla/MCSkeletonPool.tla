---------------------------- MODULE MCSkeletonPool ----------------------------
(* Small instances of SkeletonPool for TLC.                                  *)
EXTENDS SkeletonPool, TLC

CONSTANTS d1, d2, j1, j2   \* model values

\* Nothing tells one descriptor, or one job, from another.
Symmetry == Permutations(Jobs) \cup Permutations(Fds)
=============================================================================
