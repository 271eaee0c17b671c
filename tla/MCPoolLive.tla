------------------------------ MODULE MCPoolLive ------------------------------
(***************************************************************************)
(* Two pools for TLC's liveness checks, in one state graph: a pool of one  *)
(* slot with a job and a fault, given by the constants, and a pool of      *)
(* three slots whose children never answer, so that a close meets a drive  *)
(* with several SPAWNs.  The descriptors tell them apart.                  *)
(***************************************************************************)
EXTENDS SkeletonPool

CONSTANTS d1, d2, d3, j1   \* model values

OwnFd == <<d1, d2, d3>>

Three == INSTANCE SkeletonPool
           WITH Target <- 3, Fds <- {d1, d2, d3}, QueueLimit <- 0, MaxFaults <- 0

One == DOMAIN slots = Fds

EitherInit == Init \/ Three!Init

\* Every skeleton of the pool of three has a descriptor of its own (nothing tells
\* one descriptor from another), and none gets as far as READY.
ThreeNext ==
  /\ Three!PoolNext
  /\ \A g \in Gens : fdOf'[g] \in {0, OwnFd[g]} /\ inbox'[g] = <<>>

\* DriveSkip is the same step in both; here TLC's statistics count it by its name.
EitherNext ==
  \/ \E f \in Fibers : DriveSkip(f)
  \/ One /\ PoolNext
  \/ ~One /\ ThreeNext

\* LoopFairness of either pool.
EitherSpec ==
  /\ EitherInit /\ [][EitherNext]_vars
  /\ WF_vars(\/ One /\ (LoopStep \/ StartReady)
             \/ ~One /\ (Three!LoopStep \/ Three!StartReady))
  /\ \A g \in Gens : WF_vars(ChildEnds(g))
=============================================================================
