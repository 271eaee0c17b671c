-------------------------- MODULE MCSkeletonService --------------------------
(***************************************************************************)
(* One process of each role, with a task it can run and one it cannot.     *)
(***************************************************************************)
EXTENDS SkeletonService

CONSTANTS t1, t2

AllRoles == {"worker", "maintenance", "general"}
=============================================================================
