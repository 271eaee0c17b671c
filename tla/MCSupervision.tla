---------------------------- MODULE MCSupervision ----------------------------
(***************************************************************************)
(* Two slots, and skeletons that replace those which are lost.             *)
(***************************************************************************)
EXTENDS Supervision

CONSTANTS lock, disk
=============================================================================
