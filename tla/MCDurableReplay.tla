--------------------------- MODULE MCDurableReplay ---------------------------
(***************************************************************************)
(* Small functions for TLC.                                                *)
(***************************************************************************)
EXTENDS DurableReplay

S(operation, n) == [op |-> operation, calls |-> n]

\* A choice and a call that depends on it; a timer between a call and a choice;
\* a gather after a timer.
Mixed == {<<S("first", 2), S("gather", 1)>>,
          <<S("gather", 1), S("sleep", 1), S("first", 2)>>,
          <<S("sleep", 1), S("gather", 2)>>}
=============================================================================
