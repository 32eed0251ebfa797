------------------------------ MODULE MCSamAgent ------------------------------
(***************************************************************************)
(* Two tabs and two turns, one command on the way at a time: a card of the *)
(* first turn is settled while the second one runs, the prompt of one tab  *)
(* meets the turn of the other, and one cut strikes at any moment.         *)
(***************************************************************************)
EXTENDS SamAgent
=============================================================================
