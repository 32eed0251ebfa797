---------------------------- MODULE MCSubAgents ----------------------------
(***************************************************************************)
(* SubAgents for TLC.  Children are interchangeable, and so are parents:   *)
(* both are symmetric where only safety is checked.                        *)
(***************************************************************************)
EXTENDS SubAgents, TLC

Symmetry == Permutations(Children) \cup Permutations(Parents)
=============================================================================
