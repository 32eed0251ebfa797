-------------------------- MODULE MCRunCoordinator --------------------------
(***************************************************************************)
(* RunCoordinator for TLC.  Runs that are not Brief, and sessions, are     *)
(* interchangeable where Waited has all runs or none, so both are          *)
(* symmetric where only safety is checked.                                 *)
(***************************************************************************)
EXTENDS RunCoordinator

Symmetry == Permutations(Runs \ Brief) \cup Permutations(Sessions)
=============================================================================
