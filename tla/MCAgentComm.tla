---------------------------- MODULE MCAgentComm ----------------------------
(***************************************************************************)
(* AgentComm for TLC.  The agents are interchangeable: symmetric where     *)
(* only safety is checked.                                                 *)
(***************************************************************************)
EXTENDS AgentComm, TLC

Symmetry == Permutations(Agents)
=============================================================================
