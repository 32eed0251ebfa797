---------------------------- MODULE MCSessionStore ---------------------------
(***************************************************************************)
(* SessionStore for TLC: one engine for all callers, as an agent has it,   *)
(* and one caller of the agent beside one of the REST routes.              *)
(***************************************************************************)
EXTENDS SessionStore, TLC

CONSTANTS agent, rest, p1, p2

OneEngine == [c \in Callers |-> agent]
TwoEngines == (p1 :> agent) @@ (p2 :> rest)
=============================================================================
