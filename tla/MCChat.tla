------------------------------- MODULE MCChat -------------------------------
(***************************************************************************)
(* Two tabs, which are interchangeable, and an agent that is started twice *)
(* at most: enough for two starts to overlap, for a restart under a waiting*)
(* tab, and for one start before and one after a lost connection.          *)
(***************************************************************************)
EXTENDS Chat, TLC

Symmetry == Permutations(Clients)
=============================================================================
