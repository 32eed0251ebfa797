------------------------------ MODULE RunLane ------------------------------
(***************************************************************************)
(* What the queueing of one managed agent promises, with no session lanes, *)
(* no lease and no search: accepted runs wait in ONE line in the order     *)
(* they were accepted, at most one of them holds the agent, and the one    *)
(* admitted is always the one that has waited longest.                     *)
(*                                                                         *)
(* RunConcurrency, which keeps a lane per session beside the global one    *)
(* and searches them, is shown to implement this.                          *)
(***************************************************************************)
EXTENDS Sequences, SequencesExt

CONSTANTS Runs,   (* run identifiers                 *)
          None    (* "no run": not a run identifier  *)

VARIABLES waiting,   (* accepted runs, the longest waiting first *)
          holder     (* the run that holds the agent, or None     *)

laneVars == <<waiting, holder>>

LaneInit == waiting = <<>> /\ holder = None

\* A run id is fresh when it is accepted: it joins the end of the line.
Accept(r) == /\ r \notin ToSet(waiting)
             /\ r # holder
             /\ waiting' = Append(waiting, r)
             /\ UNCHANGED holder

\* The agent is free: the run that waited longest takes it.
Admit == /\ holder = None
         /\ waiting # <<>>
         /\ holder' = Head(waiting)
         /\ waiting' = Tail(waiting)

\* A waiting run is taken out of the line; the others keep their order.
Withdraw(r) == /\ r \in ToSet(waiting)
               /\ waiting' = RemoveFirst(waiting, r)
               /\ UNCHANGED holder

Finish == holder # None /\ holder' = None /\ UNCHANGED waiting

Reset == waiting' = <<>> /\ holder' = None

LaneNext == \/ \E r \in Runs : Accept(r) \/ Withdraw(r)
            \/ Admit
            \/ Finish
            \/ Reset

LaneSpec == LaneInit /\ [][LaneNext]_laneVars
=============================================================================
