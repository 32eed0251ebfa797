--------------------------- MODULE RunConcurrency ---------------------------
(***************************************************************************)
(* The run controller under any caller: fresh ids are enqueued, what drain *)
(* returns is started, and runs are aborted and released at any moment,    *)
(* also late, twice, or by a run that holds nothing.  RunCoordinator has   *)
(* the same controller, and is the caller that the code has.               *)
(***************************************************************************)
EXTENDS RunController

VARIABLE ctl          (* the controller's fields *)

CtlInit == ctl = NewController

\* Run ids are fresh UUIDs, so a caller enqueues an id the controller does not hold.
Enqueue(r, s) == ctl.owner[r] = None /\ ctl' = Enqueued(ctl, r, s)

\* tryStartNextRun: start what drain returned.
StartNext == Drain(ctl) # None /\ ctl' = Started(ctl, Drain(ctl))

AbortPending(r) == ctl' = AbortedPending(ctl, r)

\* A run may be released late, twice, or after another one took the agent.
Release(r, s) == ctl' = Released(ctl, r, s)

DestroyController == ctl' = NewController

CtlNext == \/ \E r \in Runs, s \in Sessions : Enqueue(r, s) \/ Release(r, s)
           \/ \E r \in Runs : AbortPending(r)
           \/ StartNext
           \/ DestroyController

CtlSpec == CtlInit /\ [][CtlNext]_ctl
-----------------------------------------------------------------------------
(***************************** properties **********************************)

CtlTypeOK == ctl \in Controllers

\* Across any sequence of calls the session lanes, the global lane and the lease describe
\* one and the same set of runs in one order (what enqueue, start, abortPending and
\* release maintain in three separate containers).
LanesConsistent == Consistent(ctl)

\* drain() never leaves the agent idle while a run is queued, and what it picks is the
\* run that was accepted first: no session lane can hold the others up.
NoHeadOfLineBlocking ==
    ctl.active = None /\ ctl.global # <<>> => Drain(ctl) = Head(ctl.global)

\* The controller implements the single waiting line of RunLane.
Lane == INSTANCE RunLane WITH waiting <- ctl.global, holder <- ctl.active

ImplementsLane == Lane!LaneSpec
=============================================================================
