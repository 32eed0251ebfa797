--------------------------- MODULE RunController ---------------------------
(***************************************************************************)
(* RunConcurrencyController: which accepted run of an agent may execute.   *)
(*                                                                         *)
(* The controller is an object whose methods run to completion, so its     *)
(* state is one record and each method an operator from record to record:  *)
(* one synchronous stretch of RunCoordinator often makes several calls     *)
(* (release, then drain and start).  RunConcurrency lets a caller make the *)
(* calls in any order; RunCoordinator makes those the code makes.          *)
(***************************************************************************)
EXTENDS Naturals, Sequences, SequencesExt

CONSTANTS Runs,       (* run identifiers                         *)
          Sessions,   (* session identifiers                     *)
          None        (* "null": neither a run nor a session     *)

ASSUME NoneIsNoId == None \notin Runs \cup Sessions

(* lanes: sessionQueues (a missing entry is an empty lane), global:        *)
(* globalQueue, owner: runToSession, active: activeRunId, leased:          *)
(* leasedSessionId.                                                        *)
Controllers == [lanes  : [Sessions -> Seq(Runs)],
                global : Seq(Runs),
                owner  : [Runs -> Sessions \cup {None}],
                active : Runs \cup {None},
                leased : Sessions \cup {None}]

NewController == [lanes  |-> [s \in Sessions |-> <<>>],
                  global |-> <<>>,
                  owner  |-> [r \in Runs |-> None],
                  active |-> None,
                  leased |-> None]
-----------------------------------------------------------------------------
(***************************** the methods *********************************)

\* enqueue(runId, sessionId)
Enqueued(c, r, s) == [c EXCEPT !.lanes[s] = Append(@, r),
                               !.global   = Append(@, r),
                               !.owner[r] = s]

\* What the loop of drain() accepts: the run is at the head of its session lane.
HeadsItsLane(c, r) == /\ c.owner[r] # None
                      /\ c.lanes[c.owner[r]] # <<>>
                      /\ Head(c.lanes[c.owner[r]]) = r

\* The places of the global lane where drain() would stop.
Eligible(c) == {i \in DOMAIN c.global : HeadsItsLane(c, c.global[i])}

\* Mutant of Drain: the run that was accepted last.
DrainLatest(c) == IF c.active # None \/ Eligible(c) = {}
                  THEN None
                  ELSE c.global[CHOOSE i \in Eligible(c) : \A j \in Eligible(c) : j <= i]

\* drain(): the run to start, or None.
Drain(c) == IF c.active # None \/ Eligible(c) = {}
            THEN None
            ELSE c.global[CHOOSE i \in Eligible(c) : \A j \in Eligible(c) : i <= j]

\* Mutant of Started: the run leaves its session lane and stays in the global one.
StartedKeepsGlobal(c, r) == [c EXCEPT !.lanes[c.owner[r]] = Tail(@),
                                      !.active = r,
                                      !.leased = c.owner[r]]

\* Mutant of Started: the lease names the run, not its session.
StartedLeasingRun(c, r) == [c EXCEPT !.lanes[c.owner[r]] = Tail(@),
                                     !.global = RemoveFirst(@, r),
                                     !.active = r,
                                     !.leased = r]

\* start(runId, sessionId), for the run that drain() returned.
Started(c, r) == [c EXCEPT !.lanes[c.owner[r]] = Tail(@),
                           !.global = RemoveFirst(@, r),
                           !.active = r,
                           !.leased = c.owner[r]]

\* abortPending(runId) removes the run only when it is queued and not active.
Removable(c, r) == /\ c.active # r
                   /\ c.owner[r] # None
                   /\ r \in ToSet(c.global)

\* Mutant of AbortedPending: the session lane keeps the aborted run.
AbortedPendingKeepsLane(c, r) == IF Removable(c, r)
    THEN [c EXCEPT !.global = RemoveFirst(@, r), !.owner[r] = None]
    ELSE c

AbortedPending(c, r) == IF Removable(c, r)
    THEN [c EXCEPT !.lanes[c.owner[r]] = RemoveFirst(@, r),
                   !.global = RemoveFirst(@, r),
                   !.owner[r] = None]
    ELSE c

\* release(runId, sessionId): a run that does not hold the lease releases nothing.
Released(c, r, s) == IF c.active = r /\ c.leased = s
    THEN [c EXCEPT !.active = None, !.leased = None, !.owner[r] = None]
    ELSE c

\* collectSnapshots(): the 1-based positions of a queued run in its two lanes.
Position(c, r) == IF r \in ToSet(c.global) /\ c.owner[r] # None
    THEN [session |-> CHOOSE i \in DOMAIN c.lanes[c.owner[r]] : c.lanes[c.owner[r]][i] = r,
          global  |-> CHOOSE i \in DOMAIN c.global : c.global[i] = r]
    ELSE None

\* diffSnapshots(): the other runs whose positions a call changed.
Affected(before, after, r) ==
    {q \in Runs \ {r} : Position(before, q) # Position(after, q)}
-----------------------------------------------------------------------------
(*************************** consistency ***********************************)

InLane(c, s) == ToSet(c.lanes[s])

\* The two kinds of lane list the same runs: a run is in the global lane exactly when it
\* is in the lane of the session it belongs to, in no other, and in each only once.
LanesListSameRuns(c) ==
    /\ \A r \in ToSet(c.global) : c.owner[r] # None /\ r \in InLane(c, c.owner[r])
    /\ \A s \in Sessions : \A r \in InLane(c, s) : c.owner[r] = s /\ r \in ToSet(c.global)
    /\ IsInjective(c.global)
    /\ \A s \in Sessions : IsInjective(c.lanes[s])

\* Two runs of one session stand in the same order in their lane and in the global lane.
LanesAgreeOnOrder(c) ==
    \A s \in Sessions : \A i, j \in DOMAIN c.lanes[s] : \A k, l \in DOMAIN c.global :
        (c.lanes[s][i] = c.global[k] /\ c.lanes[s][j] = c.global[l] /\ i < j) => k < l

\* The lease names the session of the active run, which is no longer queued, and the
\* controller remembers the session of no other run than the queued and the active ones.
LeaseMatchesActive(c) ==
    /\ (c.active = None) <=> (c.leased = None)
    /\ c.active # None => c.owner[c.active] = c.leased /\ c.active \notin ToSet(c.global)
    /\ \A r \in Runs : c.owner[r] # None => r = c.active \/ r \in ToSet(c.global)

Consistent(c) == LanesListSameRuns(c) /\ LanesAgreeOnOrder(c) /\ LeaseMatchesActive(c)
=============================================================================
