--------------------------- MODULE RunCoordinator ---------------------------
(***************************************************************************)
(* RunCoordinator: the life of an agent's runs, from dispatch to terminal  *)
(* status, over the run controller and the ONE runtime the runs share.     *)
(*                                                                         *)
(* JavaScript is single threaded: code between two awaits is one step, and *)
(* at an await anything else may happen.  run[r].at names the await where  *)
(* the code that works for run r is suspended; each action is one stretch  *)
(* from an await to the next.  Besides dispatch and executeRun, a run has  *)
(* timers (run timeout, stream idle, wait, record eviction) and is touched *)
(* by abort and destroy.  Hooks are configured; a coordinator without them *)
(* behaves as one whose hooks answer at once.                              *)
(***************************************************************************)
EXTENDS RunConcurrency

CONSTANTS PerRunTools,   (* TRUE: the agent injects tools for each run   *)
          Waited,        (* the runs on which somebody calls wait()      *)
          Brief,         (* runs whose transcript never can be opened: a *)
                         (* bound, for instances with a longer queue     *)
          Paths          (* the less common paths an instance explores   *)

AllPaths == {"blocked",    \* the message hook blocks a message
             "unopened",   \* the transcript cannot be opened
             "guarded",    \* an input guardrail blocks the text
             "claimed",    \* a hook answers instead of the model
             "thrown",     \* the preflight throws
             "unwritten",  \* finalizing a transcript fails
             "evicted",    \* a record outlives RUN_RECORD_TTL_MS
             "compacted",  \* a user compacts a session, one at a time
             "destroyed"}  \* the coordinator is destroyed

ASSUME ConstantsOK == /\ PerRunTools \in BOOLEAN
                      /\ Waited \subseteq Runs
                      /\ Brief \subseteq Runs
                      /\ Paths \subseteq AllPaths

\* ctl, the variable of RunConcurrency, is this.concurrency.
VARIABLES run,        (* per run: its RunRecord, its entries in the            *)
                      (* coordinator's maps, and where its code is suspended   *)
          rt,         (* the shared AgentRuntime: whose key, context and tools *)
          destroyed,  (* destroy() has run                                     *)
          compaction  (* the manualCompact() under way, and its session        *)

vars == <<ctl, run, rt, destroyed, compaction>>

\* Where the code of a run is suspended, in the order executeRun reaches the places.
Places == {"idle",             \* not dispatched
           "messageHook",      \* dispatch: MESSAGE_RECEIVED hook
           "blocked",          \* dispatch: the hook blocked it, writing the diagnostic
           "queued",           \* dispatch returned; waiting to be started
           "rejected",         \* executeRun threw: its catch handler is next
           "guarded",          \* input guardrail blocked it, finalizing the transcript
           "preflight",        \* user message written; model, prompt and reply hooks
           "claimed",          \* a hook answered instead of the model, finalizing
           "preflightFailed",  \* preflight threw, finalizing
           "prompting",        \* runtime.prompt on the agent
           "refused",          \* runtime.prompt rejected at once: the agent is busy
           "answered",         \* prompt resolved; transcript writes pending
           "closing",          \* success: finalizing the transcript
           "failing",          \* prompt failed: finalizing the transcript
           "cleanup",          \* finally block: finalizing the transcript
           "cleanupRejected",  \* the same, with an exception on its way out
           "done"}

Statuses == {"none", "pending", "running", "completed", "error"}

\* Who called finalizeTranscript first; "spent" once the run's own call has returned.
Finalizers == {"none", "run", "timer", "spent"}

\* "waiting": registered in this.waiters; "orphaned": only its own timer can answer it.
WaiterStates == {"none", "waiting", "orphaned", "ok", "error", "timeout"}

NewRun == [at        |-> "idle",
           status    |-> "none",  \* record.status
           session   |-> None,    \* record.sessionId (and its sessionKey)
           known     |-> FALSE,   \* this.runs has it
           params    |-> FALSE,   \* this.pendingParams has it
           shown     |-> None,    \* record.queue
           finalizer |-> "none",  \* transcriptFinalized, and by whom
           timer     |-> FALSE,   \* record.timeoutTimer is armed
           expiring  |-> FALSE,   \* the timer fired and has not finalized the run yet
           cancelled |-> FALSE,   \* agent.abort() reached its prompt
           announced |-> 0,       \* lifecycle:end and lifecycle:error events so far
           waiter    |-> "none"]

\* Where a manual compaction stands: reading the session's status and in the hook before it,
\* or in the context engine.  (The writes and the hook that follow touch nothing of this.)
NoCompaction == [at |-> "none", session |-> None]
CompactionPlaces == {"none", "checked", "compacting"}

\* The context engine's active session while a manual compaction uses it.
ForCompaction == "compaction"

ASSUME CompactionIsNoRun == ForCompaction \notin Runs \cup {None}

Terminal(status) == status \in {"completed", "error"}

Init == /\ CtlInit
        /\ run = [r \in Runs |-> NewRun]
        /\ rt = [key |-> None, active |-> None, tools |-> None]
        /\ destroyed = FALSE
        /\ compaction = NoCompaction
-----------------------------------------------------------------------------
(********************** pieces shared by the handlers **********************)

\* Mutant of Finalized: no terminal-once guard.
FinalizedAgain(R, r, status) ==
    [R EXCEPT ![r].status = status, ![r].timer = FALSE, ![r].announced = @ + 1]

\* Mutant of Finalized: the waiters are left alone.
FinalizedSilently(R, r, status) ==
    IF Terminal(R[r].status) THEN R
    ELSE [R EXCEPT ![r].status = status, ![r].timer = FALSE, ![r].announced = @ + 1]

\* finalizeRunSuccess and finalizeRunError, with resolveWaiters.
Finalized(R, r, status) ==
    IF Terminal(R[r].status) THEN R
    ELSE [R EXCEPT ![r].status = status,
                   ![r].timer = FALSE,
                   ![r].announced = @ + 1,
                   ![r].waiter = IF @ # "waiting" THEN @
                                 ELSE IF status = "completed" THEN "ok" ELSE "error"]

\* Mutant of Shown: the positions of the other runs are not refreshed.
ShownOnlyAtEntry(R, before, after, r) == [q \in Runs |-> R[q]]

\* emitQueueUpdates for the runs whose position the controller call for run r changed.
Shown(R, before, after, r) ==
    [q \in Runs |-> IF q \in Affected(before, after, r) /\ R[q].known
                    THEN [R[q] EXCEPT !.shown = Position(after, q)]
                    ELSE R[q]]

\* The first call of finalizeTranscript does the work; later ones return at once.
Finalizing(R, r, who) == [R EXCEPT ![r].finalizer = IF @ = "none" THEN who ELSE @]

\* Only the call that does the work can reject.
MayReject(r) == "unwritten" \in Paths /\ run[r].finalizer = "run"

\* The run's own await of finalizeTranscript is over, and its code goes on to `place`.
\* (What executeRun keeps in local variables is gone when it is done.)
Resumed(r, place) ==
    [run EXCEPT ![r].at = place,
                ![r].finalizer = IF place \in {"done", "rejected"} THEN "none"
                                 ELSE IF @ = "run" THEN "spent" ELSE @]

\* runtime.abort(): whatever prompt the one agent is processing is told to stop.
Prompting(R) == {q \in Runs : R[q].at = "prompting"}
AgentAborted(R) ==
    [q \in Runs |-> IF q \in Prompting(R) THEN [R[q] EXCEPT !.cancelled = TRUE] ELSE R[q]]

\* Mutant of Bound: the session key is set only later.
BoundKeepingKey(r, s) == [rt EXCEPT !.active = r, !.tools = IF PerRunTools THEN r ELSE @]

\* setSessionContext, setActiveSession, setCurrentSessionKey and addTools, for run r.
Bound(r, s) == [rt EXCEPT !.key = s, !.active = r, !.tools = IF PerRunTools THEN r ELSE @]

\* executeRun up to its first await: the transcript cannot be opened, the input guardrails
\* block the text, its session context cannot be built, or the runtime is set up for it.
Begin(R, r) ==
    \/ /\ "unopened" \in Paths \/ r \in Brief
       /\ run' = [R EXCEPT ![r].at = "rejected"] /\ UNCHANGED rt
    \/ /\ "guarded" \in Paths /\ r \notin Brief
       /\ run' = Finalizing([R EXCEPT ![r].at = "guarded"], r, "run") /\ UNCHANGED rt
    \/ /\ "thrown" \in Paths /\ r \notin Brief
       /\ run' = Finalizing([R EXCEPT ![r].at = "preflightFailed"], r, "run") /\ UNCHANGED rt
    \/ /\ r \notin Brief
       /\ run' = [R EXCEPT ![r].at = "preflight"]
       /\ rt' = Bound(r, R[r].session)

\* tryStartNextRun, when the rest of the step has left the controller at c, the runs at R.
TryStart(c, R) ==
    LET q == Drain(c)
        started == Started(c, q)
    IN IF q = None \/ ~R[q].known \/ ~R[q].params
       THEN ctl' = c /\ run' = R /\ UNCHANGED rt
       ELSE /\ ctl' = started
            /\ Begin(Shown([R EXCEPT ![q].params = FALSE,
                                     ![q].shown = None,
                                     ![q].status = "running"], c, started, q), q)

\* Mutant of Settle: the lane is not drained.
SettleAndStop(R, r, status) ==
    /\ ctl' = Released(ctl, r, R[r].session)
    /\ run' = Finalized(R, r, status)
    /\ UNCHANGED rt

\* Mutant of Settle: the lease is kept.
SettleKeepingLease(R, r, status) == TryStart(ctl, Finalized(R, r, status))

\* How every path of executeRun ends: release, finalize, start the next run.
Settle(R, r, status) ==
    TryStart(Released(ctl, r, R[r].session), Finalized(R, r, status))
-----------------------------------------------------------------------------
(******************************** dispatch *********************************)

\* dispatch() up to the MESSAGE_RECEIVED hook.  (Resolving the session, the await before
\* it, touches nothing of the coordinator's.)
Dispatch(r, s) ==
    /\ run[r].at = "idle"
    /\ run' = [run EXCEPT ![r].at = "messageHook",
                          ![r].status = "pending",
                          ![r].session = s,
                          ![r].known = TRUE,
                          ![r].params = TRUE]
    /\ UNCHANGED <<ctl, rt, destroyed>>

\* The hook lets the message through: enqueue, publish positions, try to start.
MessageAdmitted(r) ==
    /\ run[r].at = "messageHook"
    /\ LET entered == Enqueued(ctl, r, run[r].session)
       IN TryStart(entered, Shown([run EXCEPT ![r].at = "queued",
                                              ![r].shown = Position(entered, r)],
                                  ctl, entered, r))
    /\ UNCHANGED destroyed

\* The hook blocks it; the run never reaches the queue.
MessageBlocked(r) ==
    /\ "blocked" \in Paths
    /\ run[r].at = "messageHook"
    /\ run' = [run EXCEPT ![r].at = "blocked", ![r].params = FALSE]
    /\ UNCHANGED <<ctl, rt, destroyed>>

BlockedEnds(r) ==
    /\ run[r].at = "blocked"
    /\ run' = Finalized([run EXCEPT ![r].at = "done"], r, "error")
    /\ UNCHANGED <<ctl, rt, destroyed>>
-----------------------------------------------------------------------------
(******************************* executeRun ********************************)

\* The three preflight hooks let the run proceed: lifecycle:start, arm the run timeout,
\* subscribe, prompt.  Nothing asks whether the run is still running.  The agent refuses a
\* second prompt while it processes one.
PreflightPasses(r) ==
    /\ run[r].at = "preflight"
    /\ run' = [run EXCEPT ![r].at = IF Prompting(run) = {} THEN "prompting" ELSE "refused",
                          ![r].timer = TRUE]
    /\ UNCHANGED <<ctl, rt, destroyed>>

\* BEFORE_AGENT_REPLY claims the turn: synthetic reply instead of the model.
ReplyClaimed(r) ==
    /\ "claimed" \in Paths
    /\ run[r].at = "preflight"
    /\ run' = Finalizing([run EXCEPT ![r].at = "claimed"], r, "run")
    /\ UNCHANGED <<ctl, rt, destroyed>>

\* The catch block around the preflight: it does nothing for a run no longer running.
PreflightCatch(R, r) ==
    /\ run' = IF R[r].status = "running"
              THEN Finalizing([R EXCEPT ![r].at = "preflightFailed"], r, "run")
              ELSE [R EXCEPT ![r].at = "done"]
    /\ UNCHANGED <<ctl, rt, destroyed>>

PreflightThrows(r) ==
    "thrown" \in Paths /\ run[r].at = "preflight" /\ PreflightCatch(run, r)

GuardedEnds(r) ==
    /\ run[r].at = "guarded"
    /\ \/ Settle(Resumed(r, "done"), r, "error") /\ UNCHANGED destroyed
       \/ MayReject(r) /\ PreflightCatch(Resumed(r, "guarded"), r)

ClaimedEnds(r) ==
    /\ run[r].at = "claimed"
    /\ \/ Settle(Resumed(r, "done"), r, "completed") /\ UNCHANGED destroyed
       \/ MayReject(r) /\ PreflightCatch(Resumed(r, "claimed"), r)

PreflightFailedEnds(r) ==
    /\ run[r].at = "preflightFailed"
    /\ \/ Settle(Resumed(r, "done"), r, "error")
       \/ /\ MayReject(r)
          /\ run' = Resumed(r, "rejected")
          /\ UNCHANGED <<ctl, rt>>
    /\ UNCHANGED destroyed

\* tryStartNextRun's catch on executeRun: release the lease, finalize, go on.
ExecuteRejected(r) ==
    /\ run[r].at = "rejected"
    /\ Settle([run EXCEPT ![r].at = "done"], r, "error")
    /\ UNCHANGED destroyed

\* The finally block begins: unsubscribe, await finalizeTranscript.
Cleaning(R, r, place) == Finalizing([R EXCEPT ![r].at = place], r, "run")

\* The catch block around the prompt.
PromptCatch(R, r) ==
    /\ run' = IF R[r].status = "running"
              THEN Finalizing([R EXCEPT ![r].at = "failing"], r, "run")
              ELSE Cleaning(R, r, "cleanup")
    /\ UNCHANGED <<ctl, rt, destroyed>>

PromptResolves(r) ==
    /\ run[r].at = "prompting"
    /\ run' = LET R == [run EXCEPT ![r].cancelled = FALSE]
              IN IF run[r].status = "running"
                 THEN [R EXCEPT ![r].at = "answered"]
                 ELSE Cleaning(R, r, "cleanup")
    /\ UNCHANGED <<ctl, rt, destroyed>>

PromptRejects(r) == /\ run[r].at \in {"prompting", "refused"}
                    /\ PromptCatch([run EXCEPT ![r].cancelled = FALSE], r)

\* The transcript writes are through; output guardrails; finalizeTranscript.
WritesDone(r) ==
    /\ run[r].at = "answered"
    /\ run' = Finalizing([run EXCEPT ![r].at = "closing"], r, "run")
    /\ UNCHANGED <<ctl, rt, destroyed>>

ClosingEnds(r) ==
    /\ run[r].at = "closing"
    /\ \/ Settle(Resumed(r, "cleanup"), r, "completed") /\ UNCHANGED destroyed
       \/ MayReject(r) /\ PromptCatch(Resumed(r, "closing"), r)

FailingEnds(r) ==
    /\ run[r].at = "failing"
    /\ \/ Settle(Resumed(r, "cleanup"), r, "error")
       \/ /\ MayReject(r)
          /\ run' = Resumed(r, "cleanupRejected")
          /\ UNCHANGED <<ctl, rt>>
    /\ UNCHANGED destroyed

\* The end of the finally block: give the runtime back if its session key is still ours.
CleanupEnds(r) ==
    /\ run[r].at \in {"cleanup", "cleanupRejected"}
    /\ \/ /\ run' = Resumed(r, IF run[r].at = "cleanup" THEN "done" ELSE "rejected")
          /\ rt' = IF rt.key = run[r].session
                   THEN [rt EXCEPT !.active = None,
                                   !.tools = IF PerRunTools THEN None ELSE @]
                   ELSE rt
       \/ MayReject(r) /\ run' = Resumed(r, "rejected") /\ UNCHANGED rt
    /\ UNCHANGED <<ctl, destroyed>>
-----------------------------------------------------------------------------
(********************************* timers **********************************)

\* Mutant of TimeoutFires: the agent is not told.
TimeoutFiresUnheard(r) ==
    /\ run[r].timer
    /\ LET fired == [run EXCEPT ![r].timer = FALSE]
       IN IF run[r].status # "running"
          THEN run' = fired /\ UNCHANGED ctl
          ELSE /\ run' = Finalizing([fired EXCEPT ![r].expiring = TRUE], r, "timer")
               /\ ctl' = Released(ctl, r, run[r].session)
    /\ UNCHANGED <<rt, destroyed>>

\* The run timeout: stop the agent, release the lease, then finalize the transcript.
TimeoutFires(r) ==
    /\ run[r].timer
    /\ LET fired == [run EXCEPT ![r].timer = FALSE]
       IN IF run[r].status # "running"
          THEN run' = fired /\ UNCHANGED ctl
          ELSE /\ run' = Finalizing(AgentAborted([fired EXCEPT ![r].expiring = TRUE]), r, "timer")
               /\ ctl' = Released(ctl, r, run[r].session)
    /\ UNCHANGED <<rt, destroyed>>

\* Its continuation, whether or not the transcript could be finalized.
TimeoutEnds(r) ==
    /\ run[r].expiring
    /\ TryStart(ctl, Finalized([run EXCEPT ![r].expiring = FALSE], r, "error"))
    /\ UNCHANGED destroyed

\* No token for STREAM_IDLE_TIMEOUT_MS: stop the agent, and let the prompt's end decide.
StreamIdle(r) ==
    /\ run[r].at = "prompting"
    /\ run[r].status = "running"
    /\ run' = AgentAborted(run)
    /\ UNCHANGED <<ctl, rt, destroyed>>

\* scheduleCleanup: the record is dropped RUN_RECORD_TTL_MS after it was finalized.
Evict(r) ==
    /\ "evicted" \in Paths
    /\ Terminal(run[r].status)
    /\ run[r].known
    /\ run' = [run EXCEPT ![r].known = FALSE, ![r].params = FALSE]
    /\ UNCHANGED <<ctl, rt, destroyed>>
-----------------------------------------------------------------------------
(********************** wait, abort, destroy: any time *********************)

\* wait(runId): answered at once when the record is gone or final, else registered.
Wait(r) ==
    /\ r \in Waited
    /\ run[r].at # "idle"
    /\ run[r].waiter = "none"
    /\ run' = [run EXCEPT ![r].waiter =
                  IF ~run[r].known \/ run[r].status = "error" THEN "error"
                  ELSE IF run[r].status = "completed" THEN "ok"
                  ELSE "waiting"]
    /\ UNCHANGED <<ctl, rt, destroyed>>

WaitTimesOut(r) ==
    /\ run[r].waiter \in {"waiting", "orphaned"}
    /\ run' = [run EXCEPT ![r].waiter = "timeout"]
    /\ UNCHANGED <<ctl, rt, destroyed>>

\* abort(runId) of a queued run: out of both lanes and finalized, the agent untouched.
AbortQueued(r) ==
    LET left == AbortedPending(ctl, r)
    IN TryStart(left, Finalized(Shown([run EXCEPT ![r].at = "done",
                                                  ![r].params = FALSE,
                                                  ![r].shown = None], ctl, left, r),
                                r, "error"))

\* abort(runId).  For a pending run that is not in the queue yet it does nothing: it raises
\* the signal of the record's AbortController, which no code reads.
Abort(r) ==
    /\ run[r].known
    /\ ~Terminal(run[r].status)
    /\ \/ run[r].status = "pending" /\ Removable(ctl, r) /\ AbortQueued(r)
       \/ run[r].status = "pending" /\ ~Removable(ctl, r) /\ UNCHANGED <<ctl, run, rt>>
       \/ run[r].status = "running" /\ Settle(AgentAborted(run), r, "error")
    /\ UNCHANGED destroyed

\* destroy(): every map emptied, every timer of the coordinator cleared; the code already
\* suspended at an await goes on with the records it holds.  The waiters' own timers stay.
Destroy ==
    /\ "destroyed" \in Paths
    /\ ~destroyed
    /\ destroyed' = TRUE
    /\ ctl' = NewController
    /\ LET live(r) == run[r].known /\ ~Terminal(run[r].status)
           stop == \E r \in Runs : live(r) /\ run[r].status = "running"
           R == IF stop THEN AgentAborted(run) ELSE run
       IN run' = [r \in Runs |->
                    [R[r] EXCEPT !.known = FALSE,
                                 !.params = FALSE,
                                 !.timer = @ /\ ~live(r),
                                 !.waiter = IF @ = "waiting" THEN "orphaned" ELSE @]]
    /\ UNCHANGED rt
-----------------------------------------------------------------------------
(***************************** manualCompact *******************************)

\* A run of the session that the coordinator knows and that has not ended.
ActiveIn(s) == {r \in Runs : run[r].known /\ run[r].session = s /\ ~Terminal(run[r].status)}

\* manualCompact() up to its first await: it refuses while the session has an active run.
CompactAsked(s) ==
    /\ "compacted" \in Paths
    /\ compaction = NoCompaction
    /\ ActiveIn(s) = {}
    /\ compaction' = [at |-> "checked", session |-> s]
    /\ UNCHANGED <<ctl, run, rt, destroyed>>

\* The status is read and the hook has answered: the context engine gets the session.
Compacts ==
    /\ compaction.at = "checked"
    /\ compaction' = [compaction EXCEPT !.at = "compacting"]
    /\ rt' = [rt EXCEPT !.active = ForCompaction]
    /\ UNCHANGED <<ctl, run, destroyed>>

\* The session is not found, its transcript cannot be opened, or the hook throws.
CompactFails ==
    /\ compaction.at = "checked"
    /\ compaction' = NoCompaction
    /\ UNCHANGED <<ctl, run, rt, destroyed>>

\* The finally block takes the active session away, whosever it is by now.
CompactEnds ==
    /\ compaction.at = "compacting"
    /\ compaction' = NoCompaction
    /\ rt' = [rt EXCEPT !.active = None]
    /\ UNCHANGED <<ctl, run, destroyed>>
-----------------------------------------------------------------------------
\* The code of run r goes on after the await it stands at (the model's answer excepted).
Continue(r) ==
    \/ MessageAdmitted(r) \/ MessageBlocked(r) \/ BlockedEnds(r)
    \/ PreflightPasses(r) \/ ReplyClaimed(r) \/ PreflightThrows(r)
    \/ GuardedEnds(r) \/ ClaimedEnds(r) \/ PreflightFailedEnds(r) \/ ExecuteRejected(r)
    \/ WritesDone(r) \/ ClosingEnds(r) \/ FailingEnds(r) \/ CleanupEnds(r)

PromptReturns(r) == PromptResolves(r) \/ PromptRejects(r)

RunStep == \/ \E r \in Runs, s \in Sessions : Dispatch(r, s)
           \/ \E r \in Runs : \/ Continue(r) \/ PromptReturns(r)
                              \/ TimeoutFires(r) \/ TimeoutEnds(r) \/ StreamIdle(r) \/ Evict(r)
                              \/ Wait(r) \/ WaitTimesOut(r) \/ Abort(r)
           \/ Destroy

Next == \/ RunStep /\ UNCHANGED compaction
        \/ \E s \in Sessions : CompactAsked(s)
        \/ Compacts \/ CompactFails \/ CompactEnds

Spec == Init /\ [][Next]_vars

\* Hooks, file writes and timers finish; a prompt is only known to return once the agent
\* was told to stop, or when it was refused.  Nobody has to dispatch, wait or abort.
PromptStops(r) == (run[r].cancelled \/ run[r].at = "refused") /\ PromptReturns(r)

Fairness == \A r \in Runs : /\ WF_vars(Continue(r) /\ UNCHANGED compaction)
                            /\ WF_vars(PromptStops(r) /\ UNCHANGED compaction)
                            /\ WF_vars(TimeoutFires(r) /\ UNCHANGED compaction)
                            /\ WF_vars(TimeoutEnds(r) /\ UNCHANGED compaction)

FairSpec == Spec /\ Fairness
-----------------------------------------------------------------------------
(***************************** properties **********************************)

TypeOK ==
    /\ ctl \in Controllers
    /\ run \in [Runs -> [at : Places, status : Statuses, session : Sessions \cup {None},
                          known : BOOLEAN, params : BOOLEAN,
                          shown : {None} \cup [session : 1..Cardinality(Runs),
                                               global  : 1..Cardinality(Runs)],
                          finalizer : Finalizers, timer : BOOLEAN, expiring : BOOLEAN,
                          cancelled : BOOLEAN, announced : 0..1, waiter : WaiterStates]]
    /\ rt \in [key : Sessions \cup {None}, active : Runs \cup {None, ForCompaction},
                tools : Runs \cup {None}]
    /\ destroyed \in BOOLEAN
    /\ compaction \in [at : CompactionPlaces, session : Sessions \cup {None}]

Executing == {"rejected", "guarded", "preflight", "claimed", "preflightFailed", "prompting",
              "refused", "answered", "closing", "failing", "cleanupRejected"}

\* No lease is ever leaked: the run that holds the agent is still running, and its code
\* stands at an await behind which the lease is released, whatever threw on the way.
LeaseHolderIsLive ==
    \A r \in Runs : ctl.active = r => run[r].status = "running" /\ run[r].at \in Executing

\* Whatever stands in the queue can be started: its record and parameters are there and it
\* is pending.  (tryStartNextRun gives up silently on a head that lacks them, and then
\* nothing behind it would ever start.)
QueuedRunsStartable ==
    ~destroyed =>
        \A r \in ToSet(ctl.global) :
            /\ run[r].known /\ run[r].params
            /\ run[r].status = "pending" /\ run[r].at = "queued"

\* The agent is never left idle with runs waiting, except while a run that timed out
\* finalizes its transcript, after which the lane is drained.
LaneNeverForgotten ==
    (~destroyed /\ ctl.active = None /\ ctl.global # <<>>) => \E r \in Runs : run[r].expiring

\* The queue position a client was last told of is the run's position now.
ShownPositionsCurrent ==
    ~destroyed => (\A r \in Runs : run[r].known => run[r].shown = Position(ctl, r))

\* However timeout, abort, model and file errors race, a run is announced as ended exactly
\* once, when it becomes final.
AnnouncedOnce ==
    \A r \in Runs : run[r].announced = IF Terminal(run[r].status) THEN 1 ELSE 0

\* And it never changes from one final status to the other.
FinalIsFinal == [][\A r \in Runs : Terminal(run[r].status) => run'[r].status = run[r].status]_run

\* Nobody is left waiting for a run that is final, and the answer is the run's outcome.
WaitersAnswered ==
    \A r \in Runs : /\ (Terminal(run[r].status) => run[r].waiter # "waiting")
                     /\ (run[r].waiter = "ok" => run[r].status = "completed")
                     /\ (run[r].waiter = "error" /\ run[r].known => run[r].status = "error")

\* While a run executes with the lease, the shared runtime never works for another one:
\* the session key is its session's, and no other run's transcript or tools are bound.  Only
\* a manual compaction may have the context engine meanwhile, and gives it back.
RuntimeNeverForeign ==
    \A r \in Runs :
        (ctl.active = r /\ run[r].at \in {"preflight", "prompting", "answered", "closing"}) =>
            /\ rt.key = run[r].session
            /\ (rt.active = ForCompaction => compaction.at = "compacting")
            /\ rt.active \in {r, None, ForCompaction}
            /\ (PerRunTools => rt.tools \in {r, None})

\* Every accepted run becomes final, even if the model never answers.
RunsEnd == \A r \in Runs : (run[r].at # "idle") ~> (Terminal(run[r].status) \/ destroyed)

\* A run that hit its timeout does not linger: its code runs to the end.
TimedOutLoopsEnd == \A r \in Runs : run[r].expiring ~> (run[r].at = "done")
-----------------------------------------------------------------------------
(************ what the repository says, and the code does not do ***********)

\* "Only clear the shared runtime if it still belongs to THIS run": the run that holds the
\* lease keeps its own transcript bound until its prompt has returned.
HolderKeepsRuntime ==
    \A r \in Runs : (ctl.active = r /\ run[r].at \in {"preflight", "prompting"}) =>
                        rt.active = r

\* "On timeout: classify as timeout, follow the error path": while the timer's handler,
\* which found the run running, finalizes the transcript, the run does not complete.
TimedOutRunFails == \A r \in Runs : run[r].expiring => run[r].status # "completed"

\* manualCompact "refuses to run if the session has an active run in flight -- the transform
\* would then race with the coordinator's own compaction": none is active while it compacts.
CompactionAlone ==
    compaction.at = "compacting" => ActiveIn(compaction.session) = {}

\* The same for the runs of other sessions, which it does not look at: a run that prompts has
\* its own transcript with the context engine, or none, and never that of the compaction.
CompactionApart ==
    \A r \in Runs : (ctl.active = r /\ run[r].at = "prompting") => rt.active # ForCompaction
=============================================================================
