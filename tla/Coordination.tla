---------------------------- MODULE Coordination ----------------------------
(***************************************************************************)
(* The coordination control plane: CoordinationService over the workflows  *)
(* and tasks of CoordinationStore, and the runs by which the assigned      *)
(* agents carry the tasks out.                                             *)
(*                                                                         *)
(* The service's handlers are synchronous (the database is), so each is    *)
(* one action, the events of the runs it aborts included.  Only a dispatch *)
(* pass awaits: it starts the agent and hands the task over.  passes is    *)
(* the chain of promises of the workflow; what is not its head waits.      *)
(*                                                                         *)
(* One workflow is modelled: nothing is shared between two of them but the *)
(* agents' own queues.  The tasks are numbered in the order they are       *)
(* assigned; their agents and dependencies are constants.  The count of    *)
(* model and tool calls is abstracted to "the budget is exceeded".  Calls  *)
(* that are refused, reports and the trace change nothing that matters     *)
(* here.  'stop_requested' never outlives the handler that sets it.        *)
(***************************************************************************)
EXTENDS Naturals, Sequences, FiniteSets

CONSTANTS Tasks,          (* 1..n, in the order in which they are assigned    *)
          Agents,
          AgentOf,        (* task.assignedAgentId                             *)
          DependsOn,      (* task.dependencies                                *)
          MaxConcurrent,  (* agent.maxConcurrentTasks                         *)
          Reported,       (* the statuses that coordination_task_update sets  *)
          Late,           (* TRUE: a task is reported on at any time, by its  *)
                          (* assignee or a manager; FALSE: only from its run, *)
                          (* and once                                         *)
          Faults,         (* TRUE: runs vanish with their agent, the process  *)
                          (* restarts                                         *)
          MaxRuns,        (* bound: runs ever dispatched                      *)
          MaxPasses       (* bound: dispatch passes in line at once           *)

TaskStatuses == {"pending", "running", "blocked", "completed", "failed", "cancelled"}

ASSUME CoordinationConstants ==
    /\ Tasks \subseteq Nat /\ IsFiniteSet(Tasks)
    /\ AgentOf \in [Tasks -> Agents]
    /\ DependsOn \in [Tasks -> SUBSET Tasks]
    /\ {MaxConcurrent, MaxRuns, MaxPasses} \subseteq Nat \ {0}
    /\ Reported \subseteq TaskStatuses
    /\ {Late, Faults} \subseteq BOOLEAN

VARIABLES wf,      (* workflows.status                                         *)
          timer,   (* watchdogTimers has the workflow                          *)
          over,    (* countEvents exceeds the budget of turns or tools         *)
          status,  (* tasks.status; "none": not assigned yet                   *)
          runs,    (* the runs dispatched; activeAssignments has those alive   *)
          passes   (* dispatchChains: the passes in line, the head under way   *)

vars == <<wf, timer, over, status, runs, passes>>

Final    == {"completed", "failed", "cancelled"}
Open     == {"pending", "blocked", "running"}
Stopped  == {"stopped_by_user", "stopped_by_watchdog"}
Terminal == {"completed", "failed"} \cup Stopped

Assigned == {t \in Tasks : status[t] # "none"}

\* The runs that have not ended.  The service handles the events of all of them; a run
\* that is over without one (see Dispatched, RunVanishes) is never heard of again.
Alive == {r \in DOMAIN runs : runs[r].at # "over"}

NewPass == [at |-> "queued", todo |-> {}, count |-> [a \in Agents |-> 0]]

Init == /\ wf = "draft"
        /\ timer = FALSE
        /\ over = FALSE
        /\ status = [t \in Tasks |-> "none"]
        /\ runs = <<>>
        /\ passes = <<>>
-----------------------------------------------------------------------------
(******************** what several handlers have in common *****************)

\* Mutant of PassesAdded: the call is forgotten while a pass is under way.
PassesAddedIfIdle(n) ==
    passes' = IF passes = <<>> THEN [i \in 1..n |-> NewPass] ELSE passes

\* dispatchReadyTasks, called n times: as many passes join the line.
PassesAdded(n) ==
    /\ Len(passes) + n <= MaxPasses
    /\ passes' = passes \o [i \in 1..n |-> NewPass]

\* completeWorkflowIfDone, once the tasks have the statuses st.
CompletedIfDone(st) ==
    LET all == {st[t] : t \in Tasks} \ {"none"}
        done == wf = "running" /\ all # {} /\ all \subseteq Final
    IN /\ wf' = IF ~done THEN wf ELSE IF all = {"completed"} THEN "completed" ELSE "failed"
       /\ timer' = (timer /\ ~done)

RunsOver(R) == [r \in DOMAIN runs |-> IF r \in R THEN [runs[r] EXCEPT !.at = "over"]
                                     ELSE runs[r]]

\* What lifecycle:error makes of the tasks of the runs of R.
Errored(R) == [t \in Tasks |->
                 IF status[t] # "cancelled" /\ \E r \in R : runs[r].task = t
                 THEN "failed" ELSE status[t]]

\* cancelOpenTasks
OpenCancelled(st) == [t \in Tasks |-> IF st[t] \in Open THEN "cancelled" ELSE st[t]]
-----------------------------------------------------------------------------
(******************************* the manager *******************************)

StartWorkflow ==
    /\ wf \notin Terminal
    /\ wf' = "running" /\ timer' = TRUE
    /\ PassesAdded(1)
    /\ UNCHANGED <<over, status, runs>>

PauseWorkflow ==
    /\ wf \notin Terminal
    /\ wf' = "paused"
    /\ UNCHANGED <<timer, over, status, runs, passes>>

ResumeWorkflow ==
    /\ wf \in {"paused", "needs_human_input"}
    /\ wf' = "running" /\ timer' = TRUE
    /\ PassesAdded(1)
    /\ UNCHANGED <<over, status, runs>>

\* The runs of R end by an error event each, before the open tasks are cancelled.
AbortAll(R) ==
    /\ runs' = RunsOver(R)
    /\ status' = OpenCancelled(Errored(R))
    /\ PassesAdded(Cardinality(R))

\* Mutant of StopWorkflow: a run that has not started yet is not aborted.
StopWorkflowRunning ==
    /\ wf \notin Terminal
    /\ wf' = "stopped_by_user" /\ timer' = FALSE
    /\ AbortAll({r \in Alive : runs[r].at = "running"})
    /\ UNCHANGED over

StopWorkflow ==
    /\ wf \notin Terminal
    /\ wf' = "stopped_by_user" /\ timer' = FALSE
    /\ AbortAll(Alive)
    /\ UNCHANGED over

AssignTask(t) ==
    /\ status[t] = "none" /\ \A u \in Tasks : u < t => status[u] # "none"
    /\ wf \notin Terminal
    /\ status' = [status EXCEPT ![t] = "pending"]
    /\ PassesAdded(1)
    /\ UNCHANGED <<wf, timer, over, runs>>
-----------------------------------------------------------------------------
(****************************** the task tools *****************************)

MayReport(t) ==
    /\ status[t] # "none"
    /\ Late \/ (status[t] = "running"
                /\ \E r \in Alive : runs[r].task = t /\ runs[r].at = "running")

\* Neither looks for ready tasks nor for the end of the workflow.
TaskUpdate(t, s) ==
    /\ MayReport(t)
    /\ status' = [status EXCEPT ![t] = s]
    /\ UNCHANGED <<wf, timer, over, runs, passes>>

TaskBlocked(t) ==
    /\ MayReport(t)
    /\ status' = [status EXCEPT ![t] = "blocked"]
    /\ wf' = "needs_human_input"
    /\ UNCHANGED <<timer, over, runs, passes>>

TaskComplete(t) ==
    /\ MayReport(t)
    /\ status' = [status EXCEPT ![t] = "completed"]
    /\ CompletedIfDone(status')
    /\ PassesAdded(1)
    /\ UNCHANGED <<over, runs>>
-----------------------------------------------------------------------------
(***************************** a dispatch pass *****************************)

\* listReadyPendingTasks, which the loop works off in the order in which they were assigned.
Ready(t) == status[t] = "pending" /\ \A d \in DependsOn[t] : status[d] = "completed"
ReadyTasks == {t \in Tasks : Ready(t)}

First(t, T) == t \in T /\ \A u \in T : t <= u

RunningOf(a) == {t \in Tasks : status[t] = "running" /\ AgentOf[t] = a}

\* Mutant of UnderWay: a pass does not wait for the one before it.
UnderWayAtOnce(i) == i \in DOMAIN passes

\* Passes of a workflow go one after the other.
UnderWay(i) == i = 1 /\ passes # <<>>

PassEnds(i) == passes' = [j \in 1..(Len(passes) - 1) |-> passes[IF j < i THEN j ELSE j + 1]]

\* Mutant of Snapshot: the running tasks are not counted.
SnapshotUncounted(i) ==
    IF passes[i].at = "queued"
    THEN [at |-> "looping", todo |-> ReadyTasks, count |-> [a \in Agents |-> 0]]
    ELSE passes[i]

\* What the loop works on: read once, when the pass begins.
Snapshot(i) ==
    IF passes[i].at = "queued"
    THEN [at    |-> "looping", todo |-> ReadyTasks,
          count |-> [a \in Agents |-> Cardinality(RunningOf(a))]]
    ELSE passes[i]

\* The loop goes on to the next task whose agent has a free slot.  dispatchTask looks at
\* the workflow, not at the task, and awaits.
PassGoesOn(i) ==
    /\ UnderWay(i) /\ passes[i].at \in {"queued", "looping"}
    /\ LET p == Snapshot(i)
           free == {t \in p.todo : p.count[AgentOf[t]] < MaxConcurrent}
       IN IF free = {} \/ (passes[i].at = "queued" /\ wf # "running")
          THEN PassEnds(i)
          ELSE \E t \in Tasks :
                 /\ First(t, free)
                 /\ passes' = [passes EXCEPT ![i] =
                      [at    |-> IF wf = "running" THEN "dispatching" ELSE "looping",
                       todo  |-> {u \in p.todo : u > t \/ (u = t /\ wf = "running")},
                       count |-> [p.count EXCEPT ![AgentOf[t]] = @ + 1]]]
    /\ UNCHANGED <<wf, timer, over, status, runs>>

Dispatching(i) == UnderWay(i) /\ passes[i].at = "dispatching"

NextTask(i, t) == [passes EXCEPT ![i].at = "looping", ![i].todo = @ \ {t}]

\* The agent has accepted the run, or has already refused the message by a hook and ended
\* it.  The task is running, whatever became of it meanwhile.
Dispatched(i, ended) ==
    /\ Dispatching(i) /\ Len(runs) < MaxRuns
    /\ \E t \in Tasks :
          /\ First(t, passes[i].todo)
          /\ status' = [status EXCEPT ![t] = "running"]
          /\ runs' = Append(runs, [task |-> t, at |-> IF ended THEN "over" ELSE "queued"])
          /\ passes' = NextTask(i, t)
    /\ UNCHANGED <<wf, timer, over>>

\* The agent is unavailable, cannot be started, or refuses the run.
DispatchFails(i) ==
    /\ Dispatching(i)
    /\ \E t \in Tasks :
          /\ First(t, passes[i].todo)
          /\ status' = [status EXCEPT ![t] = "failed"]
          /\ passes' = [NextTask(i, t) EXCEPT ![i].count[AgentOf[t]] = @ - 1]
    /\ CompletedIfDone(status')
    /\ UNCHANGED <<over, runs>>
-----------------------------------------------------------------------------
(***************************** events of a run *****************************)

\* Mutant of Failed: the next task is not looked for.
FailedAlone(r) ==
    /\ runs' = RunsOver({r})
    /\ status' = Errored({r})
    /\ UNCHANGED passes

\* lifecycle:error
Failed(r) ==
    /\ runs' = RunsOver({r})
    /\ status' = Errored({r})
    /\ PassesAdded(1)

\* enforceBudgets, after run r has called the model or a tool.  Its abort fails the task
\* while the workflow is already paused.
Spends(r) ==
    /\ over' \in {over, TRUE}
    /\ IF over' /\ wf = "running"
       THEN wf' = "paused" /\ Failed(r) /\ UNCHANGED timer
       ELSE /\ runs' = [runs EXCEPT ![r].at = "running"]
            /\ UNCHANGED <<wf, timer, status, passes>>

RunStarts(r) ==
    /\ runs[r].at = "queued"
    /\ Spends(r)

RunCallsTool(r) ==
    /\ runs[r].at = "running"
    /\ Spends(r)

\* lifecycle:end
RunEnds(r) ==
    /\ runs[r].at = "running"
    /\ runs' = RunsOver({r})
    /\ status' = [status EXCEPT ![runs[r].task] = IF @ = "running" THEN "completed" ELSE @]
    /\ CompletedIfDone(status')
    /\ PassesAdded(1)
    /\ UNCHANGED over

\* An error of the run, its timeout, or an abort by the user.
RunFails(r) ==
    /\ r \in Alive
    /\ Failed(r)
    /\ CompletedIfDone(status')
    /\ UNCHANGED over

\* Its agent is destroyed: the run is gone, and no event says so.
RunVanishes(r) ==
    /\ Faults /\ r \in Alive
    /\ runs' = [runs EXCEPT ![r].at = "over"]
    /\ UNCHANGED <<wf, timer, over, status, passes>>
-----------------------------------------------------------------------------
\* Mutant of TriggerWatchdog: the status is not looked at, and the timer not cleared.
TriggerWatchdogAlways ==
    /\ wf # "draft"
    /\ wf' = "stopped_by_watchdog" /\ timer' = FALSE
    /\ AbortAll(Alive)
    /\ UNCHANGED over

\* The time of the workflow is up.
TriggerWatchdog ==
    /\ timer /\ wf \notin Terminal
    /\ wf' = "stopped_by_watchdog" /\ timer' = FALSE
    /\ AbortAll(Alive)
    /\ UNCHANGED over

\* close, or a crash, and a new process: the database stays.
Restart ==
    /\ Faults
    /\ timer' = FALSE
    /\ runs' = RunsOver(DOMAIN runs)
    /\ passes' = <<>>
    /\ UNCHANGED <<wf, over, status>>

PassSteps(i) == PassGoesOn(i) \/ Dispatched(i, FALSE)
RunProceeds(r) == RunStarts(r) \/ RunEnds(r)

Next == \/ StartWorkflow \/ PauseWorkflow \/ ResumeWorkflow \/ StopWorkflow
        \/ TriggerWatchdog \/ Restart
        \/ \E t \in Tasks : \/ AssignTask(t) \/ TaskBlocked(t) \/ TaskComplete(t)
                            \/ \E s \in Reported : TaskUpdate(t, s)
        \/ \E i \in DOMAIN passes : PassSteps(i) \/ Dispatched(i, TRUE) \/ DispatchFails(i)
        \/ \E r \in DOMAIN runs : \/ RunProceeds(r) \/ RunCallsTool(r)
                                  \/ RunFails(r) \/ RunVanishes(r)

Spec == Init /\ [][Next]_vars

\* Promises are settled, runs end (each has a timeout); nobody has to call anything, and
\* the watchdog, an hour away, is not what the service relies on.
Fairness ==
    /\ \A i \in 1..MaxPasses : WF_vars(i \in DOMAIN passes /\ PassSteps(i))
    /\ \A r \in 1..MaxRuns : WF_vars(r \in DOMAIN runs /\ RunProceeds(r))

FairSpec == Spec /\ Fairness
-----------------------------------------------------------------------------
(******************************* properties ********************************)

TypeOK ==
    /\ wf \in {"draft", "running", "paused", "needs_human_input"} \cup Terminal
    /\ {timer, over} \subseteq BOOLEAN
    /\ status \in [Tasks -> TaskStatuses \cup {"none"}]
    /\ Len(runs) <= MaxRuns
    /\ \A r \in DOMAIN runs : runs[r] \in [task : Tasks, at : {"queued", "running", "over"}]
    /\ Len(passes) <= MaxPasses
    /\ \A i \in DOMAIN passes :
          /\ passes[i].at \in {"queued", "looping", "dispatching"}
          /\ i > 1 => passes[i] = NewPass
          /\ passes[i].at = "dispatching" => passes[i].todo # {}
          /\ passes[i].todo \subseteq Assigned
          /\ passes[i].count \in [Agents -> 0..Cardinality(Tasks)]

\* A stop, by the manager or the watchdog, ends every run of the workflow, whether it
\* waits or runs, except the one that is being dispatched at that moment: however late
\* reports, resumes and further stops follow each other, at most one run is left.
StopLeavesAtMostOne == wf \in Stopped => Cardinality(Alive) <= 1

\* The end of the last task, a stop and the watchdog compete for the outcome; the first
\* one stays.  Only a report that a task is blocked takes a workflow out of it.
FinalOutcomeStays == [][(wf \in Terminal) => wf' = "needs_human_input"]_wf

\* Every change calls for a dispatch pass, and a pass awaits between reading a task and
\* marking it as running; still no task is handed over twice.
OneRunPerTask == \A r, s \in DOMAIN runs : runs[r].task = runs[s].task => r = s

\* The slots of an agent are counted when a pass begins and used after its awaits; tasks
\* that end, block or are assigned meanwhile never take an agent above its limit.
WithinCap == \A a \in Agents : Cardinality(RunningOf(a)) <= MaxConcurrent

Startable(t) == wf = "running" /\ Ready(t) /\ Cardinality(RunningOf(AgentOf[t])) < MaxConcurrent

\* No pass is lost: a task that can start in a running workflow does not wait for a call
\* that nobody makes (of whatever made it startable, something runs the next pass).
ReadyTasksGo == \A t \in Tasks : Startable(t) ~> ~Startable(t)
-----------------------------------------------------------------------------
(************ what the repository says, and the code does not do ***********)

\* completeWorkflowIfDone: "A workflow is 'done' once every task has reached a terminal
\* state [...] requiring every() task to be completed would hang forever."
DoneWorkflowsComplete ==
    LET done == wf = "running" /\ {status[t] : t \in Assigned} \subseteq Final /\ Assigned # {}
    IN done ~> ~done

\* armWatchdog: "the workflow and its still-open tasks are forced to a terminal [...]
\* state"; coordination_stop_workflow: "Stop a workflow, abort active assigned runs".
NothingRunsWhenStopped == wf \in Stopped => \A t \in Tasks : status[t] # "running"
=============================================================================
