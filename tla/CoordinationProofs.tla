------------------------- MODULE CoordinationProofs -------------------------
(***************************************************************************)
(* For any tasks, agents, limits and faults: a workflow that was stopped   *)
(* has at most one run left; an outcome stays, unless a task is reported   *)
(* as blocked; no task is handed over twice; and no agent works on more    *)
(* tasks than its limit.  The last two say what they assume of reports.    *)
(***************************************************************************)
EXTENDS Coordination, FiniteSetTheorems, SequenceTheorems, TLAPS

IsSeq(s) == \E S : s \in Seq(S)

IsRun(x) == DOMAIN x = {"task", "at"} /\ x = [f \in {"task", "at"} |-> x[f]]
IsPass(x) == DOMAIN x = {"at", "todo", "count"} /\ x = [f \in {"at", "todo", "count"} |-> x[f]]

Shaped ==
    /\ IsSeq(runs) /\ \A r \in DOMAIN runs : IsRun(runs[r])
    /\ IsSeq(passes) /\ \A i \in DOMAIN passes : IsPass(passes[i])

\* Only the first pass in line has begun.
HeadOnly == \A i \in DOMAIN passes : i > 1 => passes[i].at = "queued"

NoneDispatching == \A i \in DOMAIN passes : passes[i].at # "dispatching"

\* After a stop nothing is left, or it is the one run that was being dispatched, and no other is.
Quiet == Alive = {} \/ (\E r : Alive = {r} /\ NoneDispatching)

IInv == Shaped /\ HeadOnly /\ (wf \in Stopped => Quiet)
-----------------------------------------------------------------------------
LEMMA NewPassShape == IsPass(NewPass) /\ NewPass.at = "queued"
<1>1. DOMAIN NewPass = {"at", "todo", "count"} /\ NewPass.at = "queued"
  BY DEF NewPass
<1>2. NewPass = [f \in {"at", "todo", "count"} |-> NewPass[f]]
  BY DEF NewPass
<1>3. QED
  BY <1>1, <1>2 DEF IsPass

\* Passes join the line behind the others, and have not begun.
LEMMA Joined ==
    ASSUME Shaped, NEW n \in Nat, PassesAdded(n)
    PROVE  /\ IsSeq(passes') /\ \A i \in DOMAIN passes' : IsPass(passes'[i])
           /\ HeadOnly => HeadOnly'
           /\ NoneDispatching => NoneDispatching'
           /\ \A i \in DOMAIN passes' : \/ i \in DOMAIN passes /\ passes'[i] = passes[i]
                                     \/ passes'[i].at = "queued"
<1>1. PICK S : passes \in Seq(S)
  BY DEF Shaped, IsSeq
<1> DEFINE more == [i \in 1..n |-> NewPass]
<1>2. more \in Seq(S \cup {NewPass}) /\ Len(more) = n /\ passes \in Seq(S \cup {NewPass})
  BY <1>1
<1>3. passes' = passes \o more
  BY DEF PassesAdded
<1>4. \A i \in 1..n : more[i] = NewPass
  OBVIOUS
<1> HIDE DEF more
<1>5. /\ passes' \in Seq(S \cup {NewPass}) /\ Len(passes') = Len(passes) + n
      /\ \A i \in 1..Len(passes') :
            passes'[i] = IF i <= Len(passes) THEN passes[i] ELSE more[i - Len(passes)]
  BY <1>2, <1>3, ConcatProperties
<1>6. \A i \in DOMAIN passes' : \/ i \in DOMAIN passes /\ passes'[i] = passes[i]
                           \/ passes'[i] = NewPass
  BY <1>1, <1>4, <1>5
<1>7. IsSeq(passes')
  BY <1>5 DEF IsSeq
<1>8. QED
  BY <1>6, <1>7, NewPassShape DEF Shaped, HeadOnly, NoneDispatching

\* A pass goes on, or ends, and the others move up.
LEMMA PassChanged ==
    ASSUME Shaped, HeadOnly, NEW x, IsPass(x), passes # <<>>, passes' = [passes EXCEPT ![1] = x]
    PROVE  /\ IsSeq(passes') /\ \A i \in DOMAIN passes' : IsPass(passes'[i])
           /\ HeadOnly'
           /\ NoneDispatching' <=> x.at # "dispatching"
           /\ \A i \in DOMAIN passes' : passes'[i].at # "queued" => passes'[i] = x
<1>1. PICK S : passes \in Seq(S)
  BY DEF Shaped, IsSeq
<1>2. 1 \in DOMAIN passes
  BY <1>1
<1>3. passes' \in Seq(S \cup {x}) /\ DOMAIN passes' = DOMAIN passes
  BY <1>1, <1>2
<1>4. passes'[1] = x /\ \A i \in DOMAIN passes : i # 1 => passes'[i] = passes[i]
  BY <1>1, <1>2
<1>5. \A i \in DOMAIN passes : i # 1 => passes[i].at = "queued"
  BY <1>1 DEF HeadOnly
<1>6. QED
  BY <1>2, <1>3, <1>4, <1>5 DEF Shaped, HeadOnly, NoneDispatching, IsSeq

LEMMA PassEnded ==
    ASSUME Shaped, HeadOnly, passes # <<>>, PassEnds(1)
    PROVE  /\ IsSeq(passes') /\ \A i \in DOMAIN passes' : IsPass(passes'[i])
           /\ HeadOnly' /\ NoneDispatching'
           /\ \A i \in DOMAIN passes' : passes'[i].at = "queued"
<1>1. PICK S : passes \in Seq(S)
  BY DEF Shaped, IsSeq
<1>2. Len(passes) - 1 \in Nat
  BY <1>1
<1>3. passes' = [j \in 1..(Len(passes) - 1) |-> passes[j + 1]]
  BY <1>2 DEF PassEnds
<1>4. /\ passes' \in Seq(S)
      /\ \A j \in DOMAIN passes' : j + 1 \in DOMAIN passes /\ j + 1 > 1 /\ passes'[j] = passes[j + 1]
  BY <1>1, <1>2, <1>3
<1>5. QED
  BY <1>4 DEF Shaped, HeadOnly, NoneDispatching, IsSeq
-----------------------------------------------------------------------------
SameTasks == DOMAIN runs' = DOMAIN runs /\ \A r \in DOMAIN runs : runs'[r].task = runs[r].task

LEMMA RunsEnded ==
    ASSUME Shaped, NEW R, runs' = RunsOver(R)
    PROVE  /\ IsSeq(runs') /\ \A r \in DOMAIN runs' : IsRun(runs'[r])
           /\ Alive' = Alive \ R /\ SameTasks
<1>1. PICK S : runs \in Seq(S)
  BY DEF Shaped, IsSeq
<1> DEFINE ended(r) == [runs[r] EXCEPT !.at = "over"]
<1>2. /\ DOMAIN runs' = DOMAIN runs
      /\ \A r \in DOMAIN runs : runs'[r] = IF r \in R THEN ended(r) ELSE runs[r]
  BY DEF RunsOver
<1>3. \A r \in DOMAIN runs :
          IsRun(ended(r)) /\ ended(r).at = "over" /\ ended(r).task = runs[r].task
  BY DEF Shaped, IsRun
<1>4. runs' \in Seq(S \cup {ended(r) : r \in DOMAIN runs})
  BY <1>1 DEF RunsOver
<1> HIDE DEF ended
<1>5. QED
  BY <1>2, <1>3, <1>4 DEF Shaped, IsSeq, Alive, SameTasks

LEMMA RunChanged ==
    ASSUME Shaped, NEW r \in Alive, NEW place, place # "over",
           runs' = [runs EXCEPT ![r].at = place]
    PROVE  /\ IsSeq(runs') /\ \A k \in DOMAIN runs' : IsRun(runs'[k])
           /\ Alive' = Alive /\ SameTasks
<1>1. PICK S : runs \in Seq(S)
  BY DEF Shaped, IsSeq
<1> DEFINE x == [runs[r] EXCEPT !.at = place]
<1>2. r \in DOMAIN runs /\ IsRun(x) /\ x.at = place /\ x.task = runs[r].task
  BY DEF Alive, Shaped, IsRun
<1>3. runs' = [runs EXCEPT ![r] = x]
  BY <1>1
<1> HIDE DEF x
<1>4. runs' \in Seq(S \cup {x}) /\ DOMAIN runs' = DOMAIN runs
  BY <1>1, <1>2, <1>3
<1>5. \A k \in DOMAIN runs : runs'[k] = IF k = r THEN x ELSE runs[k]
  BY <1>2, <1>3
<1>6. QED
  BY <1>2, <1>4, <1>5 DEF Shaped, IsSeq, Alive, SameTasks

LEMMA RunAdded ==
    ASSUME Shaped, NEW x, IsRun(x), runs' = Append(runs, x)
    PROVE  /\ IsSeq(runs') /\ \A k \in DOMAIN runs' : IsRun(runs'[k])
           /\ Alive' \subseteq Alive \cup {Len(runs) + 1}
           /\ DOMAIN runs' = DOMAIN runs \cup {Len(runs) + 1} /\ runs'[Len(runs) + 1] = x
           /\ \A k \in DOMAIN runs : runs'[k] = runs[k]
<1>1. PICK S : runs \in Seq(S)
  BY DEF Shaped, IsSeq
<1>2. runs \in Seq(S \cup {x}) /\ x \in S \cup {x}
  BY <1>1
<1>3. /\ runs' \in Seq(S \cup {x}) /\ DOMAIN runs' = DOMAIN runs \cup {Len(runs) + 1}
      /\ \A k \in DOMAIN runs : runs'[k] = runs[k]
      /\ runs'[Len(runs) + 1] = x
  BY <1>2
<1>4. QED
  BY <1>3 DEF Shaped, IsSeq, Alive

\* There are finitely many runs, so that a stop can count those it aborts.
LEMMA AliveFinite ==
    ASSUME Shaped
    PROVE  IsFiniteSet(Alive) /\ Cardinality(Alive) \in Nat
<1>1. PICK S : runs \in Seq(S)
  BY DEF Shaped, IsSeq
<1>2. Alive \subseteq 1..Len(runs) /\ Len(runs) \in Nat
  BY <1>1 DEF Alive
<1>3. IsFiniteSet(1..Len(runs))
  BY <1>2, FS_Interval
<1>4. QED
  BY <1>2, <1>3, FS_Subset, FS_CardinalityType
-----------------------------------------------------------------------------
\* A step that starts no run, and stops the workflow only with all its runs.
LEMMA StaysQuiet ==
    ASSUME IInv,
           IsSeq(runs') /\ \A r \in DOMAIN runs' : IsRun(runs'[r]),
           IsSeq(passes') /\ \A i \in DOMAIN passes' : IsPass(passes'[i]),
           HeadOnly',
           Alive' \subseteq Alive,
           wf' \in Stopped => wf \in Stopped \/ Alive' = {},
           wf \in Stopped /\ NoneDispatching => NoneDispatching'
    PROVE  IInv'
<1>1. Shaped'
  BY DEF Shaped
<1>2. ASSUME wf' \in Stopped PROVE Quiet'
  <2>1. CASE Alive' = {}
    BY <2>1 DEF Quiet
  <2>2. CASE Alive' # {}
    <3>1. wf \in Stopped /\ Alive # {}
      BY <1>2, <2>2
    <3>2. PICK r : Alive = {r} /\ NoneDispatching
      BY <3>1 DEF IInv, Quiet
    <3>3. Alive' = {r} /\ NoneDispatching'
      BY <2>2, <3>1, <3>2
    <3>4. QED
      BY <3>3 DEF Quiet
  <2>3. QED
    BY <2>1, <2>2
<1>3. QED
  BY <1>1, <1>2 DEF IInv

\* A step of which the line of passes sees at most that it grows.
LEMMA LineGrows ==
    ASSUME IInv, UNCHANGED passes \/ \E n \in Nat : PassesAdded(n),
           IsSeq(runs') /\ \A r \in DOMAIN runs' : IsRun(runs'[r]),
           Alive' \subseteq Alive,
           wf' \in Stopped => wf \in Stopped \/ Alive' = {}
    PROVE  IInv'
<1>1. CASE UNCHANGED passes
  BY <1>1, StaysQuiet DEF IInv, Shaped, HeadOnly, NoneDispatching
<1>2. CASE \E n \in Nat : PassesAdded(n)
  BY <1>2, Joined, StaysQuiet DEF IInv
<1>3. QED
  BY <1>1, <1>2

LEMMA SameRuns ==
    ASSUME Shaped, UNCHANGED runs
    PROVE  IsSeq(runs') /\ (\A r \in DOMAIN runs' : IsRun(runs'[r])) /\ Alive' = Alive
BY DEF Shaped, Alive

\* The manager and the task tools.
LEMMA CallStep ==
    ASSUME IInv,
           \/ StartWorkflow \/ PauseWorkflow \/ ResumeWorkflow
           \/ \E t \in Tasks : \/ AssignTask(t) \/ TaskBlocked(t) \/ TaskComplete(t)
                               \/ \E s \in Reported : TaskUpdate(t, s)
    PROVE  IInv'
<1>1. UNCHANGED runs
  BY DEF StartWorkflow, PauseWorkflow, ResumeWorkflow, AssignTask, TaskUpdate, TaskBlocked,
     TaskComplete
<1>2. UNCHANGED passes \/ \E n \in Nat : PassesAdded(n)
  BY DEF StartWorkflow, PauseWorkflow, ResumeWorkflow, AssignTask, TaskUpdate, TaskBlocked,
     TaskComplete
<1>3. wf' \in Stopped => wf \in Stopped
  BY DEF StartWorkflow, PauseWorkflow, ResumeWorkflow, AssignTask, TaskUpdate, TaskBlocked,
     TaskComplete, CompletedIfDone, Stopped
<1>4. QED
  BY <1>1, <1>2, <1>3, SameRuns, LineGrows DEF IInv

\* A stop aborts all runs there are.
LEMMA StopStep ==
    ASSUME IInv, StopWorkflow \/ TriggerWatchdog
    PROVE  IInv'
<1>1. runs' = RunsOver(Alive) /\ PassesAdded(Cardinality(Alive))
  BY DEF StopWorkflow, TriggerWatchdog, AbortAll
<1>2. Alive' = {} /\ IsSeq(runs') /\ \A r \in DOMAIN runs' : IsRun(runs'[r])
  BY <1>1, RunsEnded DEF IInv
<1>3. Cardinality(Alive) \in Nat
  BY AliveFinite DEF IInv
<1>4. QED
  BY <1>1, <1>2, <1>3, LineGrows

\* The events of a run.
LEMMA FailedRuns ==
    ASSUME IInv, NEW r, Failed(r)
    PROVE  /\ IsSeq(runs') /\ (\A k \in DOMAIN runs' : IsRun(runs'[k])) /\ Alive' \subseteq Alive
           /\ PassesAdded(1)
BY RunsEnded DEF IInv, Failed

LEMMA SpendsStep ==
    ASSUME IInv, NEW r \in Alive, Spends(r)
    PROVE  IInv'
<1>1. CASE wf' = "paused" /\ Failed(r)
  BY <1>1, FailedRuns, LineGrows DEF Stopped
<1>2. CASE runs' = [runs EXCEPT ![r].at = "running"] /\ UNCHANGED <<wf, passes>>
  <2>1. IsSeq(runs') /\ (\A k \in DOMAIN runs' : IsRun(runs'[k])) /\ Alive' = Alive
    BY <1>2, RunChanged DEF IInv
  <2>2. QED
    BY <1>2, <2>1, LineGrows
<1>3. QED
  BY <1>1, <1>2 DEF Spends

LEMMA EventStep ==
    ASSUME IInv, NEW r \in DOMAIN runs,
           RunStarts(r) \/ RunEnds(r) \/ RunCallsTool(r) \/ RunFails(r) \/ RunVanishes(r)
    PROVE  IInv'
<1>1. CASE RunStarts(r) \/ RunCallsTool(r)
  <2>1. r \in Alive /\ Spends(r)
    BY <1>1 DEF RunStarts, RunCallsTool, Alive
  <2>2. QED
    BY <2>1, SpendsStep
<1>2. CASE RunEnds(r)
  <2>1. runs' = RunsOver({r}) /\ PassesAdded(1) /\ (wf' \in Stopped => wf \in Stopped)
    BY <1>2 DEF RunEnds, CompletedIfDone, Stopped
  <2>2. QED
    BY <2>1, RunsEnded, LineGrows DEF IInv
<1>3. CASE RunFails(r)
  <2>1. Failed(r) /\ (wf' \in Stopped => wf \in Stopped)
    BY <1>3 DEF RunFails, CompletedIfDone, Stopped
  <2>2. QED
    BY <2>1, FailedRuns, LineGrows
<1>4. CASE RunVanishes(r)
  <2>1. runs' = [runs EXCEPT ![r].at = "over"] /\ UNCHANGED <<wf, passes>>
    BY <1>4 DEF RunVanishes
  <2>2. runs' = RunsOver({r})
    <3>1. PICK S : runs \in Seq(S)
      BY DEF IInv, Shaped, IsSeq
    <3>2. QED
      BY <2>1, <3>1 DEF RunsOver
  <2>3. QED
    BY <2>1, <2>2, RunsEnded, LineGrows DEF IInv
<1>5. QED
  BY <1>1, <1>2, <1>3, <1>4
-----------------------------------------------------------------------------
\* A dispatch pass.

LEMMA PassShape ==
    ASSUME NEW a, NEW b, NEW c
    PROVE  IsPass([at |-> a, todo |-> b, count |-> c])
<1> DEFINE x == [at |-> a, todo |-> b, count |-> c]
<1>1. DOMAIN x = {"at", "todo", "count"}
  OBVIOUS
<1>2. x = [f \in {"at", "todo", "count"} |-> x[f]]
  OBVIOUS
<1>3. QED
  BY <1>1, <1>2 DEF IsPass

LEMMA PassGoesOnStep ==
    ASSUME IInv, NEW i, PassGoesOn(i)
    PROVE  IInv'
<1>1. i = 1 /\ passes # <<>> /\ UNCHANGED <<wf, runs>>
  BY DEF PassGoesOn, UnderWay
<1>2. CASE PassEnds(1)
  BY <1>1, <1>2, PassEnded, SameRuns, StaysQuiet DEF IInv
<1>3. ASSUME NEW b, NEW c,
             passes' = [passes EXCEPT ![1] =
                 [at |-> IF wf = "running" THEN "dispatching" ELSE "looping",
                  todo |-> b, count |-> c]]
      PROVE  IInv'
  <2> DEFINE place == IF wf = "running" THEN "dispatching" ELSE "looping"
             x == [at |-> place, todo |-> b, count |-> c]
  <2>1. IsPass(x) /\ x.at = place
    BY PassShape
  <2>2. wf \in Stopped => place # "dispatching"
    BY DEF Stopped
  <2>3. passes' = [passes EXCEPT ![1] = x]
    BY <1>3
  <2> HIDE DEF x, place
  <2>4. /\ IsSeq(passes') /\ \A k \in DOMAIN passes' : IsPass(passes'[k])
        /\ HeadOnly'
        /\ NoneDispatching' <=> x.at # "dispatching"
    BY <1>1, <2>1, <2>3, PassChanged DEF IInv
  <2>5. QED
    BY <1>1, <2>1, <2>2, <2>4, SameRuns, StaysQuiet DEF IInv
<1>4. PassEnds(1) \/ \E b, c : passes' = [passes EXCEPT ![1] =
                 [at |-> IF wf = "running" THEN "dispatching" ELSE "looping",
                  todo |-> b, count |-> c]]
  BY <1>1 DEF PassGoesOn
<1>5. QED
  BY <1>2, <1>3, <1>4

\* What is left of the first pass when task t was handed over.
PassWithout(t) == [passes[1] EXCEPT !.at = "looping", !.todo = @ \ {t}]

LEMMA TaskHandedOver ==
    ASSUME IInv, NEW i, Dispatching(i), NEW t
    PROVE  /\ i = 1 /\ passes # <<>> /\ ~NoneDispatching
           /\ NextTask(i, t) = [passes EXCEPT ![1] = PassWithout(t)]
           /\ IsPass(PassWithout(t)) /\ PassWithout(t).at = "looping"
<1>1. PICK S : passes \in Seq(S)
  BY DEF IInv, Shaped, IsSeq
<1>2. i = 1 /\ passes # <<>> /\ passes[1].at = "dispatching"
  BY DEF Dispatching, UnderWay
<1>3. 1 \in DOMAIN passes /\ IsPass(passes[1])
  BY <1>1, <1>2 DEF IInv, Shaped
<1>4. IsPass(PassWithout(t)) /\ PassWithout(t).at = "looping"
  BY <1>3 DEF IsPass, PassWithout
<1>5. NextTask(i, t) = [passes EXCEPT ![1] = PassWithout(t)]
  BY <1>1, <1>2, <1>3 DEF NextTask, PassWithout
<1>6. QED
  BY <1>2, <1>3, <1>4, <1>5 DEF NoneDispatching

\* The one run that a stop may leave.
LEMMA DispatchedStep ==
    ASSUME IInv, NEW i, NEW ended \in BOOLEAN, Dispatched(i, ended)
    PROVE  IInv'
<1>1. PICK t \in Tasks :
          /\ Dispatching(i) /\ passes' = NextTask(i, t) /\ UNCHANGED wf
          /\ runs' = Append(runs, [task |-> t, at |-> IF ended THEN "over" ELSE "queued"])
  BY DEF Dispatched
<1> DEFINE x == PassWithout(t)
<1>2. /\ i = 1 /\ passes # <<>> /\ ~NoneDispatching
      /\ passes' = [passes EXCEPT ![1] = x] /\ IsPass(x) /\ x.at = "looping"
  BY <1>1, TaskHandedOver
<1> HIDE DEF x
<1>3. /\ IsSeq(passes') /\ \A k \in DOMAIN passes' : IsPass(passes'[k])
      /\ HeadOnly' /\ NoneDispatching'
  BY <1>2, PassChanged DEF IInv
<1> DEFINE place == IF ended THEN "over" ELSE "queued"
           new == [task |-> t, at |-> place]
<1>4. runs' = Append(runs, new)
  BY <1>1
<1>5. IsRun(new)
  <2>1. DOMAIN new = {"task", "at"}
    OBVIOUS
  <2>2. new = [f \in {"task", "at"} |-> new[f]]
    OBVIOUS
  <2>3. QED
    BY <2>1, <2>2 DEF IsRun
<1> HIDE DEF new
<1>6. /\ IsSeq(runs') /\ \A k \in DOMAIN runs' : IsRun(runs'[k])
      /\ Alive' \subseteq Alive \cup {Len(runs) + 1}
  BY <1>4, <1>5, RunAdded DEF IInv
<1>7. wf' \in Stopped => Alive = {}
  BY <1>1, <1>2 DEF IInv, Quiet
<1>8. wf' \in Stopped => Quiet'
  BY <1>3, <1>6, <1>7 DEF Quiet
<1>9. QED
  BY <1>3, <1>6, <1>8 DEF IInv, Shaped

LEMMA DispatchFailsStep ==
    ASSUME IInv, NEW i, DispatchFails(i)
    PROVE  IInv'
<1>1. PICK t \in Tasks :
          /\ Dispatching(i) /\ UNCHANGED runs /\ (wf' \in Stopped => wf \in Stopped)
          /\ passes' = [NextTask(i, t) EXCEPT ![i].count[AgentOf[t]] = @ - 1]
  BY DEF DispatchFails, CompletedIfDone, Stopped
<1> DEFINE x == PassWithout(t)
           y == [x EXCEPT !.count[AgentOf[t]] = @ - 1]
<1>2. /\ i = 1 /\ passes # <<>> /\ ~NoneDispatching
      /\ NextTask(i, t) = [passes EXCEPT ![1] = x] /\ IsPass(x) /\ x.at = "looping"
  BY <1>1, TaskHandedOver
<1> HIDE DEF x
<1>3. PICK S : passes \in Seq(S)
  BY DEF IInv, Shaped, IsSeq
<1>4. IsPass(y) /\ y.at = "looping"
  BY <1>2 DEF IsPass
<1>5. passes' = [passes EXCEPT ![1] = y]
  BY <1>1, <1>2, <1>3
<1> HIDE DEF y
<1>6. /\ IsSeq(passes') /\ \A k \in DOMAIN passes' : IsPass(passes'[k])
      /\ HeadOnly' /\ NoneDispatching'
  BY <1>2, <1>4, <1>5, PassChanged DEF IInv
<1>7. QED
  BY <1>1, <1>6, SameRuns, StaysQuiet DEF IInv

LEMMA RestartStep ==
    ASSUME IInv, Restart
    PROVE  IInv'
<1>1. runs' = RunsOver(DOMAIN runs) /\ passes' = <<>> /\ UNCHANGED wf
  BY DEF Restart
<1>2. Alive' = {} /\ IsSeq(runs') /\ \A r \in DOMAIN runs' : IsRun(runs'[r])
  <2>1. Alive \subseteq DOMAIN runs
    BY DEF Alive
  <2>2. QED
    BY <1>1, <2>1, RunsEnded DEF IInv
<1>3. IsSeq(passes') /\ DOMAIN passes' = {}
  BY <1>1 DEF IsSeq
<1>4. QED
  BY <1>1, <1>2, <1>3, StaysQuiet DEF HeadOnly, NoneDispatching
-----------------------------------------------------------------------------
LEMMA InitInvariant == Init => IInv
<1> SUFFICES ASSUME Init PROVE IInv
  OBVIOUS
<1>1. runs \in Seq({}) /\ passes \in Seq({}) /\ DOMAIN runs = {} /\ DOMAIN passes = {}
  BY DEF Init
<1>2. QED
  BY <1>1 DEF Init, IInv, Shaped, IsSeq, HeadOnly, Stopped

LEMMA StepInvariant ==
    ASSUME IInv, [Next]_vars
    PROVE  IInv'
<1>1. CASE UNCHANGED vars
  BY <1>1 DEF vars, IInv, Shaped, HeadOnly, Quiet, NoneDispatching, Alive
<1>2. CASE \/ StartWorkflow \/ PauseWorkflow \/ ResumeWorkflow
           \/ \E t \in Tasks : \/ AssignTask(t) \/ TaskBlocked(t) \/ TaskComplete(t)
                               \/ \E s \in Reported : TaskUpdate(t, s)
  BY <1>2, CallStep
<1>3. CASE StopWorkflow \/ TriggerWatchdog
  BY <1>3, StopStep
<1>4. ASSUME NEW i \in DOMAIN passes, PassSteps(i) \/ Dispatched(i, TRUE) \/ DispatchFails(i)
      PROVE  IInv'
  BY <1>4, PassGoesOnStep, DispatchedStep, DispatchFailsStep DEF PassSteps
<1>5. ASSUME NEW r \in DOMAIN runs,
             RunProceeds(r) \/ RunCallsTool(r) \/ RunFails(r) \/ RunVanishes(r)
      PROVE  IInv'
  BY <1>5, EventStep DEF RunProceeds
<1>6. QED
  BY <1>1, <1>2, <1>3, <1>4, <1>5, RestartStep DEF Next

\* A stop or the watchdog "forces" a workflow to its end (coordination-service.ts:658-662): at most
\* one of its runs is left, the one that was being dispatched, whatever comes afterwards.
THEOREM StopIsQuiet == Spec => []StopLeavesAtMostOne
<1>1. ASSUME IInv PROVE StopLeavesAtMostOne
  <2>1. CASE Alive = {}
    BY <2>1, FS_EmptySet DEF StopLeavesAtMostOne
  <2>2. ASSUME NEW r, Alive = {r} PROVE StopLeavesAtMostOne
    <3>1. Cardinality({r}) = 1
      BY FS_Singleton
    <3>2. QED
      BY <2>2, <3>1 DEF StopLeavesAtMostOne
  <2>3. QED
    BY <1>1, <2>1, <2>2 DEF IInv, Quiet, StopLeavesAtMostOne
<1>2. QED
  BY <1>1, InitInvariant, StepInvariant, PTL DEF Spec

\* End of the last task, stop and watchdog compete for the outcome, and the first one stays, for any
\* tasks, reports and faults: only taskBlocked looks at nothing.
THEOREM OutcomeIsKept == Spec => FinalOutcomeStays
<1> DEFINE Kept == wf \in Terminal => wf' = "needs_human_input"
<1>1. [Next]_vars => [Kept]_wf
  <2> SUFFICES ASSUME [Next]_vars, wf' # wf, wf \in Terminal PROVE wf' = "needs_human_input"
    OBVIOUS
  <2>1. wf \notin {"draft", "running", "paused", "needs_human_input"}
    BY DEF Terminal, Stopped
  <2>2. CASE \/ StartWorkflow \/ PauseWorkflow \/ ResumeWorkflow \/ StopWorkflow
             \/ TriggerWatchdog \/ Restart
    BY <2>1, <2>2 DEF StartWorkflow, PauseWorkflow, ResumeWorkflow, StopWorkflow, TriggerWatchdog,
       Restart
  <2>3. ASSUME NEW t \in Tasks, AssignTask(t) \/ TaskBlocked(t) \/ TaskComplete(t)
                                \/ \E s \in Reported : TaskUpdate(t, s)
        PROVE  wf' = "needs_human_input"
    BY <2>1, <2>3 DEF AssignTask, TaskBlocked, TaskComplete, TaskUpdate, CompletedIfDone
  <2>4. ASSUME NEW i \in DOMAIN passes, PassSteps(i) \/ Dispatched(i, TRUE) \/ DispatchFails(i)
        PROVE  wf' = "needs_human_input"
    BY <2>1, <2>4 DEF PassSteps, PassGoesOn, Dispatched, DispatchFails, CompletedIfDone
  <2>5. ASSUME NEW r \in DOMAIN runs,
               RunProceeds(r) \/ RunCallsTool(r) \/ RunFails(r) \/ RunVanishes(r)
        PROVE  wf' = "needs_human_input"
    BY <2>1, <2>5 DEF RunProceeds, RunStarts, RunEnds, RunCallsTool, RunFails, RunVanishes,
       Spends, CompletedIfDone
  <2>6. QED
    BY <2>2, <2>3, <2>4, <2>5 DEF Next, vars
<1> HIDE DEF Kept
<1>2. Spec => [][Kept]_wf
  BY <1>1, PTL DEF Spec
<1>3. QED
  BY <1>2 DEF FinalOutcomeStays, Kept
-----------------------------------------------------------------------------
(***************************************************************************)
(* Dispatching.  A task in the loop of a pass has no run yet, and the      *)
(* slots the pass has counted cover the tasks that run.                    *)
(***************************************************************************)
StatusTyped == status \in [Tasks -> TaskStatuses \cup {"none"}]

HasRun(t) == \E r \in DOMAIN runs : runs[r].task = t

HandedOnce ==
    /\ OneRunPerTask
    /\ \A t \in Tasks : status[t] \in {"none", "pending"} => ~HasRun(t)
    /\ \A i \in DOMAIN passes : passes[i].at # "queued" =>
          \A t \in passes[i].todo : ~HasRun(t)

\* How many tasks of the agent run.
Load(a) == Cardinality(RunningOf(a))

CountOK(p) ==
    /\ p.count \in [Agents -> Nat]
    /\ \A a \in Agents : Load(a) <= p.count[a] /\ p.count[a] <= MaxConcurrent
    /\ p.at = "dispatching" =>
          \A t \in Tasks : First(t, p.todo) => Load(AgentOf[t]) + 1 <= p.count[AgentOf[t]]

Slots ==
    /\ WithinCap
    /\ \A i \in DOMAIN passes : passes[i].at # "queued" => CountOK(passes[i])

\* What is assumed of reports: none sends a task back to the beginning; none says that a task
\* runs which does not.
NoneSentBack == "pending" \notin Reported
NoneStarted == "running" \in Reported => ~Late

\* No pass that has begun is touched.
LineKept == \A i \in DOMAIN passes' : passes'[i].at # "queued" =>
                i \in DOMAIN passes /\ passes'[i] = passes[i]

StatusKept(some) == \A t \in Tasks : status'[t] \in some => status[t] \in some

\* Everything but the steps of a pass.
Elsewhere ==
    \/ StartWorkflow \/ PauseWorkflow \/ ResumeWorkflow \/ StopWorkflow
    \/ TriggerWatchdog \/ Restart
    \/ \E t \in Tasks : \/ AssignTask(t) \/ TaskBlocked(t) \/ TaskComplete(t)
                        \/ \E s \in Reported : TaskUpdate(t, s)
    \/ \E r \in DOMAIN runs : RunProceeds(r) \/ RunCallsTool(r) \/ RunFails(r) \/ RunVanishes(r)

LEMMA ElsewhereKeeps ==
    ASSUME IInv, Elsewhere
    PROVE  LineKept /\ SameTasks
<1>1. LineKept
  <2>1. UNCHANGED passes \/ passes' = <<>> \/ \E n \in Nat : PassesAdded(n)
    <3>1. Cardinality(Alive) \in Nat
      BY AliveFinite DEF IInv
    <3>2. QED
      BY <3>1 DEF Elsewhere, StartWorkflow, PauseWorkflow, ResumeWorkflow, StopWorkflow,
         TriggerWatchdog, Restart, AbortAll, AssignTask, TaskBlocked, TaskComplete, TaskUpdate,
         RunProceeds, RunStarts, RunEnds, RunCallsTool, RunFails, RunVanishes, Spends, Failed
  <2>2. QED
    BY <2>1, Joined DEF LineKept, IInv
<1>2. SameTasks
  <2>1. \/ UNCHANGED runs
        \/ \E R : runs' = RunsOver(R)
        \/ \E r \in Alive : runs' = [runs EXCEPT ![r].at = "running"]
        \/ \E r : RunVanishes(r)
    BY DEF Elsewhere, StartWorkflow, PauseWorkflow, ResumeWorkflow, StopWorkflow,
       TriggerWatchdog, Restart, AbortAll, AssignTask, TaskBlocked, TaskComplete, TaskUpdate,
       RunProceeds, RunStarts, RunEnds, RunCallsTool, RunFails, Spends, Failed, Alive
  <2>2. ASSUME NEW r, RunVanishes(r) PROVE runs' = RunsOver({r})
    <3>1. PICK S : runs \in Seq(S)
      BY DEF IInv, Shaped, IsSeq
    <3>2. QED
      BY <2>2, <3>1 DEF RunVanishes, RunsOver
  <2>3. UNCHANGED runs => SameTasks
    BY DEF SameTasks
  <2>4. QED
    BY <2>1, <2>2, <2>3, RunsEnded, RunChanged DEF IInv
<1>3. QED
  BY <1>1, <1>2

\* What becomes of a status elsewhere: a task is assigned once, reported on, or ends.
LEMMA ElsewhereStatus ==
    ASSUME StatusTyped, Elsewhere
    PROVE  /\ StatusTyped'
           /\ NoneSentBack => StatusKept({"none", "pending"})
           /\ NoneStarted => StatusKept({"running"})
<1> USE DEF StatusTyped, StatusKept
<1>1. CASE UNCHANGED status
  BY <1>1
<1>2. ASSUME NEW t \in Tasks, AssignTask(t) \/ TaskBlocked(t) \/ TaskComplete(t)
      PROVE  StatusTyped' /\ StatusKept({"none", "pending"}) /\ StatusKept({"running"})
  BY <1>2 DEF AssignTask, TaskBlocked, TaskComplete, TaskStatuses
<1>3. ASSUME NEW t \in Tasks, NEW s \in Reported, TaskUpdate(t, s)
      PROVE  /\ StatusTyped'
             /\ NoneSentBack => StatusKept({"none", "pending"})
             /\ NoneStarted => StatusKept({"running"})
  <2>1. status' = [status EXCEPT ![t] = s] /\ s \in TaskStatuses /\ s # "none" /\ MayReport(t)
    BY <1>3, CoordinationConstants DEF TaskUpdate, TaskStatuses
  <2>2. NoneSentBack => s # "pending"
    BY DEF NoneSentBack
  <2>3. NoneStarted /\ s = "running" => status[t] = "running"
    BY <2>1 DEF NoneStarted, MayReport
  <2>4. QED
    BY <2>1, <2>2, <2>3
<1>4. ASSUME NEW R, status' = Errored(R) \/ status' = OpenCancelled(Errored(R))
      PROVE  StatusTyped' /\ StatusKept({"none", "pending"}) /\ StatusKept({"running"})
  <2>1. \A t \in Tasks : Errored(R)[t] = "failed" \/ Errored(R)[t] = status[t]
    BY DEF Errored
  <2>2. \A t \in Tasks : \/ OpenCancelled(Errored(R))[t] = "cancelled"
                         \/ OpenCancelled(Errored(R))[t] = Errored(R)[t]
    BY DEF OpenCancelled
  <2>3. status' = [t \in Tasks |-> status'[t]]
    BY <1>4 DEF Errored, OpenCancelled
  <2>4. \A t \in Tasks : status'[t] \in {"failed", "cancelled", status[t]}
    BY <1>4, <2>1, <2>2
  <2>5. QED
    BY <2>3, <2>4 DEF TaskStatuses
<1>5. ASSUME NEW r, RunEnds(r)
      PROVE  StatusTyped' /\ StatusKept({"none", "pending"}) /\ StatusKept({"running"})
  <2>1. PICK t : status' = [status EXCEPT ![t] = IF @ = "running" THEN "completed" ELSE @]
    BY <1>5 DEF RunEnds
  <2>2. QED
    BY <2>1 DEF TaskStatuses
<1>6. \/ UNCHANGED status
      \/ \E t \in Tasks : \/ AssignTask(t) \/ TaskBlocked(t) \/ TaskComplete(t)
                          \/ \E s \in Reported : TaskUpdate(t, s)
      \/ \E R : status' = Errored(R) \/ status' = OpenCancelled(Errored(R))
      \/ \E r : RunEnds(r)
  BY DEF Elsewhere, StartWorkflow, PauseWorkflow, ResumeWorkflow, StopWorkflow, TriggerWatchdog,
     Restart, AbortAll, RunProceeds, RunStarts, RunCallsTool, RunFails, RunVanishes, Spends, Failed
<1>7. QED
  BY <1>1, <1>2, <1>3, <1>4, <1>5, <1>6

\* What a pass works on, and what is left of it when it goes on with task t.
Rest(t) == [at    |-> IF wf = "running" THEN "dispatching" ELSE "looping",
            todo  |-> {u \in Snapshot(1).todo : u > t \/ (u = t /\ wf = "running")},
            count |-> [Snapshot(1).count EXCEPT ![AgentOf[t]] = @ + 1]]
Free == {t \in Snapshot(1).todo : Snapshot(1).count[AgentOf[t]] < MaxConcurrent}

LEMMA PassGoesOnFacts ==
    ASSUME IInv, NEW i, PassGoesOn(i)
    PROVE  /\ UNCHANGED <<status, runs>> /\ 1 \in DOMAIN passes
           /\ \/ \A j \in DOMAIN passes' : passes'[j].at = "queued"
              \/ \E t \in Tasks :
                    /\ First(t, Free)
                    /\ \A j \in DOMAIN passes' : passes'[j].at # "queued" => passes'[j] = Rest(t)
<1>1. /\ i = 1 /\ passes # <<>> /\ UNCHANGED <<status, runs>>
      /\ PassEnds(1) \/ \E t \in Tasks : First(t, Free) /\ passes' = [passes EXCEPT ![1] = Rest(t)]
  BY DEF PassGoesOn, UnderWay, Free, Rest
<1>2. 1 \in DOMAIN passes
  <2>1. PICK S : passes \in Seq(S)
    BY DEF IInv, Shaped, IsSeq
  <2>2. QED
    BY <1>1, <2>1
<1>3. CASE PassEnds(1)
  BY <1>1, <1>2, <1>3, PassEnded DEF IInv
<1>4. ASSUME NEW t \in Tasks, First(t, Free), passes' = [passes EXCEPT ![1] = Rest(t)]
      PROVE  \A j \in DOMAIN passes' : passes'[j].at # "queued" => passes'[j] = Rest(t)
  <2>1. IsPass(Rest(t))
    BY PassShape DEF Rest
  <2>2. QED
    BY <1>1, <1>4, <2>1, PassChanged DEF IInv
<1>5. QED
  BY <1>1, <1>2, <1>3, <1>4

LEMMA DispatchedFacts ==
    ASSUME IInv, NEW i, NEW ended \in BOOLEAN, Dispatched(i, ended)
    PROVE  \E t \in Tasks :
              /\ 1 \in DOMAIN passes /\ passes[1].at = "dispatching" /\ First(t, passes[1].todo)
              /\ status' = [status EXCEPT ![t] = "running"]
              /\ \E r : /\ DOMAIN runs' = DOMAIN runs \cup {r} /\ runs'[r].task = t
                        /\ \A k \in DOMAIN runs : runs'[k] = runs[k] /\ k # r
              /\ \A j \in DOMAIN passes' : passes'[j].at # "queued" => passes'[j] = PassWithout(t)
<1>1. PICK t \in Tasks :
          /\ Dispatching(i) /\ passes' = NextTask(i, t) /\ First(t, passes[i].todo)
          /\ status' = [status EXCEPT ![t] = "running"]
          /\ runs' = Append(runs, [task |-> t, at |-> IF ended THEN "over" ELSE "queued"])
  BY DEF Dispatched
<1>2. /\ i = 1 /\ passes # <<>> /\ passes' = [passes EXCEPT ![1] = PassWithout(t)]
      /\ IsPass(PassWithout(t)) /\ passes[1].at = "dispatching"
  BY <1>1, TaskHandedOver DEF Dispatching
<1>3. \A j \in DOMAIN passes' : passes'[j].at # "queued" => passes'[j] = PassWithout(t)
  BY <1>2, PassChanged DEF IInv
<1>4. 1 \in DOMAIN passes
  <2>1. PICK S : passes \in Seq(S)
    BY DEF IInv, Shaped, IsSeq
  <2>2. QED
    BY <1>2, <2>1
<1>5. PICK S : runs \in Seq(S)
  BY DEF IInv, Shaped, IsSeq
<1>6. /\ DOMAIN runs' = DOMAIN runs \cup {Len(runs) + 1} /\ runs'[Len(runs) + 1].task = t
      /\ \A k \in DOMAIN runs : runs'[k] = runs[k] /\ k # Len(runs) + 1
  <2> DEFINE place == IF ended THEN "over" ELSE "queued"
             new == [task |-> t, at |-> place]
  <2>1. new.task = t /\ runs' = Append(runs, new)
    BY <1>1
  <2> HIDE DEF new
  <2>2. runs \in Seq(S \cup {new}) /\ new \in S \cup {new}
    BY <1>5
  <2>3. QED
    BY <2>1, <2>2
<1>7. \E r : /\ DOMAIN runs' = DOMAIN runs \cup {r} /\ runs'[r].task = t
            /\ \A k \in DOMAIN runs : runs'[k] = runs[k] /\ k # r
  BY <1>6
<1>8. /\ 1 \in DOMAIN passes /\ passes[1].at = "dispatching" /\ First(t, passes[1].todo)
      /\ status' = [status EXCEPT ![t] = "running"]
  BY <1>1, <1>2, <1>4
<1>9. QED
  BY <1>3, <1>7, <1>8

\* The same, with a slot of its agent given back.
PassFreed(t) == [PassWithout(t) EXCEPT !.count[AgentOf[t]] = @ - 1]

LEMMA DispatchFailsFacts ==
    ASSUME IInv, NEW i, DispatchFails(i)
    PROVE  \E t \in Tasks :
              /\ 1 \in DOMAIN passes /\ passes[1].at = "dispatching" /\ First(t, passes[1].todo)
              /\ status' = [status EXCEPT ![t] = "failed"] /\ UNCHANGED runs
              /\ \A j \in DOMAIN passes' : passes'[j].at # "queued" => passes'[j] = PassFreed(t)
<1>1. PICK t \in Tasks :
          /\ Dispatching(i) /\ First(t, passes[i].todo) /\ UNCHANGED runs
          /\ status' = [status EXCEPT ![t] = "failed"]
          /\ passes' = [NextTask(i, t) EXCEPT ![i].count[AgentOf[t]] = @ - 1]
  BY DEF DispatchFails
<1> DEFINE x == PassWithout(t)
           y == [x EXCEPT !.count[AgentOf[t]] = @ - 1]
<1>2. /\ i = 1 /\ passes # <<>> /\ passes[1].at = "dispatching"
      /\ NextTask(i, t) = [passes EXCEPT ![1] = x] /\ IsPass(x)
  BY <1>1, TaskHandedOver DEF Dispatching
<1> HIDE DEF x
<1>3. PICK S : passes \in Seq(S)
  BY DEF IInv, Shaped, IsSeq
<1>4. IsPass(y)
  BY <1>2 DEF IsPass
<1>5. passes' = [passes EXCEPT ![1] = y]
  BY <1>1, <1>2, <1>3
<1> HIDE DEF y
<1>6. \A j \in DOMAIN passes' : passes'[j].at # "queued" => passes'[j] = y
  BY <1>2, <1>4, <1>5, PassChanged DEF IInv
<1>7. 1 \in DOMAIN passes
  BY <1>2, <1>3
<1>8. QED
  BY <1>1, <1>2, <1>6, <1>7 DEF x, y, PassFreed
LEMMA PassWithoutFields ==
    ASSUME IInv, 1 \in DOMAIN passes, NEW t
    PROVE  /\ PassWithout(t).at = "looping" /\ PassWithout(t).todo = passes[1].todo \ {t}
           /\ PassWithout(t).count = passes[1].count
           /\ PassFreed(t).at = "looping" /\ PassFreed(t).todo = passes[1].todo \ {t}
           /\ PassFreed(t).count = [passes[1].count EXCEPT ![AgentOf[t]] = @ - 1]
<1> DEFINE p == PassWithout(t)
<1>1. IsPass(passes[1])
  BY DEF IInv, Shaped
<1>2. /\ p.at = "looping" /\ p.todo = passes[1].todo \ {t} /\ p.count = passes[1].count
      /\ DOMAIN p = {"at", "todo", "count"}
  BY <1>1 DEF IsPass, PassWithout
<1> HIDE DEF p
<1>3. QED
  BY <1>2 DEF p, PassFreed
-----------------------------------------------------------------------------
LEMMA HandedStep ==
    ASSUME IInv, StatusTyped, HandedOnce, NoneSentBack, [Next]_vars
    PROVE  HandedOnce'
<1>1. ASSUME SameTasks PROVE OneRunPerTask' /\ \A t : HasRun(t)' <=> HasRun(t)
  BY <1>1 DEF SameTasks, HandedOnce, OneRunPerTask, HasRun
<1>2. CASE UNCHANGED vars
  BY <1>2 DEF vars, HandedOnce, OneRunPerTask, HasRun
<1>3. CASE Elsewhere
  <2>1. LineKept /\ SameTasks /\ StatusKept({"none", "pending"})
    BY <1>3, ElsewhereKeeps, ElsewhereStatus
  <2>2. QED
    BY <1>1, <2>1 DEF HandedOnce, LineKept, StatusKept
<1>4. ASSUME NEW i, PassGoesOn(i) PROVE HandedOnce'
  <2>1. UNCHANGED <<status, runs>> /\ 1 \in DOMAIN passes
    BY <1>4, PassGoesOnFacts
  <2>2. OneRunPerTask' /\ \A t : HasRun(t)' <=> HasRun(t)
    BY <2>1 DEF HandedOnce, OneRunPerTask, HasRun
  <2>3. \A t \in Snapshot(1).todo : ~HasRun(t)
    BY <2>1 DEF Snapshot, ReadyTasks, Ready, HandedOnce
  <2>4. \A j \in DOMAIN passes' : passes'[j].at # "queued" =>
            \A t \in passes'[j].todo : ~HasRun(t)
    <3>1. \A t : Rest(t).todo \subseteq Snapshot(1).todo
      BY DEF Rest
    <3>2. QED
      BY <1>4, <2>3, <3>1, PassGoesOnFacts
  <2>5. QED
    BY <2>1, <2>2, <2>4 DEF HandedOnce
<1>5. ASSUME NEW i, NEW ended \in BOOLEAN, Dispatched(i, ended) PROVE HandedOnce'
  <2>1. PICK t \in Tasks :
            /\ 1 \in DOMAIN passes /\ passes[1].at = "dispatching" /\ First(t, passes[1].todo)
            /\ status' = [status EXCEPT ![t] = "running"]
            /\ \E r : /\ DOMAIN runs' = DOMAIN runs \cup {r} /\ runs'[r].task = t
                      /\ \A k \in DOMAIN runs : runs'[k] = runs[k] /\ k # r
            /\ \A j \in DOMAIN passes' : passes'[j].at # "queued" => passes'[j] = PassWithout(t)
    BY <1>5, DispatchedFacts
  <2>2. ~HasRun(t) /\ \A u \in passes[1].todo : ~HasRun(u)
    BY <2>1 DEF HandedOnce, First
  <2>3. OneRunPerTask'
    BY <2>1, <2>2 DEF HandedOnce, OneRunPerTask, HasRun
  <2>4. \A u : HasRun(u)' => u = t \/ HasRun(u)
    BY <2>1 DEF HasRun
  <2>5. \A u \in Tasks : status'[u] \in {"none", "pending"} => ~HasRun(u)'
    BY <2>1, <2>4 DEF HandedOnce, StatusTyped
  <2>6. \A u \in PassWithout(t).todo : ~HasRun(u)'
    <3>1. PassWithout(t).todo = passes[1].todo \ {t}
      BY <2>1, PassWithoutFields
    <3>2. QED
      BY <2>2, <2>4, <3>1
  <2>7. QED
    BY <2>1, <2>3, <2>5, <2>6 DEF HandedOnce
<1>6. ASSUME NEW i, DispatchFails(i) PROVE HandedOnce'
  <2>1. PICK t \in Tasks :
            /\ 1 \in DOMAIN passes /\ passes[1].at = "dispatching"
            /\ status' = [status EXCEPT ![t] = "failed"] /\ UNCHANGED runs
            /\ \A j \in DOMAIN passes' : passes'[j].at # "queued" => passes'[j] = PassFreed(t)
    BY <1>6, DispatchFailsFacts
  <2>2. OneRunPerTask' /\ \A u : HasRun(u)' <=> HasRun(u)
    BY <2>1 DEF HandedOnce, OneRunPerTask, HasRun
  <2>3. PassFreed(t).todo \subseteq passes[1].todo
    BY <2>1, PassWithoutFields
  <2>4. \A j \in DOMAIN passes' : passes'[j].at # "queued" => \A u \in passes'[j].todo : ~HasRun(u)
    BY <2>1, <2>3 DEF HandedOnce
  <2>5. QED
    BY <2>1, <2>2, <2>4 DEF HandedOnce, StatusTyped
<1>7. QED
  BY <1>2, <1>3, <1>4, <1>5, <1>6 DEF Next, PassSteps, Elsewhere

LEMMA StatusStep ==
    ASSUME IInv, StatusTyped, [Next]_vars
    PROVE  StatusTyped'
<1>1. CASE UNCHANGED vars
  BY <1>1 DEF vars, StatusTyped
<1>2. CASE Elsewhere
  BY <1>2, ElsewhereStatus
<1>3. ASSUME NEW i, PassGoesOn(i) PROVE StatusTyped'
  BY <1>3 DEF PassGoesOn, StatusTyped
<1>4. ASSUME NEW i, DispatchFails(i) \/ \E ended : Dispatched(i, ended) PROVE StatusTyped'
  BY <1>4 DEF DispatchFails, Dispatched, StatusTyped, TaskStatuses
<1>5. QED
  BY <1>1, <1>2, <1>3, <1>4 DEF Next, PassSteps, Elsewhere

LEMMA InitDispatch == Init => StatusTyped /\ HandedOnce
<1> SUFFICES ASSUME Init PROVE StatusTyped /\ HandedOnce
  OBVIOUS
<1>1. DOMAIN runs = {} /\ DOMAIN passes = {} /\ StatusTyped
  BY DEF Init, StatusTyped
<1>2. QED
  BY <1>1 DEF HandedOnce, OneRunPerTask, HasRun

\* Every change of a task calls dispatchReadyTasks, and a pass awaits the agent between reading a
\* task and marking it as running; still no task is handed over twice, whoever reports what and
\* when, runs vanish or the process restarts, as long as no report makes a task pending again.
THEOREM HandedOverOnce ==
    ASSUME NoneSentBack
    PROVE  Spec => []OneRunPerTask
<1> DEFINE Inv == IInv /\ StatusTyped /\ HandedOnce
<1>1. Init => Inv
  BY InitInvariant, InitDispatch
<1>2. Inv /\ [Next]_vars => Inv'
  BY StepInvariant, StatusStep, HandedStep
<1>3. Inv => OneRunPerTask
  BY DEF HandedOnce
<1>4. QED
  BY <1>1, <1>2, <1>3, PTL DEF Spec
-----------------------------------------------------------------------------
LEMMA LoadIsCount == ASSUME NEW a PROVE IsFiniteSet(RunningOf(a)) /\ Load(a) \in Nat
<1>1. RunningOf(a) \subseteq Tasks /\ IsFiniteSet(Tasks)
  BY CoordinationConstants DEF RunningOf
<1>2. QED
  BY <1>1, FS_Subset, FS_CardinalityType DEF Load

LEMMA LoadFalls ==
    ASSUME StatusKept({"running"}), NEW a
    PROVE  Load(a)' <= Load(a)
<1>1. RunningOf(a)' \subseteq RunningOf(a)
  BY DEF StatusKept, RunningOf
<1>2. QED
  BY <1>1, LoadIsCount, FS_Subset DEF Load

\* One more task runs: its agent's load rises by one at most, no other agent's rises.
LEMMA LoadRises ==
    ASSUME StatusTyped, NEW t \in Tasks, status' = [status EXCEPT ![t] = "running"], NEW a
    PROVE  Load(a)' <= Load(a) + 1 /\ (a # AgentOf[t] => Load(a)' <= Load(a))
<1>1. RunningOf(a)' \subseteq RunningOf(a) \cup {t} /\ (a # AgentOf[t] => RunningOf(a)' \subseteq RunningOf(a))
  BY DEF StatusTyped, RunningOf
<1>2. /\ IsFiniteSet(RunningOf(a) \cup {t})
      /\ Cardinality(RunningOf(a) \cup {t}) \in {Load(a), Load(a) + 1}
  BY LoadIsCount, FS_AddElement DEF Load
<1>3. Cardinality(RunningOf(a)') <= Cardinality(RunningOf(a) \cup {t})
  BY <1>1, <1>2, FS_Subset
<1>4. a # AgentOf[t] => Cardinality(RunningOf(a)') <= Load(a)
  BY <1>1, LoadIsCount, FS_Subset DEF Load
<1>5. Load(a)' = Cardinality(RunningOf(a)') /\ Load(a)' \in Nat
  <2>1. RunningOf(a)' \subseteq Tasks
    BY DEF RunningOf
  <2>2. QED
    BY <2>1, FS_Subset, FS_CardinalityType, CoordinationConstants DEF Load
<1>6. QED
  BY <1>2, <1>3, <1>4, <1>5, LoadIsCount

\* The counts of the head cover the load when no task begins to run.
LEMMA CountHolds ==
    ASSUME NEW p, CountOK(p), \A a \in Agents : Load(a)' <= Load(a) /\ Load(a)' \in Nat
    PROVE  CountOK(p)'
<1>1. \A t \in Tasks : AgentOf[t] \in Agents
  BY CoordinationConstants
<1>2. \A a \in Agents : Load(a) \in Nat /\ p.count[a] \in Nat
  BY LoadIsCount DEF CountOK
<1>3. QED
  BY <1>1, <1>2 DEF CountOK

LEMMA SlotsStep ==
    ASSUME IInv, StatusTyped, Slots, NoneStarted, [Next]_vars
    PROVE  Slots'
<1>1. MaxConcurrent \in Nat /\ \A t \in Tasks : AgentOf[t] \in Agents /\ t \in Nat
  BY CoordinationConstants
<1>2. \A a : Load(a)' \in Nat
  <2>1. \A a : RunningOf(a)' \subseteq Tasks
    BY DEF RunningOf
  <2>2. QED
    BY <2>1, FS_Subset, FS_CardinalityType, CoordinationConstants DEF Load
<1>3. ASSUME StatusKept({"running"})
      PROVE  /\ WithinCap' /\ \A a \in Agents : Load(a)' <= Load(a) /\ Load(a)' \in Nat
             /\ \A p : CountOK(p) => CountOK(p)'
  <2>1. \A a \in Agents : Load(a)' <= Load(a)
    BY <1>3, LoadFalls
  <2>2. WithinCap'
    BY <1>1, <1>2, <2>1, LoadIsCount DEF Slots, WithinCap, Load
  <2>3. QED
    BY <1>2, <2>1, <2>2, CountHolds
<1>4. CASE UNCHANGED vars
  BY <1>4 DEF vars, Slots, WithinCap, CountOK, Load, RunningOf
<1>5. CASE Elsewhere
  <2>1. LineKept /\ StatusKept({"running"})
    BY <1>5, ElsewhereKeeps, ElsewhereStatus
  <2>2. QED
    BY <1>3, <2>1 DEF Slots, LineKept
<1>6. ASSUME NEW i, PassGoesOn(i) PROVE Slots'
  <2>1. UNCHANGED status /\ StatusKept({"running"}) /\ 1 \in DOMAIN passes
    BY <1>6, PassGoesOnFacts DEF StatusKept
  <2> DEFINE p == Snapshot(1)
  <2>2. /\ p.count \in [Agents -> Nat]
        /\ \A a \in Agents : Load(a) <= p.count[a] /\ p.count[a] <= MaxConcurrent
    <3>1. CASE passes[1].at = "queued"
      <4>1. p.count = [a \in Agents |-> Load(a)]
        BY <3>1 DEF Snapshot, Load
      <4>2. \A a \in Agents : Load(a) \in Nat /\ Load(a) <= MaxConcurrent
        BY LoadIsCount DEF Slots, WithinCap, Load
      <4>3. QED
        BY <4>1, <4>2
    <3>2. CASE passes[1].at # "queued"
      <4>1. p = passes[1] /\ CountOK(passes[1])
        BY <2>1, <3>2 DEF Snapshot, Slots
      <4>2. QED
        BY <4>1 DEF CountOK
    <3>3. QED
      BY <3>1, <3>2
  <2>3. ASSUME NEW t \in Tasks, First(t, Free) PROVE CountOK(Rest(t))
    <3> DEFINE a == AgentOf[t]
               x == Rest(t)
    <3>1. t \in p.todo /\ p.count[a] < MaxConcurrent /\ a \in Agents
      BY <1>1, <2>3 DEF First, Free
    <3>2. /\ x.count = [p.count EXCEPT ![a] = @ + 1]
          /\ x.at = IF wf = "running" THEN "dispatching" ELSE "looping"
          /\ x.todo = {u \in p.todo : u > t \/ (u = t /\ wf = "running")}
      BY DEF Rest
    <3> HIDE DEF p, x, a
    <3>3. /\ x.count \in [Agents -> Nat]
          /\ \A b \in Agents : p.count[b] <= x.count[b] /\ x.count[b] <= MaxConcurrent
          /\ x.count[a] = p.count[a] + 1
      BY <1>1, <2>2, <3>1, <3>2
    <3>4. \A b \in Agents : Load(b) <= x.count[b]
      BY <2>2, <3>3, LoadIsCount
    <3>5. ASSUME x.at = "dispatching", NEW u \in Tasks, First(u, x.todo) PROVE u = t
      <4>1. wf = "running" /\ t \in x.todo
        BY <3>1, <3>2, <3>5
      <4>2. u <= t /\ (u > t \/ u = t)
        BY <3>2, <3>5, <4>1 DEF First
      <4>3. QED
        BY <1>1, <4>2
    <3>6. Load(a) + 1 <= x.count[a]
      BY <2>2, <3>1, <3>3, LoadIsCount
    <3>7. QED
      BY <3>3, <3>4, <3>5, <3>6 DEF CountOK, x, a
  <2>4. \A j \in DOMAIN passes' : passes'[j].at # "queued" => CountOK(passes'[j])
    BY <1>6, <2>3, PassGoesOnFacts
  <2>5. QED
    BY <1>3, <2>1, <2>4 DEF Slots
<1>7. ASSUME NEW i, NEW ended \in BOOLEAN, Dispatched(i, ended) PROVE Slots'
  <2>1. PICK t \in Tasks :
            /\ 1 \in DOMAIN passes /\ passes[1].at = "dispatching" /\ First(t, passes[1].todo)
            /\ status' = [status EXCEPT ![t] = "running"]
            /\ \A j \in DOMAIN passes' : passes'[j].at # "queued" => passes'[j] = PassWithout(t)
    BY <1>7, DispatchedFacts
  <2> DEFINE count == passes[1].count
  <2>2. /\ count \in [Agents -> Nat] /\ Load(AgentOf[t]) + 1 <= count[AgentOf[t]]
        /\ \A a \in Agents : Load(a) <= count[a] /\ count[a] <= MaxConcurrent
    BY <2>1 DEF Slots, CountOK
  <2> HIDE DEF count
  <2>3. \A a \in Agents : Load(a)' <= count[a]
    <3>1. \A a \in Agents : Load(a) \in Nat /\ count[a] \in Nat
      BY <2>2, LoadIsCount
    <3>2. ASSUME NEW a \in Agents PROVE Load(a)' <= count[a]
      <4>1. Load(a)' <= Load(a) + 1 /\ (a # AgentOf[t] => Load(a)' <= Load(a))
        BY <2>1, LoadRises
      <4>2. CASE a = AgentOf[t]
        BY <1>2, <2>2, <3>1, <4>1, <4>2
      <4>3. CASE a # AgentOf[t]
        BY <1>2, <2>2, <3>1, <4>1, <4>3
      <4>4. QED
        BY <4>2, <4>3
    <3>3. QED
      BY <3>2
  <2>4. WithinCap'
    BY <1>1, <1>2, <2>2, <2>3 DEF WithinCap, Load
  <2>5. PassWithout(t).count = count /\ PassWithout(t).at = "looping"
    BY <2>1, PassWithoutFields DEF count
  <2>6. \A j \in DOMAIN passes' : passes'[j].at # "queued" => CountOK(passes[j])'
    <3>1. ASSUME NEW j \in DOMAIN passes', passes'[j].at # "queued" PROVE CountOK(passes[j])'
      <4>1. passes'[j].count = count /\ passes'[j].at = "looping"
        BY <2>1, <2>5, <3>1
      <4>2. QED
        BY <2>2, <2>3, <4>1 DEF CountOK
    <3>2. QED
      BY <3>1
  <2>7. QED
    BY <2>4, <2>6 DEF Slots
<1>8. ASSUME NEW i, DispatchFails(i) PROVE Slots'
  <2>1. PICK t \in Tasks :
            /\ 1 \in DOMAIN passes /\ passes[1].at = "dispatching" /\ First(t, passes[1].todo)
            /\ status' = [status EXCEPT ![t] = "failed"]
            /\ \A j \in DOMAIN passes' : passes'[j].at # "queued" => passes'[j] = PassFreed(t)
    BY <1>8, DispatchFailsFacts
  <2>2. StatusKept({"running"})
    BY <2>1 DEF StatusKept, StatusTyped
  <2> DEFINE count == passes[1].count
             a == AgentOf[t]
  <2>3. /\ count \in [Agents -> Nat] /\ Load(a) + 1 <= count[a] /\ a \in Agents
        /\ \A b \in Agents : Load(b) <= count[b] /\ count[b] <= MaxConcurrent
    BY <1>1, <2>1 DEF Slots, CountOK
  <2>4. PassFreed(t).count = [count EXCEPT ![a] = @ - 1] /\ PassFreed(t).at = "looping"
    BY <2>1, PassWithoutFields
  <2> HIDE DEF count, a
  <2> DEFINE freed == [count EXCEPT ![a] = @ - 1]
  <2>5. /\ freed \in [Agents -> Nat]
        /\ \A b \in Agents : Load(b) <= freed[b] /\ freed[b] <= MaxConcurrent
    <3>1. \A b \in Agents : Load(b) \in Nat /\ count[b] \in Nat
      BY <2>3, LoadIsCount
    <3>2. QED
      BY <1>1, <2>3, <3>1
  <2> HIDE DEF freed
  <2>6. CountOK(PassFreed(t))
    BY <2>4, <2>5 DEF CountOK, freed
  <2>7. \A j \in DOMAIN passes' : passes'[j].at # "queued" => CountOK(passes'[j])
    BY <2>1, <2>6
  <2>8. QED
    BY <1>3, <2>2, <2>7 DEF Slots
<1>9. QED
  BY <1>4, <1>5, <1>6, <1>7, <1>8 DEF Next, PassSteps, Elsewhere

\* The slots of an agent are counted when a pass begins and used after its awaits; no agent gets
\* above maxConcurrentTasks, whatever tasks end, block or are assigned meanwhile, as long as no
\* report says of a task that does not run that it is running.
THEOREM SlotsAreKept ==
    ASSUME NoneStarted
    PROVE  Spec => []WithinCap
<1> DEFINE Inv == IInv /\ StatusTyped /\ Slots
<1>1. Init => Inv
  <2>1. Init => Slots
    <3> SUFFICES ASSUME Init PROVE Slots
      OBVIOUS
    <3>1. DOMAIN passes = {} /\ \A a : RunningOf(a) = {}
      BY DEF Init, RunningOf
    <3>2. Cardinality({}) = 0 /\ MaxConcurrent \in Nat /\ 0 <= MaxConcurrent
      BY FS_EmptySet, CoordinationConstants
    <3>3. WithinCap
      BY <3>1, <3>2 DEF WithinCap
    <3>4. QED
      BY <3>1, <3>3 DEF Slots
  <2>2. QED
    BY <2>1, InitInvariant, InitDispatch
<1>2. Inv /\ [Next]_vars => Inv'
  BY StepInvariant, StatusStep, SlotsStep
<1>3. Inv => WithinCap
  BY DEF Slots
<1>4. QED
  BY <1>1, <1>2, <1>3, PTL DEF Spec
=============================================================================
