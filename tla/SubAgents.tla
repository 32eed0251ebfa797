----------------------------- MODULE SubAgents -----------------------------
(***************************************************************************)
(* Sub-agents: one-shot child runs a parent session spawns, and the yield  *)
(* by which it waits for them.                                             *)
(*                                                                         *)
(* Four pieces of code share the state: the tools sessions_spawn,          *)
(* sessions_yield and subagents (any number of calls at once: tools of one *)
(* turn execute in parallel), the SubAgentRegistry, the executor with      *)
(* RunCoordinator.runChild, and the coordinator's map of abort handlers,   *)
(* which kill, abort and destroy fire.  kid[c].at names the await where    *)
(* the code working for child c is suspended; each action is one stretch   *)
(* between two awaits.                                                     *)
(***************************************************************************)
EXTENDS Naturals, Sequences, FiniteSets

CONSTANTS Children,   (* the child runs that may ever be spawned        *)
          Parents,    (* the parent sessions                            *)
          None,
          MaxYields,  (* bound: sessions_yield calls per parent session *)
          Faults      (* the less common paths an instance explores     *)

AllFaults == {"unpersisted",  \* persisting the spawn or its metadata throws
              "claimed",      \* a hook answers instead of the model
              "thrown",       \* hooks, the model or finalizing the transcript throw
              "rejected",     \* runChild itself rejects
              "aborted",      \* agent:abort names a child's run
              "deleted",      \* the parent session is deleted
              "orphaned",     \* a child's session entry is deleted
              "destroyed"}    \* the coordinator is destroyed

ASSUME SubAgentsConstants == /\ None \notin Parents
                             /\ MaxYields \in Nat \ {0}
                             /\ Faults \subseteq AllFaults

VARIABLES reg,     (* the registry: record.status per child                           *)
          kid,     (* per child: its caller, its code, its abort handler, its entry   *)
          yields,  (* per parent session: the yields made, in order                   *)
          pend,    (* this.yields: the number of the session's pending yield, or 0    *)
          timers,  (* the yield timers that are armed                                 *)
          alive,   (* per parent session: its entry is in the store                   *)
          process  (* "up", "destroyed" (the coordinator) or "crashed" (the process)  *)

vars == <<reg, kid, yields, pend, timers, alive, process>>

Final == {"completed", "error", "killed"}
Statuses == {"none", "running"} \cup Final

Places == {"idle",       \* not spawned
           "recording",  \* sessions_spawn: writing the audit entry to the parent's transcript,
                         \* then creating the child's session entry
           "opening",    \* runChild: reading the child's session entry
           "preflight",  \* runChild: hooks, user message
           "prompting",  \* runChild: childRuntime.prompt
           "closing",    \* runChild: finalizing the child transcript
           "patching",   \* runChild: writing the final status to the session entry
           "done"}

\* How sessions_spawn waits: not at all, for the result, or no more (its timeout fired).
Callers == {"async", "waiting", "left"}

NewKid == [at      |-> "idle",
           parent  |-> None,     \* record.parentSessionKey
           caller  |-> "waiting",
           handler |-> FALSE,    \* the coordinator's childAborts has it
           aborted |-> FALSE,    \* the handler fired: aborted, abortRequested
           told    |-> FALSE,    \* childRuntime.abort() reached its prompt
           ending  |-> "none",   \* the status runChild is about to write and return
           caught  |-> FALSE,    \* its code is in the catch block
           meta    |-> "none"]   \* the child's session entry: its status, or "gone"

NewYield == [at |-> "pending", reason |-> None, results |-> <<>>]

Init == /\ reg = [c \in Children |-> "none"]
        /\ kid = [c \in Children |-> NewKid]
        /\ yields = [s \in Parents |-> <<>>]
        /\ pend = [s \in Parents |-> 0]
        /\ timers = {}
        /\ alive = [s \in Parents |-> TRUE]
        /\ process = "up"

ChildrenOf(s) == {c \in Children : kid[c].parent = s}
-----------------------------------------------------------------------------
(****************************** the registry *******************************)

\* Mutant of FinishYield: the timer is not cleared.
FinishYieldTicking(R, s, reason) ==
    /\ yields' = [yields EXCEPT ![s][pend[s]] =
                     [at      |-> "lookup",
                      reason  |-> reason,
                      results |-> [c \in ChildrenOf(s) |-> R[c]]]]
    /\ pend' = [pend EXCEPT ![s] = 0]
    /\ UNCHANGED timers

\* finishYield with records R: the results are fixed, and handleYieldResume starts.
FinishYield(R, s, reason) ==
    /\ yields' = [yields EXCEPT ![s][pend[s]] =
                     [at      |-> "lookup",
                      reason  |-> reason,
                      results |-> [c \in ChildrenOf(s) |-> R[c]]]]
    /\ pend' = [pend EXCEPT ![s] = 0]
    /\ timers' = timers \ {<<s, pend[s]>>}

\* Mutant of MaybeResolve: any child that ends ends the yield.
MaybeResolveEarly(R, s) ==
    IF pend[s] # 0
    THEN FinishYield(R, s, "all-complete")
    ELSE UNCHANGED <<yields, pend, timers>>

\* maybeResolveYield: the last running child of the session ends its pending yield.
MaybeResolve(R, s) ==
    IF pend[s] # 0 /\ \A c \in ChildrenOf(s) : R[c] # "running"
    THEN FinishYield(R, s, "all-complete")
    ELSE UNCHANGED <<yields, pend, timers>>

\* Mutant of Settle: no status guard.
SettleAgain(c, status) ==
    LET R == [reg EXCEPT ![c] = status]
    IN reg' = R /\ MaybeResolve(R, kid[c].parent)

\* Mutant of Settle: the yield is forgotten.
SettleQuietly(c, status) ==
    /\ reg' = IF reg[c] = "running" THEN [reg EXCEPT ![c] = status] ELSE reg
    /\ UNCHANGED <<yields, pend, timers>>

\* onComplete, onError and kill: only a running record changes.
Settle(c, status) ==
    IF reg[c] = "running"
    THEN LET R == [reg EXCEPT ![c] = status]
         IN reg' = R /\ MaybeResolve(R, kid[c].parent)
    ELSE UNCHANGED <<reg, yields, pend, timers>>

NoRegistryChange == UNCHANGED <<reg, yields, pend, timers>>

\* RunCoordinator.abort of a child run: fire the handler, if there is one, and drop it.
\* (The handler of a child that has ended finds nothing to stop.)
Fired(K, c) == IF K[c].handler
               THEN [K EXCEPT ![c].aborted = K[c].at # "done",
                              ![c].told = K[c].at = "prompting",
                              ![c].handler = FALSE]
               ELSE K
-----------------------------------------------------------------------------
(***************************** sessions_spawn ******************************)

Spawn(c, s, caller) ==
    /\ process = "up" /\ kid[c].at = "idle"
    /\ reg' = [reg EXCEPT ![c] = "running"]
    /\ kid' = [kid EXCEPT ![c].at = "recording", ![c].parent = s, ![c].caller = caller]
    /\ UNCHANGED <<yields, pend, timers, alive, process>>

\* The code for child c has ended: what it kept in local variables is gone.
Ended(K, c) == [K EXCEPT ![c].at = "done", ![c].caller = "left", ![c].aborted = FALSE,
                         ![c].ending = "none", ![c].caught = FALSE]

\* The catch block of sessions_spawn reports the error to the model, and nothing else.
SpawnFails(c) ==
    /\ "unpersisted" \in Faults
    /\ kid[c].at = "recording"
    /\ kid' = Ended(kid, c)
    /\ NoRegistryChange /\ UNCHANGED <<alive, process>>

\* The entry is there: dispatch registers the abort handler and runChild starts.  Nothing
\* asks whether the record is still running.
SpawnRecorded(c) ==
    /\ kid[c].at = "recording"
    /\ kid' = [kid EXCEPT ![c].at = "opening", ![c].meta = "running", ![c].handler = TRUE]
    /\ NoRegistryChange /\ UNCHANGED <<alive, process>>

\* Mutant of WaitTimesOut: the catch block unregisters the handler.
WaitTimesOutDeaf(c) ==
    /\ kid[c].caller = "waiting"
    /\ kid[c].at \in {"opening", "preflight", "prompting", "closing", "patching"}
    /\ kid' = [kid EXCEPT ![c].caller = "left", ![c].handler = FALSE]
    /\ NoRegistryChange /\ UNCHANGED <<alive, process>>

\* withTimeout rejects: sessions_spawn returns an error, the child goes on.
WaitTimesOut(c) ==
    /\ kid[c].caller = "waiting"
    /\ kid[c].at \in {"opening", "preflight", "prompting", "closing", "patching"}
    /\ kid' = [kid EXCEPT ![c].caller = "left"]
    /\ NoRegistryChange /\ UNCHANGED <<alive, process>>

\* runChild returned `status`.  The executor makes it "aborted" if the handler fired; a
\* caller that is still there updates the registry and unregisters the handler.
Returned(K, c, status) ==
    IF K[c].caller = "left"
    THEN kid' = Ended(K, c) /\ NoRegistryChange
    ELSE /\ kid' = [Ended(K, c) EXCEPT ![c].handler = FALSE]
         /\ IF K[c].aborted THEN NoRegistryChange ELSE Settle(c, status)

\* runChild rejected.  Whoever waits reports it, whoever has left ignores it; behind an
\* asynchronous spawn nobody handles the rejection, and the process ends.
Rejected(K, c) ==
    /\ "rejected" \in Faults
    /\ kid' = Ended(K, c)
    /\ process' = IF K[c].caller = "async" THEN "crashed" ELSE process
    /\ NoRegistryChange /\ UNCHANGED alive
-----------------------------------------------------------------------------
(********************************* runChild ********************************)

ChildOpens(c) ==
    /\ kid[c].at = "opening"
    /\ \/ /\ IF kid[c].meta = "gone"
             THEN Returned(kid, c, "error")
             ELSE /\ kid' = [kid EXCEPT ![c].at = "preflight"]
                  /\ NoRegistryChange
          /\ UNCHANGED <<alive, process>>
       \/ Rejected(kid, c)

\* From the try block or, if `caught`, from the catch block: finalize the transcript.
Closing(c, ending, caught) ==
    /\ kid' = [kid EXCEPT ![c].at = "closing", ![c].ending = ending, ![c].caught = caught,
                          ![c].told = FALSE]
    /\ NoRegistryChange /\ UNCHANGED <<alive, process>>

\* Mutant of PreflightPasses: the abort flag is not read before the prompt.
PreflightPassesDeaf(c) ==
    /\ kid[c].at = "preflight"
    /\ kid' = [kid EXCEPT ![c].at = "prompting"]
    /\ NoRegistryChange /\ UNCHANGED <<alive, process>>

\* A child that was aborted during the hooks is not prompted.
PreflightPasses(c) ==
    /\ kid[c].at = "preflight"
    /\ kid' = IF kid[c].aborted
              THEN [kid EXCEPT ![c].at = "patching", ![c].ending = "killed"]
              ELSE [kid EXCEPT ![c].at = "prompting"]
    /\ NoRegistryChange /\ UNCHANGED <<alive, process>>

ReplyClaimed(c) ==
    "claimed" \in Faults /\ kid[c].at = "preflight" /\ Closing(c, "completed", FALSE)

PromptResolves(c) ==
    /\ kid[c].at = "prompting"
    /\ Closing(c, IF kid[c].aborted THEN "killed" ELSE "completed", FALSE)

PreflightOrPromptThrows(c) ==
    "thrown" \in Faults /\ kid[c].at \in {"preflight", "prompting"} /\ Closing(c, "error", TRUE)

\* The transcript is final, or finalizing it threw: in the try block that leads to the
\* catch block, which swallows it.  The catch block reads the abort flag only now.
ClosingEnds(c) ==
    /\ kid[c].at = "closing"
    /\ \/ kid' = [kid EXCEPT ![c].at = "patching",
                             ![c].ending = IF kid[c].caught /\ kid[c].aborted THEN "killed"
                                           ELSE @]
       \/ /\ "thrown" \in Faults /\ ~kid[c].caught
          /\ kid' = [kid EXCEPT ![c].at = "patching", ![c].caught = TRUE,
                                ![c].ending = IF kid[c].aborted THEN "killed" ELSE "error"]
    /\ NoRegistryChange /\ UNCHANGED <<alive, process>>

\* patchSubAgentSessionMeta: an entry that is gone stays gone.
Patched(c) == [kid EXCEPT ![c].meta = IF @ = "gone" THEN @ ELSE kid[c].ending]

PatchingEnds(c) ==
    /\ kid[c].at = "patching"
    /\ \/ Returned(Patched(c), c, kid[c].ending) /\ UNCHANGED <<alive, process>>
       \/ "thrown" \in Faults /\ ~kid[c].caught /\ Closing(c, "error", TRUE)
       \/ kid[c].caught /\ Rejected(kid, c)
-----------------------------------------------------------------------------
(************************ kill, abort, delete, destroy *********************)

\* POST /api/subagents/:id/kill and subagents({action: "kill"}).
Kill(c) ==
    /\ process = "up" /\ reg[c] = "running"
    /\ Settle(c, "killed")
    /\ kid' = Fired(kid, c)
    /\ UNCHANGED <<alive, process>>

\* agent:abort with the child's run id: the registry is not told.
AbortChild(c) ==
    /\ "aborted" \in Faults /\ process = "up" /\ kid[c].handler
    /\ kid' = Fired(kid, c)
    /\ NoRegistryChange /\ UNCHANGED <<alive, process>>

\* A session is deleted over REST or by the retention rules.  (Deleting the entry of a child
\* that has ended, or has its final status, changes nothing here.)
DeleteParent(s) ==
    /\ "deleted" \in Faults /\ alive[s]
    /\ alive' = [alive EXCEPT ![s] = FALSE]
    /\ NoRegistryChange /\ UNCHANGED <<kid, process>>

DeleteChild(c) ==
    /\ "orphaned" \in Faults /\ kid[c].meta = "running" /\ kid[c].at # "done"
    /\ kid' = [kid EXCEPT ![c].meta = "gone"]
    /\ NoRegistryChange /\ UNCHANGED <<alive, process>>

\* cancelAllYields, then every abort handler.
Destroy ==
    /\ "destroyed" \in Faults /\ process = "up"
    /\ process' = "destroyed"
    /\ yields' = [s \in Parents |->
                     IF pend[s] = 0 THEN yields[s]
                     ELSE [yields[s] EXCEPT ![pend[s]].at = "cancelled"]]
    /\ pend' = [s \in Parents |-> 0]
    /\ timers' = {t \in timers : t[2] # pend[t[1]]}
    /\ kid' = [c \in Children |-> Fired(kid, c)[c]]
    /\ UNCHANGED <<reg, alive>>
-----------------------------------------------------------------------------
(***************************** sessions_yield ******************************)

\* Mutant of Yield: no timer is armed.
YieldUntimed(s) ==
    /\ process = "up" /\ Len(yields[s]) < MaxYields
    /\ pend[s] = 0 /\ \E c \in ChildrenOf(s) : reg[c] = "running"
    /\ yields' = [yields EXCEPT ![s] = Append(@, NewYield)]
    /\ pend' = [pend EXCEPT ![s] = Len(yields[s]) + 1]
    /\ UNCHANGED <<reg, kid, timers, alive, process>>

\* setYieldPending: one at a time, and only for children that are running.
Yield(s) ==
    /\ process = "up" /\ Len(yields[s]) < MaxYields
    /\ pend[s] = 0 /\ \E c \in ChildrenOf(s) : reg[c] = "running"
    /\ yields' = [yields EXCEPT ![s] = Append(@, NewYield)]
    /\ pend' = [pend EXCEPT ![s] = Len(yields[s]) + 1]
    /\ timers' = timers \cup {<<s, Len(yields[s]) + 1>>}
    /\ UNCHANGED <<reg, kid, alive, process>>

\* A yield timer fires.  It looks the yield up by the session's key, not by identity.
YieldTimesOut(s, n) ==
    /\ <<s, n>> \in timers
    /\ IF pend[s] # 0
       THEN FinishYield(reg, s, "timeout")
       ELSE timers' = timers \ {<<s, n>>} /\ UNCHANGED <<yields, pend>>
    /\ UNCHANGED <<reg, kid, alive, process>>

\* handleYieldResume: the parent session is looked up; if it is gone the resume is dropped.
\* Then the marker is written, or not, and the results become the parent's next message.
\* (Once they are handed over, nothing reads them here.)
Resume(s, n) ==
    /\ n \in DOMAIN yields[s] /\ yields[s][n].at = "lookup"
    /\ yields' = [yields EXCEPT ![s][n] =
                     [at |-> IF alive[s] THEN "dispatched" ELSE "dropped",
                      reason |-> None, results |-> <<>>]]
    /\ UNCHANGED <<reg, kid, pend, timers, alive, process>>
-----------------------------------------------------------------------------
\* What the code does by itself once started: file reads and writes, hooks and timers.
Continue(c) == \/ SpawnRecorded(c) \/ ChildOpens(c)
               \/ PreflightPasses(c) \/ ClosingEnds(c) \/ PatchingEnds(c)

Next == /\ process # "crashed"
        /\ \/ \E c \in Children :
                 \/ \E s \in Parents, caller \in {"async", "waiting"} : Spawn(c, s, caller)
                 \/ Continue(c)
                 \/ SpawnFails(c) \/ WaitTimesOut(c)
                 \/ ReplyClaimed(c) \/ PromptResolves(c) \/ PreflightOrPromptThrows(c)
                 \/ Kill(c) \/ AbortChild(c) \/ DeleteChild(c)
           \/ \E s \in Parents :
                 \/ DeleteParent(s)
                 \/ Yield(s)
                 \/ \E n \in 1..MaxYields : YieldTimesOut(s, n) \/ Resume(s, n)
           \/ Destroy

Spec == Init /\ [][Next]_vars

\* A prompt that was told to stop returns.
PromptStops(c) == kid[c].told /\ PromptResolves(c)

Running(A) == process # "crashed" /\ A

\* File access, hooks and timers end; nothing is assumed of a model that was not aborted.
Fairness ==
    /\ \A c \in Children : /\ WF_vars(Running(Continue(c)))
                           /\ WF_vars(Running(PromptStops(c)))
    /\ \A s \in Parents, n \in 1..MaxYields : /\ WF_vars(Running(YieldTimesOut(s, n)))
                                              /\ WF_vars(Running(Resume(s, n)))

FairSpec == Spec /\ Fairness
-----------------------------------------------------------------------------
(******************************* properties ********************************)

Yields == [at      : {"pending", "lookup", "dispatched", "dropped", "cancelled"},
           reason  : {None, "all-complete", "timeout"},
           results : {<<>>} \cup UNION {[C -> Statuses \ {"none"}] : C \in SUBSET Children}]

TypeOK ==
    /\ reg \in [Children -> Statuses]
    /\ kid \in [Children -> [at : Places, parent : Parents \cup {None}, caller : Callers,
                             handler : BOOLEAN, aborted : BOOLEAN, told : BOOLEAN,
                             ending : {"none"} \cup Final, caught : BOOLEAN,
                             meta : Statuses \cup {"gone"}]]
    /\ \A s \in Parents : /\ Len(yields[s]) <= MaxYields
                          /\ \A n \in 1..Len(yields[s]) : yields[s][n] \in Yields
                          /\ pend[s] \in 0..Len(yields[s])
    /\ timers \subseteq Parents \X (1..MaxYields)
    /\ alive \in [Parents -> BOOLEAN]
    /\ process \in {"up", "destroyed", "crashed"}

\* A session never waits for nothing: while its yield is pending, one of its children is
\* recorded as running.  (The end of the last one is what ends the yield.)
PendingYieldHasRunningChild ==
    \A s \in Parents : pend[s] # 0 => \E c \in ChildrenOf(s) : reg[c] = "running"

\* A timer never ends another yield than its own: it is armed exactly as long as its yield
\* is the session's pending one, though it knows only the session's key.
TimersOwnTheirYield == timers = {<<s, pend[s]>> : s \in {p \in Parents : pend[p] # 0}}

\* The results a parent is resumed with stay true: a child reported as finished finished
\* that way, and some child is reported as running exactly when the timeout ended the wait.
ResumesTellTheTruth ==
    \A s \in Parents : \A n \in 1..Len(yields[s]) :
        LET y == yields[s][n]
        IN y.at = "lookup" =>
              /\ \A c \in DOMAIN y.results : y.results[c] \in {"running", reg[c]}
              /\ (\E c \in DOMAIN y.results : y.results[c] = "running") <=> y.reason = "timeout"

\* A killed child is never reported as an error or a success afterwards, whatever its run
\* returns later; nor does any other final status change.
FinalStatusStays == [][\A c \in Children : reg[c] \in Final => reg'[c] = reg[c]]_reg

\* The session history never contradicts the registry about how a child finished.  (After a
\* kill the two may differ: the run may already have written its own status.)
HistoryAgrees ==
    \A c \in Children :
        reg[c] \in {"completed", "error"} /\ kid[c].meta \in Final => kid[c].meta = reg[c]

\* Until the code of a dispatched child has ended, kill, abort and destroy can stop it or
\* have already stopped it; also when the caller no longer waits for it.
RunningChildStoppable ==
    \A c \in Children :
        kid[c].at \in {"opening", "preflight", "prompting", "closing", "patching"} =>
            kid[c].handler \/ kid[c].aborted

\* A child that was told to stop before its prompt is never prompted, and one told to stop
\* during the prompt ends.
AbortedChildrenEnd ==
    \A c \in Children : kid[c].aborted ~> (kid[c].at = "done" \/ process = "crashed")

YieldOver(s, n) == /\ n \in DOMAIN yields[s]
                   /\ \/ yields[s][n].at \in {"dispatched", "cancelled"}
                      \/ yields[s][n].at = "dropped" /\ ~alive[s]

\* Every yield ends: its parent is resumed exactly once, unless its session was deleted or
\* the coordinator destroyed; however long its children run.
YieldsEnd ==
    \A s \in Parents, n \in 1..MaxYields :
        pend[s] = n ~> process = "crashed" \/ YieldOver(s, n)
-----------------------------------------------------------------------------
(************ what the repository says, and the code does not do ***********)

\* "Honor coordinator.abort(childRunId) so the REST kill endpoint and the agent-facing
\* subagents({action: 'kill'}) tool both terminate the child immediately": a killed child
\* does not go on to call the model.
KilledWorkStops ==
    \A c \in Children : reg[c] = "killed" /\ kid[c].at = "prompting" => kid[c].aborted

\* "The registry and durable sub-session metadata mark the sub-session sealed when the
\* child run completes, errors, or is killed": no record is left running forever.
EndedChildrenSettled == \A c \in Children : kid[c].at = "done" => reg[c] \in Final
=============================================================================
