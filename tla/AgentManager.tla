---------------------------- MODULE AgentManager ----------------------------
(***************************************************************************)
(* AgentManager (src/server/agents/agent-manager.ts) with the EventBridge  *)
(* of each managed agent and the prompts of its runs, for one agent id.    *)
(* start() is cut at its awaits: it destroys the managed instance, awaits  *)
(* storage and plugins, and only then puts the new instance in the map.    *)
(* What a run does inside its coordinator is RunCoordinator's; here a run  *)
(* is accepted, asks, and ends. The actions take the sockets they answer   *)
(* and leave what the clients see to the module that composes them.        *)
(***************************************************************************)
EXTENDS HitlRegistry, FiniteSets, Sequences, SequencesExt

CONSTANTS Clients,      (* browser tabs; each has at most one open socket *)
          None,
          MaxStarts,    (* bound: calls of start() *)
          MaxPrompts    (* bound: prompts ever asked *)

Instances == 1 .. MaxStarts
Prompts == 1 .. MaxPrompts

ASSUME ManagerBounds == /\ MaxStarts \in Nat \ {0} /\ MaxPrompts \in Nat
                        /\ None \notin Clients \cup Instances

VARIABLES phase,        (* [Instances -> Phases]: what has become of each start() *)
          by,           (* the open socket whose agent:start it is, if there still is one *)
          current,      (* agents.get(id) *)
          bridge,       (* EventBridge.sockets of each instance *)
          runs,         (* its unfinished runs in order, as the client who dispatched each *)
          pending,      (* the registry of prompts *)
          asked,        (* the instance behind each prompt ever asked *)
          overlapped    (* history: starts that awaited while another one did *)

managed == <<phase, by, current, bridge, runs, pending, asked, overlapped>>

Phases == {"none", "starting", "live", "failed", "destroyed"}

ManagerTypeOK ==
    /\ phase \in [Instances -> Phases]
    /\ by \in [Instances -> Clients \cup {None}]
    /\ current \in {i \in Instances : phase[i] = "live"} \cup {None}
    /\ bridge \in [Instances -> SUBSET Clients]
    /\ runs \in [Instances -> Seq(Clients)]
    /\ pending \subseteq Entries(Prompts, Instances)
    /\ asked \in Seq(Instances) /\ Len(asked) <= MaxPrompts
    /\ overlapped \subseteq Instances

ManagerInit ==
    /\ phase = [i \in Instances |-> "none"]
    /\ by = [i \in Instances |-> None]
    /\ current = None
    /\ bridge = [i \in Instances |-> {}]
    /\ runs = [i \in Instances |-> <<>>]
    /\ pending = {}
    /\ asked = <<>>
    /\ overlapped = {}
-----------------------------------------------------------------------------
(************************* sockets and prompts *****************************)

\* Mutant of WithSocket: commands leave the bridge as it is.
NoSocketAdded(c) == bridge

\* addSocket(agentId, socket): only a managed agent has a bridge to add it to. A socket that
\* closed meanwhile (None) is added too, but never hears anything.
WithSocket(c) ==
    IF current = None THEN bridge ELSE [bridge EXCEPT ![current] = @ \cup ({c} \ {None})]

Listeners(b) == IF current = None THEN {} ELSE b[current]

\* Who hears that a prompt is over: the tool's own emit goes to the instance that asked,
\* the handler's broadcast to the managed one.
PromptListeners(p, b) == b[asked[p]] \cup Listeners(b)
-----------------------------------------------------------------------------
(*************************** start and destroy *****************************)

\* destroy() of the managed instance: the bridge first, so nothing of the rest is heard; the
\* coordinator drops its runs; the runtime's abort signal resolves the prompts of its tools.
Torn(i, field, empty) == IF i = None THEN field ELSE [field EXCEPT ![i] = empty]

\* Mutant of TornPrompts: the tools of a destroyed runtime do not hear the abort signal.
TornPromptsStay(i) == pending

TornPrompts(i) == IF i = None THEN pending ELSE SignalAborted(pending, i)

Destroy ==
    /\ phase' = Torn(current, phase, "destroyed")
    /\ bridge' = Torn(current, bridge, {})
    /\ runs' = Torn(current, runs, <<>>)
    /\ pending' = TornPrompts(current)
    /\ current' = None
    /\ UNCHANGED <<by, asked, overlapped>>

Starting == {i \in Instances : phase[i] = "starting"}
Fresh(i) == phase[i] = "none" /\ \A j \in 1 .. (i - 1) : phase[j] # "none"

\* Mutant of Replaced: start() takes no notice of the managed instance.
ReplacesNothing == None

\* What start() finds in the map and destroys.
Replaced == current

\* start() up to the await of storage.init(): "Destroy existing if present".
Start(i, socket) ==
    /\ Fresh(i)
    /\ phase' = [Torn(Replaced, phase, "destroyed") EXCEPT ![i] = "starting"]
    /\ bridge' = Torn(Replaced, bridge, {})
    /\ runs' = Torn(Replaced, runs, <<>>)
    /\ pending' = TornPrompts(Replaced)
    /\ current' = IF Replaced = None THEN current ELSE None
    /\ by' = [by EXCEPT ![i] = socket]
    /\ overlapped' = IF Starting = {} THEN overlapped ELSE overlapped \cup Starting \cup {i}
    /\ UNCHANGED asked

\* The rest of start(): agents.set, whatever the map holds by now; then the caller's
\* continuation adds its socket.
Started(i) ==
    /\ phase[i] = "starting"
    /\ phase' = [phase EXCEPT ![i] = "live"]
    /\ current' = i
    /\ bridge' = [bridge EXCEPT ![i] = {by[i]} \ {None}]
    /\ by' = [by EXCEPT ![i] = None]
    /\ UNCHANGED <<runs, pending, asked, overlapped>>

\* storage.init() or a plugin threw: the promise rejects and nothing is managed.
StartFailed(i) ==
    /\ phase[i] = "starting"
    /\ phase' = [phase EXCEPT ![i] = "failed"]
    /\ by' = [by EXCEPT ![i] = None]
    /\ UNCHANGED <<current, bridge, runs, pending, asked, overlapped>>
-----------------------------------------------------------------------------
(********************************** runs ***********************************)

\* dispatch() for client c: only to the managed instance; the socket was added before.
Dispatch(c, socket) ==
    /\ current # None
    /\ runs' = [runs EXCEPT ![current] = Append(@, c)]
    /\ bridge' = WithSocket(socket)
    /\ UNCHANGED <<phase, by, current, pending, asked, overlapped>>

\* A run ends by itself: no tool of it waits.
RunEnds(i) ==
    /\ runs[i] # <<>>
    /\ \A e \in pending : e.inst # i
    /\ runs' = [runs EXCEPT ![i] = Tail(@)]
    /\ UNCHANGED <<phase, by, current, bridge, pending, asked, overlapped>>

\* abort(agentId) without a run id: the latest active run of the managed instance. A queued
\* run only leaves the queue; a running one takes all prompts of the session with it.
Abort ==
    /\ current # None /\ runs[current] # <<>>
    /\ runs' = [runs EXCEPT ![current] = Front(@)]
    /\ pending' = IF Len(runs[current]) = 1 THEN AllCancelled(pending) ELSE pending
    /\ UNCHANGED <<phase, by, current, bridge, asked, overlapped>>

NothingToAbort == current # None => runs[current] = <<>>

\* ask_user, confirm_action and the browser's gate: emit, listen for the abort, register.
Ask(i, kind) ==
    /\ runs[i] # <<>> /\ Len(asked) < MaxPrompts
    /\ asked' = Append(asked, i)
    /\ pending' = Registered(pending, [id |-> Len(asked) + 1, inst |-> i, kind |-> kind])
    /\ UNCHANGED <<phase, by, current, bridge, runs, overlapped>>

\* The prompt p is answered or its timer fires.
Settle(p) ==
    /\ pending' = Finalized(pending, p)
    /\ UNCHANGED <<phase, by, current, runs, asked, overlapped>>
-----------------------------------------------------------------------------
(***************************** crash and close *****************************)

\* A socket closed: removeSocketFromAll reaches the instances in the map, and what is sent to
\* a closed socket is lost, so it is gone from all of them.
SocketClosed(c) ==
    /\ bridge' = [i \in Instances |-> bridge[i] \ {c}]
    /\ by' = [i \in Instances |-> IF by[i] = c THEN None ELSE by[i]]
    /\ UNCHANGED <<phase, current, runs, pending, asked, overlapped>>

\* The server process ends: everything here lives in its memory.
Crash ==
    /\ phase' = [i \in Instances |->
                    IF phase[i] \in {"starting", "live"} THEN "destroyed" ELSE phase[i]]
    /\ by' = [i \in Instances |-> None]
    /\ current' = None
    /\ bridge' = [i \in Instances |-> {}]
    /\ runs' = [i \in Instances |-> <<>>]
    /\ pending' = {}
    /\ UNCHANGED <<asked, overlapped>>
-----------------------------------------------------------------------------
(***************************** properties **********************************)

\* An instance that runs but is not the one in the map cannot be dispatched to, aborted or
\* destroyed by anybody. start() rules it out with "Destroy existing if present"
\* (agent-manager.ts:121), before its awaits: only starts that overlap leave one behind.
StrayNeedsOverlap ==
    \A i \in Instances : phase[i] = "live" /\ i # current => i \in overlapped

\* A person is only asked by a run that still runs: no abort, destroy, end or crash leaves a
\* prompt that nobody waits for and that would swallow the next chat message.
NoOrphanPrompt ==
    \A e \in pending : runs[e.inst] # <<>>
=============================================================================
