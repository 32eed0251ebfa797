-------------------------------- MODULE Chat --------------------------------
(***************************************************************************)
(* Browser tabs talking to one agent: agent-client.ts (the socket and its  *)
(* reconnects), agent-connection-store.ts (the deferred of a start),       *)
(* useChatStream.ts and ChatDrawer.tsx (streaming flag, prompt banner) on  *)
(* the one side, ws-handler.ts and AgentManager on the other.              *)
(*                                                                         *)
(* A command waits in toServer until its handler runs. What the server     *)
(* sends is seen at once: a late event differs only in that the tab's next *)
(* command comes later, which the queue allows already; an event that is   *)
(* lost is one sent after the socket dropped.                              *)
(***************************************************************************)
EXTENDS AgentManager

CONSTANTS MaxDrops,     (* bound: connections lost, server crashes included *)
          MaxQueue,     (* bound: commands of one tab on the way *)
          Crashes       (* may the server be restarted *)

ASSUME ChatBounds == MaxDrops \in Nat /\ MaxQueue \in Nat \ {0} /\ Crashes \in BOOLEAN

VARIABLES open,         (* tabs whose socket is open *)
          toServer,     (* commands sent on it and not handled *)
          held,         (* a dispatch awaiting pendingStarts: the instance it waits for *)
          mute,         (* held dispatches whose socket has closed meanwhile *)
          start,        (* tabs with a deferred in pendingStarts (connection store) *)
          waiting,      (* tabs whose sendPrompt awaits that deferred *)
          streaming,    (* isStreaming *)
          banner,       (* pendingHitl *)
          drops,        (* connections lost so far *)
          booting,      (* the restarted server has not called restoreFromDisk *)
          lost          (* history: tabs cut off since they sent their message *)

tabs == <<open, toServer, held, mute, start, waiting, streaming, banner, drops, booting, lost>>
vars == <<managed, tabs>>

Commands == [cmd : {"start", "dispatch", "abort", "destroy", "resume"}]
              \cup [cmd : {"respond"}, prompt : Prompts]

TypeOK ==
    /\ ManagerTypeOK
    /\ open \subseteq Clients /\ start \subseteq Clients /\ waiting \subseteq start
    /\ streaming \subseteq Clients /\ mute \subseteq Clients /\ lost \subseteq Clients
    /\ toServer \in [Clients -> Seq(Commands)]
    /\ held \in [Clients -> Instances \cup {None}]
    /\ banner \in [Clients -> Prompts \cup {None}]
    /\ drops \in 0 .. MaxDrops /\ booting \in BOOLEAN

Init ==
    /\ ManagerInit
    /\ open = Clients
    /\ toServer = [c \in Clients |-> <<>>]
    /\ held = [c \in Clients |-> None]
    /\ mute = {} /\ start = {} /\ waiting = {} /\ streaming = {} /\ lost = {}
    /\ banner = [c \in Clients |-> None]
    /\ drops = 0
    /\ booting \in BOOLEAN       \* the server just came up; was the agent persisted?
-----------------------------------------------------------------------------
(******************************* the tab ***********************************)

\* AgentClient.send: a command for a closed socket is dropped with a warning.
Sent(c, command) == IF c \in open THEN [toServer EXCEPT ![c] = Append(@, command)] ELSE toServer

Room(c) == Len(toServer[c]) < MaxQueue

IsStart(command) == command.cmd = "start"
StartsLeft ==
    Cardinality({i \in Instances : phase[i] = "none"})
      > Cardinality(UNION {{<<c, k>> : k \in {k \in DOMAIN toServer[c] : IsStart(toServer[c][k])}} : c \in Clients})

\* handleSend of an idle drawer: startAgent (which sends agent:start unless one is pending)
\* and sendMessage, whose sendPrompt awaits the deferred. Without a connection the drawer is
\* blocked, and while it streams so is its input.
Send(c) ==
    /\ c \in open /\ c \notin streaming /\ banner[c] = None /\ Room(c)
    /\ streaming' = streaming \cup {c}
    /\ waiting' = waiting \cup {c}
    /\ \/ /\ c \notin start /\ StartsLeft
          /\ start' = start \cup {c}
          /\ toServer' = Sent(c, [cmd |-> "start"])
          /\ lost' = lost \ {c}
       \/ /\ c \in start
          /\ UNCHANGED <<start, toServer, lost>>
    /\ UNCHANGED <<managed, open, held, mute, banner, drops, booting>>

\* The banner is up: what the user types or clicks answers it.
Answer(c) ==
    /\ banner[c] # None /\ Room(c) /\ c \in open
    /\ toServer' = Sent(c, [cmd |-> "respond", prompt |-> banner[c]])
    /\ UNCHANGED <<managed, open, held, mute, start, waiting, streaming, banner, drops, booting, lost>>

\* The stop button takes the place of the send button while the tab streams.
Stop(c) ==
    /\ c \in streaming /\ banner[c] = None /\ Room(c)
    /\ toServer' = Sent(c, [cmd |-> "abort"])
    /\ UNCHANGED <<managed, open, held, mute, start, waiting, streaming, banner, drops, booting, lost>>

\* destroyAgent: the pending start is rejected, and the message behind it is never sent.
\* Closing the drawer unmounts the chat; switching or adding a session leaves it as it was
\* (and opens the other session, see Opened).
Leave(c, closed) ==
    /\ Room(c)
    /\ start' = start \ {c}
    /\ waiting' = waiting \ {c}
    /\ toServer' = Sent(c, [cmd |-> "destroy"])
    /\ streaming' = IF closed THEN streaming \ {c} ELSE streaming
    /\ banner' = IF closed THEN [banner EXCEPT ![c] = None] ELSE banner
    /\ lost' = lost \cup {c}
    /\ UNCHANGED <<managed, open, held, mute, drops, booting>>

\* The drawer shows a session, for the first time or another one: it asks for its prompts
\* (bound: when nothing else of this tab is on the way).
Opened(c) ==
    /\ c \in open /\ toServer[c] = <<>> /\ c \notin streaming
    /\ toServer' = Sent(c, [cmd |-> "resume"])
    /\ UNCHANGED <<managed, open, held, mute, start, waiting, streaming, banner, drops, booting, lost>>

\* onopen: the tracked agent is synced, and the drawer asks for the pending prompts.
Reconnect(c) ==
    /\ c \notin open
    /\ open' = open \cup {c}
    /\ toServer' = [toServer EXCEPT ![c] = <<[cmd |-> "resume"]>>]
    /\ UNCHANGED <<managed, held, mute, start, waiting, streaming, banner, drops, booting, lost>>
-----------------------------------------------------------------------------
(************************* events as a tab sees them ***********************)

\* agent:ready settles whatever deferred is there; sendPrompt then sends its dispatch.
SeeReady(c) ==
    /\ start' = start \ {c}
    /\ waiting' = waiting \ {c}
    /\ toServer' = IF c \in waiting THEN Sent(c, [cmd |-> "dispatch"]) ELSE toServer
    /\ UNCHANGED <<streaming, banner>>

\* agent:error rejects the deferred and ends the stream, whichever command it answers.
SeeError(c) ==
    /\ start' = start \ {c}
    /\ waiting' = waiting \ {c}
    /\ streaming' = streaming \ {c}
    /\ UNCHANGED banner

\* The end of any run of the agent ends the stream: events are not told apart by run.
SeeEnd(audience) == streaming' = streaming \ audience

SeeResolved(p, audience) ==
    banner' = [c \in Clients |-> IF c \in audience /\ banner[c] = p THEN None ELSE banner[c]]
-----------------------------------------------------------------------------
(************************** handlers (ws-handler) **************************)

Next1(c) == Head(toServer[c])
Arrived(c, name) == toServer[c] # <<>> /\ Next1(c).cmd = name
Handled(c) == toServer' = [toServer EXCEPT ![c] = Tail(@)]

\* Tabs that wait for the end of a run: nothing that this connection of theirs sent is on the
\* way to the server or held there.
Awaits(c) ==
    /\ c \in streaming \ start
    /\ held[c] = None \/ c \in mute
    /\ \A k \in DOMAIN toServer[c] : toServer[c][k].cmd # "dispatch"

\* The tabs that a destroy of the managed instance cuts off from a run, without an event.
CutOff == {c \in Listeners(bridge) : Awaits(c)}

HandleStart(c) ==
    /\ Arrived(c, "start") /\ Handled(c)
    /\ \E i \in Instances : Start(i, c)
    /\ lost' = lost \cup CutOff
    /\ UNCHANGED <<open, held, mute, start, waiting, streaming, banner, drops, booting>>

\* agent:ready, to the socket if it is still open; a restore tells nobody.
StartCompletes(i) ==
    /\ Started(i)
    /\ \/ by[i] = None /\ UNCHANGED <<start, waiting, toServer, streaming, banner>>
       \/ by[i] # None /\ SeeReady(by[i])
    /\ lost' = lost \cup CutOff
    /\ UNCHANGED <<open, held, mute, drops, booting>>

\* Mutant of StartThrows: the failed start is only logged.
StartThrowsQuietly(i) ==
    /\ StartFailed(i)
    /\ held' = [c \in Clients |-> IF held[c] = i THEN None ELSE held[c]]
    /\ mute' = {c \in mute : held'[c] # None}
    /\ UNCHANGED <<open, toServer, start, waiting, streaming, banner, drops, booting, lost>>

\* agent:error, for the start and for the dispatch that awaited it.
StartThrows(i) ==
    /\ StartFailed(i)
    /\ \/ by[i] = None /\ UNCHANGED <<start, waiting, streaming, banner>>
       \/ by[i] # None /\ SeeError(by[i])
    /\ held' = [c \in Clients |-> IF held[c] = i THEN None ELSE held[c]]
    /\ mute' = {c \in mute : held'[c] # None}
    /\ UNCHANGED <<open, toServer, drops, booting, lost>>

\* agent:dispatch first awaits the last start of its own socket.
MyStarts(c) == {i \in Starting : by[i] = c}
Hold(c) ==
    /\ Arrived(c, "dispatch") /\ Handled(c)
    /\ held[c] = None
    /\ \E i \in MyStarts(c) : /\ \A j \in MyStarts(c) : j <= i
                             /\ held' = [held EXCEPT ![c] = i]
    /\ UNCHANGED <<managed, open, mute, start, waiting, streaming, banner, drops, booting, lost>>

\* No prompt is pending: a new run, or "Agent not found".
DispatchRun(c, socket) ==
    /\ pending = {}
    /\ \/ Dispatch(c, socket) /\ UNCHANGED <<start, waiting, streaming, banner>>
       \/ current = None /\ SeeError(socket) /\ UNCHANGED managed
    /\ UNCHANGED <<open, drops, booting, lost>>

\* A prompt is pending: the text answers the oldest one, or is refused and the prompt stays.
DispatchAnswer(c, socket) ==
    /\ pending # {}
    /\ bridge' = WithSocket(socket)
    /\ \E yesOrNo \in BOOLEAN :
         LET p == Oldest(pending).id IN
         \/ /\ Answers(Oldest(pending), yesOrNo)
            /\ Settle(p)
            /\ SeeResolved(p, PromptListeners(p, WithSocket(socket)))
            /\ lost' = IF asked[p] = current THEN lost ELSE lost \cup {c}
            /\ UNCHANGED <<start, waiting, streaming>>
         \/ /\ ~Answers(Oldest(pending), yesOrNo)
            /\ SeeError(socket)
            /\ UNCHANGED <<phase, by, current, runs, pending, asked, overlapped, lost>>
    /\ UNCHANGED <<open, drops, booting>>

\* The rest of the handler, at once or when the start it awaited is done; by then the socket
\* it came on may have closed.
HandleDispatch(c) ==
    /\ Arrived(c, "dispatch") /\ MyStarts(c) = {} /\ Handled(c)
    /\ DispatchRun(c, c) \/ DispatchAnswer(c, c)
    /\ UNCHANGED <<held, mute>>

Continue(c) ==
    /\ held[c] # None /\ phase[held[c]] # "starting"
    /\ held' = [held EXCEPT ![c] = None]
    /\ mute' = mute \ {c}
    /\ LET socket == IF c \in mute THEN None ELSE c
       IN  DispatchRun(c, socket) \/ DispatchAnswer(c, socket)
    /\ UNCHANGED toServer

\* hitl:respond: the prompt may be gone; "answered" is broadcast in any case.
HandleRespond(c) ==
    /\ Arrived(c, "respond") /\ Handled(c)
    /\ Settle(Next1(c).prompt)
    /\ bridge' = WithSocket(c)
    /\ SeeResolved(Next1(c).prompt, PromptListeners(Next1(c).prompt, WithSocket(c)))
    /\ UNCHANGED <<open, held, mute, start, waiting, streaming, drops, booting, lost>>

HandleAbort(c) ==
    /\ Arrived(c, "abort") /\ Handled(c)
    /\ \/ /\ Abort
          /\ SeeEnd(Listeners(bridge))
          /\ banner' = [d \in Clients |->
                          IF \E p \in Ids(pending) \ Ids(pending') :
                                banner[d] = p /\ d \in PromptListeners(p, bridge)
                          THEN None ELSE banner[d]]
       \/ NothingToAbort /\ UNCHANGED <<managed, streaming, banner>>
    /\ UNCHANGED <<open, held, mute, start, waiting, drops, booting, lost>>

HandleDestroy(c) ==
    /\ Arrived(c, "destroy") /\ Handled(c)
    /\ Destroy
    /\ lost' = lost \cup CutOff
    /\ UNCHANGED <<open, held, mute, start, waiting, streaming, banner, drops, booting>>

\* agent:sync and hitl:list: the socket is added, the banner shows the oldest prompt.
HandleResume(c) ==
    /\ Arrived(c, "resume") /\ Handled(c)
    /\ bridge' = WithSocket(c)
    /\ banner' = [banner EXCEPT ![c] = IF pending = {} THEN None ELSE Oldest(pending).id]
    /\ UNCHANGED <<phase, by, current, runs, pending, asked, overlapped,
                   open, held, mute, start, waiting, streaming, drops, booting, lost>>
-----------------------------------------------------------------------------
(************************** the agent's own steps **************************)

EndRun(i) ==
    /\ RunEnds(i)
    /\ SeeEnd(bridge[i])
    /\ UNCHANGED <<open, toServer, held, mute, start, waiting, banner, drops, booting, lost>>

AskUser(i) ==
    /\ \E kind \in {"text", "confirm"} : Ask(i, kind)
    /\ banner' = [c \in Clients |-> IF c \in bridge[i] THEN Len(asked') ELSE banner[c]]
    /\ UNCHANGED <<open, toServer, held, mute, start, waiting, streaming, drops, booting, lost>>

\* Mutant of PromptTimesOut: nobody is told.
PromptTimesOutQuietly(p) ==
    /\ p \in Ids(pending)
    /\ Settle(p)
    /\ UNCHANGED <<bridge, open, toServer, held, mute, start, waiting, streaming, banner, drops, booting, lost>>

PromptTimesOut(p) ==
    /\ p \in Ids(pending)
    /\ Settle(p)
    /\ SeeResolved(p, bridge[asked[p]])
    /\ UNCHANGED <<bridge, open, toServer, held, mute, start, waiting, streaming, drops, booting, lost>>
-----------------------------------------------------------------------------
(****************************** the network ********************************)

\* The connection is lost with all that is on the way; a start or dispatch the server has
\* begun goes on.
Drop(c) ==
    /\ c \in open /\ drops < MaxDrops
    /\ drops' = drops + 1
    /\ open' = open \ {c}
    /\ SocketClosed(c)
    /\ toServer' = [toServer EXCEPT ![c] = <<>>]
    /\ lost' = lost \cup {c}
    /\ mute' = IF held[c] = None THEN mute ELSE mute \cup {c}
    /\ UNCHANGED <<held, start, waiting, streaming, banner, booting>>

\* The server is restarted: every connection is lost, and so is every handler.
Restart ==
    /\ Crashes /\ drops < MaxDrops
    /\ drops' = drops + 1
    /\ Crash
    /\ open' = {}
    /\ toServer' = [c \in Clients |-> <<>>]
    /\ held' = [c \in Clients |-> None]
    /\ mute' = {}
    /\ booting' = (\E i \in Instances : phase[i] \in {"live", "destroyed"})
    /\ lost' = Clients
    /\ UNCHANGED <<start, waiting, streaming, banner>>

\* restoreFromDisk, called once the server listens, starts every persisted agent.
Restore ==
    /\ booting /\ StartsLeft
    /\ booting' = FALSE
    /\ \E i \in Instances : Start(i, None)
    /\ lost' = lost \cup CutOff
    /\ UNCHANGED <<open, toServer, held, mute, start, waiting, streaming, banner, drops>>
-----------------------------------------------------------------------------
Handle(c) ==
    \/ HandleStart(c) \/ Hold(c) \/ HandleDispatch(c) \/ Continue(c)
    \/ HandleRespond(c) \/ HandleAbort(c) \/ HandleDestroy(c) \/ HandleResume(c)

Tab(c) ==
    \/ Send(c) \/ Answer(c) \/ Stop(c) \/ Opened(c) \/ Reconnect(c)
    \/ \E closed \in BOOLEAN : Leave(c, closed)

Next ==
    \/ \E c \in Clients : Tab(c) \/ Handle(c) \/ Drop(c)
    \/ \E i \in Instances : StartCompletes(i) \/ StartThrows(i) \/ EndRun(i) \/ AskUser(i)
    \/ \E p \in Prompts : PromptTimesOut(p)
    \/ Restart \/ Restore

Spec == Init /\ [][Next]_vars
-----------------------------------------------------------------------------
(***************************** properties **********************************)

\* A pending start keeps every later message of the tab waiting, because startAgent hands out
\* the existing promise (agent-connection-store.ts:80). Only a cut connection may leave one
\* behind that no command, start in progress or answer will ever settle.
StartsAnswered ==
    \A c \in start \ lost :
        \/ \E k \in DOMAIN toServer[c] : IsStart(toServer[c][k])
        \/ MyStarts(c) # {}

\* A tab that waits can be woken: whatever other tabs restarted, destroyed or dropped since,
\* its socket is with an instance that has a run to end (the addSocket of every command).
WaiterHears ==
    \A c \in Clients \ lost :
        Awaits(c) => \E i \in Instances : c \in bridge[i] /\ runs[i] # <<>>

\* A banner shows a prompt that is pending: timeouts, answers of other tabs and aborts clear it
\* everywhere. The exception is a prompt of an instance that is not the managed one any more:
\* its bridge was emptied before its tools were aborted, or it never had this tab's socket.
BannerTruth ==
    \A c \in open \ lost :
        banner[c] # None /\ banner[c] \notin Ids(pending) => asked[banner[c]] # current
=============================================================================
