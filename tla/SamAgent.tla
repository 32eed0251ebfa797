------------------------------- MODULE SamAgent -------------------------------
(***************************************************************************)
(* SAMAgent, the in-app assistant: one SamAgentCoordinator for the whole   *)
(* server (one turn at a time, a registry of prompts, a transcript file)   *)
(* and the panels of several browser tabs, to which every event is         *)
(* broadcast. A turn proposes at most one workflow patch, shown as a card  *)
(* that is applied or discarded and whose state is written to the          *)
(* transcript. Handlers run to the end when they start: the transcript is  *)
(* read and written synchronously. Events are seen at once, commands wait  *)
(* in toServer. User messages are left out.                                *)
(***************************************************************************)
EXTENDS Naturals, Sequences, FiniteSets

CONSTANTS Tabs,         (* browser tabs *)
          None,
          MaxTurns,     (* bound: turns begun *)
          MaxPrompts,   (* bound: questions asked *)
          MaxQueue,     (* bound: commands on the way *)
          MaxCuts       (* bound: panels closed, connections lost, restarts *)

ASSUME SamBounds == /\ MaxTurns \in Nat \ {0} /\ {MaxPrompts, MaxQueue, MaxCuts} \subseteq Nat
                    /\ None \notin Nat

Turns == 1 .. MaxTurns
Prompts == 1 .. MaxPrompts

\* An assistant message: not there, without a card, or with one whose patchState is pending,
\* or not any more (applied, failed, discarded: settled).
Cards == {"absent", "plain", "pending", "settled"}

VARIABLES turn,         (* turns begun; the last one is currentMessageId *)
          inFlight,     (* SamAgentCoordinator.inFlight *)
          patch,        (* toolResults of the current turn *)
          pending,      (* SamAgentHitlRegistry.pending *)
          asked,        (* prompts ever registered *)
          disk,         (* the transcript file: [Turns -> Cards] *)
          online,       (* tabs whose socket is open *)
          panel,        (* tabs whose SAMAgent panel is open, and subscribed *)
          toServer,     (* commands sent and not handled *)
          loaded,       (* transcriptLoaded *)
          messages,     (* the messages of each tab: [Tabs -> [Turns -> Cards]] *)
          streaming,    (* the turn a tab shows as streaming *)
          card,         (* the card inside it *)
          banner,       (* hitlPending *)
          missed,       (* history: tabs that did not listen all the time since they (re)loaded *)
          settled,      (* history: cards settled in a committed message over an open connection *)
          cuts

server == <<turn, inFlight, patch, pending, asked, disk>>
shown == <<loaded, messages, streaming, card, banner>>
vars == <<server, shown, online, panel, toServer, missed, settled, cuts>>

Commands == [cmd : {"start", "prompt", "clear"}] \cup [cmd : {"respond"}, prompt : Prompts]
              \cup [cmd : {"patchState"}, turn : Turns]

TypeOK ==
    /\ turn \in 0 .. MaxTurns /\ inFlight \in BOOLEAN /\ patch \in {"plain", "pending"}
    /\ pending \subseteq 1 .. asked /\ asked \in 0 .. MaxPrompts
    /\ disk \in [Turns -> Cards]
    /\ online \subseteq Tabs /\ panel \subseteq Tabs /\ loaded \subseteq Tabs
    /\ toServer \in [Tabs -> Seq(Commands)]
    /\ messages \in [Tabs -> [Turns -> Cards]]
    /\ streaming \in [Tabs -> Turns \cup {None}]
    /\ card \in [Tabs -> Cards \ {"absent"}]
    /\ banner \in [Tabs -> Prompts \cup {None}]
    /\ missed \subseteq Tabs /\ settled \subseteq Turns /\ cuts \in 0 .. MaxCuts

Empty == [m \in Turns |-> "absent"]

Init ==
    /\ turn = 0 /\ inFlight = FALSE /\ patch = "plain" /\ pending = {} /\ asked = 0
    /\ disk = Empty
    /\ online = Tabs /\ panel = Tabs /\ loaded = Tabs
    /\ toServer = [c \in Tabs |-> <<>>]
    /\ messages = [c \in Tabs |-> Empty]
    /\ streaming = [c \in Tabs |-> None]
    /\ card = [c \in Tabs |-> "plain"]
    /\ banner = [c \in Tabs |-> None]
    /\ missed = {} /\ settled = {} /\ cuts = 0

Listening == online \cap panel
-----------------------------------------------------------------------------
(************************* the store's event handlers **********************)

\* message:start: a turn that streams already goes on, any other one starts afresh.
SeeStart ==
    LET fresh == {c \in Listening : streaming[c] # turn} IN
    /\ streaming' = [c \in Tabs |-> IF c \in fresh THEN turn ELSE streaming[c]]
    /\ card' = [c \in Tabs |-> IF c \in fresh THEN "plain" ELSE card[c]]

\* tool:end of propose_workflow_patch: lost on a tab that shows no turn.
SeePatch ==
    card' = [c \in Tabs |-> IF c \in Listening /\ streaming[c] # None THEN "pending" ELSE card[c]]

StopStream(audience) ==
    /\ streaming' = [c \in Tabs |-> IF c \in audience THEN None ELSE streaming[c]]
    /\ card' = [c \in Tabs |-> IF c \in audience THEN "plain" ELSE card[c]]

\* lifecycle:end: what streamed becomes a message.
SeeEnd ==
    /\ messages' = [c \in Tabs |->
                      IF c \in Listening /\ streaming[c] # None
                      THEN [messages[c] EXCEPT ![streaming[c]] = card[c]] ELSE messages[c]]
    /\ StopStream(Listening)

\* hitl:resolved takes the banner away, whatever prompt it shows.
SeeResolved == banner' = [c \in Tabs |-> IF c \in Listening THEN None ELSE banner[c]]
-----------------------------------------------------------------------------
(******************************** the tab **********************************)

Sent(c, command) == IF c \in online THEN [toServer EXCEPT ![c] = Append(@, command)] ELSE toServer
OnTheWay == UNION {{<<c, k>> : k \in DOMAIN toServer[c]} : c \in Tabs}
Room == Cardinality(OnTheWay) < MaxQueue

\* handleSend: the answer to the banner, or a new prompt; disabled while the tab streams
\* without a banner.
Send(c) ==
    /\ c \in panel /\ Room
    /\ \/ banner[c] # None /\ toServer' = Sent(c, [cmd |-> "respond", prompt |-> banner[c]])
       \/ /\ banner[c] = None /\ streaming[c] = None
          /\ toServer' = Sent(c, [cmd |-> "prompt"])
    /\ UNCHANGED <<server, shown, online, panel, missed, settled, cuts>>

\* handleClear, with clearLocal.
Clear(c) ==
    /\ c \in panel /\ Room
    /\ toServer' = Sent(c, [cmd |-> "clear"])
    /\ messages' = [messages EXCEPT ![c] = Empty]
    /\ StopStream({c})
    /\ banner' = [banner EXCEPT ![c] = None]
    /\ missed' = IF c \in online THEN missed \ {c} ELSE missed
    /\ UNCHANGED <<server, loaded, online, panel, settled, cuts>>

\* handleApply and handleDiscard of a pending card, in the stream or in a message.
Settle(c, m) ==
    LET inMessage == messages[c][m] = "pending"
        inStream == streaming[c] = m /\ card[c] = "pending" IN
    /\ c \in panel /\ Room /\ (inMessage \/ inStream)
    /\ messages' = IF inMessage THEN [messages EXCEPT ![c][m] = "settled"] ELSE messages
    /\ card' = IF inStream THEN [card EXCEPT ![c] = "settled"] ELSE card
    /\ toServer' = Sent(c, [cmd |-> "patchState", turn |-> m])
    /\ settled' = IF inMessage /\ c \in online THEN settled \cup {m} ELSE settled
    /\ UNCHANGED <<server, loaded, streaming, banner, online, panel, missed, cuts>>

\* The panel is closed: the store stays, its subscription ends.
Collapse(c) ==
    /\ c \in panel /\ cuts < MaxCuts
    /\ cuts' = cuts + 1
    /\ panel' = panel \ {c}
    /\ missed' = missed \cup {c}
    /\ UNCHANGED <<server, shown, online, toServer, settled>>

Expand(c) ==
    /\ c \notin panel /\ Room
    /\ panel' = panel \cup {c}
    /\ toServer' = IF c \in loaded THEN toServer ELSE Sent(c, [cmd |-> "start"])
    /\ UNCHANGED <<server, shown, online, missed, settled, cuts>>

\* Cards whose command is lost with the connection of c.
Unsent(c) == {m \in Turns : \E k \in DOMAIN toServer[c] :
                 toServer[c][k].cmd = "patchState" /\ toServer[c][k].turn = m}

Drop(c) ==
    /\ c \in online /\ cuts < MaxCuts
    /\ cuts' = cuts + 1
    /\ online' = online \ {c}
    /\ toServer' = [toServer EXCEPT ![c] = <<>>]
    /\ missed' = missed \cup {c}
    /\ settled' = settled \ Unsent(c)
    /\ UNCHANGED <<server, shown, panel>>

\* A transcript that was loaded is not asked for again.
Reconnect(c) ==
    /\ c \notin online
    /\ online' = online \cup {c}
    /\ toServer' = IF c \in panel \ loaded
                   THEN [toServer EXCEPT ![c] = <<[cmd |-> "start"]>>] ELSE toServer
    /\ UNCHANGED <<server, shown, panel, missed, settled, cuts>>

\* The page is loaded again: a new connection (so a Drop came before) and an empty store.
Reload(c) ==
    /\ c \notin online
    /\ online' = online \cup {c} /\ panel' = panel \cup {c}
    /\ loaded' = loaded \ {c}
    /\ messages' = [messages EXCEPT ![c] = Empty]
    /\ StopStream({c})
    /\ banner' = [banner EXCEPT ![c] = None]
    /\ toServer' = [toServer EXCEPT ![c] = <<[cmd |-> "start"]>>]
    /\ missed' = missed \ {c}
    /\ UNCHANGED <<server, settled, cuts>>
-----------------------------------------------------------------------------
(************************** handlers (ws-handler) **************************)

Next1(c) == Head(toServer[c])
Arrived(c, name) == toServer[c] # <<>> /\ Next1(c).cmd = name
Handled(c) == toServer' = [toServer EXCEPT ![c] = Tail(@)]

\* samAgent:start: the transcript, to this tab.
HandleStart(c) ==
    /\ Arrived(c, "start") /\ Handled(c)
    /\ messages' = [messages EXCEPT ![c] = IF c \in panel THEN disk ELSE @]
    /\ loaded' = IF c \in panel THEN loaded \cup {c} ELSE loaded
    /\ UNCHANGED <<server, streaming, card, banner, online, panel, missed, settled, cuts>>

\* dispatch: the turn begins, or is refused to everybody ("A prompt is already in flight"),
\* or fails before its runtime exists, which the handler broadcasts.
HandlePrompt(c) ==
    /\ Arrived(c, "prompt") /\ Handled(c)
    /\ \/ /\ ~inFlight /\ turn < MaxTurns
          /\ inFlight' = TRUE /\ turn' = turn + 1 /\ patch' = "plain"
          /\ UNCHANGED <<streaming, card>>
       \/ /\ StopStream(Listening)
          /\ UNCHANGED <<inFlight, turn, patch>>
    /\ UNCHANGED <<pending, asked, disk, loaded, messages, banner,
                   online, panel, missed, settled, cuts>>

HandleRespond(c) ==
    /\ Arrived(c, "respond") /\ Handled(c)
    /\ IF Next1(c).prompt \in pending
       THEN pending' = pending \ {Next1(c).prompt} /\ SeeResolved
       ELSE UNCHANGED <<pending, banner>>
    /\ UNCHANGED <<turn, inFlight, patch, asked, disk, loaded, messages, streaming, card,
                   online, panel, missed, settled, cuts>>

\* Mutant of HandleClear: the transcript only, the prompts are forgotten without an event.
HandleClearQuietly(c) ==
    /\ Arrived(c, "clear") /\ Handled(c)
    /\ pending' = {} /\ disk' = Empty
    /\ messages' = [messages EXCEPT ![c] = IF c \in panel THEN Empty ELSE @]
    /\ loaded' = IF c \in panel THEN loaded \cup {c} ELSE loaded
    /\ UNCHANGED <<turn, inFlight, patch, asked, streaming, card, banner, online, panel, missed, settled, cuts>>

\* clear(): every prompt is cancelled and the file emptied; the turn goes on and will append
\* its message. Only this tab is told that there are no messages.
HandleClear(c) ==
    /\ Arrived(c, "clear") /\ Handled(c)
    /\ pending' = {} /\ disk' = Empty
    /\ IF pending # {} THEN SeeResolved ELSE UNCHANGED banner
    /\ messages' = [messages EXCEPT ![c] = IF c \in panel THEN Empty ELSE @]
    /\ loaded' = IF c \in panel THEN loaded \cup {c} ELSE loaded
    /\ UNCHANGED <<turn, inFlight, patch, asked, streaming, card, online, panel, missed, settled, cuts>>

\* Mutant of Recorded: the file is left alone while a turn writes to it.
RecordedWhenIdle(m) ==
    IF inFlight \/ disk[m] \in {"absent", "plain"} THEN disk ELSE [disk EXCEPT ![m] = "settled"]

\* updatePatchState finds the message and its tool result, or changes nothing.
Recorded(m) ==
    IF disk[m] \in {"absent", "plain"} THEN disk ELSE [disk EXCEPT ![m] = "settled"]

HandlePatchState(c) ==
    /\ Arrived(c, "patchState") /\ Handled(c)
    /\ disk' = Recorded(Next1(c).turn)
    /\ UNCHANGED <<turn, inFlight, patch, pending, asked, shown, online, panel, missed, settled, cuts>>
-----------------------------------------------------------------------------
(******************************** the turn *********************************)

MessageStart ==
    /\ inFlight /\ SeeStart
    /\ UNCHANGED <<server, loaded, messages, banner, online, panel, toServer, missed, settled, cuts>>

ProposePatch ==
    /\ inFlight /\ patch = "plain"
    /\ patch' = "pending" /\ SeePatch
    /\ UNCHANGED <<turn, inFlight, pending, asked, disk, loaded, messages, streaming, banner,
                   online, panel, toServer, missed, settled, cuts>>

\* samagent_ask or samagent_confirm; tools run in parallel, and one banner shows the last.
Ask ==
    /\ inFlight /\ asked < MaxPrompts
    /\ asked' = asked + 1
    /\ pending' = pending \cup {asked + 1}
    /\ banner' = [c \in Tabs |-> IF c \in Listening THEN asked + 1 ELSE banner[c]]
    /\ UNCHANGED <<turn, inFlight, patch, disk, loaded, messages, streaming, card,
                   online, panel, toServer, missed, settled, cuts>>

\* Mutant of PromptTimesOut: the timer fires and finds nothing to finalize.
TimerFindsNothing(p) == p \in pending /\ UNCHANGED vars

PromptTimesOut(p) ==
    /\ p \in pending
    /\ pending' = pending \ {p}
    /\ SeeResolved
    /\ UNCHANGED <<turn, inFlight, patch, asked, disk, loaded, messages, streaming, card,
                   online, panel, toServer, missed, settled, cuts>>

\* prompt() returns when no tool waits; the message is appended, then lifecycle:end is sent.
TurnEnds ==
    /\ inFlight /\ pending = {}
    /\ inFlight' = FALSE
    /\ disk' = [disk EXCEPT ![turn] = patch]
    /\ SeeEnd
    /\ UNCHANGED <<turn, patch, pending, asked, loaded, banner,
                   online, panel, toServer, missed, settled, cuts>>

\* Mutant of TurnFails: a rejected dispatch is not caught.
TurnFailsQuietly ==
    /\ inFlight /\ pending = {}
    /\ inFlight' = FALSE
    /\ disk' \in {disk, [disk EXCEPT ![turn] = patch]}
    /\ UNCHANGED <<turn, patch, pending, asked, shown, online, panel, toServer, missed, settled, cuts>>

\* prompt() rejects and the message is appended all the same, or the append throws: either
\* way lifecycle:error drops what streamed.
TurnFails ==
    /\ inFlight /\ pending = {}
    /\ inFlight' = FALSE
    /\ disk' \in {disk, [disk EXCEPT ![turn] = patch]}
    /\ StopStream(Listening)
    /\ UNCHANGED <<turn, patch, pending, asked, loaded, messages, banner,
                   online, panel, toServer, missed, settled, cuts>>

\* The server is restarted: the file stays, the turn and its prompts are gone.
Restart ==
    /\ cuts < MaxCuts /\ cuts' = cuts + 1
    /\ inFlight' = FALSE /\ pending' = {}
    /\ online' = {} /\ missed' = Tabs
    /\ toServer' = [c \in Tabs |-> <<>>]
    /\ settled' = settled \ UNION {Unsent(c) : c \in Tabs}
    /\ UNCHANGED <<turn, patch, asked, disk, shown, panel>>
-----------------------------------------------------------------------------
Handle(c) ==
    \/ HandleStart(c) \/ HandlePrompt(c) \/ HandleRespond(c)
    \/ HandleClear(c) \/ HandlePatchState(c)

Tab(c) ==
    \/ Send(c) \/ Clear(c) \/ Collapse(c) \/ Expand(c) \/ Drop(c) \/ Reconnect(c) \/ Reload(c)
    \/ \E m \in Turns : Settle(c, m)

Next ==
    \/ \E c \in Tabs : Tab(c) \/ Handle(c)
    \/ \E p \in Prompts : PromptTimesOut(p)
    \/ MessageStart \/ ProposePatch \/ Ask \/ TurnEnds \/ TurnFails \/ Restart

\* Prompts have a timer, and the runtime of a turn that waits for nobody returns.
Fairness ==
    /\ \A p \in Prompts : WF_vars(PromptTimesOut(p))
    /\ WF_vars(TurnEnds \/ TurnFails)

Spec == Init /\ [][Next]_vars /\ Fairness
-----------------------------------------------------------------------------
(****************************** properties *********************************)

\* "Cards persist in the transcript across reloads with their resolved state"
\* (2026-05-03-sam-agent-design.md:185). It holds for a card that was settled in a committed
\* message over an open connection, because lifecycle:end follows the append.
SettledCardsPersist ==
    \A m \in settled : disk[m] = "pending" => \E c \in Tabs : m \in Unsent(c)

\* A tab that has listened since it loaded streams the turn in flight or nothing; a stream
\* that stays behind would keep its input disabled.
StreamIsInFlight ==
    \A c \in Tabs \ missed : streaming[c] # None => inFlight /\ streaming[c] = turn

\* ... and its banner asks what some tool still waits for: a stale one would swallow every
\* later prompt as an answer.
BannerIsPending ==
    \A c \in Tabs \ missed : banner[c] # None => banner[c] \in pending

\* The input of such a tab is unlocked again, also when nobody answers the prompts.
InputUnlocks ==
    \A c \in Tabs : streaming[c] # None ~> (streaming[c] = None \/ c \in missed)
=============================================================================
