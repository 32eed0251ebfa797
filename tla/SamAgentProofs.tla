--------------------------- MODULE SamAgentProofs ---------------------------
(***************************************************************************)
(* The assistant, for any number of tabs, turns, questions, commands on    *)
(* the way and cuts: a tab that listened all the time shows no turn as     *)
(* streaming that is over and asks nothing that is answered, and a card    *)
(* settled over an open connection is settled on disk.                     *)
(***************************************************************************)
EXTENDS SamAgent, TLAPS

\* A tab that missed nothing is still listening.
Attentive == Tabs \ missed \subseteq Listening

\* The turns whose message is not yet appended.
Unwritten(m) == m > turn \/ (m = turn /\ inFlight)

\* Nobody has the message of such a turn, so nobody can have settled its card.
TurnsUnwritten ==
    \A m \in Turns : Unwritten(m) =>
        disk[m] = "absent" /\ m \notin settled /\ \A c \in Tabs : messages[c][m] = "absent"

\* What streams has begun.
Streamed == \A c \in Tabs : streaming[c] # None => streaming[c] <= turn

\* Commands are on the way over open connections only.
OfflineSendsNothing == \A c \in Tabs : c \notin online => toServer[c] = <<>>

Shown == Attentive /\ StreamIsInFlight /\ BannerIsPending
CardsKept == TurnsUnwritten /\ Streamed /\ OfflineSendsNothing /\ SettledCardsPersist
Begun == inFlight => turn > 0

IInv == TypeOK /\ Begun /\ Shown /\ CardsKept
-----------------------------------------------------------------------------
LEMMA InitInvariant == Init => IInv
<1> SUFFICES ASSUME Init PROVE IInv
  OBVIOUS
<1>1. TypeOK
  <2>1. \A c \in Tabs : toServer[c] \in Seq(Commands)
    BY DEF Init
  <2>2. Empty \in [Turns -> Cards]
    BY DEF Empty, Cards
  <2>3. turn \in 0 .. MaxTurns /\ asked \in 0 .. MaxPrompts /\ cuts \in 0 .. MaxCuts
    BY SamBounds DEF Init
  <2>4. QED
    BY <2>1, <2>2, <2>3 DEF Init, TypeOK, Cards
<1>2. Begun /\ Shown
  BY DEF Init, Begun, Shown, Attentive, Listening, StreamIsInFlight, BannerIsPending
<1>3. CardsKept
  BY DEF Init, CardsKept, TurnsUnwritten, Streamed, OfflineSendsNothing, SettledCardsPersist, Empty
<1>4. QED
  BY <1>1, <1>2, <1>3 DEF IInv
-----------------------------------------------------------------------------
(********************************** types **********************************)

\* What a tab sends joins its queue, or is lost with its connection.
LEMMA SentTyped ==
    ASSUME TypeOK, NEW c \in Tabs, NEW command \in Commands
    PROVE  Sent(c, command) \in [Tabs -> Seq(Commands)]
<1>1. Append(toServer[c], command) \in Seq(Commands)
  BY DEF TypeOK
<1>2. QED
  BY <1>1 DEF TypeOK, Sent

\* The commands there are.
LEMMA CommandsThere ==
    /\ \A name \in {"start", "prompt", "clear"} : [cmd |-> name] \in Commands
    /\ \A p \in Prompts : [cmd |-> "respond", prompt |-> p] \in Commands
    /\ \A m \in Turns : [cmd |-> "patchState", turn |-> m] \in Commands
  BY DEF Commands

\* The server takes the first command of a queue.
LEMMA HandledTyped ==
    ASSUME TypeOK, NEW c \in Tabs, toServer[c] # <<>>, Handled(c)
    PROVE  toServer' \in [Tabs -> Seq(Commands)]
<1>1. Tail(toServer[c]) \in Seq(Commands)
  BY DEF TypeOK
<1>2. QED
  BY <1>1 DEF TypeOK, Handled

\* The queues of tabs that start afresh.
LEMMA QueueTyped ==
    ASSUME TypeOK, NEW c \in Tabs, NEW q \in Seq(Commands)
    PROVE  [toServer EXCEPT ![c] = q] \in [Tabs -> Seq(Commands)]
  BY DEF TypeOK

LEMMA StopStreamTyped ==
    ASSUME TypeOK, NEW audience, StopStream(audience)
    PROVE  /\ streaming' \in [Tabs -> Turns \cup {None}]
           /\ card' \in [Tabs -> Cards \ {"absent"}]
<1>1. "plain" \in Cards \ {"absent"}
  BY DEF Cards
<1>2. QED
  BY <1>1 DEF TypeOK, StopStream

LEMMA SeeResolvedTyped ==
    ASSUME TypeOK, SeeResolved
    PROVE  banner' \in [Tabs -> Prompts \cup {None}]
  BY DEF TypeOK, SeeResolved

LEMMA TabTyped ==
    ASSUME TypeOK, NEW c \in Tabs, Tab(c)
    PROVE  TypeOK'
<1>1. Empty \in [Turns -> Cards] /\ "settled" \in Cards \ {"absent"} /\ <<>> \in Seq(Commands)
  BY DEF Empty, Cards
<1>2. <<[cmd |-> "start"]>> \in Seq(Commands)
  BY CommandsThere
<1>3. ASSUME Send(c) PROVE TypeOK'
  <2>1. toServer' \in [Tabs -> Seq(Commands)]
    <3>1. CASE banner[c] # None /\ toServer' = Sent(c, [cmd |-> "respond", prompt |-> banner[c]])
      <4>1. banner[c] \in Prompts
        BY <3>1 DEF TypeOK
      <4>2. QED
        BY <3>1, <4>1, CommandsThere, SentTyped
    <3>2. CASE toServer' = Sent(c, [cmd |-> "prompt"])
      BY <3>2, CommandsThere, SentTyped
    <3>3. QED
      BY <1>3, <3>1, <3>2 DEF Send
  <2>2. QED
    BY <1>3, <2>1 DEF Send, TypeOK, server, shown
<1>4. ASSUME Clear(c) PROVE TypeOK'
  <2>1. toServer' \in [Tabs -> Seq(Commands)]
    BY <1>4, CommandsThere, SentTyped DEF Clear
  <2>2. /\ streaming' \in [Tabs -> Turns \cup {None}]
        /\ card' \in [Tabs -> Cards \ {"absent"}]
    BY <1>4, StopStreamTyped DEF Clear
  <2>3. QED
    BY <1>1, <1>4, <2>1, <2>2 DEF Clear, TypeOK, server
<1>5. ASSUME NEW m \in Turns, Settle(c, m) PROVE TypeOK'
  <2>1. toServer' \in [Tabs -> Seq(Commands)]
    BY <1>5, CommandsThere, SentTyped DEF Settle
  <2>2. card' \in [Tabs -> Cards \ {"absent"}]
    BY <1>1, <1>5 DEF Settle, TypeOK
  <2>3. messages' \in [Tabs -> [Turns -> Cards]]
    BY <1>1, <1>5 DEF Settle, TypeOK
  <2>4. settled' \subseteq Turns
    BY <1>5 DEF Settle, TypeOK
  <2>5. QED
    BY <1>5, <2>1, <2>2, <2>3, <2>4 DEF Settle, TypeOK, server
<1>6. ASSUME Collapse(c) PROVE TypeOK'
  <2>1. cuts' \in 0 .. MaxCuts
    BY <1>6, SamBounds DEF Collapse, TypeOK
  <2>2. QED
    BY <1>6, <2>1 DEF Collapse, TypeOK, server, shown
<1>7. ASSUME Expand(c) PROVE TypeOK'
  <2>1. toServer' \in [Tabs -> Seq(Commands)]
    BY <1>7, CommandsThere, SentTyped DEF Expand, TypeOK
  <2>2. QED
    BY <1>7, <2>1 DEF Expand, TypeOK, server, shown
<1>8. ASSUME Drop(c) PROVE TypeOK'
  <2>1. cuts' \in 0 .. MaxCuts
    BY <1>8, SamBounds DEF Drop, TypeOK
  <2>2. toServer' \in [Tabs -> Seq(Commands)]
    BY <1>1, <1>8, QueueTyped DEF Drop
  <2>3. QED
    BY <1>8, <2>1, <2>2 DEF Drop, TypeOK, server, shown
<1>9. ASSUME Reconnect(c) PROVE TypeOK'
  <2>1. toServer' \in [Tabs -> Seq(Commands)]
    BY <1>2, <1>9, QueueTyped DEF Reconnect, TypeOK
  <2>2. QED
    BY <1>9, <2>1 DEF Reconnect, TypeOK, server, shown
<1>10. ASSUME Reload(c) PROVE TypeOK'
  <2>1. toServer' \in [Tabs -> Seq(Commands)]
    BY <1>2, <1>10, QueueTyped DEF Reload
  <2>2. /\ streaming' \in [Tabs -> Turns \cup {None}]
        /\ card' \in [Tabs -> Cards \ {"absent"}]
    BY <1>10, StopStreamTyped DEF Reload
  <2>3. QED
    BY <1>1, <1>10, <2>1, <2>2 DEF Reload, TypeOK, server
<1>11. QED
  BY <1>3, <1>4, <1>5, <1>6, <1>7, <1>8, <1>9, <1>10, Zenon DEF Tab

LEMMA HandleTyped ==
    ASSUME TypeOK, NEW c \in Tabs, Handle(c)
    PROVE  TypeOK'
<1>1. Empty \in [Turns -> Cards] /\ "settled" \in Cards
  BY DEF Empty, Cards
<1>2. toServer' \in [Tabs -> Seq(Commands)]
  BY HandledTyped DEF Handle, HandleStart, HandlePrompt, HandleRespond, HandleClear,
     HandlePatchState, Arrived
<1>3. ASSUME HandleStart(c) PROVE TypeOK'
  BY <1>2, <1>3 DEF HandleStart, TypeOK, server
<1>4. ASSUME HandlePrompt(c) PROVE TypeOK'
  <2>1. /\ streaming' \in [Tabs -> Turns \cup {None}]
        /\ card' \in [Tabs -> Cards \ {"absent"}]
    BY <1>4, StopStreamTyped DEF HandlePrompt, TypeOK
  <2>2. turn' \in 0 .. MaxTurns
    BY <1>4, SamBounds DEF HandlePrompt, TypeOK
  <2>3. QED
    BY <1>2, <1>4, <2>1, <2>2 DEF HandlePrompt, TypeOK
<1>5. ASSUME HandleRespond(c) PROVE TypeOK'
  BY <1>2, <1>5, SeeResolvedTyped DEF HandleRespond, TypeOK
<1>6. ASSUME HandleClear(c) PROVE TypeOK'
  <2>1. banner' \in [Tabs -> Prompts \cup {None}]
    BY <1>6, SeeResolvedTyped DEF HandleClear, TypeOK
  <2>2. QED
    BY <1>1, <1>2, <1>6, <2>1 DEF HandleClear, TypeOK
<1>7. ASSUME HandlePatchState(c) PROVE TypeOK'
  <2>1. disk' \in [Turns -> Cards]
    BY <1>1, <1>7 DEF HandlePatchState, Recorded, TypeOK
  <2>2. QED
    BY <1>2, <1>7, <2>1 DEF HandlePatchState, TypeOK, shown
<1>8. QED
  BY <1>3, <1>4, <1>5, <1>6, <1>7 DEF Handle

LEMMA TurnTyped ==
    ASSUME TypeOK, Begun,
           \/ \E p \in Prompts : PromptTimesOut(p)
           \/ MessageStart \/ ProposePatch \/ Ask \/ TurnEnds \/ TurnFails \/ Restart
    PROVE  TypeOK'
<1>1. {"plain", "pending"} \subseteq Cards \ {"absent"}
  BY DEF Cards
<1>2. inFlight => turn \in Turns
  BY SamBounds DEF TypeOK, Begun, Turns
<1>3. ASSUME NEW p \in Prompts, PromptTimesOut(p) PROVE TypeOK'
  BY <1>3, SeeResolvedTyped DEF PromptTimesOut, TypeOK
<1>4. ASSUME MessageStart PROVE TypeOK'
  BY <1>1, <1>2, <1>4 DEF MessageStart, SeeStart, TypeOK, server
<1>5. ASSUME ProposePatch PROVE TypeOK'
  BY <1>1, <1>5 DEF ProposePatch, SeePatch, TypeOK
<1>6. ASSUME Ask PROVE TypeOK'
  <2>1. asked' \in 0 .. MaxPrompts /\ asked + 1 \in Prompts /\ pending' \subseteq 1 .. asked'
    BY <1>6, SamBounds DEF Ask, TypeOK, Prompts
  <2>2. banner' \in [Tabs -> Prompts \cup {None}]
    BY <1>6, <2>1 DEF Ask, TypeOK
  <2>3. QED
    BY <1>6, <2>1, <2>2 DEF Ask, TypeOK
<1>7. ASSUME TurnEnds PROVE TypeOK'
  <2>1. /\ streaming' \in [Tabs -> Turns \cup {None}]
        /\ card' \in [Tabs -> Cards \ {"absent"}]
    BY <1>7, StopStreamTyped DEF TurnEnds, SeeEnd
  <2>2. messages' \in [Tabs -> [Turns -> Cards]]
    BY <1>7 DEF TurnEnds, SeeEnd, TypeOK
  <2>3. disk' \in [Turns -> Cards]
    BY <1>1, <1>7 DEF TurnEnds, TypeOK
  <2>4. QED
    BY <1>7, <2>1, <2>2, <2>3 DEF TurnEnds, TypeOK
<1>8. ASSUME TurnFails PROVE TypeOK'
  <2>1. /\ streaming' \in [Tabs -> Turns \cup {None}]
        /\ card' \in [Tabs -> Cards \ {"absent"}]
    BY <1>8, StopStreamTyped DEF TurnFails
  <2>2. disk' \in [Turns -> Cards]
    BY <1>1, <1>8 DEF TurnFails, TypeOK
  <2>3. QED
    BY <1>8, <2>1, <2>2 DEF TurnFails, TypeOK
<1>9. ASSUME Restart PROVE TypeOK'
  <2>1. cuts' \in 0 .. MaxCuts
    BY <1>9, SamBounds DEF Restart, TypeOK
  <2>2. toServer' \in [Tabs -> Seq(Commands)]
    BY <1>9 DEF Restart
  <2>3. QED
    BY <1>9, <2>1, <2>2 DEF Restart, TypeOK, shown
<1>10. QED
  BY <1>3, <1>4, <1>5, <1>6, <1>7, <1>8, <1>9
-----------------------------------------------------------------------------
(************************* what an attentive tab shows *********************)

\* Nothing else of a tab's picture changes.
ShowsAsBefore(c) == streaming'[c] = streaming[c] /\ banner'[c] = banner[c]

LEMMA TabShown ==
    ASSUME TypeOK, Shown, NEW c \in Tabs, Tab(c)
    PROVE  Shown'
<1>1. UNCHANGED <<inFlight, turn, pending>>
  BY DEF Tab, Send, Clear, Collapse, Expand, Drop, Reconnect, Reload, Settle, server
<1>2. /\ \A d \in Tabs \ missed' : d # c => d \in Tabs \ missed /\ ShowsAsBefore(d)
      /\ \A d \in Tabs : d # c => (d \in Listening' <=> d \in Listening)
  BY DEF Tab, Send, Clear, Collapse, Expand, Drop, Reconnect, Reload, Settle, shown, StopStream,
     Listening, ShowsAsBefore, TypeOK
<1>3. CASE c \in missed'
  BY <1>1, <1>2, <1>3 DEF Shown, Attentive, StreamIsInFlight, BannerIsPending, ShowsAsBefore
<1>4. CASE c \notin missed'
  <2>1. \/ c \notin missed /\ c \in Listening' /\ ShowsAsBefore(c)
        \/ c \in Listening' /\ streaming'[c] = None /\ banner'[c] = None
    <3>1. CASE Send(c) \/ Expand(c) \/ Reconnect(c) \/ \E m \in Turns : Settle(c, m)
      BY <1>4, <3>1 DEF Send, Expand, Reconnect, Settle, shown, Listening, ShowsAsBefore, Shown,
         Attentive
    <3>2. CASE Clear(c)
      BY <1>4, <3>2 DEF Clear, StopStream, Listening, Shown, Attentive, TypeOK
    <3>3. CASE Reload(c)
      BY <3>3 DEF Reload, StopStream, Listening, TypeOK
    <3>4. CASE Collapse(c) \/ Drop(c)
      BY <1>4, <3>4 DEF Collapse, Drop
    <3>5. QED
      BY <3>1, <3>2, <3>3, <3>4 DEF Tab
  <2>2. QED
    BY <1>1, <1>2, <1>4, <2>1 DEF Shown, Attentive, StreamIsInFlight, BannerIsPending, ShowsAsBefore
<1>5. QED
  BY <1>3, <1>4

LEMMA HandleShown ==
    ASSUME TypeOK, Shown, NEW c \in Tabs, Handle(c)
    PROVE  Shown'
<1>1. UNCHANGED <<online, panel, missed>> /\ Attentive'
  BY DEF Handle, HandleStart, HandlePrompt, HandleRespond, HandleClear, HandlePatchState, Shown,
     Attentive, Listening, shown
<1>2. ASSUME HandleStart(c) \/ HandlePatchState(c) PROVE StreamIsInFlight' /\ BannerIsPending'
  BY <1>2 DEF HandleStart, HandlePatchState, Shown, StreamIsInFlight, BannerIsPending, server, shown
<1>3. ASSUME HandlePrompt(c) PROVE StreamIsInFlight' /\ BannerIsPending'
  BY <1>3 DEF HandlePrompt, StopStream, Shown, Attentive, StreamIsInFlight, BannerIsPending
<1>4. ASSUME HandleRespond(c) PROVE StreamIsInFlight' /\ BannerIsPending'
  BY <1>4 DEF HandleRespond, SeeResolved, Shown, Attentive, StreamIsInFlight, BannerIsPending
<1>5. ASSUME HandleClear(c) PROVE StreamIsInFlight' /\ BannerIsPending'
  BY <1>5 DEF HandleClear, SeeResolved, Shown, Attentive, StreamIsInFlight, BannerIsPending
<1>6. QED
  BY <1>1, <1>2, <1>3, <1>4, <1>5 DEF Handle, Shown

LEMMA TurnShown ==
    ASSUME TypeOK, Shown,
           \/ \E p \in Prompts : PromptTimesOut(p)
           \/ MessageStart \/ ProposePatch \/ Ask \/ TurnEnds \/ TurnFails \/ Restart
    PROVE  Shown'
<1>1. ASSUME NEW p \in Prompts, PromptTimesOut(p) PROVE Shown'
  BY <1>1 DEF PromptTimesOut, SeeResolved, Shown, Attentive, Listening, StreamIsInFlight,
     BannerIsPending
<1>2. ASSUME MessageStart PROVE Shown'
  BY <1>2 DEF MessageStart, SeeStart, Shown, Attentive, Listening, StreamIsInFlight,
     BannerIsPending, server
<1>3. ASSUME ProposePatch PROVE Shown'
  BY <1>3 DEF ProposePatch, Shown, Attentive, Listening, StreamIsInFlight, BannerIsPending
<1>4. ASSUME Ask PROVE Shown'
  BY <1>4 DEF Ask, Shown, Attentive, Listening, StreamIsInFlight, BannerIsPending
<1>5. ASSUME TurnEnds PROVE Shown'
  BY <1>5 DEF TurnEnds, SeeEnd, StopStream, Shown, Attentive, Listening, StreamIsInFlight,
     BannerIsPending
<1>6. ASSUME TurnFails PROVE Shown'
  BY <1>6 DEF TurnFails, StopStream, Shown, Attentive, Listening, StreamIsInFlight,
     BannerIsPending
<1>7. ASSUME Restart PROVE Shown'
  BY <1>7 DEF Restart, Shown, Attentive, StreamIsInFlight, BannerIsPending
<1>8. QED
  BY <1>1, <1>2, <1>3, <1>4, <1>5, <1>6, <1>7
-----------------------------------------------------------------------------
(****************************** settled cards ******************************)

\* Some tab has the word of card m on the way.
OnItsWay(m) == \E c \in Tabs : m \in Unsent(c)

\* Whether q carries the word of card m.
Carries(q, m) == \E k \in DOMAIN q : q[k].cmd = "patchState" /\ q[k].turn = m

LEMMA UnsentCarries == \A c \in Tabs, m \in Turns : m \in Unsent(c) <=> Carries(toServer[c], m)
  BY DEF Unsent, Carries

\* A queue carries its words on when it grows, and all but the first when it moves up.
LEMMA QueuesCarry ==
    ASSUME NEW q \in Seq(Commands), NEW m \in Turns
    PROVE  /\ \A command \in Commands :
                 /\ Carries(q, m) => Carries(Append(q, command), m)
                 /\ command.cmd = "patchState" /\ command.turn = m => Carries(Append(q, command), m)
           /\ q # <<>> /\ Carries(q, m) =>
                 Carries(Tail(q), m) \/ (Head(q).cmd = "patchState" /\ Head(q).turn = m)
<1>1. ASSUME NEW command \in Commands
      PROVE  /\ Carries(q, m) => Carries(Append(q, command), m)
             /\ command.cmd = "patchState" /\ command.turn = m => Carries(Append(q, command), m)
  <2>1. /\ DOMAIN Append(q, command) = DOMAIN q \cup {Len(q) + 1}
        /\ Append(q, command)[Len(q) + 1] = command
        /\ \A k \in DOMAIN q : Append(q, command)[k] = q[k]
    OBVIOUS
  <2>2. QED
    BY <2>1 DEF Carries
<1>2. ASSUME q # <<>>, NEW k \in DOMAIN q, q[k].cmd = "patchState", q[k].turn = m
      PROVE  Carries(Tail(q), m) \/ (Head(q).cmd = "patchState" /\ Head(q).turn = m)
  <2>1. CASE k = 1
    BY <1>2, <2>1
  <2>2. CASE k # 1
    <3>1. k - 1 \in DOMAIN Tail(q) /\ Tail(q)[k - 1] = q[k]
      <4> DEFINE l == k - 1
      <4>1. l \in 1 .. Len(q) - 1 /\ l + 1 = k
        BY <2>2
      <4> HIDE DEF l
      <4>2. l \in DOMAIN Tail(q) /\ Tail(q)[l] = q[l + 1]
        BY <1>2, <4>1
      <4>3. QED
        BY <4>1, <4>2 DEF l
    <3>2. QED
      BY <1>2, <3>1 DEF Carries
  <2>3. QED
    BY <2>1, <2>2
<1>3. QED
  BY <1>1, <1>2 DEF Carries

\* What a tab sends is added to what is on its way.
LEMMA SentCarries ==
    ASSUME TypeOK, NEW c \in Tabs, NEW command \in Commands, toServer' = Sent(c, command)
    PROVE  /\ \A m \in Turns : OnItsWay(m) => OnItsWay(m)'
           /\ c \in online /\ command.cmd = "patchState" => OnItsWay(command.turn)'
           /\ \A d \in Tabs : d \notin online /\ toServer[d] = <<>> => toServer'[d] = <<>>
<1>1. /\ \A d \in Tabs : d # c => toServer'[d] = toServer[d]
      /\ toServer'[c] = IF c \in online THEN Append(toServer[c], command) ELSE toServer[c]
      /\ toServer[c] \in Seq(Commands)
  BY DEF TypeOK, Sent
<1>2. \A d \in Tabs, m \in Turns : m \in Unsent(d) => m \in Unsent(d)'
  <2>1. \A d \in Tabs, m \in Turns : Carries(toServer[d], m) => Carries(toServer'[d], m)
    BY <1>1, QueuesCarry
  <2>2. QED
    BY <2>1 DEF Unsent, Carries
<1>3. ASSUME c \in online, command.cmd = "patchState"
      PROVE  OnItsWay(command.turn)'
  <2>1. command.turn \in Turns
    BY <1>3 DEF Commands
  <2>2. Carries(toServer'[c], command.turn)
    BY <1>1, <1>3, <2>1, QueuesCarry
  <2>3. QED
    BY <2>1, <2>2 DEF OnItsWay, Unsent, Carries
<1>4. \A d \in Tabs : d \notin online /\ toServer[d] = <<>> => toServer'[d] = <<>>
  BY <1>1
<1>5. QED
  BY <1>2, <1>3, <1>4 DEF OnItsWay

\* What the server takes from a queue is no longer on its way, and only that.
LEMMA HandledCarries ==
    ASSUME TypeOK, NEW c \in Tabs, toServer[c] # <<>>, Handled(c), NEW m \in Turns, OnItsWay(m)
    PROVE  OnItsWay(m)' \/ (Next1(c).cmd = "patchState" /\ Next1(c).turn = m)
<1>1. /\ \A d \in Tabs : d # c => toServer'[d] = toServer[d]
      /\ toServer'[c] = Tail(toServer[c])
      /\ toServer[c] \in Seq(Commands)
  BY DEF TypeOK, Handled
<1>2. PICK d \in Tabs : Carries(toServer[d], m)
  BY UnsentCarries DEF OnItsWay
<1>3. Carries(toServer'[d], m) \/ (Next1(c).cmd = "patchState" /\ Next1(c).turn = m)
  <2>1. CASE d # c
    BY <1>1, <1>2, <2>1
  <2>2. CASE d = c
    BY <1>1, <1>2, <2>2, QueuesCarry DEF Next1
  <2>3. QED
    BY <2>1, <2>2
<1>4. Carries(toServer'[d], m) => m \in Unsent(d)'
  BY DEF Unsent, Carries
<1>5. QED
  BY <1>3, <1>4 DEF OnItsWay

\* A step that writes no message of a turn which is still to be written, settles no card and
\* loses no word of one.
LEMMA QuietCards ==
    ASSUME TypeOK, CardsKept,
           turn' \in Nat, turn <= turn', \A m \in Turns : Unwritten(m)' => Unwritten(m),
           \A m \in Turns : Unwritten(m)' => disk'[m] \in {disk[m], "absent"},
           \A m \in settled' : disk'[m] = "pending" => disk[m] = "pending",
           \A c \in Tabs, m \in Turns :
              Unwritten(m)' => messages'[c][m] \in {messages[c][m], disk[m], "absent"},
           \A c \in Tabs : streaming'[c] \in {streaming[c], None, turn},
           settled' \subseteq settled,
           OfflineSendsNothing',
           \A m \in settled' : disk'[m] = "pending" /\ OnItsWay(m) => OnItsWay(m)'
    PROVE  CardsKept'
<1>1. TurnsUnwritten'
  BY DEF CardsKept, TurnsUnwritten
<1>2. Streamed'
  BY DEF CardsKept, Streamed, TypeOK, Turns
<1>3. SettledCardsPersist'
  BY DEF CardsKept, SettledCardsPersist, OnItsWay
<1>4. QED
  BY <1>1, <1>2, <1>3 DEF CardsKept

\* The same for a step of a tab, which leaves the server alone.
LEMMA QuietTab ==
    ASSUME TypeOK, CardsKept, UNCHANGED <<turn, inFlight, disk>>,
           \A c \in Tabs : messages'[c] \in {messages[c], Empty},
           \A c \in Tabs : streaming'[c] \in {streaming[c], None},
           settled' \subseteq settled,
           OfflineSendsNothing',
           \A m \in settled' : OnItsWay(m) => OnItsWay(m)'
    PROVE  CardsKept'
<1>1. \A m \in Turns : Unwritten(m)' => Unwritten(m)
  BY DEF Unwritten
<1>2. \A c \in Tabs, m \in Turns : messages'[c][m] \in {messages[c][m], disk[m], "absent"}
  BY DEF Empty
<1>3. turn' \in Nat /\ turn <= turn'
  BY DEF TypeOK
<1>4. QED
  BY <1>1, <1>2, <1>3, QuietCards

LEMMA TabCards ==
    ASSUME TypeOK, CardsKept, NEW c \in Tabs, Tab(c)
    PROVE  CardsKept'
<1>0. settled \subseteq Turns /\ OfflineSendsNothing
  BY DEF TypeOK, CardsKept
<1>1. ASSUME Send(c) PROVE CardsKept'
  <2>1. PICK command \in Commands : toServer' = Sent(c, command)
    <3>1. CASE banner[c] # None /\ toServer' = Sent(c, [cmd |-> "respond", prompt |-> banner[c]])
      <4>1. banner[c] \in Prompts
        BY <3>1 DEF TypeOK
      <4>2. QED
        BY <3>1, <4>1, CommandsThere
    <3>2. CASE toServer' = Sent(c, [cmd |-> "prompt"])
      BY <3>2, CommandsThere
    <3>3. QED
      BY <1>1, <3>1, <3>2 DEF Send
  <2>2. OfflineSendsNothing' /\ \A m \in settled : OnItsWay(m) => OnItsWay(m)'
    BY <1>0, <1>1, <2>1, SentCarries DEF Send, OfflineSendsNothing
  <2>3. QED
    BY <1>1, <2>2, QuietTab DEF Send, server, shown
<1>2. ASSUME Clear(c) PROVE CardsKept'
  <2>1. OfflineSendsNothing' /\ \A m \in settled : OnItsWay(m) => OnItsWay(m)'
    BY <1>0, <1>2, SentCarries, CommandsThere DEF Clear, OfflineSendsNothing
  <2>2. /\ \A d \in Tabs : messages'[d] \in {messages[d], Empty}
        /\ \A d \in Tabs : streaming'[d] \in {streaming[d], None}
    BY <1>2 DEF Clear, StopStream, TypeOK
  <2>3. QED
    BY <1>2, <2>1, <2>2, QuietTab DEF Clear, server
<1>3. ASSUME NEW m \in Turns, Settle(c, m) PROVE CardsKept'
  <2> DEFINE command == [cmd |-> "patchState", turn |-> m]
  <2>1. command \in Commands /\ command.cmd = "patchState" /\ command.turn = m
    BY CommandsThere
  <2>2. /\ toServer' = Sent(c, command) /\ UNCHANGED <<turn, inFlight, disk, streaming, online>>
        /\ \/ UNCHANGED messages
           \/ messages[c][m] = "pending" /\ messages' = [messages EXCEPT ![c][m] = "settled"]
        /\ \/ settled' = settled
           \/ messages[c][m] = "pending" /\ c \in online /\ settled' = settled \cup {m}
    BY <1>3 DEF Settle, server
  <2> HIDE DEF command
  <2>3. OfflineSendsNothing' /\ \A n \in settled : OnItsWay(n) => OnItsWay(n)'
    BY <1>0, <2>1, <2>2, SentCarries DEF OfflineSendsNothing
  <2>4. c \in online => OnItsWay(m)'
    BY <2>1, <2>2, SentCarries
  <2>5. TurnsUnwritten'
    <3> SUFFICES ASSUME NEW n \in Turns, Unwritten(n)'
                 PROVE  /\ disk'[n] = "absent" /\ n \notin settled'
                        /\ \A d \in Tabs : messages'[d][n] = "absent"
      BY DEF TurnsUnwritten
    <3>1. /\ disk[n] = "absent" /\ n \notin settled
          /\ \A d \in Tabs : messages[d][n] = "absent"
      BY <2>2 DEF Unwritten, CardsKept, TurnsUnwritten
    <3>2. messages[c][m] = "pending" => n # m
      BY <3>1
    <3>3. \A d \in Tabs : messages'[d][n] = messages[d][n]
      <4>1. CASE UNCHANGED messages
        BY <4>1
      <4>2. CASE n # m /\ messages' = [messages EXCEPT ![c][m] = "settled"]
        BY <4>2 DEF TypeOK
      <4>3. QED
        BY <2>2, <3>2, <4>1, <4>2
    <3>4. n \notin settled'
      BY <2>2, <3>1, <3>2
    <3>5. QED
      BY <2>2, <3>1, <3>3, <3>4
  <2>6. Streamed'
    BY <2>2 DEF CardsKept, Streamed
  <2>7. SettledCardsPersist'
    BY <2>2, <2>3, <2>4 DEF CardsKept, SettledCardsPersist, OnItsWay
  <2>8. QED
    BY <2>3, <2>5, <2>6, <2>7 DEF CardsKept
<1>4. ASSUME Collapse(c) PROVE CardsKept'
  <2>1. OfflineSendsNothing' /\ \A m \in settled : OnItsWay(m) => OnItsWay(m)'
    BY <1>0, <1>4 DEF Collapse, OfflineSendsNothing, OnItsWay, Unsent
  <2>2. QED
    BY <1>4, <2>1, QuietTab DEF Collapse, server, shown
<1>5. ASSUME Expand(c) PROVE CardsKept'
  <2>1. OfflineSendsNothing' /\ \A m \in settled : OnItsWay(m) => OnItsWay(m)'
    <3>1. CASE toServer' = toServer
      BY <1>0, <1>5, <3>1 DEF Expand, OfflineSendsNothing, OnItsWay, Unsent
    <3>2. CASE toServer' = Sent(c, [cmd |-> "start"])
      BY <1>0, <1>5, <3>2, SentCarries, CommandsThere DEF Expand, OfflineSendsNothing
    <3>3. QED
      BY <1>5, <3>1, <3>2 DEF Expand
  <2>2. QED
    BY <1>5, <2>1, QuietTab DEF Expand, server, shown
<1>6. ASSUME Drop(c) PROVE CardsKept'
  <2>1. \A d \in Tabs : d # c => Unsent(d)' = Unsent(d)
    BY <1>6 DEF Drop, Unsent, TypeOK
  <2>2. \A m \in settled' : m \in settled /\ (OnItsWay(m) => OnItsWay(m)')
    BY <1>6, <2>1 DEF Drop, OnItsWay
  <2>3. OfflineSendsNothing'
    BY <1>0, <1>6 DEF Drop, OfflineSendsNothing, TypeOK
  <2>4. QED
    BY <1>6, <2>2, <2>3, QuietTab DEF Drop, server, shown
<1>7. ASSUME Reconnect(c) \/ Reload(c) PROVE CardsKept'
  <2>1. toServer[c] = <<>> /\ c \notin online /\ c \in online'
    BY <1>0, <1>7 DEF Reconnect, Reload, OfflineSendsNothing
  <2>2. Unsent(c) = {}
    BY <2>1 DEF Unsent
  <2>3. \A d \in Tabs : d # c => Unsent(d)' = Unsent(d) /\ toServer'[d] = toServer[d]
    BY <1>7 DEF Reconnect, Reload, Unsent, TypeOK
  <2>4. \A m \in settled : OnItsWay(m) => OnItsWay(m)'
    BY <2>2, <2>3 DEF OnItsWay
  <2>5. OfflineSendsNothing'
    BY <1>0, <1>7, <2>3 DEF Reconnect, Reload, OfflineSendsNothing
  <2>6. /\ \A d \in Tabs : messages'[d] \in {messages[d], Empty}
        /\ \A d \in Tabs : streaming'[d] \in {streaming[d], None}
    BY <1>7 DEF Reconnect, Reload, StopStream, TypeOK, shown
  <2>7. QED
    BY <1>7, <2>4, <2>5, <2>6, QuietTab DEF Reconnect, Reload, server
<1>8. QED
  BY <1>1, <1>2, <1>3, <1>4, <1>5, <1>6, <1>7, Zenon DEF Tab

\* The server takes a command that settles no card.
LEMMA HandledKeeps ==
    ASSUME TypeOK, OfflineSendsNothing, NEW c \in Tabs, NEW name, Arrived(c, name), Handled(c),
           name # "patchState", online' = online
    PROVE  OfflineSendsNothing' /\ \A m \in Turns : OnItsWay(m) => OnItsWay(m)'
<1>1. toServer[c] # <<>> /\ Next1(c).cmd # "patchState"
  BY DEF Arrived
<1>2. OfflineSendsNothing'
  BY <1>1 DEF OfflineSendsNothing, Handled, TypeOK
<1>3. QED
  BY <1>1, <1>2, HandledCarries

LEMMA HandleCards ==
    ASSUME TypeOK, CardsKept, NEW c \in Tabs, Handle(c)
    PROVE  CardsKept'
<1>1. settled \subseteq Turns /\ OfflineSendsNothing /\ turn \in Nat
  BY DEF TypeOK, CardsKept
<1>2. /\ settled' = settled /\ online' = online
      /\ \A d \in Tabs : streaming'[d] \in {streaming[d], None}
  BY DEF Handle, HandleStart, HandlePrompt, HandleRespond, HandleClear, HandlePatchState, shown,
     StopStream
<1>3. ASSUME HandleStart(c) \/ HandleRespond(c) \/ HandleClear(c) PROVE CardsKept'
  <2>1. OfflineSendsNothing' /\ \A m \in settled' : OnItsWay(m) => OnItsWay(m)'
    BY <1>1, <1>2, <1>3, HandledKeeps DEF HandleStart, HandleRespond, HandleClear
  <2>2. UNCHANGED <<turn, inFlight>> /\ disk' \in {disk, Empty}
    BY <1>3 DEF HandleStart, HandleRespond, HandleClear, server
  <2>3. \A d \in Tabs : messages'[d] \in {messages[d], disk, Empty}
    BY <1>3 DEF HandleStart, HandleRespond, HandleClear, TypeOK
  <2>4. /\ \A m \in Turns : disk'[m] \in {disk[m], "absent"}
        /\ \A d \in Tabs, m \in Turns : messages'[d][m] \in {messages[d][m], disk[m], "absent"}
    BY <2>2, <2>3 DEF Empty
  <2>5. \A m \in Turns : Unwritten(m)' => Unwritten(m)
    BY <2>2 DEF Unwritten
  <2>6. \A m \in settled' : disk'[m] = "pending" => disk[m] = "pending"
    BY <1>1, <1>2, <2>4
  <2>7. QED
    BY <1>1, <1>2, <2>1, <2>2, <2>4, <2>5, <2>6, QuietCards
<1>4. ASSUME HandlePrompt(c) PROVE CardsKept'
  <2>1. OfflineSendsNothing' /\ \A m \in settled' : OnItsWay(m) => OnItsWay(m)'
    BY <1>1, <1>2, <1>4, HandledKeeps DEF HandlePrompt
  <2>2. /\ UNCHANGED <<disk, messages>>
        /\ UNCHANGED <<turn, inFlight>> \/ turn' = turn + 1
    BY <1>4 DEF HandlePrompt
  <2>3. turn' \in Nat /\ turn <= turn' /\ \A m \in Turns : Unwritten(m)' => Unwritten(m)
    BY <1>1, <2>2 DEF Unwritten, Turns
  <2>4. QED
    BY <1>2, <2>1, <2>2, <2>3, QuietCards
<1>5. ASSUME HandlePatchState(c) PROVE CardsKept'
  <2> DEFINE n == Next1(c).turn
  <2>1. /\ disk' = Recorded(n) /\ UNCHANGED <<turn, inFlight, messages>>
        /\ toServer[c] # <<>> /\ Handled(c)
    BY <1>5 DEF HandlePatchState, Arrived, shown
  <2> HIDE DEF n
  <2>2. OfflineSendsNothing'
    BY <1>1, <1>2, <2>1 DEF OfflineSendsNothing, Handled, TypeOK
  <2>3. \A m \in Turns : Unwritten(m)' => Unwritten(m) /\ disk'[m] = "absent"
    <3>1. \A m \in Turns : Unwritten(m)' => Unwritten(m) /\ disk[m] = "absent"
      BY <2>1 DEF Unwritten, CardsKept, TurnsUnwritten
    <3>2. QED
      BY <2>1, <3>1 DEF Recorded, TypeOK
  <2>4. \A m \in Turns : disk'[m] = "pending" => disk[m] = "pending" /\ m # n
    BY <2>1 DEF Recorded, TypeOK
  <2>5. \A m \in settled' : disk'[m] = "pending" /\ OnItsWay(m) => OnItsWay(m)'
    BY <1>1, <1>2, <2>1, <2>4, HandledCarries DEF n
  <2>6. QED
    BY <1>1, <1>2, <2>1, <2>2, <2>3, <2>4, <2>5, QuietCards
<1>6. QED
  BY <1>3, <1>4, <1>5 DEF Handle

LEMMA TurnCards ==
    ASSUME TypeOK, Begun, CardsKept,
           \/ \E p \in Prompts : PromptTimesOut(p)
           \/ MessageStart \/ ProposePatch \/ Ask \/ TurnEnds \/ TurnFails \/ Restart
    PROVE  CardsKept'
<1>1. /\ settled \subseteq Turns /\ OfflineSendsNothing /\ turn \in Nat /\ Streamed
      /\ turn' = turn /\ (inFlight => turn \in Turns)
  BY SamBounds DEF TypeOK, CardsKept, Begun, PromptTimesOut, MessageStart, ProposePatch, Ask,
     TurnEnds, TurnFails, Restart, Turns, server
<1>2. ASSUME \/ \E p \in Prompts : PromptTimesOut(p)
             \/ MessageStart \/ ProposePatch \/ Ask
      PROVE  CardsKept'
  <2>1. UNCHANGED <<inFlight, disk, messages, settled, toServer, online>>
    BY <1>2 DEF PromptTimesOut, MessageStart, ProposePatch, Ask, server
  <2>2. \A c \in Tabs : streaming'[c] \in {streaming[c], None, turn}
    BY <1>2 DEF PromptTimesOut, MessageStart, ProposePatch, Ask, SeeStart
  <2>3. OfflineSendsNothing' /\ \A m \in settled' : OnItsWay(m) => OnItsWay(m)'
    BY <1>1, <2>1 DEF OfflineSendsNothing, OnItsWay, Unsent
  <2>4. \A m \in Turns : Unwritten(m)' => Unwritten(m)
    BY <1>1, <2>1 DEF Unwritten
  <2>5. QED
    BY <1>1, <2>1, <2>2, <2>3, <2>4, QuietCards
<1>3. ASSUME TurnEnds \/ TurnFails PROVE CardsKept'
  <2>1. /\ inFlight /\ ~inFlight' /\ UNCHANGED <<settled, toServer, online>>
        /\ disk' \in {disk, [disk EXCEPT ![turn] = patch]}
    BY <1>3 DEF TurnEnds, TurnFails, TypeOK
  <2>2. \A m \in Turns : Unwritten(m)' => Unwritten(m) /\ m > turn
    BY <1>1, <2>1 DEF Unwritten, Turns
  <2>3. turn \notin settled
    BY <1>1, <2>1 DEF CardsKept, TurnsUnwritten, Unwritten
  <2>4. \A m \in Turns : m # turn => disk'[m] = disk[m]
    BY <2>1 DEF TypeOK
  <2>5. \A c \in Tabs, m \in Turns : m > turn => messages'[c][m] = messages[c][m]
    <3>1. CASE UNCHANGED messages
      BY <3>1
    <3>2. CASE SeeEnd
      <4> SUFFICES ASSUME NEW c \in Tabs, NEW m \in Turns, m > turn
                   PROVE  messages'[c][m] = messages[c][m]
        OBVIOUS
      <4>1. streaming[c] # None => streaming[c] # m
        BY <1>1 DEF Streamed, TypeOK, Turns
      <4>2. QED
        BY <3>2, <4>1 DEF SeeEnd, TypeOK
    <3>3. QED
      BY <1>3, <3>1, <3>2 DEF TurnEnds, TurnFails
  <2>6. \A c \in Tabs : streaming'[c] \in {streaming[c], None}
    BY <1>3 DEF TurnEnds, TurnFails, SeeEnd, StopStream
  <2>7. OfflineSendsNothing' /\ \A m \in settled' : OnItsWay(m) => OnItsWay(m)'
    BY <1>1, <2>1 DEF OfflineSendsNothing, OnItsWay, Unsent
  <2>8. /\ \A m \in Turns : Unwritten(m)' => disk'[m] = disk[m]
        /\ \A m \in settled' : disk'[m] = disk[m]
    BY <1>1, <2>1, <2>2, <2>3, <2>4
  <2>9. QED
    BY <1>1, <2>1, <2>2, <2>5, <2>6, <2>7, <2>8, QuietCards
<1>4. ASSUME Restart PROVE CardsKept'
  <2>1. UNCHANGED <<disk, messages, streaming>> /\ ~inFlight' /\ settled' \subseteq settled
    BY <1>4 DEF Restart, shown
  <2>2. \A m \in settled' : ~OnItsWay(m)
    BY <1>4 DEF Restart, OnItsWay
  <2>3. OfflineSendsNothing'
    BY <1>4 DEF Restart, OfflineSendsNothing
  <2>4. \A m \in Turns : Unwritten(m)' => Unwritten(m)
    BY <1>1, <2>1 DEF Unwritten
  <2>5. QED
    BY <1>1, <2>1, <2>2, <2>3, <2>4, QuietCards
<1>5. QED
  BY <1>2, <1>3, <1>4
-----------------------------------------------------------------------------
(****************************** the invariant ******************************)

LEMMA StepInvariant == IInv /\ [Next]_vars => IInv'
<1> SUFFICES ASSUME IInv, [Next]_vars PROVE IInv'
  OBVIOUS
<1>1. TypeOK /\ Begun /\ Shown /\ CardsKept
  BY DEF IInv
<1>2. ASSUME NEW c \in Tabs, Tab(c) PROVE IInv'
  <2>1. Begun'
    BY <1>1, <1>2 DEF Begun, Tab, Send, Clear, Collapse, Expand, Drop, Reconnect, Reload, Settle,
       server
  <2>2. QED
    BY <1>1, <1>2, <2>1, TabTyped, TabShown, TabCards DEF IInv
<1>3. ASSUME NEW c \in Tabs, Handle(c) PROVE IInv'
  <2>1. Begun'
    <3>1. turn \in Nat
      BY <1>1 DEF TypeOK
    <3>2. CASE HandlePrompt(c)
      <4>1. UNCHANGED <<turn, inFlight>> \/ turn' = turn + 1
        BY <3>2 DEF HandlePrompt
      <4>2. turn' = turn + 1 => turn' > 0
        BY <3>1
      <4>3. QED
        BY <1>1, <4>1, <4>2 DEF Begun
    <3>3. CASE ~HandlePrompt(c)
      BY <1>1, <1>3, <3>3 DEF Begun, Handle, HandleStart, HandleRespond, HandleClear,
         HandlePatchState, server
    <3>4. QED
      BY <3>2, <3>3
  <2>2. QED
    BY <1>1, <1>3, <2>1, HandleTyped, HandleShown, HandleCards DEF IInv
<1>4. ASSUME \/ \E p \in Prompts : PromptTimesOut(p)
             \/ MessageStart \/ ProposePatch \/ Ask \/ TurnEnds \/ TurnFails \/ Restart
      PROVE  IInv'
  <2>1. Begun'
    BY <1>1, <1>4 DEF Begun, PromptTimesOut, MessageStart, ProposePatch, Ask, TurnEnds, TurnFails,
       Restart, server
  <2>2. QED
    BY <1>1, <1>4, <2>1, TurnTyped, TurnShown, TurnCards DEF IInv
<1>5. ASSUME UNCHANGED vars PROVE IInv'
  <2>1. TypeOK' /\ Begun'
    BY <1>1, <1>5 DEF TypeOK, Begun, vars, server, shown
  <2>2. Shown'
    BY <1>1, <1>5 DEF Shown, Attentive, Listening, StreamIsInFlight, BannerIsPending, vars, server,
       shown
  <2>3. CardsKept'
    BY <1>1, <1>5 DEF CardsKept, TurnsUnwritten, Unwritten, Streamed, OfflineSendsNothing,
       SettledCardsPersist, Unsent, vars, server, shown
  <2>4. QED
    BY <2>1, <2>2, <2>3 DEF IInv
<1>6. QED
  BY <1>2, <1>3, <1>4, <1>5, Zenon DEF Next

LEMMA Invariant == Spec => []IInv
  BY InitInvariant, StepInvariant, PTL DEF Spec

\* The state of the assistant and of its tabs has its type: a prompt that is pending was asked,
\* and nothing streams or is settled but a turn.
THEOREM AssistantTyped == Spec => []TypeOK
<1>1. IInv => TypeOK
  BY DEF IInv
<1>2. QED
  BY <1>1, Invariant, PTL

\* A tab that listened since it loaded streams the turn in flight or nothing, through refused
\* prompts, failing turns, a clear and a restart: its input is never disabled for a turn that
\* is over.
THEOREM StreamsAreLive == Spec => []StreamIsInFlight
<1>1. IInv => StreamIsInFlight
  BY DEF IInv, Shown
<1>2. QED
  BY <1>1, Invariant, PTL

\* ... and its banner asks what some tool still waits for, although the event of one answer
\* takes away the banner of whatever prompt is shown.
THEOREM BannersAreLive == Spec => []BannerIsPending
<1>1. IInv => BannerIsPending
  BY DEF IInv, Shown
<1>2. QED
  BY <1>1, Invariant, PTL

\* A card settled in a committed message over an open connection is settled in the transcript,
\* or the command that settles it is on its way: a message is shown only after it was appended,
\* and the append never comes after the command.
THEOREM SettledCardsAreKept == Spec => []SettledCardsPersist
<1>1. IInv => SettledCardsPersist
  BY DEF IInv, CardsKept
<1>2. QED
  BY <1>1, Invariant, PTL
=============================================================================
