------------------------------ MODULE ReplyStream ------------------------------
(***************************************************************************)
(* What becomes of the words of one run: the model streams them in         *)
(* messages of several blocks, between which tools run; StreamProcessor    *)
(* sends the events through its transforms (ReasoningGate, ReplyFilter,    *)
(* ToolSummaryCollector, ReplyAssembler), which hold back a reply that may *)
(* be the silent NO_REPLY and assemble the payloads for wait(); the tab    *)
(* that sent the prompt gathers deltas in one bubble (useChatStream),      *)
(* written to the store 32 ms later; persistRuntimeEvent writes messages   *)
(* and tool results to the transcript, from which a reloaded chat is       *)
(* rebuilt. Events reach the tab at once and in order, and the writes,     *)
(* chained and awaited before the end, are as if done at once; a text is   *)
(* a sequence of Tokens; letter case and sanitizing are left out.          *)
(***************************************************************************)
EXTENDS Naturals, Sequences, SequencesExt, FiniteSetsExt

CONSTANTS ShowReasoning,   (* AgentConfig.showReasoning; verbose is off *)
          MaxMessages,     (* bound: assistant messages of the run *)
          MaxBlocks,       (* bound: text blocks of the run *)
          MaxTokens,       (* bound: text deltas of the run *)
          Wholes           (* texts a message may bring without having streamed them *)

\* "no" and "reply" are the two halves of the silent token.
Tokens == {"_", "no", "reply", "hi"}
Blank == "_"
NoReply == <<"no", "reply">>

ASSUME StreamBounds == /\ ShowReasoning \in BOOLEAN
                       /\ {MaxMessages, MaxBlocks, MaxTokens} \subseteq Nat
                       /\ Wholes \subseteq Seq(Tokens)

VARIABLES at,        (* where the model is: "new", ready for the "next" message, inside "message", its
                        "thinking" or "text" block, running "tools", "done", and the run "over" *)
          ctx,       (* RunStreamContext and the ReplyFilter of the run *)
          tab,       (* the refs of useChatStream and its bubble in the session store *)
          payloads,  (* RunRecord.payloads, for wait() *)
          writer,    (* TranscriptState *)
          transcript,(* what the run appends to the transcript of its session *)
          spoken     (* history: what the model did *)

vars == <<at, ctx, tab, payloads, writer, transcript, spoken>>
stored == <<writer, transcript>>

Contexts == [text : Seq(Tokens), reasoning : BOOLEAN, failedTool : BOOLEAN, suppressed : BOOLEAN,
             started : BOOLEAN, buffering : BOOLEAN, held : Seq(Tokens), hadThinking : BOOLEAN]
Views == [bubble : BOOLEAN, shown : Seq(Tokens), content : Seq(Tokens), delta : Seq(Tokens),
          created : BOOLEAN, streaming : BOOLEAN, error : BOOLEAN]
Payloads == [type : {"text"}, content : Seq(Tokens)] \cup [type : {"reasoning", "error"}]
Writers == [text : Seq(Tokens), suppressed : BOOLEAN, persisted : BOOLEAN, invoked : BOOLEAN]
Entries == [type : {"assistant"}, text : Seq(Tokens), calls : BOOLEAN]
             \cup [type : {"toolResult", "empty_reply"}]
Histories == [said : Seq(Tokens), message : Seq(Tokens), block : Seq(Tokens), blocks : Nat,
              messages : Nat, thought : BOOLEAN, whole : BOOLEAN, silent : BOOLEAN, lost : BOOLEAN,
              cut : BOOLEAN, failed : BOOLEAN]

TypeOK ==
    /\ at \in {"new", "next", "message", "thinking", "text", "tools", "done", "over"}
    /\ ctx \in Contexts /\ tab \in Views /\ payloads \in Seq(Payloads)
    /\ writer \in Writers /\ transcript \in Seq(Entries)
    /\ spoken \in Histories

\* String.trim and trimStart.
TrimStart(s) == LET words == {i \in DOMAIN s : s[i] /= Blank}
                IN  IF words = {} THEN <<>> ELSE SubSeq(s, Min(words), Len(s))
Trimmed(s) == Reverse(TrimStart(Reverse(TrimStart(s))))

\* NO_REPLY_PATTERN.
IsNoReply(s) == Trimmed(s) = NoReply

\* Mutant of PossibleNoReply: leading blanks are not trimmed.
PossibleUntrimmed(s) == IsPrefix(s, NoReply) \/ IsNoReply(s)

\* What may still become it: nothing yet, the beginning of the token, or it and blanks.
PossibleNoReply(s) == IsPrefix(TrimStart(s), NoReply) \/ IsNoReply(s)

-----------------------------------------------------------------------------
(* The tab: the handler of useChatStream's sendMessage, one operator per event. updateMessage of a
   bubble that is not there does nothing. *)

Stored(t, text) == IF t.bubble THEN [t EXCEPT !.shown = text] ELSE t

WithBubble(t) == IF t.created THEN t ELSE [t EXCEPT !.bubble = TRUE, !.created = TRUE, !.shown = <<>>]

\* Mutant of SeeStart: every message starts from an empty text, as an earlier version did.
SeeStartAfresh(t) == [WithBubble(t) EXCEPT !.content = <<>>]

\* message:start adds the bubble once; the text of earlier messages stays.
SeeStart(t) == WithBubble(t)

\* message:delta: the words wait for the timer.
SeeDelta(t, words) == [t EXCEPT !.delta = @ \o words]

\* flushDelta, and the same in message:end.
Flushed(t) == Stored([t EXCEPT !.content = @ \o t.delta, !.delta = <<>>], t.content \o t.delta)

\* message:suppressed removes the bubble, and remembers neither text nor id as gone.
Removed(t) == [t EXCEPT !.bubble = FALSE, !.shown = <<>>]

\* lifecycle:end removes a bubble whose text is blank; deltas not flushed yet do not count.
SeeDone(t) == [IF Trimmed(t.content) = <<>> THEN Removed(t) ELSE t EXCEPT !.streaming = FALSE]

SeeError(t) == [t EXCEPT !.error = TRUE, !.streaming = FALSE]

\* The events that were held back: the start of the message and its deltas, c.held in all.
SeeHeld(t, c) == IF c.buffering THEN SeeDelta(SeeStart(t), c.held) ELSE t

\* The tab listens until the run is over.
Emit(t) == tab' = IF tab.streaming THEN t ELSE tab

\* The 32 ms timer of the tab, set by the first delta that waits; a run that is over does not
\* cancel it.
FlushTimer ==
    /\ tab.delta /= <<>>
    /\ tab' = Flushed(tab)
    /\ UNCHANGED <<at, ctx, payloads, stored, spoken>>

-----------------------------------------------------------------------------
(* The transcript: persistRuntimeEvent, one operator per event. *)

WriteStart == writer' = [writer EXCEPT !.text = <<>>, !.suppressed = FALSE] /\ UNCHANGED transcript

WriteDelta(word) == writer' = [writer EXCEPT !.text = Append(@, word)] /\ UNCHANGED transcript

\* The text of the last block replaces what was gathered.
WriteTextEnd(block) ==
    writer' = [writer EXCEPT !.text = block, !.suppressed = IsNoReply(block)] /\ UNCHANGED transcript

\* A message is dropped when it is empty, or silent; it is written with all its content, not only
\* the text judged.
WriteMessage(content, thought, calls) ==
    LET text == IF writer.text = <<>> THEN content ELSE writer.text
        thinkingOnly == text = <<>> /\ thought
        dropped == \/ text = <<>> /\ ~thinkingOnly /\ ~calls
                   \/ writer.suppressed
                   \/ ~thinkingOnly /\ ~calls /\ IsNoReply(text)
    IN  /\ transcript' = IF dropped THEN transcript
                         ELSE Append(transcript, [type |-> "assistant", text |-> content, calls |-> calls])
        /\ writer' = [writer EXCEPT !.persisted = @ \/ ~dropped, !.text = <<>>, !.suppressed = FALSE]

WriteToolResult ==
    /\ transcript' = Append(transcript, [type |-> "toolResult"])
    /\ writer' = [writer EXCEPT !.invoked = TRUE]

\* The diagnostic entry of a run that left nothing.
WriteEnd ==
    /\ transcript' = IF writer.persisted \/ writer.invoked THEN transcript
                     ELSE Append(transcript, [type |-> "empty_reply"])
    /\ UNCHANGED writer

-----------------------------------------------------------------------------
(* The run. Context and filter are made at lifecycle:start. *)

Init ==
    /\ at = "new"
    /\ ctx = [text |-> <<>>, reasoning |-> FALSE, failedTool |-> FALSE, suppressed |-> FALSE,
              started |-> FALSE, buffering |-> FALSE, held |-> <<>>, hadThinking |-> FALSE]
    /\ tab = [bubble |-> FALSE, shown |-> <<>>, content |-> <<>>, delta |-> <<>>, created |-> FALSE,
              streaming |-> TRUE, error |-> FALSE]
    /\ payloads = <<>>
    /\ writer = [text |-> <<>>, suppressed |-> FALSE, persisted |-> FALSE, invoked |-> FALSE]
    /\ transcript = <<>>
    /\ spoken = [said |-> <<>>, message |-> <<>>, block |-> <<>>, blocks |-> 0, messages |-> 0,
                 thought |-> FALSE, whole |-> FALSE, silent |-> FALSE, lost |-> FALSE, cut |-> FALSE,
                 failed |-> FALSE]

RunStarts ==
    /\ at = "new"
    /\ at' = "next"
    /\ UNCHANGED <<ctx, tab, payloads, stored, spoken>>

\* message_start of the assistant: message:start is held back until the text is known not to be
\* the silent token.
MessageStarts ==
    /\ at = "next"
    /\ at' = "message"
    /\ ctx' = [ctx EXCEPT !.started = TRUE, !.hadThinking = FALSE, !.buffering = TRUE,
                          !.held = <<>>]
    /\ WriteStart
    /\ spoken' = [spoken EXCEPT !.messages = @ + 1, !.message = <<>>, !.block = <<>>, !.thought = FALSE]
    /\ UNCHANGED <<tab, payloads>>

\* The indicator is shown whether or not reasoning is; its text is collected only if it is.
ThinkingStarts ==
    /\ at = "message"
    /\ at' = "thinking"
    /\ ctx' = [ctx EXCEPT !.hadThinking = TRUE, !.reasoning = @ \/ ShowReasoning]
    /\ Emit(WithBubble(tab))
    /\ spoken' = [spoken EXCEPT !.thought = TRUE]
    /\ UNCHANGED <<payloads, stored>>

\* reasoning:end touches nothing this module keeps.
ThinkingEnds ==
    /\ at = "thinking"
    /\ at' = "message"
    /\ UNCHANGED <<ctx, tab, payloads, stored, spoken>>

\* text_start is not handled.
TextStarts ==
    /\ at = "message" /\ spoken.blocks < MaxBlocks
    /\ at' = "text"
    /\ spoken' = [spoken EXCEPT !.block = <<>>, !.blocks = @ + 1]
    /\ UNCHANGED <<ctx, tab, payloads, stored>>

\* A delta of a message that was suppressed is only collected; one that may still belong to the
\* silent token is held back; the first that cannot releases what was held.
Heard(word, text) ==
    IF ~ctx.started
    THEN ctx' = [ctx EXCEPT !.text = text] /\ UNCHANGED tab
    ELSE IF ctx.buffering /\ PossibleNoReply(text)
    THEN ctx' = [ctx EXCEPT !.text = text, !.held = Append(@, word)] /\ UNCHANGED tab
    ELSE /\ ctx' = [ctx EXCEPT !.text = text, !.buffering = FALSE, !.held = <<>>]
         /\ Emit(SeeDelta(SeeHeld(tab, ctx), <<word>>))

TextDelta(word) ==
    /\ at = "text" /\ Len(spoken.said) < MaxTokens
    /\ Heard(word, Append(ctx.text, word))
    /\ WriteDelta(word)
    /\ spoken' = [spoken EXCEPT !.said = Append(@, word), !.message = Append(@, word),
                                !.block = Append(@, word)]
    /\ UNCHANGED <<at, payloads>>

Suppressed(c) == [c EXCEPT !.suppressed = TRUE, !.started = FALSE, !.buffering = FALSE, !.held = <<>>]
Released(c) == [c EXCEPT !.buffering = FALSE, !.held = <<>>]

\* text_end brings the text of its block.
TextEnds ==
    /\ at = "text"
    /\ at' = "message"
    /\ IF IsNoReply(spoken.block)
       THEN ctx' = Suppressed(ctx) /\ Emit(Removed(tab))
       ELSE ctx' = Released(ctx) /\ Emit(SeeHeld(tab, ctx))
    /\ WriteTextEnd(spoken.block)
    /\ spoken' = [spoken EXCEPT !.silent = @ \/ IsNoReply(spoken.block)]
    /\ UNCHANGED payloads

Closed(c) == [Released(c) EXCEPT !.started = FALSE, !.hadThinking = FALSE]

\* message_end. Nothing follows a suppressed message. A text that was not streamed is sent as one
\* delta, if the whole run has streamed none; a message that only thought leaves no bubble.
MessageOver(whole) ==
    LET fallback == IF ctx.text = <<>> THEN whole ELSE <<>>
    IN
    IF ~ctx.started \/ ctx.suppressed
    THEN ctx' = Closed(ctx) /\ UNCHANGED tab
    ELSE IF fallback /= <<>> /\ IsNoReply(fallback)
    THEN ctx' = [Suppressed(ctx) EXCEPT !.text = fallback] /\ Emit(Removed(tab))
    ELSE IF fallback /= <<>>
    THEN /\ ctx' = [Closed(ctx) EXCEPT !.text = fallback]
         /\ Emit(Flushed(SeeDelta(SeeHeld(tab, ctx), fallback)))
    ELSE IF ctx.hadThinking /\ ctx.text = <<>>
    THEN ctx' = Closed(ctx) /\ UNCHANGED tab
    ELSE ctx' = Closed(ctx) /\ Emit(Flushed(SeeHeld(tab, ctx)))

\* The message brings its text at the end only when none of it was streamed; when it calls a tool,
\* another follows.
MessageEnds(whole, calls) ==
    /\ at = "message"
    /\ calls => spoken.messages < MaxMessages
    /\ at' = IF calls THEN "tools" ELSE "done"
    /\ spoken.message /= <<>> => whole = <<>>
    /\ MessageOver(whole)
    /\ WriteMessage(spoken.message \o whole, spoken.thought, calls)
    /\ spoken' = [spoken EXCEPT !.said = IF ctx.text = <<>> THEN @ \o whole ELSE @,
                                !.whole = @ \/ (whole /= <<>> /\ ctx.text = <<>>),
                                !.silent = @ \/ IsNoReply(spoken.message \o whole),
                                !.lost = @ \/ (whole /= <<>> /\ ctx.text /= <<>>)]
    /\ UNCHANGED payloads

\* The provider fails or the run is aborted inside a message: it ends with what was streamed, its
\* text block without text_end, and is the last.
MessageCut ==
    /\ at \in {"message", "thinking", "text"}
    /\ at' = "done"
    /\ MessageOver(<<>>)
    /\ WriteMessage(spoken.message, spoken.thought, FALSE)
    /\ spoken' = [spoken EXCEPT !.cut = TRUE,
                                !.silent = @ \/ IsNoReply(spoken.message) \/ IsNoReply(writer.text)]
    /\ UNCHANGED payloads

\* tool_execution_end, one per message: the rows of the tools are apart from the bubble.
ToolEnds(isError) ==
    /\ at = "tools"
    /\ at' = "next"
    /\ ctx' = [ctx EXCEPT !.failedTool = @ \/ isError]
    /\ WriteToolResult
    /\ UNCHANGED <<tab, payloads, spoken>>

\* ReplyAssembler at lifecycle:end.
Assembled ==
    LET text == IF Trimmed(ctx.text) = <<>> \/ IsNoReply(ctx.text) THEN <<>>
                ELSE <<[type |-> "text", content |-> ctx.text]>>
        reasoning == IF ctx.reasoning THEN <<[type |-> "reasoning"]>> ELSE <<>>
    IN  IF text \o reasoning = <<>> /\ ctx.failedTool THEN <<[type |-> "error"]>> ELSE text \o reasoning

\* prompt() returned, also when its last message was cut by the provider.
RunEnds ==
    /\ at = "done"
    /\ at' = "over"
    /\ payloads' = Assembled
    /\ WriteEnd
    /\ Emit(SeeDone(tab))
    /\ UNCHANGED <<ctx, spoken>>

\* finalizeRunError at any moment: before the context exists, inside a message (abort, timeout) or
\* between two. The context is gone, so the tab is told nothing more; what the aborted prompt still
\* writes to the transcript is left out.
RunFails ==
    /\ at /= "over"
    /\ at' = "over"
    /\ spoken' = [spoken EXCEPT !.failed = TRUE]
    /\ Emit(SeeError(tab))
    /\ UNCHANGED <<ctx, payloads, stored>>

Next ==
    \/ RunStarts \/ MessageStarts \/ ThinkingStarts \/ ThinkingEnds \/ TextStarts \/ TextEnds
    \/ \E word \in Tokens : TextDelta(word)
    \/ \E whole \in Wholes, calls \in BOOLEAN : MessageEnds(whole, calls)
    \/ \E isError \in BOOLEAN : ToolEnds(isError)
    \/ MessageCut \/ RunEnds \/ RunFails \/ FlushTimer

Spec == Init /\ [][Next]_vars

-----------------------------------------------------------------------------
(* Properties. *)

SaidAloud == IF Trimmed(spoken.said) = <<>> THEN <<>> ELSE spoken.said
Words(entry) == IF entry.type = "assistant" THEN entry.text ELSE <<>>

\* The bubble shows exactly what was said, or there is none because that was blank.
Shown == tab.bubble = (SaidAloud /= <<>>) /\ tab.shown = SaidAloud

\* The text payload for wait() is what was said.
Answered == {p \in ToSet(payloads) : p.type = "text"}
                = {[type |-> "text", content |-> words] : words \in {SaidAloud} \ {<<>>}}

\* So is the text of the transcript, where each tool result follows the message that called the
\* tool, and no empty reply is noted when something was said.
Recorded ==
    /\ FlattenSeq([i \in DOMAIN transcript |-> Words(transcript[i])]) = spoken.said
    /\ \A i \in DOMAIN transcript : transcript[i].type = "toolResult" =>
          i > 1 /\ transcript[i - 1].type = "assistant" /\ transcript[i - 1].calls
    /\ [type |-> "empty_reply"] \in ToSet(transcript) => spoken.said = <<>>

\* Everyone is told the same and all of it: when a run has ended well, the tab, wait() and the
\* transcript have exactly what the model said over all its messages, however blocks, tools,
\* thinking, held back deltas and the timer of the tab fell together. Not claimed of runs one of
\* whose blocks or messages was the silent token, which takes the whole bubble with it, nor when a
\* later message did not stream its text, which is dropped (see the README).
OutcomeIsSaid ==
    (at = "over" /\ ~spoken.failed /\ ~spoken.silent /\ ~spoken.lost /\ ~IsNoReply(spoken.said)) =>
        Shown /\ Answered /\ Recorded

\* "The output check runs after runtime.prompt() returns, against the streamed assistant text"
\* (concepts/guardrails-node.md): what executeRun then looks at is the text of a run that left one.
\* Refuted (ReplyStreamGuard.cfg): every message_end has emptied it.
OutputIsChecked ==
    (at = "over" /\ ~spoken.failed /\ Trimmed(spoken.said) /= <<>>) => writer.text /= <<>>

\* "If NO_REPLY is detected, the buffered events are discarded instead of forwarded" (streaming
\* reply shaping design, 3.2): as long as the block may turn out to be nothing but the silent token,
\* and when it did, not a word of it is in the tab, shown or waiting, and no bubble is left when the
\* run has ended well. Claimed of the first block of a run, or of its first message when that did
\* not stream its text, and of none that was cut (see the README).
SilenceKept ==
    (/\ spoken.blocks = 0 \/ (spoken.blocks = 1 /\ ~spoken.whole)
     /\ ~spoken.cut
     /\ IsNoReply(spoken.said) \/ (at = "text" /\ PossibleNoReply(spoken.said))) =>
        /\ Trimmed(tab.shown \o tab.content \o tab.delta) = <<>>
        /\ (at = "over" /\ ~spoken.failed) => ~tab.bubble
=============================================================================
