----------------------------- MODULE AgentComm -----------------------------
(***************************************************************************)
(* Agent-to-agent messages: AgentCommBus.send over the channel session of  *)
(* a pair of agents, and the channel run (RunCoordinator.dispatchChannel)  *)
(* by which a message wakes its receiver.                                  *)
(*                                                                         *)
(* A send holds its channel's lock from its checks to the END of the run   *)
(* it wakes.  That run may itself send.  send[i].at names the await where  *)
(* send i is suspended; an action is one stretch between two awaits.       *)
(*                                                                         *)
(* The agents are all each other's direct, bidirectional peers with the    *)
(* same limits.  (Refusals before the lock is taken -- topology,           *)
(* direction, size -- change nothing.)  All sends fall into one window of  *)
(* the rate limit, so nothing is pruned from the log.  ChannelSessionStore *)
(* serializes every change of a channel's meta data by a lock of its own;  *)
(* such a section is one step here.                                        *)
(***************************************************************************)
EXTENDS Naturals, Sequences, FiniteSets

CONSTANTS Agents,
          None,
          MaxSends,    (* bound: the calls of send that are ever made   *)
          MaxTurns, MaxDepth, TokenBudget, RateLimit,
          Unwritten    (* TRUE: file access may fail                    *)

ASSUME AgentCommConstants ==
    /\ None \notin Agents \cup Nat
    /\ {MaxSends, MaxTurns, MaxDepth, TokenBudget, RateLimit} \subseteq Nat \ {0}
    /\ Unwritten \in BOOLEAN

VARIABLES send,  (* the calls of AgentCommBus.send, in the order they were made  *)
          lock,  (* this.sendLock: per channel, the sends in line; the head has it *)
          meta,  (* per channel: channelMeta, and the messages in its transcript *)
          log,   (* this.outboundLog: per agent, the length of its list          *)
          busy,  (* per agent: the run its runtime works for: None, User, or the send *)
                 (* that woke it                                                 *)
          bound, (* per agent: the run for which the runtime's messages and      *)
                 (* session key were set last; None also when that run is over   *)
          user   (* per agent: its ordinary run: "none", "preparing", "prompting" *)

vars == <<send, lock, meta, log, busy, bound, user>>
runtime == <<busy, bound, user>>

Channels == {{a, b} : a, b \in Agents} \ {{a} : a \in Agents}

\* An ordinary run of an agent; a channel run is named by the send that woke it.
User == 0

Places == {"queued",      \* in line for the channel's lock
           "opening",     \* channelStore.open
           "limiting",    \* a limit is reached: audit, then seal
           "appending",   \* appendUserMessage
           "auditing",    \* appendAudit
           "sealing",     \* the last turn: seal
           "waking",      \* dispatchChannelWake: the run queue, reading the transcript
           "running",     \* the receiver's channel run
           "persisting",  \* appendAssistantMessages
           "accounting",  \* addUsage
           "exhausted",   \* the budget is spent: seal
           "done"}

Reasons == {"none", "max_turns_reached", "token_budget_exceeded"}

\* The places in which a send has its wake under way.
Waking == {"waking", "running", "persisting", "accounting", "exhausted"}

Channel(i) == {send[i].from, send[i].to}
Holds(i) == lock[Channel(i)] # <<>> /\ Head(lock[Channel(i)]) = i
At(i, place) == i \in DOMAIN send /\ send[i].at = place

Init == /\ send = <<>>
        /\ lock = [ch \in Channels |-> <<>>]
        /\ meta = [ch \in Channels |-> [turns |-> 0, tokens |-> 0, sealed |-> "none",
                                        messages |-> 0, mixed |-> FALSE]]
        /\ log = [a \in Agents |-> 0]
        /\ busy = [a \in Agents |-> None]
        /\ bound = [a \in Agents |-> None]
        /\ user = [a \in Agents |-> "none"]
-----------------------------------------------------------------------------
(******************************** the runs *********************************)

\* What is bound when run r of agent a is over: the binding stays, but is nobody's.
Unbound(a, r) == [bound EXCEPT ![a] = IF @ = r THEN None ELSE @]

\* executeRun up to the preflight hooks: the runtime gets the session's messages and key, whether
\* or not a channel run, of which the lease knows nothing, is using it.
UserRunStarts(a) ==
    /\ user[a] = "none"
    /\ user' = [user EXCEPT ![a] = "preparing"]
    /\ bound' = [bound EXCEPT ![a] = User]
    /\ UNCHANGED <<send, lock, meta, log, busy>>

\* The hooks are through: prompt. An agent that is processing a run refuses, and the run fails.
UserRunPrompts(a) ==
    /\ user[a] = "preparing"
    /\ IF busy[a] = None
       THEN /\ busy' = [busy EXCEPT ![a] = User]
            /\ user' = [user EXCEPT ![a] = "prompting"]
            /\ UNCHANGED bound
       ELSE /\ user' = [user EXCEPT ![a] = "none"]
            /\ bound' = Unbound(a, User)
            /\ UNCHANGED busy
    /\ UNCHANGED <<send, lock, meta, log>>

\* The sends by which run `by` of agent a is still held up.
Awaited(a, by) == {i \in DOMAIN send : send[i].from = a /\ send[i].by = by
                                       /\ send[i].at # "done"}

\* An ordinary run ends, when its tools have returned.
UserRunEnds(a) ==
    /\ busy[a] = User /\ Awaited(a, User) = {}
    /\ busy' = [busy EXCEPT ![a] = None]
    /\ user' = [user EXCEPT ![a] = "none"]
    /\ bound' = Unbound(a, User)
    /\ UNCHANGED <<send, lock, meta, log>>

\* A run calls agent_send, any number of times at once.
Send(a, b, end) ==
    /\ Len(send) < MaxSends
    /\ busy[a] # None /\ a # b
    /\ send' = Append(send, [at    |-> "queued", from |-> a, to |-> b, end |-> end,
                             by    |-> busy[a],
                             depth |-> IF busy[a] = User THEN 1
                                       ELSE send[busy[a]].depth + 1,
                             seen  |-> 0, stray |-> FALSE])
    /\ lock' = [lock EXCEPT ![{a, b}] = Append(@, Len(send) + 1)]
    /\ UNCHANGED <<meta, log, runtime>>
-----------------------------------------------------------------------------
(********************************* send ************************************)

Goes(i, place) == send' = [send EXCEPT ![i].at = place] /\ UNCHANGED lock

\* What is left of a send that has returned.
Returned == [at |-> "done", from |-> None, to |-> None, end |-> FALSE, by |-> User,
             depth |-> 1, seen |-> 0, stray |-> FALSE]

\* send returns, whatever it returns, and the lock goes to the next in line.
Returns(i) ==
    /\ send' = [send EXCEPT ![i] = Returned]
    /\ lock' = [lock EXCEPT ![Channel(i)] = Tail(@)]

\* Mutant of Refused: the lock is not released.
RefusedLocked(i) == Goes(i, "done")

\* A shaped error: nothing was changed.
Refused(i) == Returns(i)

\* Mutant of Admitted: the lock is not waited for.
AdmittedAtOnce(i) ==
    /\ At(i, "queued")
    /\ IF log[send[i].from] >= RateLimit
       THEN Refused(i)
       ELSE /\ send' = [send EXCEPT ![i].at = "opening", ![i].seen = log[send[i].from]]
            /\ UNCHANGED lock
    /\ UNCHANGED <<meta, log, runtime>>

\* The lock is taken, the rate limit read.
Admitted(i) ==
    /\ At(i, "queued") /\ Holds(i)
    /\ IF log[send[i].from] >= RateLimit
       THEN Refused(i)
       ELSE /\ send' = [send EXCEPT ![i].at = "opening", ![i].seen = log[send[i].from]]
            /\ UNCHANGED lock
    /\ UNCHANGED <<meta, log, runtime>>

\* The channel is opened; its state decides.
Opened(i) ==
    /\ At(i, "opening")
    /\ LET m == meta[Channel(i)]
       IN IF m.sealed # "none" THEN Refused(i)
          ELSE IF m.tokens >= TokenBudget THEN Goes(i, "limiting")
          ELSE IF send[i].depth > MaxDepth THEN Refused(i)
          ELSE IF m.turns + 1 > MaxTurns THEN Goes(i, "limiting")
          ELSE Goes(i, "appending")
    /\ UNCHANGED <<meta, log, runtime>>

Sealed(ch, reason) == [meta EXCEPT ![ch].sealed = reason]

LimitSealed(i) ==
    /\ At(i, "limiting")
    /\ LET ch == Channel(i)
       IN meta' = Sealed(ch, IF meta[ch].tokens >= TokenBudget THEN "token_budget_exceeded"
                             ELSE "max_turns_reached")
    /\ Returns(i)
    /\ UNCHANGED <<log, runtime>>

\* appendUserMessage; it throws on a sealed channel.
Appended(i) ==
    /\ At(i, "appending")
    /\ LET ch == Channel(i)
       IN IF meta[ch].sealed # "none"
          THEN Returns(i) /\ UNCHANGED meta
          ELSE /\ meta' = [meta EXCEPT ![ch].turns = @ + 1, ![ch].messages = @ + 1]
               /\ Goes(i, "auditing")
    /\ UNCHANGED <<log, runtime>>

\* Its message is in the transcript, but the turn is not counted; send answers an error.
AppendedUncounted(i) ==
    /\ Unwritten /\ At(i, "appending") /\ meta[Channel(i)].sealed = "none"
    /\ meta' = [meta EXCEPT ![Channel(i)].messages = @ + 1]
    /\ Returns(i)
    /\ UNCHANGED <<log, runtime>>

\* The message is in: wake the receiver, unless the sender ended the exchange.
WakeOrReturn(i) == IF send[i].end THEN Returns(i) ELSE Goes(i, "waking")

Audited(i) ==
    /\ At(i, "auditing")
    /\ log' = [log EXCEPT ![send[i].from] = send[i].seen + 1]
    /\ IF meta[Channel(i)].turns >= MaxTurns THEN Goes(i, "sealing") ELSE WakeOrReturn(i)
    /\ UNCHANGED <<meta, runtime>>

TurnsSealed(i) ==
    /\ At(i, "sealing")
    /\ meta' = Sealed(Channel(i), "max_turns_reached")
    /\ WakeOrReturn(i)
    /\ UNCHANGED <<log, runtime>>

\* A write fails: send answers internal_error; what was written stays.
Fails(i) ==
    /\ Unwritten
    /\ \E place \in {"opening", "limiting", "appending", "auditing", "sealing"} : At(i, place)
    /\ Returns(i)
    /\ UNCHANGED <<meta, log, runtime>>
-----------------------------------------------------------------------------
(********************************* the wake ********************************)

\* dispatchChannel gives the receiver's runtime the channel's messages and key, also while an
\* ordinary run uses it, and continues the agent: a busy agent refuses, which is swallowed.
WakeStarts(i) ==
    LET a == send[i].to
    IN  /\ At(i, "waking")
        /\ IF busy[a] = None
           THEN /\ bound' = [bound EXCEPT ![a] = i]
                /\ busy' = [busy EXCEPT ![a] = i]
                /\ Goes(i, "running")
           ELSE /\ bound' = [bound EXCEPT ![a] = None]
                /\ Returns(i)
                /\ UNCHANGED busy
        /\ UNCHANGED <<meta, log, user>>

\* The transcript cannot be read, or the edge is gone: the error is logged, that is all.
WakeFails(i) ==
    /\ Unwritten /\ At(i, "waking")
    /\ Returns(i)
    /\ UNCHANGED <<meta, log, runtime>>

\* The run ends, when its tools have returned. What the runtime's list of messages then has beyond
\* the length the channel's had is taken for the run's own: if the list has been replaced, it can
\* hold replies and tool results of whoever replaced it.
RunEnds(i) ==
    LET a == send[i].to
    IN  /\ At(i, "running") /\ Awaited(a, i) = {}
        /\ busy' = [busy EXCEPT ![a] = None]
        /\ \E stray \in {FALSE, bound[a] # i} :
              send' = [send EXCEPT ![i].at = "persisting", ![i].stray = stray]
        /\ bound' = Unbound(a, i)
        /\ UNCHANGED <<lock, meta, log, user>>

\* appendAssistantMessages, which passes no limit and bumps no turn; a failure is logged.
Persisted(i) ==
    /\ At(i, "persisting")
    /\ \/ meta' = [meta EXCEPT ![Channel(i)].mixed = @ \/ send[i].stray]
       \/ Unwritten /\ UNCHANGED meta
    /\ Goes(i, "accounting")
    /\ UNCHANGED <<log, runtime>>

\* addUsage: what the run used is added; a channel that is still open and over its budget
\* is sealed next.
Accounted(i) ==
    /\ At(i, "accounting")
    /\ \E used \in {0, 1} :
          LET m == meta[Channel(i)]
          IN /\ meta' = [meta EXCEPT ![Channel(i)].tokens = @ + used]
             /\ IF used > 0 /\ m.sealed = "none" /\ m.tokens + used >= TokenBudget
                THEN Goes(i, "exhausted")
                ELSE Returns(i)
    /\ UNCHANGED <<log, runtime>>

BudgetSealed(i) ==
    /\ At(i, "exhausted")
    /\ meta' = Sealed(Channel(i), "token_budget_exceeded")
    /\ Returns(i)
    /\ UNCHANGED <<log, runtime>>

\* The usage, or the seal, is lost: the error is logged, that is all.
AccountingFails(i) ==
    /\ Unwritten
    /\ At(i, "accounting") \/ At(i, "exhausted")
    /\ Returns(i)
    /\ UNCHANGED <<meta, log, runtime>>
-----------------------------------------------------------------------------
\* What send i does by itself once called: file access, and a model that answers.
Continue(i) == \/ Admitted(i) \/ Opened(i) \/ LimitSealed(i) \/ Appended(i) \/ Audited(i)
               \/ TurnsSealed(i) \/ WakeStarts(i) \/ RunEnds(i) \/ Persisted(i) \/ Accounted(i)
               \/ BudgetSealed(i)

Next == \/ \E a \in Agents : \/ UserRunStarts(a) \/ UserRunPrompts(a) \/ UserRunEnds(a)
                             \/ \E b \in Agents, end \in BOOLEAN : Send(a, b, end)
        \/ \E i \in 1..MaxSends : \/ Continue(i)
                                  \/ AppendedUncounted(i) \/ Fails(i)
                                  \/ WakeFails(i) \/ AccountingFails(i)

Spec == Init /\ [][Next]_vars
-----------------------------------------------------------------------------
(******************************* properties ********************************)

TypeOK ==
    /\ Len(send) <= MaxSends
    /\ \A i \in DOMAIN send :
          send[i] \in [at : Places, from : Agents \cup {None}, to : Agents \cup {None},
                       end : BOOLEAN, by : 0..MaxSends, depth : 1..MaxDepth + 1,
                       seen : 0..RateLimit - 1, stray : BOOLEAN]
    /\ \A ch \in Channels : \A n \in DOMAIN lock[ch] : lock[ch][n] \in DOMAIN send
    /\ meta \in [Channels -> [turns : 0..MaxTurns, tokens : 0..MaxSends,
                              sealed : Reasons, messages : 0..MaxSends, mixed : BOOLEAN]]
    /\ log \in [Agents -> 0..RateLimit]
    /\ \A a \in Agents : {busy[a], bound[a]} \subseteq {None, User} \cup DOMAIN send
    /\ user \in [Agents -> {"none", "preparing", "prompting"}]

\* "This closes the TOCTOU window": a message enters a channel only while the channel is
\* open, its budget is not spent and a turn is left, however its senders race.
AcceptedWithinLimits ==
    [][\A ch \in Channels :
          meta'[ch].messages > meta[ch].messages =>
              /\ meta[ch].sealed = "none"
              /\ meta[ch].tokens < TokenBudget
              /\ meta[ch].turns < MaxTurns]_meta

\* A channel is sealed once, for one reason, and only when that limit is reached.
SealedForGood ==
    [][\A ch \in Channels :
          /\ (meta[ch].sealed # "none" => meta'[ch].sealed = meta[ch].sealed)
          /\ (meta'[ch].sealed = "max_turns_reached" => meta'[ch].turns = MaxTurns)
          /\ (meta'[ch].sealed = "token_budget_exceeded" => meta'[ch].tokens >= TokenBudget)
      ]_meta

\* "The bus serializes channel runs and channel writes": two messages of one channel never
\* have their wakes under way at once, so neither run misses the other's messages.
OneWakePerChannel ==
    \A i, j \in DOMAIN send :
        (send[i].at \in Waking /\ send[j].at \in Waking /\ Channel(i) = Channel(j)) => i = j

\* The sends that wait for the lock of the channel whose run made them.
Caught == {i \in DOMAIN send : /\ send[i].at = "queued" /\ send[i].by # User
                               /\ Channel(i) = Channel(send[i].by)}

\* What a send can wait for: its channel's lock, and the sends of the run it woke.
HeldUp(i) == \/ send[i].at = "queued" /\ ~Holds(i)
             \/ send[i].at = "running" /\ Awaited(send[i].to, i) # {}

\* Cascades over several channels do not block each other: while a send is under way, some
\* send can go on, unless a reply is caught on the channel that woke its sender.
OnlyRepliesBlock ==
    (\E i \in DOMAIN send : send[i].at # "done") =>
        Caught # {} \/ \E i \in DOMAIN send : send[i].at # "done" /\ ~HeldUp(i)

\* HeldUp says when a send cannot go on by itself.
HeldUpIsDisabled ==
    \A i \in DOMAIN send : send[i].at # "done" => (HeldUp(i) <=> ~ENABLED Continue(i))
-----------------------------------------------------------------------------
(************ what the repository says, and the code does not do ***********)

\* "Reentrant reply from an active channel run queues the next wake and does not deadlock."
RepliesNeverCaught == Caught = {}

\* "Clean separation from both agents' user sessions": what is written to a channel is of its runs.
ChannelsKeepApart == \A ch \in Channels : ~meta[ch].mixed

\* "The storage backend for transcript/context is the channel-session, not B's user session": nor
\* does an ordinary run prompt with a channel's messages, or have its key replaced meanwhile.
UserRunsKeepApart == \A a \in Agents : busy[a] = User => bound[a] = User
=============================================================================
