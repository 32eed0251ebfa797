--------------------------- MODULE AgentCommProofs ---------------------------
(***************************************************************************)
(* For any number of agents, sends and messages: the runs of a channel     *)
(* never overlap, no message enters a channel past its limits, and sends   *)
(* over several channels never wait for each other in a circle.            *)
(*                                                                         *)
(* The first two rest on the lock of the channel: a send that is past its  *)
(* checks holds it, so nobody else changes the channel between check and   *)
(* write. The last rests on the agents having one run each.                *)
(***************************************************************************)
EXTENDS AgentComm, WellFoundedInduction, TLAPS

Sends == [at : Places, from : Agents \cup {None}, to : Agents \cup {None}, end : BOOLEAN,
          by : Nat, depth : Nat, seen : Nat, stray : BOOLEAN]

Typed ==
    /\ send \in Seq(Sends)
    /\ lock \in [Channels -> Seq(Nat)]
    /\ meta \in [Channels -> [turns : Nat, tokens : Nat, sealed : Reasons, messages : Nat,
                              mixed : BOOLEAN]]
    /\ log \in [Agents -> Nat]
    /\ busy \in [Agents -> {None, User} \cup DOMAIN send]

\* A send that has not returned is between two agents.
Placed == \A i \in DOMAIN send :
              send[i].at # "done" => send[i].from \in Agents /\ send[i].to \in Agents
                                     /\ send[i].from # send[i].to

\* Past the queue and not returned.
Active(i) == send[i].at \notin {"queued", "done"}

\* It has the lock of its channel.
Locked == \A i \in DOMAIN send : Active(i) => Holds(i)

\* What was checked still holds when the message is written.
Within(ch) == meta[ch].sealed = "none" /\ meta[ch].tokens < TokenBudget /\ meta[ch].turns < MaxTurns
StillWithin == \A i \in DOMAIN send : send[i].at = "appending" => Within(Channel(i))

IInv == Typed /\ Placed /\ Locked /\ StillWithin
-----------------------------------------------------------------------------
\* Nobody else is at work on the channel of a send that has the lock.
LEMMA Exclusive ==
    ASSUME Locked, NEW i \in DOMAIN send, Holds(i)
    PROVE  \A k \in DOMAIN send : k # i /\ Active(k) => Channel(k) # Channel(i)
BY DEF Locked, Holds

\* The send changes, keeps its agents and its lock.
LEMMA Moved ==
    ASSUME Typed, Placed, Locked, NEW i \in DOMAIN send, NEW x \in Sends,
           send[i].at # "done", Holds(i), x.from = send[i].from, x.to = send[i].to,
           send' = [send EXCEPT ![i] = x], lock' = lock
    PROVE  /\ send' \in Seq(Sends) /\ DOMAIN send' = DOMAIN send
           /\ \A k \in DOMAIN send : k # i => send'[k] = send[k]
           /\ send'[i] = x
           /\ Placed' /\ Locked'
<1>1. /\ send' \in Seq(Sends) /\ DOMAIN send' = DOMAIN send
      /\ \A k \in DOMAIN send : k # i => send'[k] = send[k]
      /\ send'[i] = x
  BY DEF Typed
<1>2. Placed'
  BY <1>1 DEF Placed
<1>3. Locked'
  BY <1>1 DEF Locked, Active, Holds, Channel
<1>4. QED
  BY <1>1, <1>2, <1>3

LEMMA Goes_Moved ==
    ASSUME Typed, Placed, Locked, NEW i \in DOMAIN send, NEW place \in Places,
           send[i].at # "done", Holds(i), Goes(i, place)
    PROVE  /\ send' \in Seq(Sends) /\ DOMAIN send' = DOMAIN send
           /\ \A k \in DOMAIN send : k # i => send'[k] = send[k]
           /\ send'[i].at = place /\ send'[i].from = send[i].from /\ send'[i].to = send[i].to
           /\ lock' = lock
           /\ Placed' /\ Locked'
<1> DEFINE x == [send[i] EXCEPT !.at = place]
<1>1. send[i] \in Sends
  BY DEF Typed
<1>2. x \in Sends /\ x.at = place /\ x.from = send[i].from /\ x.to = send[i].to
  BY <1>1 DEF Sends
<1>3. send' = [send EXCEPT ![i] = x] /\ lock' = lock
  BY DEF Goes, Typed
<1> HIDE DEF x
<1>4. QED
  BY <1>2, <1>3, Moved

\* The send returns: the lock goes to somebody who is still in the queue.
LEMMA Returns_Freed ==
    ASSUME Typed, Placed, Locked, NEW i \in DOMAIN send, send[i].at # "done", Holds(i), Returns(i)
    PROVE  /\ send' \in Seq(Sends) /\ DOMAIN send' = DOMAIN send
           /\ \A k \in DOMAIN send : k # i => send'[k] = send[k]
           /\ send'[i].at = "done"
           /\ lock' \in [Channels -> Seq(Nat)]
           /\ Placed' /\ Locked'
<1>1. Returned \in Sends /\ Returned.at = "done"
  BY DEF Returned, Sends, Places, User
<1>2. /\ send' \in Seq(Sends) /\ DOMAIN send' = DOMAIN send
      /\ \A k \in DOMAIN send : k # i => send'[k] = send[k]
      /\ send'[i] = Returned
  BY <1>1 DEF Returns, Typed
<1>3. lock[Channel(i)] # <<>> /\ lock' = [lock EXCEPT ![Channel(i)] = Tail(@)]
  BY DEF Returns, Holds
<1>4. lock' \in [Channels -> Seq(Nat)]
  <2>1. Channel(i) \in Channels
    BY DEF Placed, Channel, Channels
  <2>2. lock[Channel(i)] \in Seq(Nat)
    BY <2>1 DEF Typed
  <2>3. Tail(lock[Channel(i)]) \in Seq(Nat)
    BY <2>2, <1>3
  <2>4. QED
    BY <2>3, <1>3 DEF Typed
<1>5. Placed'
  BY <1>1, <1>2 DEF Placed
<1>6. Locked'
  <2> SUFFICES ASSUME NEW k \in DOMAIN send', Active(k)'
               PROVE  Holds(k)'
    BY DEF Locked
  <2>1. k \in DOMAIN send /\ k # i /\ send'[k] = send[k] /\ Active(k)
    BY <1>1, <1>2 DEF Active
  <2>2. Holds(k) /\ Channel(k) # Channel(i)
    BY <2>1, Exclusive DEF Locked
  <2>3. Channel(k)' = Channel(k)
    BY <2>1 DEF Channel
  <2>4. lock'[Channel(k)] = lock[Channel(k)]
    BY <2>2, <1>3 DEF Typed
  <2>5. QED
    BY <2>2, <2>3, <2>4 DEF Holds
<1>7. QED
  BY <1>1, <1>2, <1>4, <1>5, <1>6

\* Whoever has the lock may change its channel: the other writers are on other channels.
LEMMA OthersWithin ==
    ASSUME Placed, Locked, StillWithin, NEW i \in DOMAIN send, Holds(i),
           DOMAIN send' = DOMAIN send,
           \A k \in DOMAIN send : k # i => send'[k] = send[k],
           \A ch \in Channels : ch # Channel(i) => meta'[ch] = meta[ch],
           send'[i].at = "appending" => Within(Channel(i))'
    PROVE  StillWithin'
<1> SUFFICES ASSUME NEW k \in DOMAIN send', send'[k].at = "appending"
             PROVE  Within(Channel(k))'
  BY DEF StillWithin
<1>1. CASE k = i
  BY <1>1
<1>2. CASE k # i
  <2>1. k \in DOMAIN send /\ send'[k] = send[k] /\ Active(k)
    BY <1>2 DEF Active
  <2>2. /\ Channel(k) # Channel(i) /\ Channel(k)' = Channel(k)
        /\ Channel(k) \in Channels
    BY <1>2, <2>1, Exclusive DEF Channel, Channels, Placed, Active
  <2>3. Within(Channel(k))
    BY <2>1 DEF StillWithin
  <2>4. QED
    BY <2>2, <2>3 DEF Within
<1>3. QED
  BY <1>1, <1>2

LEMMA InitInvariant == Init => IInv
<1> SUFFICES ASSUME Init PROVE IInv
  OBVIOUS
<1>1. Typed
  BY DEF Init, Typed, Reasons
<1>2. DOMAIN send = {}
  BY DEF Init
<1>3. QED
  BY <1>1, <1>2 DEF IInv, Placed, Locked, StillWithin

\* The steps of the ordinary runs touch no send.
LEMMA RuntimeStep ==
    ASSUME IInv, UNCHANGED <<send, lock, meta, log>>, busy' \in [Agents -> {None, User} \cup DOMAIN send]
    PROVE  IInv'
<1>1. Typed'
  BY DEF IInv, Typed, User
<1>2. Placed' /\ Locked' /\ StillWithin'
  BY DEF IInv, Placed, Locked, Active, Holds, Channel, StillWithin, Within
<1>3. QED
  BY <1>1, <1>2 DEF IInv

LEMMA SendStep ==
    ASSUME IInv, NEW a \in Agents, NEW b \in Agents, NEW end \in BOOLEAN, Send(a, b, end)
    PROVE  IInv'
<1> DEFINE by == busy[a]
           new == [at |-> "queued", from |-> a, to |-> b, end |-> end, by |-> by,
                   depth |-> IF by = User THEN 1 ELSE send[by].depth + 1,
                   seen |-> 0, stray |-> FALSE]
<1>1. by \in Nat /\ (by # User => by \in DOMAIN send)
  BY DEF IInv, Typed, Send, User
<1>2. new \in Sends /\ new.at = "queued" /\ new.from = a /\ new.to = b
  <2>1. by # User => send[by] \in Sends
    BY <1>1 DEF IInv, Typed
  <2>2. QED
    BY <1>1, <2>1 DEF Sends, Places
<1>3. send' = Append(send, new) /\ lock' = [lock EXCEPT ![{a, b}] = Append(@, Len(send) + 1)]
  BY DEF Send
<1>4. a # b /\ {a, b} \in Channels /\ UNCHANGED <<meta, log, busy>>
  <2>1. a # b /\ UNCHANGED <<meta, log, busy>>
    BY DEF Send, runtime
  <2>2. {a, b} \in {{x, y} : x, y \in Agents}
    OBVIOUS
  <2>3. {a, b} \notin {{x} : x \in Agents}
    BY <2>1
  <2>4. QED
    BY <2>1, <2>2, <2>3 DEF Channels
<1> HIDE DEF new, by
<1>5. /\ send' \in Seq(Sends) /\ DOMAIN send' = DOMAIN send \cup {Len(send) + 1}
      /\ \A k \in DOMAIN send : send'[k] = send[k]
      /\ send'[Len(send) + 1] = new
  BY <1>2, <1>3 DEF IInv, Typed
<1>6. /\ lock' \in [Channels -> Seq(Nat)]
      /\ \A ch \in Channels : lock[ch] # <<>> => lock'[ch] # <<>> /\ Head(lock'[ch]) = Head(lock[ch])
  <2>1. lock \in [Channels -> Seq(Nat)] /\ send \in Seq(Sends)
    BY DEF IInv, Typed
  <2> DEFINE n == Len(send) + 1
             q == lock[{a, b}]
  <2>2. n \in Nat /\ q \in Seq(Nat)
    BY <1>4, <2>1
  <2> HIDE DEF n
  <2>3. /\ Append(q, n) \in Seq(Nat) /\ Append(q, n) # <<>>
        /\ (q # <<>> => Head(Append(q, n)) = Head(q))
    BY <2>2
  <2>4. lock' = [lock EXCEPT ![{a, b}] = Append(q, n)]
    BY <1>3 DEF n
  <2>5. QED
    BY <1>4, <2>1, <2>3, <2>4
<1>7. Typed'
  BY <1>4, <1>5, <1>6 DEF IInv, Typed
<1>8. Placed'
  BY <1>2, <1>4, <1>5 DEF IInv, Placed
<1>9. Locked'
  <2> SUFFICES ASSUME NEW k \in DOMAIN send', Active(k)'
               PROVE  Holds(k)'
    BY DEF Locked
  <2>1. k \in DOMAIN send /\ send'[k] = send[k] /\ Active(k)
    BY <1>2, <1>5 DEF Active
  <2>2. Holds(k) /\ Channel(k) \in Channels /\ Channel(k)' = Channel(k)
    BY <2>1 DEF IInv, Locked, Placed, Active, Channel, Channels
  <2>3. QED
    BY <1>6, <2>2 DEF Holds
<1>10. StillWithin'
  BY <1>2, <1>4, <1>5 DEF IInv, StillWithin, Channel, Within
<1>11. QED
  BY <1>7, <1>8, <1>9, <1>10 DEF IInv
-----------------------------------------------------------------------------
\* What a step of a send may do besides: change its own channel, some list's length, who is busy.
Besides(i) ==
    /\ meta' \in [Channels -> [turns : Nat, tokens : Nat, sealed : Reasons, messages : Nat,
                               mixed : BOOLEAN]]
    /\ \A ch \in Channels : ch # Channel(i) => meta'[ch] = meta[ch]
    /\ log' \in [Agents -> Nat]
    /\ busy' \in [Agents -> {None, User} \cup DOMAIN send]

LEMMA NothingBesides ==
    ASSUME IInv, NEW i \in DOMAIN send, UNCHANGED <<meta, log, busy>>
    PROVE  Besides(i)
BY DEF IInv, Typed, Besides

\* An active send has its channel's lock, and its channel has meta data.
LEMMA ActiveHolds ==
    ASSUME IInv, NEW i, i \in DOMAIN send, Active(i)
    PROVE  /\ send[i] \in Sends /\ send[i].at # "done" /\ Holds(i) /\ Channel(i) \in Channels
           /\ meta[Channel(i)] \in [turns : Nat, tokens : Nat, sealed : Reasons, messages : Nat,
                                    mixed : BOOLEAN]
<1>1. send[i] \in Sends /\ send[i].at # "done" /\ Holds(i)
  BY DEF IInv, Typed, Locked, Active
<1>2. Channel(i) \in Channels
  BY <1>1 DEF IInv, Placed, Channel, Channels
<1>3. QED
  BY <1>1, <1>2 DEF IInv, Typed

LEMMA MovedStep ==
    ASSUME IInv, NEW i \in DOMAIN send, NEW x \in Sends, send[i].at # "done", Holds(i),
           x.from = send[i].from, x.to = send[i].to,
           send' = [send EXCEPT ![i] = x], lock' = lock, Besides(i),
           x.at = "appending" => Within(Channel(i))'
    PROVE  IInv'
<1>1. /\ send' \in Seq(Sends) /\ DOMAIN send' = DOMAIN send
      /\ \A k \in DOMAIN send : k # i => send'[k] = send[k]
      /\ send'[i] = x /\ Placed' /\ Locked'
  BY Moved DEF IInv
<1>2. Typed'
  BY <1>1 DEF IInv, Typed, Besides
<1>3. StillWithin'
  BY <1>1, OthersWithin DEF IInv, Besides
<1>4. QED
  BY <1>1, <1>2, <1>3 DEF IInv

LEMMA GoingStep ==
    ASSUME IInv, NEW i \in DOMAIN send, NEW place \in Places, Active(i), Goes(i, place),
           Besides(i), place = "appending" => Within(Channel(i))'
    PROVE  IInv'
<1>1. /\ send' \in Seq(Sends) /\ DOMAIN send' = DOMAIN send
      /\ \A k \in DOMAIN send : k # i => send'[k] = send[k]
      /\ send'[i].at = place /\ lock' = lock /\ Placed' /\ Locked'
  BY Goes_Moved, ActiveHolds DEF IInv
<1>2. Typed'
  BY <1>1 DEF IInv, Typed, Besides
<1>3. StillWithin'
  BY <1>1, OthersWithin, ActiveHolds DEF IInv, Besides
<1>4. QED
  BY <1>1, <1>2, <1>3 DEF IInv

LEMMA ReturningStep ==
    ASSUME IInv, NEW i \in DOMAIN send, send[i].at # "done", Holds(i), Returns(i), Besides(i)
    PROVE  IInv'
<1>1. /\ send' \in Seq(Sends) /\ DOMAIN send' = DOMAIN send
      /\ \A k \in DOMAIN send : k # i => send'[k] = send[k]
      /\ send'[i].at = "done" /\ lock' \in [Channels -> Seq(Nat)] /\ Placed' /\ Locked'
  BY Returns_Freed DEF IInv
<1>2. Typed'
  BY <1>1 DEF IInv, Typed, Besides
<1>3. StillWithin'
  BY <1>1, OthersWithin DEF IInv, Besides
<1>4. QED
  BY <1>1, <1>2, <1>3 DEF IInv
-----------------------------------------------------------------------------
\* The steps of a send.

LEMMA AdmittedStep ==
    ASSUME IInv, NEW i, Admitted(i)
    PROVE  IInv'
<1>1. /\ i \in DOMAIN send /\ send[i].at = "queued" /\ Holds(i) /\ send[i] \in Sends
      /\ UNCHANGED <<meta, log, busy>>
  BY DEF Admitted, At, IInv, Typed, runtime
<1>2. Besides(i)
  BY <1>1, NothingBesides
<1>3. CASE Refused(i)
  BY <1>1, <1>2, <1>3, ReturningStep DEF Refused
<1>4. CASE send' = [send EXCEPT ![i].at = "opening", ![i].seen = log[send[i].from]] /\ lock' = lock
  <2> DEFINE x == [send[i] EXCEPT !.at = "opening", !.seen = log[send[i].from]]
  <2>1. log[send[i].from] \in Nat
    BY <1>1 DEF IInv, Typed, Placed
  <2>2. /\ x \in Sends /\ x.from = send[i].from /\ x.to = send[i].to /\ x.at = "opening"
    BY <1>1, <2>1 DEF Sends, Places
  <2>3. send' = [send EXCEPT ![i] = x]
    BY <1>1, <1>4 DEF IInv, Typed
  <2> HIDE DEF x
  <2>4. QED
    BY <1>1, <1>2, <1>4, <2>2, <2>3, MovedStep
<1>5. QED
  BY <1>3, <1>4 DEF Admitted

LEMMA OpenedStep ==
    ASSUME IInv, NEW i, Opened(i)
    PROVE  IInv'
<1>1. /\ i \in DOMAIN send /\ Active(i) /\ UNCHANGED <<meta, log, busy>>
  BY DEF Opened, At, Active, runtime
<1>2. Besides(i) /\ send[i].at # "done" /\ Holds(i)
  BY <1>1, NothingBesides, ActiveHolds
<1>3. CASE Refused(i)
  BY <1>1, <1>2, <1>3, ReturningStep DEF Refused
<1>4. CASE Goes(i, "limiting")
  BY <1>1, <1>2, <1>4, GoingStep DEF Places
<1>5. CASE Within(Channel(i)) /\ Goes(i, "appending")
  <2>1. Channel(i)' = Channel(i)
    BY <1>1, <1>2, <1>5, Goes_Moved DEF IInv, Channel, Places
  <2>2. Within(Channel(i))'
    BY <1>1, <1>5, <2>1 DEF Within
  <2>3. QED
    BY <1>1, <1>2, <1>5, <2>2, GoingStep DEF Places
<1>6. /\ meta[Channel(i)].turns \in Nat /\ meta[Channel(i)].tokens \in Nat
      /\ MaxTurns \in Nat /\ TokenBudget \in Nat
  BY <1>1, ActiveHolds, AgentCommConstants
<1>7. ~(meta[Channel(i)].tokens >= TokenBudget) /\ ~(meta[Channel(i)].turns + 1 > MaxTurns)
         /\ ~(meta[Channel(i)].sealed # "none")
      => Within(Channel(i))
  BY <1>6 DEF Within
<1>8. QED
  BY <1>3, <1>4, <1>5, <1>7 DEF Opened

\* A send changes the meta data of its own channel only.
LEMMA OwnChannel ==
    ASSUME IInv, NEW i \in DOMAIN send, UNCHANGED <<log, busy>>,
           NEW m \in [turns : Nat, tokens : Nat, sealed : Reasons, messages : Nat,
                      mixed : BOOLEAN],
           meta' = [meta EXCEPT ![Channel(i)] = m]
    PROVE  Besides(i)
BY DEF Besides, IInv, Typed

\* A seal concerns the send's own channel.
LEMMA SealedBesides ==
    ASSUME IInv, NEW i \in DOMAIN send, Active(i), NEW reason \in Reasons,
           meta' = Sealed(Channel(i), reason), UNCHANGED <<log, busy>>
    PROVE  Besides(i)
<1> DEFINE ch == Channel(i)
           m == [meta[ch] EXCEPT !.sealed = reason]
<1>1. meta' = [meta EXCEPT ![ch] = m]
  BY DEF Sealed
<1>2. m \in [turns : Nat, tokens : Nat, sealed : Reasons, messages : Nat, mixed : BOOLEAN]
  BY ActiveHolds
<1> HIDE DEF m
<1>3. QED
  BY <1>1, <1>2, OwnChannel

LEMMA SealingStep ==
    ASSUME IInv, NEW i, LimitSealed(i) \/ BudgetSealed(i)
    PROVE  IInv'
<1>1. /\ i \in DOMAIN send /\ Active(i) /\ UNCHANGED <<log, busy>> /\ Returns(i)
      /\ \E reason \in Reasons : meta' = Sealed(Channel(i), reason)
  BY DEF LimitSealed, BudgetSealed, At, Active, runtime, Reasons
<1>2. QED
  BY <1>1, SealedBesides, ActiveHolds, ReturningStep

LEMMA AppendingStep ==
    ASSUME IInv, NEW i, Appended(i) \/ AppendedUncounted(i)
    PROVE  IInv'
<1>1. i \in DOMAIN send /\ Active(i) /\ UNCHANGED <<log, busy>>
  BY DEF Appended, AppendedUncounted, At, Active, runtime
<1>2. /\ send[i].at # "done" /\ Holds(i) /\ Channel(i) \in Channels
      /\ meta[Channel(i)] \in [turns : Nat, tokens : Nat, sealed : Reasons, messages : Nat,
                               mixed : BOOLEAN]
  BY <1>1, ActiveHolds
<1>3. Besides(i)
  <2>1. CASE UNCHANGED meta
    BY <1>1, <2>1, NothingBesides
  <2>2. CASE meta' = [meta EXCEPT ![Channel(i)].turns = @ + 1, ![Channel(i)].messages = @ + 1]
    <3> DEFINE m == [meta[Channel(i)] EXCEPT !.turns = @ + 1, !.messages = @ + 1]
    <3>1. meta' = [meta EXCEPT ![Channel(i)] = m]
      BY <1>2, <2>2 DEF IInv, Typed
    <3>2. meta[Channel(i)].turns + 1 \in Nat /\ meta[Channel(i)].messages + 1 \in Nat
      BY <1>2
    <3>3. m \in [turns : Nat, tokens : Nat, sealed : Reasons, messages : Nat, mixed : BOOLEAN]
      BY <1>2, <3>2
    <3> HIDE DEF m
    <3>4. QED
      BY <1>1, <3>1, <3>3, OwnChannel
  <2>3. CASE meta' = [meta EXCEPT ![Channel(i)].messages = @ + 1]
    <3> DEFINE m == [meta[Channel(i)] EXCEPT !.messages = @ + 1]
    <3>1. meta' = [meta EXCEPT ![Channel(i)] = m]
      BY <1>2, <2>3 DEF IInv, Typed
    <3>2. m \in [turns : Nat, tokens : Nat, sealed : Reasons, messages : Nat, mixed : BOOLEAN]
      BY <1>2
    <3> HIDE DEF m
    <3>3. QED
      BY <1>1, <3>1, <3>2, OwnChannel
  <2>4. QED
    BY <2>1, <2>2, <2>3 DEF Appended, AppendedUncounted
<1>4. CASE Returns(i)
  BY <1>1, <1>2, <1>3, <1>4, ReturningStep
<1>5. CASE Goes(i, "auditing")
  BY <1>1, <1>3, <1>5, GoingStep DEF Places
<1>6. QED
  BY <1>4, <1>5 DEF Appended, AppendedUncounted

LEMMA WakeOrReturnStep ==
    ASSUME IInv, NEW i \in DOMAIN send, Active(i), Besides(i), WakeOrReturn(i)
    PROVE  IInv'
<1>1. CASE Returns(i)
  BY <1>1, ActiveHolds, ReturningStep
<1>2. CASE Goes(i, "waking")
  BY <1>2, GoingStep DEF Places
<1>3. QED
  BY <1>1, <1>2 DEF WakeOrReturn

LEMMA AuditedStep ==
    ASSUME IInv, NEW i, Audited(i)
    PROVE  IInv'
<1>1. i \in DOMAIN send /\ Active(i) /\ UNCHANGED <<meta, busy>>
  BY DEF Audited, At, Active, runtime
<1>2. log' \in [Agents -> Nat]
  <2>1. send[i].seen + 1 \in Nat
    BY <1>1, ActiveHolds DEF Sends
  <2>2. log' = [log EXCEPT ![send[i].from] = send[i].seen + 1]
    BY DEF Audited
  <2>3. QED
    BY <2>1, <2>2 DEF IInv, Typed
<1>3. Besides(i)
  BY <1>1, <1>2 DEF IInv, Typed, Besides
<1>4. CASE Goes(i, "sealing")
  BY <1>1, <1>3, <1>4, GoingStep DEF Places
<1>5. CASE WakeOrReturn(i)
  BY <1>1, <1>3, <1>5, WakeOrReturnStep
<1>6. QED
  BY <1>4, <1>5 DEF Audited

LEMMA TurnsSealedStep ==
    ASSUME IInv, NEW i, TurnsSealed(i)
    PROVE  IInv'
<1>1. /\ i \in DOMAIN send /\ Active(i) /\ UNCHANGED <<log, busy>> /\ WakeOrReturn(i)
      /\ meta' = Sealed(Channel(i), "max_turns_reached") /\ "max_turns_reached" \in Reasons
  BY DEF TurnsSealed, At, Active, runtime, Reasons
<1>2. QED
  BY <1>1, SealedBesides, WakeOrReturnStep

\* The steps by which a send fails.
LEMMA FailingStep ==
    ASSUME IInv, NEW i, Fails(i) \/ WakeFails(i) \/ AccountingFails(i)
    PROVE  IInv'
<1>1. i \in DOMAIN send /\ Active(i) /\ Returns(i) /\ UNCHANGED <<meta, log, busy>>
  BY DEF Fails, WakeFails, AccountingFails, At, Active, runtime
<1>2. QED
  BY <1>1, NothingBesides, ActiveHolds, ReturningStep

LEMMA WakeStartsStep ==
    ASSUME IInv, NEW i, WakeStarts(i)
    PROVE  IInv'
<1>1. i \in DOMAIN send /\ Active(i) /\ UNCHANGED <<meta, log>>
  BY DEF WakeStarts, At, Active
<1>2. CASE busy' = [busy EXCEPT ![send[i].to] = i] /\ Goes(i, "running")
  <2>1. Besides(i)
    BY <1>1, <1>2 DEF IInv, Typed, Besides
  <2>2. QED
    BY <1>1, <1>2, <2>1, GoingStep DEF Places
<1>3. CASE UNCHANGED busy /\ Returns(i)
  BY <1>1, <1>3, NothingBesides, ActiveHolds, ReturningStep
<1>4. QED
  BY <1>2, <1>3 DEF WakeStarts

LEMMA RunEndsStep ==
    ASSUME IInv, NEW i, RunEnds(i)
    PROVE  IInv'
<1>1. /\ i \in DOMAIN send /\ Active(i) /\ UNCHANGED <<meta, log, lock>>
      /\ busy' = [busy EXCEPT ![send[i].to] = None]
  BY DEF RunEnds, At, Active
<1>2. PICK stray \in BOOLEAN :
          send' = [send EXCEPT ![i].at = "persisting", ![i].stray = stray]
  BY DEF RunEnds
<1>3. Besides(i)
  BY <1>1 DEF IInv, Typed, Besides
<1> DEFINE x == [send[i] EXCEPT !.at = "persisting", !.stray = stray]
<1>4. x \in Sends /\ x.from = send[i].from /\ x.to = send[i].to /\ x.at = "persisting"
  BY <1>1, ActiveHolds DEF Sends, Places
<1>5. send' = [send EXCEPT ![i] = x]
  BY <1>1, <1>2 DEF IInv, Typed
<1> HIDE DEF x
<1>6. QED
  BY <1>1, <1>3, <1>4, <1>5, ActiveHolds, MovedStep

LEMMA PersistedStep ==
    ASSUME IInv, NEW i, Persisted(i)
    PROVE  IInv'
<1>1. i \in DOMAIN send /\ Active(i) /\ UNCHANGED <<log, busy>> /\ Goes(i, "accounting")
  BY DEF Persisted, At, Active, runtime
<1>2. Besides(i)
  <2>1. CASE UNCHANGED meta
    BY <1>1, <2>1, NothingBesides
  <2>2. CASE meta' = [meta EXCEPT ![Channel(i)].mixed = @ \/ send[i].stray]
    <3> DEFINE m == [meta[Channel(i)] EXCEPT !.mixed = @ \/ send[i].stray]
    <3>1. meta' = [meta EXCEPT ![Channel(i)] = m]
      BY <1>1, <2>2, ActiveHolds DEF IInv, Typed
    <3>2. (meta[Channel(i)].mixed \/ send[i].stray) \in BOOLEAN
      OBVIOUS
    <3>3. m \in [turns : Nat, tokens : Nat, sealed : Reasons, messages : Nat, mixed : BOOLEAN]
      BY <1>1, <3>2, ActiveHolds
    <3> HIDE DEF m
    <3>4. QED
      BY <1>1, <3>1, <3>3, OwnChannel
  <2>3. QED
    BY <2>1, <2>2 DEF Persisted
<1>3. QED
  BY <1>1, <1>2, GoingStep DEF Places

LEMMA AccountedStep ==
    ASSUME IInv, NEW i, Accounted(i)
    PROVE  IInv'
<1>1. i \in DOMAIN send /\ Active(i) /\ UNCHANGED <<log, busy>>
  BY DEF Accounted, At, Active, runtime
<1>2. PICK used \in {0, 1} : meta' = [meta EXCEPT ![Channel(i)].tokens = @ + used]
  BY DEF Accounted
<1> DEFINE m == [meta[Channel(i)] EXCEPT !.tokens = @ + used]
<1>3. meta' = [meta EXCEPT ![Channel(i)] = m]
  BY <1>1, <1>2, ActiveHolds DEF IInv, Typed
<1>4. meta[Channel(i)].tokens + used \in Nat
  BY <1>1, ActiveHolds
<1>5. m \in [turns : Nat, tokens : Nat, sealed : Reasons, messages : Nat, mixed : BOOLEAN]
  BY <1>1, <1>4, ActiveHolds
<1> HIDE DEF m
<1>6. Besides(i)
  BY <1>1, <1>3, <1>5, OwnChannel
<1>7. Goes(i, "exhausted") \/ Returns(i)
  BY DEF Accounted
<1>8. QED
  BY <1>1, <1>6, <1>7, GoingStep, ReturningStep, ActiveHolds DEF Places
-----------------------------------------------------------------------------
LEMMA StepInvariant ==
    ASSUME IInv, [Next]_vars
    PROVE  IInv'
<1>1. CASE UNCHANGED vars
  BY <1>1, RuntimeStep DEF vars, IInv, Typed
<1>2. ASSUME NEW a \in Agents, UserRunStarts(a) \/ UserRunPrompts(a) \/ UserRunEnds(a)
      PROVE  IInv'
  <2>1. UNCHANGED <<send, lock, meta, log>>
    BY <1>2 DEF UserRunStarts, UserRunPrompts, UserRunEnds
  <2>2. \/ UNCHANGED busy
        \/ busy' = [busy EXCEPT ![a] = User]
        \/ busy' = [busy EXCEPT ![a] = None]
    BY <1>2 DEF UserRunStarts, UserRunPrompts, UserRunEnds
  <2>3. busy' \in [Agents -> {None, User} \cup DOMAIN send]
    BY <2>2 DEF IInv, Typed
  <2>4. QED
    BY <2>1, <2>3, RuntimeStep
<1>3. ASSUME NEW a \in Agents, NEW b \in Agents, NEW end \in BOOLEAN, Send(a, b, end)
      PROVE  IInv'
  BY <1>3, SendStep
<1>4. ASSUME NEW i, Continue(i)
      PROVE  IInv'
  BY <1>4, AdmittedStep, OpenedStep, SealingStep, AppendingStep, AuditedStep, TurnsSealedStep,
     WakeStartsStep, RunEndsStep, PersistedStep, AccountedStep DEF Continue
<1>5. ASSUME NEW i, AppendedUncounted(i) \/ Fails(i) \/ WakeFails(i) \/ AccountingFails(i)
      PROVE  IInv'
  BY <1>5, AppendingStep, FailingStep
<1>6. QED
  BY <1>1, <1>2, <1>3, <1>4, <1>5 DEF Next

\* AgentCommBus's locking invariant: an active send has its channel's lock, and what send checked
\* of the channel's limits still holds when its message is about to be written.
THEOREM LockInvariant == Spec => []IInv
<1>1. QED
  BY InitInvariant, StepInvariant, PTL DEF Spec

\* "The bus serializes channel runs and channel writes": two messages of one channel never have
\* their wakes under way at once.
THEOREM WakesNeverOverlap == Spec => []OneWakePerChannel
<1>1. IInv => OneWakePerChannel
  BY DEF IInv, Locked, Holds, Active, OneWakePerChannel, Waking
<1>2. QED
  BY <1>1, LockInvariant, PTL

\* Only a send that is appending adds a message to a channel's transcript.
LEMMA Writers ==
    ASSUME IInv, [Next]_vars, NEW ch \in Channels, meta'[ch].messages > meta[ch].messages
    PROVE  \E i \in DOMAIN send : send[i].at = "appending" /\ ch = Channel(i)
<1>1. meta[ch].messages \in Nat
  BY DEF IInv, Typed
<1>2. meta' # meta /\ meta'[ch].messages # meta[ch].messages
  BY <1>1
<1>3. PICK i : \/ LimitSealed(i) \/ BudgetSealed(i) \/ TurnsSealed(i) \/ Persisted(i)
               \/ Accounted(i) \/ Appended(i) \/ AppendedUncounted(i)
  BY <1>2 DEF Next, Continue, vars, runtime, UserRunStarts, UserRunPrompts, UserRunEnds, Send,
     Admitted, Opened, Audited, WakeStarts, RunEnds, Fails, WakeFails, AccountingFails
<1>4. CASE LimitSealed(i) \/ BudgetSealed(i) \/ TurnsSealed(i) \/ Persisted(i) \/ Accounted(i)
  <2>1. meta'[ch].messages = meta[ch].messages
    <3>1. \/ \E reason : meta' = [meta EXCEPT ![Channel(i)].sealed = reason]
          \/ \E mixed : meta' = [meta EXCEPT ![Channel(i)].mixed = mixed]
          \/ \E tokens : meta' = [meta EXCEPT ![Channel(i)].tokens = tokens]
          \/ UNCHANGED meta
      <4>1. CASE LimitSealed(i) \/ BudgetSealed(i) \/ TurnsSealed(i)
        BY <4>1 DEF LimitSealed, BudgetSealed, TurnsSealed, Sealed
      <4>2. CASE Persisted(i)
        BY <4>2 DEF Persisted
      <4>3. CASE Accounted(i)
        BY <4>3 DEF Accounted
      <4>4. QED
        BY <1>4, <4>1, <4>2, <4>3
    <3>2. QED
      BY <3>1 DEF IInv, Typed
  <2>2. QED
    BY <1>2, <2>1
<1>5. CASE Appended(i) \/ AppendedUncounted(i)
  <2>1. i \in DOMAIN send /\ send[i].at = "appending"
    BY <1>5 DEF Appended, AppendedUncounted, At
  <2>2. ch = Channel(i)
    BY <1>2, <1>5 DEF Appended, AppendedUncounted, IInv, Typed
  <2>3. QED
    BY <2>1, <2>2
<1>6. QED
  BY <1>3, <1>4, <1>5

\* "This closes the TOCTOU window": a message enters a channel only while the channel is open, its
\* budget is not spent and a turn is left.
THEOREM LimitsHoldAtTheWrite == Spec => AcceptedWithinLimits
<1> DEFINE Accepts == \A ch \in Channels :
                          meta'[ch].messages > meta[ch].messages =>
                              /\ meta[ch].sealed = "none"
                              /\ meta[ch].tokens < TokenBudget
                              /\ meta[ch].turns < MaxTurns
<1>1. ASSUME IInv, [Next]_vars
      PROVE  [Accepts]_meta
  BY <1>1, Writers DEF IInv, StillWithin, Within
<1> HIDE DEF Accepts
<1>2. Spec => [][Accepts]_meta
  BY <1>1, LockInvariant, PTL DEF Spec
<1>3. QED
  BY <1>2 DEF AcceptedWithinLimits, Accepts
-----------------------------------------------------------------------------
(********************* who waits for whom (OnlyRepliesBlock) ***************)

\* The run that made a send works on until the send has returned, the run a send woke is its
\* receiver's, and a run was woken by a send older than those it makes.
RunsKnown ==
    /\ \A i \in DOMAIN send : send[i].at # "done" => busy[send[i].from] = send[i].by
    /\ \A i \in DOMAIN send : send[i].at = "running" => busy[send[i].to] = i
    /\ \A i \in DOMAIN send : send[i].by # User => send[i].by < i

InLine(ch, i) == \E n \in DOMAIN lock[ch] : lock[ch][n] = i

\* The line of a channel has the sends of the channel that have not returned, each once.
LinesKnown ==
    /\ \A i \in DOMAIN send : send[i].at # "done" => InLine(Channel(i), i)
    /\ \A ch \in Channels : \A n \in DOMAIN lock[ch] :
          /\ lock[ch][n] \in DOMAIN send
          /\ send[lock[ch][n]].at # "done" /\ Channel(lock[ch][n]) = ch
    /\ \A ch \in Channels : \A m, n \in DOMAIN lock[ch] : lock[ch][m] = lock[ch][n] => m = n

Waits == RunsKnown /\ LinesKnown

LEMMA InitWaits == Init => Waits
  BY DEF Init, Waits, RunsKnown, LinesKnown

\* A send that has not returned has a channel.
LEMMA HasChannel ==
    ASSUME IInv, NEW i \in DOMAIN send, send[i].at # "done"
    PROVE  Channel(i) \in Channels
  BY DEF IInv, Placed, Channel, Channels

\* Every send is typed.
LEMMA SendsTyped ==
    ASSUME IInv
    PROVE  \A k \in DOMAIN send : send[k] \in Sends /\ send[k].by \in Nat
<1>1. \A k \in DOMAIN send : send[k] \in Sends
  BY DEF IInv, Typed
<1>2. QED
  BY <1>1 DEF Sends

\* A send that goes on without entering or leaving its run changes nothing of it.
LEMMA MovedWaits ==
    ASSUME IInv, Waits, NEW i \in DOMAIN send, NEW x \in Sends,
           send[i].at \notin {"done", "running"}, x.at \notin {"done", "running"},
           x.from = send[i].from, x.to = send[i].to, x.by = send[i].by,
           send' = [send EXCEPT ![i] = x], UNCHANGED <<lock, busy>>
    PROVE  Waits'
<1>1. /\ DOMAIN send' = DOMAIN send /\ send'[i] = x
      /\ \A k \in DOMAIN send : k # i => send'[k] = send[k]
  BY DEF IInv, Typed
<1>2. \A k \in DOMAIN send : /\ send'[k].from = send[k].from /\ send'[k].to = send[k].to
                             /\ send'[k].by = send[k].by /\ Channel(k)' = Channel(k)
                             /\ (send'[k].at = "done" <=> send[k].at = "done")
                             /\ (send'[k].at = "running" <=> send[k].at = "running")
  BY <1>1 DEF Channel
<1>3. RunsKnown'
  BY <1>1, <1>2 DEF Waits, RunsKnown
<1>4. LinesKnown'
  BY <1>1, <1>2 DEF Waits, LinesKnown, InLine
<1>5. QED
  BY <1>3, <1>4 DEF Waits

LEMMA GoingWaits ==
    ASSUME IInv, Waits, NEW i \in DOMAIN send, NEW place \in Places, Goes(i, place),
           send[i].at \notin {"done", "running"}, place \notin {"done", "running"},
           UNCHANGED busy
    PROVE  Waits'
<1> DEFINE x == [send[i] EXCEPT !.at = place]
<1>1. send[i] \in Sends
  BY DEF IInv, Typed
<1>2. /\ x \in Sends /\ x.at = place /\ x.from = send[i].from /\ x.to = send[i].to
      /\ x.by = send[i].by
  BY <1>1 DEF Sends
<1>3. send' = [send EXCEPT ![i] = x] /\ lock' = lock
  BY DEF Goes, IInv, Typed
<1> HIDE DEF x
<1>4. QED
  BY <1>2, <1>3, MovedWaits

\* The line after its head has left it.
LEMMA HeadLeaves ==
    ASSUME NEW q \in Seq(Nat), q # <<>>
    PROVE  /\ Tail(q) \in Seq(Nat)
           /\ DOMAIN Tail(q) \subseteq Nat
           /\ \A n \in DOMAIN Tail(q) : n + 1 \in DOMAIN q /\ Tail(q)[n] = q[n + 1] /\ n + 1 # 1
           /\ \A n \in DOMAIN q : n # 1 => n - 1 \in DOMAIN Tail(q) /\ Tail(q)[n - 1] = q[n]
           /\ Head(q) = q[1] /\ 1 \in DOMAIN q
<1>1. Len(q) \in Nat \ {0} /\ DOMAIN q = 1 .. Len(q) /\ Head(q) = q[1]
  OBVIOUS
<1>2. /\ Tail(q) \in Seq(Nat) /\ Len(Tail(q)) = Len(q) - 1
      /\ \A n \in 1 .. Len(q) - 1 : Tail(q)[n] = q[n + 1]
  OBVIOUS
<1>3. DOMAIN Tail(q) = 1 .. Len(q) - 1
  BY <1>1, <1>2
<1>4. \A n \in 1 .. Len(q) : n # 1 => n - 1 \in 1 .. Len(q) - 1 /\ Tail(q)[n - 1] = q[n]
  <2> SUFFICES ASSUME NEW n \in 1 .. Len(q), n # 1
               PROVE  n - 1 \in 1 .. Len(q) - 1 /\ Tail(q)[n - 1] = q[n]
    OBVIOUS
  <2> DEFINE len == Len(q)
  <2>0. len \in Nat /\ n \in 1 .. len /\ n # 1
    BY <1>1
  <2> HIDE DEF len
  <2>1. n - 1 \in 1 .. len - 1 /\ (n - 1) + 1 = n
    BY <2>0
  <2>2. QED
    BY <1>2, <2>1 DEF len
<1>5. /\ \A n \in DOMAIN Tail(q) : n + 1 \in DOMAIN q /\ Tail(q)[n] = q[n + 1] /\ n + 1 # 1
      /\ \A n \in DOMAIN q : n # 1 => n - 1 \in DOMAIN Tail(q) /\ Tail(q)[n - 1] = q[n]
      /\ 1 \in DOMAIN q
  <2>1. \A n \in 1 .. Len(q) - 1 : n + 1 \in 1 .. Len(q) /\ n + 1 # 1
    BY <1>1
  <2>2. 1 \in 1 .. Len(q)
    BY <1>1
  <2>3. QED
    BY <1>1, <1>2, <1>3, <1>4, <2>1, <2>2
<1>6. DOMAIN Tail(q) \subseteq Nat
  BY <1>1, <1>3
<1>7. QED
  BY <1>1, <1>2, <1>5, <1>6

\* A send returns, and with it at most its own place in the line goes.
LEMMA ReturningWaits ==
    ASSUME IInv, Waits, NEW i \in DOMAIN send, send[i].at \notin {"done", "running"}, Holds(i),
           Returns(i), UNCHANGED busy
    PROVE  Waits'
<1> DEFINE ch == Channel(i)
           q == lock[ch]
<1>1. Returned.at = "done" /\ Returned.by = User
  BY DEF Returned
<1>2. /\ DOMAIN send' = DOMAIN send /\ send'[i] = Returned
      /\ \A k \in DOMAIN send : k # i => send'[k] = send[k]
  BY DEF IInv, Typed, Returns
<1>3. ch \in Channels /\ q \in Seq(Nat) /\ q # <<>> /\ Head(q) = i
  <2>1. ch \in Channels
    BY HasChannel
  <2>2. QED
    BY <2>1 DEF IInv, Typed, Holds
<1>4. /\ lock'[ch] = Tail(q)
      /\ \A c \in Channels : c # ch => lock'[c] = lock[c]
  BY <1>3 DEF Returns, IInv, Typed
<1>5. \A k \in DOMAIN send : k # i => Channel(k)' = Channel(k)
  BY <1>2 DEF Channel
<1>6. RunsKnown'
  BY <1>1, <1>2 DEF Waits, RunsKnown
<1>7. ASSUME NEW k \in DOMAIN send', send'[k].at # "done"
      PROVE  InLine(Channel(k), k)'
  <2>1. k \in DOMAIN send /\ k # i /\ send[k].at # "done" /\ Channel(k)' = Channel(k)
    BY <1>1, <1>2, <1>5, <1>7
  <2>2. Channel(k) \in Channels /\ InLine(Channel(k), k)
    BY <2>1, HasChannel DEF Waits, LinesKnown
  <2>3. CASE Channel(k) # ch
    BY <1>4, <2>1, <2>2, <2>3 DEF InLine
  <2>4. CASE Channel(k) = ch
    <3>1. PICK n \in DOMAIN q : q[n] = k
      BY <2>2, <2>4 DEF InLine
    <3>2. n # 1
      BY <1>3, <2>1, <3>1, HeadLeaves
    <3>3. n - 1 \in DOMAIN Tail(q) /\ Tail(q)[n - 1] = k
      BY <1>3, <3>1, <3>2, HeadLeaves
    <3>4. QED
      BY <1>4, <2>1, <2>4, <3>3 DEF InLine
  <2>5. QED
    BY <2>3, <2>4
<1>8. ASSUME NEW c \in Channels, NEW n \in DOMAIN lock'[c]
      PROVE  /\ lock'[c][n] \in DOMAIN send'
             /\ send'[lock'[c][n]].at # "done"
             /\ {send'[lock'[c][n]].from, send'[lock'[c][n]].to} = c
  <2>1. PICK m \in DOMAIN lock[c] : lock'[c][n] = lock[c][m] /\ (c = ch => m # 1)
    <3>1. CASE c # ch
      BY <1>4, <1>8, <3>1
    <3>2. CASE c = ch
      <4>1. n \in DOMAIN Tail(q) /\ n \in Nat
        BY <1>3, <1>4, <3>2, HeadLeaves
      <4>2. n + 1 \in DOMAIN q /\ Tail(q)[n] = q[n + 1] /\ n + 1 # 1
        BY <1>3, <4>1, HeadLeaves
      <4>3. QED
        BY <1>4, <3>2, <4>2
    <3>3. QED
      BY <3>1, <3>2
  <2>2. /\ lock[c][m] \in DOMAIN send /\ send[lock[c][m]].at # "done"
        /\ Channel(lock[c][m]) = c
    BY DEF Waits, LinesKnown
  <2>3. lock[c][m] # i
    <3>1. CASE c = ch
      BY <1>3, <2>1, <3>1, HeadLeaves DEF Waits, LinesKnown
    <3>2. CASE c # ch
      BY <2>2, <3>2
    <3>3. QED
      BY <3>1, <3>2
  <2>4. QED
    BY <1>2, <2>1, <2>2, <2>3 DEF Channel
<1>9. ASSUME NEW c \in Channels, NEW m \in DOMAIN lock'[c], NEW n \in DOMAIN lock'[c],
             lock'[c][m] = lock'[c][n]
      PROVE  m = n
  <2>1. CASE c # ch
    BY <1>4, <1>9, <2>1 DEF Waits, LinesKnown
  <2>2. CASE c = ch
    <3>1. /\ m \in DOMAIN Tail(q) /\ n \in DOMAIN Tail(q) /\ Tail(q)[m] = Tail(q)[n]
          /\ m \in Nat /\ n \in Nat
      BY <1>3, <1>4, <1>9, <2>2, HeadLeaves
    <3>2. m + 1 \in DOMAIN q /\ n + 1 \in DOMAIN q /\ q[m + 1] = q[n + 1]
      BY <1>3, <3>1, HeadLeaves
    <3>3. m + 1 = n + 1
      BY <1>3, <3>2 DEF Waits, LinesKnown
    <3>4. QED
      BY <3>1, <3>3
  <2>3. QED
    BY <2>1, <2>2
<1>10. LinesKnown'
  BY <1>7, <1>8, <1>9 DEF LinesKnown, Channel
<1>11. QED
  BY <1>6, <1>10 DEF Waits

\* No run, no send: a runtime that works for nobody has no send under way.
LEMMA IdleAwaitsNothing ==
    ASSUME IInv, Waits, NEW a, busy[a] = None
    PROVE  \A k \in DOMAIN send : send[k].at # "done" => send[k].from # a
<1>1. \A k \in DOMAIN send : send[k].by \in Nat
  BY SendsTyped
<1>2. QED
  BY <1>1, AgentCommConstants DEF Waits, RunsKnown

\* The busy agents may change as long as nobody is let down.
LEMMA RuntimeWaits ==
    ASSUME IInv, Waits, UNCHANGED <<send, lock>>,
           \A k \in DOMAIN send : send[k].at # "done" => busy'[send[k].from] = busy[send[k].from],
           \A k \in DOMAIN send : send[k].at = "running" => busy'[send[k].to] = busy[send[k].to]
    PROVE  Waits'
<1>1. RunsKnown'
  BY DEF Waits, RunsKnown
<1>2. LinesKnown'
  BY DEF Waits, LinesKnown, InLine, Channel
<1>3. QED
  BY <1>1, <1>2 DEF Waits

\* The places of a send between its queue and its run, and after its run.
LEMMA Quick ==
    ASSUME IInv, Waits, NEW i \in DOMAIN send, send[i].at \notin {"queued", "done", "running"},
           UNCHANGED busy,
           Returns(i) \/ \E place \in Places \ {"done", "running"} : Goes(i, place)
    PROVE  Waits'
<1>1. Active(i)
  BY DEF Active
<1>2. CASE Returns(i)
  BY <1>1, <1>2, ActiveHolds, ReturningWaits
<1>3. ASSUME NEW place \in Places \ {"done", "running"}, Goes(i, place)
      PROVE  Waits'
  BY <1>3, GoingWaits
<1>4. QED
  BY <1>2, <1>3

LEMMA AdmittedWaits ==
    ASSUME IInv, Waits, NEW i, Admitted(i)
    PROVE  Waits'
<1>1. /\ i \in DOMAIN send /\ send[i].at = "queued" /\ Holds(i) /\ send[i] \in Sends
      /\ UNCHANGED busy
  BY SendsTyped DEF Admitted, At, runtime
<1>2. CASE Refused(i)
  BY <1>1, <1>2, ReturningWaits DEF Refused
<1>3. CASE send' = [send EXCEPT ![i].at = "opening", ![i].seen = log[send[i].from]] /\ lock' = lock
  <2> DEFINE x == [send[i] EXCEPT !.at = "opening", !.seen = log[send[i].from]]
  <2>1. log[send[i].from] \in Nat
    BY <1>1 DEF IInv, Typed, Placed
  <2>2. /\ x \in Sends /\ x.from = send[i].from /\ x.to = send[i].to /\ x.at = "opening"
        /\ x.by = send[i].by
    BY <1>1, <2>1 DEF Sends, Places
  <2>3. send' = [send EXCEPT ![i] = x]
    BY <1>1, <1>3 DEF IInv, Typed
  <2> HIDE DEF x
  <2>4. QED
    BY <1>1, <1>3, <2>2, <2>3, MovedWaits
<1>4. QED
  BY <1>2, <1>3 DEF Admitted

\* The steps of a send that is neither in the queue nor in its run, nor about to begin it.
LEMMA QuickWaits ==
    ASSUME IInv, Waits, NEW i,
           \/ Opened(i) \/ LimitSealed(i) \/ Appended(i) \/ AppendedUncounted(i) \/ Audited(i)
           \/ TurnsSealed(i) \/ Fails(i) \/ WakeFails(i) \/ Persisted(i) \/ Accounted(i)
           \/ BudgetSealed(i) \/ AccountingFails(i)
    PROVE  Waits'
<1>1. i \in DOMAIN send /\ send[i].at \notin {"queued", "done", "running"} /\ UNCHANGED busy
  BY DEF Opened, LimitSealed, Appended, AppendedUncounted, Audited, TurnsSealed, Fails, WakeFails,
     Persisted, Accounted, BudgetSealed, AccountingFails, At, runtime
<1>2. Returns(i) \/ \E place \in Places \ {"done", "running"} : Goes(i, place)
  <2>1. Returns(i) \/ \E place \in {"limiting", "appending", "auditing", "sealing", "waking",
                                    "accounting", "exhausted"} : Goes(i, place)
    BY DEF Opened, LimitSealed, Appended, AppendedUncounted, Audited, TurnsSealed, Fails, WakeFails,
       Persisted, Accounted, BudgetSealed, AccountingFails, Refused, WakeOrReturn
  <2>2. QED
    BY <2>1 DEF Places
<1>3. QED
  BY <1>1, <1>2, Quick

\* A run begins on an idle runtime, so it takes the runtime from nobody.
LEMMA WakeStartsWaits ==
    ASSUME IInv, Waits, NEW i, WakeStarts(i)
    PROVE  Waits'
<1> DEFINE a == send[i].to
<1>1. i \in DOMAIN send /\ send[i].at = "waking" /\ Active(i) /\ send[i] \in Sends
  BY SendsTyped DEF WakeStarts, At, Active
<1>2. CASE Returns(i) /\ UNCHANGED busy
  BY <1>1, <1>2, Quick
<1>3. CASE busy[a] = None /\ busy' = [busy EXCEPT ![a] = i] /\ Goes(i, "running")
  <2>1. /\ DOMAIN send' = DOMAIN send /\ lock' = lock
        /\ \A k \in DOMAIN send : k # i => send'[k] = send[k]
        /\ send'[i].at = "running" /\ send'[i].from = send[i].from /\ send'[i].to = send[i].to
    BY <1>1, <1>3, ActiveHolds, Goes_Moved DEF IInv, Places
  <2>2. send'[i].by = send[i].by
    BY <1>1, <1>3 DEF IInv, Typed, Goes, Sends
  <2>3. \A k \in DOMAIN send : /\ send'[k].from = send[k].from /\ send'[k].to = send[k].to
                               /\ send'[k].by = send[k].by
                               /\ (send'[k].at = "done" <=> send[k].at = "done")
    BY <1>1, <2>1, <2>2
  <2>4. /\ \A k \in DOMAIN send : send[k].at # "done" => busy'[send[k].from] = busy[send[k].from]
        /\ \A k \in DOMAIN send : send[k].at = "running" => busy'[send[k].to] = busy[send[k].to]
    <3>1. \A k \in DOMAIN send : send[k].at # "done" => send[k].from # a
      BY <1>3, IdleAwaitsNothing
    <3>2. \A k \in DOMAIN send : send[k].at = "running" => send[k].to # a
      BY <1>3, AgentCommConstants DEF Waits, RunsKnown, IInv, Typed
    <3>3. QED
      BY <1>3, <3>1, <3>2 DEF IInv, Typed
  <2>5. busy'[a] = i
    BY <1>1, <1>3, ActiveHolds DEF IInv, Typed, Placed
  <2>6. RunsKnown'
    BY <2>1, <2>3, <2>4, <2>5 DEF Waits, RunsKnown
  <2>7. LinesKnown'
    BY <2>1, <2>3 DEF Waits, LinesKnown, InLine, Channel
  <2>8. QED
    BY <2>6, <2>7 DEF Waits
<1>4. QED
  BY <1>2, <1>3 DEF WakeStarts

\* A run ends when all sends it made have returned.
LEMMA RunEndsWaits ==
    ASSUME IInv, Waits, NEW i, RunEnds(i)
    PROVE  Waits'
<1> DEFINE a == send[i].to
<1>1. /\ i \in DOMAIN send /\ send[i].at = "running" /\ Active(i) /\ send[i] \in Sends
      /\ UNCHANGED lock /\ busy' = [busy EXCEPT ![a] = None] /\ Awaited(a, i) = {}
  BY SendsTyped DEF RunEnds, At, Active
<1>2. PICK stray \in BOOLEAN :
          send' = [send EXCEPT ![i].at = "persisting", ![i].stray = stray]
  BY DEF RunEnds
<1> DEFINE x == [send[i] EXCEPT !.at = "persisting", !.stray = stray]
<1>3. /\ x.from = send[i].from /\ x.to = send[i].to /\ x.by = send[i].by /\ x.at = "persisting"
  BY <1>1 DEF Sends
<1>4. send' = [send EXCEPT ![i] = x]
  BY <1>1, <1>2 DEF IInv, Typed
<1> HIDE DEF x
<1>5. /\ DOMAIN send' = DOMAIN send /\ send'[i] = x
      /\ \A k \in DOMAIN send : k # i => send'[k] = send[k]
  BY <1>1, <1>4 DEF IInv, Typed
<1>6. \A k \in DOMAIN send : /\ send'[k].from = send[k].from /\ send'[k].to = send[k].to
                             /\ send'[k].by = send[k].by
                             /\ (send'[k].at = "done" <=> send[k].at = "done")
                             /\ (send'[k].at = "running" => send[k].at = "running" /\ k # i)
  BY <1>1, <1>3, <1>5
<1>7. busy[a] = i
  BY <1>1 DEF Waits, RunsKnown
<1>8. \A k \in DOMAIN send : send[k].at # "done" => busy'[send[k].from] = busy[send[k].from]
  <2>1. \A k \in DOMAIN send : send[k].at # "done" => send[k].from # a
    BY <1>1, <1>7 DEF Awaited, Waits, RunsKnown
  <2>2. QED
    BY <1>1, <2>1 DEF IInv, Typed
<1>9. \A k \in DOMAIN send : send[k].at = "running" /\ k # i => busy'[send[k].to] = busy[send[k].to]
  <2>1. \A k \in DOMAIN send : send[k].at = "running" /\ k # i => send[k].to # a
    BY <1>7 DEF Waits, RunsKnown
  <2>2. QED
    BY <1>1, <2>1 DEF IInv, Typed
<1>10. RunsKnown'
  BY <1>5, <1>6, <1>8, <1>9 DEF Waits, RunsKnown
<1>11. LinesKnown'
  BY <1>1, <1>5, <1>6 DEF Waits, LinesKnown, InLine, Channel
<1>12. QED
  BY <1>10, <1>11 DEF Waits

\* The line after another send has joined it.
LEMMA JoinsLine ==
    ASSUME NEW q \in Seq(Nat), NEW n \in Nat
    PROVE  /\ Append(q, n) \in Seq(Nat)
           /\ DOMAIN Append(q, n) = DOMAIN q \cup {Len(q) + 1}
           /\ Append(q, n)[Len(q) + 1] = n /\ Len(q) + 1 \notin DOMAIN q
           /\ \A m \in DOMAIN q : Append(q, n)[m] = q[m]
  OBVIOUS

\* A run sends: the new send is younger than all others, and last in its line.
LEMMA SendWaits ==
    ASSUME IInv, Waits, NEW a \in Agents, NEW b \in Agents, NEW end \in BOOLEAN, Send(a, b, end)
    PROVE  Waits'
<1> DEFINE by == busy[a]
           n == Len(send) + 1
           new == [at |-> "queued", from |-> a, to |-> b, end |-> end, by |-> by,
                   depth |-> IF by = User THEN 1 ELSE send[by].depth + 1,
                   seen |-> 0, stray |-> FALSE]
           ch == {a, b}
           q == lock[ch]
<1>1. by \in Nat /\ (by # User => by \in DOMAIN send /\ by < n)
  BY DEF IInv, Typed, Send, User
<1>2. new.at = "queued" /\ new.from = a /\ new.to = b /\ new.by = by
  OBVIOUS
<1>3. send' = Append(send, new) /\ lock' = [lock EXCEPT ![ch] = Append(q, n)] /\ UNCHANGED busy
  BY DEF Send, runtime
<1>4. ch \in Channels
  <2>1. a # b
    BY DEF Send
  <2>2. ch \in {{x, y} : x, y \in Agents} /\ ch \notin {{x} : x \in Agents}
    BY <2>1
  <2>3. QED
    BY <2>2 DEF Channels
<1>5. n \in Nat /\ n \notin DOMAIN send
  BY DEF IInv, Typed
<1> HIDE DEF new, by
<1>6. /\ DOMAIN send' = DOMAIN send \cup {n}
      /\ \A k \in DOMAIN send : send'[k] = send[k]
      /\ send'[n] = new
  BY <1>3 DEF IInv, Typed
<1> HIDE DEF n
<1>7. /\ q \in Seq(Nat)
      /\ lock'[ch] = Append(q, n)
      /\ \A c \in Channels : c # ch => lock'[c] = lock[c]
  BY <1>3, <1>4 DEF IInv, Typed
<1> HIDE DEF q
<1>7a. /\ DOMAIN lock'[ch] = DOMAIN q \cup {Len(q) + 1} /\ Len(q) + 1 \notin DOMAIN q
       /\ lock'[ch][Len(q) + 1] = n
       /\ \A m \in DOMAIN q : lock'[ch][m] = q[m]
  BY <1>5, <1>7, JoinsLine
<1>8. RunsKnown'
  <2>1. busy[a] = by
    BY DEF by
  <2>2. QED
    BY <1>1, <1>2, <1>3, <1>5, <1>6, <2>1 DEF Waits, RunsKnown
<1>9. ASSUME NEW k \in DOMAIN send', send'[k].at # "done"
      PROVE  \E m \in DOMAIN lock'[{send'[k].from, send'[k].to}] :
                lock'[{send'[k].from, send'[k].to}][m] = k
  <2>1. CASE k = n
    BY <1>2, <1>6, <1>7a, <2>1
  <2>2. CASE k # n
    <3>1. k \in DOMAIN send /\ send'[k] = send[k] /\ send[k].at # "done"
      BY <1>6, <1>9, <2>2
    <3>2. Channel(k) \in Channels /\ InLine(Channel(k), k)
      BY <3>1, HasChannel DEF Waits, LinesKnown
    <3>3. \E m \in DOMAIN lock'[Channel(k)] : lock'[Channel(k)][m] = k
      BY <1>7, <1>7a, <3>2 DEF InLine, q
    <3>4. QED
      BY <3>1, <3>3 DEF Channel
  <2>3. QED
    BY <2>1, <2>2
<1>10. ASSUME NEW c \in Channels, NEW m \in DOMAIN lock'[c]
       PROVE  /\ lock'[c][m] \in DOMAIN send'
              /\ send'[lock'[c][m]].at # "done"
              /\ {send'[lock'[c][m]].from, send'[lock'[c][m]].to} = c
  <2>1. CASE m \in DOMAIN lock[c] /\ lock'[c][m] = lock[c][m]
    <3>1. /\ lock[c][m] \in DOMAIN send /\ send[lock[c][m]].at # "done"
          /\ Channel(lock[c][m]) = c
      BY <2>1 DEF Waits, LinesKnown
    <3>2. QED
      BY <1>6, <2>1, <3>1 DEF Channel
  <2>2. CASE c = ch /\ lock'[c][m] = n
    BY <1>2, <1>6, <2>2
  <2>3. QED
    BY <1>7, <1>7a, <2>1, <2>2 DEF q
<1>11. ASSUME NEW c \in Channels, NEW l \in DOMAIN lock'[c], NEW m \in DOMAIN lock'[c],
              lock'[c][l] = lock'[c][m]
       PROVE  l = m
  <2>1. CASE c # ch
    BY <1>7, <1>11, <2>1 DEF Waits, LinesKnown
  <2>2. CASE c = ch
    <3>1. \A p \in DOMAIN q : q[p] # n
      BY <1>4, <1>5 DEF Waits, LinesKnown, q
    <3>2. \A o, p \in DOMAIN q : q[o] = q[p] => o = p
      BY <1>4 DEF Waits, LinesKnown, q
    <3>3. QED
      BY <1>11, <1>7a, <2>2, <3>1, <3>2
  <2>3. QED
    BY <2>1, <2>2
<1>12. LinesKnown'
  BY <1>9, <1>10, <1>11 DEF LinesKnown, InLine, Channel
<1>13. QED
  BY <1>8, <1>12 DEF Waits

\* An ordinary run begins on an idle runtime, and ends when the sends it made have returned.
LEMMA UserWaits ==
    ASSUME IInv, Waits, NEW a \in Agents, UserRunStarts(a) \/ UserRunPrompts(a) \/ UserRunEnds(a)
    PROVE  Waits'
<1>1. UNCHANGED <<send, lock>>
  BY DEF UserRunStarts, UserRunPrompts, UserRunEnds
<1>2. \/ UNCHANGED busy
      \/ busy[a] = None /\ busy' = [busy EXCEPT ![a] = User]
      \/ busy[a] = User /\ Awaited(a, User) = {} /\ busy' = [busy EXCEPT ![a] = None]
  BY DEF UserRunStarts, UserRunPrompts, UserRunEnds
<1>3. CASE UNCHANGED busy
  BY <1>1, <1>3, RuntimeWaits
<1>4. CASE busy' # busy
  <2>1. \A k \in DOMAIN send : send[k].at # "done" => send[k].from # a
    <3>1. CASE busy[a] = None
      BY <3>1, IdleAwaitsNothing
    <3>2. CASE busy[a] = User /\ Awaited(a, User) = {}
      BY <3>2 DEF Awaited, Waits, RunsKnown
    <3>3. QED
      BY <1>2, <1>4, <3>1, <3>2
  <2>2. \A k \in DOMAIN send : send[k].at = "running" => send[k].to # a
    <3>1. busy[a] \notin DOMAIN send
      BY <1>2, <1>4, AgentCommConstants DEF User, IInv, Typed
    <3>2. QED
      BY <3>1 DEF Waits, RunsKnown
  <2>3. \A c \in Agents : c # a => busy'[c] = busy[c]
    BY <1>2 DEF IInv, Typed
  <2>4. \A k \in DOMAIN send : send[k].at # "done" => send[k].from \in Agents /\ send[k].to \in Agents
    BY DEF IInv, Placed
  <2>5. QED
    BY <1>1, <2>1, <2>2, <2>3, <2>4, RuntimeWaits
<1>5. QED
  BY <1>3, <1>4

LEMMA StepWaits ==
    ASSUME IInv, Waits, [Next]_vars
    PROVE  Waits'
<1>1. CASE UNCHANGED vars
  BY <1>1, RuntimeWaits DEF vars
<1>2. ASSUME NEW a \in Agents, UserRunStarts(a) \/ UserRunPrompts(a) \/ UserRunEnds(a)
      PROVE  Waits'
  BY <1>2, UserWaits
<1>3. ASSUME NEW a \in Agents, NEW b \in Agents, NEW end \in BOOLEAN, Send(a, b, end)
      PROVE  Waits'
  BY <1>3, SendWaits
<1>4. ASSUME NEW i, Continue(i)
      PROVE  Waits'
  BY <1>4, AdmittedWaits, QuickWaits, WakeStartsWaits, RunEndsWaits DEF Continue
<1>5. ASSUME NEW i, AppendedUncounted(i) \/ Fails(i) \/ WakeFails(i) \/ AccountingFails(i)
      PROVE  Waits'
  BY <1>5, QuickWaits
<1>6. QED
  BY <1>1, <1>2, <1>3, <1>4, <1>5 DEF Next

\* The youngest send with a property: a nonempty set of sends has a greatest member.
LEMMA Youngest ==
    ASSUME Typed, NEW T \in SUBSET DOMAIN send, T # {}
    PROVE  \E i \in T : \A k \in T : k <= i
<1> DEFINE Above == {n \in Nat : \A k \in T : k <= n}
<1>1. Len(send) \in Nat /\ DOMAIN send = 1 .. Len(send)
  BY DEF Typed
<1>2. Len(send) \in Above
  BY <1>1
<1> DEFINE Less == {ss \in Nat \X Nat : ss[1] < ss[2]}
<1>3. PICK n \in Above : \A m \in Above : ~(<<m, n>> \in Less)
  <2>1. Above \subseteq Nat /\ Above # {}
    BY <1>2
  <2>2. IsWellFoundedOn(Less, Nat)
    BY NatLessThanWellFounded DEF OpToRel
  <2> HIDE DEF Above, Less
  <2>3. QED
    BY <2>1, <2>2, WFMin
<1>4. \A m \in Above : ~(m < n)
  BY <1>3
<1>5. n \in T
  <2> SUFFICES ASSUME n \notin T PROVE FALSE
    OBVIOUS
  <2>1. PICK k \in T : k \in Nat \ {0} /\ k <= n
    BY <1>1
  <2>2. n - 1 \in Nat
    BY <2>1
  <2>3. \A m \in T : m <= n - 1
    BY <1>1
  <2>4. n - 1 \in Above /\ n - 1 < n
    BY <2>2, <2>3
  <2>5. QED
    BY <1>4, <2>4
<1>6. QED
  BY <1>5

\* Whoever is in line for a lock he does not have waits for a send that has it.
LEMMA SomebodyHolds ==
    ASSUME IInv, Waits, NEW i \in DOMAIN send, send[i].at # "done"
    PROVE  \E h \in DOMAIN send : send[h].at # "done" /\ Holds(h) /\ Channel(h) = Channel(i)
<1> DEFINE q == lock[Channel(i)]
<1>1. Channel(i) \in Channels /\ InLine(Channel(i), i)
  BY HasChannel DEF Waits, LinesKnown
<1>2. q \in Seq(Nat) /\ q # <<>>
  BY <1>1 DEF IInv, Typed, InLine
<1>3. 1 \in DOMAIN q /\ Head(q) = q[1]
  BY <1>2
<1>4. Head(q) \in DOMAIN send /\ send[Head(q)].at # "done" /\ Channel(Head(q)) = Channel(i)
  BY <1>1, <1>3 DEF Waits, LinesKnown
<1>5. QED
  BY <1>2, <1>4 DEF Holds

\* While a send is under way, some send can go on, unless a reply is caught.
LEMMA SomebodyGoesOn == IInv /\ Waits => OnlyRepliesBlock
<1> SUFFICES ASSUME IInv, Waits, NEW i0 \in DOMAIN send, send[i0].at # "done",
                    Caught = {}, \A i \in DOMAIN send : send[i].at # "done" => HeldUp(i)
             PROVE  FALSE
  BY DEF OnlyRepliesBlock
<1>1. ASSUME NEW i \in DOMAIN send, send[i].at # "done"
      PROVE  \E h \in DOMAIN send : send[h].at = "running" /\ Channel(h) = Channel(i)
  <2>1. PICK h \in DOMAIN send : send[h].at # "done" /\ Holds(h) /\ Channel(h) = Channel(i)
    BY <1>1, SomebodyHolds
  <2>2. HeldUp(h)
    BY <2>1
  <2>3. QED
    BY <2>1, <2>2 DEF HeldUp
<1> DEFINE T == {i \in DOMAIN send : send[i].at = "running"}
<1>2. PICK h \in T : \A k \in T : k <= h
  <2>1. T # {} /\ T \in SUBSET DOMAIN send
    BY <1>1
  <2> HIDE DEF T
  <2>2. QED
    BY <2>1, Youngest DEF IInv
<1>3. h \in DOMAIN send /\ send[h].at = "running" /\ h # User /\ h \in Nat
  BY <1>2 DEF User, IInv, Typed
<1> DEFINE a == send[h].to
<1>4. busy[a] = h
  BY <1>3 DEF Waits, RunsKnown
<1>5. PICK k \in DOMAIN send : send[k].from = a /\ send[k].by = h /\ send[k].at # "done"
  BY <1>3 DEF HeldUp, Awaited
<1>6. send[k].at = "queued"
  <2>1. h < k /\ k \in Nat
    BY <1>3, <1>5 DEF Waits, RunsKnown, IInv, Typed
  <2>2. k \notin T
    BY <1>2, <1>3, <2>1
  <2>3. HeldUp(k)
    BY <1>5
  <2>4. QED
    BY <2>2, <2>3 DEF HeldUp
<1>7. PICK g \in DOMAIN send : send[g].at = "running" /\ Channel(g) = Channel(k)
  BY <1>1, <1>5
<1>8. g # h
  BY <1>3, <1>5, <1>6, <1>7 DEF Caught
<1>9. send[g].to = a \/ send[g].from = a
  BY <1>5, <1>7 DEF Channel
<1>10. CASE send[g].to = a
  BY <1>4, <1>7, <1>8, <1>10 DEF Waits, RunsKnown
<1>11. CASE send[g].from = a
  <2>1. send[g].by = h
    BY <1>4, <1>7, <1>11 DEF Waits, RunsKnown
  <2>2. h < g /\ g \in Nat
    BY <1>3, <2>1 DEF Waits, RunsKnown, IInv, Typed
  <2>3. g \in T
    BY <1>7
  <2>4. QED
    BY <1>2, <1>3, <2>2, <2>3
<1>12. QED
  BY <1>9, <1>10, <1>11

\* Cascades over several channels do not block each other: an agent has one run at a time, so
\* the senders of a circle would each have been woken by a send older than the next one's.
THEOREM OnlyRepliesAreCaught == Spec => []OnlyRepliesBlock
<1>1. Spec => [](IInv /\ Waits)
  BY InitInvariant, StepInvariant, InitWaits, StepWaits, PTL DEF Spec
<1>2. QED
  BY <1>1, SomebodyGoesOn, PTL
-----------------------------------------------------------------------------
(*********************** why a channel is sealed ***************************)

\* What a send has found out about its channel m when it is at an await before a seal.
Knows(m, place) ==
    /\ place \in {"limiting", "auditing", "sealing", "exhausted"} => m.sealed = "none"
    /\ place = "limiting" => m.tokens >= TokenBudget \/ m.turns = MaxTurns
    /\ place = "sealing" => m.turns = MaxTurns
    /\ place = "exhausted" => m.tokens >= TokenBudget

\* The reason of a seal holds.
Deserved(m) ==
    /\ m.turns <= MaxTurns
    /\ m.sealed = "max_turns_reached" => m.turns = MaxTurns
    /\ m.sealed = "token_budget_exceeded" => m.tokens >= TokenBudget

Seals == /\ \A i \in DOMAIN send : Knows(meta[Channel(i)], send[i].at)
         /\ \A ch \in Channels : Deserved(meta[ch])

Stays(ch) == meta[ch].sealed # "none" => meta'[ch].sealed = meta[ch].sealed

\* Only the channel of send i may change.
Elsewhere(i) == \A ch \in Channels : ch # Channel(i) => meta'[ch] = meta[ch]

\* A send with the lock moves on, knowing what it must of what it leaves; other channels stay.
LEMMA HolderSeals ==
    ASSUME IInv, Seals, NEW i \in DOMAIN send, Holds(i), Elsewhere(i),
           DOMAIN send' = DOMAIN send, \A k \in DOMAIN send : k # i => send'[k] = send[k],
           \/ send'[i].at = "done"
           \/ Channel(i)' = Channel(i) /\ Knows(meta'[Channel(i)], send'[i].at),
           Deserved(meta'[Channel(i)]), Stays(Channel(i))
    PROVE  Seals' /\ \A ch \in Channels : Stays(ch)
<1>1. ASSUME NEW k \in DOMAIN send
      PROVE  Knows(meta'[Channel(k)'], send'[k].at)
  <2>1. CASE k = i
    BY <2>1 DEF Knows
  <2>2. CASE k # i /\ ~Active(k)
    BY <2>2 DEF Knows, Active
  <2>3. CASE k # i /\ Active(k)
    <3>1. send'[k] = send[k] /\ Channel(k)' = Channel(k)
      BY <2>3 DEF Channel
    <3>2. Channel(k) # Channel(i) /\ Channel(k) \in Channels
      BY <2>3, Exclusive, ActiveHolds DEF IInv
    <3>3. QED
      BY <3>1, <3>2 DEF Seals, Elsewhere
  <2>4. QED
    BY <2>1, <2>2, <2>3
<1>2. ASSUME NEW ch \in Channels
      PROVE  Deserved(meta'[ch]) /\ Stays(ch)
  BY DEF Seals, Elsewhere, Stays
<1>3. QED
  BY <1>1, <1>2 DEF Seals

\* It goes to its next await,
LEMMA GoingSeals ==
    ASSUME IInv, Seals, NEW i \in DOMAIN send, Active(i), NEW place \in Places, Goes(i, place),
           Elsewhere(i), Knows(meta'[Channel(i)], place), Deserved(meta'[Channel(i)]),
           Stays(Channel(i))
    PROVE  Seals' /\ \A ch \in Channels : Stays(ch)
<1>1. /\ Holds(i) /\ DOMAIN send' = DOMAIN send
      /\ \A k \in DOMAIN send : k # i => send'[k] = send[k]
      /\ send'[i].at = place /\ Channel(i)' = Channel(i)
  BY ActiveHolds, Goes_Moved DEF IInv, Channel
<1>2. QED
  BY <1>1, HolderSeals

\* or returns.
LEMMA ReturningSeals ==
    ASSUME IInv, Seals, NEW i \in DOMAIN send, send[i].at # "done", Holds(i), Returns(i),
           Elsewhere(i), Deserved(meta'[Channel(i)]), Stays(Channel(i))
    PROVE  Seals' /\ \A ch \in Channels : Stays(ch)
<1>1. /\ DOMAIN send' = DOMAIN send /\ send'[i].at = "done"
      /\ \A k \in DOMAIN send : k # i => send'[k] = send[k]
  BY Returns_Freed DEF IInv
<1>2. QED
  BY <1>1, HolderSeals

\* Numbers and reason of an active send's channel, and what the send knows of them.
LEMMA KnownHere ==
    ASSUME IInv, Seals, NEW i \in DOMAIN send, Active(i)
    PROVE  /\ Holds(i) /\ send[i].at # "done" /\ Channel(i) \in Channels
           /\ meta[Channel(i)] \in [turns : Nat, tokens : Nat, sealed : Reasons, messages : Nat,
                                    mixed : BOOLEAN]
           /\ Knows(meta[Channel(i)], send[i].at) /\ Deserved(meta[Channel(i)])
           /\ DOMAIN meta = Channels /\ MaxTurns \in Nat /\ TokenBudget \in Nat
  BY ActiveHolds, AgentCommConstants DEF Seals, IInv, Typed

\* A send that changes nothing of its channel.
LEMMA IdleSeals ==
    ASSUME IInv, Seals, NEW i \in DOMAIN send, send[i].at # "done", Holds(i), UNCHANGED meta,
           \/ Returns(i)
           \/ \E place \in {"waking", "running", "persisting", "accounting"} :
                 Active(i) /\ Goes(i, place)
    PROVE  Seals' /\ \A ch \in Channels : Stays(ch)
<1>1. Elsewhere(i) /\ Stays(Channel(i))
  BY DEF Elsewhere, Stays
<1>2. Channel(i) \in Channels
  BY DEF IInv, Placed, Channel, Channels
<1>3. Deserved(meta'[Channel(i)])
  BY <1>2 DEF Seals
<1>4. CASE Returns(i)
  BY <1>1, <1>3, <1>4, ReturningSeals
<1>5. ASSUME NEW place \in {"waking", "running", "persisting", "accounting"}, Active(i), Goes(i, place)
      PROVE  Seals' /\ \A ch \in Channels : Stays(ch)
  <2>1. place \in Places /\ Knows(meta'[Channel(i)], place)
    BY DEF Places, Knows
  <2>2. QED
    BY <1>1, <1>3, <1>5, <2>1, GoingSeals
<1>6. QED
  BY <1>4, <1>5

\* A send that is admitted knows nothing of its channel yet.
LEMMA AdmittedSeals ==
    ASSUME IInv, Seals, NEW i, Admitted(i)
    PROVE  Seals' /\ \A ch \in Channels : Stays(ch)
<1>1. i \in DOMAIN send /\ send[i].at = "queued" /\ Holds(i) /\ UNCHANGED meta
  BY DEF Admitted, At
<1>2. CASE Returns(i)
  BY <1>1, <1>2, IdleSeals
<1>3. CASE send' = [send EXCEPT ![i].at = "opening", ![i].seen = log[send[i].from]]
  <2>1. send \in Seq(Sends) /\ send[i] \in Sends
    BY <1>1 DEF IInv, Typed
  <2>2. /\ DOMAIN send' = DOMAIN send /\ send'[i].at = "opening"
        /\ send'[i].from = send[i].from /\ send'[i].to = send[i].to
        /\ \A k \in DOMAIN send : k # i => send'[k] = send[k]
    BY <1>1, <1>3, <2>1 DEF Sends
  <2>3. Channel(i)' = Channel(i) /\ Knows(meta'[Channel(i)], send'[i].at)
    BY <2>2 DEF Channel, Knows
  <2>4. Channel(i) \in Channels
    BY <1>1 DEF IInv, Placed, Channel, Channels
  <2>5. Elsewhere(i) /\ Stays(Channel(i)) /\ Deserved(meta'[Channel(i)])
    BY <1>1, <2>4 DEF Elsewhere, Stays, Seals
  <2>6. QED
    BY <1>1, <2>2, <2>3, <2>5, HolderSeals
<1>4. QED
  BY <1>2, <1>3 DEF Admitted, Refused

\* What an opened channel shows is what the send goes on with.
LEMMA OpenedSeals ==
    ASSUME IInv, Seals, NEW i, Opened(i)
    PROVE  Seals' /\ \A ch \in Channels : Stays(ch)
<1> DEFINE m == meta[Channel(i)]
<1>1. i \in DOMAIN send /\ Active(i) /\ UNCHANGED meta
  BY DEF Opened, At, Active
<1>2. /\ Holds(i) /\ send[i].at # "done" /\ m.turns \in Nat /\ m.tokens \in Nat
      /\ Deserved(m) /\ MaxTurns \in Nat /\ TokenBudget \in Nat
  BY <1>1, KnownHere
<1>3. CASE Returns(i)
  BY <1>1, <1>2, <1>3, IdleSeals
<1>4. ASSUME NEW place \in {"limiting", "appending"}, Goes(i, place), m.sealed = "none",
             place = "limiting" => m.tokens >= TokenBudget \/ m.turns + 1 > MaxTurns
      PROVE  Seals' /\ \A ch \in Channels : Stays(ch)
  <2>1. Knows(m, place)
    BY <1>2, <1>4 DEF Knows, Deserved
  <2>2. place \in Places /\ Elsewhere(i) /\ Stays(Channel(i)) /\ meta'[Channel(i)] = m
    BY <1>1 DEF Places, Elsewhere, Stays
  <2>3. QED
    BY <1>1, <1>2, <1>4, <2>1, <2>2, GoingSeals
<1>5. QED
  BY <1>3, <1>4 DEF Opened, Refused

\* The three seals: each finds the channel open and its reason true.
LEMMA SealingSeals ==
    ASSUME IInv, Seals, NEW i, LimitSealed(i) \/ TurnsSealed(i) \/ BudgetSealed(i)
    PROVE  Seals' /\ \A ch \in Channels : Stays(ch)
<1> DEFINE m == meta[Channel(i)]
<1>1. i \in DOMAIN send /\ Active(i) /\ send[i].at \in {"limiting", "sealing", "exhausted"}
  BY DEF LimitSealed, TurnsSealed, BudgetSealed, At, Active
<1>2. /\ Holds(i) /\ send[i].at # "done" /\ Channel(i) \in Channels /\ DOMAIN meta = Channels
      /\ m \in [turns : Nat, tokens : Nat, sealed : Reasons, messages : Nat, mixed : BOOLEAN]
      /\ Knows(m, send[i].at) /\ Deserved(m) /\ MaxTurns \in Nat /\ TokenBudget \in Nat
  BY <1>1, KnownHere
<1>3. PICK reason \in Reasons :
         /\ meta' = Sealed(Channel(i), reason)
         /\ reason = "token_budget_exceeded" => m.tokens >= TokenBudget
         /\ reason = "max_turns_reached" => m.turns = MaxTurns
  BY <1>2 DEF LimitSealed, TurnsSealed, BudgetSealed, At, Knows, Reasons
<1>4. Elsewhere(i) /\ meta'[Channel(i)] = [m EXCEPT !.sealed = reason]
  BY <1>2, <1>3 DEF Sealed, Elsewhere
<1>5. Deserved(meta'[Channel(i)])
  BY <1>2, <1>3, <1>4 DEF Deserved
<1>6. Stays(Channel(i))
  BY <1>1, <1>2 DEF Stays, Knows
<1>7. CASE Returns(i)
  BY <1>1, <1>2, <1>4, <1>5, <1>6, <1>7, ReturningSeals
<1>8. CASE Goes(i, "waking")
  <2>1. "waking" \in Places /\ Knows(meta'[Channel(i)], "waking")
    BY DEF Places, Knows
  <2>2. QED
    BY <1>1, <1>4, <1>5, <1>6, <1>8, <2>1, GoingSeals
<1>9. QED
  BY <1>7, <1>8 DEF LimitSealed, TurnsSealed, BudgetSealed, WakeOrReturn

\* A message is written on an open channel with a turn left, or not counted.
LEMMA AppendingSeals ==
    ASSUME IInv, Seals, NEW i, Appended(i) \/ AppendedUncounted(i)
    PROVE  Seals' /\ \A ch \in Channels : Stays(ch)
<1> DEFINE m == meta[Channel(i)]
<1>1. i \in DOMAIN send /\ Active(i) /\ send[i].at = "appending"
  BY DEF Appended, AppendedUncounted, At, Active
<1>2. /\ Holds(i) /\ send[i].at # "done" /\ Channel(i) \in Channels /\ DOMAIN meta = Channels
      /\ m \in [turns : Nat, tokens : Nat, sealed : Reasons, messages : Nat, mixed : BOOLEAN]
      /\ Deserved(m) /\ MaxTurns \in Nat /\ TokenBudget \in Nat
  BY <1>1, KnownHere
<1>3. m.sealed = "none" /\ m.turns < MaxTurns
  BY <1>1 DEF IInv, StillWithin, Within
<1>4. CASE meta' = [meta EXCEPT ![Channel(i)].turns = @ + 1, ![Channel(i)].messages = @ + 1]
           /\ Goes(i, "auditing")
  <2>1. Elsewhere(i) /\ meta'[Channel(i)] = [m EXCEPT !.turns = @ + 1, !.messages = @ + 1]
    BY <1>2, <1>4 DEF Elsewhere
  <2>2. /\ Deserved(meta'[Channel(i)]) /\ Knows(meta'[Channel(i)], "auditing")
        /\ Stays(Channel(i)) /\ "auditing" \in Places
    BY <1>2, <1>3, <2>1 DEF Deserved, Knows, Stays, Places
  <2>3. QED
    BY <1>1, <1>4, <2>1, <2>2, GoingSeals
<1>5. CASE meta' = [meta EXCEPT ![Channel(i)].messages = @ + 1] /\ Returns(i)
  <2>1. Elsewhere(i) /\ meta'[Channel(i)] = [m EXCEPT !.messages = @ + 1]
    BY <1>2, <1>5 DEF Elsewhere
  <2>2. Deserved(meta'[Channel(i)]) /\ Stays(Channel(i))
    BY <1>2, <2>1 DEF Deserved, Stays
  <2>3. QED
    BY <1>1, <1>2, <1>5, <2>1, <2>2, ReturningSeals
<1>6. QED
  BY <1>3, <1>4, <1>5 DEF Appended, AppendedUncounted

\* The last turn is sealed next.
LEMMA AuditedSeals ==
    ASSUME IInv, Seals, NEW i, Audited(i)
    PROVE  Seals' /\ \A ch \in Channels : Stays(ch)
<1> DEFINE m == meta[Channel(i)]
<1>1. i \in DOMAIN send /\ Active(i) /\ send[i].at = "auditing" /\ UNCHANGED meta
  BY DEF Audited, At, Active
<1>2. /\ Holds(i) /\ send[i].at # "done" /\ m.turns \in Nat /\ m.sealed = "none"
      /\ Deserved(m) /\ MaxTurns \in Nat
  BY <1>1, KnownHere DEF Knows
<1>3. CASE Returns(i) \/ Goes(i, "waking")
  BY <1>1, <1>2, <1>3, IdleSeals
<1>4. CASE m.turns >= MaxTurns /\ Goes(i, "sealing")
  <2>1. Knows(m, "sealing") /\ "sealing" \in Places
    BY <1>2, <1>4 DEF Knows, Deserved, Places
  <2>2. Elsewhere(i) /\ Stays(Channel(i)) /\ meta'[Channel(i)] = m
    BY <1>1 DEF Elsewhere, Stays
  <2>3. QED
    BY <1>1, <1>2, <1>4, <2>1, <2>2, GoingSeals
<1>5. QED
  BY <1>3, <1>4 DEF Audited, WakeOrReturn

\* What the run used is added: an open channel over its budget is sealed next.
LEMMA AccountedSeals ==
    ASSUME IInv, Seals, NEW i, Accounted(i)
    PROVE  Seals' /\ \A ch \in Channels : Stays(ch)
<1> DEFINE m == meta[Channel(i)]
<1>1. i \in DOMAIN send /\ Active(i) /\ send[i].at = "accounting"
  BY DEF Accounted, At, Active
<1>2. /\ Holds(i) /\ send[i].at # "done" /\ Channel(i) \in Channels /\ DOMAIN meta = Channels
      /\ m \in [turns : Nat, tokens : Nat, sealed : Reasons, messages : Nat, mixed : BOOLEAN]
      /\ Deserved(m) /\ MaxTurns \in Nat /\ TokenBudget \in Nat
  BY <1>1, KnownHere
<1>3. PICK used \in {0, 1} :
         /\ meta' = [meta EXCEPT ![Channel(i)].tokens = @ + used]
         /\ \/ Returns(i)
            \/ m.sealed = "none" /\ m.tokens + used >= TokenBudget /\ Goes(i, "exhausted")
  BY DEF Accounted
<1>4. Elsewhere(i) /\ meta'[Channel(i)] = [m EXCEPT !.tokens = @ + used]
  BY <1>2, <1>3 DEF Elsewhere
<1>5. Deserved(meta'[Channel(i)]) /\ Stays(Channel(i))
  BY <1>2, <1>4 DEF Deserved, Stays
<1>6. CASE Returns(i)
  BY <1>1, <1>2, <1>4, <1>5, <1>6, ReturningSeals
<1>7. CASE m.sealed = "none" /\ m.tokens + used >= TokenBudget /\ Goes(i, "exhausted")
  <2>1. Knows(meta'[Channel(i)], "exhausted") /\ "exhausted" \in Places
    BY <1>2, <1>4, <1>7 DEF Knows, Places
  <2>2. QED
    BY <1>1, <1>4, <1>5, <1>7, <2>1, GoingSeals
<1>8. QED
  BY <1>3, <1>6, <1>7

\* The replies count for no limit.
LEMMA PersistedSeals ==
    ASSUME IInv, Seals, NEW i, Persisted(i)
    PROVE  Seals' /\ \A ch \in Channels : Stays(ch)
<1> DEFINE m == meta[Channel(i)]
<1>1. i \in DOMAIN send /\ Active(i) /\ Goes(i, "accounting")
  BY DEF Persisted, At, Active
<1>2. /\ Channel(i) \in Channels /\ DOMAIN meta = Channels /\ Deserved(m)
      /\ m \in [turns : Nat, tokens : Nat, sealed : Reasons, messages : Nat, mixed : BOOLEAN]
  BY <1>1, KnownHere
<1>3. \/ meta' = [meta EXCEPT ![Channel(i)].mixed = @ \/ send[i].stray]
      \/ UNCHANGED meta
  BY DEF Persisted
<1>4. /\ Elsewhere(i) /\ meta'[Channel(i)].turns = m.turns
      /\ meta'[Channel(i)].tokens = m.tokens /\ meta'[Channel(i)].sealed = m.sealed
  BY <1>2, <1>3 DEF Elsewhere
<1>5. /\ Deserved(meta'[Channel(i)]) /\ Stays(Channel(i))
      /\ Knows(meta'[Channel(i)], "accounting") /\ "accounting" \in Places
  BY <1>2, <1>4 DEF Deserved, Stays, Knows, Places
<1>6. QED
  BY <1>1, <1>4, <1>5, GoingSeals

\* The wake, and all that fails, leave the channel's meta data alone.
LEMMA WakeSeals ==
    ASSUME IInv, Seals, NEW i,
           WakeStarts(i) \/ RunEnds(i) \/ Fails(i) \/ WakeFails(i) \/ AccountingFails(i)
    PROVE  Seals' /\ \A ch \in Channels : Stays(ch)
<1>1. i \in DOMAIN send /\ Active(i) /\ UNCHANGED meta
  BY DEF WakeStarts, RunEnds, Fails, WakeFails, AccountingFails, At, Active
<1>2. Holds(i) /\ send[i].at # "done"
  BY <1>1, KnownHere
<1>3. CASE Returns(i) \/ Goes(i, "running")
  BY <1>1, <1>2, <1>3, IdleSeals
<1>4. CASE RunEnds(i)
  <2>1. PICK stray \in BOOLEAN : send' = [send EXCEPT ![i].at = "persisting", ![i].stray = stray]
    BY <1>4 DEF RunEnds
  <2>2. send \in Seq(Sends) /\ send[i] \in Sends
    BY <1>1 DEF IInv, Typed
  <2>3. /\ DOMAIN send' = DOMAIN send /\ send'[i].at = "persisting"
        /\ send'[i].from = send[i].from /\ send'[i].to = send[i].to
        /\ \A k \in DOMAIN send : k # i => send'[k] = send[k]
    BY <1>1, <2>1, <2>2 DEF Sends
  <2>4. Channel(i)' = Channel(i) /\ Knows(meta'[Channel(i)], send'[i].at)
    BY <2>3 DEF Channel, Knows
  <2>5. Elsewhere(i) /\ Stays(Channel(i)) /\ Deserved(meta'[Channel(i)])
    BY <1>1, KnownHere DEF Elsewhere, Stays
  <2>6. QED
    BY <1>1, <1>2, <2>3, <2>4, <2>5, HolderSeals
<1>5. QED
  BY <1>3, <1>4 DEF WakeStarts, Fails, WakeFails, AccountingFails

\* Ordinary runs and new sends change no channel's meta data.
LEMMA CallSeals ==
    ASSUME IInv, Seals,
           \/ UNCHANGED vars
           \/ \E a \in Agents : UserRunStarts(a) \/ UserRunPrompts(a) \/ UserRunEnds(a)
           \/ \E a, b \in Agents, end \in BOOLEAN : Send(a, b, end)
    PROVE  Seals' /\ \A ch \in Channels : Stays(ch)
<1>1. UNCHANGED meta
  BY DEF vars, UserRunStarts, UserRunPrompts, UserRunEnds, Send
<1>2. CASE UNCHANGED send
  BY <1>1, <1>2 DEF Seals, Stays, Channel
<1>3. ASSUME NEW a \in Agents, NEW b \in Agents, NEW end \in BOOLEAN, Send(a, b, end)
      PROVE  Seals' /\ \A ch \in Channels : Stays(ch)
  <2>1. PICK x : send' = Append(send, x) /\ x.at = "queued"
    BY <1>3 DEF Send
  <2>2. /\ DOMAIN send' = DOMAIN send \cup {Len(send) + 1} /\ Len(send) + 1 \notin DOMAIN send
        /\ send'[Len(send) + 1] = x
        /\ \A k \in DOMAIN send : send'[k] = send[k]
    BY <2>1 DEF IInv, Typed
  <2>3. ASSUME NEW k \in DOMAIN send'
        PROVE  Knows(meta'[Channel(k)'], send'[k].at)
    <3>1. CASE k \in DOMAIN send
      BY <1>1, <2>2, <3>1 DEF Seals, Channel
    <3>2. CASE k = Len(send) + 1
      BY <2>1, <2>2, <3>2 DEF Knows
    <3>3. QED
      BY <2>2, <3>1, <3>2
  <2>4. QED
    BY <1>1, <2>3 DEF Seals, Stays
<1>4. QED
  BY <1>2, <1>3 DEF vars, UserRunStarts, UserRunPrompts, UserRunEnds

\* Every step keeps what sends know and why channels are sealed, and no seal changes.
LEMMA StepSeals ==
    ASSUME IInv, Seals, [Next]_vars
    PROVE  Seals' /\ \A ch \in Channels : Stays(ch)
<1>1. ASSUME NEW i, Continue(i) \/ AppendedUncounted(i) \/ Fails(i) \/ WakeFails(i) \/ AccountingFails(i)
      PROVE  Seals' /\ \A ch \in Channels : Stays(ch)
  BY <1>1, AdmittedSeals, OpenedSeals, SealingSeals, AppendingSeals, AuditedSeals, WakeSeals,
     PersistedSeals, AccountedSeals DEF Continue
<1>2. QED
  BY <1>1, CallSeals DEF Next

\* No channel is sealed twice, or for a reason that is not so (ChannelSessionStore.seal, addUsage):
\* a seal is written by the send that found the reason, which has had the channel's lock ever since.
THEOREM SealsAreTrue == Spec => SealedForGood
<1> DEFINE Keeps == \A ch \in Channels :
              /\ (meta[ch].sealed # "none" => meta'[ch].sealed = meta[ch].sealed)
              /\ (meta'[ch].sealed = "max_turns_reached" => meta'[ch].turns = MaxTurns)
              /\ (meta'[ch].sealed = "token_budget_exceeded" => meta'[ch].tokens >= TokenBudget)
<1>1. Init => Seals
  BY AgentCommConstants DEF Init, Seals, Deserved, Knows
<1>2. ASSUME IInv, Seals, [Next]_vars
      PROVE  Seals' /\ [Keeps]_meta
  BY <1>2, StepSeals DEF Seals, Stays, Deserved
<1> HIDE DEF Keeps
<1>3. Spec => [][Keeps]_meta
  BY <1>1, <1>2, InitInvariant, StepInvariant, PTL DEF Spec
<1>4. QED
  BY <1>3 DEF SealedForGood, Keeps
=============================================================================
