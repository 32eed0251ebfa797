----------------------------- MODULE ChatProofs -----------------------------
(***************************************************************************)
(* The safety properties of Chat and of the AgentManager under it hold for *)
(* any number of tabs, starts, prompts and lost connections.               *)
(*                                                                         *)
(* ManagerOK is what the manager's own steps keep, whoever calls them;     *)
(* TabOK(c) is what one tab may believe of the server, and is proved       *)
(* question by question: its pending start, its held dispatch, the run it  *)
(* waits for, its banner.                                                  *)
(***************************************************************************)
EXTENDS Chat, SequenceTheorems, WellFoundedInduction, TLAPS

\* Two starts that both await have overlapped, and so has whoever is managed while one awaits.
OverlapsAreSeen ==
    /\ \A i, j \in Starting : i # j => i \in overlapped
    /\ current # None /\ Starting # {} => current \in overlapped

\* Only an instance that runs has sockets and runs.
OnlyLiveWork == \A i \in Instances : phase[i] # "live" => bridge[i] = {} /\ runs[i] = <<>>

\* Whoever asked had been started, and a prompt knows who asked it.
AskersKnown ==
    /\ \A p \in DOMAIN asked : phase[asked[p]] \notin {"none", "starting"}
    /\ \A e \in pending : e.id \in DOMAIN asked /\ e.inst = asked[e.id]

ManagerOK == /\ ManagerTypeOK /\ OverlapsAreSeen /\ OnlyLiveWork /\ AskersKnown
             /\ StrayNeedsOverlap /\ NoOrphanPrompt

\* A command of this kind is on the way.
Carries(q, name) == \E k \in DOMAIN q : q[k].cmd = name

\* A start of this tab is under way, and this tab will hear that a run ends.
Begun(c) == \E i \in Instances : phase[i] = "starting" /\ by[i] = c
Reached(c) == \E i \in Instances : c \in bridge[i] /\ runs[i] # <<>>

\* StartsAnswered and WaiterHears, tab by tab.
StartOK(c) == c \in start \ lost => Carries(toServer[c], "start") \/ Begun(c)
HeardOK(c) ==
    /\ c \notin lost /\ c \in streaming /\ c \notin start
    /\ held[c] = None \/ c \in mute
    /\ ~Carries(toServer[c], "dispatch")
    => Reached(c)

\* A held dispatch waits for a start that was made, and with its socket open for its own.
HeldOK(c) ==
    /\ c \in mute => held[c] # None
    /\ held[c] # None => /\ phase[held[c]] # "none"
                         /\ phase[held[c]] = "starting" => c \in mute \/ by[held[c]] = c

\* A banner shows what was asked; when the managed instance asked it, the prompt is pending
\* and this tab will hear how it ends.
BannerOK(c) ==
    banner[c] # None =>
        /\ banner[c] \in DOMAIN asked
        /\ c \in open \ lost /\ asked[banner[c]] = current =>
              banner[c] \in Ids(pending) /\ c \in bridge[current]

TabsOK ==
    /\ waiting = start
    /\ Clients \ open \subseteq lost
    /\ \A c \in Clients : StartOK(c) /\ HeardOK(c) /\ HeldOK(c) /\ BannerOK(c)

IInv == TypeOK /\ ManagerOK /\ TabsOK
-----------------------------------------------------------------------------
(******************************* data **************************************)

\* A set of numbers that is not empty has a least one.
LEMMA LeastNumber ==
    ASSUME NEW S \in SUBSET Nat, S # {}
    PROVE  \E n \in S : \A m \in S : n <= m
<1> DEFINE Less == {p \in Nat \X Nat : p[1] < p[2]}
<1>1. IsWellFoundedOn(Less, Nat)
  BY NatLessThanWellFounded, Zenon DEF OpToRel
<1>2. \A a, b \in Nat : a < b => <<a, b>> \in Less
  OBVIOUS
<1> HIDE DEF Less
<1>3. PICK n \in S : \A m \in S : ~(<<m, n>> \in Less)
  BY <1>1, WFMin
<1>4. \A m \in S : ~(m < n)
  BY <1>2, <1>3
<1>5. \A a, b \in Nat : ~(a < b) => b <= a
  OBVIOUS
<1>6. QED
  BY <1>3, <1>4, <1>5

\* The registry always finds an oldest entry in it, when it has any.
LEMMA OldestIsPending ==
    ASSUME ManagerTypeOK, pending # {}
    PROVE  Oldest(pending) \in pending
<1>1. \A e \in pending : e.id \in Nat
  BY ManagerBounds DEF ManagerTypeOK, Entries, Prompts
<1>2. Ids(pending) \in SUBSET Nat /\ Ids(pending) # {}
  BY <1>1 DEF Ids
<1>3. PICK n \in Ids(pending) : \A m \in Ids(pending) : n <= m
  BY <1>2, LeastNumber
<1>4. PICK e \in pending : e.id = n
  BY <1>3 DEF Ids
<1>5. \A d \in pending : e.id <= d.id
  BY <1>3, <1>4 DEF Ids
<1>6. QED
  BY <1>4, <1>5 DEF Oldest

\* Queues: what is appended, taken from the front, or taken from the back.
LEMMA QueueFacts ==
    ASSUME NEW S, NEW q \in Seq(S)
    PROVE  /\ \A e \in S : Append(q, e) \in Seq(S) /\ Append(q, e) # <<>>
           /\ q # <<>> => /\ Head(q) \in S /\ Tail(q) \in Seq(S)
                          /\ Front(q) \in Seq(S) /\ (Len(q) # 1 => Front(q) # <<>>)
<1>1. \A e \in S : Append(q, e) \in Seq(S) /\ Append(q, e) # <<>>
  BY AppendProperties
<1>2. ASSUME q # <<>> PROVE Head(q) \in S /\ Tail(q) \in Seq(S)
  BY <1>2, HeadTailProperties
<1>3. ASSUME q # <<>> PROVE Front(q) \in Seq(S) /\ (Len(q) # 1 => Front(q) # <<>>)
  <2> DEFINE n == Len(q) - 1
             f == SubSeq(q, 1, n)
  <2>1. Len(q) \in Nat \ {0} /\ q \in [1 .. Len(q) -> S]
    BY <1>3, EmptySeq, LenProperties
  <2>2. n \in Nat /\ \A k \in 1 .. n : q[k] \in S
    BY <2>1
  <2>3. f \in Seq(S) /\ Len(f) = IF 1 <= n THEN n - 1 + 1 ELSE 0
    <3> HIDE DEF n
    <3>1. n \in Int /\ 1 \in Int
      BY <2>2
    <3>2. QED
      BY <2>2, <3>1, SubSeqProperties
  <2>4. Front(q) = f
    BY DEF Front
  <2>5. Len(f) = n
    <3> HIDE DEF f, n
    <3>1. QED
      BY <2>2, <2>3
  <2>6. Len(q) # 1 => Len(f) # 0
    <3> HIDE DEF f
    <3>1. QED
      BY <2>1, <2>5
  <2>7. QED
    BY <2>3, <2>4, <2>6, EmptySeq
<1>4. QED
  BY <1>1, <1>2, <1>3
-----------------------------------------------------------------------------
(*************************** the manager's steps ***************************)

LEMMA NoneIsApart == None \notin Clients /\ None \notin Instances
BY ManagerBounds

\* start() and destroy() take the managed instance down, and its prompts with it.
LEMMA TearsDown ==
    ASSUME ManagerOK
    PROVE  /\ Torn(current, phase, "destroyed") \in [Instances -> Phases]
           /\ Torn(current, bridge, {}) \in [Instances -> SUBSET Clients]
           /\ Torn(current, runs, <<>>) \in [Instances -> Seq(Clients)]
           /\ TornPrompts(current) \subseteq pending
           /\ \A e \in TornPrompts(current) : e.inst # current
           /\ \A i \in Instances :
                 /\ i = current => /\ Torn(current, phase, "destroyed")[i] = "destroyed"
                                   /\ Torn(current, bridge, {})[i] = {}
                                   /\ Torn(current, runs, <<>>)[i] = <<>>
                 /\ i # current => /\ Torn(current, phase, "destroyed")[i] = phase[i]
                                   /\ Torn(current, bridge, {})[i] = bridge[i]
                                   /\ Torn(current, runs, <<>>)[i] = runs[i]
<1>1. /\ phase \in [Instances -> Phases] /\ bridge \in [Instances -> SUBSET Clients]
      /\ runs \in [Instances -> Seq(Clients)] /\ pending \subseteq Entries(Prompts, Instances)
      /\ <<>> \in Seq(Clients) /\ "destroyed" \in Phases
  BY DEF ManagerOK, ManagerTypeOK, Phases
<1>2. TornPrompts(current) \subseteq pending /\ \A e \in TornPrompts(current) : e.inst # current
  BY <1>1, NoneIsApart DEF TornPrompts, SignalAborted, Entries
<1>3. CASE current = None
  BY <1>1, <1>2, <1>3, NoneIsApart DEF Torn
<1>4. CASE current # None
  BY <1>1, <1>2, <1>4 DEF Torn
<1>5. QED
  BY <1>3, <1>4

LEMMA DestroyKeeps ==
    ASSUME ManagerOK, Destroy
    PROVE  ManagerOK'
<1>1. ManagerTypeOK'
  BY TearsDown DEF ManagerOK, ManagerTypeOK, Destroy
<1>2. OverlapsAreSeen' /\ StrayNeedsOverlap'
  BY TearsDown DEF ManagerOK, ManagerTypeOK, OverlapsAreSeen, StrayNeedsOverlap, Starting, Destroy
<1>3. OnlyLiveWork'
  BY TearsDown DEF ManagerOK, OnlyLiveWork, Destroy
<1>4. AskersKnown'
  BY TearsDown DEF ManagerOK, ManagerTypeOK, AskersKnown, Destroy
<1>5. NoOrphanPrompt'
  BY TearsDown DEF ManagerOK, ManagerTypeOK, NoOrphanPrompt, Entries, Destroy
<1>6. QED
  BY <1>1, <1>2, <1>3, <1>4, <1>5 DEF ManagerOK

LEMMA StartKeeps ==
    ASSUME ManagerOK, NEW i \in Instances, NEW socket \in Clients \cup {None}, Start(i, socket)
    PROVE  /\ ManagerOK'
           /\ current' = None /\ phase[i] = "none" /\ phase'[i] = "starting" /\ by'[i] = socket
           /\ bridge' = Torn(current, bridge, {}) /\ runs' = Torn(current, runs, <<>>)
           /\ pending' = TornPrompts(current) /\ asked' = asked
           /\ \A j \in Instances \ {i} :
                 by'[j] = by[j] /\ phase'[j] = IF j = current THEN "destroyed" ELSE phase[j]
<1>1. /\ phase[i] = "none" /\ current' = None /\ by' = [by EXCEPT ![i] = socket]
      /\ phase' = [Torn(current, phase, "destroyed") EXCEPT ![i] = "starting"]
      /\ bridge' = Torn(current, bridge, {}) /\ runs' = Torn(current, runs, <<>>)
      /\ pending' = TornPrompts(current) /\ asked' = asked
  BY DEF Start, Replaced, Fresh
<1>2. current # i
  BY <1>1, NoneIsApart DEF ManagerOK, ManagerTypeOK
<1>3. /\ phase'[i] = "starting"
      /\ \A j \in Instances \ {i} : phase'[j] = IF j = current THEN "destroyed" ELSE phase[j]
  BY <1>1, TearsDown
<1>4. ManagerTypeOK'
  <2>1. phase' \in [Instances -> Phases] /\ by' \in [Instances -> Clients \cup {None}]
    BY <1>1, TearsDown DEF ManagerOK, ManagerTypeOK, Phases
  <2>2. overlapped' \subseteq Instances
    BY DEF ManagerOK, ManagerTypeOK, Start, Starting
  <2>3. QED
    BY <1>1, <2>1, <2>2, TearsDown DEF ManagerOK, ManagerTypeOK
<1>5. Starting' = Starting \cup {i}
  <2>1. \A j \in Instances \ {i} : phase'[j] = "starting" <=> phase[j] = "starting"
    BY <1>3, NoneIsApart DEF ManagerOK, ManagerTypeOK
  <2>2. QED
    BY <1>3, <2>1, Zenon DEF Starting
<1>6. OverlapsAreSeen'
  <2>1. overlapped' = IF Starting = {} THEN overlapped ELSE overlapped \cup Starting \cup {i}
    BY DEF Start
  <2>2. QED
    BY <1>1, <1>5, <2>1 DEF OverlapsAreSeen
<1>7. StrayNeedsOverlap'
  <2>1. overlapped \subseteq overlapped'
    BY DEF Start
  <2>2. QED
    BY <1>3, <2>1 DEF ManagerOK, StrayNeedsOverlap
<1>8. OnlyLiveWork'
  BY <1>1, <1>2, <1>3, TearsDown DEF ManagerOK, OnlyLiveWork
<1>9. AskersKnown'
  BY <1>1, <1>3, TearsDown DEF ManagerOK, ManagerTypeOK, AskersKnown
<1>10. NoOrphanPrompt'
  BY <1>1, TearsDown DEF ManagerOK, ManagerTypeOK, NoOrphanPrompt, Entries
<1>11. QED
  BY <1>1, <1>3, <1>4, <1>6, <1>7, <1>8, <1>9, <1>10 DEF ManagerOK, ManagerTypeOK

LEMMA StartedKeeps ==
    ASSUME ManagerOK, NEW i \in Instances, Started(i)
    PROVE  ManagerOK'
<1>1. /\ phase[i] = "starting" /\ phase' = [phase EXCEPT ![i] = "live"] /\ current' = i
      /\ bridge' = [bridge EXCEPT ![i] = {by[i]} \ {None}] /\ by' = [by EXCEPT ![i] = None]
      /\ UNCHANGED <<runs, pending, asked, overlapped>>
  BY DEF Started
<1>2. ManagerTypeOK'
  BY <1>1 DEF ManagerOK, ManagerTypeOK, Phases
<1>3. Starting' = Starting \ {i} /\ i \in Starting
  BY <1>1 DEF ManagerOK, ManagerTypeOK, Starting
<1>4. OverlapsAreSeen'
  BY <1>1, <1>3 DEF ManagerOK, OverlapsAreSeen
<1>5. StrayNeedsOverlap'
  BY <1>1, <1>3, NoneIsApart DEF ManagerOK, ManagerTypeOK, OverlapsAreSeen, StrayNeedsOverlap
<1>6. OnlyLiveWork'
  BY <1>1 DEF ManagerOK, ManagerTypeOK, OnlyLiveWork
<1>7. AskersKnown' /\ NoOrphanPrompt'
  BY <1>1 DEF ManagerOK, ManagerTypeOK, AskersKnown, NoOrphanPrompt
<1>8. QED
  BY <1>2, <1>4, <1>5, <1>6, <1>7 DEF ManagerOK

LEMMA StartFailedKeeps ==
    ASSUME ManagerOK, NEW i \in Instances, StartFailed(i)
    PROVE  ManagerOK'
<1>1. /\ phase[i] = "starting" /\ phase' = [phase EXCEPT ![i] = "failed"]
      /\ by' = [by EXCEPT ![i] = None]
      /\ UNCHANGED <<current, bridge, runs, pending, asked, overlapped>>
  BY DEF StartFailed
<1>2. ManagerTypeOK'
  BY <1>1 DEF ManagerOK, ManagerTypeOK, Phases
<1>3. Starting' = Starting \ {i}
  BY <1>1 DEF ManagerOK, ManagerTypeOK, Starting
<1>4. OverlapsAreSeen' /\ StrayNeedsOverlap'
  BY <1>1, <1>3 DEF ManagerOK, ManagerTypeOK, OverlapsAreSeen, StrayNeedsOverlap
<1>5. OnlyLiveWork' /\ AskersKnown' /\ NoOrphanPrompt'
  BY <1>1 DEF ManagerOK, ManagerTypeOK, OnlyLiveWork, AskersKnown, NoOrphanPrompt
<1>6. QED
  BY <1>2, <1>4, <1>5 DEF ManagerOK

\* addSocket() only adds, and only to the managed instance.
LEMMA SocketsAreAdded ==
    ASSUME ManagerTypeOK, NEW socket \in Clients \cup {None}
    PROVE  /\ WithSocket(socket) \in [Instances -> SUBSET Clients]
           /\ \A i \in Instances : bridge[i] \subseteq WithSocket(socket)[i]
           /\ \A i \in Instances : i # current => WithSocket(socket)[i] = bridge[i]
           /\ current # None => /\ current \in Instances /\ phase[current] = "live"
                                /\ WithSocket(socket)[current] = bridge[current] \cup ({socket} \ {None})
BY NoneIsApart DEF WithSocket, ManagerTypeOK

\* What only touches the bridges by adding a socket, and takes prompts out, if anything.
LEMMA AddingKeeps ==
    ASSUME ManagerOK, NEW socket \in Clients \cup {None},
           bridge' = bridge \/ bridge' = WithSocket(socket), pending' \subseteq pending,
           UNCHANGED <<phase, by, current, runs, asked, overlapped>>
    PROVE  ManagerOK'
<1>1. ManagerTypeOK'
  BY SocketsAreAdded DEF ManagerOK, ManagerTypeOK
<1>2. OnlyLiveWork'
  <2>1. \A i \in Instances : phase[i] # "live" => bridge'[i] = bridge[i]
    BY SocketsAreAdded, NoneIsApart DEF ManagerOK
  <2>2. QED
    BY <2>1 DEF ManagerOK, OnlyLiveWork
<1>3. OverlapsAreSeen' /\ StrayNeedsOverlap' /\ AskersKnown' /\ NoOrphanPrompt'
  BY DEF ManagerOK, OverlapsAreSeen, Starting, StrayNeedsOverlap, AskersKnown, NoOrphanPrompt
<1>4. QED
  BY <1>1, <1>2, <1>3 DEF ManagerOK

LEMMA SettleKeeps ==
    ASSUME ManagerOK, NEW p, Settle(p), NEW socket \in Clients \cup {None},
           bridge' = bridge \/ bridge' = WithSocket(socket)
    PROVE  ManagerOK'
<1>1. pending' \subseteq pending
  BY DEF Settle, Finalized
<1>2. QED
  BY <1>1, AddingKeeps DEF Settle

LEMMA DispatchKeeps ==
    ASSUME ManagerOK, NEW c \in Clients, NEW socket \in Clients \cup {None}, Dispatch(c, socket)
    PROVE  ManagerOK' /\ runs'[current] # <<>> /\ \A i \in Instances : runs[i] # <<>> => runs'[i] # <<>>
<1>1. /\ current # None /\ runs' = [runs EXCEPT ![current] = Append(@, c)]
      /\ bridge' = WithSocket(socket) /\ UNCHANGED <<phase, by, current, pending, asked, overlapped>>
  BY DEF Dispatch
<1>2. current \in Instances /\ phase[current] = "live" /\ runs[current] \in Seq(Clients)
  BY <1>1, SocketsAreAdded DEF ManagerOK, ManagerTypeOK
<1>3. Append(runs[current], c) \in Seq(Clients) /\ Append(runs[current], c) # <<>>
  BY <1>2, QueueFacts
<1>4. /\ runs' \in [Instances -> Seq(Clients)] /\ runs'[current] # <<>>
      /\ \A i \in Instances : i # current => runs'[i] = runs[i]
  BY <1>1, <1>2, <1>3 DEF ManagerOK, ManagerTypeOK
<1>5. ManagerTypeOK'
  BY <1>1, <1>4, SocketsAreAdded DEF ManagerOK, ManagerTypeOK
<1>6. OnlyLiveWork'
  <2>1. \A i \in Instances : phase[i] # "live" => bridge'[i] = bridge[i] /\ runs'[i] = runs[i]
    BY <1>1, <1>2, <1>4, SocketsAreAdded DEF ManagerOK
  <2>2. QED
    BY <1>1, <2>1 DEF ManagerOK, OnlyLiveWork
<1>7. OverlapsAreSeen' /\ StrayNeedsOverlap' /\ AskersKnown'
  BY <1>1 DEF ManagerOK, OverlapsAreSeen, Starting, StrayNeedsOverlap, AskersKnown
<1>8. NoOrphanPrompt'
  BY <1>1, <1>4 DEF ManagerOK, ManagerTypeOK, Entries, NoOrphanPrompt
<1>9. QED
  BY <1>1, <1>4, <1>5, <1>6, <1>7, <1>8 DEF ManagerOK

LEMMA RunEndsKeeps ==
    ASSUME ManagerOK, NEW i \in Instances, RunEnds(i)
    PROVE  ManagerOK' /\ \A j \in Instances : j # i => runs'[j] = runs[j]
<1>1. /\ runs[i] # <<>> /\ runs' = [runs EXCEPT ![i] = Tail(@)]
      /\ \A e \in pending : e.inst # i
      /\ UNCHANGED <<phase, by, current, bridge, pending, asked, overlapped>>
  BY DEF RunEnds
<1>2. Tail(runs[i]) \in Seq(Clients)
  BY <1>1, QueueFacts DEF ManagerOK, ManagerTypeOK
<1>3. runs' \in [Instances -> Seq(Clients)] /\ \A j \in Instances : j # i => runs'[j] = runs[j]
  BY <1>1, <1>2 DEF ManagerOK, ManagerTypeOK
<1>4. ManagerTypeOK'
  BY <1>1, <1>3 DEF ManagerOK, ManagerTypeOK
<1>5. OnlyLiveWork'
  BY <1>1, <1>3 DEF ManagerOK, OnlyLiveWork
<1>6. OverlapsAreSeen' /\ StrayNeedsOverlap' /\ AskersKnown'
  BY <1>1 DEF ManagerOK, OverlapsAreSeen, Starting, StrayNeedsOverlap, AskersKnown
<1>7. NoOrphanPrompt'
  BY <1>1, <1>3 DEF ManagerOK, ManagerTypeOK, Entries, NoOrphanPrompt
<1>8. QED
  BY <1>3, <1>4, <1>5, <1>6, <1>7 DEF ManagerOK

LEMMA AbortKeeps ==
    ASSUME ManagerOK, Abort
    PROVE  ManagerOK' /\ \A j \in Instances : j # current => runs'[j] = runs[j]
<1>1. /\ current # None /\ runs[current] # <<>> /\ runs' = [runs EXCEPT ![current] = Front(@)]
      /\ UNCHANGED <<phase, by, current, bridge, asked, overlapped>>
  BY DEF Abort
<1>2. current \in Instances /\ phase[current] = "live" /\ runs[current] \in Seq(Clients)
  BY <1>1, SocketsAreAdded DEF ManagerOK, ManagerTypeOK
<1>3. Front(runs[current]) \in Seq(Clients) /\ (Len(runs[current]) # 1 => Front(runs[current]) # <<>>)
  BY <1>1, <1>2, QueueFacts
<1>4. /\ runs' \in [Instances -> Seq(Clients)] /\ runs'[current] = Front(runs[current])
      /\ \A j \in Instances : j # current => runs'[j] = runs[j]
  BY <1>1, <1>2, <1>3 DEF ManagerOK, ManagerTypeOK
<1>5. pending' \subseteq pending /\ (Len(runs[current]) = 1 => pending' = {})
  BY DEF Abort, AllCancelled
<1>6. ManagerTypeOK'
  BY <1>1, <1>4, <1>5 DEF ManagerOK, ManagerTypeOK
<1>7. OnlyLiveWork'
  BY <1>1, <1>2, <1>4 DEF ManagerOK, OnlyLiveWork
<1>8. OverlapsAreSeen' /\ StrayNeedsOverlap' /\ AskersKnown'
  BY <1>1, <1>5 DEF ManagerOK, OverlapsAreSeen, Starting, StrayNeedsOverlap, AskersKnown
<1>9. NoOrphanPrompt'
  BY <1>3, <1>4, <1>5 DEF ManagerOK, ManagerTypeOK, Entries, NoOrphanPrompt
<1>10. QED
  BY <1>4, <1>6, <1>7, <1>8, <1>9 DEF ManagerOK

LEMMA AskKeeps ==
    ASSUME ManagerOK, NEW i \in Instances, NEW kind \in {"text", "confirm"}, Ask(i, kind)
    PROVE  /\ ManagerOK' /\ Len(asked') = Len(asked) + 1 /\ asked'[Len(asked')] = i
           /\ Len(asked') \in Prompts /\ Len(asked') \in Ids(pending') /\ DOMAIN asked \subseteq DOMAIN asked'
           /\ Len(asked') \notin DOMAIN asked /\ \A p \in DOMAIN asked : asked'[p] = asked[p]
           /\ pending \subseteq pending'
<1> DEFINE n == Len(asked) + 1
           entry == [id |-> n, inst |-> i, kind |-> kind]
<1>1. /\ runs[i] # <<>> /\ Len(asked) < MaxPrompts /\ asked' = Append(asked, i)
      /\ pending' = pending \cup {entry}
      /\ UNCHANGED <<phase, by, current, bridge, runs, overlapped>>
  BY DEF Ask, Registered
<1>2. asked \in Seq(Instances) /\ Len(asked) \in Nat /\ DOMAIN asked = 1 .. Len(asked)
  BY LenProperties DEF ManagerOK, ManagerTypeOK
<1>3. /\ asked' \in Seq(Instances) /\ Len(asked') = n /\ asked'[n] = i
      /\ \A p \in 1 .. Len(asked) : asked'[p] = asked[p]
  BY <1>1, <1>2, AppendProperties
<1>4. DOMAIN asked' = 1 .. n
  BY <1>3, LenProperties
<1>5. n \in Prompts /\ n <= MaxPrompts /\ n \in 1 .. n /\ n \notin 1 .. Len(asked)
  BY <1>1, <1>2, ManagerBounds DEF Prompts
<1>6. 1 .. n = (1 .. Len(asked)) \cup {n}
  BY <1>2
<1> HIDE DEF n
<1>7. entry \in Entries(Prompts, Instances) /\ entry.id = n /\ entry.inst = i
  BY <1>5 DEF Entries
<1> HIDE DEF entry
<1>8. ManagerTypeOK'
  BY <1>1, <1>3, <1>5, <1>7 DEF ManagerOK, ManagerTypeOK
<1>9. OverlapsAreSeen' /\ StrayNeedsOverlap' /\ OnlyLiveWork'
  BY <1>1 DEF ManagerOK, OverlapsAreSeen, Starting, StrayNeedsOverlap, OnlyLiveWork
<1>10. phase[i] = "live"
  BY <1>1 DEF ManagerOK, OnlyLiveWork
<1>11. AskersKnown'
  BY <1>1, <1>2, <1>3, <1>4, <1>6, <1>7, <1>10 DEF ManagerOK, AskersKnown
<1>12. NoOrphanPrompt'
  BY <1>1, <1>7 DEF ManagerOK, NoOrphanPrompt
<1>13. n \in Ids(pending')
  BY <1>1, <1>7 DEF Ids
<1>14. Len(asked') = Len(asked) + 1
  BY <1>3 DEF n
<1>15. QED
  BY <1>1, <1>2, <1>3, <1>4, <1>5, <1>6, <1>8, <1>9, <1>11, <1>12, <1>13, <1>14 DEF ManagerOK

LEMMA SocketClosedKeeps ==
    ASSUME ManagerOK, NEW c \in Clients, SocketClosed(c)
    PROVE  ManagerOK'
<1>1. ManagerTypeOK' /\ OnlyLiveWork'
  BY DEF ManagerOK, ManagerTypeOK, OnlyLiveWork, SocketClosed
<1>2. OverlapsAreSeen' /\ StrayNeedsOverlap' /\ AskersKnown' /\ NoOrphanPrompt'
  BY DEF ManagerOK, SocketClosed, OverlapsAreSeen, Starting, StrayNeedsOverlap, AskersKnown, NoOrphanPrompt
<1>3. QED
  BY <1>1, <1>2 DEF ManagerOK

LEMMA CrashKeeps ==
    ASSUME ManagerOK, Crash
    PROVE  ManagerOK'
<1>1. /\ phase' = [i \in Instances |-> IF phase[i] \in {"starting", "live"} THEN "destroyed" ELSE phase[i]]
      /\ by' = [i \in Instances |-> None] /\ current' = None /\ bridge' = [i \in Instances |-> {}]
      /\ runs' = [i \in Instances |-> <<>>] /\ pending' = {} /\ UNCHANGED <<asked, overlapped>>
  BY DEF Crash
<1>2. /\ phase' \in [Instances -> Phases]
      /\ \A i \in Instances : /\ phase'[i] \notin {"starting", "live"}
                              /\ phase[i] \notin {"none", "starting"} => phase'[i] \notin {"none", "starting"}
  BY <1>1 DEF ManagerOK, ManagerTypeOK, Phases
<1>3. <<>> \in Seq(Clients)
  OBVIOUS
<1>4. ManagerTypeOK' /\ OnlyLiveWork'
  BY <1>1, <1>2, <1>3 DEF ManagerOK, ManagerTypeOK, OnlyLiveWork
<1>5. OverlapsAreSeen' /\ StrayNeedsOverlap'
  BY <1>1, <1>2 DEF OverlapsAreSeen, StrayNeedsOverlap, Starting
<1>6. AskersKnown' /\ NoOrphanPrompt'
  <2>1. \A p \in DOMAIN asked : asked[p] \in Instances
    BY DEF ManagerOK, ManagerTypeOK
  <2>2. QED
    BY <1>1, <1>2, <2>1 DEF ManagerOK, AskersKnown, NoOrphanPrompt
<1>7. QED
  BY <1>4, <1>5, <1>6 DEF ManagerOK

LEMMA ManagerStarts == ManagerInit => ManagerOK
<1> SUFFICES ASSUME ManagerInit PROVE ManagerOK
  OBVIOUS
<1>1. <<>> \in Seq(Clients) /\ <<>> \in Seq(Instances) /\ Len(<<>>) = 0 /\ DOMAIN <<>> = {}
  BY EmptySeq
<1>2. ManagerTypeOK
  BY <1>1, ManagerBounds DEF ManagerInit, ManagerTypeOK, Phases
<1>3. QED
  BY <1>1, <1>2 DEF ManagerInit, ManagerOK, OverlapsAreSeen, Starting, OnlyLiveWork, AskersKnown,
                    StrayNeedsOverlap, NoOrphanPrompt
-----------------------------------------------------------------------------
(**************************** the tabs' queues *****************************)

Kinds == {"start", "dispatch"}

LEMMA WhatQueuesCarry ==
    ASSUME NEW q \in Seq(Commands)
    PROVE  /\ \A command \in Commands :
                 /\ Append(q, command) \in Seq(Commands)
                 /\ \A name \in Kinds : Carries(Append(q, command), name) <=>
                                          Carries(q, name) \/ command.cmd = name
           /\ q # <<>> => /\ Head(q) \in Commands /\ Tail(q) \in Seq(Commands)
                          /\ \A name \in Kinds : Carries(q, name) <=>
                                                   Carries(Tail(q), name) \/ Head(q).cmd = name
<1>1. Len(q) \in Nat /\ DOMAIN q = 1 .. Len(q)
  BY LenProperties
<1>2. ASSUME NEW command \in Commands, NEW name \in Kinds
      PROVE  /\ Append(q, command) \in Seq(Commands)
             /\ Carries(Append(q, command), name) <=> Carries(q, name) \/ command.cmd = name
  <2> DEFINE r == Append(q, command)
  <2>1. /\ r \in Seq(Commands) /\ Len(r) = Len(q) + 1 /\ r[Len(q) + 1] = command
        /\ \A k \in 1 .. Len(q) : r[k] = q[k]
    BY AppendProperties
  <2>2. DOMAIN r = 1 .. Len(q) + 1
    BY <2>1, LenProperties
  <2> HIDE DEF r
  <2>3. Carries(r, name) <=> Carries(q, name) \/ command.cmd = name
    BY <1>1, <2>1, <2>2 DEF Carries
  <2>4. QED
    BY <2>1, <2>3 DEF r
<1>3. ASSUME q # <<>>
      PROVE  /\ Head(q) \in Commands /\ Tail(q) \in Seq(Commands)
             /\ \A name \in Kinds : Carries(q, name) <=> Carries(Tail(q), name) \/ Head(q).cmd = name
  <2> DEFINE r == Tail(q)
  <2>1. /\ Head(q) \in Commands /\ r \in Seq(Commands) /\ Len(r) = Len(q) - 1
        /\ \A k \in 1 .. Len(r) : r[k] = q[k + 1]
    BY <1>3, HeadTailProperties
  <2>2. DOMAIN r = 1 .. Len(r) /\ Len(q) \in Nat \ {0} /\ Head(q) = q[1]
    BY <1>3, <2>1, LenProperties, EmptySeq
  <2> HIDE DEF r
  <2>3. ASSUME NEW name \in Kinds
        PROVE  Carries(q, name) <=> Carries(r, name) \/ q[1].cmd = name
    <3>1. \A k \in 1 .. Len(q) : k = 1 \/ (k - 1 \in 1 .. Len(r) /\ r[k - 1] = q[k])
      BY <1>1, <2>1, <2>2
    <3>2. \A k \in 1 .. Len(r) : k + 1 \in 1 .. Len(q)
      BY <1>1, <2>1, <2>2
    <3>3. 1 \in 1 .. Len(q)
      BY <2>2
    <3>4. QED
      BY <1>1, <2>1, <2>2, <3>1, <3>2, <3>3 DEF Carries
  <2>4. QED
    BY <2>1, <2>2, <2>3 DEF r
<1>4. QED
  BY <1>2, <1>3

\* Sent() appends, if the socket is open.
LEMMA Sending ==
    ASSUME TypeOK, NEW c \in Clients, NEW command \in Commands
    PROVE  /\ Sent(c, command) \in [Clients -> Seq(Commands)]
           /\ \A d \in Clients : d # c => Sent(c, command)[d] = toServer[d]
           /\ c \notin open => Sent(c, command) = toServer
           /\ c \in open => \A name \in Kinds : Carries(Sent(c, command)[c], name) <=>
                                                  Carries(toServer[c], name) \/ command.cmd = name
BY WhatQueuesCarry DEF TypeOK, Sent

\* Handled() takes one command away, and no other.
LEMMA Handling ==
    ASSUME TypeOK, NEW c \in Clients, NEW name, Arrived(c, name), Handled(c)
    PROVE  /\ toServer' \in [Clients -> Seq(Commands)] /\ Next1(c) \in Commands
           /\ Next1(c).cmd = name
           /\ \A d \in Clients : d # c => toServer'[d] = toServer[d]
           /\ \A n \in Kinds : n # name => (Carries(toServer'[c], n) <=> Carries(toServer[c], n))
<1>1. toServer[c] # <<>> /\ toServer[c] \in Seq(Commands) /\ Next1(c).cmd = name
  BY DEF TypeOK, Arrived
<1>2. /\ toServer' = [toServer EXCEPT ![c] = Tail(@)] /\ toServer \in [Clients -> Seq(Commands)]
  BY DEF TypeOK, Handled
<1>3. QED
  BY <1>1, <1>2, WhatQueuesCarry DEF Next1

\* Awaits() as HeardOK says it.
LEMMA Awaiting ==
    ASSUME NEW c \in Clients
    PROVE  Awaits(c) <=> /\ c \in streaming /\ c \notin start
                         /\ held[c] = None \/ c \in mute
                         /\ ~Carries(toServer[c], "dispatch")
BY DEF Awaits, Carries
-----------------------------------------------------------------------------
(*************************** the tab's own steps ***************************)

\* A command that is neither a start nor a dispatch changes nothing the tabs wait for.
LEMMA SendsOnly ==
    ASSUME IInv, NEW c \in Clients, NEW command \in Commands, command.cmd \notin Kinds,
           toServer' = Sent(c, command),
           UNCHANGED <<managed, open, held, mute, start, waiting, streaming, banner, drops, booting, lost>>
    PROVE  IInv'
<1>1. /\ toServer' \in [Clients -> Seq(Commands)]
      /\ \A d \in Clients : \A name \in Kinds : Carries(toServer'[d], name) <=> Carries(toServer[d], name)
  BY Sending DEF IInv, Kinds
<1>2. TypeOK'
  BY <1>1 DEF IInv, TypeOK, ManagerTypeOK, managed
<1>3. ManagerOK'
  BY DEF IInv, ManagerOK, ManagerTypeOK, OverlapsAreSeen, Starting, OnlyLiveWork, AskersKnown,
         StrayNeedsOverlap, NoOrphanPrompt, managed
<1>4. TabsOK'
  BY <1>1 DEF IInv, TabsOK, Kinds, StartOK, Begun, HeardOK, Reached, HeldOK, BannerOK, Ids, managed
<1>5. QED
  BY <1>2, <1>3, <1>4 DEF IInv

\* The manager is not concerned.
LEMMA ManagerRests == ManagerOK /\ UNCHANGED managed => ManagerOK'
BY DEF ManagerOK, ManagerTypeOK, OverlapsAreSeen, Starting, OnlyLiveWork, AskersKnown,
       StrayNeedsOverlap, NoOrphanPrompt, managed

LEMMA AnswerKeeps ==
    ASSUME IInv, NEW c \in Clients, Answer(c)
    PROVE  IInv'
<1> DEFINE command == [cmd |-> "respond", prompt |-> banner[c]]
<1>1. command \in Commands /\ command.cmd \notin Kinds
  BY DEF IInv, TypeOK, Answer, Commands, Kinds
<1>2. /\ toServer' = Sent(c, command)
      /\ UNCHANGED <<managed, open, held, mute, start, waiting, streaming, banner, drops, booting, lost>>
  BY DEF Answer
<1> HIDE DEF command
<1>3. QED
  BY <1>1, <1>2, SendsOnly

LEMMA StopKeeps ==
    ASSUME IInv, NEW c \in Clients, Stop(c)
    PROVE  IInv'
<1>1. [cmd |-> "abort"] \in Commands /\ [cmd |-> "abort"].cmd \notin Kinds
  BY DEF Commands, Kinds
<1>2. QED
  BY <1>1, SendsOnly DEF Stop

LEMMA OpenedKeeps ==
    ASSUME IInv, NEW c \in Clients, Opened(c)
    PROVE  IInv'
<1>1. [cmd |-> "resume"] \in Commands /\ [cmd |-> "resume"].cmd \notin Kinds
  BY DEF Commands, Kinds
<1>2. QED
  BY <1>1, SendsOnly DEF Opened

LEMMA SendKeeps ==
    ASSUME IInv, NEW c \in Clients, Send(c)
    PROVE  IInv'
<1>1. /\ c \in open /\ c \notin streaming /\ banner[c] = None
      /\ streaming' = streaming \cup {c} /\ waiting' = waiting \cup {c} /\ UNCHANGED managed
      /\ UNCHANGED <<open, held, mute, banner, drops, booting>>
  BY DEF Send
<1>2. ManagerOK'
  BY <1>1, ManagerRests DEF IInv
<1>3. ManagerTypeOK'
  BY <1>2 DEF ManagerOK
<1>4. \A d \in Clients : Begun(d)' <=> Begun(d)
  BY <1>1 DEF Begun, managed
<1>5. CASE /\ c \notin start /\ start' = start \cup {c}
           /\ toServer' = Sent(c, [cmd |-> "start"]) /\ lost' = lost \ {c}
  <2>1. [cmd |-> "start"] \in Commands /\ [cmd |-> "start"].cmd = "start"
    BY DEF Commands
  <2>2. /\ toServer' \in [Clients -> Seq(Commands)]
        /\ \A d \in Clients : d # c => toServer'[d] = toServer[d]
        /\ Carries(toServer'[c], "start")
    BY <1>1, <1>5, <2>1, Sending DEF IInv, Kinds
  <2>3. TypeOK'
    BY <1>1, <1>3, <1>5, <2>2 DEF IInv, TypeOK
  <2>4. waiting' = start' /\ Clients \ open' \subseteq lost'
    BY <1>1, <1>5 DEF IInv, TabsOK
  <2>5. ASSUME NEW d \in Clients
        PROVE  StartOK(d)' /\ HeardOK(d)' /\ HeldOK(d)' /\ BannerOK(d)'
    <3>1. StartOK(d)'
      BY <1>4, <1>5, <2>2 DEF IInv, TabsOK, StartOK
    <3>2. HeardOK(d)'
      BY <1>1, <1>5, <2>2 DEF IInv, TabsOK, HeardOK, Reached, managed
    <3>3. HeldOK(d)' /\ BannerOK(d)'
      BY <1>1, <1>5 DEF IInv, TabsOK, HeldOK, BannerOK, Ids, managed
    <3>4. QED
      BY <3>1, <3>2, <3>3
  <2>6. QED
    BY <1>2, <2>3, <2>4, <2>5 DEF IInv, TabsOK
<1>6. CASE c \in start /\ UNCHANGED <<start, toServer, lost>>
  <2>1. TypeOK'
    BY <1>1, <1>3, <1>6 DEF IInv, TypeOK
  <2>2. TabsOK'
    BY <1>1, <1>6 DEF IInv, TabsOK, StartOK, Begun, HeardOK, Reached, HeldOK, BannerOK, Ids, managed
  <2>3. QED
    BY <1>2, <2>1, <2>2 DEF IInv
<1>7. QED
  BY <1>5, <1>6 DEF Send

LEMMA LeaveKeeps ==
    ASSUME IInv, NEW c \in Clients, NEW closed \in BOOLEAN, Leave(c, closed)
    PROVE  IInv'
<1>1. /\ start' = start \ {c} /\ waiting' = waiting \ {c} /\ toServer' = Sent(c, [cmd |-> "destroy"])
      /\ streaming' \in {streaming, streaming \ {c}} /\ lost' = lost \cup {c}
      /\ banner' \in {banner, [banner EXCEPT ![c] = None]}
      /\ UNCHANGED <<managed, open, held, mute, drops, booting>>
  BY DEF Leave
<1>2. [cmd |-> "destroy"] \in Commands
  BY DEF Commands
<1>3. toServer' \in [Clients -> Seq(Commands)] /\ \A d \in Clients : d # c => toServer'[d] = toServer[d]
  BY <1>1, <1>2, Sending DEF IInv
<1>4. ManagerOK'
  BY <1>1, ManagerRests DEF IInv
<1>5. TypeOK'
  BY <1>1, <1>3, <1>4 DEF IInv, TypeOK, ManagerOK
<1>6. \A d \in Clients : StartOK(d)' /\ HeardOK(d)' /\ HeldOK(d)'
  BY <1>1, <1>3 DEF IInv, TabsOK, StartOK, Begun, HeardOK, Reached, HeldOK, managed
<1>7. \A d \in Clients : banner'[d] \in {None, banner[d]}
  BY <1>1 DEF IInv, TypeOK
<1>8. \A d \in Clients : BannerOK(d)'
  BY <1>1, <1>7 DEF IInv, TabsOK, BannerOK, Ids, managed
<1>9. QED
  BY <1>1, <1>4, <1>5, <1>6, <1>8 DEF IInv, TabsOK

LEMMA ReconnectKeeps ==
    ASSUME IInv, NEW c \in Clients, Reconnect(c)
    PROVE  IInv'
<1>1. /\ c \notin open /\ open' = open \cup {c}
      /\ toServer' = [toServer EXCEPT ![c] = <<[cmd |-> "resume"]>>]
      /\ UNCHANGED <<managed, held, mute, start, waiting, streaming, banner, drops, booting, lost>>
  BY DEF Reconnect
<1>2. <<[cmd |-> "resume"]>> \in Seq(Commands)
  BY DEF Commands
<1>3. toServer' \in [Clients -> Seq(Commands)] /\ \A d \in Clients : d # c => toServer'[d] = toServer[d]
  BY <1>1, <1>2 DEF IInv, TypeOK
<1>4. ManagerOK'
  BY <1>1, ManagerRests DEF IInv
<1>5. TypeOK'
  BY <1>1, <1>3, <1>4 DEF IInv, TypeOK, ManagerOK
<1>6. c \in lost
  BY <1>1 DEF IInv, TabsOK
<1>7. \A d \in Clients : StartOK(d)' /\ HeardOK(d)' /\ HeldOK(d)' /\ BannerOK(d)'
  BY <1>1, <1>3, <1>6 DEF IInv, TabsOK, StartOK, Begun, HeardOK, Reached, HeldOK, BannerOK, Ids, managed
<1>8. QED
  BY <1>1, <1>4, <1>5, <1>7 DEF IInv, TabsOK

LEMMA HoldKeeps ==
    ASSUME IInv, NEW c \in Clients, Hold(c)
    PROVE  IInv'
<1>1. /\ Arrived(c, "dispatch") /\ Handled(c) /\ held[c] = None
      /\ UNCHANGED <<managed, open, mute, start, waiting, streaming, banner, drops, booting, lost>>
  BY DEF Hold
<1>2. PICK i \in MyStarts(c) : held' = [held EXCEPT ![c] = i]
  BY DEF Hold
<1>3. i \in Instances /\ phase[i] = "starting" /\ by[i] = c /\ i # None
  BY <1>2, NoneIsApart DEF MyStarts, Starting
<1>4. /\ toServer' \in [Clients -> Seq(Commands)] /\ \A d \in Clients : d # c => toServer'[d] = toServer[d]
      /\ Carries(toServer'[c], "start") <=> Carries(toServer[c], "start")
  BY <1>1, Handling DEF IInv, Kinds
<1>5. ManagerOK'
  BY <1>1, ManagerRests DEF IInv
<1>6. TypeOK'
  BY <1>1, <1>2, <1>3, <1>4, <1>5 DEF IInv, TypeOK, ManagerOK
<1>7. held'[c] = i /\ \A d \in Clients : d # c => held'[d] = held[d]
  BY <1>2 DEF IInv, TypeOK
<1>8. \A d \in Clients : StartOK(d)' /\ BannerOK(d)'
  BY <1>1, <1>4 DEF IInv, TabsOK, StartOK, Begun, BannerOK, Ids, managed
<1>9. \A d \in Clients : HeardOK(d)'
  BY <1>1, <1>3, <1>4, <1>7 DEF IInv, TabsOK, HeardOK, HeldOK, Reached, managed
<1>10. \A d \in Clients : HeldOK(d)'
  BY <1>1, <1>3, <1>7 DEF IInv, TabsOK, HeldOK, managed
<1>11. QED
  BY <1>1, <1>5, <1>6, <1>8, <1>9, <1>10 DEF IInv, TabsOK
-----------------------------------------------------------------------------
(********************** starts, destroys and their end *********************)

\* Whoever was waiting for the end of a run of the torn down instance is cut off from it.
LEMMA TearingReaches ==
    ASSUME IInv, bridge' = Torn(current, bridge, {}), runs' = Torn(current, runs, <<>>),
           lost' = lost \cup CutOff, UNCHANGED <<held, mute, start, streaming>>,
           \A d \in Clients : Carries(toServer'[d], "dispatch") <=> Carries(toServer[d], "dispatch")
    PROVE  \A d \in Clients : HeardOK(d)'
<1> SUFFICES ASSUME NEW d \in Clients, d \notin lost', d \in streaming, d \notin start,
                    held[d] = None \/ d \in mute, ~Carries(toServer[d], "dispatch")
             PROVE  Reached(d)'
  BY DEF HeardOK
<1>1. Reached(d) /\ Awaits(d)
  BY Awaiting DEF IInv, TabsOK, HeardOK
<1>2. PICK i \in Instances : d \in bridge[i] /\ runs[i] # <<>>
  BY <1>1 DEF Reached
<1>3. d \notin Listeners(bridge)
  BY <1>1 DEF CutOff
<1>4. i # current
  BY <1>2, <1>3, NoneIsApart DEF Listeners
<1>5. bridge'[i] = bridge[i] /\ runs'[i] = runs[i]
  BY <1>4, TearsDown DEF IInv
<1>6. QED
  BY <1>2, <1>5 DEF Reached

\* start(), for the tab that sent the command or for nobody.
LEMMA StartTabs ==
    ASSUME IInv, NEW i \in Instances, NEW socket \in Clients \cup {None}, Start(i, socket),
           lost' = lost \cup CutOff, toServer' \in [Clients -> Seq(Commands)],
           \A d \in Clients : Carries(toServer'[d], "dispatch") <=> Carries(toServer[d], "dispatch"),
           \A d \in Clients : d # socket => toServer'[d] = toServer[d],
           UNCHANGED <<open, held, mute, start, waiting, streaming, banner, drops>>, booting' \in BOOLEAN
    PROVE  IInv'
<1>1. /\ ManagerOK' /\ current' = None /\ phase[i] = "none" /\ phase'[i] = "starting" /\ by'[i] = socket
      /\ bridge' = Torn(current, bridge, {}) /\ runs' = Torn(current, runs, <<>>) /\ asked' = asked
      /\ \A j \in Instances \ {i} :
            by'[j] = by[j] /\ phase'[j] = IF j = current THEN "destroyed" ELSE phase[j]
  BY StartKeeps DEF IInv
<1>2. lost' \subseteq Clients
  BY DEF CutOff, Listeners, IInv, TypeOK, ManagerTypeOK
<1>3. TypeOK'
  BY <1>1, <1>2 DEF IInv, TypeOK, ManagerOK
<1>4. current # None => phase[current] = "live" /\ current \in Instances
  BY DEF IInv, ManagerOK, ManagerTypeOK
<1>5. \A d \in Clients : Begun(d) => Begun(d)'
  BY <1>1, <1>4, NoneIsApart DEF Begun
<1>6. socket \in Clients => Begun(socket)'
  BY <1>1 DEF Begun
<1>7. \A d \in Clients : StartOK(d)'
  BY <1>5, <1>6 DEF IInv, TabsOK, StartOK
<1>8. \A d \in Clients : HeardOK(d)'
  BY <1>1, TearingReaches
<1>9. \A d \in Clients : held[d] \in Instances \cup {None}
  BY DEF IInv, TypeOK
<1>10. \A d \in Clients : HeldOK(d)'
  BY <1>1, <1>4, <1>9 DEF IInv, TabsOK, HeldOK
<1>11. \A p \in DOMAIN asked : asked[p] # None
  BY NoneIsApart DEF IInv, ManagerOK, ManagerTypeOK
<1>12. \A d \in Clients : BannerOK(d)'
  BY <1>1, <1>11 DEF IInv, TabsOK, BannerOK
<1>13. QED
  BY <1>1, <1>3, <1>7, <1>8, <1>10, <1>12 DEF IInv, TabsOK

LEMMA HandleStartKeeps ==
    ASSUME IInv, NEW c \in Clients, HandleStart(c)
    PROVE  IInv'
<1>1. PICK i \in Instances : Start(i, c)
  BY DEF HandleStart
<1>2. /\ Arrived(c, "start") /\ Handled(c) /\ lost' = lost \cup CutOff
      /\ UNCHANGED <<open, held, mute, start, waiting, streaming, banner, drops, booting>>
  BY DEF HandleStart
<1>3. /\ toServer' \in [Clients -> Seq(Commands)] /\ \A d \in Clients : d # c => toServer'[d] = toServer[d]
      /\ Carries(toServer'[c], "dispatch") <=> Carries(toServer[c], "dispatch")
  BY <1>2, Handling DEF IInv, Kinds
<1>4. \A d \in Clients : Carries(toServer'[d], "dispatch") <=> Carries(toServer[d], "dispatch")
  BY <1>3
<1>5. booting' \in BOOLEAN
  BY <1>2 DEF IInv, TypeOK
<1>6. QED
  BY <1>1, <1>2, <1>3, <1>4, <1>5, StartTabs

LEMMA RestoreKeeps ==
    ASSUME IInv, Restore
    PROVE  IInv'
<1>1. PICK i \in Instances : Start(i, None)
  BY DEF Restore
<1>2. /\ lost' = lost \cup CutOff /\ booting' = FALSE
      /\ UNCHANGED <<open, toServer, held, mute, start, waiting, streaming, banner, drops>>
  BY DEF Restore
<1>3. toServer' \in [Clients -> Seq(Commands)]
  BY <1>2 DEF IInv, TypeOK
<1>4. QED
  BY <1>1, <1>2, <1>3, StartTabs

LEMMA HandleDestroyKeeps ==
    ASSUME IInv, NEW c \in Clients, HandleDestroy(c)
    PROVE  IInv'
<1>1. /\ Arrived(c, "destroy") /\ Handled(c) /\ Destroy /\ lost' = lost \cup CutOff
      /\ UNCHANGED <<open, held, mute, start, waiting, streaming, banner, drops, booting>>
  BY DEF HandleDestroy
<1>2. /\ toServer' \in [Clients -> Seq(Commands)]
      /\ \A d \in Clients : \A name \in Kinds : Carries(toServer'[d], name) <=> Carries(toServer[d], name)
  BY <1>1, Handling DEF IInv, Kinds
<1>3. ManagerOK'
  BY <1>1, DestroyKeeps DEF IInv
<1>4. /\ current' = None /\ bridge' = Torn(current, bridge, {}) /\ runs' = Torn(current, runs, <<>>)
      /\ by' = by /\ asked' = asked /\ phase' = Torn(current, phase, "destroyed")
  BY <1>1 DEF Destroy
<1>5. \A j \in Instances : phase'[j] = IF j = current THEN "destroyed" ELSE phase[j]
  BY <1>4, TearsDown DEF IInv
<1>6. lost' \subseteq Clients
  BY <1>1 DEF CutOff, Listeners, IInv, TypeOK, ManagerTypeOK
<1>7. TypeOK'
  BY <1>1, <1>2, <1>3, <1>6 DEF IInv, TypeOK, ManagerOK
<1>8. current # None => phase[current] = "live" /\ current \in Instances
  BY DEF IInv, ManagerOK, ManagerTypeOK
<1>9. \A d \in Clients : Begun(d) => Begun(d)'
  BY <1>4, <1>5, <1>8, NoneIsApart DEF Begun
<1>10. \A d \in Clients : StartOK(d)'
  BY <1>1, <1>2, <1>9 DEF IInv, TabsOK, StartOK, Kinds
<1>11. \A d \in Clients : HeardOK(d)'
  BY <1>1, <1>2, <1>4, TearingReaches DEF Kinds
<1>12. \A d \in Clients : held[d] \in Instances \cup {None}
  BY DEF IInv, TypeOK
<1>13. \A d \in Clients : HeldOK(d)'
  BY <1>1, <1>4, <1>5, <1>12 DEF IInv, TabsOK, HeldOK
<1>14. \A p \in DOMAIN asked : asked[p] # None
  BY NoneIsApart DEF IInv, ManagerOK, ManagerTypeOK
<1>15. \A d \in Clients : BannerOK(d)'
  BY <1>1, <1>4, <1>14 DEF IInv, TabsOK, BannerOK
<1>16. QED
  BY <1>1, <1>3, <1>7, <1>10, <1>11, <1>13, <1>15 DEF IInv, TabsOK

LEMMA StartCompletesKeeps ==
    ASSUME IInv, NEW i \in Instances, StartCompletes(i)
    PROVE  IInv'
<1>1. /\ Started(i) /\ lost' = lost \cup CutOff /\ UNCHANGED <<open, held, mute, drops, booting>>
  BY DEF StartCompletes
<1>2. ManagerOK'
  BY <1>1, StartedKeeps DEF IInv
<1>3. /\ phase[i] = "starting" /\ phase' = [phase EXCEPT ![i] = "live"] /\ current' = i
      /\ bridge' = [bridge EXCEPT ![i] = {by[i]} \ {None}] /\ by' = [by EXCEPT ![i] = None]
      /\ UNCHANGED <<runs, pending, asked>>
  BY <1>1 DEF Started
<1>4. /\ phase'[i] = "live" /\ by'[i] = None /\ runs[i] = <<>>
      /\ \A j \in Instances : j # i => bridge'[j] = bridge[j] /\ phase'[j] = phase[j] /\ by'[j] = by[j]
  BY <1>3 DEF IInv, ManagerOK, ManagerTypeOK, OnlyLiveWork
<1>5. lost' \subseteq Clients
  BY <1>1 DEF CutOff, Listeners, IInv, TypeOK, ManagerTypeOK
<1>6. \A d \in Clients : Reached(d) => Reached(d)'
  BY <1>3, <1>4 DEF Reached
<1>7. \A d \in Clients : Begun(d) /\ d # by[i] => Begun(d)'
  BY <1>3, <1>4 DEF Begun
<1>8. \A d \in Clients : held[d] \in Instances \cup {None}
  BY DEF IInv, TypeOK
<1>9. \A d \in Clients : HeldOK(d)'
  BY <1>1, <1>4, <1>8 DEF IInv, TabsOK, HeldOK
<1>10. \A p \in DOMAIN asked : asked[p] # i
  BY <1>3 DEF IInv, ManagerOK, AskersKnown
<1>11. Clients \ open' \subseteq lost'
  BY <1>1 DEF IInv, TabsOK
<1>12. CASE by[i] = None /\ UNCHANGED <<start, waiting, toServer, streaming, banner>>
  <2>1. TypeOK'
    BY <1>1, <1>2, <1>5, <1>12 DEF IInv, TypeOK, ManagerOK
  <2>2. \A d \in Clients : d # by[i]
    BY <1>12, NoneIsApart
  <2>3. \A d \in Clients : StartOK(d)' /\ HeardOK(d)'
    BY <1>1, <1>6, <1>7, <1>12, <2>2 DEF IInv, TabsOK, StartOK, HeardOK
  <2>4. \A d \in Clients : BannerOK(d)'
    BY <1>3, <1>10, <1>12 DEF IInv, TabsOK, BannerOK
  <2>5. QED
    BY <1>2, <1>9, <1>11, <1>12, <2>1, <2>3, <2>4 DEF IInv, TabsOK
<1>13. CASE by[i] # None /\ SeeReady(by[i])
  <2> DEFINE c == by[i]
  <2>1. c \in Clients
    BY <1>13 DEF IInv, ManagerOK, ManagerTypeOK
  <2> HIDE DEF c
  <2>2. /\ start' = start \ {c} /\ waiting' = waiting \ {c}
        /\ toServer' = IF c \in waiting THEN Sent(c, [cmd |-> "dispatch"]) ELSE toServer
        /\ UNCHANGED <<streaming, banner>>
    BY <1>13 DEF SeeReady, c
  <2>3. [cmd |-> "dispatch"] \in Commands /\ [cmd |-> "dispatch"].cmd = "dispatch"
    BY DEF Commands
  <2>4. /\ toServer' \in [Clients -> Seq(Commands)] /\ \A d \in Clients : d # c => toServer'[d] = toServer[d]
        /\ c \in waiting /\ c \in open => Carries(toServer'[c], "dispatch")
        /\ c \notin waiting => toServer' = toServer
    BY <2>1, <2>2, <2>3, Sending DEF IInv, TypeOK, Kinds
  <2>5. TypeOK'
    BY <1>1, <1>2, <1>5, <2>2, <2>4 DEF IInv, TypeOK, ManagerOK
  <2>6. \A d \in Clients : StartOK(d)'
    BY <1>1, <1>7, <2>2, <2>4 DEF IInv, TabsOK, StartOK, c
  <2>7. \A d \in Clients : HeardOK(d)'
    BY <1>1, <1>6, <2>1, <2>2, <2>4 DEF IInv, TabsOK, HeardOK
  <2>8. \A d \in Clients : BannerOK(d)'
    BY <1>3, <1>10, <2>2 DEF IInv, TabsOK, BannerOK
  <2>9. waiting' = start'
    BY <2>2 DEF IInv, TabsOK
  <2>10. QED
    BY <1>2, <1>9, <1>11, <2>5, <2>6, <2>7, <2>8, <2>9 DEF IInv, TabsOK
<1>14. QED
  BY <1>12, <1>13 DEF StartCompletes

LEMMA StartThrowsKeeps ==
    ASSUME IInv, NEW i \in Instances, StartThrows(i)
    PROVE  IInv'
<1>1. /\ StartFailed(i) /\ held' = [c \in Clients |-> IF held[c] = i THEN None ELSE held[c]]
      /\ mute' = {c \in mute : held'[c] # None} /\ UNCHANGED <<open, toServer, drops, booting, lost>>
  BY DEF StartThrows
<1>2. ManagerOK'
  BY <1>1, StartFailedKeeps DEF IInv
<1>3. /\ phase[i] = "starting" /\ phase' = [phase EXCEPT ![i] = "failed"] /\ by' = [by EXCEPT ![i] = None]
      /\ UNCHANGED <<current, bridge, runs, pending, asked>>
  BY <1>1 DEF StartFailed
<1>4. \A j \in Instances : j # i => phase'[j] = phase[j] /\ by'[j] = by[j]
  BY <1>3 DEF IInv, ManagerOK, ManagerTypeOK
<1>5. /\ \A d \in Clients : held'[d] = IF held[d] = i THEN None ELSE held[d]
      /\ \A d \in Clients : d \in mute' <=> d \in mute /\ held'[d] # None
      /\ \A d \in Clients : held[d] \in Instances \cup {None}
      /\ held' \in [Clients -> Instances \cup {None}] /\ mute' \subseteq Clients
  BY <1>1 DEF IInv, TypeOK
<1>6. \A d \in Clients : Begun(d) /\ d # by[i] => Begun(d)'
  BY <1>3, <1>4 DEF Begun
<1>7. /\ banner' = banner /\ start' = start \ {by[i]} /\ waiting' = waiting \ {by[i]}
      /\ streaming' = streaming \ {by[i]}
  <2>1. None \notin start \cup waiting \cup streaming
    BY NoneIsApart DEF IInv, TypeOK
  <2>2. QED
    BY <2>1 DEF StartThrows, SeeError
<1>8. TypeOK'
  BY <1>1, <1>2, <1>5, <1>7 DEF IInv, TypeOK, ManagerOK
<1>9. \A d \in Clients : StartOK(d)'
  BY <1>1, <1>6, <1>7 DEF IInv, TabsOK, StartOK
<1>10. \A d \in Clients : HeldOK(d)'
  BY <1>4, <1>5 DEF IInv, TabsOK, HeldOK
<1>11. ASSUME NEW d \in Clients, d \notin lost', d \in streaming', d \notin start',
              held'[d] = None \/ d \in mute', ~Carries(toServer'[d], "dispatch")
       PROVE  Reached(d)'
  <2>1. d # by[i] /\ d \notin start /\ d \in streaming
    BY <1>7, <1>11
  <2>2. held[d] = None \/ d \in mute
    BY <1>3, <1>5, <1>11, <2>1 DEF IInv, TabsOK, HeldOK
  <2>3. Reached(d)
    BY <1>1, <1>11, <2>1, <2>2 DEF IInv, TabsOK, HeardOK
  <2>4. QED
    BY <1>3, <2>3 DEF Reached
<1>12. \A d \in Clients : HeardOK(d)'
  BY <1>11 DEF HeardOK
<1>13. \A d \in Clients : BannerOK(d)'
  BY <1>1, <1>3, <1>7 DEF IInv, TabsOK, BannerOK, Ids
<1>14. QED
  BY <1>1, <1>2, <1>7, <1>8, <1>9, <1>10, <1>12, <1>13 DEF IInv, TabsOK
-----------------------------------------------------------------------------
(************************** dispatches and answers *************************)

\* More sockets and no run less: who was reached still is.
LEMMA ReachGrows ==
    ASSUME ManagerOK, NEW socket \in Clients \cup {None},
           bridge' = bridge \/ bridge' = WithSocket(socket),
           \A i \in Instances : runs[i] # <<>> => runs'[i] # <<>>
    PROVE  \A d \in Clients : Reached(d) => Reached(d)'
<1>1. \A i \in Instances : bridge[i] \subseteq bridge'[i]
  BY SocketsAreAdded DEF ManagerOK
<1>2. QED
  BY <1>1 DEF Reached

\* Whoever could see a prompt end sees it end.
LEMMA BannersSettle ==
    ASSUME IInv, NEW p, Settle(p), NEW audience,
           bridge' = bridge \/ \E socket \in Clients \cup {None} : bridge' = WithSocket(socket),
           SeeResolved(p, audience), p \in DOMAIN asked => bridge[asked[p]] \subseteq audience,
           open' = open, lost \subseteq lost'
    PROVE  \A d \in Clients : BannerOK(d)'
<1> SUFFICES ASSUME NEW d \in Clients, banner'[d] # None
             PROVE  /\ banner'[d] \in DOMAIN asked'
                    /\ d \in open' \ lost' /\ asked'[banner'[d]] = current' =>
                          banner'[d] \in Ids(pending') /\ d \in bridge'[current']
  BY DEF BannerOK, Ids
<1>1. UNCHANGED <<current, asked>> /\ pending' = {e \in pending : e.id # p}
  BY DEF Settle, Finalized
<1>2. banner'[d] = banner[d] /\ ~(d \in audience /\ banner[d] = p)
  BY NoneIsApart DEF SeeResolved
<1>3. banner[d] \in DOMAIN asked
  BY <1>2 DEF IInv, TabsOK, BannerOK
<1>4. ASSUME d \in open' \ lost', asked[banner[d]] = current
      PROVE  banner[d] \in Ids(pending') /\ d \in bridge'[current]
  <2>1. banner[d] \in Ids(pending) /\ d \in bridge[current]
    BY <1>2, <1>4 DEF IInv, TabsOK, BannerOK
  <2>2. banner[d] # p
    BY <1>2, <1>3, <1>4, <2>1
  <2>3. banner[d] \in Ids(pending')
    BY <1>1, <2>1, <2>2 DEF Ids
  <2>4. current \in Instances
    BY <1>3, <1>4 DEF IInv, ManagerOK, ManagerTypeOK
  <2>5. bridge[current] \subseteq bridge'[current]
    BY <2>4, SocketsAreAdded DEF IInv, ManagerOK
  <2>6. QED
    BY <2>1, <2>3, <2>5
<1>5. QED
  BY <1>1, <1>2, <1>3, <1>4

\* What comes of a dispatch, for the tab it is answered to and for the others.
LEMMA Dispatched ==
    ASSUME IInv, NEW c \in Clients, NEW socket \in {c, None},
           DispatchRun(c, socket) \/ DispatchAnswer(c, socket)
    PROVE  /\ ManagerOK' /\ UNCHANGED <<phase, by, current, asked, open, drops, booting>>
           /\ banner' \in [Clients -> Prompts \cup {None}]
           /\ \A d \in Clients : BannerOK(d)'
           /\ waiting' = start' /\ start' \in {start, start \ {socket}}
           /\ streaming' \in {streaming, streaming \ {socket}}
           /\ start' = start \/ socket \notin streaming'
           /\ lost' \in {lost, lost \cup {c}}
           /\ \A d \in Clients : Reached(d) => Reached(d)'
           /\ socket = c => c \in lost' \/ c \notin streaming' \/ Reached(c)'
<1>1. /\ ManagerOK /\ ManagerTypeOK /\ waiting = start /\ socket \in Clients \cup {None}
      /\ banner \in [Clients -> Prompts \cup {None}]
  BY DEF IInv, ManagerOK, TypeOK, TabsOK
<1>2. CASE Dispatch(c, socket) /\ UNCHANGED <<start, waiting, streaming, banner, open, drops, booting, lost>>
  <2>1. ManagerOK' /\ runs'[current] # <<>> /\ \A i \in Instances : runs[i] # <<>> => runs'[i] # <<>>
    BY <1>1, <1>2, DispatchKeeps
  <2>2. /\ current # None /\ bridge' = WithSocket(socket)
        /\ UNCHANGED <<phase, by, current, pending, asked>>
    BY <1>2 DEF Dispatch
  <2>3. \A d \in Clients : Reached(d) => Reached(d)'
    BY <1>1, <2>1, <2>2, ReachGrows
  <2>4. \A i \in Instances : bridge[i] \subseteq bridge'[i]
    BY <1>1, <2>2, SocketsAreAdded
  <2>5. current \in Instances /\ bridge'[current] = bridge[current] \cup ({socket} \ {None})
    BY <1>1, <2>2, SocketsAreAdded
  <2>6. socket = c => Reached(c)'
    BY <2>1, <2>5, NoneIsApart DEF Reached
  <2>7. \A d \in Clients : BannerOK(d)'
    BY <1>2, <2>2, <2>4, <2>5 DEF IInv, TabsOK, BannerOK, Ids
  <2>8. QED
    BY <1>1, <1>2, <2>1, <2>2, <2>3, <2>6, <2>7
<1>3. CASE SeeError(socket) /\ UNCHANGED <<managed, open, drops, booting, lost>>
  <2>1. ManagerOK'
    BY <1>1, <1>3, ManagerRests
  <2>2. /\ start' = start \ {socket} /\ waiting' = waiting \ {socket} /\ streaming' = streaming \ {socket}
        /\ UNCHANGED banner
    BY <1>3 DEF SeeError
  <2>3. \A d \in Clients : (Reached(d) => Reached(d)') /\ BannerOK(d)'
    BY <1>3, <2>2 DEF IInv, TabsOK, BannerOK, Reached, Ids, managed
  <2>4. QED
    BY <1>1, <1>3, <2>1, <2>2, <2>3 DEF managed
<1>4. CASE /\ pending # {} /\ bridge' = WithSocket(socket) /\ UNCHANGED <<open, drops, booting>>
           /\ Settle(Oldest(pending).id)
           /\ SeeResolved(Oldest(pending).id, PromptListeners(Oldest(pending).id, WithSocket(socket)))
           /\ lost' = IF asked[Oldest(pending).id] = current THEN lost ELSE lost \cup {c}
           /\ UNCHANGED <<start, waiting, streaming>>
  <2> DEFINE e == Oldest(pending)
             p == e.id
             audience == PromptListeners(p, WithSocket(socket))
  <2>1. e \in pending
    BY <1>1, <1>4, OldestIsPending
  <2> HIDE DEF e
  <2>2. p \in DOMAIN asked /\ asked[p] = e.inst /\ runs[asked[p]] # <<>> /\ asked[p] \in Instances
    BY <1>1, <2>1 DEF ManagerOK, AskersKnown, NoOrphanPrompt, ManagerTypeOK
  <2>3. Settle(p) /\ SeeResolved(p, audience) /\ bridge' = WithSocket(socket)
    BY <1>4 DEF e
  <2>4. bridge[asked[p]] \subseteq audience
    BY <1>1, <2>2, SocketsAreAdded DEF PromptListeners
  <2> HIDE DEF audience
  <2>5. lost' = (IF asked[p] = current THEN lost ELSE lost \cup {c})
    BY <1>4 DEF e
  <2> HIDE DEF p
  <2>6. \A d \in Clients : BannerOK(d)'
    <3>1. lost \subseteq lost' /\ open' = open
      BY <1>4, <2>5
    <3>2. QED
      BY <1>1, <2>3, <2>4, <3>1, BannersSettle
  <2>7. ManagerOK'
    BY <1>1, <2>3, SettleKeeps
  <2>8. UNCHANGED <<phase, by, current, runs, asked>>
    BY <2>3 DEF Settle
  <2>9. \A d \in Clients : Reached(d) => Reached(d)'
    <3>1. \A i \in Instances : runs[i] # <<>> => runs'[i] # <<>>
      BY <2>8
    <3>2. QED
      BY <1>1, <2>3, <3>1, ReachGrows
  <2>10. socket = c => c \in lost' \/ Reached(c)'
    <3>1. SUFFICES ASSUME socket = c, asked[p] = current PROVE Reached(c)'
      BY <2>5
    <3>2. current \in Instances /\ current # None /\ runs'[current] # <<>>
      BY <2>2, <2>8, <3>1, NoneIsApart
    <3>3. c \in bridge'[current]
      BY <1>1, <2>3, <3>1, <3>2, SocketsAreAdded, NoneIsApart
    <3>4. QED
      BY <3>2, <3>3 DEF Reached
  <2>11. banner' \in [Clients -> Prompts \cup {None}]
    BY <1>1, <2>3 DEF SeeResolved
  <2>12. QED
    BY <1>1, <1>4, <2>5, <2>6, <2>7, <2>8, <2>9, <2>10, <2>11
<1>5. CASE /\ bridge' = WithSocket(socket) /\ SeeError(socket)
           /\ UNCHANGED <<phase, by, current, runs, pending, asked, overlapped, lost, open, drops, booting>>
  <2>1. ManagerOK'
    BY <1>1, <1>5, AddingKeeps
  <2>2. /\ start' = start \ {socket} /\ waiting' = waiting \ {socket} /\ streaming' = streaming \ {socket}
        /\ UNCHANGED banner
    BY <1>5 DEF SeeError
  <2>3. \A i \in Instances : bridge[i] \subseteq bridge'[i]
    BY <1>1, <1>5, SocketsAreAdded
  <2>4. \A p \in DOMAIN asked : asked[p] \in Instances
    BY <1>1 DEF ManagerTypeOK
  <2>5. \A d \in Clients : (Reached(d) => Reached(d)') /\ BannerOK(d)'
    BY <1>5, <2>2, <2>3, <2>4 DEF IInv, TabsOK, BannerOK, Reached, Ids
  <2>6. QED
    BY <1>1, <1>5, <2>1, <2>2, <2>5
<1>6. CASE DispatchRun(c, socket)
  BY <1>2, <1>3, <1>6 DEF DispatchRun
<1>7. CASE DispatchAnswer(c, socket)
  BY <1>4, <1>5, <1>7 DEF DispatchAnswer
<1>8. QED
  BY <1>6, <1>7

LEMMA HandleDispatchKeeps ==
    ASSUME IInv, NEW c \in Clients, HandleDispatch(c)
    PROVE  IInv'
<1>1. /\ Arrived(c, "dispatch") /\ Handled(c) /\ UNCHANGED <<held, mute>>
      /\ DispatchRun(c, c) \/ DispatchAnswer(c, c)
  BY DEF HandleDispatch
<1>2. /\ toServer' \in [Clients -> Seq(Commands)] /\ \A d \in Clients : d # c => toServer'[d] = toServer[d]
      /\ Carries(toServer'[c], "start") <=> Carries(toServer[c], "start")
  BY <1>1, Handling DEF IInv, Kinds
<1>3. /\ ManagerOK' /\ UNCHANGED <<phase, by, current, asked, open, drops, booting>>
      /\ banner' \in [Clients -> Prompts \cup {None}] /\ \A d \in Clients : BannerOK(d)'
      /\ waiting' = start' /\ start' \in {start, start \ {c}} /\ streaming' \in {streaming, streaming \ {c}}
      /\ lost' \in {lost, lost \cup {c}}
      /\ \A d \in Clients : Reached(d) => Reached(d)'
      /\ c \in lost' \/ c \notin streaming' \/ Reached(c)'
  BY <1>1, Dispatched
<1>4. TypeOK'
  BY <1>1, <1>2, <1>3 DEF IInv, TypeOK, ManagerOK
<1>5. \A d \in Clients : StartOK(d)' /\ HeldOK(d)'
  BY <1>1, <1>2, <1>3 DEF IInv, TabsOK, StartOK, Begun, HeldOK
<1>6. ASSUME NEW d \in Clients PROVE HeardOK(d)'
  <2>1. CASE d = c
    BY <1>3, <2>1 DEF HeardOK
  <2>2. CASE d # c
    BY <1>1, <1>2, <1>3, <2>2 DEF IInv, TabsOK, HeardOK
  <2>3. QED
    BY <2>1, <2>2
<1>7. Clients \ open' \subseteq lost'
  BY <1>3 DEF IInv, TabsOK
<1>8. QED
  BY <1>3, <1>4, <1>5, <1>6, <1>7 DEF IInv, TabsOK

LEMMA ContinueKeeps ==
    ASSUME IInv, NEW c \in Clients, Continue(c)
    PROVE  IInv'
<1> DEFINE socket == IF c \in mute THEN None ELSE c
<1>1. /\ held[c] # None /\ held' = [held EXCEPT ![c] = None] /\ mute' = mute \ {c} /\ UNCHANGED toServer
      /\ DispatchRun(c, socket) \/ DispatchAnswer(c, socket)
  BY DEF Continue
<1>2. socket \in {c, None} /\ (c \in mute => socket = None) /\ (c \notin mute => socket = c)
  OBVIOUS
<1> HIDE DEF socket
<1>3. /\ ManagerOK' /\ UNCHANGED <<phase, by, current, asked, open, drops, booting>>
      /\ banner' \in [Clients -> Prompts \cup {None}] /\ \A d \in Clients : BannerOK(d)'
      /\ waiting' = start' /\ start' \in {start, start \ {socket}}
      /\ streaming' \in {streaming, streaming \ {socket}}
      /\ lost' \in {lost, lost \cup {c}}
      /\ \A d \in Clients : Reached(d) => Reached(d)'
      /\ socket = c => c \in lost' \/ c \notin streaming' \/ Reached(c)'
  BY <1>1, <1>2, Dispatched
<1>4. held' \in [Clients -> Instances \cup {None}] /\ held'[c] = None
      /\ \A d \in Clients : d # c => held'[d] = held[d]
  BY <1>1 DEF IInv, TypeOK
<1>5. TypeOK'
  BY <1>1, <1>3, <1>4 DEF IInv, TypeOK, ManagerOK
<1>6. \A d \in Clients : StartOK(d)' /\ HeldOK(d)'
  BY <1>1, <1>3, <1>4 DEF IInv, TabsOK, StartOK, Begun, HeldOK
<1>7. ASSUME NEW d \in Clients PROVE HeardOK(d)'
  <2>1. CASE d = c /\ socket = c
    BY <1>3, <2>1 DEF HeardOK
  <2>2. CASE d # socket
    <3>1. (d \in start' <=> d \in start) /\ (d \in streaming' <=> d \in streaming)
      BY <1>3, <2>2
    <3>2. held'[d] = None \/ d \in mute' => held[d] = None \/ d \in mute
      BY <1>1, <1>2, <1>4, <2>2
    <3>3. QED
      BY <1>1, <1>3, <3>1, <3>2 DEF IInv, TabsOK, HeardOK
  <2>3. QED
    BY <1>2, <2>1, <2>2, NoneIsApart
<1>8. Clients \ open' \subseteq lost'
  BY <1>3 DEF IInv, TabsOK
<1>9. QED
  BY <1>3, <1>5, <1>6, <1>7, <1>8 DEF IInv, TabsOK
-----------------------------------------------------------------------------
(********************* prompts, aborts and ends of runs ********************)

\* The starts, and the dispatches that await them, are as they were.
LEMMA StartsRest ==
    ASSUME TabsOK, UNCHANGED <<phase, by, held, mute, start, lost>>,
           \A d \in Clients : Carries(toServer[d], "start") => Carries(toServer'[d], "start")
    PROVE  \A d \in Clients : StartOK(d)' /\ HeldOK(d)'
BY DEF TabsOK, StartOK, Begun, HeldOK

LEMMA HandleRespondKeeps ==
    ASSUME IInv, NEW c \in Clients, HandleRespond(c)
    PROVE  IInv'
<1> DEFINE p == Next1(c).prompt
           audience == PromptListeners(p, WithSocket(c))
<1>1. /\ Arrived(c, "respond") /\ Handled(c) /\ Settle(p) /\ bridge' = WithSocket(c)
      /\ SeeResolved(p, audience)
      /\ UNCHANGED <<open, held, mute, start, waiting, streaming, drops, booting, lost>>
  BY DEF HandleRespond
<1>2. p \in DOMAIN asked => bridge[asked[p]] \subseteq audience
  BY SocketsAreAdded DEF IInv, ManagerOK, ManagerTypeOK, PromptListeners
<1> HIDE DEF audience
<1>3. /\ toServer' \in [Clients -> Seq(Commands)]
      /\ \A d \in Clients : \A name \in Kinds : Carries(toServer'[d], name) <=> Carries(toServer[d], name)
  BY <1>1, Handling DEF IInv, Kinds
<1> HIDE DEF p
<1>4. ManagerOK /\ TabsOK /\ waiting = start /\ Clients \ open \subseteq lost
  BY DEF IInv, TabsOK
<1>5. UNCHANGED <<phase, by, current, runs, asked>>
  BY <1>1 DEF Settle
<1>6. ManagerOK'
  BY <1>1, <1>4, SettleKeeps
<1>7. banner' \in [Clients -> Prompts \cup {None}]
  BY <1>1 DEF IInv, TypeOK, SeeResolved
<1>8. TypeOK'
  BY <1>1, <1>3, <1>6, <1>7 DEF IInv, TypeOK, ManagerOK
<1>9. \A d \in Clients : StartOK(d)' /\ HeldOK(d)'
  BY <1>1, <1>3, <1>4, <1>5, StartsRest DEF Kinds
<1>10. \A d \in Clients : Reached(d) => Reached(d)'
  BY <1>1, <1>4, <1>5, ReachGrows
<1>11. \A d \in Clients : HeardOK(d)'
  BY <1>1, <1>3, <1>4, <1>10 DEF TabsOK, HeardOK, Kinds
<1>12. \A d \in Clients : BannerOK(d)'
  BY <1>1, <1>2, BannersSettle
<1>13. QED
  BY <1>1, <1>4, <1>6, <1>8, <1>9, <1>11, <1>12 DEF IInv, TabsOK

LEMMA PromptTimesOutKeeps ==
    ASSUME IInv, NEW p \in Prompts, PromptTimesOut(p)
    PROVE  IInv'
<1>1. /\ Settle(p) /\ SeeResolved(p, bridge[asked[p]])
      /\ UNCHANGED <<bridge, open, toServer, held, mute, start, waiting, streaming, drops, booting, lost>>
  BY DEF PromptTimesOut
<1>2. ManagerOK /\ TabsOK
  BY DEF IInv
<1>3. UNCHANGED <<phase, by, current, runs, asked>>
  BY <1>1 DEF Settle
<1>4. ManagerOK'
  BY <1>1, <1>2, SettleKeeps
<1>5. banner' \in [Clients -> Prompts \cup {None}]
  BY <1>1 DEF IInv, TypeOK, SeeResolved
<1>6. TypeOK'
  BY <1>1, <1>4, <1>5 DEF IInv, TypeOK, ManagerOK
<1>7. \A d \in Clients : StartOK(d)' /\ HeldOK(d)' /\ HeardOK(d)'
  BY <1>1, <1>2, <1>3 DEF TabsOK, StartOK, Begun, HeldOK, HeardOK, Reached
<1>8. \A d \in Clients : BannerOK(d)'
  BY <1>1, BannersSettle
<1>9. QED
  BY <1>1, <1>2, <1>4, <1>6, <1>7, <1>8 DEF IInv, TabsOK

LEMMA HandleAbortKeeps ==
    ASSUME IInv, NEW c \in Clients, HandleAbort(c)
    PROVE  IInv'
<1>1. /\ Arrived(c, "abort") /\ Handled(c)
      /\ UNCHANGED <<open, held, mute, start, waiting, drops, booting, lost>>
  BY DEF HandleAbort
<1>2. /\ toServer' \in [Clients -> Seq(Commands)]
      /\ \A d \in Clients : \A name \in Kinds : Carries(toServer'[d], name) <=> Carries(toServer[d], name)
  BY <1>1, Handling DEF IInv, Kinds
<1>3. ManagerOK /\ TabsOK /\ waiting = start /\ Clients \ open \subseteq lost
  BY DEF IInv, TabsOK
<1>4. CASE /\ Abort /\ SeeEnd(Listeners(bridge))
           /\ banner' = [d \in Clients |->
                           IF \E p \in Ids(pending) \ Ids(pending') :
                                 banner[d] = p /\ d \in PromptListeners(p, bridge)
                           THEN None ELSE banner[d]]
  <2>1. ManagerOK' /\ \A j \in Instances : j # current => runs'[j] = runs[j]
    BY <1>3, <1>4, AbortKeeps
  <2>2. current # None /\ streaming' = streaming \ bridge[current]
        /\ UNCHANGED <<phase, by, current, bridge, asked>>
    BY <1>4 DEF Abort, SeeEnd, Listeners
  <2>3. \A d \in Clients : banner'[d] \in {None, banner[d]}
    BY <1>4
  <2>4. banner' \in [Clients -> Prompts \cup {None}]
    BY <1>4 DEF IInv, TypeOK
  <2>5. TypeOK'
    BY <1>1, <1>2, <2>1, <2>2, <2>4 DEF IInv, TypeOK, ManagerOK
  <2>6. \A d \in Clients : StartOK(d)' /\ HeldOK(d)'
    BY <1>1, <1>2, <1>3, <2>2, StartsRest DEF Kinds
  <2>7. \A d \in Clients : HeardOK(d)'
    BY <1>1, <1>2, <1>3, <2>1, <2>2 DEF TabsOK, HeardOK, Reached, Kinds
  <2>8. ASSUME NEW d \in Clients, banner'[d] # None, d \in open \ lost, asked[banner[d]] = current
        PROVE  banner[d] \in Ids(pending') /\ d \in bridge[current]
    <3>1. banner[d] \in Ids(pending) /\ d \in bridge[current]
      BY <1>3, <2>3, <2>8 DEF TabsOK, BannerOK
    <3>2. d \in PromptListeners(banner[d], bridge)
      BY <3>1, <2>8 DEF PromptListeners
    <3>3. QED
      BY <1>4, <2>8, <3>1, <3>2
  <2>9. \A d \in Clients : BannerOK(d)'
    BY <1>1, <1>3, <2>2, <2>3, <2>8 DEF TabsOK, BannerOK, Ids
  <2>10. QED
    BY <1>1, <1>3, <2>1, <2>5, <2>6, <2>7, <2>9 DEF IInv, TabsOK
<1>5. CASE UNCHANGED <<managed, streaming, banner>>
  <2>1. ManagerOK'
    BY <1>3, <1>5, ManagerRests
  <2>2. TypeOK'
    BY <1>1, <1>2, <1>5, <2>1 DEF IInv, TypeOK, ManagerOK
  <2>3. TabsOK'
    BY <1>1, <1>2, <1>3, <1>5 DEF TabsOK, Kinds, StartOK, Begun, HeardOK, Reached, HeldOK, BannerOK, Ids, managed
  <2>4. QED
    BY <2>1, <2>2, <2>3 DEF IInv
<1>6. QED
  BY <1>4, <1>5 DEF HandleAbort

LEMMA HandleResumeKeeps ==
    ASSUME IInv, NEW c \in Clients, HandleResume(c)
    PROVE  IInv'
<1>1. /\ Arrived(c, "resume") /\ Handled(c) /\ bridge' = WithSocket(c)
      /\ banner' = [banner EXCEPT ![c] = IF pending = {} THEN None ELSE Oldest(pending).id]
      /\ UNCHANGED <<phase, by, current, runs, pending, asked, overlapped,
                     open, held, mute, start, waiting, streaming, drops, booting, lost>>
  BY DEF HandleResume
<1>2. /\ toServer' \in [Clients -> Seq(Commands)]
      /\ \A d \in Clients : \A name \in Kinds : Carries(toServer'[d], name) <=> Carries(toServer[d], name)
  BY <1>1, Handling DEF IInv, Kinds
<1>3. ManagerOK /\ ManagerTypeOK /\ TabsOK /\ waiting = start /\ Clients \ open \subseteq lost
  BY DEF IInv, TabsOK, ManagerOK
<1>4. ManagerOK'
  BY <1>1, <1>3, AddingKeeps
<1>5. /\ \A d \in Clients : d # c => banner'[d] = banner[d]
      /\ banner'[c] # None => banner'[c] \in Ids(pending) /\ banner'[c] \in DOMAIN asked
      /\ banner' \in [Clients -> Prompts \cup {None}]
  <2>1. CASE pending = {}
    BY <1>1, <2>1 DEF IInv, TypeOK
  <2>2. CASE pending # {}
    <3> DEFINE e == Oldest(pending)
    <3>1. e \in pending
      BY <1>3, <2>2, OldestIsPending
    <3>2. banner' = [banner EXCEPT ![c] = e.id]
      BY <1>1, <2>2
    <3> HIDE DEF e
    <3>3. e.id \in Ids(pending) /\ e.id \in DOMAIN asked /\ e.id \in Prompts
      BY <1>3, <3>1 DEF Ids, ManagerOK, AskersKnown, ManagerTypeOK, Entries
    <3>4. QED
      BY <3>2, <3>3 DEF IInv, TypeOK
  <2>3. QED
    BY <2>1, <2>2
<1>6. TypeOK'
  BY <1>1, <1>2, <1>4, <1>5 DEF IInv, TypeOK, ManagerOK
<1>7. \A d \in Clients : StartOK(d)' /\ HeldOK(d)'
  BY <1>1, <1>2, <1>3, StartsRest DEF Kinds
<1>8. \A d \in Clients : Reached(d) => Reached(d)'
  BY <1>1, <1>3, ReachGrows
<1>9. \A d \in Clients : HeardOK(d)'
  BY <1>1, <1>2, <1>3, <1>8 DEF TabsOK, HeardOK, Kinds
<1>10. \A i \in Instances : bridge[i] \subseteq bridge'[i]
  BY <1>1, <1>3, SocketsAreAdded
<1>11. current # None => c \in bridge'[current]
  BY <1>1, <1>3, SocketsAreAdded, NoneIsApart
<1>12. \A p \in DOMAIN asked : asked[p] \in Instances /\ asked[p] # None
  BY <1>3, NoneIsApart DEF ManagerTypeOK
<1>13. \A d \in Clients : BannerOK(d)'
  BY <1>1, <1>3, <1>5, <1>10, <1>11, <1>12 DEF TabsOK, BannerOK, Ids
<1>14. QED
  BY <1>1, <1>3, <1>4, <1>6, <1>7, <1>9, <1>13 DEF IInv, TabsOK

LEMMA EndRunKeeps ==
    ASSUME IInv, NEW i \in Instances, EndRun(i)
    PROVE  IInv'
<1>1. /\ RunEnds(i) /\ streaming' = streaming \ bridge[i]
      /\ UNCHANGED <<open, toServer, held, mute, start, waiting, banner, drops, booting, lost>>
  BY DEF EndRun, SeeEnd
<1>2. ManagerOK /\ TabsOK
  BY DEF IInv
<1>3. ManagerOK' /\ \A j \in Instances : j # i => runs'[j] = runs[j]
  BY <1>1, <1>2, RunEndsKeeps
<1>4. UNCHANGED <<phase, by, current, bridge, pending, asked>>
  BY <1>1 DEF RunEnds
<1>5. TypeOK'
  BY <1>1, <1>3 DEF IInv, TypeOK, ManagerOK
<1>6. \A d \in Clients : StartOK(d)' /\ HeldOK(d)'
  BY <1>1, <1>2, <1>4, StartsRest
<1>7. \A d \in Clients : HeardOK(d)' /\ BannerOK(d)'
  BY <1>1, <1>2, <1>3, <1>4 DEF TabsOK, HeardOK, Reached, BannerOK, Ids
<1>8. QED
  BY <1>1, <1>2, <1>3, <1>5, <1>6, <1>7 DEF IInv, TabsOK

LEMMA AskUserKeeps ==
    ASSUME IInv, NEW i \in Instances, AskUser(i)
    PROVE  IInv'
<1>1. PICK kind \in {"text", "confirm"} : Ask(i, kind)
  BY DEF AskUser
<1> DEFINE n == Len(asked')
<1>2. /\ banner' = [c \in Clients |-> IF c \in bridge[i] THEN n ELSE banner[c]]
      /\ UNCHANGED <<open, toServer, held, mute, start, waiting, streaming, drops, booting, lost>>
  BY DEF AskUser
<1>3. ManagerOK /\ TabsOK
  BY DEF IInv
<1>4. /\ ManagerOK' /\ asked'[n] = i /\ n \in Prompts /\ n \in Ids(pending')
      /\ DOMAIN asked \subseteq DOMAIN asked' /\ n \in DOMAIN asked'
      /\ \A p \in DOMAIN asked : asked'[p] = asked[p]
      /\ pending \subseteq pending'
  <2>1. /\ ManagerOK' /\ asked'[n] = i /\ n \in Prompts /\ n \in Ids(pending')
        /\ DOMAIN asked \subseteq DOMAIN asked'
        /\ \A p \in DOMAIN asked : asked'[p] = asked[p]
        /\ pending \subseteq pending'
    BY <1>1, <1>3, AskKeeps
  <2>2. \A p \in Ids(pending') : p \in DOMAIN asked'
    BY <2>1 DEF ManagerOK, AskersKnown, Ids
  <2>3. QED
    BY <2>1, <2>2
<1> HIDE DEF n
<1>5. UNCHANGED <<phase, by, current, bridge, runs>>
  BY <1>1 DEF Ask
<1>6. TypeOK'
  BY <1>2, <1>4 DEF IInv, TypeOK, ManagerOK
<1>7. \A d \in Clients : StartOK(d)' /\ HeldOK(d)' /\ HeardOK(d)'
  BY <1>2, <1>3, <1>5 DEF TabsOK, StartOK, Begun, HeldOK, HeardOK, Reached
<1>8. Ids(pending) \subseteq Ids(pending')
  BY <1>4 DEF Ids
<1>9. ASSUME NEW d \in Clients PROVE BannerOK(d)'
  <2>1. CASE d \in bridge[i]
    BY <1>2, <1>4, <1>5, <2>1 DEF BannerOK, Ids
  <2>2. CASE d \notin bridge[i]
    <3>1. banner'[d] = banner[d]
      BY <1>2, <2>2
    <3>2. QED
      BY <1>2, <1>3, <1>4, <1>5, <1>8, <3>1 DEF TabsOK, BannerOK, Ids
  <2>3. QED
    BY <2>1, <2>2
<1>10. QED
  BY <1>2, <1>3, <1>4, <1>6, <1>7, <1>9 DEF IInv, TabsOK
-----------------------------------------------------------------------------
(******************************* the network *******************************)

LEMMA DropKeeps ==
    ASSUME IInv, NEW c \in Clients, Drop(c)
    PROVE  IInv'
<1>1. /\ drops < MaxDrops /\ drops' = drops + 1 /\ open' = open \ {c} /\ SocketClosed(c)
      /\ toServer' = [toServer EXCEPT ![c] = <<>>] /\ lost' = lost \cup {c}
      /\ mute' = IF held[c] = None THEN mute ELSE mute \cup {c}
      /\ UNCHANGED <<held, start, waiting, streaming, banner, booting>>
  BY DEF Drop
<1>2. ManagerOK /\ TabsOK
  BY DEF IInv
<1>3. ManagerOK'
  BY <1>1, <1>2, SocketClosedKeeps
<1>4. /\ bridge' = [i \in Instances |-> bridge[i] \ {c}]
      /\ by' = [i \in Instances |-> IF by[i] = c THEN None ELSE by[i]]
      /\ UNCHANGED <<phase, current, runs, pending, asked>>
  BY <1>1 DEF SocketClosed
<1>5. <<>> \in Seq(Commands) /\ drops' \in 0 .. MaxDrops
  BY <1>1, ChatBounds DEF IInv, TypeOK
<1>6. toServer' \in [Clients -> Seq(Commands)] /\ \A d \in Clients : d # c => toServer'[d] = toServer[d]
  BY <1>1, <1>5 DEF IInv, TypeOK
<1>7. TypeOK'
  BY <1>1, <1>3, <1>5, <1>6 DEF IInv, TypeOK, ManagerOK
<1>8. \A d \in Clients : held[d] \in Instances \cup {None}
  BY DEF IInv, TypeOK
<1>9. \A p \in DOMAIN asked : asked[p] \in Instances
  BY <1>2 DEF ManagerOK, ManagerTypeOK
<1>10. ASSUME NEW d \in Clients PROVE StartOK(d)' /\ HeardOK(d)' /\ HeldOK(d)' /\ BannerOK(d)'
  <2>1. CASE d = c
    <3>1. StartOK(c)' /\ HeardOK(c)'
      BY <1>1 DEF StartOK, HeardOK
    <3>2. HeldOK(c)' /\ BannerOK(c)'
      BY <1>1, <1>2, <1>4 DEF TabsOK, HeldOK, BannerOK
    <3>3. QED
      BY <2>1, <3>1, <3>2
  <2>2. CASE d # c
    <3>1. (Begun(d) => Begun(d)') /\ (Reached(d) => Reached(d)')
      BY <1>4, <2>2 DEF Begun, Reached
    <3>2. StartOK(d)' /\ HeardOK(d)'
      BY <1>1, <1>2, <1>6, <2>2, <3>1 DEF TabsOK, StartOK, HeardOK
    <3>3. HeldOK(d)'
      BY <1>1, <1>2, <1>4, <1>8, <2>2 DEF TabsOK, HeldOK
    <3>4. BannerOK(d)'
      BY <1>1, <1>2, <1>4, <1>9, <2>2 DEF TabsOK, BannerOK, Ids
    <3>5. QED
      BY <3>2, <3>3, <3>4
  <2>3. QED
    BY <2>1, <2>2
<1>11. waiting' = start' /\ Clients \ open' \subseteq lost'
  BY <1>1, <1>2 DEF TabsOK
<1>12. QED
  BY <1>3, <1>7, <1>10, <1>11 DEF IInv, TabsOK

LEMMA RestartKeeps ==
    ASSUME IInv, Restart
    PROVE  IInv'
<1>1. /\ drops < MaxDrops /\ drops' = drops + 1 /\ Crash /\ open' = {}
      /\ toServer' = [c \in Clients |-> <<>>] /\ held' = [c \in Clients |-> None] /\ mute' = {}
      /\ booting' = (\E i \in Instances : phase[i] \in {"live", "destroyed"})
      /\ lost' = Clients /\ UNCHANGED <<start, waiting, streaming, banner>>
  BY DEF Restart
<1>2. ManagerOK /\ TabsOK
  BY DEF IInv
<1>3. ManagerOK' /\ asked' = asked
  BY <1>1, <1>2, CrashKeeps DEF Crash
<1>4. <<>> \in Seq(Commands) /\ drops' \in 0 .. MaxDrops /\ booting' \in BOOLEAN
  <2>1. booting' \in BOOLEAN
    BY <1>1
  <2>2. drops' \in 0 .. MaxDrops
    BY <1>1, ChatBounds DEF IInv, TypeOK
  <2>3. QED
    BY <2>1, <2>2
<1>5. toServer' \in [Clients -> Seq(Commands)] /\ held' \in [Clients -> Instances \cup {None}]
  BY <1>1, <1>4
<1>6. TypeOK'
  BY <1>1, <1>3, <1>4, <1>5 DEF IInv, TypeOK, ManagerOK
<1>7. \A d \in Clients : StartOK(d)' /\ HeardOK(d)' /\ HeldOK(d)' /\ BannerOK(d)'
  BY <1>1, <1>2, <1>3 DEF TabsOK, StartOK, HeardOK, HeldOK, BannerOK
<1>8. waiting' = start' /\ Clients \ open' \subseteq lost'
  BY <1>1, <1>2 DEF TabsOK
<1>9. QED
  BY <1>3, <1>6, <1>7, <1>8 DEF IInv, TabsOK
-----------------------------------------------------------------------------
(******************************* the theorems ******************************)

LEMMA InitHolds == Init => IInv
<1> SUFFICES ASSUME Init PROVE IInv
  OBVIOUS
<1>1. ManagerOK
  BY ManagerStarts DEF Init
<1>2. <<>> \in Seq(Commands) /\ 0 \in 0 .. MaxDrops
  BY ChatBounds
<1>3. TypeOK
  BY <1>1, <1>2 DEF Init, TypeOK, ManagerOK
<1>4. TabsOK
  BY DEF Init, TabsOK, StartOK, HeardOK, HeldOK, BannerOK
<1>5. QED
  BY <1>1, <1>3, <1>4 DEF IInv

LEMMA NextKeeps == IInv /\ [Next]_vars => IInv'
<1> SUFFICES ASSUME IInv, [Next]_vars PROVE IInv'
  OBVIOUS
<1>1. ASSUME NEW c \in Clients, Tab(c) PROVE IInv'
  <2>1. CASE \E closed \in BOOLEAN : Leave(c, closed)
    BY <2>1, LeaveKeeps
  <2>2. QED
    BY <1>1, <2>1, SendKeeps, AnswerKeeps, StopKeeps, OpenedKeeps, ReconnectKeeps DEF Tab
<1>2. ASSUME NEW c \in Clients, Handle(c) PROVE IInv'
  BY <1>2, HandleStartKeeps, HoldKeeps, HandleDispatchKeeps, ContinueKeeps, HandleRespondKeeps,
     HandleAbortKeeps, HandleDestroyKeeps, HandleResumeKeeps DEF Handle
<1>3. ASSUME NEW i \in Instances, StartCompletes(i) \/ StartThrows(i) \/ EndRun(i) \/ AskUser(i) PROVE IInv'
  BY <1>3, StartCompletesKeeps, StartThrowsKeeps, EndRunKeeps, AskUserKeeps
<1>4. CASE UNCHANGED vars
  <2>1. ManagerOK'
    BY <1>4, ManagerRests DEF IInv, vars
  <2>2. TypeOK' /\ TabsOK'
    BY <1>4, <2>1 DEF IInv, TypeOK, ManagerOK, TabsOK, StartOK, Begun, HeardOK, Reached, HeldOK, BannerOK,
                      Ids, vars, tabs, managed
  <2>3. QED
    BY <2>1, <2>2 DEF IInv
<1>5. QED
  BY <1>1, <1>2, <1>3, <1>4, DropKeeps, PromptTimesOutKeeps, RestartKeeps, RestoreKeeps DEF Next

LEMMA Invariant == Spec => []IInv
<1>1. QED
  BY InitHolds, NextKeeps, PTL DEF Spec

\* Every value stays in its type: in particular start() only ever manages a started instance,
\* and the connection store never awaits a start that is not pending.
THEOREM TypesCorrect == Spec => []TypeOK
<1>1. IInv => TypeOK
  BY DEF IInv
<1>2. QED
  BY <1>1, Invariant, PTL

\* A deferred in pendingStarts has its start on the way, or being awaited by the server, unless
\* the tab was cut off: no error, abort or destroy of another tab leaves one that nothing settles.
THEOREM StartsAreSettled == Spec => []StartsAnswered
<1>1. IInv => StartsAnswered
  BY DEF IInv, TabsOK, StartOK, Begun, Carries, StartsAnswered, IsStart, MyStarts, Starting, TypeOK
<1>2. QED
  BY <1>1, Invariant, PTL

\* A streaming tab that is not cut off has its socket in the bridge of an instance with a run to
\* end, whatever the other tabs start, destroy, abort or answer meanwhile.
THEOREM WaitersAreReached == Spec => []WaiterHears
<1>1. IInv => WaiterHears
  BY Awaiting DEF IInv, TabsOK, HeardOK, Reached, WaiterHears
<1>2. QED
  BY <1>1, Invariant, PTL

\* start() leaves an unmanaged instance running only when two calls of it awaited at once.
THEOREM StraysOverlapped == Spec => []StrayNeedsOverlap
<1>1. IInv => StrayNeedsOverlap
  BY DEF IInv, ManagerOK
<1>2. QED
  BY <1>1, Invariant, PTL

\* The registry never holds a prompt of an instance without runs, through every abort, destroy,
\* restart and overlapping start: the next chat message is not taken for an answer to nobody.
THEOREM PromptsHaveRuns == Spec => []NoOrphanPrompt
<1>1. IInv => NoOrphanPrompt
  BY DEF IInv, ManagerOK
<1>2. QED
  BY <1>1, Invariant, PTL

\* A connected tab's banner shows a pending prompt, unless the instance that asked is no longer
\* the managed one: answers, aborts and timeouts reach every tab that was shown the prompt.
THEOREM BannersAreTrue == Spec => []BannerTruth
<1>1. IInv => BannerTruth
  BY DEF IInv, TabsOK, BannerOK, BannerTruth, TypeOK
<1>2. QED
  BY <1>1, Invariant, PTL
=============================================================================
