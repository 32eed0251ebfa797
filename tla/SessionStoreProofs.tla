------------------------- MODULE SessionStoreProofs -------------------------
(***************************************************************************)
(* No change of the session index is lost, and no entry of it is without   *)
(* its transcript, for any number of callers, keys, operations and         *)
(* crashes, when all callers use one engine and no other work comes        *)
(* between a read of the file and its use.                                 *)
(***************************************************************************)
EXTENDS SessionStore, TLAPS

Fields == {"key", "change", "raw", "next", "todo", "victim", "spared", "plan"}

IsCall(x) == DOMAIN x = Fields /\ x = [f \in Fields |-> x[f]] /\ x.plan \in Seq(Stages)

Typed ==
    /\ at \in [Callers -> Places]
    /\ DOMAIN me = Callers /\ me = [c \in Callers |-> me[c]]
    /\ \A c \in Callers : IsCall(me[c])
    /\ DOMAIN cache = Engines /\ cache = [e \in Engines |-> cache[e]]
    /\ DOMAIN lock = Engines /\ lock = [e \in Engines |-> lock[e]]

\* A cache is empty or up to date, and only the engine in use has one.
CachesAgree == \A e \in Engines : cache[e] # Unread =>
                   cache[e] = disk /\ \E c \in Callers : e = EngineOf[c]

\* What has been fetched is still what is in the file.
FetchesAgree == \A c \in Callers : Fetching(c) => me[c].raw = disk

\* Whoever writes has the lock, and writes what its change makes of the file.
WritesAgree == \A c \in Callers : at[c] = "write" =>
                   lock[EngineOf[c]] = c /\ me[c].next = Apply(me[c].change, disk)

IInv == Typed /\ UpdatesKept /\ CachesAgree /\ FetchesAgree /\ WritesAgree

\* What the theorems assume of the callers: the two counterexamples of the README lack one each.
SameEngine == \A c, d \in Callers : EngineOf[c] = EngineOf[d]
Undisturbed == ReadsOverlap = FALSE
-----------------------------------------------------------------------------
LEMMA NewCallIsCall == IsCall(NewCall) /\ NewCall.raw = Unread
<1>1. DOMAIN NewCall = Fields
  BY DEF NewCall, Fields
<1>2. NewCall = [f \in Fields |-> NewCall[f]]
  BY DEF NewCall, Fields
<1>3. NewCall.plan \in Seq(Stages) /\ NewCall.raw = Unread
  BY DEF NewCall
<1>4. QED
  BY <1>1, <1>2, <1>3 DEF IsCall

\* The caller goes to a place where it does not write.
Moves(c) == \E place \in Places \ {"write"} : \E locals : IsCall(locals) /\ Go(c, place, locals)

LEMMA GoTyped ==
    ASSUME Typed, NEW c \in Callers, NEW place \in Places, NEW locals, IsCall(locals),
           Go(c, place, locals)
    PROVE  /\ at' \in [Callers -> Places] /\ at'[c] = place
           /\ DOMAIN me' = Callers /\ me' = [d \in Callers |-> me'[d]]
           /\ \A d \in Callers : IsCall(me'[d])
           /\ me'[c].raw = Unread
           /\ me'[c].next = locals.next /\ me'[c].change = locals.change
           /\ me'[c].key = locals.key /\ me'[c].todo = locals.todo /\ me'[c].victim = locals.victim
           /\ \A d \in Callers \ {c} : me'[d] = me[d] /\ at'[d] = at[d]
<1> DEFINE x == [locals EXCEPT !.raw = Unread]
<1>1. /\ IsCall(x) /\ x.raw = Unread /\ x.next = locals.next /\ x.change = locals.change
      /\ x.key = locals.key /\ x.todo = locals.todo /\ x.victim = locals.victim
  BY DEF IsCall, Fields
<1>2. at' = [at EXCEPT ![c] = place] /\ me' = [me EXCEPT ![c] = x]
  BY DEF Go
<1> HIDE DEF x
<1>3. /\ at' \in [Callers -> Places] /\ at'[c] = place
      /\ \A d \in Callers \ {c} : at'[d] = at[d]
  BY <1>2 DEF Typed
<1>4. /\ DOMAIN me' = Callers /\ me' = [d \in Callers |-> me'[d]] /\ me'[c] = x
      /\ \A d \in Callers \ {c} : me'[d] = me[d]
  BY <1>2 DEF Typed
<1>5. \A d \in Callers : IsCall(me'[d])
  BY <1>1, <1>4 DEF Typed
<1>6. QED
  BY <1>1, <1>3, <1>4, <1>5

\* The end of a part of an operation writes nothing.
LEMMA ProceedMoves ==
    ASSUME NEW c \in Callers, NEW todo, NEW plan \in Seq(Stages), ProceedWith(c, todo, plan)
    PROVE  Moves(c)
<1>1. ASSUME NEW k \in todo,
             Go(c, "enter", [NewCall EXCEPT !.todo = todo \ {k}, !.plan = plan,
                                            !.change = Change("drop", k, None, 0)])
      PROVE  Moves(c)
  <2> DEFINE x == [NewCall EXCEPT !.todo = todo \ {k}, !.plan = plan,
                                  !.change = Change("drop", k, None, 0)]
  <2>1. IsCall(x)
    BY NewCallIsCall DEF IsCall, Fields
  <2>2. "enter" \in Places \ {"write"}
    BY DEF Places, Stages
  <2>3. Go(c, "enter", x)
    BY <1>1
  <2> HIDE DEF x
  <2>4. QED
    BY <2>1, <2>2, <2>3 DEF Moves
<1>2. ASSUME plan # <<>>, Go(c, Head(plan), [NewCall EXCEPT !.plan = Tail(plan)])
      PROVE  Moves(c)
  <2> DEFINE x == [NewCall EXCEPT !.plan = Tail(plan)]
  <2>1. IsCall(x)
    <3>1. Tail(plan) \in Seq(Stages)
      BY <1>2
    <3>2. QED
      BY <3>1, NewCallIsCall DEF IsCall, Fields
  <2>2. Head(plan) \in Stages
    BY <1>2
  <2>3. Head(plan) \in Places \ {"write"}
    BY <2>2 DEF Places, Stages
  <2>4. Go(c, Head(plan), x)
    BY <1>2
  <2> HIDE DEF x
  <2>5. QED
    BY <2>1, <2>3, <2>4 DEF Moves
<1>3. ASSUME End(c) PROVE Moves(c)
  <2>1. "idle" \in Places \ {"write"}
    BY DEF Places, Stages
  <2>2. QED
    BY <1>3, <2>1, NewCallIsCall DEF Moves, End
<1>4. QED
  BY <1>1, <1>2, <1>3 DEF ProceedWith

\* What a caller has in its hands when it looks at the index is the index.
LEMMA StoreIsDisk ==
    ASSUME IInv, NEW c \in Callers, MayRead(c)
    PROVE  Store(c) = disk
BY SessionStoreAssumption DEF IInv, CachesAgree, FetchesAgree, MayRead, Store

\* A step that leaves the file alone, after which the caller does not write, and which takes the
\* lock from nobody else.
LEMMA MovingStep ==
    ASSUME IInv, NEW c \in Callers, Moves(c), UNCHANGED <<disk, intended>>,
           UNCHANGED cache \/ (MayRead(c) /\ Cached(c)),
           \/ UNCHANGED lock
           \/ /\ Holds(c) \/ lock[EngineOf[c]] = c
              /\ lock' = [lock EXCEPT ![EngineOf[c]] = None]
    PROVE  IInv'
<1>1. PICK place \in Places \ {"write"} : \E locals : IsCall(locals) /\ Go(c, place, locals)
  BY DEF Moves
<1>2. PICK locals : IsCall(locals) /\ Go(c, place, locals)
  BY <1>1
<1>3. /\ at' \in [Callers -> Places] /\ at'[c] = place
      /\ DOMAIN me' = Callers /\ me' = [d \in Callers |-> me'[d]]
      /\ \A d \in Callers : IsCall(me'[d])
      /\ me'[c].raw = Unread
      /\ \A d \in Callers \ {c} : me'[d] = me[d] /\ at'[d] = at[d]
  BY <1>1, <1>2, GoTyped DEF IInv
<1>4. EngineOf[c] \in Engines /\ None \notin Callers
  BY SessionStoreAssumption
<1>5. /\ DOMAIN cache' = Engines /\ cache' = [e \in Engines |-> cache'[e]]
      /\ \A e \in Engines : cache'[e] = cache[e] \/ (cache'[e] = disk /\ e = EngineOf[c])
  BY <1>4, StoreIsDisk DEF IInv, Typed, Cached
<1>6. /\ DOMAIN lock' = Engines /\ lock' = [e \in Engines |-> lock'[e]]
      /\ \A d \in Callers \ {c} : lock[EngineOf[d]] = d => lock'[EngineOf[d]] = d
  BY <1>4, SessionStoreAssumption DEF IInv, Typed, Holds
<1>7. Typed' /\ UpdatesKept'
  BY <1>3, <1>5, <1>6 DEF IInv, Typed, UpdatesKept
<1>8. CachesAgree'
  BY <1>5 DEF IInv, CachesAgree
<1>9. FetchesAgree'
  BY <1>3 DEF IInv, FetchesAgree, Fetching
<1>10. WritesAgree'
  BY <1>1, <1>3, <1>6 DEF IInv, WritesAgree
<1>11. QED
  BY <1>7, <1>8, <1>9, <1>10 DEF IInv
-----------------------------------------------------------------------------
\* The steps of a caller.

\* Those that go from place to place.
LEMMA PlainStep ==
    ASSUME IInv, NEW c \in Callers,
           \/ Begin(c) \/ Route(c) \/ Reset(c) \/ CreateTranscript(c) \/ Status(c) \/ Turn(c)
           \/ Clear(c) \/ Unlink(c) \/ Retain(c) \/ Prune(c) \/ LookForOrphans(c) \/ Scan(c)
           \/ Fails(c)
    PROVE  IInv'
<1>1. IsCall(me[c]) /\ me[c].plan \in Seq(Stages) /\ IsCall(NewCall)
  BY NewCallIsCall DEF IInv, Typed, IsCall
<1>2. Moves(c)
  <2>1. Places \ {"write"} = Stages \cup {"idle", "route", "reset", "status", "clear", "turn",
                                          "fresh", "forked", "enter", "unlink", "scan"}
    BY DEF Places, Stages
  <2>2. \A place \in Places \ {"write"} : \A x : IsCall(x) /\ Go(c, place, x) => Moves(c)
    BY DEF Moves
  <2>3. End(c) => Moves(c)
    BY <1>1, <2>1, <2>2 DEF End
  <2>4. CASE Begin(c)
    <3>1. ASSUME NEW k \in Keys, NEW place \in {"route", "reset", "status", "clear"},
                 Go(c, place, [NewCall EXCEPT !.key = k])
          PROVE  Moves(c)
      <4>1. IsCall([NewCall EXCEPT !.key = k])
        BY <1>1 DEF IsCall, Fields
      <4>2. QED
        BY <2>1, <2>2, <3>1, <4>1
    <3>2. ASSUME NEW k \in Keys,
                 Go(c, "enter", [NewCall EXCEPT !.change = Change("drop", k, None, 0)])
          PROVE  Moves(c)
      <4>1. IsCall([NewCall EXCEPT !.change = Change("drop", k, None, 0)])
        BY <1>1 DEF IsCall, Fields
      <4>2. QED
        BY <2>1, <2>2, <3>2, <4>1
    <3>3. CASE Go(c, "prune", NewCall)
      BY <1>1, <2>1, <2>2, <3>3 DEF Stages
    <3>4. ASSUME NEW plan \in Seq(Stages), Go(c, "prune", [NewCall EXCEPT !.plan = plan])
          PROVE  Moves(c)
      <4>1. IsCall([NewCall EXCEPT !.plan = plan])
        BY <1>1 DEF IsCall, Fields
      <4>2. "prune" \in Places \ {"write"}
        BY <2>1 DEF Stages
      <4>3. QED
        BY <2>2, <3>4, <4>1, <4>2
    <3>5. <<"orphans", "prune", "rotate", "orphans", "prune">> \in Seq(Stages)
      BY DEF Stages
    <3>6. QED
      BY <2>4, <3>1, <3>2, <3>3, <3>4, <3>5 DEF Begin
  <2>5. CASE Route(c)
    <3>1. IsCall([me[c] EXCEPT !.plan = <<"retain">>])
      <4>1. <<"retain">> \in Seq(Stages)
        BY DEF Stages
      <4>2. QED
        BY <1>1, <4>1 DEF IsCall, Fields
    <3>2. \/ Go(c, "fresh", [me[c] EXCEPT !.plan = <<"retain">>])
          \/ Go(c, "reset", me[c]) \/ End(c)
      BY <2>5 DEF Route
    <3>3. QED
      BY <1>1, <2>1, <2>2, <2>3, <3>1, <3>2
  <2>6. CASE Reset(c)
    <3>1. Go(c, "fresh", me[c]) \/ Go(c, "forked", me[c])
      BY <2>6 DEF Reset
    <3>2. QED
      BY <1>1, <2>1, <2>2, <3>1
  <2>7. CASE CreateTranscript(c)
    <3>1. PICK change : Go(c, "enter", [me[c] EXCEPT !.change = change])
      BY <2>7 DEF CreateTranscript
    <3>2. IsCall([me[c] EXCEPT !.change = change])
      BY <1>1 DEF IsCall, Fields
    <3>3. QED
      BY <2>1, <2>2, <3>1, <3>2
  <2>8. CASE Status(c)
    <3>1. \/ End(c)
          \/ \E change : Go(c, "turn", [me[c] EXCEPT !.change = change])
      BY <2>8 DEF Status
    <3>2. \A change : IsCall([me[c] EXCEPT !.change = change])
      BY <1>1 DEF IsCall, Fields
    <3>3. QED
      BY <2>1, <2>2, <2>3, <3>1, <3>2
  <2>9. CASE Turn(c)
    <3>1. End(c) \/ Go(c, "enter", me[c])
      BY <2>9 DEF Turn
    <3>2. QED
      BY <1>1, <2>1, <2>2, <2>3, <3>1
  <2>10. CASE Clear(c)
    <3>1. \/ End(c)
          \/ \E change : Go(c, "enter", [me[c] EXCEPT !.change = change])
      BY <2>10 DEF Clear
    <3>2. \A change : IsCall([me[c] EXCEPT !.change = change])
      BY <1>1 DEF IsCall, Fields
    <3>3. QED
      BY <2>1, <2>2, <2>3, <3>1, <3>2
  <2>11. CASE Unlink(c) \/ Scan(c)
    BY <1>1, <2>11, ProceedMoves DEF Unlink, Scan, Proceed
  <2>12. CASE Retain(c)
    BY <1>1, <2>12, ProceedMoves DEF Retain, Proceed
  <2>13. CASE Prune(c)
    BY <1>1, <2>13, ProceedMoves DEF Prune
  <2>14. CASE LookForOrphans(c)
    <3>1. PICK spared : Go(c, "scan", [me[c] EXCEPT !.spared = spared])
      BY <2>14 DEF LookForOrphans
    <3>2. IsCall([me[c] EXCEPT !.spared = spared])
      BY <1>1 DEF IsCall, Fields
    <3>3. QED
      BY <2>1, <2>2, <3>1, <3>2
  <2>15. CASE Fails(c)
    BY <2>3, <2>15 DEF Fails
  <2>16. QED
    BY <2>4, <2>5, <2>6, <2>7, <2>8, <2>9, <2>10, <2>11, <2>12, <2>13, <2>14, <2>15
<1>3. UNCHANGED <<disk, intended>>
  BY DEF Begin, Route, Reset, CreateTranscript, Status, Turn, Clear, Unlink, Retain, Prune,
     LookForOrphans, Scan, Fails, Looks, index
<1>4. UNCHANGED cache \/ (MayRead(c) /\ Cached(c))
  BY DEF Begin, Route, Reset, CreateTranscript, Status, Turn, Clear, Unlink, Retain, Prune,
     LookForOrphans, Scan, Fails, Looks, index
<1>5. \/ UNCHANGED lock
      \/ lock[EngineOf[c]] = c /\ lock' = [lock EXCEPT ![EngineOf[c]] = None]
  BY DEF Begin, Route, Reset, CreateTranscript, Status, Turn, Clear, Unlink, Retain, Prune,
     LookForOrphans, Scan, Fails, Looks, index
<1>6. QED
  BY <1>2, <1>3, <1>4, <1>5, MovingStep

LEMMA FetchStep ==
    ASSUME IInv, NEW c \in Callers, Fetch(c)
    PROVE  IInv'
<1>1. /\ at[c] # "write" /\ UNCHANGED <<disk, cache, intended, at>>
      /\ me' = [me EXCEPT ![c].raw = disk]
  BY DEF Fetch, Reading
<1>2. /\ DOMAIN lock' = Engines /\ lock' = [e \in Engines |-> lock'[e]]
      /\ \A d \in Callers \ {c} : lock[EngineOf[d]] = d => lock'[EngineOf[d]] = d
  BY SessionStoreAssumption DEF Fetch, IInv, Typed
<1> DEFINE x == [me[c] EXCEPT !.raw = disk]
<1>3. IsCall(x) /\ x.raw = disk
  BY DEF IInv, Typed, IsCall, Fields
<1>4. me' = [me EXCEPT ![c] = x]
  BY <1>1 DEF IInv, Typed
<1> HIDE DEF x
<1>5. /\ DOMAIN me' = Callers /\ me' = [d \in Callers |-> me'[d]] /\ me'[c] = x
      /\ \A d \in Callers \ {c} : me'[d] = me[d]
  BY <1>4 DEF IInv, Typed
<1>6. \A d \in Callers : IsCall(me'[d])
  BY <1>3, <1>5 DEF IInv, Typed
<1>7. Typed' /\ UpdatesKept' /\ CachesAgree'
  BY <1>1, <1>2, <1>5, <1>6 DEF IInv, Typed, UpdatesKept, CachesAgree
<1>8. FetchesAgree'
  BY <1>1, <1>3, <1>5 DEF IInv, FetchesAgree, Fetching
<1>9. WritesAgree'
  BY <1>1, <1>2, <1>5 DEF IInv, WritesAgree
<1>10. QED
  BY <1>7, <1>8, <1>9 DEF IInv

\* A caller begins to write: it takes the lock, which nobody else has.
LEMMA WritingStep ==
    ASSUME IInv, NEW c \in Callers, NEW x, IsCall(x), Go(c, "write", x), Holds(c),
           lock' = [lock EXCEPT ![EngineOf[c]] = c],
           UNCHANGED <<disk, intended>>, MayRead(c), Cached(c),
           x.next = Apply(x.change, disk)
    PROVE  IInv'
<1>1. /\ at' \in [Callers -> Places] /\ at'[c] = "write"
      /\ DOMAIN me' = Callers /\ me' = [d \in Callers |-> me'[d]]
      /\ \A d \in Callers : IsCall(me'[d])
      /\ me'[c].raw = Unread /\ me'[c].next = x.next /\ me'[c].change = x.change
      /\ \A d \in Callers \ {c} : me'[d] = me[d] /\ at'[d] = at[d]
  <2>1. "write" \in Places
    BY DEF Places
  <2>2. QED
    BY <2>1, GoTyped DEF IInv
<1>2. EngineOf[c] \in Engines /\ None \notin Callers
  BY SessionStoreAssumption
<1>3. /\ DOMAIN cache' = Engines /\ cache' = [e \in Engines |-> cache'[e]]
      /\ \A e \in Engines : cache'[e] = cache[e] \/ (cache'[e] = disk /\ e = EngineOf[c])
  BY <1>2, StoreIsDisk DEF IInv, Typed, Cached
<1>4. /\ DOMAIN lock' = Engines /\ lock' = [e \in Engines |-> lock'[e]]
      /\ lock'[EngineOf[c]] = c
      /\ \A d \in Callers \ {c} : lock[EngineOf[d]] = d => lock'[EngineOf[d]] = d
  BY <1>2, SessionStoreAssumption DEF IInv, Typed, Holds
<1>5. Typed' /\ UpdatesKept' /\ CachesAgree' /\ FetchesAgree'
  BY <1>1, <1>3, <1>4 DEF IInv, Typed, UpdatesKept, CachesAgree, FetchesAgree, Fetching
<1>6. WritesAgree'
  BY <1>1, <1>4 DEF IInv, WritesAgree
<1>7. QED
  BY <1>5, <1>6 DEF IInv

LEMMA EnterStep ==
    ASSUME IInv, NEW c \in Callers, Enter(c)
    PROVE  IInv'
<1> DEFINE change == me[c].change
<1>1. /\ MayRead(c) /\ Holds(c) /\ Cached(c) /\ UNCHANGED disk /\ change.kind # "rotate"
      /\ IsCall(me[c])
  BY DEF Enter, IInv, Typed
<1>2. Store(c) = disk
  BY <1>1, StoreIsDisk
<1>3. CASE change.kind # "put" /\ disk[change.key] = None
  <2>1. /\ Proceed(c) /\ lock' = [lock EXCEPT ![EngineOf[c]] = None]
        /\ intended' = Apply(change, intended)
    BY <1>2, <1>3 DEF Enter
  <2>2. Apply(change, intended) = intended
    BY <1>1, <1>3 DEF Apply, IInv, UpdatesKept
  <2>3. Moves(c)
    BY <1>1, <2>1, ProceedMoves DEF Proceed, IsCall
  <2>4. QED
    BY <1>1, <2>1, <2>2, <2>3, MovingStep
<1>4. CASE ~(change.kind # "put" /\ disk[change.key] = None)
  <2>1. PICK victim : /\ Go(c, "write", [me[c] EXCEPT !.next = Apply(change, disk),
                                                      !.victim = victim])
                      /\ lock' = [lock EXCEPT ![EngineOf[c]] = c]
                      /\ UNCHANGED intended
    BY <1>2, <1>4 DEF Enter
  <2> DEFINE x == [me[c] EXCEPT !.next = Apply(change, disk), !.victim = victim]
  <2>2. IsCall(x) /\ x.change = change /\ x.next = Apply(change, disk)
    BY <1>1 DEF IsCall, Fields
  <2>3. Go(c, "write", x)
    BY <2>1
  <2> HIDE DEF x
  <2>4. x.next = Apply(x.change, disk)
    BY <2>2
  <2>5. QED
    BY <1>1, <2>1, <2>2, <2>3, <2>4, WritingStep
<1>5. QED
  BY <1>3, <1>4

\* Who changes the file is alone with it: nobody has read it and not used it, nobody else writes.
LEMMA AloneWithFile ==
    ASSUME IInv, SameEngine, Undisturbed, NEW c \in Callers, Alone(c),
           lock[EngineOf[c]] \in {c, None}
    PROVE  \A d \in Callers \ {c} : ~Fetching(d) /\ at[d] # "write"
BY SessionStoreAssumption DEF IInv, WritesAgree, SameEngine, Undisturbed, Alone

LEMMA RotateStep ==
    ASSUME IInv, SameEngine, Undisturbed, NEW c \in Callers, Alone(c), Rotate(c)
    PROVE  IInv'
<1> DEFINE e == EngineOf[c]
<1>1. CASE Proceed(c) /\ UNCHANGED <<index, folder, bounds>>
  <2>1. Moves(c)
    BY <1>1, ProceedMoves DEF Proceed, IInv, Typed, IsCall
  <2>2. QED
    BY <1>1, <2>1, MovingStep DEF index
<1>2. CASE /\ lock[e] = None
           /\ lock' = [lock EXCEPT ![e] = c]
           /\ disk' = Empty /\ intended' = Empty
           /\ cache' = [cache EXCEPT ![e] = Unread]
           /\ Go(c, "write", [me[c] EXCEPT !.next = Empty,
                                           !.change = Change("rotate", None, None, 0)])
  <2> DEFINE x == [me[c] EXCEPT !.next = Empty, !.change = Change("rotate", None, None, 0)]
  <2>1. IsCall(x) /\ x.next = Empty /\ x.change = Change("rotate", None, None, 0)
    BY DEF IInv, Typed, IsCall, Fields
  <2>2. Go(c, "write", x)
    BY <1>2
  <2> HIDE DEF x
  <2>3. /\ at' \in [Callers -> Places] /\ at'[c] = "write"
        /\ DOMAIN me' = Callers /\ me' = [d \in Callers |-> me'[d]]
        /\ \A d \in Callers : IsCall(me'[d])
        /\ me'[c].raw = Unread /\ me'[c].next = x.next /\ me'[c].change = x.change
        /\ \A d \in Callers \ {c} : me'[d] = me[d] /\ at'[d] = at[d]
    <3>1. "write" \in Places
      BY DEF Places
    <3>2. QED
      BY <3>1, <2>1, <2>2, GoTyped DEF IInv
  <2>4. \A d \in Callers \ {c} : ~Fetching(d) /\ at[d] # "write"
    BY <1>2, AloneWithFile
  <2>5. Apply(x.change, Empty) = Empty
    BY <2>1 DEF Apply, Change
  <2>6. e \in Engines
    BY SessionStoreAssumption
  <2>7. \A g \in Engines : cache'[g] = Unread
    <3>1. \A g \in Engines : cache[g] # Unread => g = e
      BY DEF IInv, CachesAgree, SameEngine
    <3>2. cache' = [cache EXCEPT ![e] = Unread] /\ DOMAIN cache = Engines
      BY <1>2 DEF IInv, Typed
    <3> HIDE DEF e
    <3>3. QED
      BY <2>6, <3>1, <3>2
  <2>8. Typed' /\ UpdatesKept'
    BY <1>2, <2>3 DEF IInv, Typed, UpdatesKept
  <2>9. CachesAgree' /\ FetchesAgree'
    BY <2>3, <2>4, <2>7 DEF CachesAgree, FetchesAgree, Fetching
  <2>10. WritesAgree'
    BY <1>2, <2>1, <2>3, <2>4, <2>5, <2>6 DEF IInv, Typed, WritesAgree
  <2>11. QED
    BY <2>8, <2>9, <2>10 DEF IInv
<1>3. QED
  BY <1>1, <1>2 DEF Rotate

LEMMA WrittenStep ==
    ASSUME IInv, SameEngine, Undisturbed, NEW c \in Callers, Alone(c), Written(c)
    PROVE  IInv'
<1> DEFINE e == EngineOf[c]
<1>1. /\ at[c] = "write" /\ disk' = me[c].next
      /\ cache' = [cache EXCEPT ![e] = me[c].next]
      /\ intended' = Apply(me[c].change, intended)
      /\ lock' = [lock EXCEPT ![e] = None]
  BY DEF Written
<1>2. lock[e] = c /\ me[c].next = Apply(me[c].change, disk) /\ e \in Engines
  BY <1>1, SessionStoreAssumption DEF IInv, WritesAgree
<1>3. Moves(c)
  <2>1. CASE Proceed(c)
    BY <2>1, ProceedMoves DEF Proceed, IInv, Typed, IsCall
  <2>2. CASE Go(c, "unlink", [me[c] EXCEPT !.next = None, !.change = None])
    <3>1. IsCall([me[c] EXCEPT !.next = None, !.change = None])
      BY DEF IInv, Typed, IsCall, Fields
    <3>2. "unlink" \in Places \ {"write"}
      BY DEF Places, Stages
    <3>3. QED
      BY <2>2, <3>1, <3>2 DEF Moves
  <2>3. QED
    BY <2>1, <2>2 DEF Written
<1>4. PICK place \in Places \ {"write"} : \E locals : IsCall(locals) /\ Go(c, place, locals)
  BY <1>3 DEF Moves
<1>5. /\ at' \in [Callers -> Places] /\ at'[c] # "write"
      /\ DOMAIN me' = Callers /\ me' = [d \in Callers |-> me'[d]]
      /\ \A d \in Callers : IsCall(me'[d])
      /\ me'[c].raw = Unread
      /\ \A d \in Callers \ {c} : me'[d] = me[d] /\ at'[d] = at[d]
  BY <1>4, GoTyped DEF IInv
<1>6. \A d \in Callers \ {c} : ~Fetching(d) /\ at[d] # "write"
  BY <1>2, AloneWithFile
<1>7. \A g \in Engines : cache'[g] # Unread => cache'[g] = disk' /\ g = e
  BY <1>1, <1>2 DEF IInv, Typed, CachesAgree, SameEngine
<1>8. Typed' /\ UpdatesKept'
  BY <1>1, <1>2, <1>5 DEF IInv, Typed, UpdatesKept
<1>9. CachesAgree' /\ FetchesAgree' /\ WritesAgree'
  BY <1>5, <1>6, <1>7 DEF CachesAgree, FetchesAgree, Fetching, WritesAgree
<1>10. QED
  BY <1>8, <1>9 DEF IInv

LEMMA CrashStep ==
    ASSUME IInv, Crash
    PROVE  IInv'
<1>1. "idle" \in Places /\ "idle" # "write"
  BY DEF Places
<1>2. Typed' /\ UpdatesKept'
  BY <1>1, NewCallIsCall DEF IInv, Typed, UpdatesKept, Crash
<1>3. CachesAgree' /\ FetchesAgree' /\ WritesAgree'
  BY <1>1, NewCallIsCall DEF CachesAgree, FetchesAgree, Fetching, WritesAgree, Crash
<1>4. QED
  BY <1>2, <1>3 DEF IInv
-----------------------------------------------------------------------------
LEMMA InitInvariant == Init => IInv
<1> SUFFICES ASSUME Init PROVE IInv
  OBVIOUS
<1>1. "idle" \in Places /\ "idle" # "write"
  BY DEF Places
<1>2. Typed /\ UpdatesKept
  BY <1>1, NewCallIsCall DEF Init, Typed, UpdatesKept
<1>3. CachesAgree /\ FetchesAgree /\ WritesAgree
  BY <1>1, NewCallIsCall DEF Init, CachesAgree, FetchesAgree, Fetching, WritesAgree
<1>4. QED
  BY <1>2, <1>3 DEF IInv

LEMMA StepInvariant ==
    ASSUME SameEngine, Undisturbed, IInv, [Next]_vars
    PROVE  IInv'
<1>1. CASE UNCHANGED vars
  BY <1>1 DEF vars, index, folder, bounds, IInv, Typed, UpdatesKept, CachesAgree, FetchesAgree,
     Fetching, WritesAgree
<1>2. CASE Crash
  BY <1>2, CrashStep
<1>3. ASSUME NEW c \in Callers, Step(c) \/ Begin(c)
      PROVE  IInv'
  BY <1>3, PlainStep, FetchStep, EnterStep, RotateStep, WrittenStep DEF Step
<1>4. QED
  BY <1>1, <1>2, <1>3 DEF Next

\* "All read-modify-write mutations are serialized [...] so concurrent sessions can't clobber each
\* other's metadata (lost update)": the index is what all changes make of it one after the other,
\* for callers of one engine whose reads of the file nothing overlaps.
THEOREM NoUpdateIsLost ==
    ASSUME SameEngine, Undisturbed
    PROVE  Spec => []UpdatesKept
<1>1. Init => IInv
  BY InitInvariant
<1>2. IInv /\ [Next]_vars => IInv'
  BY StepInvariant
<1>3. IInv => UpdatesKept
  BY DEF IInv
<1>4. QED
  BY <1>1, <1>2, <1>3, PTL DEF Spec
-----------------------------------------------------------------------------
(***************************************************************************)
(* Transcripts.  An entry's transcript stays in the directory because a    *)
(* name is given once, and because a caller that unlinks one has taken it  *)
(* out of an index nobody else was changing.                               *)
(***************************************************************************)

\* A transcript of the key's own.
Named(file, k, m) == file \in Transcripts /\ file[1] = k /\ file[2] <= m[k]

\* The index is well typed, and no two entries share a transcript.
EntriesOwn ==
    /\ made \in [Keys -> Nat]
    /\ disk \in Stores
    /\ \A k \in Keys : disk[k] # None => Named(disk[k].file, k, made)

ChangeOK(change) ==
    \/ change.kind = "rotate"
    \/ change.kind = "drop" /\ change.key \in Keys
    \/ change.kind = "totals" /\ change.key \in Keys /\ change.total \in Nat
    \/ change.kind \in {"put", "reset"} /\ change.key \in Keys /\ change.file \in Transcripts

\* What a caller at this place has in its locals.
LocalsOK(place, x) ==
    /\ x.todo \subseteq Keys
    /\ place \in {"route", "reset", "status", "clear", "fresh", "forked"} => x.key \in Keys
    /\ place \in {"turn", "enter", "write"} => ChangeOK(x.change)
    /\ place = "turn" => x.change.kind = "totals"
    /\ place \notin {"write", "unlink"} => x.victim = None
LocalsTyped == \A c \in Callers : LocalsOK(at[c], me[c])

\* A transcript that was made for an entry which is not in the index yet.
Waits(place, x) == place \in {"enter", "write"} /\ x.change.kind \in {"put", "reset"}
Pending(c) == Waits(at[c], me[c])
NewFile(c) == me[c].change.file

PendingApart ==
    \A c \in Callers : Pending(c) =>
        /\ Named(NewFile(c), me[c].change.key, made)
        /\ NewFile(c) \in files \cup swept /\ NewFile(c) \notin Referenced(disk)
        /\ \A d \in Callers \ {c} : Pending(d) => NewFile(d) # NewFile(c)

\* A transcript to be unlinked belongs to the entry that goes, and then to none.
Dropping(change, victim, s) ==
    /\ change.kind = "drop" /\ change.key \in Keys
    /\ s[change.key] # None /\ victim = s[change.key].file

VictimsForgotten ==
    \A c \in Callers :
        /\ at[c] = "write" /\ me[c].victim # None => Dropping(me[c].change, me[c].victim, disk)
        /\ at[c] = "unlink" =>
              /\ \E k \in Keys : Named(me[c].victim, k, made)
              /\ me[c].victim \notin Referenced(disk)
              /\ \A d \in Callers : Pending(d) => NewFile(d) # me[c].victim

FilesOK == EntriesOwn /\ LocalsTyped /\ PendingApart /\ VictimsForgotten /\ EntriesHaveTranscripts
-----------------------------------------------------------------------------
\* A change gives an entry its own transcript, or leaves it the one it had; a dropped entry is gone.
LEMMA ApplyFacts ==
    ASSUME NEW s \in Stores, NEW change, ChangeOK(change)
    PROVE  /\ Apply(change, s) \in Stores
           /\ \A k \in Keys : Apply(change, s)[k] # None =>
                 \/ s[k] # None /\ Apply(change, s)[k].file = s[k].file
                 \/ /\ change.kind \in {"put", "reset"} /\ k = change.key
                    /\ Apply(change, s)[k].file = change.file
           /\ change.kind = "drop" => Apply(change, s)[change.key] = None
<1> DEFINE k == change.key
           new == [file |-> change.file, total |-> 0]
<1>1. CASE change.kind = "rotate"
  BY <1>1 DEF Apply, Empty, Stores
<1>2. CASE /\ change.kind \in {"put", "reset"} /\ k \in Keys /\ change.file \in Transcripts
           /\ Apply(change, s) = [s EXCEPT ![k] = new]
  <2>1. new \in [file: Transcripts, total: Nat] /\ new.file = change.file
    BY <1>2
  <2> HIDE DEF new
  <2>2. QED
    BY <1>2, <2>1 DEF Stores
<1>3. CASE /\ change.kind = "totals" /\ k \in Keys /\ change.total \in Nat /\ s[k] # None
           /\ Apply(change, s) = [s EXCEPT ![k].total = change.total]
  <2> DEFINE entry == [s[k] EXCEPT !.total = change.total]
  <2>1. s[k] \in [file: Transcripts, total: Nat]
    BY <1>3 DEF Stores
  <2>2. entry \in [file: Transcripts, total: Nat] /\ entry.file = s[k].file
    BY <1>3, <2>1
  <2>3. Apply(change, s) = [s EXCEPT ![k] = entry]
    BY <1>3
  <2> HIDE DEF entry
  <2>4. QED
    BY <1>3, <2>2, <2>3 DEF Stores
<1>4. CASE /\ change.kind = "drop" /\ k \in Keys
           /\ Apply(change, s) = [s EXCEPT ![k] = None]
  BY <1>4 DEF Stores
<1>5. CASE Apply(change, s) = s /\ change.kind # "drop"
  BY <1>5
<1>6. CASE Apply(change, s) = s /\ k \in Keys /\ s[k] = None
  BY <1>6
<1>7. QED
  BY <1>1, <1>2, <1>3, <1>4, <1>5, <1>6 DEF ChangeOK, Apply

\* The caller goes on without a new transcript, and without unlinking one.
Calmly(c, place, x) ==
    /\ IsCall(x) /\ Go(c, place, x) /\ LocalsOK(place, x)
    /\ Waits(place, x) => Pending(c) /\ x.change = me[c].change
    /\ place = "write" /\ x.victim # None => Dropping(x.change, x.victim, disk)
Calm(c) == \E place \in Places \ {"unlink"} : \E x : Calmly(c, place, x)

\* No transcript goes that an entry has or is to have.
FilesStay ==
    \A f \in files \cup swept :
        \/ f \in files' \cup swept'
        \/ f \notin Referenced(disk) /\ \A d \in Callers : Pending(d) => NewFile(d) # f

LEMMA CalmStep ==
    ASSUME IInv, FilesOK, NEW c \in Callers, Calm(c), FilesStay, UNCHANGED <<disk, made>>
    PROVE  FilesOK'
<1>1. PICK place \in Places \ {"unlink"} : \E x : Calmly(c, place, x)
  BY DEF Calm
<1>2. PICK x : Calmly(c, place, x)
  BY <1>1
<1>3. /\ IsCall(x) /\ Go(c, place, x) /\ LocalsOK(place, x)
      /\ Waits(place, x) => Pending(c) /\ x.change = me[c].change
      /\ place = "write" /\ x.victim # None => Dropping(x.change, x.victim, disk)
  BY <1>2 DEF Calmly
<1>4. /\ at'[c] = place
      /\ me'[c].change = x.change /\ me'[c].key = x.key /\ me'[c].todo = x.todo
      /\ me'[c].victim = x.victim
      /\ \A d \in Callers \ {c} : me'[d] = me[d] /\ at'[d] = at[d]
  BY <1>1, <1>3, GoTyped DEF IInv
<1>5. EntriesOwn'
  BY DEF FilesOK, EntriesOwn, Named
<1>6. LocalsTyped'
  BY <1>3, <1>4 DEF FilesOK, LocalsTyped, LocalsOK
<1>7. \A d \in Callers : Pending(d)' => Pending(d) /\ me'[d].change = me[d].change
  BY <1>3, <1>4 DEF Pending, Waits
<1>8. PendingApart'
  <2>1. \A d \in Callers : Pending(d)' => NewFile(d)' = NewFile(d)
    BY <1>7 DEF NewFile
  <2>2. \A d \in Callers : Pending(d) =>
            NewFile(d) \in files' \cup swept'
    BY DEF FilesOK, PendingApart, FilesStay
  <2>3. QED
    BY <1>7, <2>1, <2>2 DEF FilesOK, PendingApart, Named, Referenced, Listed
<1>9. VictimsForgotten'
  <2>1. \A d \in Callers : at'[d] = "write" /\ me'[d].victim # None =>
            Dropping(me[d].change, me[d].victim, disk)'
    <3>1. \A d \in Callers : at[d] = "write" /\ me[d].victim # None =>
              Dropping(me[d].change, me[d].victim, disk)
      BY DEF FilesOK, VictimsForgotten
    <3>2. \A d \in Callers : at'[d] = "write" /\ me'[d].victim # None =>
              Dropping(me'[d].change, me'[d].victim, disk)
      BY <1>3, <1>4, <3>1
    <3>3. QED
      BY <3>2 DEF Dropping
  <2>2. \A d \in Callers : at'[d] = "unlink" => at[d] = "unlink" /\ me'[d].victim = me[d].victim
    BY <1>1, <1>4
  <2>3. \A d \in Callers : Pending(d)' => NewFile(d)' = NewFile(d)
    BY <1>7 DEF NewFile
  <2>4. \A d \in Callers : at'[d] = "unlink" =>
            /\ \E k \in Keys : Named(me[d].victim, k, made)'
            /\ me'[d].victim \notin Referenced(disk)'
            /\ \A b \in Callers : Pending(b)' => NewFile(b)' # me'[d].victim
    <3>1. Referenced(disk)' = Referenced(disk)
      BY DEF Referenced, Listed
    <3>2. ASSUME NEW d \in Callers, at'[d] = "unlink"
          PROVE  /\ \E k \in Keys : Named(me[d].victim, k, made)'
                 /\ me'[d].victim \notin Referenced(disk)'
                 /\ \A b \in Callers : Pending(b)' => NewFile(b)' # me'[d].victim
      <4>1. /\ \E k \in Keys : Named(me[d].victim, k, made)
            /\ me[d].victim \notin Referenced(disk)
            /\ \A b \in Callers : Pending(b) => NewFile(b) # me[d].victim
        BY <2>2, <3>2 DEF FilesOK, VictimsForgotten
      <4>2. PICK k \in Keys : Named(me[d].victim, k, made)
        BY <4>1
      <4>3. Named(me[d].victim, k, made)'
        BY <2>2, <3>2, <4>2 DEF Named
      <4>4. QED
        BY <1>7, <2>2, <2>3, <3>1, <3>2, <4>1, <4>3
    <3>3. QED
      BY <3>2
  <2>5. QED
    BY <2>1, <2>4 DEF VictimsForgotten
<1>10. EntriesHaveTranscripts'
  BY DEF FilesOK, EntriesHaveTranscripts, FilesStay, Referenced, Listed
<1>11. QED
  BY <1>5, <1>6, <1>8, <1>9, <1>10 DEF FilesOK

\* After a part of an operation there is the next key to be deleted, the next stage, or the end.
LEMMA ProceedCalm ==
    ASSUME NEW c \in Callers, NEW todo \in SUBSET Keys, NEW plan \in Seq(Stages),
           ProceedWith(c, todo, plan)
    PROVE  \E place \in Places \ {"unlink", "write"} : \E x :
               Calmly(c, place, x) /\ ~Waits(place, x)
<1>1. /\ Places = Stages \cup {"idle", "route", "reset", "status", "clear", "turn", "fresh",
                               "forked", "enter", "write", "unlink", "scan"}
      /\ \A s \in Stages : s \in {"retain", "prune", "orphans", "rotate"}
  BY DEF Places, Stages
<1>2. ASSUME NEW place \in Places \ {"unlink", "write"}, NEW x, IsCall(x), Go(c, place, x),
             LocalsOK(place, x), ~Waits(place, x)
      PROVE  \E p \in Places \ {"unlink", "write"} : \E y : Calmly(c, p, y) /\ ~Waits(p, y)
  BY <1>2 DEF Calmly
<1>3. ASSUME NEW k \in todo,
             Go(c, "enter", [NewCall EXCEPT !.todo = todo \ {k}, !.plan = plan,
                                            !.change = Change("drop", k, None, 0)])
      PROVE  \E p \in Places \ {"unlink", "write"} : \E y : Calmly(c, p, y) /\ ~Waits(p, y)
  <2> DEFINE x == [NewCall EXCEPT !.todo = todo \ {k}, !.plan = plan,
                                  !.change = Change("drop", k, None, 0)]
  <2>1. /\ IsCall(x) /\ x.todo \subseteq Keys /\ x.victim = None
        /\ x.change = Change("drop", k, None, 0)
    BY NewCallIsCall DEF IsCall, Fields, NewCall
  <2>2. Go(c, "enter", x)
    BY <1>3
  <2> HIDE DEF x
  <2>3. x.change.kind = "drop" /\ x.change.key \in Keys
    BY <2>1 DEF Change
  <2>4. LocalsOK("enter", x) /\ ~Waits("enter", x)
    BY <2>1, <2>3 DEF LocalsOK, ChangeOK, Waits
  <2>5. QED
    BY <1>1, <1>2, <2>1, <2>2, <2>4
<1>4. ASSUME plan # <<>>, Go(c, Head(plan), [NewCall EXCEPT !.plan = Tail(plan)])
      PROVE  \E p \in Places \ {"unlink", "write"} : \E y : Calmly(c, p, y) /\ ~Waits(p, y)
  <2> DEFINE x == [NewCall EXCEPT !.plan = Tail(plan)]
  <2>1. Tail(plan) \in Seq(Stages) /\ Head(plan) \in Stages
    BY <1>4
  <2>2. IsCall(x) /\ x.todo = {} /\ x.victim = None
    BY <2>1, NewCallIsCall DEF IsCall, Fields, NewCall
  <2>3. Go(c, Head(plan), x)
    BY <1>4
  <2> HIDE DEF x
  <2>4. LocalsOK(Head(plan), x) /\ ~Waits(Head(plan), x)
    BY <1>1, <2>1, <2>2 DEF LocalsOK, Waits
  <2>5. QED
    BY <1>1, <1>2, <2>1, <2>2, <2>3, <2>4
<1>5. ASSUME End(c)
      PROVE  \E p \in Places \ {"unlink", "write"} : \E y : Calmly(c, p, y) /\ ~Waits(p, y)
  <2>1. LocalsOK("idle", NewCall) /\ ~Waits("idle", NewCall)
    BY DEF LocalsOK, Waits, NewCall
  <2>2. QED
    BY <1>1, <1>2, <1>5, <2>1, NewCallIsCall DEF End
<1>6. QED
  BY <1>3, <1>4, <1>5 DEF ProceedWith

LEMMA CalmActions ==
    ASSUME IInv, FilesOK, NEW c \in Callers,
           \/ Begin(c) \/ Fails(c) \/ Route(c) \/ Reset(c) \/ Status(c) \/ Turn(c) \/ Clear(c)
           \/ Retain(c) \/ Prune(c) \/ LookForOrphans(c) \/ Enter(c)
           \/ Proceed(c)
    PROVE  Calm(c)
<1>1. /\ Places = Stages \cup {"idle", "route", "reset", "status", "clear", "turn", "fresh",
                               "forked", "enter", "write", "unlink", "scan"}
      /\ Stages = {"retain", "prune", "orphans", "rotate"}
  BY DEF Places, Stages
<1>2. IsCall(me[c]) /\ LocalsOK(at[c], me[c]) /\ me[c].plan \in Seq(Stages)
  BY DEF IInv, Typed, FilesOK, LocalsTyped, IsCall
<1>3. me[c].todo \in SUBSET Keys /\ disk \in Stores
  BY <1>2 DEF LocalsOK, FilesOK, EntriesOwn
<1>4. MayRead(c) => Store(c) = disk
  BY StoreIsDisk
<1>5. ASSUME NEW place \in Places \ {"unlink", "write"}, NEW x, IsCall(x), Go(c, place, x),
             LocalsOK(place, x), Waits(place, x) => Pending(c) /\ x.change = me[c].change
      PROVE  Calm(c)
  BY <1>5 DEF Calm, Calmly
<1>6. ASSUME NEW todo \in SUBSET Keys, NEW plan \in Seq(Stages), ProceedWith(c, todo, plan)
      PROVE  Calm(c)
  BY <1>6, ProceedCalm DEF Calm
<1>7. End(c) => Calm(c)
  <2>1. LocalsOK("idle", NewCall) /\ ~Waits("idle", NewCall)
    BY DEF LocalsOK, Waits, NewCall
  <2>2. QED
    BY <1>1, <1>5, <2>1, NewCallIsCall DEF End
<1>8. CASE Begin(c)
  <2>1. ASSUME NEW k \in Keys, NEW place \in {"route", "reset", "status", "clear"},
               Go(c, place, [NewCall EXCEPT !.key = k])
        PROVE  Calm(c)
    <3> DEFINE x == [NewCall EXCEPT !.key = k]
    <3>1. IsCall(x) /\ x.todo = {} /\ x.victim = None /\ x.key = k
      BY NewCallIsCall DEF IsCall, Fields, NewCall
    <3>2. Go(c, place, x)
      BY <2>1
    <3> HIDE DEF x
    <3>3. LocalsOK(place, x) /\ ~Waits(place, x)
      BY <3>1 DEF LocalsOK, Waits
    <3>4. QED
      BY <1>1, <1>5, <3>1, <3>2, <3>3
  <2>2. ASSUME NEW k \in Keys,
               Go(c, "enter", [NewCall EXCEPT !.change = Change("drop", k, None, 0)])
        PROVE  Calm(c)
    <3> DEFINE x == [NewCall EXCEPT !.change = Change("drop", k, None, 0)]
    <3>1. /\ IsCall(x) /\ x.todo = {} /\ x.victim = None
          /\ x.change.kind = "drop" /\ x.change.key = k
      BY NewCallIsCall DEF IsCall, Fields, NewCall, Change
    <3>2. Go(c, "enter", x)
      BY <2>2
    <3> HIDE DEF x
    <3>3. LocalsOK("enter", x) /\ ~Waits("enter", x)
      BY <3>1 DEF LocalsOK, ChangeOK, Waits
    <3>4. QED
      BY <1>1, <1>5, <3>1, <3>2, <3>3
  <2>3. ASSUME NEW plan \in Seq(Stages), Go(c, "prune", [NewCall EXCEPT !.plan = plan])
        PROVE  Calm(c)
    <3> DEFINE x == [NewCall EXCEPT !.plan = plan]
    <3>1. IsCall(x) /\ x.todo = {} /\ x.victim = None
      BY NewCallIsCall DEF IsCall, Fields, NewCall
    <3>2. Go(c, "prune", x)
      BY <2>3
    <3> HIDE DEF x
    <3>3. LocalsOK("prune", x) /\ ~Waits("prune", x)
      BY <3>1 DEF LocalsOK, Waits
    <3>4. QED
      BY <1>1, <1>5, <3>1, <3>2, <3>3
  <2>4. CASE Go(c, "prune", NewCall)
    <3>1. LocalsOK("prune", NewCall) /\ ~Waits("prune", NewCall)
      BY DEF LocalsOK, Waits, NewCall
    <3>2. QED
      BY <1>1, <1>5, <2>4, <3>1, NewCallIsCall
  <2>5. <<"orphans", "prune", "rotate", "orphans", "prune">> \in Seq(Stages)
    BY DEF Stages
  <2>6. QED
    BY <1>8, <2>1, <2>2, <2>3, <2>4, <2>5 DEF Begin
<1>9. CASE Fails(c)
  BY <1>7, <1>9 DEF Fails
<1>10. CASE Route(c)
  <2> DEFINE x == [me[c] EXCEPT !.plan = <<"retain">>]
  <2>1. <<"retain">> \in Seq(Stages)
    BY DEF Stages
  <2>2. IsCall(x) /\ x.todo = me[c].todo /\ x.victim = me[c].victim /\ x.key = me[c].key
    BY <1>2, <2>1 DEF IsCall, Fields
  <2>3. at[c] = "route" /\ (Go(c, "fresh", x) \/ Go(c, "reset", me[c]) \/ End(c))
    BY <1>10 DEF Route
  <2> HIDE DEF x
  <2>4. /\ LocalsOK("fresh", x) /\ ~Waits("fresh", x)
        /\ LocalsOK("reset", me[c]) /\ ~Waits("reset", me[c])
    BY <1>2, <2>2, <2>3 DEF LocalsOK, Waits
  <2>5. QED
    BY <1>1, <1>2, <1>5, <1>7, <2>2, <2>3, <2>4
<1>11. CASE Reset(c)
  <2>1. at[c] = "reset" /\ (Go(c, "fresh", me[c]) \/ Go(c, "forked", me[c]))
    BY <1>11 DEF Reset
  <2>2. /\ LocalsOK("fresh", me[c]) /\ ~Waits("fresh", me[c])
        /\ LocalsOK("forked", me[c]) /\ ~Waits("forked", me[c])
    BY <1>2, <2>1 DEF LocalsOK, Waits
  <2>3. QED
    BY <1>1, <1>2, <1>5, <2>1, <2>2
<1>12. ASSUME NEW place \in {"turn", "enter"}, NEW total \in Nat, at[c] \in {"status", "clear"},
              Go(c, place, [me[c] EXCEPT !.change = Change("totals", me[c].key, None, total)])
       PROVE  Calm(c)
  <2> DEFINE x == [me[c] EXCEPT !.change = Change("totals", me[c].key, None, total)]
  <2>1. /\ IsCall(x) /\ x.todo = me[c].todo /\ x.victim = me[c].victim
        /\ x.change.kind = "totals" /\ x.change.key = me[c].key /\ x.change.total = total
    BY <1>2 DEF IsCall, Fields, Change
  <2>2. Go(c, place, x)
    BY <1>12
  <2> HIDE DEF x
  <2>3. LocalsOK(place, x) /\ ~Waits(place, x)
    BY <1>2, <1>12, <2>1 DEF LocalsOK, ChangeOK, Waits
  <2>4. QED
    BY <1>1, <1>5, <2>1, <2>2, <2>3
<1>13. CASE Status(c)
  <2> DEFINE k == me[c].key
             total == disk[k].total + 1
  <2>1. /\ at[c] = "status"
        /\ IF disk[k] = None THEN End(c)
           ELSE Go(c, "turn", [me[c] EXCEPT !.change = Change("totals", k, None, total)])
    BY <1>4, <1>13 DEF Status, Looks
  <2>2. k \in Keys
    BY <1>2, <2>1 DEF LocalsOK
  <2>3. disk[k] # None => total \in Nat
    BY <1>3, <2>2 DEF Stores
  <2> HIDE DEF total
  <2>4. QED
    BY <1>7, <1>12, <2>1, <2>3
<1>14. CASE Clear(c)
  <2>1. at[c] = "clear" /\
        (End(c) \/ Go(c, "enter", [me[c] EXCEPT !.change = Change("totals", me[c].key, None, 0)]))
    BY <1>14 DEF Clear
  <2>2. QED
    BY <1>7, <1>12, <2>1
<1>15. CASE Turn(c)
  <2>1. at[c] = "turn" /\ (End(c) \/ Go(c, "enter", me[c]))
    BY <1>15 DEF Turn
  <2>2. LocalsOK("enter", me[c]) /\ ~Waits("enter", me[c])
    BY <1>2, <2>1 DEF LocalsOK, Waits
  <2>3. QED
    BY <1>1, <1>2, <1>5, <1>7, <2>1, <2>2
<1>16. CASE Retain(c)
  <2>1. Listed(Store(c)) \subseteq Keys
    BY DEF Listed
  <2>2. \/ Proceed(c)
        \/ \E overflow \in SUBSET Keys : ProceedWith(c, overflow, me[c].plan)
    BY <1>16, <2>1 DEF Retain, kSubset
  <2>3. QED
    BY <1>2, <1>3, <1>6, <2>2 DEF Proceed
<1>17. CASE Prune(c)
  <2>1. \E chosen \in SUBSET Keys : ProceedWith(c, chosen, me[c].plan)
    BY <1>17 DEF Prune, Listed
  <2>2. QED
    BY <1>2, <1>6, <2>1
<1>18. CASE LookForOrphans(c)
  <2> DEFINE x == [me[c] EXCEPT !.spared = Referenced(Store(c))]
  <2>1. IsCall(x) /\ x.todo = me[c].todo /\ x.victim = me[c].victim
    BY <1>2 DEF IsCall, Fields
  <2>2. at[c] = "orphans" /\ Go(c, "scan", x)
    BY <1>18 DEF LookForOrphans
  <2> HIDE DEF x
  <2>3. LocalsOK("scan", x) /\ ~Waits("scan", x)
    BY <1>2, <2>1, <2>2 DEF LocalsOK, Waits
  <2>4. QED
    BY <1>1, <1>5, <2>1, <2>2, <2>3
<1>19. CASE Proceed(c)
  BY <1>2, <1>3, <1>6, <1>19 DEF Proceed
<1>20. CASE Enter(c)
  <2> DEFINE change == me[c].change
             victim == IF change.kind = "drop" THEN disk[change.key].file ELSE None
             x == [me[c] EXCEPT !.next = Apply(change, disk), !.victim = victim]
  <2>1. /\ at[c] = "enter" /\ change.kind # "rotate"
        /\ IF change.kind # "put" /\ disk[change.key] = None THEN Proceed(c) ELSE Go(c, "write", x)
    BY <1>4, <1>20 DEF Enter
  <2>2. CASE Proceed(c)
    BY <1>19, <2>2
  <2>3. CASE ~(change.kind # "put" /\ disk[change.key] = None) /\ Go(c, "write", x)
    <3>1. IsCall(x) /\ x.todo = me[c].todo /\ x.victim = victim /\ x.change = change
      BY <1>2 DEF IsCall, Fields
    <3>2. Go(c, "write", x)
      BY <2>3
    <3> HIDE DEF x
    <3>3. LocalsOK("write", x)
      BY <1>2, <2>1, <3>1 DEF LocalsOK
    <3>4. Waits("write", x) => Pending(c) /\ x.change = me[c].change
      BY <2>1, <3>1 DEF Pending, Waits
    <3>5. x.victim # None => Dropping(x.change, x.victim, disk)
      <4>1. x.victim # None => change.kind = "drop"
        BY <3>1
      <4>2. ChangeOK(change)
        BY <1>2, <2>1 DEF LocalsOK
      <4>3. QED
        BY <2>3, <3>1, <4>1, <4>2 DEF Dropping, ChangeOK
    <3>6. "write" \in Places \ {"unlink"}
      BY <1>1
    <3>7. QED
      BY <3>1, <3>2, <3>3, <3>4, <3>5, <3>6 DEF Calm, Calmly
  <2>4. QED
    BY <2>1, <2>2, <2>3
<1>21. QED
  BY <1>8, <1>9, <1>10, <1>11, <1>13, <1>14, <1>15, <1>16, <1>17, <1>18, <1>19, <1>20
-----------------------------------------------------------------------------
\* The steps again: those that leave the index alone.
LEMMA PlainFiles ==
    ASSUME IInv, FilesOK, NEW c \in Callers,
           \/ Begin(c) \/ Fails(c) \/ Route(c) \/ Reset(c) \/ Status(c) \/ Turn(c) \/ Clear(c)
           \/ Retain(c) \/ Prune(c) \/ LookForOrphans(c) \/ Enter(c)
           \/ Proceed(c) /\ UNCHANGED <<disk, folder>>
    PROVE  FilesOK'
<1>1. Calm(c)
  BY CalmActions
<1>2. UNCHANGED <<disk, folder>>
  BY DEF Begin, Fails, Route, Reset, Status, Turn, Clear, Retain, Prune, LookForOrphans, Enter,
     Looks, index
<1>3. QED
  BY <1>1, <1>2, CalmStep DEF FilesStay, folder

LEMMA RemovingFiles ==
    ASSUME IInv, FilesOK, NEW c \in Callers, Unlink(c) \/ Scan(c)
    PROVE  FilesOK'
<1>1. Calm(c) /\ UNCHANGED <<disk, made>>
  BY CalmActions DEF Unlink, Scan, index
<1>2. CASE Unlink(c)
  <2>1. /\ files' = files \ {me[c].victim} /\ swept' = swept
        /\ me[c].victim \notin Referenced(disk)
        /\ \A d \in Callers : Pending(d) => NewFile(d) # me[c].victim
    BY <1>2 DEF Unlink, FilesOK, VictimsForgotten
  <2>2. QED
    BY <1>1, <2>1, CalmStep DEF FilesStay
<1>3. CASE Scan(c)
  <2>1. files' = files \cap me[c].spared /\ swept' = swept \cup (files \ me[c].spared)
    BY <1>3 DEF Scan
  <2>2. QED
    BY <1>1, <2>1, CalmStep DEF FilesStay
<1>4. QED
  BY <1>2, <1>3

LEMMA FetchFiles ==
    ASSUME IInv, FilesOK, NEW c \in Callers, Fetch(c)
    PROVE  FilesOK'
<1> DEFINE x == [me[c] EXCEPT !.raw = disk]
<1>1. UNCHANGED <<disk, files, made, swept, at>> /\ me' = [me EXCEPT ![c] = x]
  BY DEF Fetch, folder, IInv, Typed
<1>2. /\ x.key = me[c].key /\ x.todo = me[c].todo /\ x.change = me[c].change
      /\ x.victim = me[c].victim
  BY DEF IInv, Typed, IsCall, Fields
<1> HIDE DEF x
<1>3. \A d \in Callers : /\ me'[d].key = me[d].key /\ me'[d].todo = me[d].todo
                         /\ me'[d].change = me[d].change /\ me'[d].victim = me[d].victim
  BY <1>1, <1>2 DEF IInv, Typed
<1>4. EntriesOwn' /\ EntriesHaveTranscripts'
  BY <1>1 DEF FilesOK, EntriesOwn, Named, EntriesHaveTranscripts, Referenced, Listed
<1>5. LocalsTyped'
  BY <1>1, <1>3 DEF FilesOK, LocalsTyped, LocalsOK
<1>6. \A d \in Callers : Pending(d)' = Pending(d) /\ NewFile(d)' = NewFile(d)
  BY <1>1, <1>3 DEF Pending, Waits, NewFile
<1>7. Referenced(disk)' = Referenced(disk)
  BY <1>1 DEF Referenced, Listed
<1>8. PendingApart'
  BY <1>1, <1>3, <1>6, <1>7 DEF FilesOK, PendingApart, Named
<1>9. VictimsForgotten'
  BY <1>1, <1>3, <1>6, <1>7 DEF FilesOK, VictimsForgotten, Named, Dropping
<1>10. QED
  BY <1>4, <1>5, <1>8, <1>9 DEF FilesOK

\* A new transcript is nobody's: the ones there are have numbers up to the last one made.
LEMMA CreateFiles ==
    ASSUME IInv, FilesOK, NEW c \in Callers, CreateTranscript(c)
    PROVE  FilesOK'
<1> DEFINE k == me[c].key
           file == <<k, made[k] + 1>>
           change == Change(IF at[c] = "fresh" THEN "put" ELSE "reset", k, file, 0)
           x == [me[c] EXCEPT !.change = change]
<1>1. /\ at[c] \in {"fresh", "forked"} /\ Go(c, "enter", x)
      /\ made' = [made EXCEPT ![k] = @ + 1] /\ files' = files \cup {file}
      /\ UNCHANGED <<disk, swept>>
  BY DEF CreateTranscript, index
<1>2. /\ k \in Keys /\ made \in [Keys -> Nat] /\ me[c].victim = None /\ me[c].todo \subseteq Keys
  BY <1>1 DEF FilesOK, EntriesOwn, LocalsTyped, LocalsOK
<1>3. /\ file \in Transcripts /\ file[1] = k /\ file[2] = made[k] + 1
      /\ made' \in [Keys -> Nat] /\ made'[k] = made[k] + 1
      /\ \A j \in Keys : made'[j] \in Nat /\ made[j] <= made'[j]
  BY <1>1, <1>2 DEF Transcripts
<1>4. \A f, j : j \in Keys /\ Named(f, j, made) => Named(f, j, made)' /\ f # file
  <2>1. \A f \in Transcripts : f[2] \in Nat
    BY DEF Transcripts
  <2> HIDE DEF file
  <2>2. QED
    BY <1>2, <1>3, <2>1 DEF Named
<1>5. Named(file, k, made')
  BY <1>2, <1>3 DEF Named
<1>6. /\ change.kind \in {"put", "reset"} /\ change.key = k /\ change.file = file
      /\ IsCall(x) /\ x.change = change /\ x.key = k /\ x.todo = me[c].todo /\ x.victim = None
  <2>1. IsCall(me[c])
    BY DEF IInv, Typed
  <2>2. change.kind \in {"put", "reset"} /\ change.key = k /\ change.file = file
    BY DEF Change
  <2> HIDE DEF change
  <2>3. QED
    BY <1>2, <2>1, <2>2 DEF IsCall, Fields
<1> HIDE DEF file, change, x
<1>7. /\ at'[c] = "enter"
      /\ me'[c].change = change /\ me'[c].key = k /\ me'[c].todo = me[c].todo
      /\ me'[c].victim = None
      /\ \A d \in Callers \ {c} : me'[d] = me[d] /\ at'[d] = at[d]
  <2>1. "enter" \in Places
    BY DEF Places
  <2>2. QED
    BY <1>1, <1>6, <2>1, GoTyped DEF IInv
<1>8. Referenced(disk)' = Referenced(disk)
  BY <1>1 DEF Referenced, Listed
<1>9. EntriesOwn'
  <2>1. \A j \in Keys : disk[j] # None => Named(disk[j].file, j, made)
    BY DEF FilesOK, EntriesOwn
  <2>2. \A j \in Keys : disk'[j] # None => Named(disk[j].file, j, made)'
    BY <1>1, <1>4, <2>1
  <2>3. QED
    BY <1>1, <1>3, <2>2 DEF FilesOK, EntriesOwn
<1>10. LocalsTyped'
  <2>1. LocalsOK(at'[c], me'[c])
    BY <1>2, <1>3, <1>6, <1>7 DEF LocalsOK, ChangeOK
  <2>2. QED
    BY <1>7, <2>1 DEF FilesOK, LocalsTyped
<1>11. /\ NewFile(c)' = file
       /\ \A d \in Callers \ {c} : Pending(d)' = Pending(d) /\ NewFile(d)' = NewFile(d)
  BY <1>6, <1>7 DEF NewFile, Pending, Waits
<1>12. file \notin Referenced(disk)
  <2>1. \A j \in Listed(disk) : disk[j].file # file
    BY <1>4 DEF FilesOK, EntriesOwn, Listed
  <2>2. QED
    BY <2>1 DEF Referenced
<1>13. PendingApart'
  <2>1. \A d \in Callers \ {c} : Pending(d) =>
            /\ Named(NewFile(d), me[d].change.key, made) /\ me[d].change.key \in Keys
            /\ NewFile(d) \in files \cup swept /\ NewFile(d) \notin Referenced(disk)
            /\ \A b \in Callers \ {d} : Pending(b) => NewFile(b) # NewFile(d)
    <3>1. \A d \in Callers : Pending(d) => me[d].change.key \in Keys
      BY DEF FilesOK, LocalsTyped, LocalsOK, ChangeOK, Pending, Waits
    <3>2. QED
      BY <3>1 DEF FilesOK, PendingApart
  <2>2. \A d \in Callers \ {c} : Pending(d) =>
            NewFile(d) # file /\ Named(NewFile(d), me[d].change.key, made)'
    <3>1. ASSUME NEW d \in Callers \ {c}, Pending(d)
          PROVE  NewFile(d) # file /\ Named(NewFile(d), me[d].change.key, made)'
      <4>1. Named(NewFile(d), me[d].change.key, made) /\ me[d].change.key \in Keys
        BY <2>1, <3>1
      <4>2. me'[d] = me[d] /\ NewFile(d)' = NewFile(d)
        BY <1>7, <1>11
      <4>3. QED
        BY <1>4, <4>1, <4>2
    <3>2. QED
      BY <3>1
  <2>3. /\ Named(NewFile(c)', me'[c].change.key, made')
        /\ file \in files' \cup swept' /\ file \notin Referenced(disk)'
    BY <1>1, <1>5, <1>6, <1>7, <1>8, <1>11, <1>12
  <2>4. \A d \in Callers \ {c} : Pending(d)' =>
            /\ Named(NewFile(d), me[d].change.key, made)'
            /\ NewFile(d)' \in files' \cup swept' /\ NewFile(d)' \notin Referenced(disk)'
            /\ NewFile(d)' # file
            /\ \A b \in Callers \ {d, c} : Pending(b)' => NewFile(b)' # NewFile(d)'
    BY <1>1, <1>8, <1>11, <2>1, <2>2
  <2>5. QED
    BY <1>11, <2>3, <2>4 DEF PendingApart
<1>14. VictimsForgotten'
  <2>1. ASSUME NEW d \in Callers, at'[d] = "write", me'[d].victim # None
        PROVE  Dropping(me[d].change, me[d].victim, disk)'
    <3>1. d # c
      BY <1>7, <2>1
    <3>2. Dropping(me[d].change, me[d].victim, disk)
      BY <1>7, <2>1, <3>1 DEF FilesOK, VictimsForgotten
    <3>3. QED
      BY <1>1, <1>7, <3>1, <3>2 DEF Dropping
  <2>2. ASSUME NEW d \in Callers, at'[d] = "unlink"
        PROVE  /\ \E j \in Keys : Named(me[d].victim, j, made)'
               /\ me'[d].victim \notin Referenced(disk)'
               /\ \A b \in Callers : Pending(b)' => NewFile(b)' # me'[d].victim
    <3>1. d # c /\ at[d] = "unlink" /\ me'[d] = me[d]
      BY <1>7, <2>2
    <3>2. /\ \E j \in Keys : Named(me[d].victim, j, made)
          /\ me[d].victim \notin Referenced(disk)
          /\ \A b \in Callers : Pending(b) => NewFile(b) # me[d].victim
      BY <3>1 DEF FilesOK, VictimsForgotten
    <3>3. PICK j \in Keys : Named(me[d].victim, j, made)
      BY <3>2
    <3>4. me[d].victim # file /\ Named(me[d].victim, j, made)'
      BY <1>4, <3>1, <3>3
    <3>5. QED
      BY <1>8, <1>11, <3>1, <3>2, <3>4
  <2>3. QED
    BY <2>1, <2>2 DEF VictimsForgotten
<1>15. EntriesHaveTranscripts'
  BY <1>1, <1>8 DEF FilesOK, EntriesHaveTranscripts
<1>16. QED
  BY <1>9, <1>10, <1>13, <1>14, <1>15 DEF FilesOK

\* The renamed index is empty, so nothing is lost with it; nobody else is writing.
LEMMA RotateFiles ==
    ASSUME IInv, SameEngine, Undisturbed, FilesOK, NEW c \in Callers, Alone(c), Rotate(c)
    PROVE  FilesOK'
<1>1. CASE Proceed(c) /\ UNCHANGED <<index, folder, bounds>>
  BY <1>1, PlainFiles DEF index
<1>2. CASE /\ at[c] = "rotate" /\ lock[EngineOf[c]] = None /\ disk' = Empty
           /\ Go(c, "write", [me[c] EXCEPT !.next = Empty,
                                           !.change = Change("rotate", None, None, 0)])
           /\ UNCHANGED folder
  <2> DEFINE x == [me[c] EXCEPT !.next = Empty, !.change = Change("rotate", None, None, 0)]
  <2>1. /\ IsCall(x) /\ x.change.kind = "rotate"
        /\ x.todo = me[c].todo /\ x.key = me[c].key /\ x.victim = me[c].victim
    BY DEF IInv, Typed, IsCall, Fields, Change
  <2>2. Go(c, "write", x)
    BY <1>2
  <2> HIDE DEF x
  <2>3. /\ at'[c] = "write"
        /\ me'[c].change = x.change /\ me'[c].key = x.key /\ me'[c].todo = x.todo
        /\ me'[c].victim = x.victim
        /\ \A d \in Callers \ {c} : me'[d] = me[d] /\ at'[d] = at[d]
    <3>1. "write" \in Places
      BY DEF Places
    <3>2. QED
      BY <3>1, <2>1, <2>2, GoTyped DEF IInv
  <2>4. \A d \in Callers \ {c} : at[d] # "write"
    BY <1>2, AloneWithFile
  <2>5. me[c].victim = None /\ me[c].todo \subseteq Keys
    BY <1>2 DEF FilesOK, LocalsTyped, LocalsOK
  <2>6. Referenced(disk)' = {} /\ EntriesOwn'
    BY <1>2 DEF FilesOK, EntriesOwn, Referenced, Listed, Empty, Stores, folder
  <2>7. LocalsTyped'
    <3>1. LocalsOK(at'[c], me'[c])
      BY <2>1, <2>3, <2>5 DEF LocalsOK, ChangeOK
    <3>2. QED
      BY <2>3, <3>1 DEF FilesOK, LocalsTyped
  <2>8. \A d \in Callers : Pending(d)' => d # c /\ Pending(d) /\ NewFile(d)' = NewFile(d)
    BY <2>1, <2>3 DEF Pending, Waits, NewFile
  <2>9. PendingApart'
    BY <1>2, <2>3, <2>6, <2>8 DEF FilesOK, PendingApart, folder
  <2>10. VictimsForgotten'
    BY <1>2, <2>1, <2>3, <2>4, <2>5, <2>6, <2>8 DEF FilesOK, VictimsForgotten, folder
  <2>11. EntriesHaveTranscripts'
    BY <2>6 DEF EntriesHaveTranscripts
  <2>12. QED
    BY <2>6, <2>7, <2>9, <2>10, <2>11 DEF FilesOK
<1>3. QED
  BY <1>1, <1>2 DEF Rotate

\* The index is replaced by what the one writer's change makes of it.  An entry's transcript is the
\* one it had or the one that waited for it, and a dropped entry's belongs to nobody any more.
LEMMA WrittenFiles ==
    ASSUME IInv, SameEngine, Undisturbed, FilesOK, NEW c \in Callers, Alone(c), Written(c)
    PROVE  FilesOK'
<1> DEFINE change == me[c].change
<1>1. at[c] = "write" /\ disk' = Apply(change, disk) /\ UNCHANGED folder
  BY DEF Written, IInv, WritesAgree
<1>2. \A d \in Callers \ {c} : at[d] # "write"
  BY <1>1, AloneWithFile DEF IInv, WritesAgree
<1>3. /\ disk \in Stores /\ ChangeOK(change)
      /\ me[c].todo \in SUBSET Keys /\ me[c].plan \in Seq(Stages) /\ IsCall(me[c])
  BY <1>1 DEF FilesOK, EntriesOwn, LocalsTyped, LocalsOK, IInv, Typed, IsCall
<1>4. /\ disk' \in Stores
      /\ \A k \in Keys : disk'[k] # None =>
            \/ disk[k] # None /\ disk'[k].file = disk[k].file
            \/ Pending(c) /\ k = change.key /\ disk'[k].file = NewFile(c)
      /\ change.kind = "drop" => disk'[change.key] = None
  BY <1>1, <1>3, ApplyFacts DEF Pending, Waits, NewFile
<1>5. Pending(c) => /\ Named(NewFile(c), change.key, made)
                    /\ NewFile(c) \in files \cup swept
                    /\ \A d \in Callers \ {c} : Pending(d) => NewFile(d) # NewFile(c)
  BY DEF FilesOK, PendingApart
<1>6. EntriesOwn'
  <2>1. \A k \in Keys : disk'[k] # None => Named(disk'[k].file, k, made)
    BY <1>4, <1>5 DEF FilesOK, EntriesOwn
  <2>2. QED
    BY <1>1, <1>4, <2>1 DEF FilesOK, EntriesOwn, folder
<1>7. \A f \in Referenced(disk)' : f \in Referenced(disk) \/ (Pending(c) /\ f = NewFile(c))
  BY <1>4 DEF Referenced, Listed
<1>8. EntriesHaveTranscripts'
  BY <1>1, <1>5, <1>7 DEF FilesOK, EntriesHaveTranscripts, folder
<1> DEFINE Goes(place, x) ==
             /\ IsCall(x) /\ Go(c, place, x) /\ LocalsOK(place, x) /\ ~Waits(place, x)
             /\ place = "unlink" => x.victim = me[c].victim /\ me[c].victim # None
<1>9. \E place \in Places \ {"write"} : \E x : Goes(place, x)
  <2>1. CASE me[c].victim = None
    <3>1. Proceed(c)
      BY <2>1 DEF Written
    <3>2. PICK place \in Places \ {"unlink", "write"} : \E x :
              Calmly(c, place, x) /\ ~Waits(place, x)
      BY <1>3, <3>1, ProceedCalm DEF Proceed
    <3>3. QED
      BY <3>2 DEF Calmly
  <2>2. CASE me[c].victim # None
    <3> DEFINE x == [me[c] EXCEPT !.next = None, !.change = None]
    <3>1. IsCall(x) /\ x.todo = me[c].todo /\ x.victim = me[c].victim
      BY <1>3 DEF IsCall, Fields
    <3>2. Go(c, "unlink", x)
      BY <2>2 DEF Written
    <3> HIDE DEF x
    <3>3. LocalsOK("unlink", x) /\ ~Waits("unlink", x)
      BY <1>3, <3>1 DEF LocalsOK, Waits
    <3>4. "unlink" \in Places \ {"write"}
      BY DEF Places
    <3>5. QED
      BY <2>2, <3>1, <3>2, <3>3, <3>4
  <2>3. QED
    BY <2>1, <2>2
<1>10. PICK place \in Places \ {"write"} : \E x : Goes(place, x)
  BY <1>9
<1>11. PICK x : Goes(place, x)
  BY <1>10
<1>12. /\ at'[c] = place
       /\ me'[c].change = x.change /\ me'[c].key = x.key /\ me'[c].todo = x.todo
       /\ me'[c].victim = x.victim
       /\ \A d \in Callers \ {c} : me'[d] = me[d] /\ at'[d] = at[d]
  BY <1>11, GoTyped DEF IInv
<1>13. LocalsTyped'
  <2>1. LocalsOK(at'[c], me'[c])
    BY <1>11, <1>12 DEF LocalsOK
  <2>2. QED
    BY <1>12, <2>1 DEF FilesOK, LocalsTyped
<1>14. \A d \in Callers : Pending(d)' =>
           d # c /\ Pending(d) /\ NewFile(d)' = NewFile(d) /\ me'[d] = me[d]
  BY <1>11, <1>12 DEF Pending, Waits, NewFile
<1>15. PendingApart'
  <2>1. \A d \in Callers : Pending(d)' => NewFile(d)' \notin Referenced(disk)'
    BY <1>5, <1>7, <1>14 DEF FilesOK, PendingApart
  <2>2. QED
    BY <1>1, <1>14, <2>1 DEF FilesOK, PendingApart, folder
<1>16. VictimsForgotten'
  <2>1. \A d \in Callers : at'[d] # "write"
    BY <1>2, <1>12
  <2>2. ASSUME NEW d \in Callers, at'[d] = "unlink"
        PROVE  /\ \E k \in Keys : Named(me'[d].victim, k, made)
               /\ me'[d].victim \notin Referenced(disk)'
               /\ \A b \in Callers : Pending(b)' => NewFile(b)' # me'[d].victim
    <3>1. CASE d = c
      <4> DEFINE victim == me[c].victim
      <4>1. me'[c].victim = victim /\ victim # None
        BY <1>11, <1>12, <2>2, <3>1
      <4>2. /\ change.kind = "drop" /\ change.key \in Keys
            /\ disk[change.key] # None /\ victim = disk[change.key].file
        BY <1>1, <4>1 DEF FilesOK, VictimsForgotten, Dropping
      <4>3. ~Pending(c) /\ Named(victim, change.key, made)
        BY <4>2 DEF FilesOK, EntriesOwn, Pending, Waits
      <4>4. \A k \in Keys : disk'[k] # None => disk'[k].file # victim
        BY <1>4, <4>2, <4>3 DEF FilesOK, EntriesOwn, Named
      <4>5. victim \notin Referenced(disk)'
        BY <4>4 DEF Referenced, Listed
      <4>6. victim \in Referenced(disk)
        BY <4>2 DEF Referenced, Listed
      <4>7. \A b \in Callers : Pending(b)' => NewFile(b)' # victim
        BY <1>14, <4>6 DEF FilesOK, PendingApart
      <4>8. QED
        BY <3>1, <4>1, <4>2, <4>3, <4>5, <4>7
    <3>2. CASE d # c
      <4>1. at[d] = "unlink" /\ me'[d] = me[d]
        BY <1>12, <2>2, <3>2
      <4>2. /\ \E k \in Keys : Named(me[d].victim, k, made)
            /\ me[d].victim \notin Referenced(disk)
            /\ \A b \in Callers : Pending(b) => NewFile(b) # me[d].victim
        BY <4>1 DEF FilesOK, VictimsForgotten
      <4>3. QED
        BY <1>7, <1>14, <4>1, <4>2
    <3>3. QED
      BY <3>1, <3>2
  <2>3. QED
    BY <1>1, <2>1, <2>2 DEF VictimsForgotten, folder
<1>17. QED
  BY <1>6, <1>8, <1>13, <1>15, <1>16 DEF FilesOK

LEMMA CrashFiles ==
    ASSUME FilesOK, Crash
    PROVE  FilesOK'
<1>1. /\ UNCHANGED <<disk, files, made, swept>>
      /\ \A c \in Callers : at'[c] = "idle" /\ me'[c] = NewCall
  BY DEF Crash, folder
<1>2. EntriesOwn' /\ EntriesHaveTranscripts'
  BY <1>1 DEF FilesOK, EntriesOwn, EntriesHaveTranscripts, Referenced, Listed
<1>3. LocalsTyped' /\ PendingApart' /\ VictimsForgotten'
  BY <1>1 DEF LocalsTyped, LocalsOK, PendingApart, VictimsForgotten, Pending, Waits, NewCall
<1>4. QED
  BY <1>2, <1>3 DEF FilesOK
-----------------------------------------------------------------------------
LEMMA InitFiles == Init => FilesOK
<1> SUFFICES ASSUME Init PROVE FilesOK
  OBVIOUS
<1>1. PICK K \in SUBSET Keys :
          /\ disk = [k \in Keys |-> IF k \in K THEN [file |-> <<k, 0>>, total |-> 0] ELSE None]
          /\ files = {<<k, 0>> : k \in K}
  BY DEF Init
<1>2. /\ made = [k \in Keys |-> 0] /\ swept = {}
      /\ \A c \in Callers : at[c] = "idle" /\ me[c] = NewCall
  BY DEF Init
<1>3. disk \in Stores
  BY <1>1 DEF Stores, Transcripts
<1>4. \A k \in Keys : disk[k] # None => k \in K /\ disk[k].file = <<k, 0>>
  BY <1>1
<1>5. EntriesOwn
  <2>1. made \in [Keys -> Nat]
    BY <1>2
  <2>2. ASSUME NEW k \in Keys, disk[k] # None
        PROVE  Named(disk[k].file, k, made)
    <3>1. disk[k].file = <<k, 0>> /\ made[k] = 0
      BY <1>2, <1>4, <2>2
    <3>2. <<k, 0>> \in Transcripts
      BY DEF Transcripts
    <3>3. QED
      BY <3>1, <3>2 DEF Named
  <2>3. QED
    BY <1>3, <2>1, <2>2 DEF EntriesOwn
<1>6. EntriesHaveTranscripts
  BY <1>1, <1>4 DEF EntriesHaveTranscripts, Referenced, Listed
<1>7. LocalsTyped /\ PendingApart /\ VictimsForgotten
  BY <1>2 DEF LocalsTyped, LocalsOK, PendingApart, VictimsForgotten, Pending, Waits, NewCall
<1>8. QED
  BY <1>5, <1>6, <1>7 DEF FilesOK

LEMMA StepFiles ==
    ASSUME SameEngine, Undisturbed, IInv, FilesOK, [Next]_vars
    PROVE  FilesOK'
<1>1. CASE UNCHANGED vars
  BY <1>1 DEF vars, index, folder, FilesOK, EntriesOwn, LocalsTyped, PendingApart,
     VictimsForgotten, EntriesHaveTranscripts, Pending, NewFile, Referenced, Listed
<1>2. CASE Crash
  BY <1>2, CrashFiles
<1>3. ASSUME NEW c \in Callers, Step(c) \/ Begin(c), Alone(c)
      PROVE  FilesOK'
  BY <1>3, PlainFiles, FetchFiles, CreateFiles, RotateFiles, WrittenFiles, RemovingFiles DEF Step
<1>4. QED
  BY <1>1, <1>2, <1>3 DEF Next, Step

\* Whatever is interrupted, by a failed write or by a restart, the index names no transcript that
\* is not there: the transcript is created before the entry, unlinked after it, and under a name no
\* other entry has.  What maintenance takes for an orphan is the one exception, and the property
\* makes it.
THEOREM TranscriptsAreThere ==
    ASSUME SameEngine, Undisturbed
    PROVE  Spec => []EntriesHaveTranscripts
<1>1. Init => IInv /\ FilesOK
  BY InitInvariant, InitFiles
<1>2. IInv /\ FilesOK /\ [Next]_vars => IInv' /\ FilesOK'
  BY StepInvariant, StepFiles
<1>3. FilesOK => EntriesHaveTranscripts
  BY DEF FilesOK
<1>4. QED
  BY <1>1, <1>2, <1>3, PTL DEF Spec
=============================================================================
