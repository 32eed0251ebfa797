------------------------ MODULE RunCoordinatorProofs ------------------------
(***************************************************************************)
(* For any number of runs and sessions.  First the controller: what each   *)
(* of its methods returns and preserves; and from that, about it under any *)
(* caller (RunConcurrency): its lanes and its lease stay consistent, it    *)
(* never holds a run up, and it implements the single waiting line of      *)
(* RunLane.  Then the coordinator: its safety properties hold whichever of *)
(* the less common paths its runs take.                                    *)
(*                                                                         *)
(* Fit(c, R, t) says what the controller c, the runs R and the runtime t   *)
(* know of each other at any point of a step, also between two of its      *)
(* controller calls.  Nearly every step ends with tryStartNextRun, so the  *)
(* proof of most is: what the step leaves to TryStart fits, and TryStart   *)
(* keeps what fits and leaves no run waiting for a free agent.             *)
(***************************************************************************)
EXTENDS RunCoordinator, SequenceTheorems, FiniteSetTheorems, TLAPS
-----------------------------------------------------------------------------
(****************************** the controller *****************************)

\* Removing e from a sequence that lists it once closes the gap it leaves: what stood
\* behind it moves up one place, and nothing else moves.
LEMMA RemoveFirstProperties ==
    ASSUME NEW S, NEW q \in Seq(S), NEW e \in ToSet(q), IsInjective(q)
    PROVE  \E k \in 1..Len(q) :
              /\ q[k] = e
              /\ RemoveFirst(q, e) \in Seq(S)
              /\ Len(RemoveFirst(q, e)) = Len(q) - 1
              /\ \A i \in 1..(Len(q) - 1) :
                    RemoveFirst(q, e)[i] = IF i < k THEN q[i] ELSE q[i + 1]
<1>1. PICK k \in 1..Len(q) : q[k] = e
  BY DEF ToSet
<1>2. SelectInSeq(q, LAMBDA v : v = e) = k
  BY <1>1 DEF SelectInSeq, Min, IsInjective
<1>3. RemoveFirst(q, e) = RemoveAt(q, k)
  BY <1>1, <1>2 DEF RemoveFirst
<1> DEFINE front == SubSeq(q, 1, k - 1)
           back  == SubSeq(q, k + 1, Len(q))
<1>4. RemoveAt(q, k) = front \o back
  BY DEF RemoveAt
<1>5. /\ front \in Seq(S) /\ Len(front) = k - 1
      /\ \A i \in 1..(k - 1) : front[i] = q[i]
  BY <1>1, SubSeqProperties
<1>6. /\ back \in Seq(S) /\ Len(back) = Len(q) - k
      /\ \A i \in 1..(Len(q) - k) : back[i] = q[k + i]
  BY <1>1, SubSeqProperties
<1> HIDE DEF front, back
<1>7. /\ front \o back \in Seq(S)
      /\ Len(front \o back) = Len(front) + Len(back)
      /\ \A i \in 1..(Len(front) + Len(back)) :
            (front \o back)[i] = IF i <= Len(front) THEN front[i] ELSE back[i - Len(front)]
  BY <1>5, <1>6, ConcatProperties
<1>8. \A i \in 1..(Len(q) - 1) : (front \o back)[i] = IF i < k THEN q[i] ELSE q[i + 1]
  BY <1>1, <1>5, <1>6, <1>7, LenProperties
<1>9. RemoveFirst(q, e) = front \o back
  BY <1>3, <1>4
<1>10. Len(front \o back) = Len(q) - 1
  BY <1>1, <1>5, <1>6, <1>7, LenProperties
<1>11. QED
  BY <1>1, <1>7, <1>8, <1>9, <1>10

\* p lists some of the elements of q, in the order q lists them.
Thins(p, q) == \E f \in [DOMAIN p -> DOMAIN q] :
                  /\ \A i \in DOMAIN p : p[i] = q[f[i]]
                  /\ \A i, j \in DOMAIN p : i < j <=> f[i] < f[j]

\* So the removed element is gone, the others stay, each still once and in their order.
LEMMA RemoveFirstThins ==
    ASSUME NEW S, NEW q \in Seq(S), NEW e \in ToSet(q), IsInjective(q)
    PROVE  /\ RemoveFirst(q, e) \in Seq(S)
           /\ ToSet(RemoveFirst(q, e)) = ToSet(q) \ {e}
           /\ IsInjective(RemoveFirst(q, e))
           /\ Thins(RemoveFirst(q, e), q)
           /\ Head(q) = e => RemoveFirst(q, e) = Tail(q)
<1> DEFINE p == RemoveFirst(q, e)
<1>1. PICK k \in 1..Len(q) :
              /\ q[k] = e
              /\ p \in Seq(S)
              /\ Len(p) = Len(q) - 1
              /\ \A i \in 1..(Len(q) - 1) : p[i] = IF i < k THEN q[i] ELSE q[i + 1]
  BY RemoveFirstProperties
<1> HIDE DEF p
<1>2. DOMAIN p = 1..(Len(q) - 1) /\ DOMAIN q = 1..Len(q) /\ Len(q) \in Nat
  BY <1>1, LenProperties
<1> DEFINE f == [i \in DOMAIN p |-> IF i < k THEN i ELSE i + 1]
<1>3. /\ f \in [DOMAIN p -> DOMAIN q]
      /\ \A i \in DOMAIN p : p[i] = q[f[i]]
      /\ \A i, j \in DOMAIN p : i < j <=> f[i] < f[j]
      /\ \A i \in DOMAIN p : f[i] # k
  BY <1>1, <1>2
<1>4. \A m \in DOMAIN q : m # k => (\E i \in DOMAIN p : f[i] = m)
  <2> SUFFICES ASSUME NEW m \in DOMAIN q, m # k
               PROVE  \E i \in DOMAIN p : f[i] = m
    OBVIOUS
  <2>1. CASE m < k
    <3>1. m \in DOMAIN p /\ f[m] = m
      BY <1>2, <2>1
    <3>2. QED
      BY <3>1
  <2>2. CASE m > k
    <3>1. m - 1 \in DOMAIN p /\ f[m - 1] = m
      BY <1>2, <2>2
    <3>2. QED
      BY <3>1
  <2>3. QED
    BY <1>2, <2>1, <2>2
<1> HIDE DEF f
<1>5. ToSet(p) = ToSet(q) \ {e}
  <2>1. \A i \in DOMAIN p : p[i] \in ToSet(q) /\ p[i] # e
    BY <1>1, <1>2, <1>3 DEF ToSet, IsInjective
  <2>2. \A m \in DOMAIN q : q[m] # e => (\E i \in DOMAIN p : p[i] = q[m])
    BY <1>1, <1>3, <1>4
  <2>3. QED
    BY <2>1, <2>2 DEF ToSet
<1>6. IsInjective(p)
  BY <1>2, <1>3 DEF IsInjective
<1>7. Thins(p, q)
  BY <1>3 DEF Thins
<1>8. ASSUME Head(q) = e PROVE p = Tail(q)
  <2>1. k = 1 /\ q # <<>>
    BY <1>1, <1>2, <1>8 DEF IsInjective
  <2>2. /\ Tail(q) \in Seq(S) /\ Len(Tail(q)) = Len(q) - 1
        /\ \A i \in 1..Len(Tail(q)) : Tail(q)[i] = q[i + 1]
    BY <2>1, HeadTailProperties
  <2>3. \A i \in 1..Len(p) : p[i] = Tail(q)[i]
    BY <1>1, <1>2, <2>1, <2>2
  <2>4. QED
    BY <1>1, <2>2, <2>3, SeqEqual
<1>9. QED
  BY <1>1, <1>5, <1>6, <1>7, <1>8 DEF p
\* Removing what stands first leaves the tail.
LEMMA RemoveFirstOfHead ==
    ASSUME NEW S
    PROVE  \A q \in Seq(S) : \A e \in ToSet(q) :
              (IsInjective(q) /\ Head(q) = e) =>
                 RemoveFirst(q, e) = Tail(q) /\ Tail(q) \in Seq(S)
<1> SUFFICES ASSUME NEW q \in Seq(S), NEW e \in ToSet(q), IsInjective(q), Head(q) = e
             PROVE  RemoveFirst(q, e) = Tail(q) /\ Tail(q) \in Seq(S)
  OBVIOUS
<1>1. RemoveFirst(q, e) \in Seq(S) /\ (Head(q) = e => RemoveFirst(q, e) = Tail(q))
  BY RemoveFirstThins
<1>2. QED
  BY <1>1
-----------------------------------------------------------------------------
\* Appending a new element to a sequence without duplicates.
LEMMA AppendNew ==
    ASSUME NEW S, NEW q \in Seq(S), NEW e \in S
    PROVE  /\ Append(q, e) \in Seq(S)
           /\ DOMAIN q = 1..Len(q) /\ Len(q) \in Nat
           /\ DOMAIN Append(q, e) = 1..(Len(q) + 1)
           /\ \A i \in 1..Len(q) : Append(q, e)[i] = q[i]
           /\ Append(q, e)[Len(q) + 1] = e
           /\ ToSet(Append(q, e)) = ToSet(q) \cup {e}
           /\ IsInjective(q) /\ e \notin ToSet(q) => IsInjective(Append(q, e))
<1>1. /\ Append(q, e) \in Seq(S)
      /\ DOMAIN q = 1..Len(q) /\ Len(q) \in Nat
      /\ DOMAIN Append(q, e) = 1..(Len(q) + 1)
      /\ \A i \in 1..Len(q) : Append(q, e)[i] = q[i]
      /\ Append(q, e)[Len(q) + 1] = e
  BY AppendProperties, LenProperties
<1>2. ToSet(Append(q, e)) = ToSet(q) \cup {e}
  BY <1>1 DEF ToSet
<1>3. IsInjective(q) /\ e \notin ToSet(q) => IsInjective(Append(q, e))
  BY <1>1 DEF ToSet, IsInjective
<1>4. QED
  BY <1>1, <1>2, <1>3

\* A fact about all of a controller's lanes: they list runs.
LEMMA LanesListRuns ==
    ASSUME NEW c \in Controllers
    PROVE  ToSet(c.global) \subseteq Runs /\ \A s \in Sessions : InLane(c, s) \subseteq Runs
<1>1. \A q \in Seq(Runs) : ToSet(q) \subseteq Runs
  BY LenProperties DEF ToSet
<1>2. QED
  BY <1>1 DEF Controllers, InLane

\* A fresh controller is a controller, and consistent.
LEMMA NewControllerConsistent == NewController \in Controllers /\ Consistent(NewController)
<1>1. NewController \in Controllers
  BY DEF NewController, Controllers
<1>2. \A s \in Sessions : NewController.lanes[s] = <<>> /\ NewController.global = <<>>
  BY DEF NewController
<1>3. DOMAIN <<>> = {} /\ ToSet(<<>>) = {} /\ IsInjective(<<>>)
  BY DEF ToSet, IsInjective
<1>4. LanesListSameRuns(NewController)
  BY <1>2, <1>3 DEF LanesListSameRuns, InLane, NewController
<1>5. LanesAgreeOnOrder(NewController)
  BY <1>2, <1>3 DEF LanesAgreeOnOrder
<1>6. LeaseMatchesActive(NewController)
  BY <1>3 DEF LeaseMatchesActive, NewController
<1>7. QED
  BY <1>1, <1>4, <1>5, <1>6 DEF Consistent

\* Enqueueing a run the controller does not hold adds it to both lanes, at the end.
LEMMA EnqueuedConsistent ==
    ASSUME NEW c \in Controllers, Consistent(c), NEW r \in Runs, NEW s \in Sessions,
           c.owner[r] = None
    PROVE  /\ Enqueued(c, r, s) \in Controllers
           /\ Consistent(Enqueued(c, r, s))
           /\ r \notin ToSet(c.global) /\ c.active # r
<1> DEFINE d == Enqueued(c, r, s)
<1>0. None \notin Sessions /\ None \notin Runs
  BY NoneIsNoId
<1>1. /\ d \in Controllers
      /\ d.lanes = [c.lanes EXCEPT ![s] = Append(c.lanes[s], r)]
      /\ d.global = Append(c.global, r)
      /\ d.owner = [c.owner EXCEPT ![r] = s]
      /\ d.active = c.active /\ d.leased = c.leased
  BY AppendProperties DEF Controllers, Enqueued
<1>2. /\ c.lanes \in [Sessions -> Seq(Runs)] /\ c.global \in Seq(Runs)
      /\ c.owner \in [Runs -> Sessions \cup {None}]
      /\ c.active \in Runs \cup {None} /\ c.leased \in Sessions \cup {None}
  BY DEF Controllers
<1> HIDE DEF d
<1>3. r \notin ToSet(c.global) /\ c.active # r
  BY <1>0, <1>2 DEF Consistent, LanesListSameRuns, LeaseMatchesActive
<1>4. \A t \in Sessions : r \notin InLane(c, t)
  BY <1>0, <1>3 DEF Consistent, LanesListSameRuns
<1>5. /\ InLane(d, s) = InLane(c, s) \cup {r}
      /\ \A t \in Sessions : t # s => InLane(d, t) = InLane(c, t)
      /\ \A t \in Sessions : IsInjective(d.lanes[t])
  BY <1>1, <1>2, <1>4, AppendNew DEF InLane, Consistent, LanesListSameRuns
<1>6. ToSet(d.global) = ToSet(c.global) \cup {r} /\ IsInjective(d.global)
  BY <1>1, <1>2, <1>3, AppendNew DEF Consistent, LanesListSameRuns
<1>7. LanesListSameRuns(d)
  <2>1. \A q \in ToSet(d.global) : d.owner[q] # None /\ q \in InLane(d, d.owner[q])
    <3> SUFFICES ASSUME NEW q \in ToSet(d.global)
                 PROVE  d.owner[q] # None /\ q \in InLane(d, d.owner[q])
      OBVIOUS
    <3>1. CASE q = r
      BY <1>0, <1>1, <1>2, <1>5, <3>1
    <3>2. CASE q # r
      <4>1. q \in ToSet(c.global) /\ q \in Runs
        BY <1>6, <3>2, LanesListRuns
      <4>2. c.owner[q] \in Sessions /\ d.owner[q] = c.owner[q] /\ q \in InLane(c, c.owner[q])
        BY <1>1, <1>2, <3>2, <4>1 DEF Consistent, LanesListSameRuns
      <4>3. QED
        BY <1>0, <1>5, <4>2
    <3>3. QED
      BY <3>1, <3>2
  <2>2. \A t \in Sessions : \A q \in InLane(d, t) : d.owner[q] = t /\ q \in ToSet(d.global)
    <3> SUFFICES ASSUME NEW t \in Sessions, NEW q \in InLane(d, t)
                 PROVE  d.owner[q] = t /\ q \in ToSet(d.global)
      OBVIOUS
    <3>1. CASE q = r
      <4>1. t = s
        BY <1>4, <1>5, <3>1
      <4>2. QED
        BY <1>1, <1>2, <1>6, <3>1, <4>1
    <3>2. CASE q # r
      <4>1. q \in InLane(c, t)
        BY <1>5, <3>2
      <4>2. q \in Runs
        BY <4>1, LanesListRuns
      <4>3. QED
        BY <1>1, <1>2, <1>6, <3>2, <4>1, <4>2 DEF Consistent, LanesListSameRuns
    <3>3. QED
      BY <3>1, <3>2
  <2>3. QED
    BY <1>5, <1>6, <2>1, <2>2 DEF LanesListSameRuns
<1>8. LanesAgreeOnOrder(d)
  <2> SUFFICES ASSUME NEW t \in Sessions,
                      NEW i \in DOMAIN d.lanes[t], NEW j \in DOMAIN d.lanes[t],
                      NEW k \in DOMAIN d.global, NEW l \in DOMAIN d.global,
                      d.lanes[t][i] = d.global[k], d.lanes[t][j] = d.global[l], i < j
               PROVE  k < l
    BY DEF LanesAgreeOnOrder
  <2>1. /\ DOMAIN c.global = 1..Len(c.global) /\ Len(c.global) \in Nat
        /\ DOMAIN d.global = 1..(Len(c.global) + 1)
        /\ \A m \in DOMAIN c.global : d.global[m] = c.global[m]
        /\ d.global[Len(c.global) + 1] = r
    BY <1>1, <1>2, AppendNew
  <2>2. /\ DOMAIN c.lanes[t] = 1..Len(c.lanes[t]) /\ Len(c.lanes[t]) \in Nat
        /\ \A m \in DOMAIN c.lanes[t] : d.lanes[t][m] = c.lanes[t][m]
        /\ t # s => d.lanes[t] = c.lanes[t]
        /\ t = s => /\ DOMAIN d.lanes[t] = 1..(Len(c.lanes[t]) + 1)
                    /\ d.lanes[t][Len(c.lanes[t]) + 1] = r
    <3>1. /\ DOMAIN c.lanes[t] = 1..Len(c.lanes[t]) /\ Len(c.lanes[t]) \in Nat
          /\ c.lanes[t] \in Seq(Runs)
      BY <1>2, LenProperties
    <3>2. CASE t # s
      <4>1. d.lanes[t] = c.lanes[t]
        BY <1>1, <1>2, <3>2
      <4>2. QED
        BY <3>1, <3>2, <4>1
    <3>3. CASE t = s
      <4>1. d.lanes[t] = Append(c.lanes[t], r)
        BY <1>1, <1>2, <3>3
      <4>2. QED
        BY <3>1, <3>3, <4>1, AppendNew
    <3>4. QED
      BY <3>2, <3>3
  <2>3. i \in DOMAIN c.lanes[t]
    BY <2>2
  <2>4. d.lanes[t][i] # r
    BY <1>4, <2>2, <2>3 DEF InLane, ToSet
  <2>5. k \in DOMAIN c.global
    BY <2>1, <2>4
  <2>6. CASE l = Len(c.global) + 1
    BY <2>1, <2>5, <2>6
  <2>7. CASE l \in DOMAIN c.global
    <3>1. d.lanes[t][j] # r
      BY <1>3, <2>1, <2>7 DEF ToSet
    <3>2. j \in DOMAIN c.lanes[t]
      <4>1. CASE t = s
        BY <2>2, <3>1, <4>1
      <4>2. CASE t # s
        BY <2>2, <4>2
      <4>3. QED
        BY <4>1, <4>2
    <3>3. c.lanes[t][i] = c.global[k] /\ c.lanes[t][j] = c.global[l]
      BY <2>1, <2>2, <2>3, <2>5, <2>7, <3>2
    <3>4. QED
      BY <2>3, <2>5, <2>7, <3>2, <3>3 DEF Consistent, LanesAgreeOnOrder
  <2>8. QED
    BY <2>1, <2>6, <2>7
<1>9. LeaseMatchesActive(d)
  BY <1>0, <1>1, <1>2, <1>3, <1>6 DEF Consistent, LeaseMatchesActive
<1>10. QED
  BY <1>1, <1>3, <1>7, <1>8, <1>9 DEF Consistent, d
\* drain() of a consistent idle controller picks the run at the head of the global lane.
LEMMA DrainIsHead ==
    ASSUME NEW c \in Controllers, Consistent(c)
    PROVE  /\ c.active = None /\ c.global # <<>> => /\ Drain(c) = Head(c.global)
                                                   /\ HeadsItsLane(c, Head(c.global))
           /\ c.active # None \/ c.global = <<>> => Drain(c) = None
<1>1. /\ c.lanes \in [Sessions -> Seq(Runs)] /\ c.global \in Seq(Runs)
      /\ c.owner \in [Runs -> Sessions \cup {None}]
      /\ c.active \in Runs \cup {None}
  BY DEF Controllers
<1>2. ASSUME c.active = None, c.global # <<>>
      PROVE  Drain(c) = Head(c.global) /\ HeadsItsLane(c, Head(c.global))
  <2> DEFINE h == Head(c.global)
             s == c.owner[h]
  <2>1. /\ DOMAIN c.global = 1..Len(c.global) /\ Len(c.global) \in Nat \ {0}
        /\ h = c.global[1] /\ h \in Runs
    BY <1>1, <1>2, EmptySeq, HeadTailProperties, LenProperties
  <2>2. h \in ToSet(c.global)
    BY <2>1 DEF ToSet
  <2>3. s \in Sessions /\ s # None /\ h \in InLane(c, s)
    BY <1>1, <2>1, <2>2, NoneIsNoId DEF Consistent, LanesListSameRuns
  <2> HIDE DEF h, s
  <2>4. /\ DOMAIN c.lanes[s] = 1..Len(c.lanes[s]) /\ Len(c.lanes[s]) \in Nat
        /\ c.lanes[s] \in Seq(Runs)
    BY <1>1, <2>3, LenProperties
  <2>5. PICK i \in DOMAIN c.lanes[s] : c.lanes[s][i] = h
    BY <2>3 DEF InLane, ToSet
  <2>6. c.lanes[s][1] = h
    <3>1. 1 \in DOMAIN c.lanes[s]
      BY <2>4, <2>5
    <3>2. c.lanes[s][1] \in InLane(c, s)
      BY <3>1 DEF InLane, ToSet
    <3>3. c.lanes[s][1] \in ToSet(c.global)
      BY <2>3, <3>2 DEF Consistent, LanesListSameRuns
    <3>4. PICK k \in DOMAIN c.global : c.global[k] = c.lanes[s][1]
      BY <3>3 DEF ToSet
    <3>5. CASE i = 1
      BY <2>5, <3>5
    <3>6. CASE i # 1
      <4>1. 1 < i
        BY <2>4, <2>5, <3>6
      <4>2. k < 1
        BY <2>1, <2>3, <2>5, <3>1, <3>4, <4>1 DEF Consistent, LanesAgreeOnOrder
      <4>3. QED
        BY <2>1, <4>2
    <3>7. QED
      BY <3>5, <3>6
  <2>7. c.lanes[s] # <<>> /\ Head(c.lanes[s]) = h
    BY <2>4, <2>5, <2>6
  <2>8. HeadsItsLane(c, h)
    BY <2>3, <2>7 DEF HeadsItsLane, s
  <2>9. 1 \in Eligible(c) /\ \A j \in Eligible(c) : j \in Nat /\ 1 <= j
    BY <2>1, <2>8 DEF Eligible
  <2>10. (CHOOSE i_1 \in Eligible(c) : \A j \in Eligible(c) : i_1 <= j) = 1
    BY <2>9
  <2>11. Drain(c) = h
    BY <1>2, <2>1, <2>9, <2>10 DEF Drain
  <2>12. QED
    BY <2>8, <2>11 DEF h
<1>3. ASSUME c.active # None \/ c.global = <<>> PROVE Drain(c) = None
  <2>1. c.global = <<>> => Eligible(c) = {}
    BY DEF Eligible
  <2>2. QED
    BY <1>3, <2>1 DEF Drain
<1>4. QED
  BY <1>2, <1>3
\* Taking a queued run out of both of its lanes leaves the lanes agreeing on the rest,
\* whatever the controller still remembers of the run itself.
LEMMA RemovalKeepsLanes ==
    ASSUME NEW c \in Controllers, LanesListSameRuns(c), LanesAgreeOnOrder(c),
           NEW r \in ToSet(c.global),
           NEW d \in Controllers,
           d.lanes = [c.lanes EXCEPT ![c.owner[r]] = RemoveFirst(@, r)],
           d.global = RemoveFirst(c.global, r),
           \A q \in Runs \ {r} : d.owner[q] = c.owner[q]
    PROVE  /\ LanesListSameRuns(d)
           /\ LanesAgreeOnOrder(d)
           /\ ToSet(d.global) = ToSet(c.global) \ {r}
<1> DEFINE o == c.owner[r]
<1>1. /\ c.lanes \in [Sessions -> Seq(Runs)] /\ c.global \in Seq(Runs)
      /\ c.owner \in [Runs -> Sessions \cup {None}]
      /\ r \in Runs
  BY LanesListRuns DEF Controllers
<1>2. o \in Sessions /\ r \in InLane(c, o)
  BY <1>1 DEF LanesListSameRuns
<1>3. /\ d.lanes[o] = RemoveFirst(c.lanes[o], r)
      /\ \A t \in Sessions : t # o => d.lanes[t] = c.lanes[t] /\ r \notin InLane(c, t)
  BY <1>1, <1>2 DEF LanesListSameRuns
<1> HIDE DEF o
<1>4. /\ ToSet(d.global) = ToSet(c.global) \ {r} /\ IsInjective(d.global)
      /\ Thins(d.global, c.global)
  BY <1>1, RemoveFirstThins DEF LanesListSameRuns
<1>5. /\ InLane(d, o) = InLane(c, o) \ {r} /\ IsInjective(d.lanes[o])
      /\ Thins(d.lanes[o], c.lanes[o])
  BY <1>1, <1>2, <1>3, RemoveFirstThins DEF LanesListSameRuns, InLane
<1>6. \A t \in Sessions : /\ InLane(d, t) = InLane(c, t) \ {r} /\ IsInjective(d.lanes[t])
                           /\ Thins(d.lanes[t], c.lanes[t])
  <2> SUFFICES ASSUME NEW t \in Sessions, t # o
               PROVE  /\ InLane(d, t) = InLane(c, t) \ {r} /\ IsInjective(d.lanes[t])
                      /\ Thins(d.lanes[t], c.lanes[t])
    BY <1>5
  <2>1. InLane(d, t) = InLane(c, t) \ {r} /\ IsInjective(d.lanes[t])
    BY <1>3 DEF LanesListSameRuns, InLane
  <2>2. Thins(c.lanes[t], c.lanes[t])
    <3> DEFINE f == [i \in DOMAIN c.lanes[t] |-> i]
    <3>1. /\ f \in [DOMAIN c.lanes[t] -> DOMAIN c.lanes[t]]
          /\ \A i \in DOMAIN c.lanes[t] : c.lanes[t][i] = c.lanes[t][f[i]]
          /\ \A i, j \in DOMAIN c.lanes[t] : i < j <=> f[i] < f[j]
      OBVIOUS
    <3>2. QED
      BY <3>1 DEF Thins
  <2>3. QED
    BY <1>3, <2>1, <2>2
<1>7. LanesListSameRuns(d)
  <2>1. \A q \in ToSet(d.global) : d.owner[q] # None /\ q \in InLane(d, d.owner[q])
    <3> SUFFICES ASSUME NEW q \in ToSet(d.global)
                 PROVE  d.owner[q] # None /\ q \in InLane(d, d.owner[q])
      OBVIOUS
    <3>1. q \in ToSet(c.global) /\ q \in Runs /\ q # r
      BY <1>4, LanesListRuns
    <3>2. c.owner[q] \in Sessions /\ q \in InLane(c, c.owner[q])
      BY <1>1, <3>1 DEF LanesListSameRuns
    <3>3. d.owner[q] = c.owner[q] /\ c.owner[q] # None
      BY <3>1, <3>2, NoneIsNoId
    <3>4. QED
      BY <1>6, <3>1, <3>2, <3>3
  <2>2. \A t \in Sessions : \A q \in InLane(d, t) : d.owner[q] = t /\ q \in ToSet(d.global)
    <3> SUFFICES ASSUME NEW t \in Sessions, NEW q \in InLane(d, t)
                 PROVE  d.owner[q] = t /\ q \in ToSet(d.global)
      OBVIOUS
    <3>1. q \in InLane(c, t) /\ q # r /\ q \in Runs
      BY <1>6, LanesListRuns
    <3>2. QED
      BY <1>4, <3>1 DEF LanesListSameRuns
  <2>3. QED
    BY <1>4, <1>6, <2>1, <2>2 DEF LanesListSameRuns
<1>8. LanesAgreeOnOrder(d)
  <2> SUFFICES ASSUME NEW t \in Sessions,
                      NEW i \in DOMAIN d.lanes[t], NEW j \in DOMAIN d.lanes[t],
                      NEW k \in DOMAIN d.global, NEW l \in DOMAIN d.global,
                      d.lanes[t][i] = d.global[k], d.lanes[t][j] = d.global[l], i < j
               PROVE  k < l
    BY DEF LanesAgreeOnOrder
  <2>1. PICK f \in [DOMAIN d.lanes[t] -> DOMAIN c.lanes[t]] :
                /\ \A m \in DOMAIN d.lanes[t] : d.lanes[t][m] = c.lanes[t][f[m]]
                /\ \A m, n \in DOMAIN d.lanes[t] : m < n <=> f[m] < f[n]
    BY <1>6 DEF Thins
  <2>2. PICK g \in [DOMAIN d.global -> DOMAIN c.global] :
                /\ \A m \in DOMAIN d.global : d.global[m] = c.global[g[m]]
                /\ \A m, n \in DOMAIN d.global : m < n <=> g[m] < g[n]
    BY <1>4 DEF Thins
  <2>3. /\ f[i] \in DOMAIN c.lanes[t] /\ f[j] \in DOMAIN c.lanes[t] /\ f[i] < f[j]
        /\ g[k] \in DOMAIN c.global /\ g[l] \in DOMAIN c.global
        /\ c.lanes[t][f[i]] = c.global[g[k]] /\ c.lanes[t][f[j]] = c.global[g[l]]
    BY <2>1, <2>2
  <2>4. g[k] < g[l]
    <3>1. \A a, b \in DOMAIN c.lanes[t] : \A m, n \in DOMAIN c.global :
             (c.lanes[t][a] = c.global[m] /\ c.lanes[t][b] = c.global[n] /\ a < b) => m < n
      BY DEF LanesAgreeOnOrder
    <3>2. QED
      BY <2>3, <3>1
  <2>5. QED
    BY <2>2, <2>4
<1>9. QED
  BY <1>4, <1>7, <1>8

\* Starting the run that drain returned takes it out of both lanes and gives it the lease.
LEMMA StartedConsistent ==
    ASSUME NEW c \in Controllers, Consistent(c), Drain(c) # None
    PROVE  /\ Started(c, Drain(c)) \in Controllers
           /\ Consistent(Started(c, Drain(c)))
           /\ c.active = None /\ c.global # <<>> /\ Drain(c) = Head(c.global)
           /\ Started(c, Drain(c)).active = Drain(c)
           /\ Started(c, Drain(c)).global = Tail(c.global)
<1> DEFINE r == Drain(c)
           d == Started(c, r)
<1>1. c.active = None /\ c.global # <<>> /\ r = Head(c.global) /\ HeadsItsLane(c, r)
  BY DrainIsHead
<1> HIDE DEF r
<1>2. /\ c.lanes \in [Sessions -> Seq(Runs)] /\ c.global \in Seq(Runs)
      /\ c.owner \in [Runs -> Sessions \cup {None}]
      /\ c.active \in Runs \cup {None} /\ c.leased \in Sessions \cup {None}
  BY DEF Controllers
<1>3. r \in ToSet(c.global) /\ r \in Runs
  <2>1. 1 \in DOMAIN c.global /\ c.global[1] = r
    BY <1>1, <1>2, EmptySeq, LenProperties
  <2>2. QED
    BY <2>1, LanesListRuns DEF ToSet
<1>4. c.owner[r] \in Sessions /\ r \in InLane(c, c.owner[r]) /\ IsInjective(c.lanes[c.owner[r]])
  BY <1>2, <1>3 DEF Consistent, LanesListSameRuns
<1>5. /\ RemoveFirst(c.lanes[c.owner[r]], r) = Tail(c.lanes[c.owner[r]])
      /\ Tail(c.lanes[c.owner[r]]) \in Seq(Runs)
  <2>1. c.lanes[c.owner[r]] \in Seq(Runs) /\ Head(c.lanes[c.owner[r]]) = r
    BY <1>1, <1>2, <1>4 DEF HeadsItsLane
  <2>2. QED
    BY <1>4, <2>1, RemoveFirstOfHead DEF InLane
<1>6. RemoveFirst(c.global, r) = Tail(c.global) /\ Tail(c.global) \in Seq(Runs)
  <2>1. IsInjective(c.global)
    BY DEF Consistent, LanesListSameRuns
  <2>2. QED
    BY <1>1, <1>2, <1>3, <2>1, RemoveFirstOfHead
<1>7. /\ d \in Controllers
      /\ d.lanes = [c.lanes EXCEPT ![c.owner[r]] = RemoveFirst(@, r)]
      /\ d.global = RemoveFirst(c.global, r)
      /\ d.owner = c.owner
      /\ d.active = r /\ d.leased = c.owner[r]
  BY <1>2, <1>3, <1>4, <1>5, <1>6 DEF Started, Controllers
<1> HIDE DEF d
<1>8. LanesListSameRuns(d) /\ LanesAgreeOnOrder(d) /\ ToSet(d.global) = ToSet(c.global) \ {r}
  BY <1>3, <1>7, RemovalKeepsLanes DEF Consistent
<1>9. LeaseMatchesActive(d)
  BY <1>1, <1>3, <1>4, <1>7, <1>8, NoneIsNoId DEF Consistent, LeaseMatchesActive
<1>10. QED
  BY <1>1, <1>6, <1>7, <1>8, <1>9 DEF Consistent, d, r
\* abortPending takes a queued run out of both lanes and forgets it, or changes nothing.
LEMMA AbortedPendingConsistent ==
    ASSUME NEW c \in Controllers, Consistent(c), NEW r \in Runs
    PROVE  /\ AbortedPending(c, r) \in Controllers
           /\ Consistent(AbortedPending(c, r))
           /\ AbortedPending(c, r).active = c.active
           /\ \/ AbortedPending(c, r) = c
              \/ /\ r \in ToSet(c.global)
                 /\ AbortedPending(c, r).global = RemoveFirst(c.global, r)
<1> DEFINE d == AbortedPending(c, r)
<1>1. CASE ~Removable(c, r)
  BY <1>1 DEF AbortedPending
<1>2. CASE Removable(c, r)
  <2>1. /\ c.lanes \in [Sessions -> Seq(Runs)] /\ c.global \in Seq(Runs)
        /\ c.owner \in [Runs -> Sessions \cup {None}]
        /\ c.active \in Runs \cup {None} /\ c.leased \in Sessions \cup {None}
    BY DEF Controllers
  <2>2. /\ r \in ToSet(c.global) /\ c.active # r
        /\ c.owner[r] \in Sessions /\ r \in InLane(c, c.owner[r])
        /\ IsInjective(c.global) /\ IsInjective(c.lanes[c.owner[r]])
    BY <1>2, <2>1 DEF Removable, Consistent, LanesListSameRuns
  <2>3. RemoveFirst(c.global, r) \in Seq(Runs)
    BY <2>1, <2>2, RemoveFirstThins
  <2>4. RemoveFirst(c.lanes[c.owner[r]], r) \in Seq(Runs)
    BY <2>1, <2>2, RemoveFirstThins DEF InLane
  <2>5. /\ d \in Controllers
        /\ d.lanes = [c.lanes EXCEPT ![c.owner[r]] = RemoveFirst(@, r)]
        /\ d.global = RemoveFirst(c.global, r)
        /\ d.owner = [c.owner EXCEPT ![r] = None]
        /\ d.active = c.active /\ d.leased = c.leased
    BY <1>2, <2>1, <2>2, <2>3, <2>4 DEF AbortedPending, Controllers
  <2> HIDE DEF d
  <2>6. \A q \in Runs \ {r} : d.owner[q] = c.owner[q]
    BY <2>1, <2>5
  <2>7. LanesListSameRuns(d) /\ LanesAgreeOnOrder(d) /\ ToSet(d.global) = ToSet(c.global) \ {r}
    <3>1. LanesListSameRuns(c) /\ LanesAgreeOnOrder(c)
      BY DEF Consistent
    <3>2. r \in ToSet(c.global) /\ d \in Controllers
      BY <2>2, <2>5
    <3>3. QED
      BY <2>5, <2>6, <3>1, <3>2, RemovalKeepsLanes
  <2>8. LeaseMatchesActive(d)
    BY <2>1, <2>2, <2>5, <2>7, NoneIsNoId DEF Consistent, LeaseMatchesActive
  <2>9. QED
    BY <2>2, <2>5, <2>7, <2>8 DEF Consistent, d
<1>3. QED
  BY <1>1, <1>2

\* release frees the agent for the run that holds it, and changes nothing for another.
LEMMA ReleasedConsistent ==
    ASSUME NEW c \in Controllers, Consistent(c), NEW r \in Runs, NEW s \in Sessions
    PROVE  /\ Released(c, r, s) \in Controllers
           /\ Consistent(Released(c, r, s))
           /\ Released(c, r, s).global = c.global
           /\ \/ Released(c, r, s) = c
              \/ c.active = r /\ Released(c, r, s).active = None
<1> DEFINE d == Released(c, r, s)
<1>1. CASE ~(c.active = r /\ c.leased = s)
  BY <1>1 DEF Released
<1>2. CASE c.active = r /\ c.leased = s
  <2>1. /\ c.lanes \in [Sessions -> Seq(Runs)] /\ c.global \in Seq(Runs)
        /\ c.owner \in [Runs -> Sessions \cup {None}]
    BY DEF Controllers
  <2>2. /\ d \in Controllers
        /\ d.lanes = c.lanes /\ d.global = c.global
        /\ d.owner = [c.owner EXCEPT ![r] = None]
        /\ d.active = None /\ d.leased = None
    BY <1>2, <2>1 DEF Released, Controllers
  <2> HIDE DEF d
  <2>3. r \notin ToSet(c.global)
    BY <1>2, NoneIsNoId DEF Consistent, LeaseMatchesActive
  <2>4. LanesListSameRuns(d)
    <3>1. \A t \in Sessions : InLane(d, t) = InLane(c, t)
      BY <2>2 DEF InLane
    <3>2. \A t \in Sessions : \A q \in InLane(c, t) : q # r /\ q \in Runs
      BY <2>3, LanesListRuns DEF Consistent, LanesListSameRuns
    <3>3. \A q \in Runs \ {r} : d.owner[q] = c.owner[q]
      BY <2>1, <2>2
    <3>4. \A q \in ToSet(c.global) : q # r /\ q \in Runs /\ c.owner[q] \in Sessions
      BY <2>1, <2>3, LanesListRuns DEF Consistent, LanesListSameRuns
    <3>5. QED
      BY <2>2, <3>1, <3>2, <3>3, <3>4 DEF Consistent, LanesListSameRuns
  <2>5. LanesAgreeOnOrder(d)
    BY <2>2 DEF Consistent, LanesAgreeOnOrder
  <2>6. LeaseMatchesActive(d)
    BY <1>2, <2>1, <2>2, <2>3, NoneIsNoId DEF Consistent, LeaseMatchesActive
  <2>7. QED
    BY <1>2, <2>2, <2>4, <2>5, <2>6 DEF Consistent, d
<1>3. QED
  BY <1>1, <1>2
-----------------------------------------------------------------------------
(******************** the controller under any caller *********************)

\* Neither part is inductive alone: what a removal leaves is known to be a controller only
\* because the removed run was in both of the lanes.
CtlInv == CtlTypeOK /\ LanesConsistent

\* A new controller satisfies the invariant.
LEMMA CtlInitInvariant == CtlInit => CtlInv
  BY NewControllerConsistent DEF CtlInit, CtlInv, CtlTypeOK, LanesConsistent

\* Every method keeps it.
LEMMA CtlStepInvariant == CtlInv /\ [CtlNext]_ctl => CtlInv'
<1> SUFFICES ASSUME CtlInv, [CtlNext]_ctl PROVE CtlInv'
  OBVIOUS
<1>0. ctl \in Controllers /\ Consistent(ctl)
  BY DEF CtlInv, CtlTypeOK, LanesConsistent
<1> SUFFICES ctl' \in Controllers /\ Consistent(ctl')
  BY DEF CtlInv, CtlTypeOK, LanesConsistent
<1>1. ASSUME NEW r \in Runs, NEW s \in Sessions, Enqueue(r, s)
      PROVE  ctl' \in Controllers /\ Consistent(ctl')
  BY <1>0, <1>1, EnqueuedConsistent DEF Enqueue
<1>2. ASSUME NEW r \in Runs, NEW s \in Sessions, Release(r, s)
      PROVE  ctl' \in Controllers /\ Consistent(ctl')
  BY <1>0, <1>2, ReleasedConsistent DEF Release
<1>3. ASSUME NEW r \in Runs, AbortPending(r)
      PROVE  ctl' \in Controllers /\ Consistent(ctl')
  BY <1>0, <1>3, AbortedPendingConsistent DEF AbortPending
<1>4. ASSUME StartNext
      PROVE  ctl' \in Controllers /\ Consistent(ctl')
  BY <1>0, <1>4, StartedConsistent DEF StartNext
<1>5. ASSUME DestroyController
      PROVE  ctl' \in Controllers /\ Consistent(ctl')
  BY <1>5, NewControllerConsistent DEF DestroyController
<1>6. CASE UNCHANGED ctl
  BY <1>0, <1>6
<1>7. QED
  BY <1>1, <1>2, <1>3, <1>4, <1>5, <1>6 DEF CtlNext

\* The invariant holds in every behaviour.
LEMMA CtlInvariance == CtlSpec => []CtlInv
<1>1. QED
  BY CtlInitInvariant, CtlStepInvariant, PTL DEF CtlSpec

\* In every state the controller's fields have their types.
THEOREM ControllerTyped == CtlSpec => []CtlTypeOK
<1>1. CtlInv => CtlTypeOK
  BY DEF CtlInv
<1>2. QED
  BY <1>1, CtlInvariance, PTL

\* However the methods are called, session lanes, global lane and lease describe one set
\* of runs in one order.
THEOREM ControllerConsistent == CtlSpec => []LanesConsistent
<1>1. CtlInv => LanesConsistent
  BY DEF CtlInv
<1>2. QED
  BY <1>1, CtlInvariance, PTL

\* drain() of an idle controller returns the run accepted first: its search never passes
\* over a run, and never comes back empty-handed while one waits.
THEOREM NeverBlocked == CtlSpec => []NoHeadOfLineBlocking
<1>1. CtlInv => NoHeadOfLineBlocking
  BY DrainIsHead DEF CtlInv, CtlTypeOK, LanesConsistent, NoHeadOfLineBlocking
<1>2. QED
  BY <1>1, CtlInvariance, PTL

\* The waiting line removes a run as the controller does.
LEMMA SameRemoveFirst ==
    ASSUME NEW q, NEW e
    PROVE  Lane!RemoveFirst(q, e) = RemoveFirst(q, e)
  BY DEF Lane!RemoveFirst, Lane!RemoveAt, Lane!SelectInSeq, Lane!Min,
         RemoveFirst, RemoveAt, SelectInSeq, Min

\* The controller starts where the waiting line does.
LEMMA RefinesInit == CtlInit => Lane!LaneInit
  BY DEF CtlInit, NewController, Lane!LaneInit

\* Every call is a step of the waiting line, or changes neither the line nor its holder.
LEMMA RefinesStep == CtlInv /\ [CtlNext]_ctl => [Lane!LaneNext]_(Lane!laneVars)
<1> SUFFICES ASSUME CtlInv, [CtlNext]_ctl PROVE [Lane!LaneNext]_(Lane!laneVars)
  OBVIOUS
<1>0. ctl \in Controllers /\ Consistent(ctl)
  BY DEF CtlInv, CtlTypeOK, LanesConsistent
<1>1. ASSUME NEW r \in Runs, NEW s \in Sessions, Enqueue(r, s)
      PROVE  Lane!Accept(r)
  <2>1. ctl.owner[r] = None /\ ctl' = Enqueued(ctl, r, s)
    BY <1>1 DEF Enqueue
  <2>2. r \notin ToSet(ctl.global) /\ ctl.active # r
    BY <1>0, <2>1, EnqueuedConsistent
  <2>3. ctl'.global = Append(ctl.global, r) /\ ctl'.active = ctl.active
    BY <1>0, <2>1 DEF Enqueued, Controllers
  <2>4. QED
    BY <2>2, <2>3 DEF Lane!Accept, Lane!ToSet, ToSet
<1>2. ASSUME NEW r \in Runs, NEW s \in Sessions, Release(r, s)
      PROVE  Lane!Finish \/ UNCHANGED ctl
  <2>1. \/ ctl' = ctl
        \/ ctl.active = r /\ ctl'.active = None /\ ctl'.global = ctl.global
    BY <1>0, <1>2, ReleasedConsistent DEF Release
  <2>2. QED
    BY <2>1, NoneIsNoId DEF Lane!Finish
<1>3. ASSUME NEW r \in Runs, AbortPending(r)
      PROVE  Lane!Withdraw(r) \/ UNCHANGED ctl
  <2>1. \/ ctl' = ctl
        \/ /\ r \in ToSet(ctl.global) /\ ctl'.active = ctl.active
           /\ ctl'.global = RemoveFirst(ctl.global, r)
    BY <1>0, <1>3, AbortedPendingConsistent DEF AbortPending
  <2>2. QED
    BY <2>1, SameRemoveFirst DEF Lane!Withdraw, Lane!ToSet, ToSet
<1>4. ASSUME StartNext PROVE Lane!Admit
  BY <1>0, <1>4, StartedConsistent DEF StartNext, Lane!Admit
<1>5. ASSUME DestroyController PROVE Lane!Reset
  BY <1>5 DEF DestroyController, NewController, Lane!Reset
<1>6. ASSUME UNCHANGED ctl PROVE UNCHANGED Lane!laneVars
  BY <1>6 DEF Lane!laneVars
<1>7. QED
  BY <1>1, <1>2, <1>3, <1>4, <1>5, <1>6 DEF CtlNext, Lane!LaneNext

\* The controller, with its lane per session and its search for a head, implements one
\* first-come-first-served line per agent.
THEOREM Refinement == CtlSpec => ImplementsLane
<1>1. QED
  BY RefinesInit, RefinesStep, CtlInvariance, PTL DEF CtlSpec, ImplementsLane, Lane!LaneSpec
-----------------------------------------------------------------------------
(****************************** the coordinator ****************************)

\* The places a queue can have; nothing but the bound on them needs the runs to be finitely many.
Ranks == {n \in Nat \ {0} : IsFiniteSet(Runs) => n <= Cardinality(Runs)}
Shows == {None} \cup [session : Ranks, global : Ranks]

Records == [at : Places, status : Statuses, session : Sessions \cup {None}, known : BOOLEAN,
            params : BOOLEAN, shown : Shows, finalizer : Finalizers, timer : BOOLEAN,
            expiring : BOOLEAN, cancelled : BOOLEAN, announced : 0..1, waiter : WaiterStates]

Runtimes == [key : Sessions \cup {None}, active : Runs \cup {None, ForCompaction},
             tools : Runs \cup {None}]

\* Where a run has not begun to execute, and where the runtime is set up for it.
Unstarted == {"idle", "messageHook", "blocked", "queued"}
Owning == {"preflight", "prompting", "answered", "closing"}

\* An end is announced once, and whoever waits has heard of it.
EndOK(x) ==
    /\ x.announced = IF Terminal(x.status) THEN 1 ELSE 0
    /\ Terminal(x.status) => x.waiter # "waiting"
    /\ x.waiter = "ok" => x.status = "completed"
    /\ x.waiter = "error" /\ x.known => x.status = "error"

\* The status of a run that has not begun to execute follows from where its code stands.
PlaceOK(x) ==
    /\ x.at = "idle" <=> x.status = "none"
    /\ x.at \in Unstarted \ {"idle"} <=> x.status = "pending"
    /\ x.at = "idle" => x.shown = None /\ x.waiter = "none"
    /\ x.at # "idle" => x.session \in Sessions
    /\ x.expiring => x.at \notin Unstarted

\* What the controller holds of run r agrees with its record x.
LinkOK(c, r, x) ==
    /\ r \in ToSet(c.global) => x.at = "queued"
    /\ c.active = r => x.status = "running" /\ x.at \in Executing /\ ~x.expiring
    /\ c.owner[r] # None => c.owner[r] = x.session

\* Until destroy(): a run on its way into the queue can be started, and clients know its place.
LiveOK(c, r, x) ==
    /\ x.at \in {"messageHook", "queued"} => x.known /\ x.params
    /\ x.known => x.shown = Position(c, r)

\* The run that executes with the lease finds the runtime its own, or nobody's.
HoldsRuntime(c, r, x, t) ==
    c.active = r /\ x.at \in Owning =>
        /\ t.key = x.session
        /\ t.active \in {r, None, ForCompaction}
        /\ PerRunTools => t.tools \in {r, None}

FitsAt(c, r, x, t) ==
    /\ EndOK(x) /\ PlaceOK(x) /\ LinkOK(c, r, x)
    /\ ~destroyed => LiveOK(c, r, x)
    /\ HoldsRuntime(c, r, x, t)

Fit(c, R, t) ==
    /\ c \in Controllers /\ Consistent(c)
    /\ R \in [Runs -> Records]
    /\ t \in Runtimes
    /\ \A r \in Runs : FitsAt(c, r, R[r], t)

\* Only a manual compaction gives the context engine to nobody's run.
CompactionOwns == rt.active = ForCompaction => compaction.at = "compacting"

\* The inductive invariant: between two steps all of it fits, and no free agent is forgotten.
IInv == /\ Fit(ctl, run, rt) /\ LaneNeverForgotten /\ CompactionOwns
        /\ destroyed \in BOOLEAN
        /\ compaction \in [at : CompactionPlaces, session : Sessions \cup {None}]

\* A step changes no final status.
Kept == \A r \in Runs : Terminal(run[r].status) => run'[r].status = run[r].status
-----------------------------------------------------------------------------
(************************ positions and the lanes **************************)

\* A lane that lists each run once is no longer than there are runs.
LEMMA LanesRank ==
    ASSUME NEW q \in Seq(Runs), IsInjective(q), NEW i \in DOMAIN q
    PROVE  i \in Ranks
<1>1. DOMAIN q = 1..Len(q) /\ Len(q) \in Nat /\ i \in Nat \ {0} /\ i <= Len(q)
  BY LenProperties
<1>2. ASSUME IsFiniteSet(Runs) PROVE i <= Cardinality(Runs)
  <2>1. q \in [1..Len(q) -> Runs]
    BY <1>1
  <2>2. q \in Injection(1..Len(q), Runs)
    BY <2>1 DEF Injection
  <2>3. Cardinality(1..Len(q)) <= Cardinality(Runs)
    BY <1>2, <2>2, FS_Injection
  <2>4. Cardinality(1..Len(q)) = Len(q)
    <3>1. 1 \in Int /\ \A n \in Nat : n \in Int
      OBVIOUS
    <3>2. \A n \in Nat : Cardinality(1..n) = IF 1 > n THEN 0 ELSE n - 1 + 1
      BY <3>1, FS_Interval, Zenon
    <3>3. \A n \in Nat : Cardinality(1..n) = n
      BY <3>2, SMT
    <3>4. QED
      BY <1>1, <3>3, Zenon
  <2>5. Cardinality(Runs) \in Nat
    BY <1>2, FS_CardinalityType
  <2>6. QED
    BY <1>1, <2>3, <2>4, <2>5
<1>3. QED
  BY <1>1, <1>2 DEF Ranks

LEMMA PositionsAreShows ==
    ASSUME NEW c \in Controllers, Consistent(c), NEW r \in Runs
    PROVE  Position(c, r) \in Shows
<1>1. CASE ~(r \in ToSet(c.global) /\ c.owner[r] # None)
  BY <1>1 DEF Position, Shows
<1>2. CASE r \in ToSet(c.global) /\ c.owner[r] # None
  <2> DEFINE lane == c.lanes[c.owner[r]]
  <2>1. /\ c.owner[r] \in Sessions /\ lane \in Seq(Runs) /\ c.global \in Seq(Runs)
        /\ IsInjective(lane) /\ IsInjective(c.global)
    BY <1>2 DEF Controllers, Consistent, LanesListSameRuns
  <2>2. r \in ToSet(lane)
    BY <1>2 DEF Consistent, LanesListSameRuns, InLane
  <2>3. /\ \E i \in DOMAIN lane : lane[i] = r
        /\ \E i \in DOMAIN c.global : c.global[i] = r
    BY <1>2, <2>2 DEF ToSet
  <2>4. DOMAIN lane \subseteq Ranks /\ DOMAIN c.global \subseteq Ranks
    BY <2>1, LanesRank
  <2>5. /\ (CHOOSE i \in DOMAIN lane : lane[i] = r) \in Ranks
        /\ (CHOOSE i \in DOMAIN c.global : c.global[i] = r) \in Ranks
    BY <2>3, <2>4
  <2>6. QED
    BY <1>2, <2>5 DEF Position, Shows
<1>3. QED
  BY <1>1, <1>2

\* S is R, and clients that knew the places of other runs than r still know them.
Follows(S, R, before, after, r) ==
    /\ S \in [Runs -> Records]
    /\ S[r] = R[r]
    /\ \A q \in Runs : \E p \in Shows :
          /\ S[q] = [R[q] EXCEPT !.shown = p]
          /\ p \in {R[q].shown, Position(after, q)}
          /\ q # r /\ R[q].known /\ R[q].shown = Position(before, q) => p = Position(after, q)

\* emitQueueUpdates keeps all clients up to date that were.
LEMMA ShownFollows ==
    ASSUME NEW before, NEW after \in Controllers, Consistent(after),
           NEW R \in [Runs -> Records], NEW r \in Runs
    PROVE  Follows(Shown(R, before, after, r), R, before, after, r)
<1> DEFINE S == Shown(R, before, after, r)
<1>1. \A q \in Runs : S[q] = IF q \in Affected(before, after, r) /\ R[q].known
                             THEN [R[q] EXCEPT !.shown = Position(after, q)]
                             ELSE R[q]
  BY DEF Shown
<1>2. ASSUME NEW q \in Runs
      PROVE  \E p \in Shows :
                /\ S[q] = [R[q] EXCEPT !.shown = p]
                /\ p \in {R[q].shown, Position(after, q)}
                /\ q # r /\ R[q].known /\ R[q].shown = Position(before, q) => p = Position(after, q)
  <2>1. R[q] \in Records
    OBVIOUS
  <2>2. R[q] = [R[q] EXCEPT !.shown = R[q].shown] /\ R[q].shown \in Shows
    BY <2>1 DEF Records
  <2>3. CASE q \in Affected(before, after, r) /\ R[q].known
    BY <1>1, <2>3, PositionsAreShows
  <2>4. CASE ~(q \in Affected(before, after, r) /\ R[q].known)
    BY <1>1, <2>2, <2>4 DEF Affected
  <2>5. QED
    BY <2>3, <2>4
<1>3. ASSUME NEW q \in Runs PROVE S[q] \in Records
  <2>1. PICK p \in Shows : S[q] = [R[q] EXCEPT !.shown = p]
    BY <1>2
  <2>2. R[q] \in Records
    OBVIOUS
  <2>3. QED
    BY <2>1, <2>2 DEF Records
<1>4. S = [q \in Runs |-> S[q]]
  BY DEF Shown
<1>5. S[r] = R[r]
  BY <1>1 DEF Affected
<1> HIDE DEF S
<1>6. S \in [Runs -> Records]
  BY <1>3, <1>4
<1>7. Follows(S, R, before, after, r)
  BY <1>2, <1>5, <1>6 DEF Follows
<1>8. QED
  BY <1>7 DEF S

\* A run that is drained leaves the lanes and takes the lease; nothing else is known of it.
LEMMA StartedTakesHead ==
    ASSUME NEW c \in Controllers, Consistent(c), Drain(c) # None
    PROVE  LET q == Drain(c) d == Started(c, q)
           IN /\ d \in Controllers /\ Consistent(d) /\ d.active = q /\ d.owner = c.owner
              /\ q \in Runs /\ q \in ToSet(c.global) /\ q \notin ToSet(d.global)
              /\ ToSet(d.global) \subseteq ToSet(c.global)
              /\ Position(d, q) = None /\ c.active = None
<1> DEFINE q == Drain(c)
           d == Started(c, q)
<1>1. /\ d \in Controllers /\ Consistent(d) /\ d.active = q /\ d.global = Tail(c.global)
      /\ c.active = None /\ c.global # <<>> /\ q = Head(c.global)
  BY StartedConsistent
<1>2. c.global \in Seq(Runs) /\ d.owner = c.owner
  BY DEF Controllers, Started
<1>3. q \in ToSet(c.global) /\ q \in Runs /\ ToSet(Tail(c.global)) \subseteq ToSet(c.global)
  BY <1>1, <1>2, HeadTailProperties DEF ToSet
<1>4. q \notin ToSet(d.global)
  BY <1>1 DEF Consistent, LeaseMatchesActive
<1>5. Position(d, q) = None
  BY <1>4 DEF Position
<1>6. QED
  BY <1>1, <1>2, <1>3, <1>4, <1>5

\* Releasing a lease moves nobody in the queue.
LEMMA ReleasedLeavesQueue ==
    ASSUME NEW c \in Controllers, Consistent(c), NEW r \in Runs, NEW s \in Sessions,
           c.owner[r] # None => c.owner[r] = s
    PROVE  LET d == Released(c, r, s)
           IN /\ d \in Controllers /\ Consistent(d) /\ d.global = c.global
              /\ d.active # r
              /\ d.active \in {None, c.active}
              /\ c.active # r => d = c
              /\ \A q \in Runs : d.owner[q] \in {None, c.owner[q]}
              /\ \A q \in Runs : Position(d, q) = Position(c, q)
<1> DEFINE d == Released(c, r, s)
<1>1. d \in Controllers /\ Consistent(d) /\ d.global = c.global
  BY ReleasedConsistent
<1>2. CASE c.active = r
  <2>1. r # None /\ c.owner[r] = c.leased /\ c.leased # None /\ r \notin ToSet(c.global)
    BY <1>2, NoneIsNoId DEF Consistent, LeaseMatchesActive
  <2>2. d = [c EXCEPT !.active = None, !.leased = None, !.owner[r] = None]
    BY <1>2, <2>1 DEF Released
  <2>3. /\ c.owner \in [Runs -> Sessions \cup {None}]
        /\ c = [lanes |-> c.lanes, global |-> c.global, owner |-> c.owner,
                active |-> c.active, leased |-> c.leased]
    BY DEF Controllers
  <2>4. /\ d.active = None /\ d.lanes = c.lanes /\ d.owner = [c.owner EXCEPT ![r] = None]
    BY <2>2, <2>3
  <2>5. \A q \in Runs : Position(d, q) = Position(c, q)
    <3> SUFFICES ASSUME NEW q \in Runs PROVE Position(d, q) = Position(c, q)
      OBVIOUS
    <3> HIDE DEF d
    <3>1. CASE q = r
      BY <1>1, <2>1, <3>1 DEF Position
    <3>2. CASE q # r
      <4>1. d.owner[q] = c.owner[q]
        BY <2>3, <2>4, <3>2
      <4>2. QED
        BY <1>1, <2>4, <4>1 DEF Position
    <3>3. QED
      BY <3>1, <3>2
  <2>6. QED
    BY <1>1, <1>2, <2>1, <2>3, <2>4, <2>5
<1>3. CASE c.active # r
  BY <1>1, <1>3 DEF Released
<1>4. QED
  BY <1>2, <1>3
-----------------------------------------------------------------------------
(***************************** steps of a run ******************************)

\* x is y, but for where its code stands, who finalizes, its timer, and the order to stop.
Alike(x, y) == /\ x.status = y.status /\ x.session = y.session
               /\ x.known = y.known /\ x.params = y.params /\ x.shown = y.shown
               /\ x.expiring = y.expiring
               /\ x.announced = y.announced /\ x.waiter = y.waiter

\* S is R, with the code of run r standing at `place`.
Stands(S, R, r, place) ==
    /\ S \in [Runs -> Records]
    /\ S[r].at = place /\ Alike(S[r], R[r])
    /\ \A q \in Runs \ {r} : S[q] = R[q]

LEMMA StandsAt ==
    ASSUME NEW R \in [Runs -> Records], NEW r \in Runs, NEW place \in Places, NEW f \in Finalizers,
           NEW S, S = [R EXCEPT ![r] = [R[r] EXCEPT !.at = place, !.finalizer = f]]
    PROVE  Stands(S, R, r, place)
<1> DEFINE x == [R[r] EXCEPT !.at = place, !.finalizer = f]
<1>1. R[r] \in Records
  OBVIOUS
<1>2. x \in Records /\ x.at = place
  BY <1>1 DEF Records
<1>3. Alike(x, R[r])
  BY <1>1 DEF Records, Alike
<1> HIDE DEF x
<1>4. S = [R EXCEPT ![r] = x]
  BY DEF x
<1>5. S[r] = x /\ S \in [Runs -> Records] /\ \A q \in Runs \ {r} : S[q] = R[q]
  BY <1>2, <1>4
<1>6. QED
  BY <1>2, <1>3, <1>5 DEF Stands

LEMMA PlacedStands ==
    ASSUME NEW R \in [Runs -> Records], NEW r \in Runs, NEW place \in Places
    PROVE  Stands([R EXCEPT ![r].at = place], R, r, place)
<1>1. R[r] \in Records /\ R[r].finalizer \in Finalizers
  BY DEF Records
<1>2. [R EXCEPT ![r].at = place]
        = [R EXCEPT ![r] = [R[r] EXCEPT !.at = place, !.finalizer = R[r].finalizer]]
  BY <1>1 DEF Records
<1>3. QED
  BY <1>1, <1>2, StandsAt

LEMMA FinalizingStands ==
    ASSUME NEW R \in [Runs -> Records], NEW r \in Runs, NEW place \in Places,
           NEW who \in {"run", "timer"}
    PROVE  Stands(Finalizing([R EXCEPT ![r].at = place], r, who), R, r, place)
<1> DEFINE f == IF R[r].finalizer = "none" THEN who ELSE R[r].finalizer
<1>1. R[r] \in Records /\ R[r].finalizer \in Finalizers
  BY DEF Records
<1>2. f \in Finalizers
  BY <1>1 DEF Finalizers
<1>3. Finalizing([R EXCEPT ![r].at = place], r, who)
        = [R EXCEPT ![r] = [R[r] EXCEPT !.at = place, !.finalizer = f]]
  BY <1>1 DEF Finalizing, Records
<1> HIDE DEF f
<1>4. QED
  BY <1>2, <1>3, StandsAt

LEMMA ResumedStands ==
    ASSUME run \in [Runs -> Records], NEW r \in Runs, NEW place \in Places
    PROVE  Stands(Resumed(r, place), run, r, place)
<1> DEFINE f == IF place \in {"done", "rejected"} THEN "none"
                ELSE IF run[r].finalizer = "run" THEN "spent" ELSE run[r].finalizer
<1>1. run[r] \in Records /\ run[r].finalizer \in Finalizers
  BY DEF Records
<1>2. f \in Finalizers
  BY <1>1 DEF Finalizers
<1>3. Resumed(r, place) = [run EXCEPT ![r] = [run[r] EXCEPT !.at = place, !.finalizer = f]]
  BY <1>1 DEF Resumed
<1> HIDE DEF f
<1>4. QED
  BY <1>2, <1>3, StandsAt

\* finalizeRunSuccess and finalizeRunError make a run that has begun, or never will, final.
LEMMA FinalizedEnds ==
    ASSUME NEW R \in [Runs -> Records], NEW r \in Runs, NEW status \in {"completed", "error"},
           EndOK(R[r])
    PROVE  LET F == Finalized(R, r, status)
           IN /\ F \in [Runs -> Records]
              /\ \A q \in Runs \ {r} : F[q] = R[q]
              /\ EndOK(F[r]) /\ Terminal(F[r].status)
              /\ Terminal(R[r].status) => F[r].status = R[r].status
              /\ F[r].at = R[r].at /\ F[r].session = R[r].session /\ F[r].known = R[r].known
              /\ F[r].params = R[r].params /\ F[r].shown = R[r].shown
              /\ F[r].expiring = R[r].expiring
<1>1. R[r] \in Records
  OBVIOUS
<1>2. CASE Terminal(R[r].status)
  BY <1>2 DEF Finalized
<1>3. CASE ~Terminal(R[r].status)
  <2> DEFINE w == IF R[r].waiter # "waiting" THEN R[r].waiter
                  ELSE IF status = "completed" THEN "ok" ELSE "error"
             x == [R[r] EXCEPT !.status = status, !.timer = FALSE, !.announced = 1, !.waiter = w]
  <2>1. R[r].announced + 1 = 1
    BY <1>3 DEF EndOK
  <2>2. w \in WaiterStates /\ w # "waiting"
    BY <1>1 DEF Records, WaiterStates
  <2>3. /\ w = "ok" => status = "completed"
        /\ w = "error" /\ R[r].known => status = "error"
    BY <1>3 DEF EndOK, Terminal
  <2>4. Finalized(R, r, status) = [R EXCEPT ![r] = x]
    BY <1>3, <2>1 DEF Finalized
  <2> HIDE DEF w
  <2>5. x \in Records
    <3>1. 1 \in 0..1 /\ status \in Statuses
      BY DEF Statuses
    <3>2. QED
      BY <1>1, <2>2, <3>1 DEF Records
  <2>6. /\ x.at = R[r].at /\ x.session = R[r].session /\ x.known = R[r].known
        /\ x.params = R[r].params /\ x.shown = R[r].shown /\ x.expiring = R[r].expiring
    BY <1>1 DEF Records
  <2>7. x.status = status /\ x.announced = 1 /\ x.waiter = w
    BY <1>1 DEF Records
  <2> HIDE DEF x
  <2>8. EndOK(x) /\ Terminal(x.status)
    BY <2>2, <2>3, <2>6, <2>7 DEF EndOK, Terminal
  <2>9. QED
    BY <1>3, <2>4, <2>5, <2>6, <2>8
<1>4. QED
  BY <1>2, <1>3

\* executeRun up to its first await: the run stands where its lease is released later, and
\* the runtime is its own, or is not touched.
LEMMA BeginStands ==
    ASSUME NEW R \in [Runs -> Records], NEW r \in Runs, R[r].session \in Sessions,
           rt \in Runtimes, Begin(R, r)
    PROVE  /\ rt' \in Runtimes
           /\ \E place \in Executing :
                 /\ Stands(run', R, r, place)
                 /\ \/ place \notin Owning /\ rt' = rt
                    \/ place = "preflight" /\ rt' = Bound(r, R[r].session)
<1>1. \A p \in {"rejected", "guarded", "preflightFailed", "preflight"} :
         p \in Places /\ p \in Executing
  BY DEF Places, Executing
<1>2. Bound(r, R[r].session) \in Runtimes
  BY DEF Bound, Runtimes
<1>3. CASE run' = [R EXCEPT ![r].at = "rejected"] /\ UNCHANGED rt
  BY <1>1, <1>3, PlacedStands DEF Owning
<1>4. CASE run' = Finalizing([R EXCEPT ![r].at = "guarded"], r, "run") /\ UNCHANGED rt
  BY <1>1, <1>4, FinalizingStands DEF Owning
<1>5. CASE run' = Finalizing([R EXCEPT ![r].at = "preflightFailed"], r, "run") /\ UNCHANGED rt
  BY <1>1, <1>5, FinalizingStands DEF Owning
<1>6. CASE run' = [R EXCEPT ![r].at = "preflight"] /\ rt' = Bound(r, R[r].session)
  BY <1>1, <1>2, <1>6, PlacedStands
<1>7. QED
  BY <1>3, <1>4, <1>5, <1>6 DEF Begin
-----------------------------------------------------------------------------
(***************************** tryStartNextRun *****************************)

\* Another run's part of a step: its place in the queue may change, and what clients know of it.
LEMMA OthersFit ==
    ASSUME NEW c, NEW d, NEW t, NEW u, NEW p \in Runs, NEW x \in Records, FitsAt(c, p, x, t),
           p \in ToSet(d.global) => p \in ToSet(c.global),
           d.owner[p] \in {None, c.owner[p]},
           d.active = p => c.active = p /\ u = t,
           NEW sh \in Shows, sh \in {x.shown, Position(d, p)},
           x.known /\ x.shown = Position(c, p) => sh = Position(d, p)
    PROVE  FitsAt(d, p, [x EXCEPT !.shown = sh], u)
<1> DEFINE y == [x EXCEPT !.shown = sh]
<1>1. /\ y.at = x.at /\ y.status = x.status /\ y.session = x.session /\ y.known = x.known
      /\ y.params = x.params /\ y.expiring = x.expiring /\ y.announced = x.announced
      /\ y.waiter = x.waiter /\ y.shown = sh
  BY DEF Records
<1> HIDE DEF y
<1>2. EndOK(y) /\ LinkOK(d, p, y) /\ HoldsRuntime(d, p, y, u)
  BY <1>1 DEF FitsAt, EndOK, LinkOK, HoldsRuntime
<1>3. PlaceOK(y)
  <2>1. x.at = "idle" => Position(d, p) = None /\ x.shown = None
    BY DEF FitsAt, LinkOK, PlaceOK, Position
  <2>2. QED
    BY <1>1, <2>1 DEF FitsAt, PlaceOK
<1>4. ~destroyed => LiveOK(d, p, y)
  BY <1>1 DEF FitsAt, LiveOK
<1>5. FitsAt(d, p, y, u)
  BY <1>2, <1>3, <1>4 DEF FitsAt
<1>6. QED
  BY <1>5 DEF y

\* What fits still fits after tryStartNextRun, and no run waits for a free agent.
LEMMA TryStartFits ==
    ASSUME destroyed \in BOOLEAN, CompactionOwns,
           compaction \in [at : CompactionPlaces, session : Sessions \cup {None}],
           NEW c, NEW R, Fit(c, R, rt), TryStart(c, R), UNCHANGED <<destroyed, compaction>>
    PROVE  /\ IInv'
           /\ \A r \in Runs : Terminal(R[r].status) => run'[r].status = R[r].status
<1> DEFINE q == Drain(c)
           d == Started(c, q)
<1>1. /\ c \in Controllers /\ Consistent(c) /\ R \in [Runs -> Records] /\ rt \in Runtimes
      /\ \A r \in Runs : FitsAt(c, r, R[r], rt)
  BY DEF Fit
<1>2. CASE q = None \/ ~R[q].known \/ ~R[q].params
  <2>1. ctl' = c /\ run' = R /\ rt' = rt
    BY <1>2 DEF TryStart
  <2>2. LaneNeverForgotten'
    <3> SUFFICES ASSUME ~destroyed, c.active = None, c.global # <<>> PROVE FALSE
      BY <2>1 DEF LaneNeverForgotten
    <3>1. q = Head(c.global) /\ c.global \in Seq(Runs)
      BY <1>1, DrainIsHead DEF Controllers
    <3>2. q \in Runs /\ q \in ToSet(c.global) /\ q # None
      BY <3>1, HeadTailProperties, NoneIsNoId DEF ToSet
    <3>3. R[q].known /\ R[q].params
      BY <1>1, <3>2 DEF FitsAt, LinkOK, LiveOK
    <3>4. QED
      BY <1>2, <3>2, <3>3
  <2>3. Fit(ctl, run, rt)'
    BY <2>1 DEF Fit, FitsAt
  <2>4. CompactionOwns'
    BY <2>1 DEF CompactionOwns
  <2>5. QED
    BY <2>1, <2>2, <2>3, <2>4 DEF IInv
<1>3. CASE ~(q = None \/ ~R[q].known \/ ~R[q].params)
  <2> DEFINE x == [R[q] EXCEPT !.params = FALSE, !.shown = None, !.status = "running"]
             R1 == [R EXCEPT ![q] = x]
             R2 == Shown(R1, c, d, q)
  <2>1. /\ d \in Controllers /\ Consistent(d) /\ d.active = q /\ d.owner = c.owner
        /\ q \in Runs /\ q \in ToSet(c.global) /\ q \notin ToSet(d.global)
        /\ ToSet(d.global) \subseteq ToSet(c.global)
        /\ Position(d, q) = None /\ c.active = None
    BY <1>1, <1>3, StartedTakesHead
  <2>2. ctl' = d /\ Begin(R2, q)
    BY <1>1, <1>3, <2>1 DEF TryStart, Fit
  <2> HIDE DEF d
  <2>3. R[q] \in Records /\ R[q].at = "queued" /\ R[q].status = "pending"
    BY <1>1, <2>1 DEF FitsAt, LinkOK, PlaceOK, Unstarted
  <2>4. /\ x \in Records /\ x.status = "running" /\ x.shown = None /\ x.params = FALSE
        /\ x.session = R[q].session /\ x.known = R[q].known /\ x.expiring = R[q].expiring
        /\ x.announced = R[q].announced /\ x.waiter = R[q].waiter
    BY <2>3 DEF Records, Statuses, Shows
  <2> HIDE DEF x
  <2>5. R1 \in [Runs -> Records] /\ R1[q] = x /\ \A p \in Runs \ {q} : R1[p] = R[p]
    BY <1>1, <2>1, <2>4
  <2> HIDE DEF R1
  <2>6. /\ R2 \in [Runs -> Records] /\ R2[q] = x
        /\ \A p \in Runs \ {q} : \E sh \in Shows :
              /\ R2[p] = [R[p] EXCEPT !.shown = sh]
              /\ sh \in {R[p].shown, Position(d, p)}
              /\ R[p].known /\ R[p].shown = Position(c, p) => sh = Position(d, p)
    <3>1. Follows(R2, R1, c, d, q)
      BY <2>1, <2>5, ShownFollows
    <3> HIDE DEF R2
    <3>2. QED
      BY <2>5, <3>1 DEF Follows
  <2> HIDE DEF R2
  <2>7. R[q].session \in Sessions
    BY <1>1, <2>1, <2>3 DEF FitsAt, PlaceOK
  <2>8. PICK place \in Executing :
           /\ Stands(run', R2, q, place)
           /\ \/ place \notin Owning /\ rt' = rt
              \/ place = "preflight" /\ rt' = Bound(q, x.session)
    BY <1>1, <2>1, <2>2, <2>4, <2>6, <2>7, BeginStands
  <2>9. rt' \in Runtimes
    BY <1>1, <2>1, <2>2, <2>4, <2>6, <2>7, BeginStands
  <2>10. ASSUME NEW p \in Runs \ {q} PROVE FitsAt(d, p, run'[p], rt')
    <3>1. run'[p] = R2[p] /\ R[p] \in Records /\ p # d.active
      BY <1>1, <2>1, <2>8 DEF Stands
    <3>2. PICK sh \in Shows : /\ R2[p] = [R[p] EXCEPT !.shown = sh]
                              /\ sh \in {R[p].shown, Position(d, p)}
                              /\ R[p].known /\ R[p].shown = Position(c, p) => sh = Position(d, p)
      BY <2>6
    <3>3. FitsAt(d, p, [R[p] EXCEPT !.shown = sh], rt')
      BY <1>1, <2>1, <3>1, <3>2, OthersFit
    <3>4. QED
      BY <3>1, <3>2, <3>3
  <2>11. FitsAt(d, q, run'[q], rt')
    <3> DEFINE y == run'[q]
    <3>1. y.at = place /\ Alike(y, x)
      BY <2>6, <2>8 DEF Stands
    <3> HIDE DEF y
    <3>2. place \notin Unstarted
      BY DEF Executing, Unstarted
    <3>3. ~x.expiring /\ EndOK(R[q]) /\ c.owner[q] = x.session
      BY <1>1, <2>1, <2>3, <2>4 DEF FitsAt, PlaceOK, Unstarted, LinkOK, Consistent, LanesListSameRuns
    <3>4. EndOK(y)
      BY <2>3, <2>4, <3>1, <3>3 DEF EndOK, Alike, Terminal
    <3>5. PlaceOK(y)
      BY <2>4, <2>7, <3>1, <3>2, <3>3 DEF PlaceOK, Alike, Unstarted
    <3>6. LinkOK(d, q, y)
      BY <2>1, <2>4, <3>1, <3>3 DEF LinkOK, Alike
    <3>7. LiveOK(d, q, y)
      BY <2>1, <2>4, <3>1, <3>2 DEF LiveOK, Alike, Unstarted
    <3>8. HoldsRuntime(d, q, y, rt')
      <4>1. CASE place \notin Owning
        BY <3>1, <4>1 DEF HoldsRuntime
      <4>2. CASE rt' = Bound(q, x.session)
        <5>1. /\ rt'.key = x.session /\ rt'.active = q
              /\ PerRunTools => rt'.tools = q
          BY <1>1, <4>2 DEF Bound, Runtimes
        <5>2. QED
          BY <3>1, <5>1 DEF HoldsRuntime, Alike
      <4>3. QED
        BY <2>8, <4>1, <4>2
    <3>9. QED
      BY <3>4, <3>5, <3>6, <3>7, <3>8 DEF FitsAt, y
  <2>12. run' \in [Runs -> Records]
    BY <2>8 DEF Stands
  <2>13. Fit(ctl, run, rt)'
    <3>1. \A p \in Runs : FitsAt(d, p, run'[p], rt')
      BY <2>10, <2>11
    <3>2. QED
      BY <2>1, <2>2, <2>9, <2>12, <3>1 DEF Fit, FitsAt
  <2>14. LaneNeverForgotten'
    BY <2>1, <2>2, NoneIsNoId DEF LaneNeverForgotten
  <2>15. CompactionOwns'
    <3>1. rt' = rt \/ rt'.active = q
      BY <1>1, <2>8 DEF Bound, Runtimes
    <3>2. QED
      BY <2>1, <3>1, CompactionIsNoRun DEF CompactionOwns
  <2>16. ASSUME NEW r \in Runs, Terminal(R[r].status) PROVE run'[r].status = R[r].status
    <3>1. r # q /\ R[r] \in Records
      BY <1>1, <2>3, <2>16 DEF Terminal
    <3>2. run'[r] = R2[r]
      BY <2>8, <3>1 DEF Stands
    <3>3. QED
      BY <2>6, <3>1, <3>2 DEF Records
  <2>17. QED
    BY <2>13, <2>14, <2>15, <2>16 DEF IInv
<1>4. QED
  BY <1>2, <1>3
-----------------------------------------------------------------------------
(************************** the two kinds of step **************************)

\* R is the runs after the code of r went on, the rest of the agent's runs at most told to stop.
Turns(R, r) ==
    /\ R \in [Runs -> Records]
    /\ Alike(R[r], run[r]) /\ R[r].at \notin Unstarted
    /\ \A q \in Runs \ {r} : R[q].at = run[q].at /\ Alike(R[q], run[q])

LEMMA StandsTurns ==
    ASSUME NEW R, NEW r \in Runs, NEW place, place \notin Unstarted, Stands(R, run, r, place)
    PROVE  Turns(R, r) /\ R[r].at = place
BY DEF Stands, Turns, Alike

LEMMA TurnsThenStands ==
    ASSUME NEW R, NEW S, NEW r \in Runs, NEW place, place \notin Unstarted, Turns(R, r),
           Stands(S, R, r, place)
    PROVE  Turns(S, r) /\ S[r].at = place
BY DEF Stands, Turns, Alike

\* runtime.abort() tells a prompt to stop, and does nothing else.
LEMMA AbortTurns ==
    ASSUME NEW R, NEW r \in Runs, Turns(R, r)
    PROVE  Turns(AgentAborted(R), r) /\ AgentAborted(R)[r].at = R[r].at
<1> DEFINE S == AgentAborted(R)
<1>1. \A q \in Runs : S[q] = R[q] \/ S[q] = [R[q] EXCEPT !.cancelled = TRUE]
  BY DEF AgentAborted
<1>2. S = [q \in Runs |-> S[q]]
  BY DEF AgentAborted
<1> HIDE DEF S
<1>3. ASSUME NEW q \in Runs
      PROVE  S[q] \in Records /\ S[q].at = R[q].at /\ Alike(S[q], R[q])
  <2>1. R[q] \in Records
    BY DEF Turns
  <2>2. CASE S[q] = R[q]
    BY <2>1, <2>2 DEF Alike
  <2>3. CASE S[q] = [R[q] EXCEPT !.cancelled = TRUE]
    BY <2>1, <2>3 DEF Records, Alike
  <2>4. QED
    BY <1>1, <2>2, <2>3
<1>4. S \in [Runs -> Records]
  BY <1>2, <1>3
<1>5. Turns(S, r) /\ S[r].at = R[r].at
  BY <1>3, <1>4 DEF Turns, Alike
<1>6. QED
  BY <1>5 DEF S

\* What fits at a run fits at one that is alike and stands at the same place.
LEMMA AlikeFits ==
    ASSUME NEW c, NEW t, NEW u, NEW r, NEW x, NEW y, FitsAt(c, r, x, t), y.at = x.at, Alike(y, x),
           u.key = t.key, u.active \in {t.active, None}, u.tools \in {t.tools, None}
    PROVE  FitsAt(c, r, y, u)
<1>1. EndOK(y) /\ PlaceOK(y) /\ LinkOK(c, r, y)
  BY DEF FitsAt, Alike, EndOK, PlaceOK, LinkOK
<1>2. ~destroyed => LiveOK(c, r, y)
  BY DEF FitsAt, Alike, LiveOK
<1>3. HoldsRuntime(c, r, y, u)
  BY DEF FitsAt, Alike, HoldsRuntime
<1>4. QED
  BY <1>1, <1>2, <1>3 DEF FitsAt

\* The code of r goes on to its next await, and leaves the controller alone.
LEMMA TurnStep ==
    ASSUME IInv, NEW r \in Runs, run[r].at \notin Unstarted, Turns(run', r),
           ctl.active = r => run'[r].at \in Executing,
           run'[r].at \in Owning => run[r].at \in Owning,
           UNCHANGED <<ctl, destroyed, compaction>>,
           rt' \in Runtimes, rt'.key = rt.key, rt'.active \in {rt.active, None},
           rt'.tools \in {rt.tools, None}
    PROVE  IInv' /\ Kept
<1>1. \A q \in Runs : FitsAt(ctl, q, run[q], rt)
  BY DEF IInv, Fit
<1>2. \A q \in Runs \ {r} : FitsAt(ctl, q, run'[q], rt')
  BY <1>1, AlikeFits DEF Turns
<1>3. FitsAt(ctl, r, run'[r], rt')
  <2>1. FitsAt(ctl, r, run[r], rt) /\ Alike(run'[r], run[r]) /\ run'[r].at \notin Unstarted
    BY <1>1 DEF Turns
  <2>2. EndOK(run'[r])
    BY <2>1 DEF FitsAt, Alike, EndOK
  <2>3. PlaceOK(run'[r])
    BY <2>1 DEF FitsAt, Alike, PlaceOK, Unstarted
  <2>4. LinkOK(ctl, r, run'[r])
    BY <2>1 DEF FitsAt, Alike, LinkOK, Unstarted
  <2>5. ~destroyed => LiveOK(ctl, r, run'[r])
    BY <2>1 DEF FitsAt, Alike, LiveOK, Unstarted
  <2>6. HoldsRuntime(ctl, r, run'[r], rt')
    BY <2>1 DEF FitsAt, Alike, HoldsRuntime
  <2>7. QED
    BY <2>2, <2>3, <2>4, <2>5, <2>6 DEF FitsAt
<1>4. \A q \in Runs : FitsAt(ctl, q, run'[q], rt')
  BY <1>2, <1>3
<1>5. Fit(ctl, run, rt)'
  BY <1>4 DEF IInv, Fit, FitsAt, Turns
<1>6. LaneNeverForgotten'
  BY DEF IInv, LaneNeverForgotten, Turns, Alike
<1>7. CompactionOwns'
  BY NoneIsNoId, CompactionIsNoRun DEF IInv, CompactionOwns
<1>8. Kept
  BY DEF Kept, Turns, Alike
<1>9. QED
  BY <1>5, <1>6, <1>7, <1>8 DEF IInv

\* The code of r, or abort(), releases the lease, finalizes the run, and starts the next one.
LEMMA SettleStep ==
    ASSUME IInv, NEW r \in Runs, run[r].at \notin Unstarted, NEW R, Turns(R, r),
           NEW status \in {"completed", "error"}, Settle(R, r, status),
           UNCHANGED <<destroyed, compaction>>
    PROVE  IInv' /\ Kept
<1> DEFINE c == Released(ctl, r, R[r].session)
           F == Finalized(R, r, status)
<1>1. /\ ctl \in Controllers /\ Consistent(ctl) /\ rt \in Runtimes
      /\ \A q \in Runs : FitsAt(ctl, q, run[q], rt)
  BY DEF IInv, Fit
<1>2. R \in [Runs -> Records] /\ R[r].session = run[r].session /\ R[r].session \in Sessions
  BY <1>1 DEF Turns, Alike, FitsAt, PlaceOK, Unstarted
<1>3. /\ c \in Controllers /\ Consistent(c) /\ c.global = ctl.global
      /\ c.active # r
      /\ c.active \in {None, ctl.active}
      /\ \A q \in Runs : c.owner[q] \in {None, ctl.owner[q]}
      /\ \A q \in Runs : Position(c, q) = Position(ctl, q)
  BY <1>1, <1>2, ReleasedLeavesQueue DEF FitsAt, LinkOK
<1>4. EndOK(R[r])
  BY <1>1 DEF Turns, Alike, FitsAt, EndOK
<1>5. /\ F \in [Runs -> Records]
      /\ \A q \in Runs \ {r} : F[q] = R[q]
      /\ EndOK(F[r]) /\ Terminal(F[r].status)
      /\ Terminal(R[r].status) => F[r].status = R[r].status
      /\ F[r].at = R[r].at /\ F[r].session = R[r].session /\ F[r].known = R[r].known
      /\ F[r].shown = R[r].shown /\ F[r].expiring = R[r].expiring
  BY <1>2, <1>4, FinalizedEnds
<1>6. TryStart(c, F)
  BY DEF Settle
<1> HIDE DEF c, F
<1>7. ASSUME NEW q \in Runs \ {r} PROVE FitsAt(c, q, F[q], rt)
  <2>1. FitsAt(ctl, q, R[q], rt)
    BY <1>1, AlikeFits DEF Turns
  <2>2. LinkOK(c, q, R[q]) /\ HoldsRuntime(c, q, R[q], rt)
    BY <1>3, <2>1, NoneIsNoId DEF FitsAt, LinkOK, HoldsRuntime
  <2>3. ~destroyed => LiveOK(c, q, R[q])
    BY <1>3, <2>1 DEF FitsAt, LiveOK
  <2>4. QED
    BY <1>5, <2>1, <2>2, <2>3 DEF FitsAt
<1>8. FitsAt(c, r, F[r], rt)
  <2>1. F[r].at \notin Unstarted /\ F[r].status \notin {"none", "pending"}
    BY <1>5 DEF Turns, Terminal
  <2>2. FitsAt(ctl, r, run[r], rt) /\ Alike(R[r], run[r])
    BY <1>1 DEF Turns
  <2>3. PlaceOK(F[r])
    BY <1>2, <1>5, <2>1 DEF PlaceOK, Unstarted
  <2>4. LinkOK(c, r, F[r]) /\ HoldsRuntime(c, r, F[r], rt)
    BY <1>2, <1>3, <1>5, <2>2 DEF FitsAt, Alike, LinkOK, HoldsRuntime, Unstarted
  <2>5. ~destroyed => LiveOK(c, r, F[r])
    BY <1>3, <1>5, <2>1, <2>2 DEF FitsAt, Alike, LiveOK, Unstarted
  <2>6. QED
    BY <1>5, <2>3, <2>4, <2>5 DEF FitsAt
<1>9. Fit(c, F, rt)
  BY <1>1, <1>3, <1>5, <1>7, <1>8 DEF Fit
<1>10. IInv' /\ \A q \in Runs : Terminal(F[q].status) => run'[q].status = F[q].status
  BY <1>6, <1>9, TryStartFits DEF IInv
<1>11. \A q \in Runs : Terminal(run[q].status) => F[q].status = run[q].status
  BY <1>5 DEF Turns, Alike
<1>12. QED
  BY <1>10, <1>11 DEF Kept
-----------------------------------------------------------------------------
(******************************* executeRun ********************************)

\* Where no code of executeRun stands that holds the lease, the run is no longer running.
LEMMA TurnTo ==
    ASSUME IInv, NEW r \in Runs, run[r].at \notin Unstarted,
           NEW place \in Places \ Unstarted, place \notin Owning,
           place \in Executing \/ run[r].status # "running" \/ run[r].at \notin Executing,
           Turns(run', r), run'[r].at = place,
           UNCHANGED <<ctl, destroyed, compaction>>,
           rt' \in Runtimes, rt'.key = rt.key, rt'.active \in {rt.active, None},
           rt'.tools \in {rt.tools, None}
    PROVE  IInv' /\ Kept
<1>1. ctl.active = r => run'[r].at \in Executing
  BY DEF IInv, Fit, FitsAt, LinkOK
<1>2. QED
  BY <1>1, TurnStep

LEMMA Quiet ==
    ASSUME IInv, UNCHANGED rt
    PROVE  /\ rt' \in Runtimes /\ rt'.key = rt.key /\ rt'.active \in {rt.active, None}
           /\ rt'.tools \in {rt.tools, None}
BY DEF IInv, Fit

LEMMA PlacesKnown ==
    /\ \A p \in {"rejected", "guarded", "claimed", "preflightFailed", "failing", "cleanupRejected"} :
          p \in Places \ Unstarted /\ p \in Executing /\ p \notin Owning
    /\ \A p \in {"preflight", "prompting", "answered", "closing"} :
          p \in Places \ Unstarted /\ p \in Executing /\ p \in Owning
    /\ \A p \in {"cleanup", "done"} : p \in Places \ Unstarted /\ p \notin Owning
    /\ "refused" \in Places \ Unstarted /\ "refused" \in Executing /\ "refused" \notin Owning
BY DEF Places, Unstarted, Executing, Owning

LEMMA RunsTyped ==
    ASSUME IInv
    PROVE  run \in [Runs -> Records]
BY DEF IInv, Fit

\* Only one field besides `at` that nobody else reads is set.
LEMMA TimerStands ==
    ASSUME IInv, NEW r \in Runs, NEW place \in Places, NEW armed \in BOOLEAN
    PROVE  Stands([run EXCEPT ![r].at = place, ![r].timer = armed], run, r, place)
<1> DEFINE x == [run[r] EXCEPT !.at = place, !.timer = armed]
<1>1. run \in [Runs -> Records] /\ run[r] \in Records
  BY RunsTyped
<1>2. x \in Records /\ x.at = place /\ Alike(x, run[r])
  BY <1>1 DEF Records, Alike
<1>3. [run EXCEPT ![r].at = place, ![r].timer = armed] = [run EXCEPT ![r] = x]
  BY <1>1
<1> HIDE DEF x
<1>4. QED
  BY <1>1, <1>2, <1>3 DEF Stands

LEMMA ToldStands ==
    ASSUME IInv, NEW r \in Runs
    PROVE  Stands([run EXCEPT ![r].cancelled = FALSE], run, r, run[r].at)
<1> DEFINE x == [run[r] EXCEPT !.cancelled = FALSE]
<1>1. run \in [Runs -> Records] /\ run[r] \in Records
  BY RunsTyped
<1>2. x \in Records /\ x.at = run[r].at /\ Alike(x, run[r])
  BY <1>1 DEF Records, Alike
<1>3. [run EXCEPT ![r].cancelled = FALSE] = [run EXCEPT ![r] = x]
  BY <1>1
<1> HIDE DEF x
<1>4. QED
  BY <1>1, <1>2, <1>3 DEF Stands

\* The code of r is where it was, with a changed record, and goes on to `place`.
LEMMA FinalizingTurns ==
    ASSUME NEW R, NEW r \in Runs, Turns(R, r), NEW place \in Places \ Unstarted,
           NEW who \in {"run", "timer"}
    PROVE  /\ Turns(Finalizing([R EXCEPT ![r].at = place], r, who), r)
           /\ Finalizing([R EXCEPT ![r].at = place], r, who)[r].at = place
<1>1. Stands(Finalizing([R EXCEPT ![r].at = place], r, who), R, r, place)
  BY FinalizingStands DEF Turns
<1>2. QED
  BY <1>1, TurnsThenStands

LEMMA PlacedTurns ==
    ASSUME NEW R, NEW r \in Runs, Turns(R, r), NEW place \in Places \ Unstarted
    PROVE  /\ Turns([R EXCEPT ![r].at = place], r)
           /\ [R EXCEPT ![r].at = place][r].at = place
<1> DEFINE S == [R EXCEPT ![r].at = place]
<1>1. Stands(S, R, r, place)
  BY PlacedStands DEF Turns
<1> HIDE DEF S
<1>2. Turns(S, r) /\ S[r].at = place
  BY <1>1, TurnsThenStands
<1>3. QED
  BY <1>2 DEF S

LEMMA NowTurns ==
    ASSUME IInv, NEW r \in Runs, run[r].at \notin Unstarted
    PROVE  Turns(run, r)
BY RunsTyped DEF Turns, Alike

LEMMA ResumedTurns ==
    ASSUME IInv, NEW r \in Runs, NEW place \in Places \ Unstarted
    PROVE  Turns(Resumed(r, place), r) /\ Resumed(r, place)[r].at = place
BY RunsTyped, ResumedStands, StandsTurns

LEMMA PreflightCatchStep ==
    ASSUME IInv, NEW r \in Runs, run[r].at \notin Unstarted, NEW R, Turns(R, r),
           PreflightCatch(R, r), UNCHANGED compaction
    PROVE  IInv' /\ Kept
<1>1. R[r].status = run[r].status
  BY DEF Turns, Alike
<1>2. CASE R[r].status = "running"
  <2>1. Turns(run', r) /\ run'[r].at = "preflightFailed"
    BY <1>2, FinalizingTurns, PlacesKnown DEF PreflightCatch
  <2>2. QED
    BY <2>1, TurnTo, PlacesKnown, Quiet DEF PreflightCatch
<1>3. CASE R[r].status # "running"
  <2>1. run' = [R EXCEPT ![r].at = "done"]
    BY <1>3 DEF PreflightCatch
  <2>2. Turns(run', r) /\ run'[r].at = "done"
    <3>1. Stands(run', R, r, "done")
      BY <2>1, PlacedStands, PlacesKnown DEF Turns
    <3>2. QED
      BY <3>1, TurnsThenStands, PlacesKnown
  <2>3. QED
    BY <1>1, <1>3, <2>2, TurnTo, PlacesKnown, Quiet DEF PreflightCatch
<1>4. QED
  BY <1>2, <1>3

LEMMA PromptCatchStep ==
    ASSUME IInv, NEW r \in Runs, run[r].at \notin Unstarted, NEW R, Turns(R, r),
           PromptCatch(R, r), UNCHANGED compaction
    PROVE  IInv' /\ Kept
<1>1. R[r].status = run[r].status
  BY DEF Turns, Alike
<1>2. CASE R[r].status = "running"
  <2>1. Turns(run', r) /\ run'[r].at = "failing"
    BY <1>2, FinalizingTurns, PlacesKnown DEF PromptCatch
  <2>2. QED
    BY <2>1, TurnTo, PlacesKnown, Quiet DEF PromptCatch
<1>3. CASE R[r].status # "running"
  <2>1. Turns(run', r) /\ run'[r].at = "cleanup"
    BY <1>3, FinalizingTurns, PlacesKnown DEF PromptCatch, Cleaning
  <2>2. QED
    BY <1>1, <1>3, <2>1, TurnTo, PlacesKnown, Quiet DEF PromptCatch
<1>4. QED
  BY <1>2, <1>3

LEMMA PreflightPassesStep ==
    ASSUME IInv, NEW r \in Runs, PreflightPasses(r), UNCHANGED compaction
    PROVE  IInv' /\ Kept
<1>1. run[r].at = "preflight"
  BY DEF PreflightPasses
<1> DEFINE place == IF Prompting(run) = {} THEN "prompting" ELSE "refused"
<1>2. place \in {"prompting", "refused"}
  OBVIOUS
<1>3. run' = [run EXCEPT ![r].at = place, ![r].timer = TRUE]
  BY DEF PreflightPasses
<1> HIDE DEF place
<1>4. Stands(run', run, r, place)
  BY <1>2, <1>3, TimerStands, PlacesKnown
<1>5. Turns(run', r) /\ run'[r].at = place
  BY <1>2, <1>4, StandsTurns, PlacesKnown
<1>6. QED
  BY <1>1, <1>2, <1>5, TurnStep, PlacesKnown, Quiet DEF PreflightPasses

LEMMA ReplyClaimedStep ==
    ASSUME IInv, NEW r \in Runs, ReplyClaimed(r), UNCHANGED compaction
    PROVE  IInv' /\ Kept
<1>1. run[r].at = "preflight"
  BY DEF ReplyClaimed
<1>2. Turns(run', r) /\ run'[r].at = "claimed"
  BY <1>1, NowTurns, FinalizingTurns, PlacesKnown DEF ReplyClaimed
<1>3. QED
  BY <1>1, <1>2, TurnTo, PlacesKnown, Quiet DEF ReplyClaimed

LEMMA PreflightThrowsStep ==
    ASSUME IInv, NEW r \in Runs, PreflightThrows(r), UNCHANGED compaction
    PROVE  IInv' /\ Kept
<1>1. run[r].at = "preflight" /\ PreflightCatch(run, r)
  BY DEF PreflightThrows
<1>2. QED
  BY <1>1, NowTurns, PreflightCatchStep, PlacesKnown

LEMMA GuardedEndsStep ==
    ASSUME IInv, NEW r \in Runs, GuardedEnds(r), UNCHANGED compaction
    PROVE  IInv' /\ Kept
<1>1. run[r].at = "guarded"
  BY DEF GuardedEnds
<1>2. CASE Settle(Resumed(r, "done"), r, "error") /\ UNCHANGED destroyed
  BY <1>1, <1>2, ResumedTurns, SettleStep, PlacesKnown
<1>3. CASE PreflightCatch(Resumed(r, "guarded"), r)
  BY <1>1, <1>3, ResumedTurns, PreflightCatchStep, PlacesKnown
<1>4. QED
  BY <1>2, <1>3 DEF GuardedEnds

LEMMA ClaimedEndsStep ==
    ASSUME IInv, NEW r \in Runs, ClaimedEnds(r), UNCHANGED compaction
    PROVE  IInv' /\ Kept
<1>1. run[r].at = "claimed"
  BY DEF ClaimedEnds
<1>2. CASE Settle(Resumed(r, "done"), r, "completed") /\ UNCHANGED destroyed
  BY <1>1, <1>2, ResumedTurns, SettleStep, PlacesKnown
<1>3. CASE PreflightCatch(Resumed(r, "claimed"), r)
  BY <1>1, <1>3, ResumedTurns, PreflightCatchStep, PlacesKnown
<1>4. QED
  BY <1>2, <1>3 DEF ClaimedEnds

LEMMA PreflightFailedEndsStep ==
    ASSUME IInv, NEW r \in Runs, PreflightFailedEnds(r), UNCHANGED compaction
    PROVE  IInv' /\ Kept
<1>1. run[r].at = "preflightFailed" /\ UNCHANGED destroyed
  BY DEF PreflightFailedEnds
<1>2. CASE Settle(Resumed(r, "done"), r, "error")
  BY <1>1, <1>2, ResumedTurns, SettleStep, PlacesKnown
<1>3. CASE run' = Resumed(r, "rejected") /\ UNCHANGED <<ctl, rt>>
  BY <1>1, <1>3, ResumedTurns, TurnTo, PlacesKnown, Quiet
<1>4. QED
  BY <1>2, <1>3 DEF PreflightFailedEnds

LEMMA ExecuteRejectedStep ==
    ASSUME IInv, NEW r \in Runs, ExecuteRejected(r), UNCHANGED compaction
    PROVE  IInv' /\ Kept
<1>1. run[r].at = "rejected"
  BY DEF ExecuteRejected
<1>2. QED
  BY <1>1, NowTurns, PlacedTurns, SettleStep, PlacesKnown DEF ExecuteRejected

LEMMA PromptResolvesStep ==
    ASSUME IInv, NEW r \in Runs, PromptResolves(r), UNCHANGED compaction
    PROVE  IInv' /\ Kept
<1> DEFINE R == [run EXCEPT ![r].cancelled = FALSE]
<1>1. run[r].at = "prompting"
  BY DEF PromptResolves
<1>2. Stands(R, run, r, "prompting")
  BY <1>1, ToldStands
<1>3. run' = IF run[r].status = "running" THEN [R EXCEPT ![r].at = "answered"]
                                          ELSE Cleaning(R, r, "cleanup")
  BY DEF PromptResolves
<1> HIDE DEF R
<1>4. Turns(R, r) /\ R \in [Runs -> Records]
  BY <1>2, StandsTurns, PlacesKnown DEF Turns
<1>5. CASE run[r].status = "running"
  <2>1. Stands(run', R, r, "answered")
    BY <1>3, <1>4, <1>5, PlacedStands, PlacesKnown
  <2>2. Turns(run', r) /\ run'[r].at = "answered"
    BY <1>4, <2>1, TurnsThenStands, PlacesKnown
  <2>3. QED
    BY <1>1, <2>2, TurnStep, PlacesKnown, Quiet DEF PromptResolves
<1>6. CASE run[r].status # "running"
  <2>1. run' = Finalizing([R EXCEPT ![r].at = "cleanup"], r, "run")
    BY <1>3, <1>6 DEF Cleaning
  <2>2. Turns(run', r) /\ run'[r].at = "cleanup"
    <3>1. Stands(run', R, r, "cleanup")
      BY <1>4, <2>1, FinalizingStands, PlacesKnown
    <3>2. QED
      BY <1>4, <3>1, TurnsThenStands, PlacesKnown
  <2>3. QED
    BY <1>1, <1>6, <2>2, TurnTo, PlacesKnown, Quiet DEF PromptResolves
<1>7. QED
  BY <1>5, <1>6

LEMMA PromptRejectsStep ==
    ASSUME IInv, NEW r \in Runs, PromptRejects(r), UNCHANGED compaction
    PROVE  IInv' /\ Kept
<1> DEFINE R == [run EXCEPT ![r].cancelled = FALSE]
<1>1. run[r].at \in {"prompting", "refused"} /\ PromptCatch(R, r)
  BY DEF PromptRejects
<1>2. Stands(R, run, r, run[r].at)
  BY ToldStands
<1> HIDE DEF R
<1>3. Turns(R, r)
  BY <1>1, <1>2, StandsTurns, PlacesKnown
<1>4. QED
  BY <1>1, <1>3, PromptCatchStep, PlacesKnown

LEMMA WritesDoneStep ==
    ASSUME IInv, NEW r \in Runs, WritesDone(r), UNCHANGED compaction
    PROVE  IInv' /\ Kept
<1>1. run[r].at = "answered"
  BY DEF WritesDone
<1>2. Turns(run', r) /\ run'[r].at = "closing"
  BY <1>1, NowTurns, FinalizingTurns, PlacesKnown DEF WritesDone
<1>3. QED
  BY <1>1, <1>2, TurnStep, PlacesKnown, Quiet DEF WritesDone

LEMMA ClosingEndsStep ==
    ASSUME IInv, NEW r \in Runs, ClosingEnds(r), UNCHANGED compaction
    PROVE  IInv' /\ Kept
<1>1. run[r].at = "closing"
  BY DEF ClosingEnds
<1>2. CASE Settle(Resumed(r, "cleanup"), r, "completed") /\ UNCHANGED destroyed
  BY <1>1, <1>2, ResumedTurns, SettleStep, PlacesKnown
<1>3. CASE PromptCatch(Resumed(r, "closing"), r)
  BY <1>1, <1>3, ResumedTurns, PromptCatchStep, PlacesKnown
<1>4. QED
  BY <1>2, <1>3 DEF ClosingEnds

LEMMA FailingEndsStep ==
    ASSUME IInv, NEW r \in Runs, FailingEnds(r), UNCHANGED compaction
    PROVE  IInv' /\ Kept
<1>1. run[r].at = "failing" /\ UNCHANGED destroyed
  BY DEF FailingEnds
<1>2. CASE Settle(Resumed(r, "cleanup"), r, "error")
  BY <1>1, <1>2, ResumedTurns, SettleStep, PlacesKnown
<1>3. CASE run' = Resumed(r, "cleanupRejected") /\ UNCHANGED <<ctl, rt>>
  BY <1>1, <1>3, ResumedTurns, TurnTo, PlacesKnown, Quiet
<1>4. QED
  BY <1>2, <1>3 DEF FailingEnds

\* The finally block ends with the lease released, or on its way to the catch that releases it.
LEMMA CleanupEndsStep ==
    ASSUME IInv, NEW r \in Runs, CleanupEnds(r), UNCHANGED compaction
    PROVE  IInv' /\ Kept
<1>1. run[r].at \in {"cleanup", "cleanupRejected"} /\ run[r].at \notin Unstarted
  BY PlacesKnown DEF CleanupEnds
<1>2. CASE run' = Resumed(r, "rejected") /\ UNCHANGED rt
  BY <1>1, <1>2, ResumedTurns, TurnTo, PlacesKnown, Quiet DEF CleanupEnds
<1>3. CASE /\ run' = Resumed(r, IF run[r].at = "cleanup" THEN "done" ELSE "rejected")
           /\ rt' = IF rt.key = run[r].session
                    THEN [rt EXCEPT !.active = None,
                                    !.tools = IF PerRunTools THEN None ELSE @]
                    ELSE rt
  <2> DEFINE place == IF run[r].at = "cleanup" THEN "done" ELSE "rejected"
  <2>1. rt \in Runtimes
    BY DEF IInv, Fit
  <2>2. /\ rt' \in Runtimes /\ rt'.key = rt.key /\ rt'.active \in {rt.active, None}
        /\ rt'.tools \in {rt.tools, None}
    BY <1>3, <2>1 DEF Runtimes
  <2>3. place \in {"done", "rejected"} /\ (place = "done" => run[r].at \notin Executing)
    BY DEF Executing
  <2> HIDE DEF place
  <2>4. Turns(run', r) /\ run'[r].at = place
    BY <1>3, <2>3, ResumedTurns, PlacesKnown DEF place
  <2>5. QED
    BY <1>1, <2>2, <2>3, <2>4, TurnTo, PlacesKnown DEF CleanupEnds
<1>4. QED
  BY <1>2, <1>3 DEF CleanupEnds
-----------------------------------------------------------------------------
(********************************* timers **********************************)

\* runtime.abort() alone changes nothing that fits.
LEMMA StreamIdleStep ==
    ASSUME IInv, NEW r \in Runs, StreamIdle(r), UNCHANGED compaction
    PROVE  IInv' /\ Kept
<1>1. run[r].at = "prompting"
  BY DEF StreamIdle
<1>2. Turns(run', r) /\ run'[r].at = "prompting"
  BY <1>1, NowTurns, AbortTurns, PlacesKnown DEF StreamIdle
<1>3. QED
  BY <1>1, <1>2, TurnStep, PlacesKnown, Quiet DEF StreamIdle

\* A running run or one that has ended is none that has not begun.
LEMMA BegunIsStarted ==
    ASSUME IInv, NEW r \in Runs
    PROVE  /\ run[r].status = "running" => run[r].at \notin Unstarted
           /\ run[r].at \notin Unstarted => run[r].status \notin {"none", "pending"}
BY DEF IInv, Fit, FitsAt, PlaceOK, Unstarted

\* The record of r alone changes, in what nothing else depends on.
LEMMA RecordStep ==
    ASSUME IInv, NEW r \in Runs, NEW x \in Records, run' = [run EXCEPT ![r] = x],
           x.at = run[r].at, x.status = run[r].status, x.session = run[r].session,
           x.expiring = run[r].expiring, EndOK(x), x.at = "idle" => x.shown = None /\ x.waiter = "none",
           ~destroyed => LiveOK(ctl, r, x),
           UNCHANGED <<ctl, rt, destroyed, compaction>>
    PROVE  IInv' /\ Kept
<1>1. /\ \A q \in Runs : FitsAt(ctl, q, run[q], rt)
      /\ run \in [Runs -> Records]
  BY DEF IInv, Fit
<1>2. run'[r] = x /\ run' \in [Runs -> Records] /\ \A q \in Runs \ {r} : run'[q] = run[q]
  BY <1>1
<1>3. FitsAt(ctl, r, x, rt)
  BY <1>1 DEF FitsAt, PlaceOK, LinkOK, HoldsRuntime
<1>4. \A q \in Runs : FitsAt(ctl, q, run'[q], rt)
  BY <1>1, <1>2, <1>3
<1>5. Fit(ctl, run, rt)'
  BY <1>2, <1>4 DEF IInv, Fit, FitsAt
<1>6. LaneNeverForgotten'
  BY <1>2 DEF IInv, LaneNeverForgotten
<1>7. CompactionOwns' /\ Kept
  BY <1>2 DEF IInv, CompactionOwns, Kept
<1>8. QED
  BY <1>5, <1>6, <1>7 DEF IInv

\* The run timeout releases the lease of a run that is running, and finalizes it later.
LEMMA TimeoutFiresStep ==
    ASSUME IInv, NEW r \in Runs, TimeoutFires(r), UNCHANGED compaction
    PROVE  IInv' /\ Kept
<1> DEFINE fired == [run EXCEPT ![r].timer = FALSE]
<1>1. /\ run \in [Runs -> Records] /\ run[r] \in Records /\ FitsAt(ctl, r, run[r], rt)
      /\ ctl \in Controllers /\ Consistent(ctl) /\ rt \in Runtimes
      /\ \A q \in Runs : FitsAt(ctl, q, run[q], rt)
  BY DEF IInv, Fit
<1>2. CASE run[r].status # "running"
  <2> DEFINE x == [run[r] EXCEPT !.timer = FALSE]
  <2>1. run' = [run EXCEPT ![r] = x] /\ UNCHANGED ctl
    BY <1>1, <1>2 DEF TimeoutFires
  <2>2. /\ x \in Records /\ x.at = run[r].at /\ x.status = run[r].status
        /\ x.session = run[r].session /\ x.expiring = run[r].expiring
        /\ x.known = run[r].known /\ x.params = run[r].params /\ x.shown = run[r].shown
        /\ x.announced = run[r].announced /\ x.waiter = run[r].waiter
    BY <1>1 DEF Records
  <2> HIDE DEF x
  <2>3. EndOK(x) /\ (x.at = "idle" => x.shown = None /\ x.waiter = "none")
    BY <1>1, <2>2 DEF FitsAt, EndOK, PlaceOK
  <2>4. ~destroyed => LiveOK(ctl, r, x)
    BY <1>1, <2>2 DEF FitsAt, LiveOK
  <2>5. QED
    BY <2>1, <2>2, <2>3, <2>4, RecordStep DEF TimeoutFires
<1>3. CASE run[r].status = "running"
  <2> DEFINE x == [run[r] EXCEPT !.timer = FALSE, !.expiring = TRUE]
             R == [run EXCEPT ![r] = x]
             S == AgentAborted(R)
             c == Released(ctl, r, run[r].session)
  <2>1. run[r].at \notin Unstarted /\ run[r].session \in Sessions
    BY <1>1, <1>3, BegunIsStarted DEF FitsAt, PlaceOK, Unstarted
  <2>2. /\ c \in Controllers /\ Consistent(c) /\ c.global = ctl.global
        /\ c.active # r
        /\ c.active \in {None, ctl.active}
        /\ \A q \in Runs : c.owner[q] \in {None, ctl.owner[q]}
        /\ \A q \in Runs : Position(c, q) = Position(ctl, q)
    BY <1>1, <2>1, ReleasedLeavesQueue DEF FitsAt, LinkOK
  <2>3. /\ x \in Records /\ x.at = run[r].at /\ x.status = run[r].status
        /\ x.session = run[r].session /\ x.expiring = TRUE
        /\ x.known = run[r].known /\ x.params = run[r].params /\ x.shown = run[r].shown
        /\ x.announced = run[r].announced /\ x.waiter = run[r].waiter
    BY <1>1 DEF Records
  <2>4. [fired EXCEPT ![r].expiring = TRUE] = R
    BY <1>1
  <2>5. run' = Finalizing(S, r, "timer") /\ ctl' = c /\ UNCHANGED <<rt, destroyed>>
    BY <1>3, <2>4 DEF TimeoutFires
  <2> HIDE DEF x, c
  <2>6. R \in [Runs -> Records] /\ R[r] = x /\ \A q \in Runs \ {r} : R[q] = run[q]
    BY <1>1, <2>3
  <2> HIDE DEF R
  <2>7. \A q \in Runs : run'[q].at = R[q].at /\ Alike(run'[q], R[q]) /\ run'[q] \in Records
    <3> SUFFICES ASSUME NEW q \in Runs
                 PROVE  run'[q].at = R[q].at /\ Alike(run'[q], R[q]) /\ run'[q] \in Records
      OBVIOUS
    <3>1. R[q] \in Records
      BY <2>6
    <3>2. S[q] = R[q] \/ S[q] = [R[q] EXCEPT !.cancelled = TRUE]
      BY DEF AgentAborted
    <3>3. DOMAIN S = Runs
      BY DEF AgentAborted
    <3> HIDE DEF S
    <3>4. S[q] \in Records /\ S[q].at = R[q].at /\ Alike(S[q], R[q])
      BY <3>1, <3>2 DEF Records, Alike
    <3>5. S[q].finalizer \in Finalizers /\ "timer" \in Finalizers
      BY <3>4 DEF Records, Finalizers
    <3>6. \E f \in Finalizers : run'[q] = [S[q] EXCEPT !.finalizer = f]
      <4>1. CASE q = r
        BY <2>5, <3>3, <3>5, <4>1 DEF Finalizing
      <4>2. CASE q # r
        <5>1. run'[q] = S[q]
          BY <2>5, <3>3, <4>2 DEF Finalizing
        <5>2. S[q] = [S[q] EXCEPT !.finalizer = S[q].finalizer]
          BY <3>4 DEF Records
        <5>3. QED
          BY <3>5, <5>1, <5>2
      <4>3. QED
        BY <4>1, <4>2
    <3>7. QED
      BY <3>4, <3>6 DEF Records, Alike
  <2>8. run' \in [Runs -> Records]
    <3>1. run' = [q \in Runs |-> run'[q]]
      BY <2>5 DEF Finalizing, AgentAborted
    <3>2. QED
      BY <2>7, <3>1
  <2>9. ASSUME NEW q \in Runs \ {r} PROVE FitsAt(c, q, run'[q], rt)
    <3>1. FitsAt(ctl, q, run'[q], rt)
      BY <1>1, <2>6, <2>7, AlikeFits
    <3>2. LinkOK(c, q, run'[q]) /\ HoldsRuntime(c, q, run'[q], rt)
      BY <2>2, <3>1, NoneIsNoId DEF FitsAt, LinkOK, HoldsRuntime
    <3>3. ~destroyed => LiveOK(c, q, run'[q])
      BY <2>2, <3>1 DEF FitsAt, LiveOK
    <3>4. QED
      BY <3>1, <3>2, <3>3 DEF FitsAt
  <2>10. FitsAt(c, r, run'[r], rt)
    <3>1. run'[r].at = run[r].at /\ Alike(run'[r], x)
      BY <2>3, <2>6, <2>7
    <3>2. EndOK(run'[r]) /\ PlaceOK(run'[r])
      BY <1>1, <2>1, <2>3, <3>1 DEF FitsAt, Alike, EndOK, PlaceOK
    <3>3. LinkOK(c, r, run'[r]) /\ HoldsRuntime(c, r, run'[r], rt)
      BY <1>1, <2>2, <2>3, <3>1 DEF FitsAt, Alike, LinkOK, HoldsRuntime
    <3>4. ~destroyed => LiveOK(c, r, run'[r])
      BY <1>1, <2>2, <2>3, <3>1 DEF FitsAt, Alike, LiveOK
    <3>5. QED
      BY <3>2, <3>3, <3>4 DEF FitsAt
  <2>11. \A q \in Runs : FitsAt(c, q, run'[q], rt)
    BY <2>9, <2>10
  <2>12. Fit(ctl, run, rt)'
    BY <1>1, <2>2, <2>5, <2>8, <2>11 DEF Fit, FitsAt
  <2>13. run'[r].expiring
    BY <2>3, <2>6, <2>7 DEF Alike
  <2>14. LaneNeverForgotten' /\ CompactionOwns'
    BY <2>5, <2>13 DEF LaneNeverForgotten, IInv, CompactionOwns
  <2>15. Kept
    BY <2>3, <2>6, <2>7 DEF Kept, Alike
  <2>16. QED
    BY <2>5, <2>12, <2>14, <2>15 DEF IInv
<1>4. QED
  BY <1>2, <1>3

\* A run that is made final fits where it no longer waits and has no lease.
LEMMA FinalFits ==
    ASSUME NEW c \in Controllers, Consistent(c), NEW t \in Runtimes, NEW R \in [Runs -> Records],
           NEW r \in Runs, \A q \in Runs \ {r} : FitsAt(c, q, R[q], t),
           EndOK(R[r]), R[r].at \notin Unstarted, R[r].session \in Sessions,
           r \notin ToSet(c.global), c.active # r, c.owner[r] \in {None, R[r].session},
           ~destroyed /\ R[r].known => R[r].shown = Position(c, r),
           NEW status \in {"completed", "error"}
    PROVE  /\ Fit(c, Finalized(R, r, status), t)
           /\ \A q \in Runs : Terminal(R[q].status) => Finalized(R, r, status)[q].status = R[q].status
           /\ \A q \in Runs : Finalized(R, r, status)[q].expiring = R[q].expiring
<1> DEFINE F == Finalized(R, r, status)
<1>1. /\ F \in [Runs -> Records]
      /\ \A q \in Runs \ {r} : F[q] = R[q]
      /\ EndOK(F[r]) /\ Terminal(F[r].status)
      /\ Terminal(R[r].status) => F[r].status = R[r].status
      /\ F[r].at = R[r].at /\ F[r].session = R[r].session /\ F[r].known = R[r].known
      /\ F[r].shown = R[r].shown /\ F[r].expiring = R[r].expiring
  BY FinalizedEnds
<1> HIDE DEF F
<1>2. FitsAt(c, r, F[r], t)
  <2>1. F[r].at \notin Unstarted /\ F[r].status \notin {"none", "pending"}
    BY <1>1 DEF Terminal
  <2>2. PlaceOK(F[r])
    BY <1>1, <2>1 DEF PlaceOK, Unstarted
  <2>3. LinkOK(c, r, F[r]) /\ HoldsRuntime(c, r, F[r], t)
    BY <1>1 DEF LinkOK, HoldsRuntime
  <2>4. ~destroyed => LiveOK(c, r, F[r])
    BY <1>1, <2>1 DEF LiveOK, Unstarted
  <2>5. QED
    BY <1>1, <2>2, <2>3, <2>4 DEF FitsAt
<1>3. \A q \in Runs : FitsAt(c, q, F[q], t)
  BY <1>1, <1>2
<1>4. Fit(c, F, t)
  BY <1>1, <1>3 DEF Fit
<1>5. QED
  BY <1>1, <1>4 DEF F

\* The timeout's continuation: the run has no lease any more, whatever its code did meanwhile.
LEMMA TimeoutEndsStep ==
    ASSUME IInv, NEW r \in Runs, TimeoutEnds(r), UNCHANGED compaction
    PROVE  IInv' /\ Kept
<1> DEFINE x == [run[r] EXCEPT !.expiring = FALSE]
           R == [run EXCEPT ![r] = x]
           F == Finalized(R, r, "error")
<1>1. /\ run \in [Runs -> Records] /\ run[r] \in Records /\ FitsAt(ctl, r, run[r], rt)
      /\ ctl \in Controllers /\ Consistent(ctl) /\ rt \in Runtimes
      /\ \A q \in Runs : FitsAt(ctl, q, run[q], rt)
  BY DEF IInv, Fit
<1>2. /\ x \in Records /\ x.at = run[r].at /\ x.status = run[r].status
      /\ x.session = run[r].session
      /\ x.known = run[r].known /\ x.params = run[r].params /\ x.shown = run[r].shown
      /\ x.announced = run[r].announced /\ x.waiter = run[r].waiter
  BY <1>1 DEF Records
<1>3. [run EXCEPT ![r].expiring = FALSE] = R
  BY <1>1
<1>4. TryStart(ctl, F) /\ UNCHANGED destroyed /\ run[r].expiring
  BY <1>3 DEF TimeoutEnds
<1> HIDE DEF x
<1>5. R \in [Runs -> Records] /\ R[r] = x /\ \A q \in Runs \ {r} : R[q] = run[q]
  BY <1>1, <1>2
<1> HIDE DEF R
<1>6. \A q \in Runs \ {r} : FitsAt(ctl, q, R[q], rt)
  BY <1>1, <1>5
<1>7. /\ EndOK(R[r]) /\ R[r].at \notin Unstarted /\ R[r].session \in Sessions
      /\ r \notin ToSet(ctl.global) /\ ctl.active # r /\ ctl.owner[r] \in {None, R[r].session}
  BY <1>1, <1>2, <1>4, <1>5 DEF FitsAt, EndOK, PlaceOK, LinkOK, Unstarted
<1>8. ~destroyed /\ R[r].known => R[r].shown = Position(ctl, r)
  BY <1>1, <1>2, <1>5 DEF FitsAt, LiveOK
<1>9. Fit(ctl, F, rt) /\ \A q \in Runs : Terminal(R[q].status) => F[q].status = R[q].status
  BY <1>1, <1>5, <1>6, <1>7, <1>8, FinalFits
<1> HIDE DEF F
<1>10. IInv' /\ \A q \in Runs : Terminal(F[q].status) => run'[q].status = F[q].status
  BY <1>4, <1>9, TryStartFits DEF IInv
<1>11. \A q \in Runs : R[q].status = run[q].status
  BY <1>2, <1>5
<1>12. QED
  BY <1>9, <1>10, <1>11 DEF Kept

LEMMA EvictStep ==
    ASSUME IInv, NEW r \in Runs, Evict(r), UNCHANGED compaction
    PROVE  IInv' /\ Kept
<1> DEFINE x == [run[r] EXCEPT !.known = FALSE, !.params = FALSE]
<1>1. run \in [Runs -> Records] /\ run[r] \in Records /\ FitsAt(ctl, r, run[r], rt)
  BY DEF IInv, Fit
<1>2. run' = [run EXCEPT ![r] = x]
  BY <1>1 DEF Evict
<1>3. /\ x \in Records /\ x.at = run[r].at /\ x.status = run[r].status
      /\ x.session = run[r].session /\ x.expiring = run[r].expiring
      /\ x.known = FALSE /\ x.shown = run[r].shown
      /\ x.announced = run[r].announced /\ x.waiter = run[r].waiter
  BY <1>1 DEF Records
<1> HIDE DEF x
<1>4. run[r].at \notin Unstarted
  BY <1>1 DEF Evict, Terminal, FitsAt, PlaceOK, Unstarted
<1>5. EndOK(x) /\ LiveOK(ctl, r, x)
  BY <1>1, <1>3, <1>4 DEF FitsAt, EndOK, LiveOK, Unstarted
<1>6. QED
  BY <1>2, <1>3, <1>4, <1>5, RecordStep DEF Evict, Unstarted
-----------------------------------------------------------------------------
(******************************* wait, abort *******************************)

\* Who waits changes nothing but who waits.
LEMMA WaiterStep ==
    ASSUME IInv, NEW r \in Runs, run[r].at # "idle", NEW w \in WaiterStates,
           Terminal(run[r].status) => w # "waiting",
           w = "ok" => run[r].status = "completed",
           w = "error" /\ run[r].known => run[r].status = "error",
           run' = [run EXCEPT ![r].waiter = w], UNCHANGED <<ctl, rt, destroyed, compaction>>
    PROVE  IInv' /\ Kept
<1> DEFINE x == [run[r] EXCEPT !.waiter = w]
<1>1. run \in [Runs -> Records] /\ run[r] \in Records /\ FitsAt(ctl, r, run[r], rt)
  BY DEF IInv, Fit
<1>2. run' = [run EXCEPT ![r] = x]
  BY <1>1
<1>3. /\ x \in Records /\ x.at = run[r].at /\ x.status = run[r].status
      /\ x.session = run[r].session /\ x.expiring = run[r].expiring
      /\ x.known = run[r].known /\ x.params = run[r].params /\ x.shown = run[r].shown
      /\ x.announced = run[r].announced /\ x.waiter = w
  BY <1>1 DEF Records
<1> HIDE DEF x
<1>4. EndOK(x) /\ (~destroyed => LiveOK(ctl, r, x))
  BY <1>1, <1>3 DEF FitsAt, EndOK, LiveOK
<1>5. QED
  BY <1>2, <1>3, <1>4, RecordStep

LEMMA WaitStep ==
    ASSUME IInv, NEW r \in Runs, Wait(r), UNCHANGED compaction
    PROVE  IInv' /\ Kept
<1> DEFINE w == IF ~run[r].known \/ run[r].status = "error" THEN "error"
                ELSE IF run[r].status = "completed" THEN "ok"
                ELSE "waiting"
<1>1. /\ w \in WaiterStates
      /\ Terminal(run[r].status) => w # "waiting"
      /\ w = "ok" => run[r].status = "completed"
      /\ w = "error" /\ run[r].known => run[r].status = "error"
  BY DEF WaiterStates, Terminal
<1>2. run' = [run EXCEPT ![r].waiter = w]
  BY DEF Wait
<1> HIDE DEF w
<1>3. QED
  BY <1>1, <1>2, WaiterStep DEF Wait

LEMMA WaitTimesOutStep ==
    ASSUME IInv, NEW r \in Runs, WaitTimesOut(r), UNCHANGED compaction
    PROVE  IInv' /\ Kept
<1>1. run[r].at # "idle"
  BY DEF WaitTimesOut, IInv, Fit, FitsAt, PlaceOK
<1>2. QED
  BY <1>1, WaiterStep DEF WaitTimesOut, WaiterStates

\* A run is withdrawn from both lanes; the runs behind it move up and clients hear of it.
LEMMA AbortQueuedStep ==
    ASSUME IInv, NEW r \in Runs, Removable(ctl, r), AbortQueued(r),
           UNCHANGED <<destroyed, compaction>>
    PROVE  IInv' /\ Kept
<1> DEFINE c == AbortedPending(ctl, r)
           x == [run[r] EXCEPT !.at = "done", !.params = FALSE, !.shown = None]
           R == [run EXCEPT ![r] = x]
           S == Shown(R, ctl, c, r)
           F == Finalized(S, r, "error")
<1>1. /\ run \in [Runs -> Records] /\ run[r] \in Records /\ FitsAt(ctl, r, run[r], rt)
      /\ ctl \in Controllers /\ Consistent(ctl) /\ rt \in Runtimes
      /\ \A q \in Runs : FitsAt(ctl, q, run[q], rt)
  BY DEF IInv, Fit
<1>2. /\ c \in Controllers /\ Consistent(c) /\ c.active = ctl.active
      /\ c.owner = [ctl.owner EXCEPT ![r] = None] /\ ctl.active # r
      /\ ToSet(c.global) = ToSet(ctl.global) \ {r}
  <2>1. c \in Controllers /\ Consistent(c) /\ c.active = ctl.active
    BY <1>1, AbortedPendingConsistent
  <2>2. r \in ToSet(ctl.global) /\ ctl.global \in Seq(Runs) /\ IsInjective(ctl.global)
    BY <1>1 DEF Removable, Controllers, Consistent, LanesListSameRuns
  <2>3. /\ c.global = RemoveFirst(ctl.global, r) /\ c.owner = [ctl.owner EXCEPT ![r] = None]
        /\ ctl.active # r
    BY <1>1 DEF AbortedPending, Removable, Controllers
  <2>4. ToSet(c.global) = ToSet(ctl.global) \ {r}
    BY <2>2, <2>3, RemoveFirstThins
  <2>5. QED
    BY <2>1, <2>3, <2>4
<1>3. [run EXCEPT ![r].at = "done", ![r].params = FALSE, ![r].shown = None] = R
  BY <1>1
<1>4. TryStart(c, F)
  BY <1>3 DEF AbortQueued
<1>5. run[r].at = "queued" /\ run[r].session \in Sessions /\ ~Terminal(run[r].status)
  BY <1>1 DEF Removable, FitsAt, LinkOK, PlaceOK, Unstarted, Terminal
<1>6. /\ x \in Records /\ x.at = "done" /\ x.shown = None /\ x.status = run[r].status
      /\ x.session = run[r].session /\ x.known = run[r].known
      /\ x.announced = run[r].announced /\ x.waiter = run[r].waiter
  BY <1>1, PlacesKnown DEF Records, Shows
<1> HIDE DEF c, x
<1>7. R \in [Runs -> Records] /\ R[r] = x /\ \A q \in Runs \ {r} : R[q] = run[q]
  BY <1>1, <1>6
<1> HIDE DEF R
<1>8. Follows(S, R, ctl, c, r)
  BY <1>2, <1>7, ShownFollows
<1> HIDE DEF S
<1>9. S \in [Runs -> Records] /\ S[r] = x
  BY <1>7, <1>8 DEF Follows
<1>10. ASSUME NEW q \in Runs \ {r}
       PROVE  FitsAt(c, q, S[q], rt) /\ S[q].status = run[q].status
  <2>1. PICK sh \in Shows : /\ S[q] = [run[q] EXCEPT !.shown = sh]
                            /\ sh \in {run[q].shown, Position(c, q)}
                            /\ run[q].known /\ run[q].shown = Position(ctl, q) => sh = Position(c, q)
    BY <1>7, <1>8 DEF Follows
  <2>2. run[q] \in Records /\ c.owner[q] = ctl.owner[q]
    BY <1>1, <1>2 DEF Controllers
  <2>3. FitsAt(c, q, [run[q] EXCEPT !.shown = sh], rt)
    BY <1>1, <1>2, <2>1, <2>2, OthersFit
  <2>4. QED
    BY <2>1, <2>2, <2>3 DEF Records
<1>11. /\ EndOK(S[r]) /\ S[r].at \notin Unstarted /\ S[r].session \in Sessions
       /\ r \notin ToSet(c.global) /\ c.active # r
  BY <1>1, <1>2, <1>5, <1>6, <1>9, PlacesKnown DEF FitsAt, EndOK
<1>12. /\ c.owner[r] \in {None, S[r].session}
       /\ ~destroyed /\ S[r].known => S[r].shown = Position(c, r)
  BY <1>1, <1>2, <1>6, <1>9 DEF Controllers, Position
<1>13. Fit(c, F, rt) /\ \A q \in Runs : Terminal(S[q].status) => F[q].status = S[q].status
  <2>1. c \in Controllers /\ Consistent(c) /\ rt \in Runtimes /\ S \in [Runs -> Records]
    BY <1>1, <1>2, <1>9
  <2>2. \A q \in Runs \ {r} : FitsAt(c, q, S[q], rt)
    BY <1>10
  <2>3. QED
    BY <2>1, <2>2, <1>11, <1>12, FinalFits
<1> HIDE DEF F
<1>14. IInv' /\ \A q \in Runs : Terminal(F[q].status) => run'[q].status = F[q].status
  BY <1>4, <1>13, TryStartFits DEF IInv
<1>15. \A q \in Runs : S[q].status = run[q].status
  BY <1>6, <1>9, <1>10
<1>16. QED
  BY <1>13, <1>14, <1>15 DEF Kept

LEMMA AbortStep ==
    ASSUME IInv, NEW r \in Runs, Abort(r), UNCHANGED compaction
    PROVE  IInv' /\ Kept
<1>1. UNCHANGED <<destroyed, compaction>>
  BY DEF Abort
<1>2. CASE Removable(ctl, r) /\ AbortQueued(r)
  BY <1>1, <1>2, AbortQueuedStep
<1>3. CASE UNCHANGED <<ctl, run, rt>>
  BY <1>1, <1>3 DEF IInv, Fit, FitsAt, LaneNeverForgotten, CompactionOwns, Kept
<1>4. CASE run[r].status = "running" /\ Settle(AgentAborted(run), r, "error")
  <2>1. run[r].at \notin Unstarted
    BY <1>4, BegunIsStarted
  <2>2. Turns(AgentAborted(run), r)
    BY <2>1, NowTurns, AbortTurns
  <2>3. QED
    BY <1>1, <1>4, <2>1, <2>2, SettleStep
<1>5. QED
  BY <1>2, <1>3, <1>4 DEF Abort
-----------------------------------------------------------------------------
(******************************** dispatch *********************************)

\* A step that leaves the controller and the runtime alone need only leave the runs fitting.
LEMMA RunsOnly ==
    ASSUME IInv, Fit(ctl, run', rt), \A q \in Runs : run[q].expiring => run'[q].expiring,
           UNCHANGED <<ctl, rt, destroyed, compaction>>
    PROVE  IInv'
<1>1. Fit(ctl, run, rt)'
  BY DEF Fit, FitsAt
<1>2. LaneNeverForgotten' /\ CompactionOwns'
  BY DEF IInv, LaneNeverForgotten, CompactionOwns
<1>3. QED
  BY <1>1, <1>2 DEF IInv

\* The record of one run is replaced by another that fits.
LEMMA ReplacedFits ==
    ASSUME IInv, NEW r \in Runs, NEW x \in Records, FitsAt(ctl, r, x, rt),
           run' = [run EXCEPT ![r] = x], ~run[r].expiring,
           ~Terminal(run[r].status), UNCHANGED <<ctl, rt, destroyed, compaction>>
    PROVE  IInv' /\ Kept
<1>1. run \in [Runs -> Records] /\ \A q \in Runs : FitsAt(ctl, q, run[q], rt)
  BY DEF IInv, Fit
<1>2. run' \in [Runs -> Records] /\ run'[r] = x /\ \A q \in Runs \ {r} : run'[q] = run[q]
  BY <1>1
<1>3. \A q \in Runs : FitsAt(ctl, q, run'[q], rt)
  BY <1>1, <1>2
<1>4. Fit(ctl, run', rt)
  BY <1>2, <1>3 DEF IInv, Fit
<1>5. IInv'
  BY <1>2, <1>4, RunsOnly
<1>6. QED
  BY <1>2, <1>5 DEF Kept

\* A run whose code stands before the queue has no place in it and no lease.
LEMMA BeforeTheQueue ==
    ASSUME IInv, NEW r \in Runs, run[r].at \in {"idle", "messageHook", "blocked"}
    PROVE  /\ r \notin ToSet(ctl.global) /\ ctl.active # r /\ ctl.owner[r] = None
           /\ Position(ctl, r) = None
           /\ ~run[r].expiring /\ ~Terminal(run[r].status)
           /\ run[r].at # "idle" => run[r].session \in Sessions
           /\ run[r] \in Records /\ FitsAt(ctl, r, run[r], rt)
<1>1. Consistent(ctl) /\ FitsAt(ctl, r, run[r], rt) /\ run[r] \in Records
  BY DEF IInv, Fit
<1>2. r \notin ToSet(ctl.global) /\ ctl.active # r
  BY <1>1 DEF FitsAt, LinkOK, Executing
<1>3. ctl.owner[r] = None
  BY <1>1, <1>2 DEF Consistent, LeaseMatchesActive
<1>4. ~run[r].expiring /\ ~Terminal(run[r].status) /\ (run[r].at # "idle" => run[r].session \in Sessions)
  BY <1>1 DEF FitsAt, PlaceOK, Unstarted, Terminal
<1>5. QED
  BY <1>1, <1>2, <1>3, <1>4 DEF Position

LEMMA DispatchStep ==
    ASSUME IInv, NEW r \in Runs, NEW s \in Sessions, Dispatch(r, s), UNCHANGED compaction
    PROVE  IInv' /\ Kept
<1> DEFINE x == [run[r] EXCEPT !.at = "messageHook", !.status = "pending", !.session = s,
                               !.known = TRUE, !.params = TRUE]
<1>1. run \in [Runs -> Records] /\ run[r].at = "idle"
  BY RunsTyped DEF Dispatch
<1>2. /\ r \notin ToSet(ctl.global) /\ ctl.active # r /\ ctl.owner[r] = None
      /\ Position(ctl, r) = None
      /\ ~run[r].expiring /\ ~Terminal(run[r].status)
      /\ run[r] \in Records /\ FitsAt(ctl, r, run[r], rt)
  BY <1>1, BeforeTheQueue
<1>3. run' = [run EXCEPT ![r] = x]
  BY <1>1 DEF Dispatch
<1>4. x \in Records
  BY <1>2 DEF Records, Places, Statuses
<1>5. /\ x.at = "messageHook" /\ x.status = "pending" /\ x.session = s
      /\ x.known = TRUE /\ x.params = TRUE /\ x.shown = run[r].shown
      /\ x.expiring = run[r].expiring /\ x.announced = run[r].announced
      /\ x.waiter = run[r].waiter
  BY <1>2 DEF Records
<1> HIDE DEF x
<1>6. run[r].shown = None /\ run[r].waiter = "none" /\ run[r].announced = 0
  BY <1>1, <1>2 DEF FitsAt, PlaceOK, EndOK
<1>7. EndOK(x) /\ PlaceOK(x)
  BY <1>2, <1>5, <1>6 DEF EndOK, PlaceOK, Terminal, Unstarted
<1>8. LinkOK(ctl, r, x) /\ LiveOK(ctl, r, x) /\ HoldsRuntime(ctl, r, x, rt)
  BY <1>2, <1>5, <1>6 DEF LinkOK, LiveOK, HoldsRuntime
<1>9. FitsAt(ctl, r, x, rt)
  BY <1>7, <1>8 DEF FitsAt
<1>10. QED
  BY <1>2, <1>3, <1>4, <1>9, ReplacedFits DEF Dispatch

LEMMA MessageBlockedStep ==
    ASSUME IInv, NEW r \in Runs, MessageBlocked(r), UNCHANGED compaction
    PROVE  IInv' /\ Kept
<1> DEFINE x == [run[r] EXCEPT !.at = "blocked", !.params = FALSE]
<1>1. run \in [Runs -> Records] /\ run[r].at = "messageHook"
  BY RunsTyped DEF MessageBlocked
<1>2. /\ r \notin ToSet(ctl.global) /\ ctl.active # r /\ ctl.owner[r] = None
      /\ ~run[r].expiring /\ ~Terminal(run[r].status)
      /\ run[r] \in Records /\ FitsAt(ctl, r, run[r], rt)
  BY <1>1, BeforeTheQueue
<1>3. run' = [run EXCEPT ![r] = x]
  BY <1>1 DEF MessageBlocked
<1>4. /\ x \in Records /\ x.at = "blocked" /\ x.status = run[r].status
      /\ x.session = run[r].session /\ x.known = run[r].known /\ x.shown = run[r].shown
      /\ x.expiring = run[r].expiring /\ x.announced = run[r].announced
      /\ x.waiter = run[r].waiter
  BY <1>2 DEF Records, Places
<1> HIDE DEF x
<1>5. EndOK(x) /\ PlaceOK(x)
  BY <1>1, <1>2, <1>4 DEF FitsAt, EndOK, PlaceOK, Unstarted
<1>6. LinkOK(ctl, r, x) /\ HoldsRuntime(ctl, r, x, rt) /\ (~destroyed => LiveOK(ctl, r, x))
  BY <1>2, <1>4 DEF FitsAt, LinkOK, LiveOK, HoldsRuntime
<1>7. FitsAt(ctl, r, x, rt)
  BY <1>5, <1>6 DEF FitsAt
<1>8. QED
  BY <1>2, <1>3, <1>4, <1>7, ReplacedFits DEF MessageBlocked

LEMMA BlockedEndsStep ==
    ASSUME IInv, NEW r \in Runs, BlockedEnds(r), UNCHANGED compaction
    PROVE  IInv' /\ Kept
<1> DEFINE x == [run[r] EXCEPT !.at = "done"]
           R == [run EXCEPT ![r] = x]
           F == Finalized(R, r, "error")
<1>1. /\ run \in [Runs -> Records] /\ run[r].at = "blocked"
      /\ ctl \in Controllers /\ Consistent(ctl) /\ rt \in Runtimes
      /\ \A q \in Runs : FitsAt(ctl, q, run[q], rt)
  BY DEF IInv, Fit, BlockedEnds
<1>2. /\ r \notin ToSet(ctl.global) /\ ctl.active # r /\ ctl.owner[r] = None
      /\ ~Terminal(run[r].status) /\ run[r].session \in Sessions
      /\ run[r] \in Records /\ FitsAt(ctl, r, run[r], rt)
  BY <1>1, BeforeTheQueue
<1>3. run' = F
  BY <1>1 DEF BlockedEnds
<1>4. /\ x \in Records /\ x.at = "done" /\ x.status = run[r].status
      /\ x.session = run[r].session /\ x.known = run[r].known /\ x.shown = run[r].shown
      /\ x.expiring = run[r].expiring /\ x.announced = run[r].announced
      /\ x.waiter = run[r].waiter
  BY <1>2, PlacesKnown DEF Records
<1> HIDE DEF x
<1>5. R \in [Runs -> Records] /\ R[r] = x /\ \A q \in Runs \ {r} : R[q] = run[q]
  BY <1>1, <1>4
<1> HIDE DEF R
<1>6. \A q \in Runs \ {r} : FitsAt(ctl, q, R[q], rt)
  BY <1>1, <1>5
<1>7. /\ EndOK(R[r]) /\ R[r].at \notin Unstarted /\ R[r].session \in Sessions
      /\ r \notin ToSet(ctl.global) /\ ctl.active # r /\ ctl.owner[r] \in {None, R[r].session}
  BY <1>2, <1>4, <1>5, PlacesKnown DEF FitsAt, EndOK
<1>8. ~destroyed /\ R[r].known => R[r].shown = Position(ctl, r)
  BY <1>2, <1>4, <1>5 DEF FitsAt, LiveOK
<1>9. /\ Fit(ctl, F, rt)
      /\ \A q \in Runs : Terminal(R[q].status) => F[q].status = R[q].status
      /\ \A q \in Runs : F[q].expiring = R[q].expiring
  BY <1>1, <1>5, <1>6, <1>7, <1>8, FinalFits
<1> HIDE DEF F
<1>10. IInv'
  BY <1>3, <1>4, <1>5, <1>9, RunsOnly DEF BlockedEnds
<1>11. QED
  BY <1>3, <1>4, <1>5, <1>9, <1>10 DEF Kept

\* A run enters both lanes behind all others, and its client hears at which place.
LEMMA MessageAdmittedStep ==
    ASSUME IInv, NEW r \in Runs, MessageAdmitted(r), UNCHANGED compaction
    PROVE  IInv' /\ Kept
<1> DEFINE s == run[r].session
           c == Enqueued(ctl, r, s)
           x == [run[r] EXCEPT !.at = "queued", !.shown = Position(c, r)]
           R == [run EXCEPT ![r] = x]
           S == Shown(R, ctl, c, r)
<1>1. /\ run \in [Runs -> Records] /\ run[r].at = "messageHook"
      /\ ctl \in Controllers /\ Consistent(ctl) /\ rt \in Runtimes
      /\ \A q \in Runs : FitsAt(ctl, q, run[q], rt)
  BY DEF IInv, Fit, MessageAdmitted
<1>2. /\ r \notin ToSet(ctl.global) /\ ctl.active # r /\ ctl.owner[r] = None
      /\ ~run[r].expiring /\ ~Terminal(run[r].status) /\ run[r].session \in Sessions
      /\ run[r] \in Records /\ FitsAt(ctl, r, run[r], rt)
  BY <1>1, BeforeTheQueue
<1>3. /\ c \in Controllers /\ Consistent(c) /\ c.active = ctl.active
      /\ c.owner = [ctl.owner EXCEPT ![r] = s]
      /\ ToSet(c.global) = ToSet(ctl.global) \cup {r}
  <2>1. c \in Controllers /\ Consistent(c)
    BY <1>1, <1>2, EnqueuedConsistent
  <2>2. /\ c.active = ctl.active /\ c.owner = [ctl.owner EXCEPT ![r] = s]
        /\ c.global = Append(ctl.global, r) /\ ctl.global \in Seq(Runs)
    BY <1>1 DEF Enqueued, Controllers
  <2>3. ToSet(c.global) = ToSet(ctl.global) \cup {r}
    BY <2>2, AppendNew
  <2>4. QED
    BY <2>1, <2>2, <2>3
<1>4. Position(c, r) \in Shows
  BY <1>3, PositionsAreShows
<1>5. [run EXCEPT ![r].at = "queued", ![r].shown = Position(c, r)] = R
  BY <1>1
<1>6. TryStart(c, S) /\ UNCHANGED destroyed
  BY <1>5 DEF MessageAdmitted
<1>7. s \in Sessions
  BY <1>2
<1> HIDE DEF c
<1>8. /\ x \in Records /\ x.at = "queued" /\ x.shown = Position(c, r)
      /\ x.status = run[r].status /\ x.session = s /\ x.known = run[r].known
      /\ x.params = run[r].params /\ x.expiring = run[r].expiring
      /\ x.announced = run[r].announced /\ x.waiter = run[r].waiter
  BY <1>2, <1>4 DEF Records, Places
<1> HIDE DEF x
<1>9. R \in [Runs -> Records] /\ R[r] = x /\ \A q \in Runs \ {r} : R[q] = run[q]
  BY <1>1, <1>8
<1> HIDE DEF R
<1>10. Follows(S, R, ctl, c, r)
  BY <1>3, <1>9, ShownFollows
<1> HIDE DEF S
<1>11. S \in [Runs -> Records] /\ S[r] = x
  BY <1>9, <1>10 DEF Follows
<1>12. ASSUME NEW q \in Runs \ {r}
       PROVE  FitsAt(c, q, S[q], rt) /\ S[q].status = run[q].status
  <2>1. PICK sh \in Shows : /\ S[q] = [run[q] EXCEPT !.shown = sh]
                            /\ sh \in {run[q].shown, Position(c, q)}
                            /\ run[q].known /\ run[q].shown = Position(ctl, q) => sh = Position(c, q)
    BY <1>9, <1>10 DEF Follows
  <2>2. run[q] \in Records /\ c.owner[q] = ctl.owner[q] /\ FitsAt(ctl, q, run[q], rt)
    BY <1>1, <1>3 DEF Controllers
  <2>3. q \in ToSet(c.global) => q \in ToSet(ctl.global)
    BY <1>3
  <2>4. FitsAt(c, q, [run[q] EXCEPT !.shown = sh], rt)
    BY <1>3, <2>1, <2>2, <2>3, OthersFit
  <2>5. QED
    BY <2>1, <2>2, <2>4 DEF Records
<1>13. FitsAt(c, r, x, rt)
  <2>1. EndOK(x) /\ PlaceOK(x)
    BY <1>1, <1>2, <1>8 DEF FitsAt, EndOK, PlaceOK, Unstarted
  <2>2. LinkOK(c, r, x) /\ HoldsRuntime(c, r, x, rt)
    BY <1>1, <1>2, <1>3, <1>8 DEF LinkOK, HoldsRuntime, Controllers
  <2>3. ~destroyed => LiveOK(c, r, x)
    BY <1>1, <1>2, <1>8 DEF FitsAt, LiveOK
  <2>4. QED
    BY <2>1, <2>2, <2>3 DEF FitsAt
<1>14. \A q \in Runs : FitsAt(c, q, S[q], rt)
  BY <1>11, <1>12, <1>13
<1>15. Fit(c, S, rt)
  BY <1>1, <1>3, <1>11, <1>14 DEF Fit
<1>16. IInv' /\ \A q \in Runs : Terminal(S[q].status) => run'[q].status = S[q].status
  BY <1>6, <1>15, TryStartFits DEF IInv
<1>17. \A q \in Runs : S[q].status = run[q].status
  BY <1>8, <1>11, <1>12
<1>18. QED
  BY <1>16, <1>17 DEF Kept
-----------------------------------------------------------------------------
(********************** destroy, and manualCompact *************************)

\* Every map is emptied: no run has a place or the lease, and what is promised to clients of
\* a coordinator in use is promised no more.
LEMMA DestroyStep ==
    ASSUME IInv, Destroy, UNCHANGED compaction
    PROVE  IInv' /\ Kept
<1> DEFINE live(r) == run[r].known /\ ~Terminal(run[r].status)
           R == IF \E r \in Runs : live(r) /\ run[r].status = "running"
                THEN AgentAborted(run) ELSE run
<1>1. /\ run \in [Runs -> Records] /\ rt \in Runtimes
      /\ \A q \in Runs : FitsAt(ctl, q, run[q], rt)
  BY DEF IInv, Fit
<1>2. /\ run' = [r \in Runs |->
                    [R[r] EXCEPT !.known = FALSE,
                                 !.params = FALSE,
                                 !.timer = @ /\ ~live(r),
                                 !.waiter = IF @ = "waiting" THEN "orphaned" ELSE @]]
      /\ ctl' = NewController /\ destroyed' = TRUE /\ UNCHANGED <<rt, compaction>>
  BY DEF Destroy
<1>3. /\ NewController \in Controllers /\ Consistent(NewController)
      /\ NewController.global = <<>> /\ NewController.active = None
      /\ \A q \in Runs : NewController.owner[q] = None
  BY NewControllerConsistent DEF NewController
<1>4. ToSet(<<>>) = {}
  BY DEF ToSet
<1>5. ASSUME NEW q \in Runs
      PROVE  /\ run'[q] \in Records /\ run'[q].status = run[q].status
             /\ FitsAt(ctl, q, run[q], rt)'
  <2> DEFINE t == R[q].timer /\ ~live(q)
             w == IF R[q].waiter = "waiting" THEN "orphaned" ELSE R[q].waiter
             y == [R[q] EXCEPT !.known = FALSE, !.params = FALSE, !.timer = t, !.waiter = w]
  <2>1. run[q] \in Records /\ FitsAt(ctl, q, run[q], rt)
    BY <1>1
  <2>2. R[q] = run[q] \/ R[q] = [run[q] EXCEPT !.cancelled = TRUE]
    BY DEF AgentAborted
  <2>3. run'[q] = y
    BY <1>2
  <2> HIDE DEF R
  <2>4. R[q] \in Records /\ R[q].at = run[q].at /\ Alike(R[q], run[q])
    BY <2>1, <2>2 DEF Records, Alike
  <2>5. t \in BOOLEAN
    OBVIOUS
  <2>6. w \in WaiterStates /\ w # "waiting" /\ (w # "orphaned" => w = R[q].waiter)
    BY <2>4 DEF Records, WaiterStates
  <2>7. w \in {"none", "ok", "error"} => w = R[q].waiter
    BY <2>6
  <2>8. R[q].waiter = "none" => w = "none"
    OBVIOUS
  <2> HIDE DEF t, w
  <2>9. /\ y \in Records /\ y.at = R[q].at /\ y.status = R[q].status /\ y.session = R[q].session
        /\ y.known = FALSE /\ y.params = FALSE /\ y.shown = R[q].shown
        /\ y.expiring = R[q].expiring /\ y.announced = R[q].announced /\ y.waiter = w
    BY <2>4, <2>5, <2>6 DEF Records
  <2> HIDE DEF y
  <2>10. EndOK(y) /\ PlaceOK(y)
    BY <2>1, <2>4, <2>6, <2>7, <2>8, <2>9 DEF FitsAt, Alike, EndOK, PlaceOK
  <2>11. LinkOK(NewController, q, y) /\ HoldsRuntime(NewController, q, y, rt)
    BY <1>3, <1>4, NoneIsNoId DEF LinkOK, HoldsRuntime
  <2>12. EndOK(run'[q]) /\ PlaceOK(run'[q]) /\ LinkOK(ctl', q, run'[q])
         /\ HoldsRuntime(ctl', q, run'[q], rt')
    BY <1>2, <2>3, <2>10, <2>11
  <2>13. FitsAt(ctl, q, run[q], rt)'
    BY <1>2, <2>12 DEF FitsAt
  <2>14. QED
    BY <2>3, <2>4, <2>9, <2>13 DEF Alike
<1>6. run' \in [Runs -> Records]
  BY <1>2, <1>5
<1>7. Fit(ctl, run, rt)'
  BY <1>1, <1>2, <1>3, <1>5, <1>6 DEF Fit
<1>8. LaneNeverForgotten' /\ CompactionOwns'
  BY <1>2 DEF IInv, LaneNeverForgotten, CompactionOwns
<1>9. QED
  BY <1>2, <1>5, <1>7, <1>8 DEF IInv, Kept

\* The context engine goes to the compaction or to nobody, and what the runs have is kept.
LEMMA EngineStep ==
    ASSUME IInv, UNCHANGED <<ctl, run, destroyed>>,
           rt' = rt \/ \E a \in {None, ForCompaction} : rt' = [rt EXCEPT !.active = a],
           compaction' \in [at : CompactionPlaces, session : Sessions \cup {None}],
           CompactionOwns'
    PROVE  IInv' /\ Kept
<1>1. /\ rt \in Runtimes /\ \A q \in Runs : FitsAt(ctl, q, run[q], rt)
  BY DEF IInv, Fit
<1>2. /\ rt' \in Runtimes /\ rt'.key = rt.key /\ rt'.tools = rt.tools
      /\ rt'.active \in {rt.active, None, ForCompaction}
  BY <1>1 DEF Runtimes
<1>3. \A q \in Runs : FitsAt(ctl, q, run[q], rt')
  BY <1>1, <1>2 DEF FitsAt, HoldsRuntime
<1>4. Fit(ctl, run, rt)'
  BY <1>2, <1>3 DEF IInv, Fit, FitsAt
<1>5. QED
  BY <1>4 DEF IInv, LaneNeverForgotten, Kept

LEMMA CompactAskedStep ==
    ASSUME IInv, NEW s \in Sessions, CompactAsked(s)
    PROVE  IInv' /\ Kept
<1>1. compaction' \in [at : CompactionPlaces, session : Sessions \cup {None}]
  BY DEF CompactAsked, CompactionPlaces
<1>2. rt.active # ForCompaction
  BY DEF IInv, CompactionOwns, CompactAsked, NoCompaction
<1>3. QED
  BY <1>1, <1>2, EngineStep DEF CompactAsked, CompactionOwns

LEMMA CompactsStep ==
    ASSUME IInv, Compacts
    PROVE  IInv' /\ Kept
<1>1. /\ compaction' \in [at : CompactionPlaces, session : Sessions \cup {None}]
      /\ compaction'.at = "compacting"
  BY DEF Compacts, IInv, CompactionPlaces
<1>2. QED
  BY <1>1, EngineStep DEF Compacts, CompactionOwns

LEMMA CompactFailsStep ==
    ASSUME IInv, CompactFails
    PROVE  IInv' /\ Kept
<1>1. compaction' \in [at : CompactionPlaces, session : Sessions \cup {None}]
  BY DEF CompactFails, NoCompaction, CompactionPlaces
<1>2. rt.active # ForCompaction
  BY DEF IInv, CompactionOwns, CompactFails
<1>3. QED
  BY <1>1, <1>2, EngineStep DEF CompactFails, CompactionOwns

LEMMA CompactEndsStep ==
    ASSUME IInv, CompactEnds
    PROVE  IInv' /\ Kept
<1>1. compaction' \in [at : CompactionPlaces, session : Sessions \cup {None}]
  BY DEF CompactEnds, NoCompaction, CompactionPlaces
<1>2. rt'.active = None
  BY DEF CompactEnds, IInv, Fit, Runtimes
<1>3. CompactionOwns'
  BY <1>2, CompactionIsNoRun DEF CompactionOwns
<1>4. QED
  BY <1>1, <1>3, EngineStep DEF CompactEnds
-----------------------------------------------------------------------------
(************************** the inductive invariant ************************)

LEMMA InitInvariant == Init => IInv
<1> SUFFICES ASSUME Init PROVE IInv
  OBVIOUS
<1>1. /\ NewController \in Controllers /\ Consistent(NewController)
      /\ NewController.global = <<>> /\ NewController.active = None
      /\ \A q \in Runs : NewController.owner[q] = None
  BY NewControllerConsistent DEF NewController
<1>2. ToSet(<<>>) = {}
  BY DEF ToSet
<1>3. NewRun \in Records
  BY DEF NewRun, Records, Places, Statuses, Finalizers, WaiterStates, Shows
<1>4. EndOK(NewRun) /\ PlaceOK(NewRun)
  BY DEF NewRun, EndOK, PlaceOK, Terminal, Unstarted
<1>5. rt \in Runtimes
  BY DEF Init, CtlInit, Runtimes
<1>6. ASSUME NEW q \in Runs PROVE FitsAt(ctl, q, run[q], rt)
  <2>1. LinkOK(NewController, q, NewRun) /\ HoldsRuntime(NewController, q, NewRun, rt)
    BY <1>1, <1>2, NoneIsNoId DEF LinkOK, HoldsRuntime
  <2>2. LiveOK(NewController, q, NewRun)
    BY DEF LiveOK, NewRun
  <2>3. FitsAt(NewController, q, NewRun, rt)
    BY <1>4, <2>1, <2>2 DEF FitsAt
  <2>4. QED
    BY <2>3 DEF Init, CtlInit
<1>7. Fit(ctl, run, rt)
  BY <1>1, <1>3, <1>5, <1>6 DEF Init, CtlInit, Fit
<1>8. LaneNeverForgotten
  BY <1>1 DEF Init, CtlInit, LaneNeverForgotten
<1>9. CompactionOwns
  BY CompactionIsNoRun DEF Init, CtlInit, CompactionOwns
<1>10. QED
  BY <1>7, <1>8, <1>9 DEF Init, CtlInit, IInv, NoCompaction, CompactionPlaces

\* One step, whichever action takes it.
LEMMA NextKeeps == IInv /\ [Next]_vars => IInv' /\ Kept
<1> SUFFICES ASSUME IInv, [Next]_vars PROVE IInv' /\ Kept
  OBVIOUS
<1>1. CASE UNCHANGED vars
  BY <1>1 DEF vars, IInv, Fit, FitsAt, LaneNeverForgotten, CompactionOwns, Kept
<1>2. ASSUME NEW r \in Runs, UNCHANGED compaction, Continue(r) PROVE IInv' /\ Kept
  BY <1>2, MessageAdmittedStep, MessageBlockedStep, BlockedEndsStep,
     PreflightPassesStep, ReplyClaimedStep, PreflightThrowsStep,
     GuardedEndsStep, ClaimedEndsStep, PreflightFailedEndsStep, ExecuteRejectedStep,
     WritesDoneStep, ClosingEndsStep, FailingEndsStep, CleanupEndsStep DEF Continue
<1>3. ASSUME NEW r \in Runs, UNCHANGED compaction, PromptReturns(r) PROVE IInv' /\ Kept
  BY <1>3, PromptResolvesStep, PromptRejectsStep DEF PromptReturns
<1>4. ASSUME NEW r \in Runs, UNCHANGED compaction,
             \/ TimeoutFires(r) \/ TimeoutEnds(r) \/ StreamIdle(r) \/ Evict(r)
             \/ Wait(r) \/ WaitTimesOut(r) \/ Abort(r)
      PROVE  IInv' /\ Kept
  BY <1>4, TimeoutFiresStep, TimeoutEndsStep, StreamIdleStep, EvictStep, WaitStep,
     WaitTimesOutStep, AbortStep
<1>5. CASE RunStep /\ UNCHANGED compaction
  <2>1. ASSUME NEW r \in Runs, NEW s \in Sessions, Dispatch(r, s) PROVE IInv' /\ Kept
    BY <1>5, <2>1, DispatchStep
  <2>2. CASE Destroy
    BY <1>5, <2>2, DestroyStep
  <2>3. QED
    BY <1>2, <1>3, <1>4, <1>5, <2>1, <2>2 DEF RunStep
<1>6. ASSUME NEW s \in Sessions, CompactAsked(s) PROVE IInv' /\ Kept
  BY <1>6, CompactAskedStep
<1>7. CASE Compacts \/ CompactFails \/ CompactEnds
  BY <1>7, CompactsStep, CompactFailsStep, CompactEndsStep
<1>8. QED
  BY <1>1, <1>5, <1>6, <1>7 DEF Next

LEMMA Invariant == Spec => []IInv
<1>1. IInv /\ [Next]_vars => IInv'
  BY NextKeeps
<1>2. QED
  BY <1>1, InitInvariant, PTL DEF Spec
-----------------------------------------------------------------------------
(******************************** theorems *********************************)

\* Every variable has its type, and where the runs are finitely many no client is told of a
\* place in the queue beyond their number.
THEOREM TypesCorrect ==
    ASSUME IsFiniteSet(Runs)
    PROVE  Spec => []TypeOK
<1>1. Ranks \subseteq 1..Cardinality(Runs)
  BY FS_CardinalityType DEF Ranks
<1>2. ASSUME NEW x \in Records
      PROVE  x \in [at : Places, status : Statuses, session : Sessions \cup {None},
                    known : BOOLEAN, params : BOOLEAN,
                    shown : {None} \cup [session : 1..Cardinality(Runs),
                                         global  : 1..Cardinality(Runs)],
                    finalizer : Finalizers, timer : BOOLEAN, expiring : BOOLEAN,
                    cancelled : BOOLEAN, announced : 0..1, waiter : WaiterStates]
  <2>1. x.shown \in {None} \cup [session : 1..Cardinality(Runs), global : 1..Cardinality(Runs)]
    BY <1>1 DEF Records, Shows
  <2>2. QED
    BY <2>1 DEF Records
<1>3. IInv => TypeOK
  <2> SUFFICES ASSUME IInv PROVE TypeOK
    OBVIOUS
  <2>1. run \in [Runs -> [at : Places, status : Statuses, session : Sessions \cup {None},
                          known : BOOLEAN, params : BOOLEAN,
                          shown : {None} \cup [session : 1..Cardinality(Runs),
                                               global  : 1..Cardinality(Runs)],
                          finalizer : Finalizers, timer : BOOLEAN, expiring : BOOLEAN,
                          cancelled : BOOLEAN, announced : 0..1, waiter : WaiterStates]]
    BY <1>2, RunsTyped
  <2>2. QED
    BY <2>1 DEF IInv, Fit, Runtimes, TypeOK
<1>4. QED
  BY <1>3, Invariant, PTL

\* However the controller calls of dispatch, executeRun, the timers, abort and destroy
\* interleave, the two kinds of lane list the same runs in the same order and the lease
\* names the active run's session.
THEOREM LanesStayConsistent == Spec => []LanesConsistent
<1>1. IInv => LanesConsistent
  BY DEF IInv, Fit, LanesConsistent
<1>2. QED
  BY <1>1, Invariant, PTL

\* No lease leaks: the code of the run that holds it stands before an await behind which
\* executeRun, or the catch of tryStartNextRun, releases it.
THEOREM LeasesAreReleasedLater == Spec => []LeaseHolderIsLive
<1>1. IInv => LeaseHolderIsLive
  BY DEF IInv, Fit, FitsAt, LinkOK, LeaseHolderIsLive
<1>2. QED
  BY <1>1, Invariant, PTL

\* tryStartNextRun never gives up on the head of a lane: until destroy(), what is queued is
\* pending and has its record and its parameters.
THEOREM HeadsCanStart == Spec => []QueuedRunsStartable
<1>1. IInv => QueuedRunsStartable
  <2> SUFFICES ASSUME IInv, ~destroyed, NEW r \in ToSet(ctl.global)
               PROVE  /\ run[r].known /\ run[r].params
                      /\ run[r].status = "pending" /\ run[r].at = "queued"
    BY DEF QueuedRunsStartable
  <2>1. r \in Runs
    BY LanesListRuns DEF IInv, Fit
  <2>2. FitsAt(ctl, r, run[r], rt)
    BY <2>1 DEF IInv, Fit
  <2>3. run[r].at = "queued"
    BY <2>2 DEF FitsAt, LinkOK
  <2>4. QED
    BY <2>2, <2>3 DEF FitsAt, LiveOK, PlaceOK, Unstarted
<1>2. QED
  BY <1>1, Invariant, PTL

\* Every step that frees the agent or fills the queue drains it, but for a timeout, whose
\* continuation does.
THEOREM LanesAreDrained == Spec => []LaneNeverForgotten
<1>1. IInv => LaneNeverForgotten
  BY DEF IInv
<1>2. QED
  BY <1>1, Invariant, PTL

\* The positions that emitQueueUpdates publishes, only for the runs a controller call moved,
\* are those of all the runs.
THEOREM PositionsAreTrue == Spec => []ShownPositionsCurrent
<1>1. IInv => ShownPositionsCurrent
  BY DEF IInv, Fit, FitsAt, LiveOK, ShownPositionsCurrent
<1>2. QED
  BY <1>1, Invariant, PTL

\* However timeout, abort and the errors of model and files race, one lifecycle event says
\* that a run has ended.
THEOREM EndsAreSaidOnce == Spec => []AnnouncedOnce
<1>1. IInv => AnnouncedOnce
  BY DEF IInv, Fit, FitsAt, EndOK, AnnouncedOnce
<1>2. QED
  BY <1>1, Invariant, PTL

\* wait() is answered when the run becomes final, and with its outcome.
THEOREM WaitersHearTheOutcome == Spec => []WaitersAnswered
<1>1. IInv => WaitersAnswered
  BY DEF IInv, Fit, FitsAt, EndOK, WaitersAnswered
<1>2. QED
  BY <1>1, Invariant, PTL

\* The runtime that all runs of an agent share works for the run with the lease alone, from
\* the preflight to the end of its transcript writes.
THEOREM RuntimeIsTheHolders == Spec => []RuntimeNeverForeign
<1>1. IInv => RuntimeNeverForeign
  BY DEF IInv, Fit, FitsAt, HoldsRuntime, CompactionOwns, RuntimeNeverForeign, Owning
<1>2. QED
  BY <1>1, Invariant, PTL

\* No step changes a final status: the terminal-once guard of finalizeRunSuccess and
\* finalizeRunError holds against every other way a run's record is written.
THEOREM FinalStaysFinal == Spec => FinalIsFinal
<1>1. IInv /\ [Next]_vars =>
        [\A r \in Runs : Terminal(run[r].status) => run'[r].status = run[r].status]_run
  BY NextKeeps DEF Kept
<1>2. QED
  BY <1>1, Invariant, PTL DEF Spec, FinalIsFinal
=============================================================================
