-------------------------- MODULE SubAgentsProofs --------------------------
(***************************************************************************)
(* The safety properties of sub-agents hold for any number of children,    *)
(* parent sessions and yields, whichever of the faults occur.              *)
(*                                                                         *)
(* The invariant has two halves, as the code has: what the registry keeps  *)
(* (records, yields, timers), and what each child's code keeps.  A step of *)
(* a child's code reaches the registry only through Settle.                *)
(***************************************************************************)
EXTENDS SubAgents, TLAPS

Kids == [at : Places, parent : Parents \cup {None}, caller : Callers, handler : BOOLEAN,
         aborted : BOOLEAN, told : BOOLEAN, ending : {"none"} \cup Final, caught : BOOLEAN,
         meta : Statuses \cup {"gone"}]

Typed ==
    /\ reg \in [Children -> Statuses]
    /\ kid \in [Children -> Kids]
    /\ yields \in [Parents -> Seq(Yields)]
    /\ \A s \in Parents : Len(yields[s]) <= MaxYields
    /\ pend \in [Parents -> Nat]
    /\ \A s \in Parents : pend[s] <= Len(yields[s])
    /\ alive \in [Parents -> BOOLEAN]
    /\ process \in {"up", "destroyed", "crashed"}

\* A yield is pending exactly while the registry's map has it.
PendingIsInMap ==
    \A s \in Parents : \A n \in 1..Len(yields[s]) : yields[s][n].at = "pending" <=> n = pend[s]

Dispatched == {"opening", "preflight", "prompting", "closing", "patching"}

\* What the code of a child and its record k know of each other.
KidOK(k, status) ==
    /\ k.at = "idle" <=> status = "none"
    /\ k.at = "idle" <=> k.parent = None
    /\ k.at \in Dispatched => k.handler \/ k.aborted
    /\ k.at \in {"closing", "patching"} => k.ending \in Final
    /\ status \in {"completed", "error"} => k.at = "done" /\ (k.meta \in Final => k.meta = status)

KidsOK == \A c \in Children : KidOK(kid[c], reg[c])

Registry == /\ PendingIsInMap /\ PendingYieldHasRunningChild
            /\ TimersOwnTheirYield /\ ResumesTellTheTruth

IInv == Typed /\ KidsOK /\ Registry
-----------------------------------------------------------------------------
(*************************** steps of the registry *************************)

\* Children keep the session that spawned them.
SameFamilies == /\ kid' \in [Children -> Kids]
                /\ \A c \in Children : kid'[c].parent = kid[c].parent

RegistryTyped == /\ reg' \in [Children -> Statuses]
                 /\ yields' \in [Parents -> Seq(Yields)]
                 /\ \A s \in Parents : Len(yields'[s]) <= MaxYields
                 /\ pend' \in [Parents -> Nat]
                 /\ \A s \in Parents : pend'[s] <= Len(yields'[s])

LEMMA FamiliesStay ==
    ASSUME SameFamilies
    PROVE  \A s : ChildrenOf(s)' = ChildrenOf(s)
BY DEF SameFamilies, ChildrenOf

\* A spawned child has a record, so what a parent is told of it is a status.
LEMMA ResultsAreStatuses ==
    ASSUME IInv, NEW s \in Parents, NEW R \in [Children -> Statuses],
           \A c \in Children : R[c] = "none" => reg[c] = "none"
    PROVE  [c \in ChildrenOf(s) |-> R[c]] \in
              UNION {[C -> Statuses \ {"none"}] : C \in SUBSET Children}
<1> DEFINE C == ChildrenOf(s)
<1>1. C \in SUBSET Children
  BY DEF ChildrenOf
<1>2. \A c \in C : R[c] \in Statuses \ {"none"}
  BY SubAgentsConstants DEF IInv, Typed, KidsOK, KidOK, ChildrenOf
<1>3. [c \in C |-> R[c]] \in [C -> Statuses \ {"none"}]
  BY <1>2
<1>4. QED
  BY <1>1, <1>3

\* finishYield: the session's yield is the only one that changes; it has its results.
LEMMA FinishKeepsRegistry ==
    ASSUME IInv, NEW s \in Parents, pend[s] # 0, NEW reason \in {"all-complete", "timeout"},
           SameFamilies, reg' \in [Children -> Statuses],
           \A c \in Children : reg'[c] # reg[c] => reg[c] = "running" /\ reg'[c] \in Final,
           \A p \in Parents \ {s} : \A c \in ChildrenOf(p) : reg'[c] = reg[c],
           reason = "timeout" <=> \E c \in ChildrenOf(s) : reg'[c] = "running",
           FinishYield(reg', s, reason)
    PROVE  RegistryTyped /\ Registry'
<1> DEFINE n == pend[s]
           results == [c \in ChildrenOf(s) |-> reg'[c]]
           y == [at |-> "lookup", reason |-> reason, results |-> results]
<1>1. n \in 1..Len(yields[s]) /\ yields[s] \in Seq(Yields) /\ pend \in [Parents -> Nat]
  BY DEF IInv, Typed
<1>2. /\ yields' = [yields EXCEPT ![s][n] = y]
      /\ pend' = [pend EXCEPT ![s] = 0]
      /\ timers' = timers \ {<<s, n>>}
  BY DEF FinishYield
<1>3. y \in Yields
  <2>1. results \in UNION {[C -> Statuses \ {"none"}] : C \in SUBSET Children}
    BY ResultsAreStatuses DEF Final
  <2> HIDE DEF results
  <2>2. QED
    BY <2>1 DEF Yields
<1>4. DOMAIN results = ChildrenOf(s) /\ \A c \in ChildrenOf(s) : results[c] = reg'[c]
  OBVIOUS
<1>5. y.at = "lookup" /\ y.reason = reason /\ y.results = results
  OBVIOUS
<1> HIDE DEF y, results
<1>6. /\ yields' \in [Parents -> Seq(Yields)]
      /\ \A p \in Parents : Len(yields'[p]) = Len(yields[p])
      /\ \A p \in Parents \ {s} : yields'[p] = yields[p]
      /\ yields'[s] = [yields[s] EXCEPT ![n] = y]
  BY <1>1, <1>2, <1>3 DEF IInv, Typed
<1>7. /\ yields'[s][n] = y
      /\ \A i \in 1..Len(yields[s]) : i # n => yields'[s][i] = yields[s][i]
  BY <1>1, <1>6
<1>8. RegistryTyped
  BY <1>1, <1>2, <1>6 DEF RegistryTyped, IInv, Typed
<1>9. PendingIsInMap'
  BY <1>1, <1>2, <1>5, <1>6, <1>7 DEF IInv, Typed, Registry, PendingIsInMap
<1>10. PendingYieldHasRunningChild'
  <2> SUFFICES ASSUME NEW p \in Parents, pend'[p] # 0
               PROVE  \E c \in ChildrenOf(p) : reg'[c] = "running"
    BY FamiliesStay DEF PendingYieldHasRunningChild
  <2>1. p # s /\ pend[p] # 0
    BY <1>1, <1>2
  <2>2. PICK c \in ChildrenOf(p) : reg[c] = "running"
    BY <2>1 DEF IInv, Registry, PendingYieldHasRunningChild
  <2>3. QED
    BY <2>1, <2>2
<1>11. TimersOwnTheirYield'
  BY <1>1, <1>2 DEF IInv, Registry, TimersOwnTheirYield
<1>12. ResumesTellTheTruth'
  <2> SUFFICES ASSUME NEW p \in Parents, NEW i \in 1..Len(yields[p]), yields'[p][i].at = "lookup"
               PROVE  /\ \A c \in DOMAIN yields'[p][i].results :
                            yields'[p][i].results[c] \in {"running", reg'[c]}
                      /\ (\E c \in DOMAIN yields'[p][i].results :
                            yields'[p][i].results[c] = "running")
                         <=> yields'[p][i].reason = "timeout"
    BY <1>6 DEF ResumesTellTheTruth
  <2>1. CASE p = s /\ i = n
    <3>1. yields'[p][i] = y
      BY <2>1, <1>7
    <3>2. QED
      BY <3>1, <1>4, <1>5
  <2>2. CASE ~(p = s /\ i = n)
    <3>1. yields'[p][i] = yields[p][i]
      BY <2>2, <1>6, <1>7
    <3> DEFINE z == yields[p][i]
    <3>2. z \in Yields
      BY DEF IInv, Typed
    <3>3. DOMAIN z.results \subseteq Children
      BY <3>2 DEF Yields
    <3>4. /\ \A c \in DOMAIN z.results : z.results[c] \in {"running", reg[c]}
          /\ (\E c \in DOMAIN z.results : z.results[c] = "running") <=> z.reason = "timeout"
      BY <3>1 DEF IInv, Registry, ResumesTellTheTruth
    <3>5. QED
      BY <3>1, <3>3, <3>4
  <2>3. QED
    BY <2>1, <2>2
<1>13. QED
  BY <1>8, <1>9, <1>10, <1>11, <1>12 DEF Registry

\* No yield ends, and a record that changes leaves its session without a pending yield, or
\* with another running child.
LEMMA QuietKeepsRegistry ==
    ASSUME IInv, SameFamilies, reg' \in [Children -> Statuses], UNCHANGED <<yields, pend, timers>>,
           \A c \in Children : reg'[c] # reg[c] => reg[c] = "running",
           \A s \in Parents : pend[s] # 0 => \E c \in ChildrenOf(s) : reg'[c] = "running"
    PROVE  RegistryTyped /\ Registry'
<1>1. RegistryTyped
  BY DEF RegistryTyped, IInv, Typed
<1>2. PendingIsInMap' /\ TimersOwnTheirYield'
  BY DEF IInv, Registry, PendingIsInMap, TimersOwnTheirYield
<1>3. PendingYieldHasRunningChild'
  BY FamiliesStay DEF PendingYieldHasRunningChild
<1>4. ResumesTellTheTruth'
  <2> SUFFICES ASSUME NEW p \in Parents, NEW i \in 1..Len(yields[p]), yields[p][i].at = "lookup"
               PROVE  /\ \A c \in DOMAIN yields[p][i].results :
                            yields[p][i].results[c] \in {"running", reg'[c]}
                      /\ (\E c \in DOMAIN yields[p][i].results :
                            yields[p][i].results[c] = "running")
                         <=> yields[p][i].reason = "timeout"
    BY DEF ResumesTellTheTruth
  <2> DEFINE z == yields[p][i]
  <2>2. z \in Yields
    BY DEF IInv, Typed
  <2>3. DOMAIN z.results \subseteq Children
    BY <2>2 DEF Yields
  <2>4. /\ \A c \in DOMAIN z.results : z.results[c] \in {"running", reg[c]}
        /\ (\E c \in DOMAIN z.results : z.results[c] = "running") <=> z.reason = "timeout"
    BY DEF IInv, Registry, ResumesTellTheTruth
  <2>5. QED
    BY <2>3, <2>4
<1>5. QED
  BY <1>1, <1>2, <1>3, <1>4 DEF Registry

LEMMA StillKeepsRegistry ==
    ASSUME IInv, SameFamilies, NoRegistryChange
    PROVE  RegistryTyped /\ Registry'
<1>1. \A s \in Parents : pend[s] # 0 => \E c \in ChildrenOf(s) : reg'[c] = "running"
  BY DEF NoRegistryChange, IInv, Registry, PendingYieldHasRunningChild
<1>2. QED
  BY <1>1, QuietKeepsRegistry DEF NoRegistryChange, IInv, Typed

\* onComplete, onError and kill: only a running record changes, to a final status, and the
\* end of the last running child ends the session's yield.
LEMMA SettleKeepsRegistry ==
    ASSUME IInv, SameFamilies, NEW c \in Children, kid[c].parent \in Parents,
           NEW status \in Final, Settle(c, status)
    PROVE  /\ RegistryTyped /\ Registry'
           /\ \A d \in Children \ {c} : reg'[d] = reg[d]
           /\ reg'[c] = IF reg[c] = "running" THEN status ELSE reg[c]
<1> DEFINE s == kid[c].parent
<1>1. CASE reg[c] # "running"
  BY <1>1, StillKeepsRegistry DEF Settle, NoRegistryChange
<1>2. CASE reg[c] = "running"
  <2>1. reg' = [reg EXCEPT ![c] = status] /\ MaybeResolve(reg', s)
    BY <1>2 DEF Settle
  <2>2. /\ reg' \in [Children -> Statuses] /\ reg'[c] = status
        /\ \A d \in Children \ {c} : reg'[d] = reg[d]
    BY <2>1 DEF IInv, Typed, Statuses
  <2>3. \A p \in Parents \ {s} : c \notin ChildrenOf(p)
    BY DEF ChildrenOf
  <2>4. \A p \in Parents \ {s} : \A d \in ChildrenOf(p) : reg'[d] = reg[d]
    BY <2>2, <2>3 DEF ChildrenOf
  <2>5. CASE pend[s] # 0 /\ \A d \in ChildrenOf(s) : reg'[d] # "running"
    <3>1. FinishYield(reg', s, "all-complete")
      BY <2>1, <2>5 DEF MaybeResolve
    <3>2. RegistryTyped /\ Registry'
      BY <1>2, <2>2, <2>4, <2>5, <3>1, FinishKeepsRegistry
    <3>3. QED
      BY <1>2, <2>2, <3>2
  <2>6. CASE ~(pend[s] # 0 /\ \A d \in ChildrenOf(s) : reg'[d] # "running")
    <3>1. UNCHANGED <<yields, pend, timers>>
      BY <2>1, <2>6 DEF MaybeResolve
    <3>2. ASSUME NEW p \in Parents, pend[p] # 0
          PROVE  \E d \in ChildrenOf(p) : reg'[d] = "running"
      <4>1. CASE p = s
        BY <2>6, <3>2, <4>1
      <4>2. CASE p # s
        BY <2>4, <3>2, <4>2 DEF IInv, Registry, PendingYieldHasRunningChild
      <4>3. QED
        BY <4>1, <4>2
    <3>3. RegistryTyped /\ Registry'
      BY <1>2, <2>2, <3>1, <3>2, QuietKeepsRegistry
    <3>4. QED
      BY <1>2, <2>2, <3>3
  <2>7. QED
    BY <2>5, <2>6
<1>3. QED
  BY <1>1, <1>2
-----------------------------------------------------------------------------
(************************* steps of a child's code *************************)

\* Only child c's code moves, and c keeps its session.
Moves(c) == /\ kid' \in [Children -> Kids]
            /\ \A d \in Children \ {c} : kid'[d] = kid[d]
            /\ kid'[c].parent = kid[c].parent

LEMMA MovesKeepFamilies ==
    ASSUME IInv, NEW c \in Children, Moves(c)
    PROVE  SameFamilies
BY DEF Moves, SameFamilies, IInv, Typed

\* A spawned child has a session.
LEMMA SpawnedHasParent ==
    ASSUME IInv, NEW c \in Children, reg[c] # "none" \/ kid[c].at # "idle"
    PROVE  kid[c].parent \in Parents
BY DEF IInv, Typed, KidsOK, KidOK, Kids

\* A step of c's code that does not touch the registry.
LEMMA SilentStep ==
    ASSUME IInv, NEW c \in Children, Moves(c), NoRegistryChange, KidOK(kid'[c], reg[c]),
           alive' \in [Parents -> BOOLEAN], process' \in {"up", "destroyed", "crashed"}
    PROVE  IInv'
<1>1. RegistryTyped /\ Registry'
  BY MovesKeepFamilies, StillKeepsRegistry
<1>2. KidsOK'
  BY DEF Moves, NoRegistryChange, IInv, KidsOK
<1>3. QED
  BY <1>1, <1>2 DEF RegistryTyped, Moves, IInv, Typed

\* A step of c's code that settles its record.
LEMMA SettlingStep ==
    ASSUME IInv, NEW c \in Children, kid[c].at # "idle" \/ reg[c] # "none", Moves(c),
           NEW status \in Final, Settle(c, status),
           KidOK(kid'[c], IF reg[c] = "running" THEN status ELSE reg[c]),
           UNCHANGED <<alive, process>>
    PROVE  IInv'
<1>1. /\ RegistryTyped /\ Registry'
      /\ \A d \in Children \ {c} : reg'[d] = reg[d]
      /\ reg'[c] = IF reg[c] = "running" THEN status ELSE reg[c]
  BY MovesKeepFamilies, SpawnedHasParent, SettleKeepsRegistry
<1>2. KidsOK'
  BY <1>1 DEF Moves, IInv, KidsOK
<1>3. QED
  BY <1>1, <1>2 DEF RegistryTyped, Moves, IInv, Typed

\* The code of c ends: its record K says so, and is otherwise c's.
LEMMA EndedIsKid ==
    ASSUME NEW K \in [Children -> Kids], NEW c \in Children
    PROVE  /\ Ended(K, c) \in [Children -> Kids]
           /\ \A d \in Children \ {c} : Ended(K, c)[d] = K[d]
           /\ Ended(K, c)[c].at = "done" /\ Ended(K, c)[c].parent = K[c].parent
           /\ Ended(K, c)[c].meta = K[c].meta
<1> DEFINE k == [K[c] EXCEPT !.at = "done", !.caller = "left", !.aborted = FALSE,
                            !.ending = "none", !.caught = FALSE]
<1>1. K[c] \in Kids
  OBVIOUS
<1>2. k \in Kids /\ k.at = "done" /\ k.parent = K[c].parent /\ k.meta = K[c].meta
  BY <1>1 DEF Kids, Places, Callers
<1>3. Ended(K, c) = [K EXCEPT ![c] = k]
  BY DEF Ended
<1> HIDE DEF k
<1>4. QED
  BY <1>2, <1>3

LEMMA FiredIsKid ==
    ASSUME NEW K \in [Children -> Kids], NEW c \in Children
    PROVE  /\ Fired(K, c) \in [Children -> Kids]
           /\ \A d \in Children \ {c} : Fired(K, c)[d] = K[d]
           /\ Fired(K, c)[c].at = K[c].at /\ Fired(K, c)[c].parent = K[c].parent
           /\ Fired(K, c)[c].meta = K[c].meta /\ Fired(K, c)[c].ending = K[c].ending
           /\ Fired(K, c)[c].aborted = IF K[c].handler THEN K[c].at # "done" ELSE K[c].aborted
           /\ ~Fired(K, c)[c].handler
<1> DEFINE k == [K[c] EXCEPT !.aborted = K[c].at # "done", !.told = K[c].at = "prompting",
                            !.handler = FALSE]
<1>1. K[c] \in Kids
  OBVIOUS
<1>2. k \in Kids
  <2>1. (K[c].at # "done") \in BOOLEAN /\ (K[c].at = "prompting") \in BOOLEAN
    OBVIOUS
  <2>2. QED
    BY <1>1, <2>1 DEF Kids
<1>3. /\ k.at = K[c].at /\ k.parent = K[c].parent /\ k.meta = K[c].meta
      /\ k.ending = K[c].ending /\ k.handler = FALSE
  BY <1>1 DEF Kids
<1>4. k.aborted = (K[c].at # "done")
  BY <1>1 DEF Kids
<1>5. Fired(K, c) = IF K[c].handler THEN [K EXCEPT ![c] = k] ELSE K
  BY DEF Fired
<1> HIDE DEF k
<1>6. CASE K[c].handler
  <2>1. Fired(K, c) = [K EXCEPT ![c] = k]
    BY <1>5, <1>6
  <2>2. Fired(K, c)[c] = k
    BY <2>1
  <2>3. /\ Fired(K, c) \in [Children -> Kids]
        /\ \A d \in Children \ {c} : Fired(K, c)[d] = K[d]
    BY <1>2, <2>1
  <2>4. QED
    BY <1>3, <1>4, <1>6, <2>2, <2>3
<1>7. CASE ~K[c].handler
  BY <1>5, <1>7
<1>8. QED
  BY <1>6, <1>7

\* runChild returned: the child's code has ended, and its record is final, killed, or still
\* running because nobody waits for the result any more.
LEMMA ReturnedStep ==
    ASSUME IInv, NEW c \in Children, kid[c].at \in Dispatched,
           NEW K \in [Children -> Kids], \A d \in Children \ {c} : K[d] = kid[d],
           K[c].parent = kid[c].parent, K[c].aborted = kid[c].aborted,
           NEW status \in Final, K[c].meta \in Final => K[c].meta = status,
           Returned(K, c, status), UNCHANGED <<alive, process>>
    PROVE  IInv'
<1> DEFINE E == Ended(K, c)
           F == [E EXCEPT ![c].handler = FALSE]
<1>1. /\ E \in [Children -> Kids] /\ \A d \in Children \ {c} : E[d] = K[d]
      /\ E[c].at = "done" /\ E[c].parent = kid[c].parent /\ E[c].meta = K[c].meta
  BY EndedIsKid
<1> HIDE DEF E
<1>2. /\ F \in [Children -> Kids] /\ \A d \in Children \ {c} : F[d] = K[d]
      /\ F[c].at = "done" /\ F[c].parent = kid[c].parent /\ F[c].meta = K[c].meta
  <2> DEFINE k == [E[c] EXCEPT !.handler = FALSE]
  <2>1. E[c] \in Kids
    BY <1>1
  <2>2. k \in Kids /\ k.at = "done" /\ k.parent = kid[c].parent /\ k.meta = K[c].meta
    BY <1>1, <2>1 DEF Kids
  <2>3. F = [E EXCEPT ![c] = k]
    OBVIOUS
  <2> HIDE DEF k, F
  <2>4. QED
    BY <1>1, <2>2, <2>3
<1> HIDE DEF F
<1>3. /\ kid[c].at # "idle" /\ kid[c].at # "done" /\ kid[c].parent # None /\ reg[c] # "none"
      /\ reg[c] \notin {"completed", "error"}
  BY DEF IInv, KidsOK, KidOK, Dispatched
<1>4. kid' = E \/ kid' = F
  BY DEF Returned, E, F
<1>5. Moves(c) /\ kid'[c].at = "done" /\ kid'[c].meta = K[c].meta
  BY <1>1, <1>2, <1>4 DEF Moves
<1>6. /\ KidOK(kid'[c], reg[c])
      /\ KidOK(kid'[c], IF reg[c] = "running" THEN status ELSE reg[c])
  BY <1>3, <1>5 DEF KidOK, Moves, Dispatched, Final
<1>7. CASE NoRegistryChange
  BY <1>5, <1>6, <1>7, SilentStep DEF IInv, Typed
<1>8. CASE Settle(c, status)
  BY <1>3, <1>5, <1>6, <1>8, SettlingStep
<1>9. QED
  BY <1>7, <1>8 DEF Returned

LEMMA RejectedStep ==
    ASSUME IInv, NEW c \in Children, kid[c].at # "idle", Rejected(kid, c)
    PROVE  IInv'
<1>1. Moves(c) /\ kid'[c].at = "done" /\ kid'[c].meta = kid[c].meta
  BY EndedIsKid DEF Rejected, Moves, IInv, Typed
<1>2. KidOK(kid'[c], reg[c])
  BY <1>1 DEF IInv, KidsOK, KidOK, Moves, Dispatched
<1>3. QED
  BY <1>1, <1>2, SilentStep DEF Rejected, IInv, Typed

\* The code reaches the await of finalizing the transcript.
LEMMA ClosingStep ==
    ASSUME IInv, NEW c \in Children, kid[c].at \in Dispatched, NEW ending \in Final,
           NEW caught \in BOOLEAN, Closing(c, ending, caught)
    PROVE  IInv'
<1>1. /\ Moves(c) /\ kid'[c].at = "closing" /\ kid'[c].ending = ending
      /\ kid'[c].handler = kid[c].handler /\ kid'[c].aborted = kid[c].aborted
  <2> DEFINE k == [kid[c] EXCEPT !.at = "closing", !.ending = ending, !.caught = caught,
                                !.told = FALSE]
  <2>1. kid[c] \in Kids
    BY DEF IInv, Typed
  <2>2. /\ k \in Kids /\ k.at = "closing" /\ k.ending = ending /\ k.parent = kid[c].parent
        /\ k.handler = kid[c].handler /\ k.aborted = kid[c].aborted
    BY <2>1 DEF Kids, Places
  <2>3. kid' = [kid EXCEPT ![c] = k]
    BY DEF Closing, IInv, Typed
  <2> HIDE DEF k
  <2>4. QED
    BY <2>2, <2>3 DEF Moves, IInv, Typed
<1>2. KidOK(kid'[c], reg[c])
  BY <1>1 DEF IInv, KidsOK, KidOK, Moves, Dispatched
<1>3. QED
  BY <1>1, <1>2, SilentStep DEF Closing, IInv, Typed

LEMMA KidMoves ==
    ASSUME IInv, NEW c \in Children, NEW k \in Kids, k.parent = kid[c].parent,
           kid' = [kid EXCEPT ![c] = k]
    PROVE  Moves(c) /\ kid'[c] = k
BY DEF Moves, IInv, Typed
-----------------------------------------------------------------------------
(****************************** the actions ********************************)

LEMMA SpawnStep ==
    ASSUME IInv, NEW c \in Children, NEW s \in Parents, NEW caller \in {"async", "waiting"},
           Spawn(c, s, caller)
    PROVE  IInv'
<1> DEFINE k == [kid[c] EXCEPT !.at = "recording", !.parent = s, !.caller = caller]
<1>1. kid[c] \in Kids /\ kid[c].at = "idle" /\ reg[c] = "none" /\ kid[c].parent = None
  BY DEF Spawn, IInv, Typed, KidsOK, KidOK
<1>2. k \in Kids /\ k.at = "recording" /\ k.parent = s
  BY <1>1 DEF Kids, Places, Callers
<1>3. kid' = [kid EXCEPT ![c] = k] /\ reg' = [reg EXCEPT ![c] = "running"]
  BY DEF Spawn, IInv, Typed
<1> HIDE DEF k
<1>4. /\ kid' \in [Children -> Kids] /\ kid'[c] = k /\ reg'[c] = "running"
      /\ reg' \in [Children -> Statuses]
      /\ \A d \in Children \ {c} : kid'[d] = kid[d] /\ reg'[d] = reg[d]
  BY <1>2, <1>3 DEF IInv, Typed, Statuses
<1>5. Typed'
  BY <1>4 DEF Spawn, IInv, Typed
<1>6. KidsOK'
  <2>1. KidOK(k, "running")
    BY <1>2, SubAgentsConstants DEF KidOK, Dispatched
  <2>2. QED
    BY <1>4, <2>1 DEF IInv, KidsOK
<1>7. PendingIsInMap' /\ TimersOwnTheirYield'
  BY DEF Spawn, IInv, Registry, PendingIsInMap, TimersOwnTheirYield
<1>8. PendingYieldHasRunningChild'
  <2>1. \A p \in Parents : \A d \in ChildrenOf(p) : d # c /\ d \in ChildrenOf(p)'
    BY <1>1, <1>4, SubAgentsConstants DEF ChildrenOf
  <2>2. QED
    BY <1>4, <2>1 DEF Spawn, ChildrenOf, IInv, Registry, PendingYieldHasRunningChild
<1>9. ResumesTellTheTruth'
  <2> SUFFICES ASSUME NEW p \in Parents, NEW i \in 1..Len(yields[p]), yields[p][i].at = "lookup"
               PROVE  /\ \A d \in DOMAIN yields[p][i].results :
                            yields[p][i].results[d] \in {"running", reg'[d]}
                      /\ (\E d \in DOMAIN yields[p][i].results :
                            yields[p][i].results[d] = "running")
                         <=> yields[p][i].reason = "timeout"
    BY DEF Spawn, ResumesTellTheTruth
  <2> DEFINE z == yields[p][i]
  <2>1. z \in Yields
    BY DEF IInv, Typed
  <2>2. DOMAIN z.results \subseteq Children
    BY <2>1 DEF Yields
  <2>3. \A d \in DOMAIN z.results : z.results[d] # "none"
    BY <2>1 DEF Yields
  <2>4. /\ \A d \in DOMAIN z.results : z.results[d] \in {"running", reg[d]}
        /\ (\E d \in DOMAIN z.results : z.results[d] = "running") <=> z.reason = "timeout"
    BY DEF IInv, Registry, ResumesTellTheTruth
  <2>5. QED
    BY <1>1, <1>4, <2>2, <2>3, <2>4
<1>10. QED
  BY <1>5, <1>6, <1>7, <1>8, <1>9 DEF IInv, Registry

LEMMA SpawnFailsStep ==
    ASSUME IInv, NEW c \in Children, SpawnFails(c)
    PROVE  IInv'
<1>1. Moves(c) /\ kid'[c].at = "done" /\ kid'[c].meta = kid[c].meta
  BY EndedIsKid DEF SpawnFails, Moves, IInv, Typed
<1>2. KidOK(kid'[c], reg[c])
  BY <1>1 DEF SpawnFails, IInv, KidsOK, KidOK, Moves, Dispatched
<1>3. QED
  BY <1>1, <1>2, SilentStep DEF SpawnFails, IInv, Typed

LEMMA SpawnRecordedStep ==
    ASSUME IInv, NEW c \in Children, SpawnRecorded(c)
    PROVE  IInv'
<1> DEFINE k == [kid[c] EXCEPT !.at = "opening", !.meta = "running", !.handler = TRUE]
<1>1. kid[c] \in Kids
  BY DEF IInv, Typed
<1>2. k \in Kids /\ k.at = "opening" /\ k.handler /\ k.parent = kid[c].parent
  BY <1>1 DEF Kids, Places, Statuses
<1>3. kid' = [kid EXCEPT ![c] = k]
  BY DEF SpawnRecorded, IInv, Typed
<1> HIDE DEF k
<1>4. Moves(c) /\ kid'[c] = k
  BY <1>2, <1>3, KidMoves
<1>5. KidOK(kid'[c], reg[c])
  BY <1>2, <1>4 DEF SpawnRecorded, IInv, KidsOK, KidOK, Dispatched
<1>6. QED
  BY <1>4, <1>5, SilentStep DEF SpawnRecorded, IInv, Typed

LEMMA WaitTimesOutStep ==
    ASSUME IInv, NEW c \in Children, WaitTimesOut(c)
    PROVE  IInv'
<1> DEFINE k == [kid[c] EXCEPT !.caller = "left"]
<1>1. kid[c] \in Kids
  BY DEF IInv, Typed
<1>2. /\ k \in Kids /\ k.at = kid[c].at /\ k.parent = kid[c].parent /\ k.handler = kid[c].handler
      /\ k.aborted = kid[c].aborted /\ k.ending = kid[c].ending /\ k.meta = kid[c].meta
  BY <1>1 DEF Kids, Callers
<1>3. kid' = [kid EXCEPT ![c] = k]
  BY DEF WaitTimesOut, IInv, Typed
<1> HIDE DEF k
<1>4. Moves(c) /\ kid'[c] = k
  BY <1>2, <1>3, KidMoves
<1>5. KidOK(kid'[c], reg[c])
  BY <1>2, <1>4 DEF IInv, KidsOK, KidOK
<1>6. QED
  BY <1>4, <1>5, SilentStep DEF WaitTimesOut, IInv, Typed

LEMMA ChildOpensStep ==
    ASSUME IInv, NEW c \in Children, ChildOpens(c)
    PROVE  IInv'
<1>1. kid[c].at = "opening" /\ kid[c] \in Kids /\ kid \in [Children -> Kids]
  BY DEF ChildOpens, IInv, Typed
<1>2. CASE Rejected(kid, c)
  BY <1>1, <1>2, RejectedStep
<1>3. CASE kid[c].meta = "gone" /\ Returned(kid, c, "error") /\ UNCHANGED <<alive, process>>
  BY <1>1, <1>3, ReturnedStep DEF Dispatched, Final
<1>4. CASE /\ kid' = [kid EXCEPT ![c].at = "preflight"]
           /\ NoRegistryChange /\ UNCHANGED <<alive, process>>
  <2> DEFINE k == [kid[c] EXCEPT !.at = "preflight"]
  <2>1. /\ k \in Kids /\ k.at = "preflight" /\ k.parent = kid[c].parent
        /\ k.handler = kid[c].handler /\ k.aborted = kid[c].aborted
    BY <1>1 DEF Kids, Places
  <2>2. kid' = [kid EXCEPT ![c] = k]
    BY <1>1, <1>4
  <2> HIDE DEF k
  <2>3. Moves(c) /\ kid'[c] = k
    BY <2>1, <2>2, KidMoves
  <2>4. KidOK(kid'[c], reg[c])
    BY <1>1, <2>1, <2>3 DEF IInv, KidsOK, KidOK, Dispatched
  <2>5. QED
    BY <1>4, <2>3, <2>4, SilentStep DEF IInv, Typed
<1>5. QED
  BY <1>2, <1>3, <1>4 DEF ChildOpens

\* The child goes from one await of its code to the next, with or without an ending.
LEMMA AdvanceStep ==
    ASSUME IInv, NEW c \in Children, kid[c].at \in Dispatched,
           NEW at \in {"prompting", "patching"}, NEW ending \in {"none"} \cup Final,
           NEW caught \in BOOLEAN, at = "patching" => ending \in Final,
           kid' = [kid EXCEPT ![c] =
                     [kid[c] EXCEPT !.at = at, !.ending = ending, !.caught = caught]],
           NoRegistryChange, UNCHANGED <<alive, process>>
    PROVE  IInv'
<1> DEFINE k == [kid[c] EXCEPT !.at = at, !.ending = ending, !.caught = caught]
<1>1. kid[c] \in Kids
  BY DEF IInv, Typed
<1>2. /\ k \in Kids /\ k.at = at /\ k.ending = ending /\ k.parent = kid[c].parent
      /\ k.handler = kid[c].handler /\ k.aborted = kid[c].aborted
  BY <1>1 DEF Kids, Places
<1> HIDE DEF k
<1>3. Moves(c) /\ kid'[c] = k
  BY <1>2, KidMoves DEF k
<1>4. KidOK(kid'[c], reg[c])
  BY <1>2, <1>3 DEF IInv, KidsOK, KidOK, Dispatched
<1>5. QED
  BY <1>3, <1>4, SilentStep DEF IInv, Typed

LEMMA PreflightPassesStep ==
    ASSUME IInv, NEW c \in Children, PreflightPasses(c)
    PROVE  IInv'
<1>1. kid[c].at \in Dispatched /\ kid[c] \in Kids /\ kid \in [Children -> Kids]
  BY DEF PreflightPasses, Dispatched, IInv, Typed
<1>2. kid[c].caught \in BOOLEAN /\ kid[c].ending \in {"none"} \cup Final
  BY <1>1 DEF Kids
<1>3. CASE kid[c].aborted
  <2>1. kid' = [kid EXCEPT ![c] = [kid[c] EXCEPT !.at = "patching", !.ending = "killed",
                                                !.caught = kid[c].caught]]
    BY <1>1, <1>3 DEF PreflightPasses, Kids
  <2>2. QED
    BY <1>1, <1>2, <2>1, AdvanceStep DEF PreflightPasses, Final
<1>4. CASE ~kid[c].aborted
  <2>1. kid' = [kid EXCEPT ![c] = [kid[c] EXCEPT !.at = "prompting", !.ending = kid[c].ending,
                                                !.caught = kid[c].caught]]
    BY <1>1, <1>4 DEF PreflightPasses, Kids
  <2>2. QED
    BY <1>1, <1>2, <2>1, AdvanceStep DEF PreflightPasses
<1>5. QED
  BY <1>3, <1>4

LEMMA ReplyClaimedStep ==
    ASSUME IInv, NEW c \in Children, ReplyClaimed(c)
    PROVE  IInv'
BY ClosingStep DEF ReplyClaimed, Dispatched, Final

LEMMA PromptResolvesStep ==
    ASSUME IInv, NEW c \in Children, PromptResolves(c)
    PROVE  IInv'
BY ClosingStep DEF PromptResolves, Dispatched, Final

LEMMA PreflightOrPromptThrowsStep ==
    ASSUME IInv, NEW c \in Children, PreflightOrPromptThrows(c)
    PROVE  IInv'
BY ClosingStep DEF PreflightOrPromptThrows, Dispatched, Final

LEMMA ClosingEndsStep ==
    ASSUME IInv, NEW c \in Children, ClosingEnds(c)
    PROVE  IInv'
<1>1. /\ kid[c].at \in Dispatched /\ kid[c] \in Kids /\ kid \in [Children -> Kids]
      /\ kid[c].ending \in Final
  BY DEF ClosingEnds, Dispatched, IInv, Typed, KidsOK, KidOK
<1>2. NoRegistryChange /\ UNCHANGED <<alive, process>>
  BY DEF ClosingEnds
<1>3. kid[c].caught \in BOOLEAN
  BY <1>1 DEF Kids
<1>4. CASE kid' = [kid EXCEPT ![c].at = "patching",
                             ![c].ending = IF kid[c].caught /\ kid[c].aborted THEN "killed"
                                           ELSE @]
  <2> DEFINE e == IF kid[c].caught /\ kid[c].aborted THEN "killed" ELSE kid[c].ending
  <2>1. e \in Final
    BY <1>1 DEF Final
  <2>2. kid' = [kid EXCEPT ![c] = [kid[c] EXCEPT !.at = "patching", !.ending = e,
                                                !.caught = kid[c].caught]]
    BY <1>1, <1>4 DEF Kids
  <2> HIDE DEF e
  <2>3. QED
    BY <1>1, <1>2, <1>3, <2>1, <2>2, AdvanceStep
<1>5. CASE kid' = [kid EXCEPT ![c].at = "patching", ![c].caught = TRUE,
                             ![c].ending = IF kid[c].aborted THEN "killed" ELSE "error"]
  <2> DEFINE e == IF kid[c].aborted THEN "killed" ELSE "error"
  <2>1. e \in Final
    BY DEF Final
  <2>2. kid' = [kid EXCEPT ![c] = [kid[c] EXCEPT !.at = "patching", !.ending = e, !.caught = TRUE]]
    BY <1>1, <1>5
  <2> HIDE DEF e
  <2>3. QED
    BY <1>1, <1>2, <2>1, <2>2, AdvanceStep
<1>6. QED
  BY <1>4, <1>5 DEF ClosingEnds

LEMMA PatchingEndsStep ==
    ASSUME IInv, NEW c \in Children, PatchingEnds(c)
    PROVE  IInv'
<1>1. /\ kid[c].at = "patching" /\ kid[c].at \in Dispatched /\ kid[c].at # "idle"
      /\ kid[c] \in Kids /\ kid \in [Children -> Kids] /\ kid[c].ending \in Final
  BY DEF PatchingEnds, Dispatched, IInv, Typed, KidsOK, KidOK
<1>2. CASE Returned(Patched(c), c, kid[c].ending) /\ UNCHANGED <<alive, process>>
  <2> DEFINE m == IF kid[c].meta = "gone" THEN "gone" ELSE kid[c].ending
             k == [kid[c] EXCEPT !.meta = m]
  <2>1. m \in Statuses \cup {"gone"} /\ (m \in Final => m = kid[c].ending)
    BY <1>1 DEF Statuses, Final
  <2>2. Patched(c) = [kid EXCEPT ![c] = k]
    BY <1>1 DEF Patched
  <2> HIDE DEF m
  <2>3. /\ k \in Kids /\ k.parent = kid[c].parent /\ k.aborted = kid[c].aborted /\ k.meta = m
    BY <1>1, <2>1 DEF Kids
  <2> HIDE DEF k
  <2>4. Patched(c) \in [Children -> Kids] /\ Patched(c)[c] = k
        /\ \A d \in Children \ {c} : Patched(c)[d] = kid[d]
    BY <1>1, <2>2, <2>3
  <2>5. QED
    BY <1>1, <1>2, <2>1, <2>3, <2>4, ReturnedStep
<1>3. CASE Closing(c, "error", TRUE)
  BY <1>1, <1>3, ClosingStep DEF Final
<1>4. CASE Rejected(kid, c)
  BY <1>1, <1>4, RejectedStep
<1>5. QED
  BY <1>2, <1>3, <1>4 DEF PatchingEnds

\* Firing a handler breaks none of what a child's code and its record know of each other.
LEMMA FiredIsOK ==
    ASSUME IInv, NEW c \in Children
    PROVE  /\ KidOK(Fired(kid, c)[c], reg[c])
           /\ reg[c] = "running" => KidOK(Fired(kid, c)[c], "killed")
<1>1. kid \in [Children -> Kids] /\ KidOK(kid[c], reg[c])
  BY DEF IInv, Typed, KidsOK
<1> DEFINE k == Fired(kid, c)[c]
<1>2. /\ k.at = kid[c].at /\ k.parent = kid[c].parent /\ k.meta = kid[c].meta
      /\ k.ending = kid[c].ending
      /\ k.aborted = IF kid[c].handler THEN kid[c].at # "done" ELSE kid[c].aborted
  BY <1>1, FiredIsKid
<1> HIDE DEF k
<1>3. k.at \in Dispatched => k.handler \/ k.aborted
  BY <1>1, <1>2 DEF KidOK, Dispatched
<1>4. KidOK(k, reg[c]) /\ (reg[c] = "running" => KidOK(k, "killed"))
  BY <1>1, <1>2, <1>3 DEF KidOK
<1>5. QED
  BY <1>4 DEF k

LEMMA FiredMoves ==
    ASSUME IInv, NEW c \in Children, kid' = Fired(kid, c)
    PROVE  Moves(c)
BY FiredIsKid DEF Moves, IInv, Typed

LEMMA KillStep ==
    ASSUME IInv, NEW c \in Children, Kill(c)
    PROVE  IInv'
<1>1. Moves(c) /\ reg[c] = "running" /\ reg[c] # "none" /\ KidOK(kid'[c], "killed")
  BY FiredMoves, FiredIsOK DEF Kill
<1>2. QED
  BY <1>1, SettlingStep DEF Kill, Final

LEMMA AbortChildStep ==
    ASSUME IInv, NEW c \in Children, AbortChild(c)
    PROVE  IInv'
BY FiredMoves, FiredIsOK, SilentStep DEF AbortChild, IInv, Typed

LEMMA DeleteChildStep ==
    ASSUME IInv, NEW c \in Children, DeleteChild(c)
    PROVE  IInv'
<1> DEFINE k == [kid[c] EXCEPT !.meta = "gone"]
<1>1. kid[c] \in Kids
  BY DEF IInv, Typed
<1>2. /\ k \in Kids /\ k.at = kid[c].at /\ k.parent = kid[c].parent /\ k.handler = kid[c].handler
      /\ k.aborted = kid[c].aborted /\ k.ending = kid[c].ending /\ k.meta = "gone"
  BY <1>1 DEF Kids
<1>3. kid' = [kid EXCEPT ![c] = k]
  BY DEF DeleteChild, IInv, Typed
<1> HIDE DEF k
<1>4. Moves(c) /\ kid'[c] = k
  BY <1>2, <1>3, KidMoves
<1>5. KidOK(kid'[c], reg[c])
  BY <1>2, <1>4 DEF IInv, KidsOK, KidOK, Final
<1>6. QED
  BY <1>4, <1>5, SilentStep DEF DeleteChild, IInv, Typed

LEMMA DeleteParentStep ==
    ASSUME IInv, NEW s \in Parents, DeleteParent(s)
    PROVE  IInv'
<1>1. alive' \in [Parents -> BOOLEAN]
  BY DEF DeleteParent, IInv, Typed
<1>2. SameFamilies
  BY DEF SameFamilies, DeleteParent, IInv, Typed
<1>3. RegistryTyped /\ Registry'
  BY <1>2, StillKeepsRegistry DEF DeleteParent
<1>4. KidsOK'
  BY DEF DeleteParent, NoRegistryChange, IInv, KidsOK
<1>5. QED
  BY <1>1, <1>3, <1>4 DEF RegistryTyped, DeleteParent, IInv, Typed
-----------------------------------------------------------------------------
\* A step that leaves the records and the children alone.
LEMMA YieldsStep ==
    ASSUME IInv, UNCHANGED <<reg, kid, alive, process>>, RegistryTyped, Registry'
    PROVE  IInv'
<1>1. Typed'
  BY DEF RegistryTyped, IInv, Typed
<1>2. KidsOK'
  BY DEF IInv, KidsOK
<1>3. QED
  BY <1>1, <1>2 DEF IInv

\* Results change in no yield: those that had them have the same.
LEMMA ResumesStay ==
    ASSUME IInv, reg' = reg,
           \A s \in Parents : \A n \in 1..Len(yields'[s]) : yields'[s][n].at = "lookup" =>
               n \in 1..Len(yields[s]) /\ yields'[s][n] = yields[s][n]
    PROVE  ResumesTellTheTruth'
<1> SUFFICES ASSUME NEW s \in Parents, NEW n \in 1..Len(yields'[s]), yields'[s][n].at = "lookup"
             PROVE  /\ \A c \in DOMAIN yields'[s][n].results :
                          yields'[s][n].results[c] \in {"running", reg[c]}
                    /\ (\E c \in DOMAIN yields'[s][n].results :
                          yields'[s][n].results[c] = "running")
                       <=> yields'[s][n].reason = "timeout"
  BY DEF ResumesTellTheTruth
<1>1. n \in 1..Len(yields[s]) /\ yields'[s][n] = yields[s][n]
  OBVIOUS
<1>2. yields[s][n].at = "lookup"
  BY <1>1
<1>3. QED
  BY <1>1, <1>2 DEF IInv, Registry, ResumesTellTheTruth

LEMMA YieldStep ==
    ASSUME IInv, NEW s \in Parents, Yield(s)
    PROVE  IInv'
<1> DEFINE n == Len(yields[s]) + 1
<1>1. /\ yields \in [Parents -> Seq(Yields)] /\ yields[s] \in Seq(Yields) /\ n \in Nat \ {0}
      /\ pend \in [Parents -> Nat] /\ pend[s] = 0 /\ n <= MaxYields
  BY SubAgentsConstants DEF Yield, IInv, Typed
<1>2. NewYield \in Yields /\ NewYield.at = "pending"
  BY DEF NewYield, Yields
<1>3. /\ yields' \in [Parents -> Seq(Yields)]
      /\ Len(yields'[s]) = n /\ yields'[s][n] = NewYield
      /\ \A i \in 1..Len(yields[s]) : yields'[s][i] = yields[s][i]
      /\ \A p \in Parents \ {s} : yields'[p] = yields[p]
  BY <1>1, <1>2 DEF Yield
<1>4. pend' = [pend EXCEPT ![s] = n] /\ timers' = timers \cup {<<s, n>>}
  BY DEF Yield
<1>a. \A p \in Parents : \A i \in 1..Len(yields'[p]) :
         \/ p = s /\ i = n
         \/ i # n /\ i \in 1..Len(yields[p]) /\ yields'[p][i] = yields[p][i]
         \/ p # s /\ i \in 1..Len(yields[p]) /\ yields'[p][i] = yields[p][i]
  <2> SUFFICES ASSUME NEW p \in Parents, NEW i \in 1..Len(yields'[p])
               PROVE  \/ p = s /\ i = n
                      \/ i # n /\ i \in 1..Len(yields[p]) /\ yields'[p][i] = yields[p][i]
                      \/ p # s /\ i \in 1..Len(yields[p]) /\ yields'[p][i] = yields[p][i]
    OBVIOUS
  <2>1. CASE p = s
    BY <1>1, <1>3, <2>1
  <2>2. CASE p # s
    BY <1>3, <2>2
  <2>3. QED
    BY <2>1, <2>2
<1> HIDE DEF n
<1>5. RegistryTyped
  BY <1>1, <1>3, <1>4 DEF RegistryTyped, Yield, IInv, Typed
<1>6. PendingIsInMap'
  <2> SUFFICES ASSUME NEW p \in Parents, NEW i \in 1..Len(yields'[p])
               PROVE  yields'[p][i].at = "pending" <=> i = pend'[p]
    BY DEF PendingIsInMap
  <2>1. CASE p = s /\ i = n
    BY <1>1, <1>2, <1>3, <1>4, <2>1
  <2>2. CASE ~(p = s /\ i = n)
    <3>1. i \in 1..Len(yields[p]) /\ yields'[p][i] = yields[p][i]
      BY <1>a, <2>2
    <3>2. yields[p][i].at = "pending" <=> i = pend[p]
      BY <3>1 DEF IInv, Registry, PendingIsInMap
    <3>3. i = pend'[p] <=> i = pend[p]
      BY <1>1, <1>4, <2>2, <3>1
    <3>4. QED
      BY <3>1, <3>2, <3>3
  <2>3. QED
    BY <2>1, <2>2
<1>7. PendingYieldHasRunningChild'
  BY <1>1, <1>4 DEF Yield, ChildrenOf, IInv, Registry, PendingYieldHasRunningChild
<1>8. TimersOwnTheirYield'
  BY <1>1, <1>4 DEF IInv, Registry, TimersOwnTheirYield
<1>9. ResumesTellTheTruth'
  <2>1. \A p \in Parents : \A i \in 1..Len(yields'[p]) : yields'[p][i].at = "lookup" =>
            i \in 1..Len(yields[p]) /\ yields'[p][i] = yields[p][i]
    BY <1>2, <1>3, <1>a
  <2>2. QED
    BY <2>1, ResumesStay DEF Yield
<1>10. QED
  BY <1>5, <1>6, <1>7, <1>8, <1>9, YieldsStep DEF Yield, Registry

\* The timer that fires is the pending yield's own, and a child is still running.
LEMMA YieldTimesOutStep ==
    ASSUME IInv, NEW s \in Parents, NEW n, YieldTimesOut(s, n)
    PROVE  IInv'
<1>1. pend[s] = n /\ pend[s] # 0
  BY DEF YieldTimesOut, IInv, Registry, TimersOwnTheirYield
<1>2. FinishYield(reg', s, "timeout") /\ UNCHANGED <<reg, kid, alive, process>>
  BY <1>1 DEF YieldTimesOut
<1>3. \E c \in ChildrenOf(s) : reg'[c] = "running"
  BY <1>1, <1>2 DEF IInv, Registry, PendingYieldHasRunningChild
<1>4. SameFamilies /\ reg' \in [Children -> Statuses]
  BY <1>2 DEF SameFamilies, IInv, Typed
<1>5. RegistryTyped /\ Registry'
  BY <1>1, <1>2, <1>3, <1>4, FinishKeepsRegistry
<1>6. QED
  BY <1>2, <1>5, YieldsStep

LEMMA ResumeStep ==
    ASSUME IInv, NEW s \in Parents, NEW n, Resume(s, n)
    PROVE  IInv'
<1> DEFINE y == [at |-> IF alive[s] THEN "dispatched" ELSE "dropped",
                 reason |-> None, results |-> <<>>]
<1>1. /\ yields \in [Parents -> Seq(Yields)] /\ yields[s] \in Seq(Yields)
      /\ n \in 1..Len(yields[s]) /\ yields[s][n].at = "lookup"
  BY DEF Resume, IInv, Typed
<1>2. y \in Yields /\ y.at \notin {"pending", "lookup"}
  BY DEF Yields
<1>3. yields' = [yields EXCEPT ![s][n] = y]
  BY DEF Resume
<1> HIDE DEF y
<1>4. /\ yields' \in [Parents -> Seq(Yields)]
      /\ \A p \in Parents : Len(yields'[p]) = Len(yields[p])
      /\ \A p \in Parents \ {s} : yields'[p] = yields[p]
      /\ yields'[s] = [yields[s] EXCEPT ![n] = y]
  BY <1>1, <1>2, <1>3
<1>5. /\ yields'[s][n] = y
      /\ \A i \in 1..Len(yields[s]) : i # n => yields'[s][i] = yields[s][i]
  BY <1>1, <1>4
<1>6. RegistryTyped
  BY <1>4 DEF Resume, RegistryTyped, IInv, Typed
<1>7. PendingIsInMap'
  BY <1>1, <1>2, <1>4, <1>5 DEF Resume, IInv, Typed, Registry, PendingIsInMap
<1>8. PendingYieldHasRunningChild' /\ TimersOwnTheirYield'
  BY DEF Resume, ChildrenOf, IInv, Registry, PendingYieldHasRunningChild, TimersOwnTheirYield
<1>9. ResumesTellTheTruth'
  <2>1. \A p \in Parents : \A i \in 1..Len(yields'[p]) : yields'[p][i].at = "lookup" =>
            i \in 1..Len(yields[p]) /\ yields'[p][i] = yields[p][i]
    BY <1>1, <1>2, <1>4, <1>5
  <2>2. QED
    BY <2>1, ResumesStay DEF Resume
<1>10. QED
  BY <1>6, <1>7, <1>8, <1>9, YieldsStep DEF Resume, Registry

LEMMA DestroyStep ==
    ASSUME IInv, Destroy
    PROVE  IInv'
<1>1. /\ yields \in [Parents -> Seq(Yields)] /\ pend \in [Parents -> Nat]
      /\ \A s \in Parents : pend[s] \in 0..Len(yields[s])
  BY DEF IInv, Typed
<1>2. pend' = [s \in Parents |-> 0] /\ timers' = {}
  BY DEF Destroy, IInv, Registry, TimersOwnTheirYield
<1>3. \A s \in Parents :
         /\ yields'[s] \in Seq(Yields) /\ Len(yields'[s]) = Len(yields[s])
         /\ \A n \in 1..Len(yields[s]) : IF n = pend[s] THEN yields'[s][n].at = "cancelled"
                                         ELSE yields'[s][n] = yields[s][n]
  <2> SUFFICES ASSUME NEW s \in Parents
               PROVE  /\ yields'[s] \in Seq(Yields) /\ Len(yields'[s]) = Len(yields[s])
                      /\ \A n \in 1..Len(yields[s]) :
                            IF n = pend[s] THEN yields'[s][n].at = "cancelled"
                            ELSE yields'[s][n] = yields[s][n]
    OBVIOUS
  <2>1. CASE pend[s] = 0
    BY <1>1, <2>1 DEF Destroy
  <2>2. CASE pend[s] # 0
    <3> DEFINE y == [yields[s][pend[s]] EXCEPT !.at = "cancelled"]
    <3>1. pend[s] \in 1..Len(yields[s]) /\ yields[s] \in Seq(Yields)
      BY <1>1, <2>2
    <3>2. yields[s][pend[s]] \in Yields
      BY <3>1
    <3>3. y \in Yields /\ y.at = "cancelled"
      BY <3>2 DEF Yields
    <3>4. yields'[s] = [yields[s] EXCEPT ![pend[s]] = y]
      BY <2>2 DEF Destroy
    <3> HIDE DEF y
    <3>5. QED
      BY <3>1, <3>3, <3>4
  <2>3. QED
    BY <2>1, <2>2
<1>4. yields' = [s \in Parents |-> yields'[s]]
  BY DEF Destroy
<1>5. kid' \in [Children -> Kids] /\ \A c \in Children : kid'[c] = Fired(kid, c)[c]
  BY FiredIsKid DEF Destroy, IInv, Typed
<1>6. Typed'
  BY <1>1, <1>2, <1>3, <1>4, <1>5 DEF Destroy, IInv, Typed
<1>7. KidsOK'
  BY <1>5, FiredIsOK DEF Destroy, KidsOK
<1>8. PendingIsInMap'
  <2> SUFFICES ASSUME NEW s \in Parents, NEW n \in 1..Len(yields[s])
               PROVE  yields'[s][n].at # "pending" /\ n # pend'[s]
    BY <1>3 DEF PendingIsInMap
  <2>1. CASE n = pend[s]
    BY <1>2, <1>3, <2>1
  <2>2. CASE n # pend[s]
    BY <1>2, <1>3, <2>2 DEF IInv, Registry, PendingIsInMap
  <2>3. QED
    BY <2>1, <2>2
<1>9. PendingYieldHasRunningChild' /\ TimersOwnTheirYield'
  BY <1>2 DEF PendingYieldHasRunningChild, TimersOwnTheirYield
<1>10. ResumesTellTheTruth'
  <2>1. \A p \in Parents : \A i \in 1..Len(yields'[p]) : yields'[p][i].at = "lookup" =>
            i \in 1..Len(yields[p]) /\ yields'[p][i] = yields[p][i]
    BY <1>3
  <2>2. QED
    BY <2>1, ResumesStay DEF Destroy
<1>11. QED
  BY <1>6, <1>7, <1>8, <1>9, <1>10 DEF IInv, Registry
-----------------------------------------------------------------------------
LEMMA InitInvariant == Init => IInv
<1> SUFFICES ASSUME Init PROVE IInv
  OBVIOUS
<1>1. NewKid \in Kids
  BY DEF NewKid, Kids, Places, Callers, Statuses
<1>2. KidOK(NewKid, "none")
  BY DEF NewKid, KidOK, Dispatched
<1>3. Typed
  <2>1. <<>> \in Seq(Yields) /\ Len(<<>>) = 0 /\ 0 <= MaxYields
    BY SubAgentsConstants
  <2>2. /\ yields \in [Parents -> Seq(Yields)] /\ \A s \in Parents : yields[s] = <<>>
        /\ pend \in [Parents -> Nat] /\ \A s \in Parents : pend[s] = 0
    BY <2>1 DEF Init
  <2>3. reg \in [Children -> Statuses] /\ kid \in [Children -> Kids]
    BY <1>1 DEF Init, Statuses
  <2>4. QED
    BY <2>1, <2>2, <2>3 DEF Init, Typed
<1>4. KidsOK
  BY <1>2 DEF Init, KidsOK
<1>5. Registry
  BY DEF Init, Registry, PendingIsInMap, PendingYieldHasRunningChild, TimersOwnTheirYield,
         ResumesTellTheTruth
<1>6. QED
  BY <1>3, <1>4, <1>5 DEF IInv

LEMMA StepInvariant ==
    ASSUME IInv, [Next]_vars
    PROVE  IInv'
<1>1. CASE UNCHANGED vars
  BY <1>1 DEF vars, ChildrenOf, IInv, Typed, KidsOK, Registry, PendingIsInMap,
     PendingYieldHasRunningChild, TimersOwnTheirYield, ResumesTellTheTruth
<1>2. ASSUME NEW c \in Children, Continue(c)
      PROVE  IInv'
  BY <1>2, SpawnRecordedStep, ChildOpensStep, PreflightPassesStep, ClosingEndsStep,
     PatchingEndsStep DEF Continue
<1>3. ASSUME NEW c \in Children,
             \/ \E s \in Parents, caller \in {"async", "waiting"} : Spawn(c, s, caller)
             \/ SpawnFails(c) \/ WaitTimesOut(c)
      PROVE  IInv'
  BY <1>3, SpawnStep, SpawnFailsStep, WaitTimesOutStep
<1>4. ASSUME NEW c \in Children,
             ReplyClaimed(c) \/ PromptResolves(c) \/ PreflightOrPromptThrows(c)
      PROVE  IInv'
  BY <1>4, ReplyClaimedStep, PromptResolvesStep, PreflightOrPromptThrowsStep
<1>5. ASSUME NEW c \in Children, Kill(c) \/ AbortChild(c) \/ DeleteChild(c)
      PROVE  IInv'
  BY <1>5, KillStep, AbortChildStep, DeleteChildStep
<1>6. ASSUME NEW s \in Parents, DeleteParent(s) \/ Yield(s)
      PROVE  IInv'
  BY <1>6, DeleteParentStep, YieldStep
<1>7. ASSUME NEW s \in Parents, NEW n \in 1..MaxYields, YieldTimesOut(s, n) \/ Resume(s, n)
      PROVE  IInv'
  BY <1>7, YieldTimesOutStep, ResumeStep
<1>8. CASE Destroy
  BY <1>8, DestroyStep
<1>9. QED
  BY <1>1, <1>2, <1>3, <1>4, <1>5, <1>6, <1>7, <1>8 DEF Next

LEMMA Invariant == Spec => []IInv
BY InitInvariant, StepInvariant, PTL DEF Spec

\* Every variable keeps its type: no operation of the registry, the tools or the executor
\* leaves a record, a yield or a timer in a shape its other operations do not know.
THEOREM TypesCorrect == Spec => []TypeOK
<1>1. IInv => TypeOK
  <2> SUFFICES ASSUME IInv PROVE TypeOK
    OBVIOUS
  <2>1. \A s \in Parents : \A n \in 1..Len(yields[s]) : yields[s][n] \in Yields
    BY DEF IInv, Typed
  <2>2. \A s \in Parents : pend[s] \in 0..Len(yields[s]) /\ Len(yields[s]) \in Nat
    BY DEF IInv, Typed
  <2>3. timers \subseteq Parents \X (1..MaxYields)
    BY <2>2, SubAgentsConstants DEF IInv, Typed, Registry, TimersOwnTheirYield
  <2>4. QED
    BY <2>1, <2>2, <2>3 DEF IInv, Typed, TypeOK, Kids
<1>2. QED
  BY <1>1, Invariant, PTL

\* maybeResolveYield and finishYield: no session waits for children that have all ended.
THEOREM YieldsHaveRunningChildren == Spec => []PendingYieldHasRunningChild
<1>1. IInv => PendingYieldHasRunningChild
  BY DEF IInv, Registry
<1>2. QED
  BY <1>1, Invariant, PTL

\* finishYield clears the timer it armed: a timer that fires finds its own yield pending, though
\* it looks it up by the session's key.
THEOREM TimersAreTheirYields == Spec => []TimersOwnTheirYield
<1>1. IInv => TimersOwnTheirYield
  BY DEF IInv, Registry
<1>2. QED
  BY <1>1, Invariant, PTL

\* What finishYield tells the parent is still true when handleYieldResume hands it over, and
\* a child is said to be running exactly when the timeout ended the wait.
THEOREM ResumesAreTrue == Spec => []ResumesTellTheTruth
<1>1. IInv => ResumesTellTheTruth
  BY DEF IInv, Registry
<1>2. QED
  BY <1>1, Invariant, PTL

\* childAborts: from dispatch to the end of its code a child can be stopped, or has been.
THEOREM ChildrenAreStoppable == Spec => []RunningChildStoppable
<1>1. IInv => RunningChildStoppable
  BY DEF IInv, KidsOK, KidOK, Dispatched, RunningChildStoppable
<1>2. QED
  BY <1>1, Invariant, PTL

\* runChild's metadata and the registry never tell of two different endings, unless a kill
\* made the record final.
THEOREM HistoryIsTrue == Spec => []HistoryAgrees
<1>1. IInv => HistoryAgrees
  BY DEF IInv, KidsOK, KidOK, HistoryAgrees
<1>2. QED
  BY <1>1, Invariant, PTL
-----------------------------------------------------------------------------
LEMMA SettleIsFinal ==
    ASSUME IInv, NEW c \in Children, NEW status, Settle(c, status)
    PROVE  \A d \in Children : reg[d] \in Final => reg'[d] = reg[d]
<1>1. CASE reg[c] = "running"
  <2>1. reg' = [reg EXCEPT ![c] = status]
    BY <1>1 DEF Settle
  <2>2. QED
    BY <1>1, <2>1 DEF IInv, Typed, Final
<1>2. CASE reg[c] # "running"
  BY <1>2 DEF Settle
<1>3. QED
  BY <1>1, <1>2

\* onComplete, onError and kill all ask whether the record is still running: what a record says
\* of how a child ended never changes.
THEOREM FinalStatusIsFinal == Spec => FinalStatusStays
<1> DEFINE Kept == \A c \in Children : reg[c] \in Final => reg'[c] = reg[c]
<1>1. ASSUME IInv, [Next]_vars PROVE Kept
  <2>1. CASE reg' = reg
    BY <2>1
  <2>2. ASSUME NEW c \in Children, NEW s \in Parents, NEW caller, Spawn(c, s, caller)
        PROVE  Kept
    BY <1>1, <2>2 DEF Spawn, IInv, Typed, KidsOK, KidOK, Final
  <2>3. ASSUME NEW c \in Children, NEW status, Settle(c, status)
        PROVE  Kept
    BY <1>1, <2>3, SettleIsFinal
  <2>4. ASSUME NEW c \in Children, Continue(c)
        PROVE  Kept
    BY <2>1, <2>3, <2>4 DEF Continue, SpawnRecorded, ChildOpens, Returned, Rejected, PreflightPasses,
       ClosingEnds, PatchingEnds, Closing, NoRegistryChange
  <2>5. ASSUME NEW c \in Children,
               \/ SpawnFails(c) \/ WaitTimesOut(c)
               \/ ReplyClaimed(c) \/ PromptResolves(c) \/ PreflightOrPromptThrows(c)
               \/ Kill(c) \/ AbortChild(c) \/ DeleteChild(c)
        PROVE  Kept
    BY <2>1, <2>3, <2>5 DEF SpawnFails, WaitTimesOut, ReplyClaimed, PromptResolves,
       PreflightOrPromptThrows, Closing, Kill, AbortChild, DeleteChild, NoRegistryChange
  <2>6. ASSUME NEW s \in Parents, NEW n,
               DeleteParent(s) \/ Yield(s) \/ YieldTimesOut(s, n) \/ Resume(s, n)
        PROVE  Kept
    BY <2>1, <2>6 DEF DeleteParent, NoRegistryChange, Yield, YieldTimesOut, Resume
  <2>7. CASE Destroy
    BY <2>1, <2>7 DEF Destroy
  <2>8. CASE UNCHANGED vars
    BY <2>1, <2>8 DEF vars
  <2>9. QED
    BY <1>1, <2>2, <2>4, <2>5, <2>6, <2>7, <2>8 DEF Next
<1>2. IInv /\ [Next]_vars => [Kept]_reg
  BY <1>1
<1>3. QED
  BY <1>2, Invariant, PTL DEF Spec, FinalStatusStays
=============================================================================
