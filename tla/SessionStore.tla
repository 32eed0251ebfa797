---------------------------- MODULE SessionStore ----------------------------
(***************************************************************************)
(* The session index of an agent: sessions.json with its cache and lock    *)
(* (server/storage/storage-engine.ts), the transcripts beside it           *)
(* (server/sessions/session-transcript-store.ts) and the operations that   *)
(* use both (server/sessions/session-router.ts, the accounting of          *)
(* run-coordinator.ts, the session and storage routes of index.ts).        *)
(*                                                                         *)
(* Callers are requests and runs of the one Node process; a step is what   *)
(* runs between two awaits.  Every change of the index is a section under  *)
(* its engine's storeLock (Enter .. Written); a transcript is created      *)
(* before the section that names it and unlinked after the one that        *)
(* forgets it.  An engine is a StorageEngine instance: an agent owns one,  *)
(* and index.ts keeps another one of the same directory for its routes.    *)
(*                                                                         *)
(* Left out: branches, memory files, reset archives, the content of a      *)
(* transcript, which sessions are the oldest (a free choice).  Of an entry *)
(* there is its transcript and one total.                                  *)
(***************************************************************************)
EXTENDS Naturals, FiniteSets, Sequences, FiniteSetsExt

CONSTANTS
    Keys,          \* session keys
    Callers,       \* requests and runs in progress
    Engines,       \* StorageEngine instances over the one directory
    EngineOf,      \* the instance each caller works with
    None,
    Unread,        \* storeCache = null
    Retention,     \* sessionRetention
    ReadsOverlap,  \* may other work come between a file read and its use?
    MaxOps,        \* bound: operations started
    MaxCrashes     \* bound: restarts of the process

ASSUME SessionStoreAssumption ==
    /\ EngineOf \in [Callers -> Engines]
    /\ None # Unread /\ {None, Unread} \cap (Callers \cup Keys) = {}
    /\ {Retention, MaxOps, MaxCrashes} \subseteq Nat
    /\ ReadsOverlap \in BOOLEAN

VARIABLES
    disk,      \* sessions.json: the entry of each key (no file = no entries)
    files,     \* transcripts in the sessions directory
    made,      \* transcripts ever made for a key
    cache,     \* storeCache of each engine
    lock,      \* the caller inside a section of storeLock, by engine
    at,        \* the await a caller stands at
    me,        \* a caller's local variables
    intended,  \* history: the index, had every change met the latest one
    swept,     \* history: transcripts unlinked as orphans
    started,   \* operations started so far
    crashes    \* restarts so far
index == <<disk, cache, lock, intended>>
folder == <<files, made, swept>>
bounds == <<started, crashes>>
vars == <<index, folder, at, me, bounds>>

Transcripts == Keys \X Nat
Stores == [Keys -> [file: Transcripts, total: Nat] \cup {None}]
Empty == [k \in Keys |-> None]
Listed(s) == {k \in Keys : s[k] # None}
Referenced(s) == {s[k].file : k \in Listed(s)}

\* A change of the index, made in a section: createSession, updateSession with
\* a new transcript or with new totals (a missing key is left alone),
\* deleteSession, rotateStoreFile.
Kinds == {"put", "reset", "totals", "drop", "rotate"}
Change(kind, k, file, total) == [kind |-> kind, key |-> k, file |-> file, total |-> total]
Apply(change, s) ==
    LET k == change.key  kind == change.kind IN
    IF kind = "rotate" THEN Empty
    ELSE IF kind = "put" THEN [s EXCEPT ![k] = [file |-> change.file, total |-> 0]]
    ELSE IF s[k] = None THEN s
    ELSE CASE kind = "reset" -> [s EXCEPT ![k] = [file |-> change.file, total |-> 0]]
           [] kind = "totals" -> [s EXCEPT ![k].total = change.total]
           [] kind = "drop" -> [s EXCEPT ![k] = None]

\* The locals: the key asked for, the change to make, what readFile returned,
\* the index to be written, keys still to be deleted, the transcript to be
\* unlinked, the transcripts to be spared, the stages still to come.
NewCall == [key |-> None, change |-> None, raw |-> Unread, next |-> None, todo |-> {},
            victim |-> None, spared |-> {}, plan |-> <<>>]
Stages == {"retain", "prune", "orphans", "rotate"}
Places == Stages \cup {"idle", "route", "reset", "status", "clear", "turn", "fresh",
                       "forked", "enter", "write", "unlink", "scan"}

Init ==
    /\ \E K \in SUBSET Keys :
          /\ disk = [k \in Keys |-> IF k \in K THEN [file |-> <<k, 0>>, total |-> 0] ELSE None]
          /\ files = {<<k, 0>> : k \in K}
    /\ intended = disk
    /\ made = [k \in Keys |-> 0]
    /\ cache = [e \in Engines |-> Unread]
    /\ lock = [e \in Engines |-> None]
    /\ at = [c \in Callers |-> "idle"]
    /\ me = [c \in Callers |-> NewCall]
    /\ swept = {}
    /\ started = 0 /\ crashes = 0
-----------------------------------------------------------------------------
\* readStore: with a cache it answers at once; without one it awaits the file
\* (Fetch) and then caches what it got, whatever has happened in between.
Reading == {"route", "reset", "status", "clear", "turn", "retain", "prune", "orphans"}
Fetching(c) == me[c].raw # Unread
Alone(c) == ReadsOverlap \/ \A d \in Callers \ {c} : ~Fetching(d)

Fetch(c) ==
    LET e == EngineOf[c] IN
    /\ cache[e] = Unread /\ ~Fetching(c)
    /\ \/ at[c] \in Reading /\ UNCHANGED lock
       \/ /\ at[c] = "enter" /\ me[c].change.kind # "rotate" /\ lock[e] = None
          /\ lock' = [lock EXCEPT ![e] = c]
    /\ me' = [me EXCEPT ![c].raw = disk]
    /\ UNCHANGED <<disk, cache, intended, folder, at, bounds>>

\* An answer from the cache, or from the file that was fetched for this call.
MayRead(c) == Fetching(c) \/ cache[EngineOf[c]] # Unread
Store(c) == IF Fetching(c) THEN me[c].raw ELSE cache[EngineOf[c]]
Cached(c) == cache' = [cache EXCEPT ![EngineOf[c]] = Store(c)]

Go(c, place, locals) ==
    at' = [at EXCEPT ![c] = place] /\ me' = [me EXCEPT ![c] = [locals EXCEPT !.raw = Unread]]
End(c) == Go(c, "idle", NewCall)

\* What follows a finished part of an operation: the next key to be deleted,
\* the next stage, or the end.
ProceedWith(c, todo, plan) ==
    \/ \E k \in todo :
          Go(c, "enter", [NewCall EXCEPT !.todo = todo \ {k}, !.plan = plan,
                                         !.change = Change("drop", k, None, 0)])
    \/ todo = {} /\ plan # <<>> /\ Go(c, Head(plan), [NewCall EXCEPT !.plan = Tail(plan)])
    \/ todo = {} /\ plan = <<>> /\ End(c)
Proceed(c) == ProceedWith(c, me[c].todo, me[c].plan)

\* The calls a request or a run starts: route (a dispatched message),
\* resetSession, the accounting of a turn, clearMessages, the deletion of one
\* session or of all, runMaintenance in mode "enforce".
Begin(c) ==
    /\ at[c] = "idle" /\ started < MaxOps
    /\ \/ \E k \in Keys, place \in {"route", "reset", "status", "clear"} :
             Go(c, place, [NewCall EXCEPT !.key = k])
       \/ \E k \in Keys : Go(c, "enter", [NewCall EXCEPT !.change = Change("drop", k, None, 0)])
       \/ Go(c, "prune", NewCall)
       \/ Go(c, "prune", [NewCall EXCEPT !.plan = <<"orphans", "prune", "rotate", "orphans", "prune">>])
    /\ started' = started + 1
    /\ UNCHANGED <<index, folder, crashes>>

\* A look at the index that changes nothing but the cache.
Looks(c) == MayRead(c) /\ Cached(c) /\ UNCHANGED <<disk, lock, intended, folder, bounds>>

\* route: an unknown session is created, an outdated one is reset.
Route(c) ==
    /\ at[c] = "route" /\ Looks(c)
    /\ IF Store(c)[me[c].key] = None
         THEN Go(c, "fresh", [me[c] EXCEPT !.plan = <<"retain">>])
         ELSE Go(c, "reset", me[c]) \/ End(c)

\* resetSession looks again.  A session that is gone is created, and retention
\* is not enforced on this path.
Reset(c) ==
    /\ at[c] = "reset" /\ Looks(c)
    /\ Go(c, IF Store(c)[me[c].key] = None THEN "fresh" ELSE "forked", me[c])

\* Mutant of CreateTranscript: a session's transcript is named by its key.
CreateTranscriptByKey(c) ==
    LET k == me[c].key  file == <<k, 0>> IN
    /\ at[c] \in {"fresh", "forked"}
    /\ files' = files \cup {file}
    /\ Go(c, "enter", [me[c] EXCEPT !.change =
             Change(IF at[c] = "fresh" THEN "put" ELSE "reset", k, file, 0)])
    /\ UNCHANGED <<index, made, swept, bounds>>

\* transcriptStore.createSession; the entry that names the file comes next.
CreateTranscript(c) ==
    LET k == me[c].key  file == <<k, made[k] + 1>> IN
    /\ at[c] \in {"fresh", "forked"}
    /\ made' = [made EXCEPT ![k] = @ + 1]
    /\ files' = files \cup {file}
    /\ Go(c, "enter", [me[c] EXCEPT !.change =
             Change(IF at[c] = "fresh" THEN "put" ELSE "reset", k, file, 0)])
    /\ UNCHANGED <<index, swept, bounds>>

\* getStatus of applyAssistantUsage: the total to be written is computed here.
Status(c) ==
    LET k == me[c].key IN
    /\ at[c] = "status" /\ Looks(c)
    /\ IF Store(c)[k] = None THEN End(c)
       ELSE Go(c, "turn", [me[c] EXCEPT !.change = Change("totals", k, None, Store(c)[k].total + 1)])

\* updateAfterTurn looks whether the session is still there.
Turn(c) ==
    /\ at[c] = "turn" /\ Looks(c)
    /\ IF Store(c)[me[c].key] = None THEN End(c) ELSE Go(c, "enter", me[c])

\* clearMessages: the transcript is emptied and the totals are set to zero.
Clear(c) ==
    LET k == me[c].key IN
    /\ at[c] = "clear" /\ Looks(c)
    /\ IF Store(c)[k] = None THEN End(c)
       ELSE Go(c, "enter", [me[c] EXCEPT !.change = Change("totals", k, None, 0)])
-----------------------------------------------------------------------------
\* Mutant of Holds: storeLock lets everybody in.
HoldsNothing(c) == TRUE

\* storeLock.run: the section begins when no other caller of the engine is in
\* one.  (A caller that had to fetch the file took the lock before.)
Holds(c) == lock[EngineOf[c]] = IF Fetching(c) THEN c ELSE None

\* A section reads and computes.  An update or deletion that does not find its
\* key ends it at once.
Enter(c) ==
    LET e == EngineOf[c]  change == me[c].change  s == Store(c) IN
    /\ at[c] = "enter" /\ change.kind # "rotate" /\ MayRead(c) /\ Holds(c) /\ Cached(c)
    /\ IF change.kind # "put" /\ s[change.key] = None
         THEN /\ Proceed(c)
              /\ lock' = [lock EXCEPT ![e] = None]
              /\ intended' = Apply(change, intended)
         ELSE /\ Go(c, "write", [me[c] EXCEPT !.next = Apply(change, s), !.victim =
                        IF change.kind = "drop" THEN s[change.key].file ELSE None])
              /\ lock' = [lock EXCEPT ![e] = c]
              /\ UNCHANGED intended
    /\ UNCHANGED <<disk, folder, bounds>>

\* rotateStoreFile, if the file is too large: it is renamed away and the cache
\* dropped before an empty index is written.
Rotate(c) ==
    LET e == EngineOf[c] IN
    \/ at[c] = "rotate" /\ Proceed(c) /\ UNCHANGED <<index, folder, bounds>>
    \/ /\ at[c] = "rotate" /\ lock[e] = None
       /\ lock' = [lock EXCEPT ![e] = c]
       /\ disk' = Empty /\ intended' = Empty
       /\ cache' = [cache EXCEPT ![e] = Unread]
       /\ Go(c, "write", [me[c] EXCEPT !.next = Empty, !.change = Change("rotate", None, None, 0)])
       /\ UNCHANGED <<folder, bounds>>

\* writeFileAtomic has renamed the new file into place.
Written(c) ==
    LET e == EngineOf[c] IN
    /\ at[c] = "write"
    /\ disk' = me[c].next
    /\ cache' = [cache EXCEPT ![e] = me[c].next]
    /\ intended' = Apply(me[c].change, intended)
    /\ lock' = [lock EXCEPT ![e] = None]
    /\ IF me[c].victim = None THEN Proceed(c)
       ELSE Go(c, "unlink", [me[c] EXCEPT !.next = None, !.change = None])
    /\ UNCHANGED <<folder, bounds>>

\* Mutant of Fails: the section's failure leaves the lock taken.
FailsHolding(c) ==
    /\ lock[EngineOf[c]] = c /\ End(c)
    /\ UNCHANGED <<index, folder, bounds>>

\* Reading or writing the file fails inside a section: the operation throws,
\* the cache stays as it was, and storeLock goes on with the next section.
Fails(c) ==
    /\ lock[EngineOf[c]] = c /\ End(c)
    /\ lock' = [lock EXCEPT ![EngineOf[c]] = None]
    /\ UNCHANGED <<disk, cache, intended, folder, bounds>>

\* deleteTranscriptFile, after the section.
Unlink(c) ==
    /\ at[c] = "unlink"
    /\ files' = files \ {me[c].victim}
    /\ Proceed(c)
    /\ UNCHANGED <<index, made, swept, bounds>>
-----------------------------------------------------------------------------
\* enforceRetention: the sessions beyond the limit, in a list that is worked
\* off afterwards.
Retain(c) ==
    LET live == Listed(Store(c)) IN
    /\ at[c] = "retain" /\ Looks(c)
    /\ IF Cardinality(live) <= Retention THEN Proceed(c)
       ELSE \E overflow \in kSubset(Cardinality(live) - Retention, live) :
               ProceedWith(c, overflow, me[c].plan)

\* pruneStaleEntries, the limits of runMaintenance, and the deletion of all of
\* an agent's sessions do the same with sessions chosen otherwise.
Prune(c) ==
    /\ at[c] = "prune" /\ Looks(c)
    /\ \E chosen \in SUBSET Listed(Store(c)) : ProceedWith(c, chosen, me[c].plan)

\* removeOrphanTranscripts: the transcripts the index names are spared, the
\* others in the directory are unlinked.
LookForOrphans(c) ==
    /\ at[c] = "orphans" /\ Looks(c)
    /\ Go(c, "scan", [me[c] EXCEPT !.spared = Referenced(Store(c))])

Scan(c) ==
    /\ at[c] = "scan"
    /\ files' = files \cap me[c].spared
    /\ swept' = swept \cup (files \ me[c].spared)
    /\ Proceed(c)
    /\ UNCHANGED <<index, made, bounds>>

\* The process ends and is started again: memory is gone, the directory stays.
Crash ==
    /\ crashes < MaxCrashes /\ \E c \in Callers : at[c] # "idle"
    /\ crashes' = crashes + 1
    /\ cache' = [e \in Engines |-> Unread]
    /\ lock' = [e \in Engines |-> None]
    /\ at' = [c \in Callers |-> "idle"]
    /\ me' = [c \in Callers |-> NewCall]
    /\ UNCHANGED <<disk, intended, folder, started>>

Step(c) ==
    /\ Alone(c)
    /\ \/ Fails(c) \/ Fetch(c) \/ Route(c) \/ Reset(c) \/ CreateTranscript(c) \/ Status(c) \/ Turn(c)
       \/ Clear(c) \/ Enter(c) \/ Rotate(c) \/ Written(c) \/ Unlink(c) \/ Retain(c)
       \/ Prune(c) \/ LookForOrphans(c) \/ Scan(c)

Next == Crash \/ \E c \in Callers : Step(c) \/ (Alone(c) /\ Begin(c))
Spec == Init /\ [][Next]_vars

\* Reads and writes of files settle, one way or the other.
FairSpec == Spec /\ \A c \in Callers : WF_vars(Step(c))
-----------------------------------------------------------------------------
TypeOK ==
    /\ disk \in Stores /\ intended \in Stores
    /\ files \subseteq Transcripts /\ swept \subseteq Transcripts
    /\ made \in [Keys -> Nat]
    /\ \A e \in Engines : cache[e] \in Stores \cup {Unread} /\ lock[e] \in Callers \cup {None}
    /\ at \in [Callers -> Places]
    /\ \A c \in Callers :
          /\ DOMAIN me[c] = DOMAIN NewCall
          /\ me[c].todo \subseteq Keys /\ me[c].plan \in Seq(Stages)
          /\ me[c].change # None => me[c].change.kind \in Kinds
    /\ started \in 0..MaxOps /\ crashes \in 0..MaxCrashes

\* The index is what one gets by making every change of every caller on the
\* latest index, in the order they were made: none is lost, and a deleted
\* session stays deleted.  docs/concepts/storage-node.md:58: "All
\* read-modify-write mutations (create/update/delete/rotate) are serialized
\* through an internal mutex, so concurrent sessions can't clobber each other's
\* metadata (lost update)".
UpdatesKept == disk = intended

\* Whatever is interrupted, by an error or by a restart, the index never names
\* a transcript that is not there, unless maintenance took it for an orphan
\* while its session was being created.
EntriesHaveTranscripts == Referenced(disk) \subseteq files \cup swept

\* Every operation ends: no error leaves storeLock taken, and no section waits
\* for another one for good (util/mutex.ts:9-11, "a callback that throws still
\* releases the lock for the next waiter").
OperationsEnd == \A c \in Callers : at[c] # "idle" ~> at[c] = "idle"
=============================================================================
