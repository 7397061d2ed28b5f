--------------------------- MODULE CacheCoordinator ---------------------------
(***************************************************************************)
(* The entity cache of the API (packages/api/src/lib/CacheCoordinator.ts): *)
(* an in-memory copy of the library store, written through on every create,*)
(* update and delete, and re-read in the background once its TTL passed.   *)
(*                                                                         *)
(* The store is reached over an asynchronous adapter, so every call is two *)
(* steps: the store acts, and later the caller sees the answer.  Between   *)
(* the two every other operation and refresh may run.                      *)
(*                                                                         *)
(* An entity is its revision (dateModified) and the set of writes whose    *)
(* properties it carries: every write sets a property of its own.  One     *)
(* entity type is modelled (the per-type caches share only writeSeq);      *)
(* system entities, which every operation refuses, are outside Ids.        *)
(***************************************************************************)
EXTENDS Naturals, FiniteSets

CONSTANTS
    Ids,         \* entity ids of one type
    Ops,         \* client writes; each is issued once
    Refreshes,   \* slots for background refreshes
    Absent,      \* no such entity
    Preloads,    \* settings of CACHE_PRELOAD
    MaxClock,    \* bound: milliseconds that pass
    MaxFailures, \* bound: adapter calls that reject
    MaxWrites    \* bound: recorded writes after which nothing ephemeral is added

Entity == [rev : Nat, by : SUBSET Ops]

ASSUME AbsentAssumption == Absent \notin Entity
ASSUME BoundsAssumption == Preloads \subseteq BOOLEAN /\ {MaxClock, MaxFailures, MaxWrites} \subseteq Nat
ASSUME IdsAssumption == Ids # {}
ASSUME FiniteAssumption == IsFiniteSet(Refreshes)

VARIABLES
    preload,           \* CACHE_PRELOAD, read at boot
    store,             \* what the library store holds
    cache,             \* what the coordinator holds
    ephemeral,         \* _ephemeralIds: entities that are only in the cache
    writeSeq,          \* number of the last recorded write
    lastWrite,         \* lastWriteById; 0 is "no entry"
    inFlight,          \* refreshesInFlight
    pc,                \* where each client write has got to
    kind,              \* create, update or delete
    target,            \* the id it writes
    stamp,             \* the dateModified it writes
    canonical,         \* update(): the entity it patches
    fresh,             \* update(): what the read-back answered
    phase,             \* where each background refresh has got to
    whole,             \* a refresh of the type, or of one id
    about,             \* that id
    startedAt,         \* writeSeq when it began
    snap,              \* what the store answered it
    clock,             \* Date.now()
    failures           \* adapter calls that have rejected

\* History: not part of the program, read by no guard.
VARIABLES
    owed,       \* per id, the writes acknowledged and stored that no later one replaced
    contended,  \* ids two writes have been in flight for at once
    tainted     \* ids whose entry has had a reason to differ from the store

history == <<owed, contended, tainted>>
numbering == <<writeSeq, lastWrite>>
writes == <<pc, kind, target, stamp, canonical, fresh>>
refreshing == <<inFlight, phase, whole, about, startedAt, snap>>
limits == <<preload, clock, failures>>
vars == <<store, cache, ephemeral, numbering, writes, refreshing, limits, history>>

MaybeEntity == Entity \cup {Absent}

Steps == {"idle", "lookup", "insert", "inserted", "resolve", "patch", "patched",
          "read", "unread", "erase", "erased", "acked", "refused", "failed"}

TypeOK ==
    /\ preload \in BOOLEAN
    /\ store \in [Ids -> MaybeEntity]
    /\ cache \in [Ids -> MaybeEntity]
    /\ ephemeral \subseteq Ids
    /\ writeSeq \in Nat
    /\ lastWrite \in [Ids -> Nat]
    /\ inFlight \in Nat
    /\ pc \in [Ops -> Steps]
    /\ kind \in [Ops -> {"create", "update", "delete"}]
    /\ target \in [Ops -> Ids]
    /\ stamp \in [Ops -> Nat]
    /\ canonical \in [Ops -> MaybeEntity]
    /\ fresh \in [Ops -> MaybeEntity]
    /\ phase \in [Refreshes -> {"idle", "reading", "holding"}]
    /\ whole \in [Refreshes -> BOOLEAN]
    /\ about \in [Refreshes -> Ids]
    /\ startedAt \in [Refreshes -> Nat]
    /\ snap \in [Refreshes -> [Ids -> MaybeEntity]]
    /\ clock \in Nat
    /\ failures \in Nat
    /\ owed \in [Ids -> SUBSET Ops]
    /\ contended \subseteq Ids
    /\ tainted \subseteq Ids

-----------------------------------------------------------------------------
(* Helpers.                                                                *)

Nothing == [i \in Ids |-> Absent]
AnyId == CHOOSE i \in Ids : TRUE

Active(o) == pc[o] \notin {"idle", "acked", "refused", "failed"}
Busy(i) == \E o \in Ops : Active(o) /\ target[o] = i
Deleting(i) == \E o \in Ops : pc[o] \in {"erase", "erased"} /\ target[o] = i

Running(r) == phase[r] # "idle"
Covers(r, i) == whole[r] \/ about[r] = i

\* Mutant: now, whatever the previous revision was.
NextRev_Now(previous) == clock

\* nextDateModified: now, or just past the previous revision.
NextRev(previous) == IF clock > previous THEN clock ELSE previous + 1

\* Mutant: off by one.
WrittenSince_Late(i, seq) == lastWrite[i] > seq + 1

WrittenSince(i, seq) == lastWrite[i] > seq

RecordWrite(i) ==
    /\ writeSeq' = writeSeq + 1
    /\ lastWrite' = [lastWrite EXCEPT ![i] = writeSeq + 1]

\* Mutants: the numbers are dropped whenever a refresh ends; it ends twice.
EndRefresh_Clears ==
    /\ inFlight' = inFlight - 1
    /\ lastWrite' = [i \in Ids |-> 0]

EndRefresh_Twice ==
    /\ inFlight' = inFlight - 2
    /\ lastWrite' = IF inFlight = 1 THEN [i \in Ids |-> 0] ELSE lastWrite

\* The write numbers only have to outlive the refreshes in flight.
EndRefresh ==
    /\ inFlight' = inFlight - 1
    /\ lastWrite' = IF inFlight = 1 THEN [i \in Ids |-> 0] ELSE lastWrite

Goto(o, step) == pc' = [pc EXCEPT ![o] = step]

\* A write that is over keeps only what it was.
Finish(o, step) ==
    /\ Goto(o, step)
    /\ stamp' = [stamp EXCEPT ![o] = 0]
    /\ canonical' = [canonical EXCEPT ![o] = Absent]
    /\ fresh' = [fresh EXCEPT ![o] = Absent]
    /\ UNCHANGED <<kind, target>>

-----------------------------------------------------------------------------
\* The boot load answers what is stored, or fails for the type and yields nothing.
BootLoad == {store, Nothing}

Init ==
    /\ preload \in Preloads
    /\ store \in [Ids -> {Absent, [rev |-> 0, by |-> {}]}]
    /\ cache \in IF preload THEN BootLoad ELSE {Nothing}
    /\ ephemeral = {}
    /\ writeSeq = 0
    /\ lastWrite = [i \in Ids |-> 0]
    /\ inFlight = 0
    /\ pc = [o \in Ops |-> "idle"]
    /\ kind = [o \in Ops |-> "update"]
    /\ target \in [Ops -> Ids]
    /\ stamp = [o \in Ops |-> 0]
    /\ canonical = [o \in Ops |-> Absent]
    /\ fresh = [o \in Ops |-> Absent]
    /\ phase = [r \in Refreshes |-> "idle"]
    /\ whole = [r \in Refreshes |-> TRUE]
    /\ about = [r \in Refreshes |-> AnyId]
    /\ startedAt = [r \in Refreshes |-> 0]
    /\ snap = [r \in Refreshes |-> Nothing]
    /\ clock = 0
    /\ failures = 0
    /\ owed = [i \in Ids |-> {}]
    /\ contended = {}
    /\ tainted = {i \in Ids : preload /\ cache[i] # store[i]}

\* History kept when a write to i is issued while another is in flight.
NoteStart(i) ==
    /\ contended' = IF Busy(i) THEN contended \cup {i} ELSE contended
    /\ tainted' = IF Busy(i) THEN tainted \cup {i} ELSE tainted

Issue(o, i, k) ==
    /\ pc[o] = "idle"
    /\ target[o] = i
    /\ kind' = [kind EXCEPT ![o] = k]
    /\ NoteStart(i)

Taint(i) == tainted' = tainted \cup {i} /\ UNCHANGED <<owed, contended>>

CallRejects == failures < MaxFailures /\ failures' = failures + 1 /\ UNCHANGED <<preload, clock>>

-----------------------------------------------------------------------------
(* create(type, entity)                                                    *)

\* The id is free: from here it is no longer ephemeral, and the entity is stamped.
GoInsert(o) ==
    /\ Goto(o, "insert")
    /\ stamp' = [stamp EXCEPT ![o] = clock]
    /\ ephemeral' = ephemeral \ {target[o]}

\* EntityExistsError
Refuse(o) == Goto(o, "refused") /\ UNCHANGED <<stamp, ephemeral>>

StartCreate(o, i) ==
    /\ Issue(o, i, "create")
    /\ \/ (i \in ephemeral \/ (cache[i] = Absent /\ preload)) /\ GoInsert(o)
       \/ i \notin ephemeral /\ cache[i] # Absent /\ Refuse(o)
       \/ /\ i \notin ephemeral /\ cache[i] = Absent /\ ~preload
          /\ Goto(o, "lookup") /\ UNCHANGED <<stamp, ephemeral>>
    /\ owed' = IF pc'[o] = "refused" THEN owed ELSE [owed EXCEPT ![i] = {}]
    /\ UNCHANGED <<store, cache, numbering, target, canonical, fresh, refreshing, limits>>

\* Mutant: only the cache is asked.
LookupAnswers_CacheOnly(o) ==
    /\ pc[o] = "lookup"
    /\ IF cache[target[o]] = Absent THEN GoInsert(o) ELSE Refuse(o)
    /\ UNCHANGED <<store, cache, numbering, kind, target, canonical, fresh, refreshing, limits, history>>

\* assertAbsent without preload: the store is asked too.
LookupAnswers(o) ==
    /\ pc[o] = "lookup"
    /\ IF store[target[o]] = Absent THEN GoInsert(o) ELSE Refuse(o)
    /\ UNCHANGED <<store, cache, numbering, kind, target, canonical, fresh, refreshing, limits, history>>

\* A lookup that fails is logged and reads as "nothing there".
LookupFails(o) ==
    /\ pc[o] = "lookup"
    /\ CallRejects
    /\ GoInsert(o)
    /\ UNCHANGED <<store, cache, numbering, kind, target, canonical, fresh, refreshing, history>>

\* INSERT DATA is additive: onto an entity that exists it merges.
StoreInserts(o) ==
    /\ pc[o] = "insert"
    /\ LET i == target[o] IN
       \/ /\ store[i] = Absent
          /\ store' = [store EXCEPT ![i] = [rev |-> stamp[o], by |-> {o}]]
          /\ UNCHANGED history
       \/ /\ store[i] # Absent
          /\ \E rev \in {store[i].rev, stamp[o]} :
                store' = [store EXCEPT ![i] = [rev |-> rev, by |-> store[i].by \cup {o}]]
          /\ Taint(i)
    /\ Goto(o, "inserted")
    /\ UNCHANGED <<cache, ephemeral, numbering, kind, target, stamp, canonical, fresh, refreshing, limits>>

CreateFinishes(o) ==
    /\ pc[o] = "inserted"
    /\ LET i == target[o] IN
       /\ RecordWrite(i)
       /\ cache' = [cache EXCEPT ![i] = [rev |-> stamp[o], by |-> {o}]]
       /\ owed' = [owed EXCEPT ![i] = owed[i] \cup {o}]
    /\ Finish(o, "acked")
    /\ UNCHANGED <<store, ephemeral, refreshing, limits, contended, tainted>>

-----------------------------------------------------------------------------
(* update(type, id, updates)                                               *)

\* The entity to patch is known, and the new revision with it.
GoPatch(o, entity, rev) ==
    /\ Goto(o, "patch")
    /\ canonical' = [canonical EXCEPT ![o] = entity]
    /\ stamp' = [stamp EXCEPT ![o] = rev]
    /\ UNCHANGED <<target, fresh>>

StartUpdate(o, i) ==
    /\ Issue(o, i, "update")
    /\ \/ cache[i] # Absent /\ GoPatch(o, cache[i], NextRev(cache[i].rev))
       \/ cache[i] = Absent /\ Goto(o, "resolve") /\ UNCHANGED <<target, stamp, canonical, fresh>>
    /\ UNCHANGED <<store, cache, ephemeral, numbering, refreshing, limits, owed>>

\* Not cached: the store is asked for the canonical entity.
ResolveAnswers(o) ==
    /\ pc[o] = "resolve"
    /\ LET found == store[target[o]] IN
       \/ found = Absent /\ Finish(o, "refused")
       \/ found # Absent /\ GoPatch(o, found, NextRev(found.rev)) /\ UNCHANGED kind
    /\ UNCHANGED <<store, cache, ephemeral, numbering, refreshing, limits, history>>

ResolveFails(o) ==
    /\ pc[o] = "resolve"
    /\ CallRejects
    /\ Finish(o, "refused")
    /\ UNCHANGED <<store, cache, ephemeral, numbering, refreshing, history>>

\* The update is anchored on the type triple: it does nothing to an absent entity.
StorePatches(o) ==
    /\ pc[o] = "patch"
    /\ LET i == target[o] IN
       store' = IF store[i] = Absent THEN store
                ELSE [store EXCEPT ![i] = [rev |-> stamp[o], by |-> store[i].by \cup {o}]]
    /\ Goto(o, "patched")
    /\ UNCHANGED <<cache, ephemeral, numbering, kind, target, stamp, canonical, fresh, refreshing,
                   limits, history>>

ReadBackAnswers(o) ==
    /\ pc[o] = "patched"
    /\ Goto(o, "read")
    /\ fresh' = [fresh EXCEPT ![o] = store[target[o]]]
    /\ UNCHANGED <<store, cache, ephemeral, numbering, kind, target, stamp, canonical, refreshing,
                   limits, history>>

\* A failed read-back is logged, and the update merges over the canonical copy.
ReadBackFails(o) ==
    /\ pc[o] = "patched"
    /\ CallRejects
    /\ Goto(o, "unread")
    /\ UNCHANGED <<store, cache, ephemeral, numbering, kind, target, stamp, canonical, fresh,
                   refreshing, history>>

\* Mutant: a read-back that finds nothing is taken for one that failed.
UpdateReachedNothing_Saved(o) ==
    /\ pc[o] = "read"
    /\ fresh[o] = Absent
    /\ target[o] \notin ephemeral
    /\ RecordWrite(target[o])
    /\ cache' = [cache EXCEPT ![target[o]] = [rev |-> stamp[o], by |-> canonical[o].by \cup {o}]]
    /\ Finish(o, "acked")
    /\ UNCHANGED <<store, ephemeral, refreshing, limits, history>>

\* EntityNotPersistedError.
UpdateReachedNothing(o) ==
    /\ pc[o] = "read"
    /\ fresh[o] = Absent
    /\ target[o] \notin ephemeral
    /\ Finish(o, "failed")
    /\ Taint(target[o])
    /\ UNCHANGED <<store, cache, ephemeral, numbering, refreshing, limits>>

UpdateFinishes(o) ==
    /\ pc[o] \in {"read", "unread"}
    /\ LET i == target[o]
           from == IF fresh[o] # Absent THEN fresh[o] ELSE canonical[o]
       IN  /\ pc[o] = "unread" \/ fresh[o] # Absent \/ i \in ephemeral
           /\ RecordWrite(i)
           /\ cache' = [cache EXCEPT ![i] = [rev |-> stamp[o], by |-> from.by \cup {o}]]
           /\ owed' = IF store[i] # Absent /\ o \in store[i].by
                      THEN [owed EXCEPT ![i] = owed[i] \cup {o}] ELSE owed
    /\ Finish(o, "acked")
    /\ UNCHANGED <<store, ephemeral, refreshing, limits, contended, tainted>>

-----------------------------------------------------------------------------
(* delete(type, id)                                                        *)

\* The write is recorded before the store is asked.
StartDelete(o, i) ==
    /\ Issue(o, i, "delete")
    /\ RecordWrite(i)
    /\ \/ /\ i \in ephemeral
          /\ Goto(o, "acked")
          /\ cache' = [cache EXCEPT ![i] = Absent]
          /\ ephemeral' = ephemeral \ {i}
       \/ /\ i \notin ephemeral
          /\ Goto(o, "erase")
          /\ UNCHANGED <<cache, ephemeral>>
    /\ owed' = [owed EXCEPT ![i] = {}]
    /\ UNCHANGED <<store, target, stamp, canonical, fresh, refreshing, limits>>

StoreErases(o) ==
    /\ pc[o] = "erase"
    /\ store' = [store EXCEPT ![target[o]] = Absent]
    /\ Goto(o, "erased")
    /\ UNCHANGED <<cache, ephemeral, numbering, kind, target, stamp, canonical, fresh, refreshing,
                   limits, history>>

DeleteFinishes(o) ==
    /\ pc[o] = "erased"
    /\ cache' = [cache EXCEPT ![target[o]] = Absent]
    /\ owed' = [owed EXCEPT ![target[o]] = {o}]
    /\ Finish(o, "acked")
    /\ UNCHANGED <<store, ephemeral, numbering, refreshing, limits, contended, tainted>>

\* A mutating call rejects, before or after the store acted on it.
CallFails(o) ==
    /\ pc[o] \in {"insert", "inserted", "patch", "patched", "erase", "erased"}
    /\ CallRejects
    /\ Finish(o, "failed")
    /\ Taint(target[o])
    /\ UNCHANGED <<store, cache, ephemeral, numbering, refreshing>>

-----------------------------------------------------------------------------
(* addEphemeral, removeEphemeral: callers mint the ids they add.           *)

AddEphemeral(i) ==
    /\ writeSeq < MaxWrites
    /\ store[i] = Absent /\ cache[i] = Absent /\ ~Busy(i)
    /\ RecordWrite(i)
    /\ cache' = [cache EXCEPT ![i] = [rev |-> clock, by |-> {}]]
    /\ ephemeral' = ephemeral \cup {i}
    /\ owed' = [owed EXCEPT ![i] = {}]
    /\ UNCHANGED <<store, writes, refreshing, limits, contended, tainted>>

RemoveEphemeral(i) ==
    /\ i \in ephemeral
    /\ RecordWrite(i)
    /\ cache' = [cache EXCEPT ![i] = Absent]
    /\ ephemeral' = ephemeral \ {i}
    /\ NoteStart(i)
    /\ UNCHANGED <<store, writes, refreshing, limits, owed>>

-----------------------------------------------------------------------------
(* Background refreshes, started by get(id) and list(type) once a TTL has  *)
(* passed (at any time here).                                              *)

BeginRefresh(r, ofType, i) ==
    /\ preload
    /\ ~Running(r)
    /\ inFlight' = inFlight + 1
    /\ phase' = [phase EXCEPT ![r] = "reading"]
    /\ whole' = [whole EXCEPT ![r] = ofType]
    /\ about' = [about EXCEPT ![r] = i]
    /\ startedAt' = [startedAt EXCEPT ![r] = writeSeq]
    /\ tainted' = tainted \cup {j \in Ids : Deleting(j) /\ (ofType \/ j = i)}
    /\ UNCHANGED <<store, cache, ephemeral, numbering, writes, snap, limits, owed, contended>>

\* triggerIdRefreshIfStale: one at a time per id.
TriggerIdRefresh(r, i) ==
    /\ cache[i] # Absent /\ i \notin ephemeral
    /\ \A q \in Refreshes : ~(Running(q) /\ ~whole[q] /\ about[q] = i)
    /\ BeginRefresh(r, FALSE, i)

\* triggerTypeRefreshIfStale: one at a time per type.
TriggerTypeRefresh(r) ==
    /\ \A q \in Refreshes : ~(Running(q) /\ whole[q])
    /\ BeginRefresh(r, TRUE, AnyId)

\* findByIri, findAll: one query each.
StoreAnswersRefresh(r) ==
    /\ phase[r] = "reading"
    /\ phase' = [phase EXCEPT ![r] = "holding"]
    /\ snap' = [snap EXCEPT ![r] = [i \in Ids |-> IF Covers(r, i) THEN store[i] ELSE Absent]]
    /\ UNCHANGED <<store, cache, ephemeral, numbering, writes, inFlight, whole, about, startedAt,
                   limits, history>>

\* Mutants: entities gone from the store stay cached; ephemeral ones do not.
Takes_Stored(r, i) ==
    ~WrittenSince(i, startedAt[r]) /\ snap[r][i] # Absent

Takes_Ephemeral(r, i) ==
    /\ ~WrittenSince(i, startedAt[r])
    /\ whole[r] \/ snap[r][i] # Absent

\* A type refresh also removes what the store no longer has; that of an id does not.
Takes(r, i) ==
    /\ ~WrittenSince(i, startedAt[r])
    /\ IF whole[r] THEN i \notin ephemeral ELSE snap[r][i] # Absent

\* endRefresh, and the slot is free again.
FreeSlot(r) ==
    /\ EndRefresh
    /\ phase' = [phase EXCEPT ![r] = "idle"]
    /\ whole' = [whole EXCEPT ![r] = TRUE]
    /\ about' = [about EXCEPT ![r] = AnyId]
    /\ startedAt' = [startedAt EXCEPT ![r] = 0]
    /\ snap' = [snap EXCEPT ![r] = Nothing]
    /\ UNCHANGED <<store, ephemeral, writeSeq, writes, history>>

ApplyRefresh(r) ==
    /\ phase[r] = "holding"
    /\ cache' = [i \in Ids |-> IF Takes(r, i) THEN snap[r][i] ELSE cache[i]]
    /\ FreeSlot(r)
    /\ UNCHANGED limits

RefreshFails(r) ==
    /\ phase[r] = "reading"
    /\ CallRejects
    /\ FreeSlot(r)
    /\ UNCHANGED cache

Tick ==
    /\ clock < MaxClock
    /\ clock' = clock + 1
    /\ UNCHANGED <<store, cache, ephemeral, numbering, writes, refreshing, preload, failures, history>>

-----------------------------------------------------------------------------
StartWrite(o) == \E i \in Ids : StartCreate(o, i) \/ StartUpdate(o, i) \/ StartDelete(o, i)

\* The store acts on a call, or an answer of its reaches the coordinator.
Proceed(o) ==
    \/ LookupAnswers(o) \/ StoreInserts(o) \/ CreateFinishes(o)
    \/ ResolveAnswers(o) \/ StorePatches(o) \/ ReadBackAnswers(o)
    \/ UpdateReachedNothing(o) \/ UpdateFinishes(o)
    \/ StoreErases(o) \/ DeleteFinishes(o)

Reject(o) == LookupFails(o) \/ ResolveFails(o) \/ ReadBackFails(o) \/ CallFails(o)

Next ==
    \/ \E o \in Ops : StartWrite(o) \/ Proceed(o) \/ Reject(o)
    \/ \E i \in Ids : AddEphemeral(i) \/ RemoveEphemeral(i)
    \/ \E r \in Refreshes, i \in Ids : TriggerIdRefresh(r, i)
    \/ \E r \in Refreshes : \/ TriggerTypeRefresh(r) \/ StoreAnswersRefresh(r)
                             \/ ApplyRefresh(r) \/ RefreshFails(r)
    \/ Tick

Spec == Init /\ [][Next]_vars

\* Calls are answered, and the type keeps being listed: list() is what starts
\* a refresh.  Clients need not write, and failures are not fair.
Fairness ==
    /\ \A o \in Ops : WF_vars(Proceed(o))
    /\ \A r \in Refreshes : WF_vars(StoreAnswersRefresh(r)) /\ WF_vars(ApplyRefresh(r))
    /\ WF_vars(\E r \in Refreshes : TriggerTypeRefresh(r))

FairSpec == Spec /\ Fairness

-----------------------------------------------------------------------------
(* Properties.                                                             *)

(***************************************************************************)
(* "Your own writes are visible immediately": once a create or an update   *)
(* is acknowledged the cache shows it until the entity is written again,   *)
(* whatever refreshes read before it and answer after it - unless another  *)
(* write to the id overlapped it.                                          *)
(***************************************************************************)
OwnWritesVisible ==
    \A i \in Ids \ contended : \A o \in owed[i] :
        kind[o] # "delete" => cache[i] # Absent /\ o \in cache[i].by

(***************************************************************************)
(* With no write to an id in flight the cache shows exactly what the store *)
(* holds, although refreshes may still be holding older answers - unless   *)
(* the entry was tainted: by overlapping writes, a call that failed, a     *)
(* boot load that failed, or a refresh begun while it was being deleted.   *)
(***************************************************************************)
Coherent ==
    \A i \in Ids \ (tainted \cup ephemeral) : ~Busy(i) =>
        cache[i] = store[i] \/ (~preload /\ cache[i] = Absent)

\* Every copy of an entity there is: the store's, the cache's, those in flight.
Copies(i) ==
    ({store[i], cache[i]} \cup {snap[r][i] : r \in Refreshes}
        \cup UNION {{canonical[o], fresh[o]} : o \in {p \in Ops : target[p] = i}}) \ {Absent}

(***************************************************************************)
(* dateModified is the entity's revision: two copies that carry the same   *)
(* one, wherever they are, have the same content, so an If-Match that      *)
(* matches was made against this content.  For an entity nothing tainted   *)
(* and that is not deleted or promoted, which restart its revisions.       *)
(***************************************************************************)
RevisionNamesContent ==
    \A i \in Ids \ (tainted \cup ephemeral) :
        (\A o \in Ops : target[o] = i => kind[o] = "update") =>
            \A x, y \in Copies(i) : x.rev = y.rev => x.by = y.by

(***************************************************************************)
(* An update whose read-back was answered is reported saved only if the    *)
(* store has it: one that met no stored entity is refused instead.         *)
(***************************************************************************)
SavedUpdatesAreStored ==
    [][\A o \in Ops : LET i == target[o] IN
         (pc[o] = "read" /\ pc'[o] = "acked" /\ i \notin ephemeral \cup contended) =>
            store[i] # Absent /\ o \in store[i].by]_vars

(***************************************************************************)
(* A create that nothing overlaps, and whose check of the store was        *)
(* answered, meets no stored entity: the insert is additive and would      *)
(* merge into it.                                                          *)
(***************************************************************************)
CreatesLandOnNothing ==
    [][\A o \in Ops : LET i == target[o] IN
         (/\ pc[o] = "insert" /\ pc'[o] = "inserted"
          /\ i \notin contended \cup tainted /\ failures = 0) => store[i] = Absent]_vars

(***************************************************************************)
(* An ephemeral entity stays in the cache until it is removed: refreshes   *)
(* find nothing of it in the store and must leave it.                      *)
(***************************************************************************)
EphemeralSurvives == \A i \in ephemeral \ contended : cache[i] # Absent

(***************************************************************************)
(* Once writes stop, and whatever tainted the entries, refreshes bring the *)
(* cache in line with the store for good (with preload: nothing refreshes  *)
(* without it).                                                            *)
(***************************************************************************)
Converges == <>[](preload => \A i \in Ids \ ephemeral : cache[i] = store[i])

=============================================================================
