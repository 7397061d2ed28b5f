--------------------------- MODULE VersionedEntity ---------------------------
(***************************************************************************)
(* One versioned entity (a Query) and the requests that write it: saving a *)
(* version, deleting one, moving the pointer to the current version, and   *)
(* deleting the entity (api/src/routes/versionedEntity.ts), with the lock  *)
(* every save takes (lib/versionNumbering.ts), the writer of a query's     *)
(* versions (lib/QueryVersionWriter.ts) and the walk that deletes what a   *)
(* version owns (lib/ownedEntities.ts).                                    *)
(*                                                                         *)
(* An action is what runs between two awaits.  A write of the coordinator  *)
(* (CacheCoordinator) reaches the store in one step and the cache in the   *)
(* next; reads are of the cache.  A version is named by the save that made *)
(* it, and so is the tuple of outputs made for one.                        *)
(***************************************************************************)
EXTENDS Integers, FiniteSets, FiniteSetsExt

CONSTANTS
    MaxSaves,     \* bound: requests POST /:id/versions
    Prunes,       \* requests DELETE /:id/versions/:version
    Moves,        \* requests PUT /:id that set currentVersion
    Drops,        \* requests DELETE /:id
    Shape,        \* save -> the variables its query projects, in order
    Preloads,     \* the settings of CACHE_PRELOAD considered
    MaxFailures,  \* bound: calls of the store that fail
    MaxRestarts,  \* bound: restarts of the process
    MaxEvents     \* bound: failures, restarts and requests that are not saves, together

\* Saves are named in the order in which they begin.
Saves == 1 .. MaxSaves

\* No version, no tuple, no predecessor.
None == 0

ASSUME EntityAssumption ==
    /\ MaxSaves \in Nat
    /\ DOMAIN Shape = Saves
    /\ Preloads \subseteq BOOLEAN
    /\ MaxFailures \in Nat /\ MaxRestarts \in Nat /\ MaxEvents \in Nat

VARIABLES
    preload,                     \* CACHE_PRELOAD; it does not change
    stored, cached,              \* the versions in the store, and in the cache
    number,                      \* version -> its number
    output,                      \* version -> the tuple it names as its output
    tuples,                      \* the tuples that exist
    parentStored, parentCached,  \* is the entity there?
    storedPtr, cachedPtr,        \* its currentVersion
    pc, pred,                    \* save -> where it stands, and the run it waits for
    tail,                        \* the lock's entry for this entity
    ppc, victim, seenPtr, fallback, \* prune -> version, parent.currentVersion as read, new pointer
    mpc, goal,                   \* move -> the version to point at
    dpc, owned,                  \* drop -> versions still to delete
    failures, restarts,
    lost,                        \* history: the writes that landed although their call failed
    marred                       \* history: a request not a save overlapped another, or stopped half-way

versions == <<stored, cached, number, output, tuples>>
parent == <<parentStored, parentCached, storedPtr, cachedPtr>>
saves == <<pc, pred, tail>>
prunes == <<ppc, victim, seenPtr, fallback>>
moves == <<mpc, goal>>
drops == <<dpc, owned>>
bounds == <<failures, restarts>>
history == <<lost, marred>>
vars == <<preload, versions, parent, saves, prunes, moves, drops, bounds, history>>

Init ==
    /\ preload \in Preloads
    /\ stored = {} /\ cached = {} /\ tuples = {}
    /\ number = [s \in Saves |-> 0]
    /\ output = [s \in Saves |-> None]
    /\ parentStored = TRUE /\ parentCached = TRUE
    /\ storedPtr = None /\ cachedPtr = None
    /\ pc = [s \in Saves |-> "idle"]
    /\ pred = [s \in Saves |-> None]
    /\ tail = None
    /\ ppc = [p \in Prunes |-> "idle"]
    /\ victim = [p \in Prunes |-> None]
    /\ seenPtr = [p \in Prunes |-> None]
    /\ fallback = [p \in Prunes |-> None]
    /\ mpc = [m \in Moves |-> "idle"]
    /\ goal = [m \in Moves |-> None]
    /\ dpc = [d \in Drops |-> "idle"]
    /\ owned = [d \in Drops |-> {}]
    /\ failures = 0 /\ restarts = 0
    /\ lost = {} /\ marred = FALSE

-----------------------------------------------------------------------------
(***************************************************************************)
(* What the handlers read.                                                 *)
(***************************************************************************)

Ended == {"idle", "saved", "done", "failed", "dead"}

\* Slip: the run settles once the version is created.
Settled_Created(s) == pc[s] \in {"pointing", "pointed", "saved", "failed", "dead"}

\* The run of a save has settled.
Settled(s) == pc[s] \in {"saved", "failed", "dead"}

SaveRuns == \E s \in Saves : pc[s] \notin Ended
PruneRuns == \E p \in Prunes : ppc[p] \notin Ended
MoveRuns == \E m \in Moves : mpc[m] \notin Ended
DropRuns == \E d \in Drops : dpc[d] \notin Ended
Quiet == ~SaveRuns /\ ~PruneRuns /\ ~MoveRuns /\ ~DropRuns

\* Bounds the instances, not the code.
MoreEvents ==
    failures + restarts
      + Cardinality({p \in Prunes : ppc[p] # "idle"})
      + Cardinality({m \in Moves : mpc[m] # "idle"})
      + Cardinality({d \in Drops : dpc[d] # "idle"}) < MaxEvents

\* A request begins.  The history notes one that is not a save and not alone.
SaveArrives == marred' = (marred \/ PruneRuns \/ MoveRuns \/ DropRuns)

OtherArrives ==
    /\ MoreEvents
    /\ marred' = (marred \/ ~Quiet)

Numbers(S) == {number[v] : v \in S}

\* Slip: a version both in the cache and in the store counts twice.
HighestVersion_Twice == Cardinality(cached) + Cardinality(stored)

\* highestVersion: what the cache holds, and without preload the store as well.
HighestVersion ==
    Max(Numbers(IF preload THEN cached ELSE cached \cup stored) \cup {0})

\* The first and the last of versionsOf(id), which are sorted by number.
Oldest(S) == IF S = {} THEN None ELSE CHOOSE v \in S : \A u \in S : number[v] <= number[u]

\* Slip: the list is read from the wrong end.
Newest_Oldest(S) == Oldest(S)

Newest(S) == IF S = {} THEN None ELSE CHOOSE v \in S : \A u \in S : number[u] <= number[v]

\* findExistingAutoTuple: tuples of the same name over the same variables,
\* whichever version they were made for.
Reusable(s) == {t \in tuples : Shape[t] = Shape[s]}

-----------------------------------------------------------------------------
(***************************************************************************)
(* POST /:id/versions: allocateVersion, the writer, setCurrentVersion.     *)
(***************************************************************************)

\* const previous = locks.get(key); locks.set(key, run)
Enqueue(s) == pred' = [pred EXCEPT ![s] = tail] /\ tail' = s

SaveBegin(s) ==
    /\ pc[s] = "idle" /\ \A t \in 1 .. s - 1 : pc[t] # "idle"
    /\ parentCached
    /\ pc' = [pc EXCEPT ![s] = "waiting"]
    /\ Enqueue(s)
    /\ SaveArrives
    /\ UNCHANGED <<preload, versions, parent, prunes, moves, drops, bounds, lost>>

\* Slip: only a run that succeeded lets the next one go.
MayRun_Saved(s) == pred[s] # None => pc[pred[s]] = "saved"

\* previous.catch(() => {}).then(...): a failed run lets the next one go.
MayRun(s) == pred[s] # None => Settled(pred[s])

\* Slip: a run that failed fails the next one.
SaveNumber_Rethrows(s) ==
    /\ pc[s] = "waiting"
    /\ MayRun(s)
    /\ number' = [number EXCEPT ![s] = HighestVersion + 1]
    /\ pc' = [pc EXCEPT ![s] =
                 IF \E t \in Saves : t = pred[s] /\ pc[t] = "failed" THEN "failed" ELSE "numbered"]
    /\ UNCHANGED <<preload, stored, cached, output, tuples, parent, pred, tail, prunes, moves, drops, bounds, history>>

SaveNumber(s) ==
    /\ pc[s] = "waiting"
    /\ MayRun(s)
    /\ number' = [number EXCEPT ![s] = HighestVersion + 1]
    /\ pc' = [pc EXCEPT ![s] = "numbered"]
    /\ UNCHANGED <<preload, stored, cached, output, tuples, parent, pred, tail, prunes, moves, drops, bounds, history>>

\* The parts are created; a tuple that is there already is named instead.
SaveParts(s) ==
    /\ pc[s] = "numbered"
    /\ \/ \E t \in Reusable(s) :
            output' = [output EXCEPT ![s] = t] /\ UNCHANGED tuples
       \/ /\ Reusable(s) = {}
          /\ output' = [output EXCEPT ![s] = s]
          /\ tuples' = tuples \cup {s}
    /\ pc' = [pc EXCEPT ![s] = "inserting"]
    /\ UNCHANGED <<preload, stored, cached, number, parent, pred, tail, prunes, moves, drops, bounds, history>>

\* create(): the version is in the store, and is not in the cache yet.
SaveInserted(s) ==
    /\ pc[s] = "inserting"
    /\ stored' = stored \cup {s}
    /\ pc' = [pc EXCEPT ![s] = "inserted"]
    /\ UNCHANGED <<preload, cached, number, output, tuples, parent, pred, tail, prunes, moves, drops, bounds, history>>

\* Slip: the lock is given up for whoever holds it.
Release_Always(s) == tail' = None

\* finally { if (locks.get(key) === run) locks.delete(key) }
Release(s) == tail' = IF tail = s THEN None ELSE tail

\* create() ends.  setCurrentVersion begins, and throws where it finds no entity.
SaveCached(s) ==
    /\ pc[s] = "inserted"
    /\ cached' = cached \cup {s}
    /\ IF parentCached \/ parentStored
         THEN pc' = [pc EXCEPT ![s] = "pointing"] /\ UNCHANGED tail
         ELSE pc' = [pc EXCEPT ![s] = "failed"] /\ Release(s)
    /\ UNCHANGED <<preload, stored, number, output, tuples, parent, pred, prunes, moves, drops, bounds, history>>

\* The update of the entity and its read-back: an entity that is gone is an error.
SavePointed(s) ==
    /\ pc[s] = "pointing"
    /\ IF parentStored
         THEN storedPtr' = s /\ pc' = [pc EXCEPT ![s] = "pointed"] /\ UNCHANGED tail
         ELSE pc' = [pc EXCEPT ![s] = "failed"] /\ Release(s) /\ UNCHANGED storedPtr
    /\ UNCHANGED <<preload, versions, parentStored, parentCached, cachedPtr, pred, prunes, moves, drops, bounds, history>>

\* update() puts the entity it read back in the cache, and the run settles.
SaveEnds(s) ==
    /\ pc[s] = "pointed"
    /\ parentCached' = TRUE /\ cachedPtr' = s
    /\ pc' = [pc EXCEPT ![s] = "saved"]
    /\ Release(s)
    /\ UNCHANGED <<preload, versions, parentStored, storedPtr, pred, prunes, moves, drops, bounds, history>>

\* A call of the store fails; an insert or an update may have landed all the same.
SaveFails(s) ==
    /\ \/ pc[s] \in {"numbered", "inserting", "pointing"}
       \/ pc[s] = "waiting" /\ MayRun(s) /\ ~preload
    /\ failures < MaxFailures /\ MoreEvents
    /\ failures' = failures + 1
    /\ \/ UNCHANGED <<stored, storedPtr, lost>>
       \/ /\ pc[s] = "inserting"
          /\ stored' = stored \cup {s}
          /\ lost' = lost \cup {"insert"}
          /\ UNCHANGED storedPtr
       \/ /\ pc[s] = "pointing" /\ parentStored
          /\ storedPtr' = s
          /\ lost' = lost \cup {"pointer"}
          /\ UNCHANGED stored
    /\ pc' = [pc EXCEPT ![s] = "failed"]
    /\ Release(s)
    /\ UNCHANGED <<preload, cached, number, output, tuples, parentStored, parentCached, cachedPtr, pred,
                   prunes, moves, drops, restarts, marred>>

-----------------------------------------------------------------------------
(***************************************************************************)
(* DELETE /:id/versions/:version.                                          *)
(***************************************************************************)

\* The parent and the version are read together, before anything is awaited.
PruneBegin(p) ==
    /\ ppc[p] = "idle"
    /\ parentCached
    /\ \E v \in cached : victim' = [victim EXCEPT ![p] = v]
    /\ seenPtr' = [seenPtr EXCEPT ![p] = cachedPtr]
    /\ ppc' = [ppc EXCEPT ![p] = "deleting"]
    /\ OtherArrives
    /\ UNCHANGED <<preload, versions, parent, saves, fallback, moves, drops, bounds, lost>>

\* deleteWithOwned: the tuple the version names, then the version.
PruneDeleted(p) ==
    /\ ppc[p] = "deleting"
    /\ tuples' = tuples \ {output[victim[p]]}
    /\ stored' = stored \ {victim[p]}
    /\ ppc' = [ppc EXCEPT ![p] = "deleted"]
    /\ UNCHANGED <<preload, cached, number, output, parent, saves, victim, seenPtr, fallback, moves, drops, bounds, history>>

\* The pointer moves if it was at this version when the request began.
PruneUncached(p) ==
    /\ ppc[p] = "deleted"
    /\ cached' = cached \ {victim[p]}
    /\ IF seenPtr[p] = victim[p] /\ (parentCached \/ parentStored)
         THEN /\ fallback' = [fallback EXCEPT ![p] = Newest(cached')]
              /\ ppc' = [ppc EXCEPT ![p] = "pointing"]
         ELSE /\ ppc' = [ppc EXCEPT ![p] = "done"]
              /\ UNCHANGED fallback
    /\ UNCHANGED <<preload, stored, number, output, tuples, parent, saves, victim, seenPtr, moves, drops, bounds, history>>

PrunePointed(p) ==
    /\ ppc[p] = "pointing"
    /\ IF parentStored
         THEN storedPtr' = fallback[p] /\ ppc' = [ppc EXCEPT ![p] = "pointed"]
         ELSE ppc' = [ppc EXCEPT ![p] = "failed"] /\ UNCHANGED storedPtr
    /\ UNCHANGED <<preload, versions, parentStored, parentCached, cachedPtr, saves, victim, seenPtr, fallback,
                   moves, drops, bounds, history>>

PruneEnds(p) ==
    /\ ppc[p] = "pointed"
    /\ parentCached' = TRUE /\ cachedPtr' = fallback[p]
    /\ ppc' = [ppc EXCEPT ![p] = "done"]
    /\ UNCHANGED <<preload, versions, parentStored, storedPtr, saves, victim, seenPtr, fallback,
                   moves, drops, bounds, history>>

\* One of the deletions fails, maybe after those of the parts, or the update does.
PruneFails(p) ==
    /\ ppc[p] \in {"deleting", "pointing"}
    /\ failures < MaxFailures /\ MoreEvents
    /\ failures' = failures + 1
    /\ \/ UNCHANGED tuples
       \/ ppc[p] = "deleting" /\ tuples' = tuples \ {output[victim[p]]}
    /\ ppc' = [ppc EXCEPT ![p] = "failed"]
    /\ marred' = TRUE
    /\ UNCHANGED <<preload, stored, cached, number, output, parent, saves, victim, seenPtr, fallback, moves, drops, restarts, lost>>

-----------------------------------------------------------------------------
(***************************************************************************)
(* PUT /:id with a currentVersion, and DELETE /:id.                        *)
(***************************************************************************)

MoveBegin(m) ==
    /\ mpc[m] = "idle"
    /\ parentCached
    /\ \E v \in cached : goal' = [goal EXCEPT ![m] = v]
    /\ mpc' = [mpc EXCEPT ![m] = "pointing"]
    /\ OtherArrives
    /\ UNCHANGED <<preload, versions, parent, saves, prunes, drops, bounds, lost>>

MovePointed(m) ==
    /\ mpc[m] = "pointing"
    /\ IF parentStored
         THEN storedPtr' = goal[m] /\ mpc' = [mpc EXCEPT ![m] = "pointed"]
         ELSE mpc' = [mpc EXCEPT ![m] = "failed"] /\ UNCHANGED storedPtr
    /\ UNCHANGED <<preload, versions, parentStored, parentCached, cachedPtr, saves, prunes, goal, drops, bounds, history>>

MoveEnds(m) ==
    /\ mpc[m] = "pointed"
    /\ parentCached' = TRUE /\ cachedPtr' = goal[m]
    /\ mpc' = [mpc EXCEPT ![m] = "done"]
    /\ UNCHANGED <<preload, versions, parentStored, storedPtr, saves, prunes, goal, drops, bounds, history>>

DropBegin(d) ==
    /\ dpc[d] = "idle"
    /\ parentCached
    /\ owned' = [owned EXCEPT ![d] = cached]
    /\ dpc' = [dpc EXCEPT ![d] = "deleting"]
    /\ OtherArrives
    /\ UNCHANGED <<preload, versions, parent, saves, prunes, moves, bounds, lost>>

\* The versions go one by one, in the order of their numbers ...
DropVersion(d) ==
    /\ dpc[d] = "deleting" /\ owned[d] # {}
    /\ tuples' = tuples \ {output[Oldest(owned[d])]}
    /\ stored' = stored \ {Oldest(owned[d])}
    /\ dpc' = [dpc EXCEPT ![d] = "deleted"]
    /\ UNCHANGED <<preload, cached, number, output, parent, saves, prunes, moves, owned, bounds, history>>

DropUncached(d) ==
    /\ dpc[d] = "deleted"
    /\ cached' = cached \ {Oldest(owned[d])}
    /\ owned' = [owned EXCEPT ![d] = @ \ {Oldest(@)}]
    /\ dpc' = [dpc EXCEPT ![d] = "deleting"]
    /\ UNCHANGED <<preload, stored, number, output, tuples, parent, saves, prunes, moves, bounds, history>>

\* ... and then the entity.
DropParent(d) ==
    /\ dpc[d] = "deleting" /\ owned[d] = {}
    /\ parentStored' = FALSE /\ storedPtr' = None
    /\ dpc' = [dpc EXCEPT ![d] = "dropped"]
    /\ UNCHANGED <<preload, versions, parentCached, cachedPtr, saves, prunes, moves, owned, bounds, history>>

DropEnds(d) ==
    /\ dpc[d] = "dropped"
    /\ parentCached' = FALSE /\ cachedPtr' = None
    /\ dpc' = [dpc EXCEPT ![d] = "done"]
    /\ UNCHANGED <<preload, versions, parentStored, storedPtr, saves, prunes, moves, owned, bounds, history>>

\* The process dies with the requests it runs; the next one loads the store, or
\* starts from nothing.
Restart ==
    /\ restarts < MaxRestarts /\ MoreEvents
    /\ restarts' = restarts + 1
    /\ cached' = IF preload THEN stored ELSE {}
    /\ parentCached' = (preload /\ parentStored)
    /\ cachedPtr' = IF preload THEN storedPtr ELSE None
    /\ pc' = [s \in Saves |-> IF pc[s] \in Ended THEN pc[s] ELSE "dead"]
    /\ ppc' = [p \in Prunes |-> IF ppc[p] \in Ended THEN ppc[p] ELSE "dead"]
    /\ mpc' = [m \in Moves |-> IF mpc[m] \in Ended THEN mpc[m] ELSE "dead"]
    /\ dpc' = [d \in Drops |-> IF dpc[d] \in Ended THEN dpc[d] ELSE "dead"]
    /\ tail' = None
    /\ marred' = (marred \/ PruneRuns \/ DropRuns)
    /\ UNCHANGED <<preload, stored, number, output, tuples, parentStored, storedPtr, pred,
                   victim, seenPtr, fallback, goal, owned, failures, lost>>

-----------------------------------------------------------------------------
SaveStep(s) ==
    SaveNumber(s) \/ SaveParts(s) \/ SaveInserted(s) \/ SaveCached(s) \/ SavePointed(s) \/ SaveEnds(s)

PruneStep(p) ==
    PruneBegin(p) \/ PruneDeleted(p) \/ PruneUncached(p) \/ PrunePointed(p) \/ PruneEnds(p) \/ PruneFails(p)

MoveStep(m) == MoveBegin(m) \/ MovePointed(m) \/ MoveEnds(m)

DropStep(d) ==
    DropBegin(d) \/ DropVersion(d) \/ DropUncached(d) \/ DropParent(d) \/ DropEnds(d)

Next ==
    \/ \E s \in Saves : SaveBegin(s) \/ SaveStep(s) \/ SaveFails(s)
    \/ \E p \in Prunes : PruneStep(p)
    \/ \E m \in Moves : MoveStep(m)
    \/ \E d \in Drops : DropStep(d)
    \/ Restart

Spec == Init /\ [][Next]_vars

\* A save that was begun keeps running; nobody is made to begin one, or to fail.
FairSpec == Spec /\ \A s \in Saves : WF_vars(SaveStep(s))

-----------------------------------------------------------------------------
(***************************************************************************)
(* Properties.                                                             *)
(***************************************************************************)

\* Every variable keeps its range, and no number is skipped: a version is never
\* numbered above the count of saves.
TypeOK ==
    /\ preload \in Preloads
    /\ stored \subseteq Saves /\ cached \subseteq Saves /\ tuples \subseteq Saves
    /\ number \in [Saves -> 0 .. MaxSaves]
    /\ output \in [Saves -> Saves \cup {None}]
    /\ parentStored \in BOOLEAN /\ parentCached \in BOOLEAN
    /\ storedPtr \in Saves \cup {None} /\ cachedPtr \in Saves \cup {None}
    /\ pc \in [Saves -> {"idle", "waiting", "numbered", "inserting", "inserted", "pointing", "pointed",
                         "saved", "failed", "dead"}]
    /\ pred \in [Saves -> Saves \cup {None}] /\ tail \in Saves \cup {None}
    /\ ppc \in [Prunes -> {"idle", "deleting", "deleted", "pointing", "pointed", "done", "failed", "dead"}]
    /\ victim \in [Prunes -> Saves \cup {None}]
    /\ seenPtr \in [Prunes -> Saves \cup {None}]
    /\ fallback \in [Prunes -> Saves \cup {None}]
    /\ mpc \in [Moves -> {"idle", "pointing", "pointed", "done", "failed", "dead"}]
    /\ goal \in [Moves -> Saves \cup {None}]
    /\ dpc \in [Drops -> {"idle", "deleting", "deleted", "dropped", "done", "dead"}]
    /\ owned \in [Drops -> SUBSET Saves]
    /\ failures \in 0 .. MaxFailures /\ restarts \in 0 .. MaxRestarts
    /\ lost \subseteq {"insert", "pointer"} /\ marred \in BOOLEAN

\* Saves that overlap, fail, or are cut off by a restart never give two versions
\* one number (allocateVersion).  With preload the number is read in the cache,
\* which an insert that landed and was reported failed never reached: that case
\* is left out, and the README says what happens in it.
NumbersUnique ==
    ~(preload /\ "insert" \in lost) => \A u, v \in stored \cup cached : number[u] = number[v] => u = v

\* Two saves hold the lock at once nowhere between reading the number and
\* settling (versionNumbering.ts:9-11).
OneWriter ==
    \A s, t \in Saves :
        (pc[s] \notin Ended \cup {"waiting"} /\ pc[t] \notin Ended \cup {"waiting"}) => s = t

NobodyElseWrites ==
    /\ \A p \in Prunes : ppc[p] = "idle"
    /\ \A m \in Moves : mpc[m] = "idle"
    /\ \A d \in Drops : dpc[d] = "idle"

\* Where versions are only saved, the last save to be answered is current: the
\* entity points at no version older than one whose save was answered, in the
\* store and in the cache (createQueryVersionFlat's comment).
NewestIsCurrent ==
    NobodyElseWrites =>
        \A s \in Saves : pc[s] = "saved" =>
            /\ storedPtr # None /\ number[s] <= number[storedPtr]
            /\ parentCached => cachedPtr # None /\ number[s] <= number[cachedPtr]

\* A version DELETE moves the pointer to the highest version left, or to nothing
\* (versionedEntity.ts:36-39): the entity at rest names a version that exists,
\* unless a request other than a save overlapped another or stopped half-way, or
\* the pointer was moved by a call that failed.
PointerFallsBack ==
    ~marred /\ lost = {} =>
        /\ Quiet /\ parentStored => storedPtr \in stored \cup {None}
        /\ \A p \in Prunes : ppc[p] = "pointed" =>
              \A v \in stored : storedPtr # None /\ number[v] <= number[storedPtr]

\* A save that fails does not fail the ones behind it: as many saves fail as
\* calls of the store did, unless the entity went away (previous.catch).
FailuresAreOwn ==
    (\A d \in Drops : dpc[d] = "idle") =>
        Cardinality({s \in Saves : pc[s] = "failed"}) <= failures

\* Every save that got in line is answered, whatever became of those before it,
\* unless the process dies.
EverySaveIsAnswered ==
    \A s \in Saves : pc[s] = "waiting" ~> Settled(s)

\* What a query version names as its output exists for as long as it does: the
\* parts of a version are "separate entities that only that version names"
\* (ownedEntities.ts:4-6).
VersionsAreWhole ==
    \A v \in stored : Quiet /\ ~marred => output[v] \in tuples

=============================================================================
