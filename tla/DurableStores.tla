--------------------------- MODULE DurableStores ---------------------------
(***************************************************************************)
(* The in-process RDF stores of one backend and the snapshot file they are *)
(* saved to and restored from (api/src/lib/OxigraphStoreManager.ts,        *)
(* storeWrites.ts, storeSnapshot.ts).  A backend is of one kind:           *)
(*                                                                         *)
(*   persistent  restored from the file, checkpointed, never invalidated   *)
(*   durable     a memory store that is also restored and checkpointed,    *)
(*               seeded from its data graph when there is no file          *)
(*   readOnly    a memory store loaded from the head of its data graph,    *)
(*               written by nobody, dropped when a version is saved       *)
(*                                                                         *)
(* Everything runs on one event loop: an action is what runs between two   *)
(* awaits.  A store's content is the version of the data graph it was      *)
(* seeded with and the writers whose update it holds.                      *)
(***************************************************************************)
EXTENDS Integers, FiniteSets

CONSTANTS
    Kinds,         \* the kinds of backend considered
    Writers,       \* callers that obtain the store and update it once
    Savers,        \* requests that save a version or edit the backend
    Callers,       \* kind -> the writers and savers that take part
    Ticks,         \* ticks of the checkpoint interval that may be under way
    MaxSaves,      \* bound, by kind: versions saved after the first
    MaxMoves,      \* bound, by kind: moves of the head that save no version
    MaxEdits,      \* bound: edits of the backend's configuration
    MaxStores,     \* bound: stores built in one life of the process
    MaxFailures,   \* bound: snapshots that cannot be written
    MaxLives,      \* bound: lives of the process
    NoFile         \* what is on disk before the first snapshot

Shutdown == "shutdown"
Serializers == Ticks \cup Savers \cup {Shutdown}

ASSUME StoresAssumption ==
    /\ Kinds \subseteq {"persistent", "durable", "readOnly"}
    /\ \A k \in Kinds : Callers[k] \subseteq Writers \cup Savers
    /\ IsFiniteSet(Writers) /\ IsFiniteSet(Savers)
    /\ Ticks \cap Savers = {} /\ Shutdown \notin Ticks \cup Savers
    /\ MaxSaves \in [Kinds -> Nat] /\ MaxMoves \in [Kinds -> Nat]
    /\ {MaxEdits, MaxStores, MaxFailures} \subseteq Nat
    /\ MaxLives \in Nat \ {0}

VARIABLES
    kind,          \* the kind of the backend; it does not change
    head,          \* the current version of the data graph it follows
    versions,      \* how many versions of it were saved
    disk,          \* the snapshot file
    content,       \* store -> what it holds
    count,         \* store -> writes recorded by markStoreWritten
    made,          \* how many stores this process has built
    durableStore,  \* the store in durableStores, 0 for none
    memoryStore,   \* the store in memoryStores, 0 for none
    tracking,      \* is the backend in memoryTracking?
    epoch,         \* its entry of memoryEpochs
    last,          \* its entry of lastCheckpoint, -1 for none
    running,       \* checkpointRunning
    building,      \* where the pending build stands
    attempt, epochBefore,  \* its locals
    pc, handle,    \* writer -> where it stands, the store it holds
    sav,           \* saver -> where it stands
    ser, dump, at, of,     \* serialization -> progress, text, count, store
    stopping,      \* where shutdown stands
    failures, moves, edits, lives,
    recent,        \* history: the versions that were head since the last save
    lastOf,        \* history: the store whose count `last' is
    diskAt,        \* history: the count at which the file was dumped
    behind         \* history: the store served was invalidated mid-build

graph == <<head, versions, recent>>
disks == <<disk, diskAt>>
stores == <<content, count, made>>
registry == <<durableStore, memoryStore, tracking, last, lastOf, behind>>
build == <<building, attempt, epochBefore>>
writing == <<pc, handle>>
serial == <<ser, dump, at, of>>
bounds == <<failures, moves, edits, lives>>
vars == <<kind, graph, disks, stores, registry, epoch, running, build,
          writing, sav, serial, stopping, bounds>>

Stores == 1..MaxStores
Content == [seed : Nat, quads : SUBSET Writers]
Empty == [seed |-> 0, quads |-> {}]
MaxAttempts == 3

(* getDurableStore for a persistent backend, getMemoryStore for the others *)
Current == IF kind = "persistent" THEN durableStore ELSE memoryStore

----------------------------------------------------------------------------
Init ==
    /\ kind \in Kinds
    /\ head = 1 /\ versions = 1 /\ recent = {1}
    /\ disk = NoFile /\ diskAt = 0
    /\ content = [s \in Stores |-> Empty]
    /\ count = [s \in Stores |-> 0]
    /\ made = 0
    /\ durableStore = 0 /\ memoryStore = 0
    /\ tracking = FALSE
    /\ epoch = 0
    /\ last = -1 /\ lastOf = 0
    /\ running = FALSE
    /\ building = "no" /\ attempt = 0 /\ epochBefore = 0
    /\ pc = [w \in Writers |-> IF w \in Callers[kind] THEN "idle" ELSE "done"]
    /\ handle = [w \in Writers |-> 0]
    /\ sav = [v \in Savers |-> IF v \in Callers[kind] THEN "idle" ELSE "away"]
    /\ ser = [s \in Serializers |-> "no"]
    /\ dump = [s \in Serializers |-> Empty]
    /\ at = [s \in Serializers |-> 0]
    /\ of = [s \in Serializers |-> 0]
    /\ stopping = "no"
    /\ failures = 0 /\ moves = 0 /\ edits = 0 /\ lives = 1
    /\ behind = FALSE

----------------------------------------------------------------------------
(* Building.  A readOnly build awaits nothing before it is hydrated; the   *)
(* others first await the snapshot.                                        *)

(* A file that is missing, or holds no quads, is not restored from. *)
Restorable == kind # "readOnly" /\ disk # NoFile /\ disk # Empty

Seed == [Empty EXCEPT !.seed = IF kind = "persistent" THEN 0 ELSE head]

(* The store that a build fills, from the file or from the data graph. *)
Fill ==
    /\ made < MaxStores
    /\ made' = made + 1
    /\ content' = [content EXCEPT ![made + 1] =
                       IF Restorable THEN disk ELSE Seed]
    /\ count' = [count EXCEPT ![made + 1] =
                     IF Restorable \/ kind = "persistent" THEN 0 ELSE 1]
    /\ durableStore' = IF kind = "readOnly" THEN durableStore ELSE made + 1
    /\ building' = "built"

BeginAttempt(n) ==
    /\ attempt' = n
    /\ epochBefore' = epoch
    /\ tracking' = (kind # "persistent")
    /\ IF kind = "readOnly"
       THEN Fill
       ELSE /\ building' = "reading"
            /\ UNCHANGED <<stores, durableStore>>

(* A caller finds the store built, or waits for the build of another. *)
Obtain(w) ==
    /\ pc[w] = "idle"
    /\ stopping # "cleared"
    /\ \/ /\ Current # 0
          /\ pc' = [pc EXCEPT ![w] = "holding"]
          /\ handle' = [handle EXCEPT ![w] = Current]
       \/ /\ Current = 0 /\ building # "no"
          /\ pc' = [pc EXCEPT ![w] = "waiting"]
          /\ UNCHANGED handle
    /\ UNCHANGED <<kind, graph, disks, stores, registry, epoch, running, build,
                   sav, serial, stopping, bounds>>

StartBuild(w) ==
    /\ pc[w] = "idle"
    /\ stopping # "cleared"
    /\ Current = 0 /\ building = "no"
    /\ pc' = [pc EXCEPT ![w] = "waiting"]
    /\ BeginAttempt(1)
    /\ UNCHANGED <<kind, graph, disks, memoryStore, last, lastOf, behind, epoch,
                   running, handle, sav, serial, stopping, bounds>>

ReadSnapshot ==
    /\ building = "reading"
    /\ Fill
    /\ UNCHANGED <<kind, graph, disks, memoryStore, tracking, last, lastOf,
                   behind, epoch, running, attempt, epochBefore, writing, sav,
                   serial, stopping, bounds>>

(* The build is served unless its backend was invalidated meanwhile. *)
Serve ==
    /\ building = "built"
    /\ epoch = epochBefore \/ attempt >= MaxAttempts
    /\ building' = "no"
    /\ memoryStore' = IF kind = "persistent" THEN 0 ELSE made
    /\ behind' = (epoch # epochBefore)
    /\ pc' = [w \in Writers |-> IF pc[w] = "waiting" THEN "holding" ELSE pc[w]]
    /\ handle' = [w \in Writers |-> IF pc[w] = "waiting" THEN made
                                                         ELSE handle[w]]
    /\ UNCHANGED <<kind, graph, disks, stores, durableStore, tracking, last,
                   lastOf, epoch, running, attempt, epochBefore, sav, serial,
                   stopping, bounds>>

(* A slip: one attempt too many. *)
Rebuild_OneMore ==
    /\ building = "built"
    /\ epoch # epochBefore /\ attempt <= MaxAttempts
    /\ BeginAttempt(attempt + 1)
    /\ UNCHANGED <<kind, graph, disks, memoryStore, last, lastOf, behind, epoch,
                   running, writing, sav, serial, stopping, bounds>>

Rebuild ==
    /\ building = "built"
    /\ epoch # epochBefore /\ attempt < MaxAttempts
    /\ BeginAttempt(attempt + 1)
    /\ UNCHANGED <<kind, graph, disks, memoryStore, last, lastOf, behind, epoch,
                   running, writing, sav, serial, stopping, bounds>>

----------------------------------------------------------------------------
(* Use.  An update inserts the writer's quads or erases everything.        *)

Update(w) ==
    /\ pc[w] = "holding"
    /\ pc' = [pc EXCEPT ![w] = "done"]
    /\ handle' = [handle EXCEPT ![w] = 0]
    /\ IF kind = "readOnly"
       THEN UNCHANGED <<content, count>>
       ELSE /\ \E c \in {[content[handle[w]] EXCEPT !.quads = @ \cup {w}],
                         Empty} :
                  content' = [content EXCEPT ![handle[w]] = c]
            /\ count' = [count EXCEPT ![handle[w]] = @ + 1]
    /\ UNCHANGED <<kind, graph, disks, made, registry, epoch, running, build,
                   sav, serial, stopping, bounds>>

----------------------------------------------------------------------------
(* Snapshots.  The dump is taken at once; the file is replaced later.      *)

Dump(s) ==
    /\ ser' = [ser EXCEPT ![s] = "writing"]
    /\ dump' = [dump EXCEPT ![s] = content[durableStore]]
    /\ at' = [at EXCEPT ![s] = count[durableStore]]
    /\ of' = [of EXCEPT ![s] = durableStore]

(* The continuation of a serialization: its locals are gone. *)
Return(s) ==
    /\ ser' = [ser EXCEPT ![s] = "no"]
    /\ dump' = [dump EXCEPT ![s] = Empty]
    /\ at' = [at EXCEPT ![s] = 0]
    /\ of' = [of EXCEPT ![s] = 0]

Land(s) ==
    /\ ser[s] = "writing"
    /\ ser' = [ser EXCEPT ![s] = "landed"]
    /\ disk' = dump[s]
    /\ diskAt' = at[s]
    /\ UNCHANGED <<kind, graph, stores, registry, epoch, running, build,
                   writing, sav, dump, at, of, stopping, bounds>>

LandFails(s) ==
    /\ ser[s] = "writing"
    /\ failures < MaxFailures
    /\ failures' = failures + 1
    /\ ser' = [ser EXCEPT ![s] = "failed"]
    /\ UNCHANGED <<kind, graph, disks, stores, registry, epoch, running, build,
                   writing, sav, dump, at, of, stopping, moves, edits, lives>>

(* A slip: ticks stack. *)
Tick_Stacks(t) ==
    /\ stopping = "no"
    /\ ser[t] = "no"
    /\ durableStore # 0
    /\ last # count[durableStore]
    /\ running' = TRUE
    /\ Dump(t)
    /\ UNCHANGED <<kind, graph, disks, stores, registry, epoch, build, writing,
                   sav, stopping, bounds>>

(* A tick is dropped while a checkpoint runs, and a store that was not     *)
(* written since its last checkpoint is skipped.                           *)
Tick(t) ==
    /\ stopping = "no"
    /\ ~running
    /\ durableStore # 0
    /\ last # count[durableStore]
    /\ running' = TRUE
    /\ Dump(t)
    /\ UNCHANGED <<kind, graph, disks, stores, registry, epoch, build, writing,
                   sav, stopping, bounds>>

(* A slip: the count is read after the file is written. *)
Checkpointed_CountsLate(t) ==
    /\ ser[t] = "landed"
    /\ last' = IF durableStore = 0 THEN last ELSE count[durableStore]
    /\ lastOf' = of[t]
    /\ running' = FALSE
    /\ Return(t)
    /\ UNCHANGED <<kind, graph, disks, stores, durableStore, memoryStore,
                   tracking, behind, epoch, build, writing, sav, stopping,
                   bounds>>

Checkpointed(t) ==
    /\ ser[t] = "landed"
    /\ last' = at[t]
    /\ lastOf' = of[t]
    /\ running' = FALSE
    /\ Return(t)
    /\ UNCHANGED <<kind, graph, disks, stores, durableStore, memoryStore,
                   tracking, behind, epoch, build, writing, sav, stopping,
                   bounds>>

(* A slip: the count is recorded whether the file was written or not. *)
CheckpointFails_Records(t) ==
    /\ ser[t] = "failed"
    /\ last' = at[t]
    /\ lastOf' = of[t]
    /\ running' = FALSE
    /\ Return(t)
    /\ UNCHANGED <<kind, graph, disks, stores, durableStore, memoryStore,
                   tracking, behind, epoch, build, writing, sav, stopping,
                   bounds>>

CheckpointFails(t) ==
    /\ ser[t] = "failed"
    /\ running' = FALSE
    /\ Return(t)
    /\ UNCHANGED <<kind, graph, disks, stores, registry, epoch, build, writing,
                   sav, stopping, bounds>>

----------------------------------------------------------------------------
(* Invalidation.                                                           *)

SaveVersion(v) ==
    /\ kind # "persistent"
    /\ stopping # "cleared"
    /\ sav[v] = "idle"
    /\ versions <= MaxSaves[kind]
    /\ versions' = versions + 1
    /\ head' = versions'
    /\ recent' = {versions'}
    /\ sav' = [sav EXCEPT ![v] = "saved"]
    /\ UNCHANGED <<kind, disks, stores, registry, epoch, running, build,
                   writing, serial, stopping, bounds>>

(* The head also moves when currentVersion is put, or the version that it  *)
(* names is deleted.  Nobody tells the stores that follow it.              *)
MoveHead(v) ==
    /\ kind # "persistent"
    /\ stopping # "cleared"
    /\ sav[v] = "idle"
    /\ moves < MaxMoves[kind]
    /\ moves' = moves + 1
    /\ head' \in (1..versions) \ {head}
    /\ recent' = recent \cup {head'}
    /\ UNCHANGED <<kind, versions, disks, stores, registry, epoch, running,
                   build, writing, sav, serial, stopping, failures, edits, lives>>

EditBackend(v) ==
    /\ kind # "persistent"
    /\ stopping # "cleared"
    /\ sav[v] = "idle"
    /\ edits < MaxEdits
    /\ edits' = edits + 1
    /\ sav' = [sav EXCEPT ![v] = "edited"]
    /\ UNCHANGED <<kind, graph, disks, stores, registry, epoch, running, build,
                   writing, serial, stopping, failures, moves, lives>>

(* A save reaches the backends that follow the graph, an edit its own. *)
Reaches(v) == sav[v] = "edited" \/ (sav[v] = "saved" /\ tracking)

NotFollowed(v) ==
    /\ sav[v] = "saved" /\ ~tracking
    /\ sav' = [sav EXCEPT ![v] = "idle"]
    /\ UNCHANGED <<kind, graph, disks, stores, registry, epoch, running, build,
                   writing, serial, stopping, bounds>>

Forget ==
    /\ memoryStore' = 0
    /\ tracking' = FALSE
    /\ last' = -1 /\ lastOf' = 0
    /\ behind' = FALSE

(* A slip: an invalidation that finds no store has nothing to do. *)
InvalidateUnbuilt_Returns(v) ==
    /\ Reaches(v)
    /\ memoryStore = 0
    /\ sav' = [sav EXCEPT ![v] = "idle"]
    /\ UNCHANGED <<kind, graph, disks, stores, registry, epoch, running, build,
                   writing, serial, stopping, bounds>>

(* Nothing is built: the epoch alone tells a build under way. *)
InvalidateUnbuilt(v) ==
    /\ Reaches(v)
    /\ memoryStore = 0
    /\ epoch' = epoch + 1
    /\ sav' = [sav EXCEPT ![v] = "idle"]
    /\ UNCHANGED <<kind, graph, disks, stores, registry, running, build,
                   writing, serial, stopping, bounds>>

InvalidateBuilt(v) ==
    /\ Reaches(v)
    /\ memoryStore # 0
    /\ epoch' = epoch + 1
    /\ IF durableStore # 0
       THEN /\ sav' = [sav EXCEPT ![v] = "dropping"]
            /\ Dump(v)
            /\ UNCHANGED registry
       ELSE /\ sav' = [sav EXCEPT ![v] = "idle"]
            /\ Forget
            /\ UNCHANGED <<serial, durableStore>>
    /\ UNCHANGED <<kind, graph, disks, stores, running, build, writing,
                   stopping, bounds>>

(* The store is dropped after its snapshot, whether it was written or not. *)
Drop(v) ==
    /\ sav[v] = "dropping"
    /\ ser[v] \in {"landed", "failed"}
    /\ sav' = [sav EXCEPT ![v] = "idle"]
    /\ durableStore' = 0
    /\ Forget
    /\ Return(v)
    /\ UNCHANGED <<kind, graph, disks, stores, epoch, running, build, writing,
                   stopping, bounds>>

----------------------------------------------------------------------------
(* Shutdown and the end of a life.  A crash comes at any time; what was    *)
(* dumped and not yet renamed is lost with the process.  What requests     *)
(* still do between the clearing of the stores and the exit is left out:   *)
(* none of it is saved.                                                    *)

CutOff ==
    /\ building' = "no" /\ attempt' = 0 /\ epochBefore' = 0
    /\ epoch' = 0
    /\ durableStore' = 0
    /\ Forget
    /\ pc' = [w \in Writers |-> IF pc[w] = "done" THEN "done" ELSE "idle"]
    /\ handle' = [w \in Writers |-> 0]
    /\ sav' = [v \in Savers |-> IF sav[v] = "away" THEN "away" ELSE "idle"]

ShutDown ==
    /\ stopping = "no"
    /\ lives < MaxLives
    /\ IF durableStore # 0
       THEN /\ stopping' = "saving"
            /\ Dump(Shutdown)
            /\ UNCHANGED <<registry, epoch, build, writing, sav>>
       ELSE /\ stopping' = "cleared"
            /\ CutOff
            /\ UNCHANGED serial
    /\ UNCHANGED <<kind, graph, disks, stores, running, bounds>>

ClearStores ==
    /\ stopping = "saving"
    /\ ser[Shutdown] \in {"landed", "failed"}
    /\ stopping' = "cleared"
    /\ CutOff
    /\ Return(Shutdown)
    /\ UNCHANGED <<kind, graph, disks, stores, running, bounds>>

Boot ==
    /\ lives < MaxLives
    /\ lives' = lives + 1
    /\ CutOff
    /\ content' = [s \in Stores |-> Empty]
    /\ count' = [s \in Stores |-> 0]
    /\ made' = 0
    /\ running' = FALSE
    /\ ser' = [s \in Serializers |-> "no"]
    /\ dump' = [s \in Serializers |-> Empty]
    /\ at' = [s \in Serializers |-> 0]
    /\ of' = [s \in Serializers |-> 0]
    /\ stopping' = "no"
    /\ diskAt' = 0
    /\ UNCHANGED <<kind, graph, disk, failures, moves, edits>>

Crash == stopping = "no" /\ Boot
Exit == stopping = "cleared" /\ Boot

Next ==
    \/ \E w \in Writers : Obtain(w) \/ StartBuild(w) \/ Update(w)
    \/ ReadSnapshot \/ Serve \/ Rebuild
    \/ \E t \in Ticks : Tick(t) \/ Checkpointed(t) \/ CheckpointFails(t)
    \/ \E s \in Serializers : Land(s) \/ LandFails(s)
    \/ \E v \in Savers :
          \/ SaveVersion(v) \/ MoveHead(v) \/ EditBackend(v)
          \/ NotFollowed(v) \/ InvalidateUnbuilt(v) \/ InvalidateBuilt(v)
          \/ Drop(v)
    \/ ShutDown \/ ClearStores \/ Crash \/ Exit

Spec == Init /\ [][Next]_vars

(* The event loop resumes what can go on, a started write of a file ends,  *)
(* and the interval keeps ticking until it is stopped.                     *)
FairSpec ==
    /\ Spec
    /\ WF_vars(ReadSnapshot) /\ WF_vars(Serve) /\ WF_vars(Rebuild)
    /\ \A t \in Ticks : /\ WF_vars(Tick(t))
                        /\ WF_vars(Checkpointed(t))
                        /\ WF_vars(CheckpointFails(t))
    /\ \A s \in Serializers : WF_vars(Land(s) \/ LandFails(s))
    /\ WF_vars(ClearStores) /\ WF_vars(Exit)

----------------------------------------------------------------------------
(* Properties *)

LimitTypes ==
    /\ kind \in Kinds /\ versions \in 1..MaxSaves[kind] + 1
    /\ head \in 1..versions /\ recent \subseteq 1..versions
    /\ stopping \in {"no", "saving", "cleared"}
    /\ failures \in 0..MaxFailures /\ moves \in 0..MaxMoves[kind] /\ edits \in 0..MaxEdits
    /\ lives \in 1..MaxLives

StoreTypes ==
    /\ disk = NoFile \/ disk \in Content
    /\ diskAt \in 0..Cardinality(Writers) + 1
    /\ content \in [Stores -> Content]
    /\ count \in [Stores -> 0..Cardinality(Writers) + 1]
    /\ made \in 0..MaxStores

RegistryTypes ==
    /\ durableStore \in 0..MaxStores /\ memoryStore \in 0..MaxStores
    /\ lastOf \in 0..MaxStores /\ last \in -1..Cardinality(Writers) + 1
    /\ tracking \in BOOLEAN /\ running \in BOOLEAN /\ behind \in BOOLEAN

BuildTypes ==
    /\ epoch \in 0..MaxSaves[kind] + MaxEdits
    /\ epochBefore \in 0..MaxSaves[kind] + MaxEdits
    /\ building \in {"no", "reading", "built"}
    /\ attempt \in 0..MaxAttempts

CallTypes ==
    /\ pc \in [Writers -> {"idle", "waiting", "holding", "done"}]
    /\ handle \in [Writers -> 0..MaxStores]
    /\ sav \in [Savers -> {"idle", "saved", "edited", "dropping", "away"}]

SerialTypes ==
    /\ ser \in [Serializers -> {"no", "writing", "landed", "failed"}]
    /\ dump \in [Serializers -> Content]
    /\ at \in [Serializers -> 0..Cardinality(Writers) + 1]
    /\ of \in [Serializers -> 0..MaxStores]

(* The variables have their types: no build is attempted more often than   *)
(* the limit on rebuilds in _createMemoryStoreInternal allows, a store is  *)
(* not written more often than its seeding and its writers account for,    *)
(* and a backend is not invalidated more often than it was saved or edited.*)
TypeOK ==
    /\ LimitTypes /\ StoreTypes /\ RegistryTypes /\ BuildTypes
    /\ CallTypes /\ SerialTypes

(* A store the checkpoint loop skips is on disk as it stands: when the     *)
(* recorded count is the store's own and nothing is being written, the     *)
(* file holds the store's content (storeWrites.ts: the counter is read     *)
(* before the dump and recorded after it).  The count recorded for a       *)
(* persistent backend is always that of its registered store.              *)
SkipsOnlySaved ==
    /\ ( /\ durableStore # 0
         /\ lastOf = durableStore
         /\ last = count[durableStore]
         /\ \A s \in Serializers : ser[s] = "no" )
       => disk = content[durableStore]
    /\ (kind = "persistent" /\ durableStore # 0 /\ stopping = "no")
       => lastOf \in {0, durableStore}

(* A store that follows the head of a data graph was loaded from a version *)
(* that was its head at some time since the last save, until the process   *)
(* shuts down, unless that save has yet to announce itself or the build    *)
(* was overtaken at its last attempt (_createMemoryStoreInternal:          *)
(* "slightly behind").  It need not be the current head: putting           *)
(* currentVersion or deleting the version it names reaches no store.       *)
FollowsHead ==
    (kind = "readOnly" /\ memoryStore # 0 /\ stopping = "no")
    => \/ content[memoryStore].seed \in recent
       \/ \E v \in Savers : sav[v] = "saved"
       \/ behind

(* Within one life, and until it shuts down, a checkpoint of a persistent  *)
(* backend never puts an older state of its store over a newer one: ticks  *)
(* do not stack, each renames its own temporary file.                      *)
DiskAdvances ==
    [][(kind = "persistent" /\ stopping = "no" /\ lives' = lives)
       => diskAt' >= diskAt]_vars

(* The writes to a persistent backend end up in its file: when they stop,  *)
(* and failures and restarts do, the file holds what the store holds and   *)
(* stays so.                                                               *)
EverySettledWriteIsSaved ==
    <>[](kind = "persistent"
         => durableStore = 0 \/ disk = content[durableStore])

(* What invalidateMemoryStore says of a durable store ("A durable store is *)
(* serialized first ... discarding it unsaved would lose writes"), and     *)
(* backends.ts of an edit ("a durable store is serialized before being     *)
(* dropped, so nothing written to it is lost").                            *)
NothingDroppedUnsaved ==
    [][(/\ kind = "durable"
        /\ memoryStore # 0 /\ memoryStore' = 0
        /\ stopping = "no" /\ lives' = lives
        /\ failures = 0)
       => disk' = content[memoryStore]]_vars
=============================================================================
