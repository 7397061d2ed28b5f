# sqlib: a verification project

sqlib keeps a library of SPARQL queries, rules and data graphs, versions them,
and runs them against RDF stores. It is a Fastify API (`packages/api`) with
several libraries that do the work on graphs and rules, a web client, an MCP
server and a command line. This directory models the parts of it whose
correctness depends on what happens *between* steps: a cache in front of an
asynchronous store, patches derived with several queries, blobs written with
conditional puts, a patch log ordered by timestamps, in-memory stores saved
to files, versions numbered by concurrent requests, graphs of queries that are
stopped while a node works, and rules iterated layer by layer.

Paths below are relative to `packages/`; `api/lib` stands for
`api/src/lib`. Line numbers of every definition are in `PROJECT.json` (`map`).

## Running it

Each run is a pair of an MC module and a `.cfg`: `tlc -config X_name.cfg MCX.tla`.
Proofs are checked with `tlapm XProofs.tla`. `PROJECT.json` lists the runs, the
mutants and the theorems. A *mutant* is a definition such as `Tick_Stacks`, kept
beside the definition it distorts (`Tick`): replacing one by the other must make
TLC report the property the mutant is listed with, so each property is shown to
be able to fail.

## Inventory

| Part | State | Operations | What is hard | Covered by |
|---|---|---|---|---|
| Entity cache (`api/lib/CacheCoordinator.ts`, `MemoryCacheManager.ts`) | the entities by id, ephemeral ids, a numbering of writes, refreshes in flight | create, update, delete, ephemeral add and remove, get and list (which start background refreshes) | every store call is awaited: refreshes answer after writes they were read before; writes overlap; calls fail after they took effect | `CacheCoordinator` |
| Patch derivation (`rdf-delta/src/derive.ts`, `plan.ts`, `graphOps.ts`) | the accumulated deletions and additions, a fork | derive a patch from a program of operations | operations undo each other; several queries per operation while others write; blank nodes | `DerivePatch`, `RdfDelta` |
| Blob snapshots (`rdf-delta/src/blobSnapshot.ts`, `blobStore.ts`, `blobStoreHttp.ts`) | a blob and its token; each writer's token and digest | rebase-and-retry, checkpoint | lost races, lost answers, blobs deleted meanwhile, stores without tokens | `BlobRebase`, `SerialGraph` |
| Patch service and log (`api/lib/patchService.ts`, `patchLog.ts`, `rdf-delta/src/patchLog.ts`) | records of patches with status and time | preview, apply, record, apply existing, revert, sweep; fold the log | the store changes before the record is written; equal timestamps; a patch reverted, then applied again | `PatchService`, `PatchLog` |
| In-process stores (`api/lib/OxigraphStoreManager.ts`, `storeWrites.ts`, `storeSnapshot.ts`, `dataGraphHydration.ts`) | the stores by backend, what each follows, epochs, checkpoint counts, the snapshot file | create or find, invalidate, checkpoint, shutdown, restore | builds overtaken by invalidations; snapshots that land late; writes between a dump and a drop; crashes | `DurableStores` |
| Versioned entities (`api/lib/versionNumbering.ts`, `api/src/routes/versionedEntity.ts`, the version writers) | versions, the pointer to the current one, a lock per parent | save, make current, annotate, delete a version, delete the entity | check and act separated by awaits; saves that fail or die holding the lock; parts two versions share | `VersionedEntity` |
| Execution engine (`api/lib/orchestration`) | a run's results, its ephemeral stores, the signal that stops it | accept a graph, order the nodes, run each, carry data by result or by store, collect, tear down | a stopped run leaves a node working behind it; overlapping runs name the same stores; data that is not there is skipped in silence | `ExecutionEngine` |
| Rule engine (`runtime-srl`, `srl/src/stratify.ts`) | a dataset and a tuple store, strata, iteration budgets | stratify, load the input, iterate each stratum to its fixpoint | recursion through negation; rules that make nodes; tuples that are no triples; budgets and stops | `Stratify`, `RuleSetRunner` |
| Result cache, assistant sessions (`api/lib/resultCache.ts`, `api/src/assistant`) | entries with owner, size and last use; sessions | keep, get, evict; run a turn | quotas and expiry; eviction of what is in use | not modelled |
| Entity persistence (`api/src/persistence`) | the library store | generate SPARQL or rows, read back | text generation | as an actor of `CacheCoordinator` |
| ETL, tests, benchmarks, access control, query compiler, rule language, client runtimes, routes, web, MCP, command line, contracts | see `PROJECT.json` | | I/O, text, or adapters | not modelled |

How they interact. Routes call the version writers and repositories, which go
through the entity cache to the library store; that store is SQLite, a SPARQL
endpoint, or an in-process store. Saving a version of a data graph invalidates
the in-process stores that follow it. An execution obtains executors by backend;
an update asked to be recorded passes through the patch service, which derives
its patch with `rdf-delta`, lands it and writes a record through the entity
cache; the log is read back from those records. `rdf-delta` is also used alone,
for a graph kept in a blob.

What makes each part correct. The cache: an acknowledged write is visible until
the next one, and an idle cache equals its store. Derivation: the patch is the
net effect, and may stand for the update. Blobs: updates are
serial, answers are true, contention ends. The log: it folds to what the backend
holds. Stores: what is skipped is saved, what follows a head keeps up with
every save, and what is written reaches the file. Versions: a number names one version, the
pointer is at the last one saved, and a version that goes hands it on. Engine: a
run answers only when every node had its data, shares nothing with other runs and
leaves no store. Rules: a run that converges has computed the model of its rules.

## The modules

### RdfDelta

Quads are an opaque set; an update operation is a pair of functions from a graph
to what its templates delete and insert there (`Operations`). `Execute`,
`NetEffect`, `ApplyDelta` and `Invert` are the SPARQL meaning of an operation,
the rule stated in the header of `derive.ts`, and what `applyPatch` and
`invertPatch` do. `NetEffectIsExecution` (in `DerivePatchProofs`) says that the
net effect is the smallest patch equal to the operation and that its inverse
takes it back.

### CacheCoordinator

One type of entity. A client write is an `Op` that is issued once and carries a
property of its own, so the content of an entity is the set of writes it holds.
Each adapter call is two actions: the store acts (`StoreInserts`, `StorePatches`,
`StoreErases`, `StoreAnswersRefresh`) and the answer is handled
(`CreateFinishes`, `UpdateFinishes`, `DeleteFinishes`, `ApplyRefresh`). `CallFails`
is a call that rejects whether or not the store acted. The TTL is "any time": a
refresh may be triggered whenever the code would consider one. `CACHE_PRELOAD` is
a variable that keeps its value.

History variables: `owed` (acknowledged writes nothing replaced), `contended`
(ids two writes overlapped on) and `tainted` (entries with a named reason to
differ: an overlap, a failed call, a failed boot load, a refresh begun during a
delete). Each property says which of them it excludes.

* `cache_writes`: three writes of any kind against one refresh, with the clock.
  The type invariant; `RevisionNamesContent` (two copies of one revision are
  equal, which If-Match relies on); `CreatesLandOnNothing`.
* `cache_refreshes`: two writes, two refreshes, a failure and an ephemeral entity.
  `OwnWritesVisible`, `EphemeralSurvives`, `Coherent` (an idle id shows what the
  store holds), `SavedUpdatesAreStored` and, with fairness, `Converges`. Two
  refreshes are what it takes to drop the write numbers too early.

Two weaknesses are outside the properties, which name them. `delete` takes its
write number before it awaits the store, so a refresh begun during the await
holds the entity, counts as younger than the deletion, and puts the deleted
entity back in the cache until the next refresh; the comment of `reloadType` says
it cannot (`tainted`). And of two updates of one entity that overlap, each may
read back the entity before the other's write; the last to end decides what the
cache shows until the next refresh (`contended`).

Left out: `errorMode: 'throw'`, several types (they share only the write
numbering), a refresh of the type that an operator asks for (`refreshEntityType`
does not look whether one is running, so that two could run; the model has at most
one beside the refreshes of entities), system entities (refused before anything
happens), and the narrower
interleavings of the SQLite store, whose calls are a subset of those modelled.

### DerivePatch

One derivation of a program of up to three operations over three quads, from
every store, for nine operations: ground, templated over a WHERE, enumerated and
counted graph operations. An operation also says which quads its templates yield
twice (`twice`): every block of a template is a CONSTRUCT of its own, and derive.ts
keeps their rows in one array. Each question to the store is an action, and
`StoreMoves` is another writer between two of them. Which quads carry blank
nodes, whether the store can name them and whether it can be forked are variables
that keep their value, so one run covers every combination. `replay` is the
program run on the original store, operation by operation: the reference the
patch is compared with.

* `derive_programs`: `NetEffectOfProgram`, `PatchStandsForProgram`,
  `DeletionsAreExact`, and, whatever other writers do, `SidesWitnessed`.

The properties leave out the quads of `recounted`, and that is a weakness of the
code. The loops of `derive.ts:187-206` go through arrays. When an earlier operation
added a quad and a later one's templates yield it twice, the first copy cancels the
addition, and the second is looked up in the fork, found there, and counted as a
deletion: the patch deletes what was in no store, and still claims to be exact,
against the header of `derive.ts`. The same happens to a quad that was deleted and is
inserted twice. Such a patch still takes the store forward where the program does as
long as there are two operations, which is what `PatchStandsForProgram` says;
its inverse is wrong at once, and a third operation that touches the quad again makes
the patch itself wrong.

`DeletionsAreExact` is what remains with blank nodes. One that was bound by a
WHERE and is inserted is taken for a new one: a quad that was in the graph already
is then counted as added, and a later operation that removes it cancels the
addition instead of adding a deletion. `docs/explanation/rdf-patch.md` says every
divergence is reported; this one is not.

Left out: parsing, the batching of membership queries, the text of the patch, and
writers between the blocks of one template, which are read in one step.

### BlobRebase and SerialGraph

`SerialGraph` is the promise: a graph changed by one update at a time, each run
on what the last one left, and by checkpointers that replace only what they
wrote. `BlobRebase` is the code: read, derive on a private copy, put with
`If-Match`, start over when refused. Tokens are new with each write or name the
bytes (`contentEtags`), answers may come without a token or not at all, and the
blob may be deleted.

* `blob_writers`: two writers, one of whose updates reads what the other writes,
  beside a checkpointer whose graph carries a blank node (which a writer refuses
  to rebase), two attempts, a lost answer and a deletion of the blob.
  `AnswersAreTrue`, `ExhaustedOnlyWhenOvertaken`, `SerialUpdates` (the refinement)
  and, with fairness, `EveryCallLands`.

The model has two weaknesses of the code that no property is about. A checkpointer
whose put was stored and its answer lost keeps the token from before, and every
later checkpoint is refused until it reads the blob again. And a checkpoint whose
content is that of the last one is skipped without a look at the blob, which may
have been deleted meanwhile.

### PatchService and PatchLog

`PatchLog` is the fold: which records are history, every order their keys may
give (time, then content, then an arbitrary identifier), the placing of reverts
after what they undo, the caveat about shared timestamps, and the graph that
results. `PatchService` keeps the records: seven kinds of call, each of which
derives, changes the store, dates and records in separate steps. The derivation
itself is one step, since `DerivePatch` is about its inside.

* `patch_log`: four overlapping calls, one failure and two times, over an update
  that reads what it writes. `LogFoldsToStore`: when nothing is half done, every
  order the keys allow folds to the store, or the caveat is given. Excluded by
  name (`tainted`): two applications that overlap and are dated in the other
  order, an update that did something else than was derived for it, a store or
  library that failed with the update done, a patch applied again, a sweep that
  deletes a record applied meanwhile; and three patches with one timestamp
  (`Paired`), for which the caveat can be missed. `RevertsAreLinked`: when nothing
  failed, a reverted patch has its inverse in the log.

What is excluded is of two kinds. A reverted patch may be applied again: its
record is then dated after the revert, and the log puts the revert behind it
although `patchLog.ts:163` calls a revert dated before its target something that
cannot have happened. The rest is the price of changing the store before the
record is written, with no lock over the two.

Left out: graph operations that were only counted and patches with blank nodes
(refused before they touch anything), a derivation that fails, `expectedHash`,
and several backends over one store.

### DurableStores

One backend, of a kind that keeps its value: `persistent` (restored, checkpointed,
never invalidated), `durable` (a memory store that is also restored and
checkpointed) or `readOnly` (a memory store that follows the head of a data
graph; `ephemeral` mode has the same life). An action is what the event loop runs
between two awaits. A dump is taken at once and lands later (`Dump`, `Land`);
landing and the continuation of whoever waited for it (`Checkpointed`, `Drop`,
`ClearStores`) are separate. The build of a memory store reads the epoch before
and after (`BeginAttempt`, `Serve`, `Rebuild`). `Crash` loses everything but the
file. `shutdown` is `ShutDown`, `ClearStores`, `Exit`; a checkpoint that was
writing may still land in between. The head moves when a version is saved, which
invalidates the stores that follow it (`SaveVersion`), and when `currentVersion` is
put or the version it names is deleted, which tells nobody (`MoveHead`).

* `stores_lifecycle`: all three kinds with two writers, two savers, two ticks, a
  failed snapshot and a second life. `SkipsOnlySaved` (what the checkpoint loop
  skips is on disk as it stands), `FollowsHead` (a store that follows a head holds a
version that was head at some time since the last save), `DiskAdvances` (checkpoints land
  in order) and, with fairness, `EverySettledWriteIsSaved`.
* `stores_invalidated` (a bug): an update that runs while `invalidateMemoryStore`
  awaits the snapshot of a durable store is dropped with the store.

Four weaknesses are outside the properties and listed as hazards: a store that goes
on with the old head after a PUT of `currentVersion` (`versionedEntity.ts:371-405`) or a
DELETE of the version (`:499-518`), although `OxigraphStoreManager.ts:498-505` and
`BackendSchema.ts:205-208` say that it follows the current version; an older
checkpoint that lands after the snapshot of a clean shutdown; a checkpoint that
ends after its store was replaced and records the old store's count for the new
one (hence `lastOf` in `SkipsOnlySaved`); and an emptied durable memory store,
whose empty snapshot counts as none, so it is seeded again.

Left out: a pointer to no version, with which a build throws, and that a deleted
version cannot become head again; ephemeral stores of a run, seeding from a file or an endpoint, a
snapshot that cannot be read (it throws and changes nothing), changing the storage
directory, an edit that changes a backend's kind, and what requests do between
the clearing of the stores and the exit.

### VersionedEntity

One query and the requests that write it. A version is named by the save that
made it. `SaveBegin` puts the request in line (`pred`, `tail`: the chain of
promises of `allocateVersion`); `SaveNumber` reads the highest number, in the cache
and, without preload, in the store; `SaveParts` creates the parts or finds a tuple
with the same variables; `SaveInserted`, `SaveCached`, `SavePointed` and
`SaveEnds` are the insert, the cache's turn, and the move of `currentVersion`.
Deleting a version (`PruneBegin` to `PruneEnds`), moving the pointer (`MoveBegin`
...) and deleting the entity (`DropBegin` ...) are the other three requests.
`SaveFails` and `PruneFails` are calls that fail, maybe with their work done;
`Restart` cuts off what runs and loads the cache again, or leaves it empty.

* `entity_requests`: three saves, two of them over the same variables, and any two
  of a deletion of a version, a move, a deletion of the entity, a failure and a
  restart, preloaded or not. `NumbersUnique`, `NewestIsCurrent` (the last save
  answered is current), `PointerFallsBack` (a deleted version hands the pointer to
  the newest one left), `FailuresAreOwn` and, with fairness, `EverySaveIsAnswered`.
* `entity_shared` (a bug): `findExistingAutoTuple` gives two versions the same
  output tuple; deleting one version deletes it, and the other names nothing.
  `ownedEntities.ts:4-6` says that only one version names each of its parts.

`NumbersUnique` leaves out one case: with preload the number is read in the cache,
so an insert that reached the store and was reported failed is not seen, and the
next save takes its number again. `PointerFallsBack` speaks of requests that do
not overlap (`marred`): nothing orders a deletion, a move and a save with each
other, and a version created or deleted meanwhile leaves the pointer dangling or
outlives its entity.

Left out: creating the entity, its other properties, the annotations of a version,
checks that refuse a request before it does anything, and the other kinds of
versions, whose writers take the same lock. `reloadType` beside these requests is
the business of `CacheCoordinator`.

### ExecutionEngine

Runs of one graph, chosen among those `GraphBuilder` accepts (`Accepted`). A run is
its loop (`pc`, `queue`, `indeg`, `done`) and the node that works for it (`at`,
`phase`). `BeginNode` makes the node's ephemeral store and starts it;
`LoadSupplied`, `Answer`, `Materialize` and `NodeThrows` are its steps; `Resume` is
the loop going on. Only nodes that query have a store. `ClientLeaves` and
`DeadlinePasses` fire the signal: a loop that waits is rejected at once (`raceAbort`) and tears its stores down, while the node
goes on by itself. Data are named by the run and the node they come from, and a
node reads what its edges carry and what its store holds (`Inputs`).

* `engine_runs`: two overlapping runs of every accepted graph of five nodes with four
  edges and any of five more (parallel edges, a cycle, refused edges and edges that carry
  nothing among them), in one store or two, with a failure. A select or a patch node
  stands behind the start node, and a rule set may read a select.
  `AnswersAreWhole`, `RunsAreSeparate`, `StoresAreGone` and, with fairness, `EveryRunEnds`.
* `engine_sent` (a bug): a graph sent to a node that queries another store than
  its source loads is accepted and never arrives. `GraphBuilder.ts:503-508` says
  such an edge is refused.

`AnswersAreWhole` leaves out the four kinds of edge that `GraphBuilder` accepts and that
carry nothing (`Delivers`): the one of `engine_sent`; the graph of a select, which
loads none (`validateGraph` does not compare the port with the kind of query); a graph
supplied to the run and sent to a patch node (`GraphBuilder.ts:522-537`), although only
query nodes load what was supplied; and a table sent to a patch node, which takes no
arguments. A run with such an edge answers without the data. Only a rule set that is
sent the graph of a select fails.

An abandoned node may not make a store again: its executor has one already, and
loading into a store that is gone is an error. Timers fire in the model at any
moment, or late; a node that keeps the event loop busy can only delay them.

Left out: what a query computes, the pairing of arguments with ports (a node gets
all of a table or nothing), dynamic queries, datasets and ETL nodes, and the report
of an execution.

### Stratify and RuleSetRunner

`Stratify` is the analysis: which rule depends on which, positively, negatively or
as a rule that runs once and must find its body complete (`Label`); the passes that
raise the layers (`Pass`, `TooHigh`) and the cycles that have none (`BadCycle`).
`RuleSetRunner` is a run: `LayerRules` and `Prepare` (`prepareRules`, the input and
the tuple seeds), `RunDataBlocks`, then per layer `StartPass`, `RunRule`, `EndPass`
until nothing is added, the budget is spent (`GiveUp`), a rule's call failed
(`RuleFails`) or the run is stopped (`Stop`, `StopIsSeen`). Triples are in `quads`
and tuples in `tuples`; both have one argument, and a rule one variable. What a rule
that makes nodes makes is told apart by the firing that made it. A blank node in a body
runs as a variable of its own (`Finds`, `compile.ts:346-391`).

* `rule_sets`: every ordered choice of three out of fourteen rules, over three inputs,
  with three passes a layer. `ConvergedIsTheModel`: what a run converges to is the
  least set that holds the input and is closed under the rules, their NOT answered
  by that set itself and rules that run once fired once. `EndsForAReason`: a budget
  is spent only by a layer that derived something in each of its passes, and a
  failure has a cause.

`ConvergedIsTheModel` leaves out two kinds of rule set, which `stratify` gets wrong. The
first are those where a blank node of a body reads a relation of which a head derives a
constant (`BlankReadsConstant`). `stratify.ts:359-371` compares the blank node as a
constant and sees no dependency, but it runs as a variable: `NOT { [] :q ?x }` beside a
head `:a :q ?x` is accepted in one layer, and the run converges to a set that depends on
the order of the rules. The second are rules with a tuple pattern under NOT DATA or in a
WHERE DATA (`ReadsTuplesAsGround`). `stratify.ts:328-329` takes them to read what
no rule writes; they read the tuples derived so far, so that the result depends on
the order of the rules. What is not left out, and the documentation says otherwise: ground data
is the base graph without the DATA blocks. A comment in `runRuleSet.ts` (442-465) and
the test it names say so, whereas `docs/reference/srl-language.md:51-52`, `:261-262` and
the header of `compile.ts` (18-19) count the blocks as well. The model does what the
code does.

Left out: tuples with blank nodes (they cannot be written in the VALUES they are
read through, and fail every rule that reads them); a blank node that two patterns of a
body share, and that a rule which makes nodes makes one for each value of a blank node
in its body, which are one here; the stored report of an earlier stratification, which
is used as it is when there is one (`RuleSetExecutor.ts:216-218`), and rules that are not
in the cache, which are skipped (`:271-275`); a base graph that cannot be
loaded, the report of a cycle, tracing and samples.

## Bounds

Every bound is a constant of its module and appears in a guard. They are small
because each hazard needs few actors: a stale refresh needs one write and one
refresh, clearing the numbering too early two refreshes, a lost update two
writers, exhausting the attempts as many competitors as attempts. The mutants show
that the bounds suffice: every faulty variant, one per property, is found within
them. `MaxStores` 4 lets a build be overtaken until its attempts run out;
`MaxLives` 2 is one restart; three operations are the least in which a later one
undoes what a middle one did to an earlier one. Three saves are the least in which
the first to end can give up the lock the second holds, before the third arrives.
Of requests other than saves, failures and restarts `MaxEvents` allows two, which
is every pair of them. Three nodes between start and end have a node with two
predecessors, one of which is its predecessor's too; two runs are what sharing
needs. Three rules make a cycle through a tuple relation, or a negation of one
beside it; three passes are two that derive and the one that finds nothing
more, so that a chain of three rules in the worst order spends them.
`MaxMoves` of the stores lets the head of a durable store move once and that of a read-only
store twice: away from what a build has read, and back to it. Symmetry is declared
only in runs without liveness, over actors that nothing tells apart; saves and
runs are numbered in the order in which they begin instead. Deadlock checking is
off: in every module all calls may have been made and answered.

## Fairness

* `CacheCoordinator`: adapter calls are answered and the type keeps being listed
  (a listing is what starts a refresh). Clients need not write; failures are never
  fair.
* `BlobRebase`: a call that began keeps running. Nobody is made to begin one.
* `DurableStores`: the event loop resumes continuations, a write of a file ends,
  and the checkpoint interval, where one is configured, keeps ticking until it is
  stopped. Clients, crashes and shutdowns are not fair.

* `VersionedEntity`: a save that began keeps running. Nobody is made to begin one,
  and failures and restarts are not fair.
* `ExecutionEngine`: the event loop resumes a run that does not wait for a node,
  and the timer of a configured deadline fires. Nodes may never settle.
* `PatchService`, `DerivePatch` and `RuleSetRunner` state none.

All of it is weak fairness of single steps: nothing in the code waits for a
scheduler to be more than that.

## Proofs

| Module | Theorem | Says |
|---|---|---|
| `CacheCoordinatorProofs` | `TypeCorrect`, `Invariance`, `AcknowledgedWritesStayVisible` | `TypeOK` and `OwnWritesVisible`, for any ids, writes and refreshes |
| | `FullInvariance`, `EntriesFollowTheStore`, `EphemeralStaysCached`, `RevisionsName`, `NoUpdateIsLost`, `CreatesMeetNothing` | the other five invariants of the cache: what it shows when idle, what a revision names, and that nothing is lost or met |
| `DerivePatchProofs` | `NetEffectIsExecution` | one operation, its net effect and its inverse |
| | `TypeCorrect`, `PatchIsTheNetEffect`, `PatchReplacesProgram` | the derivation over ground quads is the net effect of the program but for quads that came twice, and of two operations stands for them, for any quads, operations, programs and moves of the store |
| | `EverySideWasSeen`, `WhatIsDeletedIsKnown` | the same whatever other writers do, and with blank nodes |
| `BlobRebaseProofs` | `TypeCorrect`, `AnswersHold`, `GivesUpOnlyWhenOvertaken`, `WritersAreSerial` | answers are true, giving up is justified, and `BlobRebase` implements `SerialGraph` |
| `PatchServiceProofs` | `TypeCorrect`, `RevertsAndInverses`, `RecordsAreWrittenOnce` | a reverted patch and its inverse know of each other, and a record is written once |
| | `LogInvariance`, `LogFoldsBack` | the records are those of an order of landings that made the store, and the log folds to it, for any updates and overlapping calls |
| `DurableStoresProofs` | `TypeCorrect`, `SkippedIsSaved`, `StoresFollowTheHead`, `CheckpointsLandInOrder` | what is skipped is saved, what follows a head holds one there was since the last save, however it moved, and the file never goes back to an older checkpoint |
| `VersionedEntityProofs` | `TypeCorrect`, `SavesRunOneByOne`, `NumbersNameVersions` | saves are exclusive and `NumbersUnique` holds, for any number of saves, other requests, failures and restarts |
| | `FailuresStayOwn`, `NewestStaysCurrent`, `PointerNamesAVersion` | a failure takes down no other request; the pointer is at the last save, and a version that goes hands it on |
| `ExecutionEngineProofs` | `NoStoreOutlivesItsRun`, `NothingIsShared` | `StoresAreGone` and `RunsAreSeparate`, for any graphs and runs |
| | `TypeCorrect`, `WholeAnswers` | a run answers only when every node ran, after all it reads from and with all the data the edges that deliver bring it |
| `RuleSetRunnerProofs` | `TypeCorrect`, `AcceptedIsLayered`, `EndsAreExplained` | the layers are the least that respect every dependency, refused are the sets that have none, and a run ends for a reason |
| | `ConvergesToTheModel` | what a run converges to is exactly what follows from its input, outside the two kinds of set that `stratify` gets wrong |

Assumptions are those of the modules (`ASSUME`): bounds are numbers, `Absent` is
no entity or graph, refreshes, writers, savers and the calls of the patch service
are finite, serializations distinct, no update, patch or term doubles as "none",
operations are functions of the graph, only nodes that query have a store, ground templates do not depend on
the store, rule sets are well formed (a head's variable is bound, a head that makes
a node has its rule run once), and terms and inputs are finite. TLC evaluates them
in every run.

*Cache.* `OwnWritesVisible` is not inductive: that the entity is in the cache now
says nothing of what a refresh in flight will put there. `IInv` adds, per refresh
(`RefreshOK`), that whatever it would still take into the cache shows every
acknowledged write of that id; per write in flight (`OpOK`), that no other is in
flight for its id and that the copies it holds show those writes; per id (`IdOK`),
that store and cache do; and that `inFlight` counts the running refreshes
(`CountInv`), so that the write numbers are dropped only when no refresh is left
to consult them. All of it for ids no two writes overlapped on. One lemma per conjunct, one step per
action. `FullInvariance` says more of the ids where nothing tainted happened: that
the cache, a refresh that would still be taken, and a write in flight have what the
store has, or an older state of it that a recorded write will keep out (a write
shuts out every refresh running when it is recorded, as none began later than it).
A deletion is recorded before the store acts, and refreshes begun in between are
what taints. An update's stamp is above the revision in the cache, and the store
keeps the newest, which is why a revision names one content.

*Derivation.* Between two operations the accumulated patch is the difference
between the original and the replayed store; within one, `Inv` says in addition
what the two loops have done so far. `DeletionLoop` and `InsertionLoop` are the
set algebra of the two passes, with the second copies as the exception: `recounted`
holds every quad on which patch and difference may disagree. That a patch of two
operations still goes forward right needs more. `Forward` says that nothing is put
back before the second operation, and that in the end a quad put back is added and
in the state the program has reached, or deleted and not in it. For what other
writers may do, an operation's answers are traced to the moment they were asked; a fork's to an earlier operation's
state. With blank nodes the same argument goes through for the quads without them.

*Blobs.* Every token held was issued and names the body it was read with
(`TokensIssued`, `WriterBuiltOn`, `CheckpointerBuiltOn`): a put that is accepted
therefore runs its update on the present body, which is what `SerialGraph`'s
`Land` says. `OvertakenSoFar` counts the changes each failed attempt has seen.

*Patches.* A record is the last step of its call (`Phases`), and nobody rewrites
what it says of the quads; so what a revert applies is the inverse of what was
recorded when it began (`Reverts`). Whoever marks a patch as reverted goes on to
record the inverse (`Marked`), and what is in the log is not applied again, unless
a step that `tainted` names did it (`StillMarked`). For the log, `LogInv` says that
an order and dates of landing exist (`Chronicle`) in which the patches made the
store what it is: a patch that lands goes last, and before it is dated nothing else
lands, so that dates follow the order; a revert lands after its target. What has
landed and is not recorded yet counts as well, with the effect its record will say
it had (`Landed`, `Effect`, `Steady`). `Chronicle` alone would not survive a step:
the record of a call appears several steps after its quads do. The other half is
about `PatchLog`. As no three patches share a timestamp, a revert waits for its
target only, and `Path` has one solution, of one or two positions (`RouteStep`,
`PathIsRoute`); hence `Before` is by time, puts a revert after its target, and
decides between any two (`BeforeOrders`). It can differ from the order of landing
only for two neighbours of one timestamp that do not undo each other: there the
caveat is given, or they have one content (`GuessesAreHarmless`), and as no patch
deletes what it adds (`Disjoint`) the last to name a quad says the same in both
orders.

*Stores.* A dump has what was written up to the count it was taken at; a checkpoint
that landed stands until another lands, so that a count recorded as saved is on
disk. The dumps of an invalidation or a shutdown end with the store dropped, after
which its count is of no use to anyone. A build that serves read the epoch it
serves at, and an announcement of a new head raises the epoch first.

*Versions.* Each save waits for one save at most, the one before it. `Line` says what
that is worth: whoever is past waiting has all saves before it settled, because a
save found no one to wait for only when all of them had. `SavesRunOneByOne` follows.
For the numbers, `Shown` says that with preload a stored version is in the cache but
for the insert under way (a deletion leaves the store first), and `Above` that the
number of a save that is not yet in both is above all others. `HighestVersion` is a
CHOOSE, so that a greatest number exists is a lemma of its own (`LeastExists`, from
the well-foundedness of the naturals). A second invariant, `Pointers`, is about
requests that do not overlap: a request that runs is alone, cache and store agree on
what it does not write itself, and the pointer dangles only between the deletion of
a version and the move that follows it.

*Runs.* `StoresAreTracked`: a store exists only while its run goes on, and the run is
going to destroy it; a node that was abandoned makes none. `LoadedIsOwn`: what is
loaded into a store is data of its run. `RInv` is about the loop: a node's count is
the number of edges it still waits for, and what has none left is in the queue or
has run (`Kahn`); the graph has no cycle, so an empty queue means that all nodes have
run. `Stored` and `Seeded` say that data which travel by a store are in it before
the node that reads them starts.

*Rules.* The layers never rise above any layers that fit, so where they settle they
are the least, and where they pass the number of the rules there are none; around a
bad cycle layers would have to rise for ever. What was seen of the data is below
what there is (`Grown`), so that a run never comes back to it. For the model there
are three facts, each with the layers as its reason. What a layer adds is not read
by a rule that has run for the last time, so such a rule still has nothing to add
(`Kept`, `StaysClosed`); a pass that added nothing shows the same of the rules of
its layer (`FixpointIsClosed`). And what a rule did not find under its NOT no later
layer will add, so that what it derives follows also when NOT is answered by the
result (`Sound`, `RuleFollows`). A run thus ends with a set that is closed and in which
nothing is superfluous. That the iteration `Consequences` arrives at that set is
an argument about a chain in a finite set (`ChainSettles`, `ModelIsConsequences`);
the inductions in it are by least counterexample, since the library's induction
theorems cannot be instantiated here.

Only model-checked: the liveness properties (`Converges`, `EveryCallLands`,
`EverySettledWriteIsSaved`, `EverySaveIsAnswered`, `EveryRunEnds`), which are out of
the prover's reach. Every other property of the passing runs is proved for all
values of the constants. The three runs that expect a
violation state what does not hold.

## Plan

What is left, the most valuable first.

1. `ResultCache` (quotas and expiry against a bag of entries) and the sessions of
   the assistant.
2. What the log still promises where more than two patches share a timestamp.

## Not modelled

* Result cache and assistant sessions: synchronous structures that tests reach;
  the next parts to model.
* Entity persistence, query compiler, rule language: text to text. What they
  promise is an actor, or an opaque function, of the modules above.
* ETL and DuckDB, client runtimes, tests and benchmarks: input and output, with
  little control of their own.
* Access control: decisions taken once per call on stored grants.
* Change feed: announces changes and keeps nothing others read.
* Routes, web client, MCP server, command line, contracts: adapters, a user
  interface, and generated declarations. They are most of the repository's lines.
