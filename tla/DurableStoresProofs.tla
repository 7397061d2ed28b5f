------------------------ MODULE DurableStoresProofs ------------------------
(***************************************************************************)
(* The in-process stores of a backend (DurableStores.tla): what the        *)
(* checkpoint loop skips is saved, checkpoints land in order, and a store  *)
(* that follows a head was of it, for any writers, savers and ticks.       *)
(***************************************************************************)
EXTENDS DurableStores, FiniteSetTheorems, TLAPS

-----------------------------------------------------------------------------
(***************************************************************************)
(* The inductive invariant.                                                *)
(***************************************************************************)

(* How often a store was written, and a backend invalidated. *)
Finished == {w \in Writers : pc[w] = "done"}
Announced == {v \in Savers : sav[v] \in {"saved", "edited"}}

CountsBounded == \A s \in Stores : count[s] <= Cardinality(Finished) + 1
EpochBounded == epoch + Cardinality(Announced) <= (versions - 1) + edits

(* Only stores that were built are named. *)
Named ==
    /\ durableStore <= made /\ memoryStore <= made /\ lastOf <= made
    /\ building = "built" => made # 0
    /\ \A w \in Writers : pc[w] = "holding" => handle[w] # 0
    /\ \A s \in Serializers : of[s] <= made /\ (ser[s] # "no" => of[s] # 0)

(* Who serializes: one tick at most, a saver that drops its store, shutdown. *)
Serializing ==
    /\ \A t \in Ticks : ser[t] # "no" => running
    /\ \A t, u \in Ticks : ser[t] # "no" /\ ser[u] # "no" => t = u
    /\ \A v \in Savers : ser[v] # "no" => sav[v] = "dropping" \/ stopping = "cleared"
    /\ ser[Shutdown] # "no" => stopping = "saving"
    /\ stopping = "cleared" => \A v \in Savers : sav[v] \in {"idle", "away"}

(* A dump is of the count it was taken at. *)
DumpsOfCounts ==
    \A s \in Serializers : ser[s] # "no" =>
        /\ at[s] <= count[of[s]]
        /\ at[s] = count[of[s]] => dump[s] = content[of[s]]

(* What a landed checkpoint wrote stands until another snapshot lands. *)
Stands ==
    \A t \in Ticks :
        ( /\ ser[t] = "landed" /\ of[t] = durableStore
          /\ \A s \in Serializers \ Ticks : ser[s] # "landed" )
        => disk = dump[t]

(* The recorded count is not ahead, and where it is level the file is too. *)
Recorded ==
    /\ lastOf # 0 => last <= count[lastOf]
    /\ ( /\ durableStore # 0 /\ lastOf = durableStore
         /\ last = count[durableStore]
         /\ \A s \in Serializers : ser[s] # "landed" )
       => disk = content[durableStore]

(* A persistent backend keeps its store until it shuts down, and the file  *)
(* never holds more than the store or than a dump that is yet to land.     *)
Persists ==
    kind = "persistent" =>
        /\ \A v \in Savers : sav[v] \in {"idle", "away"}
        /\ epoch = 0 /\ epochBefore = 0
        /\ building = "reading" => durableStore = 0
        /\ stopping = "no" =>
             /\ \A s \in Serializers : ser[s] # "no" => of[s] = durableStore /\ diskAt <= at[s]
             /\ lastOf \in {0, durableStore}
             /\ IF durableStore = 0 THEN diskAt = 0 ELSE diskAt <= count[durableStore]

(* A store is loaded from the head, and from one since the last save, or   *)
(* its build has been told of that save, or is about to be.                *)
Follows ==
    kind = "readOnly" =>
        /\ head \in recent
        /\ durableStore = 0 /\ epochBefore <= epoch
        /\ \A v \in Savers : sav[v] # "dropping"
        /\ building # "no" => tracking /\ memoryStore = 0
        /\ memoryStore # 0 => tracking
        /\ building = "built" /\ epoch = epochBefore =>
             content[made].seed \in recent \/ \E v \in Savers : sav[v] = "saved"

IInv ==
    /\ TypeOK /\ CountsBounded /\ EpochBounded /\ Named /\ Serializing
    /\ DumpsOfCounts /\ Stands /\ Recorded /\ Persists /\ Follows /\ FollowsHead

-----------------------------------------------------------------------------
(***************************************************************************)
(* Counting.                                                               *)
(***************************************************************************)

LEMMA Sizes ==
    /\ Cardinality(Writers) \in Nat /\ Cardinality(Savers) \in Nat
    /\ \A S : S \subseteq Writers => IsFiniteSet(S) /\ Cardinality(S) \in 0..Cardinality(Writers)
    /\ \A S : S \subseteq Savers => IsFiniteSet(S) /\ Cardinality(S) \in Nat
    /\ Cardinality({}) = 0
<1>1. \A S : S \subseteq Writers =>
          IsFiniteSet(S) /\ Cardinality(S) \in Nat /\ Cardinality(S) <= Cardinality(Writers)
    BY StoresAssumption, FS_Subset, FS_CardinalityType
<1>2. \A S : S \subseteq Savers => IsFiniteSet(S) /\ Cardinality(S) \in Nat
    BY StoresAssumption, FS_Subset, FS_CardinalityType
<1>3. Cardinality(Writers) \in Nat /\ Cardinality(Savers) \in Nat
    BY StoresAssumption, FS_CardinalityType
<1> QED
    BY <1>1, <1>2, <1>3, FS_EmptySet

(***************************************************************************)
(* What a build does to the stores: it adds one, or has yet to.            *)
(***************************************************************************)

Grows ==
    /\ content' \in [Stores -> Content]
    /\ count' \in [Stores -> 0..Cardinality(Writers) + 1]
    /\ \A s \in 1..made : content'[s] = content[s] /\ count'[s] = count[s]
    /\ \/ /\ building' = "reading" /\ kind # "readOnly"
          /\ UNCHANGED <<content, count, made, durableStore>>
       \/ /\ building' = "built"
          /\ made < MaxStores /\ made' = made + 1
          /\ \A s \in Stores \ {made'} : content'[s] = content[s] /\ count'[s] = count[s]
          /\ count'[made'] \in {0, 1}
          /\ durableStore' = IF kind = "readOnly" THEN durableStore ELSE made'
          /\ kind = "persistent" => count'[made'] = 0
          /\ kind = "readOnly" => content'[made'].seed = head

LEMMA FillGrows ==
    ASSUME TypeOK, Fill
    PROVE  Grows
<1>1. made + 1 \in Stores /\ made \in Nat
    BY StoresAssumption DEF Fill, TypeOK, StoreTypes, Stores
<1>2. Seed \in Content /\ (kind = "readOnly" => Seed.seed = head)
    BY StoresAssumption DEF Seed, Empty, Content, TypeOK, LimitTypes
<1>3. Restorable => disk \in Content /\ kind # "readOnly"
    BY DEF Restorable, TypeOK, StoreTypes
<1>4. {0, 1} \subseteq 0..Cardinality(Writers) + 1
    BY Sizes
<1>5. content' \in [Stores -> Content] /\ count' \in [Stores -> 0..Cardinality(Writers) + 1]
    BY <1>1, <1>2, <1>3, <1>4 DEF Fill, TypeOK, StoreTypes
<1>6. \A s \in Stores \ {made'} : content'[s] = content[s] /\ count'[s] = count[s]
    BY <1>1 DEF Fill, TypeOK, StoreTypes
<1>7. \A s \in 1..made : s \in Stores \ {made'}
    BY <1>1, StoresAssumption DEF Fill, Stores
<1>8. count'[made'] \in {0, 1} /\ (kind = "persistent" => count'[made'] = 0)
    BY <1>1 DEF Fill, TypeOK, StoreTypes
<1>9. kind = "readOnly" => content'[made'].seed = head
    BY <1>1, <1>2, <1>3 DEF Fill, TypeOK, StoreTypes
<1> QED
    BY <1>5, <1>6, <1>7, <1>8, <1>9 DEF Fill, Grows

LEMMA AttemptGrows ==
    ASSUME TypeOK, NEW n, BeginAttempt(n)
    PROVE  /\ Grows
           /\ attempt' = n /\ epochBefore' = epoch /\ tracking' = (kind # "persistent")
<1>1. CASE kind = "readOnly"
    BY <1>1, FillGrows DEF BeginAttempt
<1>2. CASE kind # "readOnly"
    BY <1>2 DEF BeginAttempt, Grows, stores, TypeOK, StoreTypes
<1> QED
    BY <1>1, <1>2

(* A store that nobody wrote is new, or holds what it held. *)
LEMMA CountsSame ==
    ASSUME CountsBounded,
           \A w \in Writers : pc'[w] = "done" <=> pc[w] = "done",
           \A s \in Stores : count'[s] = count[s] \/ count'[s] \in {0, 1}
    PROVE  CountsBounded'
<1>1. Finished' = Finished
    BY DEF Finished
<1>2. Cardinality(Finished) \in Nat
    BY Sizes DEF Finished
<1> QED
    BY <1>1, <1>2 DEF CountsBounded

LEMMA CountsKept ==
    ASSUME TypeOK, CountsBounded, Next
    PROVE  CountsBounded'
<1>1. CASE UNCHANGED <<pc, count>>
    BY <1>1 DEF CountsBounded, Finished
<1>2. ASSUME NEW t \in Ticks, Tick(t) \/ Checkpointed(t) \/ CheckpointFails(t)
       PROVE  UNCHANGED <<pc, count>>
    BY <1>2 DEF Tick, Checkpointed, CheckpointFails, stores, writing
<1>3. ASSUME NEW s \in Serializers, Land(s) \/ LandFails(s)
       PROVE  UNCHANGED <<pc, count>>
    BY <1>3 DEF Land, LandFails, stores, writing
<1>4. ASSUME NEW v \in Savers,
             \/ SaveVersion(v) \/ MoveHead(v) \/ EditBackend(v) \/ NotFollowed(v)
             \/ InvalidateUnbuilt(v) \/ InvalidateBuilt(v) \/ Drop(v)
       PROVE  UNCHANGED <<pc, count>>
    BY <1>4
       DEF SaveVersion, MoveHead, EditBackend, NotFollowed, InvalidateUnbuilt, InvalidateBuilt,
           Drop, stores, writing
<1>5. ASSUME NEW w \in Writers, Obtain(w)
       PROVE  CountsBounded'
    BY <1>5, CountsSame
       DEF Obtain, Current, stores, TypeOK, CallTypes
<1>6. ASSUME NEW w \in Writers, StartBuild(w)
       PROVE  CountsBounded'
    BY <1>6, CountsSame, AttemptGrows DEF StartBuild, Grows, TypeOK, CallTypes, Stores
<1>7. ASSUME NEW w \in Writers, Update(w)
       PROVE  CountsBounded'
  <2>1. w \in Writers /\ pc[w] = "holding" /\ pc' = [pc EXCEPT ![w] = "done"]
      BY <1>7 DEF Update
  <2>2. Finished' = Finished \cup {w} /\ w \notin Finished
      BY <2>1 DEF TypeOK, CallTypes, Finished
  <2>6. IsFiniteSet(Finished) /\ Cardinality(Finished) \in Nat
      BY Sizes DEF Finished
  <2>3. Cardinality(Finished') = Cardinality(Finished) + 1
      BY <2>2, <2>6, FS_AddElement
  <2>4. \A s \in Stores : count'[s] = count[s] \/ count'[s] = count[s] + 1
      BY <1>7 DEF Update, TypeOK, StoreTypes
  <2>5. \A s \in Stores : count[s] \in Int
      BY DEF TypeOK, StoreTypes
  <2> QED
      BY <2>3, <2>4, <2>5, <2>6 DEF CountsBounded
<1>8. ASSUME ReadSnapshot
       PROVE  CountsBounded'
    BY <1>8, CountsSame, FillGrows
       DEF ReadSnapshot, Grows, writing, TypeOK, CallTypes, Stores
<1>9. ASSUME Serve
       PROVE  CountsBounded'
    BY <1>9, CountsSame
       DEF Serve, stores, TypeOK, CallTypes
<1>10. ASSUME Rebuild
       PROVE  CountsBounded'
    BY <1>10, CountsSame, AttemptGrows
       DEF Rebuild, Grows, writing, TypeOK, CallTypes, Stores
<1>11. ASSUME ShutDown
       PROVE  CountsBounded'
    BY <1>11, CountsSame
       DEF ShutDown, CutOff, stores, writing, TypeOK, CallTypes
<1>12. ASSUME ClearStores
       PROVE  CountsBounded'
    BY <1>12, CountsSame
       DEF ClearStores, CutOff, stores, TypeOK, CallTypes
<1>13. ASSUME Crash
       PROVE  CountsBounded'
    BY <1>13, CountsSame
       DEF Crash, Boot, CutOff, TypeOK, CallTypes
<1>14. ASSUME Exit
       PROVE  CountsBounded'
    BY <1>14, CountsSame
       DEF Exit, Boot, CutOff, TypeOK, CallTypes
<1> QED
    BY <1>1, <1>2, <1>3, <1>4, <1>5, <1>6, <1>7, <1>8, <1>9, <1>10, <1>11, <1>12, <1>13,
       <1>14
       DEF Next

LEMMA EpochSame ==
    ASSUME EpochBounded, UNCHANGED <<epoch, versions, edits>>,
           \A v \in Savers : sav'[v] \in {"saved", "edited"} <=> sav[v] \in {"saved", "edited"}
    PROVE  EpochBounded'
<1>1. Announced' = Announced
    BY DEF Announced
<1> QED
    BY <1>1 DEF EpochBounded

(* A process that is cut off forgets what was announced. *)
LEMMA EpochCut ==
    ASSUME TypeOK, CutOff, UNCHANGED <<versions, edits>>
    PROVE  EpochBounded'
<1>1. Announced' = {}
    BY DEF CutOff, Announced
<1>2. versions \in Nat \ {0} /\ edits \in Nat
    BY StoresAssumption DEF TypeOK, LimitTypes
<1> QED
    BY <1>1, <1>2, Sizes DEF CutOff, EpochBounded

(* What is announced is announced once. *)
LEMMA EpochMoves ==
    ASSUME TypeOK, EpochBounded, NEW v \in Savers,
           \/ /\ sav[v] = "idle" /\ \E x \in {"saved", "edited"} : sav' = [sav EXCEPT ![v] = x]
              /\ epoch' = epoch
              /\ \/ versions' = versions + 1 /\ edits' = edits
                 \/ versions' = versions /\ edits' = edits + 1
           \/ /\ sav[v] \in {"saved", "edited"}
              /\ \E x \in {"idle", "dropping"} : sav' = [sav EXCEPT ![v] = x]
              /\ epoch' \in {epoch, epoch + 1} /\ UNCHANGED <<versions, edits>>
    PROVE  EpochBounded'
<1>0. /\ Cardinality(Announced) \in Nat /\ IsFiniteSet(Announced)
      /\ epoch \in Nat /\ versions \in Nat /\ edits \in Nat
    BY Sizes, StoresAssumption DEF Announced, TypeOK, BuildTypes, LimitTypes
<1>1. CASE sav[v] = "idle"
  <2>1. Announced' = Announced \cup {v} /\ v \notin Announced
      BY <1>1 DEF TypeOK, CallTypes, Announced
  <2>2. Cardinality(Announced') = Cardinality(Announced) + 1
      BY <1>0, <2>1, FS_AddElement
  <2>3. /\ epoch' = epoch
        /\ \/ versions' = versions + 1 /\ edits' = edits
           \/ versions' = versions /\ edits' = edits + 1
      BY <1>1
  <2>4. (versions' - 1) + edits' = (versions - 1) + edits + 1
      BY <1>0, <2>3
  <2> QED
      BY <1>0, <2>2, <2>3, <2>4 DEF EpochBounded
<1>2. CASE sav[v] \in {"saved", "edited"}
  <2>1. Announced' = Announced \ {v} /\ v \in Announced
      BY <1>2 DEF TypeOK, CallTypes, Announced
  <2>2. Cardinality(Announced') = Cardinality(Announced) - 1
      BY <1>0, <2>1, FS_RemoveElement
  <2>3. epoch' <= epoch + 1 /\ UNCHANGED <<versions, edits>>
      BY <1>0, <1>2
  <2> QED
      BY <1>0, <2>2, <2>3 DEF EpochBounded
<1> QED
    BY <1>1, <1>2

LEMMA EpochKept ==
    ASSUME TypeOK, EpochBounded, Next
    PROVE  EpochBounded'
<1>1. CASE UNCHANGED <<epoch, versions, edits, sav>>
    BY <1>1 DEF EpochBounded, Announced
<1>2. ASSUME NEW w \in Writers, Obtain(w) \/ StartBuild(w) \/ Update(w)
       PROVE  UNCHANGED <<epoch, versions, edits, sav>>
    BY <1>2 DEF Obtain, StartBuild, Update, graph, bounds
<1>3. ASSUME ReadSnapshot \/ Serve \/ Rebuild
       PROVE  UNCHANGED <<epoch, versions, edits, sav>>
    BY <1>3 DEF ReadSnapshot, Serve, Rebuild, graph, bounds
<1>4. ASSUME NEW t \in Ticks, Tick(t) \/ Checkpointed(t) \/ CheckpointFails(t)
       PROVE  UNCHANGED <<epoch, versions, edits, sav>>
    BY <1>4 DEF Tick, Checkpointed, CheckpointFails, graph, bounds
<1>5. ASSUME NEW s \in Serializers, Land(s) \/ LandFails(s)
       PROVE  UNCHANGED <<epoch, versions, edits, sav>>
    BY <1>5 DEF Land, LandFails, graph, bounds
<1>16. ASSUME NEW v \in Savers, MoveHead(v)
       PROVE  UNCHANGED <<epoch, versions, edits, sav>>
    BY <1>16 DEF MoveHead
<1>6. ASSUME NEW v \in Savers, SaveVersion(v)
       PROVE  EpochBounded'
    BY <1>6, EpochMoves, StoresAssumption DEF SaveVersion, graph, bounds, TypeOK, LimitTypes
<1>7. ASSUME NEW v \in Savers, EditBackend(v)
       PROVE  EpochBounded'
    BY <1>7, EpochMoves, StoresAssumption DEF EditBackend, graph, TypeOK, LimitTypes
<1>8. ASSUME NEW v \in Savers, NotFollowed(v)
       PROVE  EpochBounded'
    BY <1>8, EpochMoves DEF NotFollowed, graph, bounds
<1>9. ASSUME NEW v \in Savers, InvalidateUnbuilt(v)
       PROVE  EpochBounded'
    BY <1>9, EpochMoves DEF InvalidateUnbuilt, Reaches, graph, bounds
<1>10. ASSUME NEW v \in Savers, InvalidateBuilt(v)
       PROVE  EpochBounded'
    BY <1>10, EpochMoves DEF InvalidateBuilt, Reaches, graph, bounds
<1>11. ASSUME NEW v \in Savers, Drop(v)
       PROVE  EpochBounded'
    BY <1>11, EpochSame
       DEF Drop, graph, bounds, TypeOK, CallTypes
<1>12. ASSUME ShutDown
       PROVE  EpochBounded'
  <2>1. CASE durableStore # 0
      BY <1>12, <2>1, EpochSame DEF ShutDown, graph, bounds
  <2>2. CASE durableStore = 0
      BY <1>12, <2>2, EpochCut DEF ShutDown, graph, bounds
  <2> QED
      BY <2>1, <2>2
<1>13. ASSUME ClearStores
       PROVE  EpochBounded'
    BY <1>13, EpochCut DEF ClearStores, graph, bounds
<1>14. ASSUME Crash
       PROVE  EpochBounded'
    BY <1>14, EpochCut DEF Crash, Boot, graph
<1>15. ASSUME Exit
       PROVE  EpochBounded'
    BY <1>15, EpochCut DEF Exit, Boot, graph
<1> QED
    BY <1>1, <1>2, <1>3, <1>4, <1>5, <1>6, <1>7, <1>8, <1>9, <1>10, <1>11, <1>12, <1>13,
       <1>14, <1>15, <1>16
       DEF Next

-----------------------------------------------------------------------------
(***************************************************************************)
(* Types.                                                                  *)
(***************************************************************************)

LEMMA LimitTypesKept ==
    ASSUME LimitTypes, Next
    PROVE  LimitTypes'
<1>1. CASE UNCHANGED <<kind, head, versions, recent, stopping, failures, moves, edits, lives>>
    BY <1>1 DEF LimitTypes
<1>2. ASSUME NEW w \in Writers, Obtain(w) \/ StartBuild(w) \/ Update(w)
       PROVE  UNCHANGED <<kind, head, versions, recent, stopping, failures, moves, edits, lives>>
    BY <1>2 DEF Obtain, StartBuild, Update, graph, bounds
<1>3. ASSUME ReadSnapshot \/ Serve \/ Rebuild
       PROVE  UNCHANGED <<kind, head, versions, recent, stopping, failures, moves, edits, lives>>
    BY <1>3 DEF ReadSnapshot, Serve, Rebuild, graph, bounds
<1>4. ASSUME NEW t \in Ticks, Tick(t) \/ Checkpointed(t) \/ CheckpointFails(t)
       PROVE  UNCHANGED <<kind, head, versions, recent, stopping, failures, moves, edits, lives>>
    BY <1>4 DEF Tick, Checkpointed, CheckpointFails, graph, bounds
<1>5. ASSUME NEW s \in Serializers, Land(s)
       PROVE  UNCHANGED <<kind, head, versions, recent, stopping, failures, moves, edits, lives>>
    BY <1>5 DEF Land, graph, bounds
<1>6. ASSUME NEW v \in Savers,
             \/ NotFollowed(v) \/ InvalidateUnbuilt(v) \/ InvalidateBuilt(v) \/ Drop(v)
       PROVE  UNCHANGED <<kind, head, versions, recent, stopping, failures, moves, edits, lives>>
    BY <1>6 DEF NotFollowed, InvalidateUnbuilt, InvalidateBuilt, Drop, graph, bounds
<1>7. ASSUME NEW s \in Serializers, LandFails(s)
       PROVE  LimitTypes'
    BY <1>7, StoresAssumption
       DEF LandFails, graph, LimitTypes
<1>8. ASSUME NEW v \in Savers, SaveVersion(v)
       PROVE  LimitTypes'
    BY <1>8, StoresAssumption
       DEF SaveVersion, graph, bounds, LimitTypes
<1>16. ASSUME NEW v \in Savers, MoveHead(v)
       PROVE  LimitTypes'
    BY <1>16, StoresAssumption DEF MoveHead, LimitTypes
<1>9. ASSUME NEW v \in Savers, EditBackend(v)
       PROVE  LimitTypes'
    BY <1>9, StoresAssumption
       DEF EditBackend, graph, LimitTypes
<1>10. ASSUME ShutDown
       PROVE  LimitTypes'
    BY <1>10, StoresAssumption
       DEF ShutDown, graph, bounds, LimitTypes
<1>11. ASSUME ClearStores
       PROVE  LimitTypes'
    BY <1>11, StoresAssumption
       DEF ClearStores, graph, bounds, LimitTypes
<1>12. ASSUME Crash
       PROVE  LimitTypes'
    BY <1>12, StoresAssumption
       DEF Crash, Boot, graph, LimitTypes
<1>13. ASSUME Exit
       PROVE  LimitTypes'
    BY <1>13, StoresAssumption
       DEF Exit, Boot, graph, LimitTypes
<1> QED
    BY <1>1, <1>2, <1>3, <1>4, <1>5, <1>6, <1>7, <1>8, <1>9, <1>10, <1>11, <1>12, <1>13, <1>16
       DEF Next

LEMMA StoreTypesKept ==
    ASSUME TypeOK, Named, CountsBounded', Next
    PROVE  StoreTypes'
<1>1. CASE UNCHANGED <<disk, diskAt, content, count, made>>
    BY <1>1 DEF TypeOK, StoreTypes, Stores, Content
<1>2. ASSUME NEW w \in Writers, Obtain(w)
       PROVE  UNCHANGED <<disk, diskAt, content, count, made>>
    BY <1>2 DEF Obtain, disks, stores
<1>3. ASSUME Serve \/ ShutDown \/ ClearStores
       PROVE  UNCHANGED <<disk, diskAt, content, count, made>>
    BY <1>3 DEF Serve, ShutDown, ClearStores, disks, stores
<1>4. ASSUME NEW t \in Ticks, Tick(t) \/ Checkpointed(t) \/ CheckpointFails(t)
       PROVE  UNCHANGED <<disk, diskAt, content, count, made>>
    BY <1>4 DEF Tick, Checkpointed, CheckpointFails, disks, stores
<1>5. ASSUME NEW s \in Serializers, LandFails(s)
       PROVE  UNCHANGED <<disk, diskAt, content, count, made>>
    BY <1>5 DEF LandFails, disks, stores
<1>6. ASSUME NEW v \in Savers,
             \/ SaveVersion(v) \/ MoveHead(v) \/ EditBackend(v) \/ NotFollowed(v)
             \/ InvalidateUnbuilt(v) \/ InvalidateBuilt(v) \/ Drop(v)
       PROVE  UNCHANGED <<disk, diskAt, content, count, made>>
    BY <1>6
       DEF SaveVersion, MoveHead, EditBackend, NotFollowed, InvalidateUnbuilt, InvalidateBuilt,
           Drop, disks, stores
<1>7. ASSUME NEW w \in Writers, StartBuild(w)
       PROVE  StoreTypes'
    BY <1>7, AttemptGrows, StoresAssumption DEF StartBuild, Grows, disks, TypeOK, StoreTypes
<1>8. ASSUME NEW w \in Writers, Update(w)
       PROVE  StoreTypes'
  <2>1. CASE kind = "readOnly"
      BY <1>8, <2>1 DEF Update, disks, TypeOK, StoreTypes
  <2>2. CASE kind # "readOnly"
    <3>1. handle[w] \in Stores
        BY <1>8, StoresAssumption DEF Update, Named, TypeOK, CallTypes, Stores
    <3>2. content' \in [Stores -> Content]
        BY <1>8, <2>2, <3>1 DEF Update, Empty, TypeOK, StoreTypes, Content
    <3>3. \A s \in Stores : count'[s] <= Cardinality(Finished') + 1
        BY DEF CountsBounded
    <3>4. Cardinality(Finished') \in 0..Cardinality(Writers)
        BY Sizes DEF Finished
    <3>5. DOMAIN count' = Stores /\ count' = [s \in Stores |-> count'[s]]
          /\ \A s \in Stores : count'[s] \in Nat
        BY <1>8, <2>2 DEF Update, TypeOK, StoreTypes
    <3>6. \A s \in Stores : count'[s] \in 0..Cardinality(Writers) + 1
        BY <3>3, <3>4, <3>5, Sizes
    <3>7. count' \in [Stores -> 0..Cardinality(Writers) + 1]
        BY <3>5, <3>6
    <3> QED
        BY <1>8, <3>2, <3>7 DEF Update, disks, TypeOK, StoreTypes
  <2> QED
      BY <2>1, <2>2
<1>9. ASSUME ReadSnapshot
       PROVE  StoreTypes'
    BY <1>9, FillGrows, StoresAssumption DEF ReadSnapshot, Grows, disks, TypeOK, StoreTypes
<1>10. ASSUME Rebuild
       PROVE  StoreTypes'
    BY <1>10, AttemptGrows, StoresAssumption DEF Rebuild, Grows, disks, TypeOK, StoreTypes
<1>11. ASSUME NEW s \in Serializers, Land(s)
       PROVE  StoreTypes'
    BY <1>11 DEF Land, stores, TypeOK, StoreTypes, SerialTypes
<1>12. ASSUME Crash
       PROVE  StoreTypes'
    BY <1>12, Sizes, StoresAssumption DEF Crash, Boot, Empty, TypeOK, StoreTypes, Content
<1>13. ASSUME Exit
       PROVE  StoreTypes'
    BY <1>13, Sizes, StoresAssumption DEF Exit, Boot, Empty, TypeOK, StoreTypes, Content
<1> QED
    BY <1>1, <1>2, <1>3, <1>4, <1>5, <1>6, <1>7, <1>8, <1>9, <1>10, <1>11, <1>12, <1>13
       DEF Next

LEMMA Forgets ==
    ASSUME Forget
    PROVE  /\ memoryStore' \in 0..MaxStores /\ lastOf' \in 0..MaxStores
           /\ last' \in -1..Cardinality(Writers) + 1
           /\ tracking' \in BOOLEAN /\ behind' \in BOOLEAN
<1>1. last' \in -1..Cardinality(Writers) + 1
    BY Sizes DEF Forget
<1>2. 0 \in 0..MaxStores
    BY StoresAssumption
<1> QED
    BY <1>1, <1>2 DEF Forget

LEMMA CountsAreNumbers == Cardinality(Writers) + 1 \in Nat
BY Sizes

LEMMA RegistryTypesKept ==
    ASSUME TypeOK, Next
    PROVE  RegistryTypes'
<1>1. CASE UNCHANGED <<durableStore, memoryStore, lastOf, last, tracking, running, behind>>
    BY <1>1 DEF TypeOK, RegistryTypes
<1>2. ASSUME NEW w \in Writers, Obtain(w) \/ Update(w)
       PROVE  UNCHANGED <<durableStore, memoryStore, lastOf, last, tracking, running,
                          behind>>
    BY <1>2 DEF Obtain, Update, registry
<1>3. ASSUME NEW s \in Serializers, Land(s) \/ LandFails(s)
       PROVE  UNCHANGED <<durableStore, memoryStore, lastOf, last, tracking, running,
                          behind>>
    BY <1>3 DEF Land, LandFails, registry
<1>4. ASSUME NEW v \in Savers,
             \/ SaveVersion(v) \/ MoveHead(v) \/ EditBackend(v) \/ NotFollowed(v)
             \/ InvalidateUnbuilt(v)
       PROVE  UNCHANGED <<durableStore, memoryStore, lastOf, last, tracking, running,
                          behind>>
    BY <1>4 DEF SaveVersion, MoveHead, EditBackend, NotFollowed, InvalidateUnbuilt, registry
<1>5. ASSUME NEW w \in Writers, StartBuild(w)
       PROVE  RegistryTypes'
  <2>1. tracking' \in BOOLEAN
      BY <1>5, AttemptGrows DEF StartBuild
  <2>2. durableStore' \in 0..MaxStores
      BY <1>5, AttemptGrows, StoresAssumption
         DEF StartBuild, Grows, TypeOK, StoreTypes, RegistryTypes
  <2> QED
      BY <1>5, <2>1, <2>2 DEF StartBuild, TypeOK, RegistryTypes
<1>6. ASSUME ReadSnapshot
       PROVE  RegistryTypes'
    BY <1>6, FillGrows, StoresAssumption
       DEF ReadSnapshot, Grows, TypeOK, StoreTypes, RegistryTypes
<1>7. ASSUME Serve
       PROVE  RegistryTypes'
    BY <1>7, StoresAssumption DEF Serve, TypeOK, StoreTypes, RegistryTypes
<1>8. ASSUME Rebuild
       PROVE  RegistryTypes'
  <2>1. tracking' \in BOOLEAN
      BY <1>8, AttemptGrows DEF Rebuild
  <2>2. durableStore' \in 0..MaxStores
      BY <1>8, AttemptGrows, StoresAssumption
         DEF Rebuild, Grows, TypeOK, StoreTypes, RegistryTypes
  <2> QED
      BY <1>8, <2>1, <2>2 DEF Rebuild, TypeOK, RegistryTypes
<1>9. ASSUME NEW t \in Ticks, Tick(t)
       PROVE  RegistryTypes'
    BY <1>9 DEF Tick, registry, TypeOK, RegistryTypes
<1>10. ASSUME NEW t \in Ticks, Checkpointed(t)
       PROVE  RegistryTypes'
  <2>1. at[t] \in 0..Cardinality(Writers) + 1 /\ of[t] \in 0..MaxStores
      BY DEF TypeOK, SerialTypes, Serializers
  <2>2. at[t] \in -1..Cardinality(Writers) + 1
      BY <2>1, Sizes
  <2> QED
      BY <1>10, <2>1, <2>2 DEF Checkpointed, TypeOK, RegistryTypes
<1>11. ASSUME NEW t \in Ticks, CheckpointFails(t)
       PROVE  RegistryTypes'
    BY <1>11 DEF CheckpointFails, registry, TypeOK, RegistryTypes
<1>12. ASSUME NEW v \in Savers, InvalidateBuilt(v)
       PROVE  RegistryTypes'
    BY <1>12, Forgets, StoresAssumption DEF InvalidateBuilt, registry, TypeOK, RegistryTypes
<1>13. ASSUME NEW v \in Savers, Drop(v)
       PROVE  RegistryTypes'
    BY <1>13, Forgets, StoresAssumption DEF Drop, TypeOK, RegistryTypes
<1>14. ASSUME ShutDown
       PROVE  RegistryTypes'
    BY <1>14, Forgets, StoresAssumption
       DEF ShutDown, CutOff, registry, TypeOK, RegistryTypes
<1>15. ASSUME ClearStores
       PROVE  RegistryTypes'
    BY <1>15, Forgets, StoresAssumption DEF ClearStores, CutOff, TypeOK, RegistryTypes
<1>16. ASSUME Crash
       PROVE  RegistryTypes'
  <2>1. Forget /\ durableStore' = 0 /\ running' = FALSE
      BY <1>16 DEF Crash, Boot, CutOff
  <2>2. 0 \in 0..MaxStores
      BY StoresAssumption
  <2> QED
      BY <2>1, <2>2, Forgets DEF RegistryTypes
<1>17. ASSUME Exit
       PROVE  RegistryTypes'
  <2>1. Forget /\ durableStore' = 0 /\ running' = FALSE
      BY <1>17 DEF Exit, Boot, CutOff
  <2>2. 0 \in 0..MaxStores
      BY StoresAssumption
  <2> QED
      BY <2>1, <2>2, Forgets DEF RegistryTypes
<1> QED
    BY <1>1, <1>2, <1>3, <1>4, <1>5, <1>6, <1>7, <1>8, <1>9, <1>10, <1>11, <1>12, <1>13,
       <1>14, <1>15, <1>16, <1>17
       DEF Next

(* A backend is not invalidated more often than it was saved or edited. *)
LEMMA EpochFits ==
    ASSUME TypeOK, LimitTypes', EpochBounded', epoch' = epoch + 1, UNCHANGED kind
    PROVE  epoch' \in 0..MaxSaves[kind] + MaxEdits
<1>1. Cardinality(Announced') \in Nat
    BY Sizes DEF Announced
<1>2. MaxSaves[kind] \in Nat /\ MaxEdits \in Nat
    BY StoresAssumption DEF TypeOK, LimitTypes
<1>3. versions' \in 1..MaxSaves[kind] + 1 /\ edits' \in 0..MaxEdits /\ epoch' \in Nat
    BY DEF TypeOK, LimitTypes, BuildTypes
<1> QED
    BY <1>1, <1>2, <1>3 DEF EpochBounded

LEMMA BuildTypesKept ==
    ASSUME TypeOK, LimitTypes', EpochBounded', Next
    PROVE  BuildTypes'
<1>1. CASE UNCHANGED <<kind, epoch, epochBefore, building, attempt>>
    BY <1>1 DEF TypeOK, BuildTypes
<1>2. ASSUME NEW w \in Writers, Obtain(w) \/ Update(w)
       PROVE  UNCHANGED <<kind, epoch, epochBefore, building, attempt>>
    BY <1>2 DEF Obtain, Update, build
<1>3. ASSUME NEW t \in Ticks, Tick(t) \/ Checkpointed(t) \/ CheckpointFails(t)
       PROVE  UNCHANGED <<kind, epoch, epochBefore, building, attempt>>
    BY <1>3 DEF Tick, Checkpointed, CheckpointFails, build
<1>4. ASSUME NEW s \in Serializers, Land(s) \/ LandFails(s)
       PROVE  UNCHANGED <<kind, epoch, epochBefore, building, attempt>>
    BY <1>4 DEF Land, LandFails, build
<1>5. ASSUME NEW v \in Savers, SaveVersion(v) \/ MoveHead(v) \/ EditBackend(v) \/ NotFollowed(v) \/ Drop(v)
       PROVE  UNCHANGED <<kind, epoch, epochBefore, building, attempt>>
    BY <1>5 DEF SaveVersion, MoveHead, EditBackend, NotFollowed, Drop, build
<1>6. ASSUME NEW w \in Writers, StartBuild(w)
       PROVE  BuildTypes'
    BY <1>6, AttemptGrows DEF StartBuild, Grows, TypeOK, BuildTypes, MaxAttempts
<1>7. ASSUME ReadSnapshot
       PROVE  BuildTypes'
    BY <1>7, FillGrows DEF ReadSnapshot, Grows, TypeOK, BuildTypes
<1>8. ASSUME Serve
       PROVE  BuildTypes'
    BY <1>8 DEF Serve, TypeOK, BuildTypes
<1>9. ASSUME Rebuild
       PROVE  BuildTypes'
    BY <1>9, AttemptGrows DEF Rebuild, Grows, TypeOK, BuildTypes, MaxAttempts
<1>10. ASSUME NEW v \in Savers, InvalidateUnbuilt(v)
       PROVE  BuildTypes'
    BY <1>10, EpochFits DEF InvalidateUnbuilt, build, TypeOK, BuildTypes
<1>11. ASSUME NEW v \in Savers, InvalidateBuilt(v)
       PROVE  BuildTypes'
    BY <1>11, EpochFits DEF InvalidateBuilt, build, TypeOK, BuildTypes
<1>12. ASSUME ShutDown
       PROVE  BuildTypes'
    BY <1>12, StoresAssumption
       DEF ShutDown, build, CutOff, TypeOK, BuildTypes, LimitTypes, MaxAttempts
<1>13. ASSUME ClearStores
       PROVE  BuildTypes'
    BY <1>13, StoresAssumption
       DEF ClearStores, CutOff, TypeOK, BuildTypes, LimitTypes, MaxAttempts
<1>14. ASSUME Crash
       PROVE  BuildTypes'
    BY <1>14, StoresAssumption
       DEF Crash, Boot, CutOff, TypeOK, BuildTypes, LimitTypes, MaxAttempts
<1>15. ASSUME Exit
       PROVE  BuildTypes'
    BY <1>15, StoresAssumption
       DEF Exit, Boot, CutOff, TypeOK, BuildTypes, LimitTypes, MaxAttempts
<1> QED
    BY <1>1, <1>2, <1>3, <1>4, <1>5, <1>6, <1>7, <1>8, <1>9, <1>10, <1>11, <1>12, <1>13,
       <1>14, <1>15
       DEF Next

LEMMA CallTypesKept ==
    ASSUME TypeOK, Next
    PROVE  CallTypes'
<1>1. CASE UNCHANGED <<pc, handle, sav>>
    BY <1>1 DEF TypeOK, CallTypes
<1>2. ASSUME ReadSnapshot \/ Rebuild
       PROVE  UNCHANGED <<pc, handle, sav>>
    BY <1>2 DEF ReadSnapshot, Rebuild, writing
<1>3. ASSUME NEW t \in Ticks, Tick(t) \/ Checkpointed(t) \/ CheckpointFails(t)
       PROVE  UNCHANGED <<pc, handle, sav>>
    BY <1>3 DEF Tick, Checkpointed, CheckpointFails, writing
<1>4. ASSUME NEW s \in Serializers, Land(s) \/ LandFails(s)
       PROVE  UNCHANGED <<pc, handle, sav>>
    BY <1>4 DEF Land, LandFails, writing
<1>5. ASSUME NEW w \in Writers, Obtain(w)
       PROVE  CallTypes'
    BY <1>5 DEF Obtain, Current, TypeOK, CallTypes, RegistryTypes
<1>6. ASSUME NEW w \in Writers, StartBuild(w)
       PROVE  CallTypes'
    BY <1>6 DEF StartBuild, TypeOK, CallTypes
<1>7. ASSUME NEW w \in Writers, Update(w)
       PROVE  CallTypes'
    BY <1>7, StoresAssumption DEF Update, TypeOK, CallTypes
<1>8. ASSUME Serve
       PROVE  CallTypes'
    BY <1>8 DEF Serve, TypeOK, CallTypes, StoreTypes
<1>9. ASSUME NEW v \in Savers, SaveVersion(v)
       PROVE  CallTypes'
    BY <1>9 DEF SaveVersion, writing, TypeOK, CallTypes
<1>20. ASSUME NEW v \in Savers, MoveHead(v)
       PROVE  CallTypes'
    BY <1>20 DEF MoveHead, writing, TypeOK, CallTypes
<1>10. ASSUME NEW v \in Savers, EditBackend(v)
       PROVE  CallTypes'
    BY <1>10 DEF EditBackend, writing, TypeOK, CallTypes
<1>11. ASSUME NEW v \in Savers, NotFollowed(v)
       PROVE  CallTypes'
    BY <1>11 DEF NotFollowed, writing, TypeOK, CallTypes
<1>12. ASSUME NEW v \in Savers, InvalidateUnbuilt(v)
       PROVE  CallTypes'
    BY <1>12 DEF InvalidateUnbuilt, writing, TypeOK, CallTypes
<1>13. ASSUME NEW v \in Savers, InvalidateBuilt(v)
       PROVE  CallTypes'
    BY <1>13 DEF InvalidateBuilt, writing, TypeOK, CallTypes
<1>14. ASSUME NEW v \in Savers, Drop(v)
       PROVE  CallTypes'
    BY <1>14 DEF Drop, writing, TypeOK, CallTypes
<1>15. ASSUME ShutDown
       PROVE  CallTypes'
    BY <1>15, StoresAssumption DEF ShutDown, writing, CutOff, TypeOK, CallTypes
<1>16. ASSUME ClearStores
       PROVE  CallTypes'
    BY <1>16, StoresAssumption DEF ClearStores, CutOff, TypeOK, CallTypes
<1>17. ASSUME Crash
       PROVE  CallTypes'
    BY <1>17, StoresAssumption DEF Crash, Boot, CutOff, TypeOK, CallTypes
<1>18. ASSUME Exit
       PROVE  CallTypes'
    BY <1>18, StoresAssumption DEF Exit, Boot, CutOff, TypeOK, CallTypes
<1> QED
    BY <1>1, <1>2, <1>3, <1>4, <1>5, <1>6, <1>7, <1>8, <1>9, <1>10, <1>11, <1>12, <1>13,
       <1>14, <1>15, <1>16, <1>17, <1>18, <1>20
       DEF Next

LEMMA DumpTakes ==
    ASSUME TypeOK, NEW s \in Serializers, Dump(s), durableStore # 0
    PROVE  SerialTypes'
<1>1. durableStore \in Stores
    BY StoresAssumption DEF TypeOK, RegistryTypes, Stores
<1> QED
    BY <1>1 DEF Dump, TypeOK, RegistryTypes, StoreTypes, SerialTypes

LEMMA Returns ==
    ASSUME TypeOK, NEW s \in Serializers, Return(s)
    PROVE  SerialTypes'
BY Sizes, StoresAssumption DEF Return, Empty, Content, TypeOK, SerialTypes

LEMMA SerialTypesKept ==
    ASSUME TypeOK, Next
    PROVE  SerialTypes'
<1>1. CASE UNCHANGED <<ser, dump, at, of>>
    BY <1>1 DEF TypeOK, SerialTypes
<1>2. ASSUME NEW w \in Writers, Obtain(w) \/ StartBuild(w) \/ Update(w)
       PROVE  UNCHANGED <<ser, dump, at, of>>
    BY <1>2 DEF Obtain, StartBuild, Update, serial
<1>3. ASSUME ReadSnapshot \/ Serve \/ Rebuild
       PROVE  UNCHANGED <<ser, dump, at, of>>
    BY <1>3 DEF ReadSnapshot, Serve, Rebuild, serial
<1>4. ASSUME NEW v \in Savers,
             \/ SaveVersion(v) \/ MoveHead(v) \/ EditBackend(v) \/ NotFollowed(v)
             \/ InvalidateUnbuilt(v)
       PROVE  UNCHANGED <<ser, dump, at, of>>
    BY <1>4 DEF SaveVersion, MoveHead, EditBackend, NotFollowed, InvalidateUnbuilt, serial
<1>5. ASSUME NEW t \in Ticks, Tick(t)
       PROVE  SerialTypes'
    BY <1>5, DumpTakes DEF Tick, Serializers
<1>6. ASSUME NEW t \in Ticks, Checkpointed(t)
       PROVE  SerialTypes'
    BY <1>6, Returns DEF Checkpointed, Serializers
<1>7. ASSUME NEW t \in Ticks, CheckpointFails(t)
       PROVE  SerialTypes'
    BY <1>7, Returns DEF CheckpointFails, Serializers
<1>8. ASSUME NEW s \in Serializers, Land(s)
       PROVE  SerialTypes'
    BY <1>8 DEF Land, TypeOK, SerialTypes
<1>9. ASSUME NEW s \in Serializers, LandFails(s)
       PROVE  SerialTypes'
    BY <1>9 DEF LandFails, TypeOK, SerialTypes
<1>10. ASSUME NEW v \in Savers, InvalidateBuilt(v)
       PROVE  SerialTypes'
    BY <1>10, DumpTakes DEF InvalidateBuilt, serial, Serializers, TypeOK, SerialTypes
<1>11. ASSUME NEW v \in Savers, Drop(v)
       PROVE  SerialTypes'
    BY <1>11, Returns DEF Drop, Serializers
<1>12. ASSUME ShutDown
       PROVE  SerialTypes'
    BY <1>12, DumpTakes DEF ShutDown, serial, Serializers, TypeOK, SerialTypes
<1>13. ASSUME ClearStores
       PROVE  SerialTypes'
    BY <1>13, Returns DEF ClearStores, Serializers
<1>14. ASSUME Crash
       PROVE  SerialTypes'
    BY <1>14, Sizes, StoresAssumption DEF Crash, Boot, Empty, TypeOK, SerialTypes, Content
<1>15. ASSUME Exit
       PROVE  SerialTypes'
    BY <1>15, Sizes, StoresAssumption DEF Exit, Boot, Empty, TypeOK, SerialTypes, Content
<1> QED
    BY <1>1, <1>2, <1>3, <1>4, <1>5, <1>6, <1>7, <1>8, <1>9, <1>10, <1>11, <1>12, <1>13,
       <1>14, <1>15
       DEF Next

LEMMA TypesKept ==
    ASSUME TypeOK, CountsBounded, EpochBounded, Named, Next
    PROVE  TypeOK' /\ CountsBounded' /\ EpochBounded'
<1>1. CountsBounded' /\ EpochBounded'
    BY CountsKept, EpochKept
<1>2. LimitTypes'
    BY LimitTypesKept DEF TypeOK
<1> QED
    BY <1>1, <1>2, StoreTypesKept, RegistryTypesKept, BuildTypesKept, CallTypesKept,
       SerialTypesKept
       DEF TypeOK

-----------------------------------------------------------------------------
(***************************************************************************)
(* The other parts of the invariant, one action at a time.                 *)
(***************************************************************************)

LEMMA NamedKept ==
    ASSUME TypeOK, Named, Next
    PROVE  Named'
<1>1. CASE UNCHANGED <<made, durableStore, memoryStore, lastOf, building, pc, handle, ser,
                       of>>
    BY <1>1 DEF Named
<1>2. ASSUME NEW v \in Savers,
             \/ SaveVersion(v) \/ MoveHead(v) \/ EditBackend(v) \/ NotFollowed(v)
             \/ InvalidateUnbuilt(v)
       PROVE  UNCHANGED <<made, durableStore, memoryStore, lastOf, building, pc, handle,
                          ser, of>>
    BY <1>2
       DEF SaveVersion, MoveHead, EditBackend, NotFollowed, InvalidateUnbuilt, stores, registry,
           build, writing, serial
<1>3. ASSUME NEW w \in Writers, Obtain(w)
       PROVE  Named'
    BY <1>3
       DEF Obtain, Current, stores, registry, build, serial, TypeOK, StoreTypes,
           RegistryTypes, CallTypes, SerialTypes, Named
<1>4. ASSUME NEW w \in Writers, StartBuild(w)
       PROVE  Named'
    BY <1>4, AttemptGrows
       DEF StartBuild, Grows, serial, TypeOK, StoreTypes, RegistryTypes, CallTypes,
           SerialTypes, Named
<1>5. ASSUME NEW w \in Writers, Update(w)
       PROVE  Named'
    BY <1>5
       DEF Update, registry, build, serial, TypeOK, StoreTypes, RegistryTypes, CallTypes,
           SerialTypes, Named
<1>6. ASSUME ReadSnapshot
       PROVE  Named'
    BY <1>6, FillGrows
       DEF ReadSnapshot, Grows, writing, serial, TypeOK, StoreTypes, RegistryTypes,
           CallTypes, SerialTypes, Named
<1>7. ASSUME Serve
       PROVE  Named'
    BY <1>7
       DEF Serve, stores, serial, TypeOK, StoreTypes, RegistryTypes, CallTypes,
           SerialTypes, Named
<1>8. ASSUME Rebuild
       PROVE  Named'
    BY <1>8, AttemptGrows
       DEF Rebuild, Grows, writing, serial, TypeOK, StoreTypes, RegistryTypes, CallTypes,
           SerialTypes, Named
<1>9. ASSUME NEW t \in Ticks, Tick(t)
       PROVE  Named'
    BY <1>9
       DEF Tick, Dump, stores, registry, build, writing, TypeOK, StoreTypes,
           RegistryTypes, CallTypes, SerialTypes, Named
<1>10. ASSUME NEW t \in Ticks, Checkpointed(t)
       PROVE  Named'
  <2>1. of[t] <= made /\ made \in Nat /\ t \in Serializers
      BY DEF Named, TypeOK, StoreTypes, Serializers
  <2>2. \A s \in Serializers : \/ of'[s] = of[s] /\ ser'[s] = ser[s]
                               \/ of'[s] = 0 /\ ser'[s] = "no"
      BY <1>10 DEF Checkpointed, Return, TypeOK, SerialTypes
  <2>3. /\ lastOf' = of[t]
        /\ UNCHANGED <<made, durableStore, memoryStore, building, pc, handle>>
      BY <1>10 DEF Checkpointed, stores, build, writing
  <2> QED
      BY <2>1, <2>2, <2>3 DEF Named
<1>11. ASSUME NEW t \in Ticks, CheckpointFails(t)
       PROVE  Named'
    BY <1>11
       DEF CheckpointFails, Return, stores, registry, build, writing, TypeOK, StoreTypes,
           RegistryTypes, CallTypes, SerialTypes, Named
<1>12. ASSUME NEW s \in Serializers, Land(s)
       PROVE  Named'
    BY <1>12
       DEF Land, stores, registry, build, writing, TypeOK, StoreTypes, RegistryTypes,
           CallTypes, SerialTypes, Named
<1>13. ASSUME NEW s \in Serializers, LandFails(s)
       PROVE  Named'
    BY <1>13
       DEF LandFails, stores, registry, build, writing, TypeOK, StoreTypes, RegistryTypes,
           CallTypes, SerialTypes, Named
<1>14. ASSUME NEW v \in Savers, InvalidateBuilt(v)
       PROVE  Named'
  <2>1. CASE durableStore # 0
      BY <1>14, <2>1
         DEF InvalidateBuilt, Reaches, Dump, Forget, stores, registry, build, writing,
             serial, TypeOK, StoreTypes, RegistryTypes, CallTypes, SerialTypes, Named
  <2>2. CASE durableStore = 0
      BY <1>14, <2>2
         DEF InvalidateBuilt, Reaches, Dump, Forget, stores, registry, build, writing,
             serial, TypeOK, StoreTypes, RegistryTypes, CallTypes, SerialTypes, Named
  <2> QED
      BY <2>1, <2>2
<1>15. ASSUME NEW v \in Savers, Drop(v)
       PROVE  Named'
    BY <1>15
       DEF Drop, Forget, Return, stores, build, writing, TypeOK, StoreTypes,
           RegistryTypes, CallTypes, SerialTypes, Named
<1>16. ASSUME ShutDown
       PROVE  Named'
  <2>1. CASE durableStore # 0
      BY <1>16, <2>1
         DEF ShutDown, CutOff, Forget, Dump, stores, registry, build, writing, serial,
             TypeOK, StoreTypes, RegistryTypes, CallTypes, SerialTypes, Named
  <2>2. CASE durableStore = 0
      BY <1>16, <2>2
         DEF ShutDown, CutOff, Forget, Dump, stores, registry, build, writing, serial,
             TypeOK, StoreTypes, RegistryTypes, CallTypes, SerialTypes, Named
  <2> QED
      BY <2>1, <2>2
<1>17. ASSUME ClearStores
       PROVE  Named'
    BY <1>17
       DEF ClearStores, CutOff, Forget, Return, stores, TypeOK, StoreTypes, RegistryTypes,
           CallTypes, SerialTypes, Named
<1>18. ASSUME Crash
       PROVE  Named'
    BY <1>18
       DEF Crash, Boot, CutOff, Forget, TypeOK, StoreTypes, RegistryTypes, CallTypes,
           SerialTypes, Named
<1>19. ASSUME Exit
       PROVE  Named'
    BY <1>19
       DEF Exit, Boot, CutOff, Forget, TypeOK, StoreTypes, RegistryTypes, CallTypes,
           SerialTypes, Named
<1> QED
    BY <1>1, <1>2, <1>3, <1>4, <1>5, <1>6, <1>7, <1>8, <1>9, <1>10, <1>11, <1>12, <1>13,
       <1>14, <1>15, <1>16, <1>17, <1>18, <1>19
       DEF Next

LEMMA SerializingKept ==
    ASSUME TypeOK, Serializing, Next
    PROVE  Serializing'
<1>1. CASE UNCHANGED <<ser, running, sav, stopping>>
    BY <1>1 DEF Serializing
<1>2. ASSUME NEW w \in Writers, Obtain(w) \/ StartBuild(w) \/ Update(w)
       PROVE  UNCHANGED <<ser, running, sav, stopping>>
    BY <1>2 DEF Obtain, StartBuild, Update, serial
<1>3. ASSUME ReadSnapshot \/ Serve \/ Rebuild
       PROVE  UNCHANGED <<ser, running, sav, stopping>>
    BY <1>3 DEF ReadSnapshot, Serve, Rebuild, serial
<1>4. ASSUME NEW t \in Ticks, Tick(t)
       PROVE  Serializing'
    BY <1>4, StoresAssumption
       DEF Tick, Dump, TypeOK, SerialTypes, RegistryTypes, CallTypes, Serializing,
           Serializers
<1>5. ASSUME NEW t \in Ticks, Checkpointed(t)
       PROVE  Serializing'
    BY <1>5, StoresAssumption
       DEF Checkpointed, Return, TypeOK, SerialTypes, RegistryTypes, CallTypes,
           Serializing, Serializers
<1>6. ASSUME NEW t \in Ticks, CheckpointFails(t)
       PROVE  Serializing'
    BY <1>6, StoresAssumption
       DEF CheckpointFails, Return, TypeOK, SerialTypes, RegistryTypes, CallTypes,
           Serializing, Serializers
<1>7. ASSUME NEW s \in Serializers, Land(s)
       PROVE  Serializing'
    BY <1>7, StoresAssumption
       DEF Land, TypeOK, SerialTypes, RegistryTypes, CallTypes, Serializing, Serializers
<1>8. ASSUME NEW s \in Serializers, LandFails(s)
       PROVE  Serializing'
    BY <1>8, StoresAssumption
       DEF LandFails, TypeOK, SerialTypes, RegistryTypes, CallTypes, Serializing,
           Serializers
<1>9. ASSUME NEW v \in Savers, SaveVersion(v)
       PROVE  Serializing'
    BY <1>9, StoresAssumption
       DEF SaveVersion, serial, TypeOK, SerialTypes, RegistryTypes, CallTypes,
           Serializing, Serializers
<1>24. ASSUME NEW v \in Savers, MoveHead(v)
       PROVE  Serializing'
    BY <1>24 DEF MoveHead, serial, Serializing
<1>10. ASSUME NEW v \in Savers, EditBackend(v)
       PROVE  Serializing'
    BY <1>10, StoresAssumption
       DEF EditBackend, serial, TypeOK, SerialTypes, RegistryTypes, CallTypes,
           Serializing, Serializers
<1>11. ASSUME NEW v \in Savers, NotFollowed(v)
       PROVE  Serializing'
    BY <1>11, StoresAssumption
       DEF NotFollowed, serial, TypeOK, SerialTypes, RegistryTypes, CallTypes,
           Serializing, Serializers
<1>12. ASSUME NEW v \in Savers, InvalidateUnbuilt(v)
       PROVE  Serializing'
    BY <1>12, StoresAssumption
       DEF InvalidateUnbuilt, Reaches, serial, TypeOK, SerialTypes, RegistryTypes,
           CallTypes, Serializing, Serializers
<1>13. ASSUME NEW v \in Savers, InvalidateBuilt(v)
       PROVE  Serializing'
  <2>1. CASE durableStore # 0
      BY <1>13, <2>1, StoresAssumption
         DEF InvalidateBuilt, Reaches, Dump, serial, TypeOK, SerialTypes, RegistryTypes,
             CallTypes, Serializing, Serializers
  <2>2. CASE durableStore = 0
      BY <1>13, <2>2, StoresAssumption
         DEF InvalidateBuilt, Reaches, Dump, serial, TypeOK, SerialTypes, RegistryTypes,
             CallTypes, Serializing, Serializers
  <2> QED
      BY <2>1, <2>2
<1>14. ASSUME NEW v \in Savers, Drop(v)
       PROVE  Serializing'
    BY <1>14, StoresAssumption
       DEF Drop, Return, TypeOK, SerialTypes, RegistryTypes, CallTypes, Serializing,
           Serializers
<1>15. ASSUME ShutDown
       PROVE  Serializing'
  <2>1. CASE durableStore # 0
      BY <1>15, <2>1, StoresAssumption
         DEF ShutDown, CutOff, Dump, serial, TypeOK, SerialTypes, RegistryTypes,
             CallTypes, Serializing, Serializers
  <2>2. CASE durableStore = 0
      BY <1>15, <2>2, StoresAssumption
         DEF ShutDown, CutOff, Dump, serial, TypeOK, SerialTypes, RegistryTypes,
             CallTypes, Serializing, Serializers
  <2> QED
      BY <2>1, <2>2
<1>16. ASSUME ClearStores
       PROVE  Serializing'
    BY <1>16, StoresAssumption
       DEF ClearStores, CutOff, Return, TypeOK, SerialTypes, RegistryTypes, CallTypes,
           Serializing, Serializers
<1>17. ASSUME Crash
       PROVE  Serializing'
    BY <1>17, StoresAssumption
       DEF Crash, Boot, CutOff, TypeOK, SerialTypes, RegistryTypes, CallTypes,
           Serializing, Serializers
<1>18. ASSUME Exit
       PROVE  Serializing'
    BY <1>18, StoresAssumption
       DEF Exit, Boot, CutOff, TypeOK, SerialTypes, RegistryTypes, CallTypes, Serializing,
           Serializers
<1> QED
    BY <1>1, <1>2, <1>3, <1>4, <1>5, <1>6, <1>7, <1>8, <1>9, <1>10, <1>11, <1>12, <1>13,
       <1>14, <1>15, <1>16, <1>17, <1>18, <1>24
       DEF Next

LEMMA DumpsSurvive ==
    ASSUME TypeOK, Named, DumpsOfCounts, UNCHANGED <<ser, dump, at, of>>,
           \A s \in 1..made : content'[s] = content[s] /\ count'[s] = count[s]
    PROVE  DumpsOfCounts'
<1>1. \A s \in Serializers : ser[s] # "no" => of[s] \in 1..made
    BY DEF Named, TypeOK, SerialTypes
<1> QED
    BY <1>1 DEF DumpsOfCounts

LEMMA DumpIsExact ==
    ASSUME TypeOK, DumpsOfCounts, durableStore # 0, NEW s \in Serializers, Dump(s),
           UNCHANGED <<content, count>>
    PROVE  DumpsOfCounts'
<1>1. durableStore \in Stores /\ count[durableStore] \in Nat
    BY StoresAssumption DEF TypeOK, RegistryTypes, StoreTypes, Stores
<1>2. /\ at'[s] = count[durableStore] /\ dump'[s] = content[durableStore] /\ of'[s] = durableStore
      /\ \A u \in Serializers \ {s} :
            ser'[u] = ser[u] /\ at'[u] = at[u] /\ dump'[u] = dump[u] /\ of'[u] = of[u]
    BY DEF Dump, TypeOK, SerialTypes
<1> QED
    BY <1>1, <1>2 DEF DumpsOfCounts

(* An update changes one store, and its count. *)
LEMMA UpdateWrites ==
    ASSUME TypeOK, Named, NEW w \in Writers, Update(w)
    PROVE  \/ UNCHANGED <<content, count>>
           \/ \E h \in Stores :
                /\ count'[h] = count[h] + 1
                /\ \A s \in Stores \ {h} : count'[s] = count[s] /\ content'[s] = content[s]
<1>1. CASE kind = "readOnly"
    BY <1>1 DEF Update
<1>2. CASE kind # "readOnly"
  <2>1. handle[w] \in Stores
      BY StoresAssumption DEF Update, Named, TypeOK, CallTypes, Stores
  <2>2. count'[handle[w]] = count[handle[w]] + 1
      BY <1>2, <2>1 DEF Update, TypeOK, StoreTypes
  <2>3. \A s \in Stores \ {handle[w]} : count'[s] = count[s] /\ content'[s] = content[s]
      BY <1>2, <2>1 DEF Update, TypeOK, StoreTypes
  <2> QED
      BY <2>1, <2>2, <2>3
<1> QED
    BY <1>1, <1>2

LEMMA DumpsKept ==
    ASSUME TypeOK, Named, DumpsOfCounts, Next
    PROVE  DumpsOfCounts'
<1>1. CASE UNCHANGED <<content, count, ser, dump, at, of>>
    BY <1>1 DEF DumpsOfCounts
<1>2. ASSUME NEW w \in Writers, Obtain(w)
       PROVE  UNCHANGED <<content, count, ser, dump, at, of>>
    BY <1>2 DEF Obtain, stores, serial
<1>3. ASSUME Serve
       PROVE  UNCHANGED <<content, count, ser, dump, at, of>>
    BY <1>3 DEF Serve, stores, serial
<1>4. ASSUME NEW v \in Savers,
             \/ SaveVersion(v) \/ MoveHead(v) \/ EditBackend(v) \/ NotFollowed(v)
             \/ InvalidateUnbuilt(v)
       PROVE  UNCHANGED <<content, count, ser, dump, at, of>>
    BY <1>4 DEF SaveVersion, MoveHead, EditBackend, NotFollowed, InvalidateUnbuilt, stores, serial
<1>5. ASSUME NEW w \in Writers, StartBuild(w)
       PROVE  DumpsOfCounts'
    BY <1>5, AttemptGrows, DumpsSurvive DEF StartBuild, serial, Grows
<1>6. ASSUME NEW w \in Writers, Update(w)
       PROVE  DumpsOfCounts'
  <2>1. UNCHANGED <<ser, dump, at, of>>
      BY <1>6 DEF Update, serial
  <2>2. \A s \in Serializers : ser[s] # "no" => of[s] \in Stores
      BY StoresAssumption DEF Named, TypeOK, SerialTypes, Stores
  <2>3. \A s \in Serializers : at[s] \in Int
      BY DEF TypeOK, SerialTypes
  <2>4. \A s \in Stores : count[s] \in Int
      BY DEF TypeOK, StoreTypes
  <2>5. CASE UNCHANGED <<content, count>>
      BY <2>1, <2>5 DEF DumpsOfCounts
  <2>6. ASSUME NEW h \in Stores, count'[h] = count[h] + 1,
               \A s \in Stores \ {h} : count'[s] = count[s] /\ content'[s] = content[s]
        PROVE  DumpsOfCounts'
      BY <2>1, <2>2, <2>3, <2>4, <2>6 DEF DumpsOfCounts
  <2> QED
      BY <1>6, <2>5, <2>6, UpdateWrites
<1>7. ASSUME ReadSnapshot
       PROVE  DumpsOfCounts'
    BY <1>7, FillGrows, DumpsSurvive DEF ReadSnapshot, serial, Grows
<1>8. ASSUME Rebuild
       PROVE  DumpsOfCounts'
    BY <1>8, AttemptGrows, DumpsSurvive DEF Rebuild, serial, Grows
<1>9. ASSUME NEW t \in Ticks, Tick(t)
       PROVE  DumpsOfCounts'
    BY <1>9, DumpIsExact DEF Tick, stores, Serializers
<1>10. ASSUME NEW t \in Ticks, Checkpointed(t)
       PROVE  DumpsOfCounts'
    BY <1>10, StoresAssumption
       DEF Checkpointed, Return, Empty, stores, TypeOK, StoreTypes, SerialTypes,
           RegistryTypes, CallTypes, Named, Stores, DumpsOfCounts
<1>11. ASSUME NEW t \in Ticks, CheckpointFails(t)
       PROVE  DumpsOfCounts'
    BY <1>11, StoresAssumption
       DEF CheckpointFails, Return, Empty, stores, TypeOK, StoreTypes, SerialTypes,
           RegistryTypes, CallTypes, Named, Stores, DumpsOfCounts
<1>12. ASSUME NEW s \in Serializers, Land(s)
       PROVE  DumpsOfCounts'
    BY <1>12, StoresAssumption
       DEF Land, stores, TypeOK, StoreTypes, SerialTypes, RegistryTypes, CallTypes, Named,
           Stores, DumpsOfCounts
<1>13. ASSUME NEW s \in Serializers, LandFails(s)
       PROVE  DumpsOfCounts'
    BY <1>13, StoresAssumption
       DEF LandFails, stores, TypeOK, StoreTypes, SerialTypes, RegistryTypes, CallTypes,
           Named, Stores, DumpsOfCounts
<1>14. ASSUME NEW v \in Savers, InvalidateBuilt(v)
       PROVE  DumpsOfCounts'
  <2>1. CASE durableStore # 0
      BY <1>14, <2>1, DumpIsExact DEF InvalidateBuilt, stores, Serializers
  <2>2. CASE durableStore = 0
      BY <1>14, <2>2 DEF InvalidateBuilt, stores, serial, DumpsOfCounts
  <2> QED
      BY <2>1, <2>2
<1>15. ASSUME NEW v \in Savers, Drop(v)
       PROVE  DumpsOfCounts'
    BY <1>15, StoresAssumption
       DEF Drop, Return, Empty, stores, TypeOK, StoreTypes, SerialTypes, RegistryTypes,
           CallTypes, Named, Stores, DumpsOfCounts
<1>16. ASSUME ShutDown
       PROVE  DumpsOfCounts'
  <2>1. CASE durableStore # 0
      BY <1>16, <2>1, DumpIsExact DEF ShutDown, stores, Serializers
  <2>2. CASE durableStore = 0
      BY <1>16, <2>2 DEF ShutDown, stores, serial, DumpsOfCounts
  <2> QED
      BY <2>1, <2>2
<1>17. ASSUME ClearStores
       PROVE  DumpsOfCounts'
    BY <1>17, StoresAssumption
       DEF ClearStores, Return, Empty, stores, TypeOK, StoreTypes, SerialTypes,
           RegistryTypes, CallTypes, Named, Stores, DumpsOfCounts
<1>18. ASSUME Crash
       PROVE  DumpsOfCounts'
    BY <1>18, StoresAssumption
       DEF Crash, Boot, Empty, TypeOK, StoreTypes, SerialTypes, RegistryTypes, CallTypes,
           Named, Stores, DumpsOfCounts
<1>19. ASSUME Exit
       PROVE  DumpsOfCounts'
    BY <1>19, StoresAssumption
       DEF Exit, Boot, Empty, TypeOK, StoreTypes, SerialTypes, RegistryTypes, CallTypes,
           Named, Stores, DumpsOfCounts
<1> QED
    BY <1>1, <1>2, <1>3, <1>4, <1>5, <1>6, <1>7, <1>8, <1>9, <1>10, <1>11, <1>12, <1>13,
       <1>14, <1>15, <1>16, <1>17, <1>18, <1>19
       DEF Next

LEMMA StandsKept ==
    ASSUME TypeOK, Named, Serializing, Stands, Next
    PROVE  Stands'
<1>1. CASE UNCHANGED <<disk, durableStore, ser, dump, of>>
    BY <1>1 DEF Stands
<1>2. ASSUME NEW w \in Writers, Obtain(w) \/ Update(w)
       PROVE  UNCHANGED <<disk, durableStore, ser, dump, of>>
    BY <1>2 DEF Obtain, Update, disks, registry, serial
<1>3. ASSUME Serve
       PROVE  UNCHANGED <<disk, durableStore, ser, dump, of>>
    BY <1>3 DEF Serve, disks, serial
<1>4. ASSUME NEW v \in Savers,
             \/ SaveVersion(v) \/ MoveHead(v) \/ EditBackend(v) \/ NotFollowed(v)
             \/ InvalidateUnbuilt(v)
       PROVE  UNCHANGED <<disk, durableStore, ser, dump, of>>
    BY <1>4
       DEF SaveVersion, MoveHead, EditBackend, NotFollowed, InvalidateUnbuilt, disks, registry,
           serial
<1>5. ASSUME NEW w \in Writers, StartBuild(w)
       PROVE  Stands'
    BY <1>5, AttemptGrows, StoresAssumption
       DEF StartBuild, Grows, disks, serial, TypeOK, StoreTypes, SerialTypes,
           RegistryTypes, Named, Serializing, Serializers, Stands
<1>6. ASSUME ReadSnapshot
       PROVE  Stands'
    BY <1>6, FillGrows, StoresAssumption
       DEF ReadSnapshot, Grows, disks, serial, TypeOK, StoreTypes, SerialTypes,
           RegistryTypes, Named, Serializing, Serializers, Stands
<1>7. ASSUME Rebuild
       PROVE  Stands'
    BY <1>7, AttemptGrows, StoresAssumption
       DEF Rebuild, Grows, disks, serial, TypeOK, StoreTypes, SerialTypes, RegistryTypes,
           Named, Serializing, Serializers, Stands
<1>8. ASSUME NEW t \in Ticks, Tick(t)
       PROVE  Stands'
    BY <1>8, StoresAssumption
       DEF Tick, Dump, disks, registry, TypeOK, StoreTypes, SerialTypes, RegistryTypes,
           Named, Serializing, Serializers, Stands
<1>9. ASSUME NEW t \in Ticks, Checkpointed(t)
       PROVE  Stands'
    BY <1>9, StoresAssumption
       DEF Checkpointed, Return, Empty, disks, TypeOK, StoreTypes, SerialTypes,
           RegistryTypes, Named, Serializing, Serializers, Stands
<1>10. ASSUME NEW t \in Ticks, CheckpointFails(t)
       PROVE  Stands'
    BY <1>10, StoresAssumption
       DEF CheckpointFails, Return, Empty, disks, registry, TypeOK, StoreTypes,
           SerialTypes, RegistryTypes, Named, Serializing, Serializers, Stands
<1>11. ASSUME NEW s \in Serializers, Land(s)
       PROVE  Stands'
    BY <1>11, StoresAssumption
       DEF Land, registry, TypeOK, StoreTypes, SerialTypes, RegistryTypes, Named,
           Serializing, Serializers, Stands
<1>12. ASSUME NEW s \in Serializers, LandFails(s)
       PROVE  Stands'
    BY <1>12, StoresAssumption
       DEF LandFails, disks, registry, TypeOK, StoreTypes, SerialTypes, RegistryTypes,
           Named, Serializing, Serializers, Stands
<1>13. ASSUME NEW v \in Savers, InvalidateBuilt(v)
       PROVE  Stands'
  <2>1. CASE durableStore # 0
      BY <1>13, <2>1, StoresAssumption
         DEF InvalidateBuilt, Reaches, Dump, disks, registry, serial, TypeOK, StoreTypes,
             SerialTypes, RegistryTypes, Named, Serializing, Serializers, Stands
  <2>2. CASE durableStore = 0
      BY <1>13, <2>2, StoresAssumption
         DEF InvalidateBuilt, Reaches, Dump, disks, registry, serial, TypeOK, StoreTypes,
             SerialTypes, RegistryTypes, Named, Serializing, Serializers, Stands
  <2> QED
      BY <2>1, <2>2
<1>14. ASSUME NEW v \in Savers, Drop(v)
       PROVE  Stands'
    BY <1>14, StoresAssumption
       DEF Drop, Return, Empty, disks, TypeOK, StoreTypes, SerialTypes, RegistryTypes,
           Named, Serializing, Serializers, Stands
<1>15. ASSUME ShutDown
       PROVE  Stands'
  <2>1. CASE durableStore # 0
      BY <1>15, <2>1, StoresAssumption
         DEF ShutDown, CutOff, Dump, Empty, disks, registry, serial, TypeOK, StoreTypes,
             SerialTypes, RegistryTypes, Named, Serializing, Serializers, Stands
  <2>2. CASE durableStore = 0
      BY <1>15, <2>2, StoresAssumption
         DEF ShutDown, CutOff, Dump, Empty, disks, registry, serial, TypeOK, StoreTypes,
             SerialTypes, RegistryTypes, Named, Serializing, Serializers, Stands
  <2> QED
      BY <2>1, <2>2
<1>16. ASSUME ClearStores
       PROVE  Stands'
    BY <1>16, StoresAssumption
       DEF ClearStores, CutOff, Return, Empty, disks, TypeOK, StoreTypes, SerialTypes,
           RegistryTypes, Named, Serializing, Serializers, Stands
<1>17. ASSUME Crash
       PROVE  Stands'
    BY <1>17, StoresAssumption
       DEF Crash, Boot, CutOff, Empty, TypeOK, StoreTypes, SerialTypes, RegistryTypes,
           Named, Serializing, Serializers, Stands
<1>18. ASSUME Exit
       PROVE  Stands'
    BY <1>18, StoresAssumption
       DEF Exit, Boot, CutOff, Empty, TypeOK, StoreTypes, SerialTypes, RegistryTypes,
           Named, Serializing, Serializers, Stands
<1> QED
    BY <1>1, <1>2, <1>3, <1>4, <1>5, <1>6, <1>7, <1>8, <1>9, <1>10, <1>11, <1>12, <1>13,
       <1>14, <1>15, <1>16, <1>17, <1>18
       DEF Next

(* A new store is not the one whose count was recorded. *)
LEMMA RecordedSurvives ==
    ASSUME TypeOK, Named, Recorded, Grows, UNCHANGED <<disk, last, lastOf, ser>>
    PROVE  Recorded'
<1>1. lastOf \in 0..made /\ durableStore \in 0..made /\ made \in Nat
    BY DEF Named, TypeOK, StoreTypes, RegistryTypes
<1>2. lastOf # 0 => count'[lastOf] = count[lastOf]
    BY <1>1 DEF Grows
<1>3. durableStore' # 0 /\ durableStore' = lastOf =>
          durableStore' = durableStore /\ content'[durableStore] = content[durableStore]
    BY <1>1 DEF Grows
<1> QED
    BY <1>2, <1>3 DEF Recorded

LEMMA RecordedKept ==
    ASSUME TypeOK, Named, Serializing, DumpsOfCounts, Stands, Recorded, Next
    PROVE  Recorded'
<1>1. CASE UNCHANGED <<disk, content, count, durableStore, last, lastOf, ser>>
    BY <1>1 DEF Recorded
<1>2. ASSUME NEW w \in Writers, Obtain(w)
       PROVE  UNCHANGED <<disk, content, count, durableStore, last, lastOf, ser>>
    BY <1>2 DEF Obtain, disks, stores, registry, serial
<1>3. ASSUME Serve
       PROVE  UNCHANGED <<disk, content, count, durableStore, last, lastOf, ser>>
    BY <1>3 DEF Serve, disks, stores, serial
<1>4. ASSUME NEW v \in Savers,
             \/ SaveVersion(v) \/ MoveHead(v) \/ EditBackend(v) \/ NotFollowed(v)
             \/ InvalidateUnbuilt(v)
       PROVE  UNCHANGED <<disk, content, count, durableStore, last, lastOf, ser>>
    BY <1>4
       DEF SaveVersion, MoveHead, EditBackend, NotFollowed, InvalidateUnbuilt, disks, stores,
           registry, serial
<1>5. ASSUME NEW w \in Writers, StartBuild(w)
       PROVE  Recorded'
    BY <1>5, AttemptGrows, RecordedSurvives DEF StartBuild, disks, serial
<1>6. ASSUME NEW w \in Writers, Update(w)
       PROVE  Recorded'
  <2>1. UNCHANGED <<disk, durableStore, last, lastOf, ser>>
      BY <1>6 DEF Update, disks, registry, serial
  <2>2. /\ lastOf # 0 => lastOf \in Stores
        /\ durableStore # 0 => durableStore \in Stores
      BY DEF TypeOK, RegistryTypes, Stores
  <2>3. last \in Int /\ \A s \in Stores : count[s] \in Int
      BY DEF TypeOK, RegistryTypes, StoreTypes
  <2>4. CASE UNCHANGED <<content, count>>
      BY <2>1, <2>4 DEF Recorded
  <2>5. ASSUME NEW h \in Stores, count'[h] = count[h] + 1,
               \A s \in Stores \ {h} : count'[s] = count[s] /\ content'[s] = content[s]
        PROVE  Recorded'
      BY <2>1, <2>2, <2>3, <2>5 DEF Recorded
  <2> QED
      BY <1>6, <2>4, <2>5, UpdateWrites
<1>7. ASSUME ReadSnapshot
       PROVE  Recorded'
    BY <1>7, FillGrows, RecordedSurvives DEF ReadSnapshot, disks, serial
<1>8. ASSUME Rebuild
       PROVE  Recorded'
    BY <1>8, AttemptGrows, RecordedSurvives DEF Rebuild, disks, serial
<1>9. ASSUME NEW t \in Ticks, Tick(t)
       PROVE  Recorded'
    BY <1>9, StoresAssumption
       DEF Tick, Dump, disks, stores, registry, TypeOK, StoreTypes, SerialTypes,
           RegistryTypes, CallTypes, Named, Serializing, Serializers, Stores,
           DumpsOfCounts, Stands, Recorded
<1>10. ASSUME NEW t \in Ticks, Checkpointed(t)
       PROVE  Recorded'
  <2>1. /\ ser[t] = "landed" /\ last' = at[t] /\ lastOf' = of[t]
        /\ UNCHANGED <<disk, content, count, durableStore>>
        /\ t \in Serializers /\ \A s \in Serializers \ Ticks : ser'[s] = ser[s]
      BY <1>10 DEF Checkpointed, Return, disks, stores, Serializers, TypeOK, SerialTypes
  <2>2. at[t] <= count[of[t]] /\ (at[t] = count[of[t]] => dump[t] = content[of[t]])
      BY <2>1 DEF DumpsOfCounts
  <2>3. of[t] = durableStore /\ (\A s \in Serializers : ser'[s] # "landed") => disk = dump[t]
      BY <2>1 DEF Stands
  <2> QED
      BY <2>1, <2>2, <2>3 DEF Recorded
<1>11. ASSUME NEW t \in Ticks, CheckpointFails(t)
       PROVE  Recorded'
    BY <1>11, StoresAssumption
       DEF CheckpointFails, Return, Empty, disks, stores, registry, TypeOK, StoreTypes,
           SerialTypes, RegistryTypes, CallTypes, Named, Serializing, Serializers, Stores,
           DumpsOfCounts, Stands, Recorded
<1>12. ASSUME NEW s \in Serializers, Land(s)
       PROVE  Recorded'
    BY <1>12, StoresAssumption
       DEF Land, stores, registry, TypeOK, StoreTypes, SerialTypes, RegistryTypes,
           CallTypes, Named, Serializing, Serializers, Stores, DumpsOfCounts, Stands,
           Recorded
<1>13. ASSUME NEW s \in Serializers, LandFails(s)
       PROVE  Recorded'
    BY <1>13, StoresAssumption
       DEF LandFails, disks, stores, registry, TypeOK, StoreTypes, SerialTypes,
           RegistryTypes, CallTypes, Named, Serializing, Serializers, Stores,
           DumpsOfCounts, Stands, Recorded
<1>14. ASSUME NEW v \in Savers, InvalidateBuilt(v)
       PROVE  Recorded'
  <2>1. CASE durableStore # 0
    <3>1. UNCHANGED <<disk, content, count, durableStore, last, lastOf>>
        BY <1>14, <2>1 DEF InvalidateBuilt, disks, stores, registry
    <3>2. ser[v] = "no"
        BY <1>14 DEF InvalidateBuilt, Reaches, Serializing, Serializers
    <3>3. \A s \in Serializers : ser'[s] # "landed" => ser[s] # "landed"
        BY <1>14, <2>1, <3>2 DEF InvalidateBuilt, Dump, TypeOK, SerialTypes
    <3> QED
        BY <3>1, <3>3 DEF Recorded
  <2>2. CASE durableStore = 0
      BY <1>14, <2>2
         DEF InvalidateBuilt, Forget, disks, stores, Recorded
  <2> QED
      BY <2>1, <2>2
<1>15. ASSUME NEW v \in Savers, Drop(v)
       PROVE  Recorded'
    BY <1>15, StoresAssumption
       DEF Drop, Forget, Return, Empty, disks, stores, TypeOK, StoreTypes, SerialTypes,
           RegistryTypes, CallTypes, Named, Serializing, Serializers, Stores,
           DumpsOfCounts, Stands, Recorded
<1>16. ASSUME ShutDown
       PROVE  Recorded'
  <2>1. CASE durableStore # 0
      BY <1>16, <2>1, StoresAssumption
         DEF ShutDown, CutOff, Forget, Dump, Empty, disks, stores, registry, serial,
             TypeOK, StoreTypes, SerialTypes, RegistryTypes, CallTypes, Named,
             Serializing, Serializers, Stores, DumpsOfCounts, Stands, Recorded
  <2>2. CASE durableStore = 0
      BY <1>16, <2>2, StoresAssumption
         DEF ShutDown, CutOff, Forget, Dump, Empty, disks, stores, registry, serial,
             TypeOK, StoreTypes, SerialTypes, RegistryTypes, CallTypes, Named,
             Serializing, Serializers, Stores, DumpsOfCounts, Stands, Recorded
  <2> QED
      BY <2>1, <2>2
<1>17. ASSUME ClearStores
       PROVE  Recorded'
    BY <1>17, StoresAssumption
       DEF ClearStores, CutOff, Forget, Return, Empty, disks, stores, TypeOK, StoreTypes,
           SerialTypes, RegistryTypes, CallTypes, Named, Serializing, Serializers, Stores,
           DumpsOfCounts, Stands, Recorded
<1>18. ASSUME Crash
       PROVE  Recorded'
    BY <1>18, StoresAssumption
       DEF Crash, Boot, CutOff, Forget, Empty, TypeOK, StoreTypes, SerialTypes,
           RegistryTypes, CallTypes, Named, Serializing, Serializers, Stores,
           DumpsOfCounts, Stands, Recorded
<1>19. ASSUME Exit
       PROVE  Recorded'
    BY <1>19, StoresAssumption
       DEF Exit, Boot, CutOff, Forget, Empty, TypeOK, StoreTypes, SerialTypes,
           RegistryTypes, CallTypes, Named, Serializing, Serializers, Stores,
           DumpsOfCounts, Stands, Recorded
<1> QED
    BY <1>1, <1>2, <1>3, <1>4, <1>5, <1>6, <1>7, <1>8, <1>9, <1>10, <1>11, <1>12, <1>13,
       <1>14, <1>15, <1>16, <1>17, <1>18, <1>19
       DEF Next

LEMMA PersistsKept ==
    ASSUME TypeOK, Named, Serializing, DumpsOfCounts, Persists, Next
    PROVE  Persists'
<1>1. CASE UNCHANGED <<kind, count, diskAt, durableStore, lastOf, building, epoch,
                       epochBefore, sav, ser, at, of, stopping>>
    BY <1>1 DEF Persists
<1>2. ASSUME NEW w \in Writers, Obtain(w)
       PROVE  UNCHANGED <<kind, count, diskAt, durableStore, lastOf, building, epoch,
                          epochBefore, sav, ser, at, of, stopping>>
    BY <1>2 DEF Obtain, disks, stores, registry, build, serial
<1>3. ASSUME NEW w \in Writers, StartBuild(w)
       PROVE  Persists'
    BY <1>3 DEF StartBuild, BeginAttempt, Current, disks, stores, serial, Persists
<1>4. ASSUME NEW w \in Writers, Update(w)
       PROVE  Persists'
  <2> SUFFICES ASSUME kind = "persistent"
               PROVE  Persists'
      BY <1>4 DEF Update, Persists
  <2>1. /\ UNCHANGED <<kind, sav, epoch, epochBefore, building, stopping>>
        /\ UNCHANGED <<durableStore, lastOf, ser, at, of, diskAt>>
      BY <1>4 DEF Update, disks, registry, build, serial
  <2>2. durableStore # 0 => durableStore \in Stores
      BY DEF TypeOK, RegistryTypes, Stores
  <2>3. diskAt \in Int /\ \A s \in Stores : count[s] \in Int /\ count'[s] \in {count[s], count[s] + 1}
      BY <1>4, UpdateWrites DEF TypeOK, StoreTypes
  <2>4. durableStore # 0 /\ diskAt <= count[durableStore] => diskAt <= count'[durableStore]
      BY <2>2, <2>3
  <2> QED
      BY <2>1, <2>4 DEF Persists
<1>5. ASSUME ReadSnapshot
       PROVE  Persists'
  <2> SUFFICES ASSUME kind = "persistent"
               PROVE  Persists'
      BY <1>5 DEF ReadSnapshot, Persists
  <2>1. /\ building = "reading" /\ durableStore = 0 /\ UNCHANGED <<lastOf, ser, at, of,
                                                                   diskAt>>
        /\ UNCHANGED <<kind, sav, epoch, epochBefore, stopping>>
      BY <1>5 DEF ReadSnapshot, disks, serial, Persists
  <2>2. Grows /\ building' = "built"
      BY <1>5, FillGrows DEF ReadSnapshot, Fill
  <2>3. durableStore' = made' /\ count'[made'] = 0 /\ made' # 0
      BY <2>2 DEF Grows, TypeOK, StoreTypes
  <2>4. stopping = "no" => lastOf = 0 /\ diskAt = 0 /\ \A s \in Serializers : ser[s] = "no"
      BY <2>1 DEF Persists, Named
  <2> QED
      BY <2>1, <2>2, <2>3, <2>4 DEF Persists
<1>6. ASSUME Serve
       PROVE  Persists'
    BY <1>6, StoresAssumption
       DEF Serve, disks, stores, serial, TypeOK, StoreTypes, SerialTypes, RegistryTypes,
           CallTypes, BuildTypes, Named, Serializing, Serializers, Stores, DumpsOfCounts,
           Persists
<1>7. ASSUME Rebuild
       PROVE  Persists'
    BY <1>7 DEF Rebuild, Persists
<1>8. ASSUME NEW t \in Ticks, Tick(t)
       PROVE  Persists'
    BY <1>8, StoresAssumption
       DEF Tick, Dump, disks, stores, registry, build, TypeOK, StoreTypes, SerialTypes,
           RegistryTypes, CallTypes, BuildTypes, Named, Serializing, Serializers, Stores,
           DumpsOfCounts, Persists
<1>9. ASSUME NEW t \in Ticks, Checkpointed(t)
       PROVE  Persists'
    BY <1>9, StoresAssumption
       DEF Checkpointed, Return, disks, stores, build, TypeOK, StoreTypes, SerialTypes,
           RegistryTypes, CallTypes, BuildTypes, Named, Serializing, Serializers, Stores,
           DumpsOfCounts, Persists
<1>10. ASSUME NEW t \in Ticks, CheckpointFails(t)
       PROVE  Persists'
    BY <1>10, StoresAssumption
       DEF CheckpointFails, Return, disks, stores, registry, build, TypeOK, StoreTypes,
           SerialTypes, RegistryTypes, CallTypes, BuildTypes, Named, Serializing,
           Serializers, Stores, DumpsOfCounts, Persists
<1>11. ASSUME NEW s \in Serializers, Land(s)
       PROVE  Persists'
  <2> SUFFICES ASSUME kind = "persistent", stopping = "no"
               PROVE  Persists'
      BY <1>11 DEF Land, registry, build, Persists
  <2>1. /\ UNCHANGED <<kind, sav, epoch, epochBefore, building, stopping>>
        /\ UNCHANGED <<durableStore, lastOf, at, of, count>> /\ diskAt' = at[s]
        /\ ser[s] = "writing" /\ ser' = [ser EXCEPT ![s] = "landed"]
      BY <1>11 DEF Land, stores, registry, build
  <2>2. \A u \in Serializers : ser[u] # "no" => u = s
      BY <2>1 DEF Serializing, Persists, Serializers
  <2>3. \A u \in Serializers : ser'[u] # "no" => u = s
      BY <2>1, <2>2 DEF TypeOK, SerialTypes
  <2>4. of[s] = durableStore /\ of[s] # 0 /\ at[s] \in Int /\ at[s] <= count[of[s]]
      BY <2>1 DEF Persists, Named, DumpsOfCounts, TypeOK, SerialTypes
  <2> QED
      BY <2>1, <2>3, <2>4 DEF Persists
<1>12. ASSUME NEW s \in Serializers, LandFails(s)
       PROVE  Persists'
    BY <1>12, StoresAssumption
       DEF LandFails, disks, stores, registry, build, TypeOK, StoreTypes, SerialTypes,
           RegistryTypes, CallTypes, BuildTypes, Named, Serializing, Serializers, Stores,
           DumpsOfCounts, Persists
<1>13. ASSUME NEW v \in Savers, SaveVersion(v)
       PROVE  Persists'
    BY <1>13, StoresAssumption
       DEF SaveVersion, disks, stores, registry, build, serial, TypeOK, StoreTypes,
           SerialTypes, RegistryTypes, CallTypes, BuildTypes, Named, Serializing,
           Serializers, Stores, DumpsOfCounts, Persists
<1>24. ASSUME NEW v \in Savers, MoveHead(v)
       PROVE  Persists'
    BY <1>24 DEF MoveHead, Persists
<1>14. ASSUME NEW v \in Savers, EditBackend(v)
       PROVE  Persists'
    BY <1>14, StoresAssumption
       DEF EditBackend, disks, stores, registry, build, serial, TypeOK, StoreTypes,
           SerialTypes, RegistryTypes, CallTypes, BuildTypes, Named, Serializing,
           Serializers, Stores, DumpsOfCounts, Persists
<1>15. ASSUME NEW v \in Savers, NotFollowed(v)
       PROVE  Persists'
    BY <1>15, StoresAssumption
       DEF NotFollowed, disks, stores, registry, build, serial, TypeOK, StoreTypes,
           SerialTypes, RegistryTypes, CallTypes, BuildTypes, Named, Serializing,
           Serializers, Stores, DumpsOfCounts, Persists
<1>16. ASSUME NEW v \in Savers, InvalidateUnbuilt(v)
       PROVE  Persists'
    BY <1>16, StoresAssumption
       DEF InvalidateUnbuilt, Reaches, disks, stores, registry, build, serial, TypeOK,
           StoreTypes, SerialTypes, RegistryTypes, CallTypes, BuildTypes, Named,
           Serializing, Serializers, Stores, DumpsOfCounts, Persists
<1>17. ASSUME NEW v \in Savers, InvalidateBuilt(v)
       PROVE  Persists'
  <2>1. CASE durableStore # 0
      BY <1>17, <2>1, StoresAssumption
         DEF InvalidateBuilt, Reaches, Dump, Forget, disks, stores, registry, build,
             serial, TypeOK, StoreTypes, SerialTypes, RegistryTypes, CallTypes,
             BuildTypes, Named, Serializing, Serializers, Stores, DumpsOfCounts, Persists
  <2>2. CASE durableStore = 0
      BY <1>17, <2>2, StoresAssumption
         DEF InvalidateBuilt, Reaches, Dump, Forget, disks, stores, registry, build,
             serial, TypeOK, StoreTypes, SerialTypes, RegistryTypes, CallTypes,
             BuildTypes, Named, Serializing, Serializers, Stores, DumpsOfCounts, Persists
  <2> QED
      BY <2>1, <2>2
<1>18. ASSUME NEW v \in Savers, Drop(v)
       PROVE  Persists'
    BY <1>18, StoresAssumption
       DEF Drop, Forget, Return, disks, stores, build, TypeOK, StoreTypes, SerialTypes,
           RegistryTypes, CallTypes, BuildTypes, Named, Serializing, Serializers, Stores,
           DumpsOfCounts, Persists
<1>19. ASSUME ShutDown
       PROVE  Persists'
  <2>1. CASE durableStore # 0
      BY <1>19, <2>1, StoresAssumption
         DEF ShutDown, CutOff, Forget, Dump, disks, stores, registry, build, serial,
             TypeOK, StoreTypes, SerialTypes, RegistryTypes, CallTypes, BuildTypes, Named,
             Serializing, Serializers, Stores, DumpsOfCounts, Persists
  <2>2. CASE durableStore = 0
      BY <1>19, <2>2, StoresAssumption
         DEF ShutDown, CutOff, Forget, Dump, disks, stores, registry, build, serial,
             TypeOK, StoreTypes, SerialTypes, RegistryTypes, CallTypes, BuildTypes, Named,
             Serializing, Serializers, Stores, DumpsOfCounts, Persists
  <2> QED
      BY <2>1, <2>2
<1>20. ASSUME ClearStores
       PROVE  Persists'
    BY <1>20, StoresAssumption
       DEF ClearStores, CutOff, Forget, Return, disks, stores, TypeOK, StoreTypes,
           SerialTypes, RegistryTypes, CallTypes, BuildTypes, Named, Serializing,
           Serializers, Stores, DumpsOfCounts, Persists
<1>21. ASSUME Crash
       PROVE  Persists'
    BY <1>21, StoresAssumption
       DEF Crash, Boot, CutOff, Forget, TypeOK, StoreTypes, SerialTypes, RegistryTypes,
           CallTypes, BuildTypes, Named, Serializing, Serializers, Stores, DumpsOfCounts,
           Persists
<1>22. ASSUME Exit
       PROVE  Persists'
    BY <1>22, StoresAssumption
       DEF Exit, Boot, CutOff, Forget, TypeOK, StoreTypes, SerialTypes, RegistryTypes,
           CallTypes, BuildTypes, Named, Serializing, Serializers, Stores, DumpsOfCounts,
           Persists
<1> QED
    BY <1>1, <1>2, <1>3, <1>4, <1>5, <1>6, <1>7, <1>8, <1>9, <1>10, <1>11, <1>12, <1>13,
       <1>14, <1>15, <1>16, <1>17, <1>18, <1>19, <1>20, <1>21, <1>22, <1>24
       DEF Next

LEMMA FollowsKept ==
    ASSUME TypeOK, Named, Follows, FollowsHead, Next
    PROVE  Follows' /\ FollowsHead'
<1>1. CASE UNCHANGED <<kind, head, recent, content, made, durableStore, memoryStore, tracking,
                       behind, building, epoch, epochBefore, sav, stopping>>
    BY <1>1 DEF Follows, FollowsHead
<1>2. ASSUME NEW w \in Writers, Obtain(w)
       PROVE  UNCHANGED <<kind, head, recent, content, made, durableStore, memoryStore, tracking,
                          behind, building, epoch, epochBefore, sav, stopping>>
    BY <1>2 DEF Obtain, graph, stores, registry, build
<1>3. ASSUME NEW t \in Ticks, Tick(t) \/ Checkpointed(t) \/ CheckpointFails(t)
       PROVE  UNCHANGED <<kind, head, recent, content, made, durableStore, memoryStore, tracking,
                          behind, building, epoch, epochBefore, sav, stopping>>
    BY <1>3 DEF Tick, Checkpointed, CheckpointFails, graph, stores, registry, build
<1>4. ASSUME NEW s \in Serializers, Land(s) \/ LandFails(s)
       PROVE  UNCHANGED <<kind, head, recent, content, made, durableStore, memoryStore, tracking,
                          behind, building, epoch, epochBefore, sav, stopping>>
    BY <1>4 DEF Land, LandFails, graph, stores, registry, build
<1>5. ASSUME NEW w \in Writers, StartBuild(w)
       PROVE  Follows' /\ FollowsHead'
  <2> SUFFICES ASSUME kind = "readOnly"
               PROVE  Follows' /\ FollowsHead'
      BY <1>5 DEF StartBuild, graph, Follows, FollowsHead
  <2>1. memoryStore = 0 /\ UNCHANGED <<kind, head, recent, memoryStore, epoch, sav>>
      BY <1>5 DEF StartBuild, graph, Current, Follows
  <2>2. /\ Grows /\ epochBefore' = epoch /\ tracking'
      BY <1>5, AttemptGrows DEF StartBuild, graph
  <2>3. building' = "built" /\ durableStore' = durableStore /\ content'[made'].seed = head
      BY <2>2 DEF Grows
  <2>4. epoch \in Nat
      BY DEF TypeOK, BuildTypes
  <2> QED
      BY <2>1, <2>2, <2>3, <2>4 DEF Follows, FollowsHead
<1>6. ASSUME NEW w \in Writers, Update(w)
       PROVE  Follows' /\ FollowsHead'
    BY <1>6, StoresAssumption
       DEF Update, graph, Empty, registry, build, TypeOK, LimitTypes, StoreTypes, RegistryTypes,
           CallTypes, BuildTypes, Named, Stores, Follows, FollowsHead
<1>7. ASSUME ReadSnapshot
       PROVE  Follows' /\ FollowsHead'
    BY <1>7, FillGrows, StoresAssumption
       DEF ReadSnapshot, graph, Grows, TypeOK, LimitTypes, StoreTypes, RegistryTypes, CallTypes,
           BuildTypes, Named, Stores, Follows, FollowsHead
<1>8. ASSUME Serve
       PROVE  Follows' /\ FollowsHead'
    BY <1>8, StoresAssumption
       DEF Serve, graph, stores, TypeOK, LimitTypes, StoreTypes, RegistryTypes, CallTypes,
           BuildTypes, Named, Stores, Follows, FollowsHead
<1>9. ASSUME Rebuild
       PROVE  Follows' /\ FollowsHead'
  <2> SUFFICES ASSUME kind = "readOnly"
               PROVE  Follows' /\ FollowsHead'
      BY <1>9 DEF Rebuild, graph, Follows, FollowsHead
  <2>1. memoryStore = 0 /\ UNCHANGED <<kind, head, recent, memoryStore, epoch, sav>>
      BY <1>9 DEF Rebuild, graph, Follows
  <2>2. /\ Grows /\ epochBefore' = epoch /\ tracking'
      BY <1>9, AttemptGrows DEF Rebuild, graph
  <2>3. building' = "built" /\ durableStore' = durableStore /\ content'[made'].seed = head
      BY <2>2 DEF Grows
  <2>4. epoch \in Nat
      BY DEF TypeOK, BuildTypes
  <2> QED
      BY <2>1, <2>2, <2>3, <2>4 DEF Follows, FollowsHead
<1>10. ASSUME NEW v \in Savers, SaveVersion(v)
       PROVE  Follows' /\ FollowsHead'
    BY <1>10, StoresAssumption
       DEF SaveVersion, graph, stores, registry, build, TypeOK, LimitTypes, StoreTypes,
           RegistryTypes, CallTypes, BuildTypes, Named, Stores, Follows, FollowsHead
<1>20. ASSUME NEW v \in Savers, MoveHead(v)
       PROVE  Follows' /\ FollowsHead'
    BY <1>20 DEF MoveHead, stores, registry, build, Follows, FollowsHead
<1>11. ASSUME NEW v \in Savers, EditBackend(v)
       PROVE  Follows' /\ FollowsHead'
    BY <1>11, StoresAssumption
       DEF EditBackend, graph, stores, registry, build, TypeOK, LimitTypes, StoreTypes,
           RegistryTypes, CallTypes, BuildTypes, Named, Stores, Follows, FollowsHead
<1>12. ASSUME NEW v \in Savers, NotFollowed(v)
       PROVE  Follows' /\ FollowsHead'
    BY <1>12, StoresAssumption
       DEF NotFollowed, graph, stores, registry, build, TypeOK, LimitTypes, StoreTypes,
           RegistryTypes, CallTypes, BuildTypes, Named, Stores, Follows, FollowsHead
<1>13. ASSUME NEW v \in Savers, InvalidateUnbuilt(v)
       PROVE  Follows' /\ FollowsHead'
    BY <1>13, StoresAssumption
       DEF InvalidateUnbuilt, graph, Reaches, stores, registry, build, TypeOK, LimitTypes,
           StoreTypes, RegistryTypes, CallTypes, BuildTypes, Named, Stores, Follows,
           FollowsHead
<1>14. ASSUME NEW v \in Savers, InvalidateBuilt(v)
       PROVE  Follows' /\ FollowsHead'
  <2>1. CASE durableStore # 0
      BY <1>14, <2>1, StoresAssumption
         DEF InvalidateBuilt, graph, Reaches, Forget, stores, registry, build, TypeOK,
             LimitTypes, StoreTypes, RegistryTypes, CallTypes, BuildTypes, Named, Stores,
             Follows, FollowsHead
  <2>2. CASE durableStore = 0
      BY <1>14, <2>2, StoresAssumption
         DEF InvalidateBuilt, graph, Reaches, Forget, stores, registry, build, TypeOK,
             LimitTypes, StoreTypes, RegistryTypes, CallTypes, BuildTypes, Named, Stores,
             Follows, FollowsHead
  <2> QED
      BY <2>1, <2>2
<1>15. ASSUME NEW v \in Savers, Drop(v)
       PROVE  Follows' /\ FollowsHead'
    BY <1>15, StoresAssumption
       DEF Drop, graph, Forget, Empty, stores, build, TypeOK, LimitTypes, StoreTypes,
           RegistryTypes, CallTypes, BuildTypes, Named, Stores, Follows, FollowsHead
<1>16. ASSUME ShutDown
       PROVE  Follows' /\ FollowsHead'
  <2>1. CASE durableStore # 0
      BY <1>16, <2>1 DEF ShutDown, graph, Follows, FollowsHead
  <2>2. CASE durableStore = 0
    <3>1. /\ UNCHANGED <<kind, head, recent>> /\ memoryStore' = 0 /\ durableStore' = 0 /\ building' = "no"
          /\ epochBefore' = 0 /\ epoch' = 0
          /\ \A v \in Savers : sav'[v] # "dropping"
        BY <1>16, <2>2 DEF ShutDown, graph, CutOff, Forget
    <3> QED
        BY <3>1 DEF Follows, FollowsHead
  <2> QED
      BY <2>1, <2>2
<1>17. ASSUME ClearStores
       PROVE  Follows' /\ FollowsHead'
    BY <1>17, StoresAssumption
       DEF ClearStores, graph, CutOff, Forget, Empty, stores, TypeOK, LimitTypes, StoreTypes,
           RegistryTypes, CallTypes, BuildTypes, Named, Stores, Follows, FollowsHead
<1>18. ASSUME Crash
       PROVE  Follows' /\ FollowsHead'
    BY <1>18, StoresAssumption
       DEF Crash, graph, Boot, CutOff, Forget, Empty, TypeOK, LimitTypes, StoreTypes,
           RegistryTypes, CallTypes, BuildTypes, Named, Stores, Follows, FollowsHead
<1>19. ASSUME Exit
       PROVE  Follows' /\ FollowsHead'
    BY <1>19, StoresAssumption
       DEF Exit, graph, Boot, CutOff, Forget, Empty, TypeOK, LimitTypes, StoreTypes,
           RegistryTypes, CallTypes, BuildTypes, Named, Stores, Follows, FollowsHead
<1> QED
    BY <1>1, <1>2, <1>3, <1>4, <1>5, <1>6, <1>7, <1>8, <1>9, <1>10, <1>11, <1>12, <1>13,
       <1>14, <1>15, <1>16, <1>17, <1>18, <1>19, <1>20
       DEF Next

-----------------------------------------------------------------------------
(***************************************************************************)
(* The theorems.                                                           *)
(***************************************************************************)

LEMMA InitHolds ==
    Init => IInv
<1> SUFFICES ASSUME Init
             PROVE  IInv
    OBVIOUS
<1>1. Cardinality(Writers) + 1 \in Nat /\ MaxStores \in Nat
    BY Sizes, StoresAssumption
<1>2. Empty \in Content
    BY DEF Empty, Content
<1>3. kind \in Kinds /\ MaxSaves[kind] \in Nat /\ MaxMoves[kind] \in Nat /\ MaxEdits \in Nat /\ MaxLives \in Nat \ {0}
      /\ MaxFailures \in Nat
    BY StoresAssumption DEF Init
<1>4. LimitTypes
    BY <1>3 DEF Init, LimitTypes
<1>5. StoreTypes /\ SerialTypes
    BY <1>1, <1>2 DEF Init, StoreTypes, SerialTypes
<1>6. CallTypes
    BY <1>1 DEF Init, CallTypes
<1>7. BuildTypes
    BY <1>3 DEF Init, BuildTypes, MaxAttempts
<1>8. RegistryTypes
  <2>1. last \in -1..Cardinality(Writers) + 1
      BY Sizes DEF Init
  <2>2. durableStore \in 0..MaxStores /\ memoryStore \in 0..MaxStores /\ lastOf \in 0..MaxStores
      BY <1>1 DEF Init
  <2>3. tracking \in BOOLEAN /\ running \in BOOLEAN /\ behind \in BOOLEAN
      BY DEF Init
  <2> QED
      BY <2>1, <2>2, <2>3 DEF RegistryTypes
<1>9. CountsBounded
  <2>1. Cardinality(Finished) \in Nat
      BY Sizes DEF Finished
  <2> QED
      BY <2>1 DEF Init, CountsBounded
<1>10. EpochBounded
  <2>1. Announced = {}
      BY DEF Init, Announced
  <2> QED
      BY <2>1, Sizes DEF Init, EpochBounded
<1>11. Named /\ Serializing /\ DumpsOfCounts /\ Stands /\ Recorded /\ Persists /\ Follows
       /\ FollowsHead
    BY StoresAssumption
       DEF Init, Named, Serializing, DumpsOfCounts, Stands, Recorded, Persists, Follows,
           FollowsHead, Serializers
<1> QED
    BY <1>4, <1>5, <1>6, <1>7, <1>8, <1>9, <1>10, <1>11 DEF IInv, TypeOK

LEMMA StepKeeps ==
    IInv /\ [Next]_vars => IInv'
<1>1. ASSUME IInv, Next
      PROVE  IInv'
    BY <1>1, TypesKept, NamedKept, SerializingKept, DumpsKept, StandsKept, RecordedKept,
       PersistsKept, FollowsKept
       DEF IInv
<1>2. ASSUME IInv, UNCHANGED vars
      PROVE  IInv'
    BY <1>2
       DEF vars, graph, disks, stores, registry, build, writing, serial, bounds, IInv, TypeOK,
           LimitTypes, StoreTypes, RegistryTypes, BuildTypes, CallTypes, SerialTypes,
           CountsBounded, Finished, EpochBounded, Announced, Named, Serializing,
           DumpsOfCounts, Stands, Recorded, Persists, Follows, FollowsHead
<1> QED
    BY <1>1, <1>2

(* The invariant holds in every state of every run of the program. *)
THEOREM Invariance ==
    Spec => []IInv
BY InitHolds, StepKeeps, PTL DEF Spec

(* The types, and with them that no backend is invalidated more often than *)
(* it was saved or edited, and no store written more often than seeded and *)
(* updated (OxigraphStoreManager.ts, storeWrites.ts).                      *)
THEOREM TypeCorrect ==
    Spec => []TypeOK
<1>1. IInv => TypeOK
    BY DEF IInv
<1> QED
    BY <1>1, Invariance, PTL

(* Whenever nothing is being written, a store whose recorded count is its  *)
(* own is in the file as it stands (checkpointAllStores may skip it).      *)
THEOREM SkippedIsSaved ==
    Spec => []SkipsOnlySaved
<1>1. IInv => SkipsOnlySaved
    BY DEF IInv, SkipsOnlySaved, Recorded, Persists
<1> QED
    BY <1>1, Invariance, PTL

(* A store that follows the head of a data graph is of a head since the    *)
(* last save, or will be told of that save (_createMemoryStoreInternal,    *)
(* invalidateStoresTrackingDataGraph), however the head moves otherwise.   *)
THEOREM StoresFollowTheHead ==
    Spec => []FollowsHead
<1>1. IInv => FollowsHead
    BY DEF IInv
<1> QED
    BY <1>1, Invariance, PTL

(* A checkpoint never replaces a newer state of a persistent store by an   *)
(* older one, until the process shuts down (checkpointAllStores).          *)
THEOREM CheckpointsLandInOrder ==
    Spec => DiskAdvances
<1> DEFINE Advances == kind = "persistent" /\ stopping = "no" /\ lives' = lives => diskAt' >= diskAt
<1>1. ASSUME IInv, [Next]_vars, kind = "persistent", stopping = "no", lives' = lives
      PROVE  diskAt' >= diskAt
  <2>0. diskAt \in Nat
      BY <1>1, Sizes DEF IInv, TypeOK, StoreTypes
  <2>1. CASE UNCHANGED diskAt
      BY <2>0, <2>1
  <2>2. ASSUME NEW s \in Serializers, Land(s)
        PROVE  diskAt' >= diskAt
    <3>1. ser[s] = "writing" /\ diskAt' = at[s] /\ at[s] \in Int
        BY <1>1, <2>2 DEF Land, IInv, TypeOK, SerialTypes
    <3>2. diskAt <= at[s]
        BY <1>1, <3>1 DEF IInv, Persists
    <3> QED
        BY <2>0, <3>1, <3>2
  <2>3. ASSUME Boot
        PROVE  FALSE
      BY <1>1, <2>3 DEF Boot, IInv, TypeOK, LimitTypes
  <2>4. ASSUME NEW w \in Writers, Obtain(w) \/ StartBuild(w) \/ Update(w)
        PROVE  UNCHANGED diskAt
      BY <2>4 DEF Obtain, StartBuild, Update, disks
  <2>5. ASSUME ReadSnapshot \/ Serve \/ Rebuild \/ ShutDown \/ ClearStores
        PROVE  UNCHANGED diskAt
      BY <2>5 DEF ReadSnapshot, Serve, Rebuild, ShutDown, ClearStores, disks
  <2>6. ASSUME NEW t \in Ticks, Tick(t) \/ Checkpointed(t) \/ CheckpointFails(t)
        PROVE  UNCHANGED diskAt
      BY <2>6 DEF Tick, Checkpointed, CheckpointFails, disks
  <2>7. ASSUME NEW s \in Serializers, LandFails(s)
        PROVE  UNCHANGED diskAt
      BY <2>7 DEF LandFails, disks
  <2>8. ASSUME NEW v \in Savers,
               \/ SaveVersion(v) \/ MoveHead(v) \/ EditBackend(v) \/ NotFollowed(v)
               \/ InvalidateUnbuilt(v) \/ InvalidateBuilt(v) \/ Drop(v)
        PROVE  UNCHANGED diskAt
      BY <2>8 DEF SaveVersion, MoveHead, EditBackend, NotFollowed, InvalidateUnbuilt, InvalidateBuilt,
                  Drop, disks
  <2>9. CASE UNCHANGED vars
      BY <2>1, <2>9 DEF vars, disks
  <2> QED
      BY <1>1, <2>1, <2>2, <2>3, <2>4, <2>5, <2>6, <2>7, <2>8, <2>9 DEF Next, Crash, Exit
<1>2. IInv /\ [Next]_vars => [Advances]_vars
    BY <1>1
<1> QED
    BY <1>2, Invariance, PTL DEF Spec, DiskAdvances

=============================================================================
