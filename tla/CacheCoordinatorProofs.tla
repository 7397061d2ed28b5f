------------------------ MODULE CacheCoordinatorProofs ------------------------
(***************************************************************************)
(* The safety properties of CacheCoordinator for any set of ids, writes    *)
(* and refreshes.                                                          *)
(*                                                                         *)
(* OwnWritesVisible speaks of the cache alone and is not inductive: what a *)
(* refresh or a write in flight carries will become the cache.  IInv says  *)
(* of every such copy that it shows the acknowledged writes or will not be *)
(* taken, and of the write numbers that they are kept as long as a refresh *)
(* in flight may need them.  Coherence says of every copy what it has to   *)
(* do with the store, and Revisions that the store has the newest of them. *)
(***************************************************************************)
EXTENDS CacheCoordinator, TLAPS, FiniteSetTheorems

Shows(e, i) ==
    \A o \in owed[i] : kind[o] # "delete" => e # Absent /\ o \in e.by

Replacing(o) == pc[o] \in {"lookup", "insert", "inserted", "erase", "erased"}
Patching(o) == pc[o] \in {"patch", "patched", "read", "unread"}

\* What a write in flight knows, if no other to its id overlapped it.
OpOK(o) ==
    /\ pc[o] \in {"erase", "erased"} => kind[o] = "delete"
    /\ Replacing(o) => target[o] \notin ephemeral
    /\ Patching(o) => canonical[o] # Absent
    /\ fresh[o] # Absent => pc[o] = "read"
    /\ target[o] \notin contended =>
         /\ \A p \in Ops : Active(o) /\ Active(p) /\ target[p] = target[o] => p = o
         /\ Replacing(o) => owed[target[o]] = {}
         /\ pc[o] = "inserted" => store[target[o]] # Absent /\ o \in store[target[o]].by
         /\ Patching(o) => Shows(canonical[o], target[o])
         /\ fresh[o] # Absent => Shows(fresh[o], target[o])

\* What cache and store hold.
IdOK(i) ==
    /\ \A o \in owed[i] : pc[o] = "acked"
    /\ i \notin contended =>
         /\ Shows(cache[i], i)
         /\ Shows(store[i], i)
         /\ i \in ephemeral => owed[i] = {} /\ store[i] = Absent

\* What a refresh in flight will do.
RefreshOK(r) ==
    /\ startedAt[r] \leq writeSeq
    /\ phase[r] = "holding" =>
         \A i \in Ids \ contended : Takes(r, i) => Shows(snap[r][i], i)

OpInv == \A o \in Ops : OpOK(o)
IdInv == \A i \in Ids : IdOK(i)
RefreshInv == \A r \in Refreshes : RefreshOK(r)

\* Every running refresh is counted.
CountInv == inFlight = Cardinality({r \in Refreshes : Running(r)})

IInv == TypeOK /\ OpInv /\ IdInv /\ RefreshInv /\ CountInv

-----------------------------------------------------------------------------
(* Types.                                                                  *)

\* The id an idle refresh slot names is one.
LEMMA AnyIdIsId == AnyId \in Ids
BY IdsAssumption DEF AnyId

\* What is not Absent is an entity.
LEMMA EntityParts ==
  ASSUME NEW e \in MaybeEntity, e # Absent
  PROVE  e.rev \in Nat /\ e.by \in SUBSET Ops
BY DEF MaybeEntity, Entity

\* An entity put together from a revision and a set of writes.
LEMMA EntityMade ==
  ASSUME NEW n \in Nat, NEW b \in SUBSET Ops
  PROVE  /\ [rev |-> n, by |-> b] \in MaybeEntity
         /\ [rev |-> n, by |-> b] # Absent
         /\ [rev |-> n, by |-> b].by = b
BY AbsentAssumption DEF MaybeEntity, Entity

\* nextDateModified answers a revision.
LEMMA NextRevNat ==
  ASSUME TypeOK, NEW n \in Nat
  PROVE  NextRev(n) \in Nat
BY DEF TypeOK, NextRev

\* Moving one write to its next step.
LEMMA GotoType ==
  ASSUME TypeOK, NEW o \in Ops, NEW step \in Steps, Goto(o, step)
  PROVE  pc' \in [Ops -> Steps]
BY DEF TypeOK, Goto

\* Ending one write.
LEMMA FinishType ==
  ASSUME TypeOK, NEW o \in Ops, NEW step \in Steps, Finish(o, step)
  PROVE  /\ pc' \in [Ops -> Steps]
         /\ stamp' \in [Ops -> Nat]
         /\ canonical' \in [Ops -> MaybeEntity]
         /\ fresh' \in [Ops -> MaybeEntity]
         /\ UNCHANGED <<kind, target>>
<1>1. pc' \in [Ops -> Steps]
  BY GotoType DEF Finish
<1>2. stamp' \in [Ops -> Nat]
  BY DEF TypeOK, Finish
<1>3. canonical' \in [Ops -> MaybeEntity] /\ fresh' \in [Ops -> MaybeEntity]
  BY DEF TypeOK, Finish, MaybeEntity
<1> QED
  BY <1>1, <1>2, <1>3 DEF Finish

\* One update that knows its canonical entity.
LEMMA GoPatchType ==
  ASSUME TypeOK, NEW o \in Ops, NEW e \in MaybeEntity, NEW n \in Nat, GoPatch(o, e, n)
  PROVE  /\ pc' \in [Ops -> Steps]
         /\ stamp' \in [Ops -> Nat]
         /\ canonical' \in [Ops -> MaybeEntity]
         /\ UNCHANGED <<target, fresh>>
<1>1. "patch" \in Steps
  BY DEF Steps
<1>2. pc' \in [Ops -> Steps]
  BY <1>1, GotoType DEF GoPatch
<1> QED
  BY <1>2 DEF TypeOK, GoPatch

\* Issuing one write.
LEMMA IssueType ==
  ASSUME TypeOK, NEW o \in Ops, NEW i \in Ids,
         NEW k \in {"create", "update", "delete"}, Issue(o, i, k)
  PROVE  /\ kind' \in [Ops -> {"create", "update", "delete"}]
         /\ contended' \subseteq Ids
         /\ tainted' \subseteq Ids
BY DEF TypeOK, Issue, NoteStart

\* Every step keeps the types; endRefresh needs the count of refreshes for it.
LEMMA TypeStep == TypeOK /\ OpInv /\ inFlight' \in Nat /\ [Next]_vars => TypeOK'
<1> SUFFICES ASSUME TypeOK, OpInv, inFlight' \in Nat, [Next]_vars PROVE TypeOK'
  OBVIOUS
<1>1. ASSUME NEW o \in Ops, NEW i \in Ids, StartCreate(o, i) PROVE TypeOK'
  <2>1. pc' \in [Ops -> Steps] /\ stamp' \in [Ops -> Nat] /\ ephemeral' \subseteq Ids
    <3>1. "insert" \in Steps /\ "refused" \in Steps /\ "lookup" \in Steps
      BY DEF Steps
    <3>2. CASE GoInsert(o)
      BY <3>1, <3>2, GotoType DEF TypeOK, GoInsert
    <3>3. CASE Refuse(o)
      BY <3>1, <3>3, GotoType DEF TypeOK, Refuse
    <3>4. CASE Goto(o, "lookup") /\ UNCHANGED <<stamp, ephemeral>>
      BY <3>1, <3>4, GotoType DEF TypeOK
    <3> QED
      BY <3>2, <3>3, <3>4, <1>1 DEF StartCreate
  <2>2. owed' \in [Ids -> SUBSET Ops]
    BY <1>1 DEF TypeOK, StartCreate
  <2>3. kind' \in [Ops -> {"create", "update", "delete"}] /\ contended' \subseteq Ids /\ tainted' \subseteq Ids
    BY <1>1, IssueType DEF StartCreate
  <2> QED
    BY <2>1, <2>2, <2>3, <1>1 DEF TypeOK, StartCreate, numbering, refreshing, limits
<1>2. ASSUME NEW o \in Ops, NEW i \in Ids, StartUpdate(o, i) PROVE TypeOK'
  <2>1. kind' \in [Ops -> {"create", "update", "delete"}] /\ contended' \subseteq Ids /\ tainted' \subseteq Ids
    BY <1>2, IssueType DEF StartUpdate
  <2>2. /\ pc' \in [Ops -> Steps]
        /\ stamp' \in [Ops -> Nat]
        /\ canonical' \in [Ops -> MaybeEntity]
        /\ UNCHANGED <<target, fresh>>
    <3>1. CASE cache[i] = Absent
      <4>1. "resolve" \in Steps
        BY DEF Steps
      <4> QED
        BY <3>1, <4>1, <1>2, GotoType DEF TypeOK, StartUpdate
    <3>2. CASE cache[i] # Absent
      <4>1. cache[i] \in MaybeEntity /\ NextRev(cache[i].rev) \in Nat
        BY <3>2, EntityParts, NextRevNat DEF TypeOK
      <4>2. GoPatch(o, cache[i], NextRev(cache[i].rev))
        BY <3>2, <1>2 DEF StartUpdate
      <4> QED
        BY <4>1, <4>2, GoPatchType
    <3> QED
      BY <3>1, <3>2
  <2> QED
    BY <2>1, <2>2, <1>2 DEF TypeOK, StartUpdate, numbering, refreshing, limits
<1>3. ASSUME NEW o \in Ops, NEW i \in Ids, StartDelete(o, i) PROVE TypeOK'
  <2>1. pc' \in [Ops -> Steps]
    <3>1. "acked" \in Steps /\ "erase" \in Steps
      BY DEF Steps
    <3> QED
      BY <3>1, <1>3, GotoType DEF StartDelete
  <2>2. cache' \in [Ids -> MaybeEntity] /\ ephemeral' \subseteq Ids
    BY <1>3 DEF TypeOK, MaybeEntity, StartDelete
  <2>3. kind' \in [Ops -> {"create", "update", "delete"}] /\ contended' \subseteq Ids /\ tainted' \subseteq Ids
    BY <1>3, IssueType DEF StartDelete
  <2>4. owed' \in [Ids -> SUBSET Ops]
    BY <1>3 DEF TypeOK, StartDelete
  <2>5. writeSeq' \in Nat /\ lastWrite' \in [Ids -> Nat]
    BY <1>3 DEF TypeOK, StartDelete, RecordWrite
  <2> QED
    BY <2>1, <2>2, <2>3, <2>4, <2>5, <1>3 DEF TypeOK, StartDelete, refreshing, limits
<1>4. ASSUME NEW o \in Ops, LookupAnswers(o) PROVE TypeOK'
  BY <1>4 DEF TypeOK, MaybeEntity, Entity, Steps, LookupAnswers, Goto, GoInsert, Refuse,
    numbering, refreshing, limits, history
<1>5. ASSUME NEW o \in Ops, LookupFails(o) PROVE TypeOK'
  BY <1>5 DEF TypeOK, MaybeEntity, Entity, Steps, LookupFails, Goto, GoInsert,
    CallRejects, numbering, refreshing, history
<1>6. ASSUME NEW o \in Ops, StoreInserts(o) PROVE TypeOK'
  <2> DEFINE i == target[o]
  <2>1. store' \in [Ids -> MaybeEntity]
    <3>1. CASE store[i] = Absent
      <4>1. stamp[o] \in Nat /\ {o} \in SUBSET Ops
        BY DEF TypeOK
      <4>2. [rev |-> stamp[o], by |-> {o}] \in MaybeEntity
        BY <4>1, EntityMade
      <4>3. store' = [store EXCEPT ![i] = [rev |-> stamp[o], by |-> {o}]]
        BY <3>1, <1>6 DEF StoreInserts
      <4> QED
        BY <4>2, <4>3 DEF TypeOK
    <3>2. CASE store[i] # Absent
      <4>1. PICK rev \in {store[i].rev, stamp[o]} :
              store' = [store EXCEPT ![i] = [rev |-> rev, by |-> store[i].by \cup {o}]]
        BY <3>2, <1>6 DEF StoreInserts
      <4>2. rev \in Nat /\ store[i].by \cup {o} \in SUBSET Ops
        BY <3>2, EntityParts DEF TypeOK
      <4> QED
        BY <4>1, <4>2, EntityMade DEF TypeOK
    <3> QED
      BY <3>1, <3>2
  <2>2. pc' \in [Ops -> Steps]
    BY <1>6 DEF TypeOK, Steps, StoreInserts, Goto
  <2>3. owed' \in [Ids -> SUBSET Ops] /\ contended' \subseteq Ids /\ tainted' \subseteq Ids
    BY <1>6 DEF TypeOK, StoreInserts, Taint, history
  <2> QED
    BY <2>1, <2>2, <2>3, <1>6 DEF TypeOK, StoreInserts, numbering, refreshing, limits
<1>7. ASSUME NEW o \in Ops, CreateFinishes(o) PROVE TypeOK'
  BY <1>7 DEF TypeOK, MaybeEntity, Entity, Steps, CreateFinishes, Goto, Finish,
    RecordWrite, refreshing, limits
<1>8. ASSUME NEW o \in Ops, ResolveAnswers(o) PROVE TypeOK'
  <2> DEFINE found == store[target[o]]
  <2>1. CASE found = Absent
    <3>1. "refused" \in Steps
      BY DEF Steps
    <3>2. Finish(o, "refused")
      BY <2>1, <1>8 DEF ResolveAnswers
    <3> QED
      BY <3>1, <3>2, <1>8, FinishType DEF TypeOK, ResolveAnswers, numbering, refreshing,
        limits, history
  <2>2. CASE found # Absent
    <3>1. found \in MaybeEntity /\ NextRev(found.rev) \in Nat
      BY <2>2, EntityParts, NextRevNat DEF TypeOK
    <3>2. GoPatch(o, found, NextRev(found.rev)) /\ UNCHANGED kind
      BY <2>2, <1>8 DEF ResolveAnswers
    <3> QED
      BY <3>1, <3>2, <1>8, GoPatchType DEF TypeOK, ResolveAnswers, numbering, refreshing,
        limits, history
  <2> QED
    BY <2>1, <2>2
<1>9. ASSUME NEW o \in Ops, ResolveFails(o) PROVE TypeOK'
  BY <1>9 DEF TypeOK, MaybeEntity, Entity, Steps, ResolveFails, Goto, Finish, CallRejects,
    numbering, refreshing, history
<1>10. ASSUME NEW o \in Ops, StorePatches(o) PROVE TypeOK'
  BY <1>10 DEF TypeOK, MaybeEntity, Entity, Steps, StorePatches, Goto, numbering,
    refreshing, limits, history
<1>11. ASSUME NEW o \in Ops, ReadBackAnswers(o) PROVE TypeOK'
  BY <1>11 DEF TypeOK, MaybeEntity, Entity, Steps, ReadBackAnswers, Goto, numbering,
    refreshing, limits, history
<1>12. ASSUME NEW o \in Ops, ReadBackFails(o) PROVE TypeOK'
  BY <1>12 DEF TypeOK, MaybeEntity, Entity, Steps, ReadBackFails, Goto, CallRejects,
    numbering, refreshing, history
<1>13. ASSUME NEW o \in Ops, UpdateReachedNothing(o) PROVE TypeOK'
  BY <1>13 DEF TypeOK, MaybeEntity, Entity, Steps, UpdateReachedNothing, Goto, Finish,
    Taint, numbering, refreshing, limits
<1>14. ASSUME NEW o \in Ops, UpdateFinishes(o) PROVE TypeOK'
  <2> DEFINE i == target[o]
             from == IF fresh[o] # Absent THEN fresh[o] ELSE canonical[o]
  <2>1. cache' = [cache EXCEPT ![i] = [rev |-> stamp[o], by |-> from.by \cup {o}]]
    BY <1>14 DEF UpdateFinishes
  <2>2. from # Absent /\ from \in MaybeEntity
    BY <1>14 DEF TypeOK, UpdateFinishes, OpInv, OpOK, Patching
  <2>3. [rev |-> stamp[o], by |-> from.by \cup {o}] \in MaybeEntity
    <3>1. stamp[o] \in Nat /\ from.by \cup {o} \in SUBSET Ops
      BY <2>2, EntityParts DEF TypeOK
    <3> QED
      BY <3>1, EntityMade
  <2>4. cache' \in [Ids -> MaybeEntity]
    BY <2>1, <2>3 DEF TypeOK
  <2>5. "acked" \in Steps
    BY DEF Steps
  <2>6. owed' \in [Ids -> SUBSET Ops]
    BY <1>14 DEF TypeOK, UpdateFinishes
  <2>7. writeSeq' \in Nat /\ lastWrite' \in [Ids -> Nat]
    BY <1>14 DEF TypeOK, UpdateFinishes, RecordWrite
  <2>8. Finish(o, "acked")
    BY <1>14 DEF UpdateFinishes
  <2> QED
    BY <2>4, <2>5, <2>6, <2>7, <2>8, <1>14, FinishType DEF TypeOK, UpdateFinishes,
      refreshing, limits
<1>15. ASSUME NEW o \in Ops, StoreErases(o) PROVE TypeOK'
  BY <1>15 DEF TypeOK, MaybeEntity, Entity, Steps, StoreErases, Goto, numbering,
    refreshing, limits, history
<1>16. ASSUME NEW o \in Ops, DeleteFinishes(o) PROVE TypeOK'
  BY <1>16 DEF TypeOK, MaybeEntity, Entity, Steps, DeleteFinishes, Goto, Finish,
    numbering, refreshing, limits
<1>17. ASSUME NEW o \in Ops, CallFails(o) PROVE TypeOK'
  BY <1>17 DEF TypeOK, MaybeEntity, Entity, Steps, CallFails, Goto, Finish, CallRejects,
    Taint, numbering, refreshing
<1>18. ASSUME NEW i \in Ids, AddEphemeral(i) PROVE TypeOK'
  BY <1>18 DEF TypeOK, MaybeEntity, Entity, Steps, AddEphemeral, RecordWrite, writes,
    refreshing, limits
<1>19. ASSUME NEW i \in Ids, RemoveEphemeral(i) PROVE TypeOK'
  BY <1>19 DEF TypeOK, MaybeEntity, Entity, Steps, RemoveEphemeral, RecordWrite,
    NoteStart, writes, refreshing, limits
<1>20. ASSUME NEW r \in Refreshes, NEW i \in Ids, TriggerIdRefresh(r, i) PROVE TypeOK'
  BY <1>20 DEF TypeOK, MaybeEntity, Entity, Steps, TriggerIdRefresh, BeginRefresh,
    numbering, writes, limits
<1>21. ASSUME NEW r \in Refreshes, TriggerTypeRefresh(r) PROVE TypeOK'
  BY <1>21, AnyIdIsId DEF TypeOK, MaybeEntity, Entity, Steps, TriggerTypeRefresh,
    BeginRefresh, numbering, writes, limits
<1>22. ASSUME NEW r \in Refreshes, StoreAnswersRefresh(r) PROVE TypeOK'
  BY <1>22 DEF TypeOK, MaybeEntity, Entity, Steps, StoreAnswersRefresh, numbering, writes,
    limits, history
<1>23. ASSUME NEW r \in Refreshes, ApplyRefresh(r) PROVE TypeOK'
  BY <1>23, AnyIdIsId DEF TypeOK, MaybeEntity, Entity, Steps, ApplyRefresh, FreeSlot,
    EndRefresh, Nothing, writes, limits, history
<1>24. ASSUME NEW r \in Refreshes, RefreshFails(r) PROVE TypeOK'
  BY <1>24, AnyIdIsId DEF TypeOK, MaybeEntity, Entity, Steps, RefreshFails, FreeSlot,
    EndRefresh, CallRejects, Nothing, writes, history
<1>25. CASE Tick
  BY <1>25 DEF TypeOK, Tick, numbering, writes, refreshing, history
<1>26. CASE UNCHANGED vars
  BY <1>26 DEF TypeOK, vars, numbering, writes, refreshing, limits, history
<1> QED
  BY <1>1, <1>2, <1>3, <1>4, <1>5, <1>6, <1>7, <1>8, <1>9, <1>10, <1>11, <1>12, <1>13,
    <1>14, <1>15, <1>16, <1>17, <1>18, <1>19, <1>20, <1>21, <1>22, <1>23, <1>24, <1>25,
    <1>26 DEF Next, StartWrite, Proceed, Reject

-----------------------------------------------------------------------------
(* The invariant is preserved.                                             *)

\* A step of one write, seen from outside: what it leaves alone.
Concerns(w) ==
    /\ pc[w] # "acked"
    /\ target' = target
    /\ contended \subseteq contended'
    /\ \A p \in Ops \ {w} : /\ pc'[p] = pc[p] /\ kind'[p] = kind[p]
                            /\ canonical'[p] = canonical[p] /\ fresh'[p] = fresh[p]
    /\ \A i \in Ids \ {target[w]} : /\ store'[i] = store[i] /\ owed'[i] = owed[i]
                                    /\ i \in ephemeral' => i \in ephemeral
    /\ target[w] \in ephemeral' => target[w] \in ephemeral
    /\ target[w] \notin contended' => \A p \in Ops \ {w} : target[p] = target[w] => ~Active(p)

\* A write is not disturbed by a step that concerns another id.
LEMMA OpElsewhere ==
  ASSUME TypeOK, OpInv, IdInv, NEW o \in Ops, NEW w \in Ops, Concerns(w), target[o] # target[w]
  PROVE  OpOK(o)'
<1>1. target[o] \in Ids \ {target[w]} /\ o \in Ops \ {w}
  BY DEF TypeOK
<1>2. \A e : Shows(e, target[o])' <=> Shows(e, target[o])
  <2>1. owed'[target[o]] = owed[target[o]] /\ target'[o] = target[o]
    BY <1>1 DEF Concerns
  <2>2. \A x \in owed[target[o]] : x \in Ops /\ pc[x] = "acked"
    BY <1>1 DEF TypeOK, IdInv, IdOK
  <2>3. \A x \in owed[target[o]] : kind'[x] = kind[x]
    BY <2>2 DEF Concerns
  <2> QED
    BY <2>1, <2>3 DEF Shows
<1>3. /\ pc'[o] = pc[o] /\ kind'[o] = kind[o] /\ target'[o] = target[o]
      /\ canonical'[o] = canonical[o] /\ fresh'[o] = fresh[o]
      /\ store'[target[o]] = store[target[o]] /\ owed'[target[o]] = owed[target[o]]
      /\ target[o] \in ephemeral' => target[o] \in ephemeral
      /\ target[o] \in contended => target[o] \in contended'
  BY <1>1 DEF Concerns
<1>4. \A p \in Ops : target[p] = target[o] => pc'[p] = pc[p]
  BY DEF Concerns
<1>5. OpOK(o)
  BY DEF OpInv
<1>6. \A p \in Ops : Active(o)' /\ Active(p)' /\ target'[p] = target'[o] =>
         Active(o) /\ Active(p) /\ target[p] = target[o]
  BY <1>3, <1>4 DEF Active, Concerns
<1>7. Shows(canonical[o], target[o])' <=> Shows(canonical[o], target[o])
  BY <1>2, <1>3 DEF Shows
<1>8. Shows(fresh[o], target[o])' <=> Shows(fresh[o], target[o])
  BY <1>2, <1>3 DEF Shows
<1> QED
  BY <1>3, <1>5, <1>6, <1>7, <1>8 DEF OpOK, Replacing, Patching

\* A write that is over is not disturbed by another write to its id.
LEMMA OpBeside ==
  ASSUME TypeOK, OpInv, NEW o \in Ops, NEW w \in Ops, o # w, Concerns(w), target[o] = target[w]
  PROVE  OpOK(o)'
<1>1. OpOK(o) /\ target[o] \in Ids
  BY DEF OpInv, TypeOK
<1>2. /\ pc'[o] = pc[o] /\ kind'[o] = kind[o] /\ target'[o] = target[o]
      /\ canonical'[o] = canonical[o] /\ fresh'[o] = fresh[o]
      /\ target[o] \in ephemeral' => target[o] \in ephemeral
      /\ target[o] \in contended => target[o] \in contended'
      /\ target[o] \notin contended' => ~Active(o)
  BY DEF Concerns
<1> QED
  BY <1>1, <1>2 DEF OpOK, Replacing, Patching, Active

\* A step of one write keeps what the others know.
LEMMA OthersKeep ==
  ASSUME TypeOK, OpInv, IdInv, NEW w \in Ops, Concerns(w)
  PROVE  \A o \in Ops \ {w} : OpOK(o)'
BY OpElsewhere, OpBeside

\* While a write to an id that no other overlapped is in flight, no other is.
LEMMA Alone ==
  ASSUME TypeOK, OpInv, NEW o \in Ops, NEW w \in Ops, o # w, target[o] = target[w],
         Active(w), target[w] \notin contended
  PROVE  ~Active(o)
BY DEF OpInv, OpOK

\* The last refresh in flight is the only one.
LEMMA LastOne ==
  ASSUME CountInv, inFlight = 1, NEW q \in Refreshes, NEW r \in Refreshes, Running(q), Running(r)
  PROVE  q = r
<1> DEFINE S == {x \in Refreshes : Running(x)}
<1>1. IsFiniteSet(S)
  BY FS_Subset, FiniteAssumption
<1>2. SUFFICES ASSUME q # r PROVE FALSE
  OBVIOUS
<1>3. Cardinality({q}) = 1 /\ IsFiniteSet({q})
  BY FS_Singleton
<1>4. Cardinality({q} \cup {r}) = 2
  BY <1>2, <1>3, FS_AddElement
<1>5. {q} \cup {r} \subseteq S
  OBVIOUS
<1>6. Cardinality({q} \cup {r}) \leq Cardinality(S)
  BY <1>1, <1>5, FS_Subset
<1> QED
  BY <1>4, <1>6 DEF CountInv

\* What the writes in flight know stays true.
LEMMA OpStep == TypeOK /\ OpInv /\ IdInv /\ RefreshInv /\ CountInv /\ [Next]_vars => OpInv'
<1> SUFFICES ASSUME TypeOK, OpInv, IdInv, RefreshInv, CountInv, [Next]_vars, NEW o \in Ops PROVE OpOK(o)'
  BY DEF OpInv
<1>1. ASSUME NEW w \in Ops, NEW j \in Ids, StartCreate(w, j) PROVE OpOK(o)'
  <2>1. CASE o = w
    BY <2>1, <1>1, SMTT(20) DEF TypeOK, OpInv, OpOK, IdInv, IdOK, Shows, Replacing,
      Patching, Active, Busy, StartCreate, Issue, NoteStart, Goto, GoInsert, Refuse,
      numbering, refreshing, limits
  <2>2. Concerns(w)
    BY <1>1 DEF TypeOK, Busy, Concerns, StartCreate, Issue, NoteStart, Goto, GoInsert,
      Refuse, numbering, refreshing, limits
  <2> QED
    BY <2>1, <2>2, OthersKeep
<1>2. ASSUME NEW w \in Ops, NEW j \in Ids, StartUpdate(w, j) PROVE OpOK(o)'
  <2>1. CASE o = w
    BY <2>1, <1>2, SMTT(20) DEF TypeOK, OpInv, OpOK, IdInv, IdOK, Shows, Replacing,
      Patching, Active, Busy, StartUpdate, Issue, NoteStart, Goto, GoPatch, NextRev,
      numbering, refreshing, limits
  <2>2. Concerns(w)
    BY <1>2 DEF TypeOK, Busy, Concerns, StartUpdate, Issue, NoteStart, Goto, GoPatch,
      NextRev, numbering, refreshing, limits
  <2> QED
    BY <2>1, <2>2, OthersKeep
<1>3. ASSUME NEW w \in Ops, NEW j \in Ids, StartDelete(w, j) PROVE OpOK(o)'
  <2>1. CASE o = w
    BY <2>1, <1>3, SMTT(20) DEF TypeOK, OpInv, OpOK, IdInv, IdOK, Shows, Replacing,
      Patching, Active, Busy, StartDelete, Issue, NoteStart, Goto, RecordWrite,
      refreshing, limits
  <2>2. Concerns(w)
    BY <1>3 DEF TypeOK, Busy, Concerns, StartDelete, Issue, NoteStart, Goto, RecordWrite,
      refreshing, limits
  <2> QED
    BY <2>1, <2>2, OthersKeep
<1>4. ASSUME NEW w \in Ops, LookupAnswers(w) PROVE OpOK(o)'
  <2>1. CASE o = w
    <3>1. /\ pc[w] = "lookup" /\ pc'[w] \in {"insert", "refused"}
          /\ \A p \in Ops \ {w} : pc'[p] = pc[p]
          /\ ephemeral' \subseteq ephemeral
          /\ UNCHANGED <<store, owed, contended, kind, target, canonical, fresh>>
      BY <1>4 DEF TypeOK, LookupAnswers, Goto, GoInsert, Refuse, history
    <3>2. OpOK(w)
      BY DEF OpInv
    <3>3. ASSUME NEW p \in Ops, p # w, target[p] = target[w], target[w] \notin contended
          PROVE  ~Active(p)'
      BY <3>1, <3>3, Alone DEF Active
    <3>4. target[w] \notin ephemeral /\ fresh[w] = Absent
      BY <3>1, <3>2 DEF OpOK, Replacing
    <3>5. target[w] \notin contended => owed[target[w]] = {}
      BY <3>1, <3>2 DEF OpOK, Replacing
    <3> QED
      BY <2>1, <3>1, <3>3, <3>4, <3>5 DEF OpOK, Replacing, Patching
  <2>2. Concerns(w)
    BY <1>4, Alone DEF TypeOK, Active, Concerns, LookupAnswers, Goto, GoInsert, Refuse,
      numbering, refreshing, limits, history
  <2> QED
    BY <2>1, <2>2, OthersKeep
<1>5. ASSUME NEW w \in Ops, LookupFails(w) PROVE OpOK(o)'
  <2>1. CASE o = w
    <3>1. /\ pc[w] = "lookup" /\ pc'[w] \in {"insert", "refused"}
          /\ \A p \in Ops \ {w} : pc'[p] = pc[p]
          /\ ephemeral' \subseteq ephemeral
          /\ UNCHANGED <<store, owed, contended, kind, target, canonical, fresh>>
      BY <1>5 DEF TypeOK, LookupFails, Goto, GoInsert, CallRejects, history
    <3>2. OpOK(w)
      BY DEF OpInv
    <3>3. ASSUME NEW p \in Ops, p # w, target[p] = target[w], target[w] \notin contended
          PROVE  ~Active(p)'
      BY <3>1, <3>3, Alone DEF Active
    <3>4. target[w] \notin ephemeral /\ fresh[w] = Absent
      BY <3>1, <3>2 DEF OpOK, Replacing
    <3>5. target[w] \notin contended => owed[target[w]] = {}
      BY <3>1, <3>2 DEF OpOK, Replacing
    <3> QED
      BY <2>1, <3>1, <3>3, <3>4, <3>5 DEF OpOK, Replacing, Patching
  <2>2. Concerns(w)
    BY <1>5, Alone DEF TypeOK, Active, Concerns, LookupFails, Goto, GoInsert, CallRejects,
      numbering, refreshing, history
  <2> QED
    BY <2>1, <2>2, OthersKeep
<1>6. ASSUME NEW w \in Ops, StoreInserts(w) PROVE OpOK(o)'
  <2>1. CASE o = w
    <3>1. store'[target[w]] # Absent /\ w \in store'[target[w]].by
      <4>1. CASE store[target[w]] = Absent
        <5>1. store' = [store EXCEPT ![target[w]] = [rev |-> stamp[w], by |-> {w}]]
          BY <4>1, <1>6 DEF StoreInserts
        <5>2. stamp[w] \in Nat /\ {w} \in SUBSET Ops /\ target[w] \in Ids
          BY DEF TypeOK
        <5> QED
          BY <5>1, <5>2, EntityMade DEF TypeOK
      <4>2. CASE store[target[w]] # Absent
        <5>1. PICK rev \in {store[target[w]].rev, stamp[w]} :
                store' = [store EXCEPT ![target[w]] = [rev |-> rev, by |-> store[target[w]].by \cup {w}]]
          BY <4>2, <1>6 DEF StoreInserts
        <5>2. rev \in Nat /\ store[target[w]].by \cup {w} \in SUBSET Ops /\ target[w] \in Ids
          BY <4>2, EntityParts DEF TypeOK
        <5> QED
          BY <5>1, <5>2, EntityMade DEF TypeOK
      <4> QED
        BY <4>1, <4>2
    <3>2. /\ pc' = [pc EXCEPT ![w] = "inserted"] /\ pc[w] = "insert"
          /\ UNCHANGED <<ephemeral, kind, target, canonical, fresh, owed, contended>>
      BY <1>6 DEF StoreInserts, Goto, Taint, history
    <3> QED
      BY <2>1, <3>1, <3>2 DEF TypeOK, OpInv, OpOK, Replacing, Patching, Active

  <2>2. Concerns(w)
    BY <1>6, Alone DEF TypeOK, Active, Concerns, StoreInserts, Goto, Taint, numbering,
      refreshing, limits, history
  <2> QED
    BY <2>1, <2>2, OthersKeep
<1>7. ASSUME NEW w \in Ops, CreateFinishes(w) PROVE OpOK(o)'
  <2>1. CASE o = w
    BY <2>1, <1>7, SMTT(20) DEF TypeOK, OpInv, OpOK, IdInv, IdOK, Shows, Replacing,
      Patching, Active, Busy, CreateFinishes, Goto, Finish, RecordWrite, refreshing,
      limits
  <2>2. Concerns(w)
    BY <1>7, Alone DEF TypeOK, Active, Concerns, CreateFinishes, Goto, Finish,
      RecordWrite, refreshing, limits
  <2> QED
    BY <2>1, <2>2, OthersKeep
<1>8. ASSUME NEW w \in Ops, ResolveAnswers(w) PROVE OpOK(o)'
  <2>1. CASE o = w
    <3>1. CASE store[target[w]] = Absent
      <4>1. /\ pc' = [pc EXCEPT ![w] = "refused"] /\ pc[w] = "resolve"
            /\ fresh' = [fresh EXCEPT ![w] = Absent]
            /\ UNCHANGED <<ephemeral, kind, target, contended>>
        BY <3>1, <1>8 DEF ResolveAnswers, Finish, Goto, history
      <4> QED
        BY <2>1, <4>1 DEF TypeOK, OpInv, OpOK, Replacing, Patching, Active
    <3>2. CASE store[target[w]] # Absent
      <4>1. /\ pc' = [pc EXCEPT ![w] = "patch"] /\ pc[w] = "resolve"
            /\ canonical' = [canonical EXCEPT ![w] = store[target[w]]]
            /\ UNCHANGED <<ephemeral, kind, target, fresh, owed, contended>>
        BY <3>2, <1>8 DEF ResolveAnswers, GoPatch, Goto, history
      <4>2. canonical'[w] = store[target[w]] /\ pc'[w] = "patch" /\ target[w] \in Ids
        BY <4>1 DEF TypeOK
      <4>3. target[w] \notin contended => Shows(canonical[w], target[w])'
        BY <4>1, <4>2 DEF IdInv, IdOK, Shows
      <4>4. ASSUME NEW p \in Ops, p # w, target[p] = target[w], target[w] \notin contended
            PROVE  ~Active(p)'
        BY <4>1, <4>4, Alone DEF TypeOK, Active
      <4>5. fresh'[w] = Absent
        BY <4>1 DEF OpInv, OpOK
      <4> QED
        BY <2>1, <3>2, <4>1, <4>2, <4>3, <4>4, <4>5 DEF OpOK, Replacing, Patching
    <3> QED
      BY <3>1, <3>2

  <2>2. Concerns(w)
    <3>1. /\ Active(w) /\ UNCHANGED <<store, ephemeral, owed, contended, kind, target>>
          /\ \A p \in Ops \ {w} : pc'[p] = pc[p] /\ canonical'[p] = canonical[p] /\ fresh'[p] = fresh[p]
      <4>1. CASE store[target[w]] = Absent
        BY <1>8, <4>1 DEF TypeOK, Active, ResolveAnswers, Goto, Finish, GoPatch, history
      <4>2. CASE store[target[w]] # Absent
        BY <1>8, <4>2 DEF TypeOK, Active, ResolveAnswers, Goto, Finish, GoPatch, history
      <4> QED
        BY <4>1, <4>2
    <3>2. target[w] \notin contended => \A p \in Ops \ {w} : target[p] = target[w] => ~Active(p)
      BY <3>1, Alone
    <3>3. target[w] \notin contended' => \A p \in Ops \ {w} : target[p] = target[w] => ~Active(p)
      BY <3>1, <3>2
    <3>4. pc[w] # "acked"
      BY <3>1 DEF Active
    <3> QED
      BY <3>1, <3>3, <3>4 DEF Concerns
  <2> QED
    BY <2>1, <2>2, OthersKeep
<1>9. ASSUME NEW w \in Ops, ResolveFails(w) PROVE OpOK(o)'
  <2>1. CASE o = w
    BY <2>1, <1>9, SMTT(20) DEF TypeOK, OpInv, OpOK, IdInv, IdOK, Shows, Replacing,
      Patching, Active, Busy, ResolveFails, Goto, Finish, CallRejects, numbering,
      refreshing, history
  <2>2. Concerns(w)
    BY <1>9, Alone DEF TypeOK, Active, Concerns, ResolveFails, Goto, Finish, CallRejects,
      numbering, refreshing, history
  <2> QED
    BY <2>1, <2>2, OthersKeep
<1>10. ASSUME NEW w \in Ops, StorePatches(w) PROVE OpOK(o)'
  <2>1. CASE o = w
    <3>1. /\ pc' = [pc EXCEPT ![w] = "patched"] /\ pc[w] = "patch"
          /\ UNCHANGED <<ephemeral, kind, target, canonical, fresh, owed, contended>>
      BY <1>10 DEF StorePatches, Goto, history
    <3>2. Shows(canonical[w], target[w])' <=> Shows(canonical[w], target[w])
      BY <3>1 DEF Shows
    <3>3. fresh'[w] = Absent
      BY <3>1 DEF OpInv, OpOK
    <3>4. ASSUME NEW p \in Ops, p # w, target[p] = target[w], target[w] \notin contended
          PROVE  ~Active(p)'
      BY <3>1, <3>4, Alone DEF TypeOK, Active
    <3>5. pc'[w] = "patched"
      BY <3>1 DEF TypeOK
    <3> QED
      BY <2>1, <3>1, <3>2, <3>3, <3>4, <3>5 DEF OpInv, OpOK, Replacing, Patching

  <2>2. Concerns(w)
    BY <1>10, Alone DEF TypeOK, Active, Concerns, StorePatches, Goto, numbering,
      refreshing, limits, history
  <2> QED
    BY <2>1, <2>2, OthersKeep
<1>11. ASSUME NEW w \in Ops, ReadBackAnswers(w) PROVE OpOK(o)'
  <2>1. CASE o = w
    BY <2>1, <1>11, SMTT(20) DEF TypeOK, OpInv, OpOK, IdInv, IdOK, Shows, Replacing,
      Patching, Active, Busy, ReadBackAnswers, Goto, numbering, refreshing, limits,
      history
  <2>2. Concerns(w)
    BY <1>11, Alone DEF TypeOK, Active, Concerns, ReadBackAnswers, Goto, numbering,
      refreshing, limits, history
  <2> QED
    BY <2>1, <2>2, OthersKeep
<1>12. ASSUME NEW w \in Ops, ReadBackFails(w) PROVE OpOK(o)'
  <2>1. CASE o = w
    <3>1. /\ pc' = [pc EXCEPT ![w] = "unread"] /\ pc[w] = "patched"
          /\ UNCHANGED <<ephemeral, kind, target, canonical, fresh, owed, contended>>
      BY <1>12 DEF ReadBackFails, Goto, history
    <3>2. Shows(canonical[w], target[w])' <=> Shows(canonical[w], target[w])
      BY <3>1 DEF Shows
    <3>3. fresh'[w] = Absent
      BY <3>1 DEF OpInv, OpOK
    <3>4. ASSUME NEW p \in Ops, p # w, target[p] = target[w], target[w] \notin contended
          PROVE  ~Active(p)'
      BY <3>1, <3>4, Alone DEF TypeOK, Active
    <3>5. pc'[w] = "unread"
      BY <3>1 DEF TypeOK
    <3> QED
      BY <2>1, <3>1, <3>2, <3>3, <3>4, <3>5 DEF OpInv, OpOK, Replacing, Patching

  <2>2. Concerns(w)
    BY <1>12, Alone DEF TypeOK, Active, Concerns, ReadBackFails, Goto, CallRejects,
      numbering, refreshing, history
  <2> QED
    BY <2>1, <2>2, OthersKeep
<1>13. ASSUME NEW w \in Ops, UpdateReachedNothing(w) PROVE OpOK(o)'
  <2>1. CASE o = w
    BY <2>1, <1>13, SMTT(20) DEF TypeOK, OpInv, OpOK, IdInv, IdOK, Shows, Replacing,
      Patching, Active, Busy, UpdateReachedNothing, Goto, Finish, Taint, numbering,
      refreshing, limits
  <2>2. Concerns(w)
    BY <1>13, Alone DEF TypeOK, Active, Concerns, UpdateReachedNothing, Goto, Finish,
      Taint, numbering, refreshing, limits
  <2> QED
    BY <2>1, <2>2, OthersKeep
<1>14. ASSUME NEW w \in Ops, UpdateFinishes(w) PROVE OpOK(o)'
  <2>1. CASE o = w
    BY <2>1, <1>14, SMTT(20) DEF TypeOK, OpInv, OpOK, IdInv, IdOK, Shows, Replacing,
      Patching, Active, Busy, UpdateFinishes, Goto, Finish, RecordWrite, refreshing,
      limits
  <2>2. Concerns(w)
    BY <1>14, Alone DEF TypeOK, Active, Concerns, UpdateFinishes, Goto, Finish,
      RecordWrite, refreshing, limits
  <2> QED
    BY <2>1, <2>2, OthersKeep
<1>15. ASSUME NEW w \in Ops, StoreErases(w) PROVE OpOK(o)'
  <2>1. CASE o = w
    <3>1. /\ pc' = [pc EXCEPT ![w] = "erased"] /\ pc[w] = "erase"
          /\ UNCHANGED <<ephemeral, kind, target, canonical, fresh, owed, contended>>
      BY <1>15 DEF StoreErases, Goto, history
    <3> QED
      BY <2>1, <3>1 DEF TypeOK, OpInv, OpOK, Replacing, Patching, Active

  <2>2. Concerns(w)
    BY <1>15, Alone DEF TypeOK, Active, Concerns, StoreErases, Goto, numbering,
      refreshing, limits, history
  <2> QED
    BY <2>1, <2>2, OthersKeep
<1>16. ASSUME NEW w \in Ops, DeleteFinishes(w) PROVE OpOK(o)'
  <2>1. CASE o = w
    BY <2>1, <1>16, SMTT(20) DEF TypeOK, OpInv, OpOK, IdInv, IdOK, Shows, Replacing,
      Patching, Active, Busy, DeleteFinishes, Goto, Finish, numbering, refreshing, limits
  <2>2. Concerns(w)
    BY <1>16, Alone DEF TypeOK, Active, Concerns, DeleteFinishes, Goto, Finish, numbering,
      refreshing, limits
  <2> QED
    BY <2>1, <2>2, OthersKeep
<1>17. ASSUME NEW w \in Ops, CallFails(w) PROVE OpOK(o)'
  <2>1. CASE o = w
    BY <2>1, <1>17, SMTT(20) DEF TypeOK, OpInv, OpOK, IdInv, IdOK, Shows, Replacing,
      Patching, Active, Busy, CallFails, Goto, Finish, CallRejects, Taint, numbering,
      refreshing
  <2>2. Concerns(w)
    BY <1>17, Alone DEF TypeOK, Active, Concerns, CallFails, Goto, Finish, CallRejects,
      Taint, numbering, refreshing
  <2> QED
    BY <2>1, <2>2, OthersKeep
<1>18. ASSUME NEW j \in Ids, AddEphemeral(j) PROVE OpOK(o)'
  BY <1>18, SMTT(20) DEF TypeOK, OpInv, OpOK, IdInv, IdOK, Shows, Replacing, Patching,
    Active, Busy, AddEphemeral, RecordWrite, writes, refreshing, limits
<1>19. ASSUME NEW j \in Ids, RemoveEphemeral(j) PROVE OpOK(o)'
  BY <1>19, SMTT(20) DEF TypeOK, OpInv, OpOK, IdInv, IdOK, Shows, Replacing, Patching,
    Active, Busy, RemoveEphemeral, RecordWrite, NoteStart, writes, refreshing, limits
<1>20. ASSUME NEW q \in Refreshes, NEW j \in Ids, TriggerIdRefresh(q, j) PROVE OpOK(o)'
  BY <1>20, SMTT(20) DEF TypeOK, OpInv, OpOK, IdInv, IdOK, Shows, Replacing, Patching,
    Active, Busy, TriggerIdRefresh, BeginRefresh, numbering, writes, limits
<1>21. ASSUME NEW q \in Refreshes, TriggerTypeRefresh(q) PROVE OpOK(o)'
  BY <1>21, SMTT(20) DEF TypeOK, OpInv, OpOK, IdInv, IdOK, Shows, Replacing, Patching,
    Active, Busy, TriggerTypeRefresh, BeginRefresh, numbering, writes, limits
<1>22. ASSUME NEW q \in Refreshes, StoreAnswersRefresh(q) PROVE OpOK(o)'
  BY <1>22, SMTT(20) DEF TypeOK, OpInv, OpOK, IdInv, IdOK, Shows, Replacing, Patching,
    Active, Busy, StoreAnswersRefresh, numbering, writes, limits, history
<1>23. ASSUME NEW q \in Refreshes, ApplyRefresh(q) PROVE OpOK(o)'
  BY <1>23, SMTT(20) DEF TypeOK, OpInv, OpOK, IdInv, IdOK, Shows, Replacing, Patching,
    Active, Busy, ApplyRefresh, FreeSlot, EndRefresh, writes, limits, history
<1>24. ASSUME NEW q \in Refreshes, RefreshFails(q) PROVE OpOK(o)'
  BY <1>24, SMTT(20) DEF TypeOK, OpInv, OpOK, IdInv, IdOK, Shows, Replacing, Patching,
    Active, Busy, RefreshFails, FreeSlot, EndRefresh, CallRejects, writes, history
<1>25. CASE Tick
  BY <1>25 DEF TypeOK, OpInv, OpOK, IdInv, IdOK, Shows, Replacing, Patching, Active, Busy,
    Tick, numbering, writes, refreshing, history
<1>26. CASE UNCHANGED vars
  BY <1>26 DEF TypeOK, OpInv, OpOK, IdInv, IdOK, Shows, Replacing, Patching, Active, Busy,
    vars, numbering, writes, refreshing, limits, history
<1> QED
  BY <1>1, <1>2, <1>3, <1>4, <1>5, <1>6, <1>7, <1>8, <1>9, <1>10, <1>11, <1>12, <1>13,
    <1>14, <1>15, <1>16, <1>17, <1>18, <1>19, <1>20, <1>21, <1>22, <1>23, <1>24, <1>25,
    <1>26 DEF Next, StartWrite, Proceed, Reject

\* Cache and store go on showing what was acknowledged.
LEMMA IdStep == TypeOK /\ OpInv /\ IdInv /\ RefreshInv /\ CountInv /\ [Next]_vars => IdInv'
<1> SUFFICES ASSUME TypeOK, OpInv, IdInv, RefreshInv, CountInv, [Next]_vars, NEW i \in Ids PROVE IdOK(i)'
  BY DEF IdInv
<1>1. ASSUME NEW w \in Ops, NEW j \in Ids, StartCreate(w, j) PROVE IdOK(i)'
  BY <1>1, SMTT(20) DEF TypeOK, OpInv, OpOK, IdInv, IdOK, Shows, Replacing, Patching,
    Active, Busy, StartCreate, Issue, NoteStart, Goto, GoInsert, Refuse, numbering,
    refreshing, limits
<1>2. ASSUME NEW w \in Ops, NEW j \in Ids, StartUpdate(w, j) PROVE IdOK(i)'
  BY <1>2, SMTT(20) DEF TypeOK, OpInv, OpOK, IdInv, IdOK, Shows, Replacing, Patching,
    Active, Busy, StartUpdate, Issue, NoteStart, Goto, GoPatch, NextRev, numbering,
    refreshing, limits
<1>3. ASSUME NEW w \in Ops, NEW j \in Ids, StartDelete(w, j) PROVE IdOK(i)'
  BY <1>3, SMTT(20) DEF TypeOK, OpInv, OpOK, IdInv, IdOK, Shows, Replacing, Patching,
    Active, Busy, StartDelete, Issue, NoteStart, Goto, RecordWrite, refreshing, limits
<1>4. ASSUME NEW w \in Ops, LookupAnswers(w) PROVE IdOK(i)'
  BY <1>4, SMTT(20) DEF TypeOK, OpInv, OpOK, IdInv, IdOK, Shows, Replacing, Patching,
    Active, Busy, LookupAnswers, Goto, GoInsert, Refuse, numbering, refreshing, limits,
    history
<1>5. ASSUME NEW w \in Ops, LookupFails(w) PROVE IdOK(i)'
  BY <1>5, SMTT(20) DEF TypeOK, OpInv, OpOK, IdInv, IdOK, Shows, Replacing, Patching,
    Active, Busy, LookupFails, Goto, GoInsert, CallRejects, numbering, refreshing, history
<1>6. ASSUME NEW w \in Ops, StoreInserts(w) PROVE IdOK(i)'
  <2>1. CASE i = target[w]
    BY <2>1, <1>6, SMTT(20) DEF TypeOK, OpInv, OpOK, IdInv, IdOK, Shows, Replacing,
      Patching, Active, Busy, StoreInserts, Goto, Taint, numbering, refreshing, limits,
      history
  <2>2. CASE i # target[w]
    BY <2>2, <1>6, SMTT(20) DEF TypeOK, OpInv, OpOK, IdInv, IdOK, Shows, Replacing,
      Patching, Active, Busy, StoreInserts, Goto, Taint, numbering, refreshing, limits,
      history
  <2> QED
    BY <2>1, <2>2
<1>7. ASSUME NEW w \in Ops, CreateFinishes(w) PROVE IdOK(i)'
  <2>1. CASE i = target[w]
    <3>1. cache'[i] # Absent /\ w \in cache'[i].by
      <4>1. stamp[w] \in Nat /\ {w} \in SUBSET Ops
        BY DEF TypeOK
      <4> QED
        BY <2>1, <4>1, <1>7, EntityMade DEF TypeOK, CreateFinishes
    <3>2. owed'[i] = owed[i] \cup {w}
      BY <2>1, <1>7 DEF TypeOK, CreateFinishes
    <3>3. /\ pc' = [pc EXCEPT ![w] = "acked"] /\ pc[w] = "inserted"
          /\ UNCHANGED <<store, ephemeral, kind, target, contended>>
      BY <1>7 DEF CreateFinishes, Finish, Goto
    <3>4. \A x \in owed'[i] : pc'[x] = "acked"
      BY <3>2, <3>3 DEF TypeOK, IdInv, IdOK
    <3>5. i \notin contended => owed'[i] = {w} /\ store[i] # Absent /\ w \in store[i].by
                                /\ i \notin ephemeral
      BY <2>1, <3>2, <3>3 DEF OpInv, OpOK, Replacing
    <3> QED
      BY <3>1, <3>3, <3>4, <3>5 DEF IdOK, Shows
  <2>2. CASE i # target[w]
    BY <2>2, <1>7, SMTT(20) DEF TypeOK, OpInv, OpOK, IdInv, IdOK, Shows, Replacing,
      Patching, Active, Busy, CreateFinishes, Goto, Finish, RecordWrite, refreshing,
      limits
  <2> QED
    BY <2>1, <2>2
<1>8. ASSUME NEW w \in Ops, ResolveAnswers(w) PROVE IdOK(i)'
  BY <1>8, SMTT(20) DEF TypeOK, OpInv, OpOK, IdInv, IdOK, Shows, Replacing, Patching,
    Active, Busy, ResolveAnswers, Goto, Finish, GoPatch, NextRev, numbering, refreshing,
    limits, history
<1>9. ASSUME NEW w \in Ops, ResolveFails(w) PROVE IdOK(i)'
  BY <1>9, SMTT(20) DEF TypeOK, OpInv, OpOK, IdInv, IdOK, Shows, Replacing, Patching,
    Active, Busy, ResolveFails, Goto, Finish, CallRejects, numbering, refreshing, history
<1>10. ASSUME NEW w \in Ops, StorePatches(w) PROVE IdOK(i)'
  <2>1. /\ pc' = [pc EXCEPT ![w] = "patched"] /\ pc[w] = "patch"
        /\ UNCHANGED <<cache, ephemeral, kind, target, owed, contended>>
    BY <1>10 DEF StorePatches, Goto, history
  <2>2. \A x \in owed[i] : pc'[x] = "acked"
    BY <2>1 DEF TypeOK, IdInv, IdOK
  <2>3. \/ store'[i] = store[i]
        \/ store[i] # Absent /\ store'[i] # Absent /\ store'[i].by = store[i].by \cup {w}
    <3>1. CASE i = target[w] /\ store[i] # Absent
      <4>1. stamp[w] \in Nat /\ store[i].by \cup {w} \in SUBSET Ops
        BY <3>1, EntityParts DEF TypeOK
      <4>2. store' = [store EXCEPT ![i] = [rev |-> stamp[w], by |-> store[i].by \cup {w}]]
        BY <3>1, <1>10 DEF StorePatches
      <4> QED
        BY <3>1, <4>1, <4>2, EntityMade DEF TypeOK
    <3>2. CASE i # target[w] \/ store[i] = Absent
      BY <3>2, <1>10 DEF TypeOK, StorePatches
    <3> QED
      BY <3>1, <3>2
  <2> QED
    BY <2>1, <2>2, <2>3 DEF IdInv, IdOK, Shows
<1>11. ASSUME NEW w \in Ops, ReadBackAnswers(w) PROVE IdOK(i)'
  BY <1>11, SMTT(20) DEF TypeOK, OpInv, OpOK, IdInv, IdOK, Shows, Replacing, Patching,
    Active, Busy, ReadBackAnswers, Goto, numbering, refreshing, limits, history
<1>12. ASSUME NEW w \in Ops, ReadBackFails(w) PROVE IdOK(i)'
  BY <1>12, SMTT(20) DEF TypeOK, OpInv, OpOK, IdInv, IdOK, Shows, Replacing, Patching,
    Active, Busy, ReadBackFails, Goto, CallRejects, numbering, refreshing, history
<1>13. ASSUME NEW w \in Ops, UpdateReachedNothing(w) PROVE IdOK(i)'
  BY <1>13, SMTT(20) DEF TypeOK, OpInv, OpOK, IdInv, IdOK, Shows, Replacing, Patching,
    Active, Busy, UpdateReachedNothing, Goto, Finish, Taint, numbering, refreshing, limits
<1>14. ASSUME NEW w \in Ops, UpdateFinishes(w) PROVE IdOK(i)'
  <2>1. CASE i = target[w]
    <3> DEFINE from == IF fresh[w] # Absent THEN fresh[w] ELSE canonical[w]
    <3>1. /\ pc' = [pc EXCEPT ![w] = "acked"] /\ pc[w] \in {"read", "unread"}
          /\ UNCHANGED <<store, ephemeral, kind, target, contended>>
      BY <1>14 DEF UpdateFinishes, Finish, Goto
    <3>2. \/ owed'[i] = owed[i]
          \/ owed'[i] = owed[i] \cup {w} /\ store[i] # Absent /\ w \in store[i].by
      BY <2>1, <1>14 DEF TypeOK, UpdateFinishes
    <3>3. \A x \in owed'[i] : pc'[x] = "acked"
      BY <3>1, <3>2 DEF TypeOK, IdInv, IdOK
    <3>4. cache'[i] # Absent /\ cache'[i].by = from.by \cup {w}
      <4>1. from # Absent /\ from \in MaybeEntity
        BY <3>1 DEF TypeOK, OpInv, OpOK, Patching
      <4>2. stamp[w] \in Nat /\ from.by \cup {w} \in SUBSET Ops
        BY <4>1, EntityParts DEF TypeOK
      <4>3. cache' = [cache EXCEPT ![i] = [rev |-> stamp[w], by |-> from.by \cup {w}]]
        BY <2>1, <1>14 DEF UpdateFinishes
      <4> QED
        BY <4>2, <4>3, EntityMade DEF TypeOK
    <3>5. i \notin contended => Shows(from, i)
      BY <2>1, <3>1 DEF OpInv, OpOK, Patching
    <3> QED
      BY <3>1, <3>2, <3>3, <3>4, <3>5 DEF IdInv, IdOK, Shows
  <2>2. CASE i # target[w]
    BY <2>2, <1>14, SMTT(20) DEF TypeOK, OpInv, OpOK, IdInv, IdOK, Shows, Replacing,
      Patching, Active, Busy, UpdateFinishes, Goto, Finish, RecordWrite, refreshing,
      limits
  <2> QED
    BY <2>1, <2>2
<1>15. ASSUME NEW w \in Ops, StoreErases(w) PROVE IdOK(i)'
  BY <1>15, SMTT(20) DEF TypeOK, OpInv, OpOK, IdInv, IdOK, Shows, Replacing, Patching,
    Active, Busy, StoreErases, Goto, numbering, refreshing, limits, history
<1>16. ASSUME NEW w \in Ops, DeleteFinishes(w) PROVE IdOK(i)'
  BY <1>16, SMTT(20) DEF TypeOK, OpInv, OpOK, IdInv, IdOK, Shows, Replacing, Patching,
    Active, Busy, DeleteFinishes, Goto, Finish, numbering, refreshing, limits
<1>17. ASSUME NEW w \in Ops, CallFails(w) PROVE IdOK(i)'
  BY <1>17, SMTT(20) DEF TypeOK, OpInv, OpOK, IdInv, IdOK, Shows, Replacing, Patching,
    Active, Busy, CallFails, Goto, Finish, CallRejects, Taint, numbering, refreshing
<1>18. ASSUME NEW j \in Ids, AddEphemeral(j) PROVE IdOK(i)'
  BY <1>18, SMTT(20) DEF TypeOK, OpInv, OpOK, IdInv, IdOK, Shows, Replacing, Patching,
    Active, Busy, AddEphemeral, RecordWrite, writes, refreshing, limits
<1>19. ASSUME NEW j \in Ids, RemoveEphemeral(j) PROVE IdOK(i)'
  BY <1>19, SMTT(20) DEF TypeOK, OpInv, OpOK, IdInv, IdOK, Shows, Replacing, Patching,
    Active, Busy, RemoveEphemeral, RecordWrite, NoteStart, writes, refreshing, limits
<1>20. ASSUME NEW q \in Refreshes, NEW j \in Ids, TriggerIdRefresh(q, j) PROVE IdOK(i)'
  BY <1>20, SMTT(20) DEF TypeOK, OpInv, OpOK, IdInv, IdOK, Shows, Replacing, Patching,
    Active, Busy, TriggerIdRefresh, BeginRefresh, numbering, writes, limits
<1>21. ASSUME NEW q \in Refreshes, TriggerTypeRefresh(q) PROVE IdOK(i)'
  BY <1>21, SMTT(20) DEF TypeOK, OpInv, OpOK, IdInv, IdOK, Shows, Replacing, Patching,
    Active, Busy, TriggerTypeRefresh, BeginRefresh, numbering, writes, limits
<1>22. ASSUME NEW q \in Refreshes, StoreAnswersRefresh(q) PROVE IdOK(i)'
  BY <1>22, SMTT(20) DEF TypeOK, OpInv, OpOK, IdInv, IdOK, Shows, Replacing, Patching,
    Active, Busy, StoreAnswersRefresh, numbering, writes, limits, history
<1>23. ASSUME NEW q \in Refreshes, ApplyRefresh(q) PROVE IdOK(i)'
  <2>1. UNCHANGED <<store, ephemeral, kind, pc, owed, contended>> /\ phase[q] = "holding"
    BY <1>23 DEF ApplyRefresh, FreeSlot, writes, history
  <2>2. cache'[i] = IF Takes(q, i) THEN snap[q][i] ELSE cache[i]
    BY <1>23 DEF ApplyRefresh
  <2> QED
    BY <2>1, <2>2 DEF IdInv, IdOK, RefreshInv, RefreshOK, Shows
<1>24. ASSUME NEW q \in Refreshes, RefreshFails(q) PROVE IdOK(i)'
  BY <1>24, SMTT(20) DEF TypeOK, OpInv, OpOK, IdInv, IdOK, Shows, Replacing, Patching,
    Active, Busy, RefreshFails, FreeSlot, EndRefresh, CallRejects, writes, history
<1>25. CASE Tick
  BY <1>25 DEF TypeOK, OpInv, OpOK, IdInv, IdOK, Shows, Replacing, Patching, Active, Busy,
    Tick, numbering, writes, refreshing, history
<1>26. CASE UNCHANGED vars
  BY <1>26 DEF TypeOK, OpInv, OpOK, IdInv, IdOK, Shows, Replacing, Patching, Active, Busy,
    vars, numbering, writes, refreshing, limits, history
<1> QED
  BY <1>1, <1>2, <1>3, <1>4, <1>5, <1>6, <1>7, <1>8, <1>9, <1>10, <1>11, <1>12, <1>13,
    <1>14, <1>15, <1>16, <1>17, <1>18, <1>19, <1>20, <1>21, <1>22, <1>23, <1>24, <1>25,
    <1>26 DEF Next, StartWrite, Proceed, Reject

\* What a refresh will put in the cache shows what was acknowledged.
LEMMA RefreshStep == TypeOK /\ OpInv /\ IdInv /\ RefreshInv /\ CountInv /\ [Next]_vars => RefreshInv'
<1> SUFFICES ASSUME TypeOK, OpInv, IdInv, RefreshInv, CountInv, [Next]_vars, NEW r \in Refreshes PROVE RefreshOK(r)'
  BY DEF RefreshInv
<1>1. ASSUME NEW w \in Ops, NEW j \in Ids, StartCreate(w, j) PROVE RefreshOK(r)'
  BY <1>1, SMTT(20) DEF TypeOK, OpInv, OpOK, IdInv, IdOK, RefreshInv, RefreshOK, Takes,
    WrittenSince, Shows, Replacing, Patching, Active, Busy, StartCreate, Issue, NoteStart,
    Goto, GoInsert, Refuse, numbering, refreshing, limits
<1>2. ASSUME NEW w \in Ops, NEW j \in Ids, StartUpdate(w, j) PROVE RefreshOK(r)'
  BY <1>2, SMTT(20) DEF TypeOK, OpInv, OpOK, IdInv, IdOK, RefreshInv, RefreshOK, Takes,
    WrittenSince, Shows, Replacing, Patching, Active, Busy, StartUpdate, Issue, NoteStart,
    Goto, GoPatch, NextRev, numbering, refreshing, limits
<1>3. ASSUME NEW w \in Ops, NEW j \in Ids, StartDelete(w, j) PROVE RefreshOK(r)'
  BY <1>3, SMTT(20) DEF TypeOK, OpInv, OpOK, IdInv, IdOK, RefreshInv, RefreshOK, Takes,
    WrittenSince, Shows, Replacing, Patching, Active, Busy, StartDelete, Issue, NoteStart,
    Goto, RecordWrite, refreshing, limits
<1>4. ASSUME NEW w \in Ops, LookupAnswers(w) PROVE RefreshOK(r)'
  BY <1>4, SMTT(20) DEF TypeOK, OpInv, OpOK, IdInv, IdOK, RefreshInv, RefreshOK, Takes,
    WrittenSince, Shows, Replacing, Patching, Active, Busy, LookupAnswers, Goto, GoInsert,
    Refuse, numbering, refreshing, limits, history
<1>5. ASSUME NEW w \in Ops, LookupFails(w) PROVE RefreshOK(r)'
  BY <1>5, SMTT(20) DEF TypeOK, OpInv, OpOK, IdInv, IdOK, RefreshInv, RefreshOK, Takes,
    WrittenSince, Shows, Replacing, Patching, Active, Busy, LookupFails, Goto, GoInsert,
    CallRejects, numbering, refreshing, history
<1>6. ASSUME NEW w \in Ops, StoreInserts(w) PROVE RefreshOK(r)'
  BY <1>6, SMTT(20) DEF TypeOK, OpInv, OpOK, IdInv, IdOK, RefreshInv, RefreshOK, Takes,
    WrittenSince, Shows, Replacing, Patching, Active, Busy, StoreInserts, Goto, Taint,
    numbering, refreshing, limits, history
<1>7. ASSUME NEW w \in Ops, CreateFinishes(w) PROVE RefreshOK(r)'
  BY <1>7, SMTT(20) DEF TypeOK, OpInv, OpOK, IdInv, IdOK, RefreshInv, RefreshOK, Takes,
    WrittenSince, Shows, Replacing, Patching, Active, Busy, CreateFinishes, Goto, Finish,
    RecordWrite, refreshing, limits
<1>8. ASSUME NEW w \in Ops, ResolveAnswers(w) PROVE RefreshOK(r)'
  BY <1>8, SMTT(20) DEF TypeOK, OpInv, OpOK, IdInv, IdOK, RefreshInv, RefreshOK, Takes,
    WrittenSince, Shows, Replacing, Patching, Active, Busy, ResolveAnswers, Goto, Finish,
    GoPatch, NextRev, numbering, refreshing, limits, history
<1>9. ASSUME NEW w \in Ops, ResolveFails(w) PROVE RefreshOK(r)'
  BY <1>9, SMTT(20) DEF TypeOK, OpInv, OpOK, IdInv, IdOK, RefreshInv, RefreshOK, Takes,
    WrittenSince, Shows, Replacing, Patching, Active, Busy, ResolveFails, Goto, Finish,
    CallRejects, numbering, refreshing, history
<1>10. ASSUME NEW w \in Ops, StorePatches(w) PROVE RefreshOK(r)'
  BY <1>10, SMTT(20) DEF TypeOK, OpInv, OpOK, IdInv, IdOK, RefreshInv, RefreshOK, Takes,
    WrittenSince, Shows, Replacing, Patching, Active, Busy, StorePatches, Goto, numbering,
    refreshing, limits, history
<1>11. ASSUME NEW w \in Ops, ReadBackAnswers(w) PROVE RefreshOK(r)'
  BY <1>11, SMTT(20) DEF TypeOK, OpInv, OpOK, IdInv, IdOK, RefreshInv, RefreshOK, Takes,
    WrittenSince, Shows, Replacing, Patching, Active, Busy, ReadBackAnswers, Goto,
    numbering, refreshing, limits, history
<1>12. ASSUME NEW w \in Ops, ReadBackFails(w) PROVE RefreshOK(r)'
  BY <1>12, SMTT(20) DEF TypeOK, OpInv, OpOK, IdInv, IdOK, RefreshInv, RefreshOK, Takes,
    WrittenSince, Shows, Replacing, Patching, Active, Busy, ReadBackFails, Goto,
    CallRejects, numbering, refreshing, history
<1>13. ASSUME NEW w \in Ops, UpdateReachedNothing(w) PROVE RefreshOK(r)'
  BY <1>13, SMTT(20) DEF TypeOK, OpInv, OpOK, IdInv, IdOK, RefreshInv, RefreshOK, Takes,
    WrittenSince, Shows, Replacing, Patching, Active, Busy, UpdateReachedNothing, Goto,
    Finish, Taint, numbering, refreshing, limits
<1>14. ASSUME NEW w \in Ops, UpdateFinishes(w) PROVE RefreshOK(r)'
  BY <1>14, SMTT(20) DEF TypeOK, OpInv, OpOK, IdInv, IdOK, RefreshInv, RefreshOK, Takes,
    WrittenSince, Shows, Replacing, Patching, Active, Busy, UpdateFinishes, Goto, Finish,
    RecordWrite, refreshing, limits
<1>15. ASSUME NEW w \in Ops, StoreErases(w) PROVE RefreshOK(r)'
  BY <1>15, SMTT(20) DEF TypeOK, OpInv, OpOK, IdInv, IdOK, RefreshInv, RefreshOK, Takes,
    WrittenSince, Shows, Replacing, Patching, Active, Busy, StoreErases, Goto, numbering,
    refreshing, limits, history
<1>16. ASSUME NEW w \in Ops, DeleteFinishes(w) PROVE RefreshOK(r)'
  BY <1>16, SMTT(20) DEF TypeOK, OpInv, OpOK, IdInv, IdOK, RefreshInv, RefreshOK, Takes,
    WrittenSince, Shows, Replacing, Patching, Active, Busy, DeleteFinishes, Goto, Finish,
    numbering, refreshing, limits
<1>17. ASSUME NEW w \in Ops, CallFails(w) PROVE RefreshOK(r)'
  BY <1>17, SMTT(20) DEF TypeOK, OpInv, OpOK, IdInv, IdOK, RefreshInv, RefreshOK, Takes,
    WrittenSince, Shows, Replacing, Patching, Active, Busy, CallFails, Goto, Finish,
    CallRejects, Taint, numbering, refreshing
<1>18. ASSUME NEW j \in Ids, AddEphemeral(j) PROVE RefreshOK(r)'
  BY <1>18, SMTT(20) DEF TypeOK, OpInv, OpOK, IdInv, IdOK, RefreshInv, RefreshOK, Takes,
    WrittenSince, Shows, Replacing, Patching, Active, Busy, AddEphemeral, RecordWrite,
    writes, refreshing, limits
<1>19. ASSUME NEW j \in Ids, RemoveEphemeral(j) PROVE RefreshOK(r)'
  BY <1>19, SMTT(20) DEF TypeOK, OpInv, OpOK, IdInv, IdOK, RefreshInv, RefreshOK, Takes,
    WrittenSince, Shows, Replacing, Patching, Active, Busy, RemoveEphemeral, RecordWrite,
    NoteStart, writes, refreshing, limits
<1>20. ASSUME NEW q \in Refreshes, NEW j \in Ids, TriggerIdRefresh(q, j) PROVE RefreshOK(r)'
  BY <1>20, SMTT(20) DEF TypeOK, OpInv, OpOK, IdInv, IdOK, RefreshInv, RefreshOK, Takes,
    WrittenSince, Shows, Replacing, Patching, Active, Busy, TriggerIdRefresh,
    BeginRefresh, numbering, writes, limits
<1>21. ASSUME NEW q \in Refreshes, TriggerTypeRefresh(q) PROVE RefreshOK(r)'
  BY <1>21, SMTT(20) DEF TypeOK, OpInv, OpOK, IdInv, IdOK, RefreshInv, RefreshOK, Takes,
    WrittenSince, Shows, Replacing, Patching, Active, Busy, TriggerTypeRefresh,
    BeginRefresh, numbering, writes, limits
<1>22. ASSUME NEW q \in Refreshes, StoreAnswersRefresh(q) PROVE RefreshOK(r)'
  <2>1. UNCHANGED <<numbering, ephemeral, startedAt, whole, owed, contended, kind>>
    BY <1>22 DEF StoreAnswersRefresh, writes, history
  <2>2. CASE r = q
    <3>1. \A i \in Ids : snap'[r][i] = IF Covers(r, i) THEN store[i] ELSE Absent
      BY <2>2, <1>22 DEF TypeOK, StoreAnswersRefresh
    <3> QED
      BY <2>1, <2>2, <3>1 DEF IdInv, IdOK, RefreshInv, RefreshOK, Takes, WrittenSince,
        Covers, Shows,
        numbering
  <2>3. CASE r # q
    <3>1. phase'[r] = phase[r] /\ snap'[r] = snap[r]
      BY <2>3, <1>22 DEF TypeOK, StoreAnswersRefresh
    <3> QED
      BY <2>1, <3>1 DEF RefreshInv, RefreshOK, Takes, WrittenSince, Shows, numbering
  <2> QED
    BY <2>2, <2>3
<1>23. ASSUME NEW q \in Refreshes, ApplyRefresh(q) PROVE RefreshOK(r)'
  <2>1. FreeSlot(q) /\ Running(q)
    BY <1>23 DEF ApplyRefresh, Running
  <2>2. UNCHANGED <<ephemeral, writeSeq, kind, owed, contended>>
    BY <2>1 DEF FreeSlot, writes, history
  <2>3. CASE r = q
    BY <2>1, <2>2, <2>3 DEF TypeOK, RefreshOK, FreeSlot
  <2>4. CASE r # q
    <3>1. phase'[r] = phase[r] /\ whole'[r] = whole[r] /\ startedAt'[r] = startedAt[r] /\ snap'[r] = snap[r]
      BY <2>1, <2>4 DEF TypeOK, FreeSlot
    <3>2. phase[r] = "holding" => lastWrite' = lastWrite
      BY <2>1, <2>4, LastOne DEF FreeSlot, EndRefresh, Running
    <3> QED
      BY <2>2, <3>1, <3>2 DEF RefreshInv, RefreshOK, Takes, WrittenSince, Shows
  <2> QED
    BY <2>3, <2>4
<1>24. ASSUME NEW q \in Refreshes, RefreshFails(q) PROVE RefreshOK(r)'
  <2>1. FreeSlot(q) /\ Running(q)
    BY <1>24 DEF RefreshFails, Running
  <2>2. UNCHANGED <<ephemeral, writeSeq, kind, owed, contended>>
    BY <2>1 DEF FreeSlot, writes, history
  <2>3. CASE r = q
    BY <2>1, <2>2, <2>3 DEF TypeOK, RefreshOK, FreeSlot
  <2>4. CASE r # q
    <3>1. phase'[r] = phase[r] /\ whole'[r] = whole[r] /\ startedAt'[r] = startedAt[r] /\ snap'[r] = snap[r]
      BY <2>1, <2>4 DEF TypeOK, FreeSlot
    <3>2. phase[r] = "holding" => lastWrite' = lastWrite
      BY <2>1, <2>4, LastOne DEF FreeSlot, EndRefresh, Running
    <3> QED
      BY <2>2, <3>1, <3>2 DEF RefreshInv, RefreshOK, Takes, WrittenSince, Shows
  <2> QED
    BY <2>3, <2>4
<1>25. CASE Tick
  BY <1>25 DEF TypeOK, OpInv, OpOK, IdInv, IdOK, RefreshInv, RefreshOK, Takes,
    WrittenSince, Shows, Replacing, Patching, Active, Busy, Tick, numbering, writes,
    refreshing, history
<1>26. CASE UNCHANGED vars
  BY <1>26 DEF TypeOK, OpInv, OpOK, IdInv, IdOK, RefreshInv, RefreshOK, Takes,
    WrittenSince, Shows, Replacing, Patching, Active, Busy, vars, numbering, writes,
    refreshing, limits, history
<1> QED
  BY <1>1, <1>2, <1>3, <1>4, <1>5, <1>6, <1>7, <1>8, <1>9, <1>10, <1>11, <1>12, <1>13,
    <1>14, <1>15, <1>16, <1>17, <1>18, <1>19, <1>20, <1>21, <1>22, <1>23, <1>24, <1>25,
    <1>26 DEF Next, StartWrite, Proceed, Reject

\* There are finitely many refreshes in flight.
LEMMA RunningIsFinite == IsFiniteSet({r \in Refreshes : Running(r)})
<1>1. {r \in Refreshes : Running(r)} \in SUBSET Refreshes
  OBVIOUS
<1> QED
  BY <1>1, FS_Subset, FiniteAssumption

\* beginRefresh and endRefresh count the refreshes in flight.
LEMMA CountStep == TypeOK /\ CountInv /\ [Next]_vars => CountInv' /\ inFlight' \in Nat
<1> DEFINE S == {r \in Refreshes : Running(r)}
<1>1. IsFiniteSet(S) /\ Cardinality(S) \in Nat
  BY RunningIsFinite, FS_CardinalityType
<1> SUFFICES ASSUME TypeOK, CountInv, [Next]_vars PROVE inFlight' = Cardinality(S') /\ inFlight' \in Nat
  BY DEF CountInv
<1>2. ASSUME inFlight' = inFlight, S' = S PROVE inFlight' = Cardinality(S') /\ inFlight' \in Nat
  BY <1>1, <1>2 DEF CountInv
<1>3. ASSUME UNCHANGED refreshing PROVE inFlight' = Cardinality(S') /\ inFlight' \in Nat
  <2>1. S' = S
    BY <1>3 DEF Running, refreshing
  <2> QED
    BY <1>2, <1>3, <2>1 DEF refreshing
<1>4. ASSUME NEW q \in Refreshes, NEW j \in Ids, NEW k \in BOOLEAN, BeginRefresh(q, k, j)
      PROVE  inFlight' = Cardinality(S') /\ inFlight' \in Nat
  <2>1. S' = S \cup {q}
    BY <1>4 DEF TypeOK, BeginRefresh, Running
  <2>2. q \notin S
    BY <1>4 DEF BeginRefresh
  <2>3. Cardinality(S') = Cardinality(S) + 1
    BY <1>1, <2>1, <2>2, FS_AddElement
  <2> QED
    BY <1>1, <1>4, <2>3 DEF BeginRefresh, CountInv
<1>5. ASSUME NEW q \in Refreshes, Running(q), FreeSlot(q)
      PROVE  inFlight' = Cardinality(S') /\ inFlight' \in Nat
  <2>1. S' = S \ {q}
    BY <1>5 DEF TypeOK, FreeSlot, Running
  <2>2. q \in S
    BY <1>5
  <2>3. Cardinality(S') = Cardinality(S) - 1 /\ Cardinality(S') \in Nat
    <3>1. IsFiniteSet(S') /\ Cardinality(S \ {q}) = Cardinality(S) - 1
      BY <1>1, <2>1, <2>2, FS_RemoveElement
    <3> QED
      BY <2>1, <3>1, FS_CardinalityType
  <2> QED
    BY <1>1, <1>5, <2>3 DEF FreeSlot, EndRefresh, CountInv
<1>6. ASSUME NEW w \in Ops, StartWrite(w) PROVE UNCHANGED refreshing
  BY <1>6 DEF StartWrite, StartCreate, StartUpdate, StartDelete
<1>7. ASSUME NEW w \in Ops, Proceed(w) PROVE UNCHANGED refreshing
  BY <1>7 DEF Proceed, LookupAnswers, StoreInserts, CreateFinishes, ResolveAnswers,
    StorePatches,
    ReadBackAnswers, UpdateReachedNothing, UpdateFinishes, StoreErases, DeleteFinishes
<1>8. ASSUME NEW w \in Ops, Reject(w) PROVE UNCHANGED refreshing
  BY <1>8 DEF Reject, LookupFails, ResolveFails, ReadBackFails, CallFails
<1>9. ASSUME NEW j \in Ids, AddEphemeral(j) \/ RemoveEphemeral(j) PROVE UNCHANGED refreshing
  BY <1>9 DEF AddEphemeral, RemoveEphemeral
<1>10. ASSUME Tick \/ UNCHANGED vars PROVE UNCHANGED refreshing
  BY <1>10 DEF Tick, vars
<1>11. ASSUME NEW q \in Refreshes, NEW j \in Ids, TriggerIdRefresh(q, j)
       PROVE  inFlight' = Cardinality(S') /\ inFlight' \in Nat
  BY <1>4, <1>11 DEF TriggerIdRefresh
<1>12. ASSUME NEW q \in Refreshes, TriggerTypeRefresh(q)
       PROVE  inFlight' = Cardinality(S') /\ inFlight' \in Nat
  BY <1>4, <1>12, AnyIdIsId DEF TriggerTypeRefresh
<1>13. ASSUME NEW q \in Refreshes, StoreAnswersRefresh(q)
       PROVE  inFlight' = Cardinality(S') /\ inFlight' \in Nat
  <2>1. S' = S
    BY <1>13 DEF TypeOK, StoreAnswersRefresh, Running
  <2> QED
    BY <1>2, <1>13, <2>1 DEF StoreAnswersRefresh
<1>14. ASSUME NEW q \in Refreshes, ApplyRefresh(q) \/ RefreshFails(q)
       PROVE  inFlight' = Cardinality(S') /\ inFlight' \in Nat
  BY <1>5, <1>14 DEF ApplyRefresh, RefreshFails, Running
<1> QED
  BY <1>3, <1>6, <1>7, <1>8, <1>9, <1>10, <1>11, <1>12, <1>13, <1>14 DEF Next

\* The invariant holds at boot.
LEMMA IInvInit == Init => IInv
<1> SUFFICES ASSUME Init PROVE IInv
  OBVIOUS
<1>1. TypeOK
  <2>1. [rev |-> 0, by |-> {}] \in MaybeEntity
    BY EntityMade
  <2>2. Nothing \in [Ids -> MaybeEntity]
    BY DEF Nothing, MaybeEntity
  <2>3. store \in [Ids -> MaybeEntity] /\ cache \in [Ids -> MaybeEntity]
    BY <2>1, <2>2 DEF Init, BootLoad, MaybeEntity
  <2>4. "idle" \in Steps
    BY DEF Steps
  <2> QED
    BY <2>2, <2>3, <2>4, AnyIdIsId, BoundsAssumption DEF Init, TypeOK, MaybeEntity
<1>2. OpInv
  BY DEF Init, OpInv, OpOK, Replacing, Patching, Active
<1>3. IdInv
  BY DEF Init, IdInv, IdOK, Shows
<1>4. RefreshInv
  BY DEF Init, RefreshInv, RefreshOK
<1>5. CountInv
  <2>1. {r \in Refreshes : Running(r)} = {}
    BY DEF Init, Running
  <2> QED
    BY <2>1, FS_EmptySet DEF Init, CountInv
<1> QED
  BY <1>1, <1>2, <1>3, <1>4, <1>5 DEF IInv

-----------------------------------------------------------------------------
\* IInv holds of every reachable state.
THEOREM Invariance == Spec => []IInv
<1>1. IInv /\ [Next]_vars => IInv'
  BY TypeStep, OpStep, IdStep, RefreshStep, CountStep DEF IInv
<1> QED
  BY IInvInit, <1>1, PTL DEF Spec

\* Every variable keeps its type, whatever the writes, refreshes and failures.
\* In particular refreshesInFlight (endRefresh) never goes below zero.
THEOREM TypeCorrect == Spec => []TypeOK
<1>1. IInv => TypeOK
  BY DEF IInv
<1> QED
  BY Invariance, <1>1, PTL

\* An acknowledged create or update that nothing overlapped is visible until the
\* entity is written again, for any number of ids, writes and refreshes.
THEOREM AcknowledgedWritesStayVisible == Spec => []OwnWritesVisible
<1>1. IInv => OwnWritesVisible
  BY DEF IInv, IdInv, IdOK, Shows, OwnWritesVisible
<1> QED
  BY Invariance, <1>1, PTL

-----------------------------------------------------------------------------
(***************************************************************************)
(* The second part of the invariant: what the store, the cache and every   *)
(* copy in flight have to do with each other where nothing tainted the     *)
(* entry.                                                                  *)
(***************************************************************************)

PendingSteps == {"insert", "inserted", "patched", "read", "unread", "erased"}

\* A write the store may have acted on and the cache does not show yet.
Pending(i) == \E o \in Ops : target[o] = i /\ pc[o] \in PendingSteps

\* What a write in flight knows of the store.
WriteOK(o) ==
    /\ target[o] \notin contended =>
         /\ pc[o] \in {"patched", "read"} /\ store[target[o]] # Absent => o \in store[target[o]].by
         /\ fresh[o] # Absent => fresh[o] = store[target[o]]
    /\ target[o] \notin tainted =>
         /\ pc[o] = "insert" /\ failures = 0 => store[target[o]] = Absent
         /\ pc[o] = "inserted" => store[target[o]] = [rev |-> stamp[o], by |-> {o}]
         /\ pc[o] = "erased" => store[target[o]] = Absent
    /\ target[o] \notin tainted \cup ephemeral =>
         /\ pc[o] = "patch" => canonical[o] = store[target[o]]
         /\ pc[o] \in {"patched", "read", "unread"} =>
              store[target[o]] = [rev |-> stamp[o], by |-> canonical[o].by \cup {o}]

\* What the cache has of the store once no write is pending.
EntryOK(i) ==
    /\ i \in ephemeral => cache[i] # Absent
    /\ i \notin tainted \cup ephemeral /\ ~Pending(i) =>
         cache[i] = store[i] \/ (~preload /\ cache[i] = Absent)

\* What a refresh would take into the cache is what the store holds, and one
\* that read while the entity was being deleted takes nothing of it.
SnapOK(r, i) ==
    /\ snap[r][i] # Absent => phase[r] = "holding" /\ Covers(r, i)
    /\ i \notin tainted \cup ephemeral =>
         /\ phase[r] = "holding" /\ Takes(r, i) /\ ~Pending(i) => snap[r][i] = store[i]
         /\ Running(r) /\ Covers(r, i) /\ Deleting(i) => WrittenSince(i, startedAt[r])

WriteInv == \A o \in Ops : WriteOK(o)
EntryInv == \A i \in Ids : EntryOK(i)
SnapInv == \A r \in Refreshes : \A i \in Ids : SnapOK(r, i)

\* Writes that overlap taint the entry.
OverlapsTaint == contended \subseteq tainted

Coherence == OverlapsTaint /\ WriteInv /\ EntryInv /\ SnapInv

(***************************************************************************)
(* The third part: of an entity that is only ever updated the store has    *)
(* the newest copy, and a revision names one content.                      *)
(***************************************************************************)

OnlyUpdated(i) == \A o \in Ops : target[o] = i => kind[o] = "update"

\* A write's kind is the call it is a step of, and an update's revision is new.
StampOK(o) ==
    /\ pc[o] = "idle" => kind[o] = "update"
    /\ pc[o] \in {"lookup", "insert", "inserted"} => kind[o] = "create"
    /\ pc[o] = "patch" => stamp[o] > canonical[o].rev
    /\ canonical[o] # Absent => Patching(o)

RevisionOK(i) ==
    OnlyUpdated(i) =>
        /\ store[i] = Absent => \A r \in Refreshes : snap[r][i] = Absent
        /\ i \notin tainted \cup ephemeral =>
             /\ \A x \in Copies(i) : store[i] # Absent /\ x.rev <= store[i].rev
             /\ \A x, y \in Copies(i) : x.rev = y.rev => x.by = y.by

StampInv == \A o \in Ops : StampOK(o)
RevisionInv == \A i \in Ids : RevisionOK(i)

Revisions == StampInv /\ RevisionInv
-----------------------------------------------------------------------------
(* The second part is preserved.                                           *)

\* A step of one write, seen from the other writes and the other entities.
Around(w) ==
    /\ target' = target /\ preload' = preload /\ failures <= failures'
    /\ tainted \subseteq tainted' /\ contended \subseteq contended'
    /\ \A p \in Ops \ {w} : /\ pc'[p] = pc[p] /\ kind'[p] = kind[p] /\ stamp'[p] = stamp[p]
                            /\ canonical'[p] = canonical[p] /\ fresh'[p] = fresh[p]
    /\ \A i \in Ids \ {target[w]} : /\ store'[i] = store[i] /\ cache'[i] = cache[i]
                                    /\ lastWrite'[i] = lastWrite[i]
                                    /\ i \in ephemeral' <=> i \in ephemeral
    /\ target[w] \notin contended' => \A p \in Ops \ {w} : target[p] = target[w] => ~Active(p)
    /\ UNCHANGED refreshing

\* Every step of a write is one.
LEMMA WriteStepsAround ==
  ASSUME TypeOK, OpInv, NEW w \in Ops, StartWrite(w) \/ Proceed(w) \/ Reject(w)
  PROVE  Around(w)
<1> DEFINE t == target[w]
<1>1. t \in Ids
  BY DEF TypeOK
<1>2. ASSUME Active(w), UNCHANGED contended
      PROVE  t \notin contended' => \A p \in Ops \ {w} : target[p] = t => ~Active(p)
  BY <1>2, Alone
<1>3. ASSUME NEW i \in Ids, StartCreate(w, i) PROVE Around(w)
  BY <1>1, <1>3 DEF TypeOK, Around, StartCreate, Issue, NoteStart, Busy, Goto, GoInsert, Refuse,
     numbering, refreshing, limits
<1>4. ASSUME NEW i \in Ids, StartUpdate(w, i) PROVE Around(w)
  BY <1>1, <1>4 DEF TypeOK, Around, StartUpdate, Issue, NoteStart, Busy, Goto, GoPatch,
     numbering, refreshing, limits
<1>5. ASSUME NEW i \in Ids, StartDelete(w, i) PROVE Around(w)
  BY <1>1, <1>5 DEF TypeOK, Around, StartDelete, Issue, NoteStart, Busy, Goto,
     RecordWrite, refreshing, limits
<1>6. ASSUME LookupAnswers(w) PROVE Around(w)
  BY <1>1, <1>2, <1>6 DEF TypeOK, Around, Active, LookupAnswers, Goto, GoInsert, Refuse, numbering,
     refreshing, limits, history
<1>7. ASSUME StoreInserts(w) PROVE Around(w)
  BY <1>1, <1>2, <1>7 DEF TypeOK, Around, Active, StoreInserts, Goto, Taint, numbering,
     refreshing, limits, history
<1>8. ASSUME CreateFinishes(w) PROVE Around(w)
  BY <1>1, <1>2, <1>8 DEF TypeOK, Around, Active, CreateFinishes, Goto, Finish, RecordWrite,
     refreshing, limits
<1>9. ASSUME ResolveAnswers(w) PROVE Around(w)
  BY <1>1, <1>2, <1>9 DEF TypeOK, Around, Active, ResolveAnswers, Goto, Finish, GoPatch, numbering,
     refreshing, limits, history
<1>10. ASSUME StorePatches(w) PROVE Around(w)
  BY <1>1, <1>2, <1>10 DEF TypeOK, Around, Active, StorePatches, Goto, numbering,
     refreshing, limits, history
<1>11. ASSUME ReadBackAnswers(w) PROVE Around(w)
  BY <1>1, <1>2, <1>11 DEF TypeOK, Around, Active, ReadBackAnswers, Goto, numbering,
     refreshing, limits, history
<1>12. ASSUME UpdateReachedNothing(w) PROVE Around(w)
  BY <1>1, <1>2, <1>12 DEF TypeOK, Around, Active, UpdateReachedNothing, Goto, Finish, Taint,
     numbering, refreshing, limits
<1>13. ASSUME UpdateFinishes(w) PROVE Around(w)
  BY <1>1, <1>2, <1>13 DEF TypeOK, Around, Active, UpdateFinishes, Goto, Finish, RecordWrite,
     refreshing, limits
<1>14. ASSUME StoreErases(w) PROVE Around(w)
  BY <1>1, <1>2, <1>14 DEF TypeOK, Around, Active, StoreErases, Goto, numbering,
     refreshing, limits, history
<1>15. ASSUME DeleteFinishes(w) PROVE Around(w)
  BY <1>1, <1>2, <1>15 DEF TypeOK, Around, Active, DeleteFinishes, Goto, Finish, numbering,
     refreshing, limits
<1>16. ASSUME LookupFails(w) PROVE Around(w)
  BY <1>1, <1>2, <1>16 DEF TypeOK, Around, Active, LookupFails, Goto, GoInsert, CallRejects,
     numbering, refreshing, history
<1>17. ASSUME ResolveFails(w) PROVE Around(w)
  BY <1>1, <1>2, <1>17 DEF TypeOK, Around, Active, ResolveFails, Goto, Finish, CallRejects,
     numbering, refreshing, history
<1>18. ASSUME ReadBackFails(w) PROVE Around(w)
  BY <1>1, <1>2, <1>18 DEF TypeOK, Around, Active, ReadBackFails, Goto, CallRejects,
     numbering, refreshing, history
<1>19. ASSUME CallFails(w) PROVE Around(w)
  BY <1>1, <1>2, <1>19 DEF TypeOK, Around, Active, CallFails, Goto, Finish, CallRejects, Taint,
     numbering, refreshing
<1> QED
  BY <1>3, <1>4, <1>5, <1>6, <1>7, <1>8, <1>9, <1>10, <1>11, <1>12, <1>13, <1>14, <1>15, <1>16,
     <1>17, <1>18, <1>19 DEF StartWrite, Proceed, Reject

\* What no write to the entity disturbs.
LEMMA EntryElsewhere ==
  ASSUME TypeOK, Coherence, NEW w \in Ops, Around(w), NEW i \in Ids, i # target[w]
  PROVE  EntryOK(i)' /\ \A r \in Refreshes : SnapOK(r, i)'
<1>1. /\ store'[i] = store[i] /\ cache'[i] = cache[i] /\ lastWrite'[i] = lastWrite[i]
      /\ i \in ephemeral' <=> i \in ephemeral
      /\ i \notin tainted' => i \notin tainted
      /\ preload' = preload
      /\ UNCHANGED <<phase, whole, about, startedAt, snap>>
  BY DEF Around, refreshing
<1>2. \A p \in Ops : target[p] = i => target'[p] = i /\ pc'[p] = pc[p]
  BY DEF Around
<1>3. \A p \in Ops : target'[p] = target[p]
  BY DEF Around
<1>4. Pending(i)' <=> Pending(i)
  BY <1>2, <1>3 DEF Pending, PendingSteps
<1>5. Deleting(i)' <=> Deleting(i)
  BY <1>2, <1>3 DEF Deleting
<1>6. EntryOK(i)'
  BY <1>1, <1>4 DEF Coherence, EntryInv, EntryOK
<1>7. ASSUME NEW r \in Refreshes PROVE SnapOK(r, i)'
  <2>1. SnapOK(r, i)
    BY DEF Coherence, SnapInv
  <2>2. Takes(r, i)' <=> Takes(r, i)
    BY <1>1 DEF Takes, WrittenSince
  <2>3. WrittenSince(i, startedAt[r])' <=> WrittenSince(i, startedAt[r])
    BY <1>1 DEF WrittenSince
  <2> QED
    BY <1>1, <1>4, <1>5, <2>1, <2>2, <2>3 DEF SnapOK, Running, Covers
<1> QED
  BY <1>6, <1>7

\* What the other writes know of the store.
LEMMA WriteElsewhere ==
  ASSUME TypeOK, OpInv, Coherence, OverlapsTaint', NEW w \in Ops, Around(w), NEW o \in Ops, o # w
  PROVE  WriteOK(o)'
<1> DEFINE t == target[o]
<1>1. /\ target'[o] = t /\ pc'[o] = pc[o] /\ stamp'[o] = stamp[o]
      /\ canonical'[o] = canonical[o] /\ fresh'[o] = fresh[o]
  BY DEF Around
<1>2. WriteOK(o) /\ t \in Ids /\ OpOK(o)
  BY DEF Coherence, WriteInv, TypeOK, OpInv
<1>3. CASE t # target[w]
  <2>1. /\ store'[t] = store[t] /\ (t \in ephemeral' <=> t \in ephemeral)
        /\ t \notin tainted' => t \notin tainted
        /\ t \notin contended' => t \notin contended
        /\ failures' = 0 => failures = 0
    BY <1>2, <1>3 DEF Around, TypeOK
  <2> QED
    BY <1>1, <1>2, <2>1 DEF WriteOK
<1>4. CASE t = target[w]
  <2>1. t \notin contended' => ~Active(o)
    BY <1>4 DEF Around
  <2>2. t \notin tainted' => t \notin contended'
    BY <1>2 DEF OverlapsTaint
  <2>3. ~Active(o) => fresh[o] = Absent
    BY <1>2 DEF OpOK, Active
  <2> QED
    BY <1>1, <2>1, <2>2, <2>3 DEF WriteOK, Active
<1> QED
  BY <1>3, <1>4

\* An entry that nothing tainted has no other write in flight.
LEMMA Local ==
  ASSUME TypeOK, OverlapsTaint', NEW w \in Ops, Around(w), target[w] \notin tainted'
  PROVE  /\ Pending(target[w]) <=> pc[w] \in PendingSteps
         /\ Pending(target[w])' <=> pc'[w] \in PendingSteps
         /\ Deleting(target[w]) <=> pc[w] \in {"erase", "erased"}
         /\ Deleting(target[w])' <=> pc'[w] \in {"erase", "erased"}
<1> DEFINE t == target[w]
<1>1. t \notin contended'
  BY DEF TypeOK, OverlapsTaint
<1>2. \A p \in Ops \ {w} : target[p] = t => ~Active(p) /\ pc'[p] = pc[p]
  BY <1>1 DEF Around
<1>3. \A p \in Ops \ {w} : target[p] = t =>
        /\ pc[p] \notin PendingSteps /\ pc'[p] \notin PendingSteps
        /\ pc[p] \notin {"erase", "erased"} /\ pc'[p] \notin {"erase", "erased"}
  BY <1>2 DEF Active, PendingSteps
<1>4. target' = target
  BY DEF Around
<1>5. (Pending(t) <=> pc[w] \in PendingSteps) /\ (Pending(t)' <=> pc'[w] \in PendingSteps)
  BY <1>3, <1>4 DEF Pending, PendingSteps
<1>6. /\ Deleting(t) <=> pc[w] \in {"erase", "erased"}
      /\ Deleting(t)' <=> pc'[w] \in {"erase", "erased"}
  BY <1>3, <1>4 DEF Deleting
<1> QED
  BY <1>5, <1>6

\* A step after which the cache is still to be set, or that changes neither side.
LEMMA EntryUnsettled ==
  ASSUME TypeOK, Coherence, OverlapsTaint', NEW w \in Ops, Around(w),
         cache'[target[w]] = cache[target[w]], lastWrite'[target[w]] = lastWrite[target[w]],
         target[w] \in ephemeral' => target[w] \in ephemeral,
         \/ target[w] \in tainted'
         \/ /\ \/ pc'[w] \in PendingSteps
               \/ /\ pc[w] \notin PendingSteps /\ store'[target[w]] = store[target[w]]
                  /\ target[w] \in ephemeral => target[w] \in ephemeral'
            /\ pc'[w] \in {"erase", "erased"} =>
                 pc[w] \in {"erase", "erased"} /\ (target[w] \in ephemeral => target[w] \in ephemeral')
  PROVE  EntryOK(target[w])' /\ \A r \in Refreshes : SnapOK(r, target[w])'
<1> DEFINE t == target[w]
<1>1. t \in Ids
  BY DEF TypeOK
<1>2. /\ t \notin tainted' => t \notin tainted
      /\ preload' = preload /\ target' = target
      /\ UNCHANGED <<phase, whole, about, startedAt, snap>>
  BY DEF Around, refreshing
<1>3. EntryOK(t)'
  <2>1. EntryOK(t)
    BY <1>1 DEF Coherence, EntryInv
  <2> QED
    BY <1>2, <2>1, Local DEF EntryOK
<1>4. ASSUME NEW r \in Refreshes PROVE SnapOK(r, t)'
  <2>1. SnapOK(r, t)
    BY <1>1 DEF Coherence, SnapInv
  <2>2. snap'[r][t] # Absent => phase'[r] = "holding" /\ Covers(r, t)'
    BY <1>2, <2>1 DEF SnapOK, Covers
  <2>3. SUFFICES ASSUME t \notin tainted', t \notin ephemeral' PROVE SnapOK(r, t)'
    BY <1>2, <2>2 DEF SnapOK
  <2>4. phase'[r] = "holding" /\ Takes(r, t)' /\ ~Pending(t)' => snap'[r][t] = store'[t]
    <3>1. SUFFICES ASSUME phase'[r] = "holding", Takes(r, t)', ~Pending(t)'
                   PROVE  snap'[r][t] = store'[t]
      OBVIOUS
    <3>2. ~Pending(t) /\ store'[t] = store[t] /\ t \notin ephemeral
      BY <2>3, <3>1, Local
    <3>3. Takes(r, t)
      BY <1>2, <2>3, <3>1, <3>2 DEF Takes, WrittenSince
    <3> QED
      BY <1>2, <2>1, <2>3, <3>1, <3>2, <3>3 DEF SnapOK
  <2>5. Running(r)' /\ Covers(r, t)' /\ Deleting(t)' => WrittenSince(t, startedAt[r])'
    <3>1. SUFFICES ASSUME Running(r)', Covers(r, t)', Deleting(t)'
                   PROVE  WrittenSince(t, startedAt[r])'
      OBVIOUS
    <3>2. Deleting(t) /\ t \notin ephemeral
      BY <2>3, <3>1, Local
    <3>3. Running(r) /\ Covers(r, t)
      BY <1>2, <3>1 DEF Running, Covers
    <3>4. WrittenSince(t, startedAt[r])
      BY <1>2, <2>1, <2>3, <3>2, <3>3 DEF SnapOK
    <3> QED
      BY <1>2, <3>4 DEF WrittenSince
  <2> QED
    BY <1>2, <2>2, <2>4, <2>5 DEF SnapOK
<1> QED
  BY <1>3, <1>4

\* Once a write is recorded, no refresh in flight takes the entry.
LEMMA SnapRecorded ==
  ASSUME TypeOK, RefreshInv, SnapInv, NEW t \in Ids, RecordWrite(t),
         NEW r \in Refreshes, UNCHANGED refreshing
  PROVE  SnapOK(r, t)'
<1>1. SnapOK(r, t) /\ UNCHANGED <<phase, whole, about, startedAt, snap>>
  BY DEF SnapInv, refreshing
<1>2. WrittenSince(t, startedAt[r])'
  <2>1. startedAt[r] <= writeSeq /\ startedAt[r] \in Nat /\ writeSeq \in Nat
    BY DEF RefreshInv, RefreshOK, TypeOK
  <2>2. lastWrite'[t] = writeSeq + 1 /\ startedAt'[r] = startedAt[r]
    BY <1>1 DEF RecordWrite, TypeOK
  <2> QED
    BY <2>1, <2>2 DEF WrittenSince
<1> QED
  BY <1>1, <1>2 DEF SnapOK, Takes, Covers

\* What a step of a write leaves of its own entry.
Settled(w) ==
    /\ WriteOK(w)'
    /\ EntryOK(target[w])'
    /\ \A r \in Refreshes : SnapOK(r, target[w])'

\* The calls issued.
LEMMA StartSettles ==
  ASSUME TypeOK, OpInv, IdInv, RefreshInv, Coherence, OverlapsTaint', NEW w \in Ops, StartWrite(w)
  PROVE  Settled(w)
<1> DEFINE t == target[w]
<1>1. /\ t \in Ids /\ OpOK(w) /\ IdOK(t) /\ WriteOK(w) /\ EntryOK(t)
      /\ t \notin tainted' => t \notin contended'
  BY DEF TypeOK, OpInv, IdInv, Coherence, WriteInv, EntryInv, OverlapsTaint
<1>2. Around(w) /\ target' = target
  BY WriteStepsAround DEF Around
<1>3. ASSUME NEW i \in Ids, StartCreate(w, i) PROVE Settled(w)
  <2>1. /\ pc[w] = "idle" /\ i = t /\ pc'[w] \in {"insert", "refused", "lookup"}
        /\ UNCHANGED <<store, cache, lastWrite, fresh, canonical, failures>>
    BY <1>3 DEF TypeOK, StartCreate, Issue, Goto, GoInsert, Refuse, numbering, limits
  <2>2. t \in ephemeral' => t \in ephemeral
    BY <1>3 DEF StartCreate, GoInsert, Refuse
  <2>3. pc'[w] # "insert" => ephemeral' = ephemeral
    BY <1>3 DEF TypeOK, StartCreate, Goto, GoInsert, Refuse
  <2>4. EntryOK(t)' /\ \A r \in Refreshes : SnapOK(r, t)'
    BY <1>2, <2>1, <2>2, <2>3, EntryUnsettled DEF PendingSteps
  <2>5. pc'[w] = "insert" /\ t \notin tainted' => store[t] = Absent
    <3>1. SUFFICES ASSUME pc'[w] = "insert", t \notin tainted' PROVE store[t] = Absent
      OBVIOUS
    <3>2. t \in ephemeral \/ (t \notin ephemeral /\ cache[t] = Absent /\ preload)
      BY <1>3, <2>1, <3>1 DEF TypeOK, StartCreate, Goto, Refuse
    <3>3. t \notin tainted /\ t \notin contended
      BY <1>1, <1>2, <3>1 DEF Around
    <3>4. ~Pending(t)
      BY <1>2, <2>1, <3>1, Local DEF PendingSteps
    <3> QED
      BY <1>1, <3>2, <3>3, <3>4 DEF IdOK, EntryOK
  <2>6. fresh'[w] = Absent
    BY <1>1, <2>1 DEF OpOK
  <2>7. WriteOK(w)'
    BY <1>2, <2>1, <2>5, <2>6 DEF WriteOK
  <2> QED
    BY <2>4, <2>7 DEF Settled
<1>4. ASSUME NEW i \in Ids, StartUpdate(w, i) PROVE Settled(w)
  <2>1. /\ pc[w] = "idle" /\ i = t /\ pc'[w] \in {"patch", "resolve"}
        /\ UNCHANGED <<store, cache, ephemeral, lastWrite, fresh, failures>>
    BY <1>4 DEF TypeOK, StartUpdate, Issue, Goto, GoPatch, numbering, limits
  <2>2. EntryOK(t)' /\ \A r \in Refreshes : SnapOK(r, t)'
    BY <1>2, <2>1, EntryUnsettled DEF PendingSteps
  <2>3. pc'[w] = "patch" /\ t \notin tainted' \cup ephemeral => canonical'[w] = store[t]
    <3>1. SUFFICES ASSUME pc'[w] = "patch", t \notin tainted' \cup ephemeral
                   PROVE  canonical'[w] = store[t]
      OBVIOUS
    <3>2. cache[t] # Absent /\ canonical'[w] = cache[t]
      BY <1>4, <2>1, <3>1 DEF TypeOK, StartUpdate, Goto, GoPatch
    <3>3. t \notin tainted
      BY <1>2, <3>1 DEF Around
    <3>4. ~Pending(t)
      BY <1>2, <2>1, <3>1, Local DEF PendingSteps
    <3> QED
      BY <1>1, <3>1, <3>2, <3>3, <3>4 DEF EntryOK
  <2>4. fresh'[w] = Absent
    BY <1>1, <2>1 DEF OpOK
  <2>5. WriteOK(w)'
    BY <1>2, <2>1, <2>3, <2>4 DEF WriteOK
  <2> QED
    BY <2>2, <2>5 DEF Settled
<1>5. ASSUME NEW i \in Ids, StartDelete(w, i) PROVE Settled(w)
  <2>1. /\ pc[w] = "idle" /\ i = t /\ pc'[w] \in {"acked", "erase"} /\ RecordWrite(t)
        /\ UNCHANGED <<store, canonical, fresh, preload>>
    BY <1>5 DEF TypeOK, StartDelete, Issue, Goto, limits
  <2>2. \A r \in Refreshes : SnapOK(r, t)'
    BY <1>1, <1>2, <2>1, SnapRecorded DEF Around, Coherence
  <2>3. EntryOK(t)'
    <3>1. CASE t \in ephemeral
      <4>1. cache'[t] = Absent /\ t \notin ephemeral'
        BY <1>5, <2>1, <3>1 DEF TypeOK, StartDelete
      <4>2. t \notin tainted' => store[t] = Absent
        BY <1>1, <1>2, <3>1 DEF Around, IdOK
      <4> QED
        BY <1>2, <2>1, <4>1, <4>2 DEF EntryOK
    <3>2. CASE t \notin ephemeral
      <4>1. UNCHANGED <<cache, ephemeral>>
        BY <1>5, <2>1, <3>2 DEF StartDelete
      <4>2. t \notin tainted' => (~Pending(t)' => ~Pending(t)) /\ t \notin tainted
        BY <1>2, <2>1, Local DEF PendingSteps, Around
      <4> QED
        BY <1>1, <1>2, <2>1, <3>2, <4>1, <4>2 DEF EntryOK
    <3> QED
      BY <3>1, <3>2
  <2>4. fresh'[w] = Absent
    BY <1>1, <2>1 DEF OpOK
  <2>5. WriteOK(w)'
    BY <1>2, <2>1, <2>4 DEF WriteOK
  <2> QED
    BY <1>2, <2>2, <2>3, <2>5 DEF Settled
<1> QED
  BY <1>3, <1>4, <1>5 DEF StartWrite

\* The store acts, or an answer of its arrives, and the cache is as it was.
LEMMA MiddleSettles ==
  ASSUME TypeOK, OpInv, IdInv, Coherence, OverlapsTaint', NEW w \in Ops,
         \/ LookupAnswers(w) \/ StoreInserts(w) \/ ResolveAnswers(w) \/ StorePatches(w)
         \/ ReadBackAnswers(w) \/ UpdateReachedNothing(w) \/ StoreErases(w) \/ Reject(w)
  PROVE  Settled(w)
<1> DEFINE t == target[w]
<1>1. /\ t \in Ids /\ OpOK(w) /\ WriteOK(w)
      /\ t \notin tainted' => t \notin contended'
  BY DEF TypeOK, OpInv, Coherence, WriteInv, OverlapsTaint
<1>2. Around(w) /\ target' = target
  BY WriteStepsAround DEF Around, Proceed
<1>3. /\ t \notin tainted' => t \notin tainted /\ t \notin contended
      /\ t \notin contended' => t \notin contended
  BY <1>1, <1>2 DEF Around
<1>4. ASSUME GoInsert(w), pc[w] = "lookup", UNCHANGED <<store, cache, lastWrite, fresh>>,
             failures' = 0 => store[t] = Absent
      PROVE  Settled(w)
  <2>1. pc'[w] = "insert" /\ t \notin ephemeral' /\ fresh'[w] = Absent
    BY <1>1, <1>4 DEF TypeOK, GoInsert, Goto, OpOK
  <2>2. EntryOK(t)' /\ \A r \in Refreshes : SnapOK(r, t)'
    BY <1>2, <1>4, <2>1, EntryUnsettled DEF PendingSteps
  <2>3. WriteOK(w)'
    BY <1>2, <1>4, <2>1 DEF WriteOK
  <2> QED
    BY <2>2, <2>3 DEF Settled
<1>5. ASSUME NEW step \in {"refused", "failed"}, pc'[w] = step, fresh'[w] = Absent,
             UNCHANGED <<store, cache, ephemeral, lastWrite>>,
             t \in tainted' \/ pc[w] \notin PendingSteps
      PROVE  Settled(w)
  <2>1. EntryOK(t)' /\ \A r \in Refreshes : SnapOK(r, t)'
    BY <1>2, <1>5, EntryUnsettled DEF PendingSteps
  <2>2. WriteOK(w)'
    BY <1>2, <1>5 DEF WriteOK
  <2> QED
    BY <2>1, <2>2 DEF Settled
<1>6. ASSUME LookupAnswers(w) PROVE Settled(w)
  <2>1. pc[w] = "lookup" /\ UNCHANGED <<store, cache, lastWrite, fresh, failures>> /\ fresh[w] = Absent
    BY <1>1, <1>6 DEF LookupAnswers, numbering, limits, OpOK
  <2>2. CASE store[t] = Absent
    BY <1>4, <1>6, <2>1, <2>2 DEF LookupAnswers
  <2>3. CASE store[t] # Absent
    <3>1. pc'[w] = "refused" /\ UNCHANGED ephemeral
      BY <1>6, <2>3 DEF TypeOK, LookupAnswers, Refuse, Goto
    <3> QED
      BY <1>5, <2>1, <3>1 DEF PendingSteps
  <2> QED
    BY <2>2, <2>3
<1>7. ASSUME StoreInserts(w) PROVE Settled(w)
  <2>1. /\ pc[w] = "insert" /\ pc'[w] = "inserted" /\ fresh'[w] = Absent
        /\ UNCHANGED <<cache, ephemeral, lastWrite, stamp>>
    BY <1>1, <1>7 DEF TypeOK, StoreInserts, Goto, numbering, OpOK
  <2>2. EntryOK(t)' /\ \A r \in Refreshes : SnapOK(r, t)'
    BY <1>2, <2>1, EntryUnsettled DEF PendingSteps
  <2>3. t \notin tainted' => store'[t] = [rev |-> stamp[w], by |-> {w}]
    BY <1>1, <1>7 DEF TypeOK, StoreInserts, Taint
  <2>4. WriteOK(w)'
    BY <1>2, <2>1, <2>3 DEF WriteOK
  <2> QED
    BY <2>2, <2>4 DEF Settled
<1>8. ASSUME ResolveAnswers(w) PROVE Settled(w)
  <2>1. /\ pc[w] = "resolve" /\ fresh[w] = Absent
        /\ UNCHANGED <<store, cache, ephemeral, lastWrite>>
    BY <1>1, <1>8 DEF ResolveAnswers, numbering, OpOK
  <2>2. CASE store[t] = Absent
    <3>1. pc'[w] = "refused" /\ fresh'[w] = Absent
      BY <1>8, <2>2 DEF TypeOK, ResolveAnswers, Finish, Goto
    <3> QED
      BY <1>5, <2>1, <3>1 DEF PendingSteps
  <2>3. CASE store[t] # Absent
    <3>1. pc'[w] = "patch" /\ fresh'[w] = Absent /\ canonical'[w] = store[t]
      BY <1>8, <2>1, <2>3 DEF TypeOK, ResolveAnswers, GoPatch, Goto
    <3>2. EntryOK(t)' /\ \A r \in Refreshes : SnapOK(r, t)'
      BY <1>2, <2>1, <3>1, EntryUnsettled DEF PendingSteps
    <3>3. WriteOK(w)'
      BY <1>2, <2>1, <3>1 DEF WriteOK
    <3> QED
      BY <3>2, <3>3 DEF Settled
  <2> QED
    BY <2>2, <2>3
<1>9. ASSUME StorePatches(w) PROVE Settled(w)
  <2>1. /\ pc[w] = "patch" /\ pc'[w] = "patched" /\ fresh'[w] = Absent /\ canonical[w] # Absent
        /\ UNCHANGED <<cache, ephemeral, lastWrite, stamp, canonical>>
    BY <1>1, <1>9 DEF TypeOK, StorePatches, Goto, numbering, OpOK, Patching
  <2>2. EntryOK(t)' /\ \A r \in Refreshes : SnapOK(r, t)'
    BY <1>2, <2>1, EntryUnsettled DEF PendingSteps
  <2>3. store'[t] = IF store[t] = Absent THEN Absent ELSE [rev |-> stamp[w], by |-> store[t].by \cup {w}]
    BY <1>1, <1>9 DEF TypeOK, StorePatches
  <2>4. store'[t] # Absent => w \in store'[t].by
    BY <2>3
  <2>5. t \notin tainted' \cup ephemeral => store'[t] = [rev |-> stamp[w], by |-> canonical[w].by \cup {w}]
    BY <1>1, <1>3, <2>1, <2>3 DEF WriteOK
  <2>6. WriteOK(w)'
    BY <1>2, <2>1, <2>4, <2>5 DEF WriteOK
  <2> QED
    BY <2>2, <2>6 DEF Settled
<1>10. ASSUME ReadBackAnswers(w) PROVE Settled(w)
  <2>1. /\ pc[w] = "patched" /\ pc'[w] = "read" /\ fresh'[w] = store[t]
        /\ UNCHANGED <<store, cache, ephemeral, lastWrite, stamp, canonical>>
    BY <1>1, <1>10 DEF TypeOK, ReadBackAnswers, Goto, numbering
  <2>2. EntryOK(t)' /\ \A r \in Refreshes : SnapOK(r, t)'
    BY <1>2, <2>1, EntryUnsettled DEF PendingSteps
  <2>3. WriteOK(w)'
    BY <1>1, <1>2, <1>3, <2>1 DEF WriteOK
  <2> QED
    BY <2>2, <2>3 DEF Settled
<1>11. ASSUME ReadBackFails(w) PROVE Settled(w)
  <2>1. /\ pc[w] = "patched" /\ pc'[w] = "unread" /\ fresh'[w] = Absent
        /\ UNCHANGED <<store, cache, ephemeral, lastWrite, stamp, canonical>>
    BY <1>1, <1>11 DEF TypeOK, ReadBackFails, Goto, numbering, OpOK
  <2>2. EntryOK(t)' /\ \A r \in Refreshes : SnapOK(r, t)'
    BY <1>2, <2>1, EntryUnsettled DEF PendingSteps
  <2>3. WriteOK(w)'
    BY <1>1, <1>2, <1>3, <2>1 DEF WriteOK
  <2> QED
    BY <2>2, <2>3 DEF Settled
<1>12. ASSUME UpdateReachedNothing(w) PROVE Settled(w)
  <2>1. pc'[w] = "failed" /\ fresh'[w] = Absent /\ t \in tainted' /\ UNCHANGED <<store, cache, ephemeral, lastWrite>>
    BY <1>12 DEF TypeOK, UpdateReachedNothing, Finish, Goto, Taint, numbering
  <2> QED
    BY <1>5, <2>1
<1>13. ASSUME StoreErases(w) PROVE Settled(w)
  <2>1. /\ pc[w] = "erase" /\ pc'[w] = "erased" /\ fresh'[w] = Absent /\ store'[t] = Absent
        /\ UNCHANGED <<cache, ephemeral, lastWrite>>
    BY <1>1, <1>13 DEF TypeOK, StoreErases, Goto, numbering, OpOK
  <2>2. EntryOK(t)' /\ \A r \in Refreshes : SnapOK(r, t)'
    BY <1>2, <2>1, EntryUnsettled DEF PendingSteps
  <2>3. WriteOK(w)'
    BY <1>2, <2>1 DEF WriteOK
  <2> QED
    BY <2>2, <2>3 DEF Settled
<1>14. ASSUME LookupFails(w) PROVE Settled(w)
  <2>1. pc[w] = "lookup" /\ UNCHANGED <<store, cache, lastWrite, fresh>> /\ GoInsert(w)
    BY <1>14 DEF LookupFails, numbering
  <2>2. failures' # 0
    BY <1>14 DEF LookupFails, CallRejects, TypeOK
  <2> QED
    BY <1>4, <2>1, <2>2
<1>15. ASSUME ResolveFails(w) PROVE Settled(w)
  <2>1. /\ pc[w] = "resolve" /\ pc'[w] = "refused" /\ fresh'[w] = Absent
        /\ UNCHANGED <<store, cache, ephemeral, lastWrite>>
    BY <1>15 DEF TypeOK, ResolveFails, Finish, Goto, numbering
  <2> QED
    BY <1>5, <2>1 DEF PendingSteps
<1>16. ASSUME CallFails(w) PROVE Settled(w)
  <2>1. pc'[w] = "failed" /\ fresh'[w] = Absent /\ t \in tainted' /\ UNCHANGED <<store, cache, ephemeral, lastWrite>>
    BY <1>16 DEF TypeOK, CallFails, Finish, Goto, Taint, numbering
  <2> QED
    BY <1>5, <2>1
<1> QED
  BY <1>6, <1>7, <1>8, <1>9, <1>10, <1>11, <1>12, <1>13, <1>14, <1>15, <1>16 DEF Reject

\* What an update leaves in the cache: where nothing tainted it, what the store holds.
LEMMA UpdateCaches ==
  ASSUME TypeOK, OpInv, Coherence, NEW w \in Ops, UpdateFinishes(w)
  PROVE  /\ cache'[target[w]] \in Entity
         /\ target[w] \notin tainted \cup contended \cup ephemeral => cache'[target[w]] = store[target[w]]
<1> DEFINE t == target[w]
           from == IF fresh[w] # Absent THEN fresh[w] ELSE canonical[w]
<1>1. t \in Ids /\ OpOK(w) /\ WriteOK(w) /\ pc[w] \in {"read", "unread"}
  BY DEF TypeOK, OpInv, Coherence, WriteInv, UpdateFinishes
<1>2. cache'[t] = [rev |-> stamp[w], by |-> from.by \cup {w}]
  BY <1>1 DEF TypeOK, UpdateFinishes
<1>3. from \in MaybeEntity /\ from # Absent
  BY <1>1 DEF OpOK, Patching, TypeOK
<1>4. cache'[t] \in Entity
  <2>1. stamp[w] \in Nat /\ from.by \cup {w} \in SUBSET Ops
    BY <1>3, EntityParts DEF TypeOK
  <2>2. [rev |-> stamp[w], by |-> from.by \cup {w}] \in Entity
    BY <2>1 DEF Entity
  <2> QED
    BY <1>2, <2>2
<1>5. ASSUME t \notin tainted \cup contended \cup ephemeral PROVE cache'[t] = store[t]
  <2>1. store[t] = [rev |-> stamp[w], by |-> canonical[w].by \cup {w}]
    BY <1>1, <1>5 DEF WriteOK
  <2>2. fresh[w] # Absent => fresh[w].by \cup {w} = canonical[w].by \cup {w}
    BY <1>1, <1>5, <2>1 DEF WriteOK
  <2>3. from.by \cup {w} = canonical[w].by \cup {w}
    BY <2>2
  <2> QED
    BY <1>2, <2>1, <2>3
<1> QED
  BY <1>4, <1>5

\* The cache is set.
LEMMA FinishSettles ==
  ASSUME TypeOK, OpInv, IdInv, RefreshInv, Coherence, OverlapsTaint', NEW w \in Ops,
         CreateFinishes(w) \/ UpdateFinishes(w) \/ DeleteFinishes(w)
  PROVE  Settled(w)
<1> DEFINE t == target[w]
<1>1. /\ t \in Ids /\ OpOK(w) /\ WriteOK(w) /\ EntryOK(t)
      /\ t \notin tainted' => t \notin contended'
  BY DEF TypeOK, OpInv, Coherence, WriteInv, EntryInv, OverlapsTaint
<1>2. Around(w) /\ target' = target
  BY WriteStepsAround DEF Around, Proceed
<1>3. /\ pc'[w] = "acked" /\ fresh'[w] = Absent /\ UNCHANGED <<store, ephemeral, preload, tainted, contended>>
  BY DEF TypeOK, CreateFinishes, UpdateFinishes, DeleteFinishes, Finish, Goto, limits
<1>4. WriteOK(w)'
  BY <1>2, <1>3 DEF WriteOK
<1>5. ASSUME CreateFinishes(w) PROVE EntryOK(t)' /\ \A r \in Refreshes : SnapOK(r, t)'
  <2>1. pc[w] = "inserted" /\ RecordWrite(t) /\ cache'[t] = [rev |-> stamp[w], by |-> {w}]
    BY <1>1, <1>5 DEF CreateFinishes, TypeOK
  <2>2. cache'[t] # Absent
    BY <2>1, EntityMade DEF TypeOK
  <2>3. EntryOK(t)'
    BY <1>1, <1>2, <1>3, <2>1, <2>2 DEF EntryOK, WriteOK
  <2> QED
    BY <1>1, <1>2, <2>1, <2>3, SnapRecorded DEF Around, Coherence
<1>6. ASSUME UpdateFinishes(w) PROVE EntryOK(t)' /\ \A r \in Refreshes : SnapOK(r, t)'
  <2>1. RecordWrite(t)
    BY <1>6 DEF UpdateFinishes
  <2>2. cache'[t] \in Entity /\ (t \notin tainted \cup contended \cup ephemeral => cache'[t] = store[t])
    BY <1>6, UpdateCaches
  <2>3. EntryOK(t)'
    BY <1>1, <1>2, <1>3, <2>2, AbsentAssumption DEF EntryOK
  <2> QED
    BY <1>1, <1>2, <2>1, <2>3, SnapRecorded DEF Around, Coherence
<1>7. ASSUME DeleteFinishes(w) PROVE EntryOK(t)' /\ \A r \in Refreshes : SnapOK(r, t)'
  <2>1. /\ pc[w] = "erased" /\ t \notin ephemeral /\ cache'[t] = Absent
        /\ t \notin tainted => store[t] = Absent
        /\ lastWrite' = lastWrite /\ UNCHANGED <<phase, whole, about, startedAt, snap>>
    BY <1>1, <1>7 DEF TypeOK, DeleteFinishes, OpOK, Replacing, WriteOK, numbering, refreshing
  <2>2. EntryOK(t)'
    BY <1>2, <1>3, <2>1 DEF EntryOK
  <2>3. ASSUME NEW r \in Refreshes PROVE SnapOK(r, t)'
    <3>1. SnapOK(r, t)
      BY <1>1 DEF Coherence, SnapInv
    <3>2. snap'[r][t] # Absent => phase'[r] = "holding" /\ Covers(r, t)'
      BY <1>2, <2>1, <3>1 DEF SnapOK, Covers
    <3>3. SUFFICES ASSUME t \notin tainted PROVE SnapOK(r, t)'
      BY <1>2, <1>3, <3>2 DEF SnapOK
    <3>4. Deleting(t) /\ ~Deleting(t)'
      BY <1>2, <1>3, <2>1, <3>3, Local
    <3>5. Running(r) /\ Covers(r, t) => WrittenSince(t, startedAt[r])
      BY <2>1, <3>1, <3>3, <3>4 DEF SnapOK
    <3>6. phase[r] = "holding" => ~Takes(r, t)
      BY <3>1, <3>5 DEF SnapOK, Takes, Covers, Running
    <3>7. phase'[r] = "holding" => ~Takes(r, t)'
      BY <1>2, <1>3, <2>1, <3>6 DEF Takes, WrittenSince
    <3> QED
      BY <1>2, <3>2, <3>4, <3>7 DEF SnapOK
  <2> QED
    BY <2>2, <2>3
<1> QED
  BY <1>2, <1>4, <1>5, <1>6, <1>7 DEF Settled

\* A step of one write preserves the second part.
LEMMA WriteCoheres ==
  ASSUME TypeOK, OpInv, IdInv, RefreshInv, Coherence, OverlapsTaint', NEW w \in Ops,
         StartWrite(w) \/ Proceed(w) \/ Reject(w)
  PROVE  Coherence'
<1>1. Around(w) /\ target' = target
  BY WriteStepsAround DEF Around
<1>2. Settled(w)
  BY StartSettles, MiddleSettles, FinishSettles DEF Proceed
<1>3. WriteInv'
  BY <1>1, <1>2, WriteElsewhere DEF WriteInv, Settled
<1>4. EntryInv'
  BY <1>1, <1>2, EntryElsewhere DEF EntryInv, Settled
<1>5. SnapInv'
  BY <1>1, <1>2, EntryElsewhere DEF SnapInv, Settled
<1> QED
  BY <1>3, <1>4, <1>5 DEF Coherence

\* addEphemeral and removeEphemeral record the write.
LEMMA EphemeralCoheres ==
  ASSUME TypeOK, OpInv, IdInv, RefreshInv, Coherence, OverlapsTaint', NEW j \in Ids,
         AddEphemeral(j) \/ RemoveEphemeral(j)
  PROVE  Coherence'
<1>1. /\ RecordWrite(j) /\ UNCHANGED <<store, preload, failures>>
      /\ UNCHANGED <<pc, kind, target, stamp, canonical, fresh>> /\ UNCHANGED refreshing
      /\ tainted \subseteq tainted' /\ contended \subseteq contended'
      /\ j \notin tainted' => ~Busy(j)
      /\ \A i \in Ids \ {j} : /\ cache'[i] = cache[i] /\ lastWrite'[i] = lastWrite[i]
                              /\ i \in ephemeral' <=> i \in ephemeral
  BY DEF TypeOK, AddEphemeral, RemoveEphemeral, RecordWrite, NoteStart, writes, limits
<1>2. UNCHANGED <<phase, whole, about, startedAt, snap>>
  BY <1>1 DEF refreshing
<1>3. \A i : (Pending(i)' <=> Pending(i)) /\ (Deleting(i)' <=> Deleting(i))
  BY <1>1 DEF Pending, Deleting
<1>4. ASSUME NEW o \in Ops PROVE WriteOK(o)'
  <2>1. WriteOK(o) /\ target[o] \in Ids
    BY DEF Coherence, WriteInv, TypeOK
  <2>2. CASE target[o] = j
    <3>1. ~Active(o) \/ j \in tainted'
      BY <1>1, <2>2 DEF Busy
    <3> QED
      BY <1>1, <2>1, <2>2, <3>1 DEF WriteOK, Active
  <2>3. CASE target[o] # j
    BY <1>1, <2>1, <2>3 DEF WriteOK
  <2> QED
    BY <2>2, <2>3
<1>5. ASSUME NEW i \in Ids PROVE EntryOK(i)'
  <2>1. EntryOK(i) /\ IdOK(i)
    BY DEF Coherence, EntryInv, IdInv
  <2>2. CASE i # j
    BY <1>1, <1>3, <2>1, <2>2 DEF EntryOK
  <2>3. CASE i = j /\ AddEphemeral(j)
    <3>1. j \in ephemeral' /\ cache'[j] = [rev |-> clock, by |-> {}]
      BY <2>3 DEF AddEphemeral, TypeOK
    <3>2. cache'[j] # Absent
      BY <3>1, EntityMade DEF TypeOK
    <3> QED
      BY <2>3, <3>1, <3>2 DEF EntryOK
  <2>4. CASE i = j /\ RemoveEphemeral(j)
    <3>1. j \in ephemeral /\ j \notin ephemeral' /\ cache'[j] = Absent
      BY <2>4 DEF RemoveEphemeral, TypeOK
    <3>2. j \notin tainted' => store[j] = Absent
      BY <1>1, <2>1, <2>4, <3>1 DEF IdOK, Coherence, OverlapsTaint
    <3> QED
      BY <1>1, <2>4, <3>1, <3>2 DEF EntryOK
  <2> QED
    BY <2>2, <2>3, <2>4
<1>6. ASSUME NEW r \in Refreshes, NEW i \in Ids PROVE SnapOK(r, i)'
  <2>1. CASE i = j
    BY <1>1, <2>1, SnapRecorded DEF Coherence
  <2>2. CASE i # j
    <3>1. SnapOK(r, i)
      BY DEF Coherence, SnapInv
    <3>2. lastWrite'[i] = lastWrite[i] /\ (i \in ephemeral' <=> i \in ephemeral)
      BY <1>1, <2>2
    <3>3. /\ Takes(r, i)' <=> Takes(r, i)
          /\ WrittenSince(i, startedAt[r])' <=> WrittenSince(i, startedAt[r])
      BY <1>2, <3>2 DEF Takes, WrittenSince
    <3> QED
      BY <1>1, <1>2, <1>3, <3>1, <3>2, <3>3 DEF SnapOK, Running, Covers
  <2> QED
    BY <2>1, <2>2
<1> QED
  BY <1>4, <1>5, <1>6 DEF Coherence, WriteInv, EntryInv, SnapInv

\* What a refresh leaves alone, and with it what the writes know.
LEMMA RefreshBeside ==
  ASSUME TypeOK, Coherence, UNCHANGED <<store, ephemeral, writes, contended>>,
         tainted \subseteq tainted', failures <= failures', failures' \in Nat
  PROVE  /\ WriteInv'
         /\ \A i : (Pending(i)' <=> Pending(i)) /\ (Deleting(i)' <=> Deleting(i))
         /\ UNCHANGED cache /\ UNCHANGED preload => EntryInv'
<1>1. ASSUME NEW o \in Ops PROVE WriteOK(o)'
  <2>1. WriteOK(o) /\ failures \in Nat
    BY DEF TypeOK, Coherence, WriteInv
  <2>2. UNCHANGED <<pc, target, stamp, canonical, fresh, store, ephemeral, contended>>
    BY DEF writes
  <2>3. failures' = 0 => failures = 0
    BY <2>1
  <2>4. target[o] \notin tainted' => target[o] \notin tainted
    OBVIOUS
  <2> QED
    BY <2>1, <2>2, <2>3, <2>4 DEF WriteOK
<1>2. \A i : (Pending(i)' <=> Pending(i)) /\ (Deleting(i)' <=> Deleting(i))
  BY DEF Pending, Deleting, writes
<1>3. ASSUME UNCHANGED cache, UNCHANGED preload, NEW i \in Ids PROVE EntryOK(i)'
  BY <1>2, <1>3 DEF Coherence, EntryInv, EntryOK
<1> QED
  BY <1>1, <1>2, <1>3 DEF WriteInv, EntryInv

\* A refresh begins, and taints what is being deleted.
LEMMA BeginCoheres ==
  ASSUME TypeOK, Coherence, OverlapsTaint', NEW q \in Refreshes, NEW k \in BOOLEAN, NEW j \in Ids,
         BeginRefresh(q, k, j)
  PROVE  Coherence'
<1>1. /\ UNCHANGED <<store, cache, ephemeral, writes, contended, preload, failures, lastWrite, snap>>
      /\ tainted' = tainted \cup {i \in Ids : Deleting(i) /\ (k \/ i = j)}
      /\ phase[q] = "idle" /\ phase'[q] = "reading" /\ whole'[q] = k /\ about'[q] = j
      /\ \A r \in Refreshes \ {q} : /\ phase'[r] = phase[r] /\ whole'[r] = whole[r]
                                    /\ about'[r] = about[r] /\ startedAt'[r] = startedAt[r]
  BY DEF TypeOK, BeginRefresh, Running, numbering, limits
<1>2. WriteInv' /\ EntryInv' /\ \A i : (Pending(i)' <=> Pending(i)) /\ (Deleting(i)' <=> Deleting(i))
  BY <1>1, RefreshBeside DEF TypeOK
<1>3. ASSUME NEW r \in Refreshes, NEW i \in Ids PROVE SnapOK(r, i)'
  <2>1. SnapOK(r, i)
    BY DEF Coherence, SnapInv
  <2>2. CASE r = q
    <3>1. snap'[r][i] = Absent /\ phase'[r] # "holding"
      BY <1>1, <2>1, <2>2 DEF SnapOK
    <3>2. Covers(r, i)' /\ Deleting(i)' => i \in tainted'
      BY <1>1, <1>2, <2>2 DEF Covers
    <3> QED
      BY <3>1, <3>2 DEF SnapOK
  <2>3. CASE r # q
    <3>1. /\ phase'[r] = phase[r] /\ whole'[r] = whole[r] /\ about'[r] = about[r]
          /\ startedAt'[r] = startedAt[r] /\ snap'[r] = snap[r]
          /\ i \notin tainted' => i \notin tainted
      BY <1>1, <2>3
    <3>2. /\ Takes(r, i)' <=> Takes(r, i)
          /\ WrittenSince(i, startedAt[r])' <=> WrittenSince(i, startedAt[r])
      BY <1>1, <3>1 DEF Takes, WrittenSince
    <3> QED
      BY <1>1, <1>2, <2>1, <3>1, <3>2 DEF SnapOK, Running, Covers
  <2> QED
    BY <2>2, <2>3
<1> QED
  BY <1>2, <1>3 DEF Coherence, SnapInv

\* The store answers a refresh with what it holds.
LEMMA AnswerCoheres ==
  ASSUME TypeOK, Coherence, OverlapsTaint', NEW q \in Refreshes, StoreAnswersRefresh(q)
  PROVE  Coherence'
<1>1. /\ UNCHANGED <<store, cache, ephemeral, writes, contended, tainted, preload, failures, lastWrite>>
      /\ UNCHANGED <<whole, about, startedAt>>
      /\ phase[q] = "reading" /\ phase'[q] = "holding"
      /\ \A i \in Ids : snap'[q][i] = IF Covers(q, i) THEN store[i] ELSE Absent
      /\ \A r \in Refreshes \ {q} : phase'[r] = phase[r] /\ snap'[r] = snap[r]
  BY DEF TypeOK, StoreAnswersRefresh, numbering, limits, history
<1>2. WriteInv' /\ EntryInv' /\ \A i : (Pending(i)' <=> Pending(i)) /\ (Deleting(i)' <=> Deleting(i))
  BY <1>1, RefreshBeside DEF TypeOK
<1>3. ASSUME NEW r \in Refreshes, NEW i \in Ids PROVE SnapOK(r, i)'
  <2>1. SnapOK(r, i)
    BY DEF Coherence, SnapInv
  <2>2. Covers(r, i)' <=> Covers(r, i)
    BY <1>1 DEF Covers
  <2>3. WrittenSince(i, startedAt[r])' <=> WrittenSince(i, startedAt[r])
    BY <1>1 DEF WrittenSince
  <2>4. Running(r)' <=> Running(r)
    BY <1>1 DEF Running
  <2>5. CASE r = q
    <3>1. snap'[r][i] # Absent => phase'[r] = "holding" /\ Covers(r, i)'
      BY <1>1, <2>2, <2>5
    <3>2. Takes(r, i)' => Covers(r, i)
      BY <2>2, <3>1 DEF Takes, Covers
    <3>3. Takes(r, i)' => snap'[r][i] = store'[i]
      BY <1>1, <2>5, <3>2
    <3> QED
      BY <1>1, <1>2, <2>1, <2>2, <2>3, <2>4, <3>1, <3>3 DEF SnapOK
  <2>6. CASE r # q
    <3>1. phase'[r] = phase[r] /\ snap'[r] = snap[r]
      BY <1>1, <2>6
    <3>2. Takes(r, i)' <=> Takes(r, i)
      BY <1>1, <3>1 DEF Takes, WrittenSince
    <3> QED
      BY <1>1, <1>2, <2>1, <2>2, <2>3, <2>4, <3>1, <3>2 DEF SnapOK
  <2> QED
    BY <2>5, <2>6
<1> QED
  BY <1>2, <1>3 DEF Coherence, SnapInv

\* A refresh ends, and has put in the cache what the store holds.
LEMMA EndCoheres ==
  ASSUME TypeOK, CountInv, Coherence, OverlapsTaint', NEW q \in Refreshes,
         ApplyRefresh(q) \/ RefreshFails(q)
  PROVE  Coherence'
<1>1. FreeSlot(q) /\ Running(q)
  BY DEF ApplyRefresh, RefreshFails, Running
<1>2. /\ UNCHANGED <<store, ephemeral, writes, contended, tainted, preload>>
      /\ failures <= failures' /\ failures' \in Nat
      /\ phase'[q] = "idle" /\ \A i \in Ids : snap'[q][i] = Absent
      /\ \A r \in Refreshes \ {q} : /\ phase'[r] = phase[r] /\ whole'[r] = whole[r] /\ about'[r] = about[r]
                                    /\ startedAt'[r] = startedAt[r] /\ snap'[r] = snap[r]
  BY <1>1 DEF TypeOK, FreeSlot, ApplyRefresh, RefreshFails, CallRejects, Nothing, limits, history
<1>3. /\ WriteInv' /\ \A i : (Pending(i)' <=> Pending(i)) /\ (Deleting(i)' <=> Deleting(i))
      /\ UNCHANGED cache => EntryInv'
  BY <1>2, RefreshBeside
<1>4. EntryInv'
  <2>1. SUFFICES ASSUME ApplyRefresh(q), NEW i \in Ids PROVE EntryOK(i)'
    BY <1>3 DEF EntryInv, RefreshFails
  <2>2. EntryOK(i) /\ SnapOK(q, i)
    BY DEF Coherence, EntryInv, SnapInv
  <2>3. phase[q] = "holding" /\ cache'[i] = IF Takes(q, i) THEN snap[q][i] ELSE cache[i]
    BY <2>1 DEF ApplyRefresh
  <2>4. CASE Takes(q, i)
    <3>1. i \in ephemeral' => cache'[i] # Absent
      BY <1>2, <2>3, <2>4 DEF Takes
    <3>2. i \notin tainted' \cup ephemeral' /\ ~Pending(i)' => cache'[i] = store'[i]
      BY <1>2, <1>3, <2>2, <2>3, <2>4 DEF SnapOK
    <3> QED
      BY <3>1, <3>2 DEF EntryOK
  <2>5. CASE ~Takes(q, i)
    BY <1>2, <1>3, <2>2, <2>3, <2>5 DEF EntryOK
  <2> QED
    BY <2>4, <2>5
<1>5. ASSUME NEW r \in Refreshes, NEW i \in Ids PROVE SnapOK(r, i)'
  <2>1. CASE r = q
    BY <1>2, <2>1 DEF SnapOK, Running
  <2>2. CASE r # q
    <3>1. SnapOK(r, i)
      BY DEF Coherence, SnapInv
    <3>2. /\ phase'[r] = phase[r] /\ whole'[r] = whole[r] /\ about'[r] = about[r]
          /\ startedAt'[r] = startedAt[r] /\ snap'[r] = snap[r]
      BY <1>2, <2>2
    <3>3. Running(r) => lastWrite' = lastWrite
      BY <1>1, <2>2, LastOne DEF FreeSlot, EndRefresh
    <3>4. /\ Running(r)' <=> Running(r)
          /\ Running(r) => (Takes(r, i)' <=> Takes(r, i))
          /\ Running(r) => (WrittenSince(i, startedAt[r])' <=> WrittenSince(i, startedAt[r]))
      BY <1>2, <3>2, <3>3 DEF Takes, WrittenSince, Running
    <3>5. phase[r] = "holding" => Running(r)
      BY DEF Running
    <3> QED
      BY <1>2, <1>3, <3>1, <3>2, <3>4, <3>5 DEF SnapOK, Covers
  <2> QED
    BY <2>1, <2>2
<1> QED
  BY <1>3, <1>4, <1>5 DEF Coherence, SnapInv

\* Writes are noted as overlapping and as tainting together.
LEMMA OverlapStep == OverlapsTaint /\ [Next]_vars => OverlapsTaint'
<1> SUFFICES ASSUME OverlapsTaint, [Next]_vars PROVE OverlapsTaint'
  OBVIOUS
<1> USE DEF OverlapsTaint
<1>1. ASSUME NEW w \in Ops, StartWrite(w) PROVE OverlapsTaint'
  BY <1>1 DEF StartWrite, StartCreate, StartUpdate, StartDelete, Issue, NoteStart
<1>2. ASSUME NEW w \in Ops, Proceed(w) PROVE OverlapsTaint'
  BY <1>2 DEF Proceed, LookupAnswers, StoreInserts, CreateFinishes, ResolveAnswers, StorePatches,
     ReadBackAnswers, UpdateReachedNothing, UpdateFinishes, StoreErases, DeleteFinishes, Taint, history
<1>3. ASSUME NEW w \in Ops, Reject(w) PROVE OverlapsTaint'
  BY <1>3 DEF Reject, LookupFails, ResolveFails, ReadBackFails, CallFails, Taint, history
<1>4. ASSUME NEW j \in Ids, AddEphemeral(j) \/ RemoveEphemeral(j) PROVE OverlapsTaint'
  BY <1>4 DEF AddEphemeral, RemoveEphemeral, NoteStart
<1>5. ASSUME NEW q \in Refreshes, NEW j \in Ids, TriggerIdRefresh(q, j) PROVE OverlapsTaint'
  BY <1>5 DEF TriggerIdRefresh, BeginRefresh
<1>6. ASSUME NEW q \in Refreshes,
             TriggerTypeRefresh(q) \/ StoreAnswersRefresh(q) \/ ApplyRefresh(q) \/ RefreshFails(q)
      PROVE  OverlapsTaint'
  BY <1>6 DEF TriggerTypeRefresh, BeginRefresh, StoreAnswersRefresh, ApplyRefresh, RefreshFails,
     FreeSlot, history
<1>7. CASE Tick \/ UNCHANGED vars
  BY <1>7 DEF Tick, vars, history
<1> QED
  BY <1>1, <1>2, <1>3, <1>4, <1>5, <1>6, <1>7 DEF Next

\* Every step preserves the second part.
LEMMA CoherenceStep == IInv /\ Coherence /\ [Next]_vars => Coherence'
<1> SUFFICES ASSUME IInv, Coherence, [Next]_vars PROVE Coherence'
  OBVIOUS
<1>1. TypeOK /\ OpInv /\ IdInv /\ RefreshInv /\ CountInv
  BY DEF IInv
<1>2. OverlapsTaint'
  BY OverlapStep DEF Coherence
<1>3. ASSUME NEW w \in Ops, StartWrite(w) \/ Proceed(w) \/ Reject(w) PROVE Coherence'
  BY <1>1, <1>2, <1>3, WriteCoheres
<1>4. ASSUME NEW j \in Ids, AddEphemeral(j) \/ RemoveEphemeral(j) PROVE Coherence'
  BY <1>1, <1>2, <1>4, EphemeralCoheres
<1>5. ASSUME NEW q \in Refreshes, NEW j \in Ids, TriggerIdRefresh(q, j) PROVE Coherence'
  BY <1>1, <1>2, <1>5, BeginCoheres DEF TriggerIdRefresh
<1>6. ASSUME NEW q \in Refreshes, TriggerTypeRefresh(q) PROVE Coherence'
  BY <1>1, <1>2, <1>6, BeginCoheres, AnyIdIsId DEF TriggerTypeRefresh
<1>7. ASSUME NEW q \in Refreshes, StoreAnswersRefresh(q) PROVE Coherence'
  BY <1>1, <1>2, <1>7, AnswerCoheres
<1>8. ASSUME NEW q \in Refreshes, ApplyRefresh(q) \/ RefreshFails(q) PROVE Coherence'
  BY <1>1, <1>2, <1>8, EndCoheres
<1>9. CASE Tick \/ UNCHANGED vars
  <2>1. UNCHANGED <<store, cache, ephemeral, lastWrite, writes, refreshing, preload, failures, contended, tainted>>
    BY <1>9 DEF Tick, vars, numbering, limits, history
  <2> QED
    BY <2>1 DEF Coherence, OverlapsTaint, WriteInv, WriteOK, EntryInv, EntryOK, SnapInv, SnapOK,
       Pending, Deleting, Takes, WrittenSince, Covers, Running, writes, refreshing
<1> QED
  BY <1>3, <1>4, <1>5, <1>6, <1>7, <1>8, <1>9 DEF Next

\* The second part holds at boot: what the boot load left out is tainted.
LEMMA CoherenceInit == Init => Coherence
<1> SUFFICES ASSUME Init PROVE Coherence
  OBVIOUS
<1>1. OverlapsTaint /\ WriteInv
  BY DEF Init, OverlapsTaint, WriteInv, WriteOK
<1>2. EntryInv
  BY DEF Init, EntryInv, EntryOK, Nothing
<1>3. SnapInv
  BY DEF Init, SnapInv, SnapOK, Running, Nothing
<1> QED
  BY <1>1, <1>2, <1>3 DEF Coherence

-----------------------------------------------------------------------------
(* The third part is preserved.                                            *)

\* Every step keeps the kinds and the stamps.
LEMMA StampStep == IInv /\ StampInv /\ [Next]_vars => StampInv'
<1> SUFFICES ASSUME IInv, StampInv, [Next]_vars, NEW o \in Ops PROVE StampOK(o)'
  BY DEF StampInv
<1>1. TypeOK /\ OpInv /\ StampOK(o)
  BY DEF IInv, StampInv
<1>2. ASSUME UNCHANGED writes PROVE StampOK(o)'
  BY <1>1, <1>2 DEF StampOK, Patching, writes
<1>3. ASSUME NEW w \in Ops, StartWrite(w) \/ Proceed(w) \/ Reject(w), w # o PROVE StampOK(o)'
  <2>1. /\ pc'[o] = pc[o] /\ kind'[o] = kind[o] /\ stamp'[o] = stamp[o] /\ canonical'[o] = canonical[o]
    BY <1>1, <1>3, WriteStepsAround DEF Around
  <2> QED
    BY <1>1, <2>1 DEF StampOK, Patching
<1>4. ASSUME NEW n \in Nat PROVE NextRev(n) > n
  BY <1>1, <1>4 DEF NextRev, TypeOK
<1>5. ASSUME NEW e, e \in MaybeEntity, e # Absent, GoPatch(o, e, NextRev(e.rev)), UNCHANGED kind \/ kind'[o] = "update"
      PROVE  StampOK(o)'
  <2>1. pc'[o] = "patch" /\ canonical'[o] = e /\ stamp'[o] = NextRev(e.rev)
    BY <1>1, <1>5 DEF TypeOK, GoPatch, Goto
  <2>2. NextRev(e.rev) > e.rev
    BY <1>4, <1>5, EntityParts
  <2> QED
    BY <2>1, <2>2 DEF StampOK, Patching
<1>6. ASSUME NEW step \in {"refused", "failed", "acked"}, Finish(o, step) PROVE StampOK(o)'
  BY <1>1, <1>6 DEF TypeOK, StampOK, Finish, Goto
<1>7. ASSUME NEW i \in Ids, StartCreate(o, i) PROVE StampOK(o)'
  BY <1>1, <1>7 DEF TypeOK, StampOK, Patching, StartCreate, Issue, Goto, GoInsert, Refuse
<1>8. ASSUME NEW i \in Ids, StartUpdate(o, i) PROVE StampOK(o)'
  <2>1. kind'[o] = "update" /\ cache[i] \in MaybeEntity
    BY <1>1, <1>8 DEF TypeOK, StartUpdate, Issue
  <2>2. CASE cache[i] # Absent
    BY <1>5, <1>8, <2>1, <2>2 DEF StartUpdate
  <2>3. CASE cache[i] = Absent
    BY <1>1, <1>8, <2>3 DEF TypeOK, StampOK, Patching, StartUpdate, Issue, Goto
  <2> QED
    BY <2>2, <2>3
<1>9. ASSUME NEW i \in Ids, StartDelete(o, i) PROVE StampOK(o)'
  BY <1>1, <1>9 DEF TypeOK, StampOK, Patching, StartDelete, Issue, Goto
<1>10. ASSUME LookupAnswers(o) \/ LookupFails(o) PROVE StampOK(o)'
  BY <1>1, <1>10 DEF TypeOK, StampOK, Patching, LookupAnswers, LookupFails, Goto, GoInsert, Refuse
<1>11. ASSUME StoreInserts(o) \/ StorePatches(o) \/ ReadBackAnswers(o) \/ ReadBackFails(o) \/ StoreErases(o)
       PROVE  StampOK(o)'
  BY <1>1, <1>11 DEF TypeOK, StampOK, Patching, StoreInserts, StorePatches, ReadBackAnswers,
     ReadBackFails, StoreErases, Goto
<1>12. ASSUME ResolveAnswers(o) PROVE StampOK(o)'
  <2>1. store[target[o]] \in MaybeEntity
    BY <1>1 DEF TypeOK
  <2> QED
    BY <1>5, <1>6, <1>12, <2>1 DEF ResolveAnswers
<1>13. ASSUME \/ CreateFinishes(o) \/ UpdateReachedNothing(o) \/ UpdateFinishes(o) \/ DeleteFinishes(o)
              \/ ResolveFails(o) \/ CallFails(o)
       PROVE  StampOK(o)'
  BY <1>6, <1>13 DEF CreateFinishes, UpdateReachedNothing, UpdateFinishes, DeleteFinishes,
     ResolveFails, CallFails
<1>14. ASSUME StartWrite(o) \/ Proceed(o) \/ Reject(o) PROVE StampOK(o)'
  BY <1>7, <1>8, <1>9, <1>10, <1>11, <1>12, <1>13, <1>14 DEF StartWrite, Proceed, Reject
<1>15. ASSUME NEW j \in Ids, AddEphemeral(j) \/ RemoveEphemeral(j) PROVE UNCHANGED writes
  BY <1>15 DEF AddEphemeral, RemoveEphemeral
<1>16. ASSUME NEW q \in Refreshes, NEW j \in Ids, TriggerIdRefresh(q, j) PROVE UNCHANGED writes
  BY <1>16 DEF TriggerIdRefresh, BeginRefresh
<1>17. ASSUME NEW q \in Refreshes,
              TriggerTypeRefresh(q) \/ StoreAnswersRefresh(q) \/ ApplyRefresh(q) \/ RefreshFails(q)
       PROVE  UNCHANGED writes
  BY <1>17
     DEF TriggerTypeRefresh, BeginRefresh, StoreAnswersRefresh, ApplyRefresh, RefreshFails, FreeSlot
<1>18. ASSUME Tick \/ UNCHANGED vars PROVE UNCHANGED writes
  BY <1>18 DEF Tick, vars
<1> QED
  BY <1>2, <1>3, <1>14, <1>15, <1>16, <1>17, <1>18 DEF Next

\* A copy is an entity.
LEMMA CopyTypes ==
  ASSUME TypeOK, NEW i \in Ids, NEW x \in Copies(i)
  PROVE  x \in Entity
BY DEF TypeOK, Copies, MaybeEntity

\* A step that makes no new copy names nothing anew.
LEMMA CopiesShrink ==
  ASSUME NEW i \in Ids, RevisionOK(i), OnlyUpdated(i)' => OnlyUpdated(i),
         store'[i] = store[i], Copies(i)' \subseteq Copies(i),
         \/ UNCHANGED snap
         \/ \A r \in Refreshes : snap'[r][i] \in {snap[r][i], store[i], Absent},
         i \notin tainted' \cup ephemeral' => i \notin tainted \cup ephemeral
  PROVE  RevisionOK(i)'
<1>1. SUFFICES ASSUME OnlyUpdated(i)' PROVE RevisionOK(i)'
  BY DEF RevisionOK
<1>2. store'[i] = Absent => \A r \in Refreshes : snap'[r][i] = Absent
  BY <1>1 DEF RevisionOK
<1>3. i \notin tainted' \cup ephemeral' =>
        /\ \A x \in Copies(i)' : store'[i] # Absent /\ x.rev <= store'[i].rev
        /\ \A x, y \in Copies(i)' : x.rev = y.rev => x.by = y.by
  BY <1>1 DEF RevisionOK
<1> QED
  BY <1>2, <1>3 DEF RevisionOK

\* Where a copy can be.
LEMMA CopiesAre ==
  ASSUME NEW i \in Ids, NEW e
  PROVE  e \in Copies(i) <=>
           /\ e # Absent
           /\ \/ e = store[i] \/ e = cache[i]
              \/ \E r \in Refreshes : e = snap[r][i]
              \/ \E o \in Ops : target[o] = i /\ (e = canonical[o] \/ e = fresh[o])
BY DEF Copies

\* Nothing happens to the copies of another entity.
LEMMA RevisionElsewhere ==
  ASSUME TypeOK, RevisionInv, NEW w \in Ops, Around(w), NEW i \in Ids, i # target[w]
  PROVE  RevisionOK(i)'
<1>1. /\ store'[i] = store[i] /\ cache'[i] = cache[i] /\ UNCHANGED <<snap, target>>
      /\ i \in ephemeral' <=> i \in ephemeral
      /\ i \notin tainted' => i \notin tainted
      /\ \A p \in Ops : target[p] = i => /\ kind'[p] = kind[p]
                                         /\ canonical'[p] = canonical[p] /\ fresh'[p] = fresh[p]
  BY DEF Around, refreshing
<1>2. Copies(i)' \subseteq Copies(i)
  <2>1. SUFFICES ASSUME NEW e \in Copies(i)' PROVE e \in Copies(i)
    OBVIOUS
  <2>2. /\ e # Absent
        /\ \/ e = store'[i] \/ e = cache'[i]
           \/ \E r \in Refreshes : e = snap'[r][i]
           \/ \E o \in Ops : target'[o] = i /\ (e = canonical'[o] \/ e = fresh'[o])
    BY DEF Copies
  <2> QED
    BY <1>1, <2>2, CopiesAre
<1>3. OnlyUpdated(i)' => OnlyUpdated(i)
  BY <1>1 DEF OnlyUpdated
<1> QED
  BY <1>1, <1>2, <1>3, CopiesShrink DEF RevisionInv

\* A step of a write that puts in the cache, or keeps of the entity, only what there is.
LEMMA RevisionKept ==
  ASSUME TypeOK, RevisionInv, NEW w \in Ops, Around(w), kind'[w] = "update" => kind[w] = "update",
         UNCHANGED <<store, ephemeral>>,
         target[w] \notin tainted' \cup ephemeral => cache'[target[w]] \in Copies(target[w]) \cup {Absent},
         target[w] \notin tainted' \cup ephemeral => canonical'[w] \in Copies(target[w]) \cup {Absent},
         target[w] \notin tainted' \cup ephemeral => fresh'[w] \in Copies(target[w]) \cup {Absent}
  PROVE  RevisionOK(target[w])'
<1> DEFINE t == target[w]
<1>1. t \in Ids /\ target'[w] = t /\ UNCHANGED <<snap, target>> /\ (t \notin tainted' => t \notin tainted)
  BY DEF TypeOK, Around, refreshing
<1>2. RevisionOK(t)
  BY <1>1 DEF RevisionInv
<1>3. OnlyUpdated(t)' => OnlyUpdated(t)
  BY <1>1 DEF OnlyUpdated, Around
<1>4. SUFFICES ASSUME OnlyUpdated(t)' PROVE RevisionOK(t)'
  BY <1>1 DEF RevisionOK, OnlyUpdated
<1>5. store'[t] = Absent => \A r \in Refreshes : snap'[r][t] = Absent
  BY <1>1, <1>2, <1>3, <1>4 DEF RevisionOK
<1>6. ASSUME t \notin tainted' \cup ephemeral'
      PROVE  /\ \A x \in Copies(t)' : store'[t] # Absent /\ x.rev <= store'[t].rev
             /\ \A x, y \in Copies(t)' : x.rev = y.rev => x.by = y.by
  <2>1. Copies(t)' \subseteq Copies(t)
    <3>1. SUFFICES ASSUME NEW e \in Copies(t)' PROVE e \in Copies(t)
      OBVIOUS
    <3>2. /\ e # Absent
          /\ \/ e = store'[t] \/ e = cache'[t]
             \/ \E r \in Refreshes : e = snap'[r][t]
             \/ \E o \in Ops : target'[o] = t /\ (e = canonical'[o] \/ e = fresh'[o])
      BY <1>1 DEF Copies
    <3>3. \A o \in Ops \ {w} : canonical'[o] = canonical[o] /\ fresh'[o] = fresh[o]
      BY DEF Around
    <3> QED
      BY <1>1, <1>6, <3>2, <3>3, CopiesAre
  <2>2. /\ \A x \in Copies(t) : store[t] # Absent /\ x.rev <= store[t].rev
        /\ \A x, y \in Copies(t) : x.rev = y.rev => x.by = y.by
    BY <1>1, <1>2, <1>3, <1>4, <1>6 DEF RevisionOK
  <2> QED
    BY <2>1, <2>2
<1> QED
  BY <1>1, <1>5, <1>6 DEF RevisionOK

\* An update's revision is above every copy there is of what it patches.
LEMMA PatchRaises ==
  ASSUME TypeOK, OpInv, Coherence, Revisions, NEW w \in Ops, StorePatches(w)
  PROVE  RevisionOK(target[w])'
<1> DEFINE t == target[w]
<1>1. /\ t \in Ids /\ OpOK(w) /\ WriteOK(w) /\ StampOK(w) /\ RevisionOK(t)
  BY DEF TypeOK, OpInv, Coherence, WriteInv, Revisions, StampInv, RevisionInv
<1>2. /\ pc[w] = "patch" /\ canonical[w] # Absent
      /\ UNCHANGED <<cache, ephemeral, kind, target, canonical, fresh, snap, tainted>>
  BY <1>1 DEF StorePatches, OpOK, Patching, refreshing, history
<1>3. store'[t] = IF store[t] = Absent THEN Absent ELSE [rev |-> stamp[w], by |-> store[t].by \cup {w}]
  BY <1>1 DEF TypeOK, StorePatches
<1>4. SUFFICES ASSUME OnlyUpdated(t) PROVE RevisionOK(t)'
  BY <1>2 DEF RevisionOK, OnlyUpdated
<1>5. store[t] # Absent => store'[t] # Absent
  <2>1. store[t] # Absent => stamp[w] \in Nat /\ store[t].by \cup {w} \in SUBSET Ops
    BY <1>1, EntityParts DEF TypeOK
  <2> QED
    BY <1>3, <2>1, EntityMade
<1>6. store'[t] = Absent => \A r \in Refreshes : snap'[r][t] = Absent
  BY <1>1, <1>2, <1>4, <1>5 DEF RevisionOK
<1>7. ASSUME t \notin tainted \cup ephemeral
      PROVE  /\ \A x \in Copies(t)' : store'[t] # Absent /\ x.rev <= store'[t].rev
             /\ \A x, y \in Copies(t)' : x.rev = y.rev => x.by = y.by
  <2>1. canonical[w] = store[t] /\ store[t] # Absent /\ stamp[w] > store[t].rev
    BY <1>1, <1>2, <1>7 DEF WriteOK, StampOK
  <2>2. store'[t].rev = stamp[w] /\ store'[t] # Absent
    BY <1>3, <1>5, <2>1
  <2>3. \A e \in Copies(t)' : e = store'[t] \/ e \in Copies(t)
    <3>1. SUFFICES ASSUME NEW e \in Copies(t)', e # store'[t] PROVE e \in Copies(t)
      OBVIOUS
    <3>2. /\ e # Absent
          /\ \/ e = cache'[t]
             \/ \E r \in Refreshes : e = snap'[r][t]
             \/ \E o \in Ops : target'[o] = t /\ (e = canonical'[o] \/ e = fresh'[o])
      BY <1>2, <3>1 DEF Copies
    <3> QED
      BY <1>1, <1>2, <3>2, CopiesAre
  <2>4. \A x \in Copies(t) : x.rev <= store[t].rev /\ x.rev \in Nat
    <3>1. \A x \in Copies(t) : x.rev \in Nat
      BY <1>1, CopyTypes DEF Entity
    <3> QED
      BY <1>1, <1>4, <1>7, <3>1 DEF RevisionOK
  <2>5. \A x, y \in Copies(t) : x.rev = y.rev => x.by = y.by
    BY <1>1, <1>4, <1>7 DEF RevisionOK
  <2>6. store[t].rev \in Nat /\ stamp[w] \in Nat
    BY <1>1, <2>1, EntityParts DEF TypeOK
  <2>7. \A x \in Copies(t) : x.rev < stamp[w] /\ x.rev \in Nat
    BY <2>1, <2>4, <2>6
  <2>8. \A x \in Copies(t)' : store'[t] # Absent /\ x.rev <= store'[t].rev
    BY <2>2, <2>3, <2>6, <2>7
  <2>9. ASSUME NEW x \in Copies(t)', NEW y \in Copies(t)', x.rev = y.rev PROVE x.by = y.by
    <3>1. x = store'[t] <=> y = store'[t]
      BY <2>2, <2>3, <2>6, <2>7, <2>9
    <3> QED
      BY <2>3, <2>5, <2>9, <3>1
  <2> QED
    BY <2>8, <2>9
<1> QED
  BY <1>2, <1>6, <1>7 DEF RevisionOK

\* A step of a write preserves the revisions of its entity.
LEMMA WriteRevises ==
  ASSUME TypeOK, OpInv, Coherence, OverlapsTaint', Revisions, NEW w \in Ops,
         StartWrite(w) \/ Proceed(w) \/ Reject(w)
  PROVE  RevisionOK(target[w])'
<1> DEFINE t == target[w]
<1>1. /\ t \in Ids /\ OpOK(w) /\ WriteOK(w) /\ StampOK(w) /\ RevisionInv
  BY DEF TypeOK, OpInv, Coherence, WriteInv, Revisions, StampInv
<1>2. Around(w) /\ target'[w] = t
  BY WriteStepsAround DEF Around
<1>3. ASSUME kind'[w] # "update" PROVE RevisionOK(t)'
  BY <1>2, <1>3 DEF RevisionOK, OnlyUpdated
<1>4. {store[t], cache[t], canonical[w], fresh[w]} \subseteq Copies(t) \cup {Absent}
  BY <1>1, CopiesAre
<1>5. ASSUME kind'[w] = kind[w], UNCHANGED <<store, ephemeral, cache>>,
             canonical'[w] \in {canonical[w], store[t], Absent},
             fresh'[w] \in {fresh[w], store[t], Absent}
      PROVE  RevisionOK(t)'
  BY <1>1, <1>2, <1>4, <1>5, RevisionKept
<1>6. ASSUME NEW i \in Ids, StartCreate(w, i) \/ StartDelete(w, i) PROVE RevisionOK(t)'
  BY <1>3, <1>6 DEF TypeOK, StartCreate, StartDelete, Issue
<1>7. ASSUME NEW i \in Ids, StartUpdate(w, i) PROVE RevisionOK(t)'
  <2>1. /\ kind[w] = "update" /\ i = t /\ UNCHANGED <<store, cache, ephemeral, fresh>>
        /\ canonical'[w] \in {canonical[w], cache[t]}
    BY <1>1, <1>7 DEF TypeOK, StampOK, StartUpdate, Issue, GoPatch
  <2> QED
    BY <1>1, <1>2, <1>4, <2>1, RevisionKept
<1>8. ASSUME LookupAnswers(w) \/ LookupFails(w) \/ StoreInserts(w) \/ CreateFinishes(w)
      PROVE  RevisionOK(t)'
  <2>1. kind[w] = "create" /\ kind' = kind
    BY <1>1, <1>8 DEF StampOK, LookupAnswers, LookupFails, StoreInserts, CreateFinishes, Finish
  <2> QED
    BY <1>3, <2>1
<1>9. ASSUME StoreErases(w) \/ DeleteFinishes(w) PROVE RevisionOK(t)'
  <2>1. kind[w] = "delete" /\ kind' = kind
    BY <1>1, <1>9 DEF OpOK, StoreErases, DeleteFinishes, Finish
  <2> QED
    BY <1>3, <2>1
<1>10. ASSUME ResolveAnswers(w) PROVE RevisionOK(t)'
  BY <1>5, <1>10 DEF TypeOK, ResolveAnswers, GoPatch, Finish
<1>11. ASSUME StorePatches(w) PROVE RevisionOK(t)'
  BY <1>11, PatchRaises
<1>12. ASSUME ReadBackAnswers(w) PROVE RevisionOK(t)'
  BY <1>5, <1>12 DEF TypeOK, ReadBackAnswers
<1>13. ASSUME UpdateReachedNothing(w) PROVE RevisionOK(t)'
  BY <1>5, <1>13 DEF TypeOK, UpdateReachedNothing, Finish
<1>14. ASSUME UpdateFinishes(w) PROVE RevisionOK(t)'
  <2>1. /\ kind'[w] = kind[w] /\ UNCHANGED <<store, ephemeral, tainted, contended>>
        /\ canonical'[w] = Absent /\ fresh'[w] = Absent
    BY <1>14 DEF TypeOK, UpdateFinishes, Finish
  <2>2. t \notin tainted' \cup ephemeral => cache'[t] = store[t]
    BY <1>14, <2>1, UpdateCaches DEF OverlapsTaint
  <2> QED
    BY <1>1, <1>2, <1>4, <2>1, <2>2, RevisionKept
<1>15. ASSUME ResolveFails(w) \/ CallFails(w) PROVE RevisionOK(t)'
  BY <1>5, <1>15 DEF TypeOK, ResolveFails, CallFails, Finish
<1>16. ASSUME ReadBackFails(w) PROVE RevisionOK(t)'
  BY <1>5, <1>16 DEF TypeOK, ReadBackFails
<1> QED
  BY <1>6, <1>7, <1>8, <1>9, <1>10, <1>11, <1>12, <1>13, <1>14, <1>15, <1>16
     DEF StartWrite, Proceed, Reject

\* Ephemeral entities have no revisions to compare, and one that is removed leaves no copy.
LEMMA EphemeralRevises ==
  ASSUME TypeOK, OpInv, IdInv, Coherence, OverlapsTaint', Revisions, NEW j \in Ids,
         AddEphemeral(j) \/ RemoveEphemeral(j), NEW i \in Ids
  PROVE  RevisionOK(i)'
<1>1. /\ RevisionOK(i) /\ IdOK(i) /\ i \in Ids
      /\ UNCHANGED <<store, snap, kind, target, canonical, fresh, pc>>
      /\ contended \subseteq contended' /\ tainted \subseteq tainted'
  BY DEF Revisions, RevisionInv, IdInv, AddEphemeral, RemoveEphemeral, NoteStart, writes, refreshing
<1>2. OnlyUpdated(i)' <=> OnlyUpdated(i)
  BY <1>1 DEF OnlyUpdated
<1>3. CASE i # j
  <2>1. cache'[i] = cache[i] /\ (i \in ephemeral' <=> i \in ephemeral)
    BY <1>3 DEF TypeOK, AddEphemeral, RemoveEphemeral
  <2>2. Copies(i)' = Copies(i)
    BY <1>1, <2>1 DEF Copies
  <2> QED
    BY <1>1, <1>2, <2>1, <2>2, CopiesShrink
<1>4. CASE i = j /\ AddEphemeral(j)
  <2>1. i \in ephemeral'
    BY <1>4 DEF AddEphemeral
  <2> QED
    BY <1>1, <1>2, <2>1 DEF RevisionOK
<1>5. CASE i = j /\ RemoveEphemeral(j)
  <2>1. i \in ephemeral /\ cache'[i] = Absent /\ (Busy(i) => i \in tainted')
    BY <1>5 DEF TypeOK, RemoveEphemeral, NoteStart
  <2>2. SUFFICES ASSUME OnlyUpdated(i), i \notin tainted' PROVE Copies(i)' = {}
    BY <1>1, <1>2 DEF RevisionOK
  <2>3. store[i] = Absent
    BY <1>1, <2>1, <2>2 DEF IdOK, OverlapsTaint
  <2>4. \A r \in Refreshes : snap[r][i] = Absent
    BY <1>1, <2>2, <2>3 DEF RevisionOK
  <2>5. \A o \in Ops : target[o] = i => canonical[o] = Absent /\ fresh[o] = Absent
    <3>1. SUFFICES ASSUME NEW o \in Ops, target[o] = i
                   PROVE  canonical[o] = Absent /\ fresh[o] = Absent
      OBVIOUS
    <3>2. ~Active(o)
      BY <2>1, <2>2, <3>1 DEF Busy
    <3>3. StampOK(o) /\ OpOK(o)
      BY DEF Revisions, StampInv, OpInv
    <3> QED
      BY <3>2, <3>3 DEF StampOK, OpOK, Patching, Active
  <2> QED
    BY <1>1, <2>1, <2>3, <2>4, <2>5 DEF Copies
<1> QED
  BY <1>3, <1>4, <1>5

\* Refreshes carry copies from the store to the cache and make none.
LEMMA RefreshRevises ==
  ASSUME TypeOK, Revisions, NEW i \in Ids, UNCHANGED <<store, ephemeral, writes>>,
         tainted \subseteq tainted', cache'[i] \in {cache[i]} \cup {snap[r][i] : r \in Refreshes},
         \A r \in Refreshes : snap'[r][i] \in {snap[r][i], store[i], Absent}
  PROVE  RevisionOK(i)'
<1>1. RevisionOK(i) /\ UNCHANGED <<kind, target, canonical, fresh>>
  BY DEF Revisions, RevisionInv, writes
<1>2. OnlyUpdated(i)' <=> OnlyUpdated(i)
  BY <1>1 DEF OnlyUpdated
<1>3. Copies(i)' \subseteq Copies(i)
  <2>1. SUFFICES ASSUME NEW e \in Copies(i)' PROVE e \in Copies(i)
    OBVIOUS
  <2>2. /\ e # Absent
        /\ \/ e = store'[i] \/ e = cache'[i]
           \/ \E r \in Refreshes : e = snap'[r][i]
           \/ \E o \in Ops : target'[o] = i /\ (e = canonical'[o] \/ e = fresh'[o])
    BY DEF Copies
  <2> QED
    BY <1>1, <2>2, CopiesAre
<1> QED
  BY <1>1, <1>2, <1>3, CopiesShrink

\* Every step preserves the third part.
LEMMA RevisionsStep == IInv /\ Coherence /\ Revisions /\ [Next]_vars => Revisions'
<1> SUFFICES ASSUME IInv, Coherence, Revisions, [Next]_vars, NEW i \in Ids PROVE RevisionOK(i)'
  BY StampStep DEF Revisions, RevisionInv
<1>1. TypeOK /\ OpInv /\ IdInv
  BY DEF IInv
<1>2. OverlapsTaint'
  BY OverlapStep DEF Coherence
<1>3. ASSUME NEW w \in Ops, StartWrite(w) \/ Proceed(w) \/ Reject(w) PROVE RevisionOK(i)'
  <2>1. Around(w) /\ RevisionInv
    BY <1>1, <1>3, WriteStepsAround DEF Revisions
  <2>2. target'[w] = target[w]
    BY <2>1 DEF Around
  <2> QED
    BY <1>1, <1>2, <1>3, <2>1, <2>2, RevisionElsewhere, WriteRevises
<1>4. ASSUME NEW j \in Ids, AddEphemeral(j) \/ RemoveEphemeral(j) PROVE RevisionOK(i)'
  BY <1>1, <1>2, <1>4, EphemeralRevises
<1>5. ASSUME NEW q \in Refreshes, NEW k \in BOOLEAN, NEW j \in Ids, BeginRefresh(q, k, j)
      PROVE  RevisionOK(i)'
  <2>1. UNCHANGED <<store, ephemeral, writes, cache, snap>> /\ tainted \subseteq tainted'
    BY <1>5 DEF BeginRefresh
  <2> QED
    BY <1>1, <2>1, RefreshRevises
<1>6. ASSUME NEW q \in Refreshes, NEW j \in Ids, TriggerIdRefresh(q, j) PROVE RevisionOK(i)'
  BY <1>5, <1>6 DEF TriggerIdRefresh
<1>7. ASSUME NEW q \in Refreshes, TriggerTypeRefresh(q) PROVE RevisionOK(i)'
  BY <1>5, <1>7, AnyIdIsId DEF TriggerTypeRefresh
<1>8. ASSUME NEW q \in Refreshes, StoreAnswersRefresh(q) PROVE RevisionOK(i)'
  <2>1. UNCHANGED <<store, ephemeral, writes, cache, tainted>>
    BY <1>8 DEF StoreAnswersRefresh, history
  <2>2. \A r \in Refreshes : snap'[r][i] \in {snap[r][i], store[i], Absent}
    BY <1>1, <1>8 DEF TypeOK, StoreAnswersRefresh
  <2> QED
    BY <1>1, <2>1, <2>2, RefreshRevises
<1>9. ASSUME NEW q \in Refreshes, ApplyRefresh(q) \/ RefreshFails(q) PROVE RevisionOK(i)'
  <2>1. FreeSlot(q) /\ UNCHANGED <<store, ephemeral, writes, tainted>>
    BY <1>9 DEF ApplyRefresh, RefreshFails, FreeSlot, history
  <2>2. cache'[i] \in {cache[i]} \cup {snap[r][i] : r \in Refreshes}
    BY <1>9 DEF ApplyRefresh, RefreshFails
  <2>3. \A r \in Refreshes : snap'[r][i] \in {snap[r][i], store[i], Absent}
    BY <1>1, <2>1 DEF TypeOK, FreeSlot, Nothing
  <2> QED
    BY <1>1, <2>1, <2>2, <2>3, RefreshRevises
<1>10. CASE Tick \/ UNCHANGED vars
  <2>1. UNCHANGED <<store, ephemeral, writes, cache, tainted, snap>>
    BY <1>10 DEF Tick, vars, refreshing, history
  <2> QED
    BY <1>1, <2>1, RefreshRevises
<1> QED
  BY <1>3, <1>4, <1>6, <1>7, <1>8, <1>9, <1>10 DEF Next

\* The third part holds at boot: the store and the cache have the same first revision.
LEMMA RevisionsInit == Init => Revisions
<1> SUFFICES ASSUME Init PROVE Revisions
  OBVIOUS
<1>1. StampInv
  BY DEF Init, StampInv, StampOK, Patching
<1>2. ASSUME NEW i \in Ids PROVE RevisionOK(i)
  <2>1. \A r \in Refreshes : snap[r][i] = Absent
    BY DEF Init, Nothing
  <2>2. \A o \in Ops : canonical[o] = Absent /\ fresh[o] = Absent
    BY DEF Init
  <2>3. store[i] \in {Absent, [rev |-> 0, by |-> {}]} /\ cache[i] \in {store[i], Absent}
    BY DEF Init, BootLoad, Nothing
  <2>4. \A x \in Copies(i) : x = store[i] /\ store[i] = [rev |-> 0, by |-> {}] /\ store[i] # Absent
    <3>1. \A x \in Copies(i) : x # Absent /\ (x = store[i] \/ x = cache[i])
      BY <2>1, <2>2, CopiesAre
    <3> QED
      BY <2>3, <3>1
  <2>5. \A x \in Copies(i) : store[i] # Absent /\ x.rev <= store[i].rev
    BY <2>4
  <2> QED
    BY <2>1, <2>4, <2>5 DEF RevisionOK
<1> QED
  BY <1>1, <1>2 DEF Revisions, RevisionInv

-----------------------------------------------------------------------------
\* The three parts hold of every reachable state.
THEOREM FullInvariance == Spec => [](IInv /\ Coherence /\ Revisions)
<1>1. Init => IInv /\ Coherence /\ Revisions
  BY IInvInit, CoherenceInit, RevisionsInit
<1>2. IInv /\ Coherence /\ Revisions /\ [Next]_vars => (IInv /\ Coherence /\ Revisions)'
  BY TypeStep, OpStep, IdStep, RefreshStep, CountStep, CoherenceStep, RevisionsStep DEF IInv
<1> QED
  BY <1>1, <1>2, PTL DEF Spec

\* Where nothing tainted it and no write is in flight, an entry is what the store
\* holds, for any number of ids, writes and refreshes still holding older answers.
THEOREM EntriesFollowTheStore == Spec => []Coherent
<1>1. IInv /\ Coherence /\ Revisions => Coherent
  <2>1. \A i \in Ids : Pending(i) => Busy(i)
    BY DEF Pending, PendingSteps, Busy, Active
  <2> QED
    BY <2>1 DEF Coherence, EntryInv, EntryOK, Coherent
<1> QED
  BY FullInvariance, <1>1, PTL

\* No refresh drops an ephemeral entity.
THEOREM EphemeralStaysCached == Spec => []EphemeralSurvives
<1>1. IInv /\ Coherence /\ Revisions => EphemeralSurvives
  BY DEF IInv, TypeOK, Coherence, EntryInv, EntryOK, EphemeralSurvives
<1> QED
  BY FullInvariance, <1>1, PTL

\* A revision names one content among all the copies of an entity there are.
THEOREM RevisionsName == Spec => []RevisionNamesContent
<1>1. IInv /\ Coherence /\ Revisions => RevisionNamesContent
  BY DEF Revisions, RevisionInv, RevisionOK, OnlyUpdated, RevisionNamesContent
<1> QED
  BY FullInvariance, <1>1, PTL

\* A write is moved on by its own steps alone.
LEMMA OwnStep ==
  ASSUME TypeOK, OpInv, [Next]_vars, NEW o \in Ops, pc'[o] # pc[o]
  PROVE  StartWrite(o) \/ Proceed(o) \/ Reject(o)
<1>1. SUFFICES ASSUME ~(StartWrite(o) \/ Proceed(o) \/ Reject(o)) PROVE pc'[o] = pc[o]
  OBVIOUS
<1>2. ASSUME NEW w \in Ops, StartWrite(w) \/ Proceed(w) \/ Reject(w) PROVE pc'[o] = pc[o]
  BY <1>1, <1>2, WriteStepsAround DEF Around
<1>3. ASSUME NEW j \in Ids, AddEphemeral(j) \/ RemoveEphemeral(j) PROVE UNCHANGED pc
  BY <1>3 DEF AddEphemeral, RemoveEphemeral, writes
<1>4. ASSUME NEW q \in Refreshes, NEW j \in Ids, TriggerIdRefresh(q, j) PROVE UNCHANGED pc
  BY <1>4 DEF TriggerIdRefresh, BeginRefresh, writes
<1>5. ASSUME NEW q \in Refreshes,
             TriggerTypeRefresh(q) \/ StoreAnswersRefresh(q) \/ ApplyRefresh(q) \/ RefreshFails(q)
      PROVE  UNCHANGED pc
  BY <1>5 DEF TriggerTypeRefresh, BeginRefresh, StoreAnswersRefresh, ApplyRefresh, RefreshFails,
     FreeSlot, writes
<1>6. ASSUME Tick \/ UNCHANGED vars PROVE UNCHANGED pc
  BY <1>6 DEF Tick, vars, writes
<1> QED
  BY <1>2, <1>3, <1>4, <1>5, <1>6 DEF Next

\* No update whose read-back was answered is reported saved and is not stored.
THEOREM NoUpdateIsLost == Spec => SavedUpdatesAreStored
<1> DEFINE A == \A o \in Ops : LET i == target[o] IN
                  (pc[o] = "read" /\ pc'[o] = "acked" /\ i \notin ephemeral \cup contended) =>
                     store[i] # Absent /\ o \in store[i].by
<1>1. IInv /\ Coherence /\ Revisions /\ [Next]_vars => A
  <2>1. SUFFICES ASSUME IInv, Coherence, [Next]_vars, NEW o \in Ops, pc[o] = "read", pc'[o] = "acked",
                        target[o] \notin ephemeral \cup contended
                 PROVE  store[target[o]] # Absent /\ o \in store[target[o]].by
    OBVIOUS
  <2>2. TypeOK /\ OpInv /\ WriteOK(o)
    BY <2>1 DEF IInv, Coherence, WriteInv
  <2>3. StartWrite(o) \/ Proceed(o) \/ Reject(o)
    BY <2>1, <2>2, OwnStep
  <2>4. UpdateFinishes(o) \/ UpdateReachedNothing(o)
    BY <2>1, <2>3 DEF StartWrite, StartCreate, StartUpdate, StartDelete, Issue, Proceed, Reject,
       LookupAnswers, StoreInserts, CreateFinishes, ResolveAnswers, StorePatches, ReadBackAnswers,
       StoreErases, DeleteFinishes, LookupFails, ResolveFails, ReadBackFails, CallFails
  <2>5. UpdateFinishes(o)
    BY <2>1, <2>2, <2>4 DEF TypeOK, UpdateReachedNothing, Finish, Goto
  <2>6. fresh[o] # Absent
    BY <2>1, <2>5 DEF UpdateFinishes
  <2> QED
    BY <2>1, <2>2, <2>6 DEF WriteOK
<1> QED
  BY FullInvariance, <1>1, PTL DEF Spec, SavedUpdatesAreStored

\* No create that was checked against the store, and that nothing overlaps, merges
\* into a stored entity.
THEOREM CreatesMeetNothing == Spec => CreatesLandOnNothing
<1> DEFINE A == \A o \in Ops : LET i == target[o] IN
                  (/\ pc[o] = "insert" /\ pc'[o] = "inserted"
                   /\ i \notin contended \cup tainted /\ failures = 0) => store[i] = Absent
<1>1. IInv /\ Coherence /\ Revisions /\ [Next]_vars => A
  BY DEF Coherence, WriteInv, WriteOK
<1> QED
  BY FullInvariance, <1>1, PTL DEF Spec, CreatesLandOnNothing

=============================================================================
