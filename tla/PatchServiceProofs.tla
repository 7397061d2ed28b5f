--------------------------- MODULE PatchServiceProofs ---------------------------
(***************************************************************************)
(* The patches of a backend (PatchService.tla): what is reverted and what  *)
(* reverted it know of each other, and the log folds to the store, for any *)
(* updates, calls and failures.                                            *)
(***************************************************************************)
EXTENDS PatchService, FiniteSetTheorems, SequenceTheorems, WellFoundedInduction, TLAPS

-----------------------------------------------------------------------------
(***************************************************************************)
(* The inductive invariant.                                                *)
(***************************************************************************)

(* Which calls come by which points, and that a record is its call's last  *)
(* step: from then on only its status and its time are written.            *)
Phases ==
    \A c \in Calls :
        /\ pc[c] = "idle" <=> kind[c] = "none"
        /\ pc[c] = "rederiving" => kind[c] = "existing"
        /\ pc[c] \in {"landing", "answered"} => kind[c] \in {"apply", "record", "existing", "revert"}
        /\ pc[c] = "marking" => kind[c] \in {"existing", "revert"}
        /\ pc[c] = "persisting" => kind[c] \in {"preview", "apply", "record", "revert"}
        /\ pc[c] = "excusing" => kind[c] = "record"
        /\ pc[c] = "sweeping" => kind[c] = "sweep"
        /\ status[c] # "none" => pc[c] = "done"

(* Only previews are swept, and a call that applies or reverts a patch     *)
(* found it stored.                                                        *)
Targets ==
    \A c \in Calls :
        /\ status[c] = "previewed" => kind[c] = "preview"
        /\ stale[c] \subseteq {p \in Calls : kind[p] = "preview" /\ status[p] # "none"}
        /\ kind[c] \in {"existing", "revert"} => target[c] \in Calls /\ status[target[c]] # "none"

(* A revert applies the inverse of what was recorded, which is what it     *)
(* records, unless a call failed.                                          *)
Reverts ==
    \A c \in Calls :
        /\ inverseOf[c] \in Calls =>
             kind[c] = "revert" /\ target[c] = inverseOf[c] /\ status[c] # "none"
        /\ kind[c] = "revert" =>
             /\ delta[c] = Invert(recorded[target[c]])
             /\ failures = 0 /\ pc[c] = "done" => status[c] # "none"
             /\ status[c] # "none" =>
                  /\ status[c] \in {"applied", "reverted"}
                  /\ recorded[c] = delta[c] /\ inverseOf[c] = target[c]

(* Whoever marked a patch as reverted is about to record the inverse.      *)
Marked ==
    failures = 0 =>
        \A p \in Calls :
            status[p] = "reverted" =>
                \E c \in Calls : kind[c] = "revert" /\ target[c] = p /\ pc[c] \in {"persisting", "done"}

(* Nothing that is applied again, unless the step is one that "tainted"    *)
(* names, is a patch in the log; so nobody unmarks what was reverted.      *)
StillMarked ==
    failures = 0 /\ ~tainted =>
        \A c \in Calls :
            /\ kind[c] = "revert" =>
                 /\ pc[c] \in {"landing", "answered", "marking"}
                      => status[target[c]] \in {"applied", "reverted"}
                 /\ pc[c] \in {"persisting", "done"} => status[target[c]] = "reverted"
            /\ kind[c] = "existing" /\ pc[c] \in {"answered", "marking"} =>
                 /\ status[target[c]] \notin {"applied", "reverted"}
                 /\ \A d \in Calls \ {c} :
                      kind[d] = "existing" /\ pc[d] \in {"answered", "marking"} => target[d] # target[c]

IInv == TypeOK /\ Phases /\ Targets /\ Reverts /\ Marked /\ StillMarked

(* A record is written once: after that only its status and date change.   *)
RecordsStand ==
    \A p \in Calls : status[p] # "none" =>
        /\ status'[p] # "none"
        /\ recorded'[p] = recorded[p] /\ update'[p] = update[p] /\ inverseOf'[p] = inverseOf[p]

-----------------------------------------------------------------------------
(***************************************************************************)
(* Deltas and records.                                                     *)
(***************************************************************************)

LEMMA DeltaTypes ==
    /\ EmptyDelta \in Deltas
    /\ \A d \in Deltas : Invert(d) \in Deltas
    /\ \A d \in Deltas, g \in GraphStates : ApplyDelta(d, g) \in GraphStates
BY DEF EmptyDelta, Deltas, Invert, ApplyDelta, GraphStates

LEMMA UpdateTypes ==
    ASSUME NEW u \in DOMAIN Update, NEW g \in GraphStates
    PROVE  NetEffect(Update[u], g) \in Deltas /\ Execute(Update[u], g) \in GraphStates
<1>1. Update[u] \in Operations
    BY UpdateAssumption
<1> QED
    BY <1>1 DEF Operations, NetEffect, Execute, Deltas, GraphStates

LEMMA LandingType ==
    ASSUME TypeOK, NEW c \in Calls
    PROVE  Landing(c) \in GraphStates
<1>1. CASE kind[c] = "record"
    BY <1>1, UpdateTypes DEF Landing, TypeOK
<1>2. CASE kind[c] # "record"
    BY <1>2, DeltaTypes DEF Landing, TypeOK
<1> QED
    BY <1>1, <1>2

-----------------------------------------------------------------------------
(***************************************************************************)
(* Each part of the invariant is kept by each step.                        *)
(***************************************************************************)

(* A call lands, dates and records what is of its kind.                    *)
LEMMA TypeKept ==
    ASSUME TypeOK, Phases,
           [Next]_vars
    PROVE  TypeOK'
<1>1. CASE Tick \/ UNCHANGED vars
    BY <1>1, BoundAssumption DEF Tick, vars, records, limits, TypeOK
<1>2. ASSUME NEW c \in Calls, StartUpdate(c)
       PROVE  TypeOK'
  <2>1. PICK k \in {"preview", "apply", "record"}, u \in DOMAIN Update :
            /\ Begin(c, k) /\ UNCHANGED <<target, stale>>
            /\ string' = [string EXCEPT ![c] = u]
            /\ delta' = [delta EXCEPT ![c] = NetEffect(Update[u], store)]
            /\ Goto(c, IF k = "preview" THEN "persisting" ELSE "landing")
      BY <1>2 DEF StartUpdate
  <2>2. NetEffect(Update[u], store) \in Deltas
      BY UpdateTypes DEF TypeOK
  <2> QED
      BY <2>1, <2>2 DEF Begin, records, limits, Goto, TypeOK, Kinds
<1>3. ASSUME NEW c \in Calls, StartExisting(c)
       PROVE  TypeOK'
    BY <1>3, BoundAssumption
       DEF StartExisting, Begin, records, limits, Goto, Stored, TypeOK, Kinds, Statuses
<1>4. ASSUME NEW c \in Calls, StartRevert(c)
       PROVE  TypeOK'
  <2>1. PICK p \in Stored :
            /\ Begin(c, "revert") /\ Goto(c, "landing") /\ UNCHANGED <<string, stale>>
            /\ target' = [target EXCEPT ![c] = p]
            /\ delta' = [delta EXCEPT ![c] = Invert(recorded[p])]
      BY <1>4 DEF StartRevert
  <2>2. Invert(recorded[p]) \in Deltas
      BY DeltaTypes DEF Stored, TypeOK
  <2> QED
      BY <2>1, <2>2 DEF Begin, records, limits, Goto, Stored, TypeOK, Kinds
<1>5. ASSUME NEW c \in Calls, StartSweep(c)
       PROVE  TypeOK'
    BY <1>5, BoundAssumption
       DEF StartSweep, Begin, records, limits, Goto, Stored, TypeOK, Kinds, Statuses
<1>6. ASSUME NEW c \in Calls, Rederive(c)
       PROVE  TypeOK'
  <2> DEFINE p == target[c]
             fresh == IF update[p] = None THEN recorded[p]
                      ELSE NetEffect(Update[update[p]], store)
  <2>1. p \in Calls
      BY <1>6 DEF Rederive, TypeOK
  <2>2. fresh \in Deltas
      BY <2>1, UpdateTypes DEF TypeOK
  <2>3. /\ delta' = delta \/ delta' = [delta EXCEPT ![c] = fresh]
        /\ pc[c] = "rederiving" /\ (Goto(c, "done") \/ Goto(c, "landing"))
        /\ tainted' = tainted \/ tainted' = (tainted \/ fresh # recorded[p])
        /\ UNCHANGED <<store, records, kind, target, string, stamp, stale, limits>>
      BY <1>6 DEF Rederive
  <2>4. tainted' \in BOOLEAN
      BY <2>3 DEF TypeOK
  <2> HIDE DEF fresh, p
  <2> QED
      BY <2>2, <2>3, <2>4 DEF Goto, records, limits, TypeOK, Kinds
<1>7. ASSUME NEW c \in Calls, Land(c)
       PROVE  TypeOK'
  <2>1. Landing(c) \in GraphStates
      BY LandingType
  <2>2. tainted' \in BOOLEAN
      BY <1>7 DEF Land, TypeOK
  <2> QED
      BY <1>7, <2>1, <2>2 DEF Land, Goto, records, limits, TypeOK, Kinds
<1>8. ASSUME NEW c \in Calls, LandFails(c)
       PROVE  TypeOK'
  <2>1. Landing(c) \in GraphStates
      BY LandingType
  <2>2. store' \in GraphStates /\ tainted' \in BOOLEAN
      BY <1>8, <2>1 DEF LandFails, TypeOK
  <2>3. failures' \in 0..MaxFailures
      BY <1>8, BoundAssumption DEF LandFails, Fail, TypeOK
  <2> QED
      BY <1>8, <2>2, <2>3 DEF LandFails, Fail, Goto, records, TypeOK, Kinds
<1>9. ASSUME NEW c \in Calls, Answer(c)
       PROVE  TypeOK'
    BY <1>9, BoundAssumption DEF Answer, Goto, records, limits, TypeOK, Kinds, Statuses
<1>10. ASSUME NEW c \in Calls, Mark(c)
       PROVE  TypeOK'
  <2>1. /\ pc[c] = "marking" /\ kind[c] \in {"existing", "revert"} /\ target[c] \in Calls
        /\ UNCHANGED <<store, recorded, update, inverseOf, kind, target, delta, string, stale,
                       limits>>
      BY <1>10 DEF Mark, Phases, TypeOK
  <2>2. status' \in [Calls -> Statuses]
      BY <1>10, <2>1 DEF Mark, TypeOK, Statuses
  <2>3. dateApplied' \in [Calls -> 0..MaxTime] /\ tainted' \in BOOLEAN
      BY <1>10, <2>1 DEF Mark, TypeOK
  <2>4. stamp' \in [Calls -> 0..MaxTime]
      BY <1>10, <2>1, BoundAssumption DEF Mark, TypeOK
  <2>5. Goto(c, "done") \/ Goto(c, "persisting")
      BY <1>10 DEF Mark
  <2> QED
      BY <2>1, <2>2, <2>3, <2>4, <2>5 DEF Goto, limits, TypeOK
<1>11. ASSUME NEW c \in Calls, Persist(c)
       PROVE  TypeOK'
    BY <1>11, BoundAssumption DEF Persist, Goto, limits, TypeOK, Kinds, Statuses
<1>12. ASSUME NEW c \in Calls, WriteFails(c)
       PROVE  TypeOK'
    BY <1>12, BoundAssumption DEF WriteFails, Fail, Goto, records, TypeOK, Kinds, Statuses
<1>13. ASSUME NEW c \in Calls, Sweep(c)
       PROVE  TypeOK'
    BY <1>13, BoundAssumption DEF Sweep, Goto, limits, TypeOK, Kinds, Statuses
<1> QED
    BY <1>1, <1>2, <1>3, <1>4, <1>5, <1>6, <1>7, <1>8, <1>9, <1>10, <1>11, <1>12, <1>13
       DEF Next, CallStep

(* Nothing but its own steps moves a call, and its record is the last.     *)
LEMMA PhasesKept ==
    ASSUME TypeOK, Phases, Targets,
           [Next]_vars
    PROVE  Phases'
<1>1. CASE Tick \/ UNCHANGED vars
    BY <1>1 DEF Tick, vars, records, limits, TypeOK, Phases
<1>2. ASSUME NEW c \in Calls, StartUpdate(c)
       PROVE  Phases'
    BY <1>2 DEF StartUpdate, Begin, records, limits, Goto, TypeOK, Phases
<1>3. ASSUME NEW c \in Calls, StartExisting(c)
       PROVE  Phases'
    BY <1>3 DEF StartExisting, Begin, records, limits, Goto, Stored, TypeOK, Phases
<1>4. ASSUME NEW c \in Calls, StartRevert(c)
       PROVE  Phases'
    BY <1>4 DEF StartRevert, Begin, records, limits, Goto, Stored, TypeOK, Phases
<1>5. ASSUME NEW c \in Calls, StartSweep(c)
       PROVE  Phases'
    BY <1>5 DEF StartSweep, Begin, records, limits, Goto, Stored, TypeOK, Phases
<1>6. ASSUME NEW c \in Calls, Rederive(c)
       PROVE  Phases'
    BY <1>6 DEF Rederive, Goto, records, limits, TypeOK, Phases
<1>7. ASSUME NEW c \in Calls, Land(c)
       PROVE  Phases'
    BY <1>7 DEF Land, Goto, records, limits, TypeOK, Phases
<1>8. ASSUME NEW c \in Calls, LandFails(c)
       PROVE  Phases'
    BY <1>8 DEF LandFails, Fail, Goto, records, TypeOK, Phases
<1>9. ASSUME NEW c \in Calls, Answer(c)
       PROVE  Phases'
    BY <1>9 DEF Answer, Goto, records, limits, TypeOK, Phases
<1>10. ASSUME NEW c \in Calls, Mark(c)
       PROVE  Phases'
    BY <1>10 DEF Mark, Goto, limits, Stored, TypeOK, Phases
<1>11. ASSUME NEW c \in Calls, Persist(c)
       PROVE  Phases'
    BY <1>11 DEF Persist, Goto, limits, TypeOK, Phases
<1>12. ASSUME NEW c \in Calls, WriteFails(c)
       PROVE  Phases'
    BY <1>12 DEF WriteFails, Fail, Goto, records, TypeOK, Phases
<1>13. ASSUME NEW c \in Calls, Sweep(c)
       PROVE  Phases'
    BY <1>13 DEF Sweep, Goto, limits, TypeOK, Phases, Targets
<1> QED
    BY <1>1, <1>2, <1>3, <1>4, <1>5, <1>6, <1>7, <1>8, <1>9, <1>10, <1>11, <1>12, <1>13
       DEF Next, CallStep

(* What is swept and what is targeted was recorded by the time it is.      *)
LEMMA TargetsKept ==
    ASSUME TypeOK, Phases, Targets,
           [Next]_vars
    PROVE  Targets'
<1>1. CASE Tick \/ UNCHANGED vars
    BY <1>1 DEF Tick, vars, records, limits, TypeOK, Phases, Targets
<1>2. ASSUME NEW c \in Calls, StartUpdate(c)
       PROVE  Targets'
    BY <1>2 DEF StartUpdate, Begin, records, limits, Goto, TypeOK, Phases, Targets
<1>3. ASSUME NEW c \in Calls, StartExisting(c)
       PROVE  Targets'
    BY <1>3
       DEF StartExisting, Begin, records, limits, Goto, Stored, TypeOK, Phases, Targets
<1>4. ASSUME NEW c \in Calls, StartRevert(c)
       PROVE  Targets'
    BY <1>4 DEF StartRevert, Begin, records, limits, Goto, Stored, TypeOK, Phases, Targets
<1>5. ASSUME NEW c \in Calls, StartSweep(c)
       PROVE  Targets'
    BY <1>5 DEF StartSweep, Begin, records, limits, Goto, Stored, TypeOK, Phases, Targets
<1>6. ASSUME NEW c \in Calls, Rederive(c)
       PROVE  Targets'
    BY <1>6 DEF Rederive, Goto, records, limits, TypeOK, Phases, Targets
<1>7. ASSUME NEW c \in Calls, Land(c)
       PROVE  Targets'
    BY <1>7 DEF Land, Goto, records, limits, TypeOK, Phases, Targets
<1>8. ASSUME NEW c \in Calls, LandFails(c)
       PROVE  Targets'
    BY <1>8 DEF LandFails, Fail, Goto, records, TypeOK, Phases, Targets
<1>9. ASSUME NEW c \in Calls, Answer(c)
       PROVE  Targets'
    BY <1>9 DEF Answer, Goto, records, limits, TypeOK, Phases, Targets
<1>10. ASSUME NEW c \in Calls, Mark(c)
       PROVE  Targets'
    BY <1>10 DEF Mark, Goto, limits, Stored, TypeOK, Phases, Targets
<1>11. ASSUME NEW c \in Calls, Persist(c)
       PROVE  Targets'
    BY <1>11 DEF Persist, Goto, limits, TypeOK, Phases, Targets
<1>12. ASSUME NEW c \in Calls, WriteFails(c)
       PROVE  Targets'
    BY <1>12 DEF WriteFails, Fail, Goto, records, TypeOK, Phases, Targets
<1>13. ASSUME NEW c \in Calls, Sweep(c)
       PROVE  Targets'
    BY <1>13 DEF Sweep, Goto, limits, TypeOK, Phases, Targets
<1> QED
    BY <1>1, <1>2, <1>3, <1>4, <1>5, <1>6, <1>7, <1>8, <1>9, <1>10, <1>11, <1>12, <1>13
       DEF Next, CallStep

(* The target of a revert keeps what it recorded, and so does the revert.  *)
LEMMA RevertsKept ==
    ASSUME TypeOK, Phases, Targets, Reverts,
           [Next]_vars
    PROVE  Reverts'
<1>1. CASE Tick \/ UNCHANGED vars
    BY <1>1 DEF Tick, vars, records, limits, TypeOK, Phases, Targets, Reverts
<1>2. ASSUME NEW c \in Calls, StartUpdate(c)
       PROVE  Reverts'
    BY <1>2, NoneAssumption
       DEF StartUpdate, Begin, records, limits, Goto, TypeOK, Phases, Targets, Reverts
<1>3. ASSUME NEW c \in Calls, StartExisting(c)
       PROVE  Reverts'
    BY <1>3, NoneAssumption
       DEF StartExisting, Begin, records, limits, Goto, Stored, TypeOK, Phases, Targets,
           Reverts
<1>4. ASSUME NEW c \in Calls, StartRevert(c)
       PROVE  Reverts'
    BY <1>4, NoneAssumption
       DEF StartRevert, Begin, records, limits, Goto, Stored, TypeOK, Phases, Targets,
           Reverts
<1>5. ASSUME NEW c \in Calls, StartSweep(c)
       PROVE  Reverts'
    BY <1>5, NoneAssumption
       DEF StartSweep, Begin, records, limits, Goto, Stored, TypeOK, Phases, Targets,
           Reverts
<1>6. ASSUME NEW c \in Calls, Rederive(c)
       PROVE  Reverts'
    BY <1>6, NoneAssumption
       DEF Rederive, Goto, records, limits, TypeOK, Phases, Targets, Reverts
<1>7. ASSUME NEW c \in Calls, Land(c)
       PROVE  Reverts'
    BY <1>7, NoneAssumption
       DEF Land, Goto, records, limits, TypeOK, Phases, Targets, Reverts
<1>8. ASSUME NEW c \in Calls, LandFails(c)
       PROVE  Reverts'
    BY <1>8, NoneAssumption
       DEF LandFails, Fail, Goto, records, TypeOK, Phases, Targets, Reverts
<1>9. ASSUME NEW c \in Calls, Answer(c)
       PROVE  Reverts'
    BY <1>9, NoneAssumption
       DEF Answer, Goto, records, limits, TypeOK, Phases, Targets, Reverts
<1>10. ASSUME NEW c \in Calls, Mark(c)
       PROVE  Reverts'
    BY <1>10, NoneAssumption
       DEF Mark, Goto, limits, Stored, TypeOK, Phases, Targets, Reverts
<1>11. ASSUME NEW c \in Calls, Persist(c)
       PROVE  Reverts'
    BY <1>11, NoneAssumption DEF Persist, Goto, limits, TypeOK, Phases, Targets, Reverts
<1>12. ASSUME NEW c \in Calls, WriteFails(c)
       PROVE  Reverts'
    BY <1>12, NoneAssumption
       DEF WriteFails, Fail, Goto, records, TypeOK, Phases, Targets, Reverts
<1>13. ASSUME NEW c \in Calls, Sweep(c)
       PROVE  Reverts'
    BY <1>13, NoneAssumption DEF Sweep, Goto, limits, TypeOK, Phases, Targets, Reverts
<1> QED
    BY <1>1, <1>2, <1>3, <1>4, <1>5, <1>6, <1>7, <1>8, <1>9, <1>10, <1>11, <1>12, <1>13
       DEF Next, CallStep

(* Only a revert marks as reverted, and it goes on to its own record.      *)
LEMMA MarkedKept ==
    ASSUME TypeOK, Phases, Targets, Marked,
           [Next]_vars
    PROVE  Marked'
<1>1. CASE Tick \/ UNCHANGED vars
    BY <1>1 DEF Tick, vars, records, limits, TypeOK, Phases, Targets, Marked
<1>2. ASSUME NEW c \in Calls, StartUpdate(c)
       PROVE  Marked'
    BY <1>2 DEF StartUpdate, Begin, records, limits, Goto, TypeOK, Phases, Targets, Marked
<1>3. ASSUME NEW c \in Calls, StartExisting(c)
       PROVE  Marked'
    BY <1>3
       DEF StartExisting, Begin, records, limits, Goto, Stored, TypeOK, Phases, Targets,
           Marked
<1>4. ASSUME NEW c \in Calls, StartRevert(c)
       PROVE  Marked'
    BY <1>4
       DEF StartRevert, Begin, records, limits, Goto, Stored, TypeOK, Phases, Targets,
           Marked
<1>5. ASSUME NEW c \in Calls, StartSweep(c)
       PROVE  Marked'
    BY <1>5
       DEF StartSweep, Begin, records, limits, Goto, Stored, TypeOK, Phases, Targets,
           Marked
<1>6. ASSUME NEW c \in Calls, Rederive(c)
       PROVE  Marked'
    BY <1>6 DEF Rederive, Goto, records, limits, TypeOK, Phases, Targets, Marked
<1>7. ASSUME NEW c \in Calls, Land(c)
       PROVE  Marked'
    BY <1>7 DEF Land, Goto, records, limits, TypeOK, Phases, Targets, Marked
<1>8. ASSUME NEW c \in Calls, LandFails(c)
       PROVE  Marked'
    BY <1>8 DEF LandFails, Fail, Goto, records, TypeOK, Phases, Targets, Marked
<1>9. ASSUME NEW c \in Calls, Answer(c)
       PROVE  Marked'
    BY <1>9 DEF Answer, Goto, records, limits, TypeOK, Phases, Targets, Marked
<1>10. ASSUME NEW c \in Calls, Mark(c)
       PROVE  Marked'
    BY <1>10 DEF Mark, Goto, limits, Stored, TypeOK, Phases, Targets, Marked
<1>11. ASSUME NEW c \in Calls, Persist(c)
       PROVE  Marked'
    BY <1>11 DEF Persist, Goto, limits, TypeOK, Phases, Targets, Marked
<1>12. ASSUME NEW c \in Calls, WriteFails(c)
       PROVE  Marked'
    BY <1>12 DEF WriteFails, Fail, Goto, records, TypeOK, Phases, Targets, Marked
<1>13. ASSUME NEW c \in Calls, Sweep(c)
       PROVE  Marked'
    BY <1>13 DEF Sweep, Goto, limits, TypeOK, Phases, Targets, Marked
<1> QED
    BY <1>1, <1>2, <1>3, <1>4, <1>5, <1>6, <1>7, <1>8, <1>9, <1>10, <1>11, <1>12, <1>13
       DEF Next, CallStep

(* A patch is put back in force by a landing that is misplaced, or by none.*)
LEMMA StillMarkedKept ==
    ASSUME TypeOK, Phases, Targets, StillMarked,
           [Next]_vars
    PROVE  StillMarked'
<1>1. CASE Tick \/ UNCHANGED vars
    BY <1>1 DEF Tick, vars, records, limits, TypeOK, Phases, Targets, StillMarked
<1>2. ASSUME NEW c \in Calls, StartUpdate(c)
       PROVE  StillMarked'
    BY <1>2
       DEF StartUpdate, Begin, records, limits, Goto, TypeOK, Phases, Targets, StillMarked
<1>3. ASSUME NEW c \in Calls, StartExisting(c)
       PROVE  StillMarked'
    BY <1>3
       DEF StartExisting, Begin, records, limits, Goto, Stored, TypeOK, Phases, Targets,
           StillMarked
<1>4. ASSUME NEW c \in Calls, StartRevert(c)
       PROVE  StillMarked'
    BY <1>4
       DEF StartRevert, Begin, records, limits, Goto, Stored, TypeOK, Phases, Targets,
           StillMarked
<1>5. ASSUME NEW c \in Calls, StartSweep(c)
       PROVE  StillMarked'
    BY <1>5
       DEF StartSweep, Begin, records, limits, Goto, Stored, TypeOK, Phases, Targets,
           StillMarked
<1>6. ASSUME NEW c \in Calls, Rederive(c)
       PROVE  StillMarked'
    BY <1>6 DEF Rederive, Goto, records, limits, TypeOK, Phases, Targets, StillMarked
<1>7. ASSUME NEW c \in Calls, Land(c)
       PROVE  StillMarked'
  <2>1. /\ pc[c] = "landing" /\ pc' = [pc EXCEPT ![c] = "answered"]
        /\ UNCHANGED <<status, kind, target, failures>>
        /\ ~tainted' => ~tainted /\ ~Misplaced(c)
      BY <1>7 DEF Land, Goto, records, limits, TypeOK
  <2>2. ASSUME ~tainted', kind[c] = "existing"
        PROVE  /\ status[target[c]] \notin {"applied", "reverted"}
               /\ \A d \in Calls \ {c} :
                    kind[d] = "existing" /\ pc[d] \in {"answered", "marking"} => target[d] # target[c]
      BY <2>1, <2>2 DEF Misplaced, Unstamped
  <2> QED
      BY <2>1, <2>2 DEF TypeOK, StillMarked
<1>8. ASSUME NEW c \in Calls, LandFails(c)
       PROVE  StillMarked'
    BY <1>8 DEF LandFails, Fail, Goto, records, TypeOK, Phases, Targets, StillMarked
<1>9. ASSUME NEW c \in Calls, Answer(c)
       PROVE  StillMarked'
    BY <1>9 DEF Answer, Goto, records, limits, TypeOK, Phases, Targets, StillMarked
<1>10. ASSUME NEW c \in Calls, Mark(c)
       PROVE  StillMarked'
    BY <1>10 DEF Mark, Goto, limits, Stored, TypeOK, Phases, Targets, StillMarked
<1>11. ASSUME NEW c \in Calls, Persist(c)
       PROVE  StillMarked'
    BY <1>11 DEF Persist, Goto, limits, TypeOK, Phases, Targets, StillMarked
<1>12. ASSUME NEW c \in Calls, WriteFails(c)
       PROVE  StillMarked'
    BY <1>12 DEF WriteFails, Fail, Goto, records, TypeOK, Phases, Targets, StillMarked
<1>13. ASSUME NEW c \in Calls, Sweep(c)
       PROVE  StillMarked'
  <2>1. PICK p \in stale[c] :
            /\ status' = [status EXCEPT ![p] = "deleted"]
            /\ tainted' = (tainted \/ status[p] \in {"applied", "reverted"})
            /\ Goto(c, IF stale[c] = {p} THEN "done" ELSE "sweeping")
      BY <1>13 DEF Sweep
  <2>2. ~tainted' => ~tainted /\ status[p] \notin {"applied", "reverted"}
      BY <2>1
  <2>3. pc[c] = "sweeping" /\ kind[c] = "sweep" /\ p \in Calls
        /\ UNCHANGED <<kind, target, failures>>
      BY <1>13, <2>1 DEF Sweep, Phases, TypeOK, limits
  <2>4. \A d \in Calls : kind[d] # "sweep" => pc'[d] = pc[d]
      BY <2>1, <2>3 DEF Goto, TypeOK
  <2>5. ASSUME ~tainted', NEW d \in Calls, kind[d] \in {"existing", "revert"}
        PROVE  status'[target[d]] \in {"applied", "reverted"}
                 => status[target[d]] = status'[target[d]]
      BY <2>1, <2>3, <2>5 DEF Targets, TypeOK
  <2>6. ASSUME ~tainted', NEW d \in Calls, kind[d] \in {"existing", "revert"}
        PROVE  status[target[d]] \in {"applied", "reverted"}
                 => status'[target[d]] = status[target[d]]
      BY <2>1, <2>2, <2>3, <2>6 DEF Targets, TypeOK
  <2> QED
      BY <2>2, <2>3, <2>4, <2>5, <2>6 DEF StillMarked
<1> QED
    BY <1>1, <1>2, <1>3, <1>4, <1>5, <1>6, <1>7, <1>8, <1>9, <1>10, <1>11, <1>12, <1>13
       DEF Next, CallStep

-----------------------------------------------------------------------------
(***************************************************************************)
(* The theorems.                                                           *)
(***************************************************************************)

LEMMA InitHolds ==
    Init => IInv
<1> SUFFICES ASSUME Init
             PROVE  IInv
    OBVIOUS
<1>0. EmptyDelta \in Deltas /\ {} \in GraphStates
    BY DeltaTypes DEF GraphStates
<1>1. TypeOK
  <2>1. 0 \in 0..MaxTime /\ 1 \in 1..MaxTime /\ 0 \in 0..MaxFailures
      BY BoundAssumption
  <2> QED
      BY <1>0, <2>1 DEF Init, TypeOK, Statuses, Kinds
<1>2. Phases /\ Targets /\ Reverts /\ Marked /\ StillMarked
    BY NoneAssumption DEF Init, Phases, Targets, Reverts, Marked, StillMarked
<1> QED
    BY <1>1, <1>2 DEF IInv

LEMMA StepKeeps ==
    IInv /\ [Next]_vars => IInv'
BY TypeKept, PhasesKept, TargetsKept, RevertsKept, MarkedKept, StillMarkedKept DEF IInv

(* The invariant holds in every state of every run of the service. *)
THEOREM Invariance ==
    Spec => []IInv
BY InitHolds, StepKeeps, PTL DEF Spec

(* Every variable keeps its range, and a call that lands has what it lands *)
(* (patchService.ts).                                                      *)
THEOREM TypeCorrect ==
    Spec => []TypeOK
<1>1. IInv => TypeOK
    BY DEF IInv
<1> QED
    BY <1>1, Invariance, PTL

(* revertPatch marks its target, then records the inverse: when no call    *)
(* failed and none is between the two, what is reverted has its inverse in *)
(* the log, and what a record of the log reverted is not in force unless a *)
(* step that "tainted" names put it back.                                  *)
THEOREM RevertsAndInverses ==
    Spec => []RevertsAreLinked
<1>1. ASSUME IInv, Quiet, failures = 0, NEW p \in Calls, status[p] = "reverted"
      PROVE  \E r \in Records!Log : inverseOf[r] = p /\ recorded[r] = Invert(recorded[p])
  <2>1. PICK r \in Calls : kind[r] = "revert" /\ target[r] = p /\ pc[r] = "done"
      BY <1>1 DEF IInv, Marked, Quiet
  <2>2. /\ status[r] \in {"applied", "reverted"}
        /\ inverseOf[r] = p /\ recorded[r] = Invert(recorded[p])
      BY <1>1, <2>1 DEF IInv, Reverts
  <2> QED
      BY <2>2 DEF Records!Log, Stored
<1>2. ASSUME IInv, failures = 0, ~tainted, NEW p \in Calls, NEW r \in Records!Log, inverseOf[r] = p
      PROVE  status[p] = "reverted"
  <2>1. r \in Calls /\ status[r] # "none"
      BY <1>2 DEF Records!Log, Stored
  <2>2. kind[r] = "revert" /\ target[r] = p /\ pc[r] = "done"
      BY <1>2, <2>1 DEF IInv, Reverts, Phases
  <2> QED
      BY <1>2, <2>1, <2>2 DEF IInv, StillMarked
<1>3. IInv => RevertsAreLinked
    BY <1>1, <1>2 DEF RevertsAreLinked
<1> QED
    BY <1>3, Invariance, PTL

(* Only the call a record is of writes what it holds, as its last step.    *)
LEMMA RecordsKept ==
    ASSUME TypeOK, Phases,
           [Next]_vars
    PROVE  RecordsStand
<1>1. CASE Tick \/ UNCHANGED vars
    BY <1>1 DEF Tick, vars, records, limits, TypeOK, Phases, RecordsStand
<1>2. ASSUME NEW c \in Calls, StartUpdate(c)
       PROVE  RecordsStand
    BY <1>2 DEF StartUpdate, Begin, records, limits, Goto, TypeOK, Phases, RecordsStand
<1>3. ASSUME NEW c \in Calls, StartExisting(c)
       PROVE  RecordsStand
    BY <1>3
       DEF StartExisting, Begin, records, limits, Goto, Stored, TypeOK, Phases,
           RecordsStand
<1>4. ASSUME NEW c \in Calls, StartRevert(c)
       PROVE  RecordsStand
    BY <1>4
       DEF StartRevert, Begin, records, limits, Goto, Stored, TypeOK, Phases, RecordsStand
<1>5. ASSUME NEW c \in Calls, StartSweep(c)
       PROVE  RecordsStand
    BY <1>5
       DEF StartSweep, Begin, records, limits, Goto, Stored, TypeOK, Phases, RecordsStand
<1>6. ASSUME NEW c \in Calls, Rederive(c)
       PROVE  RecordsStand
    BY <1>6 DEF Rederive, Goto, records, limits, TypeOK, Phases, RecordsStand
<1>7. ASSUME NEW c \in Calls, Land(c)
       PROVE  RecordsStand
    BY <1>7 DEF Land, Goto, records, limits, TypeOK, Phases, RecordsStand
<1>8. ASSUME NEW c \in Calls, LandFails(c)
       PROVE  RecordsStand
    BY <1>8 DEF LandFails, Fail, Goto, records, TypeOK, Phases, RecordsStand
<1>9. ASSUME NEW c \in Calls, Answer(c)
       PROVE  RecordsStand
    BY <1>9 DEF Answer, Goto, records, limits, TypeOK, Phases, RecordsStand
<1>10. ASSUME NEW c \in Calls, Mark(c)
       PROVE  RecordsStand
    BY <1>10 DEF Mark, Goto, limits, Stored, TypeOK, Phases, RecordsStand
<1>11. ASSUME NEW c \in Calls, Persist(c)
       PROVE  RecordsStand
    BY <1>11 DEF Persist, Goto, limits, TypeOK, Phases, RecordsStand
<1>12. ASSUME NEW c \in Calls, WriteFails(c)
       PROVE  RecordsStand
    BY <1>12 DEF WriteFails, Fail, Goto, records, TypeOK, Phases, RecordsStand
<1>13. ASSUME NEW c \in Calls, Sweep(c)
       PROVE  RecordsStand
    BY <1>13 DEF Sweep, Goto, limits, TypeOK, Phases, RecordsStand
<1> QED
    BY <1>1, <1>2, <1>3, <1>4, <1>5, <1>6, <1>7, <1>8, <1>9, <1>10, <1>11, <1>12, <1>13
       DEF Next, CallStep

(* What a stored patch deletes, adds and undoes never changes, nor is it    *)
(* ever again as if it had not been recorded: applying it again, forced and *)
(* with another effect even, writes its status and its date only            *)
(* (applyExistingPatch, persist).                                           *)
THEOREM RecordsAreWrittenOnce ==
    Spec => [][RecordsStand]_vars
<1>1. IInv /\ [Next]_vars => [RecordsStand]_vars
    BY RecordsKept DEF IInv
<1> QED
    BY <1>1, Invariance, PTL DEF Spec

-----------------------------------------------------------------------------
(***************************************************************************)
(* The invariant that the log rests on.                                    *)
(***************************************************************************)

(* The log, and what will be in it: a call whose quads have landed puts the *)
(* patch it applies, or its own, there with its last step.                  *)
Log == {p \in Calls : status[p] \in {"applied", "reverted"}}

Patch(c) == IF kind[c] = "existing" THEN target[c] ELSE c

Open(c) ==
    pc[c] \in {"answered", "marking"} \/ (pc[c] = "persisting" /\ kind[c] # "preview")

Landed == Log \cup {Patch(c) : c \in {d \in Calls : Open(d)}}

Effect(p) == IF status[p] = "none" THEN delta[p] ELSE recorded[p]

(* No patch deletes what it adds.                                          *)
Disjoint ==
    \A c \in Calls :
        /\ delta[c].deletions \cap delta[c].additions = {}
        /\ recorded[c].deletions \cap recorded[c].additions = {}

(* What lands is what is recorded, once, and a revert lands after its target. *)
Steady ==
    \A c \in Calls :
        /\ kind[c] = "existing" /\ pc[c] \in {"landing", "answered", "marking"}
             => delta[c] = recorded[target[c]]
        /\ kind[c] = "revert" /\ (pc[c] = "landing" \/ Open(c) \/ c \in Log) => target[c] \in Log
        /\ Open(c) =>
             /\ Patch(c) \notin Log
             /\ \A d \in Calls \ {c} : Open(d) => Patch(d) # Patch(c)

(* ord numbers what landed as it landed, and time dates it so.             *)
Chronicle(ord, time, n) ==
    /\ \A p \in Landed : ord[p] < n /\ time[p] \in 1..now
    /\ \A p, q \in Landed : /\ ord[p] = ord[q] => p = q
                            /\ ord[p] < ord[q] => time[p] <= time[q]
    /\ \A p \in Log : time[p] = dateApplied[p]
    /\ \A c \in Calls : Open(c) =>
         IF Unstamped(c) THEN \A p \in Landed : ord[p] <= ord[Patch(c)]
                         ELSE time[Patch(c)] = stamp[c]
    /\ \A p \in Landed : kind[p] = "revert" => ord[target[p]] < ord[p]
    /\ \A x \in Quads :
         x \in store <=>
            \E p \in Landed :
               /\ x \in Effect(p).additions
               /\ \A r \in Landed : ord[p] < ord[r] => x \notin Effect(r).deletions

(* Somebody who wrote down what landed could tell how the store came about. *)
Chronicled ==
    \E ord \in [Calls -> Nat], time \in [Calls -> Nat], n \in Nat : Chronicle(ord, time, n)

(* All of it as long as no step that "tainted" names was taken.            *)
LogInv == Disjoint /\ (~tainted => Steady /\ Chronicled)

-----------------------------------------------------------------------------
(***************************************************************************)
(* It is kept by each step.                                                *)
(***************************************************************************)

(* Net effects and their inverses delete nothing they add.                 *)
LEMMA DisjointKept ==
    ASSUME TypeOK, Disjoint,
           [Next]_vars
    PROVE  Disjoint'
<1>1. CASE Tick \/ UNCHANGED vars
    BY <1>1 DEF Tick, vars, records, limits, Disjoint
<1>2. ASSUME NEW c \in Calls, StartUpdate(c)
       PROVE  Disjoint'
  <2>1. PICK u \in DOMAIN Update : delta' = [delta EXCEPT ![c] = NetEffect(Update[u], store)]
      BY <1>2 DEF StartUpdate
  <2>2. NetEffect(Update[u], store).deletions \cap NetEffect(Update[u], store).additions = {}
      BY DEF NetEffect
  <2>3. recorded' = recorded
      BY <1>2 DEF StartUpdate, Begin, records
  <2> HIDE DEF NetEffect
  <2> QED
      BY <2>1, <2>2, <2>3 DEF TypeOK, Disjoint
<1>3. ASSUME NEW c \in Calls, StartRevert(c)
       PROVE  Disjoint'
  <2>1. PICK p \in Calls : delta' = [delta EXCEPT ![c] = Invert(recorded[p])]
      BY <1>3 DEF StartRevert, Stored
  <2>2. Invert(recorded[p]).deletions \cap Invert(recorded[p]).additions = {}
      BY DEF Invert, Disjoint
  <2>3. recorded' = recorded
      BY <1>3 DEF StartRevert, Begin, records
  <2> QED
      BY <2>1, <2>2, <2>3 DEF TypeOK, Disjoint
<1>4. ASSUME NEW c \in Calls, Rederive(c)
       PROVE  Disjoint'
  <2> DEFINE p == target[c]
             fresh == IF update[p] = None THEN recorded[p]
                      ELSE NetEffect(Update[update[p]], store)
  <2>1. p \in Calls
      BY <1>4 DEF Rederive, TypeOK
  <2>2. fresh.deletions \cap fresh.additions = {}
      BY <2>1 DEF Disjoint, NetEffect
  <2>3. recorded' = recorded /\ (delta' = delta \/ delta' = [delta EXCEPT ![c] = fresh])
      BY <1>4 DEF Rederive, records
  <2> HIDE DEF fresh, p
  <2> QED
      BY <2>2, <2>3 DEF TypeOK, Disjoint
<1>5. ASSUME NEW c \in Calls, Persist(c)
       PROVE  Disjoint'
    BY <1>5 DEF Persist, TypeOK, Disjoint
<1>6. ASSUME NEW c \in Calls,
             \/ StartExisting(c) \/ StartSweep(c) \/ Land(c) \/ LandFails(c) \/ Answer(c) \/ Mark(c)
             \/ WriteFails(c) \/ Sweep(c)
       PROVE  Disjoint'
    BY <1>6 DEF StartExisting, StartSweep, Begin, Land, LandFails, Answer, Mark, WriteFails, Sweep,
                records, Disjoint
<1> QED
    BY <1>1, <1>2, <1>3, <1>4, <1>5, <1>6 DEF Next, CallStep

(* A patch that is in the log already lands only by a step that "tainted"  *)
(* names, and a target of a revert leaves the log only by one.             *)
LEMMA SteadyKept ==
    ASSUME TypeOK, Phases, Targets, Reverts, Steady, ~tainted, ~tainted',
           [Next]_vars
    PROVE  Steady'
<1>1. CASE Tick \/ UNCHANGED vars
    BY <1>1 DEF Tick, vars, records, limits, TypeOK, Steady, Log, Open, Patch
<1>2. ASSUME NEW c \in Calls, StartUpdate(c)
       PROVE  Steady'
    BY <1>2
       DEF StartUpdate, Begin, records, limits, Goto, TypeOK, Phases, Targets, Steady, Log,
           Open, Patch
<1>3. ASSUME NEW c \in Calls, StartExisting(c)
       PROVE  Steady'
    BY <1>3
       DEF StartExisting, Begin, records, limits, Goto, Stored, TypeOK, Phases, Targets,
           Steady, Log, Open, Patch
<1>4. ASSUME NEW c \in Calls, StartRevert(c)
       PROVE  Steady'
    BY <1>4
       DEF StartRevert, Begin, records, limits, Goto, Stored, TypeOK, Phases, Targets, Steady,
           Log, Open, Patch
<1>5. ASSUME NEW c \in Calls, StartSweep(c)
       PROVE  Steady'
    BY <1>5
       DEF StartSweep, Begin, records, limits, Goto, Stored, TypeOK, Phases, Targets, Steady,
           Log, Open, Patch
<1>6. ASSUME NEW c \in Calls, Rederive(c)
       PROVE  Steady'
  <2>1. /\ pc[c] = "rederiving" /\ kind[c] = "existing"
        /\ UNCHANGED <<status, recorded, kind, target>>
        /\ \/ Goto(c, "done") /\ delta' = delta
           \/ Goto(c, "landing") /\ delta' = [delta EXCEPT ![c] = recorded[target[c]]]
      BY <1>6 DEF Rederive, records, Phases
  <2> QED
      BY <2>1 DEF Goto, TypeOK, Phases, Targets, Steady, Log, Open, Patch
<1>7. ASSUME NEW c \in Calls, Land(c)
       PROVE  Steady'
  <2>1. /\ pc[c] = "landing" /\ pc' = [pc EXCEPT ![c] = "answered"] /\ ~Misplaced(c)
        /\ UNCHANGED <<status, recorded, kind, target, delta>>
      BY <1>7 DEF Land, Goto, records, limits, TypeOK
  <2>2. Log' = Log
      BY <2>1 DEF Log
  <2>3. \A d \in Calls : Patch(d)' = Patch(d) /\ (Open(d)' <=> d = c \/ Open(d))
      BY <2>1 DEF Patch, Open, TypeOK
  <2>4. kind[c] # "existing" => Patch(c) \notin Log
      BY <2>1 DEF Patch, Log, Phases
  <2>5. kind[c] = "existing" => Patch(c) \notin Log
      BY <2>1 DEF Patch, Log, Misplaced
  <2>6. ASSUME NEW d \in Calls \ {c}, Open(d)
        PROVE  Patch(d) # Patch(c)
    <3>1. d # c /\ ~Unstamped(d)
        BY <2>1 DEF Misplaced
    <3>2. CASE kind[c] # "existing"
        BY <2>1, <3>1, <3>2 DEF Patch, Targets, Phases
    <3>3. CASE kind[c] = "existing" /\ kind[d] # "existing"
        BY <2>1, <2>6, <3>3 DEF Patch, Targets, Phases, Open
    <3>4. CASE kind[c] = "existing" /\ kind[d] = "existing"
        BY <2>1, <2>6, <3>1, <3>4 DEF Patch, Phases, Open, Unstamped, Misplaced
    <3> QED
        BY <3>2, <3>3, <3>4
  <2>7. \A d \in Calls : pc'[d] = IF d = c THEN "answered" ELSE pc[d]
      BY <2>1 DEF TypeOK
  <2>8. ASSUME NEW d \in Calls
        PROVE  /\ kind'[d] = "existing" /\ pc'[d] \in {"landing", "answered", "marking"}
                    => delta'[d] = recorded'[target'[d]]
               /\ kind'[d] = "revert" /\ (pc'[d] = "landing" \/ Open(d)' \/ d \in Log)
                    => target'[d] \in Log
      BY <2>1, <2>3, <2>7 DEF Steady
  <2>9. ASSUME NEW d \in Calls, Open(d)'
        PROVE  /\ Patch(d)' \notin Log' /\ \A e \in Calls \ {d} : Open(e)' => Patch(e)' # Patch(d)'
      BY <2>2, <2>3, <2>4, <2>5, <2>6, <2>9 DEF Steady
  <2> QED
      BY <2>2, <2>8, <2>9 DEF Steady
<1>8. ASSUME NEW c \in Calls, LandFails(c)
       PROVE  Steady'
    BY <1>8 DEF LandFails, Fail, Goto, records, TypeOK, Phases, Targets, Steady, Log, Open, Patch
<1>9. ASSUME NEW c \in Calls, Answer(c)
       PROVE  Steady'
    BY <1>9 DEF Answer, Goto, records, limits, TypeOK, Phases, Targets, Steady, Log, Open, Patch
<1>10. ASSUME NEW c \in Calls, Mark(c)
       PROVE  Steady'
    BY <1>10
       DEF Mark, Goto, limits, Stored, TypeOK, Phases, Targets, Reverts, Steady, Log, Open,
           Patch
<1>11. ASSUME NEW c \in Calls, Persist(c)
       PROVE  Steady'
    BY <1>11 DEF Persist, Goto, limits, TypeOK, Phases, Targets, Steady, Log, Open, Patch
<1>12. ASSUME NEW c \in Calls, WriteFails(c)
       PROVE  Steady'
    BY <1>12 DEF WriteFails, Fail, Goto, records, TypeOK, Phases, Targets, Steady, Log, Open, Patch
<1>13. ASSUME NEW c \in Calls, Sweep(c)
       PROVE  Steady'
  <2>1. PICK p \in stale[c] :
            /\ status' = [status EXCEPT ![p] = "deleted"]
            /\ tainted' = (tainted \/ status[p] \in {"applied", "reverted"})
            /\ Goto(c, IF stale[c] = {p} THEN "done" ELSE "sweeping")
      BY <1>13 DEF Sweep
  <2>2. status[p] \notin {"applied", "reverted"}
      BY <2>1
  <2>3. pc[c] = "sweeping" /\ kind[c] = "sweep" /\ p \in Calls
        /\ UNCHANGED <<recorded, kind, target, delta>>
      BY <1>13, <2>1 DEF Sweep, Phases, TypeOK, limits
  <2>4. \A d \in Calls : kind[d] # "sweep" => pc'[d] = pc[d]
      BY <2>1, <2>3 DEF Goto, TypeOK
  <2>5. Log' = Log
      BY <2>1, <2>2, <2>3 DEF Log, TypeOK
  <2>6. \A d \in Calls : (Open(d)' <=> Open(d)) /\ Patch(d)' = Patch(d)
      BY <2>1, <2>3, <2>4 DEF Open, Patch, Phases, Goto, TypeOK
  <2> QED
      BY <2>3, <2>4, <2>5, <2>6 DEF Steady
<1> QED
    BY <1>1, <1>2, <1>3, <1>4, <1>5, <1>6, <1>7, <1>8, <1>9, <1>10, <1>11, <1>12, <1>13
       DEF Next, CallStep

(* What landed is of a call that began, and has a record unless it is the  *)
(* call's own.                                                             *)
LEMMA LandedBegun ==
    ASSUME TypeOK, Phases, Targets
    PROVE  \A p \in Landed : p \in Calls /\ pc[p] # "idle" /\ (status[p] = "none" => Open(p) /\ Patch(p) = p)
<1>1. ASSUME NEW c \in Calls, Open(c)
      PROVE  Patch(c) \in Calls /\ pc[Patch(c)] # "idle"
             /\ (status[Patch(c)] = "none" => kind[c] # "existing" /\ Patch(c) = c)
    BY <1>1 DEF Open, Patch, Phases, Targets
<1> QED
    BY <1>1 DEF Landed, Log, Phases

(* A chronicle stays one as long as nothing else lands, however its last   *)
(* entry comes to be dated.                                                *)
LEMMA ChronicleKept ==
    ASSUME NEW ord \in [Calls -> Nat], NEW time \in [Calls -> Nat], NEW n \in Nat,
           Chronicle(ord, time, n),
           NEW time2 \in [Calls -> Nat],
           Landed \subseteq Calls, Landed' = Landed, store' = store,
           \A p \in Landed : /\ Effect(p)' = Effect(p) /\ kind'[p] = kind[p] /\ target'[p] = target[p]
                             /\ time2[p] \in 1..now',
           \A p, q \in Landed : ord[p] < ord[q] => time2[p] <= time2[q],
           \A p \in Log' : time2[p] = dateApplied'[p],
           \A c \in Calls : Open(c)' =>
               IF Unstamped(c)' THEN \A p \in Landed : ord[p] <= ord[Patch(c)']
                               ELSE time2[Patch(c)'] = stamp'[c]
    PROVE  Chronicle(ord, time2, n)'
<1>1. \A p \in Landed : ord[p] < n
    BY DEF Chronicle
<1>2. \A p, q \in Landed : ord[p] = ord[q] => p = q
    BY DEF Chronicle
<1>3. \A p \in Landed : kind'[p] = "revert" => ord[target'[p]] < ord[p]
    BY DEF Chronicle
<1>4. \A x \in Quads :
         x \in store' <=>
            \E p \in Landed :
               /\ x \in (Effect(p)').additions
               /\ \A r \in Landed : ord[p] < ord[r] => x \notin (Effect(r)').deletions
    BY DEF Chronicle
<1> HIDE DEF Landed, Effect, Log, Open, Patch, Unstamped
<1> QED
    BY <1>1, <1>2, <1>3, <1>4 DEF Chronicle

(* Steps that land nothing, date nothing and record nothing that landed.   *)
LEMMA Untouched ==
    ASSUME TypeOK, Phases, Targets, Chronicled,
           store' = store, now' \in Nat, now <= now', Log' = Log,
           \A p \in Log : dateApplied'[p] = dateApplied[p],
           \A c \in Calls : /\ Open(c)' <=> Open(c)
                            /\ Unstamped(c)' <=> Unstamped(c)
                            /\ Open(c) => stamp'[c] = stamp[c]
                            /\ pc[c] # "idle" => kind'[c] = kind[c] /\ target'[c] = target[c]
                            /\ Open(c) => delta'[c] = delta[c]
                            /\ status[c] # "none" => recorded'[c] = recorded[c],
           \A p \in Landed : status'[p] = "none" <=> status[p] = "none"
    PROVE  Chronicled'
<1>1. PICK ord \in [Calls -> Nat], time \in [Calls -> Nat], n \in Nat : Chronicle(ord, time, n)
    BY DEF Chronicled
<1>2. \A c \in Calls : Open(c) => Patch(c)' = Patch(c)
    BY DEF Open, Patch
<1>3. \A p \in Landed : p \in Calls /\ pc[p] # "idle" /\ (status[p] = "none" => Open(p) /\ Patch(p) = p)
    BY LandedBegun
<1>4. Landed' = Landed
    BY <1>2 DEF Landed
<1>5. \A p \in Landed : Effect(p)' = Effect(p) /\ kind'[p] = kind[p] /\ target'[p] = target[p]
    BY <1>3 DEF Effect
<1>6. now \in Nat
    BY DEF TypeOK
<1>7. \A p \in Landed : time[p] \in 1..now'
    BY <1>1, <1>3, <1>6 DEF Chronicle
<1>8. \A p, q \in Landed : ord[p] < ord[q] => time[p] <= time[q]
    BY <1>1 DEF Chronicle
<1>9. \A p \in Log' : time[p] = dateApplied'[p]
    BY <1>1 DEF Chronicle
<1>10. \A c \in Calls : Open(c)' =>
               IF Unstamped(c)' THEN \A p \in Landed : ord[p] <= ord[Patch(c)']
                               ELSE time[Patch(c)'] = stamp'[c]
    BY <1>1, <1>2 DEF Chronicle
<1>11. Chronicle(ord, time, n)'
  <2> HIDE DEF Landed, Effect, Log, Open, Patch, Unstamped
  <2> QED
    BY <1>1, <1>3, <1>4, <1>5, <1>7, <1>8, <1>9, <1>10, ChronicleKept
<1> QED
    BY <1>11 DEF Chronicled

(* What lands goes last: what landed before it is dated already, and it does*)
(* to the store what will be recorded of it.                               *)
LEMMA ChronicledByLand ==
    ASSUME TypeOK, Phases, Targets, Reverts, Steady, Steady', Chronicled, ~tainted',
           NEW c \in Calls, Land(c)
    PROVE  Chronicled'
<1>1. PICK ord \in [Calls -> Nat], time \in [Calls -> Nat], n \in Nat : Chronicle(ord, time, n)
    BY DEF Chronicled
<1> DEFINE new == Patch(c)
<1>2. /\ pc[c] = "landing" /\ pc' = [pc EXCEPT ![c] = "answered"] /\ ~Misplaced(c)
      /\ store' = Landing(c)
      /\ UNCHANGED <<status, recorded, kind, target, delta, stamp, now, dateApplied>>
    BY DEF Land, Goto, records, limits, TypeOK
<1>3. \A d \in Calls : /\ Patch(d)' = Patch(d) /\ (Open(d)' <=> d = c \/ Open(d)) /\ Effect(d)' = Effect(d)
                       /\ (Unstamped(d)' <=> d = c)
    BY <1>2 DEF Patch, Open, Effect, Unstamped, Misplaced, TypeOK, Phases
<1>4. Log' = Log
    BY <1>2 DEF Log
<1>5. new \in Calls /\ Patch(c)' = new /\ Open(c)' /\ ~Open(c)
    BY <1>2, <1>3 DEF Patch, Targets, Phases, Open
<1>6. new \notin Landed
  <2>1. new \notin Log
      BY <1>3, <1>4, <1>5 DEF Steady
  <2>2. \A d \in Calls : Open(d) => Patch(d) # new
      BY <1>3, <1>5 DEF Steady
  <2> QED
      BY <2>1, <2>2 DEF Landed
<1>7. Landed' = Landed \cup {new} /\ Landed \subseteq Calls
  <2>1. Landed' = Log \cup {Patch(d) : d \in {e \in Calls : e = c \/ Open(e)}}
      BY <1>3, <1>4 DEF Landed
  <2>2. Landed \subseteq Calls
      BY LandedBegun
  <2> QED
      BY <2>1, <2>2 DEF Landed
<1>8. n + 1 \in Nat /\ now \in Nat /\ now >= 1
    BY DEF TypeOK
<1>81. PICK ord2 \in [Calls -> Nat] : ord2 = [ord EXCEPT ![new] = n]
    OBVIOUS
<1>82. PICK time2 \in [Calls -> Nat] : time2 = [time EXCEPT ![new] = now]
    BY <1>8
<1>9. /\ ord2[new] = n /\ time2[new] = now
      /\ \A p \in Landed : ord2[p] = ord[p] /\ time2[p] = time[p]
    BY <1>5, <1>6, <1>7, <1>81, <1>82
<1>10. \A p \in Landed : ord[p] \in Nat /\ time[p] \in Nat /\ ord[p] < n /\ time[p] <= now /\ time[p] >= 1
    BY <1>1, <1>7, <1>8 DEF Chronicle
<1>11. Effect(new) = delta[c]
  <2>1. CASE kind[c] = "existing"
      BY <1>2, <2>1 DEF Effect, Steady, Targets, Patch
  <2>2. CASE kind[c] # "existing"
      BY <1>2, <2>2 DEF Effect, Phases, Patch
  <2> QED
      BY <2>1, <2>2
<1>12. store' = ApplyDelta(Effect(new), store)
    BY <1>2, <1>11 DEF Misplaced, Landing
<1>13. kind[new] = "revert" => target[new] \in Landed
  <2>1. CASE kind[c] = "existing"
    <3>1. new = target[c] /\ status[new] # "none" /\ new \notin Log
        BY <1>6, <2>1 DEF Patch, Targets, Landed
    <3>2. ASSUME kind[new] = "revert"
          PROVE  FALSE
        BY <1>5, <3>1, <3>2 DEF Reverts, Log
    <3> QED
        BY <3>2
  <2>2. CASE kind[c] # "existing"
      BY <1>2, <2>2 DEF Steady, Patch, Landed
  <2> QED
      BY <2>1, <2>2
<1> HIDE DEF new
<1>14. \A p \in Landed' : ord2[p] < n + 1 /\ time2[p] \in 1..now'
    BY <1>2, <1>7, <1>8, <1>9, <1>10
<1>15. \A p, q \in Landed' : /\ ord2[p] = ord2[q] => p = q
                             /\ ord2[p] < ord2[q] => time2[p] <= time2[q]
  <2>1. ASSUME NEW p \in Landed, NEW q \in Landed
        PROVE  /\ ord2[p] = ord2[q] => p = q
               /\ ord2[p] < ord2[q] => time2[p] <= time2[q]
      BY <1>1, <1>9 DEF Chronicle
  <2>2. ASSUME NEW p \in Landed
        PROVE  ord2[p] < ord2[new] /\ time2[p] <= time2[new]
      BY <1>9, <1>10
  <2>3. \A p \in Landed : ord2[p] \in Nat /\ ord2[new] \in Nat /\ time2[new] \in Nat
      BY <1>8, <1>9, <1>10
  <2>4. ASSUME NEW p \in Landed', NEW q \in Landed'
        PROVE  /\ ord2[p] = ord2[q] => p = q
               /\ ord2[p] < ord2[q] => time2[p] <= time2[q]
    <3>1. CASE p \in Landed /\ q \in Landed
        BY <2>1, <3>1
    <3>2. CASE p = new /\ q \in Landed
        BY <2>2, <2>3, <3>2
    <3>3. CASE p \in Landed /\ q = new
        BY <2>2, <2>3, <3>3
    <3>4. CASE p = new /\ q = new
        BY <1>8, <1>9, <3>4
    <3> QED
        BY <1>7, <2>4, <3>1, <3>2, <3>3, <3>4
  <2> QED
      BY <2>4
<1>16. \A p \in Log' : time2[p] = dateApplied'[p]
    BY <1>1, <1>2, <1>4, <1>9 DEF Chronicle, Landed
<1>17. ASSUME NEW d \in Calls, Open(d)'
       PROVE  IF Unstamped(d)' THEN \A p \in Landed' : ord2[p] <= ord2[Patch(d)']
                               ELSE time2[Patch(d)'] = stamp'[d]
  <2>1. CASE d = c
      BY <1>3, <1>5, <1>7, <1>8, <1>9, <1>10, <2>1
  <2>2. CASE d # c
    <3>1. Open(d) /\ ~Unstamped(d)' /\ ~Unstamped(d)
        BY <1>2, <1>3, <1>17, <2>2 DEF Misplaced
    <3>2. Patch(d) \in Landed
        BY <3>1 DEF Landed
    <3>3. time[Patch(d)] = stamp[d]
        BY <1>1, <3>1 DEF Chronicle
    <3> QED
        BY <1>2, <1>3, <1>9, <3>1, <3>2, <3>3
  <2> QED
      BY <2>1, <2>2
<1>18. \A p \in Landed' : kind'[p] = "revert" => ord2[target'[p]] < ord2[p]
  <2>1. ASSUME NEW p \in Landed, kind[p] = "revert"
        PROVE  ord2[target[p]] < ord2[p]
    <3>1. target[p] \in Log
      <4>1. CASE p \in Log
          BY <1>7, <2>1, <4>1 DEF Steady
      <4>2. ASSUME NEW d \in Calls, Open(d), p = Patch(d), p \notin Log
            PROVE  target[p] \in Log
        <5>1. CASE kind[d] = "existing"
            BY <1>7, <2>1, <4>2, <5>1 DEF Patch, Targets, Reverts, Log
        <5>2. CASE kind[d] # "existing"
            BY <2>1, <4>2, <5>2 DEF Patch, Steady
        <5> QED
            BY <5>1, <5>2
      <4> QED
          BY <4>1, <4>2, <2>1 DEF Landed
    <3>2. target[p] \in Landed
        BY <3>1 DEF Landed
    <3> QED
        BY <1>1, <1>9, <2>1, <3>2 DEF Chronicle
  <2>2. kind[new] = "revert" => ord2[target[new]] < ord2[new]
      BY <1>9, <1>10, <1>13
  <2> QED
      BY <1>2, <1>7, <2>1, <2>2
<1>19. ASSUME NEW x \in Quads
       PROVE  x \in store' <=>
                 \E p \in Landed' :
                    /\ x \in (Effect(p)').additions
                    /\ \A r \in Landed' : ord2[p] < ord2[r] => x \notin (Effect(r)').deletions
  <2>1. x \in store' <=> x \in Effect(new).additions \/ (x \in store /\ x \notin Effect(new).deletions)
      BY <1>12 DEF ApplyDelta
  <2>2. x \in store <=>
           \E p \in Landed :
              /\ x \in Effect(p).additions
              /\ \A r \in Landed : ord[p] < ord[r] => x \notin Effect(r).deletions
      BY <1>1 DEF Chronicle
  <2>3. \A p \in Landed : ord2[p] < ord2[new] /\ ~(ord2[new] < ord2[p]) /\ ~(ord2[new] < ord2[new])
      BY <1>8, <1>9, <1>10
  <2>4. ~(ord2[new] < ord2[new])
      BY <1>9
  <2>5. \A p \in Landed' : Effect(p)' = Effect(p)
      BY <1>3, <1>5, <1>7
  <2> QED
      BY <1>7, <1>9, <2>1, <2>2, <2>3, <2>4, <2>5
<1>20. Chronicle(ord2, time2, n + 1)'
  <2> HIDE DEF Landed, Effect, Log, Open, Patch, Unstamped
  <2> QED
    BY <1>14, <1>15, <1>16, <1>17, <1>18, <1>19 DEF Chronicle
<1> QED
    BY <1>8, <1>20 DEF Chronicled

(* The last to land is the only one without a date, and no date is later   *)
(* than now.                                                               *)
LEMMA ChronicledByDating ==
    ASSUME TypeOK, Phases, Targets, Steady, Chronicled,
           NEW c \in Calls, Unstamped(c), Open(c),
           store' = store, now' = now, Log' = Log,
           UNCHANGED <<recorded, kind, target, delta, dateApplied>>,
           stamp' = [stamp EXCEPT ![c] = now],
           \A d \in Calls : /\ Open(d)' <=> Open(d)
                            /\ Unstamped(d)' <=> d # c /\ Unstamped(d)
                            /\ status'[d] = "none" <=> status[d] = "none"
    PROVE  Chronicled'
<1>1. PICK ord \in [Calls -> Nat], time \in [Calls -> Nat], n \in Nat : Chronicle(ord, time, n)
    BY DEF Chronicled
<1> DEFINE top == Patch(c)
<1>2. now \in Nat /\ now >= 1
    BY DEF TypeOK
<1>3. PICK time2 \in [Calls -> Nat] : time2 = [time EXCEPT ![top] = now]
    BY <1>2
<1>4. \A d \in Calls : Patch(d)' = Patch(d)
    BY DEF Patch
<1>5. \A p \in Landed : p \in Calls /\ pc[p] # "idle" /\ (status[p] = "none" => Open(p) /\ Patch(p) = p)
    BY LandedBegun
<1>6. Landed' = Landed
    BY <1>4 DEF Landed
<1>7. \A p \in Landed : Effect(p)' = Effect(p) /\ kind'[p] = kind[p] /\ target'[p] = target[p]
    BY <1>5 DEF Effect
<1>8. top \in Landed /\ top \in Calls /\ top \notin Log
    BY <1>5 DEF Landed, Steady
<1>9. time2[top] = now /\ \A p \in Landed : p # top => time2[p] = time[p]
    BY <1>3, <1>5, <1>8
<1>10. \A p \in Landed : ord[p] <= ord[top] /\ ord[p] \in Nat /\ time[p] \in 1..now
    BY <1>1, <1>5 DEF Chronicle
<1>11. \A p \in Landed : time2[p] \in 1..now'
    BY <1>2, <1>9, <1>10
<1>12. ASSUME NEW p \in Landed, NEW q \in Landed, ord[p] < ord[q]
       PROVE  time2[p] <= time2[q]
  <2>1. p # top
      BY <1>8, <1>10, <1>12
  <2>2. CASE q = top
      BY <1>2, <1>9, <1>10, <2>1, <2>2
  <2>3. CASE q # top
      BY <1>1, <1>9, <1>12, <2>1, <2>3 DEF Chronicle
  <2> QED
      BY <2>2, <2>3
<1>13. \A p \in Log' : time2[p] = dateApplied'[p]
    BY <1>1, <1>8, <1>9 DEF Chronicle, Landed
<1>14. ASSUME NEW d \in Calls, Open(d)'
       PROVE  IF Unstamped(d)' THEN \A p \in Landed : ord[p] <= ord[Patch(d)']
                               ELSE time2[Patch(d)'] = stamp'[d]
  <2>1. CASE d = c
      BY <1>4, <1>9, <2>1 DEF TypeOK
  <2>2. CASE d # c
    <3>1. Open(d) /\ (Unstamped(d)' <=> Unstamped(d)) /\ stamp'[d] = stamp[d]
        BY <1>14, <2>2 DEF TypeOK
    <3>2. Patch(d) \in Landed /\ Patch(d) # top
        BY <2>2, <3>1 DEF Steady, Landed
    <3> QED
        BY <1>1, <1>4, <1>9, <3>1, <3>2 DEF Chronicle
  <2> QED
      BY <2>1, <2>2
<1>15. Chronicle(ord, time2, n)'
  <2> HIDE DEF Landed, Effect, Log, Open, Patch, Unstamped
  <2> QED
    BY <1>1, <1>5, <1>6, <1>7, <1>11, <1>12, <1>13, <1>14, ChronicleKept
<1> QED
    BY <1>15 DEF Chronicled

(* An apply is dated by its answer.                                        *)
LEMMA ChronicledByAnswer ==
    ASSUME TypeOK, Phases, Targets, Steady, Chronicled,
           NEW c \in Calls, Answer(c)
    PROVE  Chronicled'
<1>1. /\ pc[c] = "answered" /\ kind[c] \in {"apply", "record", "existing", "revert"}
      /\ UNCHANGED <<store, status, recorded, kind, target, delta, dateApplied, now>>
      /\ pc' = [pc EXCEPT ![c] = IF kind[c] \in {"existing", "revert"} THEN "marking" ELSE "persisting"]
    BY DEF Answer, Goto, records, limits, Phases
<1>2. \A d \in Calls : Open(d)' <=> Open(d)
    BY <1>1 DEF Open, TypeOK
<1>3. Log' = Log
    BY <1>1 DEF Log
<1>4. CASE kind[c] = "revert"
  <2>1. stamp' = stamp
      BY <1>4 DEF Answer
  <2>2. \A d \in Calls : Unstamped(d)' <=> Unstamped(d)
      BY <1>1, <1>4 DEF Unstamped, TypeOK
  <2>3. now \in Nat /\ now <= now'
      BY <1>1 DEF TypeOK
  <2> QED
      BY <1>1, <1>2, <1>3, <2>1, <2>2, <2>3, Untouched
<1>5. CASE kind[c] # "revert"
  <2>1. stamp' = [stamp EXCEPT ![c] = now]
      BY <1>5 DEF Answer
  <2>2. \A d \in Calls : Unstamped(d)' <=> d # c /\ Unstamped(d)
      BY <1>1, <1>5 DEF Unstamped, TypeOK
  <2>3. Unstamped(c) /\ Open(c)
      BY <1>1 DEF Unstamped, Open
  <2> QED
      BY <1>1, <1>2, <1>3, <2>1, <2>2, <2>3, ChronicledByDating
<1> QED
    BY <1>4, <1>5

(* A revert is dated once its target is marked; an apply again puts its    *)
(* patch in the log with its own date.                                     *)
LEMMA ChronicledByMark ==
    ASSUME TypeOK, Phases, Targets, Steady, Chronicled, ~tainted',
           NEW c \in Calls, Mark(c)
    PROVE  Chronicled'
<1> DEFINE p == target[c]
<1>1. /\ pc[c] = "marking" /\ kind[c] \in {"existing", "revert"} /\ p \in Calls /\ status[p] # "none"
      /\ UNCHANGED <<store, recorded, kind, target, delta, now>>
      /\ status' = IF p \in Stored
                   THEN [status EXCEPT ![p] = IF kind[c] = "revert" THEN "reverted" ELSE "applied"]
                   ELSE status
    BY DEF Mark, limits, Phases, Targets
<1>2. CASE kind[c] = "revert"
  <2>1. /\ stamp' = [stamp EXCEPT ![c] = now] /\ pc' = [pc EXCEPT ![c] = "persisting"]
        /\ dateApplied' = dateApplied
      BY <1>2 DEF Mark, Goto
  <2>2. p \in Log
      BY <1>1, <1>2 DEF Open, Steady
  <2>3. Log' = Log
      BY <1>1, <1>2, <2>2 DEF Log, TypeOK
  <2>4. \A d \in Calls : /\ Open(d)' <=> Open(d)
                         /\ Unstamped(d)' <=> d # c /\ Unstamped(d)
                         /\ status'[d] = "none" <=> status[d] = "none"
      BY <1>1, <1>2, <2>1 DEF Open, Unstamped, TypeOK
  <2>5. Unstamped(c) /\ Open(c)
      BY <1>1, <1>2 DEF Unstamped, Open
  <2> QED
      BY <1>1, <2>1, <2>3, <2>4, <2>5, ChronicledByDating
<1>3. CASE kind[c] = "existing"
  <2>1. /\ p \in Stored /\ stamp' = stamp /\ pc' = [pc EXCEPT ![c] = "done"]
        /\ dateApplied' = [dateApplied EXCEPT ![p] = stamp[c]]
      BY <1>3 DEF Mark, Goto
  <2>2. PICK ord \in [Calls -> Nat], time \in [Calls -> Nat], n \in Nat : Chronicle(ord, time, n)
      BY DEF Chronicled
  <2>3. Patch(c) = p /\ Open(c) /\ ~Unstamped(c) /\ p \notin Log
      BY <1>1, <1>3 DEF Patch, Open, Unstamped, Steady
  <2>4. Log' = Log \cup {p}
      BY <1>1, <1>3, <2>1 DEF Log, TypeOK
  <2>5. \A d \in Calls : /\ Patch(d)' = Patch(d) /\ (Open(d)' <=> d # c /\ Open(d))
                         /\ d # c => (Unstamped(d)' <=> Unstamped(d))
      BY <1>1, <1>3, <2>1 DEF Patch, Open, Unstamped, TypeOK
  <2>6. Landed' = Landed
    <3>1. Landed' = Log \cup {p} \cup {Patch(d) : d \in {e \in Calls : e # c /\ Open(e)}}
        BY <2>4, <2>5 DEF Landed
    <3> QED
        BY <2>3, <3>1 DEF Landed
  <2>7. Landed \subseteq Calls
      BY LandedBegun
  <2>8. \A q \in Landed : Effect(q)' = Effect(q) /\ kind'[q] = kind[q] /\ target'[q] = target[q]
      BY <1>1, <2>1, <2>7 DEF Effect, TypeOK
  <2>9. \A q \in Landed : time[q] \in 1..now'
      BY <1>1, <2>2 DEF Chronicle
  <2>10. \A q, r \in Landed : ord[q] < ord[r] => time[q] <= time[r]
      BY <2>2 DEF Chronicle
  <2>11. \A q \in Log' : time[q] = dateApplied'[q]
    <3>1. time[p] = stamp[c]
        BY <2>2, <2>3 DEF Chronicle
    <3>2. \A q \in Log : time[q] = dateApplied[q] /\ q # p
        BY <2>2, <2>3 DEF Chronicle
    <3> QED
        BY <1>1, <2>1, <2>4, <3>1, <3>2 DEF TypeOK, Log
  <2>12. \A d \in Calls : Open(d)' =>
               IF Unstamped(d)' THEN \A q \in Landed : ord[q] <= ord[Patch(d)']
                               ELSE time[Patch(d)'] = stamp'[d]
      BY <2>1, <2>2, <2>5 DEF Chronicle
  <2>13. Chronicle(ord, time, n)'
    <3> HIDE DEF Landed, Effect, Log, Open, Patch, Unstamped
    <3> QED
      BY <1>1, <2>2, <2>6, <2>7, <2>8, <2>9, <2>10, <2>11, <2>12, ChronicleKept
  <2> QED
      BY <2>13 DEF Chronicled
<1> QED
    BY <1>1, <1>2, <1>3

(* The record of a call puts it in the log as it was; a preview, or what   *)
(* failed, never landed.                                                   *)
LEMMA ChronicledByPersist ==
    ASSUME TypeOK, Phases, Targets, Steady, Chronicled,
           NEW c \in Calls, Persist(c)
    PROVE  Chronicled'
<1>1. /\ pc[c] \in {"persisting", "excusing"} /\ pc' = [pc EXCEPT ![c] = "done"]
      /\ status' = [status EXCEPT ![c] = IF pc[c] = "excusing" THEN "failed"
                                         ELSE IF kind[c] = "preview" THEN "previewed" ELSE "applied"]
      /\ recorded' = [recorded EXCEPT ![c] = delta[c]]
      /\ dateApplied' = [dateApplied EXCEPT ![c] = stamp[c]]
      /\ UNCHANGED <<store, kind, target, delta, stamp, now>>
      /\ status[c] = "none" /\ kind[c] # "existing" /\ c \notin Log
    BY DEF Persist, Goto, limits, Phases, Log
<1>2. \A p \in Landed : p \in Calls /\ pc[p] # "idle" /\ (status[p] = "none" => Open(p) /\ Patch(p) = p)
    BY LandedBegun
<1>3. \A d \in Calls : /\ Patch(d)' = Patch(d) /\ (Open(d)' <=> d # c /\ Open(d))
                       /\ d # c => (Unstamped(d)' <=> Unstamped(d))
                       /\ d # c => /\ status'[d] = status[d] /\ recorded'[d] = recorded[d]
                                   /\ dateApplied'[d] = dateApplied[d]
    BY <1>1 DEF Patch, Open, Unstamped, TypeOK
<1>4. CASE pc[c] = "excusing" \/ kind[c] = "preview"
  <2>1. ~Open(c) /\ c \notin Landed
      BY <1>1, <1>2, <1>4 DEF Open, Phases
  <2>2. Log' = Log
      BY <1>1, <1>4 DEF Log, TypeOK
  <2>3. now \in Nat /\ now <= now'
      BY <1>1 DEF TypeOK
  <2>4. ~Unstamped(c) /\ ~Unstamped(c)'
      BY <1>1, <1>4 DEF Unstamped, TypeOK
  <2>5. \A p \in Log : dateApplied'[p] = dateApplied[p]
      BY <1>1, <1>3 DEF Log
  <2>6. \A p \in Landed : status'[p] = "none" <=> status[p] = "none"
      BY <1>2, <1>3, <2>1
  <2> QED
      BY <1>1, <1>3, <2>1, <2>2, <2>3, <2>4, <2>5, <2>6, Untouched
<1>5. CASE pc[c] = "persisting" /\ kind[c] # "preview"
  <2>2. PICK ord \in [Calls -> Nat], time \in [Calls -> Nat], n \in Nat : Chronicle(ord, time, n)
      BY DEF Chronicled
  <2>3. Patch(c) = c /\ Open(c) /\ ~Unstamped(c)
      BY <1>1, <1>5 DEF Patch, Open, Unstamped
  <2>4. Log' = Log \cup {c}
      BY <1>1, <1>5 DEF Log, TypeOK
  <2>6. Landed' = Landed
    <3>1. Landed' = Log \cup {c} \cup {Patch(d) : d \in {e \in Calls : e # c /\ Open(e)}}
        BY <1>3, <2>4 DEF Landed
    <3> QED
        BY <2>3, <3>1 DEF Landed
  <2>8. \A q \in Landed : Effect(q)' = Effect(q) /\ kind'[q] = kind[q] /\ target'[q] = target[q]
      BY <1>1, <1>2, <1>3, <1>5 DEF Effect, TypeOK
  <2>9. \A q \in Landed : time[q] \in 1..now'
      BY <1>1, <2>2 DEF Chronicle
  <2>10. \A q, r \in Landed : ord[q] < ord[r] => time[q] <= time[r]
      BY <2>2 DEF Chronicle
  <2>11. \A q \in Log' : time[q] = dateApplied'[q]
    <3>1. time[c] = stamp[c]
        BY <2>2, <2>3 DEF Chronicle
    <3>2. \A q \in Log : time[q] = dateApplied[q] /\ q # c /\ q \in Calls
        BY <1>1, <2>2 DEF Chronicle, Log
    <3> QED
        BY <1>1, <2>4, <3>1, <3>2 DEF TypeOK
  <2>12. \A d \in Calls : Open(d)' =>
               IF Unstamped(d)' THEN \A q \in Landed : ord[q] <= ord[Patch(d)']
                               ELSE time[Patch(d)'] = stamp'[d]
      BY <1>1, <2>2, <1>3 DEF Chronicle
  <2>13. Chronicle(ord, time, n)'
    <3> HIDE DEF Landed, Effect, Log, Open, Patch, Unstamped
    <3> QED
      BY <1>1, <1>2, <2>2, <2>6, <2>8, <2>9, <2>10, <2>11, <2>12, ChronicleKept
  <2> QED
      BY <2>13 DEF Chronicled
<1> QED
    BY <1>1, <1>4, <1>5

(* A call that begins has landed nothing.                                  *)
LEMMA ChronicledByStart ==
    ASSUME TypeOK, Phases, Targets, Steady, Chronicled,
           NEW c \in Calls,
           StartUpdate(c) \/ StartExisting(c) \/ StartRevert(c) \/ StartSweep(c)
    PROVE  Chronicled'
<1>1. /\ pc[c] = "idle" /\ UNCHANGED <<store, records, stamp, limits>>
      /\ \A d \in Calls : d # c => /\ kind'[d] = kind[d] /\ target'[d] = target[d]
                                   /\ delta'[d] = delta[d] /\ pc'[d] = pc[d]
    BY DEF StartUpdate, StartExisting, StartRevert, StartSweep, Begin, Goto, TypeOK
<1>2. /\ pc'[c] \in {"persisting", "landing", "rederiving", "sweeping"}
      /\ pc'[c] = "persisting" => kind'[c] = "preview"
    BY DEF StartUpdate, StartExisting, StartRevert, StartSweep, Begin, Goto, TypeOK
<1>3. \A d \in Calls : /\ Open(d)' <=> Open(d)
                       /\ Unstamped(d)' <=> Unstamped(d)
    BY <1>1, <1>2 DEF Open, Unstamped
<1>4. ~Open(c)
    BY <1>1 DEF Open
<1>5. Log' = Log /\ now \in Nat /\ now' = now
    BY <1>1 DEF Log, records, limits, TypeOK
<1>6. \A p \in Landed : status'[p] = "none" <=> status[p] = "none"
    BY <1>1 DEF records
<1> QED
    BY <1>1, <1>3, <1>4, <1>5, <1>6, Untouched DEF records, Log

(* Whatever a step does, the chronicle can be continued.                   *)
LEMMA ChronicledKept ==
    ASSUME TypeOK, Phases, Targets, Reverts, Steady, Steady', Chronicled, ~tainted, ~tainted',
           [Next]_vars
    PROVE  Chronicled'
<1>0. now \in Nat
    BY DEF TypeOK
<1>1. CASE Tick \/ UNCHANGED vars
  <2>1. now' \in Nat /\ now <= now'
      BY <1>0, <1>1 DEF Tick, vars
  <2>2. UNCHANGED <<store, records, pc, kind, target, delta, stamp>>
      BY <1>1 DEF Tick, vars, records
  <2> QED
      BY <2>1, <2>2, Untouched DEF records, Log, Open, Unstamped
<1>2. ASSUME NEW c \in Calls, StartUpdate(c) \/ StartExisting(c) \/ StartRevert(c) \/ StartSweep(c)
       PROVE  Chronicled'
    BY <1>2, ChronicledByStart
<1>3. ASSUME NEW c \in Calls, Rederive(c)
       PROVE  Chronicled'
  <2>1. /\ pc[c] = "rederiving" /\ (Goto(c, "done") \/ Goto(c, "landing"))
        /\ UNCHANGED <<store, records, kind, target, stamp, limits>>
        /\ \A d \in Calls : d # c => delta'[d] = delta[d]
      BY <1>3 DEF Rederive, TypeOK
  <2>2. \A d \in Calls : (Open(d)' <=> Open(d)) /\ (Unstamped(d)' <=> Unstamped(d))
      BY <2>1 DEF Open, Unstamped, Goto, TypeOK
  <2>3. ~Open(c)
      BY <2>1 DEF Open
  <2> QED
      BY <1>0, <2>1, <2>2, <2>3, Untouched DEF records, limits, Log
<1>4. ASSUME NEW c \in Calls, Land(c)
       PROVE  Chronicled'
    BY <1>4, ChronicledByLand
<1>5. ASSUME NEW c \in Calls, LandFails(c)
       PROVE  Chronicled'
  <2>1. /\ pc[c] = "landing" /\ (Goto(c, "done") \/ Goto(c, "excusing"))
        /\ UNCHANGED <<store, records, kind, target, delta, stamp, now>>
      BY <1>5 DEF LandFails, Fail
  <2>2. \A d \in Calls : (Open(d)' <=> Open(d)) /\ (Unstamped(d)' <=> Unstamped(d))
      BY <2>1 DEF Open, Unstamped, Goto, TypeOK
  <2> QED
      BY <1>0, <2>1, <2>2, Untouched DEF records, Log
<1>6. ASSUME NEW c \in Calls, WriteFails(c)
       PROVE  Chronicled'
  <2>1. /\ pc[c] \in {"marking", "persisting", "excusing", "sweeping"} /\ Goto(c, "done")
        /\ kind[c] \in {"preview", "sweep"}
        /\ UNCHANGED <<store, records, kind, target, delta, stamp, now>>
      BY <1>6 DEF WriteFails, Fail, TypeOK
  <2>2. \A d \in Calls : (Open(d)' <=> Open(d)) /\ (Unstamped(d)' <=> Unstamped(d))
      BY <2>1 DEF Open, Unstamped, Goto, TypeOK, Phases
  <2> QED
      BY <1>0, <2>1, <2>2, Untouched DEF records, Log
<1>7. ASSUME NEW c \in Calls, Sweep(c)
       PROVE  Chronicled'
  <2>1. PICK p \in stale[c] :
            /\ status' = [status EXCEPT ![p] = "deleted"]
            /\ tainted' = (tainted \/ status[p] \in {"applied", "reverted"})
            /\ Goto(c, IF stale[c] = {p} THEN "done" ELSE "sweeping")
      BY <1>7 DEF Sweep
  <2>2. status[p] \notin {"applied", "reverted"} /\ status[p] # "none"
      BY <2>1 DEF Targets
  <2>3. /\ pc[c] = "sweeping" /\ kind[c] = "sweep" /\ p \in Calls
        /\ UNCHANGED <<store, recorded, dateApplied, kind, target, delta, stamp, now>>
      BY <1>7, <2>1 DEF Sweep, Phases, TypeOK, limits
  <2>4. \A d \in Calls : (Open(d)' <=> Open(d)) /\ (Unstamped(d)' <=> Unstamped(d))
      BY <2>1, <2>3 DEF Open, Unstamped, Goto, TypeOK
  <2>5. Log' = Log /\ \A d \in Calls : status'[d] = "none" <=> status[d] = "none"
      BY <2>1, <2>2, <2>3 DEF Log, TypeOK
  <2>6. \A d \in Landed : d \in Calls
      BY LandedBegun
  <2> QED
      BY <1>0, <2>3, <2>4, <2>5, <2>6, Untouched
<1>8. ASSUME NEW c \in Calls, Answer(c)
       PROVE  Chronicled'
    BY <1>8, ChronicledByAnswer
<1>9. ASSUME NEW c \in Calls, Mark(c)
       PROVE  Chronicled'
    BY <1>9, ChronicledByMark
<1>10. ASSUME NEW c \in Calls, Persist(c)
       PROVE  Chronicled'
    BY <1>10, ChronicledByPersist
<1> QED
    BY <1>1, <1>2, <1>3, <1>4, <1>5, <1>6, <1>7, <1>8, <1>9, <1>10 DEF Next, CallStep

(* Nothing has landed yet.                                                 *)
LEMMA LogInitHolds ==
    Init => LogInv
<1> SUFFICES ASSUME Init
             PROVE  LogInv
    OBVIOUS
<1>1. Disjoint
    BY DEF Init, Disjoint, EmptyDelta
<1>2. Log = {} /\ \A c \in Calls : ~Open(c)
    BY DEF Init, Log, Open
<1>3. Steady
    BY <1>2 DEF Init, Steady
<1>4. Landed = {}
    BY <1>2 DEF Landed
<1>5. PICK zero \in [Calls -> Nat] : zero = [c \in Calls |-> 0]
    OBVIOUS
<1>6. Chronicle(zero, zero, 0)
    BY <1>2, <1>4 DEF Init, Chronicle
<1> QED
    BY <1>1, <1>3, <1>5, <1>6 DEF LogInv, Chronicled

(* The three parts together.                                               *)
LEMMA LogStepKeeps ==
    IInv /\ LogInv /\ [Next]_vars => LogInv'
<1> SUFFICES ASSUME IInv, LogInv, [Next]_vars
             PROVE  LogInv'
    OBVIOUS
<1>1. ~tainted' => ~tainted
    BY DEF Next, CallStep, vars, Tick, StartUpdate, StartExisting, StartRevert, StartSweep, Begin,
           Rederive, Land, LandFails, Answer, Mark, Persist, WriteFails, Sweep, IInv, TypeOK
<1>2. Disjoint'
    BY DisjointKept DEF IInv, LogInv
<1>3. ~tainted' => Steady'
    BY <1>1, SteadyKept DEF IInv, LogInv
<1>4. ~tainted' => Chronicled'
    BY <1>1, <1>3, ChronicledKept DEF IInv, LogInv
<1> QED
    BY <1>2, <1>3, <1>4 DEF LogInv

(* What was recorded of the patches is what made the store, in every state *)
(* no step that "tainted" names led to.                                    *)
THEOREM LogInvariance ==
    Spec => []LogInv
BY LogInitHolds, LogStepKeeps, Invariance, PTL DEF Spec

-----------------------------------------------------------------------------
(***************************************************************************)
(* The order of the log.                                                   *)
(***************************************************************************)

(* What the keys and the chronicle have in common.                         *)
Agree(ord, pos) ==
    /\ \A p \in Log : ord[p] \in Nat /\ pos[p] \in Nat /\ dateApplied[p] \in Nat
    /\ \A p, q \in Log :
         /\ pos[p] = pos[q] => p = q
         /\ dateApplied[p] < dateApplied[q] => pos[p] < pos[q]
         /\ ord[p] < ord[q] => dateApplied[p] <= dateApplied[q]
         /\ ord[p] = ord[q] => p = q
    /\ \A p \in Log : inverseOf[p] \in Log => ord[inverseOf[p]] < ord[p]
    /\ \A p, q, r \in Log :
         dateApplied[p] = dateApplied[q] /\ dateApplied[q] = dateApplied[r] => p = q \/ q = r \/ p = r

(* A revert that its keys put before its target.                           *)
Waits(pos, p) == inverseOf[p] \in Log /\ pos[inverseOf[p]] > pos[p]

Route(pos, p) == IF Waits(pos, p) THEN <<pos[inverseOf[p]], pos[p]>> ELSE <<pos[p]>>

(* The first position on its route.                                        *)
First(pos, p) == IF Waits(pos, p) THEN pos[inverseOf[p]] ELSE pos[p]

(* The comparison of Before, of routes of one or two positions.            *)
Sooner(s, t) ==
    \/ Records!IsStrictPrefix(s, t)
    \/ \E k \in DOMAIN s \cap DOMAIN t :
         /\ SubSeq(s, 1, k - 1) = SubSeq(t, 1, k - 1)
         /\ s[k] < t[k]

(* A set of numbers has a least.                                           *)
LEMMA LeastExists ==
    ASSUME NEW T, T \subseteq Nat, T # {}
    PROVE  \E m \in T : \A k \in T : m <= k
<1> DEFINE R == OpToRel(<, Nat)
<1>1. PICK m \in T : \A k \in T : ~ (<<k, m>> \in R)
    BY NatLessThanWellFounded, WFMin
<1>2. \A k \in T : k < m => <<k, m>> \in R
    BY DEF OpToRel
<1> HIDE DEF R
<1>3. \A k \in T : ~(k < m)
    BY <1>1, <1>2
<1> QED
    BY <1>3

(* Of three members of a pair, two are one.                                *)
LEMMA NoThird ==
    ASSUME NEW S, IsFiniteSet(S), Cardinality(S) <= 2, NEW a \in S, NEW b \in S, NEW c \in S
    PROVE  a = b \/ b = c \/ a = c
<1> SUFFICES ASSUME a # b, b # c, a # c
             PROVE  FALSE
    OBVIOUS
<1>1. IsFiniteSet({a}) /\ Cardinality({a}) = 1
    BY FS_Singleton
<1>2. \A T, x : IsFiniteSet(T) /\ x \notin T =>
         IsFiniteSet(T \cup {x}) /\ Cardinality(T \cup {x}) = Cardinality(T) + 1
    BY FS_AddElement
<1>3. IsFiniteSet({a} \cup {b}) /\ Cardinality({a} \cup {b}) = 2
    BY <1>1, <1>2
<1>4. Cardinality(({a} \cup {b}) \cup {c}) = 3
    BY <1>2, <1>3
<1>5. Cardinality(({a} \cup {b}) \cup {c}) <= Cardinality(S)
    BY FS_Subset
<1>6. Cardinality(S) \in Nat
    BY FS_CardinalityType
<1> QED
    BY <1>4, <1>5, <1>6

(* Sequences of one and of two positions.                                  *)
LEMMA AppendOne ==
    ASSUME NEW x \in Nat, NEW y \in Nat
    PROVE  Append(<<x>>, y) = <<x, y>>
<1> DEFINE s == Append(<<x>>, y)
           t == <<x, y>>
<1>1. s \in Seq(Nat) /\ t \in Seq(Nat) /\ Len(s) = 2 /\ Len(t) = 2
    OBVIOUS
<1>2. s[1] = x /\ s[2] = y /\ t[1] = x /\ t[2] = y
    OBVIOUS
<1> HIDE DEF s, t
<1>3. \A i \in 1 .. Len(s) : s[i] = t[i]
    BY <1>1, <1>2
<1>4. s = t
    BY <1>1, <1>3, SeqEqual
<1> QED
    BY <1>4 DEF s, t

(* A revert waits only for a target of its own timestamp, and then no third*)
(* patch has that timestamp: nothing waits for the revert of a revert.     *)
LEMMA WaitingShares ==
    ASSUME NEW ord, NEW pos, Agree(ord, pos), NEW p \in Log, Waits(pos, p)
    PROVE  /\ dateApplied[inverseOf[p]] = dateApplied[p] /\ inverseOf[p] # p
           /\ ~Waits(pos, inverseOf[p])
           /\ \A q \in Log : dateApplied[q] = dateApplied[p] => q = p \/ q = inverseOf[p]
<1> DEFINE i == inverseOf[p]
<1>1. i \in Log /\ pos[i] > pos[p] /\ ord[i] < ord[p]
    BY DEF Waits, Agree
<1>2. dateApplied[i] <= dateApplied[p] /\ ~(dateApplied[i] < dateApplied[p]) /\ i # p
    BY <1>1 DEF Agree
<1>3. dateApplied[i] = dateApplied[p]
    BY <1>1, <1>2 DEF Agree
<1>4. ASSUME Waits(pos, i)
      PROVE  FALSE
  <2> DEFINE j == inverseOf[i]
  <2>1. j \in Log /\ pos[j] > pos[i] /\ ord[j] < ord[i]
      BY <1>4, <1>1 DEF Waits, Agree
  <2>2. dateApplied[j] = dateApplied[i]
      BY <1>1, <2>1 DEF Agree
  <2>3. j # i /\ j # p
      BY <1>1, <2>1 DEF Agree
  <2> QED
      BY <1>1, <1>2, <1>3, <2>1, <2>2, <2>3 DEF Agree
<1>5. \A q \in Log : dateApplied[q] = dateApplied[p] => q = p \/ q = i
    BY <1>1, <1>2, <1>3 DEF Agree
<1> QED
    BY <1>2, <1>3, <1>4, <1>5

(* The routes satisfy the recursion of Path.                               *)
LEMMA RouteStep ==
    ASSUME NEW ord, NEW pos, Agree(ord, pos), NEW p \in Log
    PROVE  Route(pos, p) = IF inverseOf[p] \in Log /\ Route(pos, inverseOf[p])[1] > pos[p]
                           THEN Append(Route(pos, inverseOf[p]), pos[p])
                           ELSE <<pos[p]>>
<1> DEFINE i == inverseOf[p]
<1>1. CASE i \notin Log
    BY <1>1 DEF Route, Waits
<1>2. CASE i \in Log /\ Waits(pos, i)
  <2> DEFINE j == inverseOf[i]
  <2>1. j \in Log /\ pos[j] > pos[i] /\ dateApplied[j] = dateApplied[i] /\ j # i
        /\ \A q \in Log : dateApplied[q] = dateApplied[i] => q = i \/ q = j
      BY <1>2, WaitingShares DEF Waits
  <2>2. ord[i] < ord[p] /\ ord[j] < ord[i]
      BY <1>2, <2>1 DEF Agree
  <2>3. p # i /\ p # j
      BY <1>2, <2>1, <2>2 DEF Agree
  <2>4. dateApplied[j] <= dateApplied[p] /\ dateApplied[j] # dateApplied[p]
      BY <1>2, <2>1, <2>2, <2>3 DEF Agree
  <2>5. pos[j] < pos[p] /\ ~(pos[j] > pos[p])
      BY <2>1, <2>4 DEF Agree
  <2>6. ~Waits(pos, p)
      BY <1>2, WaitingShares
  <2>7. Route(pos, i)[1] = pos[j]
      BY <1>2 DEF Route
  <2>8. Route(pos, p) = <<pos[p]>>
      BY <2>6 DEF Route
  <2> QED
      BY <2>5, <2>7, <2>8
<1>3. CASE i \in Log /\ ~Waits(pos, i)
  <2>1. Route(pos, i) = <<pos[i]>> /\ Route(pos, i)[1] = pos[i]
      BY <1>3 DEF Route
  <2>2. Append(<<pos[i]>>, pos[p]) = <<pos[i], pos[p]>>
      BY <1>3, AppendOne DEF Agree
  <2>3. Waits(pos, p) <=> pos[i] > pos[p]
      BY <1>3 DEF Waits
  <2>4. Route(pos, p) = IF pos[i] > pos[p] THEN <<pos[i], pos[p]>> ELSE <<pos[p]>>
      BY <2>3 DEF Route
  <2> QED
      BY <1>3, <2>1, <2>2, <2>4
<1> QED
    BY <1>1, <1>2, <1>3

(* The log that is read from the records is the one meant here.            *)
LEMMA LogIsLog ==
    Records!Log = Log
BY DEF Records!Log, Log, Stored

(* Nothing else satisfies it: of two solutions, consider the patch that    *)
(* landed first among those they differ on.                                *)
LEMMA PathIsRoute ==
    ASSUME NEW ord, NEW pos, Agree(ord, pos)
    PROVE  \A p \in Log : Records!Path(pos)[p] = Route(pos, p)
<1> DEFINE Reached(f, p) == IF inverseOf[p] \in Records!Log /\ f[inverseOf[p]][1] > pos[p]
                         THEN Append(f[inverseOf[p]], pos[p])
                         ELSE <<pos[p]>>
           Solves(f) == f = [p \in Records!Log |-> Reached(f, p)]
           path == CHOOSE f : Solves(f)
<1>1. \E f : Solves(f)
  <2> DEFINE g == [p \in Log |-> Route(pos, p)]
  <2>1. \A p \in Log : Route(pos, p) = Reached(g, p)
      BY RouteStep, LogIsLog
  <2>2. g = [p \in Log |-> Reached(g, p)]
      BY <2>1
  <2> QED
      BY <2>2, LogIsLog
<1>2. Records!Path(pos) = path
    BY DEF Records!Path
<1>3. Solves(path)
  <2> HIDE DEF Solves
  <2> QED
    BY <1>1
<1>4. \A p \in Log : path[p] = Reached(path, p)
    BY <1>3, LogIsLog
<1> HIDE DEF path
<1>5. ASSUME NEW q \in Log, path[q] # Route(pos, q)
      PROVE  FALSE
  <2> DEFINE T == {ord[p] : p \in {p \in Log : path[p] # Route(pos, p)}}
  <2>1. T \subseteq Nat /\ T # {}
      BY <1>5 DEF Agree
  <2>2. PICK m \in T : \A k \in T : m <= k
      BY <2>1, LeastExists
  <2>3. PICK p \in Log : path[p] # Route(pos, p) /\ m = ord[p]
      BY <2>2
  <2>4. ASSUME inverseOf[p] \in Log
        PROVE  path[inverseOf[p]] = Route(pos, inverseOf[p])
    <3>1. ord[inverseOf[p]] < ord[p] /\ ord[inverseOf[p]] \in Nat /\ ord[p] \in Nat
        BY <2>4 DEF Agree
    <3>2. ord[inverseOf[p]] \notin T
        BY <2>2, <2>3, <3>1
    <3> QED
        BY <2>4, <3>2
  <2>5. path[p] = Route(pos, p)
      BY <1>4, <2>4, RouteStep, LogIsLog
  <2> QED
      BY <2>3, <2>5
<1> QED
    BY <1>2, <1>5

(* The first element of a sequence.                                        *)
LEMMA SubSeqOne ==
    ASSUME NEW t \in Seq(Nat), Len(t) >= 1
    PROVE  SubSeq(t, 1, 1) = <<t[1]>> /\ t[1] \in Nat
<1> DEFINE s == SubSeq(t, 1, 1)
           u == <<t[1]>>
<1>1. s \in Seq(Nat) /\ u \in Seq(Nat) /\ Len(s) = 1 /\ Len(u) = 1
    BY SubSeqProperties
<1>2. s[1] = t[1] /\ u[1] = t[1]
    OBVIOUS
<1> HIDE DEF s, u
<1>3. \A i \in 1 .. Len(s) : s[i] = u[i]
    BY <1>1, <1>2
<1>4. s = u
    BY <1>1, <1>3, SeqEqual
<1> QED
    BY <1>4 DEF s, u

(* Such sequences compare by their first positions; then the shorter is    *)
(* sooner, or the second positions decide.                                 *)
LEMMA SoonerShort ==
    ASSUME NEW s \in Seq(Nat), NEW t \in Seq(Nat), Len(s) \in {1, 2}, Len(t) \in {1, 2}
    PROVE  Sooner(s, t) <=>
              \/ s[1] < t[1]
              \/ s[1] = t[1] /\ Len(t) = 2 /\ (Len(s) = 1 \/ s[2] < t[2])
<1>1. SubSeq(s, 1, 1) = <<s[1]>> /\ SubSeq(t, 1, 1) = <<t[1]>> /\ s[1] \in Nat /\ t[1] \in Nat
    BY SubSeqOne
<1>2. SubSeq(s, 1, 0) = << >> /\ SubSeq(t, 1, 0) = << >>
    BY SubSeqEmpty
<1>3. <<s[1]>> = <<t[1]>> <=> s[1] = t[1]
    OBVIOUS
<1>4. Records!IsStrictPrefix(s, t) <=> Len(s) = 1 /\ Len(t) = 2 /\ s[1] = t[1]
  <2>1. SubSeq(s, 1, Len(s)) = s /\ SubSeq(t, 1, Len(t)) = t
      BY SubSeqFull
  <2>2. CASE Len(s) = 1 /\ Len(t) = 1
    <3>1. SubSeq(s, 1, Len(s)) = SubSeq(t, 1, Len(s)) => s = t
        BY <2>1, <2>2
    <3> QED
        BY <2>2, <3>1 DEF Records!IsStrictPrefix, Records!IsPrefix
  <2>3. CASE Len(s) = 1 /\ Len(t) = 2
    <3>1. SubSeq(s, 1, Len(s)) = SubSeq(t, 1, Len(s)) <=> s[1] = t[1]
        BY <1>1, <1>3, <2>3
    <3>2. s # t /\ Len(s) <= Len(t)
      <4>1. Len(s) # Len(t) /\ Len(s) <= Len(t)
          BY <2>3
      <4> QED
          BY <4>1
    <3> QED
        BY <2>3, <3>1, <3>2 DEF Records!IsStrictPrefix, Records!IsPrefix
  <2>4. CASE Len(s) = 2 /\ Len(t) = 1
    <3>1. ~(Len(s) <= Len(t))
        BY <2>4
    <3> QED
        BY <2>4, <3>1 DEF Records!IsStrictPrefix, Records!IsPrefix
  <2>5. CASE Len(s) = 2 /\ Len(t) = 2
    <3>1. SubSeq(s, 1, Len(s)) = SubSeq(t, 1, Len(s)) => s = t
        BY <2>1, <2>5
    <3> QED
        BY <2>5, <3>1 DEF Records!IsStrictPrefix, Records!IsPrefix
  <2> QED
      BY <2>2, <2>3, <2>4, <2>5
<1>5. DOMAIN s = 1 .. Len(s) /\ DOMAIN t = 1 .. Len(t)
    OBVIOUS
<1>6. (\E k \in DOMAIN s \cap DOMAIN t : SubSeq(s, 1, k - 1) = SubSeq(t, 1, k - 1) /\ s[k] < t[k])
         <=> \/ s[1] < t[1]
             \/ Len(s) = 2 /\ Len(t) = 2 /\ s[1] = t[1] /\ s[2] < t[2]
  <2>1. 1 \in DOMAIN s \cap DOMAIN t
      BY <1>5
  <2>2. Len(s) = 2 /\ Len(t) = 2 => 2 \in DOMAIN s \cap DOMAIN t
      BY <1>5
  <2>3. \A k \in DOMAIN s \cap DOMAIN t : k = 1 \/ (k = 2 /\ Len(s) = 2 /\ Len(t) = 2)
      BY <1>5
  <2>4. 1 - 1 = 0 /\ 2 - 1 = 1
      OBVIOUS
  <2>5. ASSUME NEW k \in DOMAIN s \cap DOMAIN t, SubSeq(s, 1, k - 1) = SubSeq(t, 1, k - 1), s[k] < t[k]
        PROVE  \/ s[1] < t[1]
               \/ Len(s) = 2 /\ Len(t) = 2 /\ s[1] = t[1] /\ s[2] < t[2]
    <3>1. CASE k = 1
        BY <2>5, <3>1
    <3>2. CASE k = 2 /\ Len(s) = 2 /\ Len(t) = 2
        BY <1>1, <1>3, <2>4, <2>5, <3>2
    <3> QED
        BY <2>3, <3>1, <3>2
  <2>6. s[1] < t[1] =>
           \E k \in DOMAIN s \cap DOMAIN t : SubSeq(s, 1, k - 1) = SubSeq(t, 1, k - 1) /\ s[k] < t[k]
      BY <1>2, <2>1, <2>4
  <2>7. ASSUME Len(s) = 2, Len(t) = 2, s[1] = t[1], s[2] < t[2]
        PROVE  \E k \in DOMAIN s \cap DOMAIN t : SubSeq(s, 1, k - 1) = SubSeq(t, 1, k - 1) /\ s[k] < t[k]
      BY <1>1, <2>2, <2>4, <2>7
  <2> QED
      BY <2>5, <2>6, <2>7
<1> QED
    BY <1>4, <1>6 DEF Sooner

(* Where the log puts one patch before another.                            *)
LEMMA BeforeMeans ==
    ASSUME NEW ord, NEW pos, Agree(ord, pos), NEW p \in Log, NEW q \in Log
    PROVE  Records!Before(Records!Path(pos), p, q) <=>
              p # q /\ (First(pos, p) < First(pos, q) \/ (Waits(pos, q) /\ inverseOf[q] = p))
<1> DEFINE s == Route(pos, p)
           t == Route(pos, q)
<1>1. Records!Before(Records!Path(pos), p, q) <=> Sooner(s, t)
    BY PathIsRoute DEF Records!Before, Sooner
<1>2. ASSUME NEW r \in Log
      PROVE  /\ Route(pos, r) \in Seq(Nat)
             /\ Len(Route(pos, r)) = IF Waits(pos, r) THEN 2 ELSE 1
             /\ Route(pos, r)[1] = First(pos, r) /\ First(pos, r) \in Nat
             /\ Waits(pos, r) => Route(pos, r)[2] = pos[r]
  <2>1. pos[r] \in Nat /\ (Waits(pos, r) => pos[inverseOf[r]] \in Nat)
      BY DEF Agree, Waits
  <2> QED
      BY <2>1 DEF Route, First
<1>3. Sooner(s, t) <=>
              \/ First(pos, p) < First(pos, q)
              \/ First(pos, p) = First(pos, q) /\ Waits(pos, q) /\ (~Waits(pos, p) \/ pos[p] < pos[q])
  <2>0. Len(s) = (IF Waits(pos, p) THEN 2 ELSE 1) /\ Len(t) = (IF Waits(pos, q) THEN 2 ELSE 1)
      BY <1>2
  <2>1. /\ Len(s) \in {1, 2} /\ Len(t) \in {1, 2}
        /\ Len(t) = 2 <=> Waits(pos, q)
        /\ Len(s) = 1 <=> ~Waits(pos, p)
    <3> HIDE DEF s, t
    <3> QED
      BY <2>0
  <2>2. s \in Seq(Nat) /\ t \in Seq(Nat) /\ s[1] = First(pos, p) /\ t[1] = First(pos, q)
        /\ (Waits(pos, p) => s[2] = pos[p]) /\ (Waits(pos, q) => t[2] = pos[q])
      BY <1>2
  <2>3. Sooner(s, t) <=>
              \/ s[1] < t[1]
              \/ s[1] = t[1] /\ Len(t) = 2 /\ (Len(s) = 1 \/ s[2] < t[2])
    <3> HIDE DEF s, t
    <3> QED
      BY <2>1, <2>2, SoonerShort
  <2> HIDE DEF s, t
  <2> QED
      BY <2>1, <2>2, <2>3
<1>4. CASE p = q
  <2>1. ~(First(pos, p) < First(pos, p)) /\ ~(pos[p] < pos[p])
      BY <1>2 DEF Agree
  <2> QED
      BY <1>1, <1>3, <1>4, <2>1
<1>5. CASE p # q
  <2>1. ASSUME First(pos, p) = First(pos, q), Waits(pos, q), ~Waits(pos, p) \/ pos[p] < pos[q]
        PROVE  inverseOf[q] = p
    <3>1. inverseOf[q] \in Log /\ First(pos, q) = pos[inverseOf[q]]
        BY <2>1 DEF Waits, First
    <3>2. CASE ~Waits(pos, p)
        BY <2>1, <3>1, <3>2 DEF First, Agree
    <3>3. CASE Waits(pos, p)
      <4>1. inverseOf[p] \in Log /\ pos[inverseOf[p]] = pos[inverseOf[q]]
          BY <2>1, <3>1, <3>3 DEF First, Waits
      <4>2. inverseOf[p] = inverseOf[q]
          BY <3>1, <4>1 DEF Agree
      <4>3. dateApplied[inverseOf[p]] = dateApplied[p] /\ dateApplied[inverseOf[q]] = dateApplied[q]
            /\ inverseOf[q] # q /\ inverseOf[p] # p
          BY <2>1, <3>3, WaitingShares
      <4> QED
          BY <1>5, <3>1, <4>2, <4>3 DEF Agree
    <3> QED
        BY <3>2, <3>3
  <2>2. ASSUME Waits(pos, q), inverseOf[q] = p
        PROVE  First(pos, p) = First(pos, q) /\ ~Waits(pos, p)
      BY <2>2, WaitingShares DEF First
  <2> QED
      BY <1>1, <1>3, <1>5, <2>1, <2>2
<1> QED
    BY <1>4, <1>5

(* Before is by time, never puts a revert before its target, and decides   *)
(* between any two patches.                                                *)
LEMMA BeforeOrders ==
    ASSUME NEW ord, NEW pos, Agree(ord, pos)
    PROVE  LET B(p, q) == Records!Before(Records!Path(pos), p, q) IN
           \A p, q \in Log :
             /\ dateApplied[p] < dateApplied[q] => B(p, q)
             /\ B(p, q) => p # q /\ dateApplied[p] <= dateApplied[q]
             /\ p # q /\ dateApplied[p] = dateApplied[q] => B(p, q) \/ B(q, p)
             /\ B(p, q) => ~(inverseOf[p] = q)
<1>1. ASSUME NEW p \in Log
      PROVE  /\ First(pos, p) \in Nat
             /\ \E i \in Log : First(pos, p) = pos[i] /\ dateApplied[i] = dateApplied[p]
                               /\ i = IF Waits(pos, p) THEN inverseOf[p] ELSE p
    BY WaitingShares DEF First, Waits, Agree
<1>2. ASSUME NEW p \in Log, NEW q \in Log, dateApplied[p] < dateApplied[q]
      PROVE  First(pos, p) < First(pos, q) /\ p # q
    BY <1>1, <1>2 DEF Agree
<1>3. ASSUME NEW p \in Log, NEW q \in Log, p # q,
             First(pos, p) < First(pos, q) \/ (Waits(pos, q) /\ inverseOf[q] = p)
      PROVE  dateApplied[p] <= dateApplied[q]
  <2>1. CASE Waits(pos, q) /\ inverseOf[q] = p
      BY <2>1, WaitingShares DEF Agree
  <2>2. CASE First(pos, p) < First(pos, q)
    <3>1. ~(First(pos, q) < First(pos, p))
        BY <1>1, <2>2
    <3> QED
        BY <1>2, <3>1 DEF Agree
  <2> QED
      BY <1>3, <2>1, <2>2
<1>4. ASSUME NEW p \in Log, NEW q \in Log, p # q, First(pos, p) = First(pos, q)
      PROVE  (Waits(pos, q) /\ inverseOf[q] = p) \/ (Waits(pos, p) /\ inverseOf[p] = q)
  <2>1. CASE Waits(pos, p) /\ Waits(pos, q)
    <3>1. inverseOf[p] \in Log /\ inverseOf[q] \in Log /\ inverseOf[p] = inverseOf[q]
        BY <1>4, <2>1 DEF First, Waits, Agree
    <3>2. dateApplied[inverseOf[p]] = dateApplied[p] /\ dateApplied[inverseOf[q]] = dateApplied[q]
            /\ inverseOf[q] # q /\ inverseOf[p] # p
        BY <2>1, WaitingShares
    <3> QED
        BY <1>4, <3>1, <3>2 DEF Agree
  <2>2. CASE ~Waits(pos, p) \/ ~Waits(pos, q)
      BY <1>4, <2>2 DEF First, Waits, Agree
  <2> QED
      BY <2>1, <2>2
<1>5. ASSUME NEW p \in Log, NEW q \in Log, p # q,
             First(pos, p) < First(pos, q) \/ (Waits(pos, q) /\ inverseOf[q] = p),
             inverseOf[p] = q
      PROVE  FALSE
  <2>1. ord[q] < ord[p] /\ dateApplied[q] <= dateApplied[p] /\ inverseOf[q] # p
      BY <1>5 DEF Agree
  <2>2. First(pos, p) < First(pos, q)
      BY <1>5, <2>1
  <2>3. dateApplied[p] = dateApplied[q]
      BY <1>3, <1>5, <2>1 DEF Agree
  <2>4. ~Waits(pos, q)
    <3>1. SUFFICES ASSUME Waits(pos, q)
                   PROVE  FALSE
        OBVIOUS
    <3>2. p = q \/ p = inverseOf[q]
        BY <2>3, <3>1, WaitingShares
    <3> QED
        BY <1>5, <2>1, <3>2
  <2>5. First(pos, q) = pos[q]
      BY <2>4 DEF First
  <2>6. pos[p] < pos[q] => Waits(pos, p)
      BY <1>5 DEF Waits, Agree
  <2>7. First(pos, p) = IF Waits(pos, p) THEN pos[q] ELSE pos[p]
      BY <1>5 DEF First
  <2> QED
      BY <2>2, <2>5, <2>6, <2>7 DEF Agree
<1>6. ASSUME NEW p \in Log, NEW q \in Log
      PROVE  First(pos, p) < First(pos, q) \/ First(pos, q) < First(pos, p) \/ First(pos, p) = First(pos, q)
    BY <1>1
<1> QED
    BY <1>2, <1>3, <1>4, <1>5, <1>6, BeforeMeans

-----------------------------------------------------------------------------
(***************************************************************************)
(* The log folds to the store.                                             *)
(***************************************************************************)

(* In a quiet state the log is what landed, and its keys and the chronicle *)
(* agree as far as dates go.                                               *)
LEMMA KeysAgree ==
    ASSUME TypeOK, Reverts, Quiet, Paired,
           NEW pos \in Records!KeyOrders,
           NEW ord \in [Calls -> Nat], NEW time \in [Calls -> Nat], NEW n \in Nat, Chronicle(ord, time, n)
    PROVE  Landed = Log /\ Agree(ord, pos)
<1>1. Log \subseteq Calls /\ Landed = Log
    BY DEF Quiet, Landed, Open, Log
<1>2. \A p \in Log : /\ ord[p] \in Nat /\ dateApplied[p] \in 1..MaxTime /\ dateApplied[p] \in Nat
                     /\ dateApplied[p] = time[p] /\ time[p] \in Nat
  <2>1. now \in 1..MaxTime /\ MaxTime \in Nat
      BY BoundAssumption DEF TypeOK
  <2>2. \A p \in Log : dateApplied[p] = time[p] /\ time[p] \in 1..now
      BY <1>1 DEF Chronicle
  <2> QED
      BY <1>1, <2>1, <2>2
<1>3. /\ \A p \in Log : pos[p] \in Nat
      /\ \A p, q \in Log : /\ pos[p] = pos[q] => p = q
                           /\ dateApplied[p] < dateApplied[q] => pos[p] < pos[q]
  <2>1. PICK last : pos \in [Log -> 1 .. last]
      BY LogIsLog DEF Records!KeyOrders
  <2>2. \A p \in Log : pos[p] \in Nat
      BY <2>1
  <2> QED
      BY <2>2, LogIsLog DEF Records!KeyOrders
<1>4. \A p, q \in Log : /\ ord[p] < ord[q] => dateApplied[p] <= dateApplied[q]
                        /\ ord[p] = ord[q] => p = q
    BY <1>1, <1>2 DEF Chronicle
<1>5. \A p \in Log : inverseOf[p] \in Log => ord[inverseOf[p]] < ord[p]
    BY <1>1 DEF Chronicle, Reverts
<1>6. ASSUME NEW p \in Log, NEW q \in Log, NEW r \in Log,
             dateApplied[p] = dateApplied[q], dateApplied[q] = dateApplied[r]
      PROVE  p = q \/ q = r \/ p = r
  <2> DEFINE S == {s \in Log : dateApplied[s] = dateApplied[p]}
  <2>1. Cardinality(S) <= 2
      BY <1>2, LogIsLog DEF Paired
  <2>2. IsFiniteSet(S)
      BY <1>1, CallsAssumption, FS_Subset
  <2>3. p \in S /\ q \in S /\ r \in S
      BY <1>6
  <2> HIDE DEF S
  <2> QED
      BY <2>1, <2>2, <2>3, NoThird
<1> QED
    BY <1>1, <1>2, <1>3, <1>4, <1>5, <1>6 DEF Agree

(* Where the log is not told to be a guess, it is as it landed, or does    *)
(* not matter.                                                             *)
LEMMA GuessesAreHarmless ==
    ASSUME NEW ord, NEW pos, Agree(ord, pos), ~Records!TiedTimestamp(Records!Path(pos)),
           NEW p \in Log, NEW q \in Log, Records!Before(Records!Path(pos), p, q),
           ord[q] < ord[p]
    PROVE  recorded[p] = recorded[q]
<1> DEFINE B(a, b) == Records!Before(Records!Path(pos), a, b)
<1>1. \A a, b \in Log : /\ B(a, b) => a # b /\ dateApplied[a] <= dateApplied[b]
    BY BeforeOrders
<1>2. dateApplied[p] = dateApplied[q]
    BY <1>1 DEF Agree
<1>3. inverseOf[q] # p
    BY DEF Agree
<1>4. \A r \in Log : ~(B(p, r) /\ B(r, q))
  <2>1. ASSUME NEW r \in Log, B(p, r), B(r, q)
        PROVE  FALSE
    <3>1. p # q /\ r # p /\ r # q /\ dateApplied[r] = dateApplied[p]
        BY <1>1, <1>2, <2>1 DEF Agree
    <3> QED
        BY <1>2, <3>1 DEF Agree
  <2> QED
      BY <2>1
<1> QED
    BY <1>2, <1>3, <1>4, LogIsLog DEF Records!TiedTimestamp

(* patchLog.ts: in every order the keys allow, the log folds to the graph  *)
(* the backend holds, when no call has landed and not recorded it, no two  *)
(* neighbours share a timestamp that may mislead, at most two patches share*)
(* one, and no step that "tainted" names was taken.                        *)
THEOREM LogFoldsBack ==
    Spec => []LogFoldsToStore
<1>1. ASSUME IInv, LogInv, Quiet, ~tainted, Paired, NEW pos \in Records!KeyOrders,
             ~Records!TiedTimestamp(Records!Path(pos))
      PROVE  Records!Fold(Records!Path(pos)) = store
  <2> DEFINE B(p, q) == Records!Before(Records!Path(pos), p, q)
  <2>1. PICK ord \in [Calls -> Nat], time \in [Calls -> Nat], n \in Nat : Chronicle(ord, time, n)
      BY <1>1 DEF LogInv, Chronicled
  <2>2. Landed = Log /\ Agree(ord, pos)
      BY <1>1, <2>1, KeysAgree DEF IInv
  <2>3. \A p \in Log : p \in Calls /\ Effect(p) = recorded[p] /\ ord[p] \in Nat
      BY DEF Log, Effect
  <2>4. ASSUME NEW p \in Log, NEW r \in Log, p # r
        PROVE  /\ B(p, r) /\ ~(ord[p] < ord[r]) => recorded[p] = recorded[r]
               /\ ord[p] < ord[r] /\ ~B(p, r) => recorded[p] = recorded[r]
    <3>1. ord[p] # ord[r] /\ ord[p] \in Nat /\ ord[r] \in Nat
        BY <2>2, <2>4 DEF Agree
    <3>2. CASE B(p, r) /\ ~(ord[p] < ord[r])
        BY <1>1, <2>2, <3>1, <3>2, GuessesAreHarmless
    <3>3. CASE ord[p] < ord[r] /\ ~B(p, r)
      <4>1. dateApplied[p] <= dateApplied[r] /\ dateApplied[p] \in Nat /\ dateApplied[r] \in Nat
          BY <2>2, <3>3 DEF Agree
      <4>2. B(r, p)
          BY <2>2, <2>4, <3>3, <4>1, BeforeOrders
      <4> QED
          BY <1>1, <2>2, <3>3, <4>2, GuessesAreHarmless
    <3> QED
        BY <3>2, <3>3
  <2>5. \A p \in Log : ~B(p, p) /\ ~(ord[p] < ord[p])
    <3>1. \A p \in Log : ~B(p, p)
        BY <2>2, BeforeOrders
    <3> QED
        BY <2>3, <3>1
  <2>6. \A p \in Log : /\ recorded[p].deletions \cap recorded[p].additions = {}
                       /\ recorded[p].additions \subseteq Quads
      BY <1>1, <2>3 DEF LogInv, Disjoint, IInv, TypeOK, Deltas, GraphStates
  <2>7. ASSUME NEW p \in Log, NEW x \in recorded[p].additions
        PROVE  (\A r \in Log : B(p, r) => x \notin recorded[r].deletions)
                  <=> (\A r \in Log : ord[p] < ord[r] => x \notin recorded[r].deletions)
    <3>1. ASSUME NEW r \in Log, x \in recorded[r].deletions
          PROVE  recorded[p] # recorded[r]
        BY <2>6, <2>7, <3>1
    <3>2. ASSUME NEW r \in Log, x \in recorded[r].deletions
          PROVE  B(p, r) <=> ord[p] < ord[r]
        BY <2>4, <2>5, <3>1, <3>2
    <3> HIDE DEF B
    <3> QED
        BY <3>2
  <2>8. \A x \in Quads : x \in store <=>
           \E p \in Log : /\ x \in recorded[p].additions
                          /\ \A r \in Log : ord[p] < ord[r] => x \notin recorded[r].deletions
      BY <2>1, <2>2, <2>3 DEF Chronicle
  <2>9. \A x : x \in Records!Fold(Records!Path(pos)) <=>
           \E p \in Log : /\ x \in recorded[p].additions
                          /\ \A r \in Log : B(p, r) => x \notin recorded[r].deletions
      BY LogIsLog DEF Records!Fold
  <2>10. store \subseteq Quads
      BY <1>1 DEF IInv, TypeOK, GraphStates
  <2> HIDE DEF B
  <2>11. \A x : x \in Records!Fold(Records!Path(pos)) <=> x \in store
      BY <2>6, <2>7, <2>8, <2>9, <2>10
  <2> QED
      BY <2>11
<1>2. IInv /\ LogInv => LogFoldsToStore
    BY <1>1 DEF LogFoldsToStore
<1> QED
    BY <1>2, Invariance, LogInvariance, PTL

=============================================================================
