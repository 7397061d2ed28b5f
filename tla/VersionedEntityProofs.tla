------------------------ MODULE VersionedEntityProofs ------------------------
(***************************************************************************)
(* The saves of one entity (VersionedEntity.tla): one at a time is past    *)
(* reading the highest number, and a number names one version, for any     *)
(* number of requests, failures and restarts.                              *)
(***************************************************************************)
EXTENDS VersionedEntity, FiniteSetTheorems, WellFoundedInduction, TLAPS

-----------------------------------------------------------------------------
(***************************************************************************)
(* The greatest of a bounded set, which is what CHOOSE names.              *)
(***************************************************************************)

LEMMA LeastExists ==
    ASSUME NEW T, T \subseteq Nat, T # {}
    PROVE  \E m \in T : \A k \in T : m <= k
<1> DEFINE R == OpToRel(<, Nat)
<1>1. PICK m \in T : \A k \in T : ~ (<<k, m>> \in R)
    BY NatLessThanWellFounded, WFMin
<1>2. \A k \in T : k < m => <<k, m>> \in R
    BY DEF OpToRel
<1> HIDE DEF R
<1>3. \A k \in T : ~(k < m)
    BY <1>1, <1>2
<1> QED
    BY <1>3

LEMMA GreatestExists ==
    ASSUME NEW n \in Nat, NEW S, S \subseteq 0 .. n, S # {}
    PROVE  \E x \in S : \A y \in S : y <= x
<1> DEFINE T == {n - x : x \in S}
<1>0. \A x \in S : n - x \in Nat
    OBVIOUS
<1>1. T \subseteq Nat /\ T # {}
    BY <1>0
<1>2. PICK m \in T : \A k \in T : m <= k
    BY <1>1, LeastExists
<1>3. PICK x \in S : m = n - x
    OBVIOUS
<1>4. \A y \in S : n - x <= n - y
    BY <1>2, <1>3
<1> QED
    BY <1>4

LEMMA MaxOfNumbers ==
    ASSUME NEW n \in Nat, NEW S, S \subseteq 0 .. n, S # {}
    PROVE  Max(S) \in S /\ \A y \in S : y <= Max(S)
<1>1. \E x \in S : \A y \in S : x >= y
  <2>1. PICK x \in S : \A y \in S : y <= x
      BY GreatestExists
  <2> QED
      BY <2>1
<1>2. Max(S) \in S /\ \A y \in S : Max(S) >= y
    BY <1>1 DEF Max
<1> QED
    BY <1>2

LEMMA NewestExists ==
    ASSUME NEW n \in Nat, NEW S, S # {}, \A v \in S : number[v] \in 0 .. n
    PROVE  Newest(S) \in S
<1> DEFINE T == {number[v] : v \in S}
<1>0. T \subseteq 0 .. n /\ T # {}
    OBVIOUS
<1>1. PICK x \in T : \A y \in T : y <= x
    BY <1>0, GreatestExists
<1>2. PICK v \in S : x = number[v]
    OBVIOUS
<1>3. \A u \in S : number[u] <= number[v]
    BY <1>1, <1>2
<1> QED
    BY <1>3 DEF Newest

LEMMA OldestExists ==
    ASSUME NEW S, S # {}, \A v \in S : number[v] \in Nat
    PROVE  Oldest(S) \in S
<1> DEFINE T == {number[v] : v \in S}
<1>0. T \subseteq Nat /\ T # {}
    OBVIOUS
<1>1. PICK x \in T : \A y \in T : x <= y
    BY <1>0, LeastExists
<1>2. PICK v \in S : x = number[v]
    OBVIOUS
<1>3. \A u \in S : number[v] <= number[u]
    BY <1>1, <1>2
<1> QED
    BY <1>3 DEF Oldest

LEMMA OldestIsKept ==
    ASSUME NEW S, NEW T, S = T, NEW f, NEW g, \A v \in S : f[v] = g[v]
    PROVE  (CHOOSE v \in S : \A u \in S : f[v] <= f[u]) = (CHOOSE v \in T : \A u \in T : g[v] <= g[u])
<1>1. \A v : (v \in S /\ \A u \in S : f[v] <= f[u]) <=> (v \in T /\ \A u \in T : g[v] <= g[u])
    OBVIOUS
<1> QED
    BY <1>1, Zenon

-----------------------------------------------------------------------------
(***************************************************************************)
(* The inductive invariant.  Saves are in line in the order they arrived:  *)
(* whoever runs has everything before it settled, whether it was waited    *)
(* for or not, because a run gives up the lock only while it is the last.  *)
(***************************************************************************)

Line ==
    /\ \A s \in Saves : pc[s] # "idle" => \A t \in 1 .. s - 1 : pc[t] # "idle"
    /\ tail # None => pc[tail] # "idle" /\ \A s \in Saves : s > tail => pc[s] = "idle"
    /\ tail = None => \A s \in Saves : pc[s] = "idle" \/ Settled(s)
    /\ \A s \in Saves : pred[s] # None => pred[s] = s - 1
    /\ \A s \in Saves : pc[s] = "waiting" /\ pred[s] = None => \A t \in 1 .. s - 1 : Settled(t)
    /\ \A s \in Saves : pc[s] \notin {"idle", "waiting"} => \A t \in 1 .. s - 1 : Settled(t)

\* Versions that may have reached the store, and those that were read from it.
Past == {s \in Saves : pc[s] \in {"inserted", "pointing", "pointed", "saved", "failed", "dead"}}

Known ==
    /\ stored \cup cached \subseteq Past
    /\ \A p \in Prunes : ppc[p] # "idle" => victim[p] \in Past
    /\ \A d \in Drops : owned[d] \subseteq Past

NumbersBelow == \A s \in Saves : number[s] <= s

\* With preload the cache shows what is stored, but for an insert under way.
Shown ==
    /\ \A p \in Prunes : ppc[p] = "deleted" => victim[p] \notin stored
    /\ \A d \in Drops : dpc[d] = "deleted" => owned[d] # {} /\ Oldest(owned[d]) \notin stored
    /\ preload /\ "insert" \notin lost => \A v \in stored : v \in cached \/ pc[v] = "inserted"

\* The number of a save that has just been stored, or is yet to be, is above all others.
Above ==
    ~(preload /\ "insert" \in lost) =>
        \A s \in Saves : pc[s] \in {"numbered", "inserting", "inserted"} =>
            \A v \in (stored \cup cached) \ {s} : number[v] < number[s]

IInv == TypeOK /\ Line /\ Known /\ NumbersBelow /\ Shown /\ Above /\ NumbersUnique

-----------------------------------------------------------------------------
(***************************************************************************)
(* The line.                                                               *)
(***************************************************************************)

LineTypes ==
    /\ pc \in [Saves -> {"idle", "waiting", "numbered", "inserting", "inserted", "pointing", "pointed",
                         "saved", "failed", "dead"}]
    /\ pred \in [Saves -> Saves \cup {None}] /\ tail \in Saves \cup {None}

\* A save that may run, or runs, is the first that has not settled, and those
\* behind it wait.
LEMMA RunnerIsFirst ==
    ASSUME LineTypes, Line, NEW s \in Saves, ~Settled(s), pc[s] # "idle",
           pc[s] = "waiting" => MayRun(s)
    PROVE  /\ \A t \in 1 .. s - 1 : Settled(t)
           /\ \A t \in Saves : t > s => pc[t] \in {"idle", "waiting"}
           /\ tail # None
<1>1. \A t \in 1 .. s - 1 : Settled(t)
  <2>1. CASE pc[s] = "waiting" /\ pred[s] # None
    <3>1. pred[s] = s - 1 /\ pred[s] \in Saves /\ Settled(s - 1)
        BY <2>1, EntityAssumption DEF LineTypes, Line, MayRun, None
    <3>2. \A t \in 1 .. (s - 1) - 1 : Settled(t)
        BY <3>1 DEF Line, Settled
    <3> QED
        BY <3>1, <3>2, EntityAssumption DEF Saves
  <2> QED
      BY <2>1 DEF Line
<1>2. \A t \in Saves : t > s => pc[t] \in {"idle", "waiting"}
    BY EntityAssumption DEF Line, Saves
<1> QED
    BY <1>1, <1>2 DEF Line

LEMMA Begins ==
    ASSUME LineTypes, Line, NEW s \in Saves, SaveBegin(s)
    PROVE  Line'
<1>1. pc[s] = "idle" /\ \A t \in 1 .. s - 1 : pc[t] # "idle"
    BY DEF SaveBegin
<1>2. /\ pc' = [pc EXCEPT ![s] = "waiting"]
      /\ pred' = [pred EXCEPT ![s] = tail]
      /\ tail' = s
    BY DEF SaveBegin, Enqueue
<1>3. \A t \in Saves : t > s => pc[t] = "idle"
    BY <1>1, EntityAssumption DEF Line, Saves
<1>4. tail # None => tail = s - 1
  <2> SUFFICES ASSUME tail # None
               PROVE  tail = s - 1
      OBVIOUS
  <2>1. tail \in Saves /\ pc[tail] # "idle" /\ \A t \in Saves : t > tail => pc[t] = "idle"
      BY DEF Line, LineTypes
  <2>2. tail < s
      BY <1>1, <1>3, <2>1, EntityAssumption DEF Saves
  <2>3. ~(tail < s - 1)
      BY <1>1, <2>1, <2>2, EntityAssumption DEF Saves
  <2> QED
      BY <2>1, <2>2, <2>3, EntityAssumption DEF Saves
<1>5. tail = None => \A t \in 1 .. s - 1 : Settled(t)
    BY <1>1, EntityAssumption DEF Line, Saves
<1>6. \A t \in Saves \ {s} : pc'[t] = pc[t] /\ pred'[t] = pred[t] /\ (Settled(t)' <=> Settled(t))
    BY <1>2 DEF LineTypes, Settled
<1>7. pc'[s] = "waiting" /\ pred'[s] = tail /\ s # None
    BY <1>2, EntityAssumption DEF LineTypes, Saves, None
<1>8. \A t \in Saves : pc'[t] # "idle" => \A u \in 1 .. t - 1 : pc'[u] # "idle"
    BY <1>1, <1>3, <1>6, <1>7, EntityAssumption DEF Line, Saves
<1>9. \A t \in Saves : t > s => pc'[t] = "idle"
    BY <1>3, <1>6, EntityAssumption DEF Saves
<1>10. \A t \in Saves : pred'[t] # None => pred'[t] = t - 1
    BY <1>4, <1>6, <1>7 DEF Line
<1>11. \A t \in Saves : pc'[t] = "waiting" /\ pred'[t] = None => \A u \in 1 .. t - 1 : Settled(u)'
  <2> SUFFICES ASSUME NEW t \in Saves, pc'[t] = "waiting", pred'[t] = None, NEW u \in 1 .. t - 1
               PROVE  Settled(u)'
      OBVIOUS
  <2>1. u \in Saves
      BY EntityAssumption DEF Saves
  <2>2. t <= s
      BY <1>9, EntityAssumption DEF Saves
  <2>3. u # s
      BY <2>2, EntityAssumption DEF Saves
  <2>4. Settled(u)
      BY <1>5, <1>6, <1>7 DEF Line
  <2> QED
      BY <1>6, <2>1, <2>3, <2>4
<1>12. \A t \in Saves : pc'[t] \notin {"idle", "waiting"} => \A u \in 1 .. t - 1 : Settled(u)'
  <2> SUFFICES ASSUME NEW t \in Saves, pc'[t] \notin {"idle", "waiting"}, NEW u \in 1 .. t - 1
               PROVE  Settled(u)'
      OBVIOUS
  <2>1. u \in Saves /\ t # s
      BY <1>7, EntityAssumption DEF Saves
  <2>2. t < s
      BY <1>9, <2>1, EntityAssumption DEF Saves
  <2>3. u # s
      BY <2>2, EntityAssumption DEF Saves
  <2>4. Settled(u)
      BY <1>6, <2>1 DEF Line
  <2> QED
      BY <1>6, <2>1, <2>3, <2>4
<1> QED
    BY <1>2, <1>7, <1>8, <1>9, <1>10, <1>11, <1>12 DEF Line

\* A run goes on, or it settles and gives up the lock if it still holds it.
LEMMA GoesOn ==
    ASSUME LineTypes, Line, NEW s \in Saves, ~Settled(s), pc[s] # "idle",
           pc[s] = "waiting" => MayRun(s),
           NEW x \in {"numbered", "inserting", "inserted", "pointing", "pointed", "saved", "failed"},
           pc' = [pc EXCEPT ![s] = x], pred' = pred,
           IF x \in {"saved", "failed"} THEN Release(s) ELSE tail' = tail
    PROVE  Line'
<1>1. /\ \A t \in 1 .. s - 1 : Settled(t)
      /\ \A t \in Saves : t > s => pc[t] \in {"idle", "waiting"}
      /\ tail # None
    BY RunnerIsFirst
<1>2. \A t \in Saves \ {s} : pc'[t] = pc[t] /\ (Settled(t)' <=> Settled(t))
    BY DEF LineTypes, Settled
<1>3. pc'[s] = x /\ x # "idle" /\ x # "waiting"
    BY DEF LineTypes
<1>4. tail \in Saves /\ pc[tail] # "idle" /\ \A t \in Saves : t > tail => pc[t] = "idle"
    BY <1>1 DEF Line, LineTypes
<1>5. \A t \in Saves : Settled(t) => Settled(t)'
    BY <1>2
<1>6. \A t \in Saves : pc'[t] # "idle" => \A u \in 1 .. t - 1 : pc'[u] # "idle"
  <2>1. \A t \in Saves : pc'[t] = "idle" <=> pc[t] = "idle"
      BY <1>2, <1>3
  <2>2. \A t \in Saves : \A u \in 1 .. t - 1 : u \in Saves
      BY EntityAssumption DEF Saves
  <2> QED
      BY <2>1, <2>2 DEF Line
<1>7. tail' # None => pc'[tail'] # "idle" /\ \A t \in Saves : t > tail' => pc'[t] = "idle"
    BY <1>2, <1>3, <1>4 DEF Release, Line
<1>8. tail' = None => \A t \in Saves : pc'[t] = "idle" \/ Settled(t)'
  <2> SUFFICES ASSUME tail' = None, NEW t \in Saves
               PROVE  pc'[t] = "idle" \/ Settled(t)'
      OBVIOUS
  <2>1. tail = s /\ x \in {"saved", "failed"}
      BY <1>1 DEF Release
  <2>2. CASE t < s
      BY <1>1, <1>5, <2>2, EntityAssumption DEF Saves
  <2>3. CASE t = s
      BY <1>3, <2>1, <2>3 DEF Settled
  <2>4. CASE t > s
      BY <1>2, <1>4, <2>1, <2>4
  <2> QED
      BY <2>2, <2>3, <2>4, EntityAssumption DEF Saves
<1>9. \A t \in Saves : \A u \in 1 .. t - 1 : u \in Saves
    BY EntityAssumption DEF Saves
<1>10. \A t \in Saves : pc'[t] = "waiting" /\ pred'[t] = None => \A u \in 1 .. t - 1 : Settled(u)'
    BY <1>2, <1>3, <1>5, <1>9 DEF Line
<1>11. \A t \in Saves : pc'[t] \notin {"idle", "waiting"} => \A u \in 1 .. t - 1 : Settled(u)'
    BY <1>1, <1>2, <1>3, <1>5, <1>9 DEF Line
<1> QED
    BY <1>6, <1>7, <1>8, <1>10, <1>11 DEF Line

LEMMA Dies ==
    ASSUME LineTypes, Line, Restart
    PROVE  Line'
<1>1. /\ pc' = [s \in Saves |-> IF pc[s] \in Ended THEN pc[s] ELSE "dead"]
      /\ tail' = None /\ pred' = pred
    BY DEF Restart
<1>2. \A s \in Saves : /\ pc'[s] = "idle" <=> pc[s] = "idle"
                       /\ pc'[s] # "idle" => Settled(s)'
                       /\ pc'[s] # "waiting"
    BY <1>1 DEF LineTypes, Settled, Ended
<1>3. \A t \in Saves : \A u \in 1 .. t - 1 : u \in Saves
    BY EntityAssumption DEF Saves
<1>4. \A t \in Saves : pc'[t] # "idle" => \A u \in 1 .. t - 1 : pc'[u] # "idle"
    BY <1>2, <1>3 DEF Line
<1> QED
    BY <1>1, <1>2, <1>3, <1>4 DEF Line

\* At most one save is past waiting and not settled.
LEMMA LineHasOneWriter ==
    ASSUME LineTypes, Line
    PROVE  OneWriter
<1> SUFFICES ASSUME NEW s \in Saves, NEW t \in Saves, s < t,
                    pc[s] \notin Ended \cup {"waiting"}, pc[t] \notin Ended \cup {"waiting"}
             PROVE  FALSE
    BY EntityAssumption DEF OneWriter, Saves
<1>1. Settled(s)
    BY EntityAssumption DEF Line, Ended, Saves
<1> QED
    BY <1>1 DEF Settled, Ended

LEMMA LineUnchanged ==
    ASSUME Line, UNCHANGED <<pc, pred, tail>>
    PROVE  Line'
BY DEF Line, Settled

LEMMA SaveKeepsLine ==
    ASSUME LineTypes, Line, NEW s \in Saves, SaveStep(s) \/ SaveFails(s)
    PROVE  Line'
<1> DEFINE Values == {"numbered", "inserting", "inserted", "pointing", "pointed", "saved", "failed"}
<1>1. ~Settled(s) /\ pc[s] # "idle" /\ (pc[s] = "waiting" => MayRun(s))
    BY DEF SaveStep, SaveNumber, SaveParts, SaveInserted, SaveCached, SavePointed, SaveEnds, SaveFails, Settled
<1>2. \E x \in Values : /\ pc' = [pc EXCEPT ![s] = x]
                        /\ IF x \in {"saved", "failed"} THEN Release(s) ELSE tail' = tail
  <2>1. CASE SaveNumber(s)
      BY <2>1 DEF SaveNumber
  <2>2. CASE SaveParts(s)
      BY <2>2 DEF SaveParts
  <2>3. CASE SaveInserted(s)
      BY <2>3 DEF SaveInserted
  <2>4. CASE SaveCached(s)
      BY <2>4 DEF SaveCached
  <2>5. CASE SavePointed(s)
      BY <2>5 DEF SavePointed
  <2>6. CASE SaveEnds(s)
      BY <2>6 DEF SaveEnds
  <2>7. CASE SaveFails(s)
      BY <2>7 DEF SaveFails
  <2> QED
      BY <2>1, <2>2, <2>3, <2>4, <2>5, <2>6, <2>7 DEF SaveStep
<1>3. pred' = pred
    BY DEF SaveStep, SaveNumber, SaveParts, SaveInserted, SaveCached, SavePointed, SaveEnds, SaveFails
<1> QED
    BY <1>1, <1>2, <1>3, GoesOn

\* What the other requests leave alone.
LEMMA OthersKeepSaves ==
    ASSUME \/ \E p \in Prunes : PruneStep(p)
           \/ \E m \in Moves : MoveStep(m)
           \/ \E d \in Drops : DropStep(d)
    PROVE  UNCHANGED <<preload, saves, number, output, restarts>>
<1>1. ASSUME NEW p \in Prunes, PruneStep(p)
      PROVE  UNCHANGED <<preload, saves, number, output, restarts>>
    BY <1>1 DEF PruneStep, PruneBegin, PruneDeleted, PruneUncached, PrunePointed, PruneEnds, PruneFails,
           versions, saves, bounds
<1>2. ASSUME NEW m \in Moves, MoveStep(m)
      PROVE  UNCHANGED <<preload, saves, number, output, restarts>>
    BY <1>2 DEF MoveStep, MoveBegin, MovePointed, MoveEnds, versions, saves, bounds
<1>3. ASSUME NEW d \in Drops, DropStep(d)
      PROVE  UNCHANGED <<preload, saves, number, output, restarts>>
    BY <1>3 DEF DropStep, DropBegin, DropVersion, DropUncached, DropParent, DropEnds, versions, saves, bounds
<1> QED
    BY <1>1, <1>2, <1>3

LEMMA LineStep ==
    ASSUME LineTypes, Line, Next
    PROVE  Line'
<1>1. ASSUME NEW s \in Saves, SaveBegin(s)
      PROVE  Line'
    BY <1>1, Begins
<1>2. ASSUME NEW s \in Saves, SaveStep(s) \/ SaveFails(s)
      PROVE  Line'
    BY <1>2, SaveKeepsLine
<1>3. CASE Restart
    BY <1>3, Dies
<1>4. CASE \/ \E p \in Prunes : PruneStep(p)
           \/ \E m \in Moves : MoveStep(m)
           \/ \E d \in Drops : DropStep(d)
    BY <1>4, OthersKeepSaves, LineUnchanged DEF saves
<1> QED
    BY <1>1, <1>2, <1>3, <1>4 DEF Next

-----------------------------------------------------------------------------
(***************************************************************************)
(* Types.                                                                  *)
(***************************************************************************)

\* A save that is to read the highest number finds no version of its own or of a
\* save behind it.
LEMMA HighestIsBelow ==
    ASSUME TypeOK, Line, Known, NumbersBelow, NEW s \in Saves, pc[s] = "waiting", MayRun(s)
    PROVE  /\ HighestVersion \in 0 .. s - 1
           /\ \A v \in cached : number[v] <= HighestVersion
           /\ ~preload => \A v \in stored : number[v] <= HighestVersion
<1> DEFINE V == IF preload THEN cached ELSE cached \cup stored
<1> DEFINE S == Numbers(V) \cup {0}
<1>1. LineTypes /\ ~Settled(s)
    BY DEF TypeOK, LineTypes, Settled
<1>2. \A v \in V : v \in Saves /\ v < s
    BY <1>1, RunnerIsFirst, EntityAssumption DEF Known, Past, Saves
<1>3. \A v \in V : number[v] \in 0 .. s - 1
    BY <1>2, EntityAssumption DEF NumbersBelow, TypeOK, Saves
<1>4. s - 1 \in Nat /\ S \subseteq 0 .. s - 1 /\ S # {}
    BY <1>3, EntityAssumption DEF Numbers, Saves
<1>5. Max(S) \in S /\ \A y \in S : y <= Max(S)
    BY <1>4, MaxOfNumbers
<1>6. HighestVersion = Max(S)
    BY DEF HighestVersion
<1> HIDE DEF S
<1>7. HighestVersion \in 0 .. s - 1 /\ \A y \in S : y <= HighestVersion
    BY <1>4, <1>5, <1>6
<1>8. \A v \in V : number[v] \in S
    BY DEF S, Numbers
<1> QED
    BY <1>7, <1>8

LEMMA TypesBegin ==
    ASSUME TypeOK, NEW s \in Saves, SaveBegin(s)
    PROVE  TypeOK'
BY EntityAssumption DEF TypeOK, SaveBegin, SaveArrives, Enqueue, versions, parent, prunes, moves, drops, bounds

LEMMA TypesNumber ==
    ASSUME TypeOK, Line, Known, NumbersBelow, NEW s \in Saves, SaveNumber(s)
    PROVE  TypeOK'
<1>1. HighestVersion + 1 \in 0 .. MaxSaves
    BY HighestIsBelow, EntityAssumption DEF SaveNumber, Saves
<1> QED
    BY <1>1 DEF TypeOK, SaveNumber, parent, prunes, moves, drops, bounds, history

LEMMA TypesSave ==
    ASSUME TypeOK, NEW s \in Saves,
           \/ SaveParts(s) \/ SaveInserted(s) \/ SaveCached(s) \/ SavePointed(s) \/ SaveEnds(s) \/ SaveFails(s)
    PROVE  TypeOK'
<1> USE DEF parent, prunes, moves, drops, bounds, history, versions
<1>1. CASE SaveParts(s)
    BY <1>1 DEF TypeOK, SaveParts, Reusable
<1>2. CASE SaveInserted(s)
    BY <1>2 DEF TypeOK, SaveInserted
<1>3. CASE SaveCached(s)
    BY <1>3 DEF TypeOK, SaveCached, Release
<1>4. CASE SavePointed(s)
    BY <1>4 DEF TypeOK, SavePointed, Release
<1>5. CASE SaveEnds(s)
    BY <1>5 DEF TypeOK, SaveEnds, Release
<1>6. CASE SaveFails(s)
  <2>1. failures' \in 0 .. MaxFailures
      BY <1>6, EntityAssumption DEF TypeOK, SaveFails
  <2>2. stored' \subseteq Saves /\ storedPtr' \in Saves \cup {None} /\ lost' \subseteq {"insert", "pointer"}
      BY <1>6 DEF TypeOK, SaveFails
  <2>3. tail' \in Saves \cup {None}
      BY <1>6 DEF TypeOK, SaveFails, Release
  <2> QED
      BY <1>6, <2>1, <2>2, <2>3 DEF TypeOK, SaveFails
<1> QED
    BY <1>1, <1>2, <1>3, <1>4, <1>5, <1>6

LEMMA TypesPrune ==
    ASSUME TypeOK, NEW p \in Prunes, PruneStep(p)
    PROVE  TypeOK'
<1> USE DEF parent, saves, moves, drops, bounds, history, versions
<1>1. CASE PruneBegin(p)
    BY <1>1 DEF TypeOK, PruneBegin, OtherArrives
<1>2. CASE PruneDeleted(p)
    BY <1>2 DEF TypeOK, PruneDeleted
<1>3. CASE PruneUncached(p)
  <2>1. Newest(cached') \in Saves \cup {None}
    <3>1. cached' \subseteq Saves /\ \A v \in cached' : number[v] \in 0 .. MaxSaves
        BY <1>3 DEF PruneUncached, TypeOK
    <3>2. cached' # {} => Newest(cached') \in cached'
        BY <3>1, NewestExists, EntityAssumption
    <3> QED
        BY <3>1, <3>2 DEF Newest
  <2> QED
      BY <1>3, <2>1 DEF TypeOK, PruneUncached
<1>4. CASE PrunePointed(p)
    BY <1>4 DEF TypeOK, PrunePointed
<1>5. CASE PruneEnds(p)
    BY <1>5 DEF TypeOK, PruneEnds
<1>6. CASE PruneFails(p)
    BY <1>6, EntityAssumption DEF TypeOK, PruneFails
<1> QED
    BY <1>1, <1>2, <1>3, <1>4, <1>5, <1>6 DEF PruneStep

LEMMA TypesMove ==
    ASSUME TypeOK, NEW m \in Moves, MoveStep(m)
    PROVE  TypeOK'
<1> USE DEF parent, saves, prunes, drops, bounds, history, versions
<1>1. CASE MoveBegin(m)
    BY <1>1 DEF TypeOK, MoveBegin, OtherArrives
<1>2. CASE MovePointed(m)
    BY <1>2 DEF TypeOK, MovePointed
<1>3. CASE MoveEnds(m)
    BY <1>3 DEF TypeOK, MoveEnds
<1> QED
    BY <1>1, <1>2, <1>3 DEF MoveStep

LEMMA TypesDrop ==
    ASSUME TypeOK, NEW d \in Drops, DropStep(d)
    PROVE  TypeOK'
<1> USE DEF parent, saves, prunes, moves, bounds, history, versions
<1>1. CASE DropBegin(d)
    BY <1>1 DEF TypeOK, DropBegin, OtherArrives
<1>2. CASE DropVersion(d)
    BY <1>2 DEF TypeOK, DropVersion
<1>3. CASE DropUncached(d)
    BY <1>3 DEF TypeOK, DropUncached
<1>4. CASE DropParent(d)
    BY <1>4 DEF TypeOK, DropParent
<1>5. CASE DropEnds(d)
    BY <1>5 DEF TypeOK, DropEnds
<1> QED
    BY <1>1, <1>2, <1>3, <1>4, <1>5 DEF DropStep

LEMMA TypesRestart ==
    ASSUME TypeOK, Restart
    PROVE  TypeOK'
BY EntityAssumption DEF TypeOK, Restart, Ended, PruneRuns, DropRuns

LEMMA TypesStep ==
    ASSUME TypeOK, Line, Known, NumbersBelow, Next
    PROVE  TypeOK'
BY TypesBegin, TypesNumber, TypesSave, TypesPrune, TypesMove, TypesDrop, TypesRestart
   DEF Next, SaveStep

-----------------------------------------------------------------------------
(***************************************************************************)
(* Versions and their numbers.                                             *)
(***************************************************************************)

\* A save that may have reached the store keeps its number, and stays one.
LEMMA PastIsKept ==
    ASSUME TypeOK, Next, NEW v \in Past
    PROVE  v \in Past' /\ number'[v] = number[v]
<1>1. v \in Saves /\ pc[v] \notin {"idle", "waiting", "numbered", "inserting"}
    BY DEF Past
<1>2. ASSUME NEW s \in Saves, SaveBegin(s)
      PROVE  v \in Past' /\ number' = number
    BY <1>1, <1>2 DEF SaveBegin, TypeOK, Past, versions
<1>3. ASSUME NEW s \in Saves, SaveNumber(s)
      PROVE  v \in Past' /\ number'[v] = number[v]
    BY <1>1, <1>3 DEF SaveNumber, TypeOK, Past
<1>4. ASSUME NEW s \in Saves,
             \/ SaveParts(s) \/ SaveInserted(s) \/ SaveCached(s) \/ SavePointed(s) \/ SaveEnds(s) \/ SaveFails(s)
      PROVE  v \in Past' /\ number' = number
    BY <1>1, <1>4 DEF SaveParts, SaveInserted, SaveCached, SavePointed, SaveEnds, SaveFails, TypeOK, Past, versions
<1>5. CASE Restart
    BY <1>1, <1>5 DEF Restart, TypeOK, Past, Ended
<1>6. CASE \/ \E p \in Prunes : PruneStep(p)
           \/ \E m \in Moves : MoveStep(m)
           \/ \E d \in Drops : DropStep(d)
    BY <1>1, <1>6, OthersKeepSaves DEF Past, saves
<1> QED
    BY <1>2, <1>3, <1>4, <1>5, <1>6 DEF Next, SaveStep

\* The other requests only take versions away.
LEMMA OthersOnlyDelete ==
    ASSUME \/ \E p \in Prunes : PruneStep(p)
           \/ \E m \in Moves : MoveStep(m)
           \/ \E d \in Drops : DropStep(d)
    PROVE  stored' \subseteq stored /\ cached' \subseteq cached /\ lost' = lost
<1>1. ASSUME NEW p \in Prunes, PruneStep(p)
      PROVE  stored' \subseteq stored /\ cached' \subseteq cached /\ lost' = lost
    BY <1>1 DEF PruneStep, PruneBegin, PruneDeleted, PruneUncached, PrunePointed, PruneEnds, PruneFails,
           versions, history
<1>2. ASSUME NEW m \in Moves, MoveStep(m)
      PROVE  stored' \subseteq stored /\ cached' \subseteq cached /\ lost' = lost
    BY <1>2 DEF MoveStep, MoveBegin, MovePointed, MoveEnds, versions, history
<1>3. ASSUME NEW d \in Drops, DropStep(d)
      PROVE  stored' \subseteq stored /\ cached' \subseteq cached /\ lost' = lost
    BY <1>3 DEF DropStep, DropBegin, DropVersion, DropUncached, DropParent, DropEnds, versions, history
<1> QED
    BY <1>1, <1>2, <1>3

\* A version that is new in the store or in the cache is the save's that runs.
LEMMA OnlyTheRunnerAdds ==
    ASSUME TypeOK, Known, Next, NEW v \in stored' \cup cached', v \notin stored \cup cached
    PROVE  /\ pc[v] \in {"inserting", "inserted"} /\ v \in Past'
           /\ number' = number /\ pc' = [pc EXCEPT ![v] = pc'[v]]
           /\ "insert" \in lost' \/ lost' = lost
<1>1. CASE Restart
    BY <1>1 DEF Restart
<1>2. CASE \E s \in Saves : SaveBegin(s) \/ SaveNumber(s) \/ SaveParts(s) \/ SavePointed(s) \/ SaveEnds(s)
    BY <1>2 DEF SaveBegin, SaveNumber, SaveParts, SavePointed, SaveEnds, versions
<1>3. ASSUME NEW s \in Saves, SaveInserted(s) \/ SaveCached(s) \/ SaveFails(s)
      PROVE  v = s
    BY <1>3 DEF SaveInserted, SaveCached, SaveFails
<1>4. ASSUME NEW s \in Saves, SaveInserted(s) \/ SaveCached(s) \/ SaveFails(s), v = s
      PROVE  /\ pc[v] \in {"inserting", "inserted"} /\ v \in Past'
             /\ number' = number /\ pc' = [pc EXCEPT ![v] = pc'[v]]
             /\ "insert" \in lost' \/ lost' = lost
    BY <1>4 DEF SaveInserted, SaveCached, SaveFails, TypeOK, Past, history
<1>5. CASE \/ \E p \in Prunes : PruneStep(p)
           \/ \E m \in Moves : MoveStep(m)
           \/ \E d \in Drops : DropStep(d)
    BY <1>5, OthersOnlyDelete
<1> QED
    BY <1>1, <1>2, <1>3, <1>4, <1>5 DEF Next, SaveStep

LEMMA KnownStep ==
    ASSUME TypeOK, Known, Next
    PROVE  Known'
<1>1. stored' \cup cached' \subseteq Past'
    BY OnlyTheRunnerAdds, PastIsKept DEF Known
<1>2. ASSUME NEW p \in Prunes, ppc'[p] # "idle"
      PROVE  victim'[p] \in Past'
  <2>1. CASE \E q \in Prunes : PruneStep(q)
    <3>1. PICK q \in Prunes : PruneStep(q)
        BY <2>1
    <3>2. victim'[p] \in cached \/ (ppc[p] # "idle" /\ victim'[p] = victim[p])
      <4>1. CASE PruneBegin(q)
          BY <1>2, <4>1 DEF PruneBegin, TypeOK
      <4>2. CASE PruneDeleted(q) \/ PruneUncached(q)
          BY <1>2, <4>2 DEF PruneDeleted, PruneUncached, TypeOK
      <4>3. CASE PrunePointed(q) \/ PruneEnds(q) \/ PruneFails(q)
          BY <1>2, <4>3 DEF PrunePointed, PruneEnds, PruneFails, TypeOK
      <4> QED
          BY <3>1, <4>1, <4>2, <4>3 DEF PruneStep
    <3> QED
        BY <3>2, PastIsKept DEF Known
  <2>2. CASE Restart
    <3>1. ppc[p] # "idle" /\ victim' = victim
        BY <1>2, <2>2 DEF Restart, TypeOK, Ended
    <3> QED
        BY <3>1, PastIsKept DEF Known
  <2>3. CASE \/ \E s \in Saves : SaveBegin(s) \/ SaveStep(s) \/ SaveFails(s)
             \/ \E m \in Moves : MoveStep(m)
             \/ \E d \in Drops : DropStep(d)
    <3>1. UNCHANGED <<ppc, victim>>
        BY <2>3 DEF SaveBegin, SaveStep, SaveNumber, SaveParts, SaveInserted, SaveCached, SavePointed, SaveEnds,
               SaveFails, MoveStep, MoveBegin, MovePointed, MoveEnds, DropStep, DropBegin, DropVersion,
               DropUncached, DropParent, DropEnds, prunes
    <3> QED
        BY <1>2, <3>1, PastIsKept DEF Known
  <2> QED
      BY <2>1, <2>2, <2>3 DEF Next
<1>3. ASSUME NEW d \in Drops
      PROVE  owned'[d] \subseteq Past'
  <2>1. owned'[d] \subseteq owned[d] \cup cached
    <3>1. CASE \E e \in Drops : DropStep(e)
        BY <3>1 DEF DropStep, DropBegin, DropVersion, DropUncached, DropParent, DropEnds, TypeOK
    <3>2. CASE \/ \E s \in Saves : SaveBegin(s) \/ SaveStep(s) \/ SaveFails(s)
               \/ \E p \in Prunes : PruneStep(p)
               \/ \E m \in Moves : MoveStep(m)
               \/ Restart
      <4>1. owned' = owned
          BY <3>2 DEF SaveBegin, SaveStep, SaveNumber, SaveParts, SaveInserted, SaveCached, SavePointed, SaveEnds,
                 SaveFails, MoveStep, MoveBegin, MovePointed, MoveEnds, PruneStep, PruneBegin, PruneDeleted,
                 PruneUncached, PrunePointed, PruneEnds, PruneFails, Restart, drops
      <4> QED
          BY <4>1
    <3> QED
        BY <3>1, <3>2 DEF Next
  <2> QED
      BY <2>1, PastIsKept DEF Known
<1> QED
    BY <1>1, <1>2, <1>3 DEF Known

LEMMA NumbersBelowStep ==
    ASSUME TypeOK, Line, Known, NumbersBelow, Next
    PROVE  NumbersBelow'
<1>1. ASSUME NEW s \in Saves, SaveNumber(s)
      PROVE  NumbersBelow'
  <2>1. HighestVersion \in 0 .. s - 1 /\ number' = [number EXCEPT ![s] = HighestVersion + 1]
      BY <1>1, HighestIsBelow DEF SaveNumber
  <2> QED
      BY <2>1, EntityAssumption DEF NumbersBelow, TypeOK, Saves
<1>2. CASE \/ Restart
           \/ \E s \in Saves : \/ SaveBegin(s) \/ SaveParts(s) \/ SaveInserted(s) \/ SaveCached(s)
                               \/ SavePointed(s) \/ SaveEnds(s) \/ SaveFails(s)
  <2>1. number' = number
      BY <1>2 DEF Restart, SaveBegin, SaveParts, SaveInserted, SaveCached, SavePointed, SaveEnds, SaveFails, versions
  <2> QED
      BY <2>1 DEF NumbersBelow
<1>3. CASE \/ \E p \in Prunes : PruneStep(p)
           \/ \E m \in Moves : MoveStep(m)
           \/ \E d \in Drops : DropStep(d)
    BY <1>3, OthersKeepSaves DEF NumbersBelow
<1> QED
    BY <1>1, <1>2, <1>3 DEF Next, SaveStep

\* A version that was stored, or read, is not stored again.
LEMMA NotStoredAgain ==
    ASSUME Next, NEW v \in Past, v \notin stored
    PROVE  v \notin stored'
<1>1. pc[v] # "inserting"
    BY DEF Past
<1>2. CASE Restart
    BY <1>2 DEF Restart
<1>3. ASSUME NEW s \in Saves, SaveBegin(s) \/ SaveStep(s) \/ SaveFails(s)
      PROVE  v \notin stored'
    BY <1>1, <1>3 DEF SaveBegin, SaveStep, SaveNumber, SaveParts, SaveInserted, SaveCached, SavePointed, SaveEnds,
           SaveFails, versions
<1>4. CASE \/ \E p \in Prunes : PruneStep(p)
           \/ \E m \in Moves : MoveStep(m)
           \/ \E d \in Drops : DropStep(d)
    BY <1>4, OthersOnlyDelete
<1> QED
    BY <1>2, <1>3, <1>4 DEF Next

\* The version a DROP deletes next is the same while it is deleting it.
LEMMA OldestStays ==
    ASSUME TypeOK, Known, Next, NEW d \in Drops
    PROVE  Oldest(owned[d])' = IF owned'[d] = owned[d] THEN Oldest(owned[d]) ELSE Oldest(owned[d])'
<1> SUFFICES ASSUME owned'[d] = owned[d]
             PROVE  Oldest(owned[d])' = Oldest(owned[d])
    OBVIOUS
<1>1. \A v \in owned[d] : number[v] = number'[v]
    BY PastIsKept DEF Known
<1>2. (CHOOSE v \in owned[d] : \A u \in owned[d] : number[v] <= number[u])
          = (CHOOSE v \in owned'[d] : \A u \in owned'[d] : number'[v] <= number'[u])
    BY <1>1, OldestIsKept
<1> QED
    BY <1>2, Zenon DEF Oldest

LEMMA ShownStep ==
    ASSUME TypeOK, Line, Known, Shown, Next
    PROVE  Shown'
<1>1. ASSUME NEW p \in Prunes, ppc'[p] = "deleted"
      PROVE  victim'[p] \notin stored'
  <2>1. CASE ppc[p] = "deleted" /\ victim'[p] = victim[p]
      BY <2>1, NotStoredAgain DEF Shown, Known
  <2>2. CASE PruneDeleted(p)
      BY <2>2 DEF PruneDeleted
  <2>3. PruneDeleted(p) \/ (ppc[p] = "deleted" /\ victim'[p] = victim[p])
    <3>1. ASSUME NEW q \in Prunes, PruneBegin(q)
          PROVE  ppc[p] = "deleted" /\ victim'[p] = victim[p]
        BY <1>1, <3>1 DEF PruneBegin, TypeOK
    <3>2. ASSUME NEW q \in Prunes,
                 PruneDeleted(q) \/ PruneUncached(q) \/ PrunePointed(q) \/ PruneEnds(q) \/ PruneFails(q)
          PROVE  PruneDeleted(p) \/ (ppc[p] = "deleted" /\ victim'[p] = victim[p])
        BY <1>1, <3>2 DEF PruneDeleted, PruneUncached, PrunePointed, PruneEnds, PruneFails, TypeOK
    <3>3. CASE Restart
        BY <1>1, <3>3 DEF Restart, TypeOK, Ended
    <3>4. CASE \/ \E s \in Saves : SaveBegin(s) \/ SaveStep(s) \/ SaveFails(s)
               \/ \E m \in Moves : MoveStep(m)
               \/ \E d \in Drops : DropStep(d)
      <4>1. UNCHANGED <<ppc, victim>>
          BY <3>4 DEF SaveBegin, SaveStep, SaveNumber, SaveParts, SaveInserted, SaveCached, SavePointed, SaveEnds,
                 SaveFails, MoveStep, MoveBegin, MovePointed, MoveEnds, DropStep, DropBegin, DropVersion,
                 DropUncached, DropParent, DropEnds, prunes
      <4> QED
          BY <1>1, <4>1
    <3> QED
        BY <3>1, <3>2, <3>3, <3>4 DEF Next, PruneStep
  <2> QED
      BY <2>1, <2>2, <2>3
<1>2. ASSUME NEW d \in Drops, dpc'[d] = "deleted"
      PROVE  owned'[d] # {} /\ Oldest(owned[d])' \notin stored'
  <2>1. CASE dpc[d] = "deleted" /\ owned'[d] = owned[d]
    <3>1. Oldest(owned[d]) \in Past /\ Oldest(owned[d]) \notin stored /\ owned[d] # {}
      <4>1. owned[d] # {} /\ \A v \in owned[d] : number[v] \in Nat
          BY <2>1 DEF Shown, TypeOK
      <4>2. Oldest(owned[d]) \in owned[d]
          BY <4>1, OldestExists
      <4> QED
          BY <2>1, <4>1, <4>2 DEF Shown, Known
    <3>2. Oldest(owned[d])' = Oldest(owned[d])
        BY <2>1, OldestStays
    <3> QED
        BY <2>1, <3>1, <3>2, NotStoredAgain
  <2>2. CASE DropVersion(d)
    <3>1. owned' = owned /\ owned[d] # {} /\ Oldest(owned[d]) \notin stored'
        BY <2>2 DEF DropVersion
    <3>2. Oldest(owned[d])' = Oldest(owned[d])
        BY <3>1, OldestStays
    <3> QED
        BY <3>1, <3>2
  <2>3. DropVersion(d) \/ (dpc[d] = "deleted" /\ owned'[d] = owned[d])
    <3>1. ASSUME NEW e \in Drops, DropBegin(e)
          PROVE  dpc[d] = "deleted" /\ owned'[d] = owned[d]
        BY <1>2, <3>1 DEF DropBegin, TypeOK
    <3>2. ASSUME NEW e \in Drops, DropVersion(e) \/ DropUncached(e) \/ DropParent(e) \/ DropEnds(e)
          PROVE  DropVersion(d) \/ (dpc[d] = "deleted" /\ owned'[d] = owned[d])
        BY <1>2, <3>2 DEF DropVersion, DropUncached, DropParent, DropEnds, TypeOK
    <3>3. CASE Restart
        BY <1>2, <3>3 DEF Restart, TypeOK, Ended
    <3>4. CASE \/ \E s \in Saves : SaveBegin(s) \/ SaveStep(s) \/ SaveFails(s)
               \/ \E m \in Moves : MoveStep(m)
               \/ \E p \in Prunes : PruneStep(p)
      <4>1. UNCHANGED <<dpc, owned>>
          BY <3>4 DEF SaveBegin, SaveStep, SaveNumber, SaveParts, SaveInserted, SaveCached, SavePointed, SaveEnds,
                 SaveFails, MoveStep, MoveBegin, MovePointed, MoveEnds, PruneStep, PruneBegin, PruneDeleted,
                 PruneUncached, PrunePointed, PruneEnds, PruneFails, drops
      <4> QED
          BY <1>2, <4>1
    <3> QED
        BY <3>1, <3>2, <3>3, <3>4 DEF Next, DropStep
  <2> QED
      BY <2>1, <2>2, <2>3
<1>3. ASSUME preload', "insert" \notin lost', NEW v \in stored'
      PROVE  v \in cached' \/ pc'[v] = "inserted"
  <2>1. CASE v \notin stored
    <3>1. ASSUME NEW s \in Saves, SaveInserted(s) \/ SaveFails(s)
          PROVE  pc'[v] = "inserted"
      <4>1. CASE SaveInserted(s)
          BY <1>3, <2>1, <4>1 DEF SaveInserted, TypeOK
      <4>2. CASE SaveFails(s)
          BY <1>3, <2>1, <4>2 DEF SaveFails
      <4> QED
          BY <3>1, <4>1, <4>2
    <3>2. CASE \E s \in Saves : \/ SaveBegin(s) \/ SaveNumber(s) \/ SaveParts(s) \/ SaveCached(s)
                                \/ SavePointed(s) \/ SaveEnds(s)
        BY <1>3, <2>1, <3>2 DEF SaveBegin, SaveNumber, SaveParts, SaveCached, SavePointed, SaveEnds, versions
    <3>3. CASE Restart
        BY <1>3, <2>1, <3>3 DEF Restart
    <3> QED
        BY <1>3, <2>1, <3>1, <3>2, <3>3, OthersOnlyDelete DEF Next, SaveStep
  <2>2. CASE v \in stored
    <3>1. v \in Saves /\ preload
        BY <2>2, <1>3 DEF TypeOK, Next, SaveBegin, SaveStep, SaveNumber, SaveParts, SaveInserted, SaveCached, SavePointed, SaveEnds,
                 SaveFails, MoveStep, MoveBegin, MovePointed, MoveEnds, PruneStep, PruneBegin, PruneDeleted,
                 PruneUncached, PrunePointed, PruneEnds, PruneFails, DropStep, DropBegin, DropVersion,
                 DropUncached, DropParent, DropEnds, Restart
    <3>2. CASE Restart
        BY <2>2, <3>1, <3>2 DEF Restart
    <3>3. ASSUME NEW s \in Saves, SaveBegin(s) \/ SaveStep(s) \/ SaveFails(s)
          PROVE  v \in cached' \/ pc'[v] = "inserted"
      <4>1. "insert" \notin lost
          BY <1>3, <3>3 DEF SaveBegin, SaveStep, SaveNumber, SaveParts, SaveInserted, SaveCached, SavePointed,
                 SaveEnds, SaveFails, history
      <4>2. v \in cached \/ pc[v] = "inserted"
          BY <2>2, <3>1, <4>1 DEF Shown
      <4>3. cached \subseteq cached'
          BY <3>3 DEF SaveBegin, SaveStep, SaveNumber, SaveParts, SaveInserted, SaveCached, SavePointed,
                 SaveEnds, SaveFails, versions
      <4>4. pc[v] = "inserted" => pc'[v] = "inserted" \/ v \in cached'
          BY <3>1, <3>3 DEF SaveBegin, SaveStep, SaveNumber, SaveParts, SaveInserted, SaveCached, SavePointed,
                 SaveEnds, SaveFails, TypeOK
      <4> QED
          BY <4>2, <4>3, <4>4
    <3>4. CASE \/ \E p \in Prunes : PruneStep(p)
               \/ \E m \in Moves : MoveStep(m)
               \/ \E d \in Drops : DropStep(d)
      <4>1. v \in cached \/ pc[v] = "inserted"
          BY <1>3, <2>2, <3>1, <3>4, OthersOnlyDelete DEF Shown
      <4>2. pc' = pc
          BY <3>4, OthersKeepSaves DEF saves
      <4>3. v \in cached => v \in cached'
        <5>1. ASSUME NEW p \in Prunes, PruneUncached(p)
              PROVE  v \in cached => v \in cached'
            BY <2>2, <5>1 DEF PruneUncached, Shown
        <5>2. ASSUME NEW d \in Drops, DropUncached(d)
              PROVE  v \in cached => v \in cached'
            BY <2>2, <5>2 DEF DropUncached, Shown
        <5>3. CASE \/ \E p \in Prunes : \/ PruneBegin(p) \/ PruneDeleted(p) \/ PrunePointed(p)
                                        \/ PruneEnds(p) \/ PruneFails(p)
                   \/ \E m \in Moves : MoveStep(m)
                   \/ \E d \in Drops : DropBegin(d) \/ DropVersion(d) \/ DropParent(d) \/ DropEnds(d)
            BY <5>3 DEF PruneBegin, PruneDeleted, PrunePointed, PruneEnds, PruneFails, MoveStep, MoveBegin,
                   MovePointed, MoveEnds, DropBegin, DropVersion, DropParent, DropEnds, versions
        <5> QED
            BY <3>4, <5>1, <5>2, <5>3 DEF PruneStep, DropStep
      <4> QED
          BY <4>1, <4>2, <4>3
    <3> QED
        BY <3>2, <3>3, <3>4 DEF Next
  <2> QED
      BY <2>1, <2>2
<1> QED
    BY <1>1, <1>2, <1>3 DEF Shown

\* What a save that has its number, but is not known to be in the cache, is above.
LEMMA AboveStep ==
    ASSUME TypeOK, Line, Known, NumbersBelow, Shown, Above, Next
    PROVE  Above'
<1> SUFFICES ASSUME ~(preload' /\ "insert" \in lost'),
                    NEW s \in Saves, pc'[s] \in {"numbered", "inserting", "inserted"},
                    NEW v \in (stored' \cup cached') \ {s}
             PROVE  number'[v] < number'[s]
    BY DEF Above
<1>0. preload' = preload /\ lost \subseteq lost'
    BY DEF Next, SaveBegin, SaveStep, SaveNumber, SaveParts, SaveInserted, SaveCached, SavePointed, SaveEnds,
           SaveFails, MoveStep, MoveBegin, MovePointed, MoveEnds, PruneStep, PruneBegin, PruneDeleted,
           PruneUncached, PrunePointed, PruneEnds, PruneFails, DropStep, DropBegin, DropVersion,
           DropUncached, DropParent, DropEnds, Restart, history
<1>1. ~Restart
    BY DEF Restart, Ended
<1>2. v \in stored \cup cached
  <2>1. SUFFICES ASSUME v \notin stored \cup cached
                 PROVE  FALSE
      OBVIOUS
  <2>2. pc[v] \in {"inserting", "inserted"} /\ v \in Past' /\ pc' = [pc EXCEPT ![v] = pc'[v]]
      BY <2>1, OnlyTheRunnerAdds
  <2>3. v \in Saves /\ v # s /\ pc[s] \in {"numbered", "inserting", "inserted"}
      BY <2>2 DEF Past, TypeOK
  <2>4. OneWriter
      BY LineHasOneWriter DEF TypeOK, LineTypes
  <2> QED
      BY <2>2, <2>3, <2>4 DEF OneWriter, Ended
<1>3. v \in Past /\ number'[v] = number[v]
    BY <1>2, PastIsKept DEF Known
<1>4. CASE SaveNumber(s)
  <2>1. pc[s] = "waiting" /\ MayRun(s) /\ number'[s] = HighestVersion + 1
      BY <1>4 DEF SaveNumber, TypeOK
  <2>2. v \in cached \/ ~preload
    <3>1. SUFFICES ASSUME preload, v \notin cached
                   PROVE  FALSE
        OBVIOUS
    <3>2. pc[v] = "inserted"
        BY <1>0, <1>2, <3>1 DEF Shown
    <3>3. ~Settled(s) /\ LineTypes /\ v \in Saves
        BY <1>3, <2>1 DEF Settled, TypeOK, LineTypes, Past
    <3>4. \A t \in 1 .. s - 1 : Settled(t)
        BY <2>1, <3>3, RunnerIsFirst
    <3>5. \A t \in Saves : t > s => pc[t] \in {"idle", "waiting"}
        BY <2>1, <3>3, RunnerIsFirst
    <3> QED
        BY <3>2, <3>3, <3>4, <3>5, EntityAssumption DEF Settled, Saves
  <2>3. number[v] <= HighestVersion /\ HighestVersion \in Nat /\ number[v] \in Nat
    <3>1. HighestVersion \in 0 .. s - 1 /\ number[v] <= HighestVersion
        BY <1>2, <2>1, <2>2, HighestIsBelow
    <3>2. number[v] \in Nat /\ s \in Int
        BY <1>3, EntityAssumption DEF TypeOK, Past, Saves
    <3> QED
        BY <3>1, <3>2
  <2> QED
      BY <1>3, <2>1, <2>3
<1>5. CASE ~SaveNumber(s)
  <2>1. pc[s] \in {"numbered", "inserting", "inserted"} /\ number'[s] = number[s]
    <3>1. ASSUME NEW t \in Saves, SaveBegin(t)
          PROVE  pc[s] \in {"numbered", "inserting", "inserted"} /\ number'[s] = number[s]
        BY <3>1 DEF SaveBegin, TypeOK, versions
    <3>2. ASSUME NEW t \in Saves, SaveNumber(t)
          PROVE  pc[s] \in {"numbered", "inserting", "inserted"} /\ number'[s] = number[s]
        BY <1>5, <3>2 DEF SaveNumber, TypeOK
    <3>3. ASSUME NEW t \in Saves,
                 \/ SaveParts(t) \/ SaveInserted(t) \/ SaveCached(t) \/ SavePointed(t) \/ SaveEnds(t) \/ SaveFails(t)
          PROVE  pc[s] \in {"numbered", "inserting", "inserted"} /\ number'[s] = number[s]
        BY <3>3 DEF SaveParts, SaveInserted, SaveCached, SavePointed, SaveEnds, SaveFails, TypeOK, versions
    <3> QED
        BY <1>1, <3>1, <3>2, <3>3, OthersKeepSaves DEF Next, SaveStep, saves
  <2> QED
      BY <1>0, <1>2, <1>3, <2>1 DEF Above
<1> QED
    BY <1>4, <1>5

LEMMA NumbersUniqueStep ==
    ASSUME TypeOK, Line, Known, NumbersBelow, Above, NumbersUnique, Next
    PROVE  NumbersUnique'
<1> SUFFICES ASSUME ~(preload' /\ "insert" \in lost'),
                    NEW u \in stored' \cup cached', NEW v \in stored' \cup cached', number'[u] = number'[v]
             PROVE  u = v
    BY DEF NumbersUnique
<1>0. preload' = preload /\ lost \subseteq lost'
    BY DEF Next, SaveBegin, SaveStep, SaveNumber, SaveParts, SaveInserted, SaveCached, SavePointed, SaveEnds,
           SaveFails, MoveStep, MoveBegin, MovePointed, MoveEnds, PruneStep, PruneBegin, PruneDeleted,
           PruneUncached, PrunePointed, PruneEnds, PruneFails, DropStep, DropBegin, DropVersion,
           DropUncached, DropParent, DropEnds, Restart, history
<1>1. ASSUME NEW a \in stored' \cup cached', a \notin stored \cup cached
      PROVE  \A b \in (stored' \cup cached') \ {a} : b \in stored \cup cached /\ number'[b] < number'[a]
  <2>1. pc[a] \in {"inserting", "inserted"} /\ a \in Saves /\ number' = number
      BY <1>1, OnlyTheRunnerAdds DEF Past
  <2>2. OneWriter
      BY LineHasOneWriter DEF TypeOK, LineTypes
  <2>3. ASSUME NEW b \in (stored' \cup cached') \ {a}
        PROVE  b \in stored \cup cached
    <3>1. SUFFICES ASSUME b \notin stored \cup cached
                   PROVE  FALSE
        OBVIOUS
    <3>2. pc[b] \in {"inserting", "inserted"} /\ b \in Saves
        BY <3>1, OnlyTheRunnerAdds DEF Past
    <3> QED
        BY <2>1, <2>2, <3>2 DEF OneWriter, Ended
  <2> QED
      BY <1>0, <2>1, <2>3 DEF Above
<1>2. \A a \in stored' \cup cached' : number'[a] \in Nat
  <2>1. Known' /\ TypeOK'
      BY KnownStep, TypesStep
  <2> QED
      BY <2>1 DEF Known, TypeOK, Past
<1>3. CASE u \notin stored \cup cached
    BY <1>1, <1>2, <1>3
<1>4. CASE v \notin stored \cup cached
    BY <1>1, <1>2, <1>4
<1>5. CASE u \in stored \cup cached /\ v \in stored \cup cached
  <2>1. number[u] = number[v]
      BY <1>5, PastIsKept DEF Known
  <2> QED
      BY <1>0, <1>5, <2>1 DEF NumbersUnique
<1> QED
    BY <1>3, <1>4, <1>5

-----------------------------------------------------------------------------
(***************************************************************************)
(* The theorems.                                                           *)
(***************************************************************************)

LEMMA InvInit ==
    ASSUME Init
    PROVE  IInv
<1>1. TypeOK
  <2>1. /\ number \in [Saves -> 0 .. MaxSaves]
        /\ failures \in 0 .. MaxFailures /\ restarts \in 0 .. MaxRestarts
      BY EntityAssumption DEF Init
  <2>2. /\ preload \in Preloads
        /\ stored \subseteq Saves /\ cached \subseteq Saves /\ tuples \subseteq Saves
        /\ owned \in [Drops -> SUBSET Saves]
        /\ lost \subseteq {"insert", "pointer"} /\ marred \in BOOLEAN
        /\ parentStored \in BOOLEAN /\ parentCached \in BOOLEAN
      BY DEF Init
  <2> QED
      BY <2>1, <2>2 DEF Init, TypeOK
<1>2. Line /\ Known /\ NumbersBelow /\ Shown /\ Above /\ NumbersUnique
    BY EntityAssumption DEF Init, Line, Known, NumbersBelow, Shown, Above, NumbersUnique, Past, Saves
<1> QED
    BY <1>1, <1>2 DEF IInv

LEMMA InvStep ==
    ASSUME IInv, [Next]_vars
    PROVE  IInv'
<1>1. CASE Next
  <2>1. LineTypes
      BY DEF IInv, TypeOK, LineTypes
  <2> QED
      BY <1>1, <2>1, TypesStep, LineStep, KnownStep, NumbersBelowStep, ShownStep, AboveStep, NumbersUniqueStep DEF IInv
<1>2. CASE UNCHANGED vars
  <2>1. UNCHANGED <<preload, stored, cached, number, output, tuples, parentStored, parentCached, storedPtr, cachedPtr,
                    pc, pred, tail, ppc, victim, seenPtr, fallback, mpc, goal, dpc, owned, failures, restarts,
                    lost, marred>>
      BY <1>2 DEF vars, versions, parent, saves, prunes, moves, drops, bounds, history
  <2>2. TypeOK' /\ Line'
      BY <2>1, LineUnchanged DEF IInv, TypeOK
  <2>3. Known' /\ NumbersBelow' /\ Above' /\ NumbersUnique'
      BY <2>1 DEF IInv, Known, NumbersBelow, Above, NumbersUnique, Past
  <2>4. Shown'
      BY <2>1 DEF IInv, Shown, Oldest
  <2> QED
      BY <2>2, <2>3, <2>4 DEF IInv
<1> QED
    BY <1>1, <1>2

\* The invariant holds in every state of every behaviour.
THEOREM Invariance == Spec => []IInv
<1>1. Init => IInv
    BY InvInit
<1>2. IInv /\ [Next]_vars => IInv'
    BY InvStep
<1> QED
    BY <1>1, <1>2, PTL DEF Spec

\* Every variable keeps its range; no save gets a number above its place in line.
THEOREM TypeCorrect == Spec => []TypeOK
<1>1. IInv => TypeOK
    BY DEF IInv
<1> QED
    BY <1>1, Invariance, PTL

\* At most one save of the entity is between reading the highest number and
\* settling, whatever fails and however often the process restarts
\* (versionNumbering.ts:9-11).
THEOREM SavesRunOneByOne == Spec => []OneWriter
<1>1. IInv => OneWriter
    BY LineHasOneWriter DEF IInv, TypeOK, LineTypes
<1> QED
    BY <1>1, Invariance, PTL

\* No two versions that exist, in the store or in the cache, have one number,
\* unless an insert landed that was reported failed and the numbers are read in
\* the cache alone (allocateVersion).
THEOREM NumbersNameVersions == Spec => []NumbersUnique
<1>1. IInv => NumbersUnique
    BY DEF IInv
<1> QED
    BY <1>1, Invariance, PTL

-----------------------------------------------------------------------------
(***************************************************************************)
(* Failures, and the pointer where versions are only saved.                *)
(***************************************************************************)

FailedSaves == {s \in Saves : pc[s] = "failed"}

\* Until somebody deletes the entity, only a call of the store fails a save.
Failing ==
    (\A d \in Drops : dpc[d] = "idle") => parentStored /\ Cardinality(FailedSaves) <= failures

\* What was saved stays where the next number is read ...
Kept ==
    NobodyElseWrites =>
        /\ \A s \in Saves : pc[s] \in {"inserted", "pointing", "pointed", "saved"} => s \in stored
        /\ \A s \in Saves : preload /\ pc[s] \in {"pointing", "pointed", "saved"} => s \in cached

\* ... so whoever is to write the pointer has a number above those answered ...
Ahead ==
    NobodyElseWrites =>
        \A s, t \in Saves :
            pc[s] = "saved" /\ pc[t] \in {"numbered", "inserting", "inserted", "pointing", "pointed"}
              => number[s] <= number[t]

\* ... and only saves have written it.
Written ==
    NobodyElseWrites =>
        /\ storedPtr # None => storedPtr \in Past
        /\ cachedPtr # None => cachedPtr \in Past
        /\ \A t \in Saves : pc[t] = "pointed" => storedPtr = t

-----------------------------------------------------------------------------
(***************************************************************************)
(* The pointer where one request that is not a save runs at a time.        *)
(***************************************************************************)

\* What "marred" means: such a request has had the entity for itself.
Alone ==
    ~marred =>
        /\ SaveRuns => ~PruneRuns /\ ~MoveRuns /\ ~DropRuns
        /\ MoveRuns => ~PruneRuns /\ ~DropRuns
        /\ PruneRuns => ~DropRuns
        /\ \A p, q \in Prunes : ppc[p] \notin Ended /\ ppc[q] \notin Ended => p = q
        /\ \A m, n \in Moves : mpc[m] \notin Ended /\ mpc[n] \notin Ended => m = n
        /\ \A d, e \in Drops : dpc[d] \notin Ended /\ dpc[e] \notin Ended => d = e

\* An entity that is gone, or not loaded, is written by nobody.
Gone ==
    /\ \A d \in Drops : dpc[d] \in {"dropped", "done"} => ~parentStored
    /\ ~marred /\ ~parentCached => Quiet
    /\ ~marred /\ ~parentStored => ~SaveRuns /\ ~PruneRuns /\ ~MoveRuns /\ (DropRuns \/ ~parentCached)

\* Store and cache hold the same versions, but for the one that is written.
Level ==
    ~marred /\ lost = {} /\ parentStored =>
        /\ parentCached => \A v \in stored : v \in cached \/ pc[v] = "inserted"
        /\ \A v \in cached : v \in stored \/ DropRuns \/ \E p \in Prunes : ppc[p] = "deleted" /\ victim[p] = v
        /\ \A s \in Saves : pc[s] \in {"inserted", "pointing", "pointed"} => s \in stored
        /\ \A m \in Moves : mpc[m] \in {"pointing", "pointed"} => goal[m] \in stored

\* Store and cache point at the same version, but for whoever moves the pointer.
PointersAgree ==
    ~marred /\ lost = {} /\ parentStored =>
        /\ \A s \in Saves : pc[s] = "pointed" => storedPtr = s
        /\ \A m \in Moves : mpc[m] = "pointed" => storedPtr = goal[m]
        /\ \A p \in Prunes : ppc[p] = "pointed" => storedPtr = fallback[p]
        /\ \/ ~parentCached
           \/ \E s \in Saves : pc[s] = "pointed"
           \/ \E m \in Moves : mpc[m] = "pointed"
           \/ \E p \in Prunes : ppc[p] = "pointed"
           \/ cachedPtr = storedPtr
        /\ \A p \in Prunes : ppc[p] \in {"deleting", "deleted", "pointing"} => seenPtr[p] = cachedPtr

\* The pointer dangles only while the request that deleted its version, and saw
\* it there, is yet to move it to the newest that is left.
Dangles ==
    ~marred /\ lost = {} /\ parentStored =>
        /\ \/ storedPtr \in stored \cup {None} \/ DropRuns
           \/ \E p \in Prunes : ppc[p] \in {"deleted", "pointing"} /\ storedPtr = victim[p]
        /\ \A p \in Prunes : ppc[p] \in {"pointing", "pointed"} =>
             /\ fallback[p] \in stored \cup {None}
             /\ \A v \in stored : fallback[p] # None /\ number[v] <= number[fallback[p]]

Pointers ==
    /\ Failing /\ Kept /\ Ahead /\ Written /\ NewestIsCurrent
    /\ Alone /\ Gone /\ Level /\ PointersAgree /\ Dangles

LEMMA FailedIsFinite ==
    IsFiniteSet(FailedSaves) /\ Cardinality(FailedSaves) \in Nat
<1>1. IsFiniteSet(Saves)
    BY EntityAssumption, FS_Interval DEF Saves
<1> QED
    BY <1>1, FS_Subset, FS_CardinalityType DEF FailedSaves

\* A save fails with a call, or because the entity is gone.
LEMMA FailingStep ==
    ASSUME TypeOK, Failing,
           [Next]_vars
    PROVE  Failing'
<1>1. CASE UNCHANGED <<pc, dpc, parentStored, failures>>
    BY <1>1 DEF Failing, FailedSaves
<1>2. CASE UNCHANGED vars
    BY <1>2, <1>1 DEF parent, saves, drops, bounds, vars
<1>3. ASSUME NEW p \in Prunes,
             \/ PruneBegin(p) \/ PruneDeleted(p) \/ PruneUncached(p)
             \/ PrunePointed(p) \/ PruneEnds(p)
      PROVE  Failing'
    BY <1>3, <1>1
       DEF PruneBegin, PruneDeleted, PruneUncached, PrunePointed, PruneEnds, parent, saves, drops,
           bounds
<1>4. ASSUME NEW m \in Moves, MoveBegin(m) \/ MovePointed(m) \/ MoveEnds(m)
      PROVE  Failing'
    BY <1>4, <1>1 DEF MoveBegin, MovePointed, MoveEnds, parent, saves, drops, bounds
<1>5. ASSUME NEW s \in Saves, SaveBegin(s)
      PROVE  Failing'
  <2>1. UNCHANGED <<parentStored, dpc, failures>>
      BY <1>5 DEF SaveBegin, parent, drops, bounds
  <2>2. FailedSaves' = FailedSaves
      BY <1>5 DEF SaveBegin, FailedSaves, TypeOK
  <2> QED
      BY <2>1, <2>2 DEF Failing
<1>6. ASSUME NEW s \in Saves, SaveNumber(s)
      PROVE  Failing'
  <2>1. UNCHANGED <<parentStored, dpc, failures>>
      BY <1>6 DEF SaveNumber, parent, drops, bounds
  <2>2. FailedSaves' = FailedSaves
      BY <1>6 DEF SaveNumber, FailedSaves, TypeOK
  <2> QED
      BY <2>1, <2>2 DEF Failing
<1>7. ASSUME NEW s \in Saves, SaveParts(s)
      PROVE  Failing'
  <2>1. UNCHANGED <<parentStored, dpc, failures>>
      BY <1>7 DEF SaveParts, parent, drops, bounds
  <2>2. FailedSaves' = FailedSaves
      BY <1>7 DEF SaveParts, FailedSaves, TypeOK
  <2> QED
      BY <2>1, <2>2 DEF Failing
<1>8. ASSUME NEW s \in Saves, SaveInserted(s)
      PROVE  Failing'
  <2>1. UNCHANGED <<parentStored, dpc, failures>>
      BY <1>8 DEF SaveInserted, parent, drops, bounds
  <2>2. FailedSaves' = FailedSaves
      BY <1>8 DEF SaveInserted, FailedSaves, TypeOK
  <2> QED
      BY <2>1, <2>2 DEF Failing
<1>9. ASSUME NEW s \in Saves, SaveCached(s)
      PROVE  Failing'
  <2>1. UNCHANGED <<parentStored, dpc, failures>>
      BY <1>9 DEF SaveCached, parent, drops, bounds
  <2>2. parentStored => FailedSaves' = FailedSaves
      BY <1>9 DEF SaveCached, FailedSaves, TypeOK
  <2> QED
      BY <2>1, <2>2 DEF Failing
<1>10. ASSUME NEW s \in Saves, SavePointed(s)
      PROVE  Failing'
  <2>1. UNCHANGED <<parentStored, dpc, failures>>
      BY <1>10 DEF SavePointed, drops, bounds
  <2>2. parentStored => FailedSaves' = FailedSaves
      BY <1>10 DEF SavePointed, FailedSaves, TypeOK
  <2> QED
      BY <2>1, <2>2 DEF Failing
<1>11. ASSUME NEW s \in Saves, SaveEnds(s)
      PROVE  Failing'
  <2>1. UNCHANGED <<parentStored, dpc, failures>>
      BY <1>11 DEF SaveEnds, drops, bounds
  <2>2. FailedSaves' = FailedSaves
      BY <1>11 DEF SaveEnds, FailedSaves, TypeOK
  <2> QED
      BY <2>1, <2>2 DEF Failing
<1>12. ASSUME NEW s \in Saves, SaveFails(s)
      PROVE  Failing'
  <2>1. /\ failures' = failures + 1 /\ pc' = [pc EXCEPT ![s] = "failed"]
        /\ UNCHANGED <<parentStored, dpc>> /\ failures \in Nat
      BY <1>12, EntityAssumption DEF SaveFails, drops, TypeOK
  <2>2. FailedSaves' = FailedSaves \cup {s}
      BY <2>1 DEF FailedSaves, TypeOK
  <2>3. Cardinality(FailedSaves') = Cardinality(FailedSaves) + 1
    <3>1. s \notin FailedSaves
        BY <1>12 DEF SaveFails, FailedSaves
    <3> QED
        BY <2>2, <3>1, FailedIsFinite, FS_AddElement
  <2> QED
      BY <2>1, <2>3, FailedIsFinite DEF Failing
<1>13. ASSUME NEW p \in Prunes, PruneFails(p)
      PROVE  Failing'
  <2>1. UNCHANGED <<parentStored, dpc, pc>> /\ failures' = failures + 1 /\ failures \in Nat
      BY <1>13, EntityAssumption DEF PruneFails, parent, saves, drops, TypeOK
  <2>2. FailedSaves' = FailedSaves
      BY <2>1 DEF FailedSaves
  <2> QED
      BY <2>1, <2>2, FailedIsFinite DEF Failing
<1>14. ASSUME NEW d \in Drops, DropBegin(d)
      PROVE  Failing'
  <2>1. dpc' = [dpc EXCEPT ![d] = dpc'[d]] /\ dpc'[d] # "idle"
      BY <1>14 DEF DropBegin, TypeOK
  <2> QED
      BY <2>1 DEF Failing, TypeOK
<1>15. ASSUME NEW d \in Drops, DropVersion(d)
      PROVE  Failing'
  <2>1. dpc' = [dpc EXCEPT ![d] = dpc'[d]] /\ dpc'[d] # "idle"
      BY <1>15 DEF DropVersion, TypeOK
  <2> QED
      BY <2>1 DEF Failing, TypeOK
<1>16. ASSUME NEW d \in Drops, DropUncached(d)
      PROVE  Failing'
  <2>1. dpc' = [dpc EXCEPT ![d] = dpc'[d]] /\ dpc'[d] # "idle"
      BY <1>16 DEF DropUncached, TypeOK
  <2> QED
      BY <2>1 DEF Failing, TypeOK
<1>17. ASSUME NEW d \in Drops, DropParent(d)
      PROVE  Failing'
  <2>1. dpc' = [dpc EXCEPT ![d] = dpc'[d]] /\ dpc'[d] # "idle"
      BY <1>17 DEF DropParent, TypeOK
  <2> QED
      BY <2>1 DEF Failing, TypeOK
<1>18. ASSUME NEW d \in Drops, DropEnds(d)
      PROVE  Failing'
  <2>1. dpc' = [dpc EXCEPT ![d] = dpc'[d]] /\ dpc'[d] # "idle"
      BY <1>18 DEF DropEnds, TypeOK
  <2> QED
      BY <2>1 DEF Failing, TypeOK
<1>19. CASE Restart
  <2>1. UNCHANGED <<parentStored, failures>>
      BY <1>19 DEF Restart
  <2>2. FailedSaves' = FailedSaves /\ \A d \in Drops : dpc'[d] = "idle" <=> dpc[d] = "idle"
      BY <1>19 DEF Restart, FailedSaves, Ended, TypeOK
  <2> QED
      BY <2>1, <2>2 DEF Failing
<1> QED
    BY <1>1, <1>2, <1>3, <1>4, <1>5, <1>6, <1>7, <1>8, <1>9, <1>10, <1>11, <1>12, <1>13, <1>14,
       <1>15, <1>16, <1>17, <1>18, <1>19
       DEF Next, SaveStep, PruneStep, MoveStep, DropStep

\* Whoever arrives beside another mars the history.
LEMMA AloneStep ==
    ASSUME TypeOK, Alone,
           [Next]_vars
    PROVE  Alone'
<1>1. CASE UNCHANGED <<pc, ppc, mpc, dpc, marred>>
    BY <1>1 DEF Alone, Quiet, SaveRuns, PruneRuns, MoveRuns, DropRuns, Ended
<1>2. CASE UNCHANGED vars
    BY <1>2, <1>1 DEF saves, prunes, moves, drops, history, vars
<1>3. ASSUME NEW s \in Saves, SaveBegin(s)
      PROVE  Alone'
    BY <1>3
       DEF SaveBegin, SaveArrives, prunes, moves, drops, TypeOK, Alone, Quiet, SaveRuns, PruneRuns,
           MoveRuns, DropRuns, Ended
<1>4. ASSUME NEW s \in Saves, SaveNumber(s)
      PROVE  Alone'
    BY <1>4
       DEF SaveNumber, prunes, moves, drops, history, TypeOK, Alone, Quiet, SaveRuns, PruneRuns,
           MoveRuns, DropRuns, Ended
<1>5. ASSUME NEW s \in Saves, SaveParts(s)
      PROVE  Alone'
    BY <1>5
       DEF SaveParts, prunes, moves, drops, history, TypeOK, Alone, Quiet, SaveRuns, PruneRuns,
           MoveRuns, DropRuns, Ended
<1>6. ASSUME NEW s \in Saves, SaveInserted(s)
      PROVE  Alone'
    BY <1>6
       DEF SaveInserted, prunes, moves, drops, history, TypeOK, Alone, Quiet, SaveRuns, PruneRuns,
           MoveRuns, DropRuns, Ended
<1>7. ASSUME NEW s \in Saves, SaveCached(s)
      PROVE  Alone'
    BY <1>7
       DEF SaveCached, prunes, moves, drops, history, TypeOK, Alone, Quiet, SaveRuns, PruneRuns,
           MoveRuns, DropRuns, Ended
<1>8. ASSUME NEW s \in Saves, SavePointed(s)
      PROVE  Alone'
    BY <1>8
       DEF SavePointed, prunes, moves, drops, history, TypeOK, Alone, Quiet, SaveRuns, PruneRuns,
           MoveRuns, DropRuns, Ended
<1>9. ASSUME NEW s \in Saves, SaveEnds(s)
      PROVE  Alone'
    BY <1>9
       DEF SaveEnds, prunes, moves, drops, history, TypeOK, Alone, Quiet, SaveRuns, PruneRuns,
           MoveRuns, DropRuns, Ended
<1>10. ASSUME NEW s \in Saves, SaveFails(s)
      PROVE  Alone'
    BY <1>10
       DEF SaveFails, prunes, moves, drops, TypeOK, Alone, Quiet, SaveRuns, PruneRuns, MoveRuns,
           DropRuns, Ended
<1>11. ASSUME NEW p \in Prunes, PruneBegin(p)
      PROVE  Alone'
    BY <1>11
       DEF PruneBegin, OtherArrives, saves, moves, drops, TypeOK, Alone, Quiet, SaveRuns, PruneRuns,
           MoveRuns, DropRuns, Ended
<1>12. ASSUME NEW p \in Prunes, PruneDeleted(p)
      PROVE  Alone'
    BY <1>12
       DEF PruneDeleted, saves, moves, drops, history, TypeOK, Alone, Quiet, SaveRuns, PruneRuns,
           MoveRuns, DropRuns, Ended
<1>13. ASSUME NEW p \in Prunes, PruneUncached(p)
      PROVE  Alone'
    BY <1>13
       DEF PruneUncached, saves, moves, drops, history, TypeOK, Alone, Quiet, SaveRuns, PruneRuns,
           MoveRuns, DropRuns, Ended
<1>14. ASSUME NEW p \in Prunes, PrunePointed(p)
      PROVE  Alone'
    BY <1>14
       DEF PrunePointed, saves, moves, drops, history, TypeOK, Alone, Quiet, SaveRuns, PruneRuns,
           MoveRuns, DropRuns, Ended
<1>15. ASSUME NEW p \in Prunes, PruneEnds(p)
      PROVE  Alone'
    BY <1>15
       DEF PruneEnds, saves, moves, drops, history, TypeOK, Alone, Quiet, SaveRuns, PruneRuns,
           MoveRuns, DropRuns, Ended
<1>16. ASSUME NEW p \in Prunes, PruneFails(p)
      PROVE  Alone'
    BY <1>16
       DEF PruneFails, saves, moves, drops, TypeOK, Alone, Quiet, SaveRuns, PruneRuns, MoveRuns,
           DropRuns, Ended
<1>17. ASSUME NEW m \in Moves, MoveBegin(m)
      PROVE  Alone'
    BY <1>17
       DEF MoveBegin, OtherArrives, saves, prunes, drops, TypeOK, Alone, Quiet, SaveRuns, PruneRuns,
           MoveRuns, DropRuns, Ended
<1>18. ASSUME NEW m \in Moves, MovePointed(m)
      PROVE  Alone'
    BY <1>18
       DEF MovePointed, saves, prunes, drops, history, TypeOK, Alone, Quiet, SaveRuns, PruneRuns,
           MoveRuns, DropRuns, Ended
<1>19. ASSUME NEW m \in Moves, MoveEnds(m)
      PROVE  Alone'
    BY <1>19
       DEF MoveEnds, saves, prunes, drops, history, TypeOK, Alone, Quiet, SaveRuns, PruneRuns,
           MoveRuns, DropRuns, Ended
<1>20. ASSUME NEW d \in Drops, DropBegin(d)
      PROVE  Alone'
    BY <1>20
       DEF DropBegin, OtherArrives, saves, prunes, moves, TypeOK, Alone, Quiet, SaveRuns, PruneRuns,
           MoveRuns, DropRuns, Ended
<1>21. ASSUME NEW d \in Drops, DropVersion(d)
      PROVE  Alone'
    BY <1>21
       DEF DropVersion, saves, prunes, moves, history, TypeOK, Alone, Quiet, SaveRuns, PruneRuns,
           MoveRuns, DropRuns, Ended
<1>22. ASSUME NEW d \in Drops, DropUncached(d)
      PROVE  Alone'
    BY <1>22
       DEF DropUncached, saves, prunes, moves, history, TypeOK, Alone, Quiet, SaveRuns, PruneRuns,
           MoveRuns, DropRuns, Ended
<1>23. ASSUME NEW d \in Drops, DropParent(d)
      PROVE  Alone'
    BY <1>23
       DEF DropParent, saves, prunes, moves, history, TypeOK, Alone, Quiet, SaveRuns, PruneRuns,
           MoveRuns, DropRuns, Ended
<1>24. ASSUME NEW d \in Drops, DropEnds(d)
      PROVE  Alone'
    BY <1>24
       DEF DropEnds, saves, prunes, moves, history, TypeOK, Alone, Quiet, SaveRuns, PruneRuns,
           MoveRuns, DropRuns, Ended
<1>25. CASE Restart
    BY <1>25 DEF Restart, Ended, TypeOK, Alone, Quiet, SaveRuns, PruneRuns, MoveRuns, DropRuns
<1> QED
    BY <1>1, <1>2, <1>3, <1>4, <1>5, <1>6, <1>7, <1>8, <1>9, <1>10, <1>11, <1>12, <1>13, <1>14,
       <1>15, <1>16, <1>17, <1>18, <1>19, <1>20, <1>21, <1>22, <1>23, <1>24, <1>25
       DEF Next, SaveStep, PruneStep, MoveStep, DropStep

\* Only a deletion or a restart takes the entity away, and nobody runs beside it.
LEMMA GoneStep ==
    ASSUME TypeOK, Alone, Gone,
           [Next]_vars
    PROVE  Gone'
<1>1. CASE UNCHANGED <<pc, ppc, mpc, dpc, marred, parentStored, parentCached>>
    BY <1>1 DEF Alone, Gone, Quiet, SaveRuns, PruneRuns, MoveRuns, DropRuns, Ended
<1>2. CASE UNCHANGED vars
    BY <1>2, <1>1 DEF parent, saves, prunes, moves, drops, history, vars
<1>3. ASSUME NEW s \in Saves, SaveBegin(s)
      PROVE  Gone'
    BY <1>3
       DEF SaveBegin, SaveArrives, parent, prunes, moves, drops, TypeOK, Alone, Gone, Quiet,
           SaveRuns, PruneRuns, MoveRuns, DropRuns, Ended
<1>4. ASSUME NEW s \in Saves, SaveNumber(s)
      PROVE  Gone'
    BY <1>4
       DEF SaveNumber, parent, prunes, moves, drops, history, TypeOK, Alone, Gone, Quiet, SaveRuns,
           PruneRuns, MoveRuns, DropRuns, Ended
<1>5. ASSUME NEW s \in Saves, SaveParts(s)
      PROVE  Gone'
    BY <1>5
       DEF SaveParts, parent, prunes, moves, drops, history, TypeOK, Alone, Gone, Quiet, SaveRuns,
           PruneRuns, MoveRuns, DropRuns, Ended
<1>6. ASSUME NEW s \in Saves, SaveInserted(s)
      PROVE  Gone'
    BY <1>6
       DEF SaveInserted, parent, prunes, moves, drops, history, TypeOK, Alone, Gone, Quiet,
           SaveRuns, PruneRuns, MoveRuns, DropRuns, Ended
<1>7. ASSUME NEW s \in Saves, SaveCached(s)
      PROVE  Gone'
    BY <1>7
       DEF SaveCached, parent, prunes, moves, drops, history, TypeOK, Alone, Gone, Quiet, SaveRuns,
           PruneRuns, MoveRuns, DropRuns, Ended
<1>8. ASSUME NEW s \in Saves, SavePointed(s)
      PROVE  Gone'
    BY <1>8
       DEF SavePointed, prunes, moves, drops, history, TypeOK, Alone, Gone, Quiet, SaveRuns,
           PruneRuns, MoveRuns, DropRuns, Ended
<1>9. ASSUME NEW s \in Saves, SaveEnds(s)
      PROVE  Gone'
    BY <1>9
       DEF SaveEnds, prunes, moves, drops, history, TypeOK, Alone, Gone, Quiet, SaveRuns, PruneRuns,
           MoveRuns, DropRuns, Ended
<1>10. ASSUME NEW s \in Saves, SaveFails(s)
      PROVE  Gone'
    BY <1>10
       DEF SaveFails, prunes, moves, drops, TypeOK, Alone, Gone, Quiet, SaveRuns, PruneRuns,
           MoveRuns, DropRuns, Ended
<1>11. ASSUME NEW p \in Prunes, PruneBegin(p)
      PROVE  Gone'
    BY <1>11
       DEF PruneBegin, OtherArrives, parent, saves, moves, drops, TypeOK, Alone, Gone, Quiet,
           SaveRuns, PruneRuns, MoveRuns, DropRuns, Ended
<1>12. ASSUME NEW p \in Prunes, PruneDeleted(p)
      PROVE  Gone'
    BY <1>12
       DEF PruneDeleted, parent, saves, moves, drops, history, TypeOK, Alone, Gone, Quiet, SaveRuns,
           PruneRuns, MoveRuns, DropRuns, Ended
<1>13. ASSUME NEW p \in Prunes, PruneUncached(p)
      PROVE  Gone'
    BY <1>13
       DEF PruneUncached, parent, saves, moves, drops, history, TypeOK, Alone, Gone, Quiet,
           SaveRuns, PruneRuns, MoveRuns, DropRuns, Ended
<1>14. ASSUME NEW p \in Prunes, PrunePointed(p)
      PROVE  Gone'
    BY <1>14
       DEF PrunePointed, saves, moves, drops, history, TypeOK, Alone, Gone, Quiet, SaveRuns,
           PruneRuns, MoveRuns, DropRuns, Ended
<1>15. ASSUME NEW p \in Prunes, PruneEnds(p)
      PROVE  Gone'
    BY <1>15
       DEF PruneEnds, saves, moves, drops, history, TypeOK, Alone, Gone, Quiet, SaveRuns, PruneRuns,
           MoveRuns, DropRuns, Ended
<1>16. ASSUME NEW p \in Prunes, PruneFails(p)
      PROVE  Gone'
    BY <1>16
       DEF PruneFails, parent, saves, moves, drops, TypeOK, Alone, Gone, Quiet, SaveRuns, PruneRuns,
           MoveRuns, DropRuns, Ended
<1>17. ASSUME NEW m \in Moves, MoveBegin(m)
      PROVE  Gone'
    BY <1>17
       DEF MoveBegin, OtherArrives, parent, saves, prunes, drops, TypeOK, Alone, Gone, Quiet,
           SaveRuns, PruneRuns, MoveRuns, DropRuns, Ended
<1>18. ASSUME NEW m \in Moves, MovePointed(m)
      PROVE  Gone'
    BY <1>18
       DEF MovePointed, saves, prunes, drops, history, TypeOK, Alone, Gone, Quiet, SaveRuns,
           PruneRuns, MoveRuns, DropRuns, Ended
<1>19. ASSUME NEW m \in Moves, MoveEnds(m)
      PROVE  Gone'
    BY <1>19
       DEF MoveEnds, saves, prunes, drops, history, TypeOK, Alone, Gone, Quiet, SaveRuns, PruneRuns,
           MoveRuns, DropRuns, Ended
<1>20. ASSUME NEW d \in Drops, DropBegin(d)
      PROVE  Gone'
    BY <1>20
       DEF DropBegin, OtherArrives, parent, saves, prunes, moves, TypeOK, Alone, Gone, Quiet,
           SaveRuns, PruneRuns, MoveRuns, DropRuns, Ended
<1>21. ASSUME NEW d \in Drops, DropVersion(d)
      PROVE  Gone'
    BY <1>21
       DEF DropVersion, parent, saves, prunes, moves, history, TypeOK, Alone, Gone, Quiet, SaveRuns,
           PruneRuns, MoveRuns, DropRuns, Ended
<1>22. ASSUME NEW d \in Drops, DropUncached(d)
      PROVE  Gone'
    BY <1>22
       DEF DropUncached, parent, saves, prunes, moves, history, TypeOK, Alone, Gone, Quiet,
           SaveRuns, PruneRuns, MoveRuns, DropRuns, Ended
<1>23. ASSUME NEW d \in Drops, DropParent(d)
      PROVE  Gone'
    BY <1>23
       DEF DropParent, saves, prunes, moves, history, TypeOK, Alone, Gone, Quiet, SaveRuns,
           PruneRuns, MoveRuns, DropRuns, Ended
<1>24. ASSUME NEW d \in Drops, DropEnds(d)
      PROVE  Gone'
    BY <1>24
       DEF DropEnds, saves, prunes, moves, history, TypeOK, Alone, Gone, Quiet, SaveRuns, PruneRuns,
           MoveRuns, DropRuns, Ended
<1>25. CASE Restart
    BY <1>25 DEF Restart, Ended, TypeOK, Alone, Gone, Quiet, SaveRuns, PruneRuns, MoveRuns, DropRuns
<1> QED
    BY <1>1, <1>2, <1>3, <1>4, <1>5, <1>6, <1>7, <1>8, <1>9, <1>10, <1>11, <1>12, <1>13, <1>14,
       <1>15, <1>16, <1>17, <1>18, <1>19, <1>20, <1>21, <1>22, <1>23, <1>24, <1>25
       DEF Next, SaveStep, PruneStep, MoveStep, DropStep

\* Nobody deletes, and a restart loads what is stored.
LEMMA KeptStep ==
    ASSUME TypeOK, Kept,
           [Next]_vars
    PROVE  Kept'
<1>1. CASE UNCHANGED <<ppc, mpc, dpc, pc, preload, stored, cached>>
    BY <1>1 DEF Kept, NobodyElseWrites
<1>2. CASE UNCHANGED vars
    BY <1>2, <1>1 DEF versions, saves, prunes, moves, drops, vars
<1>3. ASSUME NEW s \in Saves, SaveBegin(s)
      PROVE  Kept'
    BY <1>3 DEF SaveBegin, versions, prunes, moves, drops, TypeOK, Kept, NobodyElseWrites
<1>4. ASSUME NEW s \in Saves, SaveNumber(s)
      PROVE  Kept'
    BY <1>4 DEF SaveNumber, prunes, moves, drops, TypeOK, Kept, NobodyElseWrites
<1>5. ASSUME NEW s \in Saves, SaveParts(s)
      PROVE  Kept'
    BY <1>5 DEF SaveParts, prunes, moves, drops, TypeOK, Kept, NobodyElseWrites
<1>6. ASSUME NEW s \in Saves, SaveInserted(s)
      PROVE  Kept'
    BY <1>6 DEF SaveInserted, prunes, moves, drops, TypeOK, Kept, NobodyElseWrites
<1>7. ASSUME NEW s \in Saves, SaveCached(s)
      PROVE  Kept'
    BY <1>7 DEF SaveCached, prunes, moves, drops, TypeOK, Kept, NobodyElseWrites
<1>8. ASSUME NEW s \in Saves, SavePointed(s)
      PROVE  Kept'
    BY <1>8 DEF SavePointed, versions, prunes, moves, drops, TypeOK, Kept, NobodyElseWrites
<1>9. ASSUME NEW s \in Saves, SaveEnds(s)
      PROVE  Kept'
    BY <1>9 DEF SaveEnds, versions, prunes, moves, drops, TypeOK, Kept, NobodyElseWrites
<1>10. ASSUME NEW s \in Saves, SaveFails(s)
      PROVE  Kept'
    BY <1>10 DEF SaveFails, prunes, moves, drops, TypeOK, Kept, NobodyElseWrites
<1>11. ASSUME NEW p \in Prunes, PruneBegin(p)
      PROVE  Kept'
    BY <1>11 DEF PruneBegin, versions, saves, moves, drops, TypeOK, Kept, NobodyElseWrites
<1>12. ASSUME NEW p \in Prunes, PruneDeleted(p)
      PROVE  Kept'
    BY <1>12 DEF PruneDeleted, saves, moves, drops, TypeOK, Kept, NobodyElseWrites
<1>13. ASSUME NEW p \in Prunes, PruneUncached(p)
      PROVE  Kept'
    BY <1>13 DEF PruneUncached, saves, moves, drops, TypeOK, Kept, NobodyElseWrites
<1>14. ASSUME NEW p \in Prunes, PrunePointed(p)
      PROVE  Kept'
    BY <1>14 DEF PrunePointed, versions, saves, moves, drops, TypeOK, Kept, NobodyElseWrites
<1>15. ASSUME NEW p \in Prunes, PruneEnds(p)
      PROVE  Kept'
    BY <1>15 DEF PruneEnds, versions, saves, moves, drops, TypeOK, Kept, NobodyElseWrites
<1>16. ASSUME NEW p \in Prunes, PruneFails(p)
      PROVE  Kept'
    BY <1>16 DEF PruneFails, saves, moves, drops, TypeOK, Kept, NobodyElseWrites
<1>17. ASSUME NEW m \in Moves, MoveBegin(m)
      PROVE  Kept'
    BY <1>17 DEF MoveBegin, versions, saves, prunes, drops, TypeOK, Kept, NobodyElseWrites
<1>18. ASSUME NEW m \in Moves, MovePointed(m)
      PROVE  Kept'
    BY <1>18 DEF MovePointed, versions, saves, prunes, drops, TypeOK, Kept, NobodyElseWrites
<1>19. ASSUME NEW m \in Moves, MoveEnds(m)
      PROVE  Kept'
    BY <1>19 DEF MoveEnds, versions, saves, prunes, drops, TypeOK, Kept, NobodyElseWrites
<1>20. ASSUME NEW d \in Drops, DropBegin(d)
      PROVE  Kept'
    BY <1>20 DEF DropBegin, versions, saves, prunes, moves, TypeOK, Kept, NobodyElseWrites
<1>21. ASSUME NEW d \in Drops, DropVersion(d)
      PROVE  Kept'
    BY <1>21 DEF DropVersion, saves, prunes, moves, TypeOK, Kept, NobodyElseWrites
<1>22. ASSUME NEW d \in Drops, DropUncached(d)
      PROVE  Kept'
    BY <1>22 DEF DropUncached, saves, prunes, moves, TypeOK, Kept, NobodyElseWrites
<1>23. ASSUME NEW d \in Drops, DropParent(d)
      PROVE  Kept'
    BY <1>23 DEF DropParent, versions, saves, prunes, moves, TypeOK, Kept, NobodyElseWrites
<1>24. ASSUME NEW d \in Drops, DropEnds(d)
      PROVE  Kept'
    BY <1>24 DEF DropEnds, versions, saves, prunes, moves, TypeOK, Kept, NobodyElseWrites
<1>25. CASE Restart
    BY <1>25 DEF Restart, Ended, TypeOK, Kept, NobodyElseWrites
<1> QED
    BY <1>1, <1>2, <1>3, <1>4, <1>5, <1>6, <1>7, <1>8, <1>9, <1>10, <1>11, <1>12, <1>13, <1>14,
       <1>15, <1>16, <1>17, <1>18, <1>19, <1>20, <1>21, <1>22, <1>23, <1>24, <1>25
       DEF Next, SaveStep, PruneStep, MoveStep, DropStep

\* The highest number is read where everything that was answered is.
LEMMA AheadStep ==
    ASSUME TypeOK, OneWriter, Line, Known, NumbersBelow, Kept, Ahead,
           [Next]_vars
    PROVE  Ahead'
<1>1. CASE UNCHANGED <<ppc, mpc, dpc, pc, number>>
    BY <1>1 DEF OneWriter, Ended, Ahead, NobodyElseWrites
<1>2. CASE UNCHANGED vars
    BY <1>2, <1>1 DEF versions, saves, prunes, moves, drops, vars
<1>3. ASSUME NEW s \in Saves, SaveBegin(s)
      PROVE  Ahead'
    BY <1>3
       DEF SaveBegin, versions, prunes, moves, drops, TypeOK, OneWriter, Ended, Ahead,
           NobodyElseWrites
<1>4. ASSUME NEW s \in Saves, SaveNumber(s)
      PROVE  Ahead'
  <2> SUFFICES ASSUME NobodyElseWrites
               PROVE  Ahead'
      BY <1>4 DEF SaveNumber, prunes, moves, drops, Ahead, NobodyElseWrites
  <2>1. /\ pc[s] = "waiting" /\ MayRun(s)
        /\ number' = [number EXCEPT ![s] = HighestVersion + 1]
        /\ pc' = [pc EXCEPT ![s] = "numbered"]
      BY <1>4 DEF SaveNumber
  <2>2. HighestVersion \in Nat
      BY <2>1, HighestIsBelow, EntityAssumption DEF Saves
  <2>3. ASSUME NEW u \in Saves, pc[u] = "saved"
        PROVE  number[u] <= HighestVersion + 1 /\ u # s
    <3>1. u \in stored /\ (preload => u \in cached)
        BY <2>3 DEF Kept
    <3>2. number[u] <= HighestVersion /\ number[u] \in Int
        BY <2>1, <3>1, HighestIsBelow DEF TypeOK
    <3> QED
        BY <2>1, <2>2, <2>3, <3>2
  <2> QED
      BY <2>1, <2>3 DEF Ahead, TypeOK
<1>5. ASSUME NEW s \in Saves, SaveParts(s)
      PROVE  Ahead'
    BY <1>5 DEF SaveParts, prunes, moves, drops, TypeOK, OneWriter, Ended, Ahead, NobodyElseWrites
<1>6. ASSUME NEW s \in Saves, SaveInserted(s)
      PROVE  Ahead'
    BY <1>6
       DEF SaveInserted, prunes, moves, drops, TypeOK, OneWriter, Ended, Ahead, NobodyElseWrites
<1>7. ASSUME NEW s \in Saves, SaveCached(s)
      PROVE  Ahead'
    BY <1>7 DEF SaveCached, prunes, moves, drops, TypeOK, OneWriter, Ended, Ahead, NobodyElseWrites
<1>8. ASSUME NEW s \in Saves, SavePointed(s)
      PROVE  Ahead'
    BY <1>8
       DEF SavePointed, versions, prunes, moves, drops, TypeOK, OneWriter, Ended, Ahead,
           NobodyElseWrites
<1>9. ASSUME NEW s \in Saves, SaveEnds(s)
      PROVE  Ahead'
    BY <1>9
       DEF SaveEnds, versions, prunes, moves, drops, TypeOK, OneWriter, Ended, Ahead,
           NobodyElseWrites
<1>10. ASSUME NEW s \in Saves, SaveFails(s)
      PROVE  Ahead'
    BY <1>10 DEF SaveFails, prunes, moves, drops, TypeOK, OneWriter, Ended, Ahead, NobodyElseWrites
<1>11. ASSUME NEW p \in Prunes, PruneBegin(p)
      PROVE  Ahead'
    BY <1>11
       DEF PruneBegin, versions, saves, moves, drops, TypeOK, OneWriter, Ended, Ahead,
           NobodyElseWrites
<1>12. ASSUME NEW p \in Prunes, PruneDeleted(p)
      PROVE  Ahead'
    BY <1>12
       DEF PruneDeleted, saves, moves, drops, TypeOK, OneWriter, Ended, Ahead, NobodyElseWrites
<1>13. ASSUME NEW p \in Prunes, PruneUncached(p)
      PROVE  Ahead'
    BY <1>13
       DEF PruneUncached, saves, moves, drops, TypeOK, OneWriter, Ended, Ahead, NobodyElseWrites
<1>14. ASSUME NEW p \in Prunes, PrunePointed(p)
      PROVE  Ahead'
    BY <1>14
       DEF PrunePointed, versions, saves, moves, drops, TypeOK, OneWriter, Ended, Ahead,
           NobodyElseWrites
<1>15. ASSUME NEW p \in Prunes, PruneEnds(p)
      PROVE  Ahead'
    BY <1>15
       DEF PruneEnds, versions, saves, moves, drops, TypeOK, OneWriter, Ended, Ahead,
           NobodyElseWrites
<1>16. ASSUME NEW p \in Prunes, PruneFails(p)
      PROVE  Ahead'
    BY <1>16 DEF PruneFails, saves, moves, drops, TypeOK, OneWriter, Ended, Ahead, NobodyElseWrites
<1>17. ASSUME NEW m \in Moves, MoveBegin(m)
      PROVE  Ahead'
    BY <1>17
       DEF MoveBegin, versions, saves, prunes, drops, TypeOK, OneWriter, Ended, Ahead,
           NobodyElseWrites
<1>18. ASSUME NEW m \in Moves, MovePointed(m)
      PROVE  Ahead'
    BY <1>18
       DEF MovePointed, versions, saves, prunes, drops, TypeOK, OneWriter, Ended, Ahead,
           NobodyElseWrites
<1>19. ASSUME NEW m \in Moves, MoveEnds(m)
      PROVE  Ahead'
    BY <1>19
       DEF MoveEnds, versions, saves, prunes, drops, TypeOK, OneWriter, Ended, Ahead,
           NobodyElseWrites
<1>20. ASSUME NEW d \in Drops, DropBegin(d)
      PROVE  Ahead'
    BY <1>20
       DEF DropBegin, versions, saves, prunes, moves, TypeOK, OneWriter, Ended, Ahead,
           NobodyElseWrites
<1>21. ASSUME NEW d \in Drops, DropVersion(d)
      PROVE  Ahead'
    BY <1>21
       DEF DropVersion, saves, prunes, moves, TypeOK, OneWriter, Ended, Ahead, NobodyElseWrites
<1>22. ASSUME NEW d \in Drops, DropUncached(d)
      PROVE  Ahead'
    BY <1>22
       DEF DropUncached, saves, prunes, moves, TypeOK, OneWriter, Ended, Ahead, NobodyElseWrites
<1>23. ASSUME NEW d \in Drops, DropParent(d)
      PROVE  Ahead'
    BY <1>23
       DEF DropParent, versions, saves, prunes, moves, TypeOK, OneWriter, Ended, Ahead,
           NobodyElseWrites
<1>24. ASSUME NEW d \in Drops, DropEnds(d)
      PROVE  Ahead'
    BY <1>24
       DEF DropEnds, versions, saves, prunes, moves, TypeOK, OneWriter, Ended, Ahead,
           NobodyElseWrites
<1>25. CASE Restart
    BY <1>25 DEF Restart, Ended, TypeOK, OneWriter, Ahead, NobodyElseWrites
<1> QED
    BY <1>1, <1>2, <1>3, <1>4, <1>5, <1>6, <1>7, <1>8, <1>9, <1>10, <1>11, <1>12, <1>13, <1>14,
       <1>15, <1>16, <1>17, <1>18, <1>19, <1>20, <1>21, <1>22, <1>23, <1>24, <1>25
       DEF Next, SaveStep, PruneStep, MoveStep, DropStep

\* A save writes the pointer when its version is there.
LEMMA WrittenStep ==
    ASSUME TypeOK, OneWriter, Written,
           [Next]_vars
    PROVE  Written'
<1>1. CASE UNCHANGED <<ppc, mpc, dpc, pc, storedPtr, cachedPtr>>
    BY <1>1 DEF OneWriter, Ended, Past, Written, NobodyElseWrites
<1>2. CASE UNCHANGED vars
    BY <1>2, <1>1 DEF parent, saves, prunes, moves, drops, vars
<1>3. ASSUME NEW s \in Saves, SaveBegin(s)
      PROVE  Written'
    BY <1>3
       DEF SaveBegin, parent, prunes, moves, drops, TypeOK, OneWriter, Ended, Past, Written,
           NobodyElseWrites
<1>4. ASSUME NEW s \in Saves, SaveNumber(s)
      PROVE  Written'
    BY <1>4
       DEF SaveNumber, parent, prunes, moves, drops, TypeOK, OneWriter, Ended, Past, Written,
           NobodyElseWrites
<1>5. ASSUME NEW s \in Saves, SaveParts(s)
      PROVE  Written'
    BY <1>5
       DEF SaveParts, parent, prunes, moves, drops, TypeOK, OneWriter, Ended, Past, Written,
           NobodyElseWrites
<1>6. ASSUME NEW s \in Saves, SaveInserted(s)
      PROVE  Written'
    BY <1>6
       DEF SaveInserted, parent, prunes, moves, drops, TypeOK, OneWriter, Ended, Past, Written,
           NobodyElseWrites
<1>7. ASSUME NEW s \in Saves, SaveCached(s)
      PROVE  Written'
    BY <1>7
       DEF SaveCached, parent, prunes, moves, drops, TypeOK, OneWriter, Ended, Past, Written,
           NobodyElseWrites
<1>8. ASSUME NEW s \in Saves, SavePointed(s)
      PROVE  Written'
    BY <1>8
       DEF SavePointed, prunes, moves, drops, TypeOK, OneWriter, Ended, Past, Written,
           NobodyElseWrites
<1>9. ASSUME NEW s \in Saves, SaveEnds(s)
      PROVE  Written'
    BY <1>9
       DEF SaveEnds, prunes, moves, drops, TypeOK, OneWriter, Ended, Past, Written, NobodyElseWrites
<1>10. ASSUME NEW s \in Saves, SaveFails(s)
      PROVE  Written'
    BY <1>10
       DEF SaveFails, prunes, moves, drops, TypeOK, OneWriter, Ended, Past, Written,
           NobodyElseWrites
<1>11. ASSUME NEW p \in Prunes, PruneBegin(p)
      PROVE  Written'
    BY <1>11
       DEF PruneBegin, parent, saves, moves, drops, TypeOK, OneWriter, Ended, Past, Written,
           NobodyElseWrites
<1>12. ASSUME NEW p \in Prunes, PruneDeleted(p)
      PROVE  Written'
    BY <1>12
       DEF PruneDeleted, parent, saves, moves, drops, TypeOK, OneWriter, Ended, Past, Written,
           NobodyElseWrites
<1>13. ASSUME NEW p \in Prunes, PruneUncached(p)
      PROVE  Written'
    BY <1>13
       DEF PruneUncached, parent, saves, moves, drops, TypeOK, OneWriter, Ended, Past, Written,
           NobodyElseWrites
<1>14. ASSUME NEW p \in Prunes, PrunePointed(p)
      PROVE  Written'
    BY <1>14
       DEF PrunePointed, saves, moves, drops, TypeOK, OneWriter, Ended, Past, Written,
           NobodyElseWrites
<1>15. ASSUME NEW p \in Prunes, PruneEnds(p)
      PROVE  Written'
    BY <1>15
       DEF PruneEnds, saves, moves, drops, TypeOK, OneWriter, Ended, Past, Written, NobodyElseWrites
<1>16. ASSUME NEW p \in Prunes, PruneFails(p)
      PROVE  Written'
    BY <1>16
       DEF PruneFails, parent, saves, moves, drops, TypeOK, OneWriter, Ended, Past, Written,
           NobodyElseWrites
<1>17. ASSUME NEW m \in Moves, MoveBegin(m)
      PROVE  Written'
    BY <1>17
       DEF MoveBegin, parent, saves, prunes, drops, TypeOK, OneWriter, Ended, Past, Written,
           NobodyElseWrites
<1>18. ASSUME NEW m \in Moves, MovePointed(m)
      PROVE  Written'
    BY <1>18
       DEF MovePointed, saves, prunes, drops, TypeOK, OneWriter, Ended, Past, Written,
           NobodyElseWrites
<1>19. ASSUME NEW m \in Moves, MoveEnds(m)
      PROVE  Written'
    BY <1>19
       DEF MoveEnds, saves, prunes, drops, TypeOK, OneWriter, Ended, Past, Written, NobodyElseWrites
<1>20. ASSUME NEW d \in Drops, DropBegin(d)
      PROVE  Written'
    BY <1>20
       DEF DropBegin, parent, saves, prunes, moves, TypeOK, OneWriter, Ended, Past, Written,
           NobodyElseWrites
<1>21. ASSUME NEW d \in Drops, DropVersion(d)
      PROVE  Written'
    BY <1>21
       DEF DropVersion, parent, saves, prunes, moves, TypeOK, OneWriter, Ended, Past, Written,
           NobodyElseWrites
<1>22. ASSUME NEW d \in Drops, DropUncached(d)
      PROVE  Written'
    BY <1>22
       DEF DropUncached, parent, saves, prunes, moves, TypeOK, OneWriter, Ended, Past, Written,
           NobodyElseWrites
<1>23. ASSUME NEW d \in Drops, DropParent(d)
      PROVE  Written'
    BY <1>23
       DEF DropParent, saves, prunes, moves, TypeOK, OneWriter, Ended, Past, Written,
           NobodyElseWrites
<1>24. ASSUME NEW d \in Drops, DropEnds(d)
      PROVE  Written'
    BY <1>24
       DEF DropEnds, saves, prunes, moves, TypeOK, OneWriter, Ended, Past, Written, NobodyElseWrites
<1>25. CASE Restart
    BY <1>25 DEF Restart, Ended, TypeOK, OneWriter, Past, Written, NobodyElseWrites
<1> QED
    BY <1>1, <1>2, <1>3, <1>4, <1>5, <1>6, <1>7, <1>8, <1>9, <1>10, <1>11, <1>12, <1>13, <1>14,
       <1>15, <1>16, <1>17, <1>18, <1>19, <1>20, <1>21, <1>22, <1>23, <1>24, <1>25
       DEF Next, SaveStep, PruneStep, MoveStep, DropStep

\* The pointer moves to a number above, and a number is not given to what it names.
LEMMA NewestStep ==
    ASSUME TypeOK, OneWriter, Ahead, Written, NewestIsCurrent,
           [Next]_vars
    PROVE  NewestIsCurrent'
<1>1. CASE UNCHANGED <<ppc, mpc, dpc, pc, number, storedPtr, cachedPtr, parentCached>>
    BY <1>1
       DEF OneWriter, Ended, Past, Ahead, Written, NewestIsCurrent, NobodyElseWrites, None, Saves
<1>2. CASE UNCHANGED vars
    BY <1>2, <1>1 DEF versions, parent, saves, prunes, moves, drops, vars
<1>3. ASSUME NEW s \in Saves, SaveBegin(s)
      PROVE  NewestIsCurrent'
    BY <1>3
       DEF SaveBegin, versions, parent, prunes, moves, drops, TypeOK, OneWriter, Ended, Past, Ahead,
           Written, NewestIsCurrent, NobodyElseWrites, None, Saves
<1>4. ASSUME NEW s \in Saves, SaveNumber(s)
      PROVE  NewestIsCurrent'
    BY <1>4
       DEF SaveNumber, parent, prunes, moves, drops, TypeOK, OneWriter, Ended, Past, Ahead, Written,
           NewestIsCurrent, NobodyElseWrites, None, Saves
<1>5. ASSUME NEW s \in Saves, SaveParts(s)
      PROVE  NewestIsCurrent'
    BY <1>5
       DEF SaveParts, parent, prunes, moves, drops, TypeOK, OneWriter, Ended, Past, Ahead, Written,
           NewestIsCurrent, NobodyElseWrites, None, Saves
<1>6. ASSUME NEW s \in Saves, SaveInserted(s)
      PROVE  NewestIsCurrent'
    BY <1>6
       DEF SaveInserted, parent, prunes, moves, drops, TypeOK, OneWriter, Ended, Past, Ahead,
           Written, NewestIsCurrent, NobodyElseWrites, None, Saves
<1>7. ASSUME NEW s \in Saves, SaveCached(s)
      PROVE  NewestIsCurrent'
  <2> SUFFICES ASSUME NobodyElseWrites
               PROVE  NewestIsCurrent'
      BY <1>7 DEF SaveCached, prunes, moves, drops, NewestIsCurrent, NobodyElseWrites
  <2>1. /\ UNCHANGED <<number, storedPtr, cachedPtr, parentCached>>
        /\ \A u \in Saves : pc'[u] = "saved" => pc[u] = "saved"
      BY <1>7 DEF SaveCached, parent, TypeOK
  <2> QED
      BY <2>1 DEF NewestIsCurrent
<1>8. ASSUME NEW s \in Saves, SavePointed(s)
      PROVE  NewestIsCurrent'
  <2> SUFFICES ASSUME NobodyElseWrites
               PROVE  NewestIsCurrent'
      BY <1>8 DEF SavePointed, prunes, moves, drops, NewestIsCurrent, NobodyElseWrites
  <2>1. /\ UNCHANGED <<number, cachedPtr, parentCached>> /\ storedPtr' \in {s, storedPtr}
        /\ pc[s] = "pointing" /\ \A u \in Saves : pc'[u] = "saved" => pc[u] = "saved"
      BY <1>8 DEF SavePointed, versions, TypeOK
  <2>2. s # None /\ \A u \in Saves : pc[u] = "saved" => number[u] <= number[s]
      BY <2>1, EntityAssumption DEF Ahead, Saves, None
  <2> QED
      BY <2>1, <2>2 DEF NewestIsCurrent
<1>9. ASSUME NEW s \in Saves, SaveEnds(s)
      PROVE  NewestIsCurrent'
  <2> SUFFICES ASSUME NobodyElseWrites
               PROVE  NewestIsCurrent'
      BY <1>9 DEF SaveEnds, prunes, moves, drops, NewestIsCurrent, NobodyElseWrites
  <2>1. /\ UNCHANGED <<number, storedPtr>> /\ cachedPtr' = s /\ pc[s] = "pointed"
        /\ \A u \in Saves : pc'[u] = "saved" => u = s \/ pc[u] = "saved"
      BY <1>9 DEF SaveEnds, versions, TypeOK
  <2>2. /\ s # None /\ storedPtr = s /\ number[s] <= number[s]
        /\ \A u \in Saves : pc[u] = "saved" => number[u] <= number[s]
      BY <2>1, EntityAssumption DEF Ahead, Written, Saves, None, TypeOK
  <2> QED
      BY <2>1, <2>2 DEF NewestIsCurrent
<1>10. ASSUME NEW s \in Saves, SaveFails(s)
      PROVE  NewestIsCurrent'
    BY <1>10
       DEF SaveFails, prunes, moves, drops, TypeOK, OneWriter, Ended, Past, Ahead, Written,
           NewestIsCurrent, NobodyElseWrites, None, Saves
<1>11. ASSUME NEW p \in Prunes, PruneBegin(p)
      PROVE  NewestIsCurrent'
    BY <1>11
       DEF PruneBegin, versions, parent, saves, moves, drops, TypeOK, OneWriter, Ended, Past, Ahead,
           Written, NewestIsCurrent, NobodyElseWrites, None, Saves
<1>12. ASSUME NEW p \in Prunes, PruneDeleted(p)
      PROVE  NewestIsCurrent'
    BY <1>12
       DEF PruneDeleted, parent, saves, moves, drops, TypeOK, OneWriter, Ended, Past, Ahead,
           Written, NewestIsCurrent, NobodyElseWrites, None, Saves
<1>13. ASSUME NEW p \in Prunes, PruneUncached(p)
      PROVE  NewestIsCurrent'
    BY <1>13
       DEF PruneUncached, parent, saves, moves, drops, TypeOK, OneWriter, Ended, Past, Ahead,
           Written, NewestIsCurrent, NobodyElseWrites, None, Saves
<1>14. ASSUME NEW p \in Prunes, PrunePointed(p)
      PROVE  NewestIsCurrent'
    BY <1>14
       DEF PrunePointed, versions, saves, moves, drops, TypeOK, OneWriter, Ended, Past, Ahead,
           Written, NewestIsCurrent, NobodyElseWrites, None, Saves
<1>15. ASSUME NEW p \in Prunes, PruneEnds(p)
      PROVE  NewestIsCurrent'
    BY <1>15
       DEF PruneEnds, versions, saves, moves, drops, TypeOK, OneWriter, Ended, Past, Ahead, Written,
           NewestIsCurrent, NobodyElseWrites, None, Saves
<1>16. ASSUME NEW p \in Prunes, PruneFails(p)
      PROVE  NewestIsCurrent'
    BY <1>16
       DEF PruneFails, parent, saves, moves, drops, TypeOK, OneWriter, Ended, Past, Ahead, Written,
           NewestIsCurrent, NobodyElseWrites, None, Saves
<1>17. ASSUME NEW m \in Moves, MoveBegin(m)
      PROVE  NewestIsCurrent'
    BY <1>17
       DEF MoveBegin, versions, parent, saves, prunes, drops, TypeOK, OneWriter, Ended, Past, Ahead,
           Written, NewestIsCurrent, NobodyElseWrites, None, Saves
<1>18. ASSUME NEW m \in Moves, MovePointed(m)
      PROVE  NewestIsCurrent'
    BY <1>18
       DEF MovePointed, versions, saves, prunes, drops, TypeOK, OneWriter, Ended, Past, Ahead,
           Written, NewestIsCurrent, NobodyElseWrites, None, Saves
<1>19. ASSUME NEW m \in Moves, MoveEnds(m)
      PROVE  NewestIsCurrent'
    BY <1>19
       DEF MoveEnds, versions, saves, prunes, drops, TypeOK, OneWriter, Ended, Past, Ahead, Written,
           NewestIsCurrent, NobodyElseWrites, None, Saves
<1>20. ASSUME NEW d \in Drops, DropBegin(d)
      PROVE  NewestIsCurrent'
    BY <1>20
       DEF DropBegin, versions, parent, saves, prunes, moves, TypeOK, OneWriter, Ended, Past, Ahead,
           Written, NewestIsCurrent, NobodyElseWrites, None, Saves
<1>21. ASSUME NEW d \in Drops, DropVersion(d)
      PROVE  NewestIsCurrent'
    BY <1>21
       DEF DropVersion, parent, saves, prunes, moves, TypeOK, OneWriter, Ended, Past, Ahead,
           Written, NewestIsCurrent, NobodyElseWrites, None, Saves
<1>22. ASSUME NEW d \in Drops, DropUncached(d)
      PROVE  NewestIsCurrent'
    BY <1>22
       DEF DropUncached, parent, saves, prunes, moves, TypeOK, OneWriter, Ended, Past, Ahead,
           Written, NewestIsCurrent, NobodyElseWrites, None, Saves
<1>23. ASSUME NEW d \in Drops, DropParent(d)
      PROVE  NewestIsCurrent'
    BY <1>23
       DEF DropParent, versions, saves, prunes, moves, TypeOK, OneWriter, Ended, Past, Ahead,
           Written, NewestIsCurrent, NobodyElseWrites, None, Saves
<1>24. ASSUME NEW d \in Drops, DropEnds(d)
      PROVE  NewestIsCurrent'
    BY <1>24
       DEF DropEnds, versions, saves, prunes, moves, TypeOK, OneWriter, Ended, Past, Ahead, Written,
           NewestIsCurrent, NobodyElseWrites, None, Saves
<1>25. CASE Restart
    BY <1>25
       DEF Restart, Ended, TypeOK, OneWriter, Past, Ahead, Written, NewestIsCurrent,
           NobodyElseWrites, None, Saves
<1> QED
    BY <1>1, <1>2, <1>3, <1>4, <1>5, <1>6, <1>7, <1>8, <1>9, <1>10, <1>11, <1>12, <1>13, <1>14,
       <1>15, <1>16, <1>17, <1>18, <1>19, <1>20, <1>21, <1>22, <1>23, <1>24, <1>25
       DEF Next, SaveStep, PruneStep, MoveStep, DropStep

\* Who has the entity for itself.
LEMMA WhenSaving ==
    ASSUME Alone, Gone, ~marred, NEW s \in Saves, pc[s] \notin Ended
    PROVE  /\ \A p \in Prunes : ppc[p] \in Ended
           /\ \A m \in Moves : mpc[m] \in Ended
           /\ \A d \in Drops : dpc[d] \in Ended
           /\ parentCached /\ parentStored
BY DEF Alone, Gone, Quiet, SaveRuns, PruneRuns, MoveRuns, DropRuns

LEMMA WhenPruning ==
    ASSUME Alone, Gone, ~marred, NEW p \in Prunes, ppc[p] \notin Ended
    PROVE  /\ \A s \in Saves : pc[s] \in Ended
           /\ \A q \in Prunes \ {p} : ppc[q] \in Ended
           /\ \A m \in Moves : mpc[m] \in Ended
           /\ \A d \in Drops : dpc[d] \in Ended
           /\ parentCached /\ parentStored
BY DEF Alone, Gone, Quiet, SaveRuns, PruneRuns, MoveRuns, DropRuns

LEMMA WhenMoving ==
    ASSUME Alone, Gone, ~marred, NEW m \in Moves, mpc[m] \notin Ended
    PROVE  /\ \A s \in Saves : pc[s] \in Ended
           /\ \A p \in Prunes : ppc[p] \in Ended
           /\ \A n \in Moves \ {m} : mpc[n] \in Ended
           /\ \A d \in Drops : dpc[d] \in Ended
           /\ parentCached /\ parentStored
BY DEF Alone, Gone, Quiet, SaveRuns, PruneRuns, MoveRuns, DropRuns

LEMMA WhenDropping ==
    ASSUME Alone, Gone, ~marred, NEW d \in Drops, dpc[d] \notin Ended
    PROVE  /\ \A s \in Saves : pc[s] \in Ended
           /\ \A p \in Prunes : ppc[p] \in Ended
           /\ \A m \in Moves : mpc[m] \in Ended
           /\ parentCached
BY DEF Alone, Gone, Quiet, SaveRuns, PruneRuns, MoveRuns, DropRuns

\* A version reaches the cache after the store, and leaves it after the store.
LEMMA LevelStep ==
    ASSUME TypeOK, Shown, Alone, Gone, Level,
           [Next]_vars
    PROVE  Level'
<1>1. CASE UNCHANGED <<marred, lost, parentStored, stored, cached, parentCached, pc, ppc, mpc, dpc,
                      victim, goal>>
    BY <1>1 DEF Level, Quiet, SaveRuns, PruneRuns, MoveRuns, DropRuns, Ended
<1>2. CASE UNCHANGED vars
    BY <1>2, <1>1 DEF versions, parent, saves, prunes, moves, drops, history, vars
<1>3. ASSUME NEW s \in Saves, SaveBegin(s)
      PROVE  Level'
    BY <1>3
       DEF SaveBegin, SaveArrives, versions, parent, prunes, moves, drops, TypeOK, Level, Quiet,
           SaveRuns, PruneRuns, MoveRuns, DropRuns, Ended
<1>4. ASSUME NEW s \in Saves, SaveNumber(s)
      PROVE  Level'
    BY <1>4
       DEF SaveNumber, parent, prunes, moves, drops, history, TypeOK, Level, Quiet, SaveRuns,
           PruneRuns, MoveRuns, DropRuns, Ended
<1>5. ASSUME NEW s \in Saves, SaveParts(s)
      PROVE  Level'
    BY <1>5
       DEF SaveParts, parent, prunes, moves, drops, history, TypeOK, Level, Quiet, SaveRuns,
           PruneRuns, MoveRuns, DropRuns, Ended
<1>6. ASSUME NEW s \in Saves, SaveInserted(s)
      PROVE  Level'
    BY <1>6
       DEF SaveInserted, parent, prunes, moves, drops, history, TypeOK, Level, Quiet, SaveRuns,
           PruneRuns, MoveRuns, DropRuns, Ended
<1>7. ASSUME NEW s \in Saves, SaveCached(s)
      PROVE  Level'
    BY <1>7
       DEF SaveCached, parent, prunes, moves, drops, history, TypeOK, Level, Quiet, SaveRuns,
           PruneRuns, MoveRuns, DropRuns, Ended
<1>8. ASSUME NEW s \in Saves, SavePointed(s)
      PROVE  Level'
    BY <1>8
       DEF SavePointed, versions, prunes, moves, drops, history, TypeOK, Level, Quiet, SaveRuns,
           PruneRuns, MoveRuns, DropRuns, Ended
<1>9. ASSUME NEW s \in Saves, SaveEnds(s)
      PROVE  Level'
  <2> SUFFICES ASSUME ~marred', lost' = {}, parentStored'
               PROVE  Level'
      BY DEF Level
  <2>1. ~marred /\ lost = {} /\ parentStored
      BY <1>9 DEF SaveEnds, versions, prunes, moves, drops, history, TypeOK
  <2>2. /\ \A p \in Prunes : ppc[p] \in Ended
        /\ \A m \in Moves : mpc[m] \in Ended
        /\ \A d \in Drops : dpc[d] \in Ended
        /\ parentCached /\ pc[s] \notin Ended
      BY <1>9, <2>1, WhenSaving DEF SaveEnds, Ended
  <2> QED
      BY <1>9, <2>1, <2>2
         DEF SaveEnds, versions, prunes, moves, drops, history, TypeOK, Level, Ended, DropRuns
<1>10. ASSUME NEW s \in Saves, SaveFails(s)
      PROVE  Level'
    BY <1>10
       DEF SaveFails, prunes, moves, drops, TypeOK, Level, Quiet, SaveRuns, PruneRuns, MoveRuns,
           DropRuns, Ended
<1>11. ASSUME NEW p \in Prunes, PruneBegin(p)
      PROVE  Level'
    BY <1>11
       DEF PruneBegin, OtherArrives, versions, parent, saves, moves, drops, TypeOK, Level, Quiet,
           SaveRuns, PruneRuns, MoveRuns, DropRuns, Ended
<1>12. ASSUME NEW p \in Prunes, PruneDeleted(p)
      PROVE  Level'
  <2> SUFFICES ASSUME ~marred', lost' = {}, parentStored'
               PROVE  Level'
      BY DEF Level
  <2>1. ~marred /\ lost = {} /\ parentStored
      BY <1>12 DEF PruneDeleted, parent, saves, moves, drops, history, TypeOK
  <2>2. /\ \A s \in Saves : pc[s] \in Ended
        /\ \A q \in Prunes \ {p} : ppc[q] \in Ended
        /\ \A m \in Moves : mpc[m] \in Ended
        /\ \A d \in Drops : dpc[d] \in Ended
        /\ parentCached
      BY <1>12, <2>1, WhenPruning DEF PruneDeleted, Ended
  <2> QED
      BY <1>12, <2>1, <2>2
         DEF PruneDeleted, parent, saves, moves, drops, history, TypeOK, Level, Ended, DropRuns
<1>13. ASSUME NEW p \in Prunes, PruneUncached(p)
      PROVE  Level'
  <2> SUFFICES ASSUME ~marred', lost' = {}, parentStored'
               PROVE  Level'
      BY DEF Level
  <2>1. ~marred /\ lost = {} /\ parentStored
      BY <1>13 DEF PruneUncached, parent, saves, moves, drops, history, TypeOK
  <2>2. /\ \A s \in Saves : pc[s] \in Ended
        /\ \A q \in Prunes \ {p} : ppc[q] \in Ended
        /\ \A m \in Moves : mpc[m] \in Ended
        /\ \A d \in Drops : dpc[d] \in Ended
        /\ parentCached
      BY <1>13, <2>1, WhenPruning DEF PruneUncached, Ended
  <2> QED
      BY <1>13, <2>1, <2>2
         DEF PruneUncached, parent, saves, moves, drops, history, TypeOK, Level, Ended, Shown,
             DropRuns
<1>14. ASSUME NEW p \in Prunes, PrunePointed(p)
      PROVE  Level'
    BY <1>14
       DEF PrunePointed, versions, saves, moves, drops, history, TypeOK, Level, Quiet, SaveRuns,
           PruneRuns, MoveRuns, DropRuns, Ended
<1>15. ASSUME NEW p \in Prunes, PruneEnds(p)
      PROVE  Level'
  <2> SUFFICES ASSUME ~marred', lost' = {}, parentStored'
               PROVE  Level'
      BY DEF Level
  <2>1. ~marred /\ lost = {} /\ parentStored
      BY <1>15 DEF PruneEnds, versions, saves, moves, drops, history, TypeOK
  <2>2. /\ \A s \in Saves : pc[s] \in Ended
        /\ \A q \in Prunes \ {p} : ppc[q] \in Ended
        /\ \A m \in Moves : mpc[m] \in Ended
        /\ \A d \in Drops : dpc[d] \in Ended
        /\ parentCached
      BY <1>15, <2>1, WhenPruning DEF PruneEnds, Ended
  <2> QED
      BY <1>15, <2>1, <2>2
         DEF PruneEnds, versions, saves, moves, drops, history, TypeOK, Level, Ended, DropRuns
<1>16. ASSUME NEW p \in Prunes, PruneFails(p)
      PROVE  Level'
    BY <1>16
       DEF PruneFails, parent, saves, moves, drops, TypeOK, Level, Quiet, SaveRuns, PruneRuns,
           MoveRuns, DropRuns, Ended
<1>17. ASSUME NEW m \in Moves, MoveBegin(m)
      PROVE  Level'
  <2> SUFFICES ASSUME ~marred', lost' = {}, parentStored'
               PROVE  Level'
      BY DEF Level
  <2>1. ~marred /\ lost = {} /\ parentStored
      BY <1>17 DEF MoveBegin, OtherArrives, versions, parent, saves, prunes, drops, TypeOK
  <2>2. Quiet
      BY <1>17 DEF MoveBegin, OtherArrives
  <2>3. \A v \in cached : v \in stored
      BY <2>1, <2>2 DEF Level, Quiet, PruneRuns, Ended
  <2>4. ~DropRuns
      BY <2>2 DEF Quiet
  <2> QED
      BY <1>17, <2>1, <2>2, <2>3, <2>4
         DEF MoveBegin, OtherArrives, versions, parent, saves, prunes, drops, TypeOK, Level, Ended,
             DropRuns
<1>18. ASSUME NEW m \in Moves, MovePointed(m)
      PROVE  Level'
    BY <1>18
       DEF MovePointed, versions, saves, prunes, drops, history, TypeOK, Level, Quiet, SaveRuns,
           PruneRuns, MoveRuns, DropRuns, Ended
<1>19. ASSUME NEW m \in Moves, MoveEnds(m)
      PROVE  Level'
  <2> SUFFICES ASSUME ~marred', lost' = {}, parentStored'
               PROVE  Level'
      BY DEF Level
  <2>1. ~marred /\ lost = {} /\ parentStored
      BY <1>19 DEF MoveEnds, versions, saves, prunes, drops, history, TypeOK
  <2>2. /\ \A s \in Saves : pc[s] \in Ended
        /\ \A p \in Prunes : ppc[p] \in Ended
        /\ \A n \in Moves \ {m} : mpc[n] \in Ended
        /\ \A d \in Drops : dpc[d] \in Ended
        /\ parentCached
      BY <1>19, <2>1, WhenMoving DEF MoveEnds, Ended
  <2> QED
      BY <1>19, <2>1, <2>2
         DEF MoveEnds, versions, saves, prunes, drops, history, TypeOK, Level, Ended, DropRuns
<1>20. ASSUME NEW d \in Drops, DropBegin(d)
      PROVE  Level'
    BY <1>20
       DEF DropBegin, OtherArrives, versions, parent, saves, prunes, moves, TypeOK, Level, Quiet,
           SaveRuns, PruneRuns, MoveRuns, DropRuns, Ended
<1>21. ASSUME NEW d \in Drops, DropVersion(d)
      PROVE  Level'
  <2> SUFFICES ASSUME ~marred', lost' = {}, parentStored'
               PROVE  Level'
      BY DEF Level
  <2>1. ~marred /\ lost = {} /\ parentStored
      BY <1>21 DEF DropVersion, parent, saves, prunes, moves, history, TypeOK
  <2>2. /\ \A s \in Saves : pc[s] \in Ended
        /\ \A p \in Prunes : ppc[p] \in Ended
        /\ \A m \in Moves : mpc[m] \in Ended
        /\ parentCached
      BY <1>21, <2>1, WhenDropping DEF DropVersion, Ended
  <2>3. dpc'[d] = "deleted"
      BY <1>21 DEF DropVersion, TypeOK
  <2> QED
      BY <1>21, <2>1, <2>2, <2>3
         DEF DropVersion, parent, saves, prunes, moves, history, TypeOK, Level, Ended, DropRuns
<1>22. ASSUME NEW d \in Drops, DropUncached(d)
      PROVE  Level'
  <2> SUFFICES ASSUME ~marred', lost' = {}, parentStored'
               PROVE  Level'
      BY DEF Level
  <2>1. ~marred /\ lost = {} /\ parentStored
      BY <1>22 DEF DropUncached, parent, saves, prunes, moves, history, TypeOK
  <2>2. /\ \A s \in Saves : pc[s] \in Ended
        /\ \A p \in Prunes : ppc[p] \in Ended
        /\ \A m \in Moves : mpc[m] \in Ended
        /\ parentCached
      BY <1>22, <2>1, WhenDropping DEF DropUncached, Ended
  <2>3. owned[d] # {} /\ Oldest(owned[d]) \notin stored
      BY <1>22 DEF DropUncached, Shown
  <2>4. dpc'[d] = "deleting"
      BY <1>22 DEF DropUncached, TypeOK
  <2> QED
      BY <1>22, <2>1, <2>2, <2>3, <2>4
         DEF DropUncached, parent, saves, prunes, moves, history, TypeOK, Level, Ended, DropRuns
<1>23. ASSUME NEW d \in Drops, DropParent(d)
      PROVE  Level'
    BY <1>23
       DEF DropParent, versions, saves, prunes, moves, history, TypeOK, Level, Quiet, SaveRuns,
           PruneRuns, MoveRuns, DropRuns, Ended
<1>24. ASSUME NEW d \in Drops, DropEnds(d)
      PROVE  Level'
  <2>1. ~parentStored
      BY <1>24 DEF DropEnds, Gone
  <2> QED
      BY <1>24, <2>1 DEF DropEnds, Level
<1>25. CASE Restart
    BY <1>25 DEF Restart, Ended, TypeOK, Level, Quiet, SaveRuns, PruneRuns, MoveRuns, DropRuns
<1> QED
    BY <1>1, <1>2, <1>3, <1>4, <1>5, <1>6, <1>7, <1>8, <1>9, <1>10, <1>11, <1>12, <1>13, <1>14,
       <1>15, <1>16, <1>17, <1>18, <1>19, <1>20, <1>21, <1>22, <1>23, <1>24, <1>25
       DEF Next, SaveStep, PruneStep, MoveStep, DropStep

\* The pointer reaches the cache after the store.
LEMMA PointersAgreeStep ==
    ASSUME TypeOK, OneWriter, Alone, Gone, PointersAgree,
           [Next]_vars
    PROVE  PointersAgree'
<1>1. CASE UNCHANGED <<marred, lost, parentStored, storedPtr, cachedPtr, parentCached, pc, ppc, mpc,
                      dpc, fallback, goal, seenPtr>>
    BY <1>1 DEF OneWriter, PointersAgree, Quiet, SaveRuns, PruneRuns, MoveRuns, DropRuns, Ended
<1>2. CASE UNCHANGED vars
    BY <1>2, <1>1 DEF parent, saves, prunes, moves, drops, history, vars
<1>3. ASSUME NEW s \in Saves, SaveBegin(s)
      PROVE  PointersAgree'
    BY <1>3
       DEF SaveBegin, SaveArrives, parent, prunes, moves, drops, TypeOK, OneWriter, PointersAgree,
           Quiet, SaveRuns, PruneRuns, MoveRuns, DropRuns, Ended
<1>4. ASSUME NEW s \in Saves, SaveNumber(s)
      PROVE  PointersAgree'
    BY <1>4
       DEF SaveNumber, parent, prunes, moves, drops, history, TypeOK, OneWriter, PointersAgree,
           Quiet, SaveRuns, PruneRuns, MoveRuns, DropRuns, Ended
<1>5. ASSUME NEW s \in Saves, SaveParts(s)
      PROVE  PointersAgree'
    BY <1>5
       DEF SaveParts, parent, prunes, moves, drops, history, TypeOK, OneWriter, PointersAgree,
           Quiet, SaveRuns, PruneRuns, MoveRuns, DropRuns, Ended
<1>6. ASSUME NEW s \in Saves, SaveInserted(s)
      PROVE  PointersAgree'
    BY <1>6
       DEF SaveInserted, parent, prunes, moves, drops, history, TypeOK, OneWriter, PointersAgree,
           Quiet, SaveRuns, PruneRuns, MoveRuns, DropRuns, Ended
<1>7. ASSUME NEW s \in Saves, SaveCached(s)
      PROVE  PointersAgree'
    BY <1>7
       DEF SaveCached, parent, prunes, moves, drops, history, TypeOK, OneWriter, PointersAgree,
           Quiet, SaveRuns, PruneRuns, MoveRuns, DropRuns, Ended
<1>8. ASSUME NEW s \in Saves, SavePointed(s)
      PROVE  PointersAgree'
  <2> SUFFICES ASSUME ~marred', lost' = {}, parentStored'
               PROVE  PointersAgree'
      BY DEF PointersAgree
  <2>1. ~marred /\ lost = {} /\ parentStored
      BY <1>8 DEF SavePointed, prunes, moves, drops, history, TypeOK
  <2>2. /\ \A p \in Prunes : ppc[p] \in Ended
        /\ \A m \in Moves : mpc[m] \in Ended
        /\ \A d \in Drops : dpc[d] \in Ended
        /\ parentCached /\ pc[s] \notin Ended
      BY <1>8, <2>1, WhenSaving DEF SavePointed, Ended
  <2> QED
      BY <1>8, <2>1, <2>2
         DEF SavePointed, prunes, moves, drops, history, TypeOK, PointersAgree, Ended, OneWriter
<1>9. ASSUME NEW s \in Saves, SaveEnds(s)
      PROVE  PointersAgree'
  <2> SUFFICES ASSUME ~marred', lost' = {}, parentStored'
               PROVE  PointersAgree'
      BY DEF PointersAgree
  <2>1. ~marred /\ lost = {} /\ parentStored
      BY <1>9 DEF SaveEnds, prunes, moves, drops, history, TypeOK
  <2>2. /\ \A p \in Prunes : ppc[p] \in Ended
        /\ \A m \in Moves : mpc[m] \in Ended
        /\ \A d \in Drops : dpc[d] \in Ended
        /\ parentCached /\ pc[s] \notin Ended
      BY <1>9, <2>1, WhenSaving DEF SaveEnds, Ended
  <2> QED
      BY <1>9, <2>1, <2>2
         DEF SaveEnds, prunes, moves, drops, history, TypeOK, PointersAgree, Ended, OneWriter
<1>10. ASSUME NEW s \in Saves, SaveFails(s)
      PROVE  PointersAgree'
    BY <1>10
       DEF SaveFails, prunes, moves, drops, TypeOK, OneWriter, PointersAgree, Quiet, SaveRuns,
           PruneRuns, MoveRuns, DropRuns, Ended
<1>11. ASSUME NEW p \in Prunes, PruneBegin(p)
      PROVE  PointersAgree'
    BY <1>11
       DEF PruneBegin, OtherArrives, parent, saves, moves, drops, TypeOK, OneWriter, PointersAgree,
           Quiet, SaveRuns, PruneRuns, MoveRuns, DropRuns, Ended
<1>12. ASSUME NEW p \in Prunes, PruneDeleted(p)
      PROVE  PointersAgree'
    BY <1>12
       DEF PruneDeleted, parent, saves, moves, drops, history, TypeOK, OneWriter, PointersAgree,
           Quiet, SaveRuns, PruneRuns, MoveRuns, DropRuns, Ended
<1>13. ASSUME NEW p \in Prunes, PruneUncached(p)
      PROVE  PointersAgree'
    BY <1>13
       DEF PruneUncached, parent, saves, moves, drops, history, TypeOK, OneWriter, PointersAgree,
           Quiet, SaveRuns, PruneRuns, MoveRuns, DropRuns, Ended
<1>14. ASSUME NEW p \in Prunes, PrunePointed(p)
      PROVE  PointersAgree'
  <2> SUFFICES ASSUME ~marred', lost' = {}, parentStored'
               PROVE  PointersAgree'
      BY DEF PointersAgree
  <2>1. ~marred /\ lost = {} /\ parentStored
      BY <1>14 DEF PrunePointed, saves, moves, drops, history, TypeOK
  <2>2. /\ \A s \in Saves : pc[s] \in Ended
        /\ \A q \in Prunes \ {p} : ppc[q] \in Ended
        /\ \A m \in Moves : mpc[m] \in Ended
        /\ \A d \in Drops : dpc[d] \in Ended
        /\ parentCached
      BY <1>14, <2>1, WhenPruning DEF PrunePointed, Ended
  <2> QED
      BY <1>14, <2>1, <2>2 DEF PrunePointed, saves, moves, drops, history, TypeOK, PointersAgree, Ended
<1>15. ASSUME NEW p \in Prunes, PruneEnds(p)
      PROVE  PointersAgree'
  <2> SUFFICES ASSUME ~marred', lost' = {}, parentStored'
               PROVE  PointersAgree'
      BY DEF PointersAgree
  <2>1. ~marred /\ lost = {} /\ parentStored
      BY <1>15 DEF PruneEnds, saves, moves, drops, history, TypeOK
  <2>2. /\ \A s \in Saves : pc[s] \in Ended
        /\ \A q \in Prunes \ {p} : ppc[q] \in Ended
        /\ \A m \in Moves : mpc[m] \in Ended
        /\ \A d \in Drops : dpc[d] \in Ended
        /\ parentCached
      BY <1>15, <2>1, WhenPruning DEF PruneEnds, Ended
  <2> QED
      BY <1>15, <2>1, <2>2 DEF PruneEnds, saves, moves, drops, history, TypeOK, PointersAgree, Ended
<1>16. ASSUME NEW p \in Prunes, PruneFails(p)
      PROVE  PointersAgree'
    BY <1>16
       DEF PruneFails, parent, saves, moves, drops, TypeOK, OneWriter, PointersAgree, Quiet,
           SaveRuns, PruneRuns, MoveRuns, DropRuns, Ended
<1>17. ASSUME NEW m \in Moves, MoveBegin(m)
      PROVE  PointersAgree'
    BY <1>17
       DEF MoveBegin, OtherArrives, parent, saves, prunes, drops, TypeOK, OneWriter, PointersAgree,
           Quiet, SaveRuns, PruneRuns, MoveRuns, DropRuns, Ended
<1>18. ASSUME NEW m \in Moves, MovePointed(m)
      PROVE  PointersAgree'
  <2> SUFFICES ASSUME ~marred', lost' = {}, parentStored'
               PROVE  PointersAgree'
      BY DEF PointersAgree
  <2>1. ~marred /\ lost = {} /\ parentStored
      BY <1>18 DEF MovePointed, saves, prunes, drops, history, TypeOK
  <2>2. /\ \A s \in Saves : pc[s] \in Ended
        /\ \A p \in Prunes : ppc[p] \in Ended
        /\ \A n \in Moves \ {m} : mpc[n] \in Ended
        /\ \A d \in Drops : dpc[d] \in Ended
        /\ parentCached
      BY <1>18, <2>1, WhenMoving DEF MovePointed, Ended
  <2> QED
      BY <1>18, <2>1, <2>2 DEF MovePointed, saves, prunes, drops, history, TypeOK, PointersAgree, Ended
<1>19. ASSUME NEW m \in Moves, MoveEnds(m)
      PROVE  PointersAgree'
  <2> SUFFICES ASSUME ~marred', lost' = {}, parentStored'
               PROVE  PointersAgree'
      BY DEF PointersAgree
  <2>1. ~marred /\ lost = {} /\ parentStored
      BY <1>19 DEF MoveEnds, saves, prunes, drops, history, TypeOK
  <2>2. /\ \A s \in Saves : pc[s] \in Ended
        /\ \A p \in Prunes : ppc[p] \in Ended
        /\ \A n \in Moves \ {m} : mpc[n] \in Ended
        /\ \A d \in Drops : dpc[d] \in Ended
        /\ parentCached
      BY <1>19, <2>1, WhenMoving DEF MoveEnds, Ended
  <2> QED
      BY <1>19, <2>1, <2>2 DEF MoveEnds, saves, prunes, drops, history, TypeOK, PointersAgree, Ended
<1>20. ASSUME NEW d \in Drops, DropBegin(d)
      PROVE  PointersAgree'
    BY <1>20
       DEF DropBegin, OtherArrives, parent, saves, prunes, moves, TypeOK, OneWriter, PointersAgree,
           Quiet, SaveRuns, PruneRuns, MoveRuns, DropRuns, Ended
<1>21. ASSUME NEW d \in Drops, DropVersion(d)
      PROVE  PointersAgree'
    BY <1>21
       DEF DropVersion, parent, saves, prunes, moves, history, TypeOK, OneWriter, PointersAgree,
           Quiet, SaveRuns, PruneRuns, MoveRuns, DropRuns, Ended
<1>22. ASSUME NEW d \in Drops, DropUncached(d)
      PROVE  PointersAgree'
    BY <1>22
       DEF DropUncached, parent, saves, prunes, moves, history, TypeOK, OneWriter, PointersAgree,
           Quiet, SaveRuns, PruneRuns, MoveRuns, DropRuns, Ended
<1>23. ASSUME NEW d \in Drops, DropParent(d)
      PROVE  PointersAgree'
    BY <1>23
       DEF DropParent, saves, prunes, moves, history, TypeOK, OneWriter, PointersAgree, Quiet,
           SaveRuns, PruneRuns, MoveRuns, DropRuns, Ended
<1>24. ASSUME NEW d \in Drops, DropEnds(d)
      PROVE  PointersAgree'
  <2>1. ~parentStored
      BY <1>24 DEF DropEnds, Gone
  <2> QED
      BY <1>24, <2>1 DEF DropEnds, PointersAgree
<1>25. CASE Restart
    BY <1>25
       DEF Restart, Ended, TypeOK, OneWriter, PointersAgree, Quiet, SaveRuns, PruneRuns, MoveRuns,
           DropRuns
<1> QED
    BY <1>1, <1>2, <1>3, <1>4, <1>5, <1>6, <1>7, <1>8, <1>9, <1>10, <1>11, <1>12, <1>13, <1>14,
       <1>15, <1>16, <1>17, <1>18, <1>19, <1>20, <1>21, <1>22, <1>23, <1>24, <1>25
       DEF Next, SaveStep, PruneStep, MoveStep, DropStep

LEMMA NewestIsNewest ==
    ASSUME TypeOK
    PROVE  /\ Newest(stored) \in stored \cup {None}
           /\ \A v \in stored : Newest(stored) # None /\ number[v] <= number[Newest(stored)]
<1>1. CASE stored = {}
    BY <1>1 DEF Newest
<1>2. CASE stored # {}
  <2> DEFINE T == {number[v] : v \in stored}
  <2>1. T \subseteq 0 .. MaxSaves /\ T # {}
    <3>1. \A v \in stored : number[v] \in 0 .. MaxSaves
        BY DEF TypeOK
    <3> QED
        BY <1>2, <3>1
  <2>6. None \notin stored
      BY EntityAssumption DEF TypeOK, Saves, None
  <2>2. PICK x \in T : \A y \in T : y <= x
      BY <2>1, GreatestExists, EntityAssumption
  <2>3. \E v \in stored : \A u \in stored : number[u] <= number[v]
      BY <2>2
  <2>4. Newest(stored) = CHOOSE v \in stored : \A u \in stored : number[u] <= number[v]
      BY <1>2 DEF Newest
  <2>5. Newest(stored) \in stored /\ \A u \in stored : number[u] <= number[Newest(stored)]
      BY <2>3, <2>4
  <2> QED
      BY <2>5, <2>6
<1> QED
    BY <1>1, <1>2

\* A version is deleted by a request that saw the pointer.
LEMMA DanglesStep ==
    ASSUME TypeOK, Shown, Alone, Gone, Level, PointersAgree, Dangles,
           [Next]_vars
    PROVE  Dangles'
<1>1. CASE UNCHANGED <<marred, lost, parentStored, stored, number, storedPtr, pc, ppc, dpc, victim,
                      fallback>>
    BY <1>1 DEF Dangles, Quiet, SaveRuns, PruneRuns, MoveRuns, DropRuns, Ended
<1>2. CASE UNCHANGED vars
    BY <1>2, <1>1 DEF versions, parent, saves, prunes, drops, history, vars
<1>3. ASSUME NEW m \in Moves, MoveEnds(m)
      PROVE  Dangles'
    BY <1>3, <1>1 DEF MoveEnds, versions, saves, prunes, drops, history
<1>4. ASSUME NEW s \in Saves, SaveBegin(s)
      PROVE  Dangles'
    BY <1>4
       DEF SaveBegin, SaveArrives, versions, parent, prunes, drops, TypeOK, Dangles, Quiet,
           SaveRuns, PruneRuns, MoveRuns, DropRuns, Ended
<1>5. ASSUME NEW s \in Saves, SaveNumber(s)
      PROVE  Dangles'
  <2> SUFFICES ASSUME ~marred', lost' = {}, parentStored'
               PROVE  Dangles'
      BY DEF Dangles
  <2>1. ~marred /\ lost = {} /\ parentStored
      BY <1>5 DEF SaveNumber, parent, prunes, drops, history, TypeOK
  <2>2. /\ \A p \in Prunes : ppc[p] \in Ended
        /\ \A m \in Moves : mpc[m] \in Ended
        /\ \A d \in Drops : dpc[d] \in Ended
        /\ parentCached /\ pc[s] \notin Ended
      BY <1>5, <2>1, WhenSaving DEF SaveNumber, Ended
  <2> QED
      BY <1>5, <2>1, <2>2
         DEF SaveNumber, parent, prunes, drops, history, TypeOK, Dangles, Ended, DropRuns
<1>6. ASSUME NEW s \in Saves, SaveParts(s)
      PROVE  Dangles'
    BY <1>6
       DEF SaveParts, parent, prunes, drops, history, TypeOK, Dangles, Quiet, SaveRuns, PruneRuns,
           MoveRuns, DropRuns, Ended
<1>7. ASSUME NEW s \in Saves, SaveInserted(s)
      PROVE  Dangles'
  <2> SUFFICES ASSUME ~marred', lost' = {}, parentStored'
               PROVE  Dangles'
      BY DEF Dangles
  <2>1. ~marred /\ lost = {} /\ parentStored
      BY <1>7 DEF SaveInserted, parent, prunes, drops, history, TypeOK
  <2>2. /\ \A p \in Prunes : ppc[p] \in Ended
        /\ \A m \in Moves : mpc[m] \in Ended
        /\ \A d \in Drops : dpc[d] \in Ended
        /\ parentCached /\ pc[s] \notin Ended
      BY <1>7, <2>1, WhenSaving DEF SaveInserted, Ended
  <2> QED
      BY <1>7, <2>1, <2>2
         DEF SaveInserted, parent, prunes, drops, history, TypeOK, Dangles, Ended, DropRuns
<1>8. ASSUME NEW s \in Saves, SaveCached(s)
      PROVE  Dangles'
    BY <1>8
       DEF SaveCached, parent, prunes, drops, history, TypeOK, Dangles, Quiet, SaveRuns, PruneRuns,
           MoveRuns, DropRuns, Ended
<1>9. ASSUME NEW s \in Saves, SavePointed(s)
      PROVE  Dangles'
  <2> SUFFICES ASSUME ~marred', lost' = {}, parentStored'
               PROVE  Dangles'
      BY DEF Dangles
  <2>1. ~marred /\ lost = {} /\ parentStored
      BY <1>9 DEF SavePointed, versions, prunes, drops, history, TypeOK
  <2>2. /\ \A p \in Prunes : ppc[p] \in Ended
        /\ \A m \in Moves : mpc[m] \in Ended
        /\ \A d \in Drops : dpc[d] \in Ended
        /\ parentCached /\ pc[s] \notin Ended
      BY <1>9, <2>1, WhenSaving DEF SavePointed, Ended
  <2> QED
      BY <1>9, <2>1, <2>2
         DEF SavePointed, versions, prunes, drops, history, TypeOK, Dangles, Ended, DropRuns, Level
<1>10. ASSUME NEW s \in Saves, SaveEnds(s)
      PROVE  Dangles'
    BY <1>10
       DEF SaveEnds, versions, prunes, drops, history, TypeOK, Dangles, Quiet, SaveRuns, PruneRuns,
           MoveRuns, DropRuns, Ended
<1>11. ASSUME NEW s \in Saves, SaveFails(s)
      PROVE  Dangles'
    BY <1>11
       DEF SaveFails, prunes, drops, TypeOK, Dangles, Quiet, SaveRuns, PruneRuns, MoveRuns,
           DropRuns, Ended
<1>12. ASSUME NEW p \in Prunes, PruneBegin(p)
      PROVE  Dangles'
    BY <1>12
       DEF PruneBegin, OtherArrives, versions, parent, saves, drops, TypeOK, Dangles, Quiet,
           SaveRuns, PruneRuns, MoveRuns, DropRuns, Ended
<1>13. ASSUME NEW p \in Prunes, PruneDeleted(p)
      PROVE  Dangles'
  <2> SUFFICES ASSUME ~marred', lost' = {}, parentStored'
               PROVE  Dangles'
      BY DEF Dangles
  <2>1. ~marred /\ lost = {} /\ parentStored
      BY <1>13 DEF PruneDeleted, parent, saves, drops, history, TypeOK
  <2>2. /\ \A s \in Saves : pc[s] \in Ended
        /\ \A q \in Prunes \ {p} : ppc[q] \in Ended
        /\ \A m \in Moves : mpc[m] \in Ended
        /\ \A d \in Drops : dpc[d] \in Ended
        /\ parentCached
      BY <1>13, <2>1, WhenPruning DEF PruneDeleted, Ended
  <2>3. ~DropRuns /\ storedPtr \in stored \cup {None}
      BY <1>13, <2>1, <2>2 DEF PruneDeleted, Dangles, DropRuns, Ended
  <2>4. ppc'[p] = "deleted" /\ victim' = victim /\ stored' = stored \ {victim[p]} /\ storedPtr' = storedPtr
      BY <1>13 DEF PruneDeleted, parent, TypeOK
  <2> QED
      BY <1>13, <2>1, <2>2, <2>3, <2>4
         DEF PruneDeleted, parent, saves, drops, history, TypeOK, Dangles, Ended, DropRuns
<1>14. ASSUME NEW p \in Prunes, PruneUncached(p)
      PROVE  Dangles'
  <2> SUFFICES ASSUME ~marred', lost' = {}, parentStored'
               PROVE  Dangles'
      BY DEF Dangles
  <2>1. ~marred /\ lost = {} /\ parentStored
      BY <1>14 DEF PruneUncached, parent, saves, drops, history, TypeOK
  <2>2. /\ \A s \in Saves : pc[s] \in Ended
        /\ \A q \in Prunes \ {p} : ppc[q] \in Ended
        /\ \A m \in Moves : mpc[m] \in Ended
        /\ \A d \in Drops : dpc[d] \in Ended
        /\ parentCached
      BY <1>14, <2>1, WhenPruning DEF PruneUncached, Ended
  <2>3. UNCHANGED <<stored, storedPtr, number, victim>> /\ cached' = cached \ {victim[p]} /\ ppc[p] = "deleted"
      BY <1>14 DEF PruneUncached, parent
  <2>4. cached' = stored
    <3>1. \A v \in cached : v \in stored \/ v = victim[p]
        BY <2>1, <2>2, <2>3 DEF Level, DropRuns, Ended
    <3>2. \A v \in stored : v \in cached
        BY <2>1, <2>2 DEF Level, Ended, TypeOK
    <3>3. victim[p] \notin stored
        BY <2>3 DEF Shown
    <3> QED
        BY <2>3, <3>1, <3>2, <3>3
  <2>5. cachedPtr = storedPtr /\ seenPtr[p] = storedPtr
      BY <2>1, <2>2, <2>3 DEF PointersAgree, Ended
  <2>6. CASE seenPtr[p] = victim[p]
    <3>1. fallback' = [fallback EXCEPT ![p] = Newest(stored)] /\ ppc' = [ppc EXCEPT ![p] = "pointing"]
          /\ UNCHANGED number
        BY <1>14, <2>2, <2>4, <2>6 DEF PruneUncached
    <3>2. /\ Newest(stored) \in stored \cup {None}
          /\ \A v \in stored : Newest(stored) # None /\ number[v] <= number[Newest(stored)]
        BY NewestIsNewest
    <3>3. storedPtr' = victim'[p]
        BY <2>3, <2>5, <2>6
    <3> QED
        BY <2>2, <2>3, <3>1, <3>2, <3>3 DEF Dangles, TypeOK, Ended
  <2>7. CASE seenPtr[p] # victim[p]
    <3>1. UNCHANGED fallback /\ ppc' = [ppc EXCEPT ![p] = "done"]
        BY <1>14, <2>7 DEF PruneUncached
    <3>2. storedPtr \in stored \cup {None}
        BY <2>1, <2>2, <2>5, <2>7 DEF Dangles, DropRuns, Ended
    <3> QED
        BY <2>2, <2>3, <3>1, <3>2 DEF Dangles, TypeOK, Ended
  <2> QED
      BY <2>6, <2>7
<1>15. ASSUME NEW p \in Prunes, PrunePointed(p)
      PROVE  Dangles'
    BY <1>15
       DEF PrunePointed, versions, saves, drops, history, TypeOK, Dangles, Quiet, SaveRuns,
           PruneRuns, MoveRuns, DropRuns, Ended
<1>16. ASSUME NEW p \in Prunes, PruneEnds(p)
      PROVE  Dangles'
    BY <1>16
       DEF PruneEnds, versions, saves, drops, history, TypeOK, Dangles, Quiet, SaveRuns, PruneRuns,
           MoveRuns, DropRuns, Ended
<1>17. ASSUME NEW p \in Prunes, PruneFails(p)
      PROVE  Dangles'
    BY <1>17
       DEF PruneFails, parent, saves, drops, TypeOK, Dangles, Quiet, SaveRuns, PruneRuns, MoveRuns,
           DropRuns, Ended
<1>18. ASSUME NEW m \in Moves, MoveBegin(m)
      PROVE  Dangles'
    BY <1>18
       DEF MoveBegin, OtherArrives, versions, parent, saves, prunes, drops, TypeOK, Dangles, Quiet,
           SaveRuns, PruneRuns, MoveRuns, DropRuns, Ended
<1>19. ASSUME NEW m \in Moves, MovePointed(m)
      PROVE  Dangles'
  <2> SUFFICES ASSUME ~marred', lost' = {}, parentStored'
               PROVE  Dangles'
      BY DEF Dangles
  <2>1. ~marred /\ lost = {} /\ parentStored
      BY <1>19 DEF MovePointed, versions, saves, prunes, drops, history, TypeOK
  <2>2. /\ \A s \in Saves : pc[s] \in Ended
        /\ \A p \in Prunes : ppc[p] \in Ended
        /\ \A n \in Moves \ {m} : mpc[n] \in Ended
        /\ \A d \in Drops : dpc[d] \in Ended
        /\ parentCached
      BY <1>19, <2>1, WhenMoving DEF MovePointed, Ended
  <2> QED
      BY <1>19, <2>1, <2>2
         DEF MovePointed, versions, saves, prunes, drops, history, TypeOK, Dangles, Ended, DropRuns,
             Level
<1>20. ASSUME NEW d \in Drops, DropBegin(d)
      PROVE  Dangles'
    BY <1>20
       DEF DropBegin, OtherArrives, versions, parent, saves, prunes, TypeOK, Dangles, Quiet,
           SaveRuns, PruneRuns, MoveRuns, DropRuns, Ended
<1>21. ASSUME NEW d \in Drops, DropVersion(d)
      PROVE  Dangles'
  <2> SUFFICES ASSUME ~marred', lost' = {}, parentStored'
               PROVE  Dangles'
      BY DEF Dangles
  <2>1. ~marred /\ lost = {} /\ parentStored
      BY <1>21 DEF DropVersion, parent, saves, prunes, history, TypeOK
  <2>2. /\ \A s \in Saves : pc[s] \in Ended
        /\ \A p \in Prunes : ppc[p] \in Ended
        /\ \A m \in Moves : mpc[m] \in Ended
        /\ parentCached
      BY <1>21, <2>1, WhenDropping DEF DropVersion, Ended
  <2>3. dpc'[d] = "deleted"
      BY <1>21 DEF DropVersion, TypeOK
  <2> QED
      BY <1>21, <2>1, <2>2, <2>3
         DEF DropVersion, parent, saves, prunes, history, TypeOK, Dangles, Ended, DropRuns
<1>22. ASSUME NEW d \in Drops, DropUncached(d)
      PROVE  Dangles'
    BY <1>22
       DEF DropUncached, parent, saves, prunes, history, TypeOK, Dangles, Quiet, SaveRuns,
           PruneRuns, MoveRuns, DropRuns, Ended
<1>23. ASSUME NEW d \in Drops, DropParent(d)
      PROVE  Dangles'
    BY <1>23
       DEF DropParent, versions, saves, prunes, history, TypeOK, Dangles, Quiet, SaveRuns,
           PruneRuns, MoveRuns, DropRuns, Ended
<1>24. ASSUME NEW d \in Drops, DropEnds(d)
      PROVE  Dangles'
  <2>1. ~parentStored
      BY <1>24 DEF DropEnds, Gone
  <2> QED
      BY <1>24, <2>1 DEF DropEnds, Dangles
<1>25. CASE Restart
    BY <1>25 DEF Restart, Ended, TypeOK, Dangles, Quiet, SaveRuns, PruneRuns, MoveRuns, DropRuns
<1> QED
    BY <1>1, <1>2, <1>3, <1>4, <1>5, <1>6, <1>7, <1>8, <1>9, <1>10, <1>11, <1>12, <1>13, <1>14,
       <1>15, <1>16, <1>17, <1>18, <1>19, <1>20, <1>21, <1>22, <1>23, <1>24, <1>25
       DEF Next, SaveStep, PruneStep, MoveStep, DropStep

-----------------------------------------------------------------------------
(***************************************************************************)
(* The theorems about the pointer.                                         *)
(***************************************************************************)

LEMMA PointersInit ==
    ASSUME Init
    PROVE  Pointers
<1>1. FailedSaves = {} /\ Cardinality(FailedSaves) = 0
    BY FS_EmptySet DEF Init, FailedSaves
<1>2. Failing
    BY <1>1 DEF Init, Failing
<1>3. Kept /\ Ahead /\ Written /\ NewestIsCurrent
    BY DEF Init, Kept, Ahead, Written, NewestIsCurrent
<1>4. Alone /\ Gone
    BY DEF Init, Alone, Gone, Quiet, SaveRuns, PruneRuns, MoveRuns, DropRuns, Ended
<1>5. Level /\ PointersAgree /\ Dangles
    BY DEF Init, Level, PointersAgree, Dangles
<1> QED
    BY <1>2, <1>3, <1>4, <1>5 DEF Pointers

LEMMA PointersStep ==
    ASSUME IInv, Pointers, [Next]_vars
    PROVE  Pointers'
<1>1. OneWriter
    BY LineHasOneWriter DEF IInv, TypeOK, LineTypes
<1>2. Failing' /\ Kept' /\ Ahead' /\ Written' /\ NewestIsCurrent'
    BY <1>1, FailingStep, KeptStep, AheadStep, WrittenStep, NewestStep DEF IInv, Pointers
<1>3. Alone' /\ Gone' /\ Level' /\ PointersAgree' /\ Dangles'
    BY <1>1, AloneStep, GoneStep, LevelStep, PointersAgreeStep, DanglesStep DEF IInv, Pointers
<1> QED
    BY <1>2, <1>3 DEF Pointers

LEMMA PointersHold == Spec => []Pointers
<1>1. Init => Pointers
    BY PointersInit
<1>2. IInv /\ Pointers /\ [Next]_vars => Pointers'
    BY PointersStep
<1> QED
    BY <1>1, <1>2, Invariance, PTL DEF Spec

\* As many saves fail as calls of the store did, and no save fails because one
\* before it in line did, until somebody deletes the entity (previous.catch in
\* allocateVersion).
THEOREM FailuresStayOwn == Spec => []FailuresAreOwn
<1>1. Pointers => FailuresAreOwn
    BY DEF Pointers, Failing, FailuresAreOwn, FailedSaves
<1> QED
    BY <1>1, PointersHold, PTL

\* Where versions are only saved, the entity points at no version older than one
\* whose save was answered: in the store, and in the cache where it is loaded
\* (setCurrentVersion inside the lock).
THEOREM NewestStaysCurrent == Spec => []NewestIsCurrent
<1>1. Pointers => NewestIsCurrent
    BY DEF Pointers
<1> QED
    BY <1>1, PointersHold, PTL

\* A version DELETE that moves the pointer moves it to the newest version there
\* is, and an entity at rest points at a version that exists, or at none, unless a
\* request that is not a save overlapped another, or a call landed that was
\* reported failed (DELETE /:id/versions/:version).
THEOREM PointerNamesAVersion == Spec => []PointerFallsBack
<1>1. ASSUME Pointers, ~marred, lost = {}, Quiet, parentStored
      PROVE  storedPtr \in stored \cup {None}
    BY <1>1 DEF Pointers, Dangles, Quiet, PruneRuns, Ended
<1>2. ASSUME Pointers, ~marred, lost = {}, NEW p \in Prunes, ppc[p] = "pointed", NEW v \in stored
      PROVE  storedPtr # None /\ number[v] <= number[storedPtr]
  <2>1. parentStored
      BY <1>2, WhenPruning DEF Pointers, Ended
  <2> QED
      BY <1>2, <2>1 DEF Pointers, PointersAgree, Dangles
<1>3. Pointers => PointerFallsBack
    BY <1>1, <1>2 DEF PointerFallsBack
<1> QED
    BY <1>3, PointersHold, PTL

=============================================================================
