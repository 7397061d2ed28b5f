----------------------------- MODULE PatchService -----------------------------
(***************************************************************************)
(* The patches of one backend: previewed, applied, recorded, reverted and  *)
(* swept (packages/api/src/lib/patchService.ts), and the log read from     *)
(* their records (patchLog.ts).                                            *)
(*                                                                         *)
(* A call waits for the store to derive, for the store to change, and for  *)
(* the record to be written; between those steps other calls run.  A patch *)
(* is identified by the call that recorded it.  The derivation itself,     *)
(* several queries long, is one moment here: DerivePatch is about what     *)
(* happens inside it.                                                      *)
(***************************************************************************)
EXTENDS RdfDelta, FiniteSets

CONSTANTS
    Calls,        \* the calls of the service, and the patches they record
    Update,       \* the updates there are: [name -> Operations]
    None,         \* no update, no patch
    MaxTime,      \* bound: the last time there is
    MaxFailures   \* bound: calls of the store or of the library that fail

ASSUME UpdateAssumption == Update \in [DOMAIN Update -> Operations]
ASSUME CallsAssumption == IsFiniteSet(Calls)
ASSUME NoneAssumption == None \notin DOMAIN Update /\ None \notin Calls
ASSUME BoundAssumption == MaxTime \in Nat \ {0} /\ MaxFailures \in Nat

VARIABLES
    store,        \* the backend
    status, recorded, update, inverseOf, dateApplied,   \* the records, by patch
    pc, kind,     \* where each call is, and which call it is
    target,       \* the patch it applies or reverts
    delta,        \* the quads it derived, or is to apply
    string,       \* the update it was given
    stamp,        \* when it says its quads landed
    stale,        \* the previews a sweep is still to delete
    now, failures,
    tainted       \* history: a step after which the log may miss what happened

records == <<status, recorded, update, inverseOf, dateApplied>>
limits == <<now, failures>>
vars == <<store, status, recorded, update, inverseOf, dateApplied, pc, kind, target, delta,
          string, stamp, stale, now, failures, tainted>>

Statuses == {"none", "previewed", "applied", "failed", "reverted", "deleted"}
Kinds == {"none", "preview", "apply", "record", "existing", "revert", "sweep"}

Stored == {p \in Calls : status[p] \notin {"none", "deleted"}}

Records == INSTANCE PatchLog

Goto(c, where) == pc' = [pc EXCEPT ![c] = where]

Fail ==
    /\ failures < MaxFailures
    /\ failures' = failures + 1
    /\ UNCHANGED now

\* The quads of a call are in the store, and it has not yet said when.
Unstamped(c) ==
    pc[c] = "answered" \/ (pc[c] = "marking" /\ kind[c] = "revert")

-----------------------------------------------------------------------------

Init ==
    /\ store = {}
    /\ status = [p \in Calls |-> "none"]
    /\ recorded = [p \in Calls |-> EmptyDelta]
    /\ update = [p \in Calls |-> None]
    /\ inverseOf = [p \in Calls |-> None]
    /\ dateApplied = [p \in Calls |-> 0]
    /\ pc = [c \in Calls |-> "idle"]
    /\ kind = [c \in Calls |-> "none"]
    /\ target = [c \in Calls |-> None]
    /\ delta = [c \in Calls |-> EmptyDelta]
    /\ string = [c \in Calls |-> None]
    /\ stamp = [c \in Calls |-> 0]
    /\ stale = [c \in Calls |-> {}]
    /\ now = 1 /\ failures = 0
    /\ tainted = FALSE

Begin(c, k) ==
    /\ pc[c] = "idle"
    /\ kind' = [kind EXCEPT ![c] = k]
    /\ UNCHANGED <<store, records, stamp, limits, tainted>>

\* previewUpdate, applyUpdate, recordPassthroughUpdate: derive first.
StartUpdate(c) ==
    \E k \in {"preview", "apply", "record"}, u \in DOMAIN Update :
        /\ Begin(c, k)
        /\ string' = [string EXCEPT ![c] = u]
        /\ delta' = [delta EXCEPT ![c] = NetEffect(Update[u], store)]
        /\ Goto(c, IF k = "preview" THEN "persisting" ELSE "landing")
        /\ UNCHANGED <<target, stale>>

\* Applying a stored patch; only one that is applied already is refused.
StartExisting(c) ==
    \E p \in Stored :
        /\ status[p] # "applied"
        /\ Begin(c, "existing")
        /\ target' = [target EXCEPT ![c] = p]
        /\ Goto(c, "rederiving")
        /\ UNCHANGED <<string, delta, stale>>

\* Only an applied patch can be reverted, by the inverse of what was recorded.
StartRevert(c) ==
    \E p \in Stored :
        /\ status[p] = "applied"
        /\ Begin(c, "revert")
        /\ target' = [target EXCEPT ![c] = p]
        /\ delta' = [delta EXCEPT ![c] = Invert(recorded[p])]
        /\ Goto(c, "landing")
        /\ UNCHANGED <<string, stale>>

\* The previews old enough to go; how many are is left open.
StartSweep(c) ==
    \E old \in SUBSET {p \in Stored : status[p] = "previewed"} \ {{}} :
        /\ Begin(c, "sweep")
        /\ stale' = [stale EXCEPT ![c] = old]
        /\ Goto(c, "sweeping")
        /\ UNCHANGED <<string, target, delta>>

\* The patch is derived again.  Unless the caller forces it, it must be the one
\* that was approved.  A revert has no update: its recorded quads are applied.
Rederive(c) ==
    /\ pc[c] = "rederiving"
    /\ LET p == target[c]
           fresh == IF update[p] = None THEN recorded[p] ELSE NetEffect(Update[update[p]], store)
       IN  \/ /\ fresh # recorded[p]
              /\ Goto(c, "done")
              /\ UNCHANGED <<delta, tainted>>
           \/ /\ delta' = [delta EXCEPT ![c] = fresh]
              /\ Goto(c, "landing")
              /\ tainted' = (tainted \/ fresh # recorded[p])
    /\ UNCHANGED <<store, records, kind, target, string, stamp, stale, limits>>

\* The store takes the quads, or the update itself when it is only recorded.
Landing(c) ==
    IF kind[c] = "record" THEN Execute(Update[string[c]], store) ELSE ApplyDelta(delta[c], store)

\* What makes a landing one the log may misplace: another call's quads landed and
\* are not dated yet, the update did not do what was derived for it, or the patch
\* has landed before.
Misplaced(c) ==
    \/ \E d \in Calls : Unstamped(d)
    \/ kind[c] = "record" /\ Landing(c) # ApplyDelta(delta[c], store)
    \/ kind[c] = "existing" /\
         \/ status[target[c]] \in {"applied", "reverted"}
         \/ \E d \in Calls \ {c} : target[d] = target[c] /\ pc[d] = "marking"

Land(c) ==
    /\ pc[c] = "landing"
    /\ store' = Landing(c)
    /\ tainted' = (tainted \/ Misplaced(c))
    /\ Goto(c, "answered")
    /\ UNCHANGED <<records, kind, target, delta, string, stamp, stale, limits>>

\* The store rejects, with the update done or not; there is nothing to reject in
\* an empty patch.  A recorded update is then kept as failed.
LandFails(c) ==
    /\ pc[c] = "landing"
    /\ kind[c] = "record" \/ delta[c] # EmptyDelta
    /\ Fail
    /\ \/ UNCHANGED <<store, tainted>>
       \/ store' = Landing(c) /\ tainted' = TRUE
    /\ Goto(c, IF kind[c] = "record" THEN "excusing" ELSE "done")
    /\ UNCHANGED <<records, kind, target, delta, string, stamp, stale>>

(* Answer_MarksAll and Mark_ForgetsRevert are faulty variants, used by nothing: *)
(* they show what the properties catch.                                        *)
Answer_MarksAll(c) ==
    /\ pc[c] = "answered"
    /\ stamp' = IF kind[c] = "revert" THEN stamp ELSE [stamp EXCEPT ![c] = now]
    /\ Goto(c, "marking")
    /\ UNCHANGED <<store, records, kind, target, delta, string, stale, limits, tainted>>

\* The answer arrives.  An apply is dated now; a revert first marks its target.
Answer(c) ==
    /\ pc[c] = "answered"
    /\ stamp' = IF kind[c] = "revert" THEN stamp ELSE [stamp EXCEPT ![c] = now]
    /\ Goto(c, IF kind[c] \in {"existing", "revert"} THEN "marking" ELSE "persisting")
    /\ UNCHANGED <<store, records, kind, target, delta, string, stale, limits, tainted>>

Mark_ForgetsRevert(c) ==
    /\ pc[c] = "marking"
    /\ LET p == target[c] IN
         IF kind[c] = "existing"
         THEN /\ status' = IF p \in Stored THEN [status EXCEPT ![p] = "applied"] ELSE status
              /\ dateApplied' = IF p \in Stored THEN [dateApplied EXCEPT ![p] = stamp[c]] ELSE dateApplied
              /\ tainted' = (tainted \/ p \notin Stored)
              /\ Goto(c, "done")
              /\ UNCHANGED stamp
         ELSE /\ stamp' = [stamp EXCEPT ![c] = now]
              /\ Goto(c, "persisting")
              /\ UNCHANGED <<status, dateApplied, tainted>>
    /\ UNCHANGED <<store, recorded, update, inverseOf, kind, target, delta, string, stale, limits>>

\* The patch that was applied, or reverted, says so; one that was swept meanwhile
\* is not there to be updated.  The inverse of a revert is dated after that.
Mark(c) ==
    /\ pc[c] = "marking"
    /\ LET p == target[c] IN
         /\ status' = IF p \in Stored
                      THEN [status EXCEPT ![p] = IF kind[c] = "revert" THEN "reverted" ELSE "applied"]
                      ELSE status
         /\ IF kind[c] = "existing"
            THEN /\ dateApplied' = IF p \in Stored THEN [dateApplied EXCEPT ![p] = stamp[c]]
                                   ELSE dateApplied
                 /\ tainted' = (tainted \/ p \notin Stored)
                 /\ Goto(c, "done")
                 /\ UNCHANGED stamp
            ELSE /\ stamp' = [stamp EXCEPT ![c] = now]
                 /\ Goto(c, "persisting")
                 /\ UNCHANGED <<dateApplied, tainted>>
    /\ UNCHANGED <<store, recorded, update, inverseOf, kind, target, delta, string, stale, limits>>

\* The record of the call: a preview, or what landed and when, or, after a
\* recorded update that failed, what it would have done.
Persist(c) ==
    /\ pc[c] \in {"persisting", "excusing"}
    /\ status' = [status EXCEPT ![c] = IF pc[c] = "excusing" THEN "failed"
                                       ELSE IF kind[c] = "preview" THEN "previewed" ELSE "applied"]
    /\ recorded' = [recorded EXCEPT ![c] = delta[c]]
    /\ update' = [update EXCEPT ![c] = string[c]]
    /\ inverseOf' = [inverseOf EXCEPT ![c] = IF kind[c] = "revert" THEN target[c] ELSE None]
    /\ dateApplied' = [dateApplied EXCEPT ![c] = stamp[c]]
    /\ Goto(c, "done")
    /\ UNCHANGED <<store, kind, target, delta, string, stamp, stale, limits, tainted>>

\* The library rejects a write: what landed stays landed, and unrecorded; what a
\* sweep has not deleted yet stays.
WriteFails(c) ==
    /\ pc[c] \in {"marking", "persisting", "excusing", "sweeping"}
    /\ Fail
    /\ Goto(c, "done")
    /\ tainted' = (tainted \/ kind[c] \notin {"preview", "sweep"})
    /\ UNCHANGED <<store, records, kind, target, delta, string, stamp, stale>>

\* One stale preview after the other, whatever it has become since.
Sweep(c) ==
    /\ pc[c] = "sweeping"
    /\ \E p \in stale[c] :
         /\ status' = [status EXCEPT ![p] = "deleted"]
         /\ stale' = [stale EXCEPT ![c] = @ \ {p}]
         /\ Goto(c, IF stale[c] = {p} THEN "done" ELSE "sweeping")
         /\ tainted' = (tainted \/ status[p] \in {"applied", "reverted"})
    /\ UNCHANGED <<store, recorded, update, inverseOf, dateApplied, kind, target, delta, string,
                   stamp, limits>>

Tick ==
    /\ now < MaxTime
    /\ now' = now + 1
    /\ UNCHANGED <<store, records, pc, kind, target, delta, string, stamp, stale, failures, tainted>>

CallStep(c) ==
    \/ StartUpdate(c) \/ StartExisting(c) \/ StartRevert(c) \/ StartSweep(c)
    \/ Rederive(c) \/ Land(c) \/ LandFails(c) \/ Answer(c) \/ Mark(c) \/ Persist(c)
    \/ WriteFails(c) \/ Sweep(c)

Next == Tick \/ \E c \in Calls : CallStep(c)

Spec == Init /\ [][Next]_vars

-----------------------------------------------------------------------------
(***************************************************************************)
(* Properties.                                                             *)
(***************************************************************************)

\* Every variable keeps its range, and a call that lands has what it lands.
TypeOK ==
    /\ store \in GraphStates
    /\ status \in [Calls -> Statuses]
    /\ recorded \in [Calls -> Deltas] /\ delta \in [Calls -> Deltas]
    /\ update \in [Calls -> DOMAIN Update \cup {None}]
    /\ string \in [Calls -> DOMAIN Update \cup {None}]
    /\ inverseOf \in [Calls -> Calls \cup {None}] /\ target \in [Calls -> Calls \cup {None}]
    /\ dateApplied \in [Calls -> 0 .. MaxTime] /\ stamp \in [Calls -> 0 .. MaxTime]
    /\ pc \in [Calls -> {"idle", "rederiving", "landing", "answered", "marking", "persisting",
                         "excusing", "sweeping", "done"}]
    /\ kind \in [Calls -> Kinds]
    /\ stale \in [Calls -> SUBSET Calls]
    /\ now \in 1 .. MaxTime /\ failures \in 0 .. MaxFailures /\ tainted \in BOOLEAN
    /\ \A c \in Calls :
         /\ pc[c] \in {"rederiving", "marking"} \/ kind[c] \in {"existing", "revert"} => target[c] \in Calls
         /\ kind[c] \in {"preview", "apply", "record"} => string[c] \in DOMAIN Update

\* No call has changed the store and not yet written the record of it.
Quiet == \A c \in Calls : pc[c] \in {"idle", "rederiving", "landing", "sweeping", "done"}

\* At most two patches of the log share a timestamp.  Of three, the caveat looks
\* only at neighbours and can miss the pair that matters.
Paired ==
    \A t \in 1 .. MaxTime : Cardinality({p \in Records!Log : dateApplied[p] = t}) <= 2

\* patchLog.ts: the log, in whichever order its keys give, folds to the graph the
\* backend holds, unless it says that a shared timestamp may mislead, or one of
\* the steps named by "tainted" happened.
LogFoldsToStore ==
    Quiet /\ ~tainted /\ Paired =>
        \A pos \in Records!KeyOrders :
            LET path == Records!Path(pos) IN
            Records!TiedTimestamp(path) \/ Records!Fold(path) = store

\* revertPatch marks the target and then records the inverse: when nothing failed
\* between, every reverted patch has its inverse in the log, and a patch that was
\* reverted, and not applied again, says so.
RevertsAreLinked ==
    Quiet /\ failures = 0 =>
        \A p \in Calls :
            /\ status[p] = "reverted" =>
                 \E r \in Records!Log : inverseOf[r] = p /\ recorded[r] = Invert(recorded[p])
            /\ ~tainted =>
                 \A r \in Records!Log : inverseOf[r] = p => status[p] = "reverted"

=============================================================================
