------------------------------ MODULE BlobRebase ------------------------------
(***************************************************************************)
(* One graph in one blob, written with conditional puts                    *)
(* (packages/rdf-delta/src/blobSnapshot.ts, blobStore.ts, blobStoreHttp.ts)*)
(*                                                                         *)
(* A writer lands one update with rebaseAndRetry: it reads the blob, runs  *)
(* the update on what it read in a store of its own, writes the result on  *)
(* the condition that nobody wrote in between, and starts over when        *)
(* somebody did.  A checkpointer keeps the graph in its own store and      *)
(* writes it with checkpointGraph over the version it wrote last.          *)
(*                                                                         *)
(* Parsing, deriving, applying and dumping touch only the writer's own     *)
(* store, so they are one step with the answer of the GET.  The steps left *)
(* are those the blob store sees, and the answers that may be lost.        *)
(***************************************************************************)
EXTENDS RdfDelta, FiniteSets

CONSTANTS
    Writers,        \* callers of rebaseAndRetry
    Checkpointers,  \* callers of checkpointGraph
    Update,         \* [Writers -> Operations], what each writer lands
    InGraph,        \* the quads of the graph the blob holds
    Blank,          \* the quads that carry a blank node
    Absent,         \* there is no blob, or no digest
    EtagKinds,      \* whether tokens name the bytes (S3) or are new with every write
                    \* (Azure, memory): the kinds of blob store there are
    MaxAttempts,    \* maxAttempts of rebaseAndRetry
    MayOmitEtag,    \* answers may come without a token
    MaxFailures,    \* bound: calls that fail, or whose answer is lost
    MaxRemovals,    \* bound: deletions of the blob
    MaxEdits        \* bound: changes of the checkpointers' stores

GraphBody == SUBSET InGraph

ASSUME QuadsAssumption == InGraph \subseteq Quads /\ Blank \subseteq Quads
ASSUME AbsentAssumption == \A g \in GraphBody : g # Absent
ASSUME UpdateAssumption == Update \in [Writers -> Operations]
ASSUME SwitchAssumption == EtagKinds \subseteq BOOLEAN /\ MayOmitEtag \in BOOLEAN
ASSUME BoundAssumption == MaxAttempts \in Nat \ {0} /\ MaxFailures \in Nat /\ MaxRemovals \in Nat /\ MaxEdits \in Nat

VARIABLES
    contentEtags,    \* the kind of blob store it is
    body, etag,      \* the blob, or Absent, and its token
    minted,          \* how many writes the store has taken
    pc, attempt,     \* where each writer is, and in which attempt
    held, out,       \* the token it read, and the body it is about to put
    phase,           \* where each checkpointer is
    local,           \* the graph in its store
    token, digest,   \* the token and digest it keeps of its last checkpoint
    dumped,          \* the body it is about to put
    failures, removals, edits,
    landed,          \* history: writers whose update the blob store took
    basis,           \* history: the body each checkpointer's token names
    since            \* history: writes and removals when each writer began

blob == <<body, etag, minted>>
writers == <<pc, attempt, held, out>>
checkpointers == <<phase, local, token, digest, dumped>>
bounds == <<contentEtags, failures, removals, edits>>
history == <<landed, basis, since>>
vars == <<contentEtags, body, etag, minted, pc, attempt, held, out, phase, local, token, digest, dumped,
          failures, removals, edits, landed, basis, since>>

-----------------------------------------------------------------------------

Etags == [seq : Nat \ {0}, content : GraphBody]
NoEtag == [seq |-> 0, content |-> {}]

\* The token of a write: its content's, or one that was never handed out.
NewEtag(b) ==
    IF contentEtags THEN [seq |-> 1, content |-> b] ELSE [seq |-> minted + 1, content |-> {}]

Content(b) == IF b = Absent THEN {} ELSE b

\* The condition of a put: to create, or to replace one version.  A missing
\* blob fails a replace, which would bring back a graph somebody deleted.
Holds(t) == IF t = NoEtag THEN body = Absent ELSE body # Absent /\ etag = t

Write(b) ==
    /\ body' = b
    /\ etag' = NewEtag(b)
    /\ minted' = minted + 1

\* What a writer derives, in a store that holds the graph and nothing else.
Derived(w) == NetEffect(Update[w], Content(body))
GroundPatch(p) == (p.deletions \cup p.additions) \cap Blank = {}

-----------------------------------------------------------------------------

Init ==
    /\ contentEtags \in EtagKinds
    /\ body = Absent /\ etag = NoEtag /\ minted = 0
    /\ pc = [w \in Writers |-> "idle"]
    /\ attempt = [w \in Writers |-> 0]
    /\ held = [w \in Writers |-> NoEtag]
    /\ out = [w \in Writers |-> {}]
    /\ phase = [c \in Checkpointers |-> "idle"]
    /\ local = [c \in Checkpointers |-> {}]
    /\ token = [c \in Checkpointers |-> NoEtag]
    /\ digest = [c \in Checkpointers |-> Absent]
    /\ dumped = [c \in Checkpointers |-> {}]
    /\ failures = 0 /\ removals = 0 /\ edits = 0
    /\ landed = {}
    /\ basis = [c \in Checkpointers |-> Absent]
    /\ since = [w \in Writers |-> 0]

(***************************************************************************)
(* rebaseAndRetry.                                                         *)
(***************************************************************************)

Begin(w) ==
    /\ pc[w] = "idle"
    /\ pc' = [pc EXCEPT ![w] = "reading"]
    /\ attempt' = [attempt EXCEPT ![w] = 1]
    /\ since' = [since EXCEPT ![w] = minted + removals]
    /\ UNCHANGED <<blob, held, out, checkpointers, bounds, landed, basis>>

\* Slip: the result of the first attempt is put again, over the new token.
ReadAndRebase_Replays(w) ==
    /\ pc[w] = "reading"
    /\ GroundPatch(Derived(w))
    /\ held' = [held EXCEPT ![w] = IF body = Absent THEN NoEtag ELSE etag]
    /\ out' = IF attempt[w] > 1 THEN out
              ELSE [out EXCEPT ![w] = ApplyDelta(Derived(w), Content(body)) \cap InGraph]
    /\ pc' = [pc EXCEPT ![w] = "putting"]
    /\ UNCHANGED <<blob, attempt, checkpointers, bounds, history>>

\* Slip: the token is read once, before the loop.
ReadAndRebase_OldToken(w) ==
    /\ pc[w] = "reading"
    /\ GroundPatch(Derived(w))
    /\ held' = IF attempt[w] > 1 THEN held
               ELSE [held EXCEPT ![w] = IF body = Absent THEN NoEtag ELSE etag]
    /\ out' = [out EXCEPT ![w] = ApplyDelta(Derived(w), Content(body)) \cap InGraph]
    /\ pc' = [pc EXCEPT ![w] = "putting"]
    /\ UNCHANGED <<blob, attempt, checkpointers, bounds, history>>

\* The blob is read, parsed into a new store, the update derived against it and
\* applied, and the graph dumped.  Quads of other graphs are not in the dump.
ReadAndRebase(w) ==
    /\ pc[w] = "reading"
    /\ GroundPatch(Derived(w))
    /\ held' = [held EXCEPT ![w] = IF body = Absent THEN NoEtag ELSE etag]
    /\ out' = [out EXCEPT ![w] = ApplyDelta(Derived(w), Content(body)) \cap InGraph]
    /\ pc' = [pc EXCEPT ![w] = "putting"]
    /\ UNCHANGED <<blob, attempt, checkpointers, bounds, history>>

\* A blob read without a token, or a patch with blank nodes, ends the call.
ReadThrows(w) ==
    /\ pc[w] = "reading"
    /\ (MayOmitEtag /\ body # Absent) \/ ~GroundPatch(Derived(w))
    /\ pc' = [pc EXCEPT ![w] = "threw"]
    /\ UNCHANGED <<blob, attempt, held, out, checkpointers, bounds, history>>

PutStored(w) ==
    /\ pc[w] = "putting"
    /\ Holds(held[w])
    /\ Write(out[w])
    /\ landed' = landed \cup {w}
    /\ pc' = [pc EXCEPT ![w] = "stored"]
    /\ UNCHANGED <<attempt, held, out, checkpointers, bounds, basis, since>>

\* Slip: a lost answer is taken for a conflict and the put tried again.
PutUnheard_Retries(w) ==
    /\ pc[w] = "putting"
    /\ failures < MaxFailures
    /\ Holds(held[w])
    /\ Write(out[w])
    /\ landed' = landed \cup {w}
    /\ pc' = [pc EXCEPT ![w] = "reading"]
    /\ failures' = failures + 1
    /\ UNCHANGED <<attempt, held, out, checkpointers, contentEtags, removals, edits, basis, since>>

\* The put is taken and the answer lost: the call throws.
PutUnheard(w) ==
    /\ pc[w] = "putting"
    /\ failures < MaxFailures
    /\ Holds(held[w])
    /\ Write(out[w])
    /\ landed' = landed \cup {w}
    /\ pc' = [pc EXCEPT ![w] = "threw"]
    /\ failures' = failures + 1
    /\ UNCHANGED <<attempt, held, out, checkpointers, contentEtags, removals, edits, basis, since>>

\* Slip: the attempts are counted from one and compared with <=.
PutRefused_OneMore(w) ==
    /\ pc[w] = "putting"
    /\ ~Holds(held[w])
    /\ IF attempt[w] <= MaxAttempts
         THEN /\ pc' = [pc EXCEPT ![w] = "reading"]
              /\ attempt' = [attempt EXCEPT ![w] = @ + 1]
         ELSE /\ pc' = [pc EXCEPT ![w] = "exhausted"]
              /\ UNCHANGED attempt
    /\ UNCHANGED <<blob, held, out, checkpointers, bounds, history>>

\* Slip: the last attempt is not made.
PutRefused_OneLess(w) ==
    /\ pc[w] = "putting"
    /\ ~Holds(held[w])
    /\ IF attempt[w] < MaxAttempts - 1
         THEN /\ pc' = [pc EXCEPT ![w] = "reading"]
              /\ attempt' = [attempt EXCEPT ![w] = @ + 1]
         ELSE /\ pc' = [pc EXCEPT ![w] = "exhausted"]
              /\ UNCHANGED attempt
    /\ UNCHANGED <<blob, held, out, checkpointers, bounds, history>>

\* Somebody else was first: try again, up to maxAttempts times.
PutRefused(w) ==
    /\ pc[w] = "putting"
    /\ ~Holds(held[w])
    /\ IF attempt[w] < MaxAttempts
         THEN /\ pc' = [pc EXCEPT ![w] = "reading"]
              /\ attempt' = [attempt EXCEPT ![w] = @ + 1]
         ELSE /\ pc' = [pc EXCEPT ![w] = "exhausted"]
              /\ UNCHANGED attempt
    /\ UNCHANGED <<blob, held, out, checkpointers, bounds, history>>

\* A get or a put answers with an error, or the graph outgrows the parser.
CallThrows(w) ==
    /\ pc[w] \in {"reading", "putting"}
    /\ failures < MaxFailures
    /\ failures' = failures + 1
    /\ pc' = [pc EXCEPT ![w] = "threw"]
    /\ UNCHANGED <<blob, attempt, held, out, checkpointers, contentEtags, removals, edits, history>>

(***************************************************************************)
(* checkpointGraph, and the callers that keep its token and digest.        *)
(***************************************************************************)

Edit(c) ==
    /\ edits < MaxEdits
    /\ edits' = edits + 1
    /\ \E g \in GraphBody \ {local[c]} : local' = [local EXCEPT ![c] = g]
    /\ UNCHANGED <<blob, writers, phase, token, digest, dumped, contentEtags, failures, removals, history>>

\* The store is dumped; a dump that equals the last one stored is not written.
Checkpoint(c) ==
    /\ phase[c] = "idle"
    /\ digest[c] # local[c]
    /\ dumped' = [dumped EXCEPT ![c] = local[c]]
    /\ phase' = [phase EXCEPT ![c] = "putting"]
    /\ UNCHANGED <<blob, writers, local, token, digest, bounds, history>>

\* The put is taken: its token is learnt, or missing from the answer, or the
\* answer is lost and the caller keeps what it had.
CheckpointStored(c) ==
    /\ phase[c] = "putting"
    /\ Holds(token[c])
    /\ Write(dumped[c])
    /\ phase' = [phase EXCEPT ![c] = "idle"]
    /\ \/ /\ token' = [token EXCEPT ![c] = etag']
          /\ basis' = [basis EXCEPT ![c] = dumped[c]]
          /\ digest' = [digest EXCEPT ![c] = dumped[c]]
          /\ UNCHANGED failures
       \/ /\ MayOmitEtag
          /\ token' = [token EXCEPT ![c] = NoEtag]
          /\ basis' = [basis EXCEPT ![c] = Absent]
          /\ digest' = [digest EXCEPT ![c] = dumped[c]]
          /\ UNCHANGED failures
       \/ /\ failures < MaxFailures
          /\ failures' = failures + 1
          /\ UNCHANGED <<token, digest, basis>>
    /\ UNCHANGED <<writers, local, dumped, contentEtags, removals, edits, landed, since>>

\* A conflict is returned; the caller still holds the token that lost.
CheckpointConflicts(c) ==
    /\ phase[c] = "putting"
    /\ ~Holds(token[c])
    /\ phase' = [phase EXCEPT ![c] = "idle"]
    /\ UNCHANGED <<blob, writers, local, token, digest, dumped, bounds, history>>

\* Somebody deletes the blob.
Remove ==
    /\ body # Absent
    /\ removals < MaxRemovals
    /\ body' = Absent
    /\ etag' = NoEtag
    /\ removals' = removals + 1
    /\ UNCHANGED <<minted, writers, checkpointers, contentEtags, failures, edits, history>>

WriterStep(w) ==
    Begin(w) \/ ReadAndRebase(w) \/ ReadThrows(w) \/ PutStored(w) \/ PutUnheard(w)
      \/ PutRefused(w) \/ CallThrows(w)

CheckpointerStep(c) ==
    Edit(c) \/ Checkpoint(c) \/ CheckpointStored(c) \/ CheckpointConflicts(c)

Next ==
    \/ \E w \in Writers : WriterStep(w)
    \/ \E c \in Checkpointers : CheckpointerStep(c)
    \/ Remove

Spec == Init /\ [][Next]_vars

\* A writer's call keeps running; nobody is made to begin one, or to fail.
Running(w) == ReadAndRebase(w) \/ ReadThrows(w) \/ PutStored(w) \/ PutRefused(w)

FairSpec == Spec /\ \A w \in Writers : WF_vars(Running(w))

-----------------------------------------------------------------------------
(***************************************************************************)
(* Properties.                                                             *)
(***************************************************************************)

Bodies == GraphBody \cup {Absent}
Tokens == Etags \cup {NoEtag}

\* Every variable keeps its range, and no writer tries more than maxAttempts times.
TypeOK ==
    /\ contentEtags \in BOOLEAN
    /\ body \in Bodies /\ etag \in Tokens /\ minted \in Nat
    /\ pc \in [Writers -> {"idle", "reading", "putting", "stored", "exhausted", "threw"}]
    /\ attempt \in [Writers -> 0 .. MaxAttempts]
    /\ held \in [Writers -> Tokens] /\ out \in [Writers -> GraphBody]
    /\ phase \in [Checkpointers -> {"idle", "putting"}]
    /\ local \in [Checkpointers -> GraphBody] /\ dumped \in [Checkpointers -> GraphBody]
    /\ token \in [Checkpointers -> Tokens] /\ digest \in [Checkpointers -> Bodies]
    /\ failures \in 0 .. MaxFailures /\ removals \in 0 .. MaxRemovals /\ edits \in 0 .. MaxEdits
    /\ landed \subseteq Writers
    /\ basis \in [Checkpointers -> Bodies]
    /\ since \in [Writers -> Nat]

Graph == INSTANCE SerialGraph WITH graph <- body

\* Whatever the interleaving, the failures and the deletions, the blob changes as
\* if the updates ran one after the other, each on the graph the last one left:
\* no update is lost, landed twice, or replayed from a state that is gone
\* (rebaseAndRetry's comment), and no checkpoint covers a version its writer did
\* not write.
SerialUpdates == Graph!Spec

\* What a call answers is so: a stored update landed, and one given up did not,
\* so it may be tried again (RebaseResult, RebaseExhaustedError).
AnswersAreTrue ==
    \A w \in Writers :
        /\ pc[w] = "stored" => w \in landed
        /\ pc[w] \in {"idle", "reading", "putting", "exhausted"} => w \notin landed

\* A writer gives up only when the blob changed under every one of its attempts:
\* each attempt reads the token it writes against anew.
ExhaustedOnlyWhenOvertaken ==
    \A w \in Writers : pc[w] = "exhausted" => minted + removals >= since[w] + MaxAttempts

\* With as many attempts as writers, a call at its first attempt that neither a
\* checkpointer nor a deletion can overtake any more does not give up: it lands, or
\* it throws for a reason of its own.
EveryCallLands ==
    MaxAttempts >= Cardinality(Writers) =>
        \A w \in Writers :
            pc[w] = "reading" /\ attempt[w] = 1
              ~> \/ pc[w] \in {"stored", "threw"}
                 \/ removals > 0
                 \/ \E c \in Checkpointers : phase[c] = "putting"

=============================================================================
