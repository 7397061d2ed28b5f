------------------------------ MODULE DerivePatch ------------------------------
(***************************************************************************)
(* derivePatch (packages/rdf-delta/src/derive.ts): the patch a program of  *)
(* update operations would make, worked out without running the program.   *)
(*                                                                         *)
(* Every question the derivation asks of the store is awaited, so each is  *)
(* a step of its own here, and other writers may move the store between    *)
(* two of them.  A program whose operations read what earlier ones wrote   *)
(* is derived against a fork, a private copy nobody else writes.           *)
(***************************************************************************)
EXTENDS RdfDelta, Sequences, FiniteSets

CONSTANTS
    Blanks,     \* the sets of quads that may be those that carry a blank node
    Step,       \* the operations there are: [name -> its form and its templates]
    Programs,   \* the programs there are, sequences of names, for each such set
    MaxMoves    \* bound: how often other writers move the store

\* The forms the planner tells apart: ground data, templates over a WHERE, and
\* graph operations whose quads are enumerated or merely counted.
Forms == {"ground", "pattern", "enumerated", "counted"}

\* What an operation writes, and which of those quads its templates yield more
\* than once: every block of a template is a CONSTRUCT of its own (plan.ts), and
\* the rows of all of them are kept in one array.
Steps == [form : Forms, effect : Operations, twice : Operations]

ASSUME BlankAssumption == Blanks \subseteq SUBSET Quads
ASSUME StepAssumption == Step \in [DOMAIN Step -> Steps]
ASSUME ProgramsAssumption == \A b \in Blanks : Programs[b] \subseteq Seq(DOMAIN Step) \ {<< >>}
\* A ground template does not depend on the store, and an enumerated operation
\* deletes only what it read there.  Only what is yielded is yielded again.
ASSUME FormAssumption ==
    \A n \in DOMAIN Step :
        /\ \A g \in GraphStates : /\ Step[n].twice.del[g] \subseteq Step[n].effect.del[g]
                                  /\ Step[n].twice.ins[g] \subseteq Step[n].effect.ins[g]
        /\ Step[n].form = "ground" =>
             \A g, h \in GraphStates : /\ Step[n].effect.del[g] = Step[n].effect.del[h]
                                     /\ Step[n].effect.ins[g] = Step[n].effect.ins[h]
        /\ Step[n].form = "enumerated" =>
             \A g \in GraphStates : Step[n].effect.del[g] \subseteq g
ASSUME MovesAssumption == MaxMoves \in Nat

VARIABLES
    blank,       \* the quads that carry a blank node
    canName,     \* the store answers membership for them (has)
    canFork,     \* the store can be copied (fork)
    store,       \* the live store
    moves,       \* how often other writers have moved it
    pc,          \* what the derivation does next
    program,     \* the operations being derived
    i,           \* the one being derived
    simulated,   \* whether the derivation runs on a fork
    fork,        \* that copy
    rawDeletes, rawInserts,   \* the templates of operation i, instantiated
    twiceDeletes, twiceInserts,   \* those of them that came more than once
    deletions, additions,     \* the accumulated patch
    netEffectExact,           \* what the patch says of itself
    origin,      \* history: the store when the derivation began
    replay,      \* history: origin after the operations derived so far
    recounted,   \* history: quads a second copy put back into the patch
    seen         \* history: the stores there were since it began

given == <<blank, canName, canFork, program>>
accumulated == <<deletions, additions>>
raws == <<rawDeletes, rawInserts, twiceDeletes, twiceInserts>>
live == <<store, moves, seen>>
history == <<origin, replay, recounted>>
vars == <<blank, canName, canFork, store, moves, pc, program, i, simulated, fork, rawDeletes, rawInserts,
          twiceDeletes, twiceInserts, deletions, additions, netEffectExact, origin, replay, recounted, seen>>

Patch == [deletions |-> deletions, additions |-> additions]

-----------------------------------------------------------------------------

(* Operators named Definition_Slip are faulty variants of Definition, none of  *)
(* them used by the specification: they show what the properties catch.        *)
\* Only a program whose operations can read one another needs a fork.
NeedsFork(prog) == Len(prog) >= 2 /\ \E k \in DOMAIN prog : Step[prog[k]].form # "ground"

Source_Live == store

\* What the derivation asks: its fork, or the store as it is now.
Source == IF simulated THEN fork ELSE store

Op == Step[program[i]].effect
Again == Step[program[i]].twice
Form == Step[program[i]].form

\* The candidates the store holds.  Without `has`, a quad with a blank node
\* cannot be asked about and is kept; an enumerated operation read its
\* deletions out of the store a moment ago and does not ask again.
Existing(candidates) ==
    IF Form = "enumerated" THEN candidates
    ELSE IF canName THEN candidates \cap Source
    ELSE (candidates \cap blank) \cup (candidates \cap Source)

Missing_Unasked(candidates) == candidates

\* The candidates the store does not hold.  A blank node is taken to be new.
Missing(candidates) == (candidates \cap blank) \cup (candidates \ Source)

-----------------------------------------------------------------------------

Init ==
    /\ blank \in Blanks /\ canName \in BOOLEAN /\ canFork \in BOOLEAN
    /\ store \in GraphStates
    /\ moves = 0
    /\ pc = "idle"
    /\ program \in Programs[blank]
    /\ i = 1
    /\ simulated = FALSE
    /\ fork = {}
    /\ rawDeletes = {} /\ rawInserts = {} /\ twiceDeletes = {} /\ twiceInserts = {}
    /\ deletions = {} /\ additions = {}
    /\ netEffectExact = TRUE
    /\ origin = store /\ replay = store /\ seen = {store} /\ recounted = {}

\* A program that needs a fork the store does not have is refused by name.
Refuse ==
    /\ pc = "idle"
    /\ NeedsFork(program) /\ ~canFork
    /\ pc' = "refused"
    /\ UNCHANGED <<live, given, i, simulated, fork, raws, accumulated,
                   netEffectExact, history>>

Start ==
    /\ pc = "idle"
    /\ NeedsFork(program) => canFork
    /\ simulated' = NeedsFork(program)
    /\ fork' = IF NeedsFork(program) THEN store ELSE {}
    /\ pc' = "deletes"
    /\ origin' = store /\ replay' = store /\ seen' = {store}
    /\ UNCHANGED <<store, moves, given, i, raws, accumulated, netEffectExact, recounted>>

\* The DELETE template.
InstantiateDeletes ==
    /\ pc = "deletes"
    /\ Form \in {"ground", "pattern"}
    /\ rawDeletes' = Op.del[Source] /\ twiceDeletes' = Again.del[Source]
    /\ pc' = "inserts"
    /\ UNCHANGED <<live, given, i, simulated, fork, rawInserts, twiceInserts, accumulated,
                   netEffectExact, history>>

\* The INSERT template, a query of its own.
InstantiateInserts ==
    /\ pc = "inserts"
    /\ rawInserts' = Op.ins[Source] /\ twiceInserts' = Again.ins[Source]
    /\ pc' = "existing"
    /\ UNCHANGED <<live, given, i, simulated, fork, rawDeletes, twiceDeletes, accumulated,
                   netEffectExact, history>>

\* A graph operation: the quads it moves, each of them once, or only their number.
GraphOperation ==
    /\ pc = "deletes"
    /\ Form \in {"enumerated", "counted"}
    /\ rawDeletes' = IF Form = "counted" THEN {} ELSE Op.del[Source]
    /\ rawInserts' = IF Form = "counted" THEN {} ELSE Op.ins[Source]
    /\ twiceDeletes' = {} /\ twiceInserts' = {}
    /\ netEffectExact' = (netEffectExact /\ Form = "enumerated")
    /\ pc' = "existing"
    /\ UNCHANGED <<live, given, i, simulated, fork, accumulated, history>>

\* Of the quads a loop goes through, those whose presence decides: the first copy
\* of one that `undone` holds only takes it out of there and the loop goes on,
\* but a second copy no longer finds it there and is looked up like any other.
Reached(raw, undone, twice) == raw \ (undone \ twice)

TrimDeletes_Uncancelled ==
    /\ pc = "existing"
    /\ LET gone == rawDeletes \ rawInserts IN
         /\ additions' = additions
         /\ deletions' = deletions \cup (Existing(rawDeletes) \cap Reached(gone, additions, twiceDeletes))
         /\ recounted' = recounted \cup (Existing(rawDeletes) \cap gone \cap additions \cap twiceDeletes)
    /\ netEffectExact' = (netEffectExact /\ (\/ canName \/ Form = "enumerated"
                                             \/ rawDeletes \cap blank = {}))
    /\ pc' = "missing"
    /\ UNCHANGED <<live, given, i, simulated, fork, raws, origin, replay>>

TrimDeletes_Claims ==
    /\ pc = "existing"
    /\ LET gone == rawDeletes \ rawInserts IN
         /\ additions' = additions \ gone
         /\ deletions' = deletions \cup (Existing(rawDeletes) \cap Reached(gone, additions, twiceDeletes))
         /\ recounted' = recounted \cup (Existing(rawDeletes) \cap gone \cap additions \cap twiceDeletes)
    /\ pc' = "missing"
    /\ UNCHANGED <<live, given, i, simulated, fork, raws, netEffectExact, origin, replay>>

\* Deletions, trimmed against this operation's insertions: one an earlier
\* operation added is forgotten, any other is kept when the store has it.  A quad
\* that comes twice is forgotten and, where the fork has it, kept as a deletion.
TrimDeletes ==
    /\ pc = "existing"
    /\ LET gone == rawDeletes \ rawInserts IN
         /\ additions' = additions \ gone
         /\ deletions' = deletions \cup (Existing(rawDeletes) \cap Reached(gone, additions, twiceDeletes))
         /\ recounted' = recounted \cup (Existing(rawDeletes) \cap gone \cap additions \cap twiceDeletes)
    /\ netEffectExact' = (netEffectExact /\ (\/ canName \/ Form = "enumerated"
                                             \/ rawDeletes \cap blank = {}))
    /\ pc' = "missing"
    /\ UNCHANGED <<live, given, i, simulated, fork, raws, origin, replay>>

TrimInserts_OneMore ==
    /\ pc = "missing"
    /\ deletions' = deletions \ rawInserts
    /\ additions' = additions \cup (Missing(rawInserts) \cap Reached(rawInserts, deletions, twiceInserts))
    /\ recounted' = recounted \cup (Missing(rawInserts) \cap deletions \cap twiceInserts)
    /\ fork' = IF simulated THEN Execute(Op, fork) ELSE fork
    /\ replay' = Execute(Op, replay)
    /\ i' = i + 1
    /\ pc' = IF i <= Len(program) THEN "deletes"
             ELSE IF simulated /\ (deletions' \cup additions') \cap blank # {} THEN "refused"
             ELSE "derived"
    /\ UNCHANGED <<live, given, simulated, raws, netEffectExact, origin>>

\* Insertions: one an earlier operation deleted is put back, any other is kept
\* when the store lacks it, and so is the second copy of one put back.  Then the
\* fork runs the operation as written, and the next one is derived.  A patch from a
\* fork may not carry blank nodes.
TrimInserts ==
    /\ pc = "missing"
    /\ deletions' = deletions \ rawInserts
    /\ additions' = additions \cup (Missing(rawInserts) \cap Reached(rawInserts, deletions, twiceInserts))
    /\ recounted' = recounted \cup (Missing(rawInserts) \cap deletions \cap twiceInserts)
    /\ fork' = IF simulated THEN Execute(Op, fork) ELSE fork
    /\ replay' = Execute(Op, replay)
    /\ i' = i + 1
    /\ pc' = IF i < Len(program) THEN "deletes"
             ELSE IF simulated /\ (deletions' \cup additions') \cap blank # {} THEN "refused"
             ELSE "derived"
    /\ UNCHANGED <<live, given, simulated, raws, netEffectExact, origin>>

\* Another writer, between two of the derivation's questions.
StoreMoves ==
    /\ pc \in {"deletes", "inserts", "existing", "missing"}
    /\ moves < MaxMoves
    /\ store' \in GraphStates \ {store}
    /\ moves' = moves + 1
    /\ seen' = seen \cup {store'}
    /\ UNCHANGED <<pc, given, i, simulated, fork, raws, accumulated,
                   netEffectExact, history>>

Next ==
    \/ Refuse \/ Start \/ InstantiateDeletes \/ InstantiateInserts \/ GraphOperation
    \/ TrimDeletes \/ TrimInserts \/ StoreMoves

Spec == Init /\ [][Next]_vars

-----------------------------------------------------------------------------
(***************************************************************************)
(* Properties.                                                             *)
(***************************************************************************)

\* Every variable keeps its range, and an operation is being derived whenever
\* a step needs one (derive.ts, run).
TypeOK ==
    /\ blank \in Blanks /\ canName \in BOOLEAN /\ canFork \in BOOLEAN
    /\ store \in GraphStates /\ origin \in GraphStates /\ replay \in GraphStates
    /\ moves \in 0 .. MaxMoves
    /\ pc \in {"idle", "deletes", "inserts", "existing", "missing", "derived", "refused"}
    /\ program \in Programs[blank]
    /\ i \in Nat \ {0}
    /\ pc \notin {"derived", "refused"} => i \in 1 .. Len(program)
    /\ simulated \in BOOLEAN /\ fork \in GraphStates
    /\ rawDeletes \in GraphStates /\ rawInserts \in GraphStates
    /\ twiceDeletes \in GraphStates /\ twiceInserts \in GraphStates /\ recounted \in GraphStates
    /\ deletions \in GraphStates /\ additions \in GraphStates
    /\ netEffectExact \in BOOLEAN
    /\ seen \subseteq GraphStates

\* Nothing the derivation asked moved under it: it asked a fork, or nobody wrote.
Undisturbed == simulated \/ moves = 0

\* Between two operations of a derivation that claims to be exact, the
\* accumulated patch is exactly the difference the operations so far make, for
\* every program over ground quads and for every quad but those a template
\* yielded twice when an earlier operation had written them: the net-effect rule
\* of the header of derive.ts and the cancellation across operations compose.
NetEffectOfProgram ==
    /\ pc \in {"deletes", "derived"}
    /\ netEffectExact /\ Undisturbed /\ blank = {}
    => /\ deletions \ recounted = (origin \ replay) \ recounted
       /\ additions \ recounted = (replay \ origin) \ recounted

\* Over ground quads, and whatever its templates yield twice, the patch of up to
\* two operations takes the store where the program would (patchToSparqlUpdate):
\* what a second copy put back is superfluous going forward.  It is lost when a
\* third operation touches the quad again, and the inverse patch is wrong at once.
PatchStandsForProgram ==
    /\ pc = "derived" /\ Len(program) <= 2
    /\ netEffectExact /\ Undisturbed /\ blank = {}
    => ApplyDelta(Patch, origin) = replay

\* A derivation of one operation that claims to be exact deletes exactly what the
\* operation removes; it stops claiming so once it had to keep a blank node it
\* could not ask about (derive.ts, existing).
DeletionsAreExact ==
    /\ pc = "derived"
    /\ netEffectExact /\ Undisturbed /\ Len(program) = 1
    => deletions = origin \ replay

\* Whatever other writers do between the questions, no quad is both deleted and
\* added, and in a patch that claims to be exact every ground deletion was in a
\* store there was and every ground addition missing from one, a quad excepted
\* that a template yielded twice when an earlier operation had written it.
SidesWitnessed ==
    /\ deletions \cap additions = {}
    /\ netEffectExact =>
         /\ \A q \in deletions \ (blank \cup recounted) : \E g \in seen : q \in g
         /\ \A q \in additions \ (blank \cup recounted) : \E g \in seen : q \notin g

=============================================================================
