--------------------------- MODULE DerivePatchProofs ---------------------------
(***************************************************************************)
(* What DerivePatch.tla promises, for any quads, operations and programs:  *)
(* over ground quads the patch is the difference the program makes; of one *)
(* with blank nodes every other quad was seen where the patch claims it.   *)
(* Both except for the quads that a template yielded twice after an        *)
(* earlier operation had written them (recounted).                         *)
(***************************************************************************)
EXTENDS DerivePatch, TLAPS

-----------------------------------------------------------------------------
(***************************************************************************)
(* What the operators of RdfDelta.tla do, for any quads.                   *)
(***************************************************************************)

\* The net-effect rule of derive.ts: applying the net effect of an operation is
\* running it, the inverse of the net effect takes it back, and the net effect is
\* the smallest patch that does it.
THEOREM NetEffectIsExecution ==
    ASSUME NEW op \in Operations, NEW g \in GraphStates
    PROVE  /\ ApplyDelta(NetEffect(op, g), g) = Execute(op, g)
           /\ ApplyDelta(Invert(NetEffect(op, g)), Execute(op, g)) = g
           /\ NetEffect(op, g) = Difference(g, Execute(op, g))
  BY DEF Operations, GraphStates, ApplyDelta, NetEffect, Execute, Invert, Difference

\* The difference of two stores takes the first to the second, and its inverse
\* takes it back (patch.ts, invertPatch).
LEMMA DifferenceApplies ==
    ASSUME NEW g \in GraphStates, NEW h \in GraphStates
    PROVE  /\ ApplyDelta(Difference(g, h), g) = h
           /\ ApplyDelta(Invert(Difference(g, h)), h) = g
  BY DEF GraphStates, ApplyDelta, Difference, Invert

\* A patch applied twice is a patch applied once: DELETE DATA and INSERT DATA of
\* a store that already took them change nothing.
LEMMA DeltaIsIdempotent ==
    ASSUME NEW p \in Deltas, NEW g \in GraphStates
    PROVE  /\ ApplyDelta(p, g) \in GraphStates
           /\ ApplyDelta(p, ApplyDelta(p, g)) = ApplyDelta(p, g)
  BY DEF Deltas, GraphStates, ApplyDelta

-----------------------------------------------------------------------------

\* What an operation of a program does to a store.
LEMMA EffectTypes ==
    ASSUME NEW n \in DOMAIN Step, NEW g \in GraphStates
    PROVE  /\ Step[n].effect.del[g] \in GraphStates
           /\ Step[n].effect.ins[g] \in GraphStates
           /\ Step[n].twice.del[g] \in GraphStates
           /\ Step[n].twice.ins[g] \in GraphStates
           /\ Step[n].effect \in Operations
           /\ Step[n].form \in Forms
           /\ Execute(Step[n].effect, g) \in GraphStates
  <1>1. Step[n] \in Steps
    BY StepAssumption
  <1>2. /\ Step[n].effect \in Operations
        /\ Step[n].twice \in Operations
        /\ Step[n].form \in Forms
    BY <1>1 DEF Steps
  <1>3. /\ Step[n].effect.del \in [GraphStates -> GraphStates]
        /\ Step[n].effect.ins \in [GraphStates -> GraphStates]
        /\ Step[n].twice.del \in [GraphStates -> GraphStates]
        /\ Step[n].twice.ins \in [GraphStates -> GraphStates]
    BY <1>2 DEF Operations
  <1>4. /\ Step[n].effect.del[g] \in GraphStates
        /\ Step[n].effect.ins[g] \in GraphStates
        /\ Step[n].twice.del[g] \in GraphStates
        /\ Step[n].twice.ins[g] \in GraphStates
    BY <1>3
  <1>5. Execute(Step[n].effect, g) \in GraphStates
    BY <1>4 DEF Execute, GraphStates
  <1> QED
    BY <1>2, <1>4, <1>5

LEMMA ProgramTypes ==
    ASSUME NEW b \in Blanks, NEW prog \in Programs[b]
    PROVE  /\ prog \in Seq(DOMAIN Step)
           /\ Len(prog) \in Nat \ {0}
           /\ \A k \in 1 .. Len(prog) : prog[k] \in DOMAIN Step
  <1>1. prog \in Seq(DOMAIN Step) /\ prog # << >>
    BY ProgramsAssumption
  <1> QED
    BY <1>1

-----------------------------------------------------------------------------
(***************************************************************************)
(* Types.                                                                  *)
(***************************************************************************)

\* The operation being derived exists, so its templates give quads.
LEMMA CurrentOperation ==
    ASSUME TypeOK, pc \notin {"derived", "refused"}
    PROVE  /\ program[i] \in DOMAIN Step
           /\ Form \in Forms
           /\ Source \in GraphStates
           /\ Op \in Operations
           /\ \A g \in GraphStates : /\ Op.del[g] \in GraphStates
                                     /\ Op.ins[g] \in GraphStates
                                     /\ Again.del[g] \in GraphStates
                                     /\ Again.ins[g] \in GraphStates
                                     /\ Execute(Op, g) \in GraphStates
  <1>1. program[i] \in DOMAIN Step
    BY ProgramTypes DEF TypeOK
  <1>2. Source \in GraphStates
    BY DEF TypeOK, Source
  <1> QED
    BY <1>1, <1>2, EffectTypes DEF Form, Op, Again

LEMMA TypeInit == Init => TypeOK
  <1> SUFFICES ASSUME Init PROVE TypeOK
    OBVIOUS
  <1>1. 0 \in 0 .. MaxMoves
    BY MovesAssumption
  <1>2. 1 \in 1 .. Len(program)
    BY ProgramTypes DEF Init
  <1>3. {} \in GraphStates
    BY DEF GraphStates
  <1>4. seen \subseteq GraphStates
    BY DEF Init
  <1>5. i \in Nat \ {0} /\ (pc \notin {"derived", "refused"} => i \in 1 .. Len(program))
    BY <1>2 DEF Init
  <1>6. /\ moves \in 0 .. MaxMoves
        /\ pc \in {"idle", "deletes", "inserts", "existing", "missing", "derived", "refused"}
        /\ program \in Programs[blank]
        /\ simulated \in BOOLEAN /\ netEffectExact \in BOOLEAN
    BY <1>1 DEF Init
  <1>7. /\ store \in GraphStates /\ origin \in GraphStates /\ replay \in GraphStates
        /\ fork \in GraphStates /\ rawDeletes \in GraphStates /\ rawInserts \in GraphStates
        /\ twiceDeletes \in GraphStates /\ twiceInserts \in GraphStates /\ recounted \in GraphStates
        /\ deletions \in GraphStates /\ additions \in GraphStates
    BY <1>3 DEF Init
  <1>8. blank \in Blanks /\ canName \in BOOLEAN /\ canFork \in BOOLEAN
    BY DEF Init
  <1> QED
    BY <1>4, <1>5, <1>6, <1>7, <1>8 DEF TypeOK

LEMMA TypeStep == TypeOK /\ [Next]_vars => TypeOK'
  <1> SUFFICES ASSUME TypeOK, [Next]_vars PROVE TypeOK'
    OBVIOUS
  <1>1. CASE Refuse
    BY <1>1 DEF TypeOK, Refuse, given, live, raws, accumulated, history
  <1>2. CASE Start
    BY <1>2 DEF TypeOK, Start, given, raws, accumulated, NeedsFork, GraphStates
  <1>3. CASE InstantiateDeletes
    <2>1. rawDeletes' \in GraphStates /\ twiceDeletes' \in GraphStates
      BY <1>3, CurrentOperation DEF InstantiateDeletes, given
    <2> QED
      BY <1>3, <2>1 DEF TypeOK, InstantiateDeletes, given, live, accumulated, history
  <1>4. CASE InstantiateInserts
    <2>1. rawInserts' \in GraphStates /\ twiceInserts' \in GraphStates
      BY <1>4, CurrentOperation DEF InstantiateInserts, given
    <2> QED
      BY <1>4, <2>1 DEF TypeOK, InstantiateInserts, given, live, accumulated, history
  <1>5. CASE GraphOperation
    <2>1. /\ rawDeletes' \in GraphStates /\ rawInserts' \in GraphStates
          /\ twiceDeletes' \in GraphStates /\ twiceInserts' \in GraphStates
      BY <1>5, CurrentOperation DEF GraphOperation, given, GraphStates
    <2> QED
      BY <1>5, <2>1 DEF TypeOK, GraphOperation, given, live, accumulated, history
  <1>6. CASE TrimDeletes
    <2>1. deletions' \in GraphStates /\ additions' \in GraphStates /\ recounted' \in GraphStates
      BY <1>6 DEF TrimDeletes, given, TypeOK, GraphStates, Reached
    <2>2. netEffectExact' \in BOOLEAN
      BY <1>6 DEF TrimDeletes, given, TypeOK
    <2> QED
      BY <1>6, <2>1, <2>2 DEF TypeOK, TrimDeletes, given, live, raws, history
  <1>7. CASE TrimInserts
    <2>1. deletions' \in GraphStates /\ additions' \in GraphStates /\ recounted' \in GraphStates
      BY <1>7 DEF TrimInserts, given, TypeOK, GraphStates, Reached
    <2>2. fork' \in GraphStates /\ replay' \in GraphStates
      BY <1>7, CurrentOperation DEF TrimInserts, given, TypeOK
    <2>3. /\ i' \in Nat \ {0}
          /\ pc' \in {"deletes", "derived", "refused"}
          /\ pc' = "deletes" => i' \in 1 .. Len(program)
      BY <1>7, ProgramTypes DEF TrimInserts, given, TypeOK
    <2> QED
      BY <1>7, <2>1, <2>2, <2>3 DEF TypeOK, TrimInserts, given, raws, live
  <1>8. CASE StoreMoves
    <2>1. moves' \in 0 .. MaxMoves
      BY <1>8, MovesAssumption DEF StoreMoves, given, TypeOK
    <2> QED
      BY <1>8, <2>1 DEF TypeOK, StoreMoves, given, raws, accumulated, history, GraphStates
  <1>9. CASE UNCHANGED vars
    BY <1>9 DEF TypeOK, vars
  <1> QED
    BY <1>1, <1>2, <1>3, <1>4, <1>5, <1>6, <1>7, <1>8, <1>9 DEF Next

\* Every reachable state is well typed, so an operation is being derived whenever
\* a step of derive.ts's loop needs one.
THEOREM TypeCorrect == Spec => []TypeOK
  <1>1. Init => TypeOK
    BY TypeInit
  <1>2. TypeOK /\ [Next]_vars => TypeOK'
    BY TypeStep
  <1> QED
    BY <1>1, <1>2, PTL DEF Spec

-----------------------------------------------------------------------------
(***************************************************************************)
(* The patch is the net effect of the program.                             *)
(*                                                                         *)
(* NetEffectOfProgram speaks of the moments between two operations; to be  *)
(* inductive it needs what each question of the current operation found.   *)
(* As long as nothing the derivation asks moves under it, the templates    *)
(* are those of the state the program has reached (replay), also where the *)
(* live store is asked, since then the program has one operation or only   *)
(* ground ones.                                                            *)
(***************************************************************************)

Faithful == netEffectExact /\ Undisturbed /\ blank = {}

Running == pc \in {"deletes", "inserts", "existing", "missing"}

\* The quads the operation removes and does not put back.
Gone == rawDeletes \ rawInserts

\* The patch takes g to h and back, but for the quads that were recounted.
Agrees(g, h) ==
    /\ deletions \ recounted = (g \ h) \ recounted
    /\ additions \ recounted = (h \ g) \ recounted

Inv ==
    /\ pc = "idle" => ~simulated /\ Patch = EmptyDelta
    /\ Running /\ ~simulated =>
         Len(program) = 1 \/ \A k \in DOMAIN program : Step[program[k]].form = "ground"
    /\ Running /\ ~simulated /\ i = 1 => replay = origin
    /\ Running /\ Faithful => Source = IF simulated THEN replay ELSE origin
    /\ pc \in {"inserts", "existing", "missing"} /\ Faithful =>
         Form # "counted" /\ rawDeletes = Op.del[replay]
    /\ pc \in {"existing", "missing"} /\ Faithful => rawInserts = Op.ins[replay]
    /\ pc \in {"deletes", "inserts", "existing", "derived"} /\ Faithful =>
         Agrees(origin, replay)
    /\ pc = "missing" /\ Faithful => Agrees(origin, replay \ Gone)

\* Asking the live store or the fork gives the templates of the state reached.
LEMMA TemplatesOfReplay ==
    ASSUME TypeOK, Inv, Running, Faithful
    PROVE  /\ Op.del[Source] = Op.del[replay]
           /\ Op.ins[Source] = Op.ins[replay]
  <1>1. CASE simulated
    BY <1>1 DEF Inv
  <1>2. CASE ~simulated /\ Len(program) = 1
    <2>1. i = 1
      BY <1>2 DEF TypeOK, Running
    <2> QED
      BY <1>2, <2>1 DEF Inv
  <1>3. CASE ~simulated /\ \A k \in DOMAIN program : Step[program[k]].form = "ground"
    <2>1. program[i] \in DOMAIN Step /\ Form = "ground"
      BY <1>3, CurrentOperation, ProgramTypes DEF Form, TypeOK, Running
    <2>2. Source \in GraphStates /\ replay \in GraphStates
      BY DEF TypeOK, Source
    <2> QED
      BY <2>1, <2>2, FormAssumption DEF Op, Form
  <1> QED
    BY <1>1, <1>2, <1>3 DEF Inv

\* The deletion loop: what is left of the patch when the current operation has
\* made its deletions and not yet its insertions.
LEMMA DeletionLoop ==
    ASSUME TypeOK, Inv, TrimDeletes, Faithful
    PROVE  (Agrees(origin, replay \ Gone))'
  <1> DEFINE kept == Existing(rawDeletes) \cap (Gone \ additions)
             again == Existing(rawDeletes) \cap Gone \cap additions \cap twiceDeletes
  <1>0. /\ deletions' = deletions \cup kept \cup again
        /\ additions' = additions \ Gone
        /\ recounted' = recounted \cup again
        /\ Gone' = Gone /\ origin' = origin /\ replay' = replay /\ pc = "existing"
    BY DEF TrimDeletes, Gone, Reached, raws
  <1>1. /\ deletions \ recounted = (origin \ replay) \ recounted
        /\ additions \ recounted = (replay \ origin) \ recounted
    BY <1>0 DEF Inv, Agrees
  <1>2. replay \in GraphStates /\ origin \in GraphStates /\ rawDeletes \in GraphStates
    BY DEF TypeOK
  <1>3. Existing(rawDeletes) \cap origin \cap replay = rawDeletes \cap origin \cap replay
       /\ Existing(rawDeletes) \subseteq replay \cup origin
    <2>1. CASE Form = "enumerated"
      <3>1. rawDeletes = Op.del[replay] /\ program[i] \in DOMAIN Step
        BY <1>0, CurrentOperation DEF Inv
      <3>2. rawDeletes \subseteq replay
        BY <2>1, <3>1, <1>2, FormAssumption DEF Form, Op
      <3> QED
        BY <2>1, <3>2 DEF Existing
    <2>2. CASE Form # "enumerated" /\ ~simulated
      <3>1. Source = origin
        BY <1>0, <2>2 DEF Inv, Running
      <3> QED
        BY <2>2, <3>1 DEF Existing, Faithful
    <2>3. CASE Form # "enumerated" /\ simulated
      <3>1. Source = replay
        BY <1>0, <2>3 DEF Inv, Running
      <3> QED
        BY <2>3, <3>1 DEF Existing, Faithful
    <2> QED
      BY <2>1, <2>2, <2>3
  <1>4. (deletions \cup kept \cup again) \ (recounted \cup again)
          = (origin \ (replay \ Gone)) \ (recounted \cup again)
    <2>1. Gone \subseteq rawDeletes
      BY DEF Gone
    <2> QED
      BY <1>1, <1>3, <2>1
  <1>5. (additions \ Gone) \ (recounted \cup again)
          = ((replay \ Gone) \ origin) \ (recounted \cup again)
    BY <1>1
  <1> QED
    BY <1>0, <1>4, <1>5 DEF Agrees

\* The insertion loop, after which the patch is again that of the state reached.
LEMMA InsertionLoop ==
    ASSUME TypeOK, Inv, TrimInserts, Faithful
    PROVE  (Agrees(origin, replay))'
  <1> DEFINE new == Missing(rawInserts) \cap (rawInserts \ deletions)
             again == Missing(rawInserts) \cap deletions \cap twiceInserts
  <1>0. /\ deletions' = deletions \ rawInserts
        /\ additions' = additions \cup (Missing(rawInserts) \cap Reached(rawInserts, deletions, twiceInserts))
        /\ recounted' = recounted \cup again
        /\ origin' = origin /\ replay' = Execute(Op, replay) /\ pc = "missing"
    BY DEF TrimInserts
  <1>1. /\ deletions \ recounted = (origin \ (replay \ Gone)) \ recounted
        /\ additions \ recounted = ((replay \ Gone) \ origin) \ recounted
    BY <1>0 DEF Inv, Agrees
  <1>2. Execute(Op, replay) = (replay \ rawDeletes) \cup rawInserts
    BY <1>0 DEF Inv, Execute
  <1>3. Execute(Op, replay) = (replay \ Gone) \cup rawInserts
    BY <1>2 DEF Gone
  <1>4. Missing(rawInserts) = rawInserts \ Source /\ (Source = replay \/ Source = origin)
    BY <1>0 DEF Missing, Faithful, Inv, Running
  <1>5. Gone \cap rawInserts = {}
    BY DEF Gone
  <1>6. (deletions \ rawInserts) \ (recounted \cup again)
          = (origin \ Execute(Op, replay)) \ (recounted \cup again)
    BY <1>1, <1>3
  <1>7. Missing(rawInserts) \cap Reached(rawInserts, deletions, twiceInserts) \subseteq new \cup again
        /\ new \subseteq Missing(rawInserts) \cap Reached(rawInserts, deletions, twiceInserts)
    BY DEF Reached
  <1>8. (additions \cup new) \ (recounted \cup again)
          = (Execute(Op, replay) \ origin) \ (recounted \cup again)
    BY <1>1, <1>3, <1>4, <1>5
  <1>9. additions' \ recounted' = (additions \cup new) \ (recounted \cup again)
    BY <1>0, <1>7
  <1> QED
    BY <1>0, <1>6, <1>8, <1>9 DEF Agrees

\* Once the derivation was disturbed, or stopped claiming exactness, it stays so.
LEMMA FaithfulBefore ==
    ASSUME TypeOK, [Next]_vars, Faithful', Running
    PROVE  Faithful
  <1>1. moves' = 0 => moves = 0
    BY MovesAssumption DEF Next, vars, Refuse, Start, InstantiateDeletes, InstantiateInserts, given,
       GraphOperation, TrimDeletes, TrimInserts, StoreMoves, live, TypeOK
  <1>2. netEffectExact' => netEffectExact
    BY DEF Next, vars, Refuse, Start, InstantiateDeletes, InstantiateInserts, given,
       GraphOperation, TrimDeletes, TrimInserts, StoreMoves, Running
  <1>3. simulated' = simulated
    BY DEF Next, vars, Refuse, Start, InstantiateDeletes, InstantiateInserts, given,
       GraphOperation, TrimDeletes, TrimInserts, StoreMoves, Running
  <1>4. blank' = blank
    BY DEF Next, vars, Refuse, Start, InstantiateDeletes, InstantiateInserts,
       GraphOperation, TrimDeletes, TrimInserts, StoreMoves, given
  <1> QED
    BY <1>1, <1>2, <1>3, <1>4 DEF Faithful, Undisturbed

LEMMA InvInit == Init => Inv
  BY DEF Init, Inv, Patch, EmptyDelta, Running

LEMMA InvStep == TypeOK /\ Inv /\ [Next]_vars => Inv'
  <1> SUFFICES ASSUME TypeOK, Inv, [Next]_vars PROVE Inv'
    OBVIOUS
  <1>1. CASE Refuse
    BY <1>1 DEF Inv, Refuse, given, Running
  <1>2. CASE Start
    <2>1. Patch = EmptyDelta /\ UNCHANGED <<deletions, additions, recounted>>
      BY <1>2 DEF Inv, Start, given, accumulated, Patch
    <2>2. (Agrees(origin, replay))'
      BY <1>2, <2>1 DEF Start, Agrees, Patch, EmptyDelta
    <2>3. ~simulated' =>
            Len(program) = 1 \/ \A k \in DOMAIN program : Step[program[k]].form = "ground"
      <3>1. blank \in Blanks /\ program \in Programs[blank]
        BY DEF TypeOK
      <3>2. Len(program) \in Nat \ {0}
        BY <3>1, ProgramTypes
      <3>3. ~simulated' => ~NeedsFork(program)
        BY <1>2 DEF Start, given
      <3>4. ~NeedsFork(program) =>
              \/ ~(Len(program) >= 2)
              \/ \A k \in DOMAIN program : Step[program[k]].form = "ground"
        BY DEF NeedsFork
      <3>5. \A n \in Nat \ {0} : ~(n >= 2) => n = 1
        OBVIOUS
      <3> QED
        BY <3>2, <3>3, <3>4, <3>5, Zenon
    <2>4. Source' = store /\ replay' = store /\ origin' = store /\ pc' = "deletes" /\ program' = program
      BY <1>2 DEF Start, given, Source
    <2> QED
      BY <2>1, <2>2, <2>3, <2>4 DEF Inv, Running
  <1>3. CASE InstantiateDeletes
    <2>1. Faithful' => Faithful /\ Op.del[Source] = Op.del[replay]
      BY <1>3, FaithfulBefore, TemplatesOfReplay DEF InstantiateDeletes, given, Running
    <2>2. /\ Op' = Op /\ Form' = Form /\ Source' = Source /\ UNCHANGED <<deletions, additions, recounted>>
          /\ Form # "counted"
      BY <1>3 DEF InstantiateDeletes, given, Op, Form, Source, live, accumulated, history
    <2> QED
      BY <1>3, <2>1, <2>2 DEF InstantiateDeletes, given, Inv, Agrees, Running, live, history
  <1>4. CASE InstantiateInserts
    <2>1. Faithful' => Faithful /\ Op.ins[Source] = Op.ins[replay]
      BY <1>4, FaithfulBefore, TemplatesOfReplay DEF InstantiateInserts, given, Running
    <2>2. Op' = Op /\ Form' = Form /\ Source' = Source /\ UNCHANGED <<deletions, additions, recounted>>
      BY <1>4 DEF InstantiateInserts, given, Op, Form, Source, live, accumulated, history
    <2> QED
      BY <1>4, <2>1, <2>2 DEF InstantiateInserts, given, Inv, Agrees, Running, live, history
  <1>5. CASE GraphOperation
    <2>1. Faithful' => /\ Faithful /\ Form = "enumerated"
                       /\ Op.del[Source] = Op.del[replay] /\ Op.ins[Source] = Op.ins[replay]
      BY <1>5, FaithfulBefore, TemplatesOfReplay DEF GraphOperation, given, Running, Faithful, TypeOK
    <2>2. Op' = Op /\ Form' = Form /\ Source' = Source /\ UNCHANGED <<deletions, additions, recounted>>
      BY <1>5 DEF GraphOperation, given, Op, Form, Source, live, accumulated, history
    <2> QED
      BY <1>5, <2>1, <2>2 DEF GraphOperation, given, Inv, Agrees, Running, live, history
  <1>6. CASE TrimDeletes
    <2>1. Faithful' => Faithful /\ (Agrees(origin, replay \ Gone))'
      BY <1>6, FaithfulBefore, DeletionLoop DEF TrimDeletes, Running
    <2>2. Op' = Op /\ Form' = Form /\ Source' = Source /\ Gone' = Gone
      BY <1>6 DEF TrimDeletes, given, Op, Form, Source, Gone, raws, live
    <2> QED
      BY <1>6, <2>1, <2>2 DEF TrimDeletes, given, Inv, Running, live, raws
  <1>7. CASE TrimInserts
    <2>1. Faithful' => Faithful /\ (Agrees(origin, replay))'
      BY <1>7, FaithfulBefore, InsertionLoop DEF TrimInserts, Running
    <2>2. /\ origin' = origin /\ replay' = Execute(Op, replay) /\ simulated' = simulated
          /\ pc' \in {"deletes", "derived", "refused"}
          /\ pc = "missing" /\ program' = program
      BY <1>7 DEF TrimInserts, given
    <2>4. i' # 1
      BY <1>7 DEF TrimInserts, given, TypeOK
    <2>3. Faithful => Source' = IF simulated THEN Execute(Op, replay) ELSE origin
      BY <1>7 DEF TrimInserts, given, Inv, Running, Source, live
    <2> QED
      BY <2>1, <2>2, <2>3, <2>4 DEF Inv, Running
  <1>8. CASE StoreMoves
    <2>1. Faithful' => Faithful /\ simulated
      BY <1>8, FaithfulBefore DEF StoreMoves, given, Running, Faithful, Undisturbed, TypeOK, raws, accumulated
    <2>2. /\ Op' = Op /\ Form' = Form /\ UNCHANGED <<deletions, additions, recounted>> /\ Gone' = Gone
          /\ simulated => Source' = Source
      BY <1>8 DEF StoreMoves, given, Op, Form, Source, Gone, raws, accumulated, history
    <2> QED
      BY <1>8, <2>1, <2>2 DEF StoreMoves, given, Inv, Agrees, Running, history, raws
  <1>9. CASE UNCHANGED vars
    BY <1>9 DEF vars, Inv, Running, Faithful, Undisturbed, Source, Agrees, Patch, Gone, Op, Form
  <1> QED
    BY <1>1, <1>2, <1>3, <1>4, <1>5, <1>6, <1>7, <1>8, <1>9 DEF Next

\* Between two operations, and at the end, a derivation that claims to be exact
\* and that nobody disturbed holds exactly the difference the program makes so
\* far, for every program of ground, pattern and enumerated operations.
THEOREM PatchIsTheNetEffect == Spec => []NetEffectOfProgram
  <1>1. Init => TypeOK /\ Inv
    BY TypeInit, InvInit
  <1>2. (TypeOK /\ Inv) /\ [Next]_vars => (TypeOK /\ Inv)'
    BY TypeStep, InvStep
  <1>3. Inv => NetEffectOfProgram
    BY DEF Inv, NetEffectOfProgram, Faithful, Agrees
  <1> QED
    BY <1>1, <1>2, <1>3, PTL DEF Spec

\* Where the quads that were recounted are, while a program of up to two operations
\* is derived: nothing was there to be recounted during the first, and the second
\* leaves each on the side that the program leaves it on.
Forward ==
    /\ deletions \cap additions = {}
    /\ pc = "idle" => i = 1 /\ Patch = EmptyDelta /\ recounted = {}
    /\ Running /\ i = 1 => additions = {} /\ recounted = {}
    /\ Running /\ i = 1 /\ pc # "missing" => deletions = {}
    /\ pc = "missing" /\ i = 1 => deletions \cap rawInserts = {}
    /\ Running /\ i = 2 /\ pc # "missing" => recounted = {}
    /\ pc = "missing" /\ i = 2 /\ Faithful => recounted \subseteq (deletions \cap Gone)
    /\ pc = "derived" /\ Len(program) <= 2 /\ Faithful =>
         \A q \in recounted : q \in additions \cap replay \/ q \in deletions \ replay

LEMMA ForwardInit == Init => Forward
  BY DEF Init, Forward, Patch, EmptyDelta, Running

LEMMA ForwardStep == TypeOK /\ Inv /\ Forward /\ [Next]_vars => Forward'
  <1> SUFFICES ASSUME TypeOK, Inv, Forward, [Next]_vars PROVE Forward'
    OBVIOUS
  <1>1. CASE Refuse
    BY <1>1 DEF Refuse, Forward, Running, accumulated, history, given
  <1>2. CASE Start
    <2>1. deletions = {} /\ additions = {} /\ recounted = {} /\ i = 1
      BY <1>2 DEF Start, Forward, Patch, EmptyDelta
    <2>2. UNCHANGED <<deletions, additions, recounted, i>> /\ pc' = "deletes"
      BY <1>2 DEF Start, accumulated
    <2> QED
      BY <2>1, <2>2 DEF Forward, Running
  <1>3. CASE InstantiateDeletes \/ InstantiateInserts \/ GraphOperation
    <2>1. /\ UNCHANGED <<deletions, additions, recounted, i>>
          /\ Running /\ pc # "missing" /\ pc' \in {"inserts", "existing"}
      BY <1>3 DEF InstantiateDeletes, InstantiateInserts, GraphOperation, accumulated, history, Running
    <2> QED
      BY <2>1 DEF Forward, Running
  <1>4. CASE TrimDeletes
    <2> DEFINE again == Existing(rawDeletes) \cap Gone \cap additions \cap twiceDeletes
    <2>1. /\ pc = "existing" /\ pc' = "missing" /\ i' = i
          /\ deletions' = deletions \cup (Existing(rawDeletes) \cap Reached(Gone, additions, twiceDeletes))
          /\ additions' = additions \ Gone
          /\ recounted' = recounted \cup again
          /\ Gone' = Gone /\ rawInserts' = rawInserts
      BY <1>4 DEF TrimDeletes, Gone, raws
    <2>2. deletions' \cap additions' = {}
      BY <2>1 DEF Forward, Reached
    <2>3. i = 1 => additions' = {} /\ recounted' = {} /\ deletions' \cap rawInserts = {}
      BY <2>1 DEF Forward, Running, Reached, Gone
    <2>4. i = 2 => recounted' \subseteq (deletions' \cap Gone)
      <3>1. i = 2 => recounted = {}
        BY <2>1 DEF Forward, Running
      <3>2. again \subseteq deletions' \cap Gone
        BY <2>1 DEF Reached
      <3> QED
        BY <2>1, <3>1, <3>2
    <2> HIDE DEF again
    <2> QED
      BY <2>1, <2>2, <2>3, <2>4 DEF Forward, Running
  <1>5. CASE TrimInserts
    <2> DEFINE again == Missing(rawInserts) \cap deletions \cap twiceInserts
    <2>1. /\ pc = "missing" /\ i' = i + 1 /\ program' = program
          /\ pc' \in {"deletes", "derived", "refused"}
          /\ pc' = "deletes" \/ i >= Len(program)
          /\ deletions' = deletions \ rawInserts
          /\ additions' = additions \cup (Missing(rawInserts) \cap Reached(rawInserts, deletions, twiceInserts))
          /\ recounted' = recounted \cup again
          /\ replay' = Execute(Op, replay)
      <3>1. i \in Nat /\ Len(program) \in Nat
        BY ProgramTypes DEF TypeOK
      <3> QED
        BY <1>5, <3>1 DEF TrimInserts, given
    <2>2. deletions' \cap additions' = {}
      BY <2>1 DEF Forward, Reached
    <2>3. i = 1 => recounted' = {}
      BY <2>1 DEF Forward, Running, Missing
    <2>4. ASSUME Faithful, i = 2
          PROVE  \A q \in recounted' : q \in additions' \cap replay' \/ q \in deletions' \ replay'
      <3>1. replay' = (replay \ Gone) \cup rawInserts
        BY <2>1, <2>4 DEF Inv, Execute, Gone
      <3>2. \A q \in again : q \in additions' \cap replay'
        <4>1. again \subseteq rawInserts
          BY DEF Missing, TypeOK
        <4>2. again \subseteq Missing(rawInserts) \cap Reached(rawInserts, deletions, twiceInserts)
          BY <4>1 DEF Reached
        <4> QED
          BY <2>1, <3>1, <4>1, <4>2
      <3>3. \A q \in recounted : q \in deletions' \ replay'
        <4>1. recounted \subseteq deletions \cap Gone /\ Gone \cap rawInserts = {}
          BY <2>1, <2>4 DEF Forward, Gone
        <4> QED
          BY <2>1, <3>1, <4>1
      <3> QED
        BY <2>1, <3>2, <3>3
    <2>5. Faithful' => Faithful
      BY <2>1, FaithfulBefore DEF Running
    <2>6. i \in Nat /\ i # 0
      BY DEF TypeOK
    <2>7. pc' = "derived" /\ Len(program) <= 2 => i = 1 \/ i = 2
      BY <2>1, <2>6, ProgramTypes DEF TypeOK
    <2>8. pc' \notin {"inserts", "existing", "missing", "idle"} /\ i' # 1 /\ (i' = 2 => i = 1)
      BY <2>1, <2>6
    <2> HIDE DEF again
    <2> QED
      BY <2>1, <2>2, <2>3, <2>4, <2>5, <2>7, <2>8 DEF Forward, Running
  <1>6. CASE StoreMoves
    <2>1. /\ UNCHANGED <<pc, i, program, deletions, additions, recounted, rawInserts, rawDeletes, replay>>
          /\ Running
      BY <1>6 DEF StoreMoves, accumulated, history, raws, given, Running
    <2>2. Faithful' => Faithful
      BY <2>1, FaithfulBefore
    <2> QED
      BY <2>1, <2>2 DEF Forward, Running, Gone, Patch
  <1>7. CASE UNCHANGED vars
    BY <1>7 DEF vars, Forward, Running, Gone, Patch, Faithful, Undisturbed
  <1> QED
    BY <1>1, <1>2, <1>3, <1>4, <1>5, <1>6, <1>7 DEF Next

\* Over ground quads the patch of up to two operations reaches what they do, also
\* where a template yielded twice what the first of them had written.
THEOREM PatchReplacesProgram == Spec => []PatchStandsForProgram
  <1>1. Init => TypeOK /\ Inv /\ Forward
    BY TypeInit, InvInit, ForwardInit
  <1>2. (TypeOK /\ Inv /\ Forward) /\ [Next]_vars => (TypeOK /\ Inv /\ Forward)'
    BY TypeStep, InvStep, ForwardStep
  <1>3. TypeOK /\ Inv /\ Forward => PatchStandsForProgram
    <2> SUFFICES ASSUME Inv, Forward, pc = "derived", Len(program) <= 2,
                        netEffectExact, Undisturbed, blank = {}
                 PROVE  ApplyDelta(Patch, origin) = replay
      BY DEF PatchStandsForProgram
    <2>1. /\ deletions \ recounted = (origin \ replay) \ recounted
          /\ additions \ recounted = (replay \ origin) \ recounted
      BY DEF Inv, Agrees, Faithful
    <2>2. \A q \in recounted : q \in additions \cap replay \/ q \in deletions \ replay
      BY DEF Forward, Faithful
    <2>3. deletions \cap additions = {}
      BY DEF Forward
    <2>4. ApplyDelta(Patch, origin) = (origin \ deletions) \cup additions
      BY DEF ApplyDelta, Patch
    <2>5. (origin \ deletions) \cup additions \subseteq replay
      BY <2>1, <2>2, <2>3
    <2>6. replay \subseteq (origin \ deletions) \cup additions
      BY <2>1, <2>2
    <2> QED
      BY <2>4, <2>5, <2>6
  <1> QED
    BY <1>1, <1>2, <1>3, PTL DEF Spec

-----------------------------------------------------------------------------
(***************************************************************************)
(* Blank nodes and other writers.                                          *)
(*                                                                         *)
(* A quad on a side of the patch was seen where it is claimed to have been *)
(* (SidesWitnessed).  Against the live store that is what the question     *)
(* answered.  Against a fork it is not: a quad the fork holds may be one   *)
(* an earlier operation of the program put there.  That it is then none of *)
(* the patch's is again the net effect, now for all quads but those with a *)
(* blank node, and those that were recounted.                              *)
(***************************************************************************)

\* The quads nothing is claimed of: a blank node, or yielded twice when an earlier
\* operation had written them.
Odd == blank \cup recounted

\* Of the other quads the patch is the difference of two stores.
GroundSides(g, h) ==
    /\ deletions \ Odd = (g \ h) \ Odd
    /\ additions \ Odd = (h \ g) \ Odd

\* A derivation on a fork that has claimed to be exact so far.
OnFork == simulated /\ netEffectExact

Held(quads) == \A q \in quads : \E g \in seen : q \in g
Lacked(quads) == \A q \in quads : \E g \in seen : q \notin g

Sides ==
    /\ deletions \cap additions = {}
    /\ store \in seen /\ origin \in seen
    /\ pc = "idle" => ~simulated /\ Patch = EmptyDelta
    /\ pc # "idle" /\ simulated => fork = replay
    /\ netEffectExact => Held(deletions \ Odd) /\ Lacked(additions \ Odd)
    /\ pc = "inserts" => Form # "enumerated"
    /\ netEffectExact /\ pc = "existing" /\ Form = "enumerated" => simulated \/ Held(rawDeletes)
    /\ OnFork /\ pc \in {"inserts", "existing", "missing"} =>
         Form # "counted" /\ rawDeletes = Op.del[replay]
    /\ OnFork /\ pc \in {"existing", "missing"} => rawInserts = Op.ins[replay]
    /\ OnFork /\ pc \in {"deletes", "inserts", "existing"} => GroundSides(origin, replay)
    /\ OnFork /\ pc = "missing" => GroundSides(origin, replay \ Gone)

\* What the questions of the two loops leave of the templates: quads without blank
\* nodes that the source holds, or was read to hold, and ones that it lacks.
LEMMA Asked ==
    ASSUME NEW quads \in GraphStates
    PROVE  /\ Existing(quads) \subseteq quads
           /\ Form # "enumerated" => Existing(quads) \ blank = (quads \cap Source) \ blank
           /\ Form = "enumerated" \/ canName \/ quads \cap blank = {} =>
                Existing(quads) = IF Form = "enumerated" THEN quads ELSE quads \cap Source
           /\ Missing(quads) \ blank = (quads \ Source) \ blank
  <1>1. CASE Form = "enumerated"
    BY <1>1 DEF Existing, Missing
  <1>2. CASE Form # "enumerated" /\ canName
    BY <1>2 DEF Existing, Missing
  <1>3. CASE Form # "enumerated" /\ ~canName
    BY <1>3 DEF Existing, Missing
  <1> QED
    BY <1>1, <1>2, <1>3

\* An enumerated operation deletes what it read.
LEMMA EnumeratedReads ==
    ASSUME TypeOK, pc \notin {"derived", "refused"}, Form = "enumerated", NEW g \in GraphStates
    PROVE  Op.del[g] \subseteq g
  <1>1. program[i] \in DOMAIN Step
    BY CurrentOperation
  <1> QED
    BY <1>1, FormAssumption DEF Form, Op

LEMMA DeletionSides ==
    ASSUME TypeOK, Sides, TrimDeletes, netEffectExact'
    PROVE  /\ simulated => GroundSides(origin, replay \ Gone)'
           /\ Held(deletions \ Odd)' /\ Lacked(additions \ Odd)'
  <1> DEFINE kept == Existing(rawDeletes) \cap (Gone \ additions)
             again == Existing(rawDeletes) \cap Gone \cap additions \cap twiceDeletes
             odd == Odd \cup again
  <1>1. /\ pc = "existing" /\ netEffectExact /\ pc' = "missing"
        /\ deletions' = deletions \cup kept \cup again
        /\ additions' = additions \ Gone
        /\ Odd' = odd
        /\ UNCHANGED <<origin, replay, seen, blank, store, simulated, fork, rawDeletes, rawInserts>>
    BY DEF TrimDeletes, Gone, Reached, Odd, live, given, raws
  <1>2. Gone' = Gone /\ Gone \subseteq rawDeletes
    BY <1>1 DEF Gone
  <1>3. rawDeletes \in GraphStates /\ replay \in GraphStates
    BY DEF TypeOK
  <1>4. ASSUME simulated
        PROVE  /\ GroundSides(origin, replay)
               /\ Existing(rawDeletes) \ blank = (rawDeletes \cap replay) \ blank
    <2>1. GroundSides(origin, replay) /\ fork = replay /\ rawDeletes = Op.del[replay]
      BY <1>1, <1>4 DEF Sides, OnFork
    <2>2. Source = replay
      BY <1>4, <2>1 DEF Source
    <2>3. Form = "enumerated" => rawDeletes \subseteq replay /\ Existing(rawDeletes) = rawDeletes
      BY <1>1, <1>3, <2>1, EnumeratedReads DEF Existing
    <2>4. Form # "enumerated" => Existing(rawDeletes) \ blank = (rawDeletes \cap replay) \ blank
      BY <1>3, <2>2, Asked
    <2> QED
      BY <2>1, <2>3, <2>4
  <1>5. ASSUME simulated
        PROVE  /\ (deletions \cup kept \cup again) \ odd = (origin \ (replay \ Gone)) \ odd
               /\ (additions \ Gone) \ odd = ((replay \ Gone) \ origin) \ odd
    <2>1. /\ deletions \ Odd = (origin \ replay) \ Odd
          /\ additions \ Odd = (replay \ origin) \ Odd
          /\ Existing(rawDeletes) \ blank = (rawDeletes \cap replay) \ blank
      BY <1>4, <1>5 DEF GroundSides
    <2>2. blank \subseteq odd /\ Odd \subseteq odd /\ again \subseteq odd
      BY DEF Odd
    <2> HIDE DEF odd, again
    <2> QED
      BY <2>1, <2>2, <1>2
  <1>6. simulated => GroundSides(origin, replay \ Gone)'
    <2> HIDE DEF odd, again, kept
    <2> QED
      BY <1>1, <1>2, <1>5 DEF GroundSides
  <1>7. Held(kept \ Odd)
    <2>1. CASE simulated
      <3>1. kept \ Odd \subseteq origin
        <4>1. additions \ Odd = (replay \ origin) \ Odd
          BY <1>4, <2>1 DEF GroundSides
        <4>2. Existing(rawDeletes) \ blank = (rawDeletes \cap replay) \ blank
          BY <1>4, <2>1
        <4> QED
          BY <4>1, <4>2 DEF Odd
      <3> QED
        BY <3>1 DEF Held, Sides
    <2>2. CASE ~simulated /\ Form = "enumerated"
      <3>1. Held(rawDeletes)
        BY <1>1, <2>2 DEF Sides
      <3>2. kept \subseteq rawDeletes
        BY <1>3, Asked
      <3> QED
        BY <3>1, <3>2 DEF Held
    <2>3. CASE ~simulated /\ Form # "enumerated"
      <3>1. Existing(rawDeletes) \ blank = (rawDeletes \cap Source) \ blank
        BY <1>3, <2>3, Asked
      <3>2. kept \ Odd \subseteq store
        BY <2>3, <3>1 DEF Source, Odd
      <3> QED
        BY <3>2 DEF Held, Sides
    <2> QED
      BY <2>1, <2>2, <2>3
  <1>8. Held(deletions \ Odd) /\ Lacked(additions \ Odd)
    BY <1>1 DEF Sides
  <1>9. Held((deletions \cup kept \cup again) \ odd) /\ Lacked((additions \ Gone) \ odd)
    BY <1>7, <1>8 DEF Held, Lacked
  <1> HIDE DEF odd, again, kept
  <1> QED
    BY <1>1, <1>6, <1>9 DEF Held, Lacked

LEMMA InsertionSides ==
    ASSUME TypeOK, Sides, TrimInserts, netEffectExact'
    PROVE  /\ simulated => GroundSides(origin, replay)'
           /\ Held(deletions \ Odd)' /\ Lacked(additions \ Odd)'
  <1> DEFINE new == Missing(rawInserts) \cap (rawInserts \ deletions)
             again == Missing(rawInserts) \cap rawInserts \cap deletions \cap twiceInserts
             odd == Odd \cup again
  <1>2. rawInserts \in GraphStates /\ Missing(rawInserts) \subseteq rawInserts
    BY DEF TypeOK, Missing, GraphStates
  <1>1. /\ pc = "missing" /\ netEffectExact
        /\ deletions' = deletions \ rawInserts
        /\ additions' = additions \cup new \cup again
        /\ replay' = Execute(Op, replay)
        /\ Odd' = odd
        /\ UNCHANGED <<origin, seen, blank, store, simulated, rawDeletes, rawInserts>>
    BY <1>2 DEF TrimInserts, live, given, raws, Reached, Odd
  <1>3. Missing(rawInserts) \ blank = (rawInserts \ Source) \ blank
    BY <1>2, Asked
  <1>4. ASSUME simulated
        PROVE  /\ GroundSides(origin, replay \ Gone)
               /\ Source = replay
               /\ Execute(Op, replay) = (replay \ Gone) \cup rawInserts
    <2>1. /\ GroundSides(origin, replay \ Gone) /\ fork = replay
          /\ rawDeletes = Op.del[replay] /\ rawInserts = Op.ins[replay]
      BY <1>1, <1>4 DEF Sides, OnFork
    <2> QED
      BY <1>4, <2>1 DEF Source, Execute, Gone
  <1>5. ASSUME simulated
        PROVE  /\ deletions \ Odd = (origin \ (replay \ Gone)) \ Odd
               /\ additions \ Odd = ((replay \ Gone) \ origin) \ Odd
               /\ new \ Odd = (rawInserts \ (replay \cup deletions)) \ Odd
    BY <1>3, <1>4, <1>5 DEF GroundSides, Odd
  <1>6. ASSUME simulated
        PROVE  /\ (deletions \ rawInserts) \ odd = (origin \ Execute(Op, replay)) \ odd
               /\ (additions \cup new \cup again) \ odd = (Execute(Op, replay) \ origin) \ odd
    <2>1. Gone \cap rawInserts = {}
      BY DEF Gone
    <2>2. Execute(Op, replay) = (replay \ Gone) \cup rawInserts
      BY <1>4, <1>6
    <2>3. Odd \subseteq odd /\ again \subseteq odd
      OBVIOUS
    <2> HIDE DEF odd, again, new
    <2> QED
      BY <1>5, <1>6, <2>1, <2>2, <2>3
  <1>7. simulated => GroundSides(origin, replay)'
    <2> HIDE DEF odd, again, new
    <2> QED
      BY <1>1, <1>6 DEF GroundSides
  <1>8. Lacked(new \ Odd)
    <2>1. CASE simulated
      <3>1. \A q \in new \ Odd : q \notin origin
        BY <1>5, <2>1
      <3> QED
        BY <3>1 DEF Lacked, Sides
    <2>2. CASE ~simulated
      <3>1. \A q \in new \ Odd : q \notin store
        BY <1>3, <2>2 DEF Source, Odd
      <3> QED
        BY <3>1 DEF Lacked, Sides
    <2> QED
      BY <2>1, <2>2
  <1>9. Held(deletions \ Odd) /\ Lacked(additions \ Odd)
    BY <1>1 DEF Sides
  <1>10. Held((deletions \ rawInserts) \ odd) /\ Lacked((additions \cup new \cup again) \ odd)
    BY <1>8, <1>9 DEF Held, Lacked
  <1> HIDE DEF odd, again, new
  <1> QED
    BY <1>1, <1>7, <1>10 DEF Held, Lacked

LEMMA SidesInit == Init => Sides
  BY DEF Init, Sides, Patch, EmptyDelta, Held, Lacked, OnFork

LEMMA SidesStep == TypeOK /\ Sides /\ [Next]_vars => Sides'
  <1> SUFFICES ASSUME TypeOK, Sides, [Next]_vars PROVE Sides'
    OBVIOUS
  <1>1. CASE Refuse
    BY <1>1 DEF Refuse, Sides, live, given, accumulated, history, Patch, OnFork, Odd, Held, Lacked
  <1>2. CASE Start
    <2>1. deletions = {} /\ additions = {} /\ deletions' = {} /\ additions' = {}
      BY <1>2 DEF Start, Sides, Patch, EmptyDelta, accumulated
    <2>2. GroundSides(origin, replay)'
      BY <1>2, <2>1 DEF Start, GroundSides
    <2>3. /\ pc' = "deletes" /\ store' = store /\ origin' = store /\ replay' = store /\ seen' = {store}
          /\ simulated' => fork' = replay'
      BY <1>2 DEF Start
    <2>4. Held(deletions \ Odd)' /\ Lacked(additions \ Odd)'
      BY <2>1 DEF Held, Lacked
    <2> QED
      BY <2>1, <2>2, <2>3, <2>4 DEF Sides
  <1>3. CASE InstantiateDeletes
    <2>1. /\ pc = "deletes" /\ pc' = "inserts" /\ rawDeletes' = Op.del[Source]
          /\ Form \in {"ground", "pattern"} /\ Form' = Form /\ Op' = Op
          /\ UNCHANGED <<store, seen, blank, simulated, fork, deletions, additions, recounted, netEffectExact,
                         origin, replay>>
      BY <1>3 DEF InstantiateDeletes, live, given, accumulated, history, Form, Op
    <2>2. simulated => Source = replay
      BY <2>1 DEF Source, Sides
    <2> QED
      BY <2>1, <2>2 DEF Sides, OnFork, GroundSides, Odd, Held, Lacked, Patch
  <1>4. CASE InstantiateInserts
    <2>1. /\ pc = "inserts" /\ pc' = "existing" /\ rawInserts' = Op.ins[Source]
          /\ Form' = Form /\ Op' = Op
          /\ UNCHANGED <<store, seen, blank, simulated, fork, rawDeletes, deletions, additions, recounted,
                         netEffectExact, origin, replay>>
      BY <1>4 DEF InstantiateInserts, live, given, accumulated, history, Form, Op
    <2>2. simulated => Source = replay
      BY <2>1 DEF Source, Sides
    <2> QED
      BY <2>1, <2>2 DEF Sides, OnFork, GroundSides, Odd, Held, Lacked, Patch
  <1>5. CASE GraphOperation
    <2>1. /\ pc = "deletes" /\ pc' = "existing" /\ Form' = Form /\ Op' = Op
          /\ netEffectExact' => netEffectExact /\ Form = "enumerated"
          /\ Form = "enumerated" => rawDeletes' = Op.del[Source] /\ rawInserts' = Op.ins[Source]
          /\ UNCHANGED <<store, seen, blank, simulated, fork, deletions, additions, recounted, origin, replay>>
      BY <1>5 DEF GraphOperation, live, given, accumulated, history, Form, Op, TypeOK
    <2>2. simulated => Source = replay
      BY <2>1 DEF Source, Sides
    <2>3. Form = "enumerated" /\ ~simulated => Held(rawDeletes)'
      <3>1. Form = "enumerated" /\ ~simulated => rawDeletes' \subseteq store
        BY <2>1, EnumeratedReads DEF Source, TypeOK
      <3> QED
        BY <2>1, <3>1 DEF Held, Sides
    <2> QED
      BY <2>1, <2>2, <2>3 DEF Sides, OnFork, GroundSides, Odd, Held, Lacked, Patch
  <1>6. CASE TrimDeletes
    <2>1. /\ pc = "existing" /\ pc' = "missing" /\ Form' = Form /\ Op' = Op
          /\ netEffectExact' => netEffectExact
          /\ (deletions' \cap additions') = {}
          /\ UNCHANGED <<store, seen, blank, simulated, fork, rawDeletes, rawInserts, origin, replay>>
      BY <1>6 DEF TrimDeletes, live, given, raws, Form, Op, Sides, Reached
    <2>2. netEffectExact' => /\ simulated => GroundSides(origin, replay \ Gone)'
                             /\ Held(deletions \ Odd)' /\ Lacked(additions \ Odd)'
      BY <1>6, DeletionSides
    <2> QED
      BY <2>1, <2>2 DEF Sides, OnFork
  <1>7. CASE TrimInserts
    <2>1. /\ pc = "missing" /\ pc' \in {"deletes", "derived", "refused"}
          /\ netEffectExact' = netEffectExact
          /\ (deletions' \cap additions') = {}
          /\ simulated => fork' = replay'
          /\ UNCHANGED <<store, seen, simulated, origin>>
      BY <1>7 DEF TrimInserts, live, given, Sides, Reached
    <2>2. netEffectExact' => /\ simulated => GroundSides(origin, replay)'
                             /\ Held(deletions \ Odd)' /\ Lacked(additions \ Odd)'
      BY <1>7, InsertionSides
    <2> QED
      BY <2>1, <2>2 DEF Sides, OnFork
  <1>8. CASE StoreMoves
    <2>1. /\ seen' = seen \cup {store'} /\ pc' = pc /\ pc # "idle" /\ Form' = Form /\ Op' = Op
          /\ UNCHANGED <<blank, simulated, fork, rawDeletes, rawInserts, deletions, additions, recounted,
                         netEffectExact, origin, replay>>
      BY <1>8 DEF StoreMoves, given, raws, accumulated, history, Form, Op
    <2>2. /\ Held(rawDeletes) => Held(rawDeletes)'
          /\ Held(deletions \ Odd) => Held(deletions \ Odd)'
          /\ Lacked(additions \ Odd) => Lacked(additions \ Odd)'
      BY <2>1 DEF Held, Lacked, Odd
    <2>3. Gone' = Gone
      BY <2>1 DEF Gone
    <2> QED
      BY <2>1, <2>2, <2>3 DEF Sides, OnFork, GroundSides, Odd
  <1>9. CASE UNCHANGED vars
    BY <1>9 DEF vars, Sides, OnFork, GroundSides, Odd, Held, Lacked, Patch, Gone, Op, Form
  <1> QED
    BY <1>1, <1>2, <1>3, <1>4, <1>5, <1>6, <1>7, <1>8, <1>9 DEF Next

\* Whatever other writers do meanwhile, a quad the patch deletes was in a store
\* there was, and one it adds was missing from one, as long as the patch claims to
\* be exact, the quad has no blank node and no template yielded it twice when an
\* earlier operation had written it.
THEOREM EverySideWasSeen == Spec => []SidesWitnessed
  <1>1. Init => TypeOK /\ Sides
    BY TypeInit, SidesInit
  <1>2. (TypeOK /\ Sides) /\ [Next]_vars => (TypeOK /\ Sides)'
    BY TypeStep, SidesStep
  <1>3. Sides => SidesWitnessed
    BY DEF Sides, SidesWitnessed, Held, Lacked, Odd
  <1> QED
    BY <1>1, <1>2, <1>3, PTL DEF Spec

-----------------------------------------------------------------------------
(***************************************************************************)
(* One operation: what it deletes is known exactly, blank nodes or not, or *)
(* the patch does not claim to be exact.                                   *)
(***************************************************************************)

\* A derivation of one operation asks the store it began with, if nobody writes.
AloneAndExact == Len(program) = 1 /\ netEffectExact /\ moves = 0

OneOperation ==
    /\ moves = 0 => store = origin
    /\ Len(program) = 1 => ~simulated
    /\ Len(program) = 1 /\ pc \in {"idle", "deletes", "inserts", "existing", "missing"} => replay = origin
    /\ AloneAndExact /\ pc \in {"inserts", "existing", "missing"} =>
         Form # "counted" /\ rawDeletes = Op.del[origin]
    /\ AloneAndExact /\ pc \in {"existing", "missing"} => rawInserts = Op.ins[origin]
    /\ AloneAndExact /\ pc \in {"idle", "deletes", "inserts", "existing"} => Patch = EmptyDelta
    /\ AloneAndExact /\ pc = "missing" => deletions = (origin \cap rawDeletes) \ rawInserts
    /\ AloneAndExact /\ pc = "derived" => deletions = origin \ replay

LEMMA OneInit == Init => OneOperation
  <1> SUFFICES ASSUME Init PROVE OneOperation
    OBVIOUS
  <1> QED
    BY DEF Init, OneOperation, Patch, EmptyDelta

LEMMA OneStep == TypeOK /\ OneOperation /\ [Next]_vars => OneOperation'
  <1> SUFFICES ASSUME TypeOK, OneOperation, [Next]_vars PROVE OneOperation'
    OBVIOUS
  <1>1. CASE Refuse
    BY <1>1 DEF Refuse, OneOperation, live, given, accumulated, history, Patch, AloneAndExact
  <1>2. CASE Start
    <2>1. Len(program) = 1 => ~simulated'
      <3>1. NeedsFork(program) => Len(program) >= 2
        BY DEF NeedsFork
      <3>2. simulated' => NeedsFork(program)
        BY <1>2 DEF Start
      <3>3. Len(program) = 1 => ~(Len(program) >= 2)
        OBVIOUS
      <3> QED
        BY <3>1, <3>2, <3>3, Zenon
    <2>2. /\ pc = "idle" /\ pc' = "deletes" /\ store' = store /\ origin' = store /\ replay' = store
          /\ Patch' = Patch /\ UNCHANGED <<program, moves, netEffectExact>>
      BY <1>2 DEF Start, given, accumulated, Patch
    <2> QED
      BY <2>1, <2>2 DEF OneOperation, AloneAndExact
  <1>3. CASE InstantiateDeletes
    <2>1. /\ pc = "deletes" /\ pc' = "inserts" /\ rawDeletes' = Op.del[Source]
          /\ Form \in {"ground", "pattern"} /\ Form' = Form /\ Op' = Op /\ Patch' = Patch
          /\ UNCHANGED <<store, moves, program, simulated, deletions, netEffectExact, origin, replay>>
      BY <1>3 DEF InstantiateDeletes, live, given, accumulated, history, Form, Op, Patch
    <2>2. AloneAndExact => Source = origin
      BY DEF Source, OneOperation, AloneAndExact
    <2> QED
      BY <2>1, <2>2 DEF OneOperation, AloneAndExact
  <1>4. CASE InstantiateInserts
    <2>1. /\ pc = "inserts" /\ pc' = "existing" /\ rawInserts' = Op.ins[Source]
          /\ Form' = Form /\ Op' = Op /\ Patch' = Patch
          /\ UNCHANGED <<store, moves, program, simulated, deletions, rawDeletes, netEffectExact, origin, replay>>
      BY <1>4 DEF InstantiateInserts, live, given, accumulated, history, Form, Op, Patch
    <2>2. AloneAndExact => Source = origin
      BY DEF Source, OneOperation, AloneAndExact
    <2> QED
      BY <2>1, <2>2 DEF OneOperation, AloneAndExact
  <1>5. CASE GraphOperation
    <2>1. /\ pc = "deletes" /\ pc' = "existing" /\ Form' = Form /\ Op' = Op /\ Patch' = Patch
          /\ netEffectExact' => netEffectExact /\ Form = "enumerated"
          /\ Form = "enumerated" => rawDeletes' = Op.del[Source] /\ rawInserts' = Op.ins[Source]
          /\ UNCHANGED <<store, moves, program, simulated, deletions, origin, replay>>
      BY <1>5 DEF GraphOperation, live, given, accumulated, history, Form, Op, Patch, TypeOK
    <2>2. AloneAndExact => Source = origin
      BY DEF Source, OneOperation, AloneAndExact
    <2> QED
      BY <2>1, <2>2 DEF OneOperation, AloneAndExact
  <1>6. CASE TrimDeletes
    <2>1. /\ pc = "existing" /\ pc' = "missing" /\ Form' = Form /\ Op' = Op
          /\ netEffectExact' =>
               netEffectExact /\ (Form = "enumerated" \/ canName \/ rawDeletes \cap blank = {})
          /\ deletions' = deletions \cup (Existing(rawDeletes) \cap Reached(rawDeletes \ rawInserts, additions, twiceDeletes))
          /\ UNCHANGED <<store, moves, program, simulated, rawDeletes, rawInserts, origin, replay>>
      BY <1>6 DEF TrimDeletes, live, given, raws, Form, Op
    <2>2. ASSUME AloneAndExact, netEffectExact'
          PROVE  deletions' = (origin \cap rawDeletes) \ rawInserts
      <3>1. deletions = {} /\ additions = {} /\ Source = origin /\ rawDeletes = Op.del[origin]
        BY <2>1, <2>2 DEF OneOperation, AloneAndExact, Source, Patch, EmptyDelta
      <3>2. Existing(rawDeletes) = IF Form = "enumerated" THEN rawDeletes ELSE rawDeletes \cap origin
        BY <2>1, <2>2, <3>1, Asked DEF TypeOK
      <3>3. Form = "enumerated" => rawDeletes \subseteq origin
        BY <2>1, <3>1, EnumeratedReads DEF TypeOK
      <3>4. Existing(rawDeletes) = rawDeletes \cap origin
        BY <3>2, <3>3
      <3> QED
        BY <2>1, <3>1, <3>4 DEF Reached
    <2> QED
      BY <2>1, <2>2 DEF OneOperation, AloneAndExact
  <1>7. CASE TrimInserts
    <2>1. /\ pc = "missing" /\ pc' \in {"deletes", "derived", "refused"}
          /\ deletions' = deletions \ rawInserts
          /\ replay' = Execute(Op, replay)
          /\ UNCHANGED <<store, moves, program, simulated, netEffectExact, origin>>
      BY <1>7 DEF TrimInserts, live, given
    <2>3. Len(program) = 1 => pc' # "deletes"
      <3>1. i \in 1 .. Len(program)
        BY <1>7 DEF TrimInserts, TypeOK
      <3>2. Len(program) = 1 => ~(i < Len(program))
        BY <3>1
      <3> QED
        BY <1>7, <3>2 DEF TrimInserts
    <2>2. ASSUME AloneAndExact
          PROVE  deletions' = origin \ replay'
      <3>1. /\ replay = origin /\ rawDeletes = Op.del[origin] /\ rawInserts = Op.ins[origin]
            /\ deletions = (origin \cap rawDeletes) \ rawInserts
        BY <2>1, <2>2 DEF OneOperation, AloneAndExact
      <3>2. replay' = (origin \ rawDeletes) \cup rawInserts
        BY <2>1, <3>1 DEF Execute
      <3> QED
        BY <2>1, <3>1, <3>2
    <2> QED
      BY <2>1, <2>2, <2>3 DEF OneOperation, AloneAndExact
  <1>8. CASE StoreMoves
    <2>1. /\ moves' # 0 /\ pc' = pc /\ UNCHANGED <<program, simulated, origin, replay>>
      BY <1>8 DEF StoreMoves, given, history, TypeOK
    <2> QED
      BY <2>1 DEF OneOperation, AloneAndExact
  <1>9. CASE UNCHANGED vars
    BY <1>9 DEF vars, OneOperation, AloneAndExact, Patch, Op, Form
  <1> QED
    BY <1>1, <1>2, <1>3, <1>4, <1>5, <1>6, <1>7, <1>8, <1>9 DEF Next

\* A derivation of one operation that claims to be exact, and that no other writer
\* disturbed, deletes exactly what the operation removes, blank nodes or not.
THEOREM WhatIsDeletedIsKnown == Spec => []DeletionsAreExact
  <1>1. Init => TypeOK /\ OneOperation
    BY TypeInit, OneInit
  <1>2. (TypeOK /\ OneOperation) /\ [Next]_vars => (TypeOK /\ OneOperation)'
    BY TypeStep, OneStep
  <1>3. OneOperation => DeletionsAreExact
    BY DEF OneOperation, DeletionsAreExact, AloneAndExact, Undisturbed
  <1> QED
    BY <1>1, <1>2, <1>3, PTL DEF Spec

=============================================================================
