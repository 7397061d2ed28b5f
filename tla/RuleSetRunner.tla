----------------------------- MODULE RuleSetRunner ----------------------------
(***************************************************************************)
(* One run of a rule set (packages/runtime-srl/src/runRuleSet.ts, with     *)
(* api/src/lib/RuleSetExecutor.ts): the rules are layered, the input is    *)
(* loaded, DATA blocks run once, and each layer is iterated to its own     *)
(* fixpoint before the next one starts.  A rule that makes nodes or        *)
(* assigns values runs once.  Triples are in the store, tuples beside it.  *)
(*                                                                         *)
(* A rule's call to the store is awaited, but nothing else has the store:  *)
(* what happens meanwhile is that the run is told to stop.                 *)
(***************************************************************************)
EXTENDS Stratify, FiniteSets

CONSTANTS
    TupleRelations,   \* the relations that are tuples
    RuleSets,         \* the rule sets considered
    Inputs,           \* base graph, triples of the DATA block, and tuple seeds
    MaxIterations,    \* passes a layer may take
    MaxFailures       \* bound: calls to the store that fail or time out

\* What a pattern's argument may be in a fact: a constant, or the node or value
\* that a firing made of it.
Facts == [rel : Relations, term : Constants, made : Nat]
Given(rel, term) == [rel |-> rel, term |-> term, made |-> 0]

\* wellformed.ts asks this of a head; a NOT could also have a variable of its own.
\* The nodes a head makes are told apart by the variable.
VariableIsBound(rule) ==
    \/ \E p \in rule.body : p.term = Var
    \/ /\ \A p \in rule.head : p.term \in Constants
       /\ \A p \in rule.not \cup rule.notData : p.term # Var

\* A head that makes a node has its rule run once (stratify.ts:132).
BlanksRunOnce(rule) == (\E p \in rule.head : p.term = Blank) => rule.once

ASSUME RunnerAssumption ==
    /\ TupleRelations \subseteq Relations
    /\ MaxIterations \in Nat \ {0} /\ MaxFailures \in Nat
    /\ \A set \in RuleSets :
          set \in Seq(Rule) /\ \A i \in DOMAIN set : VariableIsBound(set[i]) /\ BlanksRunOnce(set[i])
    /\ IsFiniteSet(Relations) /\ IsFiniteSet(Constants)
    /\ \A i \in Inputs :
          /\ IsFiniteSet(i.base \cup i.block \cup i.seeds)
          /\ \A f \in i.base \cup i.block : f \in Facts /\ f.rel \notin TupleRelations
          /\ \A f \in i.seeds : f \in Facts /\ f.rel \in TupleRelations

VARIABLES
    ruleSet, input,   \* they do not change
    phase,
    layer,            \* the stratum of each rule
    order,            \* the rules in the order they are prepared
    quads, tuples,
    active, passes,   \* the stratum that runs, and the passes it took
    at,               \* the place in order
    firedOnce,
    startSignature, seen,
    executionFailed,
    stopped,          \* has the client or the deadline stopped the run?
    failures,
    grew              \* history: per stratum, the passes that derived something

given == <<ruleSet, input>>
plan == <<layer, order>>
data == <<quads, tuples>>
loop == <<active, passes, at, firedOnce, startSignature, seen, executionFailed>>
vars == <<given, phase, plan, data, loop, stopped, failures, grew>>

Running == phase \in {"begin", "blocks", "between", "rules"}

\* ---------------------------------------------------------------- One rule

\* A binding of its variable is a fact with the term it is bound to.
Instance(p, b) == IF p.term = Var THEN [b EXCEPT !.rel = p.rel] ELSE Given(p.rel, p.term)
Bindings(facts) == facts \cup {Given(rel, c) : rel \in Relations, c \in Constants}

\* A pattern of a body is found: a blank node of it may be anything.
Finds(p, b, facts) == \E f \in facts : f.rel = p.rel /\ (p.term = Blank \/ f = Instance(p, b))

\* The bindings under which a body holds of facts, its NOT of denied.  GRAPH
\* <ground> encloses what is WHERE DATA, but a tuple pattern in it is filled in
\* from the tuple store all the same.
Solutions(rule, facts, denied, ground) ==
    LET In(p, b, among, isGround) ==
            Finds(p, b, IF isGround /\ p.rel \notin TupleRelations THEN ground ELSE among)
    IN  {b \in Bindings(facts) :
            /\ \A p \in rule.body : In(p, b, facts, rule.data)
            /\ \A p \in rule.not : ~In(p, b, denied, rule.data)
            /\ \A p \in rule.notData : ~In(p, b, denied, TRUE)}

\* What a rule derives.  One that runs once makes something new of a solution,
\* and firing tells it from what another firing makes.
Derived(rule, firing, facts, denied, ground) ==
    {IF rule.once /\ p.term \in {Var, Blank}
     THEN [rel |-> p.rel, term |-> b.term, made |-> firing] ELSE Instance(p, b) :
        p \in rule.head, b \in Solutions(rule, facts, denied, ground)}

Triples(facts) == {f \in facts : f.rel \notin TupleRelations}

\* ------------------------------------------------------------------ The run

\* Slip: only triples count as progress.
Signature_Triples == <<quads, {}>>
\* What a pass is compared by: everything a rule can write.
Signature == <<quads, tuples>>

Strata == {layer[i] : i \in DOMAIN ruleSet}

\* The first rule from a place of the order on that this pass runs.
Due(k) ==
    /\ layer[order[k]] = active
    /\ ~(ruleSet[order[k]].once /\ order[k] \in firedOnce)
NextDue(from) ==
    LET due == {k \in from .. Len(order) : Due(k)}
    IN  Min(due \cup {Len(order) + 1})

End(how) == phase' = how /\ UNCHANGED <<given, plan, data, loop, stopped, failures, grew>>

Init ==
    /\ ruleSet \in RuleSets /\ input \in Inputs
    /\ phase = "begin"
    /\ layer = [i \in DOMAIN ruleSet |-> 0] /\ order = << >>
    /\ quads = {} /\ tuples = {}
    /\ active = 0 /\ passes = 0 /\ at = 0
    /\ firedOnce = {} /\ startSignature = << >> /\ seen = {}
    /\ executionFailed = FALSE /\ stopped = FALSE /\ failures = 0
    /\ grew = [l \in 0 .. Len(ruleSet) + 1 |-> 0]

\* prepareRules: one pass over the edges after another, and what comes of it.  The
\* caller waits for all of it, so that it cannot be stopped in between.
LayerRules ==
    /\ phase = "begin"
    /\ layer' = Pass(ruleSet, layer)
    /\ layer' # layer /\ ~TooHigh(ruleSet, layer)
    /\ UNCHANGED <<given, phase, order, data, loop, stopped, failures, grew>>

Layered == Pass(ruleSet, layer) = layer \/ TooHigh(ruleSet, layer)

\* Within a layer the rules that run once come first.
Before(i, j) ==
    \/ layer[i] < layer[j]
    \/ layer[i] = layer[j] /\ ruleSet[i].once /\ ~ruleSet[j].once
    \/ layer[i] = layer[j] /\ ruleSet[i].once = ruleSet[j].once /\ i < j

\* A set without layers is refused before anything is loaded.
Prepare ==
    /\ phase = "begin" /\ Layered
    /\ IF TooHigh(ruleSet, layer) \/ BadCycle(ruleSet)
       THEN phase' = "failed" /\ UNCHANGED <<order, data>>
       ELSE /\ phase' = "blocks"
            /\ order' \in Bijection(DOMAIN ruleSet, DOMAIN ruleSet)
            /\ \A j, k \in DOMAIN ruleSet : j < k => Before(order'[j], order'[k])
            /\ quads' = input.base /\ tuples' = input.seeds
    /\ UNCHANGED <<given, layer, loop, stopped, failures, grew>>

\* The DATA block, if there is one, and the first layer.
RunDataBlocks ==
    /\ phase = "blocks" /\ ~(stopped /\ input.block # {})
    /\ quads' = quads \cup input.block
    /\ IF ruleSet = << >> THEN phase' = "converged" /\ UNCHANGED <<active, seen>>
       ELSE /\ phase' = "between"
            /\ active' = Min(Strata)
            /\ seen' = {<<quads', tuples>>}
    /\ UNCHANGED <<given, plan, tuples, passes, at, firedOnce, startSignature,
                   executionFailed, stopped, failures, grew>>

DataBlockFails ==
    /\ phase = "blocks" /\ input.block # {} /\ ~stopped /\ failures < MaxFailures
    /\ failures' = failures + 1
    /\ phase' = "failed"
    /\ UNCHANGED <<given, plan, data, loop, stopped, grew>>

\* Slip: one pass too many.
BudgetSpent_Late == passes > MaxIterations
\* The budget is looked at before a pass, and after it whether to stop.
BudgetSpent == passes >= MaxIterations

GiveUp == phase = "between" /\ BudgetSpent /\ End("maxIterations")

StartPass ==
    /\ phase = "between" /\ ~BudgetSpent /\ ~stopped
    /\ phase' = "rules"
    /\ passes' = passes + 1
    /\ startSignature' = Signature
    /\ at' = NextDue(1)
    /\ UNCHANGED <<given, plan, data, active, firedOnce, seen, executionFailed, stopped, failures, grew>>

\* stopReason, where the loop asks for it.
StopIsSeen ==
    /\ stopped
    /\ \/ phase = "blocks" /\ input.block # {}
       \/ phase = "between" /\ ~BudgetSpent
       \/ phase = "rules" /\ at <= Len(order)
    /\ End("failed")

Fire(i) ==
    LET facts == quads \cup tuples
        derived == Derived(ruleSet[i], i + Len(ruleSet) * (passes - 1), facts, facts, input.base)
    IN  /\ quads' = quads \cup Triples(derived)
        /\ tuples' = tuples \cup (derived \ Triples(derived))

RuleDone(i) ==
    /\ phase = "rules" /\ at <= Len(order) /\ i = order[at] /\ ~stopped
    /\ firedOnce' = IF ruleSet[i].once THEN firedOnce \cup {i} ELSE firedOnce
    /\ at' = NextDue(at + 1)
    /\ UNCHANGED <<given, phase, plan, active, passes, startSignature, seen, stopped, grew>>

RunRule(i) == RuleDone(i) /\ Fire(i) /\ UNCHANGED <<executionFailed, failures>>

\* The call fails, or took longer than a rule may and did its work all the same.
\* The rules behind it still run.
RuleFails(i) ==
    /\ failures < MaxFailures
    /\ RuleDone(i)
    /\ Fire(i) \/ UNCHANGED data
    /\ executionFailed' = TRUE
    /\ failures' = failures + 1

\* Slip: one budget for the whole run.
NextStratum_Shared ==
    /\ active' = Min({l \in Strata : l > active})
    /\ passes' = passes
    /\ seen' = {Signature}
\* A layer at its fixpoint makes room for the next one, with a budget and a
\* history of its own.
NextStratum ==
    /\ active' = Min({l \in Strata : l > active})
    /\ passes' = 0
    /\ seen' = {Signature}

EndPass ==
    /\ phase = "rules" /\ at > Len(order)
    /\ grew' = IF Signature # startSignature THEN [grew EXCEPT ![active] = @ + 1] ELSE grew
    /\ \/ executionFailed /\ phase' = "failed" /\ UNCHANGED <<active, passes, seen>>
       \/ /\ ~executionFailed /\ Signature = startSignature
          /\ IF \E l \in Strata : l > active
             THEN phase' = "between" /\ NextStratum
             ELSE phase' = "converged" /\ UNCHANGED <<active, passes, seen>>
       \/ /\ ~executionFailed /\ Signature # startSignature
          /\ phase' = IF Signature \in seen THEN "cycle" ELSE "between"
          /\ seen' = seen \cup {Signature}
          /\ UNCHANGED <<active, passes>>
    /\ UNCHANGED <<given, plan, data, at, firedOnce, startSignature, executionFailed, stopped, failures>>

\* The client goes away or the deadline passes (executionSignal).
Stop ==
    /\ Running /\ ~stopped
    /\ phase = "begin" => Pass(ruleSet, layer) = layer
    /\ stopped' = TRUE
    /\ UNCHANGED <<given, phase, plan, data, loop, failures, grew>>

Next ==
    \/ LayerRules
    \/ Prepare
    \/ RunDataBlocks
    \/ DataBlockFails
    \/ GiveUp
    \/ StartPass
    \/ StopIsSeen
    \/ \E i \in DOMAIN ruleSet : RunRule(i)
    \/ \E i \in DOMAIN ruleSet : RuleFails(i)
    \/ EndPass
    \/ Stop

Spec == Init /\ [][Next]_vars

\* -------------------------------------------------------------- Properties

\* Types, and the counters within their bounds: no layer takes more passes than
\* its budget.
TypeOK ==
    /\ phase \in {"begin", "blocks", "between", "rules", "converged", "maxIterations", "cycle", "failed"}
    /\ phase \notin {"begin", "failed"} => layer \in [DOMAIN ruleSet -> 0 .. Len(ruleSet) - 1]
    /\ quads \subseteq Triples(Facts) /\ tuples \subseteq Facts \ Triples(Facts)
    /\ passes \in 0 .. MaxIterations
    /\ firedOnce \subseteq DOMAIN ruleSet
    /\ executionFailed \in BOOLEAN /\ stopped \in BOOLEAN
    /\ failures \in 0 .. MaxFailures

\* What follows from the input when NOT is answered by the given facts: the least
\* set that holds the input and is closed under the rules, each fired once.
Consequences(denied) ==
    LET Step(facts) ==
            facts \cup UNION {Derived(ruleSet[i], i, facts, denied, input.base) : i \in DOMAIN ruleSet}
        after[k \in Nat] ==
            IF k = 0 THEN input.base \cup input.block \cup input.seeds ELSE Step(after[k - 1])
    IN  after[Cardinality(denied)]

\* stratify takes a ground pattern to read what no rule writes, but tuples are
\* put into it as they are derived: what such a rule finds depends on when it runs.
ReadsTuplesAsGround(rule) ==
    \E p \in rule.notData \cup (IF rule.data THEN rule.body \cup rule.not ELSE {}) :
        p.rel \in TupleRelations

\* A run that converges ends with the one model the rule set has: exactly what
\* follows from the input when NOT is answered by the result itself.  So nothing
\* was negated, or counted by a rule that runs once, before it was complete, a
\* rule that makes nodes made them once, and no layer stopped short of its
\* fixpoint, in tuples or in triples (runRuleSet.ts:504-528, stratify.ts:134-139).
\* Two kinds of sets are excluded, which stratify gets wrong: those with a rule that
\* reads tuples as ground, and those where a blank node reads a constant.
ConvergedIsTheModel ==
    phase = "converged" /\ ~BlankReadsConstant(ruleSet)
        /\ ~(\E i \in DOMAIN ruleSet : ReadsTuplesAsGround(ruleSet[i]))
            => quads \cup tuples = Consequences(quads \cup tuples)

\* The rules can be put in layers: any that respect every dependency.
HasLayers(set) ==
    \E l \in [DOMAIN set -> 0 .. Len(set) - 1] :
        \A i, j \in DOMAIN set : l[i] >= Lowest(Label(set[i], set[j]), l[j])

\* A run ends otherwise only for a reason: it gives up when one layer derived
\* something in each pass of its budget, whatever the other layers took
\* (runRuleSet.ts:536-541); rules that only add never run in a cycle; and a run
\* fails when it was stopped, a call failed, or its rules have no layers.
EndsForAReason ==
    /\ phase = "maxIterations" => grew[active] = MaxIterations
    /\ phase # "cycle"
    /\ phase = "failed" => stopped \/ failures > 0 \/ ~HasLayers(ruleSet)

=============================================================================
