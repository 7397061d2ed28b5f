-------------------------- MODULE RuleSetRunnerProofs --------------------------
(***************************************************************************)
(* Runs of a rule set (RuleSetRunner.tla), for any rules, inputs and       *)
(* budget: the layers that assignStrata settles on are the least there     *)
(* are, and it refuses exactly the sets that have none; a run stops short  *)
(* of its result only for a reason; and what it converges to is what       *)
(* follows from its input.                                                 *)
(***************************************************************************)
EXTENDS RuleSetRunner, FiniteSetTheorems, WellFoundedInduction, TLAPS

-----------------------------------------------------------------------------
(***************************************************************************)
(* The least and the greatest of a set of numbers.                         *)
(***************************************************************************)

LEMMA LeastExists ==
    ASSUME NEW T, T \subseteq Nat, T # {}
    PROVE  \E m \in T : \A k \in T : m <= k
<1> DEFINE R == OpToRel(<, Nat)
<1>1. PICK m \in T : \A k \in T : ~(<<k, m>> \in R)
    BY NatLessThanWellFounded, WFMin
<1>2. \A k \in T : k < m => <<k, m>> \in R
    BY DEF OpToRel
<1> HIDE DEF R
<1>3. \A k \in T : ~(k < m)
    BY <1>1, <1>2
<1> QED
    BY <1>3

LEMMA MinIsLeast ==
    ASSUME NEW T, T \subseteq Nat, T # {}
    PROVE  Min(T) \in T /\ \A k \in T : Min(T) <= k
<1>1. \E x \in T : \A y \in T : x =< y
    BY LeastExists
<1> QED
    BY <1>1 DEF Min

LEMMA MaxIsGreatest ==
    ASSUME NEW n \in Nat, NEW T, T \subseteq 0 .. n, T # {}
    PROVE  Max(T) \in T /\ \A k \in T : k <= Max(T)
<1> DEFINE U == {n - x : x \in T}
<1>1. \A x \in T : n - x \in Nat
    OBVIOUS
<1>2. U \subseteq Nat /\ U # {}
    BY <1>1
<1>3. PICK m \in U : \A k \in U : m <= k
    BY <1>2, LeastExists
<1>4. PICK x \in T : m = n - x
    OBVIOUS
<1>5. \A y \in T : n - x <= n - y
    BY <1>3, <1>4
<1>6. \E z \in T : \A y \in T : z >= y
    BY <1>5
<1> QED
    BY <1>6 DEF Max

-----------------------------------------------------------------------------
(***************************************************************************)
(* The inductive invariant.                                                *)
(***************************************************************************)

Shapes ==
    /\ ruleSet \in RuleSets /\ input \in Inputs
    /\ phase \in {"begin", "blocks", "between", "rules", "converged", "maxIterations", "cycle", "failed"}
    /\ quads \subseteq Triples(Facts) /\ tuples \subseteq Facts \ Triples(Facts)
    /\ passes \in 0 .. MaxIterations
    /\ phase = "rules" => passes # 0
    /\ firedOnce \subseteq DOMAIN ruleSet
    /\ executionFailed \in BOOLEAN /\ stopped \in BOOLEAN
    /\ failures \in 0 .. MaxFailures

\* Layers that respect every dependency.
Fits(set, l) == \A i, j \in DOMAIN set : l[i] >= Lowest(Label(set[i], set[j]), l[j])

\* No rule is above where the dependencies put it.
IsLeast(set, l) ==
    \A k \in [DOMAIN set -> Nat] : Fits(set, k) => \A i \in DOMAIN set : l[i] <= k[i]

Layers ==
    /\ layer \in [DOMAIN ruleSet -> 0 .. Len(ruleSet) + 2]
    /\ IsLeast(ruleSet, layer)
    /\ phase \notin {"begin", "failed"} =>
          Fits(ruleSet, layer) /\ layer \in [DOMAIN ruleSet -> 0 .. Len(ruleSet) - 1]

\* What each layer took of its budget, and what the layers to come have taken.
Counted ==
    /\ grew \in [0 .. Len(ruleSet) + 1 -> Nat]
    /\ phase \in {"begin", "blocks"} => passes = 0 /\ \A l \in DOMAIN grew : grew[l] = 0
    /\ phase \in {"between", "rules"} => active \in Strata /\ \A l \in DOMAIN grew : l > active => grew[l] = 0
    /\ phase = "between" => grew[active] = passes
    /\ phase = "rules" => grew[active] = passes - 1
    /\ phase = "maxIterations" => grew[active] = MaxIterations

\* What was seen has only grown since.
Below(s, t) == s[1] \subseteq t[1] /\ s[2] \subseteq t[2]
Grown ==
    /\ phase # "cycle"
    /\ phase = "between" => \A s \in seen : Below(s, Signature)
    /\ phase = "rules" =>
         /\ startSignature = <<startSignature[1], startSignature[2]>>
         /\ Below(startSignature, Signature)
         /\ \A s \in seen : Below(s, startSignature)

Reasons ==
    /\ executionFailed => failures > 0
    /\ phase = "failed" => stopped \/ failures > 0 \/ ~HasLayers(ruleSet)

IInv == Shapes /\ Layers /\ Counted /\ Grown /\ Reasons

-----------------------------------------------------------------------------
(***************************************************************************)
(* Layers.                                                                 *)
(***************************************************************************)

LEMMA LowestIs ==
    ASSUME NEW a, NEW b, NEW l \in Nat
    PROVE  /\ Label(a, b) = "none" => Lowest(Label(a, b), l) = 0
           /\ Label(a, b) = "positive" => Lowest(Label(a, b), l) = l
           /\ Label(a, b) \in {"negative", "closed"} => Lowest(Label(a, b), l) = l + 1
           /\ Label(a, b) \in {"none", "positive", "negative", "closed"}
           /\ a.once /\ Label(a, b) # "none" => Label(a, b) \in {"negative", "closed"}
  BY DEF Label, Lowest

LEMMA LowestGrows ==
    ASSUME NEW a, NEW b, NEW l \in Nat, NEW m \in Nat, l <= m
    PROVE  Lowest(Label(a, b), l) <= Lowest(Label(a, b), m)
  BY LowestIs

LEMMA LowestType ==
    ASSUME NEW a, NEW b, NEW l \in Nat
    PROVE  Lowest(Label(a, b), l) \in 0 .. l + 1 /\ Lowest(Label(a, b), l) \in Int
  BY LowestIs

LEMMA LowestReads ==
    ASSUME NEW a, NEW b, NEW l \in Nat, Label(a, b) # "none"
    PROVE  l <= Lowest(Label(a, b), l)
  BY LowestIs

\* One pass over the edges raises no rule above where it has to be.
LEMMA PassIsLeast ==
    ASSUME NEW n \in Nat, NEW set, DOMAIN set = 1 .. n, NEW l \in [1 .. n -> 0 .. n + 1], IsLeast(set, l)
    PROVE  /\ Pass(set, l) \in [1 .. n -> 0 .. n + 2]
           /\ IsLeast(set, Pass(set, l))
           /\ \A i, j \in 1 .. n : Pass(set, l)[i] >= Lowest(Label(set[i], set[j]), l[j])
<1> DEFINE asked(i) == {l[i]} \cup {Lowest(Label(set[i], set[j]), l[j]) : j \in 1 .. n}
<1>1. ASSUME NEW i \in 1 .. n
      PROVE  asked(i) \subseteq 0 .. n + 2
  <2>1. \A j \in 1 .. n : l[j] \in 0 .. n + 1 /\ Lowest(Label(set[i], set[j]), l[j]) \in 0 .. l[j] + 1
    <3>1. \A j \in 1 .. n : l[j] \in 0 .. n + 1 /\ l[j] \in Nat
        OBVIOUS
    <3> QED
        BY <3>1, LowestType
  <2> QED
      BY <2>1
<1>2. \A i \in 1 .. n : Max(asked(i)) \in asked(i) /\ \A k \in asked(i) : k <= Max(asked(i))
  <2> SUFFICES ASSUME NEW i \in 1 .. n
               PROVE  Max(asked(i)) \in asked(i) /\ \A k \in asked(i) : k <= Max(asked(i))
      OBVIOUS
  <2>1. asked(i) # {} /\ n + 2 \in Nat
      OBVIOUS
  <2> HIDE DEF asked
  <2> QED
      BY <1>1, <2>1, MaxIsGreatest
<1>3. Pass(set, l) = [i \in 1 .. n |-> Max(asked(i))]
    BY DEF Pass
<1>4. Pass(set, l) \in [1 .. n -> 0 .. n + 2]
  <2> HIDE DEF asked
  <2> QED
      BY <1>1, <1>2, <1>3
<1>5. \A i, j \in 1 .. n : Pass(set, l)[i] >= Lowest(Label(set[i], set[j]), l[j])
  <2> SUFFICES ASSUME NEW i \in 1 .. n, NEW j \in 1 .. n
               PROVE  Pass(set, l)[i] >= Lowest(Label(set[i], set[j]), l[j])
      OBVIOUS
  <2>1. Lowest(Label(set[i], set[j]), l[j]) \in asked(i)
      OBVIOUS
  <2> HIDE DEF asked
  <2>2. Lowest(Label(set[i], set[j]), l[j]) <= Max(asked(i))
      BY <1>2, <2>1
  <2>3. Lowest(Label(set[i], set[j]), l[j]) \in Int /\ Max(asked(i)) \in Int
      BY <1>1, <1>2, <2>1
  <2> QED
      BY <1>3, <2>2, <2>3
<1>6. ASSUME NEW k \in [1 .. n -> Nat], Fits(set, k), NEW i \in 1 .. n
      PROVE  Pass(set, l)[i] <= k[i]
  <2>1. \A j \in 1 .. n : l[j] <= k[j]
      BY <1>6 DEF IsLeast
  <2>2. ASSUME NEW j \in 1 .. n
        PROVE  Lowest(Label(set[i], set[j]), l[j]) <= k[i]
    <3>1. Lowest(Label(set[i], set[j]), l[j]) <= Lowest(Label(set[i], set[j]), k[j])
        BY <2>1, LowestGrows
    <3>2. Lowest(Label(set[i], set[j]), k[j]) <= k[i]
        BY <1>6 DEF Fits
    <3>3. Lowest(Label(set[i], set[j]), l[j]) \in Int /\ Lowest(Label(set[i], set[j]), k[j]) \in Int
      <4>1. l[j] \in Nat /\ k[j] \in Nat
          BY <1>6
      <4> QED
          BY <4>1, LowestType
    <3> QED
        BY <3>1, <3>2, <3>3
  <2>3. \A m \in asked(i) : m <= k[i]
      BY <2>1, <2>2
  <2> HIDE DEF asked
  <2> QED
      BY <1>2, <1>3, <2>3
<1> QED
    BY <1>4, <1>5, <1>6 DEF IsLeast

\* Layers that are the least leave out no number, so they are fewer than the rules.
LEMMA LeastIsCompact ==
    ASSUME NEW n \in Nat, NEW set, DOMAIN set = 1 .. n, NEW l \in [1 .. n -> Nat], Fits(set, l), IsLeast(set, l)
    PROVE  l \in [1 .. n -> 0 .. n - 1]
<1>1. ASSUME NEW i \in 1 .. n, NEW k \in Nat, k < l[i], \A j \in 1 .. n : l[j] # k
      PROVE  FALSE
  <2> DEFINE m == [j \in 1 .. n |-> IF l[j] > k THEN l[j] - 1 ELSE l[j]]
  <2>1. m \in [1 .. n -> Nat]
      OBVIOUS
  <2>2. ASSUME NEW a \in 1 .. n, NEW b \in 1 .. n
        PROVE  m[a] >= Lowest(Label(set[a], set[b]), m[b])
    <3>1. l[a] >= Lowest(Label(set[a], set[b]), l[b])
        BY DEF Fits
    <3>2. l[a] \in Nat /\ l[b] \in Nat /\ m[a] \in Nat /\ m[b] \in Nat /\ l[a] # k /\ l[b] # k
        BY <1>1, <2>1
    <3>3. CASE Label(set[a], set[b]) = "none"
      <4>1. Lowest(Label(set[a], set[b]), m[b]) = 0
          BY <3>2, <3>3, LowestIs
      <4> QED
          BY <3>2, <4>1
    <3>4. CASE Label(set[a], set[b]) = "positive"
      <4>1. Lowest(Label(set[a], set[b]), m[b]) = m[b] /\ Lowest(Label(set[a], set[b]), l[b]) = l[b]
          BY <3>2, <3>4, LowestIs
      <4> QED
          BY <3>1, <3>2, <4>1
    <3>5. CASE Label(set[a], set[b]) \in {"negative", "closed"}
      <4>1. Lowest(Label(set[a], set[b]), m[b]) = m[b] + 1 /\ Lowest(Label(set[a], set[b]), l[b]) = l[b] + 1
          BY <3>2, <3>5, LowestIs
      <4> QED
          BY <3>1, <3>2, <4>1
    <3> QED
        BY <3>2, <3>3, <3>4, <3>5, LowestIs
  <2>3. Fits(set, m)
      BY <2>2 DEF Fits
  <2>4. l[i] <= m[i]
      BY <2>1, <2>3 DEF IsLeast
  <2> QED
      BY <1>1, <2>4
<1> DEFINE T == {l[j] : j \in 1 .. n}
<1>2. l \in Surjection(1 .. n, T)
    BY DEF Surjection
<1>3. IsFiniteSet(1 .. n) /\ Cardinality(1 .. n) = n
  <2>1. 1 \in Int /\ n \in Int
      OBVIOUS
  <2> QED
      BY <2>1, FS_Interval
<1>4. IsFiniteSet(T) /\ Cardinality(T) <= n
    BY <1>2, <1>3, FS_Surjection
<1>5. ASSUME NEW i \in 1 .. n
      PROVE  l[i] <= n - 1
  <2>1. 0 .. l[i] \subseteq T
    <3> SUFFICES ASSUME NEW k \in 0 .. l[i]
                 PROVE  \E j \in 1 .. n : l[j] = k
        OBVIOUS
    <3>1. CASE k = l[i]
        BY <3>1
    <3>2. CASE k < l[i]
        BY <1>1, <3>2
    <3> QED
        BY <3>1, <3>2
  <2>2. l[i] \in Nat /\ 0 \in Int /\ l[i] \in Int
      OBVIOUS
  <2>3. Cardinality(0 .. l[i]) = l[i] + 1
      BY <2>2, FS_Interval
  <2> HIDE DEF T
  <2>4. Cardinality(0 .. l[i]) <= Cardinality(T)
      BY <1>4, <2>1, FS_Subset
  <2>5. Cardinality(T) \in Int
    <3>1. Cardinality(T) \in Nat
        BY <1>4, FS_CardinalityType
    <3> QED
        BY <3>1
  <2> QED
      BY <1>4, <2>2, <2>3, <2>4, <2>5
<1> QED
    BY <1>5

\* A set that is refused has no layers.
LEMMA RefusedHasNone ==
    ASSUME NEW n \in Nat, NEW set, DOMAIN set = 1 .. n, Len(set) = n, NEW l \in [1 .. n -> Nat], IsLeast(set, l),
           TooHigh(set, l) \/ BadCycle(set)
    PROVE  ~HasLayers(set)
<1> SUFFICES ASSUME HasLayers(set)
             PROVE  FALSE
    OBVIOUS
<1>1. PICK k \in [1 .. n -> 0 .. n - 1] : Fits(set, k)
    BY DEF HasLayers, Fits
<1>2. k \in [1 .. n -> Nat]
    BY <1>1
<1>3. CASE TooHigh(set, l)
  <2>1. PICK i \in 1 .. n : l[i] > n + 1
      BY <1>3 DEF TooHigh
  <2>2. l[i] <= k[i]
      BY <1>1, <1>2 DEF IsLeast
  <2> QED
      BY <1>1, <2>1, <2>2
<1>4. CASE BadCycle(set)
  <2> DEFINE edges == {e \in (1 .. n) \X (1 .. n) : Label(set[e[1]], set[e[2]]) # "none"}
  <2>1. PICK e \in edges :
           /\ set[e[1]].once \/ Label(set[e[1]], set[e[2]]) = "negative"
           /\ e[1] = e[2] \/ Reaches(edges, e[2], e[1])
      BY <1>4 DEF BadCycle
  <2>2. \A f \in edges : /\ f[1] \in 1 .. n /\ f[2] \in 1 .. n /\ k[f[1]] \in Nat /\ k[f[2]] \in Nat
                        /\ Label(set[f[1]], set[f[2]]) # "none"
      BY <1>2
  <2> HIDE DEF edges
  <2>3. ASSUME NEW f \in edges
        PROVE  k[f[2]] <= k[f[1]]
    <3>1. k[f[1]] >= Lowest(Label(set[f[1]], set[f[2]]), k[f[2]])
        BY <1>1, <2>2 DEF Fits
    <3>2. Label(set[f[1]], set[f[2]]) # "none" /\ k[f[1]] \in Nat /\ k[f[2]] \in Nat
        BY <2>2
    <3>3. /\ k[f[2]] <= Lowest(Label(set[f[1]], set[f[2]]), k[f[2]])
          /\ Lowest(Label(set[f[1]], set[f[2]]), k[f[2]]) \in Int
        BY <3>2, LowestReads, LowestType
    <3> QED
        BY <3>1, <3>2, <3>3
  <2>4. k[e[1]] >= k[e[2]] + 1
    <3>1. Label(set[e[1]], set[e[2]]) \in {"negative", "closed"}
      <4>1. Label(set[e[1]], set[e[2]]) # "none"
          BY <2>1, <2>2
      <4> QED
          BY <2>1, <2>2, <4>1, LowestIs
    <3>2. Lowest(Label(set[e[1]], set[e[2]]), k[e[2]]) = k[e[2]] + 1
        BY <2>1, <2>2, <3>1, LowestIs
    <3> QED
        BY <1>1, <2>1, <2>2, <3>2 DEF Fits
  <2>5. k[e[1]] <= k[e[2]]
    <3>1. CASE e[1] = e[2]
        BY <2>1, <2>2, <3>1
    <3>2. CASE Reaches(edges, e[2], e[1])
      <4> DEFINE ends == UNION {{f[1], f[2]} : f \in edges}
                 S == {x \in ends : k[x] <= k[e[2]]}
      <4>1. \A f \in edges : f[1] \in S \cup {e[2]} => f[2] \in S
        <5> SUFFICES ASSUME NEW f \in edges, f[1] \in S \cup {e[2]}
                     PROVE  f[2] \in ends /\ k[f[2]] <= k[e[2]]
            OBVIOUS
        <5>1. k[f[1]] <= k[e[2]]
          <6>1. CASE f[1] \in S
              BY <6>1
          <6>2. CASE f[1] = e[2]
            <7>1. k[e[2]] \in Nat
                BY <2>1, <2>2
            <7> QED
                BY <6>2, <7>1
          <6> QED
              BY <6>1, <6>2
        <5>2. f[2] \in ends
            OBVIOUS
        <5>3. k[f[1]] \in Nat /\ k[f[2]] \in Nat /\ k[e[2]] \in Nat
            BY <2>1, <2>2
        <5>4. k[f[2]] <= k[f[1]]
            BY <2>3
        <5> QED
            BY <5>1, <5>2, <5>3, <5>4
      <4>2. S \in SUBSET ends
          OBVIOUS
      <4>3. e[1] \in S
          BY <3>2, <4>1, <4>2 DEF Reaches
      <4> QED
          BY <4>3
    <3> QED
        BY <2>1, <3>1, <3>2
  <2> QED
      BY <2>1, <2>2, <2>4, <2>5
<1> QED
    BY <1>3, <1>4

-----------------------------------------------------------------------------
(***************************************************************************)
(* One rule.                                                               *)
(***************************************************************************)

LEMMA SetFacts ==
    ASSUME ruleSet \in RuleSets
    PROVE  /\ Len(ruleSet) \in Nat /\ DOMAIN ruleSet = 1 .. Len(ruleSet)
           /\ \A i \in DOMAIN ruleSet : ruleSet[i] \in Rule /\ BlanksRunOnce(ruleSet[i])
<1>1. ruleSet \in Seq(Rule) /\ \A i \in DOMAIN ruleSet : BlanksRunOnce(ruleSet[i])
    BY RunnerAssumption
<1> QED
    BY <1>1

LEMMA DerivedTyped ==
    ASSUME NEW rule \in Rule, BlanksRunOnce(rule), NEW firing \in Nat, NEW facts \in SUBSET Facts,
           NEW denied, NEW ground
    PROVE  Derived(rule, firing, facts, denied, ground) \subseteq Facts
<1> SUFFICES ASSUME NEW d \in Derived(rule, firing, facts, denied, ground)
             PROVE  d \in Facts
    OBVIOUS
<1>0. PICK p \in rule.head, b \in Solutions(rule, facts, denied, ground) :
         d = IF rule.once /\ p.term \in {Var, Blank}
             THEN [rel |-> p.rel, term |-> b.term, made |-> firing] ELSE Instance(p, b)
    BY DEF Derived
<1>1. p.rel \in Relations /\ p.term \in Constants \cup {Var, Blank}
    BY DEF Rule, Pattern
<1>2. b \in Bindings(facts)
    BY DEF Solutions
<1>3. b \in Facts
    BY <1>2 DEF Bindings, Facts, Given
<1>4. CASE rule.once /\ p.term \in {Var, Blank}
    BY <1>0, <1>1, <1>3, <1>4 DEF Facts
<1>5. CASE ~(rule.once /\ p.term \in {Var, Blank})
  <2>1. CASE p.term = Var
    <3>1. Instance(p, b) = [b EXCEPT !.rel = p.rel]
        BY <2>1 DEF Instance
    <3> QED
        BY <1>0, <1>1, <1>3, <1>5, <3>1 DEF Facts
  <2>2. CASE p.term # Var
    <3>1. p.term \in Constants
        BY <1>1, <1>5, <2>2 DEF BlanksRunOnce
    <3> QED
        BY <1>0, <1>1, <1>5, <2>2, <3>1 DEF Instance, Given, Facts
  <2> QED
      BY <2>1, <2>2
<1> QED
    BY <1>4, <1>5

\* A rule adds facts, triples to the store and tuples beside it.
LEMMA FireTyped ==
    ASSUME Shapes, phase = "rules", NEW i \in DOMAIN ruleSet, Fire(i)
    PROVE  /\ quads' \subseteq Triples(Facts) /\ tuples' \subseteq Facts \ Triples(Facts)
           /\ quads \subseteq quads' /\ tuples \subseteq tuples'
<1> DEFINE facts == quads \cup tuples
           firing == i + Len(ruleSet) * (passes - 1)
           derived == Derived(ruleSet[i], firing, facts, facts, input.base)
<1>1. /\ Len(ruleSet) \in Nat /\ i \in Nat
      /\ ruleSet[i] \in Rule /\ BlanksRunOnce(ruleSet[i])
    BY SetFacts DEF Shapes
<1>2. passes - 1 \in Nat
    BY RunnerAssumption DEF Shapes
<1>3. Len(ruleSet) * (passes - 1) \in Nat
    BY <1>1, <1>2
<1>4. firing \in Nat
    BY <1>1, <1>3
<1>5. facts \in SUBSET Facts
    BY DEF Shapes, Triples
<1>6. quads' = quads \cup Triples(derived) /\ tuples' = tuples \cup (derived \ Triples(derived))
    BY DEF Fire
<1>7. derived \subseteq Facts
  <2> HIDE DEF facts, firing
  <2> QED
      BY <1>1, <1>4, <1>5, DerivedTyped
<1> HIDE DEF derived
<1> QED
    BY <1>6, <1>7 DEF Shapes, Triples

-----------------------------------------------------------------------------
(***************************************************************************)
(* The invariant is inductive, conjunct by conjunct.                       *)
(***************************************************************************)

LEMMA ShapesStep ==
    ASSUME Shapes, Next
    PROVE  Shapes'
<1> USE DEF given, plan, data, loop
<1>0. MaxIterations \in Nat /\ MaxFailures \in Nat
    BY RunnerAssumption
<1>1. CASE LayerRules \/ GiveUp \/ StopIsSeen \/ Stop
    BY <1>1 DEF Shapes, LayerRules, GiveUp, StopIsSeen, Stop, End, Running
<1>2. CASE Prepare
  <2>1. /\ \A f \in input.base : f \in Facts /\ f.rel \notin TupleRelations
        /\ \A f \in input.seeds : f \in Facts /\ f.rel \in TupleRelations
      BY RunnerAssumption DEF Shapes
  <2>2. input.base \subseteq Triples(Facts) /\ input.seeds \subseteq Facts \ Triples(Facts)
      BY <2>1 DEF Triples
  <2>3. UNCHANGED <<given, loop, stopped, failures>>
      BY <1>2 DEF Prepare
  <2>4. phase' = "failed" \/ phase' = "blocks"
      BY <1>2 DEF Prepare
  <2>5. (quads' = quads /\ tuples' = tuples) \/ (quads' = input.base /\ tuples' = input.seeds)
      BY <1>2 DEF Prepare
  <2>6. quads' \subseteq Triples(Facts) /\ tuples' \subseteq Facts \ Triples(Facts)
      BY <2>2, <2>5 DEF Shapes
  <2> QED
      BY <2>3, <2>4, <2>6 DEF Shapes
<1>3. CASE RunDataBlocks
  <2>1. \A f \in input.block : f \in Facts /\ f.rel \notin TupleRelations
      BY RunnerAssumption DEF Shapes
  <2>2. quads' \subseteq Triples(Facts)
      BY <1>3, <2>1 DEF RunDataBlocks, Shapes, Triples
  <2>3. /\ UNCHANGED <<given, tuples, passes, firedOnce, executionFailed, stopped, failures>>
        /\ phase' \in {"converged", "between"}
      BY <1>3 DEF RunDataBlocks
  <2> QED
      BY <2>2, <2>3 DEF Shapes
<1>4. CASE DataBlockFails
    BY <1>0, <1>4 DEF Shapes, DataBlockFails
<1>5. CASE StartPass
    BY <1>0, <1>5 DEF Shapes, StartPass, BudgetSpent
<1>6. ASSUME NEW i \in DOMAIN ruleSet, RunRule(i) \/ RuleFails(i)
      PROVE  Shapes'
  <2>1. /\ phase = "rules"
        /\ UNCHANGED <<ruleSet, input, phase, passes, stopped>>
        /\ firedOnce' \in {firedOnce, firedOnce \cup {i}}
        /\ Fire(i) \/ UNCHANGED data
      BY <1>6 DEF RunRule, RuleFails, RuleDone
  <2>2. failures' \in 0 .. MaxFailures /\ executionFailed' \in BOOLEAN
    <3>1. CASE RunRule(i)
        BY <3>1 DEF RunRule, Shapes
    <3>2. CASE RuleFails(i)
      <4>1. failures < MaxFailures /\ failures' = failures + 1 /\ executionFailed' = TRUE
          BY <3>2 DEF RuleFails
      <4> QED
          BY <1>0, <4>1 DEF Shapes
    <3> QED
        BY <1>6, <3>1, <3>2
  <2>3. quads' \subseteq Triples(Facts) /\ tuples' \subseteq Facts \ Triples(Facts)
      BY <1>6, <2>1, FireTyped DEF Shapes
  <2> QED
      BY <1>6, <2>1, <2>2, <2>3 DEF Shapes
<1>7. CASE EndPass
  <2>1. /\ UNCHANGED <<given, data, firedOnce, executionFailed, stopped, failures>>
        /\ phase' \in {"failed", "between", "converged", "cycle"}
        /\ passes' \in {passes, 0}
      BY <1>7 DEF EndPass, NextStratum
  <2> QED
      BY <1>0, <2>1 DEF Shapes
<1> QED
    BY <1>1, <1>2, <1>3, <1>4, <1>5, <1>6, <1>7 DEF Next

LEMMA LayersStep ==
    ASSUME Shapes, Layers, Next
    PROVE  Layers'
<1> USE DEF given, plan, data, loop
<1> DEFINE n == Len(ruleSet)
<1>0. n \in Nat /\ DOMAIN ruleSet = 1 .. n
    BY SetFacts DEF Shapes
<1>1. CASE LayerRules
  <2>1. layer \in [1 .. n -> 0 .. n + 1]
      BY <1>0, <1>1 DEF Layers, LayerRules, TooHigh
  <2>2. layer' = Pass(ruleSet, layer) /\ phase' = "begin" /\ ruleSet' = ruleSet
      BY <1>1 DEF LayerRules
  <2>3. Pass(ruleSet, layer) \in [1 .. n -> 0 .. n + 2] /\ IsLeast(ruleSet, Pass(ruleSet, layer))
      BY <1>0, <2>1, PassIsLeast DEF Layers
  <2> QED
      BY <1>0, <2>2, <2>3 DEF Layers
<1>2. CASE Prepare
  <2>1. /\ ruleSet' = ruleSet /\ layer' = layer
        /\ \/ phase' = "failed"
           \/ ~TooHigh(ruleSet, layer) /\ Pass(ruleSet, layer) = layer
      BY <1>2 DEF Prepare, Layered
  <2>2. ASSUME ~TooHigh(ruleSet, layer), Pass(ruleSet, layer) = layer
        PROVE  Fits(ruleSet, layer) /\ layer \in [1 .. n -> 0 .. n - 1]
    <3>1. layer \in [1 .. n -> 0 .. n + 1]
        BY <1>0, <2>2 DEF Layers, TooHigh
    <3>2. \A i, j \in 1 .. n : layer[i] >= Lowest(Label(ruleSet[i], ruleSet[j]), layer[j])
        BY <1>0, <2>2, <3>1, PassIsLeast DEF Layers
    <3>3. Fits(ruleSet, layer)
        BY <1>0, <3>2 DEF Fits
    <3>4. layer \in [1 .. n -> Nat]
        BY <3>1
    <3> QED
        BY <1>0, <3>3, <3>4, LeastIsCompact DEF Layers
  <2> QED
      BY <1>0, <2>1, <2>2 DEF Layers
<1>3. CASE \/ RunDataBlocks \/ DataBlockFails \/ GiveUp \/ StartPass \/ StopIsSeen \/ EndPass \/ Stop
           \/ \E i \in DOMAIN ruleSet : RunRule(i) \/ RuleFails(i)
  <2>1. ruleSet' = ruleSet /\ layer' = layer
      BY <1>3 DEF RunDataBlocks, DataBlockFails, GiveUp, StartPass, StopIsSeen, EndPass, Stop, End,
             RunRule, RuleFails, RuleDone
  <2>2. phase' \notin {"begin", "failed"} => phase \notin {"begin", "failed"}
      BY <1>3 DEF RunDataBlocks, DataBlockFails, GiveUp, StartPass, StopIsSeen, EndPass, Stop, End,
             RunRule, RuleFails, RuleDone, Running
  <2> QED
      BY <2>1, <2>2 DEF Layers
<1> QED
    BY <1>1, <1>2, <1>3 DEF Next

LEMMA StrataFacts ==
    ASSUME Shapes, Layers
    PROVE  /\ Strata \subseteq Nat
           /\ Strata \subseteq 0 .. Len(ruleSet) + 2
           /\ phase \notin {"begin", "failed"} => Strata \subseteq 0 .. Len(ruleSet) + 1
           /\ ruleSet # << >> => Strata # {}
<1>1. Len(ruleSet) \in Nat /\ DOMAIN ruleSet = 1 .. Len(ruleSet) /\ ruleSet \in Seq(Rule)
    BY SetFacts, RunnerAssumption DEF Shapes
<1>2. \A i \in DOMAIN ruleSet : layer[i] \in 0 .. Len(ruleSet) + 2
    BY DEF Layers
<1>3. phase \notin {"begin", "failed"} => \A i \in DOMAIN ruleSet : layer[i] \in 0 .. Len(ruleSet) - 1
    BY DEF Layers
<1>4. ruleSet # << >> => 1 \in DOMAIN ruleSet
    BY <1>1
<1> QED
    BY <1>1, <1>2, <1>3, <1>4 DEF Strata

LEMMA CountedStep ==
    ASSUME Shapes, Layers, Counted, Next
    PROVE  Counted'
<1> USE DEF given, plan, data, loop
<1>0. Strata \subseteq Nat /\ (phase \notin {"begin", "failed"} => Strata \subseteq 0 .. Len(ruleSet) + 1)
    BY StrataFacts
<1>1. ruleSet' = ruleSet /\ (phase # "begin" => Strata' = Strata)
    BY DEF Next, LayerRules, Prepare, RunDataBlocks, DataBlockFails, GiveUp, StartPass, StopIsSeen, EndPass,
           Stop, End, RunRule, RuleFails, RuleDone, Strata
<1>2. CASE LayerRules \/ Prepare
  <2>1. /\ UNCHANGED <<passes, active, grew>> /\ phase = "begin"
        /\ phase' \in {"begin", "blocks", "failed"}
      BY <1>2 DEF LayerRules, Prepare
  <2> QED
      BY <1>1, <2>1 DEF Counted
<1>3. CASE RunDataBlocks
  <2>1. /\ UNCHANGED <<passes, grew>> /\ phase = "blocks"
        /\ \/ phase' = "converged"
           \/ phase' = "between" /\ active' = Min(Strata) /\ ruleSet # << >>
      BY <1>3 DEF RunDataBlocks
  <2>2. ruleSet # << >> => Min(Strata) \in Strata
    <3>1. ruleSet # << >> => Strata # {}
        BY StrataFacts
    <3> QED
        BY <1>0, <3>1, MinIsLeast
  <2>3. CASE phase' = "converged"
      BY <1>1, <2>1, <2>3 DEF Counted
  <2>4. CASE phase' = "between" /\ active' = Min(Strata) /\ ruleSet # << >>
    <3>1. active' \in Strata' /\ active' \in DOMAIN grew
        BY <1>0, <1>1, <2>1, <2>2, <2>4 DEF Counted
    <3> QED
        BY <1>1, <2>1, <2>4, <3>1 DEF Counted
  <2> QED
      BY <2>1, <2>3, <2>4
<1>4. CASE DataBlockFails \/ StopIsSeen
  <2>1. UNCHANGED <<passes, active, grew>> /\ phase' = "failed"
      BY <1>4 DEF DataBlockFails, StopIsSeen, End
  <2> QED
      BY <1>1, <2>1 DEF Counted
<1>5. CASE GiveUp
  <2>1. /\ UNCHANGED <<passes, active, grew>> /\ phase = "between" /\ phase' = "maxIterations"
        /\ passes = MaxIterations
      BY <1>5, RunnerAssumption DEF GiveUp, End, BudgetSpent, Shapes
  <2> QED
      BY <1>1, <2>1 DEF Counted
<1>6. CASE StartPass
  <2>1. UNCHANGED <<active, grew>> /\ phase = "between" /\ phase' = "rules" /\ passes' = passes + 1
      BY <1>6 DEF StartPass
  <2>2. passes \in Nat
      BY RunnerAssumption DEF Shapes
  <2> QED
      BY <1>1, <2>1, <2>2 DEF Counted
<1>7. ASSUME NEW i \in DOMAIN ruleSet, RunRule(i) \/ RuleFails(i)
      PROVE  Counted'
  <2>1. UNCHANGED <<passes, active, grew, phase>> /\ phase = "rules"
      BY <1>7 DEF RunRule, RuleFails, RuleDone
  <2> QED
      BY <1>1, <2>1 DEF Counted
<1>8. CASE EndPass
  <2>1. /\ phase = "rules"
        /\ grew' = grew \/ grew' = [grew EXCEPT ![active] = @ + 1]
        /\ \/ phase' \in {"failed", "converged", "cycle"}
           \/ /\ phase' = "between" /\ grew' = grew
              /\ passes' = 0 /\ active' = Min({l \in Strata : l > active})
              /\ \E l \in Strata : l > active
           \/ /\ phase' = "between" /\ grew' = [grew EXCEPT ![active] = @ + 1]
              /\ UNCHANGED <<active, passes>>
      BY <1>8 DEF EndPass, NextStratum
  <2>2. /\ active \in Strata /\ active \in DOMAIN grew /\ active \in Nat
        /\ grew \in [0 .. Len(ruleSet) + 1 -> Nat]
        /\ grew[active] = passes - 1 /\ passes \in Nat
        /\ \A l \in DOMAIN grew : l > active => grew[l] = 0
    <3>1. active \in Strata /\ active \in Nat /\ active \in 0 .. Len(ruleSet) + 1
        BY <1>0, <2>1 DEF Counted
    <3>2. grew \in [0 .. Len(ruleSet) + 1 -> Nat] /\ grew[active] = passes - 1
        BY <2>1 DEF Counted
    <3>3. passes \in Nat
        BY RunnerAssumption DEF Shapes
    <3>4. \A l \in DOMAIN grew : l > active => grew[l] = 0
        BY <2>1 DEF Counted
    <3> QED
        BY <3>1, <3>2, <3>3, <3>4
  <2>3. grew' \in [0 .. Len(ruleSet') + 1 -> Nat]
      BY <1>1, <2>1, <2>2
  <2>4. CASE phase' \in {"failed", "converged", "cycle"}
      BY <2>3, <2>4 DEF Counted
  <2>5. CASE /\ phase' = "between" /\ grew' = grew
             /\ passes' = 0 /\ active' = Min({l \in Strata : l > active})
             /\ \E l \in Strata : l > active
    <3>1. Min({l \in Strata : l > active}) \in {l \in Strata : l > active}
        BY <1>0, <2>5, MinIsLeast
    <3>2. active' \in Strata /\ active' > active /\ active' \in DOMAIN grew /\ active' \in Nat
        BY <1>0, <2>1, <2>2, <2>5, <3>1
    <3>3. grew[active'] = 0 /\ \A l \in DOMAIN grew : l > active' => grew[l] = 0
        BY <2>2, <3>2
    <3> QED
        BY <1>1, <2>1, <2>3, <2>5, <3>2, <3>3 DEF Counted
  <2>6. CASE phase' = "between" /\ grew' = [grew EXCEPT ![active] = @ + 1] /\ UNCHANGED <<active, passes>>
    <3>1. grew'[active] = passes
        BY <2>2, <2>6
    <3>2. \A l \in DOMAIN grew' : l > active => grew'[l] = 0
        BY <2>2, <2>6
    <3> QED
        BY <1>1, <2>1, <2>2, <2>3, <2>6, <3>1, <3>2 DEF Counted
  <2> QED
      BY <2>1, <2>4, <2>5, <2>6
<1>9. CASE Stop
  <2>1. UNCHANGED <<passes, active, grew, phase, layer>>
      BY <1>9 DEF Stop
  <2>2. Strata' = Strata
      BY <1>1, <2>1 DEF Strata
  <2> QED
      BY <1>1, <2>1, <2>2 DEF Counted
<1> QED
    BY <1>2, <1>3, <1>4, <1>5, <1>6, <1>7, <1>8, <1>9 DEF Next

LEMMA GrownStep ==
    ASSUME Shapes, Grown, Next
    PROVE  Grown'
<1> USE DEF given, plan, data, loop
<1>1. CASE LayerRules \/ Prepare \/ DataBlockFails \/ GiveUp \/ StopIsSeen
  <2>1. phase' \in {"begin", "blocks", "failed", "maxIterations"}
      BY <1>1 DEF LayerRules, Prepare, DataBlockFails, GiveUp, StopIsSeen, End
  <2> QED
      BY <2>1 DEF Grown
<1>2. CASE RunDataBlocks
  <2>1. \/ phase' = "converged"
        \/ phase' = "between" /\ seen' = {<<quads', tuples'>>}
      BY <1>2 DEF RunDataBlocks
  <2> QED
      BY <2>1 DEF Grown, Below, Signature
<1>3. CASE StartPass
  <2>1. /\ phase = "between" /\ phase' = "rules" /\ startSignature' = <<quads, tuples>>
        /\ UNCHANGED <<quads, tuples, seen>>
      BY <1>3 DEF StartPass, Signature
  <2> QED
      BY <2>1 DEF Grown, Below, Signature
<1>4. ASSUME NEW i \in DOMAIN ruleSet, RunRule(i) \/ RuleFails(i)
      PROVE  Grown'
  <2>1. /\ phase = "rules" /\ UNCHANGED <<phase, startSignature, seen>>
        /\ Fire(i) \/ UNCHANGED data
      BY <1>4 DEF RunRule, RuleFails, RuleDone
  <2>2. quads \subseteq quads' /\ tuples \subseteq tuples'
      BY <1>4, <2>1, FireTyped
  <2> QED
      BY <2>1, <2>2 DEF Grown, Below, Signature
<1>5. CASE EndPass
  <2>1. phase = "rules" /\ UNCHANGED <<quads, tuples, startSignature>>
      BY <1>5 DEF EndPass
  <2>2. /\ startSignature = <<startSignature[1], startSignature[2]>>
        /\ startSignature[1] \subseteq quads /\ startSignature[2] \subseteq tuples
        /\ \A s \in seen : s[1] \subseteq startSignature[1] /\ s[2] \subseteq startSignature[2]
      BY <2>1 DEF Grown, Below, Signature
  <2>3. \/ phase' \in {"failed", "converged"}
        \/ phase' = "between" /\ seen' = {Signature}
        \/ /\ phase' = IF Signature \in seen THEN "cycle" ELSE "between"
           /\ seen' = seen \cup {Signature} /\ Signature # startSignature
      BY <1>5 DEF EndPass, NextStratum
  <2>4. CASE phase' \in {"failed", "converged"}
      BY <2>4 DEF Grown
  <2>5. CASE phase' = "between" /\ seen' = {Signature}
      BY <2>1, <2>5 DEF Grown, Below, Signature
  <2>6. CASE /\ phase' = IF Signature \in seen THEN "cycle" ELSE "between"
             /\ seen' = seen \cup {Signature} /\ Signature # startSignature
    <3>1. Signature \notin seen
      <4>1. SUFFICES ASSUME Signature \in seen
                     PROVE  FALSE
          OBVIOUS
      <4>2. quads \subseteq startSignature[1] /\ tuples \subseteq startSignature[2]
          BY <2>2, <4>1 DEF Signature
      <4>3. quads = startSignature[1] /\ tuples = startSignature[2]
          BY <2>2, <4>2
      <4> QED
          BY <2>2, <2>6, <4>3 DEF Signature
    <3> QED
        BY <2>1, <2>2, <2>6, <3>1 DEF Grown, Below, Signature
  <2> QED
      BY <2>3, <2>4, <2>5, <2>6
<1>6. CASE Stop
    BY <1>6 DEF Stop, Grown, Below, Signature
<1> QED
    BY <1>1, <1>2, <1>3, <1>4, <1>5, <1>6 DEF Next

LEMMA ReasonsStep ==
    ASSUME Shapes, Layers, Reasons, Next
    PROVE  Reasons'
<1> USE DEF given, plan, data, loop
<1>0. ruleSet' = ruleSet /\ (HasLayers(ruleSet))' = HasLayers(ruleSet)
  <2>1. ruleSet' = ruleSet
      BY DEF Next, LayerRules, Prepare, RunDataBlocks, DataBlockFails, GiveUp, StartPass, StopIsSeen, EndPass,
             Stop, End, RunRule, RuleFails, RuleDone
  <2> QED
      BY <2>1 DEF HasLayers
<1>1. failures \in Nat
    BY RunnerAssumption DEF Shapes
<1>2. CASE Prepare
  <2>1. UNCHANGED <<stopped, failures, executionFailed>>
      BY <1>2 DEF Prepare
  <2>3. phase' = "failed" => TooHigh(ruleSet, layer) \/ BadCycle(ruleSet)
      BY <1>2 DEF Prepare
  <2>2. ASSUME TooHigh(ruleSet, layer) \/ BadCycle(ruleSet)
        PROVE  ~HasLayers(ruleSet)
    <3>1. Len(ruleSet) \in Nat /\ DOMAIN ruleSet = 1 .. Len(ruleSet)
        BY SetFacts DEF Shapes
    <3>2. layer \in [1 .. Len(ruleSet) -> Nat] /\ IsLeast(ruleSet, layer)
        BY <3>1 DEF Layers
    <3> QED
        BY <2>2, <3>1, <3>2, RefusedHasNone
  <2> QED
      BY <1>0, <2>1, <2>2, <2>3 DEF Reasons
<1>3. CASE DataBlockFails
  <2>1. failures' = failures + 1
      BY <1>3 DEF DataBlockFails
  <2> QED
      BY <1>1, <2>1 DEF Reasons
<1>4. CASE StopIsSeen
  <2>1. stopped' = TRUE /\ UNCHANGED <<failures, executionFailed>>
      BY <1>4 DEF StopIsSeen, End, Shapes
  <2> QED
      BY <2>1 DEF Reasons
<1>5. ASSUME NEW i \in DOMAIN ruleSet, RunRule(i) \/ RuleFails(i)
      PROVE  Reasons'
  <2>1. phase = "rules" /\ phase' = phase
      BY <1>5 DEF RunRule, RuleFails, RuleDone
  <2>2. \/ UNCHANGED <<executionFailed, failures>>
        \/ failures' = failures + 1
      BY <1>5 DEF RunRule, RuleFails
  <2> QED
      BY <1>1, <2>1, <2>2 DEF Reasons
<1>6. CASE EndPass
  <2>1. UNCHANGED <<executionFailed, failures, stopped>>
      BY <1>6 DEF EndPass
  <2>2. phase' = "failed" => executionFailed
      BY <1>6 DEF EndPass
  <2> QED
      BY <2>1, <2>2 DEF Reasons
<1>7. CASE LayerRules \/ RunDataBlocks \/ GiveUp \/ StartPass \/ Stop
  <2>1. /\ UNCHANGED <<executionFailed, failures>>
        /\ phase' = "failed" => stopped'
      BY <1>7 DEF LayerRules, RunDataBlocks, GiveUp, StartPass, Stop, End, Running
  <2> QED
      BY <2>1 DEF Reasons
<1> QED
    BY <1>2, <1>3, <1>4, <1>5, <1>6, <1>7 DEF Next

LEMMA IInvInit == Init => IInv
<1> SUFFICES ASSUME Init
             PROVE  IInv
    OBVIOUS
<1>1. ruleSet \in RuleSets /\ input \in Inputs
    BY DEF Init
<1>2. Len(ruleSet) \in Nat /\ DOMAIN ruleSet = 1 .. Len(ruleSet)
    BY <1>1, SetFacts
<1>3. Shapes
    BY <1>1, RunnerAssumption DEF Init, Shapes
<1>4. Layers
    BY <1>2 DEF Init, Layers, IsLeast
<1>5. Counted
    BY <1>2 DEF Init, Counted
<1> QED
    BY <1>3, <1>4, <1>5 DEF IInv, Init, Grown, Reasons

\* The invariant holds in every state of every behaviour.
THEOREM Invariance == Spec => []IInv
<1>1. IInv /\ [Next]_vars => IInv'
  <2> SUFFICES ASSUME IInv, [Next]_vars
               PROVE  IInv'
      OBVIOUS
  <2>1. CASE Next
      BY <2>1, ShapesStep, LayersStep, CountedStep, GrownStep, ReasonsStep DEF IInv
  <2>2. CASE UNCHANGED vars
    <3> USE <2>2 DEF vars, given, plan, data, loop
    <3>1. Shapes' /\ Layers'
        BY DEF IInv, Shapes, Layers
    <3>2. Counted'
        BY DEF IInv, Counted, Strata
    <3>3. Grown' /\ Reasons'
        BY DEF IInv, Grown, Below, Signature, Reasons, HasLayers
    <3> QED
        BY <3>1, <3>2, <3>3 DEF IInv
  <2> QED
      BY <2>1, <2>2
<1> QED
    BY <1>1, IInvInit, PTL DEF Spec

\* Every variable keeps its range: the layers are fewer than the rules whatever the
\* order of the edges (assignStrata), and no layer takes more passes than its
\* budget (runRuleSet.ts:536-541).
THEOREM TypeCorrect == Spec => []TypeOK
<1>1. IInv => TypeOK
    BY DEF IInv, Shapes, Layers, TypeOK
<1> QED
    BY <1>1, Invariance, PTL

\* A run gives up when one layer derived something in each pass of its budget, is
\* never in a cycle, and fails when it was stopped, a call failed, or its rules
\* have no layers (runRuleSet.ts, detectNonStratifiableCycles).
THEOREM EndsAreExplained == Spec => []EndsForAReason
<1>1. IInv => EndsForAReason
    BY DEF IInv, Counted, Grown, Reasons, EndsForAReason
<1> QED
    BY <1>1, Invariance, PTL

\* Once a set was accepted, every rule is later than all it negates or must find
\* complete, not before what it reads, and no later than that takes (assignStrata).
LayersAreLeast ==
    phase \notin {"begin", "failed"} => Fits(ruleSet, layer) /\ IsLeast(ruleSet, layer)

THEOREM AcceptedIsLayered == Spec => []LayersAreLeast
<1>1. IInv => LayersAreLeast
    BY DEF IInv, Layers, LayersAreLeast
<1> QED
    BY <1>1, Invariance, PTL

-----------------------------------------------------------------------------
(***************************************************************************)
(* What a rule reads and what another one writes.                          *)
(***************************************************************************)

\* A fact is one that a head's pattern may have derived.
Matches(h, f) ==
    /\ f.rel = h.rel
    /\ h.term \in Constants => f = Given(h.rel, h.term)
    /\ h.term = Blank => f.made # 0

LEMMA InstanceReads ==
    ASSUME NEW p \in Pattern, NEW b \in Facts
    PROVE  /\ p.term = Var => Instance(p, b) = [rel |-> p.rel, term |-> b.term, made |-> b.made]
           /\ p.term # Var => Instance(p, b) = [rel |-> p.rel, term |-> p.term, made |-> 0]
  BY DEF Instance, Given, Facts, Pattern

\* What a pattern finds was written by a head that unifies with it.
LEMMA FoundUnifies ==
    ASSUME NEW p \in Pattern, NEW h \in Pattern, NEW b \in Facts, NEW f, Matches(h, f),
           f.rel = p.rel, p.term = Blank \/ f = Instance(p, b), ~(p.term = Blank /\ h.term \in Constants)
    PROVE  Unify(p, h)
<1>1. CASE p.term = Var
    BY <1>1 DEF Matches, Unify
<1>2. CASE p.term = Blank
  <2>1. h.term = Var \/ h.term = Blank
      BY <1>2 DEF Pattern
  <2> QED
      BY <1>2, <2>1 DEF Matches, Unify
<1>3. CASE p.term \notin {Var, Blank}
  <2>1. f = [rel |-> p.rel, term |-> p.term, made |-> 0]
      BY <1>3, InstanceReads
  <2>2. h.term \in Constants \/ h.term = Var \/ h.term = Blank
      BY DEF Pattern
  <2>3. h.rel = p.rel /\ h.term # Blank
      BY <2>1 DEF Matches
  <2>4. h.term \in Constants => p.term = h.term
      BY <2>1 DEF Matches, Given
  <2> QED
      BY <2>2, <2>3, <2>4 DEF Unify
<1> QED
    BY <1>1, <1>3, <1>2

LEMMA HeadMatches ==
    ASSUME NEW rule \in Rule, BlanksRunOnce(rule), NEW firing \in Nat \ {0}, NEW facts \in SUBSET Facts,
           NEW denied, NEW ground, NEW d \in Derived(rule, firing, facts, denied, ground)
    PROVE  \E h \in rule.head : Matches(h, d)
<1>1. PICK p \in rule.head, b \in Solutions(rule, facts, denied, ground) :
         d = IF rule.once /\ p.term \in {Var, Blank}
             THEN [rel |-> p.rel, term |-> b.term, made |-> firing] ELSE Instance(p, b)
    BY DEF Derived
<1>2. p \in Pattern
    BY DEF Rule
<1>3. b \in Facts
    BY DEF Solutions, Bindings, Facts, Given
<1>4. Var \notin Constants /\ Blank \notin Constants /\ Var # Blank
    BY TermAssumption
<1>5. CASE rule.once /\ p.term \in {Var, Blank}
  <2>1. d = [rel |-> p.rel, term |-> b.term, made |-> firing]
      BY <1>1, <1>5
  <2>2. p.term \notin Constants
      BY <1>4, <1>5
  <2> QED
      BY <2>1, <2>2 DEF Matches
<1>6. CASE ~(rule.once /\ p.term \in {Var, Blank})
  <2>1. d = Instance(p, b) /\ p.term # Blank
      BY <1>1, <1>6 DEF BlanksRunOnce
  <2>2. CASE p.term = Var
    <3>1. d.rel = p.rel
        BY <1>2, <1>3, <2>1, <2>2, InstanceReads
    <3> QED
        BY <1>4, <2>1, <2>2, <3>1 DEF Matches
  <2>3. CASE p.term # Var
    <3>1. d = [rel |-> p.rel, term |-> p.term, made |-> 0]
        BY <1>2, <1>3, <2>1, <2>3, InstanceReads
    <3> QED
        BY <2>1, <3>1 DEF Matches, Given
  <2> QED
      BY <2>2, <2>3
<1> QED
    BY <1>5, <1>6

\* A rule that may run again tells no firing from another.
LEMMA FiringCountsOnce ==
    ASSUME NEW rule, ~rule.once, NEW m, NEW n, NEW facts, NEW denied, NEW ground
    PROVE  Derived(rule, m, facts, denied, ground) = Derived(rule, n, facts, denied, ground)
  BY DEF Derived

LEMMA DerivesBy ==
    ASSUME NEW rule, NEW firing, NEW facts, NEW denied, NEW ground,
           NEW h \in rule.head, NEW c \in Solutions(rule, facts, denied, ground)
    PROVE  (IF rule.once /\ h.term \in {Var, Blank}
            THEN [rel |-> h.rel, term |-> c.term, made |-> firing] ELSE Instance(h, c))
               \in Derived(rule, firing, facts, denied, ground)
<1> DEFINE new(p, b) == IF rule.once /\ p.term \in {Var, Blank}
                        THEN [rel |-> p.rel, term |-> b.term, made |-> firing] ELSE Instance(p, b)
<1>1. Derived(rule, firing, facts, denied, ground)
         = {new(p, b) : p \in rule.head, b \in Solutions(rule, facts, denied, ground)}
    BY DEF Derived
<1> HIDE DEF new
<1>2. new(h, c) \in Derived(rule, firing, facts, denied, ground)
    BY <1>1
<1> QED
    BY <1>2 DEF new

\* Where everything a body finds is there too, and nothing more under its NOT, a
\* rule derives what it derived.  A binding stands for its term only, so that the
\* facts it was taken from do not matter.
LEMMA DerivedTransfers ==
    ASSUME NEW rule \in Rule, VariableIsBound(rule), ~ReadsTuplesAsGround(rule), NEW firing,
           NEW F \in SUBSET Facts, NEW G \in SUBSET Facts, NEW D, NEW E,
           NEW ground \in SUBSET Facts, ground \subseteq G,
           \A b \in Facts : \A p \in rule.body : ~rule.data /\ Finds(p, b, F) => Finds(p, b, G),
           \A b \in Facts : \A p \in rule.not : ~rule.data /\ Finds(p, b, E) => Finds(p, b, D)
    PROVE  Derived(rule, firing, F, D, ground) \subseteq Derived(rule, firing, G, E, ground)
<1> SUFFICES ASSUME NEW d \in Derived(rule, firing, F, D, ground)
             PROVE  d \in Derived(rule, firing, G, E, ground)
    OBVIOUS
<1>1. PICK h \in rule.head, b \in Solutions(rule, F, D, ground) :
         d = IF rule.once /\ h.term \in {Var, Blank}
             THEN [rel |-> h.rel, term |-> b.term, made |-> firing] ELSE Instance(h, b)
    BY DEF Derived
<1> DEFINE asked == rule.body \cup rule.not \cup rule.notData \cup {h}
<1>2. asked \subseteq Pattern /\ rule.head \subseteq Pattern
    BY DEF Rule
<1>3. b \in Facts
    BY DEF Solutions, Bindings, Facts, Given
<1>4. /\ \A p \in rule.body : Finds(p, b, IF rule.data /\ p.rel \notin TupleRelations THEN ground ELSE F)
      /\ \A p \in rule.not : ~Finds(p, b, IF rule.data /\ p.rel \notin TupleRelations THEN ground ELSE D)
      /\ \A p \in rule.notData : ~Finds(p, b, IF TRUE /\ p.rel \notin TupleRelations THEN ground ELSE D)
    BY DEF Solutions
<1>5. /\ \A p \in rule.notData : p.rel \notin TupleRelations
      /\ rule.data => \A p \in rule.body \cup rule.not : p.rel \notin TupleRelations
    BY DEF ReadsTuplesAsGround
<1>6. \E c \in Bindings(G) :
         /\ c \in Facts
         /\ \A q \in asked : Instance(q, c) = Instance(q, b)
         /\ h.term \in {Var, Blank} => c.term = b.term
  <2>1. CASE \E p \in rule.body : p.term = Var
    <3>1. PICK p \in rule.body : p.term = Var
        BY <2>1
    <3> DEFINE c == Instance(p, b)
    <3>2. p \in Pattern
        BY <1>2
    <3>3. c = [rel |-> p.rel, term |-> b.term, made |-> b.made]
        BY <1>3, <3>1, <3>2, InstanceReads
    <3>4. c \in G
      <4>1. p.term # Blank
          BY <3>1, TermAssumption
      <4>2. Finds(p, b, IF rule.data /\ p.rel \notin TupleRelations THEN ground ELSE F)
          BY <1>4, <3>1
      <4>3. Finds(p, b, G)
        <5>1. CASE rule.data
          <6>1. Finds(p, b, ground)
              BY <1>5, <3>1, <4>2, <5>1
          <6> QED
              BY <6>1 DEF Finds
        <5>2. CASE ~rule.data
            BY <1>3, <3>1, <4>2, <5>2
        <5> QED
            BY <5>1, <5>2
      <4> QED
          BY <4>1, <4>3 DEF Finds
    <3>5. c \in Facts /\ c.term = b.term /\ c.made = b.made
        BY <3>3, <3>4
    <3>6. c \in Bindings(G)
        BY <3>4 DEF Bindings
    <3> HIDE DEF c
    <3>7. ASSUME NEW q \in asked
          PROVE  Instance(q, c) = Instance(q, b)
      <4>1. q \in Pattern
          BY <1>2
      <4> QED
          BY <1>3, <3>5, <4>1, InstanceReads
    <3> QED
        BY <3>5, <3>6, <3>7
  <2>2. CASE ~\E p \in rule.body : p.term = Var
    <3> DEFINE c == Given(h.rel, h.term)
    <3>1. /\ \A p \in rule.head : p.term \in Constants
          /\ \A p \in rule.not \cup rule.notData : p.term # Var
        BY <2>2 DEF VariableIsBound
    <3>2. h.term \in Constants /\ h.rel \in Relations
        BY <1>2, <3>1 DEF Pattern
    <3>3. c \in Bindings(G) /\ c \in Facts
        BY <3>2 DEF Bindings, Facts, Given
    <3>4. h.term \notin {Var, Blank}
        BY <3>2, TermAssumption
    <3>5. ASSUME NEW q \in asked
          PROVE  Instance(q, c) = Instance(q, b)
      <4>1. q \in Pattern
          BY <1>2
      <4>2. q.term # Var
          BY <2>2, <3>1, TermAssumption
      <4> HIDE DEF c
      <4> QED
          BY <1>3, <3>3, <4>1, <4>2, InstanceReads
    <3> QED
        BY <3>3, <3>4, <3>5
  <2> QED
      BY <2>1, <2>2
<1>7. PICK c \in Bindings(G) :
         /\ c \in Facts
         /\ \A q \in asked : Instance(q, c) = Instance(q, b)
         /\ h.term \in {Var, Blank} => c.term = b.term
    BY <1>6
<1>8. \A q \in asked : \A X : Finds(q, c, X) <=> Finds(q, b, X)
    BY <1>7 DEF Finds
<1>9. \A p \in rule.body : Finds(p, c, IF rule.data /\ p.rel \notin TupleRelations THEN ground ELSE G)
    BY <1>3, <1>4, <1>5, <1>8
<1>10. \A p \in rule.not : ~Finds(p, c, IF rule.data /\ p.rel \notin TupleRelations THEN ground ELSE E)
    BY <1>3, <1>4, <1>5, <1>8
<1>11. \A p \in rule.notData : ~Finds(p, c, IF TRUE /\ p.rel \notin TupleRelations THEN ground ELSE E)
    BY <1>3, <1>4, <1>5, <1>8
<1>12. c \in Solutions(rule, G, E, ground)
    BY <1>9, <1>10, <1>11 DEF Solutions
<1>13. d = IF rule.once /\ h.term \in {Var, Blank}
           THEN [rel |-> h.rel, term |-> c.term, made |-> firing] ELSE Instance(h, c)
    BY <1>1, <1>7
<1> QED
    BY <1>12, <1>13, DerivesBy

-----------------------------------------------------------------------------
(***************************************************************************)
(* What holds of the facts as a run goes on.                               *)
(***************************************************************************)

Known == quads \cup tuples
Supplied == input.base \cup input.block \cup input.seeds

\* The exclusions of ConvergedIsTheModel.
Regular ==
    /\ ~BlankReadsConstant(ruleSet)
    /\ \A i \in DOMAIN ruleSet : ~ReadsTuplesAsGround(ruleSet[i])

\* A rule has nothing to add.
ClosedUnder(i) == Derived(ruleSet[i], i, Known, Known, input.base) \subseteq Known

\* A rule will not run again.
Finished(i) == layer[i] < active \/ i \in firedOnce

\* Which rules have run: those that run once, in the first pass of their layer, and
\* the others in the order of the pass.
Ordered ==
    /\ phase \notin {"begin", "failed"} => order \in Bijection(DOMAIN ruleSet, DOMAIN ruleSet)
    /\ phase \in {"begin", "blocks"} => firedOnce = {}
    /\ phase \in {"begin", "blocks", "between", "converged"} => ~executionFailed
    /\ phase = "blocks" => quads = input.base /\ tuples = input.seeds
    /\ phase \in {"between", "rules"} => \A i \in firedOnce : layer[i] <= active /\ ruleSet[i].once
    /\ (phase = "between" /\ passes > 0) \/ (phase = "rules" /\ passes > 1) =>
          \A i \in DOMAIN ruleSet : layer[i] = active /\ ruleSet[i].once => i \in firedOnce
    /\ phase = "rules" =>
         /\ at \in 1 .. Len(ruleSet) + 1
         /\ at <= Len(ruleSet) => Due(at)
         /\ \A k \in DOMAIN ruleSet :
               k < at /\ layer[order[k]] = active /\ ruleSet[order[k]].once => order[k] \in firedOnce

\* What the rules that will not run again have found is still all they would find,
\* and so is what the others found in a pass that added nothing.
Kept ==
    Regular /\ ~executionFailed =>
       /\ phase \in {"between", "rules", "converged"} => Supplied \subseteq Known
       /\ phase \in {"between", "rules"} => \A i \in DOMAIN ruleSet : Finished(i) => ClosedUnder(i)
       /\ phase = "rules" /\ Signature = startSignature =>
             \A k \in DOMAIN ruleSet :
                k < at /\ layer[order[k]] = active /\ ~ruleSet[order[k]].once => ClosedUnder(order[k])
       /\ phase = "converged" => \A i \in DOMAIN ruleSet : ClosedUnder(i)

\* M holds the input and what follows from it, with NOT answered by D.
Model(M, D) ==
    /\ M \in SUBSET Facts /\ Supplied \subseteq M
    /\ \A i \in DOMAIN ruleSet : Derived(ruleSet[i], i, M, D, input.base) \subseteq M

\* A fact that a layer from l on may still derive.
WrittenFrom(l, f) == \E j \in DOMAIN ruleSet : layer[j] >= l /\ \E h \in ruleSet[j].head : Matches(h, f)

\* Nothing is known that does not follow, whatever the layers to come add.
Sound ==
    Regular /\ ~executionFailed =>
       /\ phase \in {"between", "rules"} =>
             \A D \in SUBSET Facts : \A M \in SUBSET Facts :
                Known \subseteq D /\ (\A f \in D \ Known : WrittenFrom(active, f)) /\ Model(M, D) => Known \subseteq M
       /\ phase = "converged" => \A M \in SUBSET Facts : Model(M, Known) => Known \subseteq M

-----------------------------------------------------------------------------
(***************************************************************************)
(* The order of the rules.                                                 *)
(***************************************************************************)

LEMMA RuleFacts ==
    ASSUME ruleSet \in RuleSets, input \in Inputs
    PROVE  /\ Len(ruleSet) \in Nat /\ DOMAIN ruleSet = 1 .. Len(ruleSet)
           /\ \A i \in DOMAIN ruleSet :
                 ruleSet[i] \in Rule /\ BlanksRunOnce(ruleSet[i]) /\ VariableIsBound(ruleSet[i])
           /\ Supplied \subseteq Facts /\ input.base \subseteq Facts
<1>1. \A i \in DOMAIN ruleSet : VariableIsBound(ruleSet[i])
    BY RunnerAssumption
<1>2. \A f \in input.base \cup input.block \cup input.seeds : f \in Facts
    BY RunnerAssumption
<1> QED
    BY <1>1, <1>2, SetFacts DEF Supplied

LEMMA OrderFacts ==
    ASSUME Shapes, Ordered, phase \notin {"begin", "failed"}
    PROVE  /\ Len(order) = Len(ruleSet)
           /\ \A k \in DOMAIN ruleSet : order[k] \in DOMAIN ruleSet
           /\ \A j, k \in DOMAIN ruleSet : order[j] = order[k] => j = k
           /\ \A i \in DOMAIN ruleSet : \E k \in DOMAIN ruleSet : order[k] = i
<1> DEFINE n == Len(ruleSet)
<1>1. n \in Nat /\ DOMAIN ruleSet = 1 .. n
    BY SetFacts DEF Shapes
<1>2. order \in Bijection(1 .. n, 1 .. n)
    BY <1>1 DEF Ordered
<1>3. /\ order \in [1 .. n -> 1 .. n]
      /\ \A j, k \in DOMAIN order : order[j] = order[k] => j = k
      /\ \A i \in 1 .. n : \E k \in 1 .. n : order[k] = i
    BY <1>2 DEF Bijection, Injection, Surjection, IsInjective
<1>4. Len(order) = n
    BY <1>1, <1>3
<1> QED
    BY <1>1, <1>3, <1>4

LEMMA NextDueIs ==
    ASSUME NEW n \in Nat, Len(order) = n, NEW from \in 1 .. n + 1
    PROVE  /\ NextDue(from) \in from .. n + 1
           /\ NextDue(from) <= n => Due(NextDue(from))
           /\ \A k \in from .. NextDue(from) - 1 : ~Due(k)
<1> DEFINE due == {k \in from .. n : Due(k)}
           T == due \cup {n + 1}
<1>1. T \subseteq from .. n + 1 /\ T \subseteq Nat /\ T # {}
    OBVIOUS
<1>2. NextDue(from) = Min(T)
    BY DEF NextDue
<1>3. Min(T) \in T /\ \A k \in T : Min(T) <= k
  <2> HIDE DEF T
  <2> QED
      BY <1>1, MinIsLeast
<1> DEFINE m == Min(T)
<1>4. m \in T /\ m \in from .. n + 1 /\ \A k \in T : m <= k
    BY <1>1, <1>3
<1> HIDE DEF m
<1>5. m <= n => Due(m)
    BY <1>4
<1>6. ASSUME NEW k \in from .. m - 1
      PROVE  ~Due(k)
  <2>1. k \in from .. n /\ ~(m <= k)
      BY <1>4, <1>6
  <2> QED
      BY <1>4, <2>1
<1> QED
    BY <1>2, <1>4, <1>5, <1>6 DEF m

\* The rule that runs: of the layer that runs, and if it runs once, for the first
\* time in the first pass.
LEMMA RunningRule ==
    ASSUME Shapes, Ordered, NEW i \in DOMAIN ruleSet, RuleDone(i)
    PROVE  /\ at \in DOMAIN ruleSet /\ order[at] = i /\ layer[i] = active
           /\ ruleSet[i].once => i \notin firedOnce /\ passes = 1
<1>1. phase = "rules" /\ at <= Len(order) /\ i = order[at]
    BY DEF RuleDone
<1>2. Len(order) = Len(ruleSet) /\ Len(ruleSet) \in Nat /\ DOMAIN ruleSet = 1 .. Len(ruleSet)
    BY <1>1, SetFacts, OrderFacts DEF Shapes
<1>3. at \in DOMAIN ruleSet /\ Due(at)
    BY <1>1, <1>2 DEF Ordered
<1>4. layer[i] = active /\ (ruleSet[i].once => i \notin firedOnce)
    BY <1>1, <1>3 DEF Due
<1>5. passes > 1 /\ ruleSet[i].once => i \in firedOnce
    BY <1>1, <1>4 DEF Ordered
<1>6. passes \in Nat /\ passes # 0
    BY <1>1, RunnerAssumption DEF Shapes
<1> QED
    BY <1>1, <1>3, <1>4, <1>5, <1>6

LEMMA OrderedStep ==
    ASSUME Shapes, Layers, Counted, Ordered, Next
    PROVE  Ordered'
<1> USE DEF given, plan, data, loop
<1> DEFINE n == Len(ruleSet)
<1>0. n \in Nat /\ DOMAIN ruleSet = 1 .. n
    BY SetFacts DEF Shapes
<1>1. ruleSet' = ruleSet /\ input' = input
    BY DEF Next, LayerRules, Prepare, RunDataBlocks, DataBlockFails, GiveUp, StartPass, StopIsSeen, EndPass,
           Stop, End, RunRule, RuleFails, RuleDone
<1>2. CASE LayerRules
  <2>1. phase = "begin" /\ phase' = "begin" /\ UNCHANGED <<firedOnce, executionFailed>>
      BY <1>2 DEF LayerRules
  <2> QED
      BY <2>1 DEF Ordered
<1>3. CASE Prepare
  <2>1. /\ phase = "begin" /\ UNCHANGED <<firedOnce, executionFailed>>
        /\ \/ phase' = "failed"
           \/ /\ phase' = "blocks" /\ order' \in Bijection(DOMAIN ruleSet, DOMAIN ruleSet)
              /\ quads' = input.base /\ tuples' = input.seeds
      BY <1>3 DEF Prepare
  <2> QED
      BY <1>1, <2>1 DEF Ordered
<1>4. CASE RunDataBlocks
  <2>1. /\ phase = "blocks" /\ phase' \in {"converged", "between"}
        /\ UNCHANGED <<order, firedOnce, executionFailed, passes>>
      BY <1>4 DEF RunDataBlocks
  <2>2. passes = 0
      BY <2>1 DEF Counted
  <2> QED
      BY <1>1, <2>1, <2>2 DEF Ordered
<1>5. CASE DataBlockFails \/ StopIsSeen
  <2>1. phase' = "failed"
      BY <1>5 DEF DataBlockFails, StopIsSeen, End
  <2> QED
      BY <2>1 DEF Ordered
<1>6. CASE GiveUp
  <2>1. phase = "between" /\ phase' = "maxIterations" /\ order' = order
      BY <1>6 DEF GiveUp, End
  <2> QED
      BY <1>1, <2>1 DEF Ordered
<1>7. CASE StartPass
  <2>1. /\ phase = "between" /\ phase' = "rules" /\ passes' = passes + 1 /\ at' = NextDue(1)
        /\ UNCHANGED <<order, layer, active, firedOnce>>
      BY <1>7 DEF StartPass
  <2>2. Len(order) = n /\ \A k \in DOMAIN ruleSet : order[k] \in DOMAIN ruleSet
      BY <2>1, OrderFacts
  <2>3. 1 \in 1 .. n + 1
      BY <1>0
  <2>4. /\ at' \in 1 .. n + 1 /\ (at' <= n => Due(at'))
        /\ \A k \in 1 .. at' - 1 : ~Due(k)
      BY <1>0, <2>1, <2>2, <2>3, NextDueIs
  <2>5. \A k : Due(k)' <=> Due(k)
      BY <1>1, <2>1 DEF Due
  <2>6. at' <= n => Due(at)'
    <3>1. Due(at)' <=> (layer[order[at']] = active /\ ~(ruleSet[order[at']].once /\ order[at'] \in firedOnce))
        BY <1>1, <2>1 DEF Due
    <3> QED
        BY <2>4, <3>1 DEF Due
  <2>7. ASSUME NEW k \in DOMAIN ruleSet, k < at', layer[order[k]] = active, ruleSet[order[k]].once
        PROVE  order[k] \in firedOnce
    <3>1. k \in 1 .. at' - 1
        BY <1>0, <2>4, <2>7
    <3> QED
        BY <2>4, <2>7, <3>1 DEF Due
  <2>8. passes' > 1 => passes > 0
      BY <2>1, RunnerAssumption DEF Shapes
  <2>9. /\ \A i \in firedOnce : layer[i] <= active /\ ruleSet[i].once
        /\ passes > 0 => \A i \in DOMAIN ruleSet : layer[i] = active /\ ruleSet[i].once => i \in firedOnce
        /\ order \in Bijection(DOMAIN ruleSet, DOMAIN ruleSet)
      BY <2>1 DEF Ordered
  <2> QED
      BY <1>1, <2>1, <2>4, <2>6, <2>7, <2>8, <2>9 DEF Ordered
<1>8. ASSUME NEW i \in DOMAIN ruleSet, RunRule(i) \/ RuleFails(i)
      PROVE  Ordered'
  <2>1. RuleDone(i)
      BY <1>8 DEF RunRule, RuleFails
  <2>2. /\ phase = "rules" /\ at' = NextDue(at + 1)
        /\ firedOnce' = IF ruleSet[i].once THEN firedOnce \cup {i} ELSE firedOnce
        /\ UNCHANGED <<phase, order, layer, active, passes>>
      BY <2>1 DEF RuleDone
  <2>3. at \in DOMAIN ruleSet /\ order[at] = i /\ layer[i] = active
      BY <2>1, RunningRule
  <2>4. /\ Len(order) = n /\ \A k \in DOMAIN ruleSet : order[k] \in DOMAIN ruleSet
        /\ \A j, k \in DOMAIN ruleSet : order[j] = order[k] => j = k
      BY <2>2, OrderFacts
  <2>5. at + 1 \in 1 .. n + 1 /\ at \in Nat
      BY <1>0, <2>3
  <2>6. /\ at' \in at + 1 .. n + 1 /\ (at' <= n => Due(at'))
        /\ \A k \in at + 1 .. at' - 1 : ~Due(k)
      BY <1>0, <2>2, <2>4, <2>5, NextDueIs
  <2>7. firedOnce \subseteq firedOnce' /\ firedOnce' \subseteq firedOnce \cup {i}
      BY <2>2
  <2>8. at' <= n => Due(at)'
    <3> SUFFICES ASSUME at' <= n
                 PROVE  Due(at)'
        OBVIOUS
    <3>1. at' \in DOMAIN ruleSet /\ at' # at
        BY <1>0, <2>5, <2>6
    <3>2. order[at'] # i
        BY <2>3, <2>4, <3>1
    <3>3. Due(at)' <=> (layer[order[at']] = active /\ ~(ruleSet[order[at']].once /\ order[at'] \in firedOnce'))
        BY <1>1, <2>2 DEF Due
    <3> QED
        BY <2>6, <2>7, <3>2, <3>3 DEF Due
  <2>9. ASSUME NEW k \in DOMAIN ruleSet, k < at', layer[order[k]] = active, ruleSet[order[k]].once
        PROVE  order[k] \in firedOnce'
    <3>1. CASE k < at
        BY <2>2, <2>7, <2>9, <3>1 DEF Ordered
    <3>2. CASE k = at
        BY <2>2, <2>3, <2>9, <3>2
    <3>3. CASE k > at
      <4>1. k \in at + 1 .. at' - 1
          BY <1>0, <2>5, <2>6, <2>9, <3>3
      <4> QED
          BY <2>6, <2>7, <2>9, <4>1 DEF Due
    <3> QED
        BY <1>0, <2>5, <3>1, <3>2, <3>3
  <2>10. /\ \A j \in firedOnce : layer[j] <= active /\ ruleSet[j].once
         /\ passes > 1 => \A j \in DOMAIN ruleSet : layer[j] = active /\ ruleSet[j].once => j \in firedOnce
         /\ order \in Bijection(DOMAIN ruleSet, DOMAIN ruleSet)
      BY <2>2 DEF Ordered
  <2>11. \A j \in firedOnce' : layer[j] <= active /\ ruleSet[j].once
    <3>1. layer[i] <= active
        BY <1>0, <2>3 DEF Layers
    <3> QED
        BY <2>2, <2>7, <2>10, <3>1
  <2>12. at' \in 1 .. n + 1
      BY <2>5, <2>6
  <2> QED
      BY <1>1, <2>2, <2>7, <2>8, <2>9, <2>10, <2>11, <2>12 DEF Ordered
<1>9. CASE EndPass
  <2>1. /\ phase = "rules" /\ at > Len(order)
        /\ UNCHANGED <<order, layer, firedOnce, executionFailed>>
        /\ \/ phase' \in {"failed", "cycle"}
           \/ phase' = "converged" /\ ~executionFailed
           \/ /\ phase' = "between" /\ ~executionFailed
              /\ passes' = 0 /\ active' = Min({l \in Strata : l > active}) /\ \E l \in Strata : l > active
           \/ /\ phase' = "between" /\ ~executionFailed
              /\ UNCHANGED <<active, passes>>
      BY <1>9 DEF EndPass, NextStratum
  <2>2. /\ order \in Bijection(DOMAIN ruleSet, DOMAIN ruleSet)
        /\ \A j \in firedOnce : layer[j] <= active /\ ruleSet[j].once
      BY <2>1 DEF Ordered
  <2>3. CASE phase' \in {"failed", "cycle", "converged"}
      BY <1>1, <2>1, <2>2, <2>3 DEF Ordered
  <2>4. CASE /\ phase' = "between" /\ ~executionFailed
             /\ passes' = 0 /\ active' = Min({l \in Strata : l > active}) /\ \E l \in Strata : l > active
    <3>1. Min({l \in Strata : l > active}) \in {l \in Strata : l > active} /\ Strata \subseteq Nat
      <4>1. Strata \subseteq Nat
          BY StrataFacts
      <4> QED
          BY <2>4, <4>1, MinIsLeast
    <3>2. active' > active /\ active' \in Nat /\ active \in Nat
        BY <2>1, <2>4, <3>1 DEF Counted
    <3>3. firedOnce \subseteq DOMAIN ruleSet /\ \A j \in DOMAIN ruleSet : layer[j] \in Nat
        BY DEF Shapes, Layers
    <3>4. \A j \in firedOnce : layer[j] <= active' /\ ruleSet[j].once
        BY <2>2, <3>2, <3>3
    <3> QED
        BY <1>1, <2>1, <2>2, <2>4, <3>4 DEF Ordered
  <2>5. CASE phase' = "between" /\ ~executionFailed /\ UNCHANGED <<active, passes>>
    <3>1. /\ Len(order) = n
          /\ \A j \in DOMAIN ruleSet : \E k \in DOMAIN ruleSet : order[k] = j
        BY <2>1, OrderFacts
    <3>2. at \in 1 .. n + 1
        BY <2>1 DEF Ordered
    <3>3. \A k \in DOMAIN ruleSet : k < at
        BY <1>0, <2>1, <3>1, <3>2
    <3>4. ASSUME NEW j \in DOMAIN ruleSet, layer[j] = active, ruleSet[j].once
          PROVE  j \in firedOnce
      <4>1. PICK k \in DOMAIN ruleSet : order[k] = j
          BY <3>1
      <4> QED
          BY <2>1, <3>3, <3>4, <4>1 DEF Ordered
    <3> QED
        BY <1>1, <2>1, <2>2, <2>5, <3>4 DEF Ordered
  <2> QED
      BY <2>1, <2>3, <2>4, <2>5
<1>10. CASE Stop
  <2>1. UNCHANGED <<phase, order, layer, quads, tuples, active, passes, at, firedOnce, executionFailed>>
      BY <1>10 DEF Stop
  <2> QED
      BY <1>1, <2>1 DEF Ordered, Due
<1> QED
    BY <1>2, <1>3, <1>4, <1>5, <1>6, <1>7, <1>8, <1>9, <1>10 DEF Next

-----------------------------------------------------------------------------
(***************************************************************************)
(* Rules that will not run again have nothing to add.                      *)
(***************************************************************************)

LEMMA ReadIsLabelled ==
    ASSUME Shapes, ~BlankReadsConstant(ruleSet), NEW i \in DOMAIN ruleSet, NEW j \in DOMAIN ruleSet,
           NEW reader, reader = ruleSet[i], NEW writer, writer = ruleSet[j],
           ~reader.data, NEW b \in Facts, NEW h \in writer.head, NEW f, Matches(h, f)
    PROVE  /\ \A p \in reader.body :
                 f.rel = p.rel /\ (p.term = Blank \/ f = Instance(p, b)) => Label(reader, writer) # "none"
           /\ \A p \in reader.not :
                 f.rel = p.rel /\ (p.term = Blank \/ f = Instance(p, b)) => Label(reader, writer) = "negative"
<1>1. reader \in Rule /\ writer \in Rule
    BY RuleFacts DEF Shapes
<1>2. reader.body \subseteq Pattern /\ reader.not \subseteq Pattern /\ writer.head \subseteq Pattern
    BY <1>1 DEF Rule
<1>3. \A p \in reader.body \cup reader.not : p.rel = h.rel => ~(p.term = Blank /\ h.term \in Constants)
    BY DEF BlankReadsConstant
<1>4. \A p \in reader.body \cup reader.not :
         f.rel = p.rel /\ (p.term = Blank \/ f = Instance(p, b)) => Unify(p, h)
    BY <1>2, <1>3, FoundUnifies DEF Matches
<1> QED
    BY <1>2, <1>4 DEF Label, DependsOn

\* What a layer adds is not found by a rule of an earlier one, nor by a rule that runs
\* once: stratify put them where all they read is complete.
LEMMA StaysClosed ==
    ASSUME Shapes, Layers, phase = "rules", input.base \subseteq Known,
           NEW i \in DOMAIN ruleSet, NEW j \in DOMAIN ruleSet, NEW m, Regular,
           layer[j] = active, layer[i] < active \/ (ruleSet[i].once /\ layer[i] <= active),
           NEW W \in SUBSET Facts, \A w \in W : \E h \in ruleSet[j].head : Matches(h, w)
    PROVE  Derived(ruleSet[i], m, Known \cup W, Known \cup W, input.base)
              \subseteq Derived(ruleSet[i], m, Known, Known, input.base)
<1> DEFINE rule == ruleSet[i]
<1>1. /\ rule \in Rule /\ ruleSet[j] \in Rule /\ VariableIsBound(rule)
      /\ input.base \in SUBSET Facts
      /\ ~ReadsTuplesAsGround(rule) /\ ~BlankReadsConstant(ruleSet)
    BY RuleFacts DEF Shapes, Regular
<1>2. Known \in SUBSET Facts /\ Known \cup W \in SUBSET Facts
    BY DEF Known, Shapes, Triples
<1>3. ASSUME NEW b \in Facts, NEW p \in rule.body, ~rule.data, Finds(p, b, Known \cup W)
      PROVE  Finds(p, b, Known)
  <2> SUFFICES ASSUME NEW f \in W, f.rel = p.rel, p.term = Blank \/ f = Instance(p, b)
               PROVE  FALSE
      BY <1>3 DEF Finds
  <2>1. PICK h \in ruleSet[j].head : Matches(h, f)
      OBVIOUS
  <2>2. Label(rule, ruleSet[j]) # "none"
      BY <1>1, <1>3, <2>1, ReadIsLabelled
  <2>3. layer[i] \in Nat /\ layer[j] \in Nat
      BY DEF Layers
  <2>4. layer[i] >= Lowest(Label(rule, ruleSet[j]), layer[j])
      BY DEF Layers, Fits
  <2>5. CASE Label(rule, ruleSet[j]) = "positive"
    <3>1. ~rule.once
        BY <2>2, <2>3, <2>5, LowestIs
    <3>2. Lowest(Label(rule, ruleSet[j]), layer[j]) = layer[j]
        BY <2>3, <2>5, LowestIs
    <3> QED
        BY <2>3, <2>4, <3>1, <3>2
  <2>6. CASE Label(rule, ruleSet[j]) \in {"negative", "closed"}
    <3>1. Lowest(Label(rule, ruleSet[j]), layer[j]) = layer[j] + 1
        BY <2>3, <2>6, LowestIs
    <3> QED
        BY <2>3, <2>4, <3>1
  <2> QED
      BY <2>2, <2>3, <2>5, <2>6, LowestIs
<1>4. /\ \A b \in Facts : \A p \in rule.body :
            ~rule.data /\ Finds(p, b, Known \cup W) => Finds(p, b, Known)
      /\ \A b \in Facts : \A p \in rule.not :
            ~rule.data /\ Finds(p, b, Known) => Finds(p, b, Known \cup W)
    BY <1>3 DEF Finds
<1> HIDE DEF rule
<1>5. Derived(rule, m, Known \cup W, Known \cup W, input.base) \subseteq Derived(rule, m, Known, Known, input.base)
    BY <1>1, <1>2, <1>4, DerivedTransfers DEF rule
<1> QED
    BY <1>5 DEF rule

\* What a rule that runs adds to the facts, told by the rule and not by the pass.
LEMMA FireAdds ==
    ASSUME Shapes, Ordered, NEW i \in DOMAIN ruleSet, RuleDone(i), Fire(i)
    PROVE  /\ Known' = Known \cup Derived(ruleSet[i], i, Known, Known, input.base)
           /\ Derived(ruleSet[i], i, Known, Known, input.base) \in SUBSET Facts
           /\ \A w \in Derived(ruleSet[i], i, Known, Known, input.base) :
                 \E h \in ruleSet[i].head : Matches(h, w)
<1> DEFINE firing == i + Len(ruleSet) * (passes - 1)
           W == Derived(ruleSet[i], i, Known, Known, input.base)
           made == Derived(ruleSet[i], firing, Known, Known, input.base)
<1>1. quads' = quads \cup Triples(made) /\ tuples' = tuples \cup (made \ Triples(made))
    BY DEF Fire, Known
<1>2. made = W
  <2>1. CASE ruleSet[i].once
    <3>1. passes = 1
        BY <2>1, RunningRule
    <3>2. Len(ruleSet) \in Nat /\ i \in Nat
        BY SetFacts DEF Shapes
    <3>3. firing = i
        BY <3>1, <3>2
    <3> QED
        BY <3>3
  <2>2. CASE ~ruleSet[i].once
      BY <2>2, FiringCountsOnce
  <2> QED
      BY <2>1, <2>2
<1>3. ruleSet[i] \in Rule /\ BlanksRunOnce(ruleSet[i]) /\ i \in Nat \ {0}
    BY SetFacts DEF Shapes
<1>4. Known \in SUBSET Facts
    BY DEF Known, Shapes, Triples
<1>5. W \in SUBSET Facts
    BY <1>3, <1>4, DerivedTyped
<1>6. \A w \in W : \E h \in ruleSet[i].head : Matches(h, w)
    BY <1>3, <1>4, HeadMatches
<1> HIDE DEF made, W
<1>7. Known' = Known \cup W
    BY <1>1, <1>2 DEF Known, Triples
<1> QED
    BY <1>5, <1>6, <1>7 DEF W

LEMMA ClosedNext ==
    ASSUME NEW i, UNCHANGED <<ruleSet, input, quads, tuples>>
    PROVE  ClosedUnder(i)' <=> ClosedUnder(i)
  BY DEF ClosedUnder, Known

LEMMA KeptRule ==
    ASSUME Shapes, Layers, Grown, Ordered, Kept, NEW i \in DOMAIN ruleSet, RunRule(i) \/ RuleFails(i)
    PROVE  Kept'
<1> USE DEF given, plan, data, loop
<1> DEFINE W == Derived(ruleSet[i], i, Known, Known, input.base)
<1>0. Len(ruleSet) \in Nat /\ DOMAIN ruleSet = 1 .. Len(ruleSet)
    BY SetFacts DEF Shapes
<1>1. RuleDone(i)
    BY DEF RunRule, RuleFails
<1>2. /\ phase = "rules" /\ phase' = "rules"
      /\ UNCHANGED <<ruleSet, input, order, layer, active, startSignature>>
      /\ firedOnce' = IF ruleSet[i].once THEN firedOnce \cup {i} ELSE firedOnce
      /\ at' = NextDue(at + 1)
    BY <1>1 DEF RuleDone
<1>3. Regular' <=> Regular
    BY <1>2 DEF Regular
<1> SUFFICES ASSUME Regular, ~executionFailed'
             PROVE  /\ Supplied \subseteq Known'
                    /\ \A k \in DOMAIN ruleSet : Finished(k)' => ClosedUnder(k)'
                    /\ Signature' = startSignature =>
                          \A k \in DOMAIN ruleSet :
                             k < at' /\ layer[order[k]] = active /\ ~ruleSet[order[k]].once =>
                                ClosedUnder(order[k])'
  <2>1. Supplied' = Supplied
      BY <1>2 DEF Supplied
  <2> QED
      BY <1>2, <1>3, <2>1 DEF Kept
<1>4. RunRule(i) /\ ~executionFailed
    BY DEF RunRule, RuleFails
<1>5. Known' = Known \cup W /\ W \in SUBSET Facts /\ \A w \in W : \E h \in ruleSet[i].head : Matches(h, w)
    BY <1>1, <1>4, FireAdds DEF RunRule
<1>6. /\ Supplied \subseteq Known /\ input.base \subseteq Known
      /\ \A k \in DOMAIN ruleSet : Finished(k) => ClosedUnder(k)
    BY <1>2, <1>4 DEF Kept, Supplied
<1>7. at \in DOMAIN ruleSet /\ order[at] = i /\ layer[i] = active
    BY <1>1, RunningRule
<1>8. \A k \in firedOnce : layer[k] <= active /\ ruleSet[k].once
    BY <1>2 DEF Ordered
<1>9. layer[i] <= active
    BY <1>7 DEF Layers
<1>10. ASSUME NEW k \in DOMAIN ruleSet, layer[k] < active \/ (ruleSet[k].once /\ layer[k] <= active)
       PROVE  Derived(ruleSet[k], k, Known', Known', input.base) \subseteq Derived(ruleSet[k], k, Known, Known, input.base)
  <2> HIDE DEF W
  <2> QED
      BY <1>2, <1>5, <1>6, <1>7, <1>10, StaysClosed
<1>11. ASSUME NEW k \in DOMAIN ruleSet, Finished(k)'
       PROVE  ClosedUnder(k)'
  <2>1. layer[k] < active \/ k \in firedOnce \/ (k = i /\ ruleSet[i].once)
      BY <1>2, <1>11 DEF Finished
  <2>2. layer[k] < active \/ (ruleSet[k].once /\ layer[k] <= active)
      BY <1>8, <1>9, <2>1
  <2>3. Derived(ruleSet[k], k, Known, Known, input.base) \subseteq Known'
    <3>1. CASE k = i
        BY <1>5, <3>1
    <3>2. CASE k # i
      <4>1. ClosedUnder(k)
          BY <1>6, <2>1, <3>2 DEF Finished
      <4> HIDE DEF W
      <4> QED
          BY <1>5, <4>1 DEF ClosedUnder
    <3> QED
        BY <3>1, <3>2
  <2> QED
      BY <1>2, <1>10, <2>2, <2>3 DEF ClosedUnder
<1>12. ASSUME Signature' = startSignature, NEW k \in DOMAIN ruleSet, k < at', layer[order[k]] = active,
              ~ruleSet[order[k]].once
       PROVE  ClosedUnder(order[k])'
  <2>1. quads \subseteq quads' /\ tuples \subseteq tuples'
      BY <1>2, <1>4, FireTyped DEF RunRule
  <2>2. startSignature[1] \subseteq quads /\ startSignature[2] \subseteq tuples
      BY <1>2 DEF Grown, Below, Signature
  <2>3. quads' = startSignature[1] /\ tuples' = startSignature[2]
      BY <1>2, <1>12 DEF Signature
  <2>4. quads' = quads /\ tuples' = tuples
      BY <2>1, <2>2, <2>3
  <2>5. Signature = startSignature
      BY <1>2, <1>12, <2>4 DEF Signature
  <2>6. Known' = Known
      BY <2>4 DEF Known
  <2>7. CASE k < at
    <3>1. ClosedUnder(order[k])
        BY <1>2, <1>4, <1>12, <2>5, <2>7 DEF Kept
    <3> QED
        BY <1>2, <2>4, <3>1, ClosedNext
  <2>8. CASE k = at
    <3>1. Derived(ruleSet[i], i, Known, Known, input.base) \subseteq Known
        BY <1>5, <2>6
    <3> HIDE DEF W
    <3>2. ClosedUnder(i)
        BY <3>1 DEF ClosedUnder
    <3> QED
        BY <1>2, <1>7, <2>4, <2>8, <3>2, ClosedNext
  <2>9. CASE k > at
    <3>1. Len(order) = Len(ruleSet)
        BY <1>2, OrderFacts
    <3>2. at + 1 \in 1 .. Len(ruleSet) + 1 /\ at \in Nat
        BY <1>0, <1>7
    <3>3. at' \in at + 1 .. Len(ruleSet) + 1 /\ \A l \in at + 1 .. at' - 1 : ~Due(l)
        BY <1>0, <1>2, <3>1, <3>2, NextDueIs
    <3>4. k \in at + 1 .. at' - 1
        BY <1>0, <1>12, <2>9, <3>2, <3>3
    <3> QED
        BY <1>12, <3>3, <3>4 DEF Due
  <2> QED
      BY <1>0, <1>7, <2>7, <2>8, <2>9
<1> QED
    BY <1>2, <1>5, <1>6, <1>11, <1>12

\* When a pass is over all rules have run, and if it added nothing none has anything
\* to add.
LEMMA FixpointIsClosed ==
    ASSUME Shapes, Layers, Counted, Ordered, Kept, Regular, ~executionFailed,
           phase = "rules", at > Len(order), Signature = startSignature
    PROVE  \A i \in DOMAIN ruleSet : layer[i] <= active => ClosedUnder(i)
<1>1. Len(ruleSet) \in Nat /\ DOMAIN ruleSet = 1 .. Len(ruleSet)
    BY SetFacts DEF Shapes
<1>2. /\ Len(order) = Len(ruleSet)
      /\ \A i \in DOMAIN ruleSet : \E k \in DOMAIN ruleSet : order[k] = i
    BY OrderFacts
<1>3. \A k \in DOMAIN ruleSet : k < at
    BY <1>1, <1>2 DEF Ordered
<1> SUFFICES ASSUME NEW i \in DOMAIN ruleSet, layer[i] <= active
             PROVE  ClosedUnder(i)
    OBVIOUS
<1>4. PICK k \in DOMAIN ruleSet : order[k] = i
    BY <1>2
<1>5. CASE layer[i] = active /\ ~ruleSet[i].once
    BY <1>3, <1>4, <1>5 DEF Kept
<1>6. CASE layer[i] = active /\ ruleSet[i].once
  <2>1. i \in firedOnce
      BY <1>3, <1>4, <1>6 DEF Ordered
  <2> QED
      BY <2>1 DEF Kept, Finished
<1>7. CASE layer[i] # active
  <2>1. layer[i] \in Nat /\ active \in Nat
    <3>1. Strata \subseteq Nat
        BY StrataFacts
    <3>2. active \in Strata /\ layer[i] \in Strata
        BY DEF Counted, Strata
    <3> QED
        BY <3>1, <3>2
  <2>2. layer[i] < active
      BY <1>7, <2>1
  <2> QED
      BY <2>2 DEF Kept, Finished
<1> QED
    BY <1>5, <1>6, <1>7

\* How a pass ends.
LEMMA EndPassIs ==
    ASSUME Shapes, Layers, Counted, EndPass
    PROVE  /\ phase = "rules" /\ at > Len(order)
           /\ UNCHANGED <<ruleSet, input, quads, tuples, order, layer, firedOnce, executionFailed>>
           /\ \/ phase' \in {"failed", "cycle"}
              \/ /\ phase' = "converged" /\ Signature = startSignature
                 /\ \A i \in DOMAIN ruleSet : layer[i] <= active
              \/ /\ phase' = "between" /\ Signature = startSignature
                 /\ active \in Nat /\ active' \in Nat /\ active' >= active
                 /\ \A i \in DOMAIN ruleSet : layer[i] < active' => layer[i] <= active
              \/ phase' = "between" /\ active' = active
<1> USE DEF given, plan, data, loop
<1>1. /\ phase = "rules" /\ at > Len(order)
      /\ UNCHANGED <<ruleSet, input, quads, tuples, order, layer, firedOnce, executionFailed>>
      /\ \/ phase' \in {"failed", "cycle"}
         \/ phase' = "converged" /\ Signature = startSignature /\ ~\E l \in Strata : l > active
         \/ /\ phase' = "between" /\ Signature = startSignature
            /\ active' = Min({l \in Strata : l > active}) /\ \E l \in Strata : l > active
         \/ phase' = "between" /\ active' = active
    BY DEF EndPass, NextStratum
<1>2. Strata \subseteq Nat /\ active \in Nat /\ \A i \in DOMAIN ruleSet : layer[i] \in Strata
  <2>1. Strata \subseteq Nat
      BY StrataFacts
  <2> QED
      BY <1>1, <2>1 DEF Counted, Strata
<1>3. CASE phase' = "converged" /\ Signature = startSignature /\ ~\E l \in Strata : l > active
  <2>1. ASSUME NEW l \in Strata
        PROVE  l <= active
    <3>1. l \in Nat /\ ~(l > active)
        BY <1>2, <1>3
    <3> QED
        BY <1>2, <3>1
  <2>2. \A i \in DOMAIN ruleSet : layer[i] <= active
      BY <1>2, <2>1
  <2> QED
      BY <1>1, <1>3, <2>2
<1>4. CASE /\ phase' = "between" /\ Signature = startSignature
           /\ active' = Min({l \in Strata : l > active}) /\ \E l \in Strata : l > active
  <2> DEFINE later == {l \in Strata : l > active}
  <2>1. Min(later) \in later /\ \A l \in later : Min(later) <= l
    <3>1. later \subseteq Nat /\ later # {}
        BY <1>2, <1>4
    <3> HIDE DEF later
    <3> QED
        BY <3>1, MinIsLeast
  <2>2. active' \in Nat /\ active' > active /\ \A l \in Strata : l > active => active' <= l
      BY <1>2, <1>4, <2>1
  <2>3. \A i \in DOMAIN ruleSet : layer[i] < active' => layer[i] <= active
    <3>1. ASSUME NEW l \in Strata, l < active'
          PROVE  l <= active
      <4>1. l \in Nat
          BY <1>2
      <4> QED
          BY <1>2, <2>2, <3>1, <4>1
    <3> QED
        BY <1>2, <3>1
  <2> QED
      BY <1>1, <1>2, <1>4, <2>2, <2>3
<1> QED
    BY <1>1, <1>3, <1>4

LEMMA KeptStep ==
    ASSUME Shapes, Layers, Counted, Grown, Ordered, Kept, Next
    PROVE  Kept'
<1> USE DEF given, plan, data, loop
<1>1. CASE LayerRules \/ Prepare \/ DataBlockFails \/ GiveUp \/ StopIsSeen
  <2>1. phase' \in {"begin", "blocks", "failed", "maxIterations"}
      BY <1>1 DEF LayerRules, Prepare, DataBlockFails, GiveUp, StopIsSeen, End
  <2> QED
      BY <2>1 DEF Kept
<1>2. CASE RunDataBlocks
  <2>1. /\ phase = "blocks" /\ UNCHANGED <<ruleSet, input, layer, tuples, firedOnce>>
        /\ quads' = quads \cup input.block
        /\ \/ phase' = "converged" /\ ruleSet = << >>
           \/ phase' = "between" /\ ruleSet # << >> /\ active' = Min(Strata)
      BY <1>2 DEF RunDataBlocks
  <2>2. quads = input.base /\ tuples = input.seeds /\ firedOnce = {}
      BY <2>1 DEF Ordered
  <2>3. Supplied' \subseteq Known'
      BY <2>1, <2>2 DEF Supplied, Known
  <2>4. CASE phase' = "converged" /\ ruleSet = << >>
    <3>1. DOMAIN ruleSet' = {}
        BY <2>1, <2>4
    <3> QED
        BY <2>3, <2>4, <3>1 DEF Kept
  <2>5. CASE phase' = "between" /\ ruleSet # << >> /\ active' = Min(Strata)
    <3>1. Strata \subseteq Nat /\ Strata # {}
        BY <2>5, StrataFacts
    <3>2. Min(Strata) \in Nat /\ \A l \in Strata : Min(Strata) <= l
        BY <3>1, MinIsLeast
    <3>3. \A i \in DOMAIN ruleSet : layer[i] \in Nat /\ Min(Strata) <= layer[i]
        BY <3>1, <3>2 DEF Strata
    <3>4. \A i \in DOMAIN ruleSet : ~Finished(i)'
        BY <2>1, <2>2, <2>5, <3>2, <3>3 DEF Finished
    <3> QED
        BY <2>1, <2>3, <2>5, <3>4 DEF Kept
  <2> QED
      BY <2>1, <2>4, <2>5
<1>3. CASE StartPass
  <2>1. /\ phase = "between" /\ phase' = "rules" /\ at' = NextDue(1)
        /\ UNCHANGED <<ruleSet, input, layer, order, active, quads, tuples, firedOnce, executionFailed>>
      BY <1>3 DEF StartPass
  <2>2. Len(ruleSet) \in Nat /\ DOMAIN ruleSet = 1 .. Len(ruleSet) /\ Len(order) = Len(ruleSet)
      BY <2>1, SetFacts, OrderFacts DEF Shapes
  <2>3. 1 \in 1 .. Len(ruleSet) + 1
      BY <2>2
  <2>4. at' \in Nat /\ \A k \in 1 .. at' - 1 : ~Due(k)
    <3>1. /\ NextDue(1) \in 1 .. Len(ruleSet) + 1
          /\ \A k \in 1 .. NextDue(1) - 1 : ~Due(k)
        BY <2>2, <2>3, NextDueIs
    <3>2. NextDue(1) \in Nat
        BY <2>2, <3>1
    <3> QED
        BY <2>1, <3>1, <3>2
  <2>5. \A k \in DOMAIN ruleSet : k < at' /\ layer[order[k]] = active => ruleSet[order[k]].once
    <3> SUFFICES ASSUME NEW k \in DOMAIN ruleSet, k < at', layer[order[k]] = active
                 PROVE  ruleSet[order[k]].once
        OBVIOUS
    <3>1. k \in 1 .. at' - 1
        BY <2>2, <2>4
    <3> QED
        BY <2>4, <3>1 DEF Due
  <2>6. /\ Regular' <=> Regular
        /\ Supplied' = Supplied /\ Known' = Known
        /\ \A i : Finished(i)' <=> Finished(i)
        /\ \A i : ClosedUnder(i)' <=> ClosedUnder(i)
      BY <2>1 DEF Regular, Supplied, Known, Finished, ClosedUnder
  <2> QED
      BY <2>1, <2>5, <2>6 DEF Kept
<1>4. CASE \E i \in DOMAIN ruleSet : RunRule(i) \/ RuleFails(i)
    BY <1>4, KeptRule
<1>5. CASE EndPass
  <2>1. /\ phase = "rules" /\ at > Len(order)
        /\ UNCHANGED <<ruleSet, input, quads, tuples, order, layer, firedOnce, executionFailed>>
        /\ \/ phase' \in {"failed", "cycle"}
           \/ /\ phase' = "converged" /\ Signature = startSignature
              /\ \A i \in DOMAIN ruleSet : layer[i] <= active
           \/ /\ phase' = "between" /\ Signature = startSignature
              /\ active \in Nat /\ active' \in Nat /\ active' >= active
              /\ \A i \in DOMAIN ruleSet : layer[i] < active' => layer[i] <= active
           \/ phase' = "between" /\ active' = active
      BY <1>5, EndPassIs
  <2>2. /\ Regular' <=> Regular
        /\ Supplied' = Supplied /\ Known' = Known
        /\ \A i : ClosedUnder(i)' <=> ClosedUnder(i)
        /\ \A i : Finished(i)' <=> (layer[i] < active' \/ i \in firedOnce)
      BY <2>1 DEF Regular, Supplied, Known, Finished, ClosedUnder
  <2> SUFFICES ASSUME Regular, ~executionFailed
               PROVE  Kept'
      BY <2>1, <2>2 DEF Kept
  <2>3. /\ Supplied \subseteq Known
        /\ \A i \in DOMAIN ruleSet : Finished(i) => ClosedUnder(i)
        /\ Signature = startSignature => \A i \in DOMAIN ruleSet : layer[i] <= active => ClosedUnder(i)
      BY <2>1, FixpointIsClosed DEF Kept
  <2>4. CASE phase' \in {"failed", "cycle"}
      BY <2>4 DEF Kept
  <2>5. CASE /\ phase' = "converged" /\ Signature = startSignature
             /\ \A i \in DOMAIN ruleSet : layer[i] <= active
      BY <2>1, <2>2, <2>3, <2>5 DEF Kept
  <2>6. CASE /\ phase' = "between" /\ Signature = startSignature
             /\ active \in Nat /\ active' \in Nat /\ active' >= active
             /\ \A i \in DOMAIN ruleSet : layer[i] < active' => layer[i] <= active
      BY <2>1, <2>2, <2>3, <2>6 DEF Kept, Finished
  <2>7. CASE phase' = "between" /\ active' = active
      BY <2>1, <2>2, <2>3, <2>7 DEF Kept, Finished
  <2> QED
      BY <2>1, <2>4, <2>5, <2>6, <2>7
<1>6. CASE Stop
  <2>1. UNCHANGED <<phase, ruleSet, input, order, layer, quads, tuples, active, at, firedOnce, executionFailed,
                    startSignature>>
      BY <1>6 DEF Stop
  <2> QED
      BY <2>1 DEF Kept, Regular, Supplied, Known, Finished, ClosedUnder, Signature
<1> QED
    BY <1>1, <1>2, <1>3, <1>4, <1>5, <1>6 DEF Next

-----------------------------------------------------------------------------
(***************************************************************************)
(* Nothing is known that does not follow.                                  *)
(***************************************************************************)

LEMMA ModelNext ==
    ASSUME NEW M, NEW D, NEW l, NEW f, UNCHANGED <<ruleSet, input, layer>>
    PROVE  (Model(M, D)' <=> Model(M, D)) /\ (WrittenFrom(l, f)' <=> WrittenFrom(l, f))
  BY DEF Model, WrittenFrom, Supplied

\* What a rule of the layer that runs derives from the facts, it derives from all
\* that follows: what it does not find under its NOT no later layer will add.
LEMMA RuleFollows ==
    ASSUME Shapes, Layers, phase = "rules", NEW i \in DOMAIN ruleSet, layer[i] = active,
           Regular,
           NEW D \in SUBSET Facts, NEW M \in SUBSET Facts, Known \subseteq M,
           \A f \in D \ Known : WrittenFrom(active, f), Model(M, D)
    PROVE  Derived(ruleSet[i], i, Known, Known, input.base) \subseteq M
<1> DEFINE rule == ruleSet[i]
<1>1. /\ rule \in Rule /\ VariableIsBound(rule) /\ input.base \in SUBSET Facts
      /\ ~ReadsTuplesAsGround(rule) /\ ~BlankReadsConstant(ruleSet)
    BY RuleFacts DEF Shapes, Regular
<1>2. Known \in SUBSET Facts /\ input.base \subseteq M
    BY DEF Known, Shapes, Triples, Model, Supplied
<1>3. ASSUME NEW b \in Facts, NEW p \in rule.not, ~rule.data, Finds(p, b, D)
      PROVE  Finds(p, b, Known)
  <2> SUFFICES ASSUME NEW f \in D \ Known, f.rel = p.rel, p.term = Blank \/ f = Instance(p, b)
               PROVE  FALSE
      BY <1>3 DEF Finds
  <2>1. PICK j \in DOMAIN ruleSet : layer[j] >= active /\ \E h \in ruleSet[j].head : Matches(h, f)
      BY DEF WrittenFrom
  <2>2. Label(rule, ruleSet[j]) = "negative"
      BY <1>1, <1>3, <2>1, ReadIsLabelled
  <2>3. layer[i] \in Nat /\ layer[j] \in Nat
      BY DEF Layers
  <2>4. layer[i] >= Lowest(Label(rule, ruleSet[j]), layer[j])
      BY DEF Layers, Fits
  <2>5. Lowest(Label(rule, ruleSet[j]), layer[j]) = layer[j] + 1
      BY <2>2, <2>3, LowestIs
  <2> QED
      BY <2>1, <2>3, <2>4, <2>5
<1>4. /\ \A b \in Facts : \A p \in rule.body : ~rule.data /\ Finds(p, b, Known) => Finds(p, b, M)
      /\ \A b \in Facts : \A p \in rule.not : ~rule.data /\ Finds(p, b, D) => Finds(p, b, Known)
    BY <1>3 DEF Finds
<1> HIDE DEF rule
<1>5. Derived(rule, i, Known, Known, input.base) \subseteq Derived(rule, i, M, D, input.base)
    BY <1>1, <1>2, <1>4, DerivedTransfers DEF rule
<1>6. Derived(rule, i, M, D, input.base) \subseteq M
    BY DEF Model, rule
<1> QED
    BY <1>5, <1>6 DEF rule

LEMMA SoundRule ==
    ASSUME Shapes, Layers, Ordered, Sound, NEW i \in DOMAIN ruleSet, RunRule(i) \/ RuleFails(i)
    PROVE  Sound'
<1> USE DEF given, plan, data, loop
<1> DEFINE W == Derived(ruleSet[i], i, Known, Known, input.base)
<1>1. RuleDone(i)
    BY DEF RunRule, RuleFails
<1>2. phase = "rules" /\ phase' = "rules" /\ UNCHANGED <<ruleSet, input, layer, active>>
    BY <1>1 DEF RuleDone
<1>3. Regular' <=> Regular
    BY <1>2 DEF Regular
<1> SUFFICES ASSUME Regular, ~executionFailed', NEW D \in SUBSET Facts, NEW M \in SUBSET Facts,
                    Known' \subseteq D, \A f \in D \ Known' : WrittenFrom(active, f)', Model(M, D)'
             PROVE  Known' \subseteq M
    BY <1>2, <1>3 DEF Sound
<1>4. RunRule(i) /\ ~executionFailed
    BY DEF RunRule, RuleFails
<1>5. Known' = Known \cup W /\ W \in SUBSET Facts /\ \A w \in W : \E h \in ruleSet[i].head : Matches(h, w)
    BY <1>1, <1>4, FireAdds DEF RunRule
<1>6. layer[i] = active /\ layer[i] >= active
    BY <1>1, RunningRule DEF Layers
<1> HIDE DEF W
<1>7. Known \subseteq D /\ Model(M, D)
    BY <1>2, <1>5, ModelNext
<1>8. ASSUME NEW f \in D \ Known
      PROVE  WrittenFrom(active, f)
  <2>1. CASE f \in W
      BY <1>5, <1>6, <2>1 DEF WrittenFrom
  <2>2. CASE f \notin W
    <3>1. WrittenFrom(active, f)'
        BY <1>5, <1>8, <2>2
    <3> QED
        BY <1>2, <3>1 DEF WrittenFrom
  <2> QED
      BY <2>1, <2>2
<1>9. Known \subseteq M
    BY <1>2, <1>4, <1>7, <1>8 DEF Sound
<1>11. W \subseteq M
    BY <1>2, <1>6, <1>7, <1>8, <1>9, RuleFollows DEF W
<1> QED
    BY <1>5, <1>9, <1>11

LEMMA SoundStep ==
    ASSUME Shapes, Layers, Counted, Ordered, Sound, Next
    PROVE  Sound'
<1> USE DEF given, plan, data, loop
<1>1. CASE LayerRules \/ Prepare \/ DataBlockFails \/ GiveUp \/ StopIsSeen
  <2>1. phase' \in {"begin", "blocks", "failed", "maxIterations"}
      BY <1>1 DEF LayerRules, Prepare, DataBlockFails, GiveUp, StopIsSeen, End
  <2> QED
      BY <2>1 DEF Sound
<1>2. CASE RunDataBlocks
  <2>1. /\ phase = "blocks" /\ UNCHANGED <<ruleSet, input, layer, tuples>>
        /\ quads' = quads \cup input.block
      BY <1>2 DEF RunDataBlocks
  <2>2. quads = input.base /\ tuples = input.seeds
      BY <2>1 DEF Ordered
  <2>3. Known' = Supplied
      BY <2>1, <2>2 DEF Supplied, Known
  <2>4. \A M, D : Model(M, D)' => Supplied \subseteq M
      BY <2>1 DEF Model, Supplied
  <2> QED
      BY <2>3, <2>4 DEF Sound
<1>3. CASE StartPass \/ Stop
  <2>1. /\ UNCHANGED <<ruleSet, input, layer, active, quads, tuples, executionFailed>>
        /\ phase' = phase \/ (phase = "between" /\ phase' = "rules")
      BY <1>3 DEF StartPass, Stop
  <2>2. /\ Regular' <=> Regular
        /\ Known' = Known
        /\ \A M, D : Model(M, D)' <=> Model(M, D)
        /\ \A f : WrittenFrom(active, f)' <=> WrittenFrom(active, f)
      BY <2>1 DEF Regular, Known, Model, Supplied, WrittenFrom
  <2> QED
      BY <2>1, <2>2 DEF Sound
<1>4. CASE \E i \in DOMAIN ruleSet : RunRule(i) \/ RuleFails(i)
    BY <1>4, SoundRule
<1>5. CASE EndPass
  <2>1. /\ phase = "rules"
        /\ UNCHANGED <<ruleSet, input, quads, tuples, layer, executionFailed>>
        /\ \/ phase' \in {"failed", "cycle", "converged"}
           \/ phase' = "between" /\ active \in Nat /\ active' \in Nat /\ active' >= active
           \/ phase' = "between" /\ active' = active
      BY <1>5, EndPassIs
  <2>2. /\ Regular' <=> Regular
        /\ Known' = Known
        /\ \A M, D : Model(M, D)' <=> Model(M, D)
        /\ \A l, f : WrittenFrom(l, f)' <=> WrittenFrom(l, f)
      BY <2>1 DEF Regular, Known, Model, Supplied, WrittenFrom
  <2>3. Regular /\ ~executionFailed =>
           \A D \in SUBSET Facts : \A M \in SUBSET Facts :
              Known \subseteq D /\ (\A f \in D \ Known : WrittenFrom(active, f)) /\ Model(M, D) => Known \subseteq M
      BY <2>1 DEF Sound
  <2>4. CASE phase' \in {"failed", "cycle", "converged"}
    <3>1. Known \in SUBSET Facts
        BY DEF Known, Shapes, Triples
    <3>2. Regular /\ ~executionFailed => \A M \in SUBSET Facts : Model(M, Known) => Known \subseteq M
        BY <2>3, <3>1
    <3>3. \A M : Model(M, Known)' <=> Model(M, Known)
        BY <2>2, ModelNext, <2>1
    <3> QED
        BY <2>1, <2>2, <2>4, <3>2, <3>3 DEF Sound
  <2>5. CASE phase' = "between" /\ active \in Nat /\ active' \in Nat /\ active' >= active
    <3>1. active' \in Nat /\ active \in Nat /\ \A j \in DOMAIN ruleSet : layer[j] \in Nat
        BY <2>5 DEF Layers
    <3>2. \A f : WrittenFrom(active', f) => WrittenFrom(active, f)
        BY <2>5, <3>1 DEF WrittenFrom
    <3> QED
        BY <2>1, <2>2, <2>3, <2>5, <3>2 DEF Sound
  <2>6. CASE phase' = "between" /\ active' = active
      BY <2>1, <2>2, <2>3, <2>6 DEF Sound
  <2> QED
      BY <2>1, <2>4, <2>5, <2>6
<1> QED
    BY <1>1, <1>2, <1>3, <1>4, <1>5 DEF Next

-----------------------------------------------------------------------------
(***************************************************************************)
(* Iterating a function, and a chain of subsets of a finite set.           *)
(***************************************************************************)

LEMMA IterationExists ==
    ASSUME NEW T, NEW start \in T, NEW next \in [T -> T]
    PROVE  \E f \in [Nat -> T] : f[0] = start /\ \A k \in Nat : k # 0 => f[k] = next[f[k - 1]]
<1> DEFINE Upto(n, g) == g \in [0 .. n -> T] /\ g[0] = start /\ \A k \in 1 .. n : g[k] = next[g[k - 1]]
<1>1. \A n \in Nat : \E g : Upto(n, g)
  <2> DEFINE Bad == {n \in Nat : ~\E g : Upto(n, g)}
  <2> SUFFICES ASSUME Bad # {}
               PROVE  FALSE
      OBVIOUS
  <2>1. Bad \subseteq Nat
      OBVIOUS
  <2> HIDE DEF Bad
  <2>2. PICK m \in Bad : \A k \in Bad : m <= k
      BY <2>1, LeastExists
  <2> USE DEF Bad
  <2>3. CASE m = 0
    <3> DEFINE g == [k \in 0 .. 0 |-> start]
    <3>1. g \in [0 .. m -> T] /\ g[0] = start /\ \A k \in 1 .. m : g[k] = next[g[k - 1]]
        BY <2>3
    <3> QED
        BY <3>1
  <2>4. CASE m # 0
    <3>1. m - 1 \in Nat /\ m - 1 \notin Bad /\ m \in Nat
        BY <2>2, <2>4
    <3>2. PICK g : Upto(m - 1, g)
        BY <3>1
    <3> DEFINE h == [k \in 0 .. m |-> IF k = m THEN next[g[m - 1]] ELSE g[k]]
    <3>3. \A k \in 0 .. m - 1 : g[k] \in T /\ h[k] = g[k]
        BY <3>1, <3>2
    <3>4. h \in [0 .. m -> T]
      <4>1. m - 1 \in 0 .. m - 1
          BY <3>1
      <4>2. next[g[m - 1]] \in T
          BY <3>3, <4>1
      <4>3. \A k \in 0 .. m : k # m => k \in 0 .. m - 1
          BY <3>1
      <4>4. \A k \in 0 .. m : h[k] \in T
          BY <3>3, <4>2, <4>3
      <4> QED
          BY <4>4
    <3>5. h[0] = start
        BY <3>1, <3>2, <2>4
    <3>6. ASSUME NEW k \in 1 .. m
          PROVE  h[k] = next[h[k - 1]]
      <4>1. k - 1 \in 0 .. m - 1 /\ h[k - 1] = g[k - 1]
          BY <3>1, <3>3
      <4>2. CASE k = m
          BY <3>1, <4>1, <4>2
      <4>3. CASE k # m
          BY <3>1, <3>2, <4>1, <4>3
      <4> QED
          BY <4>2, <4>3
    <3> HIDE DEF h
    <3>7. Upto(m, h)
        BY <3>4, <3>5, <3>6
    <3> QED
        BY <3>1, <3>7
  <2> QED
      BY <2>3, <2>4
<1>2. ASSUME NEW n \in Nat, NEW m \in Nat, NEW g, NEW h, Upto(n, g), Upto(m, h), n <= m
      PROVE  \A k \in 0 .. n : g[k] = h[k]
  <2> DEFINE Bad == {k \in 0 .. n : g[k] # h[k]}
  <2> SUFFICES ASSUME Bad # {}
               PROVE  FALSE
      OBVIOUS
  <2>1. Bad \subseteq Nat
      OBVIOUS
  <2> HIDE DEF Bad
  <2>2. PICK k \in Bad : \A l \in Bad : k <= l
      BY <2>1, LeastExists
  <2> USE DEF Bad
  <2>3. k \in 0 .. n /\ g[k] # h[k] /\ k # 0
      BY <1>2, <2>2
  <2>4. k \in 1 .. n /\ k \in 1 .. m /\ k - 1 \in 0 .. n /\ k - 1 \notin Bad
      BY <1>2, <2>2, <2>3
  <2>5. g[k] = next[g[k - 1]] /\ h[k] = next[h[k - 1]] /\ g[k - 1] = h[k - 1]
      BY <1>2, <2>4
  <2> QED
      BY <2>3, <2>5
<1> DEFINE G(n) == CHOOSE g : Upto(n, g)
           f == [n \in Nat |-> G(n)[n]]
<1>3. \A n \in Nat : Upto(n, G(n))
    BY <1>1
<1> HIDE DEF G
<1>4. \A n \in Nat : G(n)[n] \in T
  <2> SUFFICES ASSUME NEW n \in Nat
               PROVE  G(n)[n] \in T
      OBVIOUS
  <2>1. n \in 0 .. n
      OBVIOUS
  <2> QED
      BY <1>3, <2>1
<1>5. f \in [Nat -> T]
    BY <1>4
<1>6. ASSUME NEW k \in Nat
      PROVE  f[k] = IF k = 0 THEN start ELSE next[f[k - 1]]
  <2>1. CASE k = 0
    <3>1. Upto(0, G(0))
        BY <1>3
    <3> QED
        BY <2>1, <3>1
  <2>2. CASE k # 0
    <3>1. k - 1 \in Nat /\ k - 1 <= k /\ k \in 1 .. k /\ k - 1 \in 0 .. k - 1
        BY <2>2
    <3>2. Upto(k, G(k)) /\ Upto(k - 1, G(k - 1))
        BY <1>3, <3>1
    <3>3. G(k - 1)[k - 1] = G(k)[k - 1]
      <4> HIDE DEF Upto
      <4> QED
          BY <1>2, <3>1, <3>2
    <3>4. G(k)[k] = next[G(k)[k - 1]]
        BY <3>1, <3>2
    <3> QED
        BY <2>2, <3>1, <3>3, <3>4
  <2> QED
      BY <2>1, <2>2
<1> HIDE DEF f
<1>7. f[0] = start /\ \A k \in Nat : k # 0 => f[k] = next[f[k - 1]]
    BY <1>6
<1> QED
    BY <1>5, <1>7

LEMMA ChainSettles ==
    ASSUME NEW B, IsFiniteSet(B), NEW f, \A k \in Nat : f[k] \subseteq f[k + 1] /\ f[k] \subseteq B
    PROVE  /\ Cardinality(B) \in Nat
           /\ \A j, k \in Nat : j <= k => f[j] \subseteq f[k]
           /\ \E k \in 0 .. Cardinality(B) : f[k + 1] = f[k]
<1> DEFINE c == Cardinality(B)
<1>1. c \in Nat
    BY FS_CardinalityType
<1>2. \A k \in Nat : /\ IsFiniteSet(f[k]) /\ Cardinality(f[k]) \in Nat
                     /\ Cardinality(f[k]) <= c
  <2> SUFFICES ASSUME NEW k \in Nat
               PROVE  IsFiniteSet(f[k]) /\ Cardinality(f[k]) \in Nat /\ Cardinality(f[k]) <= c
      OBVIOUS
  <2>1. IsFiniteSet(f[k]) /\ Cardinality(f[k]) <= c
      BY FS_Subset
  <2> QED
      BY <2>1, FS_CardinalityType
<1>3. ASSUME NEW j \in Nat
      PROVE  \A k \in Nat : j <= k => f[j] \subseteq f[k]
  <2> DEFINE Bad == {k \in Nat : j <= k /\ ~(f[j] \subseteq f[k])}
  <2> SUFFICES ASSUME Bad # {}
               PROVE  FALSE
      OBVIOUS
  <2>1. Bad \subseteq Nat
      OBVIOUS
  <2> HIDE DEF Bad
  <2>2. PICK k \in Bad : \A l \in Bad : k <= l
      BY <2>1, LeastExists
  <2> USE DEF Bad
  <2>3. k \in Nat /\ j <= k /\ ~(f[j] \subseteq f[k]) /\ k # j
      BY <2>2
  <2>4. k - 1 \in Nat /\ j <= k - 1 /\ k - 1 \notin Bad /\ (k - 1) + 1 = k
      BY <2>2, <2>3
  <2>5. f[j] \subseteq f[k - 1]
      BY <2>4
  <2>6. f[k - 1] \subseteq f[k]
      BY <2>4
  <2> QED
      BY <2>3, <2>5, <2>6
<1>4. ASSUME \A k \in 0 .. c : f[k + 1] # f[k]
      PROVE  FALSE
  <2> DEFINE Bad == {k \in 0 .. c + 1 : Cardinality(f[k]) < k}
  <2>1. Bad = {}
    <3> SUFFICES ASSUME Bad # {}
                 PROVE  FALSE
        OBVIOUS
    <3>1. Bad \subseteq Nat
        BY <1>1
    <3> HIDE DEF Bad
    <3>2. PICK k \in Bad : \A l \in Bad : k <= l
        BY <3>1, LeastExists
    <3> USE DEF Bad
    <3>3. k \in 0 .. c + 1 /\ Cardinality(f[k]) < k /\ k # 0
        BY <1>1, <1>2, <3>2
    <3>4. k - 1 \in 0 .. c /\ k - 1 \in Nat /\ k - 1 \notin Bad /\ (k - 1) + 1 = k /\ k \in Nat
        BY <1>1, <3>2, <3>3
    <3>5. Cardinality(f[k - 1]) >= k - 1
        BY <1>1, <1>2, <3>4
    <3>6. f[k - 1] \subseteq f[k] /\ f[k] # f[k - 1]
        BY <1>4, <3>4
    <3>7. Cardinality(f[k - 1]) <= Cardinality(f[k]) /\ Cardinality(f[k]) # Cardinality(f[k - 1])
        BY <1>2, <3>4, <3>6, FS_Subset
    <3>8. Cardinality(f[k - 1]) \in Nat /\ Cardinality(f[k]) \in Nat
        BY <1>2, <3>4
    <3> QED
        BY <3>3, <3>4, <3>5, <3>7, <3>8
  <2>2. c + 1 \in 0 .. c + 1 /\ c + 1 \in Nat
      BY <1>1
  <2>3. ~(Cardinality(f[c + 1]) < c + 1)
      BY <2>1, <2>2
  <2>4. Cardinality(f[c + 1]) \in Nat /\ Cardinality(f[c + 1]) <= c
      BY <1>2, <2>2
  <2> QED
      BY <1>1, <2>3, <2>4
<1> QED
    BY <1>1, <1>3, <1>4

-----------------------------------------------------------------------------
(***************************************************************************)
(* The facts of a run are finite.                                          *)
(***************************************************************************)

LEMMA PairsAreFinite ==
    ASSUME NEW R, IsFiniteSet(R), NEW C, IsFiniteSet(C)
    PROVE  IsFiniteSet([rel : R, term : C])
<1> DEFINE f == [x \in R \X C |-> [rel |-> x[1], term |-> x[2]]]
<1>1. f \in [R \X C -> [rel : R, term : C]]
    OBVIOUS
<1>2. \A y \in [rel : R, term : C] : \E x \in R \X C : f[x] = y
  <2> SUFFICES ASSUME NEW y \in [rel : R, term : C]
               PROVE  \E x \in R \X C : f[x] = y
      OBVIOUS
  <2>1. <<y.rel, y.term>> \in R \X C /\ f[<<y.rel, y.term>>] = y
      OBVIOUS
  <2> QED
      BY <2>1
<1> HIDE DEF f
<1>3. f \in Surjection(R \X C, [rel : R, term : C])
    BY <1>1, <1>2 DEF Surjection
<1>4. IsFiniteSet(R \X C)
    BY FS_Product
<1> QED
    BY <1>3, <1>4, FS_Surjection

LEMMA DerivedIsFinite ==
    ASSUME NEW rule \in Rule, NEW firing, NEW facts, IsFiniteSet(facts), NEW denied, NEW ground
    PROVE  IsFiniteSet(Derived(rule, firing, facts, denied, ground))
<1>1. IsFiniteSet(Relations) /\ IsFiniteSet(Constants)
    BY RunnerAssumption
<1>2. IsFiniteSet(rule.head)
  <2>1. IsFiniteSet({Var, Blank})
    <3>1. IsFiniteSet({Var}) /\ {Var, Blank} = {Var} \cup {Blank}
        BY FS_Singleton
    <3> QED
        BY <3>1, FS_AddElement
  <2>2. IsFiniteSet(Constants \cup {Var, Blank})
      BY <1>1, <2>1, FS_Union
  <2>3. IsFiniteSet(Pattern)
      BY <1>1, <2>2, PairsAreFinite DEF Pattern
  <2>4. rule.head \subseteq Pattern
      BY DEF Rule
  <2> QED
      BY <2>3, <2>4, FS_Subset
<1> DEFINE S == Solutions(rule, facts, denied, ground)
           terms == {Given(rel, c) : rel \in Relations, c \in Constants}
<1>3. IsFiniteSet(terms)
  <2> DEFINE f == [x \in Relations \X Constants |-> Given(x[1], x[2])]
  <2>1. f \in [Relations \X Constants -> terms]
      OBVIOUS
  <2>2. \A y \in terms : \E x \in Relations \X Constants : f[x] = y
    <3> SUFFICES ASSUME NEW y \in terms
                 PROVE  \E x \in Relations \X Constants : f[x] = y
        OBVIOUS
    <3>1. PICK rel \in Relations, c \in Constants : y = Given(rel, c)
        OBVIOUS
    <3>2. <<rel, c>> \in Relations \X Constants /\ f[<<rel, c>>] = y
        BY <3>1
    <3> QED
        BY <3>2
  <2> HIDE DEF f, terms
  <2>3. f \in Surjection(Relations \X Constants, terms)
      BY <2>1, <2>2 DEF Surjection
  <2>4. IsFiniteSet(Relations \X Constants)
      BY <1>1, FS_Product
  <2> QED
      BY <2>3, <2>4, FS_Surjection
<1>4. IsFiniteSet(S)
  <2>1. S \subseteq facts \cup terms
      BY DEF Solutions, Bindings
  <2> HIDE DEF S, terms
  <2>2. IsFiniteSet(facts \cup terms)
      BY <1>3, FS_Union
  <2> QED
      BY <2>1, <2>2, FS_Subset
<1> DEFINE new(p, b) == IF rule.once /\ p.term \in {Var, Blank}
                        THEN [rel |-> p.rel, term |-> b.term, made |-> firing] ELSE Instance(p, b)
           W == Derived(rule, firing, facts, denied, ground)
<1>5. W = {new(p, b) : p \in rule.head, b \in S}
    BY DEF Derived
<1> DEFINE f == [x \in rule.head \X S |-> new(x[1], x[2])]
<1> HIDE DEF new, S, W
<1>6. f \in [rule.head \X S -> W]
    BY <1>5
<1>7. \A y \in W : \E x \in rule.head \X S : f[x] = y
  <2> SUFFICES ASSUME NEW y \in W
               PROVE  \E x \in rule.head \X S : f[x] = y
      OBVIOUS
  <2>1. PICK p \in rule.head, b \in S : y = new(p, b)
      BY <1>5
  <2>2. <<p, b>> \in rule.head \X S /\ f[<<p, b>>] = y
      BY <2>1
  <2> QED
      BY <2>2
<1> HIDE DEF f
<1>8. f \in Surjection(rule.head \X S, W)
    BY <1>6, <1>7 DEF Surjection
<1>9. IsFiniteSet(rule.head \X S)
    BY <1>2, <1>4, FS_Product
<1> QED
    BY <1>8, <1>9, FS_Surjection DEF W

Finite == IsFiniteSet(Known)

LEMMA FiniteStep ==
    ASSUME Shapes, Finite, Next
    PROVE  Finite'
<1> USE DEF given, plan, data, loop
<1>1. IsFiniteSet(Supplied)
    BY RunnerAssumption DEF Shapes, Supplied
<1>2. CASE Prepare
  <2>1. (quads' = quads /\ tuples' = tuples) \/ (quads' = input.base /\ tuples' = input.seeds)
      BY <1>2 DEF Prepare
  <2>2. Known' = Known \/ Known' \subseteq Supplied
      BY <2>1 DEF Known, Supplied
  <2> QED
      BY <1>1, <2>2, FS_Subset DEF Finite
<1>3. CASE RunDataBlocks
  <2>1. Known' = Known \cup input.block
      BY <1>3 DEF RunDataBlocks, Known
  <2>2. IsFiniteSet(input.block)
      BY <1>1, FS_Subset DEF Supplied
  <2> QED
      BY <2>1, <2>2, FS_Union DEF Finite
<1>4. ASSUME NEW i \in DOMAIN ruleSet, RunRule(i) \/ RuleFails(i)
      PROVE  Finite'
  <2>1. CASE UNCHANGED data
      BY <2>1 DEF Finite, Known
  <2>2. CASE Fire(i)
    <3> DEFINE made == Derived(ruleSet[i], i + Len(ruleSet) * (passes - 1), Known, Known, input.base)
    <3>1. quads' = quads \cup Triples(made) /\ tuples' = tuples \cup (made \ Triples(made))
        BY <2>2 DEF Fire, Known
    <3>2. ruleSet[i] \in Rule
        BY RuleFacts DEF Shapes
    <3>3. IsFiniteSet(made)
        BY <3>2, DerivedIsFinite DEF Finite
    <3> HIDE DEF made
    <3>4. Known' = Known \cup made
        BY <3>1 DEF Known, Triples
    <3> QED
        BY <3>3, <3>4, FS_Union DEF Finite
  <2> QED
      BY <1>4, <2>1, <2>2 DEF RunRule, RuleFails
<1>5. CASE \/ LayerRules \/ DataBlockFails \/ GiveUp \/ StartPass \/ StopIsSeen \/ EndPass \/ Stop
  <2>1. quads' = quads /\ tuples' = tuples
      BY <1>5 DEF LayerRules, DataBlockFails, GiveUp, StartPass, StopIsSeen, EndPass, Stop, End
  <2> QED
      BY <2>1 DEF Finite, Known
<1> QED
    BY <1>2, <1>3, <1>4, <1>5 DEF Next

-----------------------------------------------------------------------------
(***************************************************************************)
(* What a run converges to.                                                *)
(***************************************************************************)

\* Facts that are closed under the rules and of which none is superfluous are what the
\* iteration of the rules from the input comes to.
LEMMA ModelIsConsequences ==
    ASSUME Shapes, Finite, Regular, Supplied \subseteq Known,
           \A i \in DOMAIN ruleSet : ClosedUnder(i),
           \A M \in SUBSET Facts : Model(M, Known) => Known \subseteq M
    PROVE  Known = Consequences(Known)
<1> DEFINE Step(facts) ==
              facts \cup UNION {Derived(ruleSet[i], i, facts, Known, input.base) : i \in DOMAIN ruleSet}
           after[k \in Nat] ==
              IF k = 0 THEN input.base \cup input.block \cup input.seeds ELSE Step(after[k - 1])
<1>1. Consequences(Known) = after[Cardinality(Known)]
    BY DEF Consequences
<1>2. \A X : X \subseteq Step(X) /\ \A i \in DOMAIN ruleSet : Derived(ruleSet[i], i, X, Known, input.base) \subseteq Step(X)
    OBVIOUS
<1>3. Known \in SUBSET Facts /\ Supplied \in SUBSET Facts /\ input.base \in SUBSET Facts /\ input.base \subseteq Known
    BY RuleFacts DEF Known, Shapes, Triples, Supplied
<1>4. \A i \in DOMAIN ruleSet : /\ ruleSet[i] \in Rule /\ BlanksRunOnce(ruleSet[i]) /\ VariableIsBound(ruleSet[i])
                                /\ i \in Nat /\ ~ReadsTuplesAsGround(ruleSet[i])
    BY RuleFacts, SetFacts DEF Shapes, Regular
<1>5. ASSUME NEW X \in SUBSET Facts
      PROVE  Step(X) \in SUBSET Facts
  <2>1. \A i \in DOMAIN ruleSet : Derived(ruleSet[i], i, X, Known, input.base) \subseteq Facts
      BY <1>4, DerivedTyped
  <2> QED
      BY <2>1
<1>6. ASSUME NEW X, X \subseteq Known
      PROVE  Step(X) \subseteq Known
  <2>1. ASSUME NEW i \in DOMAIN ruleSet
        PROVE  Derived(ruleSet[i], i, X, Known, input.base) \subseteq Known
    <3>1. Derived(ruleSet[i], i, X, Known, input.base) \subseteq Derived(ruleSet[i], i, Known, Known, input.base)
      <4>1. X \in SUBSET Facts
          BY <1>3, <1>6
      <4> QED
          BY <1>3, <1>4, <1>6, <4>1, DerivedTransfers DEF Finds
    <3>2. Derived(ruleSet[i], i, Known, Known, input.base) \subseteq Known
        BY DEF ClosedUnder
    <3> QED
        BY <3>1, <3>2
  <2> QED
      BY <1>6, <2>1
<1> HIDE DEF Step
<1>7. after = [k \in Nat |-> IF k = 0 THEN input.base \cup input.block \cup input.seeds ELSE Step(after[k - 1])]
  <2> DEFINE next == [X \in SUBSET Facts |-> Step(X)]
  <2>1. next \in [SUBSET Facts -> SUBSET Facts]
      BY <1>5
  <2>2. PICK f \in [Nat -> SUBSET Facts] : f[0] = Supplied /\ \A k \in Nat : k # 0 => f[k] = next[f[k - 1]]
    <3> DEFINE T == SUBSET Facts
    <3>1. Supplied \in T /\ next \in [T -> T]
        BY <1>3, <2>1
    <3> HIDE DEF next, T
    <3>2. \E f \in [Nat -> T] : f[0] = Supplied /\ \A k \in Nat : k # 0 => f[k] = next[f[k - 1]]
        BY <3>1, IterationExists
    <3> QED
        BY <3>2 DEF T
  <2>3. ASSUME NEW k \in Nat
        PROVE  f[k] = IF k = 0 THEN input.base \cup input.block \cup input.seeds ELSE Step(f[k - 1])
    <3>1. CASE k = 0
        BY <2>2, <3>1 DEF Supplied
    <3>2. CASE k # 0
      <4>1. k - 1 \in Nat
          BY <3>2
      <4>2. f[k - 1] \in SUBSET Facts
          BY <4>1
      <4>3. f[k] = next[f[k - 1]]
          BY <2>2, <3>2
      <4> QED
          BY <3>2, <4>2, <4>3
    <3> QED
        BY <3>1, <3>2
  <2>4. f = [k \in Nat |-> IF k = 0 THEN input.base \cup input.block \cup input.seeds ELSE Step(f[k - 1])]
      BY <2>3
  <2> QED
      BY <2>4
<1> HIDE DEF after
<1>8. after[0] = Supplied /\ \A k \in Nat : after[k + 1] = Step(after[k])
  <2>1. after[0] = Supplied
      BY <1>7 DEF Supplied
  <2>2. ASSUME NEW k \in Nat
        PROVE  after[k + 1] = Step(after[k])
    <3>1. k + 1 \in Nat /\ k + 1 # 0 /\ (k + 1) - 1 = k
        OBVIOUS
    <3> QED
        BY <1>7, <3>1
  <2> QED
      BY <2>1, <2>2
<1>9. \A k \in Nat : after[k] \subseteq Known
  <2> DEFINE Bad == {k \in Nat : ~(after[k] \subseteq Known)}
  <2> SUFFICES ASSUME Bad # {}
               PROVE  FALSE
      OBVIOUS
  <2>1. Bad \subseteq Nat
      OBVIOUS
  <2> HIDE DEF Bad
  <2>2. PICK k \in Bad : \A l \in Bad : k <= l
      BY <2>1, LeastExists
  <2> USE DEF Bad
  <2>3. k \in Nat /\ k # 0 /\ ~(after[k] \subseteq Known)
      BY <1>8, <2>2
  <2>4. k - 1 \in Nat /\ k - 1 \notin Bad /\ (k - 1) + 1 = k
      BY <2>2, <2>3
  <2>5. after[k - 1] \subseteq Known
      BY <2>4
  <2>6. after[k] = Step(after[k - 1])
      BY <1>8, <2>4
  <2> QED
      BY <1>6, <2>3, <2>5, <2>6
<1>10. \A k \in Nat : after[k] \subseteq after[k + 1]
    BY <1>2, <1>8
<1>11. /\ Cardinality(Known) \in Nat
       /\ \A j, k \in Nat : j <= k => after[j] \subseteq after[k]
       /\ \E k \in 0 .. Cardinality(Known) : after[k + 1] = after[k]
    BY <1>9, <1>10, ChainSettles DEF Finite
<1>12. PICK k \in 0 .. Cardinality(Known) : after[k + 1] = after[k]
    BY <1>11
<1>13. k \in Nat /\ k <= Cardinality(Known) /\ 0 <= k
    BY <1>11, <1>12
<1>14. Model(after[k], Known)
  <2>1. after[k] \in SUBSET Facts
      BY <1>3, <1>9, <1>13
  <2>2. Supplied \subseteq after[k]
      BY <1>8, <1>11, <1>13
  <2>3. \A i \in DOMAIN ruleSet : Derived(ruleSet[i], i, after[k], Known, input.base) \subseteq after[k]
      BY <1>2, <1>8, <1>12, <1>13
  <2> QED
      BY <2>1, <2>2, <2>3 DEF Model
<1>15. Known \subseteq after[k]
    BY <1>3, <1>9, <1>13, <1>14
<1>16. after[k] \subseteq after[Cardinality(Known)]
    BY <1>11, <1>13
<1> QED
    BY <1>1, <1>9, <1>11, <1>15, <1>16

ModelInv == IInv /\ Ordered /\ Kept /\ Sound /\ Finite

\* A run that converges ends with exactly what follows from the input when NOT is
\* answered by the result itself, whatever the input and the budget, for any rules none of
\* which reads tuples as ground or has a blank node that reads another one's constant: the
\* layers, the order of the passes and the test for a fixpoint make it so
\* (applyStrata, runRuleSet.ts).
THEOREM ConvergesToTheModel == Spec => []ConvergedIsTheModel
<1>1. Init => Ordered /\ Kept /\ Sound /\ Finite
  <2> SUFFICES ASSUME Init
               PROVE  Ordered /\ Kept /\ Sound /\ Finite
      OBVIOUS
  <2>1. Known = {} /\ IsFiniteSet({})
      BY FS_EmptySet DEF Init, Known
  <2> QED
      BY <2>1 DEF Init, Ordered, Kept, Sound, Finite
<1>2. IInv /\ IInv' /\ Ordered /\ Kept /\ Sound /\ Finite /\ [Next]_vars => (Ordered /\ Kept /\ Sound /\ Finite)'
  <2> SUFFICES ASSUME IInv, Ordered, Kept, Sound, Finite, [Next]_vars
               PROVE  (Ordered /\ Kept /\ Sound /\ Finite)'
      OBVIOUS
  <2>1. CASE Next
      BY <2>1, OrderedStep, KeptStep, SoundStep, FiniteStep DEF IInv
  <2>2. CASE UNCHANGED vars
    <3>1. UNCHANGED <<ruleSet, input, phase, layer, order, quads, tuples, active, passes, at, firedOnce,
                      startSignature, executionFailed>>
        BY <2>2 DEF vars, given, plan, data, loop
    <3>2. Ordered'
        BY <3>1 DEF Ordered, Due
    <3>3. Kept'
        BY <3>1 DEF Kept, Regular, Supplied, Known, Finished, ClosedUnder, Signature
    <3>4. Sound'
        BY <3>1 DEF Sound, Regular, Known, Model, Supplied, WrittenFrom
    <3>5. Finite'
        BY <3>1 DEF Finite, Known
    <3> QED
        BY <3>2, <3>3, <3>4, <3>5
  <2> QED
      BY <2>1, <2>2
<1>3. ModelInv => ConvergedIsTheModel
  <2> SUFFICES ASSUME ModelInv, phase = "converged", Regular
               PROVE  Known = Consequences(Known)
      BY DEF ConvergedIsTheModel, Regular, Known
  <2>1. ~executionFailed
      BY DEF ModelInv, Ordered
  <2>2. Supplied \subseteq Known /\ \A i \in DOMAIN ruleSet : ClosedUnder(i)
      BY <2>1 DEF ModelInv, Kept
  <2>3. \A M \in SUBSET Facts : Model(M, Known) => Known \subseteq M
      BY <2>1 DEF ModelInv, Sound
  <2> QED
      BY <2>2, <2>3, ModelIsConsequences DEF ModelInv, IInv
<1> QED
    BY <1>1, <1>2, <1>3, Invariance, PTL DEF Spec, ModelInv

=============================================================================
