------------------------------- MODULE Stratify -------------------------------
(***************************************************************************)
(* Layers of a rule set (packages/srl/src/stratify.ts): which rule reads   *)
(* what another one writes, and the least layer each may run in so that    *)
(* what it negates, or reads only once, is complete before it runs.        *)
(*                                                                         *)
(* A triple or a tuple is a relation with one argument; a rule set is the  *)
(* sequence of its rules, and a rule is named by its place in it.  A       *)
(* pattern's argument is a constant, Var (a rule has one variable), or     *)
(* Blank, written []: in a head a node made by each firing, in a body a    *)
(* variable of its own (bnodesAsVariables), which a node, a constant or a  *)
(* value may fill.                                                         *)
(***************************************************************************)
EXTENDS Integers, Sequences, FiniteSetsExt

CONSTANTS
    Relations,    \* of triples and of tuples
    Constants,    \* the terms of the input
    Var, Blank

ASSUME TermAssumption == Var \notin Constants /\ Blank \notin Constants /\ Var # Blank

Pattern == [rel : Relations, term : Constants \cup {Var, Blank}]

\* A rule's head, what its body asks for, what stands under NOT and under NOT
\* DATA, whether the whole body is WHERE DATA, and whether it must run once: its
\* head makes a node, or its body assigns a value.
Rule == [head : SUBSET Pattern, body : SUBSET Pattern, not : SUBSET Pattern,
         notData : SUBSET Pattern, data : BOOLEAN, once : BOOLEAN]

\* termEquals: a variable may stand for anything.  A blank node is not taken for one
\* here, also where it runs as one: it unifies with a variable or a blank node only.
Unify(a, b) == a.rel = b.rel /\ (a.term = b.term \/ Var \in {a.term, b.term})

\* What a rule of the set depends on another for.  Ground patterns read what no
\* rule writes.
DependsOn(patterns, rule) == \E p \in patterns, h \in rule.head : Unify(p, h)

\* What escapes it: a blank node of a body finds the constant of a head, and no
\* dependency says so.
BlankReadsConstant(set) ==
    \E i, j \in DOMAIN set : ~set[i].data /\
        \E p \in set[i].body \cup set[i].not, h \in set[j].head :
            p.rel = h.rel /\ p.term = Blank /\ h.term \in Constants

Label(reader, writer) ==
    IF ~reader.data /\ DependsOn(reader.not, writer) THEN "negative"
    ELSE IF ~reader.data /\ DependsOn(reader.body, writer)
         THEN (IF reader.once THEN "closed" ELSE "positive")
    ELSE "none"

\* The reader may share a layer with what it reads positively, and is strictly
\* later than the rest.
Lowest(label, layer) ==
    CASE label = "none" -> 0 [] label = "positive" -> layer [] OTHER -> layer + 1

\* assignStrata raises the reader of an edge until no edge asks for more, or until
\* one asks for more than there can be.  A pass looks at all edges at once here:
\* the order in which they are looked at does not change where the layers settle.
Pass(set, layer) ==
    [i \in DOMAIN set |->
        Max({layer[i]} \cup {Lowest(Label(set[i], set[j]), layer[j]) : j \in DOMAIN set})]
TooHigh(set, layer) == \E i \in DOMAIN set : layer[i] > Len(set) + 1

\* detectNonStratifiableCycles: a strongly connected group with a negative edge
\* inside it, or with a rule that runs once.
Reaches(edges, i, j) ==
    \A S \in SUBSET UNION {{e[1], e[2]} : e \in edges} :
        (\A e \in edges : e[1] \in S \cup {i} => e[2] \in S) => j \in S

BadCycle(set) ==
    LET edges == {e \in (DOMAIN set) \X (DOMAIN set) : Label(set[e[1]], set[e[2]]) # "none"}
    IN  \E e \in edges :
           /\ set[e[1]].once \/ Label(set[e[1]], set[e[2]]) = "negative"
           /\ e[1] = e[2] \/ Reaches(edges, e[2], e[1])

=============================================================================
