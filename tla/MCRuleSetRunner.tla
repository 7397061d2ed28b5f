---------------------------- MODULE MCRuleSetRunner ---------------------------
(* Instances of RuleSetRunner for TLC. *)
EXTENDS RuleSetRunner

P(rel, term) == [rel |-> rel, term |-> term]
On(head, body) ==
    [head |-> {head}, body |-> {body}, not |-> {}, notData |-> {}, data |-> FALSE, once |-> FALSE]

X(rel) == P(rel, Var)

Catalogue == {
    On(X("r"), X("q")),                                             \* a positive cycle with
    On(X("q"), X("r")),                                             \* this one
    [On(X("p"), X("q")) EXCEPT !.not = {X("r")}],                   \* a default
    [On(X("r"), X("q")) EXCEPT !.not = {X("p")}],                   \* and its negative cycle
    On(X("t"), X("q")), On(X("u"), X("t")), On(X("r"), X("u")),     \* through tuples
    [On(P("m", Blank), X("p")) EXCEPT !.once = TRUE],               \* makes a node
    [On(X("p"), X("u")) EXCEPT !.once = TRUE],                      \* assigns a value
    [On(P("p", "b"), X("r")) EXCEPT !.notData = {P("q", "b")}],     \* unless given
    [On(X("r"), X("q")) EXCEPT !.not = {P("p", Blank)}],            \* NOT { [] }
    [On(X("u"), X("q")) EXCEPT !.body = @ \cup {P("m", Blank)}],    \* [] in a body
    [On(X("r"), X("q")) EXCEPT !.data = TRUE],                      \* of the input only
    [On(X("r"), X("q")) EXCEPT !.notData = {X("t")}]}               \* tuples as ground

MCRuleSets == {<< >>} \cup {s \in Catalogue \X Catalogue \X Catalogue : s[1] # s[2] /\ s[2] # s[3] /\ s[1] # s[3]}

MCInputs == {
    [base |-> {Given("q", "a")}, block |-> {}, seeds |-> {}],
    [base |-> {Given("q", "a")}, block |-> {Given("q", "b")}, seeds |-> {Given("t", "b")}],
    [base |-> {Given("r", "a"), Given("q", "b")}, block |-> {Given("m", "a")}, seeds |-> {Given("t", "a")}]}

MCRelations == {"p", "q", "r", "m", "t", "u"}
MCTuples == {"t", "u"}
=============================================================================
