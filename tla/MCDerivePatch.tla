---------------------------- MODULE MCDerivePatch ----------------------------
(* Instances of DerivePatch for TLC: three quads, every store over them, and   *)
(* programs of one to three of these operations.                               *)
EXTENDS DerivePatch

CONSTANTS qa, qb, qc

\* An operation that yields every quad once, and one whose second block yields
\* the quads of `twice` again.
Once(form, effect) == [form |-> form, effect |-> effect, twice |-> Ground({}, {})]
Repeated(form, effect, twice) == [form |-> form, effect |-> effect, twice |-> twice]

MCStep ==
    [insertA |-> Once("ground", Ground({}, {qa})),
     deleteA |-> Once("ground", Ground({qa}, {})),
     insertAA |-> Repeated("ground", Ground({}, {qa}), Ground({}, {qa})),
     aToB |-> Once("pattern", Modify({qa}, {qa}, {qb})),
     rewriteB |-> Once("pattern", Modify({qb}, {qa, qb}, {qb, qc})),
     aDropsB |-> Once("pattern", Modify({qa}, {qb}, {})),
     clearAB |-> Repeated("pattern", DeleteMatching({qa, qb}), DeleteMatching({qa})),
     moveAC |-> Once("enumerated", MoveQuads({qa}, {qc}, [q \in {qa} |-> qc])),
     countCA |-> Once("counted", MoveQuads({qc}, {qa}, [q \in {qc} |-> qa]))]

Sequences(names, most) == UNION {[1 .. n -> names] : n \in 1 .. most}

\* With qb carrying a blank node: no ground operation names it, and a template
\* puts it only where its WHERE found it (another one would be another node).
BlankNames == {"insertA", "deleteA", "rewriteB", "aDropsB", "clearAB", "moveAC", "countCA"}

MCBlanks == {{}, {qb}}

MCPrograms == [b \in MCBlanks |-> Sequences(IF b = {} THEN DOMAIN MCStep ELSE BlankNames, 3)]

=============================================================================
