---------------------------- MODULE MCAccessTree ----------------------------
(* A small instance of AccessTree: the drawings and the exponents.          *)
EXTENDS AccessTree

CONSTANTS Names, Odd

Leaves == {Attribute(a) : a \in Names}
Around(n, S) == {Block(op, bs) : op \in {"AND", "OR"}, bs \in [1 .. n -> S]}

\* Up to three attributes in a block, pairs of such blocks, a block in a block
\* in a block, and a few drawings with an attribute named "...of...".
Flat == Leaves \cup Around(1, Leaves) \cup Around(2, Leaves)
Pairs == Around(2, Flat)
Deep == {Block(op, <<x, y>>) : op \in {"AND", "OR"}, x \in Around(1, Flat) \cup Around(2, Around(2, Leaves)), y \in Leaves}
Drawn == Flat \cup Around(3, Leaves) \cup Around(1, Flat) \cup Pairs \cup Deep
           \cup {Attribute(Odd)} \cup {Block("OR", <<x, Attribute(Odd)>>) : x \in Flat}

Hashes == [a \in Names \cup {Odd, Role} |-> IF a = Role THEN 5 ELSE 2]
Keys == {<<a>> : a \in Names} \cup {<<"b:2", "a:1">>, <<Role>>, <<"bare", Role>>}
AlphaBeta == [alpha |-> 2, beta |-> 3]
=============================================================================
