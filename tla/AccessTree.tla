----------------------------- MODULE AccessTree -----------------------------
(***************************************************************************)
(* KeyGeneratorService: the CP-ABE scheme of bswabe (keygen, enc, dec), and *)
(* the policies the page createPolicy.html writes for it.                  *)
(*                                                                         *)
(* A policy is drawn with blocks, turned into the words of an infix text,  *)
(* converted to a postfix text, saved, parsed into a tree of threshold     *)
(* gates, and used to share the secret of a ciphertext among its leaves.   *)
(* The ciphertext is written to bytes and read back, and opened with a key *)
(* made from the attributes of a user.                                     *)
(*                                                                         *)
(* The groups are modelled by their exponents: an element g^x is x modulo  *)
(* the prime P, a product is a sum, a power a product, and the pairing of  *)
(* x and y is x * y.                                                       *)
(***************************************************************************)
EXTENDS Integers, SequencesExt

CONSTANTS
  P,           \* the order of the groups, a prime
  Formulas,    \* what may be drawn, see Attribute and Block
  Users,       \* the attributes of the users, as words in the order LDAP gives
  OfNamed,     \* attributes whose text contains "of"
  Bare,        \* words of a user's attributes that have no colon
  Role,        \* the attribute the page adds to every policy
  Hash,        \* SHA-1 of an attribute, as an exponent
  Master,      \* the master key, alpha and beta
  Messages,    \* bound: messages and secrets enc may draw
  Coefs,       \* bound: coefficients randPoly may draw
  Blinds       \* bound: exponents keygen may draw

VARIABLES
  pc,          \* what was done last
  formula,     \* the blocks drawn
  policy,      \* the postfix text that was saved
  message,     \* what enc drew for the message
  cipher,      \* the ciphertext, as bytes
  key,         \* the private key
  out          \* what dec returned

vars == <<pc, formula, policy, message, cipher, key, out>>

(***************************************************************************)
(* What is drawn: an attribute block, or a condition block around others.  *)
(***************************************************************************)
Attribute(a) == [op |-> "", attr |-> a, blocks |-> <<>>]
Block(op, blocks) == [op |-> op, attr |-> "", blocks |-> blocks]

\* The words of the infix text, each with the brackets it carries.
Word(text) == [open |-> 0, text |-> text, close |-> 0]

RECURSIVE Words(_)
Words(f) ==
  IF f.op = "" THEN <<Word(f.attr)>>
  ELSE LET inner == FoldLeft(LAMBDA ws, b : IF ws = <<>> THEN Words(b)
                                            ELSE ws \o <<Word(f.op)>> \o Words(b),
                             <<>>, f.blocks)
           opened == [inner EXCEPT ![1].open = @ + 1]
       IN  [opened EXCEPT ![Len(inner)].close = @ + 1]

(***************************************************************************)
(* convert: from the infix words to the postfix tokens.  The map of the    *)
(* code, from the depth of a bracket to what is known of it, is a stack:   *)
(* an entry is reset when its bracket closes.                              *)
(***************************************************************************)
Leaf(a) == [k |-> 1, n |-> 0, attr |-> a]
Gate(k, n) == [k |-> k, n |-> n, attr |-> ""]

Bracket == [op |-> "", args |-> <<>>, count |-> 0]

\* Mutant: a bracket is not an argument of the bracket around it.
OpenedUncounted(st, w) ==
  IF w.open = 0 THEN st
  ELSE [open |-> [i \in 1 .. Len(st.open) |->
                    IF i = Len(st.open) THEN [st.open[i] EXCEPT !.args = <<>>]
                    ELSE st.open[i]] \o [i \in 1 .. w.open |-> Bracket],
        result |-> IF st.open = <<>> THEN st.result ELSE st.result \o Last(st.open).args]

\* The brackets a word opens.  Those already open, and all but the last one
\* opened here, get one more argument: the bracket inside them.
Opened(st, w) ==
  LET counted == [i \in 1 .. Len(st.open) |->
                    IF i = Len(st.open)
                    THEN [st.open[i] EXCEPT !.args = <<>>, !.count = @ + 1]
                    ELSE st.open[i]]
      new == [i \in 1 .. w.open |->
                [Bracket EXCEPT !.count = IF i < w.open THEN 1 ELSE 0]]
  IN  IF w.open = 0 THEN st
      ELSE [open |-> counted \o new,
            result |-> IF st.open = <<>> THEN st.result
                       ELSE st.result \o Last(st.open).args]

\* One bracket closes: what is left of its arguments, and its operator.
Closed(st) ==
  LET b == Last(st.open)
      gate == IF b.op = "AND" THEN Gate(b.count, b.count) ELSE Gate(1, b.count)
  IN  [open |-> Front(st.open), result |-> st.result \o b.args \o <<gate>>]

Argument(st, w) ==
  LET top == Len(st.open)
      put == [st EXCEPT !.open[top].args = Append(@, Leaf(w.text)),
                        !.open[top].count = @ + 1]
  IN  FoldLeft(LAMBDA s, i : Closed(s), put, [i \in 1 .. w.close |-> i])

Converted(st, w) ==
  LET here == Opened(st, w)
  IN  IF w.text \in {"AND", "OR"}
      THEN [here EXCEPT !.open[Len(here.open)].op = w.text]
      ELSE Argument(here, w)

Convert(words) ==
  IF Len(words) = 1 THEN <<Leaf(words[1].text)>>
  ELSE FoldLeft(Converted, [open |-> <<>>, result |-> <<>>], words).result

\* getPolicy: everyone with the role of the analysis service may open a video.
GetPolicy(f) == Convert(Words(f)) \o <<Leaf(Role), Gate(1, 2)>>

(***************************************************************************)
(* parsePolicyPostfix, with a stack of trees.  It gives null for what is no *)
(* policy, which enc dereferences, and throws for "of" without two numbers. *)
(***************************************************************************)
Node(token, children) == [k |-> token.k, attr |-> token.attr, children |-> children]

Pushed(st, token) ==
  LET n == token.n
      size == Len(st.stack)
      isLeaf == token.attr # ""
      refused == IF isLeaf THEN token.attr \in OfNamed
                 ELSE token.k < 1 \/ token.k > n \/ n = 1 \/ n > size
  IN  CASE ~st.ok \/ refused -> [st EXCEPT !.ok = FALSE]
        [] isLeaf -> [st EXCEPT !.stack = Append(@, Node(token, <<>>))]
        [] OTHER -> [st EXCEPT !.stack =
                       Append(SubSeq(@, 1, size - n), Node(token, SubSeq(@, size - n + 1, size)))]

Parse(tokens) == FoldLeft(Pushed, [stack |-> <<>>, ok |-> TRUE], tokens)
IsPolicy(tokens) == Parse(tokens).ok /\ Len(Parse(tokens).stack) = 1
ParsePolicyPostfix(tokens) == Head(Parse(tokens).stack)

(***************************************************************************)
(* enc: share the secret s among the leaves of the tree.                   *)
(***************************************************************************)
RECURSIVE Power(_, _)
Power(x, n) == IF n = 0 THEN 1 ELSE (x * Power(x, n - 1)) % P
Invert(x) == Power(x % P, P - 2)

RECURSIVE Gates(_, _)
Gates(p, path) ==
  IF p.children = <<>> THEN {}
  ELSE {<<path, p.k>>} \cup
       UNION {Gates(p.children[i], Append(path, i)) : i \in DOMAIN p.children}

\* randPoly: every gate k of n draws a polynomial of degree k - 1.
RandPolys(p) ==
  LET slots == UNION {{g[1]} \X (1 .. g[2] - 1) : g \in Gates(p, <<>>)}
  IN  [slots -> Coefs]

EvalPoly(coefs, path, k, e, x) ==
  FoldFunction(LAMBDA a, b : (a + b) % P, e,
               [i \in 1 .. k - 1 |-> coefs[<<path, i>>] * Power(x, i)])

RECURSIVE FillPolicy(_, _, _, _)
FillPolicy(p, path, e, coefs) ==
  [k |-> p.k, attr |-> p.attr,
   c |-> IF p.children = <<>> THEN e ELSE 0,
   cp |-> IF p.children = <<>> THEN (Hash[p.attr] * e) % P ELSE 0,
   children |-> [i \in DOMAIN p.children |->
                   FillPolicy(p.children[i], Append(path, i),
                              EvalPoly(coefs, path, p.k, e, i), coefs)]]

(***************************************************************************)
(* bswabeCphSerialize and bswabeCphUnserialize: the tree in preorder.      *)
(***************************************************************************)
RECURSIVE SerializePolicy(_)
SerializePolicy(p) ==
  <<p.k, Len(p.children)>> \o
  IF p.children = <<>> THEN <<p.attr, p.c, p.cp>>
  ELSE FlattenSeq([i \in DOMAIN p.children |-> SerializePolicy(p.children[i])])

RECURSIVE UnserializePolicy(_, _)
UnserializePolicy(bytes, offset) ==
  LET n == bytes[offset + 1]
      Child(read, i) ==
        LET child == UnserializePolicy(bytes, read.offset)
        IN  [p |-> Append(read.p, child.p), offset |-> child.offset]
      children == FoldLeft(Child, [p |-> <<>>, offset |-> offset + 2], [i \in 1 .. n |-> i])
  IN  IF n = 0
      THEN [p |-> [k |-> bytes[offset], attr |-> bytes[offset + 2], children |-> <<>>,
                   c |-> bytes[offset + 3], cp |-> bytes[offset + 4]],
            offset |-> offset + 5]
      ELSE [p |-> [k |-> bytes[offset], attr |-> "", children |-> children.p,
                   c |-> 0, cp |-> 0],
            offset |-> children.offset]

CphUnserialize(bytes) ==
  [cs |-> bytes[1], c |-> bytes[2], p |-> UnserializePolicy(bytes, 3).p]

(***************************************************************************)
(* dec: check the tree, pick the leaves to use, combine their shares.      *)
(***************************************************************************)
\* The first component of the key for an attribute.
Component(p, prv) == SelectInSeq(prv.comps, LAMBDA comp : comp.attr = p.attr)

RECURSIVE CheckSatisfy(_, _)
CheckSatisfy(p, prv) ==
  IF p.children = <<>> THEN Component(p, prv) # 0
  ELSE Cardinality({i \in DOMAIN p.children : CheckSatisfy(p.children[i], prv)}) >= p.k

\* pickSatisfyMinLeaves: the children sorted by the leaves they need, of which
\* the first k that are satisfied are used.  A child that is not satisfied was
\* not visited, so that its count is 0.
RECURSIVE MinLeaves(_, _)
\* Mutant: the first children that are satisfied, unsorted.
PickUnsorted(p, prv) ==
  SubSeq(SelectSeq([i \in DOMAIN p.children |-> i],
                   LAMBDA i : CheckSatisfy(p.children[i], prv)), 1, p.k)

PickSatisfyMinLeaves(p, prv) ==
  LET need == [i \in DOMAIN p.children |->
                 IF CheckSatisfy(p.children[i], prv) THEN MinLeaves(p.children[i], prv) ELSE 0]
      sorted == SortSeq([i \in DOMAIN p.children |-> i],
                        LAMBDA i, j : need[i] < need[j] \/ (need[i] = need[j] /\ i < j))
      usable == SelectSeq(sorted, LAMBDA i : CheckSatisfy(p.children[i], prv))
  IN  SubSeq(usable, 1, p.k)

MinLeaves(p, prv) ==
  IF p.children = <<>> THEN 1
  ELSE FoldLeft(LAMBDA sum, i : sum + MinLeaves(p.children[i], prv), 0,
                PickSatisfyMinLeaves(p, prv))

\* Mutant: the sign of the numerator is lost.
LagrangeCoefPositive(satl, i) ==
  FoldLeft(LAMBDA r, j : IF j = i THEN r ELSE (r * j * Invert(i - j)) % P, 1, satl)

LagrangeCoef(satl, i) ==
  FoldLeft(LAMBDA r, j : IF j = i THEN r ELSE (((r * (0 - j)) % P) * Invert(i - j)) % P,
           1, satl)

RECURSIVE DecNodeFlatten(_, _, _)
DecNodeFlatten(exp, p, prv) ==
  LET comp == prv.comps[Component(p, prv)]
      satl == PickSatisfyMinLeaves(p, prv)
  IN  IF p.children = <<>>
      THEN ((p.c * comp.d - p.cp * comp.dp) * exp) % P
      ELSE FoldLeft(LAMBDA r, i :
                      (r + DecNodeFlatten((exp * LagrangeCoef(satl, i)) % P,
                                          p.children[i], prv)) % P,
                    0, satl)

(***************************************************************************)
(* The actions.                                                            *)
(***************************************************************************)
None == <<>>

Init ==
  /\ pc = "start"
  /\ formula = Attribute(Role)
  /\ policy = None /\ message = None /\ cipher = None /\ key = None /\ out = None

\* The user confirms a drawing that the parser of the page accepts.
Save ==
  /\ pc = "start"
  /\ \E f \in Formulas : formula' = f /\ policy' = GetPolicy(f)
  /\ pc' = "saved"
  /\ UNCHANGED <<message, cipher, key, out>>

\* enc: the saved policy protects the message m.
Encrypt ==
  LET p == ParsePolicyPostfix(policy)
  IN  /\ pc = "saved"
      /\ IsPolicy(policy)
      /\ \E m, s \in Messages, coefs \in RandPolys(p) :
           /\ message' = m
           /\ cipher' = <<(m + Master.alpha * s) % P, (Master.beta * s) % P>>
                          \o SerializePolicy(FillPolicy(p, <<>>, s, coefs))
      /\ pc' = "encrypted"
      /\ UNCHANGED <<formula, policy, key, out>>

EncryptRefused ==
  /\ pc = "saved"
  /\ ~IsPolicy(policy)
  /\ pc' = "unusable"
  /\ UNCHANGED <<formula, policy, message, cipher, key, out>>

\* keygen: a component for every attribute of the user.
Keygen ==
  /\ pc = "encrypted"
  /\ \E u \in Users :
       /\ \A i \in DOMAIN u : u[i] \notin Bare
       /\ \E r \in Blinds, rp \in [DOMAIN u -> Blinds] :
            key' = [d |-> ((Master.alpha + r) * Invert(Master.beta)) % P,
                    comps |-> [i \in DOMAIN u |->
                                 [attr |-> u[i], d |-> (r + Hash[u[i]] * rp[i]) % P,
                                  dp |-> rp[i]]]]
  /\ pc' = "keyed"
  /\ UNCHANGED <<formula, policy, message, cipher, out>>

\* parseAttribute calls System.exit when a word has no colon.
KeygenExits ==
  /\ pc = "encrypted"
  /\ \E u \in Users : \E i \in DOMAIN u : u[i] \in Bare
  /\ pc' = "exited"
  /\ UNCHANGED <<formula, policy, message, cipher, key, out>>

Decrypt ==
  LET cph == CphUnserialize(cipher)
      t == DecNodeFlatten(1, cph.p, key)
  IN  /\ pc = "keyed"
      /\ IF CheckSatisfy(cph.p, key)
         THEN pc' = "opened" /\ out' = (cph.cs + t - cph.c * key.d) % P
         ELSE pc' = "locked" /\ UNCHANGED out
      /\ UNCHANGED <<formula, policy, message, cipher, key>>

Next == Save \/ Encrypt \/ EncryptRefused \/ Keygen \/ KeygenExits \/ Decrypt

Spec == Init /\ [][Next]_vars

(***************************************************************************)
(* Reference definitions: what the drawing means.                          *)
(***************************************************************************)
RECURSIVE Meets(_, _)
Meets(f, attrs) ==
  CASE f.op = "" -> f.attr \in attrs
    [] f.op = "AND" -> \A i \in DOMAIN f.blocks : Meets(f.blocks[i], attrs)
    [] f.op = "OR" -> \E i \in DOMAIN f.blocks : Meets(f.blocks[i], attrs)

KeyAttrs == {key.comps[i].attr : i \in DOMAIN key.comps}

RECURSIVE AttrsOf(_)
AttrsOf(f) ==
  IF f.op = "" THEN {f.attr} ELSE UNION {AttrsOf(f.blocks[i]) : i \in DOMAIN f.blocks}

\* A condition block around one block only.
RECURSIVE HasLoneBlock(_)
HasLoneBlock(f) ==
  /\ f.op # ""
  /\ Len(f.blocks) = 1 \/ \E i \in DOMAIN f.blocks : HasLoneBlock(f.blocks[i])

\* The leaves a tree needs, over every choice of its children (0: not satisfied).
RECURSIVE Fewest(_, _)
Fewest(p, attrs) ==
  LET need == [i \in DOMAIN p.children |-> Fewest(p.children[i], attrs)]
      usable == {i \in DOMAIN need : need[i] > 0}
  IN  CASE p.children = <<>> -> (IF p.attr \in attrs THEN 1 ELSE 0)
        [] Cardinality(usable) < p.k -> 0
        [] OTHER -> Min({MapThenSumSet(LAMBDA i : need[i], S) : S \in kSubset(p.k, usable)})

(***************************************************************************)
(* Properties.                                                             *)
(***************************************************************************)
\* A key opens a ciphertext exactly when its attributes meet the policy that
\* was drawn, or have the role of the analysis service; and what comes out of
\* the pairings and the interpolation is the message (Bswabe.dec).
OpensForItsFormula ==
  LET entitled == Meets(formula, KeyAttrs) \/ Role \in KeyAttrs
  IN  /\ pc = "opened" => entitled /\ out = message
      /\ pc = "locked" => ~entitled

\* What the page saves can be used for encryption, but for a condition block
\* around a single block inside another one, and for an attribute whose text
\* contains "of", both of which parsePolicyPostfix refuses.
UnusableForAReason ==
  LET marked == AttrsOf(formula) \cap OfNamed # {}
      lone == \/ Len(Words(formula)) > 1 /\ HasLoneBlock(formula)
  IN  /\ pc = "unusable" => marked \/ lone
      /\ pc \in {"encrypted", "keyed", "opened", "locked"} => ~marked /\ ~lone

\* Decryption pairs as few leaves as the policy allows, which the greedy choice
\* among the sorted children has to achieve at every gate.
UsesFewestLeaves ==
  pc = "opened" =>
    LET p == CphUnserialize(cipher).p
    IN  MinLeaves(p, key) = Fewest(p, KeyAttrs)

=============================================================================
