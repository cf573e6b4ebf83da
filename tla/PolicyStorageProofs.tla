------------------------- MODULE PolicyStorageProofs -------------------------
EXTENDS PolicyStorage, FiniteSetTheorems, SequenceTheorems, WellFoundedInduction, TLAPS

(***************************************************************************)
(* Type correctness.  The values a handler holds are tied to the graph and *)
(* to the step it takes next; the graph only gains vertices, so what is    *)
(* said of the other handlers stays true when one handler moves.           *)
(***************************************************************************)
LastOf(s) == s[Len(s)]

\* The vertex request r stores when its local variables are l.
Written(r, l) ==
  IF r \in MakeFolders THEN Directory(l.name) ELSE Policy(l.name, l.version, r)

\* Which request can be where, and with what left to look up.
Walking(r, s, l) ==
  /\ s \in {"valid", "read", "create", "link", "unlink", "relink"} => r \in Posts
  /\ s \in {"read", "unlink", "relink"} => r \in Updates
  /\ s = "valid" => r \notin Updates
  /\ r \in Gets /\ s \notin {"new", "done"} => l.want = "element"
  /\ r \in Posts => l.want # "element"
  /\ l.want = "policy" => r \in Updates
  /\ r \in Updates /\ s \notin {"new", "done"} => l.path # <<>>
  /\ s = "son" => l.todo # <<>>
  /\ s = "new" => l.want = "father"
  /\ l.want = "policy" /\ s \in {"root", "rootMake"} => l.todo = l.path
  /\ l.want = "policy" /\ s = "son" => LastOf(l.todo) = LastOf(l.path)

\* What an update has found and a save has stored, in the vertices V.
Holding(V, r, s, l) ==
  /\ {l.at, l.father, l.old, l.node} \subseteq {NoRid} \cup DOMAIN V
  /\ r \in Updates /\ s \in {"read", "create", "link", "unlink", "relink"} =>
       l.old \in DOMAIN V /\ V[l.old].name = LastOf(l.path)
  /\ r \in Updates /\ s \in {"create", "link", "unlink", "relink"} =>
       l.version = V[l.old].version + 1
  /\ s \in {"link", "unlink", "relink"} => l.node \in DOMAIN V /\ V[l.node] = Written(r, l)
  /\ l.version >= FirstVersion

Codes == {0, 200, 201, 400, 404, 409, 500}

RequestInv ==
  /\ pc \in [Req -> Steps]
  /\ loc \in [Req -> Locals]
  /\ \A r \in Req : Walking(r, pc[r], loc[r])
  /\ \A r \in Req : Holding(vertices, r, pc[r], loc[r])

AnswerInv ==
  /\ status \in [Req -> Codes]
  /\ faults \in Nat /\ crashes \in Nat

TypeInv == GraphTypeOK /\ RequestInv /\ AnswerInv

\* The vertices after a step: those before it, and maybe another.
Grows ==
  /\ DOMAIN vertices \subseteq DOMAIN vertices'
  /\ \A n \in DOMAIN vertices : vertices'[n] = vertices[n]

LEMMA TypeOfVertices ==
  ASSUME GraphTypeOK
  PROVE  /\ \A n \in DOMAIN vertices : vertices[n] \in Record
         /\ Live = DOMAIN vertices
         /\ DOMAIN vertices \subseteq Nat /\ NoRid \in Nat /\ NoRid \notin DOMAIN vertices
BY DEF GraphTypeOK, Live, NoRid

LEMMA VertexAdded ==
  ASSUME GraphTypeOK, NEW v \in Record, CreateVertex(v)
  PROVE  /\ GraphTypeOK' /\ Grows
         /\ DOMAIN vertices' = DOMAIN vertices \cup {NewRid}
         /\ NewRid \in Nat /\ NewRid # NoRid /\ NewRid \notin DOMAIN vertices
         /\ vertices'[NewRid] = v
         /\ edges' = edges
<1>1. /\ vertices' \in Seq(Record)
      /\ DOMAIN vertices' = DOMAIN vertices \cup {NewRid}
      /\ NewRid \in Nat /\ NewRid # NoRid /\ NewRid \notin DOMAIN vertices
      /\ removed' = removed /\ edges' = edges
      /\ \A n \in DOMAIN vertices : vertices'[n] = vertices[n]
      /\ vertices'[NewRid] = v
  BY DEF GraphTypeOK, CreateVertex, NewRid, NoRid
<1> QED BY <1>1 DEF GraphTypeOK, Grows

LEMMA EdgeAdded ==
  ASSUME GraphTypeOK, NEW f, NEW s, CreateEdge(f, s)
  PROVE  /\ GraphTypeOK' /\ Grows
         /\ vertices' = vertices /\ removed' = removed
         /\ edges' = edges \cup {<<f, s>>}
         /\ f \in Live /\ s \in Live
BY DEF GraphTypeOK, CreateEdge, CanLink, Live, Grows

LEMMA EdgeDeleted ==
  ASSUME GraphTypeOK, NEW f, NEW s, DeleteEdge(f, s)
  PROVE  /\ GraphTypeOK' /\ Grows
         /\ vertices' = vertices /\ removed' = removed
         /\ edges' = edges \ {<<f, s>>}
BY DEF GraphTypeOK, DeleteEdge, Grows

LEMMA GraphStays ==
  ASSUME GraphTypeOK, UNCHANGED graphVars
  PROVE  GraphTypeOK' /\ Grows /\ vertices' = vertices /\ edges' = edges /\ removed' = removed
BY DEF GraphTypeOK, graphVars, Grows

LEMMA HoldingGrows ==
  ASSUME GraphTypeOK, Grows, NEW r, NEW s, NEW l \in Locals, Holding(vertices, r, s, l)
  PROVE  Holding(vertices', r, s, l)
BY DEF Grows, Holding

\* What a command does to the bounds of the model.
LEMMA Counting ==
  ASSUME AnswerInv, Works \/ Fails
  PROVE  faults' \in Nat /\ crashes' \in Nat
BY DEF AnswerInv, Works, Fails, envVars

\* The handler of r goes on to step s with the local variables l.
LEMMA Moves ==
  ASSUME TypeInv, GraphTypeOK', Grows, Works \/ Fails,
         NEW r \in Req, NEW s \in Steps, NEW l \in Locals,
         pc' = [pc EXCEPT ![r] = s], loc' = [loc EXCEPT ![r] = l],
         status' \in [Req -> Codes],
         Walking(r, s, l), Holding(vertices', r, s, l)
  PROVE  TypeInv'
<1>1. pc' \in [Req -> Steps] /\ loc' \in [Req -> Locals]
  BY DEF TypeInv, RequestInv
<1>2. pc'[r] = s /\ loc'[r] = l
  BY DEF TypeInv, RequestInv
<1>3. ASSUME NEW q \in Req PROVE Walking(q, pc'[q], loc'[q])
  <2>1. CASE q = r BY <2>1, <1>2
  <2>2. CASE q # r
    <3>1. pc'[q] = pc[q] /\ loc'[q] = loc[q]
      BY <2>2 DEF TypeInv, RequestInv
    <3> QED BY <3>1 DEF TypeInv, RequestInv
  <2> QED BY <2>1, <2>2
<1>4. ASSUME NEW q \in Req PROVE Holding(vertices', q, pc'[q], loc'[q])
  <2>1. CASE q = r BY <2>1, <1>2
  <2>2. CASE q # r
    <3>1. pc'[q] = pc[q] /\ loc'[q] = loc[q] /\ loc[q] \in Locals
      BY <2>2 DEF TypeInv, RequestInv
    <3>2. Holding(vertices, q, pc[q], loc[q])
      BY DEF TypeInv, RequestInv
    <3> QED BY <3>1, <3>2, HoldingGrows DEF TypeInv
  <2> QED BY <2>1, <2>2
<1>5. AnswerInv'
  BY Counting DEF TypeInv, AnswerInv
<1>6. RequestInv'
  BY <1>1, <1>3, <1>4 DEF RequestInv
<1> QED BY <1>5, <1>6 DEF TypeInv

LEMMA LocalsOf ==
  ASSUME TypeInv, NEW r \in Req
  PROVE  /\ loc[r] \in Locals /\ pc[r] \in Steps
         /\ Walking(r, pc[r], loc[r]) /\ Holding(vertices, r, pc[r], loc[r])
         /\ loc = [loc EXCEPT ![r] = loc[r]]
         /\ status \in [Req -> Codes]
BY DEF TypeInv, RequestInv, AnswerInv

\* The handler of r goes on to step s, its local variables as they are.
LEMMA Stays ==
  ASSUME TypeInv, GraphTypeOK', Grows, Works \/ Fails,
         NEW r \in Req, NEW s \in Steps, Goto(r, s), UNCHANGED loc,
         Walking(r, s, loc[r]), Holding(vertices', r, s, loc[r])
  PROVE  TypeInv'
BY LocalsOf, Moves DEF Goto

\* The handler of r answers.
LEMMA Replies ==
  ASSUME TypeInv, GraphTypeOK', Grows, Works \/ Fails,
         NEW r \in Req, NEW code \in Codes, Reply(r, code),
         NEW l \in Locals, loc' = [loc EXCEPT ![r] = l],
         l = [loc[r] EXCEPT !.cut = l.cut]
  PROVE  TypeInv'
<1>1. /\ loc[r] \in Locals
      /\ Walking(r, pc[r], loc[r]) /\ Holding(vertices, r, pc[r], loc[r])
      /\ status \in [Req -> Codes]
  BY LocalsOf
<1>2. /\ l.want = loc[r].want /\ l.path = loc[r].path /\ l.version = loc[r].version
      /\ l.at = loc[r].at /\ l.father = loc[r].father
      /\ l.old = loc[r].old /\ l.node = loc[r].node
  BY <1>1 DEF Locals
<1>3. Walking(r, "done", l)
  BY <1>1, <1>2 DEF Walking
<1>4. Holding(vertices', r, "done", l)
  BY <1>1, <1>2 DEF Holding, Grows
<1>5. status' \in [Req -> Codes] /\ pc' = [pc EXCEPT ![r] = "done"] /\ "done" \in Steps
  BY <1>1 DEF Reply, Steps
<1> QED BY <1>3, <1>4, <1>5, Moves

LEMMA RepliesAsItIs ==
  ASSUME TypeInv, GraphTypeOK', Grows, Works \/ Fails,
         NEW r \in Req, NEW code \in Codes, Reply(r, code), UNCHANGED loc
  PROVE  TypeInv'
<1>1. loc[r] \in Locals /\ loc' = [loc EXCEPT ![r] = loc[r]]
  BY LocalsOf
<1>2. loc[r] = [loc[r] EXCEPT !.cut = loc[r].cut]
  BY <1>1 DEF Locals
<1> QED BY <1>1, <1>2, Replies

LEMMA PathAndName ==
  ASSUME NEW s \in Seq(STRING), NEW x \in STRING
  PROVE  Append(s, x) \in Seq(STRING) /\ Append(s, x) # <<>>
BY AppendProperties, Zenon

\* The names left to look up after the first of several.
LEMMA TailOfPath ==
  ASSUME NEW s \in Seq(STRING), s # <<>>
  PROVE  /\ Tail(s) \in Seq(STRING)
         /\ s # <<Head(s)>> => Tail(s) # <<>> /\ LastOf(Tail(s)) = LastOf(s)
         /\ Len(s) = 1 => s = <<Head(s)>>
         /\ Len(s) > 1 => s # <<Head(s)>>
         /\ s = <<Head(s)>> => LastOf(s) = Head(s)
<1>1. /\ Len(s) \in Nat /\ Len(s) > 0
      /\ Tail(s) \in Seq(STRING) /\ Len(Tail(s)) = Len(s) - 1
      /\ \A i \in 1 .. Len(s) - 1 : Tail(s)[i] = s[i + 1]
      /\ Head(s) = s[1]
  OBVIOUS
<1>2. Len(s) = 1 => s = <<Head(s)>>
  BY <1>1
<1>3. Len(s) > 1 => Tail(s) # <<>> /\ s # <<Head(s)>>
  BY <1>1
<1>4. Len(s) > 1 => LastOf(Tail(s)) = LastOf(s)
  BY <1>1 DEF LastOf
<1>5. s = <<Head(s)>> => LastOf(s) = Head(s)
  BY <1>1 DEF LastOf
<1> QED BY <1>1, <1>2, <1>3, <1>4, <1>5

\* The lookup of r ends with vertex n.
LEMMA FoundMoves ==
  ASSUME TypeInv, GraphTypeOK', Grows, Works \/ Fails,
         NEW r \in Req, NEW n \in DOMAIN vertices', Found(r, n),
         pc[r] \in {"root", "rootMake", "son"},
         loc[r].want = "policy" => vertices'[n].name = LastOf(loc[r].path)
  PROVE  TypeInv'
<1>1. /\ loc[r] \in Locals /\ loc \in [Req -> Locals]
      /\ Walking(r, pc[r], loc[r]) /\ Holding(vertices, r, pc[r], loc[r])
      /\ status \in [Req -> Codes]
  BY LocalsOf DEF TypeInv, RequestInv
<1>2. n \in Nat
  BY TypeOfVertices DEF GraphTypeOK
<1>3. <<>> \in Seq(STRING) /\ loc[r].path \in Seq(STRING)
  BY <1>1 DEF Locals
<1>4. r \in Posts \/ r \in Gets
  BY DEF Req
<1>5. CASE loc[r].want = "father" /\ r \notin Updates
           /\ loc' = [loc EXCEPT ![r].todo = <<>>, ![r].father = n] /\ Goto(r, "valid")
  <2> DEFINE l == [loc[r] EXCEPT !.todo = <<>>, !.father = n]
  <2>1. /\ l \in Locals
        /\ l.want = loc[r].want /\ l.path = loc[r].path /\ l.version = loc[r].version
        /\ l.at = loc[r].at /\ l.father = n
        /\ l.old = loc[r].old /\ l.node = loc[r].node
    BY <1>1, <1>2, <1>3 DEF Locals
  <2>2. loc' = [loc EXCEPT ![r] = l]
    BY <1>1, <1>5
  <2> HIDE DEF l
  <2>3. Walking(r, "valid", l)
    BY <1>1, <1>4, <1>5, <2>1 DEF Walking, Req
  <2>4. Holding(vertices', r, "valid", l)
    BY <1>1, <2>1 DEF Holding, Grows
  <2> QED BY <1>1, <1>5, <2>1, <2>2, <2>3, <2>4, Moves DEF Goto, Steps
<1>6. CASE loc[r].want = "father" /\ r \in Updates
           /\ loc' = [loc EXCEPT ![r].todo = loc[r].path, ![r].father = n, ![r].want = "policy"]
           /\ Goto(r, "root")
  <2> DEFINE l == [loc[r] EXCEPT !.todo = loc[r].path, !.father = n, !.want = "policy"]
  <2>1. /\ l \in Locals
        /\ l.want = "policy" /\ l.path = loc[r].path /\ l.version = loc[r].version
        /\ l.todo = loc[r].path
        /\ l.at = loc[r].at /\ l.father = n
        /\ l.old = loc[r].old /\ l.node = loc[r].node
    BY <1>1, <1>2, <1>3 DEF Locals, Lookups
  <2>2. loc' = [loc EXCEPT ![r] = l]
    BY <1>1, <1>6
  <2> HIDE DEF l
  <2>3. Walking(r, "root", l)
    BY <1>1, <1>4, <1>6, <2>1, Requests DEF Walking, Req, Posts
  <2>4. Holding(vertices', r, "root", l)
    BY <1>1, <2>1 DEF Holding, Grows
  <2> QED BY <1>1, <1>6, <2>1, <2>2, <2>3, <2>4, Moves DEF Goto, Steps
<1>7. CASE loc[r].want = "policy"
           /\ loc' = [loc EXCEPT ![r].todo = <<>>, ![r].old = n] /\ Goto(r, "read")
  <2> DEFINE l == [loc[r] EXCEPT !.todo = <<>>, !.old = n]
  <2>1. /\ l \in Locals
        /\ l.want = "policy" /\ l.path = loc[r].path /\ l.version = loc[r].version
        /\ l.at = loc[r].at /\ l.father = loc[r].father
        /\ l.old = n /\ l.node = loc[r].node
    BY <1>1, <1>2, <1>3, <1>7 DEF Locals
  <2>2. loc' = [loc EXCEPT ![r] = l]
    BY <1>1, <1>7
  <2> HIDE DEF l
  <2>3. Walking(r, "read", l)
    BY <1>1, <1>7, <2>1, Requests DEF Walking, Posts
  <2>4. Holding(vertices', r, "read", l)
    BY <1>1, <1>7, <2>1 DEF Holding, Grows
  <2> QED BY <1>1, <1>7, <2>1, <2>2, <2>3, <2>4, Moves DEF Goto, Steps
<1>8. CASE loc[r].want = "element"
           /\ loc' = [loc EXCEPT ![r].todo = <<>>, ![r].at = n] /\ Goto(r, "class")
  <2> DEFINE l == [loc[r] EXCEPT !.todo = <<>>, !.at = n]
  <2>1. /\ l \in Locals
        /\ l.want = "element" /\ l.path = loc[r].path /\ l.version = loc[r].version
        /\ l.at = n /\ l.father = loc[r].father
        /\ l.old = loc[r].old /\ l.node = loc[r].node
    BY <1>1, <1>2, <1>3, <1>8 DEF Locals
  <2>2. loc' = [loc EXCEPT ![r] = l]
    BY <1>1, <1>8
  <2> HIDE DEF l
  <2>3. Walking(r, "class", l)
    BY <1>1, <1>8, <2>1 DEF Walking
  <2>4. Holding(vertices', r, "class", l)
    BY <1>1, <2>1 DEF Holding, Grows
  <2> QED BY <1>1, <1>8, <2>1, <2>2, <2>3, <2>4, Moves DEF Goto, Steps
<1> QED BY <1>5, <1>6, <1>7, <1>8 DEF Found

\* The lookup of r goes on below vertex n, with the names t.
LEMMA GoesDown ==
  ASSUME TypeInv, GraphTypeOK', Grows, Works \/ Fails,
         NEW r \in Req, NEW n \in DOMAIN vertices', NEW t \in Seq(STRING), NEW s \in {"son", "content"},
         loc' = [loc EXCEPT ![r].at = n, ![r].todo = t], Goto(r, s),
         pc[r] \in {"root", "rootMake", "son"},
         s = "son" => t # <<>> /\ (loc[r].want = "policy" => LastOf(t) = LastOf(loc[r].path))
  PROVE  TypeInv'
<1>1. /\ loc[r] \in Locals /\ loc \in [Req -> Locals]
      /\ Walking(r, pc[r], loc[r]) /\ Holding(vertices, r, pc[r], loc[r])
      /\ status \in [Req -> Codes]
  BY LocalsOf DEF TypeInv, RequestInv
<1>2. n \in Nat
  BY TypeOfVertices DEF GraphTypeOK
<1> DEFINE l == [loc[r] EXCEPT !.at = n, !.todo = t]
<1>3. /\ l \in Locals
      /\ l.want = loc[r].want /\ l.path = loc[r].path /\ l.version = loc[r].version
      /\ l.todo = t
      /\ l.at = n /\ l.father = loc[r].father
      /\ l.old = loc[r].old /\ l.node = loc[r].node
  BY <1>1, <1>2 DEF Locals
<1>4. loc' = [loc EXCEPT ![r] = l]
  BY <1>1
<1> HIDE DEF l
<1>5. Walking(r, s, l)
  BY <1>1, <1>3 DEF Walking
<1>6. Holding(vertices', r, s, l)
  BY <1>1, <1>3 DEF Holding, Grows
<1>7. s \in Steps /\ pc' = [pc EXCEPT ![r] = s] /\ status' \in [Req -> Codes]
  BY <1>1 DEF Goto, Steps
<1> QED BY <1>3, <1>4, <1>5, <1>6, <1>7, Moves

LEMMA HaveRootMoves ==
  ASSUME TypeInv, GraphTypeOK', Grows, Works \/ Fails,
         NEW r \in Req, NEW n \in DOMAIN vertices', HaveRoot(r, n),
         pc[r] \in {"root", "rootMake"}
  PROVE  TypeInv'
<1>1. /\ loc[r] \in Locals /\ loc \in [Req -> Locals]
      /\ Walking(r, pc[r], loc[r])
      /\ loc[r].todo \in Seq(STRING)
  BY LocalsOf DEF TypeInv, RequestInv, Locals
<1>2. loc[r].want = "policy" => loc[r].todo = loc[r].path
  BY <1>1 DEF Walking
<1> DEFINE todo == loc[r].todo
<1>3. CASE todo = <<>> /\ loc' = [loc EXCEPT ![r].at = n] /\ Goto(r, "content")
  <2>1. loc' = [loc EXCEPT ![r].at = n, ![r].todo = <<>>]
    BY <1>1, <1>3 DEF Locals
  <2>2. <<>> \in Seq(STRING)
    OBVIOUS
  <2> QED BY <1>3, <2>1, <2>2, GoesDown, Zenon
<1>4. CASE todo = <<vertices'[n].name>> /\ Found(r, n)
  <2>1. \A x : LastOf(<<x>>) = x
    BY DEF LastOf
  <2>2. ASSUME loc[r].want = "policy" PROVE vertices'[n].name = LastOf(loc[r].path)
    <3>1. loc[r].path = <<vertices'[n].name>>
      BY <1>2, <1>4, <2>2
    <3> QED BY <2>1, <3>1
  <2> QED BY <1>4, <2>2, FoundMoves
<1>5. CASE /\ todo # <<>> /\ todo # <<vertices'[n].name>>
           /\ loc' = [loc EXCEPT ![r].at = n,
                                 ![r].todo = IF Head(@) = vertices'[n].name THEN Tail(@) ELSE @]
           /\ Goto(r, "son")
  <2> DEFINE t == IF Head(todo) = vertices'[n].name THEN Tail(todo) ELSE todo
  <2>1. loc' = [loc EXCEPT ![r].at = n, ![r].todo = t]
    BY <1>1, <1>5
  <2>2. t \in Seq(STRING) /\ t # <<>> /\ LastOf(t) = LastOf(todo)
    <3>1. todo \in Seq(STRING) /\ todo # <<>> /\ todo # <<vertices'[n].name>>
      BY <1>1, <1>5
    <3> HIDE DEF todo
    <3>2. CASE Head(todo) = vertices'[n].name
      BY <3>1, <3>2, TailOfPath
    <3>3. CASE Head(todo) # vertices'[n].name
      BY <3>1, <3>3
    <3> QED BY <3>2, <3>3
  <2> HIDE DEF t
  <2> QED BY <1>2, <1>5, <2>1, <2>2, GoesDown, ZenonT(60)
<1> QED BY <1>3, <1>4, <1>5 DEF HaveRoot

(***************************************************************************)
(* One lemma per action.                                                   *)
(***************************************************************************)
\* A failed command that the handler answers 500.
LEMMA RefusedKeepsType ==
  ASSUME TypeInv, GraphTypeOK', Grows, Fails,
         NEW r \in Req, Reply(r, 500), UNCHANGED loc
  PROVE  TypeInv'
BY RepliesAsItIs DEF Codes

LEMMA PathsAsked == \A p \in Asked : p \in Seq(STRING)
<1>1. ASSUME NEW q \in Folders, NEW x \in Names PROVE Append(q, x) \in Seq(STRING)
  <2>1. q \in Seq(STRING) /\ x \in STRING
    BY Inputs
  <2> QED BY <2>1, PathAndName
<1>2. <<>> \in Seq(STRING)
  OBVIOUS
<1>3. \A p \in Folders : p \in Seq(STRING)
  BY Inputs, Zenon
<1>4. Asked = {<<>>} \cup Folders \cup {Append(q, x) : q \in Folders, x \in Names}
  BY DEF Asked
<1>5. ASSUME NEW p \in Asked PROVE p \in Seq(STRING)
  <2>1. p = <<>> \/ p \in Folders \/ \E q \in Folders, x \in Names : p = Append(q, x)
    BY <1>4
  <2>2. CASE \E q \in Folders, x \in Names : p = Append(q, x)
    BY <1>1, <2>2
  <2> QED BY <1>2, <1>3, <2>1, <2>2
<1> QED BY <1>5

LEMMA StartKeepsType ==
  ASSUME TypeInv, NEW r \in Req, Start(r)
  PROVE  TypeInv'
<1>1. /\ loc[r] \in Locals /\ loc \in [Req -> Locals]
      /\ Walking(r, "new", loc[r]) /\ Holding(vertices, r, "new", loc[r])
      /\ status \in [Req -> Codes]
  BY LocalsOf DEF TypeInv, RequestInv, Start
<1>2. GraphTypeOK' /\ Grows /\ vertices' = vertices /\ Works
  BY GraphStays DEF TypeInv, Start, Works
<1>3. /\ "root" \in Steps /\ pc' = [pc EXCEPT ![r] = "root"] /\ status' \in [Req -> Codes]
  BY <1>1 DEF Start, Goto, Steps
<1>4. ASSUME r \in Posts, NEW p \in Folders, NEW x \in Names, NEW y \in Replaced,
             loc' = [loc EXCEPT ![r].todo = p, ![r].name = x,
                                ![r].path = IF r \in Updates THEN Append(p, y) ELSE <<>>]
      PROVE  TypeInv'
  <2> DEFINE path == IF r \in Updates THEN Append(p, y) ELSE <<>>
             l == [loc[r] EXCEPT !.todo = p, !.name = x, !.path = path]
  <2>1. p \in Seq(STRING) /\ x \in STRING /\ y \in STRING
    BY Inputs
  <2>2. path \in Seq(STRING) /\ (r \in Updates => path # <<>>)
    <3>1. Append(p, y) \in Seq(STRING) /\ Append(p, y) # <<>>
      BY <2>1, PathAndName
    <3>2. <<>> \in Seq(STRING)
      OBVIOUS
    <3> QED BY <3>1, <3>2
  <2> HIDE DEF path
  <2>3. /\ l \in Locals
        /\ l.want = loc[r].want /\ l.path = path /\ l.version = loc[r].version
        /\ l.todo = p
        /\ l.at = loc[r].at /\ l.father = loc[r].father
        /\ l.old = loc[r].old /\ l.node = loc[r].node
    BY <1>1, <2>1, <2>2 DEF Locals
  <2>4. loc' = [loc EXCEPT ![r] = l]
    BY <1>1, <1>4 DEF path
  <2> HIDE DEF l
  <2>5. l.want # "policy"
    BY <1>1, <2>3 DEF Walking
  <2>6. Walking(r, "root", l)
    BY <1>1, <1>4, <2>2, <2>3, <2>5, Requests DEF Walking
  <2>7. Holding(vertices', r, "root", l)
    BY <1>1, <1>2, <2>3 DEF Holding
  <2> QED BY <1>2, <1>3, <2>3, <2>4, <2>6, <2>7, Moves
<1>5. ASSUME r \in Gets, NEW p \in Seq(STRING),
             loc' = [loc EXCEPT ![r].todo = p, ![r].want = "element"]
      PROVE  TypeInv'
  <2> DEFINE l == [loc[r] EXCEPT !.todo = p, !.want = "element"]
  <2>2. /\ l \in Locals
        /\ l.want = "element" /\ l.path = loc[r].path /\ l.version = loc[r].version
        /\ l.at = loc[r].at /\ l.father = loc[r].father
        /\ l.old = loc[r].old /\ l.node = loc[r].node
    BY <1>1 DEF Locals, Lookups
  <2>3. loc' = [loc EXCEPT ![r] = l]
    BY <1>1, <1>5
  <2> HIDE DEF l
  <2>4. Walking(r, "root", l)
    BY <1>1, <1>5, <2>2, Requests DEF Walking, Posts
  <2>5. Holding(vertices', r, "root", l)
    BY <1>1, <1>2, <2>2 DEF Holding
  <2> QED BY <1>2, <1>3, <2>2, <2>3, <2>4, <2>5, Moves
<1> QED BY <1>4, <1>5, PathsAsked DEF Start

LEMMA StartWithoutBodyKeepsType ==
  ASSUME TypeInv, NEW r \in Req, StartWithoutBody(r)
  PROVE  TypeInv'
<1>1. GraphTypeOK' /\ Grows /\ Works
  BY GraphStays DEF TypeInv, StartWithoutBody, Works
<1> QED BY <1>1, RepliesAsItIs DEF StartWithoutBody, Codes

LEMMA GetRootKeepsType ==
  ASSUME TypeInv, NEW r \in Req, GetRoot(r)
  PROVE  TypeInv'
<1>1. GraphTypeOK' /\ Grows /\ vertices' = vertices
  BY GraphStays DEF TypeInv, GetRoot
<1>2. ASSUME NEW n \in RootCandidates, HaveRoot(r, n), Works
      PROVE  TypeInv'
  <2>1. n \in DOMAIN vertices'
    BY <1>1 DEF RootCandidates, IsDirectory
  <2> QED BY <1>1, <1>2, <2>1, HaveRootMoves DEF GetRoot
<1>3. CASE (Works \/ Fails) /\ Goto(r, "rootMake") /\ UNCHANGED loc
  <2>1. Walking(r, "root", loc[r]) /\ Holding(vertices', r, "root", loc[r])
    BY <1>1, LocalsOf DEF GetRoot
  <2>2. Walking(r, "rootMake", loc[r]) /\ Holding(vertices', r, "rootMake", loc[r])
    BY <2>1 DEF Walking, Holding
  <2> QED BY <1>1, <1>3, <2>2, Stays DEF Steps
<1> QED BY <1>2, <1>3 DEF GetRoot

LEMMA CreateRootKeepsType ==
  ASSUME TypeInv, NEW r \in Req, CreateRoot(r)
  PROVE  TypeInv'
<1>1. Directory(RootName) \in Record
  <2>1. RootName \in STRING
    BY Inputs DEF RootName
  <2> QED BY <2>1 DEF Directory, Record
<1>2. CASE Works /\ CreateVertex(Directory(RootName)) /\ HaveRoot(r, NewRid)
  <2>1. GraphTypeOK' /\ Grows /\ NewRid \in DOMAIN vertices'
    BY <1>1, <1>2, VertexAdded DEF TypeInv
  <2> QED BY <1>2, <2>1, HaveRootMoves DEF CreateRoot
<1>3. CASE Refused(r, CreateVertex(Directory(RootName)))
  <2>1. GraphTypeOK' /\ Grows
    BY <1>1, <1>3, VertexAdded, GraphStays DEF TypeInv, Refused
  <2> QED BY <1>3, <2>1, RefusedKeepsType DEF Refused
<1> QED BY <1>2, <1>3 DEF CreateRoot

LEMMA FindSonKeepsType ==
  ASSUME TypeInv, NEW r \in Req, FindSon(r)
  PROVE  TypeInv'
<1>1. GraphTypeOK' /\ Grows /\ vertices' = vertices
  BY GraphStays DEF TypeInv, FindSon
<1>2. /\ loc[r] \in Locals /\ loc \in [Req -> Locals]
      /\ Walking(r, "son", loc[r])
      /\ loc[r].todo \in Seq(STRING)
  BY LocalsOf DEF TypeInv, RequestInv, Locals, FindSon
<1>3. /\ loc[r].todo # <<>>
      /\ loc[r].want = "policy" => LastOf(loc[r].todo) = LastOf(loc[r].path)
  BY <1>2 DEF Walking
<1> DEFINE found == SonsByName(loc[r].at, Head(loc[r].todo))
<1>4. ASSUME NEW n \in found PROVE n \in DOMAIN vertices /\ vertices[n].name = Head(loc[r].todo)
  BY DEF SonsByName, Out, Live
<1>5. ASSUME Works, Len(loc[r].todo) = 1, NEW n \in found, Found(r, n)
      PROVE  TypeInv'
  <2>1. loc[r].want = "policy" => vertices'[n].name = LastOf(loc[r].path)
    BY <1>1, <1>2, <1>3, <1>4, <1>5, TailOfPath
  <2> QED BY <1>1, <1>4, <1>5, <2>1, FoundMoves DEF FindSon
<1>6. ASSUME Works, Len(loc[r].todo) > 1, NEW n \in found,
             loc' = [loc EXCEPT ![r].at = n, ![r].todo = Tail(@)], Goto(r, "son")
      PROVE  TypeInv'
  <2> DEFINE t == Tail(loc[r].todo)
  <2>1. t \in Seq(STRING) /\ t # <<>> /\ LastOf(t) = LastOf(loc[r].todo)
    BY <1>2, <1>3, <1>6, TailOfPath
  <2>2. loc' = [loc EXCEPT ![r].at = n, ![r].todo = t]
    BY <1>2, <1>6
  <2>3. n \in DOMAIN vertices'
    BY <1>1, <1>4
  <2>4. pc[r] \in {"root", "rootMake", "son"}
    BY DEF FindSon
  <2> HIDE DEF t
  <2> QED BY <1>1, <1>3, <1>6, <2>1, <2>2, <2>3, <2>4, GoesDown
<1>7. CASE (Works \/ Fails) /\ NotFound(r)
  BY <1>1, <1>7, RepliesAsItIs DEF NotFound, Codes
<1> QED BY <1>5, <1>6, <1>7 DEF FindSon

LEMMA CheckNameKeepsType ==
  ASSUME TypeInv, NEW r \in Req, CheckName(r)
  PROVE  TypeInv'
<1>1. GraphTypeOK' /\ Grows /\ vertices' = vertices /\ UNCHANGED loc
  BY GraphStays DEF TypeInv, CheckName
<1>2. CASE (Works \/ Fails) /\ Goto(r, "create")
  <2>1. Walking(r, "valid", loc[r]) /\ Holding(vertices', r, "valid", loc[r])
    BY <1>1, LocalsOf DEF CheckName
  <2>2. Walking(r, "create", loc[r]) /\ Holding(vertices', r, "create", loc[r])
    BY <2>1 DEF Walking, Holding
  <2> QED BY <1>1, <1>2, <2>2, Stays DEF Steps
<1>3. CASE Works /\ Reply(r, IF r \in Creates THEN 409 ELSE 500)
  BY <1>1, <1>3, RepliesAsItIs DEF Codes
<1> QED BY <1>2, <1>3 DEF CheckName

\* The old version's number and one: a stored vertex has a number.
LEMMA ReadOldKeepsType ==
  ASSUME TypeInv, NEW r \in Req, ReadOld(r)
  PROVE  TypeInv'
<1>1. GraphTypeOK' /\ Grows /\ vertices' = vertices
  BY GraphStays DEF TypeInv, ReadOld, Refused
<1>2. /\ loc[r] \in Locals /\ loc \in [Req -> Locals]
      /\ Walking(r, "read", loc[r]) /\ Holding(vertices', r, "read", loc[r])
      /\ status \in [Req -> Codes]
  BY <1>1, LocalsOf DEF TypeInv, RequestInv, ReadOld
<1>3. CASE /\ Works
           /\ loc' = [loc EXCEPT ![r].version = vertices[loc[r].old].version + 1]
           /\ Goto(r, "create")
  <2> DEFINE v == vertices[loc[r].old].version + 1
             l == [loc[r] EXCEPT !.version = v]
  <2>1. r \in Updates /\ loc[r].old \in DOMAIN vertices
    BY <1>1, <1>2 DEF Walking, Holding
  <2>2. v \in Nat /\ v >= FirstVersion
    BY <2>1, TypeOfVertices DEF TypeInv, Record, FirstVersion
  <2>3. /\ l \in Locals
        /\ l.want = loc[r].want /\ l.path = loc[r].path /\ l.version = v
        /\ l.at = loc[r].at /\ l.father = loc[r].father
        /\ l.old = loc[r].old /\ l.node = loc[r].node
    BY <1>2, <2>2 DEF Locals
  <2>4. loc' = [loc EXCEPT ![r] = l]
    BY <1>2, <1>3
  <2>5. vertices'[loc[r].old].version + 1 = v
    BY <1>1
  <2> HIDE DEF l, v
  <2>6. Walking(r, "create", l)
    BY <1>2, <2>1, <2>3, Requests DEF Walking, Posts
  <2>7. Holding(vertices', r, "create", l)
    BY <1>2, <2>1, <2>2, <2>3, <2>5 DEF Holding
  <2> QED BY <1>1, <1>2, <1>3, <2>3, <2>4, <2>6, <2>7, Moves DEF Goto, Steps
<1>4. CASE Refused(r, FALSE)
  BY <1>1, <1>4, RefusedKeepsType DEF Refused
<1> QED BY <1>3, <1>4 DEF ReadOld

\* What CreateNode stores.
LEMMA WrittenType ==
  ASSUME TypeInv, NEW r \in Req, pc[r] = "create"
  PROVE  /\ r \in Posts
         /\ NewVertex(r) \in Record
         /\ NewVertex(r) = Written(r, loc[r])
<1>1. /\ loc[r] \in Locals /\ Walking(r, "create", loc[r])
  BY LocalsOf
<1>2. r \in Posts /\ loc[r].name \in STRING /\ loc[r].version \in Nat
  BY <1>1 DEF Walking, Locals
<1>3. Directory(loc[r].name) \in Record
  BY <1>2 DEF Directory, Record
<1>4. Policy(loc[r].name, loc[r].version, r) \in Record
  BY <1>2 DEF Policy, Record
<1> QED BY <1>2, <1>3, <1>4 DEF NewVertex, Written

LEMMA CreateNodeKeepsType ==
  ASSUME TypeInv, NEW r \in Req, CreateNode(r)
  PROVE  TypeInv'
<1>1. /\ NewVertex(r) \in Record /\ NewVertex(r) = Written(r, loc[r])
      /\ r \in Posts
  BY WrittenType DEF CreateNode
<1>2. /\ loc[r] \in Locals /\ loc \in [Req -> Locals]
      /\ Walking(r, "create", loc[r]) /\ Holding(vertices, r, "create", loc[r])
      /\ status \in [Req -> Codes]
  BY LocalsOf DEF TypeInv, RequestInv, CreateNode
<1>3. CASE /\ Works /\ CreateVertex(NewVertex(r))
           /\ loc' = [loc EXCEPT ![r].node = NewRid] /\ Goto(r, "link")
  <2> DEFINE l == [loc[r] EXCEPT !.node = NewRid]
  <2>1. /\ GraphTypeOK' /\ Grows
        /\ NewRid \in DOMAIN vertices' /\ NewRid \in Nat
        /\ vertices'[NewRid] = NewVertex(r)
    BY <1>1, <1>3, VertexAdded DEF TypeInv
  <2>2. /\ l \in Locals
        /\ l.want = loc[r].want /\ l.path = loc[r].path /\ l.version = loc[r].version
        /\ l.name = loc[r].name
        /\ l.at = loc[r].at /\ l.father = loc[r].father
        /\ l.old = loc[r].old /\ l.node = NewRid
    BY <1>2, <2>1 DEF Locals
  <2>3. loc' = [loc EXCEPT ![r] = l]
    BY <1>2, <1>3
  <2> HIDE DEF l
  <2>4. Walking(r, "link", l)
    BY <1>1, <1>2, <2>2 DEF Walking
  <2>5. Written(r, l) = Written(r, loc[r])
    BY <2>2 DEF Written
  <2>6. Holding(vertices', r, "link", l)
    BY <1>1, <1>2, <2>1, <2>2, <2>5 DEF Holding, Grows
  <2> QED BY <1>2, <1>3, <2>1, <2>2, <2>3, <2>4, <2>6, Moves DEF Goto, Steps
<1>4. CASE Refused(r, CreateVertex(NewVertex(r)))
  <2>1. GraphTypeOK' /\ Grows
    BY <1>1, <1>4, VertexAdded, GraphStays DEF TypeInv, Refused
  <2> QED BY <1>4, <2>1, RefusedKeepsType DEF Refused
<1> QED BY <1>3, <1>4 DEF CreateNode

LEMMA LinkNodeKeepsType ==
  ASSUME TypeInv, NEW r \in Req, LinkNode(r)
  PROVE  TypeInv'
<1>1. GraphTypeOK' /\ Grows /\ vertices' = vertices
  BY EdgeAdded, GraphStays DEF TypeInv, LinkNode, Refused
<1>2. CASE Works /\ Reply(r, 201) /\ UNCHANGED loc
  BY <1>1, <1>2, RepliesAsItIs DEF Codes
<1>3. CASE Works /\ Reply(r, 500) /\ UNCHANGED loc
  BY <1>1, <1>3, RepliesAsItIs DEF Codes
<1>4. CASE r \in Updates /\ Works /\ Goto(r, "unlink") /\ UNCHANGED loc
  <2>1. Walking(r, "link", loc[r]) /\ Holding(vertices', r, "link", loc[r])
    BY <1>1, LocalsOf DEF LinkNode
  <2>2. Walking(r, "unlink", loc[r]) /\ Holding(vertices', r, "unlink", loc[r])
    BY <1>4, <2>1 DEF Walking, Holding
  <2> QED BY <1>1, <1>4, <2>2, Stays DEF Steps
<1>5. CASE Fails /\ Reply(r, 500) /\ UNCHANGED loc
  BY <1>1, <1>5, RefusedKeepsType
<1> QED BY <1>2, <1>3, <1>4, <1>5 DEF LinkNode, Refused

\* The local variables of r once its DELETE EDGE was sent.
LEMMA CutLocals ==
  ASSUME TypeInv, NEW r \in Req, loc' = [loc EXCEPT ![r].cut = TRUE]
  PROVE  \E l \in Locals : /\ l = [loc[r] EXCEPT !.cut = TRUE]
                           /\ loc' = [loc EXCEPT ![r] = l]
                           /\ l = [loc[r] EXCEPT !.cut = l.cut]
<1>1. loc[r] \in Locals /\ loc \in [Req -> Locals]
  BY LocalsOf DEF TypeInv, RequestInv
<1> DEFINE l == [loc[r] EXCEPT !.cut = TRUE]
<1>2. l \in Locals /\ l.cut = TRUE
  BY <1>1 DEF Locals
<1>3. loc' = [loc EXCEPT ![r] = l]
  BY <1>1
<1> QED BY <1>2, <1>3

LEMMA UnlinkOldKeepsType ==
  ASSUME TypeInv, NEW r \in Req, UnlinkOld(r)
  PROVE  TypeInv'
<1>1. GraphTypeOK' /\ Grows /\ vertices' = vertices
  BY EdgeDeleted, GraphStays DEF TypeInv, UnlinkOld, CutOld
<1>2. CASE Works /\ CutOld(r) /\ Goto(r, "relink")
  <2>1. loc[r] \in Locals /\ Walking(r, "unlink", loc[r]) /\ Holding(vertices', r, "unlink", loc[r])
    BY <1>1, LocalsOf DEF UnlinkOld
  <2>2. PICK l \in Locals : l = [loc[r] EXCEPT !.cut = TRUE] /\ loc' = [loc EXCEPT ![r] = l]
    BY <1>2, CutLocals DEF CutOld
  <2>3. /\ l.want = loc[r].want /\ l.path = loc[r].path /\ l.version = loc[r].version
        /\ l.name = loc[r].name /\ l.at = loc[r].at /\ l.father = loc[r].father
        /\ l.old = loc[r].old /\ l.node = loc[r].node
    BY <2>1, <2>2 DEF Locals
  <2>4. Walking(r, "relink", l)
    BY <2>1, <2>3 DEF Walking
  <2>5. Holding(vertices', r, "relink", l)
    BY <2>1, <2>3 DEF Walking, Holding, Written
  <2>6. "relink" \in Steps /\ pc' = [pc EXCEPT ![r] = "relink"] /\ status' \in [Req -> Codes]
    BY <1>2, LocalsOf DEF Goto, Steps
  <2> QED BY <1>1, <1>2, <2>2, <2>4, <2>5, <2>6, Moves
<1>3. CASE Fails /\ CutOld(r) /\ Reply(r, 500)
  <2>1. PICK l \in Locals : loc' = [loc EXCEPT ![r] = l] /\ l = [loc[r] EXCEPT !.cut = l.cut]
    BY <1>3, CutLocals DEF CutOld
  <2>2. 500 \in Codes
    BY DEF Codes
  <2> QED BY <1>1, <1>3, <2>1, <2>2, Replies, Zenon
<1>4. CASE Fails /\ UNCHANGED <<graphVars, loc>> /\ Reply(r, 500)
  BY <1>1, <1>4, RefusedKeepsType
<1> QED BY <1>2, <1>3, <1>4 DEF UnlinkOld

LEMMA RelinkOldKeepsType ==
  ASSUME TypeInv, NEW r \in Req, RelinkOld(r)
  PROVE  TypeInv'
<1>1. GraphTypeOK' /\ Grows /\ vertices' = vertices /\ UNCHANGED loc
  BY EdgeAdded, GraphStays DEF TypeInv, RelinkOld, LinkOld, Refused
<1>2. CASE Works /\ Reply(r, 201)
  BY <1>1, <1>2, RepliesAsItIs DEF Codes
<1>3. CASE Works /\ Reply(r, 500)
  BY <1>1, <1>3, RepliesAsItIs DEF Codes
<1>4. CASE Fails /\ Reply(r, 500)
  BY <1>1, <1>4, RefusedKeepsType
<1> QED BY <1>2, <1>3, <1>4 DEF RelinkOld, Refused

LEMMA GetKeepsType ==
  ASSUME TypeInv, NEW g \in Req, Get(g)
  PROVE  TypeInv'
<1>1. GraphTypeOK' /\ Grows /\ vertices' = vertices /\ UNCHANGED loc
  BY GraphStays DEF TypeInv, Get, ReadClass, ReadContent, ReadValue
<1>2. CASE Works /\ pc[g] = "class" /\ \E s \in {"content", "value"} : Goto(g, s)
  <2>1. PICK s \in {"content", "value"} : Goto(g, s)
    BY <1>2
  <2>2. Walking(g, "class", loc[g]) /\ Holding(vertices', g, "class", loc[g])
    BY <1>1, <1>2, LocalsOf
  <2>3. Walking(g, s, loc[g]) /\ Holding(vertices', g, s, loc[g])
    BY <2>2 DEF Walking, Holding
  <2> QED BY <1>1, <1>2, <2>1, <2>3, Stays DEF Steps
<1>3. CASE (Works \/ Fails) /\ \E code \in {200, 500} : Reply(g, code)
  <2>1. PICK code \in {200, 500} : Reply(g, code)
    BY <1>3
  <2>2. code \in Codes
    BY DEF Codes
  <2> QED BY <1>1, <1>3, <2>1, <2>2, RepliesAsItIs
<1> QED BY <1>2, <1>3 DEF Get, ReadClass, ReadContent, ReadValue

LEMMA CrashKeepsType ==
  ASSUME TypeInv, Crash
  PROVE  TypeInv'
<1>1. GraphTypeOK' /\ Grows /\ UNCHANGED <<loc, vertices>>
  BY GraphStays DEF TypeInv, Crash
<1>2. pc' \in [Req -> Steps] /\ loc' \in [Req -> Locals]
  BY DEF TypeInv, RequestInv, Crash, Steps
<1>3. ASSUME NEW q \in Req
      PROVE  Walking(q, pc'[q], loc'[q]) /\ Holding(vertices', q, pc'[q], loc'[q])
  <2>1. Walking(q, pc[q], loc[q]) /\ Holding(vertices', q, pc[q], loc[q]) /\ loc'[q] = loc[q]
    BY <1>1, LocalsOf
  <2>2. pc'[q] = "done" \/ pc'[q] = pc[q]
    BY DEF Crash
  <2>3. Walking(q, "done", loc[q]) /\ Holding(vertices', q, "done", loc[q])
    BY <2>1 DEF Walking, Holding
  <2> QED BY <2>1, <2>2, <2>3
<1>4. AnswerInv'
  BY DEF TypeInv, AnswerInv, Crash
<1> QED BY <1>1, <1>2, <1>3, <1>4 DEF TypeInv, RequestInv

\* The database the requests find.
LEMMA StoredType ==
  ASSUME StoredGraph
  PROVE  /\ GraphTypeOK
         /\ \A n \in Live : ~IsPolicy(n)
<1>1. Stored \in Seq(STRING) /\ Len(Stored) \in Nat
  <2>1. Stored \in Seq(DOMAIN Lower) /\ DOMAIN Lower \subseteq STRING
    BY Inputs
  <2> QED BY <2>1
<1>2. CASE Stored = <<>>
  <2>1. <<>> \in Seq(Record) /\ DOMAIN <<>> = {}
    BY EmptySeq
  <2> QED BY <1>2, <2>1 DEF StoredGraph, GraphInit, GraphTypeOK, Live
<1>3. CASE Stored # <<>>
  <2>1. \A n \in 1 .. Len(Stored) + 1 :
          Directory(IF n = 1 THEN RootName ELSE Stored[n - 1]) \in Record
    <3> SUFFICES ASSUME NEW n \in 1 .. Len(Stored) + 1
                 PROVE  (IF n = 1 THEN RootName ELSE Stored[n - 1]) \in STRING
      BY DEF Directory, Record
    <3>1. CASE n = 1
      BY <3>1, Inputs DEF RootName
    <3>2. CASE n # 1
      BY <1>1, <3>2, n - 1 \in 1 .. Len(Stored), ElementOfSeq
    <3> QED BY <3>1, <3>2
  <2>2. vertices \in Seq(Record) /\ DOMAIN vertices = 1 .. Len(Stored) + 1
    BY <1>1, <1>3, <2>1 DEF StoredGraph
  <2>3. edges \subseteq (DOMAIN vertices) \X (DOMAIN vertices)
    BY <1>1, <1>3, <2>2 DEF StoredGraph
  <2>4. \A n \in DOMAIN vertices : vertices[n].class = "Directory"
    BY <1>1, <1>3, <2>2 DEF StoredGraph, Directory
  <2> QED BY <1>3, <2>2, <2>3, <2>4 DEF StoredGraph, GraphTypeOK, IsPolicy
<1> QED BY <1>2, <1>3

LEMMA InitType ==
  ASSUME Init
  PROVE  TypeInv
<1>1. GraphTypeOK
  BY StoredType DEF Init
<1>2. <<>> \in Seq(STRING) /\ "" \in STRING
  BY EmptySeq, Inputs
<1>3. /\ NewLocals \in Locals /\ NewLocals.version >= FirstVersion
      /\ NewLocals.want = "father"
      /\ NewLocals.at = NoRid /\ NewLocals.father = NoRid
      /\ NewLocals.old = NoRid /\ NewLocals.node = NoRid
  <2>1. /\ "father" \in Lookups /\ FALSE \in BOOLEAN
        /\ NoRid \in Nat /\ FirstVersion \in Nat /\ FirstVersion >= FirstVersion
    BY DEF Lookups, NoRid, FirstVersion
  <2> QED BY <1>2, <2>1 DEF NewLocals, Locals
<1>4. ASSUME NEW r \in Req PROVE Walking(r, "new", NewLocals) /\ Holding(vertices, r, "new", NewLocals)
  BY <1>3 DEF Walking, Holding
<1>5. RequestInv
  BY <1>3, <1>4 DEF Init, RequestInv, Steps
<1>6. AnswerInv
  BY DEF Init, AnswerInv, Codes
<1> QED BY <1>1, <1>5, <1>6 DEF TypeInv

LEMMA NextType ==
  ASSUME TypeInv, [Next]_vars
  PROVE  TypeInv'
<1>1. ASSUME NEW r \in Req, Start(r) PROVE TypeInv'
  BY <1>1, StartKeepsType
<1>2. ASSUME NEW r \in Req, LookUp(r) PROVE TypeInv'
  BY <1>2, GetRootKeepsType, CreateRootKeepsType, FindSonKeepsType DEF LookUp
<1>3. ASSUME NEW r \in Req, Save(r) PROVE TypeInv'
  BY <1>3, CheckNameKeepsType, ReadOldKeepsType, CreateNodeKeepsType, LinkNodeKeepsType DEF Save
<1>4. ASSUME NEW r \in Req, Replace(r) PROVE TypeInv'
  BY <1>4, UnlinkOldKeepsType, RelinkOldKeepsType DEF Replace
<1>5. ASSUME NEW r \in Req, Get(r) PROVE TypeInv'
  BY <1>5, GetKeepsType
<1>6. ASSUME NEW r \in Posts, StartWithoutBody(r) PROVE TypeInv'
  BY <1>6, StartWithoutBodyKeepsType DEF Req
<1>7. CASE Crash
  BY <1>7, CrashKeepsType
<1>8. CASE UNCHANGED vars
  BY <1>8 DEF vars, TypeInv, GraphTypeOK, RequestInv, AnswerInv
<1> QED BY <1>1, <1>2, <1>3, <1>4, <1>5, <1>6, <1>7, <1>8 DEF Next, Handle, Served

LEMMA TypeInvariant == Spec => []TypeInv
BY InitType, NextType, PTL DEF Spec

\* Type correctness of every run of the service: each variable keeps its
\* type, and a request only ever holds RIDs that CREATE VERTEX has given.
THEOREM PolicyTypeCorrect == Spec => []TypeOK
<1>1. TypeInv => TypeOK
  BY DEF TypeInv, TypeOK, RequestInv, AnswerInv, Codes, Holding
<1> QED BY <1>1, TypeInvariant, PTL

(***************************************************************************)
(* What a step does to the graph, and to the request that takes it.        *)
(***************************************************************************)
\* The policies of the database were stored by a request, with a number.
Numbered(v) == v.class = "Policy" => v.text \in Posts /\ v.version >= FirstVersion

GraphStep ==
  \/ UNCHANGED <<vertices, edges>>
  \/ \E v \in Record : Numbered(v) /\ CreateVertex(v)
  \/ \E r \in Req : /\ pc[r] = "link" /\ IsDirectory(loc[r].father)
                    /\ CreateEdge(loc[r].father, loc[r].node)
  \/ \E r \in Req : /\ pc[r] = "relink" /\ IsPolicy(loc[r].old)
                    /\ CreateEdge(loc[r].node, loc[r].old)
  \/ \E r \in Req : /\ pc[r] = "unlink" /\ IsPolicy(loc[r].old)
                    /\ DeleteEdge(loc[r].father, loc[r].old)

LEMMA GraphSteps ==
  ASSUME TypeInv, [Next]_vars
  PROVE  GraphStep
<1>1. ASSUME NEW r \in Req, CreateRoot(r) PROVE GraphStep
  <2>1. Directory(RootName) \in Record /\ Numbered(Directory(RootName))
    <3>1. RootName \in STRING
      BY Inputs DEF RootName
    <3> QED BY <3>1 DEF Directory, Record, Numbered
  <2>2. CreateVertex(Directory(RootName)) \/ UNCHANGED graphVars
    BY <1>1 DEF CreateRoot, Refused
  <2> QED BY <2>1, <2>2 DEF GraphStep, graphVars
<1>2. ASSUME NEW r \in Req, CreateNode(r) PROVE GraphStep
  <2>1. NewVertex(r) \in Record /\ r \in Posts
    BY <1>2, WrittenType DEF CreateNode
  <2>2. loc[r].version >= FirstVersion
    BY LocalsOf DEF Holding
  <2>3. Numbered(NewVertex(r))
    BY <2>1, <2>2 DEF Numbered, NewVertex, Directory, Policy
  <2>4. CreateVertex(NewVertex(r)) \/ UNCHANGED graphVars
    BY <1>2 DEF CreateNode, Refused
  <2> QED BY <2>1, <2>3, <2>4 DEF GraphStep, graphVars
<1>3. ASSUME NEW r \in Req, LinkNode(r) PROVE GraphStep
  BY <1>3 DEF LinkNode, Refused, GraphStep, graphVars
<1>4. ASSUME NEW r \in Req, UnlinkOld(r) PROVE GraphStep
  BY <1>4 DEF UnlinkOld, CutOld, GraphStep, graphVars
<1>5. ASSUME NEW r \in Req, RelinkOld(r) PROVE GraphStep
  BY <1>5 DEF RelinkOld, LinkOld, Refused, GraphStep, graphVars
<1>6. ASSUME NEW r \in Req, \/ Start(r) \/ GetRoot(r) \/ FindSon(r) \/ CheckName(r)
                            \/ ReadOld(r) \/ Get(r) \/ StartWithoutBody(r)
      PROVE GraphStep
  BY <1>6 DEF Start, GetRoot, FindSon, CheckName, ReadOld, Refused, Get, ReadClass, ReadContent,
     ReadValue, StartWithoutBody, GraphStep, graphVars
<1>7. CASE Crash
  BY <1>7 DEF Crash, GraphStep, graphVars
<1>8. CASE UNCHANGED vars
  BY <1>8 DEF vars, GraphStep
<1> QED BY <1>1, <1>2, <1>3, <1>4, <1>5, <1>6, <1>7, <1>8
        DEF Next, Handle, LookUp, Save, Replace, Served, Req

\* A policy's number only depends on its vertex, which stays as it is.
LEMMA GraphStepGrows ==
  ASSUME TypeInv, GraphStep
  PROVE  Grows
BY VertexAdded, EdgeAdded, EdgeDeleted DEF TypeInv, GraphStep, Grows

(***************************************************************************)
(* Versions.                                                               *)
(***************************************************************************)
VertexInv == \A n \in DOMAIN vertices : Numbered(vertices[n])

EdgeInv ==
  \A e \in edges : IsPolicy(e[1]) =>
    IsPolicy(e[2]) /\ vertices[e[2]].version + 1 = vertices[e[1]].version

VersionInv == VertexInv /\ EdgeInv

LEMMA InitVersions ==
  ASSUME Init
  PROVE  VersionInv
<1>1. GraphTypeOK /\ \A n \in Live : ~IsPolicy(n)
  BY StoredType DEF Init
<1> QED BY <1>1 DEF VersionInv, VertexInv, EdgeInv, Numbered, IsPolicy, Live, GraphTypeOK

LEMMA NextVersions ==
  ASSUME TypeInv, VersionInv, [Next]_vars
  PROVE  VersionInv'
<1>1. GraphTypeOK /\ GraphStep /\ Grows
  BY GraphSteps, GraphStepGrows DEF TypeInv
<1>2. VertexInv'
  <2>1. ASSUME NEW v \in Record, Numbered(v), CreateVertex(v) PROVE VertexInv'
    <3>1. /\ DOMAIN vertices' = DOMAIN vertices \cup {NewRid} /\ Grows
          /\ vertices'[NewRid] = v
      BY <1>1, <2>1, VertexAdded
    <3>2. ASSUME NEW n \in DOMAIN vertices' PROVE Numbered(vertices'[n])
      <4>1. CASE n \in DOMAIN vertices
        BY <3>1, <4>1 DEF Grows, VersionInv, VertexInv
      <4>2. CASE n = NewRid
        BY <2>1, <3>1, <4>2
      <4> QED BY <3>1, <4>1, <4>2
    <3> QED BY <3>2 DEF VertexInv
  <2>2. CASE vertices' = vertices
    BY <2>2 DEF VersionInv, VertexInv, Numbered
  <2>3. vertices' = vertices \/ \E v \in Record : Numbered(v) /\ CreateVertex(v)
    BY <1>1 DEF GraphStep, CreateEdge, DeleteEdge
  <2> QED BY <2>1, <2>2, <2>3
<1>3. ASSUME NEW e \in edges, IsPolicy(e[1])'
      PROVE  (IsPolicy(e[2]) /\ vertices[e[2]].version + 1 = vertices[e[1]].version)'
  <2>1. e[1] \in DOMAIN vertices /\ e[2] \in DOMAIN vertices
    BY <1>1 DEF GraphTypeOK
  <2> QED BY <1>1, <1>3, <2>1 DEF Grows, IsPolicy, VersionInv, EdgeInv
<1>4. CASE edges' \subseteq edges
  BY <1>2, <1>3, <1>4 DEF VersionInv, EdgeInv
<1>5. ASSUME NEW r \in Req, pc[r] = "link", IsDirectory(loc[r].father),
             CreateEdge(loc[r].father, loc[r].node)
      PROVE  EdgeInv'
  <2>1. vertices[loc[r].father].class # "Policy"
    BY <1>5 DEF IsDirectory
  <2>2. edges' = edges \cup {<<loc[r].father, loc[r].node>>} /\ vertices' = vertices
    BY <1>1, <1>5, EdgeAdded
  <2> QED BY <1>3, <2>1, <2>2 DEF EdgeInv, IsPolicy
<1>6. ASSUME NEW r \in Req, pc[r] = "relink", IsPolicy(loc[r].old),
             CreateEdge(loc[r].node, loc[r].old)
      PROVE  EdgeInv'
  <2>1. r \in Updates /\ loc[r].version = vertices[loc[r].old].version + 1
        /\ vertices[loc[r].node] = Written(r, loc[r])
    BY <1>6, LocalsOf DEF Walking, Holding
  <2>2. vertices[loc[r].node].version = vertices[loc[r].old].version + 1
    BY <2>1, Requests DEF Written, Policy
  <2>3. edges' = edges \cup {<<loc[r].node, loc[r].old>>} /\ vertices' = vertices
    BY <1>1, <1>6, EdgeAdded
  <2> QED BY <1>3, <1>6, <2>2, <2>3 DEF EdgeInv, IsPolicy
<1> QED BY <1>1, <1>2, <1>4, <1>5, <1>6 DEF GraphStep, CreateVertex, DeleteEdge, VersionInv

LEMMA VersionInvariant == Spec => []VersionInv
<1>1. Init => VersionInv
  BY InitVersions
<1>2. TypeInv /\ VersionInv /\ [Next]_vars => VersionInv'
  BY NextVersions
<1> QED BY <1>1, <1>2, TypeInvariant, PTL DEF Spec

\* Behind every policy of every run is the version before it, down to the
\* first: updatePolicy reads a number, adds one and stores it in three
\* connections, but what it read belongs to a vertex that is never changed.
THEOREM VersionsAlwaysDescend == Spec => []VersionsDescend
<1>1. ASSUME TypeInv, VersionInv PROVE VersionsDescend
  <2>1. Live = DOMAIN vertices
    BY <1>1, TypeOfVertices DEF TypeInv
  <2>2. ASSUME NEW n \in Live, IsPolicy(n)
        PROVE  /\ vertices[n].version >= FirstVersion
               /\ \A m \in Out(n) : IsPolicy(m) /\ vertices[m].version + 1 = vertices[n].version
    <3>1. vertices[n].version >= FirstVersion
      BY <1>1, <2>1, <2>2 DEF VersionInv, VertexInv, Numbered, IsPolicy
    <3>2. ASSUME NEW m \in Out(n) PROVE IsPolicy(m) /\ vertices[m].version + 1 = vertices[n].version
      BY <1>1, <2>2, <3>2 DEF VersionInv, EdgeInv, Out
    <3> QED BY <3>1, <3>2
  <2> QED BY <2>2 DEF VersionsDescend
<1> QED BY <1>1, TypeInvariant, VersionInvariant, PTL

(***************************************************************************)
(* Names.  An update that has linked its policy and not yet cut the old    *)
(* one finds, when it does, that its folder lists the name otherwise.      *)
(***************************************************************************)
Renamed(x) == \E r \in Req : Renames(r, x)

\* Folder f lists a policy of name x that is at least version v.
Lists(f, x, v) ==
  \E m \in DOMAIN vertices : /\ <<f, m>> \in edges /\ vertices[m].class = "Policy"
                             /\ vertices[m].name = x /\ vertices[m].version >= v

Linked(r) ==
  pc[r] = "unlink" => Lists(loc[r].father, loc[r].name, loc[r].version) \/ Renamed(loc[r].name)

LinkInv == \A r \in Req : Linked(r)

\* A request keeps the name and the path it came with.
LEMMA RequestKeeps ==
  ASSUME TypeInv, [Next]_vars, NEW r \in Req, pc[r] # "new"
  PROVE  /\ pc'[r] # "new"
         /\ loc'[r].path = loc[r].path /\ loc'[r].name = loc[r].name
<1>1. loc \in [Req -> Locals] /\ pc \in [Req -> Steps] /\ loc[r] \in Locals
  BY LocalsOf DEF TypeInv, RequestInv
<1> DEFINE Kept == /\ pc'[r] # "new"
                   /\ loc'[r].path = loc[r].path /\ loc'[r].name = loc[r].name
<1>2. ASSUME NEW q \in Req, NEW n, Found(q, n) PROVE Kept
  <2>1. CASE q # r
    BY <1>1, <1>2, <2>1 DEF Found, Goto
  <2>2. CASE q = r
    <3>1. pc'[r] # "new"
      BY <1>1, <1>2, <2>2 DEF Found, Goto
    <3>2. \/ loc'[r] = [loc[r] EXCEPT !.todo = <<>>, !.father = n]
          \/ loc'[r] = [loc[r] EXCEPT !.todo = loc[r].path, !.father = n, !.want = "policy"]
          \/ loc'[r] = [loc[r] EXCEPT !.todo = <<>>, !.old = n]
          \/ loc'[r] = [loc[r] EXCEPT !.todo = <<>>, !.at = n]
      BY <1>1, <1>2, <2>2 DEF Found
    <3> QED BY <1>1, <3>1, <3>2 DEF Locals
  <2> QED BY <2>1, <2>2
<1>3. ASSUME NEW q \in Req, NEW n, HaveRoot(q, n) PROVE Kept
  <2>1. CASE q # r
    BY <1>1, <1>2, <1>3, <2>1 DEF HaveRoot, Goto
  <2>2. CASE q = r
    <3>1. pc'[r] # "new" \/ Found(r, n)
      BY <1>1, <1>3, <2>2 DEF HaveRoot, Goto
    <3>2. \/ loc'[r] = [loc[r] EXCEPT !.at = n]
          \/ \E t : loc'[r] = [loc[r] EXCEPT !.at = n, !.todo = t]
          \/ Found(r, n)
      BY <1>1, <1>3, <2>2 DEF HaveRoot
    <3> QED BY <1>1, <1>2, <3>1, <3>2 DEF Locals
  <2> QED BY <2>1, <2>2
<1>4. ASSUME NEW q \in Req, LookUp(q) PROVE Kept
  <2>1. CASE GetRoot(q) \/ CreateRoot(q)
    BY <1>1, <1>3, <2>1 DEF GetRoot, CreateRoot, Refused, Goto, Reply
  <2>2. CASE FindSon(q)
    <3>1. \/ \E n : Found(q, n)
          \/ \E n : loc' = [loc EXCEPT ![q].at = n, ![q].todo = Tail(@)] /\ Goto(q, "son")
          \/ NotFound(q)
      BY <2>2 DEF FindSon
    <3>2. CASE \E n : loc' = [loc EXCEPT ![q].at = n, ![q].todo = Tail(@)] /\ Goto(q, "son")
      <4>1. CASE q # r
        BY <1>1, <3>2, <4>1 DEF Goto
      <4>2. CASE q = r
        <5>1. PICK n : loc' = [loc EXCEPT ![q].at = n, ![q].todo = Tail(@)] /\ Goto(q, "son")
          BY <3>2
        <5>2. loc'[r] = [loc[r] EXCEPT !.at = n, !.todo = Tail(loc[r].todo)] /\ pc'[r] # "new"
          BY <1>1, <4>2, <5>1 DEF Goto
        <5> QED BY <1>1, <5>2 DEF Locals
      <4> QED BY <4>1, <4>2
    <3>3. CASE NotFound(q)
      BY <1>1, <3>3 DEF NotFound, Reply
    <3> QED BY <1>2, <3>1, <3>2, <3>3
  <2> QED BY <1>4, <2>1, <2>2 DEF LookUp
<1>5. ASSUME NEW q \in Req, Save(q) PROVE Kept
  <2>1. \/ UNCHANGED loc
        \/ \E v : loc' = [loc EXCEPT ![q].version = v]
        \/ \E n : loc' = [loc EXCEPT ![q].node = n]
    BY <1>5 DEF Save, CheckName, ReadOld, CreateNode, LinkNode, Refused
  <2>2. \/ loc'[r] = loc[r]
        \/ \E v : loc'[r] = [loc[r] EXCEPT !.version = v]
        \/ \E n : loc'[r] = [loc[r] EXCEPT !.node = n]
    <3>1. CASE q = r BY <1>1, <2>1, <3>1
    <3>2. CASE q # r BY <1>1, <2>1, <3>2
    <3> QED BY <3>1, <3>2
  <2>3. loc'[r].path = loc[r].path /\ loc'[r].name = loc[r].name
    BY <1>1, <2>2 DEF Locals
  <2>4. pc'[r] # "new"
    BY <1>1, <1>5 DEF Save, CheckName, ReadOld, CreateNode, LinkNode, Refused, Goto, Reply
  <2> QED BY <2>3, <2>4
<1>6. ASSUME NEW q \in Req, Replace(q) PROVE Kept
  <2>1. UNCHANGED loc \/ loc' = [loc EXCEPT ![q].cut = TRUE]
    BY <1>6 DEF Replace, UnlinkOld, CutOld, RelinkOld, Refused
  <2>2. loc'[r] = loc[r] \/ loc'[r] = [loc[r] EXCEPT !.cut = TRUE]
    <3>1. CASE q = r BY <1>1, <2>1, <3>1
    <3>2. CASE q # r BY <1>1, <2>1, <3>2
    <3> QED BY <3>1, <3>2
  <2>3. loc'[r].path = loc[r].path /\ loc'[r].name = loc[r].name
    BY <1>1, <2>2 DEF Locals
  <2>4. pc'[r] # "new"
    BY <1>1, <1>6 DEF Replace, UnlinkOld, RelinkOld, Refused, Goto, Reply
  <2> QED BY <2>3, <2>4
<1>7. ASSUME NEW q \in Req, Get(q) \/ StartWithoutBody(q) PROVE Kept
  BY <1>1, <1>7 DEF Get, ReadClass, ReadContent, ReadValue, StartWithoutBody, Goto, Reply
<1>8. ASSUME NEW q \in Req, Start(q) PROVE Kept
  BY <1>1, <1>8 DEF Start, Goto
<1>9. CASE Crash
  BY <1>1, <1>9 DEF Crash
<1>10. CASE UNCHANGED vars
  BY <1>10 DEF vars
<1> QED BY <1>4, <1>5, <1>6, <1>7, <1>8, <1>9, <1>10 DEF Next, Handle, Served, Req

LEMMA RenamedStays ==
  ASSUME TypeInv, [Next]_vars, NEW x, Renamed(x)
  PROVE  Renamed(x)'
<1>1. PICK r \in Req : Renames(r, x)
  BY DEF Renamed
<1>2. Renames(r, x)'
  BY <1>1, RequestKeeps DEF Renames
<1> QED BY <1>2 DEF Renamed

\* Only the handler of r moves r.
LEMMA UnlinksComeFromLinks ==
  ASSUME TypeInv, [Next]_vars, NEW r \in Req, pc'[r] = "unlink"
  PROVE  /\ loc'[r].father = loc[r].father /\ loc'[r].version = loc[r].version
         /\ loc'[r].name = loc[r].name
         /\ pc[r] = "unlink" \/ (r \in Updates /\ LinkNode(r))
<1>1. loc \in [Req -> Locals] /\ pc \in [Req -> Steps] /\ loc[r] \in Locals
  BY LocalsOf DEF TypeInv, RequestInv
<1> DEFINE Kept == /\ loc'[r].father = loc[r].father /\ loc'[r].version = loc[r].version
                   /\ loc'[r].name = loc[r].name
                   /\ pc[r] = "unlink" \/ (r \in Updates /\ LinkNode(r))
<1>2. ASSUME NEW q \in Req, NEW n, Found(q, n) PROVE Kept
  BY <1>1, <1>2 DEF Found, Goto, Locals
<1>3. ASSUME NEW q \in Req, NEW n, HaveRoot(q, n) PROVE Kept
  BY <1>1, <1>2, <1>3 DEF HaveRoot, Goto, Locals
<1>4. ASSUME NEW q \in Req, LookUp(q) PROVE Kept
  BY <1>1, <1>2, <1>3, <1>4, ZenonT(60)
     DEF LookUp, GetRoot, CreateRoot, FindSon, Refused, NotFound, Goto, Reply, Locals
<1>5. ASSUME NEW q \in Req, CheckName(q) \/ ReadOld(q) \/ CreateNode(q) PROVE Kept
  BY <1>1, <1>5 DEF CheckName, ReadOld, CreateNode, Refused, Goto, Reply, Locals
<1>6. ASSUME NEW q \in Req, LinkNode(q) PROVE Kept
  <2>1. CASE q = r
    BY <1>1, <1>6, <2>1 DEF LinkNode, Refused, Goto, Reply
  <2>2. CASE q # r
    BY <1>1, <1>6, <2>2 DEF LinkNode, Refused, Goto, Reply
  <2> QED BY <2>1, <2>2
<1>7. ASSUME NEW q \in Req, Replace(q) PROVE Kept
  BY <1>1, <1>7, ZenonT(60) DEF Replace, UnlinkOld, CutOld, RelinkOld, Refused, Goto, Reply, Locals
<1>8. ASSUME NEW q \in Req, Get(q) \/ StartWithoutBody(q) PROVE Kept
  BY <1>1, <1>8 DEF Get, ReadClass, ReadContent, ReadValue, StartWithoutBody, Goto, Reply
<1>9. ASSUME NEW q \in Req, Start(q) PROVE Kept
  BY <1>1, <1>9 DEF Start, Goto
<1>10. CASE Crash
  BY <1>1, <1>10 DEF Crash
<1>11. CASE UNCHANGED vars
  BY <1>11 DEF vars
<1> QED BY <1>4, <1>5, <1>6, <1>7, <1>8, <1>9, <1>10, <1>11
        DEF Next, Handle, Save, Served, Req

\* What a folder lists after a step: at least what it listed, unless a request
\* cut it; then the name is listed in a newer version or has been changed.
LEMMA ListsStays ==
  ASSUME TypeInv, LinkInv, [Next]_vars,
         NEW f, NEW x, NEW v \in Nat, Lists(f, x, v)
  PROVE  Lists(f, x, v)' \/ Renamed(x)
<1>1. GraphTypeOK /\ GraphStep /\ Grows
  BY GraphSteps, GraphStepGrows DEF TypeInv
<1>2. PICK m \in DOMAIN vertices : /\ <<f, m>> \in edges /\ vertices[m].class = "Policy"
                                   /\ vertices[m].name = x /\ vertices[m].version >= v
  BY DEF Lists
<1>3. ASSUME NEW n \in DOMAIN vertices, <<f, n>> \in edges', vertices[n].class = "Policy",
             vertices[n].name = x, vertices[n].version >= v
      PROVE  Lists(f, x, v)'
  BY <1>1, <1>3 DEF Grows, Lists
<1>4. CASE edges \subseteq edges'
  BY <1>2, <1>3, <1>4
<1>5. ASSUME NEW q \in Req, pc[q] = "unlink", IsPolicy(loc[q].old),
             DeleteEdge(loc[q].father, loc[q].old)
      PROVE  Lists(f, x, v)' \/ Renamed(x)
  <2>1. edges' = edges \ {<<loc[q].father, loc[q].old>>}
    BY <1>1, <1>5, EdgeDeleted
  <2>2. CASE <<f, m>> # <<loc[q].father, loc[q].old>>
    BY <1>2, <1>3, <2>1, <2>2
  <2>3. CASE f = loc[q].father /\ m = loc[q].old
    <3>1. /\ loc[q] \in Locals /\ q \in Updates
          /\ vertices[m].name = LastOf(loc[q].path) /\ loc[q].path # <<>>
          /\ loc[q].version = vertices[m].version + 1
      BY <1>5, <2>3, LocalsOf DEF Walking, Holding
    <3>2. CASE loc[q].name # x
      BY <1>2, <1>5, <3>1, <3>2 DEF Renames, Renamed, LastOf
    <3>3. CASE loc[q].name = x
      <4>1. Lists(f, x, loc[q].version) \/ Renamed(x)
        BY <1>5, <2>3, <3>3 DEF LinkInv, Linked
      <4>2. CASE Lists(f, x, loc[q].version)
        <5>1. PICK k \in DOMAIN vertices :
                /\ <<f, k>> \in edges /\ vertices[k].class = "Policy"
                /\ vertices[k].name = x /\ vertices[k].version >= loc[q].version
          BY <4>2 DEF Lists
        <5>2. vertices[m].version \in Nat /\ vertices[k].version \in Nat
          BY <1>1, TypeOfVertices DEF Record
        <5>3. k # m /\ vertices[k].version >= v
          BY <1>2, <3>1, <5>1, <5>2
        <5> QED BY <1>3, <2>1, <2>3, <5>1, <5>3
      <4> QED BY <4>1, <4>2
    <3> QED BY <3>2, <3>3
  <2> QED BY <2>2, <2>3
<1> QED BY <1>1, <1>4, <1>5 DEF GraphStep, CreateVertex, CreateEdge

LEMMA NextLinks ==
  ASSUME TypeInv, LinkInv, [Next]_vars
  PROVE  LinkInv'
<1>1. GraphTypeOK /\ Grows
  BY GraphSteps, GraphStepGrows DEF TypeInv
<1>2. ASSUME NEW r \in Req, pc'[r] = "unlink"
      PROVE  Lists(loc[r].father, loc[r].name, loc[r].version)' \/ Renamed(loc[r].name)'
  <2>1. /\ loc'[r].father = loc[r].father /\ loc'[r].version = loc[r].version
        /\ loc'[r].name = loc[r].name
        /\ pc[r] = "unlink" \/ (r \in Updates /\ LinkNode(r))
    BY <1>2, UnlinksComeFromLinks
  <2> DEFINE f == loc[r].father
             x == loc[r].name
             v == loc[r].version
  <2>2. v \in Nat /\ loc[r] \in Locals
    BY LocalsOf DEF Locals
  <2>3. CASE pc[r] = "unlink"
    <3>1. Lists(f, x, v) \/ Renamed(x)
      BY <2>3 DEF LinkInv, Linked
    <3>2. ASSUME NEW g, NEW y, NEW w \in Nat, Lists(g, y, w) \/ Renamed(y)
          PROVE  Lists(g, y, w)' \/ Renamed(y)'
      BY <3>2, ListsStays, RenamedStays
    <3> QED BY <2>1, <2>2, <3>1, <3>2 DEF Lists, Renamed
  <2>4. CASE r \in Updates /\ LinkNode(r)
    <3>1. CreateEdge(f, loc[r].node) /\ pc[r] = "link"
      BY <1>2, <2>4 DEF LinkNode, Refused, Reply, TypeInv, RequestInv
    <3>2. /\ loc[r].node \in DOMAIN vertices
          /\ vertices[loc[r].node] = Written(r, loc[r])
      BY <3>1, LocalsOf DEF Holding
    <3>3. vertices' = vertices /\ <<f, loc[r].node>> \in edges'
      BY <1>1, <3>1, EdgeAdded
    <3>4. /\ vertices[loc[r].node].class = "Policy"
          /\ vertices[loc[r].node].name = x /\ vertices[loc[r].node].version = v
      BY <2>4, <3>2, Requests DEF Written, Policy
    <3> QED BY <2>1, <2>2, <3>2, <3>3, <3>4 DEF Lists
  <2> QED BY <2>1, <2>3, <2>4
<1> QED BY <1>2 DEF LinkInv, Linked

LEMMA LinkInvariant == Spec => []LinkInv
<1>1. Init => LinkInv
  BY DEF Init, LinkInv, Linked
<1>2. TypeInv /\ LinkInv /\ [Next]_vars => LinkInv'
  BY NextLinks
<1> QED BY <1>1, <1>2, TypeInvariant, PTL DEF Spec

\* In no run does an update, failed, crashed or late, take the last policy of a
\* name out of its folder before another of that name is in it, unless some
\* update gives the policies of that name another one.
THEOREM NamesAreNeverLost == Spec => NamesStayListed
<1> DEFINE KeepsName(f, x) == IsDirectory(f) /\ Listed(f, x) =>
                            Listed(f, x)' \/ \E r \in Req : Renames(r, x)
<1>1. ASSUME TypeInv, TypeInv', LinkInv, [Next]_vars, NEW f, NEW x
      PROVE  KeepsName(f, x)
  <2>1. SUFFICES ASSUME IsDirectory(f), Listed(f, x) PROVE Listed(f, x)' \/ Renamed(x)
    BY DEF Renamed
  <2>2. Live = DOMAIN vertices /\ Live' = DOMAIN vertices'
    BY <1>1, TypeOfVertices DEF TypeInv, GraphTypeOK, Live
  <2>3. Lists(f, x, 0)
    <3>1. \A n \in DOMAIN vertices : vertices[n].version >= 0
      BY <1>1, TypeOfVertices DEF TypeInv, Record
    <3> QED BY <2>1, <2>2, <3>1 DEF Listed, Lists, IsPolicy, Out
  <2>4. Lists(f, x, 0)' => Listed(f, x)'
    BY <2>2 DEF Listed, Lists, IsPolicy, Out
  <2> QED BY <1>1, <2>3, <2>4, ListsStays
<1>2. TypeInv /\ TypeInv' /\ LinkInv /\ [Next]_vars =>
        [\A f \in Live, x \in {vertices[n].name : n \in Live} :
           IsDirectory(f) /\ Listed(f, x) => Listed(f, x)' \/ \E r \in Req : Renames(r, x)]_vars
  BY <1>1
<1> QED BY <1>2, TypeInvariant, LinkInvariant, PTL DEF Spec, NamesStayListed

(***************************************************************************)
(* What can be reached along a set of edges.                               *)
(***************************************************************************)
ClosedUnder(E, T) == \A e \in E : e[1] \in T => e[2] \in T

From(L, E, S) == {n \in L : \A T \in SUBSET L : S \subseteq T /\ ClosedUnder(E, T) => n \in T}

LEMMA BelowIsFrom == \A S : Below(S) = From(Live, edges, S)
BY DEF Below, From, ClosedUnder

LEMMA FromHas ==
  ASSUME NEW L, NEW E, NEW S, S \subseteq L
  PROVE  S \subseteq From(L, E, S) /\ From(L, E, S) \subseteq L
BY DEF From

LEMMA FromIsClosed ==
  ASSUME NEW L, NEW E, E \subseteq L \X L, NEW S
  PROVE  ClosedUnder(E, From(L, E, S))
BY DEF From, ClosedUnder

LEMMA FromIsLeast ==
  ASSUME NEW L, NEW E, NEW S, NEW T, T \subseteq L, S \subseteq T, ClosedUnder(E, T)
  PROVE  From(L, E, S) \subseteq T
BY DEF From

\* With more edges and from more vertices one reaches more.
LEMMA FromGrows ==
  ASSUME NEW L, NEW E, E \subseteq L \X L, NEW S, S \subseteq L,
         NEW M, NEW F, F \subseteq M \X M, NEW T, T \subseteq M,
         L \subseteq M, S \subseteq From(M, F, T), \A e \in E : e[1] \in From(M, F, T) => e[2] \in From(M, F, T)
  PROVE  From(L, E, S) \subseteq From(M, F, T)
<1> DEFINE U == From(M, F, T) \cap L
<1>1. U \subseteq L /\ S \subseteq U /\ ClosedUnder(E, U)
  BY DEF ClosedUnder
<1>2. From(L, E, S) \subseteq U
  BY <1>1, FromIsLeast
<1> QED BY <1>2

\* What one reaches from two sets, one reaches from one of them.
LEMMA FromUnion ==
  ASSUME NEW L, NEW E, E \subseteq L \X L, NEW S, NEW T, S \subseteq L, T \subseteq L
  PROVE  From(L, E, S \cup T) \subseteq From(L, E, S) \cup From(L, E, T)
<1> DEFINE U == From(L, E, S) \cup From(L, E, T)
<1>1. U \subseteq L /\ S \cup T \subseteq U
  BY FromHas
<1>2. ClosedUnder(E, From(L, E, S)) /\ ClosedUnder(E, From(L, E, T))
  BY FromIsClosed
<1>3. ClosedUnder(E, U)
  BY <1>2 DEF ClosedUnder
<1> QED BY <1>1, <1>3, FromIsLeast

\* What one reaches from several vertices, one reaches from one of them.
LEMMA FromOne ==
  ASSUME NEW L, NEW E, E \subseteq L \X L, NEW S, S \subseteq L, NEW n \in From(L, E, S)
  PROVE  \E s \in S : n \in From(L, E, {s})
<1> DEFINE U == UNION {From(L, E, {s}) : s \in S}
<1>1. \A s \in S : {s} \subseteq From(L, E, {s}) /\ From(L, E, {s}) \subseteq L
  BY FromHas
<1>2. \A s \in S : ClosedUnder(E, From(L, E, {s}))
  BY FromIsClosed
<1>3. U \subseteq L /\ S \subseteq U
  BY <1>1
<1>4. ClosedUnder(E, U)
  BY <1>2 DEF ClosedUnder
<1>5. n \in U
  BY <1>3, <1>4, FromIsLeast
<1> QED BY <1>5

\* Along the edges the versions go down, so a version is not behind itself.
LEMMA OlderIsOlder ==
  ASSUME GraphTypeOK, VersionInv, NEW n, IsPolicy(n), NEW m \in From(Live, edges, {n})
  PROVE  IsPolicy(m) /\ vertices[m].version <= vertices[n].version
<1> DEFINE U == {k \in Live : IsPolicy(k) /\ vertices[k].version <= vertices[n].version}
<1>1. Live = DOMAIN vertices /\ \A k \in DOMAIN vertices : vertices[k].version \in Nat
  BY TypeOfVertices DEF Record
<1>2. U \subseteq Live /\ {n} \subseteq U
  BY <1>1 DEF IsPolicy
<1>3. ClosedUnder(edges, U)
  <2>1. ASSUME NEW e \in edges, e[1] \in U PROVE e[2] \in U
    <3>1. IsPolicy(e[1]) /\ vertices[e[1]].version <= vertices[n].version
      BY <2>1
    <3>2. IsPolicy(e[2]) /\ vertices[e[2]].version + 1 = vertices[e[1]].version
      BY <3>1 DEF VersionInv, EdgeInv
    <3>3. e[2] \in Live /\ vertices[e[2]].version <= vertices[n].version
      BY <1>1, <3>1, <3>2 DEF IsPolicy
    <3> QED BY <3>2, <3>3
  <2> QED BY <2>1 DEF ClosedUnder
<1>4. From(Live, edges, {n}) \subseteq U
  BY <1>2, <1>3, FromIsLeast
<1> QED BY <1>4

(***************************************************************************)
(* Acknowledged policies.  From the folders and the policies that updates   *)
(* have cut and not been answered 201 for, one reaches every policy that is *)
(* acknowledged or linked by an update still at work.                       *)
(***************************************************************************)
AnsweredOnce == \A r \in Req : pc[r] # "done" => status[r] = 0

CutInv ==
  \A r \in Req : loc[r].cut =>
    /\ r \in Updates /\ pc[r] \in {"relink", "done"}
    /\ loc[r].old \in DOMAIN vertices

\* The request that stored policy n holds it, and stores no other.
SavedInv ==
  \A n \in DOMAIN vertices, r \in Req :
    vertices[n].class = "Policy" /\ vertices[n].text = r =>
      /\ pc[r] \in {"link", "unlink", "relink", "done"}
      /\ pc[r] # "done" => loc[r].node = n

Cutters == {r \in Updates : loc[r].cut /\ status[r] # 201}
Roots == {n \in Live : IsDirectory(n)} \cup {loc[r].old : r \in Cutters}

KeptInv ==
  \A n \in DOMAIN vertices, r \in Req :
    /\ vertices[n].class = "Policy" /\ vertices[n].text = r
    /\ status[r] = 201 \/ pc[r] \in {"unlink", "relink"}
    => n \in From(Live, edges, Roots)

BookInv == AnsweredOnce /\ CutInv /\ SavedInv /\ KeptInv

LEMMA RootsAreLive ==
  GraphTypeOK /\ CutInv => Roots \subseteq Live /\ edges \subseteq Live \X Live
<1> SUFFICES ASSUME GraphTypeOK, CutInv
             PROVE  Roots \subseteq Live /\ edges \subseteq Live \X Live
  OBVIOUS
<1>1. Live = DOMAIN vertices
  BY TypeOfVertices
<1>2. \A r \in Cutters : loc[r].old \in Live
  BY <1>1 DEF Cutters, CutInv, Req, Posts
<1> QED BY <1>1, <1>2 DEF Roots, GraphTypeOK

LEMMA RootsStayLive ==
  (GraphTypeOK /\ CutInv => Roots \subseteq Live /\ edges \subseteq Live \X Live)'
BY RootsAreLive, PTL

\* A step of a handler that neither stores nor links nor cuts a policy.
QuietStep ==
  /\ Grows /\ edges' = edges
  /\ \A n \in DOMAIN vertices' \ DOMAIN vertices : vertices'[n].class = "Directory"
  /\ \A r \in Req :
       /\ loc'[r].cut = loc[r].cut
       /\ status'[r] = 201 <=> status[r] = 201
       /\ pc'[r] # "done" => status'[r] = 0
       /\ pc[r] \in {"link", "unlink", "relink", "done"} =>
            (pc'[r] = pc[r] \/ pc'[r] = "done") /\ loc'[r] = loc[r]
       /\ pc'[r] \in {"unlink", "relink"} => pc'[r] = pc[r]

LEMMA QuietKeepsBook ==
  ASSUME TypeInv, TypeInv', BookInv, QuietStep
  PROVE  BookInv'
<1>1. GraphTypeOK /\ GraphTypeOK' /\ Grows /\ edges' = edges
  BY DEF TypeInv, QuietStep
<1>2. Live = DOMAIN vertices /\ Live' = DOMAIN vertices'
  BY <1>1, TypeOfVertices DEF Live, GraphTypeOK
<1>3. AnsweredOnce'
  BY DEF QuietStep, AnsweredOnce
<1>4. CutInv'
  BY <1>1 DEF QuietStep, Grows, BookInv, CutInv
<1>5. \A n \in DOMAIN vertices' : vertices'[n].class = "Policy" =>
        n \in DOMAIN vertices /\ vertices'[n] = vertices[n]
  BY <1>1 DEF QuietStep, Grows
<1>6. SavedInv'
  BY <1>5 DEF QuietStep, BookInv, SavedInv
<1>7. Roots \subseteq Roots'
  <2>1. ASSUME NEW n \in Live, IsDirectory(n) PROVE n \in Roots'
    BY <1>1, <1>2, <2>1 DEF Grows, IsDirectory, Roots
  <2>2. ASSUME NEW r \in Cutters PROVE loc[r].old \in Roots'
    <3>1. r \in Updates /\ loc[r].cut /\ status[r] # 201 /\ r \in Req
      BY DEF Cutters, Req, Posts
    <3>2. pc[r] \in {"relink", "done"}
      BY <3>1 DEF BookInv, CutInv
    <3>3. loc'[r] = loc[r] /\ status'[r] # 201
      BY <3>1, <3>2 DEF QuietStep
    <3> QED BY <3>1, <3>3 DEF Roots, Cutters
  <2> QED BY <2>1, <2>2 DEF Roots
<1>8. From(Live, edges, Roots) \subseteq From(Live', edges', Roots')
  <2>1. Roots \subseteq Live /\ edges \subseteq Live \X Live
    BY <1>1, RootsAreLive DEF BookInv
  <2>2. Roots' \subseteq Live' /\ edges' \subseteq Live' \X Live'
    BY <1>1, <1>4, RootsStayLive
  <2>3. Roots' \subseteq From(Live', edges', Roots')
    BY <2>2, FromHas
  <2>4. ClosedUnder(edges', From(Live', edges', Roots'))
    BY <2>2, FromIsClosed
  <2> HIDE DEF Roots
  <2> QED BY <1>1, <1>2, <1>7, <2>1, <2>2, <2>3, <2>4, FromGrows DEF ClosedUnder, Grows
<1>9. KeptInv'
  <2>1. ASSUME NEW n \in DOMAIN vertices', NEW r \in Req,
               vertices'[n].class = "Policy", vertices'[n].text = r,
               status'[r] = 201 \/ pc'[r] \in {"unlink", "relink"}
        PROVE  n \in From(Live', edges', Roots')
    <3>1. n \in DOMAIN vertices /\ vertices[n].class = "Policy" /\ vertices[n].text = r
      BY <1>5, <2>1
    <3>2. status[r] = 201 \/ pc[r] \in {"unlink", "relink"}
      BY <2>1 DEF QuietStep
    <3> QED BY <1>8, <3>1, <3>2 DEF BookInv, KeptInv
  <2> QED BY <2>1 DEF KeptInv
<1> QED BY <1>3, <1>4, <1>6, <1>9 DEF BookInv

\* Request q takes a step of its own before it stores anything.
EarlyMove(q) ==
  /\ pc[q] \notin {"create", "link", "unlink", "relink", "done"}
  /\ \/ \E s \in Steps : Goto(q, s) /\ s \notin {"link", "unlink", "relink", "done"}
     \/ \E c \in Codes : Reply(q, c) /\ c # 201
  /\ \A r \in Req : r # q => loc'[r] = loc[r]
  /\ loc'[q].cut = loc[q].cut

LEMMA EarlyMoveIsQuiet ==
  ASSUME TypeInv, BookInv, NEW q \in Req, EarlyMove(q),
         Grows, edges' = edges,
         \A n \in DOMAIN vertices' \ DOMAIN vertices : vertices'[n].class = "Directory"
  PROVE  QuietStep
<1>1. pc \in [Req -> Steps] /\ status \in [Req -> Codes]
  BY DEF TypeInv, RequestInv, AnswerInv
<1>2. status[q] = 0
  BY DEF EarlyMove, BookInv, AnsweredOnce
<1>3. ASSUME NEW r \in Req
      PROVE  /\ loc'[r].cut = loc[r].cut
             /\ status'[r] = 201 <=> status[r] = 201
             /\ pc'[r] # "done" => status'[r] = 0
             /\ pc[r] \in {"link", "unlink", "relink", "done"} =>
                  (pc'[r] = pc[r] \/ pc'[r] = "done") /\ loc'[r] = loc[r]
             /\ pc'[r] \in {"unlink", "relink"} => pc'[r] = pc[r]
  <2>1. CASE r = q
    BY <1>1, <1>2, <2>1 DEF EarlyMove, Goto, Reply
  <2>2. CASE r # q
    <3>1. loc'[r] = loc[r] /\ pc'[r] = pc[r] /\ status'[r] = status[r]
      BY <1>1, <2>2 DEF EarlyMove, Goto, Reply
    <3> QED BY <3>1 DEF BookInv, AnsweredOnce
  <2> QED BY <2>1, <2>2
<1> QED BY <1>3 DEF QuietStep

LEMMA FoundIsEarly ==
  ASSUME TypeInv, NEW q \in Req, NEW n, Found(q, n), pc[q] \in {"root", "rootMake", "son"}
  PROVE  EarlyMove(q)
<1>1. loc \in [Req -> Locals] /\ loc[q] \in Locals
  BY LocalsOf DEF TypeInv, RequestInv
<1>2. \A r \in Req : r # q => loc'[r] = loc[r]
  BY <1>1 DEF Found
<1>3. \/ loc'[q] = [loc[q] EXCEPT !.todo = <<>>, !.father = n]
      \/ loc'[q] = [loc[q] EXCEPT !.todo = loc[q].path, !.father = n, !.want = "policy"]
      \/ loc'[q] = [loc[q] EXCEPT !.todo = <<>>, !.old = n]
      \/ loc'[q] = [loc[q] EXCEPT !.todo = <<>>, !.at = n]
  BY <1>1 DEF Found
<1>4. loc'[q].cut = loc[q].cut
  BY <1>1, <1>3 DEF Locals
<1>5. \E s \in Steps : Goto(q, s) /\ s \notin {"link", "unlink", "relink", "done"}
  BY DEF Found, Steps
<1> QED BY <1>2, <1>4, <1>5 DEF EarlyMove

LEMMA HaveRootIsEarly ==
  ASSUME TypeInv, NEW q \in Req, NEW n, HaveRoot(q, n), pc[q] \in {"root", "rootMake"}
  PROVE  EarlyMove(q)
<1>1. loc \in [Req -> Locals] /\ loc[q] \in Locals
  BY LocalsOf DEF TypeInv, RequestInv
<1>2. ASSUME ~Found(q, n) PROVE EarlyMove(q)
  <2>1. \A r \in Req : r # q => loc'[r] = loc[r]
    BY <1>1, <1>2 DEF HaveRoot
  <2>2. \/ loc'[q] = [loc[q] EXCEPT !.at = n]
        \/ \E t : loc'[q] = [loc[q] EXCEPT !.at = n, !.todo = t]
    BY <1>1, <1>2 DEF HaveRoot
  <2>3. loc'[q].cut = loc[q].cut
    BY <1>1, <2>2 DEF Locals
  <2>4. \E s \in Steps : Goto(q, s) /\ s \notin {"link", "unlink", "relink", "done"}
    BY <1>2 DEF HaveRoot, Steps
  <2> QED BY <2>1, <2>3, <2>4 DEF EarlyMove
<1> QED BY <1>2, FoundIsEarly

LEMMA LookUpIsEarly ==
  ASSUME TypeInv, NEW q \in Req, LookUp(q)
  PROVE  EarlyMove(q)
<1>1. loc \in [Req -> Locals] /\ loc[q] \in Locals
  BY LocalsOf DEF TypeInv, RequestInv
<1>2. ASSUME UNCHANGED loc, pc[q] \in {"root", "rootMake", "son"},
             Goto(q, "rootMake") \/ Reply(q, 404) \/ Reply(q, 500)
      PROVE  EarlyMove(q)
  <2>1. "rootMake" \in Steps /\ 404 \in Codes /\ 500 \in Codes
    BY DEF Steps, Codes
  <2> QED BY <1>2, <2>1 DEF EarlyMove
<1>3. CASE GetRoot(q)
  BY <1>2, <1>3, HaveRootIsEarly DEF GetRoot
<1>4. CASE CreateRoot(q)
  BY <1>2, <1>4, HaveRootIsEarly DEF CreateRoot, Refused
<1>5. CASE FindSon(q)
  <2>1. ASSUME NEW n, loc' = [loc EXCEPT ![q].at = n, ![q].todo = Tail(@)], Goto(q, "son")
        PROVE  EarlyMove(q)
    <3>1. /\ \A r \in Req : r # q => loc'[r] = loc[r]
          /\ loc'[q] = [loc[q] EXCEPT !.at = n, !.todo = Tail(loc[q].todo)]
      BY <1>1, <2>1
    <3>2. loc'[q].cut = loc[q].cut
      BY <1>1, <3>1 DEF Locals
    <3> QED BY <1>5, <2>1, <3>1, <3>2 DEF EarlyMove, FindSon, Steps
  <2>2. CASE NotFound(q)
    BY <1>2, <1>5, <2>2 DEF FindSon, NotFound
  <2>3. \/ \E n : Found(q, n)
        \/ \E n : loc' = [loc EXCEPT ![q].at = n, ![q].todo = Tail(@)] /\ Goto(q, "son")
        \/ NotFound(q)
    BY <1>5 DEF FindSon
  <2> QED BY <1>5, <2>1, <2>2, <2>3, FoundIsEarly DEF FindSon
<1> QED BY <1>3, <1>4, <1>5 DEF LookUp

LEMMA StartIsEarly ==
  ASSUME TypeInv, NEW q \in Req, Start(q)
  PROVE  EarlyMove(q)
<1>1. loc \in [Req -> Locals] /\ loc[q] \in Locals
  BY LocalsOf DEF TypeInv, RequestInv
<1>2. \A r \in Req : r # q => loc'[r] = loc[r]
  BY <1>1 DEF Start
<1>3. loc'[q].cut = loc[q].cut
  <2>1. ASSUME NEW p \in Folders, NEW x \in Names, NEW y \in Replaced,
               loc' = [loc EXCEPT ![q].todo = p, ![q].name = x,
                                  ![q].path = IF q \in Updates THEN Append(p, y) ELSE <<>>]
        PROVE  loc'[q].cut = loc[q].cut
    <3> DEFINE z == IF q \in Updates THEN Append(p, y) ELSE <<>>
    <3>1. loc'[q] = [loc[q] EXCEPT !.todo = p, !.name = x, !.path = z]
      BY <1>1, <2>1
    <3> QED BY <1>1, <3>1 DEF Locals
  <2>2. ASSUME NEW p \in Asked, loc' = [loc EXCEPT ![q].todo = p, ![q].want = "element"]
        PROVE  loc'[q].cut = loc[q].cut
    <3>1. loc'[q] = [loc[q] EXCEPT !.todo = p, !.want = "element"]
      BY <1>1, <2>2
    <3> QED BY <1>1, <3>1 DEF Locals
  <2> QED BY <2>1, <2>2 DEF Start
<1> QED BY <1>2, <1>3 DEF Start, EarlyMove, Steps

LEMMA CheckOrReadIsEarly ==
  ASSUME TypeInv, NEW q \in Req, CheckName(q) \/ ReadOld(q)
  PROVE  EarlyMove(q)
<1>1. loc \in [Req -> Locals] /\ loc[q] \in Locals
  BY LocalsOf DEF TypeInv, RequestInv
<1>2. "create" \in Steps /\ 409 \in Codes /\ 500 \in Codes
  BY DEF Steps, Codes
<1>3. CASE CheckName(q)
  BY <1>2, <1>3 DEF CheckName, EarlyMove
<1>4. CASE ReadOld(q)
  <2>1. UNCHANGED loc \/ loc' = [loc EXCEPT ![q].version = vertices[loc[q].old].version + 1]
    BY <1>4 DEF ReadOld, Refused
  <2>2. /\ \A r \in Req : r # q => loc'[r] = loc[r]
        /\ loc'[q] = loc[q] \/ loc'[q] = [loc[q] EXCEPT !.version = vertices[loc[q].old].version + 1]
    BY <1>1, <2>1
  <2>3. loc'[q].cut = loc[q].cut
    BY <1>1, <2>2 DEF Locals
  <2> QED BY <1>2, <1>4, <2>2, <2>3 DEF ReadOld, Refused, EarlyMove
<1> QED BY <1>3, <1>4

LEMMA GetIsEarly ==
  ASSUME TypeInv, NEW q \in Req, Get(q) \/ StartWithoutBody(q)
  PROVE  EarlyMove(q)
<1>1. {"content", "value"} \subseteq Steps /\ {200, 400, 500} \subseteq Codes
  BY DEF Steps, Codes
<1> QED BY <1>1 DEF Get, ReadClass, ReadContent, ReadValue, StartWithoutBody, EarlyMove

\* The requests other than q are as they were.
OthersStay(q) ==
  \A r \in Req : r # q => pc'[r] = pc[r] /\ loc'[r] = loc[r] /\ status'[r] = status[r]

\* One goes on reaching what one reached, provided the roots and the sons of
\* what is reached stay within reach.
LEMMA ReachStays ==
  ASSUME TypeInv, TypeInv', CutInv, CutInv', Grows,
         Roots \subseteq From(Live', edges', Roots'),
         \A e \in edges : e[1] \in From(Live', edges', Roots') => e[2] \in From(Live', edges', Roots')
  PROVE  From(Live, edges, Roots) \subseteq From(Live', edges', Roots')
<1>1. Roots \subseteq Live /\ edges \subseteq Live \X Live
  BY RootsAreLive DEF TypeInv
<1>2. Roots' \subseteq Live' /\ edges' \subseteq Live' \X Live'
  BY RootsStayLive DEF TypeInv
<1>3. Live \subseteq Live'
  BY TypeOfVertices DEF TypeInv, Grows, Live, GraphTypeOK
<1> HIDE DEF Roots
<1> QED BY <1>1, <1>2, <1>3, FromGrows

\* The roots stay, when no request that cut is answered 201.
LEMMA RootsStay ==
  ASSUME TypeInv, TypeInv', CutInv, Grows, NEW q \in Req, OthersStay(q),
         loc[q].cut => loc'[q].cut /\ loc'[q].old = loc[q].old /\ status'[q] # 201
  PROVE  Roots \subseteq Roots'
<1>1. Live = DOMAIN vertices /\ Live' = DOMAIN vertices'
  BY TypeOfVertices DEF Live, TypeInv, GraphTypeOK
<1>2. ASSUME NEW n \in Live, IsDirectory(n) PROVE n \in Roots'
  BY <1>1, <1>2 DEF Grows, IsDirectory, Roots
<1>3. ASSUME NEW r \in Cutters PROVE loc[r].old \in Roots'
  <2>1. r \in Updates /\ loc[r].cut /\ status[r] # 201 /\ r \in Req
    BY DEF Cutters, Req, Posts
  <2>2. loc'[r].cut /\ loc'[r].old = loc[r].old /\ status'[r] # 201
    BY <2>1 DEF OthersStay
  <2> QED BY <2>1, <2>2 DEF Roots, Cutters
<1> QED BY <1>2, <1>3 DEF Roots

LEMMA CreateNodeKeepsBook ==
  ASSUME TypeInv, TypeInv', BookInv, NEW q \in Req, CreateNode(q)
  PROVE  BookInv'
<1>1. /\ pc \in [Req -> Steps] /\ status \in [Req -> Codes]
      /\ loc \in [Req -> Locals] /\ loc[q] \in Locals
  BY LocalsOf DEF TypeInv, RequestInv, AnswerInv
<1>2. /\ pc[q] = "create" /\ status[q] = 0 /\ ~loc[q].cut
      /\ NewVertex(q) \in Record /\ q \in Posts
  BY WrittenType DEF CreateNode, BookInv, AnsweredOnce, CutInv
<1>3. /\ OthersStay(q) /\ pc'[q] \in {"link", "done"} /\ status'[q] \in {0, 500}
      /\ pc'[q] # "done" => status'[q] = 0
  BY <1>1, <1>2 DEF CreateNode, Refused, Goto, Reply, OthersStay
<1>4. /\ loc'[q] = loc[q] \/ loc'[q] = [loc[q] EXCEPT !.node = NewRid]
      /\ pc'[q] = "link" => loc'[q].node = NewRid
  <2>1. CASE loc' = [loc EXCEPT ![q].node = NewRid]
    <3>1. loc'[q] = [loc[q] EXCEPT !.node = NewRid]
      BY <1>1, <2>1
    <3>2. loc'[q].node = NewRid
      BY <1>1, <3>1 DEF Locals
    <3> QED BY <3>1, <3>2
  <2>2. CASE UNCHANGED loc /\ Reply(q, 500)
    BY <1>1, <2>2 DEF Reply
  <2> QED BY <2>1, <2>2 DEF CreateNode, Refused
<1>5. ~loc'[q].cut
  BY <1>1, <1>2, <1>4 DEF Locals
<1>6. Grows /\ edges' = edges
  BY <1>2, VertexAdded, GraphStays DEF CreateNode, Refused, TypeInv
<1>7. \A n \in DOMAIN vertices' \ DOMAIN vertices : n = NewRid /\ vertices'[n] = NewVertex(q)
  <2>1. CASE CreateVertex(NewVertex(q))
    BY <1>2, <2>1, VertexAdded DEF TypeInv
  <2>2. CASE UNCHANGED graphVars
    BY <2>2 DEF graphVars
  <2> QED BY <2>1, <2>2 DEF CreateNode, Refused
<1>8. AnsweredOnce'
  BY <1>3 DEF OthersStay, BookInv, AnsweredOnce
<1>9. CutInv'
  BY <1>3, <1>5, <1>6 DEF OthersStay, BookInv, CutInv, Grows
\* Before, q had stored nothing.
<1>10. \A n \in DOMAIN vertices : vertices[n].class = "Policy" => vertices[n].text # q
  BY <1>2 DEF BookInv, SavedInv
<1>11. NewVertex(q).class = "Policy" => NewVertex(q).text = q
  BY DEF NewVertex, Directory, Policy
<1>12. SavedInv'
  <2>1. ASSUME NEW n \in DOMAIN vertices', NEW r \in Req,
               vertices'[n].class = "Policy", vertices'[n].text = r
        PROVE  /\ pc'[r] \in {"link", "unlink", "relink", "done"}
               /\ pc'[r] # "done" => loc'[r].node = n
    <3>1. CASE n \in DOMAIN vertices
      <4>1. vertices[n].class = "Policy" /\ vertices[n].text = r /\ r # q
        BY <1>6, <1>10, <2>1, <3>1 DEF Grows
      <4> QED BY <1>3, <3>1, <4>1 DEF OthersStay, BookInv, SavedInv
    <3>2. CASE n \notin DOMAIN vertices
      BY <1>3, <1>4, <1>7, <1>11, <2>1, <3>2
    <3> QED BY <3>1, <3>2
  <2> QED BY <2>1 DEF SavedInv
<1>13. From(Live, edges, Roots) \subseteq From(Live', edges', Roots')
  <2>1. Roots \subseteq Roots'
    BY <1>2, <1>3, <1>6, RootsStay DEF BookInv
  <2>2. Roots' \subseteq Live' /\ edges' \subseteq Live' \X Live'
    BY <1>9, RootsStayLive DEF TypeInv
  <2>3. Roots' \subseteq From(Live', edges', Roots') /\ ClosedUnder(edges', From(Live', edges', Roots'))
    BY <2>2, FromHas, FromIsClosed
  <2> HIDE DEF Roots
  <2> QED BY <1>6, <1>9, <2>1, <2>3, ReachStays DEF BookInv, ClosedUnder
<1>14. KeptInv'
  <2>1. ASSUME NEW n \in DOMAIN vertices', NEW r \in Req,
               vertices'[n].class = "Policy", vertices'[n].text = r,
               status'[r] = 201 \/ pc'[r] \in {"unlink", "relink"}
        PROVE  n \in From(Live', edges', Roots')
    <3>1. r # q
      BY <1>3, <2>1
    <3>2. n \in DOMAIN vertices /\ vertices'[n] = vertices[n]
      BY <1>6, <1>7, <1>11, <2>1, <3>1 DEF Grows
    <3>3. status[r] = 201 \/ pc[r] \in {"unlink", "relink"}
      BY <1>3, <2>1, <3>1 DEF OthersStay
    <3> QED BY <1>13, <2>1, <3>2, <3>3 DEF BookInv, KeptInv
  <2> QED BY <2>1 DEF KeptInv
<1> QED BY <1>8, <1>9, <1>12, <1>14 DEF BookInv

\* A handler that has stored its policy goes on.
LEMMA LateMoveKeeps ==
  ASSUME TypeInv, BookInv, NEW q \in Req, OthersStay(q), vertices' = vertices,
         pc[q] \in {"link", "unlink", "relink"}, pc'[q] \in {"unlink", "relink", "done"},
         pc'[q] # "done" => status'[q] = 0,
         loc'[q].node = loc[q].node
  PROVE  AnsweredOnce' /\ SavedInv'
<1>1. AnsweredOnce'
  BY DEF OthersStay, BookInv, AnsweredOnce
<1>2. SavedInv'
  BY DEF OthersStay, BookInv, SavedInv
<1> QED BY <1>1, <1>2

LEMMA LinkNodeKeepsBook ==
  ASSUME TypeInv, TypeInv', BookInv, NEW q \in Req, LinkNode(q)
  PROVE  BookInv'
<1>1. /\ pc \in [Req -> Steps] /\ status \in [Req -> Codes]
      /\ loc \in [Req -> Locals] /\ loc[q] \in Locals
  BY LocalsOf DEF TypeInv, RequestInv, AnswerInv
<1>2. pc[q] = "link" /\ status[q] = 0 /\ ~loc[q].cut
  BY DEF LinkNode, BookInv, AnsweredOnce, CutInv
<1>3. /\ OthersStay(q) /\ loc' = loc
      /\ pc'[q] \in {"unlink", "done"} /\ (pc'[q] # "done" => status'[q] = 0)
  BY <1>1, <1>2 DEF LinkNode, Refused, Goto, Reply, OthersStay
<1>4. vertices' = vertices /\ edges \subseteq edges' /\ Grows /\ GraphTypeOK
  BY EdgeAdded, GraphStays DEF LinkNode, Refused, TypeInv
<1>5. status'[q] = 201 \/ pc'[q] = "unlink" =>
        <<loc[q].father, loc[q].node>> \in edges' /\ IsDirectory(loc[q].father)
  BY <1>1, <1>2 DEF LinkNode, Refused, Goto, Reply, CreateEdge
<1>6. AnsweredOnce' /\ SavedInv'
  BY <1>2, <1>3, <1>4, LateMoveKeeps
<1>7. CutInv'
  BY <1>2, <1>3, <1>4 DEF OthersStay, BookInv, CutInv
<1>8. Roots' \subseteq From(Live', edges', Roots') /\ ClosedUnder(edges', From(Live', edges', Roots'))
  <2>1. Roots' \subseteq Live' /\ edges' \subseteq Live' \X Live'
    BY <1>7, RootsStayLive DEF TypeInv
  <2> QED BY <2>1, FromHas, FromIsClosed
<1>9. From(Live, edges, Roots) \subseteq From(Live', edges', Roots')
  <2>1. Roots \subseteq Roots'
    BY <1>2, <1>3, <1>4, RootsStay DEF BookInv
  <2> HIDE DEF Roots
  <2> QED BY <1>4, <1>7, <1>8, <2>1, ReachStays DEF BookInv, ClosedUnder
<1>10. KeptInv'
  <2>1. ASSUME NEW n \in DOMAIN vertices', NEW r \in Req,
               vertices'[n].class = "Policy", vertices'[n].text = r,
               status'[r] = 201 \/ pc'[r] \in {"unlink", "relink"}
        PROVE  n \in From(Live', edges', Roots')
    <3>1. CASE r # q
      BY <1>3, <1>4, <1>9, <2>1, <3>1 DEF OthersStay, BookInv, KeptInv
    <3>2. CASE r = q
      <4>1. n = loc[q].node
        BY <1>2, <1>4, <2>1, <3>2 DEF BookInv, SavedInv
      <4>2. <<loc[q].father, n>> \in edges' /\ IsDirectory(loc[q].father)
        BY <1>3, <1>5, <2>1, <3>2, <4>1
      <4>3. loc[q].father \in Roots'
        BY <1>4, <4>2, TypeOfVertices DEF Roots, IsDirectory, Live, GraphTypeOK, TypeInv
      <4> QED BY <1>8, <4>2, <4>3 DEF ClosedUnder
    <3> QED BY <3>1, <3>2
  <2> QED BY <2>1 DEF KeptInv
<1> QED BY <1>6, <1>7, <1>10 DEF BookInv

LEMMA UnlinkOldKeepsBook ==
  ASSUME TypeInv, TypeInv', BookInv, NEW q \in Req, UnlinkOld(q)
  PROVE  BookInv'
<1>1. /\ pc \in [Req -> Steps] /\ status \in [Req -> Codes]
      /\ loc \in [Req -> Locals] /\ loc[q] \in Locals
  BY LocalsOf DEF TypeInv, RequestInv, AnswerInv
<1>2. /\ pc[q] = "unlink" /\ status[q] = 0 /\ ~loc[q].cut
      /\ q \in Updates /\ loc[q].old \in DOMAIN vertices
  BY LocalsOf DEF UnlinkOld, BookInv, AnsweredOnce, CutInv, Walking, Holding
<1>3. /\ OthersStay(q)
      /\ pc'[q] \in {"relink", "done"} /\ (pc'[q] # "done" => status'[q] = 0)
      /\ status'[q] \in {0, 500}
  BY <1>1, <1>2 DEF UnlinkOld, CutOld, Goto, Reply, OthersStay
<1>4. loc'[q] = loc[q] \/ loc'[q] = [loc[q] EXCEPT !.cut = TRUE]
  BY <1>1 DEF UnlinkOld, CutOld
<1>5. loc'[q].node = loc[q].node /\ loc'[q].old = loc[q].old
  BY <1>1, <1>4 DEF Locals
<1>6. vertices' = vertices /\ Grows /\ GraphTypeOK
  BY EdgeDeleted, GraphStays DEF UnlinkOld, CutOld, TypeInv
\* The old policy is a root once its edge is gone.
<1>7. edges' = edges \/ (loc'[q].cut /\ edges' = edges \ {<<loc[q].father, loc[q].old>>})
  <2>1. CASE CutOld(q)
    <3>1. loc'[q] = [loc[q] EXCEPT !.cut = TRUE]
      BY <1>1, <2>1 DEF CutOld
    <3>2. loc'[q].cut
      BY <1>1, <3>1 DEF Locals
    <3> QED BY <2>1, <3>2, EdgeDeleted, GraphStays DEF CutOld, TypeInv
  <2>2. CASE UNCHANGED graphVars
    BY <2>2 DEF graphVars
  <2> QED BY <2>1, <2>2 DEF UnlinkOld
<1>8. AnsweredOnce' /\ SavedInv'
  BY <1>2, <1>3, <1>5, <1>6, LateMoveKeeps
<1>9. CutInv'
  BY <1>2, <1>3, <1>5, <1>6 DEF OthersStay, BookInv, CutInv
<1>10. Roots' \subseteq From(Live', edges', Roots') /\ ClosedUnder(edges', From(Live', edges', Roots'))
  <2>1. Roots' \subseteq Live' /\ edges' \subseteq Live' \X Live'
    BY <1>9, RootsStayLive DEF TypeInv
  <2> QED BY <2>1, FromHas, FromIsClosed
<1>11. From(Live, edges, Roots) \subseteq From(Live', edges', Roots')
  <2>1. Roots \subseteq Roots'
    BY <1>2, <1>3, <1>6, RootsStay DEF BookInv
  <2>2. loc'[q].cut => loc[q].old \in Roots'
    BY <1>2, <1>3, <1>5 DEF Roots, Cutters
  <2> HIDE DEF Roots
  <2>3. ASSUME NEW e \in edges, e[1] \in From(Live', edges', Roots')
        PROVE  e[2] \in From(Live', edges', Roots')
    <3>1. CASE e \in edges'
      BY <1>10, <2>3, <3>1 DEF ClosedUnder
    <3>2. CASE e \notin edges'
      BY <1>7, <1>10, <2>2, <3>2
    <3> QED BY <3>1, <3>2
  <2> QED BY <1>6, <1>9, <1>10, <2>1, <2>3, ReachStays DEF BookInv
<1>12. KeptInv'
  <2>1. ASSUME NEW n \in DOMAIN vertices', NEW r \in Req,
               vertices'[n].class = "Policy", vertices'[n].text = r,
               status'[r] = 201 \/ pc'[r] \in {"unlink", "relink"}
        PROVE  n \in From(Live', edges', Roots')
    <3>1. status[r] = 201 \/ pc[r] \in {"unlink", "relink"}
      BY <1>2, <1>3, <2>1 DEF OthersStay
    <3> QED BY <1>6, <1>11, <2>1, <3>1 DEF BookInv, KeptInv
  <2> QED BY <2>1 DEF KeptInv
<1> QED BY <1>8, <1>9, <1>12 DEF BookInv

LEMMA RelinkOldKeepsBook ==
  ASSUME TypeInv, TypeInv', VersionInv, BookInv, NEW q \in Req, RelinkOld(q)
  PROVE  BookInv'
<1>1. /\ pc \in [Req -> Steps] /\ status \in [Req -> Codes]
      /\ loc \in [Req -> Locals] /\ loc[q] \in Locals
  BY LocalsOf DEF TypeInv, RequestInv, AnswerInv
<1>2. /\ pc[q] = "relink" /\ status[q] = 0 /\ q \in Updates
      /\ loc[q].old \in DOMAIN vertices /\ loc[q].node \in DOMAIN vertices
      /\ loc[q].version = vertices[loc[q].old].version + 1
      /\ vertices[loc[q].node] = Written(q, loc[q])
  BY LocalsOf DEF RelinkOld, BookInv, AnsweredOnce, Walking, Holding
<1>3. OthersStay(q) /\ loc' = loc /\ pc'[q] = "done"
  BY <1>1 DEF RelinkOld, Refused, Reply, OthersStay
<1>4. vertices' = vertices /\ edges \subseteq edges' /\ Grows /\ GraphTypeOK
  BY EdgeAdded, GraphStays DEF RelinkOld, LinkOld, Refused, TypeInv
<1>5. status'[q] = 201 =>
        IsPolicy(loc[q].old) /\ <<loc[q].node, loc[q].old>> \in edges'
  BY <1>1 DEF RelinkOld, LinkOld, Refused, Reply, CreateEdge
<1>6. AnsweredOnce' /\ SavedInv'
  BY <1>2, <1>3, <1>4, LateMoveKeeps
<1>7. CutInv'
  BY <1>2, <1>3, <1>4 DEF OthersStay, BookInv, CutInv
<1>8. Roots' \subseteq From(Live', edges', Roots') /\ ClosedUnder(edges', From(Live', edges', Roots'))
  <2>1. Roots' \subseteq Live' /\ edges' \subseteq Live' \X Live'
    BY <1>7, RootsStayLive DEF TypeInv
  <2> QED BY <2>1, FromHas, FromIsClosed
\* Only the policy q cut may stop being a root.
<1>9. Roots \ {loc[q].old} \subseteq Roots'
  <2>1. Live = DOMAIN vertices /\ Live' = DOMAIN vertices'
    BY TypeOfVertices DEF Live, TypeInv, GraphTypeOK
  <2>2. ASSUME NEW n \in Live, IsDirectory(n) PROVE n \in Roots'
    BY <1>4, <2>1, <2>2 DEF IsDirectory, Roots
  <2>3. ASSUME NEW r \in Cutters, r # q PROVE loc[r].old \in Roots'
    BY <1>3, <2>3 DEF OthersStay, Roots, Cutters, Req, Posts
  <2> QED BY <2>2, <2>3 DEF Roots
<1>10. status'[q] # 201 => Roots \subseteq Roots'
  BY <1>3, <1>4, RootsStay DEF BookInv
<1>11. Roots \subseteq Live /\ edges \subseteq Live \X Live /\ Live' = Live
  BY <1>4, RootsAreLive, EdgeAdded, GraphStays
     DEF BookInv, TypeInv, Live, RelinkOld, LinkOld, Refused
\* If it does, it is reached from the policy that took its place, which is not
\* reached from it.
<1>12. Roots \subseteq From(Live', edges', Roots')
  <2>1. CASE status'[q] # 201
    BY <1>8, <1>10, <2>1
  <2>2. CASE status'[q] = 201
    <3> DEFINE node == loc[q].node
               old == loc[q].old
    <3>1. /\ vertices[node].class = "Policy" /\ vertices[node].text = q
          /\ vertices[node].version = vertices[old].version + 1
      BY <1>2, Requests DEF Written, Policy
    <3>2. node \in From(Live, edges, Roots)
      BY <1>2, <3>1 DEF BookInv, KeptInv, Req, Posts
    <3>3. PICK s \in Roots : node \in From(Live, edges, {s})
      <4> HIDE DEF Roots, node
      <4> QED BY <1>11, <3>2, FromOne
    <3>4. s # old
      <4>1. IsPolicy(old)
        BY <1>5, <2>2
      <4>2. node \in From(Live, edges, {old}) => vertices[node].version <= vertices[old].version
        BY <1>4, <4>1, OlderIsOlder
      <4>3. vertices[old].version \in Nat
        BY <1>2, <1>4, TypeOfVertices DEF Record
      <4>4. ~(vertices[node].version <= vertices[old].version)
        BY <3>1, <4>3
      <4>5. node \notin From(Live, edges, {old})
        BY <4>2, <4>4
      <4> HIDE DEF node, old
      <4> QED BY <3>3, <4>5
    <3>5. s \in Roots' /\ {s} \subseteq Live
      BY <1>9, <1>11, <3>3, <3>4
    <3>6. From(Live, edges, {s}) \subseteq From(Live', edges', Roots')
      <4>1. Roots' \subseteq Live' /\ edges' \subseteq Live' \X Live'
        BY <1>7, RootsStayLive DEF TypeInv
      <4>2. {s} \subseteq From(Live', edges', Roots')
        BY <1>8, <3>5
      <4>3. \A e \in edges : e[1] \in From(Live', edges', Roots') => e[2] \in From(Live', edges', Roots')
        BY <1>4, <1>8 DEF ClosedUnder
      <4> HIDE DEF Roots
      <4> QED BY <1>11, <3>5, <4>1, <4>2, <4>3, FromGrows
    <3>7. node \in From(Live', edges', Roots') /\ <<node, old>> \in edges'
      BY <1>5, <2>2, <3>3, <3>6
    <3>8. old \in From(Live', edges', Roots')
      BY <1>8, <3>7 DEF ClosedUnder
    <3> QED BY <1>8, <1>9, <3>8
  <2> QED BY <2>1, <2>2
<1>13. From(Live, edges, Roots) \subseteq From(Live', edges', Roots')
  <2> HIDE DEF Roots
  <2> QED BY <1>4, <1>7, <1>8, <1>12, ReachStays DEF BookInv, ClosedUnder
<1>14. KeptInv'
  <2>1. ASSUME NEW n \in DOMAIN vertices', NEW r \in Req,
               vertices'[n].class = "Policy", vertices'[n].text = r,
               status'[r] = 201 \/ pc'[r] \in {"unlink", "relink"}
        PROVE  n \in From(Live', edges', Roots')
    <3>1. status[r] = 201 \/ pc[r] \in {"unlink", "relink"}
      BY <1>2, <1>3, <2>1 DEF OthersStay
    <3> QED BY <1>4, <1>13, <2>1, <3>1 DEF BookInv, KeptInv
  <2> QED BY <2>1 DEF KeptInv
<1> QED BY <1>6, <1>7, <1>14 DEF BookInv

LEMMA QuietSteps ==
  ASSUME TypeInv, BookInv, [Next]_vars,
         \A q \in Req : ~(CreateNode(q) \/ LinkNode(q) \/ UnlinkOld(q) \/ RelinkOld(q))
  PROVE  QuietStep
<1>1. ASSUME NEW q \in Req, \/ Start(q) \/ GetRoot(q) \/ FindSon(q) \/ CheckName(q) \/ ReadOld(q)
                            \/ Get(q) \/ StartWithoutBody(q)
      PROVE  QuietStep
  <2>1. EarlyMove(q)
    BY <1>1, StartIsEarly, LookUpIsEarly, CheckOrReadIsEarly, GetIsEarly DEF LookUp
  <2>2. UNCHANGED graphVars
    BY <1>1 DEF Start, GetRoot, FindSon, CheckName, ReadOld, Refused, Get, ReadClass, ReadContent,
                ReadValue, StartWithoutBody
  <2>3. Grows /\ edges' = edges /\ vertices' = vertices
    BY <2>2, GraphStays DEF TypeInv
  <2> QED BY <2>1, <2>3, EarlyMoveIsQuiet
<1>2. ASSUME NEW q \in Req, CreateRoot(q)
      PROVE  QuietStep
  <2>1. EarlyMove(q)
    BY <1>2, LookUpIsEarly DEF LookUp
  <2>2. Directory(RootName) \in Record
    <3>1. RootName \in STRING
      BY Inputs DEF RootName
    <3> QED BY <3>1 DEF Directory, Record
  <2>3. /\ Grows /\ edges' = edges
        /\ \A n \in DOMAIN vertices' \ DOMAIN vertices : vertices'[n].class = "Directory"
    <3>1. CASE CreateVertex(Directory(RootName))
      BY <2>2, <3>1, VertexAdded DEF TypeInv, Directory
    <3>2. CASE UNCHANGED graphVars
      BY <3>2, GraphStays DEF TypeInv
    <3> QED BY <1>2, <3>1, <3>2 DEF CreateRoot, Refused
  <2> QED BY <2>1, <2>3, EarlyMoveIsQuiet
<1>3. CASE Crash
  <2>1. Grows /\ edges' = edges /\ vertices' = vertices /\ UNCHANGED <<loc, status>>
    BY <1>3, GraphStays DEF Crash, TypeInv
  <2>2. \A r \in Req : pc'[r] = "done" \/ pc'[r] = pc[r]
    BY <1>3 DEF Crash
  <2> QED BY <2>1, <2>2 DEF QuietStep, BookInv, AnsweredOnce
<1>4. CASE UNCHANGED vars
  <2>1. Grows
    BY <1>4, GraphStays DEF vars, TypeInv, graphVars
  <2> QED BY <1>4, <2>1 DEF vars, QuietStep, BookInv, AnsweredOnce
<1> QED BY <1>1, <1>2, <1>3, <1>4 DEF Next, Handle, LookUp, Save, Replace, Served, Req

LEMMA NextBook ==
  ASSUME TypeInv, TypeInv', VersionInv, BookInv, [Next]_vars
  PROVE  BookInv'
BY QuietSteps, QuietKeepsBook, CreateNodeKeepsBook, LinkNodeKeepsBook, UnlinkOldKeepsBook,
   RelinkOldKeepsBook

LEMMA InitBook ==
  ASSUME Init
  PROVE  BookInv
<1>1. /\ pc = [r \in Req |-> "new"] /\ loc = [r \in Req |-> NewLocals]
      /\ status = [r \in Req |-> 0] /\ ~NewLocals.cut
  BY DEF Init, NewLocals
<1>2. GraphTypeOK /\ \A n \in DOMAIN vertices : vertices[n].class # "Policy"
  BY StoredType DEF Init, IsPolicy, Live, GraphTypeOK
<1> QED BY <1>1, <1>2 DEF BookInv, AnsweredOnce, CutInv, SavedInv, KeptInv

LEMMA BookInvariant == Spec => []BookInv
<1>1. TypeInv /\ TypeInv' /\ VersionInv /\ BookInv /\ [Next]_vars => BookInv'
  BY NextBook
<1>2. Init => BookInv
  BY InitBook
<1> QED BY <1>1, <1>2, TypeInvariant, VersionInvariant, PTL DEF Spec

\* In every run a policy whose creation or update was answered 201 can be found
\* from its folder, in it or behind a newer version, except where an update that
\* was not answered 201 has taken it, or a newer version, out of the folder.
THEOREM AcknowledgedPoliciesAreKept == Spec => []AcknowledgedIsKept
<1>1. ASSUME TypeInv, VersionInv, BookInv PROVE AcknowledgedIsKept
  <2>1. /\ Roots \subseteq Live /\ edges \subseteq Live \X Live
        /\ Live = DOMAIN vertices
    BY <1>1, RootsAreLive, TypeOfVertices DEF TypeInv, BookInv
  <2>2. ASSUME NEW n \in Live, IsPolicy(n), status[vertices[n].text] = 201, n \notin Reach
        PROVE  \E r \in Updates : loc[r].cut /\ status[r] # 201 /\ n \in Older(loc[r].old)
    <3>1. vertices[n].text \in Req
      BY <1>1, <2>1, <2>2 DEF VersionInv, VertexInv, Numbered, IsPolicy, Req
    <3>2. n \in From(Live, edges, Roots)
      BY <1>1, <2>1, <2>2, <3>1 DEF BookInv, KeptInv, IsPolicy
    <3> DEFINE D == {k \in Live : IsDirectory(k)}
               C == {loc[r].old : r \in Cutters}
    <3>3. D \subseteq Live /\ C \subseteq Live /\ Roots = D \cup C
      BY <2>1 DEF Roots
    <3>4. n \notin From(Live, edges, D)
      BY <2>2, BelowIsFrom DEF Reach
    <3> HIDE DEF D, C
    <3>5. n \in From(Live, edges, C)
      BY <2>1, <3>2, <3>3, <3>4, FromUnion
    <3>6. PICK c \in C : n \in From(Live, edges, {c})
      BY <2>1, <3>3, <3>5, FromOne
    <3>7. PICK r \in Cutters : c = loc[r].old
      BY <3>6 DEF C
    <3> QED BY <3>6, <3>7, BelowIsFrom DEF Older, Cutters
  <2> QED BY <2>2 DEF AcknowledgedIsKept
<1> QED BY <1>1, TypeInvariant, VersionInvariant, BookInvariant, PTL

(***************************************************************************)
(* PathOf and History are recursive functions.  Each follows the edges of   *)
(* the graph in one direction, in which a rank of the vertices goes down,   *)
(* so that the function its equation describes exists.                     *)
(***************************************************************************)
\* A set of numbers that is not empty has a least one.
LEMMA LeastNumber ==
  ASSUME NEW T, T \subseteq Nat, T # {}
  PROVE  \E x \in T : \A y \in T : ~(y < x)
<1>1. PICK x \in T : \A y \in T : ~(<<y, x>> \in OpToRel(<, Nat))
  BY WFMin, NatLessThanWellFounded
<1> QED BY <1>1 DEF OpToRel

\* What f is at the elements of S, from the next ones N, the first words B and
\* the last words W: a word for each element on the way.
Follows(f, S, N, B, W) ==
  f = [n \in S |-> IF N[n] = {} THEN B[n] ELSE Append(f[CHOOSE m \in N[n] : TRUE], W[n])]

\* A function that looks at elements of lower rank only exists.
LEMMA FollowersExist ==
  ASSUME NEW S, NEW N, NEW B, NEW W, NEW b \in Nat, NEW R \in [S -> 0 .. b],
         \A n \in S : \A m \in N[n] : m \in S /\ R[m] < R[n]
  PROVE  \E f : Follows(f, S, N, B, W)
<1> DEFINE D(k) == {n \in S : R[n] < k}
           Bad == {k \in Nat : ~ \E f : Follows(f, D(k), N, B, W)}
<1>1. ASSUME Bad # {} PROVE FALSE
  <2>1. PICK k \in Bad : \A j \in Bad : ~(j < k)
    <3>1. Bad \subseteq Nat
      OBVIOUS
    <3> HIDE DEF Bad
    <3> QED BY <1>1, <3>1, LeastNumber
  <2>2. k # 0
    <3>1. D(0) = {}
      OBVIOUS
    <3>2. Follows([n \in {} |-> 0], {}, N, B, W)
      BY DEF Follows
    <3> QED BY <2>1, <3>1, <3>2
  <2>3. k \in Nat /\ k - 1 \in Nat /\ k - 1 \notin Bad
    BY <2>1, <2>2
  <2>4. PICK f : Follows(f, D(k - 1), N, B, W)
    BY <2>3
  <2> DEFINE g == [n \in D(k) |->
                     IF N[n] = {} THEN B[n] ELSE Append(f[CHOOSE m \in N[n] : TRUE], W[n])]
  <2>5. \A n \in D(k - 1) : g[n] = f[n]
    <3>1. ASSUME NEW n \in D(k - 1)
          PROVE  g[n] = f[n]
      <4>1. n \in D(k)
        BY <2>3
      <4>2. f[n] = IF N[n] = {} THEN B[n] ELSE Append(f[CHOOSE m \in N[n] : TRUE], W[n])
        <5> HIDE DEF D
        <5> QED BY <2>4 DEF Follows
      <4> QED BY <4>1, <4>2
    <3> QED BY <3>1
  <2>6. \A n \in D(k) : N[n] # {} => (CHOOSE m \in N[n] : TRUE) \in D(k - 1)
    <3>1. ASSUME NEW n \in D(k), NEW m \in N[n] PROVE m \in D(k - 1)
      <4>1. m \in S /\ R[m] < R[n] /\ R[n] < k /\ R[m] \in Nat /\ R[n] \in Nat
        OBVIOUS
      <4> QED BY <2>3, <4>1
    <3> HIDE DEF D
    <3> QED BY <3>1
  <2>7. Follows(g, D(k), N, B, W)
    <3>1. \A n \in D(k) : g[n] =
            IF N[n] = {} THEN B[n] ELSE Append(g[CHOOSE m \in N[n] : TRUE], W[n])
      <4> HIDE DEF D
      <4>1. \A n \in D(k) : g[n] =
              IF N[n] = {} THEN B[n] ELSE Append(f[CHOOSE m \in N[n] : TRUE], W[n])
        OBVIOUS
      <4> HIDE DEF g
      <4> QED BY <4>1, <2>5, <2>6
    <3> HIDE DEF D
    <3>2. g = [n \in D(k) |-> g[n]]
      OBVIOUS
    <3> HIDE DEF g
    <3> QED BY <3>1, <3>2 DEF Follows
  <2> QED BY <2>1, <2>7
<1>2. b + 1 \notin Bad
  BY <1>1
<1>3. D(b + 1) = S
  BY SMT
<1> QED BY <1>2, <1>3

\* The beginnings of a sequence.
LEMMA Beginnings ==
  ASSUME NEW S, NEW s \in Seq(S)
  PROVE  /\ SubSeq(s, 1, 0) = <<>>
         /\ \A k \in 0 .. Len(s) : SubSeq(s, 1, k) \in Seq(S) /\ Len(SubSeq(s, 1, k)) = k
         /\ \A k \in 1 .. Len(s) : Append(SubSeq(s, 1, k - 1), s[k]) = SubSeq(s, 1, k)
<1>1. ASSUME NEW k \in 0 .. Len(s)
      PROVE  /\ SubSeq(s, 1, k) \in Seq(S) /\ Len(SubSeq(s, 1, k)) = k
             /\ \A i \in 1 .. k : SubSeq(s, 1, k)[i] = s[i]
  OBVIOUS
<1>2. ASSUME NEW k \in 1 .. Len(s)
      PROVE  Append(SubSeq(s, 1, k - 1), s[k]) = SubSeq(s, 1, k)
  <2>1. k - 1 \in 0 .. Len(s) /\ k \in 0 .. Len(s) /\ s[k] \in S /\ k \in Nat
    OBVIOUS
  <2>2. PICK p : p = SubSeq(s, 1, k - 1)
    OBVIOUS
  <2>3. PICK q : q = SubSeq(s, 1, k)
    OBVIOUS
  <2>4. p \in Seq(S) /\ Len(p) = k - 1 /\ \A i \in 1 .. k - 1 : p[i] = s[i]
    BY <1>1, <2>1, <2>2
  <2>5. q \in Seq(S) /\ Len(q) = k /\ \A i \in 1 .. k : q[i] = s[i]
    BY <1>1, <2>1, <2>3
  <2>6. Append(p, s[k]) \in Seq(S) /\ Len(Append(p, s[k])) = k
        /\ \A i \in 1 .. k : Append(p, s[k])[i] = s[i]
    BY <2>1, <2>4
  <2>7. Append(p, s[k]) = q
    BY <2>5, <2>6, SeqEqual
  <2> QED BY <2>2, <2>3, <2>7
<1>3. SubSeq(s, 1, 0) = <<>>
  OBVIOUS
<1> QED BY <1>1, <1>2, <1>3

(***************************************************************************)
(* The shape of the graph while requests are served one at a time.  The    *)
(* stem is the root and the folders stored at the start, the only ones a    *)
(* request reaches: nothing made later carries a name of its path.         *)
(***************************************************************************)
Stem == 1 .. Len(Stored) + 1

StemInv ==
  \/ vertices = <<>> /\ Stored = <<>>
  \/ /\ Stem \subseteq DOMAIN vertices
     /\ vertices[1] = Directory(RootName)
     /\ \A n \in 1 .. Len(Stored) :
          <<n, n + 1>> \in edges /\ vertices[n + 1] = Directory(Stored[n])

\* An edge leads from a folder of the stem to a later vertex, or from a policy
\* to an earlier one.  No vertex has two fathers, no policy two sons.
EdgesInv ==
  \A f, n \in DOMAIN vertices : <<f, n>> \in edges =>
    /\ \/ f \in Stem /\ f < n
       \/ IsPolicy(f) /\ IsPolicy(n) /\ n < f
    /\ \A g \in DOMAIN vertices : <<g, n>> \in edges => g = f
    /\ IsPolicy(f) => \A m \in DOMAIN vertices : <<f, m>> \in edges => m = n

\* A request stores one policy, and what it stores has the name it gave.
StoredInv ==
  /\ \A m, n \in DOMAIN vertices :
       IsPolicy(m) /\ IsPolicy(n) /\ vertices[m].text = vertices[n].text => m = n
  /\ \A n \in DOMAIN vertices : n \notin Stem => vertices[n].name \in Names

Shape == GraphTypeOK /\ StemInv /\ EdgesInv /\ StoredInv

LEMMA StoredNames == Stored \in Seq(DOMAIN Lower) /\ Len(Stored) \in Nat
<1>1. Stored \in Seq(DOMAIN Lower)
  BY Inputs, Zenon
<1> QED BY <1>1

LEMMA StemIsDirectories ==
  ASSUME Shape
  PROVE  /\ Live = DOMAIN vertices
         /\ DOMAIN vertices = 1 .. Len(vertices) /\ Len(vertices) \in Nat
         /\ Len(Stored) \in Nat /\ Stem \subseteq Nat /\ 1 \in Stem
         /\ vertices # <<>> => Stem \subseteq DOMAIN vertices
         /\ vertices # <<>> => \A f \in Stem : IsDirectory(f) /\ ~IsPolicy(f)
         /\ \A n \in DOMAIN vertices : IsDirectory(n) <=> ~IsPolicy(n)
         /\ \A n : vertices = <<>> => n \notin DOMAIN vertices
<1>1. /\ Live = DOMAIN vertices
      /\ \A n \in DOMAIN vertices : vertices[n].class \in {"Directory", "Policy"}
  BY TypeOfVertices DEF Shape, Record
<1>2. DOMAIN vertices = 1 .. Len(vertices) /\ Len(vertices) \in Nat
  BY DEF Shape, GraphTypeOK
<1>3. Len(Stored) \in Nat
  BY StoredNames
<1>4. ASSUME vertices # <<>>, NEW f \in Stem PROVE f \in DOMAIN vertices /\ vertices[f].class = "Directory"
  <2>1. \A x : Directory(x).class = "Directory"
    BY DEF Directory
  <2>2. f = 1 \/ (f - 1 \in 1 .. Len(Stored) /\ f = (f - 1) + 1)
    BY <1>3 DEF Stem
  <2> QED BY <1>4, <2>1, <2>2 DEF Shape, StemInv
<1>5. Stem \subseteq Nat /\ 1 \in Stem
  BY <1>3 DEF Stem
<1>6. \A n \in DOMAIN vertices : IsDirectory(n) <=> ~IsPolicy(n)
  BY <1>1 DEF IsDirectory, IsPolicy
<1>7. vertices # <<>> => \A f \in Stem : f \in DOMAIN vertices /\ IsDirectory(f) /\ ~IsPolicy(f)
  BY <1>4, <1>6 DEF IsDirectory
<1>8. vertices = <<>> => DOMAIN vertices = {}
  BY <1>2
<1> QED BY <1>1, <1>2, <1>3, <1>5, <1>6, <1>7, <1>8

\* Where an edge leads.
LEMMA EdgeOf ==
  ASSUME Shape, NEW f, NEW n, <<f, n>> \in edges
  PROVE  /\ f \in DOMAIN vertices /\ n \in DOMAIN vertices
         /\ \/ f \in Stem /\ f < n /\ IsDirectory(f) /\ ~IsPolicy(f)
            \/ IsPolicy(f) /\ IsPolicy(n) /\ n < f
         /\ \A g : <<g, n>> \in edges => g = f
         /\ IsPolicy(f) => \A m : <<f, m>> \in edges => m = n
         /\ n \notin Stem => vertices[n].name \in Names
         /\ In(n) = {f}
         /\ IsPolicy(f) => Out(f) = {n}
<1>1. edges \subseteq (DOMAIN vertices) \X (DOMAIN vertices)
  BY DEF Shape, GraphTypeOK
<1>2. f \in DOMAIN vertices /\ n \in DOMAIN vertices
  BY <1>1
<1>3. /\ \A g : <<g, n>> \in edges => g \in DOMAIN vertices
      /\ \A m : <<f, m>> \in edges => m \in DOMAIN vertices
  BY <1>1
<1>4. /\ \/ f \in Stem /\ f < n
         \/ IsPolicy(f) /\ IsPolicy(n) /\ n < f
      /\ \A g : <<g, n>> \in edges => g = f
      /\ IsPolicy(f) => \A m : <<f, m>> \in edges => m = n
      /\ n \notin Stem => vertices[n].name \in Names
  BY <1>2, <1>3 DEF Shape, EdgesInv, StoredInv
<1>5. /\ Live = DOMAIN vertices
      /\ f \in Stem => IsDirectory(f) /\ ~IsPolicy(f)
  BY <1>2, StemIsDirectories
<1> QED BY <1>2, <1>3, <1>4, <1>5 DEF In, Out

\* The stem hangs together.
LEMMA FatherInStem ==
  ASSUME Shape, vertices # <<>>, NEW n \in Stem
  PROVE  /\ n = 1 => In(n) = {}
         /\ n # 1 => n - 1 \in Stem /\ <<n - 1, n>> \in edges /\ In(n) = {n - 1}
                     /\ n - 1 \in 1 .. Len(Stored) /\ vertices[n].name = Stored[n - 1]
<1>1. n \in DOMAIN vertices /\ ~IsPolicy(n) /\ n \in Nat /\ Len(Stored) \in Nat
  BY StemIsDirectories
<1>2. ASSUME n = 1, NEW f \in In(n) PROVE FALSE
  <2>1. <<f, n>> \in edges
    BY DEF In
  <2> QED BY <1>1, <1>2, <2>1, EdgeOf DEF Stem
<1>3. ASSUME n # 1
      PROVE  /\ n - 1 \in Stem /\ n - 1 \in 1 .. Len(Stored)
             /\ <<n - 1, n>> \in edges /\ vertices[n].name = Stored[n - 1]
  <2>1. n - 1 \in 1 .. Len(Stored) /\ n = (n - 1) + 1 /\ n - 1 \in Stem
    BY <1>1, <1>3 DEF Stem
  <2>2. <<n - 1, n>> \in edges /\ vertices[n] = Directory(Stored[n - 1])
    BY <2>1 DEF Shape, StemInv
  <2> QED BY <2>1, <2>2 DEF Directory
<1> QED BY <1>2, <1>3, EdgeOf

(***************************************************************************)
(* Paths.                                                                  *)
(***************************************************************************)
PathsFollow ==
  PathOf = [n \in DOMAIN vertices |->
              IF In(n) = {} THEN <<>>
              ELSE Append(PathOf[CHOOSE f \in In(n) : TRUE], vertices[n].name)]

\* Upwards, first policies get later and then folders earlier.
LEMMA PathsAreDefined ==
  ASSUME Shape
  PROVE  PathsFollow
<1> DEFINE S == DOMAIN vertices
           b == 2 * Len(vertices) + 1
           N == [n \in S |-> In(n)]
           B == [n \in S |-> <<>>]
           W == [n \in S |-> vertices[n].name]
           R == [n \in S |-> IF IsPolicy(n) THEN b - n ELSE n]
<1>1. /\ Live = S /\ S = 1 .. Len(vertices) /\ Len(vertices) \in Nat
  BY StemIsDirectories
<1>2. b \in Nat /\ R \in [S -> 0 .. b]
  BY <1>1
<1>3. ASSUME NEW n \in S, NEW m \in N[n] PROVE m \in S /\ R[m] < R[n]
  <2>1. <<m, n>> \in edges
    BY DEF In
  <2>2. /\ m \in S /\ n \in S
        /\ \/ m < n /\ ~IsPolicy(m)
           \/ IsPolicy(m) /\ IsPolicy(n) /\ n < m
    BY <2>1, EdgeOf
  <2> QED BY <1>1, <2>2
<1>4. PICK f : Follows(f, S, N, B, W)
  <2> HIDE DEF S, b, N, B, W, R
  <2> QED BY <1>2, <1>3, FollowersExist
<1>5. f = [n \in DOMAIN vertices |->
             IF In(n) = {} THEN <<>>
             ELSE Append(f[CHOOSE m \in In(n) : TRUE], vertices[n].name)]
  <2>1. f = [n \in S |-> IF N[n] = {} THEN B[n] ELSE Append(f[CHOOSE m \in N[n] : TRUE], W[n])]
    <3> HIDE DEF S, N, B, W
    <3> QED BY <1>4 DEF Follows
  <2> QED BY <2>1, Zenon
<1> QED BY <1>5 DEF PathOf, PathsFollow

\* The path of a folder of the stem.
Trunk(f) == SubSeq(Stored, 1, f - 1)

LEMMA TrunkTypes ==
  /\ \A f \in Stem : Trunk(f) \in Seq(DOMAIN Lower) /\ Len(Trunk(f)) = f - 1
  /\ \A f, g \in Stem : Trunk(f) = Trunk(g) => f = g
  /\ \A f, g \in Stem : \A x, y : Append(Trunk(f), x) = Append(Trunk(g), y) => f = g /\ x = y
  /\ \A f \in Stem : \A x : Append(Trunk(f), x) # <<>>
<1>1. ASSUME NEW f \in Stem PROVE Trunk(f) \in Seq(DOMAIN Lower) /\ Len(Trunk(f)) = f - 1
  <2>1. f \in Nat /\ f - 1 \in 0 .. Len(Stored)
    BY StoredNames DEF Stem
  <2> QED BY <2>1, StoredNames, Beginnings DEF Trunk
<1>2. \A f \in Stem : f \in Nat
  BY StoredNames DEF Stem
<1>3. ASSUME NEW f \in Stem, NEW g \in Stem, NEW x, NEW y, Append(Trunk(f), x) = Append(Trunk(g), y)
      PROVE  f = g /\ x = y
  <2> DEFINE U == (DOMAIN Lower) \cup {x, y}
  <2>1. PICK s \in Seq(U) : s = Trunk(f) /\ Len(s) = f - 1
    BY <1>1
  <2>2. PICK t \in Seq(U) : t = Trunk(g) /\ Len(t) = g - 1
    BY <1>1
  <2>3. x \in U /\ y \in U
    OBVIOUS
  <2> HIDE DEF U
  <2>4. Len(Append(s, x)) = f /\ Len(Append(t, y)) = g
    BY <1>2, <2>1, <2>2, <2>3
  <2>5. Append(s, x)[f] = x /\ Append(t, y)[g] = y
    BY <1>2, <2>1, <2>2, <2>3
  <2> QED BY <1>3, <2>1, <2>2, <2>4, <2>5
<1>4. ASSUME NEW f \in Stem, NEW x PROVE Append(Trunk(f), x) # <<>>
  <2> DEFINE U == (DOMAIN Lower) \cup {x}
  <2>1. PICK s \in Seq(U) : s = Trunk(f)
    BY <1>1
  <2> QED BY <2>1
<1>5. \A f, g \in Stem : Trunk(f) = Trunk(g) => f = g
  BY <1>1, <1>2
<1> QED BY <1>1, <1>3, <1>4, <1>5

LEMMA OnePlace ==
  ASSUME NEW f \in Stem, NEW g \in Stem, NEW x, NEW y, Append(Trunk(f), x) = Append(Trunk(g), y)
  PROVE  f = g /\ x = y
BY TrunkTypes, Zenon

LEMMA PathsOfStem ==
  ASSUME Shape, vertices # <<>>, NEW n \in Stem
  PROVE  PathOf[n] = Trunk(n)
<1> DEFINE Bad == {m \in Stem : PathOf[m] # Trunk(m)}
<1>1. Stem \subseteq Nat /\ Stem \subseteq DOMAIN vertices
  BY StemIsDirectories
<1>2. ASSUME Bad # {} PROVE FALSE
  <2>1. PICK m \in Bad : \A k \in Bad : ~(k < m)
    <3>1. Bad \subseteq Nat
      BY <1>1
    <3> HIDE DEF Bad
    <3> QED BY <1>2, <3>1, LeastNumber
  <2>2. m \in Stem /\ m \in DOMAIN vertices /\ m \in Nat /\ PathOf[m] # Trunk(m)
    BY <1>1, <2>1
  <2>3. PathOf[m] = IF In(m) = {} THEN <<>>
                    ELSE Append(PathOf[CHOOSE f \in In(m) : TRUE], vertices[m].name)
    BY <2>2, PathsAreDefined DEF PathsFollow
  <2>4. CASE m = 1
    <3>1. PathOf[m] = <<>>
      BY <2>2, <2>3, <2>4, FatherInStem
    <3>2. Trunk(m) = <<>>
      BY <2>4, StoredNames, Beginnings DEF Trunk
    <3> QED BY <2>2, <3>1, <3>2
  <2>5. CASE m # 1
    <3>1. /\ m - 1 \in Stem /\ In(m) = {m - 1} /\ m - 1 \in 1 .. Len(Stored)
          /\ vertices[m].name = Stored[m - 1]
      BY <2>2, <2>5, FatherInStem
    <3>2. m - 1 < m
      BY <2>2
    <3>3. PathOf[m - 1] = Trunk(m - 1)
      BY <2>1, <3>1, <3>2
    <3>4. (CHOOSE f \in In(m) : TRUE) = m - 1
      BY <3>1
    <3>5. PathOf[m] = Append(Trunk(m - 1), Stored[m - 1])
      BY <2>3, <3>1, <3>3, <3>4
    <3>6. Append(SubSeq(Stored, 1, (m - 1) - 1), Stored[m - 1]) = SubSeq(Stored, 1, m - 1)
      BY <3>1, StoredNames, Beginnings
    <3> QED BY <2>2, <3>5, <3>6 DEF Trunk
  <2> QED BY <2>4, <2>5
<1> QED BY <1>2

\* The path of what hangs from the stem, and of a folder that hangs nowhere.
LEMMA PathsOfOthers ==
  ASSUME Shape, NEW n \in DOMAIN vertices
  PROVE  /\ In(n) = {} => PathOf[n] = <<>>
         /\ \A f \in Stem : <<f, n>> \in edges => PathOf[n] = Append(Trunk(f), vertices[n].name)
<1>1. PathOf[n] = IF In(n) = {} THEN <<>>
                  ELSE Append(PathOf[CHOOSE f \in In(n) : TRUE], vertices[n].name)
  BY PathsAreDefined DEF PathsFollow
<1>2. ASSUME NEW f \in Stem, <<f, n>> \in edges
      PROVE  PathOf[n] = Append(Trunk(f), vertices[n].name)
  <2>1. In(n) = {f} /\ (CHOOSE g \in In(n) : TRUE) = f
    BY <1>2, EdgeOf
  <2>2. vertices # <<>>
    BY StemIsDirectories
  <2> QED BY <1>1, <2>1, <2>2, PathsOfStem
<1> QED BY <1>1, <1>2

(***************************************************************************)
(* Histories.                                                              *)
(***************************************************************************)
HistoriesFollow ==
  History = [n \in DOMAIN vertices |->
               IF Out(n) = {} THEN <<vertices[n].text>>
               ELSE Append(History[CHOOSE m \in Out(n) : TRUE], vertices[n].text)]

\* Downwards, first folders get later and then policies earlier.
LEMMA HistoriesAreDefined ==
  ASSUME Shape
  PROVE  HistoriesFollow
<1> DEFINE S == DOMAIN vertices
           b == 2 * Len(vertices) + 1
           N == [n \in S |-> Out(n)]
           B == [n \in S |-> <<vertices[n].text>>]
           W == [n \in S |-> vertices[n].text]
           R == [n \in S |-> IF IsPolicy(n) THEN n ELSE b - n]
<1>1. /\ Live = S /\ S = 1 .. Len(vertices) /\ Len(vertices) \in Nat
  BY StemIsDirectories
<1>2. b \in Nat /\ R \in [S -> 0 .. b]
  BY <1>1
<1>3. ASSUME NEW n \in S, NEW m \in N[n] PROVE m \in S /\ R[m] < R[n]
  <2>1. <<n, m>> \in edges
    BY DEF Out
  <2>2. /\ m \in S /\ n \in S
        /\ \/ n < m /\ ~IsPolicy(n)
           \/ IsPolicy(m) /\ IsPolicy(n) /\ m < n
    BY <2>1, EdgeOf
  <2> QED BY <1>1, <2>2
<1>4. PICK f : Follows(f, S, N, B, W)
  <2> HIDE DEF S, b, N, B, W, R
  <2> QED BY <1>2, <1>3, FollowersExist
<1>5. f = [n \in DOMAIN vertices |->
             IF Out(n) = {} THEN <<vertices[n].text>>
             ELSE Append(f[CHOOSE m \in Out(n) : TRUE], vertices[n].text)]
  <2>1. f = [n \in S |-> IF N[n] = {} THEN B[n] ELSE Append(f[CHOOSE m \in N[n] : TRUE], W[n])]
    <3> HIDE DEF S, N, B, W
    <3> QED BY <1>4 DEF Follows
  <2> QED BY <2>1, Zenon
<1> QED BY <1>5 DEF History, HistoriesFollow

\* The history of a policy: what wrote it, after the history of the one behind.
LEMMA HistoryOf ==
  ASSUME Shape, NEW n \in DOMAIN vertices
  PROVE  /\ Out(n) = {} => History[n] = <<vertices[n].text>>
         /\ \A m : Out(n) = {m} => History[n] = Append(History[m], vertices[n].text)
<1>1. History[n] = IF Out(n) = {} THEN <<vertices[n].text>>
                   ELSE Append(History[CHOOSE m \in Out(n) : TRUE], vertices[n].text)
  BY HistoriesAreDefined DEF HistoriesFollow
<1>2. ASSUME NEW m, Out(n) = {m} PROVE (CHOOSE k \in Out(n) : TRUE) = m
  BY <1>2
<1> QED BY <1>1, <1>2

\* The sons of a policy.
LEMMA SonsOfPolicy ==
  ASSUME Shape, NEW n, IsPolicy(n)
  PROVE  Out(n) = {} \/ \E m \in DOMAIN vertices : Out(n) = {m} /\ <<n, m>> \in edges /\ IsPolicy(m) /\ m < n
<1>1. ASSUME NEW m \in Out(n)
      PROVE  m \in DOMAIN vertices /\ Out(n) = {m} /\ <<n, m>> \in edges /\ IsPolicy(m) /\ m < n
  <2>1. <<n, m>> \in edges
    BY DEF Out
  <2> QED BY <2>1, EdgeOf
<1> QED BY <1>1

LEMMA HistoriesEnd ==
  ASSUME Shape, NEW n, IsPolicy(n)
  PROVE  History[n] \in Seq(Posts \cup {NoText}) /\ LastOf(History[n]) = vertices[n].text
<1> DEFINE T == Posts \cup {NoText}
           Bad == {m \in DOMAIN vertices : IsPolicy(m) /\ History[m] \notin Seq(T)}
<1>1. DOMAIN vertices \subseteq Nat /\ \A m \in DOMAIN vertices : vertices[m].text \in T
  BY TypeOfVertices DEF Shape, Record
<1>2. ASSUME Bad # {} PROVE FALSE
  <2>1. PICK m \in Bad : \A k \in Bad : ~(k < m)
    <3>1. Bad \subseteq Nat
      BY <1>1
    <3> HIDE DEF Bad
    <3> QED BY <1>2, <3>1, LeastNumber
  <2>2. m \in DOMAIN vertices /\ IsPolicy(m) /\ vertices[m].text \in T /\ History[m] \notin Seq(T)
    BY <1>1, <2>1
  <2> HIDE DEF T
  <2>3. CASE Out(m) = {}
    <3>1. History[m] = <<vertices[m].text>>
      BY <2>2, <2>3, HistoryOf
    <3> QED BY <2>2, <3>1
  <2>4. ASSUME NEW k \in DOMAIN vertices, Out(m) = {k}, IsPolicy(k), k < m PROVE FALSE
    <3>1. History[m] = Append(History[k], vertices[m].text)
      BY <2>2, <2>4, HistoryOf
    <3>2. History[k] \in Seq(T)
      BY <2>1, <2>4
    <3> QED BY <2>2, <3>1, <3>2
  <2> QED BY <2>2, <2>3, <2>4, SonsOfPolicy
<1>3. n \in DOMAIN vertices
  BY DEF IsPolicy
<1>4. \A k \in DOMAIN vertices : IsPolicy(k) => History[k] \in Seq(T)
  BY <1>2
<1> HIDE DEF T, Bad
<1>5. ASSUME Out(n) = {} PROVE LastOf(History[n]) = vertices[n].text
  <2>1. History[n] = <<vertices[n].text>>
    BY <1>3, <1>5, HistoryOf
  <2> QED BY <2>1 DEF LastOf
<1>6. ASSUME NEW k \in DOMAIN vertices, Out(n) = {k}, IsPolicy(k)
      PROVE  LastOf(History[n]) = vertices[n].text
  <2>1. History[n] = Append(History[k], vertices[n].text)
    BY <1>3, <1>6, HistoryOf
  <2>2. PICK h \in Seq(T) : h = History[k]
    BY <1>4, <1>6
  <2>3. vertices[n].text \in T
    BY <1>1, <1>3
  <2>4. LastOf(Append(h, vertices[n].text)) = vertices[n].text
    BY <2>3 DEF LastOf
  <2> QED BY <2>1, <2>2, <2>4
<1>7. LastOf(History[n]) = vertices[n].text
  BY <1>5, <1>6, SonsOfPolicy
<1>8. History[n] \in Seq(T)
  BY <1>3, <1>4
<1>9. T = Posts \cup {NoText}
  BY DEF T
<1> QED BY <1>7, <1>8, <1>9, Zenon

(***************************************************************************)
(* Requests served one at a time.                                          *)
(***************************************************************************)
\* One request at a time, and nothing fails.
OneAtATime == MaxActive = 1 /\ MaxFaults = 0 /\ MaxCrashes = 0

\* Nothing is given the name of a folder on the way to where requests work.
FoldersApart == \A p \in Folders : \A i \in 1 .. Len(p) : p[i] \notin Names

Busy(r) == pc[r] \notin {"new", "done"}

Alone == \A q, r \in Req : Busy(q) /\ Busy(r) => q = r

\* The folder of the stem that holds what path p leads to.
Down(p) == IF Head(p) = RootName THEN Len(p) - 1 ELSE Len(p)

\* Where a request is looking, and what it has found.
LookupInv(r) ==
  /\ pc[r] \notin {"root", "rootMake"} => vertices # <<>>
  /\ loc[r].name \in Names
  /\ r \in Updates => \E p \in Folders, y \in Replaced : loc[r].path = Append(p, y)
  /\ pc[r] \in {"root", "rootMake"} /\ loc[r].want = "father" =>
       /\ loc[r].todo \in Folders
       /\ r \in Updates => \E y \in Replaced : loc[r].path = Append(loc[r].todo, y)
  /\ pc[r] = "son" =>
       /\ loc[r].at \in Stem
       /\ \A i \in 1 .. Len(loc[r].todo) :
            i < Len(loc[r].todo) \/ loc[r].want = "father" => loc[r].todo[i] \notin Names
       /\ r \in Updates => loc[r].at + Len(loc[r].todo) =
                             Down(loc[r].path) + (IF loc[r].want = "policy" THEN 1 ELSE 0)
  /\ loc[r].want = "policy" => loc[r].father = Down(loc[r].path)
  /\ loc[r].want = "policy" \/ pc[r] \in {"valid", "read", "create", "link"} =>
       loc[r].father \in Stem

Saved == {"link", "unlink", "relink"}

\* What a request has stored, and how that hangs in the graph.
StoringInv(r) ==
  /\ pc[r] \in {"read", "create"} \cup Saved /\ r \in Updates =>
       \/ pc[r] = "relink" /\ IsPolicy(loc[r].old)
       \/ <<loc[r].father, loc[r].old>> \in edges
  /\ pc[r] \in {"create", "link"} /\ r \notin Updates => ~Taken(loc[r].father, loc[r].name)
  /\ pc[r] \in Saved =>
       /\ loc[r].node = Len(vertices) /\ loc[r].father < loc[r].node
       /\ \A m : <<loc[r].node, m>> \notin edges
       /\ r \in Updates => loc[r].old < loc[r].node
  /\ pc[r] = "link" => \A m : <<m, loc[r].node>> \notin edges
  /\ pc[r] \in {"unlink", "relink"} => <<loc[r].father, loc[r].node>> \in edges
  /\ pc[r] = "relink" /\ IsPolicy(loc[r].old) => \A m : <<m, loc[r].old>> \notin edges

\* The only folder that hangs nowhere, but for the root, is the one a request
\* is about to link.
RootsInv ==
  \A n \in DOMAIN vertices : IsDirectory(n) /\ (\A m : <<m, n>> \notin edges) =>
    n = 1 \/ \E r \in Req : pc[r] = "link" /\ n = loc[r].node

WorkInv ==
  \A r \in Req :
    /\ pc[r] = "rootMake" => vertices = <<>>
    /\ r \in Posts /\ Busy(r) => LookupInv(r) /\ StoringInv(r)

SerialInv == StemInv /\ EdgesInv /\ StoredInv /\ RootsInv /\ Alone /\ WorkInv

LEMMA NothingFails ==
  ASSUME OneAtATime, TypeInv
  PROVE  ~Fails /\ ~Crash
BY DEF OneAtATime, TypeInv, AnswerInv, Fails, Crash

\* While r is served no other request is, and when r moves this stays so.
LEMMA NobodyElse ==
  ASSUME TypeInv, Alone, NEW r \in Req, Busy(r), NEW s \in Steps, pc' = [pc EXCEPT ![r] = s]
  PROVE  /\ Alone'
         /\ pc'[r] = s
         /\ \A q \in Req \ {r} : ~Busy(q) /\ pc'[q] = pc[q]
<1>1. pc \in [Req -> Steps]
  BY DEF TypeInv, RequestInv
<1>2. pc'[r] = s /\ \A q \in Req \ {r} : pc'[q] = pc[q]
  BY <1>1
<1>3. \A q \in Req \ {r} : ~Busy(q)
  BY DEF Alone
<1>4. Alone'
  BY <1>2, <1>3 DEF Alone, Busy
<1> QED BY <1>2, <1>3, <1>4

\* A request is only taken when none is served.
LEMMA NobodyAtStart ==
  ASSUME OneAtATime, TypeInv, Alone, Cardinality(Active) < MaxActive,
         NEW r \in Req, pc[r] = "new", NEW s \in Steps, pc' = [pc EXCEPT ![r] = s]
  PROVE  /\ Alone'
         /\ pc'[r] = s
         /\ \A q \in Req \ {r} : ~Busy(q) /\ pc'[q] = pc[q]
<1>1. pc \in [Req -> Steps]
  BY DEF TypeInv, RequestInv
<1>2. ASSUME NEW q \in Active PROVE FALSE
  <2>1. Active = {q}
    BY <1>2 DEF Active, Alone, Busy
  <2>2. Cardinality(Active) = 1
    BY <2>1, FS_Singleton
  <2> QED BY <2>2 DEF OneAtATime
<1>3. \A q \in Req : ~Busy(q)
  BY <1>2 DEF Active, Busy
<1>4. pc'[r] = s /\ \A q \in Req \ {r} : pc'[q] = pc[q]
  BY <1>1
<1>5. Alone'
  BY <1>3, <1>4 DEF Alone, Busy
<1> QED BY <1>3, <1>4, <1>5

\* So what is said of the requests is only to be shown of the one that moves.
LEMMA WorkMoves ==
  ASSUME WorkInv, NEW r \in Req, \A q \in Req \ {r} : ~Busy(q) /\ pc'[q] = pc[q],
         pc'[r] = "rootMake" => vertices' = <<>>,
         r \in Posts /\ pc'[r] # "done" => LookupInv(r)' /\ StoringInv(r)'
  PROVE  WorkInv'
<1>1. ASSUME NEW q \in Req
      PROVE  /\ pc'[q] = "rootMake" => vertices' = <<>>
             /\ q \in Posts /\ pc'[q] \notin {"new", "done"} => LookupInv(q)' /\ StoringInv(q)'
  <2>1. CASE q = r
    BY <2>1
  <2>2. CASE q # r
    BY <2>2 DEF Busy
  <2> QED BY <2>1, <2>2
<1> QED BY <1>1 DEF WorkInv, Busy

\* A step that leaves the graph as it is.
LEMMA GraphAsItWas ==
  ASSUME TypeInv, SerialInv, UNCHANGED graphVars, NEW r \in Req,
         \A q \in Req \ {r} : ~Busy(q) /\ pc'[q] = pc[q], pc[r] # "link"
  PROVE  StemInv' /\ EdgesInv' /\ StoredInv' /\ RootsInv'
<1>1. vertices' = vertices /\ edges' = edges
  BY DEF graphVars
<1>2. StemInv'
  BY <1>1 DEF SerialInv, StemInv, Directory
<1>3. EdgesInv'
  BY <1>1 DEF SerialInv, EdgesInv, IsPolicy
<1>4. StoredInv'
  BY <1>1 DEF SerialInv, StoredInv, IsPolicy
<1>5. \A q \in Req : pc[q] # "link"
  BY DEF Busy
<1>6. RootsInv'
  BY <1>1, <1>5 DEF SerialInv, RootsInv, IsDirectory
<1> QED BY <1>2, <1>3, <1>4, <1>6

\* The path of the policy an update replaces.
LEMMA UpdatePath ==
  ASSUME FoldersApart, NEW p \in Folders, NEW y \in Replaced
  PROVE  /\ p \in Seq(STRING) /\ p # <<>> /\ Len(p) \in Nat /\ Len(p) >= 1
         /\ Append(p, y) \in Seq(STRING) /\ Len(Append(p, y)) = Len(p) + 1
         /\ Head(Append(p, y)) = Head(p) /\ LastOf(Append(p, y)) = y
         /\ \A i \in 1 .. Len(p) : Append(p, y)[i] \notin Names
<1>1. p \in Seq(STRING) /\ p # <<>> /\ y \in STRING
  BY Inputs
<1>2. \A i \in 1 .. Len(p) : p[i] \notin Names
  BY DEF FoldersApart
<1>3. Len(p) \in Nat /\ Len(p) >= 1
  BY <1>1
<1>4. PICK s : s = Append(p, y)
  OBVIOUS
<1>5. /\ s \in Seq(STRING) /\ Len(s) = Len(p) + 1
      /\ \A i \in 1 .. Len(p) : s[i] = p[i]
      /\ s[Len(p) + 1] = y
  <2>1. Append(p, y) \in Seq(STRING) /\ Len(Append(p, y)) = Len(p) + 1
    BY <1>1, AppendProperties, Zenon
  <2>2. \A i \in 1 .. Len(p) : Append(p, y)[i] = p[i]
    BY <1>1
  <2>3. Append(p, y)[Len(p) + 1] = y
    BY <1>1, AppendProperties, Zenon
  <2> QED BY <1>4, <2>1, <2>2, <2>3
<1>8. Head(s) = s[1] /\ Head(p) = p[1]
  BY <1>1, <1>3, <1>5
<1>9. Head(s) = Head(p) /\ LastOf(s) = y
  BY <1>3, <1>5, <1>8 DEF LastOf
<1> QED BY <1>1, <1>2, <1>3, <1>4, <1>5, <1>9

\* The names left after the root is passed, and after one more folder.
LEMMA TailNames ==
  ASSUME NEW s \in Seq(STRING), s # <<>>, NEW all \in BOOLEAN,
         \A i \in 1 .. Len(s) : i < Len(s) \/ all => s[i] \notin Names
  PROVE  /\ Len(Tail(s)) = Len(s) - 1
         /\ \A i \in 1 .. Len(Tail(s)) : i < Len(Tail(s)) \/ all => Tail(s)[i] \notin Names
         /\ Len(s) \in Nat /\ Len(s) >= 1 /\ Head(s) = s[1]
<1>1. /\ Len(s) \in Nat /\ Len(s) >= 1 /\ Head(s) = s[1]
      /\ Len(Tail(s)) = Len(s) - 1
      /\ \A i \in 1 .. Len(s) - 1 : Tail(s)[i] = s[i + 1]
  OBVIOUS
<1>2. ASSUME NEW i \in 1 .. Len(s) - 1, i < Len(s) - 1 \/ all PROVE Tail(s)[i] \notin Names
  <2>1. i + 1 \in 1 .. Len(s) /\ (i + 1 < Len(s) \/ all)
    BY <1>1, <1>2
  <2>2. s[i + 1] \notin Names
    BY <2>1
  <2> QED BY <1>1, <2>2
<1> QED BY <1>1, <1>2

\* A lookup ends with the folder or the policy it was for.
LEMMA FoundSerial ==
  ASSUME TypeInv, NEW r \in Posts, NEW n, Found(r, n), LookupInv(r), vertices' # <<>>,
         loc[r].want = "father" => n \in Stem /\ (r \in Updates => n = Down(loc[r].path)),
         loc[r].want = "policy" => <<loc[r].father, n>> \in edges'
  PROVE  LookupInv(r)' /\ StoringInv(r)'
<1>1. /\ r \in Req /\ loc[r] \in Locals /\ loc \in [Req -> Locals] /\ pc \in [Req -> Steps]
      /\ loc[r].want # "element" /\ (loc[r].want = "policy" => r \in Updates)
  BY LocalsOf DEF TypeInv, RequestInv, Walking, Req
<1>2. CASE loc[r].want = "father" /\ r \notin Updates
           /\ loc' = [loc EXCEPT ![r].todo = <<>>, ![r].father = n] /\ Goto(r, "valid")
  <2>1. /\ loc'[r].want = "father" /\ loc'[r].father = n
        /\ loc'[r].name = loc[r].name /\ pc'[r] = "valid"
    BY <1>1, <1>2 DEF Locals, Goto
  <2> QED BY <1>2, <2>1 DEF LookupInv, StoringInv, Saved
<1>3. CASE loc[r].want = "father" /\ r \in Updates
           /\ loc' = [loc EXCEPT ![r].todo = loc[r].path, ![r].father = n, ![r].want = "policy"]
           /\ Goto(r, "root")
  <2>1. /\ loc'[r].want = "policy" /\ loc'[r].father = n /\ loc'[r].path = loc[r].path
        /\ loc'[r].name = loc[r].name /\ pc'[r] = "root"
    BY <1>1, <1>3 DEF Locals, Goto
  <2> QED BY <1>3, <2>1 DEF LookupInv, StoringInv, Saved
<1>4. CASE loc[r].want = "policy"
           /\ loc' = [loc EXCEPT ![r].todo = <<>>, ![r].old = n] /\ Goto(r, "read")
  <2>1. /\ loc'[r].want = "policy" /\ loc'[r].father = loc[r].father
        /\ loc'[r].path = loc[r].path /\ loc'[r].old = n
        /\ loc'[r].name = loc[r].name /\ pc'[r] = "read"
    BY <1>1, <1>4 DEF Locals, Goto
  <2> QED BY <1>1, <1>4, <2>1 DEF LookupInv, StoringInv, Saved
<1> QED BY <1>1, <1>2, <1>3, <1>4 DEF Found

\* A lookup goes on below vertex n of the stem.
LEMMA GoesDownSerial ==
  ASSUME TypeInv, NEW r \in Posts, NEW n \in Stem, NEW t, LookupInv(r), vertices' # <<>>,
         loc' = [loc EXCEPT ![r].at = n, ![r].todo = t], Goto(r, "son"),
         \A i \in 1 .. Len(t) : i < Len(t) \/ loc[r].want = "father" => t[i] \notin Names,
         r \in Updates => n + Len(t) =
            Down(loc[r].path) + (IF loc[r].want = "policy" THEN 1 ELSE 0)
  PROVE  LookupInv(r)' /\ StoringInv(r)'
<1>1. r \in Req /\ loc[r] \in Locals /\ loc \in [Req -> Locals] /\ pc \in [Req -> Steps]
  BY LocalsOf DEF TypeInv, RequestInv, Req
<1>2. /\ loc'[r].want = loc[r].want /\ loc'[r].father = loc[r].father
      /\ loc'[r].path = loc[r].path /\ loc'[r].at = n /\ loc'[r].todo = t
      /\ loc'[r].name = loc[r].name /\ pc'[r] = "son"
  BY <1>1 DEF Locals, Goto
<1>3. StoringInv(r)'
  BY <1>2 DEF StoringInv, Saved
<1>4. LookupInv(r)'
  BY <1>2 DEF LookupInv
<1> QED BY <1>3, <1>4

LEMMA HaveRootSerial ==
  ASSUME FoldersApart, TypeInv, NEW r \in Posts, pc[r] \in {"root", "rootMake"}, LookupInv(r),
         vertices' # <<>>, vertices'[1].name = RootName, HaveRoot(r, 1)
  PROVE  LookupInv(r)' /\ StoringInv(r)'
<1>1. /\ r \in Req /\ loc[r] \in Locals /\ loc \in [Req -> Locals]
      /\ loc[r].want # "element" /\ (loc[r].want = "policy" => r \in Updates)
      /\ loc[r].want = "policy" => loc[r].todo = loc[r].path
      /\ loc[r].want \in {"father", "policy"}
  BY LocalsOf DEF TypeInv, RequestInv, Walking, Req, Locals, Lookups
<1>2. 1 \in Stem
  BY StoredNames DEF Stem
<1> DEFINE todo == loc[r].todo
           t == IF Head(todo) = RootName THEN Tail(todo) ELSE todo
<1>3. /\ todo \in Seq(STRING) /\ todo # <<>>
      /\ loc[r].want = "policy" => Len(todo) > 1
      /\ \A i \in 1 .. Len(todo) : i < Len(todo) \/ loc[r].want = "father" => todo[i] \notin Names
      /\ r \in Updates => Down(loc[r].path) + (IF loc[r].want = "policy" THEN 1 ELSE 0) = 1 + Down(todo)
  <2>1. CASE loc[r].want = "father"
    <3>1. todo \in Folders
      BY <2>1 DEF LookupInv
    <3>2. todo \in Seq(STRING) /\ todo # <<>> /\ \A i \in 1 .. Len(todo) : todo[i] \notin Names
      BY <3>1, Inputs DEF FoldersApart
    <3>3. ASSUME r \in Updates PROVE Down(loc[r].path) = 1 + Down(todo)
      <4>1. PICK y \in Replaced : loc[r].path = Append(todo, y)
        BY <2>1, <3>3 DEF LookupInv
      <4> HIDE DEF todo
      <4>2. /\ Len(todo) \in Nat /\ Len(loc[r].path) = Len(todo) + 1
            /\ Head(loc[r].path) = Head(todo)
        BY <3>1, <4>1, UpdatePath
      <4> QED BY <4>2 DEF Down
    <3>4. ASSUME r \in Updates PROVE Down(loc[r].path) + 0 = 1 + Down(todo)
      <4>1. Len(todo) \in Nat
        BY <3>2
      <4> QED BY <3>3, <3>4, <4>1 DEF Down
    <3> QED BY <2>1, <3>2, <3>4
  <2>2. CASE loc[r].want = "policy"
    <3>1. PICK p \in Folders, y \in Replaced : todo = Append(p, y)
      BY <1>1, <2>2 DEF LookupInv
    <3>2. todo = loc[r].path /\ loc[r].want # "father"
      BY <1>1, <2>2
    <3> HIDE DEF todo
    <3>3. /\ Len(p) \in Nat /\ Len(p) >= 1
          /\ todo \in Seq(STRING) /\ Len(todo) = Len(p) + 1
          /\ \A i \in 1 .. Len(p) : todo[i] \notin Names
      BY <3>1, UpdatePath
    <3>4. todo # <<>> /\ Len(todo) > 1
      BY <3>3
    <3>5. \A i \in 1 .. Len(todo) : i < Len(todo) => todo[i] \notin Names
      BY <3>3
    <3>6. Down(loc[r].path) + 1 = 1 + Down(todo)
      BY <3>2, <3>3 DEF Down
    <3> QED BY <2>2, <3>2, <3>3, <3>4, <3>5, <3>6
  <2> QED BY <1>1, <2>1, <2>2
<1>4. Len(t) = Down(todo) /\ Len(todo) \in Nat /\ Len(todo) >= 1
      /\ \A i \in 1 .. Len(t) : i < Len(t) \/ loc[r].want = "father" => t[i] \notin Names
  <2> DEFINE all == loc[r].want = "father"
  <2>1. all \in BOOLEAN /\ \A i \in 1 .. Len(todo) : i < Len(todo) \/ all => todo[i] \notin Names
    BY <1>3
  <2> HIDE DEF todo, all
  <2>2. /\ Len(Tail(todo)) = Len(todo) - 1 /\ Len(todo) \in Nat /\ Len(todo) >= 1
        /\ \A i \in 1 .. Len(Tail(todo)) : i < Len(Tail(todo)) \/ all => Tail(todo)[i] \notin Names
    BY <1>3, <2>1, TailNames
  <2>3. CASE Head(todo) = RootName
    BY <2>2, <2>3 DEF Down, all
  <2>4. CASE Head(todo) # RootName
    BY <2>1, <2>2, <2>4 DEF Down, all
  <2> QED BY <2>3, <2>4
<1>5. CASE todo = <<RootName>> /\ Found(r, 1)
  <2>1. Len(todo) = 1 /\ Head(todo) = RootName /\ Down(todo) = 0
    BY <1>5 DEF Down
  <2>2. loc[r].want = "father"
    BY <1>1, <1>3, <2>1
  <2>3. r \in Updates => Down(loc[r].path) = 1
    <3>1. ASSUME r \in Updates PROVE Down(loc[r].path) = 1
      <4>1. Down(loc[r].path) + 0 = 1
        BY <1>3, <2>1, <2>2, <3>1
      <4>2. Down(loc[r].path) \in Int
        <5>1. loc[r].path \in Seq(STRING)
          BY <1>1 DEF Locals
        <5> QED BY <5>1 DEF Down
      <4> QED BY <4>1, <4>2
    <3> QED BY <3>1
  <2> QED BY <1>2, <1>5, <2>2, <2>3, FoundSerial
<1>6. CASE /\ loc' = [loc EXCEPT ![r].at = 1,
                                 ![r].todo = IF Head(@) = vertices'[1].name THEN Tail(@) ELSE @]
           /\ Goto(r, "son")
  <2>1. loc' = [loc EXCEPT ![r].at = 1, ![r].todo = t]
    BY <1>1, <1>6
  <2>2. r \in Updates => 1 + Len(t) = Down(loc[r].path) + (IF loc[r].want = "policy" THEN 1 ELSE 0)
    BY <1>3, <1>4
  <2> HIDE DEF t
  <2> QED BY <1>2, <1>4, <1>6, <2>1, <2>2, GoesDownSerial
<1> QED BY <1>3, <1>5, <1>6 DEF HaveRoot

LEMMA ShapeNow == TypeInv /\ SerialInv => Shape
BY DEF TypeInv, SerialInv, Shape

LEMMA ShapeNext == (TypeInv /\ SerialInv => Shape)'
BY ShapeNow, PTL

\* A handler goes on, and the graph stays as it is.
LEMMA QuietSerial ==
  ASSUME TypeInv, SerialInv, UNCHANGED graphVars, NEW r \in Req, Busy(r), pc[r] # "link",
         NEW s \in Steps, pc' = [pc EXCEPT ![r] = s],
         s = "rootMake" => vertices = <<>>,
         r \in Posts /\ s # "done" => LookupInv(r)' /\ StoringInv(r)'
  PROVE  SerialInv'
<1>1. /\ Alone' /\ pc'[r] = s
      /\ \A q \in Req \ {r} : ~Busy(q) /\ pc'[q] = pc[q]
  BY NobodyElse DEF SerialInv
<1>2. vertices' = vertices
  BY DEF graphVars
<1>3. StemInv' /\ EdgesInv' /\ StoredInv' /\ RootsInv'
  BY <1>1, GraphAsItWas
<1>4. WorkInv'
  BY <1>1, <1>2, WorkMoves DEF SerialInv
<1> QED BY <1>1, <1>3, <1>4 DEF SerialInv

LEMMA WorkOf ==
  ASSUME SerialInv, NEW r \in Req, Busy(r)
  PROVE  /\ pc[r] = "rootMake" => vertices = <<>>
         /\ r \in Posts => LookupInv(r) /\ StoringInv(r)
BY DEF SerialInv, WorkInv

\* While somebody looks up, the root is the only folder that hangs nowhere.
LEMMA RootIsFirst ==
  ASSUME TypeInv, SerialInv, NEW r \in Req, Busy(r), pc[r] # "link"
  PROVE  /\ RootCandidates \subseteq {1}
         /\ vertices # <<>> => 1 \in RootCandidates /\ vertices[1].name = RootName
<1>1. Shape /\ Live = DOMAIN vertices
  BY ShapeNow, StemIsDirectories
<1>2. ASSUME NEW n \in RootCandidates PROVE n = 1
  <2>1. n \in DOMAIN vertices /\ IsDirectory(n) /\ In(n) = {}
    BY <1>1 DEF RootCandidates
  <2>2. \A m : <<m, n>> \notin edges
    <3>1. ASSUME NEW m, <<m, n>> \in edges PROVE FALSE
      BY <1>1, <2>1, <3>1, EdgeOf
    <3> QED BY <3>1
  <2>3. \A q \in Req : pc[q] # "link"
    BY DEF SerialInv, Alone, Busy
  <2> QED BY <2>1, <2>2, <2>3 DEF SerialInv, RootsInv
<1>3. ASSUME vertices # <<>> PROVE 1 \in RootCandidates /\ vertices[1].name = RootName
  <2>1. vertices[1] = Directory(RootName)
    BY <1>3 DEF SerialInv, StemInv
  <2>2. 1 \in Live /\ IsDirectory(1) /\ In(1) = {}
    BY <1>1, <1>3, StemIsDirectories, FatherInStem
  <2> QED BY <2>1, <2>2 DEF RootCandidates, Directory
<1> QED BY <1>2, <1>3

\* The steps a handler can take, by name.
LEMMA StepNames ==
  /\ {"root", "rootMake", "son", "valid", "read", "create", "link", "unlink", "relink",
      "class", "content", "value", "done"} \subseteq Steps
  /\ \A s : s \notin {"new", "done"} => s # "new" /\ s # "done"
BY DEF Steps

\* Where a handler that reads may go.
LEMMA GoesTo ==
  ASSUME TypeInv, NEW r \in Req, pc[r] \in {"root", "rootMake", "son"},
         NEW n, Found(r, n) \/ HaveRoot(r, n)
  PROVE  \E s \in Steps \ {"rootMake", "new", "done"} :
            pc' = [pc EXCEPT ![r] = s] /\ status' = status
BY DEF Found, HaveRoot, Goto, Steps

LEMMA GetRootSerial ==
  ASSUME OneAtATime, FoldersApart, TypeInv, SerialInv, NEW r \in Req, GetRoot(r)
  PROVE  SerialInv'
<1>1. ~Fails /\ Busy(r) /\ pc[r] = "root" /\ UNCHANGED graphVars
  BY NothingFails DEF GetRoot, Busy
<1>2. /\ RootCandidates \subseteq {1}
      /\ vertices # <<>> => 1 \in RootCandidates /\ vertices[1].name = RootName
  BY <1>1, RootIsFirst
<1>3. ASSUME NEW n \in RootCandidates, HaveRoot(r, n) PROVE SerialInv'
  <2>1. n = 1 /\ vertices' = vertices
    BY <1>1, <1>2 DEF graphVars
  <2>2. vertices # <<>>
    <3>1. 1 \in DOMAIN vertices
      BY <1>3, <2>1 DEF RootCandidates, IsDirectory
    <3> QED BY <3>1
  <2>3. PICK s \in Steps \ {"rootMake", "new", "done"} : pc' = [pc EXCEPT ![r] = s]
    BY <1>1, <1>3, GoesTo
  <2>4. ASSUME r \in Posts PROVE LookupInv(r)' /\ StoringInv(r)'
    <3>1. LookupInv(r)
      BY <1>1, <2>4, WorkOf
    <3>2. vertices' # <<>> /\ vertices'[1].name = RootName
      BY <1>2, <2>1, <2>2
    <3> QED BY <1>1, <1>3, <2>1, <2>4, <3>1, <3>2, HaveRootSerial
  <2> QED BY <1>1, <2>3, <2>4, QuietSerial
<1>4. ASSUME RootCandidates = {}, Goto(r, "rootMake"), UNCHANGED loc PROVE SerialInv'
  <2>1. vertices = <<>>
    BY <1>2, <1>4
  <2>2. pc' = [pc EXCEPT ![r] = "rootMake"] /\ pc'[r] = "rootMake"
    BY <1>4 DEF Goto, TypeInv, RequestInv
  <2>3. ASSUME r \in Posts PROVE LookupInv(r)' /\ StoringInv(r)'
    <3>1. LookupInv(r)
      BY <1>1, <2>3, WorkOf
    <3>2. StoringInv(r)'
      BY <2>2 DEF StoringInv, Saved
    <3>3. LookupInv(r)'
      BY <1>1, <1>4, <2>2, <3>1 DEF LookupInv
    <3> QED BY <3>2, <3>3
  <2> QED BY <1>1, <2>1, <2>2, <2>3, StepNames, QuietSerial
<1> QED BY <1>1, <1>3, <1>4 DEF GetRoot

\* The first vertex of an empty database.
LEMMA CreateRootSerial ==
  ASSUME OneAtATime, FoldersApart, TypeInv, TypeInv', SerialInv, NEW r \in Req, CreateRoot(r)
  PROVE  SerialInv' /\ vertices = <<>> /\ edges = {} /\ edges' = {}
         /\ vertices' = <<Directory(RootName)>> /\ Stored = <<>>
<1>1. /\ Busy(r) /\ pc[r] = "rootMake" /\ vertices = <<>>
      /\ CreateVertex(Directory(RootName)) /\ HaveRoot(r, NewRid)
  BY NothingFails, WorkOf DEF CreateRoot, Busy, Refused
<1>2. /\ vertices' = <<Directory(RootName)>> /\ NewRid = 1 /\ DOMAIN vertices' = {1}
      /\ Stored = <<>> /\ edges = {} /\ edges' = {}
  <2>1. Stored = <<>>
    <3>1. ASSUME Stem \subseteq DOMAIN vertices PROVE FALSE
      <4>1. 1 \in Stem
        BY StoredNames DEF Stem
      <4>2. DOMAIN vertices = {}
        BY <1>1
      <4> QED BY <3>1, <4>1, <4>2
    <3> QED BY <3>1 DEF SerialInv, StemInv
  <2>2. edges = {}
    <3>1. DOMAIN vertices = {} /\ edges \subseteq (DOMAIN vertices) \X (DOMAIN vertices)
      BY <1>1 DEF TypeInv, GraphTypeOK
    <3> QED BY <3>1
  <2> QED BY <1>1, <2>1, <2>2 DEF CreateVertex, NewRid
<1>3. vertices' # <<>> /\ vertices'[1] = Directory(RootName) /\ vertices'[1].name = RootName
  BY <1>2 DEF Directory
<1>4. PICK s \in Steps \ {"rootMake", "new", "done"} : pc' = [pc EXCEPT ![r] = s]
  BY <1>1, GoesTo
<1>5. /\ Alone' /\ pc'[r] = s
      /\ \A q \in Req \ {r} : ~Busy(q) /\ pc'[q] = pc[q]
  BY <1>1, <1>4, NobodyElse DEF SerialInv
<1>6. ASSUME r \in Posts PROVE LookupInv(r)' /\ StoringInv(r)'
  BY <1>1, <1>2, <1>3, <1>6, WorkOf, HaveRootSerial
<1>7. WorkInv'
  BY <1>4, <1>5, <1>6, WorkMoves DEF SerialInv
<1>8. StemInv'
  <2>1. Stem = {1} /\ 1 .. Len(Stored) = {}
    BY <1>2 DEF Stem
  <2>2. Stem \subseteq DOMAIN vertices' /\ \A n \in 1 .. Len(Stored) :
          <<n, n + 1>> \in edges' /\ vertices'[n + 1] = Directory(Stored[n])
    BY <1>2, <2>1
  <2>3. vertices'[1] = Directory(RootName)
    BY <1>3
  <2> QED BY <2>2, <2>3 DEF StemInv, Directory
<1>9. EdgesInv' /\ StoredInv' /\ RootsInv'
  BY <1>2, StoredNames DEF EdgesInv, StoredInv, RootsInv, Stem
<1> QED BY <1>1, <1>2, <1>5, <1>7, <1>8, <1>9 DEF SerialInv

\* Below the stem only names of requests are found.
LEMMA SonOfStem ==
  ASSUME Shape, vertices # <<>>, NEW f \in Stem, NEW n, <<f, n>> \in edges,
         vertices[n].name \notin Names
  PROVE  n \in Stem /\ n = f + 1
<1>1. n \in Stem
  BY EdgeOf
<1>2. f \in Nat /\ n \in Nat /\ f \in In(n)
  <2>1. In(n) = {f}
    BY EdgeOf
  <2> QED BY <1>1, <2>1, StoredNames DEF Stem
<1>3. n # 1 /\ In(n) = {n - 1}
  BY <1>1, <1>2, FatherInStem
<1> QED BY <1>1, <1>2, <1>3

LEMMA FindSonSerial ==
  ASSUME OneAtATime, FoldersApart, TypeInv, SerialInv, NEW r \in Req, FindSon(r)
  PROVE  SerialInv'
<1>1. /\ Busy(r) /\ pc[r] = "son" /\ UNCHANGED graphVars /\ ~Fails
      /\ vertices' = vertices /\ edges' = edges
      /\ loc[r] \in Locals
  BY NothingFails, LocalsOf DEF FindSon, Busy, graphVars
<1> DEFINE at == loc[r].at
           todo == loc[r].todo
           want == loc[r].want
           all == want = "father"
<1>2. /\ todo \in Seq(STRING) /\ todo # <<>> /\ all \in BOOLEAN
      /\ r \in Posts => want \in {"father", "policy"}
  BY <1>1, LocalsOf DEF Locals, Walking, Lookups
<1>3. ASSUME r \in Posts
      PROVE  /\ LookupInv(r) /\ vertices # <<>> /\ at \in Stem /\ at \in Nat
             /\ \A i \in 1 .. Len(todo) : i < Len(todo) \/ all => todo[i] \notin Names
             /\ r \in Updates => at + Len(todo) =
                                   Down(loc[r].path) + (IF want = "policy" THEN 1 ELSE 0)
             /\ want = "policy" => r \in Updates /\ loc[r].father = Down(loc[r].path)
  <2>1. LookupInv(r)
    BY <1>1, <1>3, WorkOf
  <2>2. want = "policy" => r \in Updates
    BY LocalsOf DEF Walking
  <2>3. at \in Nat
    BY <1>1 DEF Locals
  <2> QED BY <1>1, <2>1, <2>2, <2>3 DEF LookupInv
<1>4. ASSUME NEW n \in SonsByName(at, Head(todo)), r \in Posts,
             Head(todo) \notin Names
      PROVE  n \in Stem /\ n = at + 1
  <2>1. <<at, n>> \in edges /\ vertices[n].name = Head(todo)
    BY DEF SonsByName, Out
  <2> HIDE DEF at, todo
  <2> QED BY <1>3, <1>4, <2>1, ShapeNow, SonOfStem
<1>5. ASSUME NEW n \in SonsByName(at, Head(todo)), Found(r, n), Len(todo) = 1 PROVE SerialInv'
  <2>1. PICK s \in Steps \ {"rootMake", "new", "done"} : pc' = [pc EXCEPT ![r] = s]
    BY <1>1, <1>5, GoesTo
  <2>2. ASSUME r \in Posts PROVE LookupInv(r)' /\ StoringInv(r)'
    <3>1. Head(todo) = todo[1]
      BY <1>2, TailNames
    <3>2. ASSUME want = "father"
          PROVE  n \in Stem /\ (r \in Updates => n = Down(loc[r].path))
      <4>1. Head(todo) \notin Names
        BY <1>3, <1>5, <2>2, <3>1, <3>2
      <4>2. n \in Stem /\ n = at + 1
        BY <1>4, <2>2, <4>1
      <4>3. r \in Updates => at + 1 = Down(loc[r].path) + 0
        BY <1>3, <1>5, <2>2, <3>2
      <4>4. Down(loc[r].path) \in Int
        <5>1. loc[r].path \in Seq(STRING)
          BY <1>1 DEF Locals
        <5> QED BY <5>1 DEF Down
      <4> QED BY <4>2, <4>3, <4>4
    <3>3. ASSUME want = "policy" PROVE <<loc[r].father, n>> \in edges'
      <4>1. at + 1 = loc[r].father + 1
        BY <1>3, <1>5, <2>2, <3>3
      <4>2. loc[r].father \in Nat /\ at \in Nat
        BY <1>1 DEF Locals
      <4>3. at = loc[r].father
        BY <4>1, <4>2
      <4>4. <<at, n>> \in edges
        BY <1>5 DEF SonsByName, Out
      <4> QED BY <1>1, <4>3, <4>4
    <3> QED BY <1>1, <1>3, <1>5, <2>2, <3>2, <3>3, FoundSerial
  <2> QED BY <1>1, <2>1, <2>2, QuietSerial
<1>6. ASSUME NEW n \in SonsByName(at, Head(todo)), Len(todo) > 1, Goto(r, "son"),
             loc' = [loc EXCEPT ![r].at = n, ![r].todo = Tail(@)]
      PROVE  SerialInv'
  <2>1. ASSUME r \in Posts PROVE LookupInv(r)' /\ StoringInv(r)'
    <3> DEFINE t == Tail(todo)
    <3>1. /\ Head(todo) = todo[1] /\ Len(todo) \in Nat
          /\ Len(t) = Len(todo) - 1
          /\ \A i \in 1 .. Len(t) : i < Len(t) \/ all => t[i] \notin Names
      <4> HIDE DEF todo, all
      <4> QED BY <1>2, <1>3, <2>1, TailNames
    <3>2. Head(todo) \notin Names
      BY <1>3, <1>6, <2>1, <3>1
    <3>3. n \in Stem /\ n = at + 1
      BY <1>4, <2>1, <3>2
    <3>4. r \in Updates => n + Len(t) =
             Down(loc[r].path) + (IF want = "policy" THEN 1 ELSE 0)
      BY <1>3, <2>1, <3>1, <3>3
    <3>5. loc' = [loc EXCEPT ![r].at = n, ![r].todo = t]
      BY <1>6, LocalsOf DEF TypeInv, RequestInv
    <3> HIDE DEF t
    <3> QED BY <1>1, <1>3, <1>6, <2>1, <3>1, <3>3, <3>4, <3>5, GoesDownSerial
  <2> QED BY <1>1, <1>6, <2>1, StepNames, QuietSerial DEF Goto
<1>7. CASE NotFound(r)
  BY <1>1, <1>7, StepNames, QuietSerial DEF NotFound, Reply
<1> QED BY <1>1, <1>5, <1>6, <1>7 DEF FindSon

LEMMA StartSerial ==
  ASSUME OneAtATime, FoldersApart, TypeInv, SerialInv, NEW r \in Req, Start(r) \/ StartWithoutBody(r)
  PROVE  SerialInv'
<1>1. /\ UNCHANGED graphVars /\ vertices' = vertices /\ pc[r] = "new" /\ pc[r] # "link"
      /\ Cardinality(Active) < MaxActive
  BY DEF Start, StartWithoutBody, graphVars
<1>2. PICK s \in {"root", "done"} : pc' = [pc EXCEPT ![r] = s] /\ s \in Steps
  BY StepNames DEF Start, StartWithoutBody, Goto, Reply
<1>3. /\ Alone' /\ pc'[r] = s
      /\ \A q \in Req \ {r} : ~Busy(q) /\ pc'[q] = pc[q]
  BY <1>1, <1>2, NobodyAtStart DEF SerialInv
<1>4. StemInv' /\ EdgesInv' /\ StoredInv' /\ RootsInv'
  BY <1>1, <1>3, GraphAsItWas
<1>5. ASSUME r \in Posts, s # "done" PROVE LookupInv(r)' /\ StoringInv(r)'
  <2>1. /\ loc[r] \in Locals /\ loc \in [Req -> Locals]
        /\ loc[r].want = "father" /\ s = "root" /\ pc'[r] = "root"
    BY <1>1, <1>2, <1>3, <1>5, LocalsOf DEF Walking, TypeInv, RequestInv
  <2>2. PICK p \in Folders, x \in Names, y \in Replaced :
          loc' = [loc EXCEPT ![r].todo = p, ![r].name = x,
                             ![r].path = IF r \in Updates THEN Append(p, y) ELSE <<>>]
    <3>1. r \notin Gets
      BY <1>5, Requests
    <3>2. Start(r)
      BY <1>2, <1>3, <2>1 DEF StartWithoutBody, Reply, TypeInv, RequestInv
    <3> QED BY <3>1, <3>2 DEF Start
  <2>3. /\ loc'[r].want = "father" /\ loc'[r].todo = p /\ loc'[r].name = x
        /\ r \in Updates => loc'[r].path = Append(p, y)
    BY <2>1, <2>2 DEF Locals
  <2>4. StoringInv(r)'
    BY <2>1 DEF StoringInv, Saved
  <2>5. LookupInv(r)'
    BY <2>1, <2>3 DEF LookupInv
  <2> QED BY <2>4, <2>5
<1>6. WorkInv'
  BY <1>2, <1>3, <1>5, WorkMoves DEF SerialInv
<1> QED BY <1>3, <1>4, <1>6 DEF SerialInv

LEMMA CheckNameSerial ==
  ASSUME OneAtATime, TypeInv, SerialInv, NEW r \in Req, CheckName(r)
  PROVE  SerialInv'
<1>1. /\ Busy(r) /\ pc[r] = "valid" /\ UNCHANGED graphVars /\ UNCHANGED loc /\ ~Fails
      /\ r \in Posts /\ r \notin Updates /\ loc[r].want # "policy"
  BY NothingFails, LocalsOf DEF CheckName, Busy, Walking
<1>2. CASE ~Taken(loc[r].father, loc[r].name) /\ Goto(r, "create")
  <2>1. pc' = [pc EXCEPT ![r] = "create"] /\ pc'[r] = "create"
    BY <1>2 DEF Goto, TypeInv, RequestInv
  <2>2. LookupInv(r)
    BY <1>1, WorkOf
  <2>3. LookupInv(r)'
    BY <1>1, <2>1, <2>2 DEF LookupInv, graphVars
  <2>4. ~Taken(loc[r].father, loc[r].name)'
    BY <1>1, <1>2 DEF Taken, IsDirectory, Out, Live, graphVars
  <2>5. StoringInv(r)'
    BY <1>1, <2>1, <2>4 DEF StoringInv, Saved
  <2> QED BY <1>1, <2>1, <2>3, <2>5, StepNames, QuietSerial
<1>3. ASSUME NEW code, Reply(r, code) PROVE SerialInv'
  BY <1>1, <1>3, StepNames, QuietSerial DEF Reply
<1> QED BY <1>1, <1>2, <1>3 DEF CheckName

LEMMA ReadOldSerial ==
  ASSUME OneAtATime, TypeInv, SerialInv, NEW r \in Req, ReadOld(r)
  PROVE  SerialInv'
<1>1. /\ Busy(r) /\ pc[r] = "read" /\ UNCHANGED graphVars
      /\ r \in Posts /\ r \in Updates /\ Goto(r, "create")
      /\ loc' = [loc EXCEPT ![r].version = vertices[loc[r].old].version + 1]
  BY NothingFails, LocalsOf DEF ReadOld, Busy, Walking, Refused
<1>2. /\ loc'[r].name = loc[r].name /\ loc'[r].path = loc[r].path
      /\ loc'[r].want = loc[r].want /\ loc'[r].father = loc[r].father
      /\ loc'[r].old = loc[r].old
  BY <1>1, LocalsOf DEF Locals, TypeInv, RequestInv
<1>3. pc' = [pc EXCEPT ![r] = "create"] /\ pc'[r] = "create"
  BY <1>1 DEF Goto, TypeInv, RequestInv
<1>4. LookupInv(r) /\ StoringInv(r)
  BY <1>1, WorkOf
<1>5. loc[r].father \in Stem /\ <<loc[r].father, loc[r].old>> \in edges
  <2>1. <<loc[r].father, loc[r].old>> \in edges
    BY <1>1, <1>4 DEF StoringInv
  <2> QED BY <1>1, <1>4, <2>1 DEF LookupInv
<1>6. LookupInv(r)'
  BY <1>1, <1>2, <1>3, <1>4, <1>5 DEF LookupInv, graphVars
<1>7. StoringInv(r)'
  BY <1>1, <1>2, <1>3, <1>5 DEF StoringInv, Saved, graphVars
<1> QED BY <1>1, <1>3, <1>6, <1>7, StepNames, QuietSerial

\* Steps that read, answer or do nothing.
LEMMA GetSerial ==
  ASSUME OneAtATime, TypeInv, SerialInv, NEW r \in Req, Get(r)
  PROVE  SerialInv'
<1>1. pc[r] \in {"class", "content", "value"} /\ Busy(r) /\ UNCHANGED graphVars /\ UNCHANGED loc
  BY DEF Get, ReadClass, ReadContent, ReadValue, Busy
<1>2. PICK s \in {"content", "value", "done"} : pc' = [pc EXCEPT ![r] = s]
  BY DEF Get, ReadClass, ReadContent, ReadValue, Goto, Reply
<1>3. ASSUME r \in Posts, s # "done" PROVE LookupInv(r)' /\ StoringInv(r)'
  <2>1. LookupInv(r)
    BY <1>1, <1>3, WorkOf
  <2>2. pc'[r] = s
    BY <1>2 DEF TypeInv, RequestInv
  <2>3. LookupInv(r)'
    BY <1>1, <1>3, <2>1, <2>2 DEF LookupInv, graphVars
  <2>4. StoringInv(r)'
    BY <1>3, <2>2 DEF StoringInv, Saved
  <2> QED BY <2>3, <2>4
<1> QED BY <1>1, <1>2, <1>3, StepNames, QuietSerial

LEMMA NothingSerial ==
  ASSUME SerialInv, UNCHANGED vars
  PROVE  SerialInv'
<1>1. /\ vertices' = vertices /\ edges' = edges /\ pc' = pc /\ loc' = loc /\ removed' = removed
  BY DEF vars
<1>2. StemInv' /\ EdgesInv' /\ StoredInv' /\ RootsInv'
  BY <1>1 DEF SerialInv, StemInv, Directory, EdgesInv, StoredInv, RootsInv, IsPolicy, IsDirectory
<1>3. \A r : (LookupInv(r) => LookupInv(r)') /\ (StoringInv(r) => StoringInv(r)')
  <2>1. \A r : LookupInv(r) => LookupInv(r)'
    BY <1>1 DEF LookupInv
  <2>2. \A r : (Taken(loc[r].father, loc[r].name)' <=> Taken(loc[r].father, loc[r].name))
               /\ (IsPolicy(loc[r].old)' <=> IsPolicy(loc[r].old))
    BY <1>1 DEF Taken, IsPolicy, IsDirectory, Out, Live
  <2>3. \A r : StoringInv(r) => StoringInv(r)'
    BY <1>1, <2>2 DEF StoringInv
  <2> QED BY <2>1, <2>3
<1>4. Alone' /\ WorkInv'
  BY <1>1, <1>3 DEF SerialInv, Alone, WorkInv, Busy
<1> QED BY <1>2, <1>4 DEF SerialInv

(***************************************************************************)
(* The steps that change the graph.                                        *)
(***************************************************************************)
\* The vertices stay what they are when another one is stored.
LEMMA StemStays ==
  ASSUME Shape, vertices # <<>>, Grows, \A n \in 1 .. Len(Stored) : <<n, n + 1>> \in edges'
  PROVE  StemInv'
<1>1. Stem \subseteq DOMAIN vertices'
  BY StemIsDirectories DEF Grows
<1>2. 1 \in DOMAIN vertices /\ vertices'[1] = Directory(RootName)
  <2>1. 1 \in DOMAIN vertices
    BY StemIsDirectories
  <2> QED BY <2>1 DEF Shape, StemInv, Grows
<1>3. ASSUME NEW n \in 1 .. Len(Stored) PROVE vertices'[n + 1] = Directory(Stored[n])
  <2>1. n + 1 \in Stem
    BY StoredNames DEF Stem
  <2>2. n + 1 \in DOMAIN vertices
    BY <2>1, StemIsDirectories
  <2> QED BY <2>2 DEF Shape, StemInv, Grows
<1> QED BY <1>1, <1>2, <1>3 DEF StemInv, Directory

LEMMA CreateNodeSerial ==
  ASSUME OneAtATime, TypeInv, TypeInv', BookInv, SerialInv, NEW r \in Req, CreateNode(r)
  PROVE  /\ SerialInv' /\ r \in Posts /\ vertices # <<>> /\ pc[r] = "create"
         /\ pc' = [pc EXCEPT ![r] = "link"] /\ status' = status
         /\ CreateVertex(NewVertex(r)) /\ edges' = edges /\ Grows
         /\ DOMAIN vertices' = DOMAIN vertices \cup {NewRid} /\ NewRid \notin DOMAIN vertices
         /\ vertices'[NewRid] = NewVertex(r)
         /\ \A n : <<NewRid, n>> \notin edges /\ <<n, NewRid>> \notin edges
<1>1. /\ Busy(r) /\ pc[r] = "create" /\ r \in Posts /\ r \in Req
      /\ CreateVertex(NewVertex(r)) /\ Goto(r, "link")
      /\ loc' = [loc EXCEPT ![r].node = NewRid]
  BY NothingFails, LocalsOf DEF CreateNode, Busy, Walking, Refused
<1>2. /\ loc[r] \in Locals /\ Holding(vertices, r, pc[r], loc[r])
      /\ loc'[r].node = NewRid
      /\ loc'[r].name = loc[r].name /\ loc'[r].path = loc[r].path
      /\ loc'[r].want = loc[r].want /\ loc'[r].father = loc[r].father
      /\ loc'[r].old = loc[r].old
  BY <1>1, LocalsOf DEF Locals, TypeInv, RequestInv
<1>3. /\ pc' = [pc EXCEPT ![r] = "link"] /\ status' = status
      /\ Alone' /\ pc'[r] = "link"
      /\ \A q \in Req \ {r} : ~Busy(q) /\ pc'[q] = pc[q]
  <2>1. pc' = [pc EXCEPT ![r] = "link"] /\ status' = status
    BY <1>1 DEF Goto
  <2> QED BY <1>1, <2>1, StepNames, NobodyElse DEF SerialInv
<1>4. /\ LookupInv(r) /\ StoringInv(r) /\ vertices # <<>> /\ loc[r].father \in Stem
      /\ r \in Updates => <<loc[r].father, loc[r].old>> \in edges
      /\ r \notin Updates => ~Taken(loc[r].father, loc[r].name)
  <2>1. LookupInv(r) /\ StoringInv(r)
    BY <1>1, WorkOf
  <2>2. vertices # <<>> /\ loc[r].father \in Stem
    BY <1>1, <2>1 DEF LookupInv
  <2>3. /\ r \in Updates => <<loc[r].father, loc[r].old>> \in edges
        /\ r \notin Updates => ~Taken(loc[r].father, loc[r].name)
    BY <1>1, <2>1 DEF StoringInv
  <2> QED BY <2>1, <2>2, <2>3
<1>5. Shape /\ GraphTypeOK /\ Live = DOMAIN vertices
  BY ShapeNow, StemIsDirectories DEF TypeInv
<1>6. /\ Grows /\ edges' = edges
      /\ DOMAIN vertices' = DOMAIN vertices \cup {NewRid} /\ NewRid \notin DOMAIN vertices
      /\ vertices'[NewRid] = NewVertex(r)
      /\ NewRid \in Nat /\ NewRid = Len(vertices') /\ DOMAIN vertices = 1 .. Len(vertices)
      /\ \A n \in DOMAIN vertices : n < NewRid
  <2>1. vertices' = Append(vertices, NewVertex(r)) /\ edges' = edges
    BY <1>1 DEF CreateVertex
  <2>2. vertices \in Seq(Record)
    BY <1>5 DEF GraphTypeOK
  <2>3. Len(vertices) \in Nat /\ NewRid = Len(vertices) + 1
        /\ DOMAIN vertices = 1 .. Len(vertices)
    BY <2>2 DEF NewRid
  <2>4. /\ Len(vertices') = NewRid /\ DOMAIN vertices' = 1 .. NewRid
        /\ vertices'[NewRid] = NewVertex(r)
        /\ \A n \in DOMAIN vertices : vertices'[n] = vertices[n]
    BY <2>1, <2>2, <2>3
  <2> QED BY <2>1, <2>3, <2>4 DEF Grows
<1>7. \A n : <<NewRid, n>> \notin edges /\ <<n, NewRid>> \notin edges
  BY <1>5, <1>6 DEF GraphTypeOK
<1>8. StemInv'
  BY <1>4, <1>5, <1>6, StemStays DEF Shape, StemInv
<1>9. EdgesInv'
  <2>1. \A f, n : <<f, n>> \in edges => f \in DOMAIN vertices /\ n \in DOMAIN vertices
    BY <1>5 DEF GraphTypeOK
  <2>2. \A n \in DOMAIN vertices : /\ vertices'[n] = vertices[n]
                                   /\ IsPolicy(n)' <=> IsPolicy(n)
    BY <1>6 DEF Grows, IsPolicy
  <2> QED BY <1>6, <2>1, <2>2 DEF SerialInv, EdgesInv
<1>10. StoredInv'
  <2>1. ASSUME NEW n \in DOMAIN vertices, IsPolicy(n) PROVE vertices[n].text # r
    BY <1>1, <2>1 DEF BookInv, SavedInv, IsPolicy
  <2>2. PICK k : k = NewRid
    OBVIOUS
  <2>4. IsPolicy(k)' => vertices'[k].text = r
    BY <1>6, <2>2 DEF IsPolicy, NewVertex, Directory, Policy
  <2>3. \A n \in DOMAIN vertices : vertices'[n] = vertices[n] /\ (IsPolicy(n)' <=> IsPolicy(n))
    BY <1>6 DEF Grows, IsPolicy
  <2>5. ASSUME NEW m \in DOMAIN vertices', NEW n \in DOMAIN vertices', IsPolicy(m)', IsPolicy(n)',
               vertices'[m].text = vertices'[n].text
        PROVE  m = n
    BY <1>6, <2>1, <2>2, <2>3, <2>4, <2>5 DEF SerialInv, StoredInv
  <2>6. \A n \in DOMAIN vertices' : n \notin Stem => vertices'[n].name \in Names
    <3>1. vertices'[NewRid].name \in Names
      BY <1>4, <1>6 DEF LookupInv, NewVertex, Directory, Policy
    <3>2. \A n \in DOMAIN vertices : n \notin Stem => vertices[n].name \in Names
      BY DEF SerialInv, StoredInv
    <3> QED BY <1>6, <2>3, <3>1, <3>2
  <2> QED BY <2>5, <2>6 DEF StoredInv
<1>11. RootsInv'
  <2>1. \A q \in Req : pc[q] # "link"
    BY <1>1, <1>3 DEF Busy
  <2>2. \A n \in DOMAIN vertices : IsDirectory(n)' => IsDirectory(n)
    BY <1>6 DEF Grows, IsDirectory
  <2> QED BY <1>2, <1>3, <1>6, <2>1, <2>2 DEF SerialInv, RootsInv
<1>12. LookupInv(r)'
  <2>1. vertices' # <<>>
    BY <1>6
  <2> QED BY <1>2, <1>3, <1>4, <2>1 DEF LookupInv
<1>13. StoringInv(r)'
  <2>1. loc[r].father \in DOMAIN vertices
    BY <1>4, <1>5, StemIsDirectories
  <2>2. r \in Updates => loc[r].old \in DOMAIN vertices
    BY <1>1, <1>2 DEF Holding
  <2>3. ASSUME r \notin Updates PROVE ~Taken(loc[r].father, loc[r].name)'
    <3>1. IsDirectory(loc[r].father)
      BY <1>4, <1>5, StemIsDirectories
    <3>2. \A n \in Out(loc[r].father) : Lower[vertices[n].name] # Lower[loc[r].name]
      BY <1>4, <2>3, <3>1 DEF Taken
    <3>3. ASSUME NEW n \in Out(loc[r].father)' PROVE n \in Out(loc[r].father) /\ vertices'[n] = vertices[n]
      <4>1. <<loc[r].father, n>> \in edges
        BY <1>2, <1>6 DEF Out
      <4> QED BY <1>5, <1>6, <4>1 DEF Out, GraphTypeOK, Grows
    <3> QED BY <1>2, <3>2, <3>3 DEF Taken
  <2> QED BY <1>2, <1>3, <1>4, <1>6, <1>7, <2>1, <2>2, <2>3 DEF StoringInv, Saved
<1>14. WorkInv'
  BY <1>3, <1>12, <1>13, WorkMoves DEF SerialInv
<1> QED BY <1>1, <1>3, <1>4, <1>6, <1>7, <1>8, <1>9, <1>10, <1>11, <1>14 DEF SerialInv

\* What a request that has stored something holds.
LEMMA SavedHolds ==
  ASSUME TypeInv, SerialInv, NEW r \in Req, pc[r] \in Saved
  PROVE  /\ Busy(r) /\ r \in Posts /\ LookupInv(r) /\ StoringInv(r)
         /\ loc[r] \in Locals /\ vertices # <<>> /\ Shape /\ Live = DOMAIN vertices
         /\ loc[r].node \in DOMAIN vertices /\ loc[r].node = Len(vertices)
         /\ vertices[loc[r].node] = NewVertex(r)
         /\ loc[r].father < loc[r].node /\ loc[r].father \in DOMAIN vertices
         /\ \A n \in DOMAIN vertices : n \in Nat /\ n <= loc[r].node
         /\ r \in Updates => /\ loc[r].old \in DOMAIN vertices /\ loc[r].old < loc[r].node
                             /\ IsPolicy(loc[r].node) /\ vertices[loc[r].node].text = r
<1>1. Busy(r) /\ r \in Posts /\ loc[r] \in Locals /\ Holding(vertices, r, pc[r], loc[r])
  BY LocalsOf DEF Walking, Saved, Busy
<1>2. LookupInv(r) /\ StoringInv(r)
  BY <1>1, WorkOf
<1>3. vertices # <<>> /\ Shape /\ Live = DOMAIN vertices
  BY <1>2, ShapeNow, StemIsDirectories DEF LookupInv, Saved
<1>4. DOMAIN vertices = 1 .. Len(vertices) /\ Len(vertices) \in Nat
  BY <1>3, StemIsDirectories
<1>5. /\ loc[r].node = Len(vertices) /\ loc[r].father < loc[r].node
      /\ r \in Updates => loc[r].old < loc[r].node
  BY <1>2 DEF StoringInv
<1>6. loc[r].node \in DOMAIN vertices /\ vertices[loc[r].node] = NewVertex(r)
  BY <1>1 DEF Holding, Saved, Written, NewVertex
<1>7. r \in Updates => loc[r].old \in DOMAIN vertices
  BY <1>1 DEF Holding, Saved
<1>8. loc[r].father \in DOMAIN vertices
  <2>1. CASE pc[r] = "link"
    BY <1>2, <1>3, <2>1, StemIsDirectories DEF LookupInv
  <2>2. CASE pc[r] \in {"unlink", "relink"}
    <3>1. <<loc[r].father, loc[r].node>> \in edges
      BY <1>2, <2>2 DEF StoringInv
    <3> QED BY <1>3, <3>1, EdgeOf
  <2> QED BY <2>1, <2>2 DEF Saved
<1>9. r \in Updates => IsPolicy(loc[r].node) /\ vertices[loc[r].node].text = r
  BY <1>6, Requests DEF IsPolicy, NewVertex, Policy
<1> QED BY <1>1, <1>2, <1>3, <1>4, <1>5, <1>6, <1>7, <1>8, <1>9

\* A step that only moves edges.
LEMMA SameVertices ==
  ASSUME vertices' = vertices
  PROVE  /\ \A n : (IsPolicy(n)' <=> IsPolicy(n)) /\ (IsDirectory(n)' <=> IsDirectory(n))
         /\ DOMAIN vertices' = DOMAIN vertices
         /\ StoredInv => StoredInv'
BY DEF IsPolicy, IsDirectory, StoredInv

LEMMA LinkNodeSerial ==
  ASSUME OneAtATime, TypeInv, SerialInv, NEW r \in Req, LinkNode(r)
  PROVE  /\ SerialInv' /\ pc[r] = "link" /\ r \in Posts /\ loc[r].father \in Stem
         /\ vertices' = vertices /\ removed' = removed /\ UNCHANGED loc
         /\ edges' = edges \cup {<<loc[r].father, loc[r].node>>}
         /\ IF r \in Updates THEN Goto(r, "unlink") ELSE Reply(r, 201)
<1>1. pc[r] = "link" /\ pc[r] \in Saved
  BY DEF LinkNode, Saved
<1>2. /\ Busy(r) /\ r \in Posts /\ LookupInv(r) /\ StoringInv(r)
      /\ loc[r] \in Locals /\ vertices # <<>> /\ Shape /\ Live = DOMAIN vertices
      /\ loc[r].node \in DOMAIN vertices /\ loc[r].node = Len(vertices)
      /\ vertices[loc[r].node] = NewVertex(r)
      /\ loc[r].father < loc[r].node /\ loc[r].father \in DOMAIN vertices
      /\ r \in Updates => loc[r].old \in DOMAIN vertices /\ loc[r].old < loc[r].node
  BY <1>1, SavedHolds
<1> DEFINE f == loc[r].father
           k == loc[r].node
<1>3. f \in Stem /\ IsDirectory(f) /\ ~IsPolicy(f)
  <2>1. f \in Stem
    BY <1>1, <1>2 DEF LookupInv
  <2> QED BY <1>2, <2>1, StemIsDirectories
<1>4. /\ vertices' = vertices /\ removed' = removed /\ UNCHANGED loc
      /\ edges' = edges \cup {<<f, k>>}
      /\ IF r \in Updates THEN Goto(r, "unlink") ELSE Reply(r, 201)
  BY <1>3, NothingFails DEF LinkNode, Refused, CreateEdge
<1>5. PICK s \in {"unlink", "done"} : pc' = [pc EXCEPT ![r] = s] /\ (s # "done" => r \in Updates)
  BY <1>4 DEF Goto, Reply
<1>6. /\ Alone' /\ pc'[r] = s
      /\ \A q \in Req \ {r} : ~Busy(q) /\ pc'[q] = pc[q]
  BY <1>2, <1>5, StepNames, NobodyElse DEF SerialInv
<1>7. \A m : <<k, m>> \notin edges /\ <<m, k>> \notin edges
  BY <1>1, <1>2 DEF StoringInv, Saved
<1>8. StemInv'
  <2>1. Grows
    BY <1>4 DEF Grows
  <2> QED BY <1>2, <1>4, <2>1, StemStays DEF Shape, StemInv
<1>9. EdgesInv' /\ StoredInv'
  <2>2. EdgesInv /\ StoredInv /\ k # f /\ f < k
    <3>1. f \in Nat /\ k \in Nat
      BY <1>2 DEF Locals
    <3> QED BY <1>2, <3>1 DEF SerialInv
  <2>3. PICK g, j : g = f /\ j = k
    OBVIOUS
  <2> HIDE DEF f, k
  <2>4. \A a : (<<a, j>> \in edges' <=> a = g) /\ <<j, a>> \notin edges'
    BY <1>4, <1>7, <2>2, <2>3
  <2>5. \A a, b : <<a, b>> \in edges' => <<a, b>> \in edges \/ (a = g /\ b = j)
    BY <1>4, <2>3
  <2>6. ASSUME NEW a \in DOMAIN vertices, NEW b \in DOMAIN vertices, <<a, b>> \in edges'
        PROVE  /\ \/ a \in Stem /\ a < b
                  \/ IsPolicy(a) /\ IsPolicy(b) /\ b < a
               /\ \A c \in DOMAIN vertices : <<c, b>> \in edges' => c = a
               /\ IsPolicy(a) => \A m \in DOMAIN vertices : <<a, m>> \in edges' => m = b
    <3>1. CASE a = g /\ b = j
      BY <1>3, <2>2, <2>3, <2>4, <3>1
    <3>2. CASE <<a, b>> \in edges /\ b # j
      <4>1. IsPolicy(a) => a # g
        BY <1>3, <2>3
      <4> QED BY <2>2, <2>5, <3>2, <4>1 DEF EdgesInv
    <3> QED BY <2>4, <2>5, <2>6, <3>1, <3>2
  <2>7. EdgesInv'
    BY <1>4, <2>6, SameVertices DEF EdgesInv
  <2> QED BY <1>4, <2>2, <2>7, SameVertices
<1>10. RootsInv'
  <2>1. ASSUME NEW n \in DOMAIN vertices, IsDirectory(n), \A m : <<m, n>> \notin edges' PROVE n = 1
    <3>1. n # k /\ \A m : <<m, n>> \notin edges
      BY <1>4, <2>1
    <3>2. ~ \E q \in Req : pc[q] = "link" /\ n = loc[q].node
      BY <1>6, <3>1 DEF Busy
    <3> QED BY <2>1, <3>1, <3>2 DEF SerialInv, RootsInv
  <2> QED BY <1>4, <2>1, SameVertices DEF RootsInv
<1>11. ASSUME s # "done" PROVE LookupInv(r)' /\ StoringInv(r)'
  <2>1. pc'[r] = "unlink" /\ r \in Updates /\ loc' = loc
    BY <1>4, <1>5, <1>6, <1>11
  <2>2. LookupInv(r)'
    BY <1>2, <1>3, <1>4, <2>1 DEF LookupInv
  <2>3. f # k
    <3>1. f \in Nat /\ k \in Nat
      BY <1>2 DEF Locals
    <3> QED BY <1>2, <3>1
  <2>4. <<f, loc[r].old>> \in edges
    BY <1>1, <1>2, <2>1 DEF StoringInv, Saved
  <2>5. StoringInv(r)'
    BY <1>2, <1>4, <1>7, <2>1, <2>3, <2>4 DEF StoringInv, Saved
  <2> QED BY <2>2, <2>5
<1>12. WorkInv'
  BY <1>5, <1>6, <1>11, WorkMoves DEF SerialInv
<1> QED BY <1>1, <1>2, <1>3, <1>4, <1>6, <1>8, <1>9, <1>10, <1>12 DEF SerialInv

\* The update cuts the old policy, and leaves a folder where it is.
LEMMA UnlinkOldSerial ==
  ASSUME OneAtATime, TypeInv, SerialInv, NEW r \in Req, UnlinkOld(r)
  PROVE  /\ SerialInv' /\ pc[r] = "unlink" /\ r \in Updates
         /\ pc' = [pc EXCEPT ![r] = "relink"] /\ status' = status
         /\ loc' = [loc EXCEPT ![r].cut = TRUE]
         /\ vertices' = vertices /\ removed' = removed
         /\ <<loc[r].father, loc[r].old>> \in edges
         /\ edges' = IF IsPolicy(loc[r].old) THEN edges \ {<<loc[r].father, loc[r].old>>} ELSE edges
<1>1. pc[r] = "unlink" /\ pc[r] \in Saved
  BY DEF UnlinkOld, Saved
<1>2. /\ Busy(r) /\ r \in Posts /\ r \in Updates /\ LookupInv(r) /\ StoringInv(r)
      /\ loc[r] \in Locals /\ vertices # <<>> /\ Shape /\ Live = DOMAIN vertices
      /\ loc[r].node = Len(vertices)
      /\ loc[r].old \in DOMAIN vertices /\ loc[r].old < loc[r].node
  BY <1>1, SavedHolds, LocalsOf DEF Walking
<1> DEFINE f == loc[r].father
           k == loc[r].node
           o == loc[r].old
<1>3. /\ vertices' = vertices /\ removed' = removed
      /\ loc' = [loc EXCEPT ![r].cut = TRUE]
      /\ edges' = IF IsPolicy(o) THEN edges \ {<<f, o>>} ELSE edges
      /\ pc' = [pc EXCEPT ![r] = "relink"] /\ status' = status
  BY NothingFails DEF UnlinkOld, CutOld, DeleteEdge, graphVars, Goto
<1>4. /\ loc'[r].name = loc[r].name /\ loc'[r].path = loc[r].path
      /\ loc'[r].want = loc[r].want /\ loc'[r].father = f
      /\ loc'[r].old = o /\ loc'[r].node = k
  BY <1>2, <1>3 DEF Locals, TypeInv, RequestInv
<1>5. /\ Alone' /\ pc'[r] = "relink"
      /\ \A q \in Req \ {r} : ~Busy(q) /\ pc'[q] = pc[q]
  BY <1>2, <1>3, StepNames, NobodyElse DEF SerialInv
<1>6. /\ <<f, o>> \in edges /\ <<f, k>> \in edges /\ \A m : <<k, m>> \notin edges
      /\ o # k /\ f < k
  <2>1. <<f, o>> \in edges /\ <<f, k>> \in edges /\ f < k /\ \A m : <<k, m>> \notin edges
    BY <1>1, <1>2 DEF StoringInv, Saved
  <2>2. o # k
    <3>1. o \in Nat /\ k \in Nat /\ o < k
      BY <1>2 DEF Locals
    <3> QED BY <3>1
  <2> HIDE DEF f, k, o
  <2> QED BY <2>1, <2>2
<1>7. \A g : <<g, o>> \in edges => g = f
  BY <1>2, <1>6, EdgeOf
<1>8. StemInv'
  <2>1. Grows
    BY <1>3 DEF Grows
  <2>2. ASSUME NEW n \in 1 .. Len(Stored) PROVE <<n, n + 1>> \in edges'
    <3>1. <<n, n + 1>> \in edges
      BY <1>2 DEF Shape, StemInv
    <3>2. n + 1 \in Stem
      BY StoredNames DEF Stem
    <3>3. ~IsPolicy(n + 1)
      BY <1>2, <3>2, StemIsDirectories
    <3> QED BY <1>3, <3>1, <3>3
  <2> QED BY <1>2, <2>1, <2>2, StemStays
<1>9. EdgesInv' /\ StoredInv'
  <2>1. EdgesInv /\ StoredInv /\ edges' \subseteq edges
    BY <1>3 DEF SerialInv
  <2> QED BY <1>3, <2>1, SameVertices DEF EdgesInv
<1>10. RootsInv'
  <2>1. ASSUME NEW n \in DOMAIN vertices, IsDirectory(n), \A m : <<m, n>> \notin edges' PROVE n = 1
    <3>1. n # o \/ ~IsPolicy(o)
      BY <1>2, <2>1, StemIsDirectories
    <3>2. \A m : <<m, n>> \notin edges
      BY <1>3, <2>1, <3>1
    <3>3. ~ \E q \in Req : pc[q] = "link"
      BY <1>1, <1>5 DEF Busy
    <3> QED BY <2>1, <3>2, <3>3 DEF SerialInv, RootsInv
  <2> QED BY <1>3, <2>1, SameVertices DEF RootsInv
<1>11. LookupInv(r)'
  <2>1. loc[r].want = "policy" \/ loc'[r].want # "policy"
    BY <1>4
  <2> QED BY <1>1, <1>2, <1>3, <1>4, <1>5 DEF LookupInv
<1>12. StoringInv(r)'
  <2>1. IsPolicy(o)' <=> IsPolicy(o)
    BY <1>3, SameVertices
  <2>2. <<f, k>> \in edges'
    BY <1>3, <1>6
  <2>3. ~IsPolicy(o) => <<f, o>> \in edges'
    BY <1>3, <1>6
  <2>4. IsPolicy(o) => \A m : <<m, o>> \notin edges'
    BY <1>3, <1>7
  <2>5. \A m : <<k, m>> \notin edges'
    BY <1>3, <1>6
  <2>6. k = Len(vertices') /\ o < k
    BY <1>2, <1>3
  <2>7. IsPolicy(loc[r].old)' <=> IsPolicy(o)
    BY <1>3, <1>4 DEF IsPolicy
  <2> HIDE DEF f, k, o
  <2> QED BY <1>4, <1>5, <1>6, <2>2, <2>3, <2>4, <2>5, <2>6, <2>7 DEF StoringInv, Saved
<1>13. WorkInv'
  BY <1>5, <1>11, <1>12, WorkMoves DEF SerialInv
<1> QED BY <1>1, <1>2, <1>3, <1>5, <1>6, <1>8, <1>9, <1>10, <1>13 DEF SerialInv

\* The update puts the old policy behind the new one, or is refused.
LEMMA RelinkOldSerial ==
  ASSUME OneAtATime, TypeInv, SerialInv, NEW r \in Req, RelinkOld(r)
  PROVE  /\ SerialInv' /\ pc[r] = "relink" /\ r \in Updates
         /\ pc' = [pc EXCEPT ![r] = "done"] /\ UNCHANGED loc
         /\ vertices' = vertices /\ removed' = removed
         /\ IF IsPolicy(loc[r].old)
            THEN edges' = edges \cup {<<loc[r].node, loc[r].old>>} /\ Reply(r, 201)
            ELSE edges' = edges /\ Reply(r, 500)
<1>1. pc[r] = "relink" /\ pc[r] \in Saved
  BY DEF RelinkOld, Saved
<1>2. /\ Busy(r) /\ r \in Posts /\ r \in Updates /\ LookupInv(r) /\ StoringInv(r)
      /\ loc[r] \in Locals /\ vertices # <<>> /\ Shape /\ Live = DOMAIN vertices
      /\ loc[r].node \in DOMAIN vertices /\ IsPolicy(loc[r].node)
      /\ loc[r].old \in DOMAIN vertices /\ loc[r].old < loc[r].node
      /\ loc[r].node = Len(vertices)
  BY <1>1, SavedHolds, LocalsOf DEF Walking
<1> DEFINE f == loc[r].father
           k == loc[r].node
           o == loc[r].old
<1>3. /\ vertices' = vertices /\ removed' = removed /\ UNCHANGED loc
      /\ pc' = [pc EXCEPT ![r] = "done"]
      /\ IF IsPolicy(o) THEN edges' = edges \cup {<<k, o>>} /\ Reply(r, 201)
                        ELSE edges' = edges /\ Reply(r, 500)
  BY NothingFails DEF RelinkOld, LinkOld, Refused, CreateEdge, graphVars, Reply
<1>4. /\ Alone' /\ pc'[r] = "done"
      /\ \A q \in Req \ {r} : ~Busy(q) /\ pc'[q] = pc[q]
  BY <1>2, <1>3, StepNames, NobodyElse DEF SerialInv
<1>5. /\ <<f, k>> \in edges /\ \A m : <<k, m>> \notin edges
      /\ IsPolicy(o) => \A m : <<m, o>> \notin edges
  BY <1>1, <1>2 DEF StoringInv, Saved
<1>6. StemInv'
  <2>1. Grows
    BY <1>3 DEF Grows
  <2> QED BY <1>2, <1>3, <2>1, StemStays DEF Shape, StemInv
<1>7. EdgesInv'
  <2>1. EdgesInv
    BY DEF SerialInv
  <2>2. CASE ~IsPolicy(o)
    BY <1>3, <2>1, <2>2, SameVertices DEF EdgesInv
  <2>3. CASE IsPolicy(o)
    <3>1. PICK g, j : g = o /\ j = k
      OBVIOUS
    <3>2. /\ g \in DOMAIN vertices /\ j \in DOMAIN vertices /\ IsPolicy(g) /\ IsPolicy(j) /\ g < j
          /\ edges' = edges \cup {<<j, g>>}
          /\ \A a : <<j, a>> \notin edges /\ <<a, g>> \notin edges
      BY <1>2, <1>3, <1>5, <2>3, <3>1
    <3>5. \A a, b : <<a, b>> \in edges' => <<a, b>> \in edges \/ (a = j /\ b = g)
      BY <3>2
    <3> HIDE DEF f, k, o
    <3>6. ASSUME NEW a \in DOMAIN vertices, NEW b \in DOMAIN vertices, <<a, b>> \in edges'
          PROVE  /\ \/ a \in Stem /\ a < b
                    \/ IsPolicy(a) /\ IsPolicy(b) /\ b < a
                 /\ \A c \in DOMAIN vertices : <<c, b>> \in edges' => c = a
                 /\ IsPolicy(a) => \A m \in DOMAIN vertices : <<a, m>> \in edges' => m = b
      <4>1. CASE a = j /\ b = g
        BY <3>2, <3>5, <4>1
      <4>2. CASE <<a, b>> \in edges /\ a # j /\ b # g
        BY <2>1, <3>5, <4>2 DEF EdgesInv
      <4> QED BY <3>2, <3>5, <3>6, <4>1, <4>2
    <3> QED BY <1>3, <3>6, SameVertices DEF EdgesInv
  <2> QED BY <2>2, <2>3
<1>8. StoredInv'
  BY <1>3, SameVertices DEF SerialInv
<1>9. RootsInv'
  <2>1. ASSUME NEW n \in DOMAIN vertices, IsDirectory(n), \A m : <<m, n>> \notin edges' PROVE n = 1
    <3>1. \A m : <<m, n>> \notin edges
      BY <1>3, <2>1
    <3>2. ~ \E q \in Req : pc[q] = "link"
      BY <1>1, <1>4 DEF Busy
    <3> QED BY <2>1, <3>1, <3>2 DEF SerialInv, RootsInv
  <2> QED BY <1>3, <2>1, SameVertices DEF RootsInv
<1>10. WorkInv'
  BY <1>4, WorkMoves DEF SerialInv
<1> QED BY <1>1, <1>2, <1>3, <1>4, <1>6, <1>7, <1>8, <1>9, <1>10 DEF SerialInv

LEMMA InitSerial == Init => SerialInv
<1> SUFFICES ASSUME Init PROVE SerialInv
  OBVIOUS
<1>1. pc = [r \in Req |-> "new"]
  BY DEF Init
<1>2. Alone /\ WorkInv
  BY <1>1 DEF Alone, WorkInv, Busy
<1>3. CASE Stored = <<>>
  <2>1. vertices = <<>> /\ edges = {}
    BY <1>3 DEF Init, StoredGraph, GraphInit
  <2>2. StemInv /\ EdgesInv /\ StoredInv /\ RootsInv
    BY <1>3, <2>1 DEF StemInv, EdgesInv, StoredInv, RootsInv
  <2> QED BY <1>2, <2>2 DEF SerialInv
<1>4. CASE Stored # <<>>
  <2>1. /\ vertices = [n \in 1 .. Len(Stored) + 1 |->
                         Directory(IF n = 1 THEN RootName ELSE Stored[n - 1])]
        /\ edges = {<<n, n + 1>> : n \in 1 .. Len(Stored)}
    BY <1>4 DEF Init, StoredGraph
  <2>2. Len(Stored) \in Nat /\ DOMAIN vertices = Stem
    BY <2>1, StoredNames DEF Stem
  <2>3. ASSUME NEW n \in 1 .. Len(Stored)
        PROVE  <<n, n + 1>> \in edges /\ vertices[n + 1] = Directory(Stored[n])
    <3>1. n + 1 \in 1 .. Len(Stored) + 1 /\ n + 1 # 1 /\ (n + 1) - 1 = n
      BY <2>2
    <3> QED BY <2>1, <3>1
  <2>4. 1 \in Stem /\ vertices[1] = Directory(RootName)
    BY <2>1, <2>2 DEF Stem
  <2>5. StemInv
    BY <2>2, <2>3, <2>4 DEF StemInv
  <2>6. \A n \in DOMAIN vertices : ~IsPolicy(n)
    BY <2>1, <2>2 DEF IsPolicy, Directory
  <2>7. \A f, n : <<f, n>> \in edges => f \in Stem /\ n \in Nat /\ f = n - 1 /\ f < n
    <3>1. ASSUME NEW f, NEW n, <<f, n>> \in edges
          PROVE  f \in Stem /\ n \in Nat /\ f = n - 1 /\ f < n
      <4>1. PICK k \in 1 .. Len(Stored) : <<f, n>> = <<k, k + 1>>
        BY <2>1, <3>1
      <4>2. f = k /\ n = k + 1
        BY <4>1
      <4> QED BY <2>2, <4>2 DEF Stem
    <3> QED BY <3>1
  <2>8. EdgesInv /\ StoredInv
    BY <2>2, <2>6, <2>7 DEF EdgesInv, StoredInv
  <2>9. RootsInv
    <3>1. ASSUME NEW n \in Stem, n # 1 PROVE <<n - 1, n>> \in edges
      <4>1. n - 1 \in 1 .. Len(Stored) /\ (n - 1) + 1 = n
        BY <2>2, <3>1 DEF Stem
      <4> QED BY <2>3, <4>1
    <3> QED BY <2>2, <3>1 DEF RootsInv
  <2> QED BY <1>2, <2>5, <2>8, <2>9 DEF SerialInv
<1> QED BY <1>3, <1>4

LEMMA NextSerial ==
  ASSUME OneAtATime, FoldersApart, TypeInv, TypeInv', BookInv, SerialInv, [Next]_vars
  PROVE  SerialInv'
<1>1. ASSUME NEW r \in Req, Start(r) \/ StartWithoutBody(r) \/ Handle(r) PROVE SerialInv'
  <2>1. CASE LookUp(r)
    BY <2>1, GetRootSerial, CreateRootSerial, FindSonSerial DEF LookUp
  <2>2. CASE Save(r)
    BY <2>2, CheckNameSerial, ReadOldSerial, CreateNodeSerial, LinkNodeSerial DEF Save
  <2>3. CASE Replace(r)
    BY <2>3, UnlinkOldSerial, RelinkOldSerial DEF Replace
  <2> QED BY <1>1, <2>1, <2>2, <2>3, StartSerial, GetSerial DEF Handle
<1>2. ~Crash
  BY NothingFails
<1> QED BY <1>1, <1>2, NothingSerial DEF Next, Served, Req

LEMMA SerialInvariant ==
  ASSUME OneAtATime, FoldersApart
  PROVE  Spec => []SerialInv
<1>1. TypeInv /\ TypeInv' /\ BookInv /\ SerialInv /\ [Next]_vars => SerialInv'
  BY NextSerial
<1> QED BY <1>1, InitSerial, TypeInvariant, BookInvariant, PTL DEF Spec

(***************************************************************************)
(* What the book shows of the graph.                                       *)
(***************************************************************************)
TheFolders == {<<>>} \cup {PathOf[n] : n \in {m \in Live : IsDirectory(m)}}

TheBook == {[folder |-> PathOf[FolderOf(n)], name |-> vertices[n].name,
             history |-> History[n]] : n \in Current}

\* The folder n hangs from folder f of the stem.
Hangs(f, n) == f \in Stem /\ IsDirectory(n) /\ <<f, n>> \in edges

\* The book shows policy n in folder f.
Shown(f, n) ==
  /\ f \in Stem /\ IsPolicy(n)
  /\ \/ <<f, n>> \in edges /\ \A r \in Replacing : n # loc[r].node
     \/ \E r \in Replacing : f = loc[r].father /\ n = loc[r].old

EntryAt(f, n) == [folder |-> Trunk(f), name |-> vertices[n].name, history |-> History[n]]

FoldersAre ==
  \A p : p \in TheFolders <=>
    \/ \E f \in Stem : p = Trunk(f)
    \/ \E f, n : Hangs(f, n) /\ p = Append(Trunk(f), vertices[n].name)

EntriesAre == \A e : e \in TheBook <=> \E f, n : Shown(f, n) /\ e = EntryAt(f, n)

LEMMA FoldersShown == TypeInv /\ SerialInv => FoldersAre
<1> SUFFICES ASSUME TypeInv, SerialInv PROVE FoldersAre
  OBVIOUS
<1>1. Shape /\ Live = DOMAIN vertices
  BY ShapeNow, StemIsDirectories
<1>2. Trunk(1) = <<>> /\ 1 \in Stem
  BY StoredNames, Beginnings DEF Trunk, Stem
<1>3. ASSUME NEW n \in Live, IsDirectory(n)
      PROVE  \/ PathOf[n] = <<>>
             \/ \E f : Hangs(f, n) /\ PathOf[n] = Append(Trunk(f), vertices[n].name)
  <2>1. CASE In(n) = {}
    BY <1>1, <2>1, PathsOfOthers
  <2>2. ASSUME NEW f \in In(n) PROVE Hangs(f, n) /\ PathOf[n] = Append(Trunk(f), vertices[n].name)
    <3>1. <<f, n>> \in edges
      BY DEF In
    <3>2. f \in Stem
      BY <1>1, <1>3, <3>1, EdgeOf, StemIsDirectories
    <3> QED BY <1>1, <1>3, <3>1, <3>2, PathsOfOthers DEF Hangs
  <2> QED BY <2>1, <2>2
<1>4. ASSUME NEW f \in Stem PROVE Trunk(f) \in TheFolders
  <2>1. CASE vertices = <<>>
    <3>1. Stem = {1}
      BY <1>1, <2>1, StemIsDirectories DEF Shape, StemInv, Stem
    <3> QED BY <1>2, <3>1 DEF TheFolders
  <2>2. CASE vertices # <<>>
    <3>1. PathOf[f] = Trunk(f) /\ f \in Live /\ IsDirectory(f)
      BY <1>1, <2>2, PathsOfStem, StemIsDirectories
    <3> QED BY <3>1 DEF TheFolders
  <2> QED BY <2>1, <2>2
<1>5. ASSUME NEW f, NEW n, Hangs(f, n) PROVE Append(Trunk(f), vertices[n].name) \in TheFolders
  <2>1. f \in Stem /\ IsDirectory(n) /\ n \in Live /\ <<f, n>> \in edges
    BY <1>1, <1>5 DEF Hangs, IsDirectory
  <2>2. PathOf[n] = Append(Trunk(f), vertices[n].name)
    BY <1>1, <2>1, PathsOfOthers
  <2> QED BY <2>1, <2>2 DEF TheFolders
<1>6. ASSUME NEW p \in TheFolders
      PROVE  \/ \E f \in Stem : p = Trunk(f)
             \/ \E f, n : Hangs(f, n) /\ p = Append(Trunk(f), vertices[n].name)
  <2>1. CASE p = <<>>
    BY <1>2, <2>1
  <2>2. CASE \E n \in Live : IsDirectory(n) /\ p = PathOf[n]
    BY <1>2, <1>3, <2>2
  <2> QED BY <2>1, <2>2 DEF TheFolders
<1> QED BY <1>4, <1>5, <1>6 DEF FoldersAre

\* Who replaces a policy is the only request at work.
LEMMA ReplacingOne ==
  ASSUME TypeInv, SerialInv, NEW r \in Replacing
  PROVE  /\ Replacing = {r} /\ r \in Req /\ r \in Updates /\ pc[r] \in {"unlink", "relink"}
         /\ IsPolicy(loc[r].old) /\ loc[r].old \in DOMAIN vertices
         /\ loc[r].father \in Stem
         /\ loc[r].old # loc[r].node
         /\ \A g : <<g, loc[r].old>> \in edges => g = loc[r].father
<1>1. r \in Req /\ r \in Updates /\ pc[r] \in {"unlink", "relink"} /\ IsPolicy(loc[r].old)
  BY DEF Replacing, Req, Posts
<1>2. Replacing = {r}
  BY <1>1 DEF Replacing, SerialInv, Alone, Busy, Req, Posts
<1>3. /\ loc[r] \in Locals /\ Shape /\ StoringInv(r)
      /\ loc[r].old \in DOMAIN vertices /\ loc[r].old < loc[r].node
      /\ loc[r].father < loc[r].node
  BY <1>1, SavedHolds DEF Saved
<1>4. /\ <<loc[r].father, loc[r].node>> \in edges
      /\ <<loc[r].father, loc[r].old>> \in edges \/ \A m : <<m, loc[r].old>> \notin edges
  BY <1>1, <1>3 DEF StoringInv, Saved
<1>5. loc[r].father \in Nat /\ loc[r].node \in Nat /\ loc[r].old \in Nat
  BY <1>3 DEF Locals
<1>6. loc[r].father \in Stem
  BY <1>3, <1>4, <1>5, EdgeOf
<1>7. \A g : <<g, loc[r].old>> \in edges => g = loc[r].father
  BY <1>3, <1>4, EdgeOf
<1> QED BY <1>1, <1>2, <1>3, <1>5, <1>6, <1>7

LEMMA ShownIsCurrent ==
  ASSUME TypeInv, SerialInv, NEW f, NEW n, Shown(f, n)
  PROVE  n \in Current /\ FolderOf(n) = f
<1>1. Shape /\ Live = DOMAIN vertices /\ f \in Stem /\ IsPolicy(n) /\ n \in DOMAIN vertices
  BY ShapeNow, StemIsDirectories DEF Shown, IsPolicy
<1>2. ASSUME NEW r \in Replacing, n = loc[r].old
      PROVE  f = loc[r].father /\ n \in Current /\ FolderOf(n) = f
  <2>1. Replacing = {r} /\ \A g : <<g, n>> \in edges => g = loc[r].father
    BY <1>2, ReplacingOne
  <2>2. f = loc[r].father
    BY <2>1 DEF Shown
  <2>3. {q \in Replacing : loc[q].old = n} = {r}
    BY <1>2, <2>1
  <2>4. FolderOf(n) = loc[r].father
    BY <2>3 DEF FolderOf
  <2>5. n \in Current
    BY <1>2 DEF Current
  <2> QED BY <2>2, <2>4, <2>5
<1>3. ASSUME \A r \in Replacing : n # loc[r].old
      PROVE  n \in Current /\ FolderOf(n) = f
  <2>1. <<f, n>> \in edges /\ \A r \in Replacing : n # loc[r].node
    BY <1>3 DEF Shown
  <2>2. In(n) = {f} /\ IsDirectory(f)
    BY <1>1, <2>1, EdgeOf, StemIsDirectories
  <2>3. {q \in Replacing : loc[q].old = n} = {}
    BY <1>3
  <2>4. FolderOf(n) = f
    BY <2>2, <2>3 DEF FolderOf
  <2>5. n \in Current
    BY <1>1, <2>1, <2>2 DEF Current, InFolder
  <2> QED BY <2>4, <2>5
<1> QED BY <1>2, <1>3

LEMMA CurrentIsShown ==
  ASSUME TypeInv, SerialInv, NEW n \in Current
  PROVE  \E f : Shown(f, n)
<1>1. Shape /\ Live = DOMAIN vertices
  BY ShapeNow, StemIsDirectories
<1>2. ASSUME NEW r \in Replacing, n = loc[r].old PROVE Shown(loc[r].father, n)
  BY <1>2, ReplacingOne DEF Shown
<1>3. ASSUME n \in InFolder, \A r \in Replacing : n # loc[r].node PROVE \E f : Shown(f, n)
  <2>1. PICK f \in In(n) : IsDirectory(f)
    BY <1>3 DEF InFolder
  <2>2. <<f, n>> \in edges /\ IsPolicy(n)
    BY <1>3 DEF In, InFolder
  <2>3. f \in Stem
    BY <1>1, <2>1, <2>2, EdgeOf, StemIsDirectories
  <2> QED BY <1>3, <2>2, <2>3 DEF Shown
<1> QED BY <1>2, <1>3 DEF Current

LEMMA EntriesShown == TypeInv /\ SerialInv => EntriesAre
<1> SUFFICES ASSUME TypeInv, SerialInv PROVE EntriesAre
  OBVIOUS
<1>1. Shape /\ Live = DOMAIN vertices
  BY ShapeNow, StemIsDirectories
<1>2. ASSUME NEW f, NEW n, Shown(f, n)
      PROVE  /\ n \in Current
             /\ EntryAt(f, n) = [folder |-> PathOf[FolderOf(n)], name |-> vertices[n].name,
                                 history |-> History[n]]
  <2>1. n \in Current /\ FolderOf(n) = f
    BY <1>2, ShownIsCurrent
  <2>2. f \in Stem /\ vertices # <<>>
    BY <1>1, <1>2, StemIsDirectories DEF Shown, IsPolicy
  <2>3. PathOf[f] = Trunk(f)
    BY <1>1, <2>2, PathsOfStem
  <2> QED BY <2>1, <2>3 DEF EntryAt
<1>3. ASSUME NEW e \in TheBook PROVE \E f, n : Shown(f, n) /\ e = EntryAt(f, n)
  <2>1. PICK n \in Current : e = [folder |-> PathOf[FolderOf(n)], name |-> vertices[n].name,
                                  history |-> History[n]]
    BY DEF TheBook
  <2>2. PICK f : Shown(f, n)
    BY CurrentIsShown
  <2> QED BY <1>2, <2>1, <2>2
<1>4. ASSUME NEW f, NEW n, Shown(f, n) PROVE EntryAt(f, n) \in TheBook
  BY <1>2, <1>4 DEF TheBook
<1> QED BY <1>3, <1>4 DEF EntriesAre

LEMMA FoldersShownNext == (TypeInv /\ SerialInv => FoldersAre)'
BY FoldersShown, PTL

LEMMA EntriesShownNext == (TypeInv /\ SerialInv => EntriesAre)'
BY EntriesShown, PTL

(***************************************************************************)
(* What a step leaves of that.                                             *)
(***************************************************************************)
HistoriesAre ==
  \A n \in DOMAIN vertices :
    /\ Out(n) = {} => History[n] = <<vertices[n].text>>
    /\ \A m : Out(n) = {m} => History[n] = Append(History[m], vertices[n].text)

LEMMA HistoriesNow == Shape => HistoriesAre
BY HistoryOf DEF HistoriesAre

LEMMA HistoriesNext == (Shape => HistoriesAre)'
BY HistoriesNow, PTL

\* Policies that keep what hangs from them keep their history.
LEMMA HistoriesStay ==
  ASSUME Shape, Shape', NEW K,
         \A n \in K : /\ IsPolicy(n) /\ n \in DOMAIN vertices'
                      /\ vertices'[n] = vertices[n] /\ Out(n)' = Out(n) /\ Out(n) \subseteq K
  PROVE  \A n \in K : History'[n] = History[n]
<1> DEFINE Bad == {n \in K : History'[n] # History[n]}
<1>1. \A n \in K : n \in DOMAIN vertices /\ n \in Nat
  <2>1. DOMAIN vertices \subseteq Nat
    BY TypeOfVertices DEF Shape
  <2> QED BY <2>1 DEF IsPolicy
<1>2. ASSUME Bad # {} PROVE FALSE
  <2>1. PICK n \in Bad : \A k \in Bad : ~(k < n)
    <3>1. Bad \subseteq Nat
      BY <1>1
    <3> HIDE DEF Bad
    <3> QED BY <1>2, <3>1, LeastNumber
  <2>2. /\ n \in K /\ IsPolicy(n) /\ n \in DOMAIN vertices /\ n \in DOMAIN vertices'
        /\ vertices'[n] = vertices[n] /\ Out(n)' = Out(n) /\ Out(n) \subseteq K
        /\ History'[n] # History[n]
    BY <1>1, <2>1
  <2>3. /\ Out(n) = {} => History[n] = <<vertices[n].text>>
        /\ \A m : Out(n) = {m} => History[n] = Append(History[m], vertices[n].text)
    BY <2>2, HistoriesNow DEF HistoriesAre
  <2>4. /\ Out(n)' = {} => History'[n] = <<vertices'[n].text>>
        /\ \A m : Out(n)' = {m} => History'[n] = Append(History'[m], vertices'[n].text)
    BY <2>2, HistoriesNext DEF HistoriesAre
  <2>5. CASE Out(n) = {}
    BY <2>2, <2>3, <2>4, <2>5
  <2>6. ASSUME NEW m, Out(n) = {m}, m < n PROVE FALSE
    <3>1. m \in K /\ m \notin Bad
      BY <2>1, <2>2, <2>6
    <3>2. History'[m] = History[m]
      BY <3>1
    <3> QED BY <2>2, <2>3, <2>4, <2>6, <3>2
  <2> QED BY <2>2, <2>5, <2>6, SonsOfPolicy
<1> QED BY <1>2

\* A policy is shown once.
LEMMA EntriesDiffer ==
  ASSUME TypeInv, SerialInv, NEW f, NEW n, NEW g, NEW m, Shown(f, n), Shown(g, m),
         History[n] = History[m]
  PROVE  f = g /\ n = m
<1>1. IsPolicy(n) /\ IsPolicy(m) /\ Shape
  BY ShapeNow DEF Shown
<1>2. vertices[n].text = vertices[m].text
  BY <1>1, HistoriesEnd
<1>3. n = m
  BY <1>1, <1>2 DEF Shape, StoredInv, IsPolicy
<1> QED BY <1>3, ShownIsCurrent

LEMMA FoldersStay ==
  ASSUME TypeInv, TypeInv', SerialInv, SerialInv',
         \A f, n : Hangs(f, n)' <=> Hangs(f, n),
         \A f, n : Hangs(f, n) => vertices'[n] = vertices[n]
  PROVE  TheFolders' = TheFolders
<1>1. FoldersAre /\ FoldersAre'
  BY FoldersShown, FoldersShownNext
<1>2. ASSUME NEW p PROVE p \in TheFolders' <=> p \in TheFolders
  <2>1. p \in TheFolders <=>
          \/ \E f \in Stem : p = Trunk(f)
          \/ \E f, n : Hangs(f, n) /\ p = Append(Trunk(f), vertices[n].name)
    BY <1>1 DEF FoldersAre
  <2>2. p \in TheFolders' <=>
          \/ \E f \in Stem : p = Trunk(f)
          \/ \E f, n : Hangs(f, n)' /\ p = Append(Trunk(f), vertices'[n].name)
    BY <1>1 DEF FoldersAre, Trunk, Stem
  <2> QED BY <2>1, <2>2
<1> QED BY <1>2

LEMMA EntriesStay ==
  ASSUME TypeInv, TypeInv', SerialInv, SerialInv',
         \A f, n : Shown(f, n)' <=> Shown(f, n),
         \A f, n : Shown(f, n) => vertices'[n] = vertices[n] /\ History'[n] = History[n]
  PROVE  TheBook' = TheBook
<1>1. EntriesAre /\ EntriesAre'
  BY EntriesShown, EntriesShownNext
<1>2. \A f, n : Shown(f, n) => EntryAt(f, n)' = EntryAt(f, n)
  BY DEF EntryAt, Trunk
<1>3. ASSUME NEW e PROVE e \in TheBook' <=> e \in TheBook
  <2>1. e \in TheBook <=> \E f, n : Shown(f, n) /\ e = EntryAt(f, n)
    BY <1>1 DEF EntriesAre
  <2>2. e \in TheBook' <=> \E f, n : Shown(f, n)' /\ e = EntryAt(f, n)'
    BY <1>1 DEF EntriesAre
  <2> QED BY <1>2, <2>1, <2>2
<1> QED BY <1>3

\* All the policies keep their history when no policy gains or loses a son.
LEMMA AllHistoriesStay ==
  ASSUME TypeInv, TypeInv', SerialInv, SerialInv', Grows,
         \A n, m : IsPolicy(n) => (<<n, m>> \in edges' <=> <<n, m>> \in edges)
  PROVE  \A n : IsPolicy(n) => vertices'[n] = vertices[n] /\ IsPolicy(n)' /\ History'[n] = History[n]
<1>1. /\ Shape /\ Shape' /\ Live = DOMAIN vertices
      /\ edges \subseteq (DOMAIN vertices) \X (DOMAIN vertices)
  BY ShapeNow, ShapeNext, StemIsDirectories DEF Shape, GraphTypeOK
<1>2. Live' = DOMAIN vertices'
  BY <1>1 DEF Shape, GraphTypeOK, Live
<1> DEFINE K == {n \in DOMAIN vertices : IsPolicy(n)}
<1>3. ASSUME NEW n \in K
      PROVE  /\ IsPolicy(n) /\ n \in DOMAIN vertices'
             /\ vertices'[n] = vertices[n] /\ Out(n)' = Out(n) /\ Out(n) \subseteq K
  <2>1. IsPolicy(n) /\ n \in DOMAIN vertices' /\ vertices'[n] = vertices[n]
    BY DEF Grows
  <2>2. \A m : <<n, m>> \in edges => m \in DOMAIN vertices /\ m \in DOMAIN vertices'
    BY <1>1 DEF Grows
  <2>3. Out(n)' = Out(n)
    BY <1>1, <1>2, <2>1, <2>2 DEF Out
  <2>4. Out(n) \subseteq K
    <3>1. ASSUME NEW m \in Out(n) PROVE IsPolicy(m) /\ m \in DOMAIN vertices
      BY <1>1, <2>1, SonsOfPolicy
    <3> QED BY <3>1
  <2> QED BY <2>1, <2>3, <2>4
<1>4. \A n \in K : History'[n] = History[n]
  <2> HIDE DEF K
  <2> QED BY <1>1, <1>3, HistoriesStay
<1>5. \A n : IsPolicy(n) => n \in K /\ vertices'[n] = vertices[n] /\ IsPolicy(n)'
  BY DEF IsPolicy, Grows
<1> QED BY <1>4, <1>5

\* Folder k gets into folder f.
LEMMA FolderAdded ==
  ASSUME TypeInv, TypeInv', SerialInv, SerialInv', NEW g, NEW k,
         \A f, n : Hangs(f, n)' <=> Hangs(f, n) \/ (f = g /\ n = k),
         \A f, n : Hangs(f, n) => vertices'[n] = vertices[n]
  PROVE  TheFolders' = TheFolders \cup {Append(Trunk(g), vertices'[k].name)}
<1>1. FoldersAre /\ FoldersAre'
  BY FoldersShown, FoldersShownNext
<1>2. ASSUME NEW p
      PROVE  p \in TheFolders' <=> p \in TheFolders \/ p = Append(Trunk(g), vertices'[k].name)
  <2>1. p \in TheFolders <=>
          \/ \E f \in Stem : p = Trunk(f)
          \/ \E f, n : Hangs(f, n) /\ p = Append(Trunk(f), vertices[n].name)
    BY <1>1 DEF FoldersAre
  <2>2. p \in TheFolders' <=>
          \/ \E f \in Stem : p = Trunk(f)
          \/ \E f, n : Hangs(f, n)' /\ p = Append(Trunk(f), vertices'[n].name)
    BY <1>1 DEF FoldersAre, Trunk, Stem
  <2> QED BY <2>1, <2>2
<1> QED BY <1>2

\* Policy k gets into folder g, and policy o is no longer shown.
LEMMA EntryReplaced ==
  ASSUME TypeInv, TypeInv', SerialInv, SerialInv', NEW g, NEW k, NEW o, Shown(g, o),
         \A f, n : Shown(f, n)' <=> (Shown(f, n) /\ n # o) \/ (f = g /\ n = k),
         \A f, n : Shown(f, n) => vertices'[n] = vertices[n] /\ History'[n] = History[n]
  PROVE  TheBook' = (TheBook \ {EntryAt(g, o)}) \cup {EntryAt(g, k)'}
<1>1. EntriesAre /\ EntriesAre'
  BY EntriesShown, EntriesShownNext
<1>2. \A f, n : Shown(f, n) => EntryAt(f, n)' = EntryAt(f, n)
  BY DEF EntryAt, Trunk
<1>3. ASSUME NEW f, NEW n, Shown(f, n), EntryAt(f, n) = EntryAt(g, o) PROVE n = o
  <2>1. History[n] = History[o]
    BY <1>3 DEF EntryAt
  <2> QED BY <1>3, <2>1, EntriesDiffer
<1>4. \A f : Shown(f, o) => EntryAt(f, o) = EntryAt(g, o)
  BY ShownIsCurrent
<1>5. ASSUME NEW e
      PROVE  e \in TheBook' <=> (e \in TheBook /\ e # EntryAt(g, o)) \/ e = EntryAt(g, k)'
  <2>1. e \in TheBook <=> \E f, n : Shown(f, n) /\ e = EntryAt(f, n)
    BY <1>1 DEF EntriesAre
  <2>2. e \in TheBook' <=> \E f, n : Shown(f, n)' /\ e = EntryAt(f, n)'
    BY <1>1 DEF EntriesAre
  <2>3. e \in TheBook' <=> (\E f, n : Shown(f, n) /\ n # o /\ e = EntryAt(f, n)) \/ e = EntryAt(g, k)'
    BY <1>2, <2>2
  <2>4. (\E f, n : Shown(f, n) /\ n # o /\ e = EntryAt(f, n)) <=> e \in TheBook /\ e # EntryAt(g, o)
    BY <1>3, <1>4, <2>1
  <2> QED BY <2>3, <2>4
<1> QED BY <1>5

LEMMA EntryAdded ==
  ASSUME TypeInv, TypeInv', SerialInv, SerialInv', NEW g, NEW k,
         \A f, n : Shown(f, n)' <=> Shown(f, n) \/ (f = g /\ n = k),
         \A f, n : Shown(f, n) => vertices'[n] = vertices[n] /\ History'[n] = History[n]
  PROVE  TheBook' = TheBook \cup {EntryAt(g, k)'}
<1>1. EntriesAre /\ EntriesAre'
  BY EntriesShown, EntriesShownNext
<1>2. \A f, n : Shown(f, n) => EntryAt(f, n)' = EntryAt(f, n)
  BY DEF EntryAt, Trunk
<1>3. ASSUME NEW e PROVE e \in TheBook' <=> e \in TheBook \/ e = EntryAt(g, k)'
  <2>1. e \in TheBook <=> \E f, n : Shown(f, n) /\ e = EntryAt(f, n)
    BY <1>1 DEF EntriesAre
  <2>2. e \in TheBook' <=> \E f, n : Shown(f, n)' /\ e = EntryAt(f, n)'
    BY <1>1 DEF EntriesAre
  <2> QED BY <1>2, <2>1, <2>2
<1> QED BY <1>3

(***************************************************************************)
(* Answers.                                                                *)
(***************************************************************************)
SavedNow == {r \in Posts : status[r] = 201}
Refusals == {r \in Posts : status[r] = 409}

LEMMA AnswerShows ==
  ASSUME TypeInv, BookInv, NEW r \in Req, Busy(r) \/ pc[r] = "new", NEW code, Reply(r, code)
  PROVE  /\ r \in Posts /\ code = 201 => SavedNow' = SavedNow \cup {r} /\ Refusals' = Refusals
         /\ r \in Posts /\ code = 409 => Refusals' = Refusals \cup {r} /\ SavedNow' = SavedNow
         /\ r \notin Posts \/ code \notin {201, 409} => SavedNow' = SavedNow /\ Refusals' = Refusals
<1>1. status[r] = 0 /\ Posts \subseteq Req
  BY DEF BookInv, AnsweredOnce, Busy, Req
<1>2. \A q \in Req : status'[q] = IF q = r THEN code ELSE status[q]
  BY LocalsOf DEF Reply
<1>3. ASSUME NEW q
      PROVE  /\ q \in SavedNow' <=> q \in Posts /\ (IF q = r THEN code ELSE status[q]) = 201
             /\ q \in SavedNow <=> q \in Posts /\ status[q] = 201
             /\ q \in Refusals' <=> q \in Posts /\ (IF q = r THEN code ELSE status[q]) = 409
             /\ q \in Refusals <=> q \in Posts /\ status[q] = 409
  BY <1>1, <1>2 DEF SavedNow, Refusals
<1>4. r \in Posts /\ code = 201 => SavedNow' = SavedNow \cup {r} /\ Refusals' = Refusals
  <2>1. ASSUME r \in Posts, code = 201, NEW q
        PROVE  /\ q \in SavedNow' <=> q \in SavedNow \/ q = r
               /\ q \in Refusals' <=> q \in Refusals
    BY <1>1, <1>3, <2>1
  <2> QED BY <2>1
<1>5. r \in Posts /\ code = 409 => Refusals' = Refusals \cup {r} /\ SavedNow' = SavedNow
  <2>1. ASSUME r \in Posts, code = 409, NEW q
        PROVE  /\ q \in Refusals' <=> q \in Refusals \/ q = r
               /\ q \in SavedNow' <=> q \in SavedNow
    BY <1>1, <1>3, <2>1
  <2> QED BY <2>1
<1>6. r \notin Posts \/ code \notin {201, 409} => SavedNow' = SavedNow /\ Refusals' = Refusals
  <2>1. ASSUME r \notin Posts \/ code \notin {201, 409}, NEW q
        PROVE  /\ q \in Refusals' <=> q \in Refusals
               /\ q \in SavedNow' <=> q \in SavedNow
    BY <1>1, <1>3, <2>1
  <2> QED BY <2>1
<1> QED BY <1>4, <1>5, <1>6

LEMMA NoAnswerShows ==
  ASSUME status' = status
  PROVE  SavedNow' = SavedNow /\ Refusals' = Refusals
BY DEF SavedNow, Refusals

\* Nobody replaces anything but the request that is served.
LEMMA ReplacingIs ==
  ASSUME NEW r \in Req, \A q \in Req \ {r} : ~Busy(q) /\ pc'[q] = pc[q]
  PROVE  /\ pc[r] \notin {"unlink", "relink"} => Replacing = {}
         /\ pc'[r] \notin {"unlink", "relink"} => Replacing' = {}
         /\ ~IsPolicy(loc[r].old) => Replacing = {}
         /\ ~IsPolicy(loc[r].old)' => Replacing' = {}
         /\ r \in Updates /\ pc[r] \in {"unlink", "relink"} /\ IsPolicy(loc[r].old) =>
              Replacing = {r}
         /\ r \in Updates /\ pc'[r] \in {"unlink", "relink"} /\ IsPolicy(loc[r].old)' =>
              Replacing' = {r}
<1>1. \A q \in Updates : q \in Req
  BY DEF Req, Posts
<1>2. \A q \in Updates : pc[q] \in {"unlink", "relink"} => q = r
  BY <1>1 DEF Busy
<1>3. \A q \in Updates : pc'[q] \in {"unlink", "relink"} => q = r
  BY <1>1 DEF Busy
<1> QED BY <1>2, <1>3 DEF Replacing

(***************************************************************************)
(* Names in use.                                                           *)
(***************************************************************************)
InUse(f, x) ==
  \/ \E e \in TheBook : e.folder = f /\ Lower[e.name] = Lower[x]
  \/ \E p \in TheFolders : \E y \in DOMAIN Lower : p = Append(f, y) /\ Lower[y] = Lower[x]

LEMMA BookInUse == \A f, x : Book!InUse(f, x) <=> InUse(f, x)
BY DEF Book!InUse, InUse, TheBook, TheFolders

\* What isValid finds in a folder is what the book shows there.
LEMMA TakenIsInUse ==
  ASSUME TypeInv, SerialInv, Replacing = {}, vertices # <<>>, NEW f \in Stem, NEW x
  PROVE  Taken(f, x) <=> InUse(Trunk(f), x)
<1>1. /\ Shape /\ Live = DOMAIN vertices /\ IsDirectory(f) /\ FoldersAre /\ EntriesAre
      /\ \A n \in DOMAIN vertices : IsDirectory(n) <=> ~IsPolicy(n)
  BY ShapeNow, StemIsDirectories, FoldersShown, EntriesShown
<1>2. ASSUME NEW n \in Out(f), Lower[vertices[n].name] = Lower[x] PROVE InUse(Trunk(f), x)
  <2>1. <<f, n>> \in edges /\ n \in DOMAIN vertices
    BY <1>1 DEF Out
  <2>2. CASE IsPolicy(n)
    <3>1. Shown(f, n)
      BY <2>1, <2>2 DEF Shown
    <3>2. EntryAt(f, n) \in TheBook
      BY <1>1, <3>1 DEF EntriesAre
    <3> QED BY <1>2, <3>2 DEF InUse, EntryAt
  <2>3. CASE IsDirectory(n)
    <3>1. Hangs(f, n)
      BY <2>1, <2>3 DEF Hangs
    <3>2. Append(Trunk(f), vertices[n].name) \in TheFolders
      BY <1>1, <3>1 DEF FoldersAre
    <3>3. vertices[n].name \in DOMAIN Lower
      <4>1. CASE n \notin Stem
        BY <1>1, <2>1, <4>1, EdgeOf, Inputs
      <4>2. CASE n \in Stem
        <5>1. n # 1
          <6>1. In(n) = {f}
            BY <1>1, <2>1, EdgeOf
          <6> QED BY <1>1, <4>2, <6>1, FatherInStem
        <5>2. n - 1 \in 1 .. Len(Stored) /\ vertices[n].name = Stored[n - 1]
          BY <1>1, <4>2, <5>1, FatherInStem
        <5> QED BY <5>2, StoredNames
      <4> QED BY <4>1, <4>2
    <3> QED BY <1>2, <3>2, <3>3 DEF InUse
  <2> QED BY <1>1, <2>1, <2>2, <2>3
<1>3. ASSUME NEW n, <<f, n>> \in edges, Lower[vertices[n].name] = Lower[x] PROVE Taken(f, x)
  <2>1. n \in Out(f)
    BY <1>1, <1>3, EdgeOf DEF Out
  <2> QED BY <1>1, <1>3, <2>1 DEF Taken
<1>4. ASSUME NEW e \in TheBook, e.folder = Trunk(f), Lower[e.name] = Lower[x] PROVE Taken(f, x)
  <2>1. PICK g, n : Shown(g, n) /\ e = EntryAt(g, n)
    BY <1>1 DEF EntriesAre
  <2>2. g \in Stem /\ Trunk(g) = Trunk(f) /\ <<g, n>> \in edges /\ e.name = vertices[n].name
    BY <1>4, <2>1 DEF Shown, EntryAt
  <2>3. g = f
    BY <2>2, TrunkTypes
  <2> QED BY <1>3, <1>4, <2>2, <2>3
<1>5. ASSUME NEW y \in DOMAIN Lower, Append(Trunk(f), y) \in TheFolders, Lower[y] = Lower[x]
      PROVE  Taken(f, x)
  <2>1. ASSUME NEW g, NEW n, Hangs(g, n), Append(Trunk(f), y) = Append(Trunk(g), vertices[n].name)
        PROVE  Taken(f, x)
    <3>1. g \in Stem /\ <<g, n>> \in edges
      BY <2>1 DEF Hangs
    <3>2. g = f /\ y = vertices[n].name
      BY <2>1, <3>1, OnePlace
    <3> QED BY <1>3, <1>5, <3>1, <3>2
  <2>2. ASSUME NEW g \in Stem, Append(Trunk(f), y) = Trunk(g) PROVE Taken(f, x)
    <3>1. g # 1
      <4>1. Trunk(1) = <<>>
        BY StoredNames, Beginnings DEF Trunk
      <4> QED BY <2>2, <4>1, TrunkTypes
    <3>2. /\ g - 1 \in Stem /\ g - 1 \in 1 .. Len(Stored) /\ <<g - 1, g>> \in edges
          /\ vertices[g].name = Stored[g - 1]
      BY <1>1, <3>1, FatherInStem
    <3>3. Append(SubSeq(Stored, 1, (g - 1) - 1), Stored[g - 1]) = SubSeq(Stored, 1, g - 1)
      BY <3>2, StoredNames, Beginnings
    <3>4. Append(Trunk(f), y) = Append(Trunk(g - 1), Stored[g - 1])
      BY <2>2, <3>3 DEF Trunk
    <3>5. f = g - 1 /\ y = Stored[g - 1]
      BY <3>2, <3>4, OnePlace
    <3> QED BY <1>3, <1>5, <3>2, <3>5
  <2> QED BY <1>1, <1>5, <2>1, <2>2 DEF FoldersAre
<1>6. Taken(f, x) => InUse(Trunk(f), x)
  BY <1>2 DEF Taken
<1>7. InUse(Trunk(f), x) => Taken(f, x)
  BY <1>4, <1>5 DEF InUse
<1> QED BY <1>6, <1>7

(***************************************************************************)
(* One step of the service, and what it is to the book.                    *)
(***************************************************************************)
Stutters ==
  TheFolders' = TheFolders /\ TheBook' = TheBook /\ SavedNow' = SavedNow /\ Refusals' = Refusals

Serves ==
  TypeInv /\ TypeInv' /\ BookInv /\ SerialInv /\ SerialInv'

\* A step that only reads changes no folder and no policy.
LEMMA ReadingShows ==
  ASSUME Serves, UNCHANGED graphVars, Replacing = {}, Replacing' = {}
  PROVE  TheFolders' = TheFolders /\ TheBook' = TheBook
<1>1. vertices' = vertices /\ edges' = edges /\ removed' = removed
  BY DEF graphVars
<1>2. \A n : (IsPolicy(n)' <=> IsPolicy(n)) /\ (IsDirectory(n)' <=> IsDirectory(n))
  BY <1>1, SameVertices
<1>3. \A f, n : Hangs(f, n)' <=> Hangs(f, n)
  BY <1>1, <1>2 DEF Hangs, Stem
<1>4. \A f, n : Shown(f, n)' <=> Shown(f, n)
  BY <1>1, <1>2 DEF Shown, Stem
<1>5. Grows
  BY <1>1 DEF Grows
<1>6. \A n : IsPolicy(n) => vertices'[n] = vertices[n] /\ History'[n] = History[n]
  BY <1>1, <1>5, AllHistoriesStay DEF Serves
<1>7. TheFolders' = TheFolders
  BY <1>1, <1>3, FoldersStay DEF Serves
<1>8. TheBook' = TheBook
  <2>1. \A f, n : Shown(f, n) => vertices'[n] = vertices[n] /\ History'[n] = History[n]
    BY <1>6 DEF Shown
  <2> QED BY <1>4, <2>1, EntriesStay DEF Serves
<1> QED BY <1>7, <1>8

\* A handler that reads and goes on, or answers neither 201 nor 409.
LEMMA ReadingStutters ==
  ASSUME Serves, UNCHANGED graphVars, NEW r \in Req,
         \A q \in Req \ {r} : ~Busy(q) /\ pc'[q] = pc[q],
         Busy(r) \/ pc[r] = "new",
         pc[r] \notin {"unlink", "relink"}, pc'[r] \notin {"unlink", "relink"},
         \/ status' = status
         \/ \E code : Reply(r, code) /\ (r \notin Posts \/ code \notin {201, 409})
  PROVE  Stutters
<1>1. TheFolders' = TheFolders /\ TheBook' = TheBook
  BY ReplacingIs, ReadingShows
<1>2. SavedNow' = SavedNow /\ Refusals' = Refusals
  BY AnswerShows, NoAnswerShows DEF Serves
<1> QED BY <1>1, <1>2 DEF Stutters

LEMMA BookActions ==
  /\ \A r, f, x : Book!Create(r, f, x) <=>
       /\ ~InUse(f, x) /\ TheBook' = TheBook \cup {Book!Entry(f, x, <<r>>)}
       /\ SavedNow' = SavedNow \cup {r} /\ TheFolders' = TheFolders /\ Refusals' = Refusals
  /\ \A r, f, x : Book!Refuse(r, f, x) <=>
       /\ InUse(f, x) /\ Refusals' = Refusals \cup {r}
       /\ TheFolders' = TheFolders /\ TheBook' = TheBook /\ SavedNow' = SavedNow
  /\ \A r, f, x : Book!MakeFolder(r, f, x) <=>
       /\ ~InUse(f, x) /\ TheFolders' = TheFolders \cup {Append(f, x)}
       /\ SavedNow' = SavedNow \cup {r} /\ TheBook' = TheBook /\ Refusals' = Refusals
  /\ \A r, e, x : Book!Update(r, e, x) <=>
       /\ TheBook' = (TheBook \ {e}) \cup {Book!Entry(e.folder, x, Append(e.history, r))}
       /\ SavedNow' = SavedNow \cup {r} /\ TheFolders' = TheFolders /\ Refusals' = Refusals
  /\ \A r, f, x : Book!Stray(r, f, x) <=>
       /\ \E y \in Replaced : Append(f, y) \in TheFolders
       /\ TheBook' = TheBook \cup {Book!Entry(f, x, <<r>>)}
       /\ TheFolders' = TheFolders /\ SavedNow' = SavedNow /\ Refusals' = Refusals
<1>1. ASSUME NEW r, NEW f, NEW x
      PROVE  Book!Create(r, f, x) <=>
       /\ ~InUse(f, x) /\ TheBook' = TheBook \cup {Book!Entry(f, x, <<r>>)}
       /\ SavedNow' = SavedNow \cup {r} /\ TheFolders' = TheFolders /\ Refusals' = Refusals
  <2>1. Book!InUse(f, x) <=> InUse(f, x)
    BY BookInUse
  <2> QED BY <2>1 DEF Book!Create, TheFolders, TheBook, SavedNow, Refusals
<1>2. ASSUME NEW r, NEW f, NEW x
      PROVE  Book!Refuse(r, f, x) <=>
       /\ InUse(f, x) /\ Refusals' = Refusals \cup {r}
       /\ TheFolders' = TheFolders /\ TheBook' = TheBook /\ SavedNow' = SavedNow
  <2>1. Book!InUse(f, x) <=> InUse(f, x)
    BY BookInUse
  <2> QED BY <2>1 DEF Book!Refuse, TheFolders, TheBook, SavedNow, Refusals
<1>3. ASSUME NEW r, NEW f, NEW x
      PROVE  Book!MakeFolder(r, f, x) <=>
       /\ ~InUse(f, x) /\ TheFolders' = TheFolders \cup {Append(f, x)}
       /\ SavedNow' = SavedNow \cup {r} /\ TheBook' = TheBook /\ Refusals' = Refusals
  <2>1. Book!InUse(f, x) <=> InUse(f, x)
    BY BookInUse
  <2> QED BY <2>1 DEF Book!MakeFolder, TheFolders, TheBook, SavedNow, Refusals
<1>4. \A r, e, x : Book!Update(r, e, x) <=>
       /\ TheBook' = (TheBook \ {e}) \cup {Book!Entry(e.folder, x, Append(e.history, r))}
       /\ SavedNow' = SavedNow \cup {r} /\ TheFolders' = TheFolders /\ Refusals' = Refusals
  BY DEF Book!Update, TheFolders, TheBook, SavedNow, Refusals
<1>5. \A r, f, x : Book!Stray(r, f, x) <=>
       /\ \E y \in Replaced : Append(f, y) \in TheFolders
       /\ TheBook' = TheBook \cup {Book!Entry(f, x, <<r>>)}
       /\ TheFolders' = TheFolders /\ SavedNow' = SavedNow /\ Refusals' = Refusals
  BY DEF Book!Stray, TheFolders, TheBook, SavedNow, Refusals
<1> QED BY <1>1, <1>2, <1>3, <1>4, <1>5

\* The step is one of the book.
Writes ==
  \/ \E r \in Creates, f \in TheFolders, x \in Names : Book!Create(r, f, x) \/ Book!Refuse(r, f, x)
  \/ \E r \in MakeFolders, f \in TheFolders, x \in Names : Book!MakeFolder(r, f, x)
  \/ \E r \in Updates, e \in TheBook, x \in Names : Book!Update(r, e, x)
  \/ \E r \in Updates, f \in TheFolders, x \in Names : Book!Stray(r, f, x)

LEMMA WritesIsBookNext == Writes <=> Book!BookNext
BY DEF Writes, Book!BookNext, TheFolders, TheBook

LEMMA StartShows ==
  ASSUME OneAtATime, Serves, NEW r \in Req, Start(r) \/ StartWithoutBody(r)
  PROVE  Stutters
<1>1. UNCHANGED graphVars /\ pc[r] = "new" /\ Cardinality(Active) < MaxActive
  BY DEF Start, StartWithoutBody
<1>2. \/ pc' = [pc EXCEPT ![r] = "root"] /\ status' = status
      \/ pc' = [pc EXCEPT ![r] = "done"] /\ Reply(r, 400)
  BY DEF Start, StartWithoutBody, Goto, Reply
<1>3. /\ \A q \in Req \ {r} : ~Busy(q) /\ pc'[q] = pc[q]
      /\ pc'[r] \in {"root", "done"}
  BY <1>1, <1>2, NobodyAtStart, StepNames DEF SerialInv, Serves
<1> QED BY <1>1, <1>2, <1>3, ReadingStutters

LEMMA LookUpShows ==
  ASSUME OneAtATime, FoldersApart, Serves, NEW r \in Req, LookUp(r)
  PROVE  Stutters
<1>1. ~Fails
  BY NothingFails DEF Serves
<1>2. Busy(r) /\ pc[r] \in {"root", "rootMake", "son"}
  BY DEF LookUp, GetRoot, CreateRoot, FindSon, Busy
<1>3. \/ \E n : Found(r, n) \/ HaveRoot(r, n)
      \/ Goto(r, "rootMake") \/ Goto(r, "son")
      \/ NotFound(r)
  BY <1>1 DEF LookUp, GetRoot, CreateRoot, FindSon, Refused
<1>4. PICK s \in Steps \ {"unlink", "relink"} :
        /\ pc' = [pc EXCEPT ![r] = s]
        /\ status' = status \/ Reply(r, 500) \/ Reply(r, 404)
  <2>1. ASSUME NEW n, Found(r, n) \/ HaveRoot(r, n)
        PROVE  \E s \in Steps \ {"unlink", "relink"} : pc' = [pc EXCEPT ![r] = s] /\ status' = status
    BY <2>1 DEF Found, HaveRoot, Goto, Steps
  <2>2. \A s : Goto(r, s) => pc' = [pc EXCEPT ![r] = s] /\ status' = status
    BY DEF Goto
  <2>3. NotFound(r) => pc' = [pc EXCEPT ![r] = "done"] /\ (Reply(r, 500) \/ Reply(r, 404))
    BY DEF NotFound, Reply
  <2>4. {"rootMake", "son", "done"} \subseteq Steps \ {"unlink", "relink"}
    BY DEF Steps
  <2> QED BY <1>3, <2>1, <2>2, <2>3, <2>4
<1>5. /\ pc'[r] = s
      /\ \A q \in Req \ {r} : ~Busy(q) /\ pc'[q] = pc[q]
  BY <1>2, <1>4, NobodyElse DEF SerialInv, Serves
<1>6. CASE UNCHANGED graphVars
  BY <1>2, <1>4, <1>5, <1>6, ReadingStutters
<1>7. CASE CreateRoot(r)
  <2>1. edges = {} /\ edges' = {}
    BY <1>7, CreateRootSerial DEF Serves
  <2>2. Replacing = {} /\ Replacing' = {}
    BY <1>2, <1>4, <1>5, ReplacingIs
  <2>3. \A f, n : ~Hangs(f, n) /\ ~Hangs(f, n)' /\ ~Shown(f, n) /\ ~Shown(f, n)'
    BY <2>1, <2>2 DEF Hangs, Shown
  <2>4. TheFolders' = TheFolders
    BY <2>3, FoldersStay DEF Serves
  <2>5. TheBook' = TheBook
    BY <2>3, EntriesStay DEF Serves
  <2>6. SavedNow' = SavedNow /\ Refusals' = Refusals
    BY <1>2, <1>4, AnswerShows, NoAnswerShows DEF Serves
  <2> QED BY <2>4, <2>5, <2>6 DEF Stutters
<1> QED BY <1>6, <1>7 DEF LookUp, GetRoot, FindSon

LEMMA GetShows ==
  ASSUME OneAtATime, Serves, NEW r \in Req, Get(r)
  PROVE  Stutters
<1>1. /\ Busy(r) /\ pc[r] \in {"class", "content", "value"} /\ UNCHANGED graphVars
      /\ ~Fails
  BY NothingFails DEF Serves, Get, ReadClass, ReadContent, ReadValue, Busy
<1>2. \/ \E s \in {"content", "value"} : pc' = [pc EXCEPT ![r] = s] /\ status' = status
      \/ pc' = [pc EXCEPT ![r] = "done"] /\ Reply(r, 200)
  BY <1>1 DEF Get, ReadClass, ReadContent, ReadValue, Goto, Reply
<1>3. /\ \A q \in Req \ {r} : ~Busy(q) /\ pc'[q] = pc[q]
      /\ pc'[r] \in {"content", "value", "done"}
  BY <1>1, <1>2, NobodyElse, StepNames DEF SerialInv, Serves
<1> QED BY <1>1, <1>2, <1>3, ReadingStutters

\* A name in use is refused: the only answer 409 there is.
LEMMA CheckNameShows ==
  ASSUME OneAtATime, Serves, NEW r \in Req, CheckName(r)
  PROVE  Stutters \/ Writes
<1>1. /\ Busy(r) /\ pc[r] = "valid" /\ UNCHANGED graphVars /\ ~Fails
      /\ r \in Posts /\ r \notin Updates
  BY NothingFails, LocalsOf DEF Serves, CheckName, Busy, Walking
<1>2. PICK s \in {"create", "done"} : pc' = [pc EXCEPT ![r] = s]
  BY <1>1 DEF CheckName, Goto, Reply
<1>3. /\ \A q \in Req \ {r} : ~Busy(q) /\ pc'[q] = pc[q]
      /\ pc'[r] = s
  BY <1>1, <1>2, NobodyElse, StepNames DEF SerialInv, Serves
<1>4. CASE status' = status \/ Reply(r, 500)
  BY <1>1, <1>2, <1>3, <1>4, ReadingStutters
<1>5. CASE r \in Creates /\ Taken(loc[r].father, loc[r].name) /\ Reply(r, 409)
  <2>1. LookupInv(r) /\ loc[r].father \in Stem /\ vertices # <<>> /\ loc[r].name \in Names
    <3>1. LookupInv(r)
      BY <1>1, WorkOf DEF Serves
    <3> QED BY <1>1, <3>1 DEF LookupInv
  <2>2. Replacing = {} /\ Replacing' = {}
    BY <1>1, <1>3, ReplacingIs
  <2>3. TheFolders' = TheFolders /\ TheBook' = TheBook
    BY <1>1, <2>2, ReadingShows
  <2>4. InUse(Trunk(loc[r].father), loc[r].name)
    BY <1>5, <2>1, <2>2, TakenIsInUse DEF Serves
  <2>5. Refusals' = Refusals \cup {r} /\ SavedNow' = SavedNow
    BY <1>1, <1>5, AnswerShows DEF Serves
  <2>6. Trunk(loc[r].father) \in TheFolders
    BY <2>1, FoldersShown DEF FoldersAre, Serves
  <2>7. PICK f, x : f = Trunk(loc[r].father) /\ x = loc[r].name
    OBVIOUS
  <2>8. Book!Refuse(r, f, x)
    BY <2>3, <2>4, <2>5, <2>7, BookActions
  <2> QED BY <1>5, <2>1, <2>6, <2>7, <2>8 DEF Writes
<1> QED BY <1>1, <1>4, <1>5 DEF CheckName, Goto

LEMMA ReadOldShows ==
  ASSUME OneAtATime, Serves, NEW r \in Req, ReadOld(r)
  PROVE  Stutters
<1>1. /\ Busy(r) /\ pc[r] = "read" /\ UNCHANGED graphVars
      /\ pc' = [pc EXCEPT ![r] = "create"] /\ status' = status
  BY NothingFails DEF Serves, ReadOld, Busy, Refused, Goto
<1>2. /\ \A q \in Req \ {r} : ~Busy(q) /\ pc'[q] = pc[q]
      /\ pc'[r] = "create"
  BY <1>1, NobodyElse, StepNames DEF SerialInv, Serves
<1> QED BY <1>1, <1>2, ReadingStutters

\* A vertex that hangs nowhere is not in the book.
LEMMA CreateNodeShows ==
  ASSUME OneAtATime, Serves, NEW r \in Req, CreateNode(r)
  PROVE  Stutters
<1>1. /\ pc[r] = "create" /\ Busy(r) /\ pc' = [pc EXCEPT ![r] = "link"] /\ status' = status
      /\ edges' = edges /\ Grows
      /\ DOMAIN vertices' = DOMAIN vertices \cup {NewRid} /\ NewRid \notin DOMAIN vertices
  BY CreateNodeSerial DEF Serves, Busy
<1>2. /\ \A q \in Req \ {r} : ~Busy(q) /\ pc'[q] = pc[q]
      /\ pc'[r] = "link"
  BY <1>1, NobodyElse, StepNames DEF SerialInv, Serves
<1>3. Replacing = {} /\ Replacing' = {}
  BY <1>1, <1>2, ReplacingIs
<1>4. ASSUME NEW f, NEW n, <<f, n>> \in edges
      PROVE  /\ vertices'[n] = vertices[n]
             /\ (IsPolicy(n)' <=> IsPolicy(n)) /\ (IsDirectory(n)' <=> IsDirectory(n))
  <2>1. n \in DOMAIN vertices
    BY <1>4, ShapeNow, EdgeOf DEF Serves
  <2> QED BY <1>1, <2>1 DEF Grows, IsPolicy, IsDirectory
<1>5. \A f, n : Hangs(f, n)' <=> Hangs(f, n)
  BY <1>1, <1>4 DEF Hangs, Stem
<1>6. \A f, n : Shown(f, n)' <=> Shown(f, n)
  BY <1>1, <1>3, <1>4 DEF Shown, Stem
<1>7. \A n : IsPolicy(n) => vertices'[n] = vertices[n] /\ History'[n] = History[n]
  BY <1>1, AllHistoriesStay DEF Serves
<1>8. TheFolders' = TheFolders
  <2>1. \A f, n : Hangs(f, n) => vertices'[n] = vertices[n]
    BY <1>4 DEF Hangs
  <2> QED BY <1>5, <2>1, FoldersStay DEF Serves
<1>9. TheBook' = TheBook
  <2>1. \A f, n : Shown(f, n) => vertices'[n] = vertices[n] /\ History'[n] = History[n]
    BY <1>7 DEF Shown
  <2> QED BY <1>6, <2>1, EntriesStay DEF Serves
<1> QED BY <1>1, <1>8, <1>9, NoAnswerShows DEF Stutters

\* A new policy, a new folder, a stray policy, or the first half of an update.
LEMMA LinkNodeShows ==
  ASSUME OneAtATime, Serves, NEW r \in Req, LinkNode(r)
  PROVE  Stutters \/ Writes
<1>1. /\ pc[r] = "link" /\ pc[r] \in Saved /\ r \in Posts /\ loc[r].father \in Stem
      /\ vertices' = vertices /\ removed' = removed /\ UNCHANGED loc
      /\ edges' = edges \cup {<<loc[r].father, loc[r].node>>}
      /\ IF r \in Updates THEN Goto(r, "unlink") ELSE Reply(r, 201)
  BY LinkNodeSerial DEF Serves, Saved
<1>2. PICK g, k, x : g = loc[r].father /\ k = loc[r].node /\ x = loc[r].name
  OBVIOUS
<1>3. /\ Busy(r) /\ Shape /\ Shape' /\ vertices # <<>> /\ Live = DOMAIN vertices
      /\ LookupInv(r) /\ StoringInv(r)
      /\ k \in DOMAIN vertices /\ vertices[k] = NewVertex(r)
      /\ r \in Updates => loc[r].old \in DOMAIN vertices /\ loc[r].old # k
  <2>1. loc[r] \in Locals /\ (r \in Updates => loc[r].old < loc[r].node)
    BY <1>1, SavedHolds DEF Serves
  <2>2. r \in Updates => loc[r].old # k
    BY <1>2, <2>1 DEF Locals
  <2> QED BY <1>1, <1>2, <2>2, SavedHolds, ShapeNext DEF Serves
<1>4. /\ g \in Stem /\ x \in Names /\ IsDirectory(g) /\ ~IsPolicy(g)
      /\ edges' = edges \cup {<<g, k>>}
      /\ \A m : <<k, m>> \notin edges /\ <<m, k>> \notin edges
      /\ r \notin Updates => ~Taken(g, x)
      /\ r \in Updates => <<g, loc[r].old>> \in edges
  <2>1. g \in Stem /\ x \in Names
    BY <1>1, <1>2, <1>3 DEF LookupInv
  <2>2. IsDirectory(g) /\ ~IsPolicy(g)
    BY <1>3, <2>1, StemIsDirectories
  <2> QED BY <1>1, <1>2, <1>3, <2>1, <2>2 DEF StoringInv, Saved
<1>5. PICK s \in {"unlink", "done"} :
        /\ pc' = [pc EXCEPT ![r] = s]
        /\ r \in Updates => s = "unlink" /\ status' = status
        /\ r \notin Updates => s = "done" /\ Reply(r, 201)
  BY <1>1 DEF Goto, Reply
<1>6. /\ \A q \in Req \ {r} : ~Busy(q) /\ pc'[q] = pc[q]
      /\ pc'[r] = s
  BY <1>3, <1>5, NobodyElse, StepNames DEF SerialInv, Serves
<1>7. Replacing = {}
  BY <1>1, <1>6, ReplacingIs
<1>8. \A n : (IsPolicy(n)' <=> IsPolicy(n)) /\ (IsDirectory(n)' <=> IsDirectory(n))
  BY <1>1, SameVertices
<1>9. \A n : IsPolicy(n) => vertices'[n] = vertices[n] /\ History'[n] = History[n]
  <2>1. Grows
    BY <1>1 DEF Grows
  <2>2. \A n, m : IsPolicy(n) => (<<n, m>> \in edges' <=> <<n, m>> \in edges)
    BY <1>4
  <2> QED BY <2>1, <2>2, AllHistoriesStay DEF Serves
<1>10. \A f, n : Hangs(f, n) => vertices'[n] = vertices[n]
  BY <1>1
<1>11. \A f, n : Shown(f, n) => vertices'[n] = vertices[n] /\ History'[n] = History[n]
  BY <1>9 DEF Shown
<1>12. \A f, n : Hangs(f, n)' <=> Hangs(f, n) \/ (f = g /\ n = k /\ IsDirectory(k))
  BY <1>4, <1>8 DEF Hangs, Stem
<1>13. \A f, n : Shown(f, n) <=> f \in Stem /\ IsPolicy(n) /\ <<f, n>> \in edges
  BY <1>7 DEF Shown
<1>14. ASSUME Replacing' = {}
       PROVE  \A f, n : Shown(f, n)' <=> Shown(f, n) \/ (f = g /\ n = k /\ IsPolicy(k))
  <2>1. \A f, n : Shown(f, n)' <=> f \in Stem /\ IsPolicy(n) /\ <<f, n>> \in edges'
    BY <1>8, <1>14 DEF Shown, Stem
  <2> QED BY <1>4, <1>13, <2>1
<1>15. Trunk(g) \in TheFolders /\ (InUse(Trunk(g), x) <=> Taken(g, x))
  <2>1. Trunk(g) \in TheFolders
    BY <1>4, FoldersShown DEF FoldersAre, Serves
  <2> QED BY <1>3, <1>4, <1>7, <2>1, TakenIsInUse DEF Serves
\* A policy is linked, and shown from now on with a history of one.
<1>16. ASSUME IsPolicy(k), Replacing' = {}
       PROVE  TheBook' = TheBook \cup {Book!Entry(Trunk(g), x, <<r>>)} /\ TheFolders' = TheFolders
  <2>1. TheBook' = TheBook \cup {EntryAt(g, k)'}
    BY <1>11, <1>14, <1>16, EntryAdded DEF Serves
  <2>2. vertices[k].name = x /\ vertices[k].text = r
    BY <1>2, <1>3, <1>16 DEF NewVertex, IsPolicy, Directory, Policy
  <2>3. History[k] = <<r>>
    <3>1. Out(k) = {}
      BY <1>4 DEF Out
    <3> QED BY <1>3, <2>2, <3>1, HistoriesNow DEF HistoriesAre
  <2>4. EntryAt(g, k)' = Book!Entry(Trunk(g), x, <<r>>)
    BY <1>1, <1>9, <1>16, <2>2, <2>3 DEF EntryAt, Trunk, Book!Entry
  <2>5. ~IsDirectory(k)
    BY <1>16 DEF IsDirectory, IsPolicy
  <2>6. TheFolders' = TheFolders
    BY <1>10, <1>12, <2>5, FoldersStay DEF Serves
  <2> QED BY <2>1, <2>4, <2>6
<1>17. CASE r \in Creates
  <2>1. r \notin Updates /\ r \notin MakeFolders
    BY <1>17, Requests
  <2>2. Replacing' = {}
    BY <1>5, <1>6, <2>1, ReplacingIs
  <2>3. IsPolicy(k)
    BY <1>3, <2>1 DEF IsPolicy, NewVertex, Policy
  <2>4. SavedNow' = SavedNow \cup {r} /\ Refusals' = Refusals
    BY <1>1, <1>3, <1>5, <2>1, AnswerShows DEF Serves
  <2>5. Book!Create(r, Trunk(g), x)
    BY <1>4, <1>15, <1>16, <2>1, <2>2, <2>3, <2>4, BookActions
  <2> QED BY <1>4, <1>15, <1>17, <2>5 DEF Writes
<1>18. CASE r \in MakeFolders
  <2>1. r \notin Updates
    BY <1>18, Requests
  <2>2. Replacing' = {}
    BY <1>5, <1>6, <2>1, ReplacingIs
  <2>3. IsDirectory(k) /\ ~IsPolicy(k) /\ vertices[k].name = x
    BY <1>2, <1>3, <1>18 DEF IsDirectory, IsPolicy, NewVertex, Directory
  <2>4. SavedNow' = SavedNow \cup {r} /\ Refusals' = Refusals
    BY <1>1, <1>3, <1>5, <2>1, AnswerShows DEF Serves
  <2>5. TheFolders' = TheFolders \cup {Append(Trunk(g), x)}
    <3>1. TheFolders' = TheFolders \cup {Append(Trunk(g), vertices'[k].name)}
      BY <1>10, <1>12, <2>3, FolderAdded DEF Serves
    <3> QED BY <1>1, <2>3, <3>1
  <2>6. TheBook' = TheBook
    BY <1>11, <1>14, <2>2, <2>3, EntriesStay DEF Serves
  <2>7. Book!MakeFolder(r, Trunk(g), x)
    BY <1>4, <1>15, <2>1, <2>4, <2>5, <2>6, BookActions
  <2> QED BY <1>4, <1>15, <1>18, <2>7 DEF Writes
<1>19. CASE r \in Updates
  <2>1. /\ SavedNow' = SavedNow /\ Refusals' = Refusals /\ pc'[r] = "unlink"
        /\ IsPolicy(k)
    BY <1>3, <1>5, <1>6, <1>19, NoAnswerShows, Requests DEF IsPolicy, NewVertex, Policy
  <2>2. CASE IsPolicy(loc[r].old)
    <3>1. Replacing' = {r} /\ loc' = loc
      <4>1. IsPolicy(loc[r].old)'
        BY <1>1, <2>2 DEF IsPolicy
      <4> QED BY <1>1, <1>6, <1>19, <2>1, <4>1, ReplacingIs
    <3>2. \A f, n : Shown(f, n)' <=> Shown(f, n)
      <4>1. PICK o : o = loc[r].old
        OBVIOUS
      <4>2. \A f, n : Shown(f, n)' <=> /\ f \in Stem /\ IsPolicy(n)
                                       /\ (<<f, n>> \in edges' /\ n # k) \/ (f = g /\ n = o)
        BY <1>2, <1>8, <3>1, <4>1 DEF Shown, Stem
      <4>3. <<g, o>> \in edges /\ o # k
        BY <1>3, <1>4, <1>19, <4>1
      <4> QED BY <1>4, <1>13, <4>2, <4>3
    <3>3. TheBook' = TheBook
      BY <1>11, <3>2, EntriesStay DEF Serves
    <3>4. ~IsDirectory(k)
      BY <2>1 DEF IsDirectory, IsPolicy
    <3>5. TheFolders' = TheFolders
      BY <1>10, <1>12, <3>4, FoldersStay DEF Serves
    <3> QED BY <2>1, <3>3, <3>5 DEF Stutters
  <2>3. CASE ~IsPolicy(loc[r].old)
    <3>1. Replacing' = {}
      <4>1. ~IsPolicy(loc[r].old)'
        BY <1>1, <2>3 DEF IsPolicy
      <4> QED BY <1>6, <4>1, ReplacingIs
    <3>2. PICK y : y = vertices[loc[r].old].name
      OBVIOUS
    <3>3. Append(Trunk(g), y) \in TheFolders
      <4>1. Hangs(g, loc[r].old)
        BY <1>3, <1>4, <1>19, <2>3, StemIsDirectories DEF Hangs
      <4> QED BY <3>2, <4>1, FoldersShown DEF FoldersAre, Serves
    <3>4. y \in Replaced
      <4>1. y = LastOf(loc[r].path)
        BY <1>1, <1>19, <3>2, LocalsOf DEF Serves, Holding
      <4>2. PICK p \in Folders, z \in Replaced : loc[r].path = Append(p, z)
        BY <1>3, <1>19 DEF LookupInv
      <4>3. p \in Seq(STRING) /\ z \in STRING
        BY Inputs
      <4>4. LastOf(Append(p, z)) = z
        BY <4>3 DEF LastOf
      <4> QED BY <4>1, <4>2, <4>4
    <3>5. Book!Stray(r, Trunk(g), x)
      BY <1>16, <2>1, <3>1, <3>3, <3>4, BookActions
    <3> QED BY <1>4, <1>15, <1>19, <3>5 DEF Writes
  <2> QED BY <2>2, <2>3
<1> QED BY <1>1, <1>17, <1>18, <1>19 DEF Posts

\* The book shows the old policy before and after it leaves its folder.
LEMMA UnlinkOldShows ==
  ASSUME OneAtATime, Serves, NEW r \in Req, UnlinkOld(r)
  PROVE  Stutters
<1>1. /\ pc[r] = "unlink" /\ pc[r] \in Saved /\ r \in Updates
      /\ pc' = [pc EXCEPT ![r] = "relink"] /\ status' = status
      /\ loc' = [loc EXCEPT ![r].cut = TRUE]
      /\ vertices' = vertices /\ removed' = removed
      /\ <<loc[r].father, loc[r].old>> \in edges
      /\ edges' = IF IsPolicy(loc[r].old) THEN edges \ {<<loc[r].father, loc[r].old>>} ELSE edges
  BY UnlinkOldSerial DEF Serves, Saved
<1>2. PICK g, k, o : g = loc[r].father /\ k = loc[r].node /\ o = loc[r].old
  OBVIOUS
<1>3. /\ loc'[r].father = g /\ loc'[r].node = k /\ loc'[r].old = o
      /\ Busy(r) /\ Shape /\ vertices # <<>> /\ Live = DOMAIN vertices
  <2>1. loc[r] \in Locals /\ loc \in [Req -> Locals] /\ Busy(r) /\ Shape /\ vertices # <<>>
        /\ Live = DOMAIN vertices
    BY <1>1, SavedHolds DEF Serves, TypeInv, RequestInv
  <2> QED BY <1>1, <1>2, <2>1 DEF Locals
<1>4. /\ \A q \in Req \ {r} : ~Busy(q) /\ pc'[q] = pc[q]
      /\ pc'[r] = "relink"
  BY <1>1, <1>3, NobodyElse, StepNames DEF SerialInv, Serves
<1>5. \A n : (IsPolicy(n)' <=> IsPolicy(n)) /\ (IsDirectory(n)' <=> IsDirectory(n))
  BY <1>1, SameVertices
<1>6. IsPolicy(loc[r].old)' <=> IsPolicy(o)
  BY <1>1, <1>3 DEF IsPolicy
<1>7. CASE ~IsPolicy(o)
  <2>1. Replacing = {} /\ Replacing' = {}
    BY <1>2, <1>4, <1>6, <1>7, ReplacingIs
  <2>2. UNCHANGED graphVars
    BY <1>1, <1>2, <1>7 DEF graphVars
  <2>3. TheFolders' = TheFolders /\ TheBook' = TheBook
    BY <2>1, <2>2, ReadingShows
  <2> QED BY <1>1, <2>3, NoAnswerShows DEF Stutters
<1>8. CASE IsPolicy(o)
  <2>1. Replacing = {r} /\ Replacing' = {r}
    BY <1>1, <1>2, <1>4, <1>6, <1>8, ReplacingIs
  <2>2. /\ edges' = edges \ {<<g, o>>} /\ <<g, o>> \in edges
        /\ ~IsDirectory(o) /\ o \in DOMAIN vertices
    BY <1>1, <1>2, <1>8 DEF IsPolicy, IsDirectory
  <2>3. g \in Stem /\ ~IsPolicy(g)
    <3>1. r \in Replacing
      BY <2>1
    <3>2. g \in Stem
      BY <1>2, <3>1, ReplacingOne DEF Serves
    <3> QED BY <1>3, <3>2, StemIsDirectories
  <2>4. \A f, n : Shown(f, n) <=> /\ f \in Stem /\ IsPolicy(n)
                                  /\ (<<f, n>> \in edges /\ n # k) \/ (f = g /\ n = o)
    BY <1>2, <2>1 DEF Shown
  <2>5. \A f, n : Shown(f, n)' <=> /\ f \in Stem /\ IsPolicy(n)
                                   /\ (<<f, n>> \in edges' /\ n # k) \/ (f = g /\ n = o)
    BY <1>3, <1>5, <2>1 DEF Shown, Stem
  <2>6. \A f, n : Shown(f, n)' <=> Shown(f, n)
    BY <2>2, <2>3, <2>4, <2>5
  <2>7. \A f, n : Hangs(f, n)' <=> Hangs(f, n)
    BY <1>5, <2>2 DEF Hangs, Stem
  <2>8. \A n : IsPolicy(n) => vertices'[n] = vertices[n] /\ History'[n] = History[n]
    <3>1. Grows
      BY <1>1 DEF Grows
    <3>2. \A n, m : IsPolicy(n) => (<<n, m>> \in edges' <=> <<n, m>> \in edges)
      BY <2>2, <2>3
    <3> QED BY <3>1, <3>2, AllHistoriesStay DEF Serves
  <2>9. TheBook' = TheBook
    <3>1. \A f, n : Shown(f, n) => vertices'[n] = vertices[n] /\ History'[n] = History[n]
      BY <2>8 DEF Shown
    <3> QED BY <2>6, <3>1, EntriesStay DEF Serves
  <2>10. TheFolders' = TheFolders
    BY <1>1, <2>7, FoldersStay DEF Serves
  <2> QED BY <1>1, <2>9, <2>10, NoAnswerShows DEF Stutters
<1> QED BY <1>7, <1>8

\* The new policy takes the place of the old one, whose history it carries on.
LEMMA RelinkOldShows ==
  ASSUME OneAtATime, Serves, NEW r \in Req, RelinkOld(r)
  PROVE  Stutters \/ Writes
<1>1. /\ pc[r] = "relink" /\ pc[r] \in Saved /\ r \in Updates /\ r \in Posts
      /\ pc' = [pc EXCEPT ![r] = "done"] /\ UNCHANGED loc
      /\ vertices' = vertices /\ removed' = removed
      /\ IF IsPolicy(loc[r].old)
         THEN edges' = edges \cup {<<loc[r].node, loc[r].old>>} /\ Reply(r, 201)
         ELSE edges' = edges /\ Reply(r, 500)
  BY RelinkOldSerial DEF Serves, Saved, Posts
<1>2. PICK g, k, o, x : g = loc[r].father /\ k = loc[r].node /\ o = loc[r].old /\ x = loc[r].name
  OBVIOUS
<1>3. /\ Busy(r) /\ Shape /\ Shape' /\ vertices # <<>> /\ Live = DOMAIN vertices
      /\ LookupInv(r) /\ StoringInv(r) /\ x \in Names
      /\ k \in DOMAIN vertices /\ IsPolicy(k) /\ vertices[k] = NewVertex(r)
      /\ o \in DOMAIN vertices /\ o # k
  <2>1. loc[r] \in Locals /\ loc[r].old < loc[r].node
    BY <1>1, SavedHolds DEF Serves
  <2>2. o # k
    BY <1>2, <2>1 DEF Locals
  <2>3. LookupInv(r) /\ Shape'
    BY <1>1, SavedHolds, ShapeNext DEF Serves
  <2>4. x \in Names
    BY <1>2, <2>3 DEF LookupInv
  <2> QED BY <1>1, <1>2, <2>2, <2>3, <2>4, SavedHolds DEF Serves
<1>4. vertices[k].name = x /\ vertices[k].text = r
  BY <1>1, <1>2, <1>3, Requests DEF NewVertex, Policy
<1>5. /\ \A q \in Req \ {r} : ~Busy(q) /\ pc'[q] = pc[q]
      /\ pc'[r] = "done"
  BY <1>1, <1>3, NobodyElse, StepNames DEF SerialInv, Serves
<1>6. \A n : (IsPolicy(n)' <=> IsPolicy(n)) /\ (IsDirectory(n)' <=> IsDirectory(n))
  BY <1>1, SameVertices
<1>7. Replacing' = {}
  BY <1>5, ReplacingIs
<1>8. CASE ~IsPolicy(o)
  <2>1. Replacing = {}
    BY <1>2, <1>5, <1>8, ReplacingIs
  <2>2. UNCHANGED graphVars
    BY <1>1, <1>2, <1>8 DEF graphVars
  <2>3. TheFolders' = TheFolders /\ TheBook' = TheBook
    BY <1>7, <2>1, <2>2, ReadingShows
  <2>4. SavedNow' = SavedNow /\ Refusals' = Refusals
    BY <1>1, <1>2, <1>3, <1>8, AnswerShows DEF Serves
  <2> QED BY <2>3, <2>4 DEF Stutters
<1>9. CASE IsPolicy(o)
  <2>1. Replacing = {r}
    BY <1>1, <1>2, <1>5, <1>9, ReplacingIs
  <2>2. /\ edges' = edges \cup {<<k, o>>} /\ Reply(r, 201)
        /\ <<g, k>> \in edges /\ \A m : <<k, m>> \notin edges /\ <<m, o>> \notin edges
    BY <1>1, <1>2, <1>3, <1>9 DEF StoringInv, Saved
  <2>3. g \in Stem /\ ~IsPolicy(g) /\ k \notin Stem
    <3>1. r \in Replacing
      BY <2>1
    <3>2. g \in Stem
      BY <1>2, <3>1, ReplacingOne DEF Serves
    <3> QED BY <1>3, <3>2, StemIsDirectories
  <2>4. \A f, n : Shown(f, n) <=> /\ f \in Stem /\ IsPolicy(n)
                                  /\ (<<f, n>> \in edges /\ n # k) \/ (f = g /\ n = o)
    BY <1>2, <2>1 DEF Shown
  <2>5. \A f, n : Shown(f, n)' <=> f \in Stem /\ IsPolicy(n) /\ <<f, n>> \in edges'
    BY <1>6, <1>7 DEF Shown, Stem
  <2>6. \A f : <<f, k>> \in edges => f = g
    BY <1>3, <2>2, EdgeOf
  <2>7. \A f, n : Shown(f, n)' <=> (Shown(f, n) /\ n # o) \/ (f = g /\ n = k)
    BY <1>3, <2>2, <2>3, <2>4, <2>5, <2>6
  <2> DEFINE K == {n \in DOMAIN vertices : IsPolicy(n) /\ n # k}
  <2>8. ASSUME NEW n \in K
        PROVE  /\ IsPolicy(n) /\ n \in DOMAIN vertices'
               /\ vertices'[n] = vertices[n] /\ Out(n)' = Out(n) /\ Out(n) \subseteq K
    <3>1. IsPolicy(n) /\ n # k /\ n \in DOMAIN vertices' /\ vertices'[n] = vertices[n]
      BY <1>1
    <3>2. Out(n)' = Out(n)
      BY <1>1, <2>2, <3>1 DEF Out, Live
    <3>3. ASSUME NEW m \in Out(n) PROVE m \in K
      <4>1. <<n, m>> \in edges
        BY DEF Out
      <4>2. m \in DOMAIN vertices /\ IsPolicy(m)
        BY <1>3, <3>1, <4>1, EdgeOf DEF Stem
      <4>3. m # k
        BY <2>3, <2>6, <3>1, <4>1
      <4> QED BY <4>2, <4>3
    <3> QED BY <3>1, <3>2, <3>3
  <2>9. \A n : IsPolicy(n) /\ n # k => History'[n] = History[n]
    <3>1. \A n : IsPolicy(n) /\ n # k => n \in K
      BY DEF IsPolicy
    <3> HIDE DEF K
    <3> QED BY <1>3, <2>8, <3>1, HistoriesStay
  <2>10. TheBook' = (TheBook \ {EntryAt(g, o)}) \cup {EntryAt(g, k)'}
    <3>1. Shown(g, o)
      BY <1>9, <2>3, <2>4
    <3>2. \A f, n : Shown(f, n) => vertices'[n] = vertices[n] /\ History'[n] = History[n]
      BY <1>1, <1>3, <2>4, <2>9
    <3> QED BY <2>7, <3>1, <3>2, EntryReplaced DEF Serves
  <2>11. PICK e : e = EntryAt(g, o)
    OBVIOUS
  <2>12. e.folder = Trunk(g) /\ e.history = History[o]
    BY <2>11 DEF EntryAt
  <2>13. History'[k] = Append(History[o], r)
    <3>1. Out(k)' = {o}
      BY <1>1, <1>3, <2>2 DEF Out, Live
    <3>2. k \in DOMAIN vertices' /\ vertices'[k].text = r
      BY <1>1, <1>3, <1>4
    <3>3. History'[k] = Append(History'[o], vertices'[k].text)
      BY <1>3, <3>1, <3>2, HistoriesNext DEF HistoriesAre
    <3> QED BY <1>3, <1>9, <2>9, <3>2, <3>3
  <2>14. EntryAt(g, k)' = Book!Entry(e.folder, x, Append(e.history, r))
    BY <1>1, <1>4, <2>12, <2>13 DEF EntryAt, Trunk, Book!Entry
  <2>15. TheFolders' = TheFolders
    <3>1. \A f, n : Hangs(f, n)' <=> Hangs(f, n)
      BY <1>6, <2>2, <2>3 DEF Hangs, Stem
    <3> QED BY <1>1, <3>1, FoldersStay DEF Serves
  <2>16. SavedNow' = SavedNow \cup {r} /\ Refusals' = Refusals
    BY <1>1, <1>3, <2>2, AnswerShows DEF Serves
  <2>17. Book!Update(r, e, x)
    BY <2>10, <2>11, <2>14, <2>15, <2>16, BookActions
  <2>18. e \in TheBook
    <3>1. Shown(g, o)
      BY <1>9, <2>3, <2>4
    <3> QED BY <2>11, <3>1, EntriesShown DEF EntriesAre, Serves
  <2> QED BY <1>1, <1>3, <2>17, <2>18 DEF Writes
<1> QED BY <1>8, <1>9

\* Nothing happens.
LEMMA NothingShows ==
  ASSUME Serves, UNCHANGED vars
  PROVE  Stutters
<1>1. /\ vertices' = vertices /\ edges' = edges /\ removed' = removed
      /\ pc' = pc /\ loc' = loc /\ status' = status
  BY DEF vars
<1>2. \A n : (IsPolicy(n)' <=> IsPolicy(n)) /\ (IsDirectory(n)' <=> IsDirectory(n))
  BY <1>1, SameVertices
<1>3. Replacing' = Replacing
  BY <1>1, <1>2 DEF Replacing, IsPolicy
<1>4. \A f, n : Hangs(f, n)' <=> Hangs(f, n)
  BY <1>1, <1>2 DEF Hangs, Stem
<1>5. \A f, n : Shown(f, n)' <=> Shown(f, n)
  BY <1>1, <1>2, <1>3 DEF Shown, Stem
<1>6. \A n : IsPolicy(n) => vertices'[n] = vertices[n] /\ History'[n] = History[n]
  <2>1. Grows
    BY <1>1 DEF Grows
  <2> QED BY <1>1, <2>1, AllHistoriesStay DEF Serves
<1>7. TheBook' = TheBook
  <2>1. \A f, n : Shown(f, n) => vertices'[n] = vertices[n] /\ History'[n] = History[n]
    BY <1>6 DEF Shown
  <2> QED BY <1>5, <2>1, EntriesStay DEF Serves
<1>8. TheFolders' = TheFolders
  BY <1>1, <1>4, FoldersStay DEF Serves
<1> QED BY <1>1, <1>7, <1>8, NoAnswerShows DEF Stutters

(***************************************************************************)
(* The service keeps the book.                                             *)
(***************************************************************************)
LEMMA NextShows ==
  ASSUME OneAtATime, FoldersApart, Serves, [Next]_vars
  PROVE  Stutters \/ Writes
<1>1. ASSUME NEW r \in Req, Handle(r) PROVE Stutters \/ Writes
  <2>1. CASE LookUp(r)
    BY <2>1, LookUpShows
  <2>2. CASE Save(r)
    BY <2>2, CheckNameShows, ReadOldShows, CreateNodeShows, LinkNodeShows DEF Save
  <2>3. CASE Replace(r)
    BY <2>3, UnlinkOldShows, RelinkOldShows DEF Replace
  <2>4. CASE Get(r)
    BY <2>4, GetShows
  <2> QED BY <1>1, <2>1, <2>2, <2>3, <2>4 DEF Handle
<1>2. ASSUME NEW r \in Req, Start(r) \/ StartWithoutBody(r) PROVE Stutters
  BY <1>2, StartShows
<1>3. ~Crash
  BY NothingFails DEF Serves
<1>4. \A r \in Posts : r \in Req
  BY DEF Req
<1>5. CASE UNCHANGED vars
  BY <1>5, NothingShows
<1> QED BY <1>1, <1>2, <1>3, <1>4, <1>5 DEF Next, Served

\* At the start the book holds the folders of the stem and nothing else.
LEMMA InitShows ==
  ASSUME Init, TypeInv, SerialInv
  PROVE  Book!BookInit
<1>1. \A r \in Req : pc[r] = "new" /\ status[r] = 0
  BY DEF Init
<1>2. Posts \subseteq Req
  BY DEF Req
<1>3. SavedNow = {} /\ Refusals = {}
  BY <1>1, <1>2 DEF SavedNow, Refusals
<1>4. \A n : ~IsPolicy(n)
  <2>1. CASE Stored = <<>>
    BY <2>1, ShapeNow, StemIsDirectories DEF Init, StoredGraph, GraphInit, IsPolicy
  <2>2. CASE Stored # <<>>
    <3>1. vertices = [n \in 1 .. Len(Stored) + 1 |->
                        Directory(IF n = 1 THEN RootName ELSE Stored[n - 1])]
      BY <2>2 DEF Init, StoredGraph
    <3>2. \A n \in DOMAIN vertices : vertices[n].class = "Directory"
      BY <3>1 DEF Directory
    <3> QED BY <3>2 DEF IsPolicy
  <2> QED BY <2>1, <2>2
<1>5. TheBook = {}
  <2>1. \A f, n : ~Shown(f, n)
    BY <1>4 DEF Shown
  <2> QED BY <2>1, EntriesShown DEF EntriesAre
<1>6. ASSUME NEW f, NEW n, Hangs(f, n) PROVE n \in Stem /\ Append(Trunk(f), vertices[n].name) = Trunk(n)
  <2>1. Shape /\ f \in Stem /\ <<f, n>> \in edges /\ vertices # <<>> /\ Live = DOMAIN vertices
    BY <1>6, ShapeNow, StemIsDirectories DEF Hangs, IsDirectory
  <2>2. PICK i \in 1 .. Len(Stored) : f = i /\ n = i + 1 /\ vertices[n].name = Stored[i]
    <3>1. CASE Stored = <<>>
      BY <2>1, <3>1 DEF Init, StoredGraph, GraphInit
    <3>2. CASE Stored # <<>>
      <4>1. /\ vertices = [j \in 1 .. Len(Stored) + 1 |->
                             Directory(IF j = 1 THEN RootName ELSE Stored[j - 1])]
            /\ edges = {<<j, j + 1>> : j \in 1 .. Len(Stored)}
        BY <3>2 DEF Init, StoredGraph
      <4>2. PICK i \in 1 .. Len(Stored) : <<f, n>> = <<i, i + 1>>
        BY <2>1, <4>1
      <4>3. f = i /\ n = i + 1
        BY <4>2
      <4>4. vertices[i + 1] = Directory(Stored[i])
        <5>1. i + 1 \in 1 .. Len(Stored) + 1 /\ i + 1 # 1 /\ (i + 1) - 1 = i
          BY StoredNames
        <5> QED BY <4>1, <5>1
      <4> QED BY <4>3, <4>4 DEF Directory
    <3> QED BY <3>1, <3>2
  <2>3. Append(SubSeq(Stored, 1, i - 1), Stored[i]) = SubSeq(Stored, 1, i)
    BY StoredNames, Beginnings
  <2>4. n \in Stem /\ n - 1 = i
    BY <2>2, StoredNames DEF Stem
  <2> QED BY <2>2, <2>3, <2>4 DEF Trunk
<1>7. TheFolders = {SubSeq(Stored, 1, k) : k \in 0 .. Len(Stored)}
  <2>1. ASSUME NEW p
        PROVE  p \in TheFolders <=> \E f \in Stem : p = Trunk(f)
    BY <1>6, FoldersShown DEF FoldersAre
  <2>2. ASSUME NEW f \in Stem PROVE f - 1 \in 0 .. Len(Stored) /\ Trunk(f) = SubSeq(Stored, 1, f - 1)
    BY StoredNames DEF Stem, Trunk
  <2>3. ASSUME NEW k \in 0 .. Len(Stored) PROVE k + 1 \in Stem /\ Trunk(k + 1) = SubSeq(Stored, 1, k)
    <3>1. k + 1 \in Stem /\ (k + 1) - 1 = k
      BY StoredNames DEF Stem
    <3> QED BY <3>1 DEF Trunk
  <2>4. ASSUME NEW p \in TheFolders PROVE \E k \in 0 .. Len(Stored) : p = SubSeq(Stored, 1, k)
    <3>1. PICK f \in Stem : p = Trunk(f)
      BY <2>1
    <3> QED BY <2>2, <3>1
  <2>5. ASSUME NEW k \in 0 .. Len(Stored) PROVE SubSeq(Stored, 1, k) \in TheFolders
    <3>1. PICK f \in Stem : SubSeq(Stored, 1, k) = Trunk(f)
      BY <2>3
    <3> QED BY <2>1, <3>1
  <2> QED BY <2>4, <2>5
<1> QED BY <1>3, <1>5, <1>7 DEF Book!BookInit, TheFolders, TheBook, SavedNow, Refusals

\* A client that has the service for itself gets what PolicyBook promises, for
\* any requests, names and folders: each step of a handler leaves the book as it
\* is or is one step of it.  A policy that is created is in its folder with a
\* history of one version; one that is updated keeps its place and its whole
\* history behind the new version; a name in use is refused; nothing is lost.
THEOREM ServiceKeepsTheBook ==
  ASSUME OneAtATime, FoldersApart
  PROVE  Spec => KeepsBook
<1>1. ASSUME TypeInv, TypeInv', BookInv, SerialInv, SerialInv', [Next]_vars
      PROVE  [Book!BookNext]_(Book!bookVars)
  <2>1. Stutters \/ Book!BookNext
    BY <1>1, NextShows, WritesIsBookNext DEF Serves
  <2>2. Stutters => UNCHANGED Book!bookVars
    BY DEF Stutters, Book!bookVars, TheFolders, TheBook, SavedNow, Refusals
  <2> QED BY <2>1, <2>2
<1>2. Init => Book!BookInit
  BY InitSerial, InitType, InitShows
<1>3. Spec => []TypeInv /\ []BookInv /\ []SerialInv
  BY TypeInvariant, BookInvariant, SerialInvariant, PTL
<1> QED BY <1>1, <1>2, <1>3, PTL DEF Spec, KeepsBook, Book!BookSpec
=============================================================================
