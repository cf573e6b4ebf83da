------------------------- MODULE VideoStorageProofs -------------------------
EXTENDS VideoStorage, SequenceTheorems, WellFoundedInduction, TLAPS

(***************************************************************************)
(* Type correctness.  TypeOK is inductive together with two facts about    *)
(* the control of the handlers.                                            *)
(***************************************************************************)
\* A handler that walks down a path has names left to walk.
Walking(r) ==
  /\ pc[r] \notin {"new", "done"} => loc[r].path # <<>>
  /\ pc[r] \in {"root", "rootMake", "check", "make", "link", "son"} => loc[r].todo # <<>>

\* A client that still sends has a slice left.
Sending(u) == pc[u] \in {"new", "send"} => slice[u] < Total

RequestInv ==
  /\ RequestTypeOK
  /\ \A r \in Req : Walking(r)

AnswerInv ==
  /\ AnswerTypeOK
  /\ \A u \in Uploads : Sending(u)

TypeInv == GraphTypeOK /\ FileTypeOK /\ RequestInv /\ AnswerInv

LEMMA NewVertex ==
  ASSUME GraphTypeOK, NEW v \in Record, CreateVertex(v)
  PROVE  /\ GraphTypeOK'
         /\ DOMAIN vertices' = DOMAIN vertices \cup {NewRid}
         /\ NewRid \in Nat /\ NewRid # NoRid /\ NewRid \notin DOMAIN vertices
         /\ removed' = removed /\ edges' = edges
         /\ \A n \in DOMAIN vertices : vertices'[n] = vertices[n]
         /\ vertices'[NewRid] = v
<1>1. /\ vertices' \in Seq(Record)
      /\ DOMAIN vertices' = DOMAIN vertices \cup {NewRid}
      /\ NewRid \in Nat /\ NewRid # NoRid /\ NewRid \notin DOMAIN vertices
      /\ removed' = removed /\ edges' = edges
      /\ \A n \in DOMAIN vertices : vertices'[n] = vertices[n]
      /\ vertices'[NewRid] = v
  BY DEF GraphTypeOK, CreateVertex, NewRid, NoRid
<1> QED BY <1>1 DEF GraphTypeOK

LEMMA NewEdge ==
  ASSUME GraphTypeOK, NEW f, NEW s, CreateEdge(f, s)
  PROVE  /\ GraphTypeOK'
         /\ vertices' = vertices /\ removed' = removed
         /\ edges' = edges \cup {<<f, s>>}
         /\ f \in Live /\ s \in Live
BY DEF GraphTypeOK, CreateEdge, CanLink, Live

LEMMA GoneVertex ==
  ASSUME GraphTypeOK, NEW n \in Live, RemoveVertex(n)
  PROVE  /\ GraphTypeOK'
         /\ vertices' = vertices
BY DEF GraphTypeOK, RemoveVertex, Live

LEMMA LiveType == GraphTypeOK => Live \subseteq DOMAIN vertices /\ DOMAIN vertices \subseteq Nat /\ NoRid \in Nat
BY DEF GraphTypeOK, Live, NoRid

LEMMA OneRequestMoves ==
  ASSUME RequestInv, NEW r \in Req, NEW s \in Steps,
         pc' = [pc EXCEPT ![r] = s],
         loc' \in [Req -> Locals], \A q \in Req : q # r => loc'[q] = loc[q],
         DOMAIN vertices \subseteq DOMAIN vertices',
         {loc'[r].at, loc'[r].node} \subseteq {NoRid} \cup DOMAIN vertices',
         s \notin {"new", "done"} => loc'[r].path # <<>>,
         s \in {"root", "rootMake", "check", "make", "link", "son"} => loc'[r].todo # <<>>
  PROVE  RequestInv'
<1>1. RequestTypeOK'
  BY DEF RequestInv, RequestTypeOK
<1>2. ASSUME NEW q \in Req PROVE Walking(q)'
  <2>1. CASE q = r BY <2>1 DEF RequestInv, RequestTypeOK, Walking
  <2>2. CASE q # r BY <2>2 DEF RequestInv, RequestTypeOK, Walking
  <2> QED BY <2>1, <2>2
<1> QED BY <1>1, <1>2 DEF RequestInv

\* What a command does to the bounds of the model.
LEMMA Counting ==
  ASSUME AnswerInv, Works \/ Fails
  PROVE  faults' \in Nat /\ crashes' \in Nat
BY DEF AnswerInv, AnswerTypeOK, Works, Fails, envVars

\* The handler of r goes on to step s with new local variables.
LEMMA Moves ==
  ASSUME RequestInv, AnswerInv, Works \/ Fails,
         NEW r \in Req, NEW s \in Steps \ {"new", "send"}, Goto(r, s),
         NEW l \in Locals, loc' = [loc EXCEPT ![r] = l],
         DOMAIN vertices \subseteq DOMAIN vertices',
         {l.at, l.node} \subseteq {NoRid} \cup DOMAIN vertices',
         s # "done" => l.path # <<>>,
         s \in {"root", "rootMake", "check", "make", "link", "son"} => l.todo # <<>>
  PROVE  RequestInv' /\ AnswerInv'
<1>1. /\ loc' \in [Req -> Locals] /\ loc'[r] = l
      /\ \A q \in Req : q # r => loc'[q] = loc[q]
  BY DEF RequestInv, RequestTypeOK
<1>2. pc' = [pc EXCEPT ![r] = s]
  BY DEF Goto
<1>3. RequestInv'
  BY <1>1, <1>2, OneRequestMoves
<1>4. AnswerInv'
  BY <1>2, Counting DEF AnswerInv, AnswerTypeOK, Sending, Goto, RequestInv, RequestTypeOK
<1> QED BY <1>3, <1>4

\* The handler of r goes on to step s, its local variables as they are.
LEMMA Stays ==
  ASSUME RequestInv, AnswerInv, Works \/ Fails,
         NEW r \in Req, NEW s \in Steps \ {"new", "send"}, Goto(r, s), UNCHANGED loc,
         DOMAIN vertices \subseteq DOMAIN vertices',
         pc[r] \notin {"new", "done"},
         s \in {"root", "rootMake", "check", "make", "link", "son"} => loc[r].todo # <<>>
  PROVE  RequestInv' /\ AnswerInv'
<1>1. loc[r] \in Locals /\ loc' = [loc EXCEPT ![r] = loc[r]]
  BY DEF RequestInv, RequestTypeOK
<1>2. /\ {loc[r].at, loc[r].node} \subseteq {NoRid} \cup DOMAIN vertices'
      /\ loc[r].path # <<>>
  BY DEF RequestInv, RequestTypeOK, Walking
<1> QED BY <1>1, <1>2, Moves

\* The handler of r answers.
LEMMA Replies ==
  ASSUME RequestInv, AnswerInv, Works \/ Fails,
         NEW r \in Req, NEW code \in {0, 200, 201, 404, 500, 501}, Reply(r, code),
         DOMAIN vertices \subseteq DOMAIN vertices'
  PROVE  RequestInv' /\ AnswerInv'
<1>1. loc' \in [Req -> Locals] /\ \A q \in Req : loc'[q] = loc[q]
  BY DEF RequestInv, RequestTypeOK, Reply
<1>2. {loc'[r].at, loc'[r].node} \subseteq {NoRid} \cup DOMAIN vertices'
  BY <1>1 DEF RequestInv, RequestTypeOK
<1>3. pc' = [pc EXCEPT ![r] = "done"] /\ "done" \in Steps
  BY DEF Reply, Steps
<1>4. RequestInv'
  <2>1. RequestTypeOK'
    BY <1>1, <1>2, <1>3 DEF RequestInv, RequestTypeOK
  <2>2. ASSUME NEW q \in Req PROVE Walking(q)'
    BY <1>1, <1>3 DEF RequestInv, RequestTypeOK, Walking
  <2> QED BY <2>1, <2>2 DEF RequestInv
<1>5. status' \in [Req -> {0, 200, 201, 404, 500, 501}] /\ UNCHANGED slice
  BY DEF Reply, AnswerInv, AnswerTypeOK
<1>6. \A u \in Uploads : Sending(u)'
  BY <1>3, <1>5 DEF AnswerInv, Sending, RequestInv, RequestTypeOK, Req
<1>7. AnswerInv'
  BY <1>5, <1>6, Counting DEF AnswerInv, AnswerTypeOK
<1> QED BY <1>4, <1>7

\* The local variables after Enter.
Entered(r, n) == [loc[r] EXCEPT !.at = n, !.todo = Tail(loc[r].todo)]

LEMMA EnterLocals ==
  ASSUME RequestInv, NEW r \in Req, NEW n \in Nat, loc[r].todo # <<>>
  PROVE  /\ Entered(r, n) \in Locals
         /\ Entered(r, n).at = n /\ Entered(r, n).node = loc[r].node
         /\ Entered(r, n).path = loc[r].path
         /\ Len(loc[r].todo) > 1 => Entered(r, n).todo # <<>>
         /\ Enter(r, n) => loc' = [loc EXCEPT ![r] = Entered(r, n)]
<1>1. loc \in [Req -> Locals]
  BY DEF RequestInv, RequestTypeOK
<1>2. loc[r] \in Locals /\ loc[r].todo \in Seq(STRING)
  BY <1>1 DEF Locals
<1>3. PICK t \in Seq(STRING) : t = Tail(loc[r].todo) /\ Len(t) = Len(loc[r].todo) - 1
  BY <1>2, HeadTailProperties, Zenon
<1>4. Len(loc[r].todo) > 1 => t # <<>>
  <2>1. Len(<<>>) = 0
    BY EmptySeq
  <2>2. Len(loc[r].todo) > 1 => Len(t) # 0
    BY <1>2, <1>3, LenProperties
  <2> QED BY <2>1, <2>2, Zenon
<1>5. /\ Entered(r, n) \in Locals
      /\ Entered(r, n).at = n /\ Entered(r, n).node = loc[r].node
      /\ Entered(r, n).path = loc[r].path
      /\ Entered(r, n).todo = Tail(loc[r].todo)
  BY <1>2, <1>3 DEF Locals, Entered
<1>6. Enter(r, n) => loc' = [loc EXCEPT ![r] = Entered(r, n)]
  BY <1>1 DEF Enter, Entered
<1> QED BY <1>3, <1>4, <1>5, <1>6

\* The calls handlers share.
LEMMA EnterMoves ==
  ASSUME RequestInv, AnswerInv, Works \/ Fails,
         NEW r \in Req, NEW s \in Steps \ {"new", "send"}, Goto(r, s),
         pc[r] \in {"check", "link", "son"},
         NEW n \in Nat, n \in DOMAIN vertices', Enter(r, n),
         DOMAIN vertices \subseteq DOMAIN vertices',
         s \in {"root", "rootMake", "check", "make", "link", "son"} => Len(loc[r].todo) > 1
  PROVE  RequestInv' /\ AnswerInv'
<1>1. /\ loc[r].todo # <<>> /\ loc[r].path # <<>>
      /\ loc[r].node \in {NoRid} \cup DOMAIN vertices
  BY DEF RequestInv, RequestTypeOK, Walking
<1>2. /\ Entered(r, n) \in Locals
      /\ Entered(r, n).at = n /\ Entered(r, n).node = loc[r].node
      /\ Entered(r, n).path = loc[r].path
      /\ Len(loc[r].todo) > 1 => Entered(r, n).todo # <<>>
      /\ loc' = [loc EXCEPT ![r] = Entered(r, n)]
  BY <1>1, EnterLocals
<1> QED BY <1>1, <1>2, Moves

LEMMA HaveRootMoves ==
  ASSUME RequestInv, AnswerInv, Works \/ Fails,
         NEW r \in Req, pc[r] \in {"root", "rootMake"},
         NEW n \in Nat, n \in DOMAIN vertices', HaveRoot(r, n),
         DOMAIN vertices \subseteq DOMAIN vertices'
  PROVE  RequestInv' /\ AnswerInv'
<1> DEFINE l == [loc[r] EXCEPT !.at = n]
           s == IF loc[r].phase = "tree" THEN "check" ELSE "son"
<1>1. /\ loc[r] \in Locals /\ loc[r].todo # <<>> /\ loc[r].path # <<>>
      /\ loc[r].node \in {NoRid} \cup DOMAIN vertices
  BY DEF RequestInv, RequestTypeOK, Walking
<1>2. /\ l \in Locals /\ l.at = n /\ l.node = loc[r].node
      /\ l.path = loc[r].path /\ l.todo = loc[r].todo
  BY <1>1 DEF Locals
<1>3. loc' = [loc EXCEPT ![r] = l] /\ Goto(r, s)
  BY DEF HaveRoot
<1>4. s \in Steps \ {"new", "send"}
  BY DEF Steps
<1> HIDE DEF l, s
<1> QED BY <1>1, <1>2, <1>3, <1>4, Moves

LEMMA LookUpMoves ==
  ASSUME RequestInv, AnswerInv, Works \/ Fails,
         NEW r \in Req, pc[r] \notin {"new", "done"}, LookUp(r),
         DOMAIN vertices \subseteq DOMAIN vertices'
  PROVE  RequestInv' /\ AnswerInv'
<1> DEFINE l == [loc[r] EXCEPT !.phase = "path", !.todo = loc[r].path, !.at = NoRid]
<1>1. /\ loc[r] \in Locals /\ loc[r].path # <<>>
      /\ loc[r].node \in {NoRid} \cup DOMAIN vertices
  BY DEF RequestInv, RequestTypeOK, Walking
<1>2. /\ l \in Locals /\ l.at = NoRid /\ l.node = loc[r].node
      /\ l.path = loc[r].path /\ l.todo = loc[r].path
  BY <1>1 DEF Locals, NoRid
<1>3. loc' = [loc EXCEPT ![r] = l] /\ Goto(r, "root")
  BY DEF LookUp, RequestInv, RequestTypeOK
<1>4. "root" \in Steps \ {"new", "send"}
  BY DEF Steps
<1> HIDE DEF l
<1> QED BY <1>1, <1>2, <1>3, <1>4, Moves

LEMMA TreeDoneMoves ==
  ASSUME RequestInv, AnswerInv, Works \/ Fails,
         NEW r \in Req, pc[r] \notin {"new", "done"}, TreeDone(r),
         DOMAIN vertices \subseteq DOMAIN vertices'
  PROVE  RequestInv' /\ AnswerInv'
<1>1. CASE r \in Uploads
  <2>1. Goto(r, "video") /\ UNCHANGED loc
    BY <1>1 DEF TreeDone
  <2>2. "video" \in Steps \ {"new", "send"}
    BY DEF Steps
  <2> QED BY <2>1, <2>2, Stays
<1>2. CASE r \notin Uploads
  BY <1>2, LookUpMoves DEF TreeDone
<1> QED BY <1>1, <1>2

LEMMA TreeFailedMoves ==
  ASSUME RequestInv, AnswerInv, Works \/ Fails,
         NEW r \in Req, pc[r] \notin {"new", "done"}, TreeFailed(r),
         DOMAIN vertices \subseteq DOMAIN vertices'
  PROVE  RequestInv' /\ AnswerInv'
<1>1. CASE r \in Uploads
  <2>1. Goto(r, "video") /\ UNCHANGED loc
    BY <1>1 DEF TreeFailed
  <2>2. "video" \in Steps \ {"new", "send"}
    BY DEF Steps
  <2> QED BY <2>1, <2>2, Stays
<1>2. CASE r \notin Uploads
  BY <1>2, Replies DEF TreeFailed, Throw
<1> QED BY <1>1, <1>2

LEMMA Same ==
  /\ GraphTypeOK /\ UNCHANGED graphVars =>
       GraphTypeOK' /\ vertices' = vertices /\ DOMAIN vertices' = DOMAIN vertices
  /\ FileTypeOK /\ UNCHANGED fileVars => FileTypeOK'
BY DEF GraphTypeOK, graphVars, FileTypeOK, fileVars

\* The root the handlers look up or make.
LEMMA GetRootType ==
  ASSUME TypeInv, NEW r \in Req, GetRoot(r)
  PROVE  TypeInv'
<1>1. /\ pc[r] = "root" /\ GraphTypeOK' /\ FileTypeOK'
      /\ DOMAIN vertices' = DOMAIN vertices
      /\ RequestInv /\ AnswerInv /\ loc[r].todo # <<>>
  BY Same DEF GetRoot, TypeInv, RequestInv, Walking
<1>2. ASSUME Works, NEW n \in RootCandidates, HaveRoot(r, n) PROVE RequestInv' /\ AnswerInv'
  <2>1. n \in Nat /\ n \in DOMAIN vertices'
    BY <1>1, LiveType DEF RootCandidates, TypeInv
  <2> QED BY <1>1, <1>2, <2>1, HaveRootMoves
<1>3. ASSUME Works \/ Fails, Goto(r, "rootMake"), UNCHANGED loc PROVE RequestInv' /\ AnswerInv'
  <2>1. "rootMake" \in Steps \ {"new", "send"}
    BY DEF Steps
  <2> QED BY <1>1, <1>3, <2>1, Stays
<1> QED BY <1>1, <1>2, <1>3 DEF GetRoot, TypeInv

LEMMA RecordType ==
  /\ \A name \in STRING : Directory(name) \in Record
  /\ \A name \in STRING, u \in Uploads : Video(name, u) \in Record
  /\ RootName \in STRING
<1>1. ASSUME NEW name \in STRING PROVE Directory(name) \in Record
  BY DEF Directory, Record
<1>2. ASSUME NEW name \in STRING, NEW u \in Uploads PROVE Video(name, u) \in Record
  BY DEF Video, Record
<1>3. RootName \in STRING
  BY Inputs DEF RootName
<1> QED BY <1>1, <1>2, <1>3

LEMMA CreateRootType ==
  ASSUME TypeInv, NEW r \in Req, CreateRoot(r)
  PROVE  TypeInv'
<1>1. /\ pc[r] = "rootMake" /\ FileTypeOK' /\ RequestInv /\ AnswerInv /\ GraphTypeOK
      /\ Directory(RootName) \in Record
  BY Same, RecordType DEF CreateRoot, TypeInv
<1>2. CASE Works /\ CreateVertex(Directory(RootName)) /\ HaveRoot(r, NewRid)
  <2>1. /\ GraphTypeOK' /\ NewRid \in Nat /\ NewRid \in DOMAIN vertices'
        /\ DOMAIN vertices \subseteq DOMAIN vertices'
    BY <1>1, <1>2, NewVertex
  <2> QED BY <1>1, <1>2, <2>1, HaveRootMoves DEF TypeInv
<1>3. CASE Fails /\ (CreateVertex(Directory(RootName)) \/ UNCHANGED graphVars) /\ Throw(r)
  <2>1. GraphTypeOK' /\ DOMAIN vertices \subseteq DOMAIN vertices'
    BY <1>1, <1>3, NewVertex, Same
  <2> QED BY <1>1, <1>3, <2>1, Replies DEF Throw, TypeInv
<1> QED BY <1>2, <1>3 DEF CreateRoot

\* createFolderTree.
LEMMA CheckSonType ==
  ASSUME TypeInv, NEW r \in Req, CheckSon(r)
  PROVE  TypeInv'
<1>1. /\ pc[r] = "check" /\ GraphTypeOK' /\ FileTypeOK'
      /\ DOMAIN vertices' = DOMAIN vertices
      /\ RequestInv /\ AnswerInv /\ loc[r].todo # <<>>
  BY Same DEF CheckSon, TypeInv, RequestInv, Walking
<1>2. {"check", "make"} \subseteq Steps \ {"new", "send"}
  BY DEF Steps
<1>3. ASSUME Works, NEW n \in SonsByName(loc[r].at, Head(loc[r].todo)),
             IF Len(loc[r].todo) > 1 THEN Enter(r, n) /\ Goto(r, "check") ELSE TreeDone(r)
      PROVE  RequestInv' /\ AnswerInv'
  <2>1. n \in Nat /\ n \in DOMAIN vertices'
    BY <1>1, LiveType DEF SonsByName, Out, TypeInv
  <2>2. CASE Len(loc[r].todo) > 1
    BY <1>1, <1>2, <1>3, <2>1, <2>2, EnterMoves
  <2>3. CASE ~ (Len(loc[r].todo) > 1)
    BY <1>1, <1>3, <2>3, TreeDoneMoves
  <2> QED BY <2>2, <2>3
<1>4. ASSUME Works \/ Fails, Goto(r, "make"), UNCHANGED loc PROVE RequestInv' /\ AnswerInv'
  BY <1>1, <1>2, <1>4, Stays
<1> QED BY <1>1, <1>3, <1>4 DEF CheckSon, TypeInv

LEMMA MakeDirectoryType ==
  ASSUME TypeInv, NEW r \in Req, MakeDirectory(r)
  PROVE  TypeInv'
<1> DEFINE name == Head(loc[r].todo)
           l == [loc[r] EXCEPT !.node = NewRid]
<1>1. /\ pc[r] = "make" /\ FileTypeOK' /\ RequestInv /\ AnswerInv /\ GraphTypeOK
      /\ loc[r] \in Locals /\ loc[r].todo # <<>> /\ loc[r].path # <<>>
      /\ loc[r].at \in {NoRid} \cup DOMAIN vertices
  BY Same DEF MakeDirectory, TypeInv, RequestInv, RequestTypeOK, Walking
<1>2. name \in STRING
  BY <1>1, HeadTailProperties DEF Locals
<1>3. Directory(name) \in Record
  BY <1>2, RecordType
<1>4. CASE Works /\ CreateVertex(Directory(name)) /\ loc' = [loc EXCEPT ![r].node = NewRid]
           /\ Goto(r, "link")
  <2>1. /\ GraphTypeOK' /\ NewRid \in Nat /\ NewRid \in DOMAIN vertices'
        /\ DOMAIN vertices \subseteq DOMAIN vertices'
    BY <1>1, <1>3, <1>4, NewVertex
  <2>2. /\ l \in Locals /\ l.at = loc[r].at /\ l.node = NewRid
        /\ l.path = loc[r].path /\ l.todo = loc[r].todo
    BY <1>1, <2>1 DEF Locals
  <2>3. loc' = [loc EXCEPT ![r] = l]
    BY <1>4 DEF RequestInv, RequestTypeOK
  <2>4. "link" \in Steps \ {"new", "send"}
    BY DEF Steps
  <2> HIDE DEF l, name
  <2>5. {l.at, l.node} \subseteq {NoRid} \cup DOMAIN vertices'
    BY <1>1, <2>1, <2>2
  <2>6. Works \/ Fails
    BY <1>4
  <2>7. RequestInv' /\ AnswerInv'
    BY <1>1, <1>4, <2>1, <2>2, <2>3, <2>4, <2>5, <2>6, Moves
  <2> QED BY <1>1, <2>1, <2>7 DEF TypeInv
<1>5. CASE Fails /\ (CreateVertex(Directory(name)) \/ UNCHANGED graphVars) /\ TreeFailed(r)
  <2>1. GraphTypeOK' /\ DOMAIN vertices \subseteq DOMAIN vertices'
    BY <1>1, <1>3, <1>5, NewVertex, Same
  <2> QED BY <1>1, <1>5, <2>1, TreeFailedMoves DEF TypeInv
<1> QED BY <1>4, <1>5 DEF MakeDirectory

LEMMA LinkDirectoryType ==
  ASSUME TypeInv, NEW r \in Req, LinkDirectory(r)
  PROVE  TypeInv'
<1>1. /\ pc[r] = "link" /\ FileTypeOK' /\ RequestInv /\ AnswerInv /\ GraphTypeOK
      /\ loc[r].todo # <<>>
  BY Same DEF LinkDirectory, TypeInv, RequestInv, Walking
<1>2. /\ GraphTypeOK'
      /\ DOMAIN vertices' = DOMAIN vertices
  BY <1>1, NewEdge, Same DEF LinkDirectory
<1>3. "check" \in Steps \ {"new", "send"}
  BY DEF Steps
<1>4. ASSUME Works, CreateEdge(loc[r].at, loc[r].node),
             IF Len(loc[r].todo) > 1
             THEN Enter(r, loc[r].node) /\ Goto(r, "check") ELSE TreeDone(r)
      PROVE  RequestInv' /\ AnswerInv'
  <2>1. loc[r].node \in Nat /\ loc[r].node \in DOMAIN vertices'
    BY <1>1, <1>2, <1>4, LiveType, NewEdge
  <2>2. CASE Len(loc[r].todo) > 1
    BY <1>1, <1>2, <1>3, <1>4, <2>1, <2>2, EnterMoves
  <2>3. CASE ~ (Len(loc[r].todo) > 1)
    BY <1>1, <1>2, <1>4, <2>3, TreeDoneMoves
  <2> QED BY <2>2, <2>3
<1>5. ASSUME Works \/ Fails, TreeFailed(r) PROVE RequestInv' /\ AnswerInv'
  BY <1>1, <1>2, <1>5, TreeFailedMoves
<1> QED BY <1>1, <1>2, <1>4, <1>5 DEF LinkDirectory, TypeInv

\* createFile.
LEMMA CreateVideoType ==
  ASSUME TypeInv, NEW u \in Uploads, CreateVideo(u)
  PROVE  TypeInv'
<1> DEFINE l == [loc[u] EXCEPT !.node = NewRid, !.phase = "path",
                               !.todo = loc[u].path, !.at = NoRid]
<1>1. /\ u \in Req /\ pc[u] = "video" /\ FileTypeOK' /\ RequestInv /\ AnswerInv /\ GraphTypeOK
      /\ loc[u] \in Locals /\ loc[u].path # <<>>
  BY Same DEF CreateVideo, TypeInv, RequestInv, RequestTypeOK, Walking, Req
<1>2. Video(loc[u].name, u) \in Record
  BY <1>1, RecordType DEF Locals
<1>3. CASE Works /\ CreateVertex(Video(loc[u].name, u)) /\ Goto(u, "root")
           /\ loc' = [loc EXCEPT ![u].node = NewRid, ![u].phase = "path",
                                 ![u].todo = loc[u].path, ![u].at = NoRid]
  <2>1. /\ GraphTypeOK' /\ NewRid \in Nat /\ NewRid \in DOMAIN vertices'
        /\ DOMAIN vertices \subseteq DOMAIN vertices'
    BY <1>1, <1>2, <1>3, NewVertex
  <2>2. /\ l \in Locals /\ l.at = NoRid /\ l.node = NewRid
        /\ l.path = loc[u].path /\ l.todo = loc[u].path
    BY <1>1, <2>1 DEF Locals, NoRid
  <2>3. loc' = [loc EXCEPT ![u] = l]
    BY <1>1, <1>3 DEF RequestInv, RequestTypeOK
  <2>4. "root" \in Steps \ {"new", "send"}
    BY DEF Steps
  <2> HIDE DEF l
  <2>5. {l.at, l.node} \subseteq {NoRid} \cup DOMAIN vertices'
    BY <1>1, <2>1, <2>2
  <2>6. Works \/ Fails
    BY <1>3
  <2>7. RequestInv' /\ AnswerInv'
    BY <1>1, <1>3, <2>1, <2>2, <2>3, <2>4, <2>5, <2>6, Moves
  <2> QED BY <1>1, <2>1, <2>7 DEF TypeInv
<1>4. CASE Fails /\ (CreateVertex(Video(loc[u].name, u)) \/ UNCHANGED graphVars) /\ Reply(u, 500)
  <2>1. GraphTypeOK' /\ DOMAIN vertices \subseteq DOMAIN vertices'
    BY <1>1, <1>2, <1>4, NewVertex, Same
  <2> QED BY <1>1, <1>4, <2>1, Replies DEF TypeInv
<1> QED BY <1>3, <1>4 DEF CreateVideo

LEMMA AttachVideoType ==
  ASSUME TypeInv, NEW u \in Uploads, AttachVideo(u)
  PROVE  TypeInv'
<1>1. /\ u \in Req /\ pc[u] = "attach" /\ FileTypeOK' /\ RequestInv /\ AnswerInv /\ GraphTypeOK
  BY Same DEF AttachVideo, TypeInv, Req
<1>2. GraphTypeOK' /\ DOMAIN vertices' = DOMAIN vertices
  BY <1>1, NewEdge, Same DEF AttachVideo
<1>3. ASSUME Works \/ Fails, NEW code \in {201, 500}, AnswerUpload(u, code)
      PROVE  RequestInv' /\ AnswerInv'
  <2>1. CASE u \in Exact /\ code = 201
    <3>1. /\ pc' = [pc EXCEPT ![u] = "extra"] /\ "extra" \in Steps
          /\ status' = [status EXCEPT ![u] = code]
          /\ UNCHANGED <<slice, loc>>
      BY <1>3, <2>1 DEF AnswerUpload, Steps
    <3>2. RequestTypeOK'
      BY <1>1, <1>2, <3>1 DEF RequestInv, RequestTypeOK
    <3>3. ASSUME NEW q \in Req PROVE Walking(q)'
      BY <1>1, <3>1 DEF RequestInv, RequestTypeOK, Walking
    <3>4. status' \in [Req -> {0, 200, 201, 404, 500, 501}]
      BY <1>1, <3>1 DEF AnswerInv, AnswerTypeOK
    <3>5. \A v \in Uploads : Sending(v)'
      BY <1>1, <3>1 DEF RequestInv, RequestTypeOK, AnswerInv, Sending, Req
    <3>6. faults' \in Nat /\ crashes' \in Nat
      BY <1>1, <1>3, Counting
    <3> QED BY <1>1, <3>1, <3>2, <3>3, <3>4, <3>5, <3>6 DEF RequestInv, AnswerInv, AnswerTypeOK
  <2>2. CASE ~ (u \in Exact /\ code = 201)
    BY <1>1, <1>2, <1>3, <2>2, Replies DEF AnswerUpload
  <2> QED BY <2>1, <2>2
<1> QED BY <1>1, <1>2, <1>3 DEF AttachVideo, TypeInv

\* getLastNodeFromRelativePath.
LEMMA FindSonType ==
  ASSUME TypeInv, NEW r \in Req, FindSon(r)
  PROVE  TypeInv'
<1>1. /\ pc[r] = "son" /\ GraphTypeOK' /\ FileTypeOK'
      /\ DOMAIN vertices' = DOMAIN vertices
      /\ RequestInv /\ AnswerInv
  BY Same DEF FindSon, TypeInv
<1>2. ASSUME Works, NEW n \in SonsByName(loc[r].at, Head(loc[r].todo)), Enter(r, n),
             Goto(r, IF Len(loc[r].todo) > 1 THEN "son" ELSE AfterLookUp(r, n))
      PROVE  RequestInv' /\ AnswerInv'
  <2>1. n \in Nat /\ n \in DOMAIN vertices'
    BY <1>1, LiveType DEF SonsByName, Out, TypeInv
  <2>2. CASE Len(loc[r].todo) > 1
    <3>1. "son" \in Steps \ {"new", "send"} /\ Goto(r, "son")
      BY <1>2, <2>2 DEF Steps
    <3> QED BY <1>1, <1>2, <2>1, <2>2, <3>1, EnterMoves
  <2>3. CASE ~ (Len(loc[r].todo) > 1)
    <3>1. /\ AfterLookUp(r, n) \in Steps \ {"new", "send"}
          /\ AfterLookUp(r, n) \notin {"root", "rootMake", "check", "make", "link", "son"}
      BY Requests DEF AfterLookUp, Steps, Req
    <3>2. Goto(r, AfterLookUp(r, n))
      BY <1>2, <2>3
    <3> QED BY <1>1, <1>2, <2>1, <2>3, <3>1, <3>2, EnterMoves
  <2> QED BY <2>2, <2>3
<1>3. ASSUME Works \/ Fails, LookUpFailed(r) PROVE RequestInv' /\ AnswerInv'
  BY <1>1, <1>3, Replies DEF LookUpFailed
<1> QED BY <1>1, <1>2, <1>3 DEF FindSon, TypeInv

\* deleteNodeById.
LEMMA CheckLeafType ==
  ASSUME TypeInv, NEW d \in Deletes, CheckLeaf(d)
  PROVE  TypeInv'
<1>1. /\ d \in Req /\ pc[d] = "leaf" /\ GraphTypeOK' /\ FileTypeOK'
      /\ DOMAIN vertices' = DOMAIN vertices
      /\ RequestInv /\ AnswerInv
  BY Same DEF CheckLeaf, TypeInv, Req
<1>2. "load" \in Steps \ {"new", "send"}
  BY DEF Steps
<1>3. ASSUME Works \/ Fails, Goto(d, "load"), UNCHANGED loc PROVE RequestInv' /\ AnswerInv'
  BY <1>1, <1>2, <1>3, Stays
<1>4. ASSUME Works \/ Fails, Reply(d, 501) PROVE RequestInv' /\ AnswerInv'
  BY <1>1, <1>4, Replies
<1> QED BY <1>1, <1>3, <1>4 DEF CheckLeaf, TypeInv

LEMMA LoadNodeType ==
  ASSUME TypeInv, NEW d \in Deletes, LoadNode(d)
  PROVE  TypeInv'
<1>1. /\ d \in Req /\ pc[d] = "load" /\ GraphTypeOK' /\ FileTypeOK'
      /\ DOMAIN vertices' = DOMAIN vertices
      /\ RequestInv /\ AnswerInv
  BY Same DEF LoadNode, TypeInv, Req
<1>2. ASSUME Works, loc[d].at \in Live, Goto(d, "remove"),
             loc' = [loc EXCEPT ![d].file = vertices[loc[d].at].file]
      PROVE  RequestInv' /\ AnswerInv'
  <2> DEFINE l == [loc[d] EXCEPT !.file = vertices[loc[d].at].file]
  <2>1. /\ loc[d] \in Locals /\ loc[d].path # <<>>
        /\ {loc[d].at, loc[d].node} \subseteq {NoRid} \cup DOMAIN vertices
    BY <1>1 DEF RequestInv, RequestTypeOK, Walking
  <2>2. vertices[loc[d].at].file \in Uploads \cup {NoFile}
    <3>1. vertices[loc[d].at] \in Record
      BY <1>2 DEF TypeInv, GraphTypeOK, Live
    <3> QED BY <3>1 DEF Record
  <2>3. /\ l \in Locals /\ l.at = loc[d].at /\ l.node = loc[d].node
        /\ l.path = loc[d].path
    BY <2>1, <2>2 DEF Locals
  <2>4. loc' = [loc EXCEPT ![d] = l]
    BY <1>1, <1>2 DEF RequestInv, RequestTypeOK
  <2>5. "remove" \in Steps \ {"new", "send"}
    BY DEF Steps
  <2> HIDE DEF l
  <2>6. {l.at, l.node} \subseteq {NoRid} \cup DOMAIN vertices' /\ l.path # <<>>
    BY <1>1, <2>1, <2>3
  <2>7. (Works \/ Fails) /\ Goto(d, "remove") /\ DOMAIN vertices \subseteq DOMAIN vertices'
    BY <1>1, <1>2
  <2> QED BY <1>1, <2>3, <2>4, <2>5, <2>6, <2>7, Moves
<1>3. ASSUME Works \/ Fails, Reply(d, 501) PROVE RequestInv' /\ AnswerInv'
  BY <1>1, <1>3, Replies
<1> QED BY <1>1, <1>2, <1>3 DEF LoadNode, TypeInv

LEMMA BeginRemoveType ==
  ASSUME TypeInv, NEW d \in Deletes, BeginRemove(d)
  PROVE  TypeInv'
<1>1. /\ d \in Req /\ pc[d] = "remove" /\ GraphTypeOK' /\ FileTypeOK'
      /\ DOMAIN vertices' = DOMAIN vertices
      /\ RequestInv /\ AnswerInv
  BY Same DEF BeginRemove, TypeInv, Req
<1>2. ASSUME Works, Goto(d, "unlink"),
             loc' = [loc EXCEPT ![d].seen = Around(loc[d].at)]
      PROVE  RequestInv' /\ AnswerInv'
  <2> DEFINE l == [loc[d] EXCEPT !.seen = Around(loc[d].at)]
  <2>1. /\ loc[d] \in Locals /\ loc[d].path # <<>>
        /\ {loc[d].at, loc[d].node} \subseteq {NoRid} \cup DOMAIN vertices
    BY <1>1 DEF RequestInv, RequestTypeOK, Walking
  <2>2. Around(loc[d].at) \subseteq Nat \X Nat
    BY DEF TypeInv, GraphTypeOK, Around
  <2>3. /\ l \in Locals /\ l.at = loc[d].at /\ l.node = loc[d].node
        /\ l.path = loc[d].path
    BY <2>1, <2>2 DEF Locals
  <2>4. loc' = [loc EXCEPT ![d] = l]
    BY <1>1, <1>2 DEF RequestInv, RequestTypeOK
  <2>5. "unlink" \in Steps \ {"new", "send"}
    BY DEF Steps
  <2> HIDE DEF l
  <2>6. {l.at, l.node} \subseteq {NoRid} \cup DOMAIN vertices' /\ l.path # <<>>
    BY <1>1, <2>1, <2>3
  <2>7. (Works \/ Fails) /\ Goto(d, "unlink") /\ DOMAIN vertices \subseteq DOMAIN vertices'
    BY <1>1, <1>2
  <2> QED BY <1>1, <2>3, <2>4, <2>5, <2>6, <2>7, Moves
<1>3. ASSUME Works \/ Fails, Reply(d, 501) PROVE RequestInv' /\ AnswerInv'
  BY <1>1, <1>3, Replies
<1> QED BY <1>1, <1>2, <1>3 DEF BeginRemove, TypeInv

LEMMA DeleteFileType ==
  ASSUME TypeInv, NEW d \in Deletes, DeleteFile(d)
  PROVE  TypeInv'
<1>1. /\ d \in Req /\ pc[d] = "unlink" /\ GraphTypeOK' /\ FileTypeOK
      /\ DOMAIN vertices' = DOMAIN vertices
      /\ RequestInv /\ AnswerInv
  BY Same DEF DeleteFile, TypeInv, Req
<1>2. "commit" \in Steps \ {"new", "send"}
  BY DEF Steps
<1>3. ASSUME Works, onDisk' = onDisk \ {loc[d].file},
             disk' = [u \in Uploads |-> IF u = loc[d].file THEN <<>> ELSE disk[u]],
             Goto(d, "commit"), UNCHANGED loc
      PROVE  RequestInv' /\ AnswerInv' /\ FileTypeOK'
  <2>1. FileTypeOK'
    <3>1. <<>> \in Seq(0 .. Torn)
      BY EmptySeq
    <3> QED BY <1>1, <1>3, <3>1 DEF FileTypeOK
  <2> QED BY <1>1, <1>2, <1>3, <2>1, Stays
<1>4. ASSUME Works \/ Fails, Reply(d, 501) PROVE RequestInv' /\ AnswerInv'
  BY <1>1, <1>4, Replies
<1> QED BY <1>1, <1>3, <1>4, Same DEF DeleteFile, TypeInv

LEMMA CommitRemoveType ==
  ASSUME TypeInv, NEW d \in Deletes, CommitRemove(d)
  PROVE  TypeInv'
<1>1. /\ d \in Req /\ FileTypeOK' /\ RequestInv /\ AnswerInv
      /\ GraphTypeOK' /\ DOMAIN vertices' = DOMAIN vertices
  BY Same, GoneVertex DEF CommitRemove, TypeInv, Req, Unchanged
<1>2. ASSUME Works \/ Fails, NEW code \in {200, 501}, Reply(d, code)
      PROVE  RequestInv' /\ AnswerInv'
  BY <1>1, <1>2, Replies
<1> QED BY <1>1, <1>2 DEF CommitRemove, TypeInv

\* Gets.
LEMMA GetType ==
  ASSUME TypeInv, NEW g \in Gets, Get(g)
  PROVE  TypeInv'
<1>1. /\ g \in Req /\ FileTypeOK' /\ RequestInv /\ AnswerInv
      /\ GraphTypeOK' /\ DOMAIN vertices' = DOMAIN vertices
  BY Same DEF Get, ListDirectory, ReadSlice, TypeInv, Req
<1>2. ASSUME Works \/ Fails, NEW code \in {200, 500}, Reply(g, code)
      PROVE  RequestInv' /\ AnswerInv'
  BY <1>1, <1>2, Replies
<1> QED BY <1>1, <1>2 DEF Get, ListDirectory, ReadSlice, Throw, TypeInv

\* The slices of an upload.
LEMMA TotalType == Total \in Nat /\ Total > 0 /\ Torn = Total + 1
<1>1. Total \in Nat \ {0}
  BY Inputs, Zenon
<1> QED BY <1>1 DEF Torn

LEMMA AppendType ==
  ASSUME FileTypeOK, AnswerInv, NEW u \in Uploads, WriteSlice(u) \/ WriteTorn(u)
  PROVE  FileTypeOK'
<1>0. slice[u] \in 0 .. Torn /\ Torn \in 0 .. Torn
  BY TotalType DEF AnswerInv, AnswerTypeOK
<1> PICK k \in 0 .. Torn : disk' = [disk EXCEPT ![u] = Append(disk[u], k)]
  BY <1>0, Zenon DEF WriteSlice, WriteTorn
<1>1. disk[u] \in Seq(0 .. Torn)
  BY DEF FileTypeOK
<1>2. Append(disk[u], k) \in Seq(0 .. Torn)
  BY <1>1, AppendProperties
<1> QED BY <1>2 DEF FileTypeOK, WriteSlice, WriteTorn

LEMMA StartTreeMoves ==
  ASSUME RequestInv, AnswerInv, Works \/ Fails, NEW u \in Uploads,
         pc[u] = "send", StartTree(u), DOMAIN vertices \subseteq DOMAIN vertices'
  PROVE  RequestInv' /\ AnswerInv'
<1> DEFINE l == [loc[u] EXCEPT !.phase = "tree", !.todo = loc[u].path]
<1>1. /\ u \in Req /\ loc[u] \in Locals /\ loc[u].path # <<>>
      /\ {loc[u].at, loc[u].node} \subseteq {NoRid} \cup DOMAIN vertices
  BY DEF RequestInv, RequestTypeOK, Walking, Req
<1>2. /\ l \in Locals /\ l.at = loc[u].at /\ l.node = loc[u].node
      /\ l.path = loc[u].path /\ l.todo = loc[u].path
  BY <1>1 DEF Locals
<1>3. /\ loc' = [loc EXCEPT ![u] = l]
      /\ pc' = [pc EXCEPT ![u] = "root"] /\ "root" \in Steps
      /\ slice' = [slice EXCEPT ![u] = Total] /\ status' = status
  BY DEF StartTree, RequestInv, RequestTypeOK, Steps
<1> HIDE DEF l
<1>4. RequestTypeOK'
  BY <1>1, <1>2, <1>3 DEF RequestInv, RequestTypeOK
<1>5. ASSUME NEW q \in Req PROVE Walking(q)'
  BY <1>1, <1>2, <1>3 DEF RequestInv, RequestTypeOK, Walking
<1>6. slice' \in [Uploads -> 0 .. Total]
  BY <1>3, TotalType DEF AnswerInv, AnswerTypeOK
<1>7. \A v \in Uploads : Sending(v)'
  BY <1>1, <1>3 DEF RequestInv, RequestTypeOK, AnswerInv, AnswerTypeOK, Sending, Req
<1> QED BY <1>3, <1>4, <1>5, <1>6, <1>7, Counting DEF RequestInv, AnswerInv, AnswerTypeOK

LEMMA NextSliceMoves ==
  ASSUME RequestInv, AnswerInv, Works \/ Fails, NEW u \in Uploads,
         slice[u] # Total - 1, pc[u] = "send", NextSlice(u),
         DOMAIN vertices \subseteq DOMAIN vertices'
  PROVE  RequestInv' /\ AnswerInv'
<1>1. RequestInv'
  BY DEF RequestInv, RequestTypeOK, Walking, NextSlice
<1>2. slice[u] + 1 \in 0 .. Total /\ slice[u] + 1 < Total
  BY TotalType DEF AnswerInv, AnswerTypeOK, Sending
<1>3. /\ slice' \in [Uploads -> 0 .. Total]
      /\ \A v \in Uploads : Sending(v)'
  BY <1>2 DEF AnswerInv, AnswerTypeOK, Sending, NextSlice
<1>4. status' \in [Req -> {0, 200, 201, 404, 500, 501}]
  BY ZenonT(60) DEF AnswerInv, AnswerTypeOK, NextSlice
<1> QED BY <1>1, <1>3, <1>4, Counting DEF AnswerInv, AnswerTypeOK

LEMMA SendType ==
  ASSUME TypeInv, NEW u \in Uploads, Send(u) \/ SendExtra(u)
  PROVE  TypeInv'
<1>1. /\ u \in Req /\ GraphTypeOK' /\ DOMAIN vertices' = DOMAIN vertices
      /\ RequestInv /\ AnswerInv /\ FileTypeOK
  BY Same DEF Send, SendExtra, TypeInv, Req
<1>2. FileTypeOK'
  BY <1>1, AppendType, Same DEF Send, SendExtra
<1>3. ASSUME Works \/ Fails, NEW code \in {201, 500}, Reply(u, code)
      PROVE  RequestInv' /\ AnswerInv'
  BY <1>1, <1>3, Replies
<1>4. ASSUME Works \/ Fails, pc[u] = "send", StartTree(u) PROVE RequestInv' /\ AnswerInv'
  BY <1>1, <1>4, StartTreeMoves
<1>5. ASSUME Works \/ Fails, pc[u] = "send", slice[u] # Total - 1, NextSlice(u)
      PROVE  RequestInv' /\ AnswerInv'
  BY <1>1, <1>5, NextSliceMoves
<1> QED BY <1>1, <1>2, <1>3, <1>4, <1>5 DEF Send, SendExtra, Throw, TypeInv

\* A request arrives.
LEMMA StartType ==
  ASSUME TypeInv, NEW r \in Req, Start(r)
  PROVE  TypeInv'
<1>1. /\ GraphTypeOK' /\ FileTypeOK' /\ vertices' = vertices
      /\ RequestInv /\ AnswerInv /\ pc[r] = "new" /\ loc[r] \in Locals
      /\ {loc[r].at, loc[r].node} \subseteq {NoRid} \cup DOMAIN vertices
  BY Same DEF Start, TypeInv, RequestInv, RequestTypeOK
<1>2. PICK s \in {"send", "root"}, l \in Locals :
        /\ pc' = [pc EXCEPT ![r] = s] /\ loc' = [loc EXCEPT ![r] = l]
        /\ UNCHANGED <<slice, status, faults, crashes>>
        /\ l.at = loc[r].at /\ l.node = loc[r].node
        /\ l.path # <<>> /\ (s = "root" => l.todo # <<>>)
  <2>1. CASE r \in Uploads
    <3>1. PICK p \in Folders, v \in VideoNames :
            loc' = [loc EXCEPT ![r].path = p, ![r].name = v]
      BY <2>1, Requests DEF Start
    <3>2. p \in Seq(STRING) /\ p # <<>> /\ v \in STRING
      BY Inputs, Zenon
    <3> DEFINE l == [loc[r] EXCEPT !.path = p, !.name = v]
    <3>3. /\ l \in Locals /\ l.at = loc[r].at /\ l.node = loc[r].node /\ l.path = p
          /\ loc' = [loc EXCEPT ![r] = l]
      BY <1>1, <3>1, <3>2 DEF Locals, RequestInv, RequestTypeOK
    <3>4. pc' = [pc EXCEPT ![r] = "send"] /\ UNCHANGED <<slice, status, faults, crashes>>
      BY <2>1, Requests DEF Start, Goto, envVars
    <3> HIDE DEF l
    <3> QED BY <3>2, <3>3, <3>4
  <2>2. CASE r \notin Uploads
    <3>1. PICK p \in DeletePaths \cup GetPaths : loc' = [loc EXCEPT ![r].path = p, ![r].todo = <<Head(p)>>]
      BY <2>2 DEF Start
    <3>2. p \in Seq(STRING) /\ p # <<>>
      BY Inputs, Zenon
    <3>3. <<Head(p)>> \in Seq(STRING) /\ <<Head(p)>> # <<>>
      BY <3>2, HeadTailProperties
    <3> DEFINE l == [loc[r] EXCEPT !.path = p, !.todo = <<Head(p)>>]
    <3>4. /\ l \in Locals /\ l.at = loc[r].at /\ l.node = loc[r].node /\ l.path = p
          /\ l.todo = <<Head(p)>> /\ loc' = [loc EXCEPT ![r] = l]
      BY <1>1, <3>1, <3>2, <3>3 DEF Locals, RequestInv, RequestTypeOK
    <3>5. pc' = [pc EXCEPT ![r] = "root"] /\ UNCHANGED <<slice, status, faults, crashes>>
      BY <2>2 DEF Start, Goto, envVars
    <3> HIDE DEF l
    <3> QED BY <3>2, <3>3, <3>4, <3>5
  <2> QED BY <2>1, <2>2
<1>3. RequestTypeOK'
  BY <1>1, <1>2 DEF RequestInv, RequestTypeOK, Steps
<1>4. ASSUME NEW q \in Req PROVE Walking(q)'
  BY <1>1, <1>2 DEF RequestInv, RequestTypeOK, Walking
<1>5. AnswerInv'
  BY <1>1, <1>2 DEF AnswerInv, AnswerTypeOK, RequestInv, RequestTypeOK, Sending, Req
<1> QED BY <1>1, <1>3, <1>4, <1>5 DEF TypeInv, RequestInv

LEMMA StartWithoutPathType ==
  ASSUME TypeInv, NEW u \in Uploads, StartWithoutPath(u)
  PROVE  TypeInv'
<1>1. /\ u \in Req /\ GraphTypeOK' /\ FileTypeOK' /\ DOMAIN vertices' = DOMAIN vertices
      /\ RequestInv /\ AnswerInv /\ Works /\ Throw(u)
  BY Same DEF StartWithoutPath, TypeInv, Req, Works
<1> QED BY <1>1, Replies DEF Throw, TypeInv

LEMMA CrashType ==
  ASSUME TypeInv, Crash
  PROVE  TypeInv'
<1>1. /\ GraphTypeOK' /\ FileTypeOK' /\ vertices' = vertices
      /\ RequestInv /\ AnswerInv
  BY Same DEF Crash, TypeInv
<1>2. RequestTypeOK'
  BY <1>1 DEF RequestInv, RequestTypeOK, Crash, Steps
<1>3. ASSUME NEW q \in Req PROVE Walking(q)'
  BY <1>1, <1>3 DEF RequestInv, RequestTypeOK, Walking, Crash, Active
<1>4. AnswerInv'
  BY <1>1 DEF AnswerInv, AnswerTypeOK, RequestInv, RequestTypeOK, Sending, Crash, Active, Req
<1> QED BY <1>1, <1>2, <1>3, <1>4 DEF TypeInv, RequestInv

\* The database the requests find.
LEMMA StoredType ==
  ASSUME StoredGraph
  PROVE  /\ GraphTypeOK
         /\ removed = {}
         /\ Stored = <<>> => edges = {}
         /\ Stored # <<>> => edges = {<<n, n + 1>> : n \in 1 .. Len(Stored)}
<1>1. Stored \in Seq(STRING) /\ Len(Stored) \in Nat
  <2>1. Stored \in Seq(STRING)
    BY Inputs, Zenon
  <2> QED BY <2>1, LenProperties
<1>2. CASE Stored = <<>>
  <2>1. <<>> \in Seq(Record)
    BY EmptySeq
  <2> QED BY <1>2, <2>1 DEF StoredGraph, GraphInit, GraphTypeOK
<1>3. CASE Stored # <<>>
  <2>1. \A n \in 1 .. Len(Stored) + 1 :
          Directory(IF n = 1 THEN RootName ELSE Stored[n - 1]) \in Record
    <3> SUFFICES ASSUME NEW n \in 1 .. Len(Stored) + 1
                 PROVE  (IF n = 1 THEN RootName ELSE Stored[n - 1]) \in STRING
      BY RecordType
    <3>1. CASE n = 1
      BY <3>1, RecordType
    <3>2. CASE n # 1
      BY <1>1, <3>2, n - 1 \in 1 .. Len(Stored), ElementOfSeq
    <3> QED BY <3>1, <3>2
  <2>2. vertices \in Seq(Record) /\ DOMAIN vertices = 1 .. Len(Stored) + 1
    BY <1>1, <1>3, <2>1 DEF StoredGraph
  <2>3. edges \subseteq (DOMAIN vertices) \X (DOMAIN vertices)
    BY <1>1, <1>3, <2>2 DEF StoredGraph
  <2> QED BY <1>3, <2>2, <2>3 DEF StoredGraph, GraphTypeOK
<1> QED BY <1>2, <1>3

LEMMA InitType ==
  ASSUME Init
  PROVE  TypeInv
<1>1. GraphTypeOK
  BY StoredType DEF Init
<1>2. <<>> \in Seq(STRING) /\ <<>> \in Seq(0 .. Torn) /\ "" \in STRING
  BY EmptySeq, Inputs
<1>3. FileTypeOK
  BY <1>2 DEF Init, FileTypeOK
<1>4. NewLocals \in Locals /\ NewLocals.at = NoRid /\ NewLocals.node = NoRid
  BY <1>2 DEF NewLocals, Locals, NoRid
<1>5. RequestInv
  BY <1>4 DEF Init, RequestInv, RequestTypeOK, Walking, Steps
<1>6. AnswerInv
  BY TotalType DEF Init, AnswerInv, AnswerTypeOK, Sending
<1> QED BY <1>1, <1>3, <1>5, <1>6 DEF TypeInv

LEMMA NextType ==
  ASSUME TypeInv, [Next]_vars
  PROVE  TypeInv'
<1>1. ASSUME NEW r \in Req, Start(r) \/ Tree(r) PROVE TypeInv'
  BY <1>1, StartType, GetRootType, CreateRootType, CheckSonType, MakeDirectoryType,
     LinkDirectoryType, FindSonType DEF Tree
<1>2. ASSUME NEW u \in Uploads, Upload(u) PROVE TypeInv'
  BY <1>2, StartWithoutPathType, SendType, CreateVideoType, AttachVideoType DEF Upload
<1>3. ASSUME NEW d \in Deletes, Delete(d) PROVE TypeInv'
  BY <1>3, CheckLeafType, LoadNodeType, BeginRemoveType, DeleteFileType, CommitRemoveType
     DEF Delete
<1>4. ASSUME NEW g \in Gets, Get(g) PROVE TypeInv'
  BY <1>4, GetType
<1>5. CASE Crash
  BY <1>5, CrashType
<1>6. CASE UNCHANGED vars
  BY <1>6 DEF vars, TypeInv, GraphTypeOK, FileTypeOK, RequestInv, RequestTypeOK, AnswerInv,
     AnswerTypeOK, Walking, Sending
<1> QED BY <1>1, <1>2, <1>3, <1>4, <1>5, <1>6 DEF Next, Served

\* Type correctness of every run of the service: each variable keeps its
\* type, and a request only ever holds RIDs that CREATE VERTEX has given.
THEOREM TypeCorrect == Spec => []TypeOK
<1>1. Spec => []TypeInv
  BY InitType, NextType, PTL DEF Spec
<1>2. TypeInv => TypeOK
  BY DEF TypeInv, TypeOK, RequestInv, AnswerInv
<1> QED BY <1>1, <1>2, PTL

(***************************************************************************)
(* The hierarchy.  Forest is inductive together with FreshSons: a son that  *)
(* a request has made and not linked yet has no father, and no other        *)
(* request is about to link it.                                             *)
(***************************************************************************)
Pending(r) ==
  \/ pc[r] = "link"
  \/ /\ r \in Uploads
     /\ \/ pc[r] \in {"son", "attach"}
        \/ pc[r] \in {"root", "rootMake"} /\ loc[r].phase = "path"

FreshSons ==
  /\ \A r \in Req : Pending(r) =>
       /\ loc[r].node \in DOMAIN vertices
       /\ \A e \in edges : e[2] # loc[r].node
  /\ \A r, q \in Req : Pending(r) /\ Pending(q) /\ loc[r].node = loc[q].node => r = q

GraphInv == TypeInv /\ Forest /\ FreshSons

\* A step of r that makes no new son.
Only(r) == \A q \in Req \ {r} : pc'[q] = pc[q] /\ loc'[q] = loc[q]

Keeps(r) ==
  /\ Only(r)
  /\ Pending(r)' => Pending(r) /\ loc'[r].node = loc[r].node

LEMMA KeepsFresh ==
  ASSUME FreshSons, NEW r \in Req, Keeps(r), edges' \subseteq edges,
         DOMAIN vertices \subseteq DOMAIN vertices'
  PROVE  FreshSons'
<1>1. ASSUME NEW q \in Req, Pending(q)'
      PROVE  Pending(q) /\ loc'[q].node = loc[q].node
  BY <1>1 DEF Keeps, Only, Pending
<1> QED BY <1>1 DEF FreshSons

\* No edge changes: the forest grows by single vertices at most.
LEMMA SameForest ==
  ASSUME Forest, GraphTypeOK, UNCHANGED <<removed, edges>>,
         DOMAIN vertices \subseteq DOMAIN vertices'
  PROVE  Forest'
BY DEF Forest, Live

\* Steps that answer.
LEMMA ReplyKeeps ==
  ASSUME RequestTypeOK, NEW r \in Req, NEW code, Reply(r, code)
  PROVE  Keeps(r)
BY DEF RequestTypeOK, Reply, Keeps, Only, Pending


\* Only a new local node or a step that links can make a request pending.
LEMMA LocalsKept ==
  ASSUME RequestTypeOK, NEW r \in Req
  PROVE  /\ loc[r] \in Locals
         /\ loc' = loc => \A q \in Req : loc'[q] = loc[q]
         /\ \A n : loc' = [loc EXCEPT ![r].at = n] =>
              /\ loc'[r].node = loc[r].node /\ loc'[r].phase = loc[r].phase
              /\ \A q \in Req \ {r} : loc'[q] = loc[q]
         /\ \A n : Enter(r, n) =>
              /\ loc'[r].node = loc[r].node /\ loc'[r].phase = loc[r].phase
              /\ \A q \in Req \ {r} : loc'[q] = loc[q]
         /\ \A s : Goto(r, s) => pc'[r] = s /\ \A q \in Req \ {r} : pc'[q] = pc[q]
<1>1. loc \in [Req -> Locals] /\ pc \in [Req -> Steps]
  BY DEF RequestTypeOK
<1>2. ASSUME NEW n, loc' = [loc EXCEPT ![r].at = n]
      PROVE  /\ loc'[r].node = loc[r].node /\ loc'[r].phase = loc[r].phase
             /\ \A q \in Req \ {r} : loc'[q] = loc[q]
  BY <1>1, <1>2 DEF Locals
<1>3. ASSUME NEW n, Enter(r, n)
      PROVE  /\ loc'[r].node = loc[r].node /\ loc'[r].phase = loc[r].phase
             /\ \A q \in Req \ {r} : loc'[q] = loc[q]
  BY <1>1, <1>3 DEF Locals, Enter
<1>4. ASSUME NEW s, Goto(r, s)
      PROVE  pc'[r] = s /\ \A q \in Req \ {r} : pc'[q] = pc[q]
  BY <1>1, <1>4 DEF Goto
<1> QED BY <1>1, <1>2, <1>3, <1>4

LEMMA LookUpKeeps ==
  ASSUME RequestTypeOK, NEW r \in Req \ Uploads, LookUp(r)
  PROVE  Keeps(r)
<1>1. Only(r) /\ pc'[r] = "root"
  BY DEF LookUp, Goto, RequestTypeOK, Only
<1> QED BY <1>1 DEF Keeps, Pending

LEMMA TreeKeeps ==
  ASSUME RequestTypeOK, NEW r \in Req, TreeDone(r) \/ TreeFailed(r)
  PROVE  Keeps(r) /\ ~Pending(r)'
<1>1. CASE r \in Uploads
  <2>1. Goto(r, "video") /\ UNCHANGED loc
    BY <1>1 DEF TreeDone, TreeFailed
  <2> QED BY <2>1, LocalsKept DEF Keeps, Only, Pending
<1>2. CASE r \notin Uploads
  <2>1. CASE LookUp(r)
    <3>1. pc'[r] = "root"
      BY <2>1, LocalsKept DEF LookUp
    <3> QED BY <1>2, <2>1, <3>1, LookUpKeeps DEF Pending
  <2>2. CASE Throw(r)
    BY <2>2, ReplyKeeps DEF Throw, Reply, RequestTypeOK, Pending
  <2> QED BY <1>2, <2>1, <2>2 DEF TreeDone, TreeFailed
<1> QED BY <1>1, <1>2

LEMMA HaveRootKeeps ==
  ASSUME RequestTypeOK, NEW r \in Req, pc[r] \in {"root", "rootMake"},
         NEW n, HaveRoot(r, n)
  PROVE  Keeps(r)
<1>1. /\ Only(r) /\ loc'[r].node = loc[r].node
      /\ pc'[r] = IF loc[r].phase = "tree" THEN "check" ELSE "son"
  BY LocalsKept DEF HaveRoot, Only
<1>2. loc[r].phase \in {"tree", "path"}
  BY DEF RequestTypeOK, Locals
<1> QED BY <1>1, <1>2 DEF Keeps, Pending

\* The actions that make no vertex and no edge.
LEMMA QuietKeeps ==
  ASSUME TypeInv, NEW r \in Req,
         \/ Start(r) \/ GetRoot(r) \/ CheckSon(r) \/ FindSon(r)
         \/ r \in Uploads /\ (StartWithoutPath(r) \/ Send(r) \/ SendExtra(r))
         \/ r \in Deletes /\ (CheckLeaf(r) \/ LoadNode(r) \/ BeginRemove(r) \/ DeleteFile(r))
         \/ r \in Gets /\ Get(r)
  PROVE  Keeps(r) /\ UNCHANGED <<vertices, removed, edges>>
<1>1. RequestTypeOK
  BY DEF TypeInv, RequestInv
<1>2. CASE Start(r)
  <2>1. Only(r) /\ (r \in Uploads => pc'[r] = "send") /\ (r \notin Uploads => pc'[r] = "root")
    BY <1>1, <1>2, Requests DEF Start, Goto, RequestTypeOK, Only
  <2> QED BY <1>2, <2>1 DEF Start, Keeps, Pending, graphVars
<1>3. CASE GetRoot(r)
  <2>1. ASSUME Goto(r, "rootMake"), UNCHANGED loc, pc[r] = "root" PROVE Keeps(r)
    BY <1>1, <2>1, LocalsKept DEF Keeps, Only, Pending
  <2> QED BY <1>1, <1>3, <2>1, HaveRootKeeps DEF GetRoot, graphVars
<1>4. CASE CheckSon(r)
  <2>1. ASSUME Goto(r, "make"), UNCHANGED loc PROVE Keeps(r)
    BY <1>1, <2>1, LocalsKept DEF Keeps, Only, Pending
  <2>2. ASSUME NEW n, Enter(r, n), Goto(r, "check") PROVE Keeps(r)
    BY <1>1, <2>2, LocalsKept DEF Keeps, Only, Pending
  <2> QED BY <1>1, <1>4, <2>1, <2>2, TreeKeeps DEF CheckSon, graphVars
<1>5. CASE FindSon(r)
  <2>1. ASSUME NEW n, NEW s \in {"son", "attach", "leaf", "read", "list"},
               Enter(r, n), Goto(r, s), pc[r] = "son" PROVE Keeps(r)
    BY <1>1, <2>1, LocalsKept DEF Keeps, Only, Pending
  <2>2. \A n : AfterLookUp(r, n) \in {"son", "attach", "leaf", "read", "list"}
    BY Requests DEF AfterLookUp, Req
  <2> QED BY <1>1, <1>5, <2>1, <2>2, ReplyKeeps DEF FindSon, LookUpFailed, graphVars
<1>6. CASE r \in Uploads /\ (StartWithoutPath(r) \/ Send(r) \/ SendExtra(r))
  <2>1. ASSUME StartTree(r) PROVE Keeps(r)
    <3>1. Only(r) /\ pc'[r] = "root" /\ loc'[r].phase = "tree"
      BY <1>1, <2>1 DEF StartTree, RequestTypeOK, Only, Locals
    <3> QED BY <3>1 DEF Keeps, Pending
  <2>2. ASSUME NextSlice(r) PROVE Keeps(r)
    BY <2>2 DEF NextSlice, Keeps, Only, Pending
  <2> QED BY <1>1, <1>6, <2>1, <2>2, ReplyKeeps
          DEF StartWithoutPath, Send, SendExtra, Throw, graphVars
<1>7. CASE r \in Deletes /\ (CheckLeaf(r) \/ LoadNode(r) \/ BeginRemove(r) \/ DeleteFile(r))
  <2>1. ASSUME r \in Deletes, NEW s \in {"load", "remove", "unlink", "commit"}, Goto(r, s),
               \A q \in Req \ {r} : loc'[q] = loc[q]
        PROVE  Keeps(r)
    BY <1>1, <2>1, LocalsKept DEF Keeps, Only, Pending
  <2>2. CASE CheckLeaf(r)
    BY <1>1, <1>7, <2>1, <2>2, ReplyKeeps DEF CheckLeaf, graphVars
  <2>3. CASE LoadNode(r)
    BY <1>1, <1>7, <2>1, <2>3, ReplyKeeps DEF LoadNode, RequestTypeOK, graphVars
  <2>4. CASE BeginRemove(r)
    BY <1>1, <1>7, <2>1, <2>4, ReplyKeeps DEF BeginRemove, RequestTypeOK, graphVars
  <2>5. CASE DeleteFile(r)
    BY <1>1, <1>7, <2>1, <2>5, ReplyKeeps DEF DeleteFile, graphVars
  <2> QED BY <1>7, <2>2, <2>3, <2>4, <2>5
<1>8. CASE r \in Gets /\ Get(r)
  BY <1>1, <1>8, ReplyKeeps DEF Get, ListDirectory, ReadSlice, Throw, graphVars
<1> QED BY <1>2, <1>3, <1>4, <1>5, <1>6, <1>7, <1>8

\* What a step may do to the graph.
LEMMA NothingMade ==
  ASSUME GraphInv, NEW r \in Req, Keeps(r), UNCHANGED <<removed, edges>>,
         DOMAIN vertices \subseteq DOMAIN vertices'
  PROVE  Forest' /\ FreshSons'
BY KeepsFresh, SameForest DEF GraphInv, TypeInv

LEMMA SonMade ==
  ASSUME GraphInv, NEW r \in Req, NEW v \in Record, CreateVertex(v),
         Only(r), loc'[r].node = NewRid
  PROVE  Forest' /\ FreshSons'
<1>1. /\ DOMAIN vertices' = DOMAIN vertices \cup {NewRid} /\ NewRid \notin DOMAIN vertices
      /\ removed' = removed /\ edges' = edges
      /\ edges \subseteq (DOMAIN vertices) \X (DOMAIN vertices)
  BY NewVertex DEF GraphInv, TypeInv, GraphTypeOK
<1>2. Forest'
  BY <1>1, SameForest DEF GraphInv, TypeInv
<1>3. \A q \in Req \ {r} : Pending(q)' => Pending(q) /\ loc'[q].node = loc[q].node
  BY DEF Only, Pending
<1>4. \A q \in Req : Pending(q) => loc[q].node \in DOMAIN vertices
  BY DEF GraphInv, FreshSons
<1>5. ASSUME NEW q \in Req, Pending(q)'
      PROVE  loc'[q].node \in DOMAIN vertices' /\ \A e \in edges' : e[2] # loc'[q].node
  <2>1. CASE q = r BY <1>1, <2>1
  <2>2. CASE q # r BY <1>1, <1>3, <1>5, <2>2 DEF GraphInv, FreshSons
  <2> QED BY <2>1, <2>2
<1>6. ASSUME NEW p \in Req, NEW q \in Req, Pending(p)', Pending(q)', loc'[p].node = loc'[q].node
      PROVE  p = q
  BY <1>1, <1>3, <1>4, <1>6 DEF GraphInv, FreshSons
<1> QED BY <1>2, <1>5, <1>6 DEF FreshSons

LEMMA SonLinked ==
  ASSUME GraphInv, NEW r \in Req, Pending(r), NEW f, CreateEdge(f, loc[r].node),
         Keeps(r), ~Pending(r)'
  PROVE  Forest' /\ FreshSons'
<1>1. /\ vertices' = vertices /\ removed' = removed /\ Live' = Live
      /\ edges' = edges \cup {<<f, loc[r].node>>}
      /\ f \in Live /\ loc[r].node \in Live
  BY NewEdge DEF GraphInv, TypeInv, Live
<1>2. \A e \in edges : e[2] # loc[r].node
  BY DEF GraphInv, FreshSons
<1>3. Forest'
  BY <1>1, <1>2 DEF Forest, GraphInv
<1>4. ASSUME NEW q \in Req, Pending(q)'
      PROVE  Pending(q) /\ loc'[q].node = loc[q].node /\ q # r
  BY <1>4 DEF Keeps, Only, Pending
<1>5. \A q \in Req : Pending(q) /\ q # r => loc[q].node # loc[r].node
  BY DEF GraphInv, FreshSons
<1> QED BY <1>1, <1>3, <1>4, <1>5 DEF FreshSons, GraphInv

LEMMA CreateRootGraph ==
  ASSUME GraphInv, NEW r \in Req, CreateRoot(r)
  PROVE  Forest' /\ FreshSons'
<1>1. GraphTypeOK /\ RequestTypeOK
  BY DEF GraphInv, TypeInv, RequestInv
<1>2. /\ UNCHANGED <<removed, edges>> /\ DOMAIN vertices \subseteq DOMAIN vertices'
  BY <1>1, RecordType, NewVertex DEF CreateRoot, graphVars
<1>3. Keeps(r)
  BY <1>1, HaveRootKeeps, ReplyKeeps DEF CreateRoot, Throw
<1> QED BY <1>2, <1>3, NothingMade

LEMMA MakeDirectoryGraph ==
  ASSUME GraphInv, NEW r \in Req, MakeDirectory(r)
  PROVE  Forest' /\ FreshSons'
<1>1. /\ GraphTypeOK /\ RequestTypeOK /\ pc[r] = "make" /\ loc[r] \in Locals
      /\ loc[r].todo # <<>>
  BY DEF GraphInv, TypeInv, RequestInv, RequestTypeOK, Walking, MakeDirectory
<1>2. Directory(Head(loc[r].todo)) \in Record
  BY <1>1, HeadTailProperties, RecordType DEF Locals
<1>3. CASE /\ CreateVertex(Directory(Head(loc[r].todo)))
           /\ loc' = [loc EXCEPT ![r].node = NewRid] /\ Goto(r, "link")
  <2>1. Only(r) /\ loc'[r].node = NewRid
    BY <1>1, <1>3 DEF Only, Goto, RequestTypeOK, Locals
  <2> QED BY <1>2, <1>3, <2>1, SonMade
<1>4. CASE /\ CreateVertex(Directory(Head(loc[r].todo))) \/ UNCHANGED graphVars
           /\ TreeFailed(r)
  <2>1. UNCHANGED <<removed, edges>> /\ DOMAIN vertices \subseteq DOMAIN vertices'
    BY <1>1, <1>2, <1>4, NewVertex DEF graphVars
  <2> QED BY <1>1, <1>4, <2>1, TreeKeeps, NothingMade
<1> QED BY <1>3, <1>4 DEF MakeDirectory

LEMMA LinkDirectoryGraph ==
  ASSUME GraphInv, NEW r \in Req, LinkDirectory(r)
  PROVE  Forest' /\ FreshSons'
<1>1. RequestTypeOK /\ pc[r] = "link" /\ Pending(r)
  BY DEF GraphInv, TypeInv, RequestInv, LinkDirectory, Pending
<1>2. Keeps(r) /\ ~Pending(r)'
  <2>1. ASSUME NEW n, Enter(r, n), Goto(r, "check") PROVE Keeps(r) /\ ~Pending(r)'
    BY <1>1, <2>1, LocalsKept DEF Keeps, Only, Pending
  <2> QED BY <1>1, <2>1, TreeKeeps DEF LinkDirectory
<1>3. CASE CreateEdge(loc[r].at, loc[r].node)
  BY <1>1, <1>2, <1>3, SonLinked
<1>4. CASE UNCHANGED graphVars
  BY <1>2, <1>4, NothingMade DEF graphVars
<1> QED BY <1>3, <1>4 DEF LinkDirectory

LEMMA CreateVideoGraph ==
  ASSUME GraphInv, NEW u \in Uploads, CreateVideo(u)
  PROVE  Forest' /\ FreshSons'
<1>1. /\ GraphTypeOK /\ RequestTypeOK /\ loc[u] \in Locals /\ u \in Req
  BY DEF GraphInv, TypeInv, RequestInv, RequestTypeOK, Req
<1>2. Video(loc[u].name, u) \in Record
  BY <1>1, RecordType DEF Locals
<1>3. CASE /\ CreateVertex(Video(loc[u].name, u)) /\ Goto(u, "root")
           /\ loc' = [loc EXCEPT ![u].node = NewRid, ![u].phase = "path",
                                 ![u].todo = loc[u].path, ![u].at = NoRid]
  <2>1. Only(u) /\ loc'[u].node = NewRid
    BY <1>1, <1>3 DEF Only, Goto, RequestTypeOK, Locals
  <2> QED BY <1>1, <1>2, <1>3, <2>1, SonMade
<1>4. CASE /\ CreateVertex(Video(loc[u].name, u)) \/ UNCHANGED graphVars
           /\ Reply(u, 500)
  <2>1. UNCHANGED <<removed, edges>> /\ DOMAIN vertices \subseteq DOMAIN vertices'
    BY <1>1, <1>2, <1>4, NewVertex DEF graphVars
  <2> QED BY <1>1, <1>4, <2>1, ReplyKeeps, NothingMade
<1> QED BY <1>3, <1>4 DEF CreateVideo

LEMMA AttachVideoGraph ==
  ASSUME GraphInv, NEW u \in Uploads, AttachVideo(u)
  PROVE  Forest' /\ FreshSons'
<1>1. u \in Req /\ RequestTypeOK /\ pc[u] = "attach" /\ Pending(u)
  BY DEF GraphInv, TypeInv, RequestInv, AttachVideo, Pending, Req
<1>2. Keeps(u) /\ ~Pending(u)'
  BY <1>1 DEF AttachVideo, AnswerUpload, Reply, RequestTypeOK, Keeps, Only, Pending
<1>3. CASE CreateEdge(loc[u].at, loc[u].node)
  BY <1>1, <1>2, <1>3, SonLinked
<1>4. CASE UNCHANGED graphVars
  BY <1>1, <1>2, <1>4, NothingMade DEF graphVars
<1> QED BY <1>3, <1>4 DEF AttachVideo

LEMMA CommitRemoveGraph ==
  ASSUME GraphInv, NEW d \in Deletes, CommitRemove(d)
  PROVE  Forest' /\ FreshSons'
<1>1. d \in Req /\ RequestTypeOK /\ GraphTypeOK
  BY DEF GraphInv, TypeInv, RequestInv, Req
<1>2. Keeps(d)
  BY <1>1, ReplyKeeps DEF CommitRemove
<1>3. CASE RemoveVertex(loc[d].at)
  <2>1. Forest'
    BY <1>3 DEF RemoveVertex, Forest, Live, GraphInv
  <2>2. edges' \subseteq edges /\ vertices' = vertices
    BY <1>3 DEF RemoveVertex
  <2> QED BY <1>1, <1>2, <2>1, <2>2, KeepsFresh DEF GraphInv
<1>4. CASE UNCHANGED graphVars
  BY <1>1, <1>2, <1>4, NothingMade DEF graphVars
<1> QED BY <1>3, <1>4 DEF CommitRemove

LEMMA CrashGraph ==
  ASSUME GraphInv, Crash
  PROVE  Forest' /\ FreshSons'
<1>1. /\ vertices' = vertices /\ removed' = removed /\ edges' = edges
      /\ \A q \in Req : Pending(q)' => Pending(q) /\ loc'[q].node = loc[q].node
  BY DEF Crash, graphVars, Pending, GraphInv, TypeInv, RequestInv, RequestTypeOK
<1> QED BY <1>1 DEF GraphInv, Forest, Live, FreshSons

LEMMA InitGraph ==
  ASSUME Init
  PROVE  GraphInv
<1>1. TypeInv
  BY InitType
<1>2. Forest
  BY <1>1, StoredType DEF Init, TypeInv, GraphTypeOK, Forest, Live
<1>3. FreshSons
  BY DEF Init, FreshSons, Pending
<1> QED BY <1>1, <1>2, <1>3 DEF GraphInv

LEMMA NextGraph ==
  ASSUME GraphInv, [Next]_vars
  PROVE  GraphInv'
<1>1. TypeInv'
  BY NextType DEF GraphInv
<1>2. ASSUME NEW r \in Req, Start(r) \/ Tree(r) PROVE Forest' /\ FreshSons'
  BY <1>2, QuietKeeps, NothingMade, CreateRootGraph, MakeDirectoryGraph, LinkDirectoryGraph
     DEF Tree, GraphInv
<1>3. ASSUME NEW u \in Uploads, Upload(u) PROVE Forest' /\ FreshSons'
  BY <1>3, QuietKeeps, NothingMade, CreateVideoGraph, AttachVideoGraph DEF Upload, Req, GraphInv
<1>4. ASSUME NEW d \in Deletes, Delete(d) PROVE Forest' /\ FreshSons'
  BY <1>4, QuietKeeps, NothingMade, CommitRemoveGraph DEF Delete, Req, GraphInv
<1>5. ASSUME NEW g \in Gets, Get(g) PROVE Forest' /\ FreshSons'
  BY <1>5, QuietKeeps, NothingMade DEF Req, GraphInv
<1>6. ASSUME Crash PROVE Forest' /\ FreshSons'
  BY <1>6, CrashGraph
<1>7. ASSUME UNCHANGED vars PROVE Forest' /\ FreshSons'
  <2>1. Forest'
    BY <1>7 DEF vars, GraphInv, Forest, Live
  <2>2. FreshSons'
    BY <1>7 DEF vars, GraphInv, FreshSons, Pending
  <2> QED BY <2>1, <2>2
<1> QED BY <1>1, <1>2, <1>3, <1>4, <1>5, <1>6, <1>7 DEF Next, Served, GraphInv

\* The stored hierarchy stays a forest for any number of requests, failures
\* and crashes: a request links only a son it has just made, so no directory
\* or video ever gets a second father, and a removal takes its edges along.
THEOREM GraphIsForest == Spec => []Forest
<1>1. Spec => []GraphInv
  BY InitGraph, NextGraph, PTL DEF Spec
<1>2. GraphInv => Forest
  BY DEF GraphInv
<1> QED BY <1>1, <1>2, PTL
(***************************************************************************)
(* No cycles.  Edges and the links being made lead from a lower to a higher *)
(* rank.  The RIDs are not such ranks: a video is looked up a folder after  *)
(* it was made, and the folder may be younger.  But until a video is        *)
(* attached it has no sons and no request has found it, so that it can be   *)
(* ranked anew, above everything else, when it is.                          *)
(***************************************************************************)
Young(u) == u \in Uploads /\ Pending(u) /\ pc[u] # "link"

YoungVideos ==
  \A u \in Req : Young(u) =>
    /\ IsVideo(loc[u].node)
    /\ \A e \in edges : e[1] # loc[u].node
    /\ \A q \in Req : loc[q].at # loc[u].node

Ranked(R) ==
  /\ \A e \in edges : R[e[1]] < R[e[2]]
  /\ \A r \in Req : pc[r] = "link" /\ loc[r].at \in DOMAIN vertices =>
       R[loc[r].at] < R[loc[r].node]

HaveRanks == \E max \in Nat : \E R \in [DOMAIN vertices -> 0 .. max] : Ranked(R)

CycleInv == GraphInv /\ YoungVideos /\ HaveRanks

\* The vertices a step of r may find.
Found(r, n) ==
  \/ n \in {NoRid, loc[r].at}
  \/ n \in DOMAIN vertices' /\ vertices'[n].class = "Video_Directory"
  \/ \E e \in edges : e[2] = n
  \/ pc[r] = "link" /\ n = loc[r].node

Looks(r) ==
  /\ Keeps(r)
  /\ pc'[r] # "link"
  /\ pc[r] = "link" => ~Pending(r)'
  /\ Found(r, loc'[r].at)

LEMMA ReplyLooks ==
  ASSUME RequestTypeOK, NEW r \in Req, NEW code, Reply(r, code)
  PROVE  Looks(r)
BY ReplyKeeps DEF RequestTypeOK, Reply, Looks, Pending, Found

LEMMA AtKept ==
  ASSUME RequestTypeOK, NEW r \in Req
  PROVE  /\ UNCHANGED loc => loc'[r].at = loc[r].at
         /\ \A n : loc' = [loc EXCEPT ![r].at = n] => loc'[r].at = n
         /\ \A n : Enter(r, n) => loc'[r].at = n
         /\ LookUp(r) => loc'[r].at = NoRid
<1>1. loc \in [Req -> Locals] /\ loc[r] \in Locals
  BY DEF RequestTypeOK
<1>2. ASSUME NEW n, loc' = [loc EXCEPT ![r].at = n] PROVE loc'[r].at = n
  BY <1>1, <1>2 DEF Locals
<1>3. ASSUME NEW n, Enter(r, n) PROVE loc'[r].at = n
  BY <1>1, <1>3 DEF Locals, Enter
<1>4. ASSUME LookUp(r) PROVE loc'[r].at = NoRid
  BY <1>1, <1>4 DEF Locals, LookUp
<1> QED BY <1>2, <1>3, <1>4

LEMMA TreeLooks ==
  ASSUME RequestTypeOK, NEW r \in Req, TreeDone(r) \/ TreeFailed(r)
  PROVE  Looks(r)
<1>1. Keeps(r) /\ ~Pending(r)'
  BY TreeKeeps
<1>2. CASE Throw(r)
  BY <1>2, ReplyLooks DEF Throw
<1>3. CASE (Goto(r, "video") /\ UNCHANGED loc) \/ LookUp(r)
  <2>1. pc'[r] \in {"video", "root"}
    BY <1>3, LocalsKept DEF LookUp
  <2> QED BY <1>1, <1>3, <2>1, AtKept DEF Looks, Found
<1> QED BY <1>2, <1>3 DEF TreeDone, TreeFailed

LEMMA QuietLooks ==
  ASSUME TypeInv, NEW r \in Req,
         \/ Start(r) \/ GetRoot(r) \/ CheckSon(r) \/ FindSon(r)
         \/ r \in Uploads /\ (StartWithoutPath(r) \/ Send(r) \/ SendExtra(r))
         \/ r \in Deletes /\ (CheckLeaf(r) \/ LoadNode(r) \/ BeginRemove(r) \/ DeleteFile(r))
         \/ r \in Gets /\ Get(r)
  PROVE  Looks(r)
<1>1. /\ RequestTypeOK /\ Keeps(r) /\ UNCHANGED <<vertices, removed, edges>>
      /\ loc \in [Req -> Locals] /\ loc[r] \in Locals
  BY QuietKeeps DEF TypeInv, RequestInv, RequestTypeOK
<1>2. pc[r] # "link"
  BY DEF Start, GetRoot, CheckSon, FindSon, StartWithoutPath, Send, SendExtra, CheckLeaf,
         LoadNode, BeginRemove, DeleteFile, Get, ListDirectory, ReadSlice
<1>3. \A s : Goto(r, s) => pc'[r] = s
  BY <1>1, LocalsKept
<1>4. ASSUME NEW s \in Steps \ {"link"}, Goto(r, s), loc'[r].at = loc[r].at PROVE Looks(r)
  BY <1>1, <1>2, <1>3, <1>4 DEF Looks, Found
<1>5. ASSUME NEW s \in Steps \ {"link"}, NEW n, Goto(r, s), Enter(r, n),
             n \in Out(loc[r].at) PROVE Looks(r)
  <2>1. \E e \in edges : e[2] = n
    BY <1>5 DEF Out
  <2> QED BY <1>1, <1>2, <1>3, <1>5, <2>1, AtKept DEF Looks, Found
<1>6. CASE Start(r)
  <2>1. loc'[r].at = loc[r].at
    <3>1. \/ \E p, v : loc' = [loc EXCEPT ![r].path = p, ![r].name = v]
          \/ \E p, t : loc' = [loc EXCEPT ![r].path = p, ![r].todo = t]
      BY <1>6 DEF Start
    <3>2. ASSUME NEW p, NEW v, loc' = [loc EXCEPT ![r].path = p, ![r].name = v]
          PROVE  loc'[r].at = loc[r].at
      BY <1>1, <3>2 DEF Locals
    <3>3. ASSUME NEW p, NEW t, loc' = [loc EXCEPT ![r].path = p, ![r].todo = t]
          PROVE  loc'[r].at = loc[r].at
      BY <1>1, <3>3 DEF Locals
    <3> QED BY <3>1, <3>2, <3>3
  <2>2. Goto(r, "send") \/ Goto(r, "root")
    BY <1>6 DEF Start
  <2>3. pc'[r] \in {"send", "root"}
    BY <1>3, <2>2
  <2> QED BY <1>1, <1>2, <2>1, <2>3 DEF Looks, Found
<1>7. CASE GetRoot(r)
  <2>1. ASSUME NEW n \in RootCandidates, HaveRoot(r, n) PROVE Looks(r)
    <3>1. loc'[r].at = n /\ pc'[r] \in {"check", "son"}
      BY <1>1, <1>3, <2>1, AtKept DEF HaveRoot
    <3>2. n \in DOMAIN vertices' /\ vertices'[n].class = "Video_Directory"
      BY <1>1 DEF RootCandidates, IsDirectory, Live
    <3> QED BY <1>1, <1>2, <3>1, <3>2 DEF Looks, Found
  <2> QED BY <1>4, <1>7, <2>1 DEF GetRoot, Steps
<1>8. CASE CheckSon(r)
  <2>1. \A n \in SonsByName(loc[r].at, Head(loc[r].todo)) : n \in Out(loc[r].at)
    BY DEF SonsByName
  <2> QED BY <1>1, <1>4, <1>5, <1>8, <2>1, TreeLooks DEF CheckSon, Steps
<1>9. CASE FindSon(r)
  <2>1. \A n \in SonsByName(loc[r].at, Head(loc[r].todo)) : n \in Out(loc[r].at)
    BY DEF SonsByName
  <2>2. \A n : AfterLookUp(r, n) \in Steps \ {"link"} /\ "son" \in Steps \ {"link"}
    BY Requests DEF AfterLookUp, Req, Steps
  <2> QED BY <1>1, <1>5, <1>9, <2>1, <2>2, ReplyLooks DEF FindSon, LookUpFailed
<1>10. CASE r \in Uploads /\ (StartWithoutPath(r) \/ Send(r) \/ SendExtra(r))
  <2>1. ASSUME StartTree(r) PROVE Looks(r)
    <3>1. loc'[r].at = loc[r].at /\ pc'[r] = "root"
      BY <1>1, <2>1 DEF StartTree, RequestTypeOK, Locals
    <3> QED BY <1>1, <1>2, <3>1 DEF Looks, Found
  <2>2. ASSUME NextSlice(r) PROVE Looks(r)
    BY <1>1, <1>2, <2>2 DEF NextSlice, Looks, Found
  <2> QED BY <1>1, <1>10, <2>1, <2>2, ReplyLooks DEF StartWithoutPath, Send, SendExtra, Throw
<1>11. CASE r \in Deletes /\ (CheckLeaf(r) \/ LoadNode(r) \/ BeginRemove(r) \/ DeleteFile(r))
  <2>1. CASE CheckLeaf(r)
    BY <1>1, <1>4, <2>1, ReplyLooks DEF CheckLeaf, Steps
  <2>2. CASE LoadNode(r)
    <3>1. \A f : loc' = [loc EXCEPT ![r].file = f] => loc'[r].at = loc[r].at
      BY <1>1 DEF Locals
    <3> QED BY <1>1, <1>4, <2>2, <3>1, ReplyLooks DEF LoadNode, Steps
  <2>3. CASE BeginRemove(r)
    <3>1. \A f : loc' = [loc EXCEPT ![r].seen = f] => loc'[r].at = loc[r].at
      BY <1>1 DEF Locals
    <3> QED BY <1>1, <1>4, <2>3, <3>1, ReplyLooks DEF BeginRemove, Steps
  <2>4. CASE DeleteFile(r)
    BY <1>1, <1>4, <2>4, ReplyLooks DEF DeleteFile, Steps
  <2> QED BY <1>11, <2>1, <2>2, <2>3, <2>4
<1>12. CASE r \in Gets /\ Get(r)
  BY <1>1, <1>12, ReplyLooks DEF Get, ListDirectory, ReadSlice, Throw
<1> QED BY <1>6, <1>7, <1>8, <1>9, <1>10, <1>11, <1>12

\* A new vertex is ranked above the others.
LEMMA VertexRanked ==
  ASSUME GraphInv, HaveRanks, NEW v \in Record, CreateVertex(v)
  PROVE  \E max \in Nat : \E R \in [DOMAIN vertices' -> 0 .. max] :
           Ranked(R) /\ \A n \in DOMAIN vertices : R[n] < R[NewRid]
<1>0. PICK max \in Nat : \E R \in [DOMAIN vertices -> 0 .. max] : Ranked(R)
  BY DEF HaveRanks
<1>1. PICK R \in [DOMAIN vertices -> 0 .. max] : Ranked(R)
  BY <1>0
<1> DEFINE Q == [n \in DOMAIN vertices' |-> IF n = NewRid THEN max + 1 ELSE R[n]]
<1>2. DOMAIN vertices' = DOMAIN vertices \cup {NewRid} /\ NewRid \notin DOMAIN vertices
  BY NewVertex DEF GraphInv, TypeInv
<1>3. max + 1 \in Nat /\ Q \in [DOMAIN vertices' -> 0 .. (max + 1)]
  BY <1>2
<1>4. \A n \in DOMAIN vertices : Q[n] = R[n] /\ Q[n] < Q[NewRid]
  BY <1>2
<1>5. \A e \in edges : e[1] \in DOMAIN vertices /\ e[2] \in DOMAIN vertices
  BY DEF GraphInv, TypeInv, GraphTypeOK
<1>6. \A r \in Req : pc[r] = "link" => loc[r].node \in DOMAIN vertices
  BY DEF GraphInv, FreshSons, Pending
<1> HIDE DEF Q
<1>7. Ranked(Q)
  BY <1>1, <1>4, <1>5, <1>6 DEF Ranked
<1> QED BY <1>3, <1>4, <1>7

LEMMA RanksKept ==
  ASSUME CycleInv, NEW r \in Req, Looks(r), edges' \subseteq edges,
         vertices' = vertices \/ \E v \in Record : CreateVertex(v)
  PROVE  HaveRanks'
<1>1. \A q \in Req : pc'[q] = "link" => pc[q] = "link" /\ loc'[q] = loc[q]
  BY DEF Looks, Keeps, Only
<1>2. \A q \in Req : loc[q].at \in DOMAIN vertices' => loc[q].at \in DOMAIN vertices
  <2>1. CASE vertices' = vertices
    BY <2>1
  <2>2. CASE \E v \in Record : CreateVertex(v)
    BY <2>2, NewVertex DEF CycleInv, GraphInv, TypeInv, RequestInv, RequestTypeOK, NoRid
  <2> QED BY <2>1, <2>2
<1>3. \A R : Ranked(R) => Ranked(R)'
  BY <1>1, <1>2 DEF Ranked
<1>4. CASE vertices' = vertices
  BY <1>3, <1>4 DEF HaveRanks, CycleInv
<1>5. CASE \E v \in Record : CreateVertex(v)
  <2>1. \E max \in Nat : \E R \in [DOMAIN vertices' -> 0 .. max] : Ranked(R)
    BY <1>5, VertexRanked DEF CycleInv
  <2> QED BY <1>3, <2>1 DEF HaveRanks
<1> QED BY <1>4, <1>5

\* A young video stays unknown to the other requests.
LEMMA YoungKept ==
  ASSUME CycleInv, NEW r \in Req, Looks(r),
         \A e \in edges' : e \in edges \/ e[1] = loc[r].at,
         vertices' = vertices \/ \E v \in Record : CreateVertex(v)
  PROVE  YoungVideos'
<1>1. /\ GraphTypeOK /\ DOMAIN vertices \subseteq DOMAIN vertices'
      /\ \A n \in DOMAIN vertices : vertices'[n] = vertices[n]
      /\ NoRid \notin DOMAIN vertices
  BY NewVertex DEF CycleInv, GraphInv, TypeInv, GraphTypeOK, NoRid
<1> SUFFICES ASSUME NEW u \in Req, Young(u)'
             PROVE  /\ IsVideo(loc[u].node)'
                    /\ \A e \in edges' : e[1] # loc'[u].node
                    /\ \A q \in Req : loc'[q].at # loc'[u].node
  BY DEF YoungVideos
<1>2. Young(u) /\ loc'[u].node = loc[u].node
  BY DEF Young, Pending, Looks, Keeps, Only
<1>3. /\ IsVideo(loc[u].node) /\ \A e \in edges : e[1] # loc[u].node
      /\ \A q \in Req : loc[q].at # loc[u].node
  BY <1>2 DEF CycleInv, YoungVideos
<1>4. loc[u].node \in DOMAIN vertices /\ \A e \in edges : e[2] # loc[u].node
  BY <1>2 DEF Young, CycleInv, GraphInv, FreshSons
<1>5. pc[r] = "link" => loc[r].node # loc[u].node
  BY <1>2 DEF Young, Pending, CycleInv, GraphInv, FreshSons
<1>6. vertices'[loc[u].node].class = "Video"
  BY <1>1, <1>3, <1>4 DEF IsVideo
<1>7. ~Found(r, loc[u].node)
  BY <1>1, <1>3, <1>4, <1>5, <1>6 DEF Found
<1>8. \A q \in Req : loc'[q].at # loc[u].node
  BY <1>3, <1>7 DEF Looks, Keeps, Only
<1> QED BY <1>2, <1>3, <1>6, <1>8 DEF IsVideo

LEMMA CreateRootRanks ==
  ASSUME CycleInv, NEW r \in Req, CreateRoot(r)
  PROVE  YoungVideos' /\ HaveRanks'
<1>1. /\ GraphTypeOK /\ RequestTypeOK /\ pc[r] = "rootMake"
  BY DEF CycleInv, GraphInv, TypeInv, RequestInv, CreateRoot
<1>2. ASSUME CreateVertex(Directory(RootName)), HaveRoot(r, NewRid) PROVE Looks(r)
  <2>1. /\ NewRid \in DOMAIN vertices' /\ vertices'[NewRid] = Directory(RootName)
    BY <1>1, <1>2, RecordType, NewVertex
  <2>2. loc'[r].at = NewRid /\ pc'[r] \in {"check", "son"}
    <3>1. loc'[r].at = NewRid
      BY <1>1, <1>2, AtKept DEF HaveRoot
    <3>2. Goto(r, "check") \/ Goto(r, "son")
      BY <1>2 DEF HaveRoot
    <3> QED BY <1>1, <3>1, <3>2, LocalsKept
  <2>3. Keeps(r)
    BY <1>1, <1>2, HaveRootKeeps
  <2> QED BY <1>1, <2>1, <2>2, <2>3 DEF Looks, Found, Directory
<1>3. Looks(r)
  BY <1>1, <1>2, ReplyLooks DEF CreateRoot, Throw
<1>4. edges' = edges /\ (vertices' = vertices \/ \E v \in Record : CreateVertex(v))
  BY RecordType DEF CreateRoot, CreateVertex, graphVars
<1> QED BY <1>3, <1>4, RanksKept, YoungKept

LEMMA MakeDirectoryRanks ==
  ASSUME CycleInv, NEW r \in Req, MakeDirectory(r)
  PROVE  YoungVideos' /\ HaveRanks'
<1>1. /\ GraphTypeOK /\ RequestTypeOK /\ pc[r] = "make" /\ loc[r] \in Locals
      /\ loc[r].todo # <<>> /\ GraphInv /\ HaveRanks
      /\ \A q \in Req : loc[q].at \in {NoRid} \cup DOMAIN vertices
  BY DEF CycleInv, GraphInv, TypeInv, RequestInv, RequestTypeOK, Walking, MakeDirectory
<1>2. Directory(Head(loc[r].todo)) \in Record
  BY <1>1, HeadTailProperties, RecordType DEF Locals
<1>3. CASE /\ CreateVertex(Directory(Head(loc[r].todo)))
           /\ loc' = [loc EXCEPT ![r].node = NewRid] /\ Goto(r, "link")
  <2>1. /\ \A q \in Req \ {r} : pc'[q] = pc[q] /\ loc'[q] = loc[q]
        /\ pc'[r] = "link" /\ loc'[r].node = NewRid /\ loc'[r].at = loc[r].at
    BY <1>1, <1>3 DEF Goto, RequestTypeOK, Locals
  <2>2. /\ DOMAIN vertices' = DOMAIN vertices \cup {NewRid} /\ edges' = edges
        /\ \A n \in DOMAIN vertices : vertices'[n] = vertices[n]
        /\ NewRid \notin DOMAIN vertices /\ NewRid # NoRid
    BY <1>1, <1>2, <1>3, NewVertex
  <2>3. \A q \in Req : loc'[q].at = loc[q].at
    BY <2>1
  <2>4. \A u \in Req : Young(u)' => u # r /\ Young(u)
    BY <2>1 DEF Young, Pending
  <2>5. \A u \in Req : Young(u) => loc[u].node \in DOMAIN vertices
    BY <1>1 DEF Young, GraphInv, FreshSons
  <2>6. YoungVideos'
    BY <2>1, <2>2, <2>3, <2>4, <2>5 DEF CycleInv, YoungVideos, IsVideo
  <2>7. PICK max \in Nat : \E R \in [DOMAIN vertices' -> 0 .. max] :
               Ranked(R) /\ \A n \in DOMAIN vertices : R[n] < R[NewRid]
    BY <1>1, <1>2, <1>3, VertexRanked
  <2>8. PICK R \in [DOMAIN vertices' -> 0 .. max] :
               Ranked(R) /\ \A n \in DOMAIN vertices : R[n] < R[NewRid]
    BY <2>7
  <2>9. ASSUME NEW q \in Req, pc'[q] = "link", loc'[q].at \in DOMAIN vertices'
        PROVE  R[loc'[q].at] < R[loc'[q].node]
    <3>1. loc[q].at \in DOMAIN vertices /\ loc'[q].at = loc[q].at
      BY <1>1, <2>2, <2>3, <2>9
    <3>2. CASE q = r BY <2>1, <2>8, <3>1, <3>2
    <3>3. CASE q # r BY <2>1, <2>8, <2>9, <3>1, <3>3 DEF Ranked
    <3> QED BY <3>2, <3>3
  <2>10. Ranked(R)'
    BY <2>2, <2>8, <2>9 DEF Ranked
  <2> QED BY <2>6, <2>8, <2>10 DEF HaveRanks
<1>4. CASE /\ CreateVertex(Directory(Head(loc[r].todo))) \/ UNCHANGED graphVars
           /\ TreeFailed(r)
  <2>1. edges' = edges /\ (vertices' = vertices \/ \E v \in Record : CreateVertex(v))
    BY <1>2, <1>4 DEF CreateVertex, graphVars
  <2> QED BY <1>1, <1>4, <2>1, TreeLooks, RanksKept, YoungKept
<1> QED BY <1>3, <1>4 DEF MakeDirectory

LEMMA LinkDirectoryRanks ==
  ASSUME CycleInv, NEW r \in Req, LinkDirectory(r)
  PROVE  YoungVideos' /\ HaveRanks'
<1>1. /\ GraphTypeOK /\ RequestTypeOK /\ pc[r] = "link"
  BY DEF CycleInv, GraphInv, TypeInv, RequestInv, LinkDirectory
<1>2. Looks(r)
  <2>1. ASSUME Enter(r, loc[r].node), Goto(r, "check") PROVE Looks(r)
    <3>1. loc'[r].at = loc[r].node /\ pc'[r] = "check"
      BY <1>1, <2>1, AtKept, LocalsKept
    <3>2. Keeps(r)
      BY <1>1, <2>1, LocalsKept DEF Keeps, Only, Pending
    <3> QED BY <1>1, <3>1, <3>2 DEF Looks, Found, Pending
  <2> QED BY <1>1, <2>1, TreeLooks DEF LinkDirectory
<1>3. CASE CreateEdge(loc[r].at, loc[r].node)
  <2>1. /\ vertices' = vertices /\ edges' = edges \cup {<<loc[r].at, loc[r].node>>}
        /\ loc[r].at \in DOMAIN vertices
    BY <1>1, <1>3, NewEdge DEF Live
  <2>2. \A q \in Req : pc'[q] = "link" => pc[q] = "link" /\ loc'[q] = loc[q]
    BY <1>2 DEF Looks, Keeps, Only
  <2>3. \A R : Ranked(R) => R[loc[r].at] < R[loc[r].node]
    BY <1>1, <2>1 DEF Ranked
  <2>4. \A R : Ranked(R) => Ranked(R)'
    BY <2>1, <2>2, <2>3 DEF Ranked
  <2>5. HaveRanks'
    BY <2>1, <2>4 DEF HaveRanks, CycleInv
  <2> QED BY <1>2, <2>1, <2>5, YoungKept
<1>4. CASE UNCHANGED graphVars
  BY <1>2, <1>4, RanksKept, YoungKept DEF graphVars
<1> QED BY <1>3, <1>4 DEF LinkDirectory

LEMMA CreateVideoRanks ==
  ASSUME CycleInv, NEW u \in Uploads, CreateVideo(u)
  PROVE  YoungVideos' /\ HaveRanks'
<1>1. /\ GraphTypeOK /\ RequestTypeOK /\ pc[u] = "video" /\ loc[u] \in Locals /\ u \in Req
      /\ GraphInv /\ HaveRanks /\ edges \subseteq (DOMAIN vertices) \X (DOMAIN vertices)
      /\ \A q \in Req : loc[q].at \in {NoRid} \cup DOMAIN vertices
  BY DEF CycleInv, GraphInv, TypeInv, GraphTypeOK, RequestInv, RequestTypeOK, CreateVideo, Req
<1>2. Video(loc[u].name, u) \in Record
  BY <1>1, RecordType DEF Locals
<1>3. CASE /\ CreateVertex(Video(loc[u].name, u)) /\ Goto(u, "root")
           /\ loc' = [loc EXCEPT ![u].node = NewRid, ![u].phase = "path",
                                 ![u].todo = loc[u].path, ![u].at = NoRid]
  <2>1. /\ \A q \in Req \ {u} : pc'[q] = pc[q] /\ loc'[q] = loc[q]
        /\ pc'[u] = "root" /\ loc'[u].node = NewRid /\ loc'[u].at = NoRid
    BY <1>1, <1>3 DEF Goto, RequestTypeOK, Locals
  <2>2. /\ DOMAIN vertices' = DOMAIN vertices \cup {NewRid} /\ edges' = edges
        /\ \A n \in DOMAIN vertices : vertices'[n] = vertices[n]
        /\ NewRid \notin DOMAIN vertices /\ NewRid # NoRid
        /\ vertices'[NewRid] = Video(loc[u].name, u)
    BY <1>1, <1>2, <1>3, NewVertex
  <2>3. \A q \in Req : loc'[q].at \in {NoRid, loc[q].at}
    BY <2>1
  <2>4. ASSUME NEW v \in Req, Young(v)'
        PROVE  /\ IsVideo(loc[v].node)'
               /\ \A e \in edges' : e[1] # loc'[v].node
               /\ \A q \in Req : loc'[q].at # loc'[v].node
    <3>1. CASE v = u
      BY <1>1, <2>1, <2>2, <2>3, <3>1 DEF IsVideo, Video
    <3>2. CASE v # u
      <4>1. Young(v) /\ loc'[v].node = loc[v].node
        BY <2>1, <2>4, <3>2 DEF Young, Pending
      <4>2. loc[v].node \in DOMAIN vertices
        BY <1>1, <4>1 DEF Young, GraphInv, FreshSons
      <4>3. /\ IsVideo(loc[v].node)
            /\ \A e \in edges : e[1] # loc[v].node
            /\ \A q \in Req : loc[q].at # loc[v].node
        BY <4>1 DEF CycleInv, YoungVideos
      <4>4. NoRid \notin DOMAIN vertices
        BY <1>1 DEF GraphTypeOK, NoRid
      <4> QED BY <2>2, <2>3, <4>1, <4>2, <4>3, <4>4 DEF IsVideo
    <3> QED BY <3>1, <3>2
  <2>5. \E max \in Nat : \E R \in [DOMAIN vertices' -> 0 .. max] : Ranked(R)
    BY <1>1, <1>2, <1>3, VertexRanked
  <2>6. ASSUME NEW q \in Req, pc'[q] = "link", loc'[q].at \in DOMAIN vertices'
        PROVE  pc[q] = "link" /\ loc'[q] = loc[q] /\ loc[q].at \in DOMAIN vertices
    BY <1>1, <2>1, <2>2, <2>6
  <2>7. \A R : Ranked(R) => Ranked(R)'
    BY <2>2, <2>6 DEF Ranked
  <2>8. YoungVideos'
    BY <2>4 DEF YoungVideos
  <2> QED BY <2>5, <2>7, <2>8 DEF HaveRanks
<1>4. CASE /\ CreateVertex(Video(loc[u].name, u)) \/ UNCHANGED graphVars
           /\ Reply(u, 500)
  <2>1. edges' = edges /\ (vertices' = vertices \/ \E v \in Record : CreateVertex(v))
    BY <1>2, <1>4 DEF CreateVertex, graphVars
  <2> QED BY <1>1, <1>4, <2>1, ReplyLooks, RanksKept, YoungKept
<1> QED BY <1>3, <1>4 DEF CreateVideo

LEMMA AttachVideoRanks ==
  ASSUME CycleInv, NEW u \in Uploads, AttachVideo(u)
  PROVE  YoungVideos' /\ HaveRanks'
<1>1. /\ GraphTypeOK /\ RequestTypeOK /\ pc[u] = "attach" /\ u \in Req /\ Young(u)
  BY DEF CycleInv, GraphInv, TypeInv, RequestInv, AttachVideo, Req, Young, Pending
<1>2. Looks(u)
  BY <1>1 DEF AttachVideo, AnswerUpload, Reply, RequestTypeOK, Looks, Keeps, Only, Pending, Found
<1>3. CASE CreateEdge(loc[u].at, loc[u].node)
  <2> DEFINE s == loc[u].node
  <2>1. /\ vertices' = vertices /\ edges' = edges \cup {<<loc[u].at, s>>}
        /\ loc[u].at \in DOMAIN vertices /\ s \in DOMAIN vertices
    BY <1>1, <1>3, NewEdge DEF Live
  <2>2. \A q \in Req : pc'[q] = "link" => pc[q] = "link" /\ loc'[q] = loc[q]
    BY <1>2 DEF Looks, Keeps, Only
  <2>3. /\ \A e \in edges : e[1] # s /\ e[2] # s
        /\ \A q \in Req : loc[q].at # s
        /\ \A q \in Req : pc[q] = "link" => loc[q].node # s /\ loc[q].node \in DOMAIN vertices
    BY <1>1 DEF CycleInv, YoungVideos, GraphInv, FreshSons, Young, Pending
  <2>4. \A e \in edges : e[1] \in DOMAIN vertices /\ e[2] \in DOMAIN vertices
    BY <1>1 DEF GraphTypeOK
  <2>5. PICK max \in Nat : \E R \in [DOMAIN vertices -> 0 .. max] : Ranked(R)
    BY DEF CycleInv, HaveRanks
  <2>6. PICK R \in [DOMAIN vertices -> 0 .. max] : Ranked(R)
    BY <2>5
  <2>7. PICK Q \in [DOMAIN vertices' -> 0 .. (max + 1)] :
           /\ \A n \in DOMAIN vertices : n # s => Q[n] = R[n]
           /\ Q[loc[u].at] < Q[s]
    <3> DEFINE F == [n \in DOMAIN vertices |-> IF n = s THEN max + 1 ELSE R[n]]
    <3>1. F \in [DOMAIN vertices' -> 0 .. (max + 1)]
      BY <2>1
    <3>2. /\ \A n \in DOMAIN vertices : n # s => F[n] = R[n]
          /\ F[loc[u].at] < F[s]
      BY <1>1, <2>1, <2>3
    <3> HIDE DEF F
    <3> QED BY <3>1, <3>2
  <2> HIDE DEF s
  <2>8. Ranked(Q)'
    <3>1. ASSUME NEW e \in edges' PROVE Q[e[1]] < Q[e[2]]
      <4>1. CASE e \in edges
        BY <2>3, <2>4, <2>6, <2>7, <4>1 DEF Ranked
      <4>2. CASE e = <<loc[u].at, s>>
        BY <2>7, <4>2
      <4> QED BY <2>1, <4>1, <4>2
    <3>2. ASSUME NEW q \in Req, pc'[q] = "link", loc'[q].at \in DOMAIN vertices'
          PROVE  Q[loc'[q].at] < Q[loc'[q].node]
      <4>1. pc[q] = "link" /\ loc'[q] = loc[q] /\ loc[q].at \in DOMAIN vertices
        BY <2>1, <2>2, <3>2
      <4> QED BY <2>3, <2>6, <2>7, <4>1 DEF Ranked
    <3> QED BY <3>1, <3>2 DEF Ranked
  <2>10. HaveRanks'
    <3>1. max + 1 \in Nat
      BY <2>5
    <3> QED BY <2>7, <2>8, <3>1 DEF HaveRanks
  <2> QED BY <1>1, <1>2, <2>1, <2>10, YoungKept
<1>4. CASE UNCHANGED graphVars
  BY <1>1, <1>2, <1>4, RanksKept, YoungKept DEF graphVars
<1> QED BY <1>3, <1>4 DEF AttachVideo

LEMMA CommitRemoveRanks ==
  ASSUME CycleInv, NEW d \in Deletes, CommitRemove(d)
  PROVE  YoungVideos' /\ HaveRanks'
<1>1. d \in Req /\ RequestTypeOK
  BY DEF CycleInv, GraphInv, TypeInv, RequestInv, Req
<1>2. Looks(d)
  BY <1>1, ReplyLooks DEF CommitRemove
<1>3. edges' \subseteq edges /\ vertices' = vertices
  BY DEF CommitRemove, RemoveVertex, graphVars
<1> QED BY <1>1, <1>2, <1>3, RanksKept, YoungKept

LEMMA StillRanks ==
  ASSUME CycleInv, Crash \/ UNCHANGED vars
  PROVE  YoungVideos' /\ HaveRanks'
<1>1. /\ vertices' = vertices /\ edges' = edges /\ loc' = loc
      /\ \A q \in Req : pc'[q] \in {pc[q], "done"}
  BY DEF Crash, vars, graphVars, CycleInv, GraphInv, TypeInv, RequestInv, RequestTypeOK
<1>2. \A u \in Req : Young(u)' => Young(u)
  BY <1>1 DEF Young, Pending
<1>3. YoungVideos'
  BY <1>1, <1>2 DEF CycleInv, YoungVideos, IsVideo
<1>4. \A R : Ranked(R) => Ranked(R)'
  BY <1>1 DEF Ranked
<1> QED BY <1>1, <1>3, <1>4 DEF CycleInv, HaveRanks

LEMMA InitRanks ==
  ASSUME Init
  PROVE  CycleInv
<1>1. /\ GraphInv /\ \A r \in Req : pc[r] = "new"
  BY InitGraph DEF Init
<1>2. YoungVideos
  BY <1>1 DEF YoungVideos, Young, Pending
<1>3. /\ vertices \in Seq(Record) /\ edges \subseteq (DOMAIN vertices) \X (DOMAIN vertices)
      /\ \A e \in edges : e[1] < e[2]
  <2>1. /\ vertices \in Seq(Record) /\ edges \subseteq (DOMAIN vertices) \X (DOMAIN vertices)
    BY <1>1 DEF GraphInv, TypeInv, GraphTypeOK
  <2>2. Len(Stored) \in Nat
    <3>1. Stored \in Seq(STRING)
      BY Inputs, Zenon
    <3> QED BY <3>1
  <2>3. edges = {} \/ edges = {<<n, n + 1>> : n \in 1 .. Len(Stored)}
    BY DEF Init, StoredGraph, GraphInit
  <2>4. ASSUME NEW e \in edges, edges = {<<n, n + 1>> : n \in 1 .. Len(Stored)}
        PROVE  e[1] < e[2]
    <3>1. PICK n \in 1 .. Len(Stored) : e = <<n, n + 1>>
      BY <2>4
    <3> QED BY <2>2, <3>1
  <2> QED BY <2>1, <2>3, <2>4
<1> DEFINE R == [n \in DOMAIN vertices |-> n]
<1>4. Len(vertices) \in Nat /\ R \in [DOMAIN vertices -> 0 .. Len(vertices)]
  BY <1>3
<1>5. Ranked(R)
  BY <1>1, <1>3 DEF Ranked
<1> QED BY <1>1, <1>2, <1>4, <1>5 DEF CycleInv, HaveRanks

LEMMA NextRanks ==
  ASSUME CycleInv, [Next]_vars
  PROVE  CycleInv'
<1>1. GraphInv' /\ TypeInv
  BY NextGraph DEF CycleInv, GraphInv
<1>2. ASSUME NEW r \in Req, Looks(r), UNCHANGED <<vertices, removed, edges>>
      PROVE  YoungVideos' /\ HaveRanks'
  BY <1>2, RanksKept, YoungKept
<1>3. ASSUME NEW r \in Req, Start(r) \/ Tree(r) PROVE YoungVideos' /\ HaveRanks'
  BY <1>1, <1>2, <1>3, QuietKeeps, QuietLooks, CreateRootRanks, MakeDirectoryRanks,
     LinkDirectoryRanks DEF Tree
<1>4. ASSUME NEW u \in Uploads, Upload(u) PROVE YoungVideos' /\ HaveRanks'
  BY <1>1, <1>2, <1>4, QuietKeeps, QuietLooks, CreateVideoRanks, AttachVideoRanks DEF Upload, Req
<1>5. ASSUME NEW d \in Deletes, Delete(d) PROVE YoungVideos' /\ HaveRanks'
  BY <1>1, <1>2, <1>5, QuietKeeps, QuietLooks, CommitRemoveRanks DEF Delete, Req
<1>6. ASSUME NEW g \in Gets, Get(g) PROVE YoungVideos' /\ HaveRanks'
  BY <1>1, <1>2, <1>6, QuietKeeps, QuietLooks DEF Req
<1> QED BY <1>1, <1>3, <1>4, <1>5, <1>6, StillRanks DEF Next, Served, CycleInv

\* A set of vertices has one of least rank, and its fathers are not in the set.
LEMMA NoCycle ==
  ASSUME GraphTypeOK, HaveRanks
  PROVE  Acyclic
<1>0. PICK max \in Nat : \E R \in [DOMAIN vertices -> 0 .. max] : Ranked(R)
  BY DEF HaveRanks
<1>1. PICK R \in [DOMAIN vertices -> 0 .. max] : Ranked(R)
  BY <1>0
<1> SUFFICES ASSUME NEW S \in SUBSET Live, S # {}
             PROVE  \E n \in S : In(n) \cap S = {}
  BY DEF Acyclic
<1> DEFINE T == {R[n] : n \in S}
<1>2. S \subseteq DOMAIN vertices
  BY DEF Live
<1>3. T \subseteq Nat /\ T # {}
  BY <1>2
<1>4. PICK x \in T : \A y \in T : ~ (<<y, x>> \in OpToRel(<, Nat))
  <2> HIDE DEF T
  <2> QED BY <1>3, WFMin, NatLessThanWellFounded
<1>5. \A y \in T : ~ (y < x)
  BY <1>3, <1>4 DEF OpToRel
<1>6. PICK n \in S : R[n] = x
  BY DEF T
<1>7. \A m \in S : ~ (R[m] < R[n])
  BY <1>5, <1>6
<1>8. \A f \in In(n) : R[f] < R[n]
  BY <1>1 DEF In, Ranked
<1> QED BY <1>7, <1>8

\* Whatever the interleaving, the failures and the crashes, no directory or
\* video becomes its own ancestor: a folder is linked under what its request
\* had found before it made the folder, and a video has no sons before it is
\* attached.
THEOREM NamesLeadDownwards == Spec => []Acyclic
<1>1. Spec => []CycleInv
  BY InitRanks, NextRanks, PTL DEF Spec
<1>2. CycleInv => Acyclic
  BY NoCycle DEF CycleInv, GraphInv, TypeInv
<1> QED BY <1>1, <1>2, PTL

=============================================================================
