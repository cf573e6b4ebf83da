--------------------------- MODULE VideoTreeProofs ---------------------------
(***************************************************************************)
(* Served one at a time and without failures, the requests of the video    *)
(* storage keep one tree: OneTree, for any number of requests, folders and *)
(* names.                                                                  *)
(***************************************************************************)
EXTENDS VideoStorageProofs, FiniteSetTheorems

\* One request at a time, and nothing fails.
OneAtATime == MaxActive = 1 /\ MaxFaults = 0 /\ MaxCrashes = 0

\* No video is named like a folder.  createFolderTree takes any son of the name
\* it looks for, and a video with sons could be deleted from above them.
NamesApart ==
  /\ \A p \in Folders : \A k \in DOMAIN p : p[k] \notin VideoNames
  /\ \A p \in DeletePaths \cup GetPaths : Head(p) \notin VideoNames

(***************************************************************************)
(* The tree.  The vertices in H hang: they are not linked yet.             *)
(***************************************************************************)
OneRoot(H) == \A n, m \in RootCandidates \ H : n = m

Rooted(H) == \A n \in Live \ H : n \in RootCandidates \/ In(n) # {}

SonsApart ==
  \A f \in Live : \A n, m \in Out(f) :
    IsDirectory(n) /\ IsDirectory(m) /\ vertices[n].name = vertices[m].name => n = m

DirectoriesHaveSons == \A e \in edges : IsDirectory(e[1])

VideosNamed == \A n \in DOMAIN vertices : IsVideo(n) => vertices[n].name \in VideoNames

WholeTree(H) == OneRoot(H) /\ Rooted(H) /\ SonsApart /\ DirectoriesHaveSons /\ VideosNamed

(***************************************************************************)
(* What is so while a request r is at step s with the local variables l.   *)
(***************************************************************************)
Pends(r, s, l) ==
  \/ s = "link"
  \/ r \in Uploads /\ (s \in {"son", "attach"} \/ (s \in {"root", "rootMake"} /\ l.phase = "path"))

Hung(r, s, l) == {n \in {l.node} : Pends(r, s, l)}

InTree(s, l) ==
  \/ s \in {"check", "make", "link"}
  \/ s \in {"root", "rootMake"} /\ l.phase = "tree"

\* The names a folder tree is made of are no names of videos.
FolderNames(s, l) == InTree(s, l) => \A k \in DOMAIN l.todo : l.todo[k] \notin VideoNames

\* An upload has a path of such names, and walks down this path.
Walked(l) == Len(l.path) - Len(l.todo)

OnPath(l) ==
  /\ Len(l.todo) <= Len(l.path)
  /\ \A k \in DOMAIN l.todo : l.todo[k] = l.path[Walked(l) + k]

UploadNames(r, s, l) ==
  r \in Uploads /\ s \notin {"new", "done"} =>
    /\ l.name \in VideoNames
    /\ \A k \in DOMAIN l.path : l.path[k] \notin VideoNames
    /\ s \in {"root", "rootMake"} => l.todo = l.path
    /\ s \in {"check", "make", "link", "son"} => OnPath(l)

\* A folder or a root is made where there is none.
Building(r, s, l) ==
  /\ s = "rootMake" => RootCandidates = {}
  /\ s \in {"check", "make", "link"} => l.at \in Live /\ IsDirectory(l.at)
  /\ s \in {"make", "link"} => SonsByName(l.at, Head(l.todo)) = {}
  /\ s = "link" => l.node # l.at /\ vertices[l.node] = Directory(Head(l.todo))
  /\ Pends(r, s, l) => l.node \in Live
  /\ Pends(r, s, l) /\ s # "link" => IsVideo(l.node)

\* A delete holds a vertex that has a father, and soon one that has no sons.
Removing(s, l) ==
  /\ s \in {"leaf", "load", "remove", "unlink", "commit"} => l.at \in Live /\ In(l.at) # {}
  /\ s \in {"load", "remove", "unlink", "commit"} => Out(l.at) = {}

\* The folders of the first k names of path p, in a graph of vertices V of which
\* those in L live and edges E.
Leads(L, E, V, p, k, w) ==
  /\ w \in [0 .. k -> L]
  /\ \A j \in 1 .. k :
       /\ <<w[j - 1], w[j]>> \in E
       /\ V[w[j]].class = "Video_Directory" /\ V[w[j]].name = p[j]

Way(H, p, k, w) ==
  Leads(Live, edges, vertices, p, k, w) /\ w[0] \in RootCandidates \ H

\* An upload has made the way to where it is, and finds it again when it looks
\* for the folder of its video.
Going(r, s, l) ==
  r \in Uploads /\ s \in {"check", "make", "link"} =>
    \E w : Way(Hung(r, s, l), l.path, Walked(l), w) /\ w[Walked(l)] = l.at

Returning(r, s, l) ==
  r \in Uploads /\ (s = "video" \/ (Pends(r, s, l) /\ s # "link")) =>
    \E w : /\ Way(Hung(r, s, l), l.path, Len(l.path), w)
           /\ s = "son" => l.at = w[Walked(l)]
           /\ s = "attach" => l.at = w[Len(l.path)]

Work(r, s, l) ==
  /\ FolderNames(s, l) /\ UploadNames(r, s, l) /\ Building(r, s, l) /\ Removing(s, l)
  /\ Going(r, s, l) /\ Returning(r, s, l)

Alone == \A q, r \in Active : q = r
Hanging == UNION {Hung(r, pc[r], loc[r]) : r \in Req}

TreeInv ==
  /\ GraphInv
  /\ Alone
  /\ WholeTree(Hanging)
  /\ \A r \in Req : Work(r, pc[r], loc[r])

(***************************************************************************)
(* One request at a time.                                                  *)
(***************************************************************************)
LEMMA NothingFails ==
  ASSUME OneAtATime, TypeInv
  PROVE  ~Fails /\ ~Crash
BY DEF OneAtATime, TypeInv, AnswerInv, AnswerTypeOK, Fails, Crash

LEMMA NobodyElse ==
  ASSUME OneAtATime, Alone, Cardinality(Active) < MaxActive
  PROVE  Active = {}
<1>1. SUFFICES ASSUME NEW q \in Active PROVE FALSE
  OBVIOUS
<1>2. Active = {q}
  BY DEF Alone
<1>3. Cardinality({q}) = 1
  BY FS_Singleton
<1> QED BY <1>2, <1>3 DEF OneAtATime

\* A request that is not being served does no work.
LEMMA Idle ==
  ASSUME NEW r \in Req, NEW l, NEW s \in {"new", "done"}
  PROVE  Work(r, s, l) /\ Work(r, s, l)' /\ Hung(r, s, l) = {}
BY DEF Work, FolderNames, UploadNames, Building, Removing, Going, Returning, InTree, Pends, Hung

LEMMA SameGraph ==
  ASSUME UNCHANGED graphVars
  PROVE  /\ Live' = Live /\ RootCandidates' = RootCandidates /\ edges' = edges
         /\ vertices' = vertices
         /\ \A n : Out(n)' = Out(n) /\ In(n)' = In(n)
         /\ \A n : IsDirectory(n)' = IsDirectory(n) /\ IsVideo(n)' = IsVideo(n)
         /\ \A n, x : SonsByName(n, x)' = SonsByName(n, x)
BY DEF graphVars, RootCandidates, Live, In, Out, IsDirectory, IsVideo, SonsByName

LEMMA SameWork ==
  ASSUME UNCHANGED graphVars, NEW r, NEW s, NEW l, Work(r, s, l)
  PROVE  Work(r, s, l)'
<1>1. FolderNames(s, l)' /\ UploadNames(r, s, l)'
  BY DEF Work, FolderNames, UploadNames, InTree, OnPath, Walked
<1>2. Building(r, s, l)' /\ Removing(s, l)'
  BY SameGraph DEF Work, Building, Removing, Pends
<1>3. Hung(r, s, l)' = Hung(r, s, l) /\ Walked(l)' = Walked(l)
  BY DEF Hung, Pends, Walked
<1>4. \A H, p, k, w : Way(H, p, k, w)' = Way(H, p, k, w)
  BY SameGraph DEF Way, Leads
<1>5. Going(r, s, l)' /\ Returning(r, s, l)'
  BY <1>3, <1>4 DEF Work, Going, Returning, Pends
<1> QED BY <1>1, <1>2, <1>5 DEF Work

LEMMA SameTree ==
  ASSUME UNCHANGED graphVars, NEW H, WholeTree(H)
  PROVE  WholeTree(H)'
BY SameGraph DEF WholeTree, OneRoot, Rooted, SonsApart, DirectoriesHaveSons, VideosNamed

\* The work of r goes on with step s and locals l.
LEMMA GoesOn ==
  ASSUME TreeInv, GraphInv', NEW r \in Req, r \in Active \/ Active = {}, Only(r),
         NEW s, NEW l, pc'[r] = s, loc'[r] = l,
         WholeTree(Hung(r, s, l))', Work(r, s, l)'
  PROVE  TreeInv'
<1>1. \A q \in Req \ {r} : pc[q] \in {"new", "done"} /\ pc'[q] = pc[q] /\ loc'[q] = loc[q]
  BY DEF TreeInv, Alone, Active, Only
<1>2. Alone'
  BY <1>1 DEF Alone, Active
<1>3. ASSUME NEW q \in Req PROVE Work(q, pc[q], loc[q])'
  <2>1. CASE q = r
    BY <2>1 DEF Work, Building, Removing, Going, Returning, Way
  <2>2. CASE q # r
    BY <1>1, <2>2, Idle
  <2> QED BY <2>1, <2>2
<1>4. \A q \in Req \ {r} : Hung(q, pc[q], loc[q])' = {}
  BY <1>1, Idle
<1>5. Hanging' = Hung(r, s, l)'
  BY <1>4 DEF Hanging
<1> QED BY <1>2, <1>3, <1>5 DEF TreeInv, WholeTree, OneRoot, Rooted

\* No other vertex hangs than that of the request being served.
LEMMA OneHangs ==
  ASSUME TreeInv, NEW r \in Req, r \in Active \/ Active = {}
  PROVE  WholeTree(Hung(r, pc[r], loc[r]))
<1>1. \A q \in Req \ {r} : pc[q] \in {"new", "done"}
  BY DEF TreeInv, Alone, Active
<1>2. Hanging = Hung(r, pc[r], loc[r])
  BY <1>1, Idle DEF Hanging
<1> QED BY <1>2 DEF TreeInv

\* The same, of a step that leaves the graph alone.
LEMMA QuietStep ==
  ASSUME TreeInv, GraphInv', NEW r \in Req, r \in Active \/ Active = {}, Only(r),
         NEW s, NEW l, pc'[r] = s, loc'[r] = l, UNCHANGED graphVars,
         Hung(r, s, l) = Hung(r, pc[r], loc[r]), Work(r, s, l)
  PROVE  TreeInv'
<1>1. WholeTree(Hung(r, s, l))
  BY OneHangs
<1>2. PICK H : H = Hung(r, s, l)
  OBVIOUS
<1>3. Hung(r, s, l)' = H
  BY <1>2 DEF Hung, Pends
<1>4. WholeTree(H)'
  BY <1>1, <1>2, SameTree
<1>5. WholeTree(Hung(r, s, l))'
  BY <1>3, <1>4 DEF WholeTree, OneRoot, Rooted
<1>6. Work(r, s, l)'
  BY SameWork
<1> QED BY <1>5, <1>6, GoesOn

LEMMA Ends ==
  ASSUME TreeInv, GraphInv', NEW r \in Req, r \in Active \/ Active = {}, Only(r),
         pc'[r] = "done", UNCHANGED graphVars, ~Pends(r, pc[r], loc[r])
  PROVE  TreeInv'
<1>1. PICK l : l = loc'[r]
  OBVIOUS
<1>2. Work(r, "done", l) /\ Hung(r, "done", l) = {}
  BY Idle
<1>3. Hung(r, pc[r], loc[r]) = {}
  BY DEF Hung
<1> QED BY <1>1, <1>2, <1>3, QuietStep

(***************************************************************************)
(* What a command makes of the tree.                                       *)
(***************************************************************************)
\* The new vertex is n.
LEMMA VertexGraph ==
  ASSUME GraphTypeOK, Forest, NEW v \in Record, CreateVertex(v), NEW n, n = NewRid
  PROVE  /\ Live' = Live \cup {n} /\ n \notin Live
         /\ edges' = edges
         /\ \A m \in Live : vertices'[m] = vertices[m]
         /\ vertices'[n] = v
         /\ \A m \in Live : Out(m)' = Out(m) /\ In(m)' = In(m)
         /\ Out(n)' = {} /\ In(n)' = {}
         /\ RootCandidates \subseteq RootCandidates'
         /\ RootCandidates' \subseteq RootCandidates \cup {n}
         /\ v.class = "Video" => RootCandidates' = RootCandidates
<1>1. /\ DOMAIN vertices' = DOMAIN vertices \cup {n}
      /\ n \notin DOMAIN vertices
      /\ removed' = removed /\ edges' = edges
      /\ \A m \in DOMAIN vertices : vertices'[m] = vertices[m]
      /\ vertices'[n] = v
  BY NewVertex
<1>2. Live' = Live \cup {n} /\ n \notin Live
  BY <1>1 DEF Live, GraphTypeOK
<1>3. \A m \in Live : vertices'[m] = vertices[m]
  BY <1>1 DEF Live
<1>4. edges \subseteq Live \X Live
  BY DEF Forest
<1>5. \A m \in Live : Out(m)' = Out(m) /\ In(m)' = In(m)
  BY <1>1, <1>2, <1>4 DEF Out, In
<1>6. Out(n)' = {} /\ In(n)' = {}
  BY <1>1, <1>2, <1>4 DEF Out, In
<1>7. RootCandidates \subseteq RootCandidates'
  BY <1>2, <1>3, <1>5 DEF RootCandidates, IsDirectory
<1>8. RootCandidates' \subseteq RootCandidates \cup {n}
  BY <1>2, <1>3, <1>5 DEF RootCandidates, IsDirectory
<1>9. v.class = "Video" => n \notin RootCandidates'
  BY <1>1 DEF RootCandidates, IsDirectory
<1> QED BY <1>1, <1>2, <1>3, <1>5, <1>6, <1>7, <1>8, <1>9

LEMMA VertexTree ==
  ASSUME GraphTypeOK, Forest, NEW v \in Record, CreateVertex(v), NEW n, n = NewRid,
         WholeTree({}), v.class = "Video" => v.name \in VideoNames
  PROVE  /\ WholeTree({n})'
         /\ v.class = "Video_Directory" /\ RootCandidates = {} => WholeTree({})'
<1>1. /\ Live' = Live \cup {n} /\ n \notin Live
      /\ edges' = edges
      /\ \A m \in Live : vertices'[m] = vertices[m]
      /\ vertices'[n] = v
      /\ \A m \in Live : Out(m)' = Out(m) /\ In(m)' = In(m)
      /\ Out(n)' = {}
      /\ RootCandidates \subseteq RootCandidates'
      /\ RootCandidates' \subseteq RootCandidates \cup {n}
  BY VertexGraph
<1>2. \A f \in Live : Out(f) \subseteq Live
  BY DEF Out
<1>3. OneRoot({n})' /\ (RootCandidates = {} => OneRoot({})')
  BY <1>1 DEF WholeTree, OneRoot
<1>4. Rooted({n})'
  BY <1>1 DEF WholeTree, Rooted
<1>5. v.class = "Video_Directory" => Rooted({})'
  <2>1. v.class = "Video_Directory" => n \in RootCandidates'
    BY <1>1, VertexGraph DEF RootCandidates, IsDirectory
  <2> QED BY <1>1, <2>1 DEF WholeTree, Rooted
<1>6. SonsApart'
  BY <1>1, <1>2 DEF WholeTree, SonsApart, IsDirectory
<1>7. DirectoriesHaveSons'
  BY <1>1 DEF WholeTree, DirectoriesHaveSons, IsDirectory, Forest
<1>8. VideosNamed'
  <2>1. \A m \in DOMAIN vertices' : m # n => m \in DOMAIN vertices /\ vertices'[m] = vertices[m]
    BY NewVertex
  <2> QED BY <1>1, <2>1 DEF WholeTree, VideosNamed, IsVideo
<1> QED BY <1>3, <1>4, <1>5, <1>6, <1>7, <1>8 DEF WholeTree

LEMMA EdgeGraph ==
  ASSUME GraphTypeOK, NEW f, NEW s, CreateEdge(f, s)
  PROVE  /\ vertices' = vertices /\ Live' = Live
         /\ edges' = edges \cup {<<f, s>>}
         /\ f \in Live /\ s \in Live
         /\ Out(f)' = Out(f) \cup {s} /\ \A m : m # f => Out(m)' = Out(m)
         /\ In(s)' = In(s) \cup {f} /\ \A m : m # s => In(m)' = In(m)
         /\ RootCandidates' = RootCandidates \ {s}
<1>1. /\ vertices' = vertices /\ Live' = Live
      /\ edges' = edges \cup {<<f, s>>}
      /\ f \in Live /\ s \in Live
  BY NewEdge DEF Live
<1>2. Out(f)' = Out(f) \cup {s} /\ \A m : m # f => Out(m)' = Out(m)
  BY <1>1 DEF Out
<1>3. In(s)' = In(s) \cup {f} /\ \A m : m # s => In(m)' = In(m)
  BY <1>1 DEF In
<1>4. RootCandidates' = RootCandidates \ {s}
  BY <1>1, <1>3 DEF RootCandidates, IsDirectory
<1> QED BY <1>1, <1>2, <1>3, <1>4

LEMMA EdgeTree ==
  ASSUME GraphTypeOK, NEW f, NEW s, CreateEdge(f, s), WholeTree({s}), f # s, IsDirectory(f),
         IsVideo(s) \/ SonsByName(f, vertices[s].name) = {}
  PROVE  WholeTree({})'
<1>1. /\ vertices' = vertices /\ Live' = Live
      /\ edges' = edges \cup {<<f, s>>}
      /\ f \in Live /\ s \in Live
      /\ Out(f)' = Out(f) \cup {s} /\ \A m : m # f => Out(m)' = Out(m)
      /\ In(s)' = In(s) \cup {f} /\ \A m : m # s => In(m)' = In(m)
      /\ RootCandidates' = RootCandidates \ {s}
  BY EdgeGraph
<1>2. OneRoot({})'
  BY <1>1 DEF WholeTree, OneRoot
<1>3. Rooted({})'
  BY <1>1 DEF WholeTree, Rooted
<1>4. ASSUME NEW m \in Out(f), IsDirectory(m), IsDirectory(s),
             vertices[m].name = vertices[s].name
      PROVE  FALSE
  BY <1>4 DEF SonsByName, IsDirectory, IsVideo
<1>5. SonsApart'
  BY <1>1, <1>4 DEF WholeTree, SonsApart, IsDirectory
<1>6. DirectoriesHaveSons'
  BY <1>1 DEF WholeTree, DirectoriesHaveSons, IsDirectory
<1>7. VideosNamed'
  BY <1>1 DEF WholeTree, VideosNamed, IsVideo
<1> QED BY <1>2, <1>3, <1>5, <1>6, <1>7 DEF WholeTree

LEMMA RemovalTree ==
  ASSUME GraphTypeOK, Forest, NEW n \in Live, RemoveVertex(n), WholeTree({}),
         In(n) # {}, Out(n) = {}
  PROVE  WholeTree({})'
<1>1. /\ vertices' = vertices /\ Live' = Live \ {n}
      /\ edges' = {e \in edges : n \notin {e[1], e[2]}}
  BY DEF RemoveVertex, Live
<1>2. \A e \in edges : e[1] # n
  BY DEF Forest, Out
<1>3. \A m \in Live' : In(m)' = In(m) /\ Out(m)' \subseteq Out(m)
  BY <1>1, <1>2 DEF In, Out
<1>4. RootCandidates' = RootCandidates
  BY <1>1, <1>3 DEF RootCandidates, IsDirectory
<1>5. OneRoot({})' /\ Rooted({})'
  BY <1>1, <1>3, <1>4 DEF WholeTree, OneRoot, Rooted
<1>6. SonsApart'
  BY <1>1, <1>3 DEF WholeTree, SonsApart, IsDirectory
<1>7. DirectoriesHaveSons' /\ VideosNamed'
  BY <1>1 DEF WholeTree, DirectoriesHaveSons, VideosNamed, IsDirectory, IsVideo
<1> QED BY <1>5, <1>6, <1>7 DEF WholeTree

(***************************************************************************)
(* Ways down from the root.                                                *)
(***************************************************************************)
LEMMA WayOn ==
  ASSUME NEW L, NEW E, NEW V, NEW p, NEW k \in Nat, NEW w, Leads(L, E, V, p, k, w),
         NEW n \in L, <<w[k], n>> \in E, V[n].class = "Video_Directory", V[n].name = p[k + 1]
  PROVE  \E x : Leads(L, E, V, p, k + 1, x) /\ x[k + 1] = n /\ x[0] = w[0]
<1> DEFINE x == [j \in 0 .. k + 1 |-> IF j <= k THEN w[j] ELSE n]
<1>1. w \in [0 .. k -> L]
  BY DEF Leads
<1>2. x \in [0 .. k + 1 -> L] /\ x[k + 1] = n /\ \A j \in 0 .. k : x[j] = w[j]
  BY <1>1
<1> HIDE DEF x
<1>3. ASSUME NEW j \in 1 .. k + 1
      PROVE  /\ <<x[j - 1], x[j]>> \in E
             /\ V[x[j]].class = "Video_Directory" /\ V[x[j]].name = p[j]
  <2>1. CASE j <= k
    <3>1. j \in 1 .. k /\ j \in 0 .. k /\ j - 1 \in 0 .. k
      BY <2>1
    <3> QED BY <1>2, <3>1 DEF Leads
  <2>2. CASE j = k + 1
    <3>1. j - 1 = k /\ k \in 0 .. k
      BY <2>2
    <3> QED BY <1>2, <2>2, <3>1
  <2> QED BY <2>1, <2>2
<1>4. 0 \in 0 .. k
  OBVIOUS
<1> QED BY <1>2, <1>3, <1>4 DEF Leads

LEMMA WayThere ==
  ASSUME NEW H, NEW p, NEW k, NEW w
  PROVE  Way(H, p, k, w)' <=>
           Leads(Live', edges', vertices', p, k, w) /\ w[0] \in RootCandidates' \ H
BY DEF Way, Leads

\* The graph grows and leaves the root of the way.
LEMMA WayStays ==
  ASSUME NEW H, NEW G, NEW p, NEW k \in Nat, NEW w, Way(H, p, k, w),
         Live \subseteq Live', edges \subseteq edges',
         \A n \in Live : vertices'[n] = vertices[n],
         RootCandidates \ H \subseteq RootCandidates' \ G
  PROVE  Leads(Live', edges', vertices', p, k, w) /\ Way(G, p, k, w)'
<1>1. Leads(Live, edges, vertices, p, k, w) /\ w[0] \in RootCandidates' \ G
  BY DEF Way
<1>2. w \in [0 .. k -> Live]
  BY <1>1 DEF Leads
<1>3. \A j \in 1 .. k : w[j] \in Live
  BY <1>2
<1>4. Leads(Live', edges', vertices', p, k, w)
  BY <1>1, <1>2, <1>3 DEF Leads
<1> QED BY <1>1, <1>4, WayThere

\* The way to a root.
LEMMA WayBegins ==
  ASSUME NEW L, NEW E, NEW V, NEW p, NEW n \in L
  PROVE  \E x : Leads(L, E, V, p, 0, x) /\ x[0] = n
<1> DEFINE x == [j \in 0 .. 0 |-> n]
<1>1. Leads(L, E, V, p, 0, x) /\ x[0] = n
  BY DEF Leads
<1> QED BY <1>1

(***************************************************************************)
(* What a request has in hand.                                             *)
(***************************************************************************)
LEMMA InHand ==
  ASSUME TreeInv, NEW r \in Req
  PROVE  /\ TypeInv /\ GraphTypeOK /\ RequestTypeOK /\ Forest
         /\ Work(r, pc[r], loc[r])
         /\ loc \in [Req -> Locals] /\ pc \in [Req -> Steps]
         /\ loc[r] \in Locals /\ loc[r].phase \in {"tree", "path"}
         /\ loc[r].path \in Seq(STRING) /\ loc[r].todo \in Seq(STRING)
         /\ pc[r] \notin {"new", "done"} => loc[r].path # <<>> /\ r \in Active
         /\ pc[r] \in {"root", "rootMake", "check", "make", "link", "son"} => loc[r].todo # <<>>
         /\ Live \subseteq DOMAIN vertices
<1>1. TypeInv /\ GraphTypeOK /\ RequestInv /\ RequestTypeOK /\ Forest /\ Work(r, pc[r], loc[r])
  BY DEF TreeInv, GraphInv, TypeInv, RequestInv
<1>2. loc \in [Req -> Locals] /\ pc \in [Req -> Steps] /\ loc[r] \in Locals
  BY <1>1 DEF RequestTypeOK
<1>3. Walking(r)
  BY <1>1 DEF RequestInv
<1> QED BY <1>1, <1>2, <1>3, LiveType DEF Locals, Walking, Active

LEMMA NamesToGo ==
  ASSUME NEW t \in Seq(STRING), t # <<>>
  PROVE  /\ Len(t) \in Nat /\ Len(t) >= 1 /\ 1 \in DOMAIN t /\ Head(t) = t[1]
         /\ DOMAIN t = 1 .. Len(t)
         /\ Tail(t) \in Seq(STRING) /\ Len(Tail(t)) = Len(t) - 1
         /\ DOMAIN Tail(t) = 1 .. Len(t) - 1
         /\ \A k \in DOMAIN Tail(t) : k + 1 \in DOMAIN t /\ Tail(t)[k] = t[k + 1]
<1>1. Len(t) \in Nat /\ DOMAIN t = 1 .. Len(t) /\ Len(t) # 0
  BY LenProperties, EmptySeq
<1>2. Head(t) = t[1] /\ Tail(t) \in Seq(STRING) /\ Len(Tail(t)) = Len(t) - 1
  BY HeadTailProperties
<1>3. \A k \in 1 .. Len(t) - 1 : Tail(t)[k] = t[k + 1]
  BY <1>1, <1>2, HeadTailProperties
<1>4. DOMAIN Tail(t) = 1 .. Len(t) - 1
  BY <1>2, LenProperties
<1> QED BY <1>1, <1>2, <1>3, <1>4

\* Where an upload is on its path.
LEMMA HalfWay ==
  ASSUME NEW l \in Locals, l.todo # <<>>, OnPath(l)
  PROVE  /\ Walked(l) \in Nat /\ Head(l.todo) = l.path[Walked(l) + 1]
         /\ Len(l.todo) \in Nat /\ Len(l.todo) >= 1
         /\ Len(l.todo) > 1 \/ Walked(l) + 1 = Len(l.path)
         /\ Walked(l) + 1 \in 1 .. Len(l.path)
<1>1. l.path \in Seq(STRING) /\ l.todo \in Seq(STRING)
  BY DEF Locals
<1>2. PICK m, k, j : m = Len(l.path) /\ k = Len(l.todo) /\ j = Walked(l)
  OBVIOUS
<1>3. m \in Nat /\ k \in Nat /\ k >= 1 /\ k <= m
  BY <1>1, <1>2, LenProperties, NamesToGo DEF OnPath
<1>4. j = m - k
  BY <1>2 DEF Walked
<1>5. 1 \in DOMAIN l.todo /\ Head(l.todo) = l.todo[1]
  BY <1>1, NamesToGo
<1>6. Head(l.todo) = l.path[Walked(l) + 1]
  BY <1>5 DEF OnPath
<1>7. j \in Nat /\ (k > 1 \/ j + 1 = m) /\ j + 1 \in 1 .. m
  BY <1>3, <1>4
<1> QED BY <1>2, <1>3, <1>6, <1>7

\* Down one folder, n, of the path of an upload.
LEMMA Down ==
  ASSUME TreeInv, NEW r \in Req, pc[r] \in {"check", "link", "son"},
         NEW n \in Nat, NEW l, Enter(r, n), loc'[r] = l
  PROVE  /\ l.at = n /\ l.node = loc[r].node /\ l.path = loc[r].path
         /\ l.name = loc[r].name /\ l.phase = loc[r].phase /\ l.todo = Tail(loc[r].todo)
         /\ \A q \in Req \ {r} : loc'[q] = loc[q]
         /\ Len(loc[r].todo) \in Nat /\ Len(loc[r].todo) >= 1
         /\ Head(loc[r].todo) = loc[r].todo[1] /\ 1 \in DOMAIN loc[r].todo
         /\ OnPath(loc[r]) =>
              /\ Walked(loc[r]) \in Nat /\ Walked(l) = Walked(loc[r]) + 1 /\ OnPath(l)
              /\ Head(loc[r].todo) = l.path[Walked(loc[r]) + 1]
              /\ Len(loc[r].todo) = 1 => Walked(l) = Len(l.path)
         /\ (\A k \in DOMAIN loc[r].todo : loc[r].todo[k] \notin VideoNames) =>
              \A k \in DOMAIN l.todo : l.todo[k] \notin VideoNames
<1>1. /\ loc \in [Req -> Locals] /\ loc[r] \in Locals /\ loc[r].todo # <<>>
      /\ loc[r].todo \in Seq(STRING) /\ loc[r].path \in Seq(STRING)
  BY InHand
<1>2. PICK t : t = Tail(loc[r].todo)
  OBVIOUS
<1>3. /\ l.at = n /\ l.node = loc[r].node /\ l.path = loc[r].path
      /\ l.name = loc[r].name /\ l.phase = loc[r].phase /\ l.todo = t
      /\ \A q \in Req \ {r} : loc'[q] = loc[q]
  BY <1>1, <1>2 DEF Enter, Locals
<1>4. PICK d : d = loc[r].todo
  OBVIOUS
<1>5. /\ Len(d) \in Nat /\ Len(d) >= 1 /\ 1 \in DOMAIN d /\ Head(d) = d[1]
      /\ DOMAIN d = 1 .. Len(d)
      /\ Len(t) = Len(d) - 1
      /\ DOMAIN t = 1 .. Len(d) - 1
      /\ \A k \in DOMAIN t : k + 1 \in DOMAIN d /\ t[k] = d[k + 1]
  BY <1>1, <1>2, <1>4, NamesToGo
<1>6. Len(loc[r].path) \in Nat
  BY <1>1, LenProperties
<1>7. ASSUME OnPath(loc[r])
      PROVE  /\ Walked(loc[r]) \in Nat /\ Walked(l) = Walked(loc[r]) + 1 /\ OnPath(l)
             /\ Head(loc[r].todo) = l.path[Walked(loc[r]) + 1]
             /\ Len(loc[r].todo) = 1 => Walked(l) = Len(l.path)
  <2>1. Walked(loc[r]) = Len(loc[r].path) - Len(d) /\ Walked(l) = Len(loc[r].path) - Len(t)
    BY <1>3, <1>4 DEF Walked
  <2>2. Walked(loc[r]) \in Nat /\ Walked(l) = Walked(loc[r]) + 1 /\ Len(t) <= Len(l.path)
    BY <1>3, <1>4, <1>5, <1>6, <1>7, <2>1 DEF OnPath
  <2>3. ASSUME NEW k \in DOMAIN t PROVE t[k] = l.path[Walked(l) + k]
    <3>1. d[k + 1] = loc[r].path[Walked(loc[r]) + (k + 1)]
      BY <1>4, <1>5, <1>7 DEF OnPath
    <3>2. Walked(loc[r]) + (k + 1) = Walked(l) + k
      BY <1>5, <2>2
    <3> QED BY <1>3, <1>5, <3>1, <3>2
  <2>4. Head(d) = l.path[Walked(loc[r]) + 1]
    BY <1>3, <1>4, <1>5, <1>7 DEF OnPath
  <2>5. OnPath(l)
    BY <1>3, <2>2, <2>3 DEF OnPath
  <2>6. Len(d) = 1 => Walked(l) = Len(l.path)
    BY <1>3, <1>5, <1>6, <2>1
  <2> QED BY <1>4, <2>2, <2>4, <2>5, <2>6
<1>8. (\A k \in DOMAIN d : d[k] \notin VideoNames) => \A k \in DOMAIN t : t[k] \notin VideoNames
  BY <1>5
<1> QED BY <1>2, <1>3, <1>4, <1>5, <1>7, <1>8

(***************************************************************************)
(* The steps, one by one.                                                  *)
(***************************************************************************)
LEMMA ReplyEnds ==
  ASSUME TreeInv, GraphInv', NEW r \in Req, r \in Active \/ Active = {},
         NEW code, Reply(r, code), UNCHANGED graphVars, ~Pends(r, pc[r], loc[r])
  PROVE  TreeInv'
<1>1. pc'[r] = "done" /\ Only(r)
  BY InHand DEF Reply, Only
<1> QED BY <1>1, Ends

LEMMA ArrivalTree ==
  ASSUME OneAtATime, NamesApart, TreeInv, GraphInv', NEW r \in Req, Start(r)
  PROVE  TreeInv'
<1>1. /\ pc[r] = "new" /\ UNCHANGED graphVars /\ Active = {}
      /\ loc \in [Req -> Locals] /\ pc \in [Req -> Steps]
  BY InHand, NobodyElse DEF Start, TreeInv
<1>2. Hung(r, pc[r], loc[r]) = {}
  BY <1>1, Idle
<1>3. CASE r \in Uploads
  <2>1. PICK p \in Folders, v \in VideoNames :
          loc' = [loc EXCEPT ![r].path = p, ![r].name = v]
    BY <1>3, Requests DEF Start
  <2>2. PICK l : l = [loc[r] EXCEPT !.path = p, !.name = v]
    OBVIOUS
  <2>3. /\ loc'[r] = l /\ l.path = p /\ l.name = v
        /\ \A q \in Req \ {r} : loc'[q] = loc[q]
    BY <1>1, <2>1, <2>2 DEF Locals
  <2>4. pc'[r] = "send" /\ Only(r)
    BY <1>1, <1>3, <2>3, Requests DEF Start, Goto, Only
  <2>5. Hung(r, "send", l) = {}
    BY DEF Hung, Pends
  <2>6. Work(r, "send", l)
    BY <2>3 DEF NamesApart, Work, FolderNames, UploadNames, Building, Removing, Going,
                Returning, InTree, Pends
  <2> QED BY <1>1, <1>2, <2>3, <2>4, <2>5, <2>6, QuietStep
<1>4. CASE r \notin Uploads
  <2>1. PICK p \in DeletePaths \cup GetPaths : loc' = [loc EXCEPT ![r].path = p, ![r].todo = <<Head(p)>>]
    BY <1>4 DEF Start
  <2>2. PICK l : l = [loc[r] EXCEPT !.path = p, !.todo = <<Head(p)>>]
    OBVIOUS
  <2>3. /\ loc'[r] = l /\ l.todo = <<Head(p)>>
        /\ \A q \in Req \ {r} : loc'[q] = loc[q]
    BY <1>1, <2>1, <2>2 DEF Locals
  <2>4. pc'[r] = "root" /\ Only(r)
    BY <1>1, <1>4, <2>3 DEF Start, Goto, Only
  <2>5. Hung(r, "root", l) = {}
    BY <1>4 DEF Hung, Pends
  <2>6. \A k \in DOMAIN l.todo : l.todo[k] \notin VideoNames
    BY <2>3 DEF NamesApart
  <2>7. Work(r, "root", l)
    BY <1>4, <2>6 DEF Work, FolderNames, UploadNames, Building, Removing, Going, Returning, Pends
  <2> QED BY <1>1, <1>2, <2>3, <2>4, <2>5, <2>7, QuietStep
<1> QED BY <1>3, <1>4

LEMMA StartWithoutPathTree ==
  ASSUME OneAtATime, TreeInv, GraphInv', NEW u \in Uploads, StartWithoutPath(u)
  PROVE  TreeInv'
<1>1. /\ u \in Req /\ pc[u] = "new" /\ UNCHANGED graphVars /\ Active = {} /\ Reply(u, 500)
  BY NobodyElse DEF StartWithoutPath, Throw, TreeInv, Req
<1>2. ~Pends(u, pc[u], loc[u])
  BY <1>1 DEF Pends
<1> QED BY <1>1, <1>2, ReplyEnds

LEMMA SendTree ==
  ASSUME OneAtATime, TreeInv, GraphInv', NEW u \in Uploads, Send(u) \/ SendExtra(u)
  PROVE  TreeInv'
<1>1. /\ u \in Req /\ UNCHANGED graphVars /\ pc[u] \in {"send", "extra"}
      /\ loc \in [Req -> Locals] /\ pc \in [Req -> Steps] /\ loc[u] \in Locals
      /\ u \in Active /\ ~Fails /\ Work(u, pc[u], loc[u])
  BY InHand, NothingFails DEF Send, SendExtra, Req
<1>2. ~Pends(u, pc[u], loc[u])
  BY <1>1 DEF Pends
<1>3. Hung(u, pc[u], loc[u]) = {}
  BY <1>2 DEF Hung
<1>4. CASE SendExtra(u)
  <2>1. Reply(u, 201)
    BY <1>1, <1>4 DEF SendExtra
  <2> QED BY <1>1, <1>2, <2>1, ReplyEnds
<1>5. CASE Send(u) /\ NextSlice(u)
  <2>1. pc'[u] = pc[u] /\ loc'[u] = loc[u] /\ Only(u)
    BY <1>5 DEF NextSlice, Only
  <2>2. PICK s, l : s = pc[u] /\ l = loc[u]
    OBVIOUS
  <2>3. pc'[u] = s /\ loc'[u] = l
    BY <2>1, <2>2
  <2>4. Hung(u, s, l) = Hung(u, pc[u], loc[u]) /\ Work(u, s, l)
    BY <1>1, <2>2
  <2> QED BY <1>1, <2>1, <2>3, <2>4, QuietStep
<1>6. CASE Send(u) /\ StartTree(u)
  <2>1. PICK l : l = [loc[u] EXCEPT !.phase = "tree", !.todo = loc[u].path]
    OBVIOUS
  <2>2. /\ loc'[u] = l /\ pc'[u] = "root" /\ Only(u)
        /\ l.phase = "tree" /\ l.todo = loc[u].path /\ l.path = loc[u].path
        /\ l.name = loc[u].name
    BY <1>1, <1>6, <2>1 DEF StartTree, Only, Locals
  <2>3. ~Pends(u, "root", l) /\ Hung(u, "root", l) = {}
    BY <2>2 DEF Pends, Hung
  <2>4. UploadNames(u, pc[u], loc[u])
    BY <1>1 DEF Work
  <2>5. FolderNames("root", l) /\ UploadNames(u, "root", l)
    BY <1>1, <2>2, <2>4 DEF FolderNames, UploadNames
  <2>6. /\ Building(u, "root", l) /\ Removing("root", l)
        /\ Going(u, "root", l) /\ Returning(u, "root", l)
    BY <2>3 DEF Building, Removing, Going, Returning
  <2> QED BY <1>1, <1>3, <2>2, <2>3, <2>5, <2>6, QuietStep DEF Work
<1> QED BY <1>1, <1>4, <1>5, <1>6 DEF Send

\* The root becomes the folder of r.
LEMMA RootLocals ==
  ASSUME RequestTypeOK, NEW r \in Req, NEW n, HaveRoot(r, n), NEW l, l = loc'[r]
  PROVE  /\ l.at = n /\ l.node = loc[r].node /\ l.path = loc[r].path /\ l.name = loc[r].name
         /\ l.phase = loc[r].phase /\ l.todo = loc[r].todo
         /\ pc'[r] = IF loc[r].phase = "tree" THEN "check" ELSE "son"
         /\ Only(r)
BY DEF HaveRoot, Goto, RequestTypeOK, Locals, Only

\* What is known of an upload that has the root.
LEMMA RootNames ==
  ASSUME TreeInv, NEW r \in Req, pc[r] \in {"root", "rootMake"}, NEW n, HaveRoot(r, n),
         NEW l, l = loc'[r], NEW s, s = pc'[r]
  PROVE  /\ FolderNames(s, l) /\ UploadNames(r, s, l) /\ Removing(s, l)
         /\ Pends(r, s, l) <=> Pends(r, pc[r], loc[r])
         /\ r \in Uploads => l.path \in Seq(STRING) /\ Walked(l) = 0
<1>1. /\ l.at = n /\ l.node = loc[r].node /\ l.path = loc[r].path /\ l.name = loc[r].name
      /\ l.phase = loc[r].phase /\ l.todo = loc[r].todo
      /\ s = IF loc[r].phase = "tree" THEN "check" ELSE "son"
      /\ loc[r].phase \in {"tree", "path"} /\ loc[r].path \in Seq(STRING)
      /\ FolderNames(pc[r], loc[r]) /\ UploadNames(r, pc[r], loc[r])
  BY RootLocals, InHand DEF Work
<1>2. Len(l.path) \in Nat
  BY <1>1, LenProperties
<1>3. r \in Uploads => l.todo = l.path /\ Walked(l) = 0
  BY <1>1, <1>2 DEF UploadNames, Walked
<1>4. r \in Uploads => OnPath(l)
  BY <1>1, <1>2, <1>3, LenProperties DEF OnPath
<1>5. FolderNames(s, l) /\ UploadNames(r, s, l)
  BY <1>1, <1>3, <1>4 DEF FolderNames, UploadNames, InTree
<1> QED BY <1>1, <1>3, <1>5 DEF Removing, Pends

LEMMA GetRootTree ==
  ASSUME OneAtATime, TreeInv, GraphInv', NEW r \in Req, GetRoot(r)
  PROVE  TreeInv'
<1>1. /\ pc[r] = "root" /\ UNCHANGED graphVars /\ ~Fails /\ r \in Active
      /\ RequestTypeOK /\ loc \in [Req -> Locals] /\ pc \in [Req -> Steps]
      /\ loc[r].phase \in {"tree", "path"}
      /\ FolderNames("root", loc[r]) /\ UploadNames(r, "root", loc[r])
      /\ Building(r, "root", loc[r]) /\ Returning(r, "root", loc[r])
  BY InHand, NothingFails DEF GetRoot, Work
<1>2. CASE RootCandidates = {} /\ Goto(r, "rootMake") /\ UNCHANGED loc
  <2>1. PICK l : l = loc[r]
    OBVIOUS
  <2>2. pc'[r] = "rootMake" /\ loc'[r] = l /\ Only(r)
    BY <1>1, <1>2, <2>1 DEF Goto, Only
  <2>3. Hung(r, "rootMake", l) = Hung(r, pc[r], loc[r])
    BY <1>1, <2>1 DEF Hung, Pends
  <2>4. Work(r, "rootMake", l)
    BY <1>1, <1>2, <2>1, <2>3 DEF Work, FolderNames, InTree, UploadNames, Building, Removing,
                                  Going, Returning, Pends
  <2> QED BY <1>1, <2>2, <2>3, <2>4, QuietStep
<1>3. ASSUME NEW n \in RootCandidates, HaveRoot(r, n) PROVE TreeInv'
  <2>1. PICK l, s : l = loc'[r] /\ s = pc'[r]
    OBVIOUS
  <2>2. /\ l.at = n /\ l.node = loc[r].node /\ l.path = loc[r].path /\ l.phase = loc[r].phase
        /\ s = IF loc[r].phase = "tree" THEN "check" ELSE "son"
        /\ Only(r)
    BY <1>1, <1>3, <2>1, RootLocals
  <2>3. /\ FolderNames(s, l) /\ UploadNames(r, s, l) /\ Removing(s, l)
        /\ Pends(r, s, l) <=> Pends(r, pc[r], loc[r])
        /\ r \in Uploads => Walked(l) = 0
    BY <1>1, <1>3, <2>1, RootNames
  <2>4. Hung(r, s, l) = Hung(r, pc[r], loc[r])
    BY <2>2, <2>3 DEF Hung
  <2>5. n \in Live /\ IsDirectory(n)
    BY DEF RootCandidates
  <2>6. Building(r, s, l)
    BY <1>1, <2>2, <2>3, <2>5 DEF Building
  <2>7. Going(r, s, l)
    <3>1. CASE s = "check"
      <4> PICK L, E, V, p : L = Live /\ E = edges /\ V = vertices /\ p = l.path
        OBVIOUS
      <4>1. PICK w : Leads(L, E, V, p, 0, w) /\ w[0] = n
        BY <2>5, WayBegins
      <4>2. Hung(r, s, l) = {}
        BY <3>1 DEF Hung, Pends
      <4>3. r \in Uploads => Way(Hung(r, s, l), l.path, Walked(l), w) /\ w[Walked(l)] = l.at
        BY <2>2, <2>3, <4>1, <4>2 DEF Way
      <4> QED BY <4>3 DEF Going
    <3> QED BY <2>2, <3>1 DEF Going
  <2>8. Returning(r, s, l)
    <3>1. CASE r \in Uploads /\ s = "son"
      <4>1. Pends(r, pc[r], loc[r])
        BY <1>1, <2>2, <3>1 DEF Pends
      <4>2. PICK w : Way(Hung(r, pc[r], loc[r]), loc[r].path, Len(loc[r].path), w)
        BY <1>1, <3>1, <4>1 DEF Returning
      <4>3. IsVideo(loc[r].node)
        BY <1>1, <4>1 DEF Building
      <4>4. n \notin Hung(r, pc[r], loc[r])
        BY <2>5, <4>3 DEF Hung, IsDirectory, IsVideo
      <4>5. OneRoot(Hung(r, pc[r], loc[r]))
        BY <1>1, OneHangs DEF WholeTree
      <4>6. w[0] = n
        BY <4>2, <4>4, <4>5 DEF Way, OneRoot
      <4> QED BY <2>2, <2>3, <2>4, <3>1, <4>2, <4>6 DEF Returning
    <3>2. CASE s = "check"
      BY <3>2 DEF Returning, Pends
    <3> QED BY <2>2, <3>1, <3>2 DEF Returning
  <2> QED BY <1>1, <2>1, <2>2, <2>3, <2>4, <2>6, <2>7, <2>8, QuietStep DEF Work
<1> QED BY <1>1, <1>2, <1>3 DEF GetRoot

LEMMA CreateRootTree ==
  ASSUME OneAtATime, TreeInv, GraphInv', NEW r \in Req, CreateRoot(r)
  PROVE  TreeInv'
<1>1. PICK n, l, s : n = NewRid /\ l = loc'[r] /\ s = pc'[r]
  OBVIOUS
<1>2. /\ pc[r] = "rootMake" /\ ~Fails /\ r \in Active /\ GraphTypeOK /\ Forest
      /\ RequestTypeOK /\ loc[r].phase \in {"tree", "path"}
      /\ RootCandidates = {} /\ Returning(r, "rootMake", loc[r])
      /\ CreateVertex(Directory(RootName)) /\ HaveRoot(r, n)
  BY <1>1, InHand, NothingFails DEF CreateRoot, Work, Building
<1>3. /\ l.at = n /\ l.phase = loc[r].phase
      /\ s = IF loc[r].phase = "tree" THEN "check" ELSE "son"
      /\ Only(r)
  BY <1>1, <1>2, RootLocals
<1>4. ~Pends(r, pc[r], loc[r])
  <2>1. SUFFICES ASSUME Pends(r, pc[r], loc[r]) PROVE FALSE
    OBVIOUS
  <2>2. r \in Uploads
    BY <1>2, <2>1 DEF Pends
  <2>3. PICK w : Way(Hung(r, pc[r], loc[r]), loc[r].path, Len(loc[r].path), w)
    BY <1>2, <2>1, <2>2 DEF Returning
  <2> QED BY <1>2, <2>3 DEF Way
<1>5. /\ FolderNames(s, l) /\ UploadNames(r, s, l)
      /\ ~Pends(r, s, l)
      /\ r \in Uploads => Walked(l) = 0
  BY <1>1, <1>2, <1>4, RootNames
<1>6. /\ Live' = Live \cup {n} /\ Out(n)' = {} /\ In(n)' = {} /\ vertices'[n] = Directory(RootName)
      /\ WholeTree({})'
  <2>1. WholeTree({})
    <3>1. Hung(r, pc[r], loc[r]) = {}
      BY <1>4 DEF Hung
    <3> QED BY <1>2, <3>1, OneHangs
  <2>2. Directory(RootName) \in Record /\ Directory(RootName).class = "Video_Directory"
    BY RecordType DEF Directory
  <2> QED BY <1>1, <1>2, <2>1, <2>2, VertexGraph, VertexTree
<1>7. n \in Live' /\ IsDirectory(n)' /\ n \in RootCandidates'
  BY <1>6 DEF IsDirectory, Directory, RootCandidates
<1>8. Hung(r, s, l)' = {} /\ Hung(r, s, l) = {} /\ ~Pends(r, s, l)'
  BY <1>5 DEF Hung, Pends
<1>9. Building(r, s, l)'
  <2>1. s \in {"check", "son"}
    BY <1>2, <1>3
  <2> QED BY <1>3, <1>7, <1>8, <2>1 DEF Building
<1>10. Going(r, s, l)'
  <2>1. PICK w : Leads(Live', edges', vertices', l.path, 0, w) /\ w[0] = n
    BY <1>7, WayBegins
  <2>2. Way({}, l.path, 0, w)'
    BY <1>7, <2>1, WayThere
  <2>3. r \in Uploads => Walked(l)' = 0
    BY <1>5 DEF Walked
  <2> QED BY <1>3, <1>8, <2>1, <2>2, <2>3 DEF Going
<1>11. Returning(r, s, l)' /\ Removing(s, l)'
  BY <1>2, <1>3, <1>8 DEF Returning, Removing
<1>12. FolderNames(s, l)' /\ UploadNames(r, s, l)'
  BY <1>5 DEF FolderNames, UploadNames, InTree, OnPath, Walked
<1>13. WholeTree(Hung(r, s, l))'
  BY <1>6, <1>8 DEF WholeTree, OneRoot, Rooted
<1> QED BY <1>1, <1>2, <1>3, <1>9, <1>10, <1>11, <1>12, <1>13, GoesOn DEF Work

\* A vertex with a folder's name is a folder.
LEMMA FoundFolder ==
  ASSUME VideosNamed, GraphTypeOK, NEW n \in Live, vertices[n].name \notin VideoNames
  PROVE  IsDirectory(n)
<1>1. n \in DOMAIN vertices /\ ~IsVideo(n)
  BY LiveType DEF VideosNamed
<1>2. vertices[n] \in Record
  BY <1>1 DEF GraphTypeOK
<1>3. vertices[n].class \in {"Video_Directory", "Video"}
  BY <1>2 DEF Record
<1> QED BY <1>1, <1>3 DEF IsDirectory, IsVideo

LEMMA LookUpTree ==
  ASSUME TreeInv, NEW r \in Req \ Uploads, LookUp(r)
  PROVE  \E l : /\ loc'[r] = l /\ pc'[r] = "root" /\ Only(r)
                /\ Work(r, "root", l) /\ Work(r, "root", l)'
                /\ Hung(r, "root", l) = {} /\ Hung(r, "root", l)' = {}
<1>1. PICK l : l = loc'[r]
  OBVIOUS
<1>2. l.phase = "path" /\ pc'[r] = "root" /\ Only(r)
  BY <1>1, InHand DEF LookUp, Goto, Only, Locals
<1>3. Hung(r, "root", l) = {} /\ Hung(r, "root", l)' = {}
  BY DEF Hung, Pends
<1>4. Work(r, "root", l) /\ Work(r, "root", l)'
  BY <1>2 DEF Work, FolderNames, UploadNames, Building, Removing, Going, Returning, InTree, Pends
<1> QED BY <1>1, <1>2, <1>3, <1>4

LEMMA CheckSonTree ==
  ASSUME OneAtATime, TreeInv, GraphInv', NEW r \in Req, CheckSon(r)
  PROVE  TreeInv'
<1>1. /\ pc[r] = "check" /\ UNCHANGED graphVars /\ ~Fails /\ r \in Active
      /\ RequestTypeOK /\ loc \in [Req -> Locals] /\ pc \in [Req -> Steps]
      /\ loc[r].todo \in Seq(STRING) /\ loc[r].todo # <<>> /\ GraphTypeOK
      /\ FolderNames("check", loc[r]) /\ UploadNames(r, "check", loc[r])
      /\ Building(r, "check", loc[r]) /\ Going(r, "check", loc[r])
  BY InHand, NothingFails DEF CheckSon, Work
<1>2. PICK name, rest : name = Head(loc[r].todo) /\ rest = loc[r].todo
  OBVIOUS
<1>3. /\ Len(rest) \in Nat /\ Len(rest) >= 1 /\ 1 \in DOMAIN rest /\ name = rest[1]
  BY <1>1, <1>2, NamesToGo
<1>4. Hung(r, pc[r], loc[r]) = {} /\ ~Pends(r, "check", loc[r])
  BY <1>1 DEF Hung, Pends
<1>5. CASE SonsByName(loc[r].at, name) = {} /\ Goto(r, "make") /\ UNCHANGED loc
  <2>1. PICK l : l = loc[r]
    OBVIOUS
  <2>2. pc'[r] = "make" /\ loc'[r] = l /\ Only(r)
    BY <1>1, <1>5, <2>1 DEF Goto, Only
  <2>3. Hung(r, "make", l) = {} /\ Hung(r, "check", l) = {} /\ ~Pends(r, "make", l)
    BY DEF Hung, Pends
  <2>4. FolderNames("make", l) /\ UploadNames(r, "make", l)
    BY <1>1, <2>1 DEF FolderNames, InTree, UploadNames
  <2>5. Building(r, "make", l)
    BY <1>1, <1>2, <1>5, <2>1, <2>3 DEF Building
  <2>6. Going(r, "make", l) /\ Returning(r, "make", l) /\ Removing("make", l)
    BY <1>1, <2>1, <2>3 DEF Going, Returning, Removing
  <2> QED BY <1>1, <1>4, <2>2, <2>3, <2>4, <2>5, <2>6, QuietStep DEF Work
<1>6. ASSUME NEW n \in SonsByName(loc[r].at, name),
             IF Len(rest) > 1 THEN Enter(r, n) /\ Goto(r, "check") ELSE TreeDone(r)
      PROVE  TreeInv'
  <2>1. /\ n \in Live /\ <<loc[r].at, n>> \in edges /\ vertices[n].name = name
        /\ n \in Nat
    BY <1>1, LiveType DEF SonsByName, Out
  <2>2. name \notin VideoNames
    BY <1>1, <1>2, <1>3 DEF FolderNames, InTree
  <2>3. VideosNamed
    BY <1>1, OneHangs DEF WholeTree
  <2>4. IsDirectory(n)
    BY <1>1, <2>1, <2>2, <2>3, FoundFolder
  <2>5. ASSUME r \in Uploads
        PROVE  /\ OnPath(loc[r])
               /\ \E x : /\ Way({}, loc[r].path, Walked(loc[r]) + 1, x)
                         /\ x[Walked(loc[r]) + 1] = n
    <3>1. PICK w : Way({}, loc[r].path, Walked(loc[r]), w) /\ w[Walked(loc[r])] = loc[r].at
      BY <1>1, <1>4, <2>5 DEF Going
    <3>2. OnPath(loc[r])
      BY <1>1, <2>5 DEF UploadNames
    <3>3. Walked(loc[r]) \in Nat /\ name = loc[r].path[Walked(loc[r]) + 1]
      BY <1>1, <1>2, <3>2, HalfWay
    <3> PICK L, E, V, p, k : /\ L = Live /\ E = edges /\ V = vertices
                             /\ p = loc[r].path /\ k = Walked(loc[r])
      OBVIOUS
    <3>4. /\ Leads(L, E, V, p, k, w) /\ k \in Nat /\ n \in L /\ <<w[k], n>> \in E
          /\ V[n].class = "Video_Directory" /\ V[n].name = p[k + 1]
      BY <2>1, <2>4, <3>1, <3>3 DEF Way, IsDirectory
    <3>5. PICK x : Leads(L, E, V, p, k + 1, x) /\ x[k + 1] = n /\ x[0] = w[0]
      BY <3>4, WayOn
    <3> QED BY <3>1, <3>2, <3>5 DEF Way
  <2>6. CASE Len(rest) > 1
    <3>1. PICK l : l = loc'[r]
      OBVIOUS
    <3>2. Enter(r, n) /\ Goto(r, "check")
      BY <1>6, <2>6
    <3>3. /\ l.at = n /\ l.path = loc[r].path /\ l.name = loc[r].name
          /\ l.todo = Tail(loc[r].todo)
          /\ \A q \in Req \ {r} : loc'[q] = loc[q]
          /\ OnPath(loc[r]) => Walked(l) = Walked(loc[r]) + 1 /\ OnPath(l)
          /\ \A k \in DOMAIN l.todo : l.todo[k] \notin VideoNames
      <4>1. \A k \in DOMAIN loc[r].todo : loc[r].todo[k] \notin VideoNames
        BY <1>1 DEF FolderNames, InTree
      <4>2. loc'[r] = l /\ Enter(r, n) /\ n \in Nat /\ pc[r] \in {"check", "link", "son"}
        BY <1>1, <2>1, <3>1, <3>2
      <4>3. /\ l.at = n /\ l.path = loc[r].path /\ l.name = loc[r].name
            /\ l.todo = Tail(loc[r].todo)
        BY <4>2, Down
      <4>4. \A q \in Req \ {r} : loc'[q] = loc[q]
        BY <4>2, Down
      <4>5. OnPath(loc[r]) => Walked(l) = Walked(loc[r]) + 1 /\ OnPath(l)
        BY <4>2, Down
      <4>6. \A k \in DOMAIN l.todo : l.todo[k] \notin VideoNames
        BY <4>1, <4>2, Down
      <4> QED BY <4>3, <4>4, <4>5, <4>6
    <3>4. pc'[r] = "check" /\ Only(r)
      BY <1>1, <3>2, <3>3 DEF Goto, Only
    <3>5. Hung(r, "check", l) = {} /\ ~Pends(r, "check", l)
      BY DEF Hung, Pends
    <3>6. FolderNames("check", l) /\ UploadNames(r, "check", l)
      BY <1>1, <2>5, <3>3 DEF FolderNames, UploadNames
    <3>7. Building(r, "check", l)
      BY <2>1, <2>4, <3>3, <3>5 DEF Building
    <3>8. Going(r, "check", l)
      BY <2>5, <3>3, <3>5 DEF Going
    <3>9. Returning(r, "check", l) /\ Removing("check", l)
      BY <3>5 DEF Returning, Removing
    <3> QED BY <1>1, <1>4, <3>1, <3>4, <3>5, <3>6, <3>7, <3>8, <3>9, QuietStep DEF Work
  <2>7. CASE ~(Len(rest) > 1) /\ r \in Uploads
    <3>1. Goto(r, "video") /\ UNCHANGED loc
      BY <1>6, <2>7 DEF TreeDone
    <3>2. PICK l : l = loc[r]
      OBVIOUS
    <3>3. pc'[r] = "video" /\ loc'[r] = l /\ Only(r)
      BY <1>1, <3>1, <3>2 DEF Goto, Only
    <3>4. Hung(r, "video", l) = {} /\ ~Pends(r, "video", l)
      BY DEF Hung, Pends
    <3>5. Walked(loc[r]) + 1 = Len(l.path)
      <4>1. OnPath(loc[r])
        BY <1>1, <2>7 DEF UploadNames
      <4> QED BY <1>1, <1>2, <2>7, <3>2, <4>1, HalfWay
    <3>6. Returning(r, "video", l)
      BY <2>5, <2>7, <3>2, <3>4, <3>5 DEF Returning
    <3>7. FolderNames("video", l) /\ UploadNames(r, "video", l)
      BY <1>1, <3>2 DEF FolderNames, InTree, UploadNames
    <3>8. Building(r, "video", l) /\ Going(r, "video", l) /\ Removing("video", l)
      BY <3>4 DEF Building, Going, Removing
    <3> QED BY <1>1, <1>4, <3>3, <3>4, <3>6, <3>7, <3>8, QuietStep DEF Work
  <2>8. CASE ~(Len(rest) > 1) /\ r \notin Uploads
    <3>1. LookUp(r)
      BY <1>6, <2>8 DEF TreeDone
    <3> QED BY <1>1, <1>4, <2>8, <3>1, LookUpTree, QuietStep
  <2> QED BY <2>6, <2>7, <2>8
<1> QED BY <1>1, <1>2, <1>5, <1>6 DEF CheckSon

LEMMA MakeDirectoryTree ==
  ASSUME OneAtATime, TreeInv, GraphInv', NEW r \in Req, MakeDirectory(r)
  PROVE  TreeInv'
<1>1. PICK n, l, name : n = NewRid /\ l = loc'[r] /\ name = Head(loc[r].todo)
  OBVIOUS
<1>2. /\ pc[r] = "make" /\ ~Fails /\ r \in Active /\ GraphTypeOK /\ Forest
      /\ loc \in [Req -> Locals] /\ pc \in [Req -> Steps] /\ loc[r] \in Locals
      /\ loc[r].todo \in Seq(STRING) /\ loc[r].todo # <<>>
      /\ FolderNames("make", loc[r]) /\ UploadNames(r, "make", loc[r])
      /\ Building(r, "make", loc[r]) /\ Going(r, "make", loc[r])
      /\ CreateVertex(Directory(name)) /\ loc' = [loc EXCEPT ![r].node = n] /\ Goto(r, "link")
  BY <1>1, InHand, NothingFails DEF MakeDirectory, Work
<1>3. /\ l.at = loc[r].at /\ l.node = n /\ l.path = loc[r].path /\ l.name = loc[r].name
      /\ l.todo = loc[r].todo /\ pc'[r] = "link" /\ Only(r)
  BY <1>1, <1>2 DEF Goto, Only, Locals
<1>4. Directory(name) \in Record /\ Directory(name).class = "Video_Directory"
  BY <1>1, <1>2, HeadTailProperties, RecordType DEF Directory
<1>5. Hung(r, pc[r], loc[r]) = {} /\ Hung(r, "make", loc[r]) = {}
  BY <1>2 DEF Hung, Pends
<1>6. /\ Live' = Live \cup {n} /\ n \notin Live /\ edges' = edges
      /\ \A m \in Live : vertices'[m] = vertices[m]
      /\ vertices'[n] = Directory(name)
      /\ \A m \in Live : Out(m)' = Out(m)
      /\ RootCandidates \subseteq RootCandidates'
      /\ RootCandidates \subseteq Live
  BY <1>1, <1>2, <1>4, VertexGraph DEF RootCandidates
<1>7. WholeTree({n})'
  BY <1>1, <1>2, <1>4, <1>5, OneHangs, VertexTree
<1>8. Hung(r, "link", l)' = {n} /\ Pends(r, "link", l)'
  BY <1>3 DEF Hung, Pends
<1>9. WholeTree(Hung(r, "link", l))'
  BY <1>7, <1>8 DEF WholeTree, OneRoot, Rooted
<1>10. FolderNames("link", l)' /\ UploadNames(r, "link", l)'
  BY <1>2, <1>3 DEF FolderNames, InTree, UploadNames, OnPath, Walked
<1>11. Building(r, "link", l)'
  <2>1. /\ l.at \in Live /\ IsDirectory(l.at) /\ SonsByName(l.at, name) = {}
        /\ Head(l.todo) = name
    BY <1>1, <1>2, <1>3 DEF Building
  <2>2. l.at \in Live' /\ IsDirectory(l.at)' /\ l.node # l.at /\ l.node \in Live'
    BY <1>3, <1>6, <2>1 DEF IsDirectory
  <2>3. SonsByName(l.at, Head(l.todo))' = {}
    <3>1. Out(l.at)' = Out(l.at) /\ Out(l.at) \subseteq Live
      BY <1>6, <2>1 DEF Out
    <3> QED BY <1>6, <2>1, <3>1 DEF SonsByName
  <2>4. vertices'[l.node] = Directory(Head(l.todo))
    BY <1>3, <1>6, <2>1
  <2> QED BY <2>2, <2>3, <2>4 DEF Building, Directory
<1>12. Going(r, "link", l)'
  <2>1. CASE r \in Uploads
    <3>1. PICK k, w : /\ k = Walked(loc[r]) /\ Way({}, l.path, k, w) /\ w[k] = loc[r].at
                      /\ k \in Nat
      <4>1. OnPath(loc[r])
        BY <1>2, <2>1 DEF UploadNames
      <4>2. Walked(loc[r]) \in Nat
        BY <1>2, <4>1, HalfWay
      <4> QED BY <1>2, <1>3, <1>5, <2>1, <4>2 DEF Going
    <3>2. RootCandidates \ {} \subseteq RootCandidates' \ {n}
      BY <1>6
    <3>3. Way({n}, l.path, k, w)'
      BY <1>6, <3>1, <3>2, WayStays
    <3>4. Walked(l)' = k
      BY <1>3, <3>1 DEF Walked
    <3> QED BY <1>3, <1>8, <3>1, <3>3, <3>4 DEF Going
  <2> QED BY <2>1 DEF Going
<1>13. Returning(r, "link", l)' /\ Removing("link", l)'
  BY DEF Returning, Removing
<1> QED BY <1>1, <1>2, <1>3, <1>9, <1>10, <1>11, <1>12, <1>13, GoesOn DEF Work

LEMMA CreateVideoTree ==
  ASSUME OneAtATime, TreeInv, GraphInv', NEW u \in Uploads, CreateVideo(u)
  PROVE  TreeInv'
<1>1. PICK n, l, v : n = NewRid /\ l = loc'[u] /\ v = Video(loc[u].name, u)
  OBVIOUS
<1>2. /\ u \in Req /\ pc[u] = "video" /\ ~Fails /\ u \in Active /\ GraphTypeOK /\ Forest
      /\ loc \in [Req -> Locals] /\ pc \in [Req -> Steps] /\ loc[u] \in Locals
      /\ loc[u].path \in Seq(STRING)
      /\ UploadNames(u, "video", loc[u]) /\ Returning(u, "video", loc[u])
      /\ CreateVertex(v) /\ Goto(u, "root")
      /\ loc' = [loc EXCEPT ![u].node = n, ![u].phase = "path",
                            ![u].todo = loc[u].path, ![u].at = NoRid]
  <2>1. u \in Req /\ pc[u] = "video"
    BY DEF CreateVideo, Req
  <2>2. /\ ~Fails /\ u \in Active /\ GraphTypeOK /\ Forest
        /\ loc \in [Req -> Locals] /\ pc \in [Req -> Steps] /\ loc[u] \in Locals
        /\ loc[u].path \in Seq(STRING) /\ Work(u, "video", loc[u])
    BY <2>1, InHand, NothingFails
  <2>3. /\ CreateVertex(v) /\ Goto(u, "root")
        /\ loc' = [loc EXCEPT ![u].node = n, ![u].phase = "path",
                              ![u].todo = loc[u].path, ![u].at = NoRid]
    BY <1>1, <2>2 DEF CreateVideo
  <2> QED BY <2>1, <2>2, <2>3 DEF Work
<1>3. /\ l.node = n /\ l.path = loc[u].path /\ l.name = loc[u].name /\ l.phase = "path"
      /\ l.todo = l.path /\ pc'[u] = "root" /\ Only(u)
  BY <1>1, <1>2 DEF Goto, Only, Locals
<1>4. v \in Record /\ v.class = "Video" /\ v.name \in VideoNames
  <2>1. loc[u].name \in VideoNames
    BY <1>2 DEF UploadNames
  <2>2. v.class = "Video" /\ v.name = loc[u].name
    BY <1>1 DEF Video
  <2>3. v \in Record
    BY <1>1, <1>2, RecordType DEF Locals
  <2> QED BY <2>1, <2>2, <2>3
<1>5. Hung(u, pc[u], loc[u]) = {} /\ Hung(u, "video", loc[u]) = {}
  BY <1>2 DEF Hung, Pends
<1>6. /\ Live' = Live \cup {n} /\ n \notin Live /\ edges' = edges
      /\ \A m \in Live : vertices'[m] = vertices[m]
      /\ vertices'[n] = v
      /\ RootCandidates \subseteq RootCandidates'
      /\ RootCandidates \subseteq Live
  BY <1>1, <1>2, <1>4, VertexGraph DEF RootCandidates
<1>7. WholeTree({n})'
  BY <1>1, <1>2, <1>4, <1>5, OneHangs, VertexTree
<1>8. Hung(u, "root", l)' = {n} /\ Pends(u, "root", l)'
  BY <1>3 DEF Hung, Pends
<1>9. WholeTree(Hung(u, "root", l))'
  BY <1>7, <1>8 DEF WholeTree, OneRoot, Rooted
<1>10. FolderNames("root", l)' /\ UploadNames(u, "root", l)'
  BY <1>2, <1>3 DEF FolderNames, InTree, UploadNames
<1>11. Building(u, "root", l)'
  BY <1>3, <1>4, <1>6 DEF Building, IsVideo
<1>12. Returning(u, "root", l)'
  <2>1. PICK k, w : k = Len(l.path) /\ Way({}, l.path, k, w) /\ k \in Nat
    <3>1. Len(l.path) \in Nat
      BY <1>2, <1>3, LenProperties
    <3>2. \E w : Way({}, l.path, Len(l.path), w)
      BY <1>2, <1>3, <1>5 DEF Returning
    <3> QED BY <3>1, <3>2
  <2>2. RootCandidates \ {} \subseteq RootCandidates' \ {n}
    BY <1>6
  <2>3. Way({n}, l.path, k, w)'
    BY <1>6, <2>1, <2>2, WayStays
  <2> QED BY <1>8, <2>1, <2>3 DEF Returning
<1>13. Going(u, "root", l)' /\ Removing("root", l)'
  BY DEF Going, Removing
<1> QED BY <1>1, <1>2, <1>3, <1>9, <1>10, <1>11, <1>12, <1>13, GoesOn DEF Work

LEMMA LinkDirectoryTree ==
  ASSUME OneAtATime, TreeInv, GraphInv', NEW r \in Req, LinkDirectory(r)
  PROVE  TreeInv'
<1>1. PICK n, f, name : n = loc[r].node /\ f = loc[r].at /\ name = Head(loc[r].todo)
  OBVIOUS
<1>2. /\ pc[r] = "link" /\ ~Fails /\ r \in Active /\ GraphTypeOK /\ Forest
      /\ loc \in [Req -> Locals] /\ pc \in [Req -> Steps] /\ loc[r] \in Locals
      /\ loc[r].todo # <<>> /\ Work(r, "link", loc[r]) /\ Live \subseteq Nat
  BY InHand, NothingFails, LiveType DEF LinkDirectory
<1>3. /\ FolderNames("link", loc[r]) /\ UploadNames(r, "link", loc[r])
      /\ Building(r, "link", loc[r]) /\ Going(r, "link", loc[r])
  BY <1>2 DEF Work
<1>4. Pends(r, "link", loc[r]) /\ Hung(r, pc[r], loc[r]) = {n} /\ Hung(r, "link", loc[r]) = {n}
  BY <1>1, <1>2 DEF Hung, Pends
<1>5. /\ f \in Live /\ IsDirectory(f) /\ SonsByName(f, name) = {}
      /\ n # f /\ vertices[n] = Directory(name) /\ n \in Live
  BY <1>1, <1>3, <1>4 DEF Building
<1>6. /\ CreateEdge(f, n)
      /\ IF Len(loc[r].todo) > 1 THEN Enter(r, n) /\ Goto(r, "check") ELSE TreeDone(r)
  BY <1>1, <1>2, <1>5 DEF LinkDirectory, CanLink
<1>7. /\ vertices' = vertices /\ Live' = Live /\ edges' = edges \cup {<<f, n>>}
      /\ RootCandidates' = RootCandidates \ {n}
  BY <1>2, <1>6, EdgeGraph
<1>8. WholeTree({})'
  <2>1. WholeTree({n})
    BY <1>2, <1>4, OneHangs
  <2>2. vertices[n].name = name
    BY <1>5 DEF Directory
  <2> QED BY <1>2, <1>5, <1>6, <2>1, <2>2, EdgeTree
<1>9. n \in Live' /\ IsDirectory(n)'
  BY <1>5, <1>7 DEF IsDirectory, Directory
<1>10. ASSUME r \in Uploads, NEW p, p = loc[r].path, NEW k, k = Walked(loc[r])
       PROVE  /\ OnPath(loc[r]) /\ k \in Nat
              /\ \E x : Way({}, p, k + 1, x)' /\ x[k + 1] = n
  <2>1. OnPath(loc[r])
    BY <1>3, <1>10 DEF UploadNames
  <2>2. k \in Nat /\ name = p[k + 1]
    BY <1>1, <1>2, <1>10, <2>1, HalfWay
  <2>3. PICK w : Way({n}, p, k, w) /\ w[k] = f
    BY <1>1, <1>3, <1>4, <1>10 DEF Going
  <2>4. RootCandidates \ {n} \subseteq RootCandidates' \ {}
    BY <1>7
  <2>5. Leads(Live', edges', vertices', p, k, w) /\ Way({}, p, k, w)'
    BY <1>7, <2>2, <2>3, <2>4, WayStays
  <2> PICK L, E, V : L = Live' /\ E = edges' /\ V = vertices'
    OBVIOUS
  <2>6. /\ Leads(L, E, V, p, k, w) /\ n \in L /\ <<w[k], n>> \in E
        /\ V[n].class = "Video_Directory" /\ V[n].name = p[k + 1]
    BY <1>5, <1>7, <2>2, <2>3, <2>5 DEF Directory
  <2>7. PICK x : Leads(L, E, V, p, k + 1, x) /\ x[k + 1] = n /\ x[0] = w[0]
    BY <2>2, <2>6, WayOn
  <2>8. x[0] \in RootCandidates' \ {}
    BY <2>3, <2>4, <2>7 DEF Way
  <2>9. Way({}, p, k + 1, x)'
    BY <2>7, <2>8, WayThere
  <2> QED BY <2>1, <2>2, <2>7, <2>9
<1>11. CASE Len(loc[r].todo) > 1
  <2>1. PICK l : l = loc'[r]
    OBVIOUS
  <2>2. Enter(r, n) /\ Goto(r, "check") /\ loc'[r] = l
    BY <1>6, <1>11, <2>1
  <2>3. n \in Nat /\ pc[r] \in {"check", "link", "son"}
    BY <1>2, <1>5
  <2>4. \A k \in DOMAIN loc[r].todo : loc[r].todo[k] \notin VideoNames
    BY <1>3 DEF FolderNames, InTree
  <2>5. l.at = n /\ l.path = loc[r].path /\ l.name = loc[r].name
    BY <2>2, <2>3, Down
  <2>6. \A q \in Req \ {r} : loc'[q] = loc[q]
    BY <2>2, <2>3, Down
  <2>7. OnPath(loc[r]) => Walked(l) = Walked(loc[r]) + 1 /\ OnPath(l)
    BY <2>2, <2>3, Down
  <2>8. \A k \in DOMAIN l.todo : l.todo[k] \notin VideoNames
    BY <2>2, <2>3, <2>4, Down
  <2>9. pc'[r] = "check" /\ Only(r)
    BY <1>2, <2>2, <2>6 DEF Goto, Only
  <2>10. Hung(r, "check", l)' = {} /\ ~Pends(r, "check", l)'
    BY DEF Hung, Pends
  <2>11. FolderNames("check", l)'
    BY <2>8 DEF FolderNames
  <2>12. UploadNames(r, "check", l)'
    <3>1. r \in Uploads => OnPath(l)
      BY <1>3, <2>7 DEF UploadNames
    <3> QED BY <1>3, <2>5, <3>1 DEF UploadNames, OnPath, Walked
  <2>13. Building(r, "check", l)'
    BY <1>9, <2>5, <2>10 DEF Building
  <2>14. Going(r, "check", l)'
    <3>1. CASE r \in Uploads
      <4>1. PICK k, x : Way({}, l.path, k + 1, x)' /\ x[k + 1] = n /\ k = Walked(loc[r])
        BY <1>10, <2>5, <3>1
      <4>2. Walked(l) = k + 1
        BY <1>10, <2>7, <3>1, <4>1
      <4>3. Walked(l)' = k + 1
        BY <4>2 DEF Walked
      <4> QED BY <2>5, <2>10, <4>1, <4>3 DEF Going
    <3> QED BY <3>1 DEF Going
  <2>15. Returning(r, "check", l)' /\ Removing("check", l)'
    BY <2>10 DEF Returning, Removing
  <2>16. WholeTree(Hung(r, "check", l))'
    BY <1>8, <2>10 DEF WholeTree, OneRoot, Rooted
  <2> QED BY <1>2, <2>2, <2>9, <2>11, <2>12, <2>13, <2>14, <2>15, <2>16, GoesOn DEF Work
<1>12. CASE ~(Len(loc[r].todo) > 1) /\ r \in Uploads
  <2>1. PICK l : l = loc[r]
    OBVIOUS
  <2>2. Goto(r, "video") /\ UNCHANGED loc
    BY <1>6, <1>12 DEF TreeDone
  <2>3. pc'[r] = "video" /\ loc'[r] = l /\ Only(r)
    BY <1>2, <2>1, <2>2 DEF Goto, Only
  <2>4. Hung(r, "video", l)' = {} /\ ~Pends(r, "video", l)'
    BY DEF Hung, Pends
  <2>5. FolderNames("video", l)' /\ UploadNames(r, "video", l)'
    BY <1>3, <2>1 DEF FolderNames, InTree, UploadNames
  <2>6. Returning(r, "video", l)'
    <3>1. PICK k, x : /\ Way({}, l.path, k + 1, x)' /\ k = Walked(loc[r])
                      /\ OnPath(loc[r])
      BY <1>10, <1>12, <2>1
    <3>2. k + 1 = Len(l.path)
      BY <1>2, <1>12, <2>1, <3>1, HalfWay
    <3>3. Way({}, l.path, Len(l.path), x)'
      BY <3>1, <3>2 DEF Way, Leads
    <3> QED BY <2>4, <3>3 DEF Returning
  <2>7. Building(r, "video", l)' /\ Going(r, "video", l)' /\ Removing("video", l)'
    BY <2>4 DEF Building, Going, Removing
  <2>8. WholeTree(Hung(r, "video", l))'
    BY <1>8, <2>4 DEF WholeTree, OneRoot, Rooted
  <2> QED BY <1>2, <2>3, <2>5, <2>6, <2>7, <2>8, GoesOn DEF Work
<1>13. CASE ~(Len(loc[r].todo) > 1) /\ r \notin Uploads
  <2>1. PICK l : /\ loc'[r] = l /\ pc'[r] = "root" /\ Only(r)
                 /\ Work(r, "root", l)' /\ Hung(r, "root", l)' = {}
    BY <1>6, <1>13, LookUpTree DEF TreeDone
  <2>2. WholeTree(Hung(r, "root", l))'
    BY <1>8, <2>1 DEF WholeTree, OneRoot, Rooted
  <2> QED BY <1>2, <2>1, <2>2, GoesOn
<1> QED BY <1>11, <1>12, <1>13

\* The next folder of its path is the one an upload has been through.
LEMMA NextFolder ==
  ASSUME TreeInv, NEW r \in Uploads, pc[r] = "son"
  PROVE  \E w : /\ Way(Hung(r, "son", loc[r]), loc[r].path, Len(loc[r].path), w)
                /\ w[Walked(loc[r]) + 1] \in SonsByName(loc[r].at, Head(loc[r].todo))
                /\ \A n \in SonsByName(loc[r].at, Head(loc[r].todo)) :
                     n = w[Walked(loc[r]) + 1]
<1>1. /\ r \in Req /\ GraphTypeOK /\ loc[r] \in Locals /\ loc[r].todo # <<>> /\ Forest
      /\ UploadNames(r, "son", loc[r]) /\ Returning(r, "son", loc[r])
      /\ WholeTree(Hung(r, "son", loc[r]))
  <2>1. r \in Req /\ r \in Active
    BY DEF Req, Active
  <2> QED BY <2>1, InHand, OneHangs DEF Work
<1>2. OnPath(loc[r])
  BY <1>1 DEF UploadNames
<1>3. PICK p, m, k, name : /\ p = loc[r].path /\ m = Len(p) /\ k = Walked(loc[r])
                           /\ name = Head(loc[r].todo)
  OBVIOUS
<1>4. k \in Nat /\ name = p[k + 1] /\ k + 1 \in 1 .. m
  BY <1>1, <1>2, <1>3, HalfWay
<1>5. Pends(r, "son", loc[r])
  BY DEF Pends
<1>6. PICK w : Way(Hung(r, "son", loc[r]), p, m, w) /\ loc[r].at = w[k]
  BY <1>1, <1>3, <1>5 DEF Returning
<1>7. Leads(Live, edges, vertices, p, m, w)
  BY <1>6 DEF Way
<1>8. /\ <<w[k], w[k + 1]>> \in edges /\ w[k + 1] \in Live
      /\ vertices[w[k + 1]].class = "Video_Directory" /\ vertices[w[k + 1]].name = name
  <2>1. (k + 1) - 1 = k /\ k + 1 \in 0 .. m
    BY <1>4
  <2> QED BY <1>4, <1>7, <2>1 DEF Leads
<1>9. w[k + 1] \in SonsByName(loc[r].at, name)
  BY <1>6, <1>8 DEF SonsByName, Out
<1>10. ASSUME NEW n \in SonsByName(loc[r].at, name) PROVE n = w[k + 1]
  <2>1. n \in Live /\ n \in Out(loc[r].at) /\ vertices[n].name = name
    BY DEF SonsByName, Out
  <2>2. name \in {p[j] : j \in DOMAIN p} /\ name \notin VideoNames
    <3>1. k + 1 \in DOMAIN p
      BY <1>1, <1>3, <1>4, LenProperties DEF Locals
    <3> QED BY <1>1, <1>3, <1>4, <3>1 DEF UploadNames
  <2>3. IsDirectory(n)
    BY <1>1, <2>1, <2>2, FoundFolder DEF WholeTree
  <2>4. loc[r].at \in Live /\ w[k + 1] \in Out(loc[r].at) /\ IsDirectory(w[k + 1])
    BY <1>1, <1>6, <1>8 DEF Forest, Out, IsDirectory
  <2> QED BY <1>1, <1>8, <2>1, <2>3, <2>4 DEF WholeTree, SonsApart
<1> QED BY <1>3, <1>6, <1>9, <1>10

LEMMA FindSonTree ==
  ASSUME OneAtATime, TreeInv, GraphInv', NEW r \in Req, FindSon(r)
  PROVE  TreeInv'
<1>1. /\ pc[r] = "son" /\ UNCHANGED graphVars /\ ~Fails /\ r \in Active
      /\ RequestTypeOK /\ loc \in [Req -> Locals] /\ pc \in [Req -> Steps] /\ loc[r] \in Locals
      /\ loc[r].todo # <<>> /\ GraphTypeOK /\ Forest /\ Work(r, "son", loc[r])
  BY InHand, NothingFails DEF FindSon
<1>2. ASSUME NEW n \in SonsByName(loc[r].at, Head(loc[r].todo)), Enter(r, n),
             NEW s, s = IF Len(loc[r].todo) > 1 THEN "son" ELSE AfterLookUp(r, n),
             Goto(r, s)
      PROVE  TreeInv'
  <2>1. PICK l : loc'[r] = l
    OBVIOUS
  <2>2. n \in Nat /\ n \in Live /\ <<loc[r].at, n>> \in edges
    BY <1>1, LiveType DEF SonsByName, Out
  <2>3. pc[r] \in {"check", "link", "son"}
    BY <1>1
  <2>4. l.at = n /\ l.node = loc[r].node /\ l.path = loc[r].path /\ l.name = loc[r].name
    BY <1>2, <2>1, <2>2, <2>3, Down
  <2>5. \A q \in Req \ {r} : loc'[q] = loc[q]
    BY <1>2, <2>1, <2>2, <2>3, Down
  <2>6. OnPath(loc[r]) => Walked(l) = Walked(loc[r]) + 1 /\ OnPath(l)
    BY <1>2, <2>1, <2>2, <2>3, Down
  <2>7. pc'[r] = s /\ Only(r)
    BY <1>1, <1>2, <2>5 DEF Goto, Only
  <2>8. CASE r \in Uploads
    <3>1. /\ UploadNames(r, "son", loc[r]) /\ Building(r, "son", loc[r])
          /\ Pends(r, "son", loc[r])
      BY <1>1, <2>8 DEF Work, Pends
    <3>2. OnPath(loc[r])
      BY <2>8, <3>1 DEF UploadNames
    <3>3. s \in {"son", "attach"}
      BY <1>2, <2>8, Requests DEF AfterLookUp
    <3>4. Pends(r, s, l) /\ Hung(r, s, l) = Hung(r, "son", loc[r])
      BY <2>4, <2>8, <3>1, <3>3 DEF Pends, Hung
    <3>5. PICK w : /\ Way(Hung(r, "son", loc[r]), loc[r].path, Len(loc[r].path), w)
                   /\ n = w[Walked(loc[r]) + 1]
      BY <1>1, <1>2, <2>8, NextFolder
    <3>6. Way(Hung(r, s, l), l.path, Len(l.path), w) /\ l.at = w[Walked(l)]
      BY <2>4, <2>6, <3>2, <3>4, <3>5
    <3>7. s = "attach" => Walked(l) = Len(l.path)
      <4>1. s = "attach" => ~(Len(loc[r].todo) > 1)
        BY <1>2
      <4> QED BY <1>1, <2>4, <2>6, <3>2, <4>1, HalfWay
    <3>8. Returning(r, s, l)
      BY <3>6, <3>7 DEF Returning
    <3>9. FolderNames(s, l) /\ UploadNames(r, s, l)
      BY <2>4, <2>6, <3>1, <3>2, <3>3 DEF FolderNames, InTree, UploadNames
    <3>10. Building(r, s, l)
      BY <2>4, <3>1, <3>3 DEF Building
    <3>11. Going(r, s, l) /\ Removing(s, l)
      BY <3>3 DEF Going, Removing
    <3> QED BY <1>1, <2>1, <2>7, <3>4, <3>8, <3>9, <3>10, <3>11, QuietStep DEF Work
  <2>9. CASE r \notin Uploads
    <3>1. s \in {"son", "leaf", "read", "list"}
      BY <1>2, <2>9 DEF AfterLookUp, Req
    <3>2. ~Pends(r, s, l) /\ ~Pends(r, "son", loc[r])
      BY <2>9, <3>1 DEF Pends
    <3>3. Hung(r, s, l) = {} /\ Hung(r, pc[r], loc[r]) = {}
      BY <1>1, <3>2 DEF Hung
    <3>4. loc[r].at \in In(n)
      BY <1>1, <2>2 DEF Forest, In
    <3>5. Removing(s, l)
      BY <2>2, <2>4, <3>1, <3>4 DEF Removing
    <3>6. FolderNames(s, l) /\ UploadNames(r, s, l)
      BY <2>9, <3>1 DEF FolderNames, InTree, UploadNames
    <3>7. Building(r, s, l) /\ Going(r, s, l) /\ Returning(r, s, l)
      BY <2>9, <3>1, <3>2 DEF Building, Going, Returning
    <3> QED BY <1>1, <2>1, <2>7, <3>3, <3>5, <3>6, <3>7, QuietStep DEF Work
  <2> QED BY <2>8, <2>9
<1>3. CASE SonsByName(loc[r].at, Head(loc[r].todo)) = {} /\ LookUpFailed(r)
  <2>1. r \notin Uploads
    BY <1>1, <1>3, NextFolder
  <2>2. ~Pends(r, pc[r], loc[r])
    BY <1>1, <2>1 DEF Pends
  <2> QED BY <1>1, <1>3, <2>2, ReplyEnds DEF LookUpFailed
<1> QED BY <1>1, <1>2, <1>3 DEF FindSon

LEMMA AttachVideoTree ==
  ASSUME OneAtATime, TreeInv, GraphInv', NEW u \in Uploads, AttachVideo(u)
  PROVE  TreeInv'
<1>1. PICK n, f, l, s : n = loc[u].node /\ f = loc[u].at /\ l = loc[u] /\ s = pc'[u]
  OBVIOUS
<1>2. /\ u \in Req /\ pc[u] = "attach" /\ ~Fails /\ u \in Active /\ GraphTypeOK /\ Forest
      /\ loc \in [Req -> Locals] /\ pc \in [Req -> Steps] /\ loc[u] \in Locals
      /\ loc[u].path # <<>> /\ Work(u, "attach", loc[u])
  <2>1. u \in Req /\ pc[u] = "attach"
    BY DEF AttachVideo, Req
  <2> QED BY <2>1, InHand, NothingFails
<1>3. Pends(u, "attach", loc[u]) /\ Hung(u, pc[u], loc[u]) = {n}
  BY <1>1, <1>2 DEF Pends, Hung
<1>4. n \in Live /\ IsVideo(n) /\ UploadNames(u, "attach", loc[u])
  BY <1>1, <1>2, <1>3 DEF Work, Building
<1>5. f \in Live /\ IsDirectory(f)
  <2>1. PICK p, m, w : /\ p = loc[u].path /\ m = Len(p) /\ f = w[m]
                       /\ Way(Hung(u, "attach", loc[u]), p, m, w)
    BY <1>1, <1>2, <1>3 DEF Work, Returning
  <2>2. m \in Nat /\ m >= 1
    BY <1>2, <2>1, NamesToGo DEF Locals
  <2>3. m \in 1 .. m /\ m \in 0 .. m
    BY <2>2
  <2> QED BY <2>1, <2>3 DEF Way, Leads, IsDirectory
<1>6. CreateEdge(f, n) /\ AnswerUpload(u, 201)
  BY <1>1, <1>2, <1>4, <1>5 DEF AttachVideo, CanLink
<1>7. WholeTree({})'
  <2>1. WholeTree({n}) /\ f # n
    BY <1>2, <1>3, <1>4, <1>5, OneHangs DEF IsDirectory, IsVideo
  <2> QED BY <1>2, <1>4, <1>5, <1>6, <2>1, EdgeTree
<1>8. s \in {"extra", "done"} /\ loc'[u] = l /\ Only(u)
  BY <1>1, <1>2, <1>6 DEF AnswerUpload, Reply, Only
<1>9. ~Pends(u, s, l)' /\ Hung(u, s, l)' = {}
  BY <1>8 DEF Pends, Hung
<1>10. FolderNames(s, l)' /\ UploadNames(u, s, l)'
  BY <1>1, <1>4, <1>8 DEF FolderNames, InTree, UploadNames
<1>11. Building(u, s, l)' /\ Removing(s, l)' /\ Going(u, s, l)' /\ Returning(u, s, l)'
  BY <1>8, <1>9 DEF Building, Removing, Going, Returning
<1>12. WholeTree(Hung(u, s, l))'
  BY <1>7, <1>9 DEF WholeTree, OneRoot, Rooted
<1> QED BY <1>1, <1>2, <1>8, <1>10, <1>11, <1>12, GoesOn DEF Work

\* deleteNodeById: only a vertex without sons is loaded, and removed.
LEMMA StillLeaf ==
  ASSUME TreeInv, NEW d \in Deletes, pc[d] \in {"leaf", "load", "remove", "unlink", "commit"}
  PROVE  /\ d \in Req /\ d \notin Uploads /\ d \in Active /\ Removing(pc[d], loc[d])
         /\ ~Pends(d, pc[d], loc[d]) /\ WholeTree({})
<1>1. d \in Req /\ d \notin Uploads /\ d \in Active
  BY Requests DEF Req, Active
<1>2. ~Pends(d, pc[d], loc[d])
  BY <1>1 DEF Pends
<1>3. Hung(d, pc[d], loc[d]) = {}
  BY <1>2 DEF Hung
<1>4. Work(d, pc[d], loc[d])
  BY <1>1 DEF TreeInv
<1> QED BY <1>1, <1>2, <1>3, <1>4, OneHangs DEF Work

\* A step of a delete that goes on to s with the same vertex.
LEMMA DeleteGoesOn ==
  ASSUME TreeInv, GraphInv', NEW d \in Deletes,
         pc[d] \in {"leaf", "load", "remove", "unlink", "commit"},
         NEW s \in {"load", "remove", "unlink", "commit"}, pc'[d] = s, Only(d),
         UNCHANGED graphVars, loc'[d].at = loc[d].at, Out(loc[d].at) = {}
  PROVE  TreeInv'
<1>1. PICK l : l = loc'[d]
  OBVIOUS
<1>2. /\ d \in Req /\ d \notin Uploads /\ d \in Active /\ Removing(pc[d], loc[d])
      /\ ~Pends(d, pc[d], loc[d])
  BY StillLeaf
<1>3. Hung(d, pc[d], loc[d]) = {} /\ Hung(d, s, l) = {} /\ ~Pends(d, s, l)
  BY <1>2 DEF Hung, Pends
<1>4. Removing(s, l)
  BY <1>1, <1>2 DEF Removing
<1>5. FolderNames(s, l) /\ UploadNames(d, s, l)
  BY <1>2 DEF FolderNames, InTree, UploadNames
<1>6. Building(d, s, l) /\ Going(d, s, l) /\ Returning(d, s, l)
  BY <1>2, <1>3 DEF Building, Going, Returning
<1> QED BY <1>1, <1>2, <1>3, <1>4, <1>5, <1>6, QuietStep DEF Work

LEMMA CheckLeafTree ==
  ASSUME OneAtATime, TreeInv, GraphInv', NEW d \in Deletes, CheckLeaf(d)
  PROVE  TreeInv'
<1>1. /\ pc[d] = "leaf" /\ UNCHANGED graphVars
      /\ IF Content(loc[d].at) = {} THEN Goto(d, "load") /\ UNCHANGED loc ELSE Reply(d, 501)
  BY InHand, NothingFails DEF CheckLeaf, TreeInv, GraphInv
<1>2. /\ d \in Req /\ d \in Active /\ Removing("leaf", loc[d])
      /\ ~Pends(d, pc[d], loc[d]) /\ WholeTree({})
  BY <1>1, StillLeaf
<1>3. CASE Content(loc[d].at) = {} /\ Goto(d, "load") /\ UNCHANGED loc
  <2>1. Out(loc[d].at) = {}
    <3>1. ~IsDirectory(loc[d].at) => \A e \in edges : e[1] # loc[d].at
      BY <1>2 DEF WholeTree, DirectoriesHaveSons
    <3> QED BY <1>3, <3>1 DEF Content, Out
  <2>2. pc'[d] = "load" /\ Only(d) /\ loc'[d].at = loc[d].at
    BY <1>2, <1>3, InHand DEF Goto, Only
  <2> QED BY <1>1, <2>1, <2>2, DeleteGoesOn
<1>4. CASE Reply(d, 501)
  BY <1>1, <1>2, <1>4, ReplyEnds
<1> QED BY <1>1, <1>3, <1>4

LEMMA LoadNodeTree ==
  ASSUME OneAtATime, TreeInv, GraphInv', NEW d \in Deletes,
         LoadNode(d) \/ BeginRemove(d) \/ DeleteFile(d)
  PROVE  TreeInv'
<1>1. /\ pc[d] \in {"load", "remove", "unlink"} /\ UNCHANGED graphVars /\ ~Fails
  BY NothingFails DEF LoadNode, BeginRemove, DeleteFile, TreeInv, GraphInv
<1>2. /\ d \in Req /\ loc[d].at \in Live /\ Out(loc[d].at) = {}
  BY <1>1, StillLeaf DEF Removing
<1>3. loc \in [Req -> Locals] /\ pc \in [Req -> Steps] /\ loc[d] \in Locals
  BY <1>2, InHand
<1>4. PICK s \in {"remove", "unlink", "commit"} : Goto(d, s)
  BY <1>1, <1>2 DEF LoadNode, BeginRemove, DeleteFile
<1>5. (\A q \in Req \ {d} : loc'[q] = loc[q]) /\ loc'[d].at = loc[d].at
  <2>1. CASE LoadNode(d)
    BY <1>1, <1>2, <1>3, <2>1 DEF LoadNode, Locals
  <2>2. CASE BeginRemove(d)
    BY <1>1, <1>2, <1>3, <2>2 DEF BeginRemove, Locals
  <2>3. CASE DeleteFile(d)
    BY <1>1, <1>2, <1>3, <2>3 DEF DeleteFile
  <2> QED BY <2>1, <2>2, <2>3
<1>6. pc'[d] = s /\ Only(d)
  BY <1>2, <1>3, <1>4, <1>5 DEF Goto, Only
<1> QED BY <1>1, <1>2, <1>5, <1>6, DeleteGoesOn

LEMMA CommitRemoveTree ==
  ASSUME OneAtATime, TreeInv, GraphInv', NEW d \in Deletes, CommitRemove(d)
  PROVE  TreeInv'
<1>1. /\ pc[d] = "commit" /\ ~Fails
  BY NothingFails DEF CommitRemove, TreeInv, GraphInv
<1>2. /\ d \in Req /\ d \in Active /\ ~Pends(d, pc[d], loc[d]) /\ WholeTree({})
      /\ loc[d].at \in Live /\ In(loc[d].at) # {} /\ Out(loc[d].at) = {}
  BY <1>1, StillLeaf DEF Removing
<1>3. GraphTypeOK /\ Forest /\ loc \in [Req -> Locals] /\ pc \in [Req -> Steps]
  BY <1>2, InHand
<1>4. CASE UNCHANGED graphVars /\ Reply(d, 501)
  BY <1>2, <1>4, ReplyEnds
<1>5. CASE RemoveVertex(loc[d].at) /\ Reply(d, 200)
  <2>1. PICK n, l : n = loc[d].at /\ l = loc[d]
    OBVIOUS
  <2>2. WholeTree({})'
    BY <1>2, <1>3, <1>5, <2>1, RemovalTree
  <2>3. pc'[d] = "done" /\ loc'[d] = l /\ Only(d)
    BY <1>2, <1>3, <1>5, <2>1 DEF Reply, Only
  <2>4. Work(d, "done", l)' /\ Hung(d, "done", l)' = {}
    BY <1>2, Idle DEF Hung, Pends
  <2>5. WholeTree(Hung(d, "done", l))'
    BY <2>2, <2>4 DEF WholeTree, OneRoot, Rooted
  <2> QED BY <1>2, <2>3, <2>4, <2>5, GoesOn
<1> QED BY <1>1, <1>4, <1>5 DEF CommitRemove

LEMMA GetTree ==
  ASSUME OneAtATime, TreeInv, GraphInv', NEW g \in Gets, Get(g)
  PROVE  TreeInv'
<1>1. /\ pc[g] \in {"list", "read"} /\ UNCHANGED graphVars /\ g \in Req
      /\ \E code : Reply(g, code)
  BY DEF Get, ListDirectory, ReadSlice, Throw, Req
<1>2. g \in Active /\ ~Pends(g, pc[g], loc[g])
  BY <1>1 DEF Active, Pends
<1> QED BY <1>1, <1>2, ReplyEnds

(***************************************************************************)
(* One tree.                                                               *)
(***************************************************************************)
LEMMA NextTree ==
  ASSUME OneAtATime, NamesApart, TreeInv, [Next]_vars
  PROVE  TreeInv'
<1>1. GraphInv' /\ ~Crash
  BY NextGraph, NothingFails DEF TreeInv, GraphInv
<1>2. ASSUME NEW r \in Req, Start(r) \/ Tree(r) PROVE TreeInv'
  BY <1>1, <1>2, ArrivalTree, GetRootTree, CreateRootTree, CheckSonTree, MakeDirectoryTree,
     LinkDirectoryTree, FindSonTree DEF Tree
<1>3. ASSUME NEW u \in Uploads, Upload(u) PROVE TreeInv'
  BY <1>1, <1>3, StartWithoutPathTree, SendTree, CreateVideoTree, AttachVideoTree DEF Upload
<1>4. ASSUME NEW d \in Deletes, Delete(d) PROVE TreeInv'
  BY <1>1, <1>4, CheckLeafTree, LoadNodeTree, CommitRemoveTree DEF Delete
<1>5. ASSUME NEW g \in Gets, Get(g) PROVE TreeInv'
  BY <1>1, <1>5, GetTree
<1>6. CASE UNCHANGED vars
  <2>1. UNCHANGED graphVars /\ UNCHANGED <<pc, loc>>
    BY <1>6 DEF vars, graphVars
  <2>2. Alone'
    BY <2>1 DEF TreeInv, Alone, Active
  <2>3. ASSUME NEW r \in Req PROVE Work(r, pc[r], loc[r])'
    <3>1. PICK s, l : s = pc[r] /\ l = loc[r]
      OBVIOUS
    <3>2. Work(r, s, l)
      BY <3>1 DEF TreeInv
    <3>3. Work(r, s, l)'
      BY <2>1, <3>2, SameWork
    <3>4. pc'[r] = s /\ loc'[r] = l
      BY <2>1, <3>1
    <3> QED BY <3>3, <3>4 DEF Work, FolderNames, UploadNames, Building, Removing, Going,
                              Returning
  <2>4. PICK H : H = Hanging
    OBVIOUS
  <2>5. Hanging' = H
    BY <2>1, <2>4 DEF Hanging, Hung, Pends
  <2>6. WholeTree(H)'
    BY <2>1, <2>4, SameTree DEF TreeInv
  <2>7. WholeTree(Hanging)'
    BY <2>5, <2>6 DEF WholeTree, OneRoot, Rooted
  <2> QED BY <1>1, <2>2, <2>3, <2>7 DEF TreeInv
<1> QED BY <1>1, <1>2, <1>3, <1>4, <1>5, <1>6 DEF Next, Served

\* The database the requests find holds a tree.
LEMMA InitTree ==
  ASSUME Init
  PROVE  TreeInv
<1>1. GraphInv /\ StoredGraph /\ \A r \in Req : pc[r] = "new"
  BY InitGraph DEF Init
<1>2. Alone /\ Hanging = {} /\ \A r \in Req : Work(r, pc[r], loc[r])
  BY <1>1, Idle DEF Alone, Active, Hanging
<1>3. /\ GraphTypeOK /\ removed = {}
      /\ Stored = <<>> => edges = {}
      /\ Stored # <<>> => edges = {<<n, n + 1>> : n \in 1 .. Len(Stored)}
  BY <1>1, StoredType
<1>4. Live = DOMAIN vertices /\ Live \subseteq Nat /\ edges \subseteq Live \X Live
  BY <1>1, <1>3, LiveType DEF Live, GraphInv, Forest
<1>5. CASE Stored = <<>>
  <2>1. vertices = <<>> /\ edges = {}
    BY <1>1, <1>5 DEF StoredGraph, GraphInit
  <2>2. DOMAIN vertices = {}
    BY <2>1
  <2>3. WholeTree({})
    BY <1>4, <2>1, <2>2 DEF WholeTree, OneRoot, Rooted, SonsApart, DirectoriesHaveSons,
                            VideosNamed, RootCandidates
  <2> QED BY <1>1, <1>2, <2>3 DEF TreeInv
<1>6. CASE Stored # <<>>
  <2>1. Len(Stored) \in Nat
    <3>1. Stored \in Seq(STRING)
      BY Inputs, Zenon
    <3> QED BY <3>1, LenProperties
  <2>2. DOMAIN vertices = 1 .. Len(Stored) + 1
    BY <1>1, <1>6, <2>1 DEF StoredGraph
  <2>3. \A n \in DOMAIN vertices : IsDirectory(n) /\ ~IsVideo(n)
    BY <1>1, <1>6, <2>2 DEF StoredGraph, Directory, IsDirectory, IsVideo
  <2>4. \A n, m \in Live : <<n, m>> \in edges <=> m = n + 1
    BY <1>3, <1>4, <1>6, <2>1, <2>2
  <2>5. ASSUME NEW n \in Live, In(n) = {} PROVE n = 1
    <3>1. n \in 1 .. Len(Stored) + 1 /\ (n # 1 => n - 1 \in Live /\ n = (n - 1) + 1)
      BY <1>4, <2>1, <2>2
    <3>2. n # 1 => <<n - 1, n>> \in edges
      BY <2>4, <3>1
    <3> QED BY <2>5, <3>1, <3>2 DEF In
  <2>6. OneRoot({}) /\ Rooted({})
    BY <1>4, <2>3, <2>5 DEF OneRoot, Rooted, RootCandidates
  <2>7. SonsApart
    BY <1>4, <2>4 DEF SonsApart, Out
  <2>8. DirectoriesHaveSons /\ VideosNamed
    BY <1>4, <2>3 DEF DirectoriesHaveSons, VideosNamed
  <2> QED BY <1>1, <1>2, <2>6, <2>7, <2>8 DEF TreeInv, WholeTree
<1> QED BY <1>5, <1>6

LEMMA TreeIsOne ==
  ASSUME TreeInv
  PROVE  OneTree
<1>1. SUFFICES ASSUME Active = {}
               PROVE  /\ Cardinality(RootCandidates) <= 1
                      /\ Rooted({}) /\ SonsApart
  BY DEF OneTree, Rooted, SonsApart
<1>2. Hanging = {}
  BY <1>1, Idle DEF Active, Hanging
<1>3. WholeTree({})
  BY <1>2 DEF TreeInv
<1>4. Cardinality(RootCandidates) <= 1
  <2>1. CASE RootCandidates = {}
    BY <2>1, FS_EmptySet
  <2>2. ASSUME NEW n \in RootCandidates PROVE Cardinality(RootCandidates) <= 1
    <3>1. RootCandidates = {n}
      BY <1>3 DEF WholeTree, OneRoot
    <3> QED BY <3>1, FS_Singleton
  <2> QED BY <2>1, <2>2
<1> QED BY <1>3, <1>4 DEF WholeTree

\* Served one at a time and without failures, any number of requests with any
\* paths keep one tree: createFolderTree and getRoot never make a second root
\* or a second folder of the same name in a folder, every vertex has its place,
\* an upload finds the folders it has just made or found, and a delete takes no
\* vertex away from under which others hang.  The videos must not be named like
\* folders: createFolderTree would hang folders under such a video.
THEOREM RequestsKeepOneTree ==
  ASSUME OneAtATime, NamesApart
  PROVE  Spec => []OneTree
<1>1. TreeInv /\ [Next]_vars => TreeInv'
  BY NextTree
<1>2. Init => TreeInv
  BY InitTree
<1>3. TreeInv => OneTree
  BY TreeIsOne
<1> QED BY <1>1, <1>2, <1>3, PTL DEF Spec
=============================================================================
