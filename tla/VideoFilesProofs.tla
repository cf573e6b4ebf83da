-------------------------- MODULE VideoFilesProofs --------------------------
(***************************************************************************)
(* The files of the videos and the answers of the video storage: what is   *)
(* registered is stored until a delete unlinks it, what is deleted stays   *)
(* deleted, what is acknowledged stays attached.                           *)
(***************************************************************************)
EXTENDS VideoStorageProofs

(***************************************************************************)
(* The inductive invariant.  The slices of an upload are in order while its *)
(* client sends, and its file is whole once they are all sent; a vertex    *)
(* with the file of an upload exists, and a delete holds this file, only   *)
(* after that.  So nothing is appended to a file that has been unlinked,   *)
(* but for the extra slice of an upload of Exact.                          *)
(***************************************************************************)
Sent(u) == pc[u] \notin {"new", "send", "done"}
HasVertex(u) == \E n \in DOMAIN vertices : vertices[n].file = u

Whole(u) ==
  /\ \A k \in 1 .. Total - 1 : Len(disk[u]) >= k /\ disk[u][k] = Slices[k]
  /\ faults = 0 => Len(disk[u]) >= Total /\ disk[u][Total] = Slices[Total]

\* The slices of a client that sends are stored in order.
InOrder ==
  \A u \in Uploads : pc[u] \in {"new", "send"} =>
    /\ Len(disk[u]) = slice[u]
    /\ \A k \in 1 .. slice[u] : disk[u][k] = Slices[k]

\* A file is known to the database and to deletes only when it has been sent.
KnownFiles ==
  /\ \A u \in Uploads : HasVertex(u) => pc[u] \notin {"new", "send"}
  /\ \A n \in DOMAIN vertices : IsVideo(n) => vertices[n].file \in Uploads
  /\ \A d \in Deletes : loc[d].file # NoFile => pc[loc[d].file] \notin {"new", "send"}

\* A file that has been sent is whole, unless a delete has unlinked it.
FilesKept ==
  \A u \in Uploads : Sent(u) \/ HasVertex(u) => Unlinked(u) \/ Whole(u)

\* What a delete holds is the file of its vertex, and what it has unlinked is gone.
Deleting ==
  \A d \in Deletes :
    /\ pc[d] \in {"remove", "unlink", "commit"} \/ status[d] = 200 =>
         loc[d].at \in DOMAIN vertices /\ vertices[loc[d].at].file = loc[d].file
    /\ status[d] = 200 => pc[d] = "done" /\ loc[d].at \in removed
    /\ pc[d] = "commit" \/ status[d] = 200 => (loc[d].file \in onDisk => loc[d].file \in Exact)

\* The answer 201 of the last slice means the edge to the folder was made.
Attached(u) ==
  \/ <<loc[u].at, loc[u].node>> \in edges
  \/ {loc[u].at, loc[u].node} \cap removed # {}

Attaching ==
  \A u \in Uploads :
    /\ pc[u] = "extra" => status[u] = 201 /\ u \in Exact
    /\ pc[u] \in {"extra", "done"} /\ status[u] = 201 => Attached(u)

FilesInv == TypeInv /\ InOrder /\ KnownFiles /\ FilesKept /\ Deleting /\ Attaching

(***************************************************************************)
(* A step of r on its way through the tree: it sends and deletes no file,   *)
(* holds no other file than before, and is answered no success.             *)
(***************************************************************************)
FileSteps == {"extra", "remove", "unlink", "commit"}

Course(r) ==
  /\ Only(r)
  /\ \A q \in Req \ {r} : status'[q] = status[q]
  /\ pc[r] \notin FileSteps \cup {"done"} /\ pc'[r] \notin FileSteps
  /\ loc'[r].file = loc[r].file
  /\ pc'[r] \in {"new", "send"} => pc[r] \in {"new", "send"}
  /\ r \in Uploads /\ Sent(r)' => Sent(r)
  /\ IF pc'[r] = "done"
     THEN status'[r] \in {404, 500, 501} \/ r \in Gets
     ELSE status'[r] = status[r]

LEMMA ReplyCourse ==
  ASSUME TypeInv, NEW r \in Req, NEW code, Reply(r, code),
         pc[r] \notin FileSteps \cup {"done"},
         code \in {404, 500, 501} \/ r \in Gets
  PROVE  Course(r)
BY Requests DEF TypeInv, RequestInv, RequestTypeOK, AnswerInv, AnswerTypeOK, Reply, Course,
                Only, Sent, FileSteps

\* Where a step may go on.
TreeSteps == {"root", "rootMake", "check", "make", "link", "video", "son", "attach",
              "leaf", "load", "list", "read"}

LEMMA GotoCourse ==
  ASSUME TypeInv, NEW r \in Req, NEW s \in TreeSteps, Goto(r, s),
         pc[r] \notin FileSteps \cup {"done", "send"}, pc[r] = "new" => r \notin Uploads,
         \A q \in Req \ {r} : loc'[q] = loc[q], loc'[r].file = loc[r].file
  PROVE  Course(r)
<1>1. pc'[r] = s /\ \A q \in Req \ {r} : pc'[q] = pc[q]
  BY LocalsKept DEF TypeInv, RequestInv
<1> QED BY <1>1 DEF Goto, Course, Only, Sent, FileSteps, TreeSteps

LEMMA FileKept ==
  ASSUME TypeInv, NEW r \in Req
  PROVE  /\ UNCHANGED loc => loc'[r].file = loc[r].file
         /\ \A n : loc' = [loc EXCEPT ![r].at = n] => loc'[r].file = loc[r].file
         /\ \A n : loc' = [loc EXCEPT ![r].node = n] =>
              loc'[r].file = loc[r].file /\ \A q \in Req \ {r} : loc'[q] = loc[q]
         /\ \A n : Enter(r, n) => loc'[r].file = loc[r].file
         /\ LookUp(r) => loc'[r].file = loc[r].file /\ \A q \in Req \ {r} : loc'[q] = loc[q]
<1>1. loc \in [Req -> Locals] /\ loc[r] \in Locals
  BY DEF TypeInv, RequestInv, RequestTypeOK
<1>2. \A n : loc' = [loc EXCEPT ![r].at = n] => loc'[r].file = loc[r].file
  BY <1>1 DEF Locals
<1>3. \A n : loc' = [loc EXCEPT ![r].node = n] =>
              loc'[r].file = loc[r].file /\ \A q \in Req \ {r} : loc'[q] = loc[q]
  BY <1>1 DEF Locals
<1>4. \A n : Enter(r, n) => loc'[r].file = loc[r].file
  BY <1>1 DEF Locals, Enter
<1>5. LookUp(r) => loc'[r].file = loc[r].file /\ \A q \in Req \ {r} : loc'[q] = loc[q]
  BY <1>1 DEF Locals, LookUp
<1> QED BY <1>2, <1>3, <1>4, <1>5

LEMMA LookUpCourse ==
  ASSUME TypeInv, NEW r \in Req, pc[r] \notin FileSteps \cup {"done", "send", "new"},
         TreeDone(r) \/ TreeFailed(r)
  PROVE  Course(r)
<1>1. CASE LookUp(r)
  <2>1. Goto(r, "root") /\ "root" \in TreeSteps
    BY <1>1 DEF LookUp, TreeSteps
  <2> QED BY <1>1, <2>1, FileKept, GotoCourse
<1>2. CASE Throw(r)
  BY <1>2, ReplyCourse DEF Throw
<1>3. CASE Goto(r, "video") /\ UNCHANGED loc
  <2>1. "video" \in TreeSteps
    BY DEF TreeSteps
  <2> QED BY <1>3, <2>1, GotoCourse
<1> QED BY <1>1, <1>2, <1>3 DEF TreeDone, TreeFailed

LEMMA HaveRootCourse ==
  ASSUME TypeInv, NEW r \in Req, pc[r] \in {"root", "rootMake"}, NEW n, HaveRoot(r, n)
  PROVE  Course(r)
<1>1. RequestTypeOK
  BY DEF TypeInv, RequestInv
<1>2. {"check", "son"} \subseteq TreeSteps /\ pc[r] \notin FileSteps \cup {"done", "send", "new"}
  BY DEF TreeSteps, FileSteps
<1> QED BY <1>1, <1>2, LocalsKept, FileKept, GotoCourse DEF HaveRoot

LEMMA EnterCourse ==
  ASSUME TypeInv, NEW r \in Req, pc[r] \in {"check", "link", "son"},
         NEW n, Enter(r, n), NEW s \in TreeSteps, Goto(r, s)
  PROVE  Course(r)
<1>1. /\ RequestTypeOK /\ pc[r] \notin FileSteps \cup {"done", "send", "new"}
  BY DEF TypeInv, RequestInv, FileSteps
<1> QED BY <1>1, LocalsKept, FileKept, GotoCourse

LEMMA TreeCourse ==
  ASSUME TypeInv, NEW r \in Req, Start(r) \/ Tree(r)
  PROVE  Course(r)
<1>1. /\ RequestTypeOK /\ loc \in [Req -> Locals] /\ pc \in [Req -> Steps]
      /\ {"root", "rootMake", "check", "make", "link", "son"} \subseteq TreeSteps
      /\ {"root", "rootMake", "check", "make", "link", "son"} \cap (FileSteps \cup {"done", "send", "new"}) = {}
  BY DEF TypeInv, RequestInv, RequestTypeOK, TreeSteps, FileSteps
<1>2. CASE Start(r)
  <2>1. pc[r] = "new" /\ "new" \notin FileSteps \cup {"done", "send"}
    BY <1>2 DEF Start, FileSteps
  <2>2. (\A q \in Req \ {r} : loc'[q] = loc[q]) /\ loc'[r].file = loc[r].file
    <3>1. \/ \E p, v : loc' = [loc EXCEPT ![r].path = p, ![r].name = v]
          \/ \E p, t : loc' = [loc EXCEPT ![r].path = p, ![r].todo = t]
      BY <1>2 DEF Start
    <3>2. ASSUME NEW p, NEW v, loc' = [loc EXCEPT ![r].path = p, ![r].name = v]
          PROVE  (\A q \in Req \ {r} : loc'[q] = loc[q]) /\ loc'[r].file = loc[r].file
      BY <1>1, <3>2 DEF Locals
    <3>3. ASSUME NEW p, NEW t, loc' = [loc EXCEPT ![r].path = p, ![r].todo = t]
          PROVE  (\A q \in Req \ {r} : loc'[q] = loc[q]) /\ loc'[r].file = loc[r].file
      BY <1>1, <3>3 DEF Locals
    <3> QED BY <3>1, <3>2, <3>3
  <2>3. CASE r \in Uploads /\ Goto(r, "send")
    <3>1. pc'[r] = "send" /\ \A q \in Req \ {r} : pc'[q] = pc[q]
      BY <1>1, <2>3, LocalsKept
    <3> QED BY <2>1, <2>2, <2>3, <3>1, Requests DEF Goto, Course, Only, Sent, FileSteps
  <2>4. CASE r \in Deletes \cup Gets /\ Goto(r, "root")
    BY <1>1, <2>1, <2>2, <2>4, Requests, GotoCourse
  <2> QED BY <1>2, <2>3, <2>4 DEF Start
<1>3. CASE GetRoot(r)
  BY <1>1, <1>3, HaveRootCourse, GotoCourse DEF GetRoot
<1>4. CASE CreateRoot(r)
  BY <1>1, <1>4, HaveRootCourse, ReplyCourse DEF CreateRoot, Throw
<1>5. CASE CheckSon(r)
  BY <1>1, <1>5, EnterCourse, LookUpCourse, GotoCourse DEF CheckSon
<1>6. CASE MakeDirectory(r)
  BY <1>1, <1>6, FileKept, LookUpCourse, GotoCourse DEF MakeDirectory
<1>7. CASE LinkDirectory(r)
  BY <1>1, <1>7, EnterCourse, LookUpCourse DEF LinkDirectory
<1>8. CASE FindSon(r)
  <2>1. ASSUME LookUpFailed(r) PROVE Course(r)
    BY <1>1, <1>8, <2>1, ReplyCourse DEF LookUpFailed, FindSon
  <2>2. ASSUME NEW n \in SonsByName(loc[r].at, Head(loc[r].todo)), Enter(r, n),
               Goto(r, IF Len(loc[r].todo) > 1 THEN "son" ELSE AfterLookUp(r, n))
        PROVE  Course(r)
    <3>1. CASE \E x \in TreeSteps : Goto(r, x)
      BY <1>8, <2>2, <3>1, EnterCourse DEF FindSon
    <3>2. {"son", "attach", "leaf", "list", "read"} \subseteq TreeSteps
      BY DEF TreeSteps
    <3> QED BY <2>2, <3>1, <3>2, Requests DEF AfterLookUp, Req
  <2> QED BY <1>8, <2>1, <2>2 DEF FindSon
<1> QED BY <1>2, <1>3, <1>4, <1>5, <1>6, <1>7, <1>8 DEF Tree

LEMMA OtherCourse ==
  ASSUME TypeInv, NEW r \in Req,
         \/ r \in Uploads /\ (StartWithoutPath(r) \/ CreateVideo(r))
         \/ r \in Deletes /\ CheckLeaf(r)
         \/ r \in Gets /\ Get(r)
  PROVE  Course(r)
<1>1. /\ RequestTypeOK /\ loc \in [Req -> Locals] /\ pc \in [Req -> Steps]
      /\ {"root", "load"} \subseteq TreeSteps
      /\ {"new", "video", "leaf", "read", "list"} \cap (FileSteps \cup {"done", "send"}) = {}
  BY DEF TypeInv, RequestInv, RequestTypeOK, TreeSteps, FileSteps
<1>2. CASE r \in Uploads /\ StartWithoutPath(r)
  BY <1>1, <1>2, ReplyCourse DEF StartWithoutPath, Throw
<1>3. CASE r \in Uploads /\ CreateVideo(r)
  <2>1. ASSUME loc' = [loc EXCEPT ![r].node = NewRid, ![r].phase = "path",
                                  ![r].todo = loc[r].path, ![r].at = NoRid]
        PROVE  loc'[r].file = loc[r].file /\ \A q \in Req \ {r} : loc'[q] = loc[q]
    BY <1>1, <2>1 DEF Locals
  <2> QED BY <1>1, <1>3, <2>1, ReplyCourse, GotoCourse DEF CreateVideo
<1>4. CASE r \in Deletes /\ CheckLeaf(r)
  <2>1. pc[r] = "leaf" /\ "leaf" \notin FileSteps \cup {"done", "send", "new"}
    BY <1>1, <1>4 DEF CheckLeaf
  <2>2. (UNCHANGED loc /\ Goto(r, "load")) \/ (\E code \in {501} : Reply(r, code))
    BY <1>4 DEF CheckLeaf
  <2> QED BY <1>1, <1>4, <2>1, <2>2, ReplyCourse, GotoCourse
<1>5. CASE r \in Gets /\ Get(r)
  BY <1>1, <1>5, ReplyCourse DEF Get, ListDirectory, ReadSlice, Throw
<1> QED BY <1>2, <1>3, <1>4, <1>5

(***************************************************************************)
(* What such a step leaves alone, and that it keeps the invariant.          *)
(***************************************************************************)
Beside(r) ==
  /\ UNCHANGED <<disk, onDisk, slice>>
  /\ removed \subseteq removed'
  /\ \A e \in edges : e \in edges' \/ {e[1], e[2]} \cap removed' # {}
  /\ faults' \in Nat /\ faults' >= faults
  /\ \A n \in DOMAIN vertices : n \in DOMAIN vertices' /\ vertices'[n] = vertices[n]
  /\ \A n \in DOMAIN vertices' \ DOMAIN vertices :
       \/ vertices'[n].class = "Video_Directory" /\ vertices'[n].file = NoFile
       \/ r \in Uploads /\ vertices'[n].file = r /\ Sent(r)

LEMMA SameGraphBeside ==
  ASSUME TypeInv, NEW r, UNCHANGED <<fileVars, slice, vertices>>,
         removed \subseteq removed', edges \subseteq edges', Works \/ Fails
  PROVE  Beside(r)
BY DEF Beside, fileVars, Works, Fails, envVars, TypeInv, AnswerInv, AnswerTypeOK

LEMMA NewVertexBeside ==
  ASSUME TypeInv, NEW r, UNCHANGED <<fileVars, slice>>, Works \/ Fails,
         NEW v \in Record, CreateVertex(v),
         \/ v.class = "Video_Directory" /\ v.file = NoFile
         \/ r \in Uploads /\ v.file = r /\ Sent(r)
  PROVE  Beside(r)
BY NewVertex DEF Beside, fileVars, Works, Fails, envVars, TypeInv, AnswerInv, AnswerTypeOK

LEMMA CourseBeside ==
  ASSUME TypeInv, NEW r \in Req,
         \/ Start(r) \/ Tree(r)
         \/ r \in Uploads /\ (StartWithoutPath(r) \/ CreateVideo(r))
         \/ r \in Deletes /\ CheckLeaf(r)
         \/ r \in Gets /\ Get(r)
  PROVE  Beside(r)
<1>1. /\ RequestTypeOK /\ loc[r] \in Locals /\ GraphTypeOK
  BY DEF TypeInv, RequestInv, RequestTypeOK
<1>2. /\ \A s : Goto(r, s) => UNCHANGED slice
      /\ \A code : Reply(r, code) => UNCHANGED slice
      /\ TreeDone(r) \/ TreeFailed(r) => UNCHANGED slice
      /\ \A n : HaveRoot(r, n) => UNCHANGED slice
  BY DEF Goto, Reply, TreeDone, TreeFailed, LookUp, Throw, HaveRoot
<1>3. CASE Start(r) \/ (r \in Uploads /\ StartWithoutPath(r))
  BY <1>2, <1>3, SameGraphBeside
     DEF Start, StartWithoutPath, Throw, graphVars, TypeInv, AnswerInv, AnswerTypeOK, Works, Fails, envVars
<1>4. CASE GetRoot(r)
  BY <1>2, <1>4, SameGraphBeside DEF GetRoot, graphVars
<1>5. CASE CheckSon(r)
  BY <1>2, <1>5, SameGraphBeside DEF CheckSon, graphVars
<1>6. CASE FindSon(r)
  BY <1>2, <1>6, SameGraphBeside DEF FindSon, LookUpFailed, graphVars
<1>7. CASE CreateRoot(r)
  <2>1. Directory(RootName) \in Record
    BY RecordType
  <2> QED BY <1>2, <1>7, <2>1, SameGraphBeside, NewVertexBeside DEF CreateRoot, Throw, Directory, graphVars
<1>8. CASE MakeDirectory(r)
  <2>1. Head(loc[r].todo) \in STRING
    BY <1>1, <1>8, HeadTailProperties DEF MakeDirectory, TypeInv, RequestInv, Walking, Locals
  <2>2. Directory(Head(loc[r].todo)) \in Record
    BY <2>1, RecordType
  <2> QED BY <1>2, <1>8, <2>2, SameGraphBeside, NewVertexBeside DEF MakeDirectory, Directory, graphVars
<1>9. CASE LinkDirectory(r)
  <2>1. /\ UNCHANGED <<vertices, removed>> /\ edges \subseteq edges'
    BY <1>9 DEF LinkDirectory, CreateEdge, graphVars
  <2>2. Works \/ Fails
    BY <1>9 DEF LinkDirectory
  <2>3. UNCHANGED <<fileVars, slice>>
    BY <1>2, <1>9 DEF LinkDirectory
  <2> QED BY <2>1, <2>2, <2>3, SameGraphBeside
<1>10. CASE r \in Uploads /\ CreateVideo(r)
  <2>1. Video(loc[r].name, r) \in Record
    BY <1>1, <1>10, RecordType DEF Locals
  <2>2. Sent(r)
    BY <1>10 DEF CreateVideo, Sent
  <2> QED BY <1>2, <1>10, <2>1, <2>2, SameGraphBeside, NewVertexBeside DEF CreateVideo, Video, graphVars
<1>11. CASE r \in Deletes /\ CheckLeaf(r)
  BY <1>2, <1>11, SameGraphBeside DEF CheckLeaf, graphVars
<1>12. CASE r \in Gets /\ Get(r)
  BY <1>2, <1>12, SameGraphBeside DEF Get, ListDirectory, ReadSlice, Throw, graphVars
<1> QED BY <1>3, <1>4, <1>5, <1>6, <1>7, <1>8, <1>9, <1>10, <1>11, <1>12 DEF Tree

\* The part of the invariant that is not about types.
FilesPart == InOrder /\ KnownFiles /\ FilesKept /\ Deleting /\ Attaching

\* Files that come to be known have been sent.
LEMMA VertexOrSent ==
  ASSUME FilesInv, NEW r \in Req, Beside(r), NEW u \in Uploads, HasVertex(u)'
  PROVE  HasVertex(u) \/ (u = r /\ Sent(r))
<1>1. PICK n \in DOMAIN vertices' : vertices'[n].file = u
  BY DEF HasVertex
<1>2. u # NoFile
  BY Requests DEF NoFile
<1> QED BY <1>1, <1>2 DEF Beside, HasVertex

\* No file is written or deleted, and no upload begins or goes on to its last step.
LEMMA FilesStay ==
  ASSUME FilesInv, NEW r \in Req, Only(r), Beside(r),
         pc'[r] \in {"new", "send"} => pc[r] \in {"new", "send"},
         r \in Uploads /\ Sent(r)' => Sent(r),
         \/ loc'[r].file = loc[r].file
         \/ \E n \in DOMAIN vertices : loc'[r].file = vertices[n].file,
         r \in Deletes /\ pc[r] \in {"commit", "done"} =>
           pc'[r] \in {"commit", "done"} /\ loc'[r].file = loc[r].file
  PROVE  InOrder' /\ KnownFiles' /\ FilesKept'
<1>1. /\ \A q \in Req \ {r} : pc'[q] = pc[q] /\ loc'[q] = loc[q]
      /\ Uploads \subseteq Req /\ Deletes \subseteq Req /\ Gets \subseteq Req
  BY DEF Only, Req
<1>2. \A u \in Uploads : pc'[u] \in {"new", "send"} => pc[u] \in {"new", "send"}
  BY <1>1
<1>3. \A u \in Uploads : Sent(u)' => Sent(u)
  BY <1>1 DEF Sent
<1>4. \A u \in Uploads : Unlinked(u) => Unlinked(u)'
  <2>1. \A d \in Deletes : pc[d] \in {"commit", "done"} =>
          pc'[d] \in {"commit", "done"} /\ loc'[d].file = loc[d].file
    BY <1>1
  <2> QED BY <2>1 DEF Unlinked
<1>5. \A u \in Uploads : (Sent(u) \/ HasVertex(u))' => Sent(u) \/ HasVertex(u)
  BY <1>3, VertexOrSent
<1>6. InOrder'
  BY <1>2 DEF FilesInv, InOrder, Beside
<1>7. KnownFiles'
  <2>1. ASSUME NEW u \in Uploads, HasVertex(u)' PROVE pc'[u] \notin {"new", "send"}
    <3>1. HasVertex(u) \/ Sent(u)
      BY <2>1, VertexOrSent
    <3> QED BY <1>2, <3>1 DEF FilesInv, KnownFiles, Sent
  <2>2. ASSUME NEW n \in DOMAIN vertices', IsVideo(n)' PROVE vertices'[n].file \in Uploads
    BY <2>2 DEF Beside, FilesInv, KnownFiles, IsVideo
  <2>3. ASSUME NEW d \in Deletes, loc'[d].file # NoFile PROVE pc'[loc'[d].file] \notin {"new", "send"}
    <3>1. loc[d].file \in Uploads \cup {NoFile}
      BY <1>1 DEF FilesInv, TypeInv, RequestInv, RequestTypeOK, Locals
    <3>2. CASE loc'[d].file = loc[d].file
      BY <1>2, <2>3, <3>1, <3>2 DEF FilesInv, KnownFiles
    <3>3. ASSUME NEW n \in DOMAIN vertices, loc'[d].file = vertices[n].file
          PROVE  pc'[loc'[d].file] \notin {"new", "send"}
      <4>1. vertices[n] \in Record
        BY DEF FilesInv, TypeInv, GraphTypeOK
      <4>2. loc'[d].file \in Uploads /\ HasVertex(loc'[d].file)
        BY <2>3, <3>3, <4>1 DEF Record, HasVertex
      <4> QED BY <1>2, <4>2 DEF FilesInv, KnownFiles
    <3> QED BY <1>1, <3>2, <3>3
  <2> QED BY <2>1, <2>2, <2>3 DEF KnownFiles
<1>8. FilesKept'
  <2>1. \A u \in Uploads : Whole(u) => Whole(u)'
    BY DEF Whole, Beside, FilesInv, TypeInv, AnswerInv, AnswerTypeOK
  <2> QED BY <1>4, <1>5, <2>1 DEF FilesInv, FilesKept
<1> QED BY <1>6, <1>7, <1>8

\* What another request has deleted, found or attached stays as it is.
LEMMA OthersStay ==
  ASSUME FilesInv, NEW r \in Req, Only(r), Beside(r),
         \A q \in Req \ {r} : status'[q] = status[q],
         r \in Deletes =>
           /\ pc'[r] \in {"remove", "unlink", "commit"} \/ status'[r] = 200 =>
                loc'[r].at \in DOMAIN vertices' /\ vertices'[loc'[r].at].file = loc'[r].file
           /\ status'[r] = 200 => pc'[r] = "done" /\ loc'[r].at \in removed'
           /\ pc'[r] = "commit" \/ status'[r] = 200 =>
                (loc'[r].file \in onDisk' => loc'[r].file \in Exact),
         r \in Uploads =>
           /\ pc'[r] = "extra" => status'[r] = 201 /\ r \in Exact
           /\ pc'[r] \in {"extra", "done"} /\ status'[r] = 201 => Attached(r)'
  PROVE  Deleting' /\ Attaching'
<1>1. /\ \A q \in Req \ {r} : pc'[q] = pc[q] /\ loc'[q] = loc[q]
      /\ Uploads \subseteq Req /\ Deletes \subseteq Req /\ Gets \subseteq Req
  BY DEF Only, Req
<1>2. Deleting'
  <2> SUFFICES ASSUME NEW d \in Deletes
               PROVE  /\ pc'[d] \in {"remove", "unlink", "commit"} \/ status'[d] = 200 =>
                           loc'[d].at \in DOMAIN vertices' /\ vertices'[loc'[d].at].file = loc'[d].file
                      /\ status'[d] = 200 => pc'[d] = "done" /\ loc'[d].at \in removed'
                      /\ pc'[d] = "commit" \/ status'[d] = 200 =>
                           (loc'[d].file \in onDisk' => loc'[d].file \in Exact)
    BY DEF Deleting
  <2>1. CASE d = r
    BY <2>1
  <2>2. CASE d # r
    BY <1>1, <2>2 DEF FilesInv, Deleting, Beside
  <2> QED BY <2>1, <2>2
<1>3. Attaching'
  <2>1. ASSUME NEW u \in Uploads, u # r
        PROVE  /\ pc'[u] = "extra" => status'[u] = 201 /\ u \in Exact
               /\ pc'[u] \in {"extra", "done"} /\ status'[u] = 201 => Attached(u)'
    <3>1. pc'[u] = pc[u] /\ status'[u] = status[u] /\ loc'[u] = loc[u]
      BY <1>1, <2>1
    <3>2. Attached(u) => Attached(u)'
      BY <3>1 DEF Attached, Beside
    <3> QED BY <3>1, <3>2 DEF FilesInv, Attaching
  <2> QED BY <2>1 DEF Attaching
<1> QED BY <1>2, <1>3

LEMMA CourseKeeps ==
  ASSUME FilesInv, NEW r \in Req, Course(r), Beside(r)
  PROVE  FilesPart'
<1>1. InOrder' /\ KnownFiles' /\ FilesKept'
  BY FilesStay DEF Course, FileSteps
<1>2. r \in Deletes => pc'[r] \notin {"remove", "unlink", "commit"} /\ status'[r] # 200
  BY Requests DEF Course, FileSteps, FilesInv, Deleting, Req
<1>3. r \in Uploads => pc'[r] # "extra" /\ (pc'[r] = "done" => status'[r] # 201)
  BY Requests DEF Course, FileSteps
<1> QED BY <1>1, <1>2, <1>3, OthersStay DEF Course, FilesPart

(***************************************************************************)
(* The steps of a delete, and the last step of an upload.                   *)
(***************************************************************************)
LEMMA AttachVideoFiles ==
  ASSUME FilesInv, NEW u \in Uploads, AttachVideo(u)
  PROVE  FilesPart'
<1>1. /\ u \in Req /\ pc[u] = "attach" /\ TypeInv /\ GraphTypeOK /\ pc \in [Req -> Steps]
      /\ status \in [Req -> {0, 200, 201, 404, 500, 501}]
  BY DEF FilesInv, TypeInv, RequestInv, RequestTypeOK, AnswerInv, AnswerTypeOK, AttachVideo, Req
<1>2. /\ loc' = loc /\ slice' = slice /\ pc'[u] \in {"extra", "done"}
      /\ \A q \in Req \ {u} : pc'[q] = pc[q] /\ status'[q] = status[q]
  BY <1>1 DEF AttachVideo, AnswerUpload, Reply
<1>3. ASSUME NEW code \in {201, 500}, AnswerUpload(u, code)
      PROVE  status'[u] = code /\ (pc'[u] = "extra" => code = 201 /\ u \in Exact)
  BY <1>1, <1>3 DEF AnswerUpload, Reply
<1>4. /\ pc'[u] = "extra" => status'[u] = 201 /\ u \in Exact
      /\ status'[u] = 201 => CreateEdge(loc[u].at, loc[u].node)
  BY <1>3 DEF AttachVideo
<1>5. Beside(u)
  <2>1. UNCHANGED <<vertices, removed>> /\ edges \subseteq edges'
    BY DEF AttachVideo, CreateEdge, graphVars
  <2>2. Works \/ Fails
    BY DEF AttachVideo
  <2>3. UNCHANGED fileVars
    BY DEF AttachVideo
  <2> QED BY <1>1, <1>2, <2>1, <2>2, <2>3, SameGraphBeside
<1>6. status'[u] = 201 => Attached(u)'
  BY <1>1, <1>2, <1>4, NewEdge DEF Attached
<1>7. Only(u) /\ Sent(u)
  BY <1>1, <1>2 DEF Only, Sent
<1>8. u \notin Deletes /\ u \notin Gets
  BY Requests
<1>9. InOrder' /\ KnownFiles' /\ FilesKept'
  BY <1>1, <1>2, <1>5, <1>7, <1>8, FilesStay
<1>10. Deleting' /\ Attaching'
  BY <1>1, <1>2, <1>4, <1>5, <1>6, <1>7, <1>8, OthersStay
<1> QED BY <1>9, <1>10 DEF FilesPart

LEMMA LoadNodeFiles ==
  ASSUME FilesInv, NEW d \in Deletes, LoadNode(d) \/ BeginRemove(d)
  PROVE  FilesPart'
<1>1. /\ d \in Req /\ d \notin Uploads /\ d \notin Gets /\ TypeInv
      /\ loc \in [Req -> Locals] /\ loc[d] \in Locals /\ pc \in [Req -> Steps]
      /\ status \in [Req -> {0, 200, 201, 404, 500, 501}]
      /\ pc[d] \in {"load", "remove"}
  BY Requests DEF FilesInv, TypeInv, RequestInv, RequestTypeOK, AnswerInv, AnswerTypeOK, Req,
                  LoadNode, BeginRemove
<1>2. Beside(d)
  BY <1>1, SameGraphBeside DEF LoadNode, BeginRemove, Goto, Reply, graphVars
<1>3. /\ Only(d) /\ \A q \in Req \ {d} : status'[q] = status[q]
  BY <1>1 DEF LoadNode, BeginRemove, Goto, Reply, Only
<1>4. \/ loc'[d].file = loc[d].file
      \/ \E n \in DOMAIN vertices : loc'[d].file = vertices[n].file
  BY <1>1 DEF LoadNode, BeginRemove, Reply, Locals, Live
<1>5. /\ pc'[d] \in {"remove", "unlink", "done"} /\ status'[d] # 200
      /\ pc'[d] # "done" =>
           loc'[d].at \in DOMAIN vertices' /\ vertices'[loc'[d].at].file = loc'[d].file
  <2>1. CASE LoadNode(d)
    <3>1. CASE Reply(d, 501)
      BY <1>1, <3>1 DEF Reply
    <3>2. CASE /\ loc[d].at \in Live /\ Goto(d, "remove")
               /\ loc' = [loc EXCEPT ![d].file = vertices[loc[d].at].file]
      <4>1. pc'[d] = "remove" /\ status' = status /\ status[d] # 200
        BY <1>1, <2>1, <3>2 DEF Goto, FilesInv, Deleting, LoadNode
      <4>2. loc'[d].at = loc[d].at /\ loc'[d].file = vertices[loc[d].at].file
        BY <1>1, <3>2 DEF Locals
      <4>3. vertices' = vertices
        BY <2>1 DEF LoadNode, graphVars
      <4> QED BY <3>2, <4>1, <4>2, <4>3 DEF Live
    <3> QED BY <2>1, <3>1, <3>2 DEF LoadNode
  <2>2. CASE BeginRemove(d)
    <3>1. CASE Reply(d, 501)
      BY <1>1, <3>1 DEF Reply
    <3>2. CASE Goto(d, "unlink") /\ loc' = [loc EXCEPT ![d].seen = Around(loc[d].at)]
      <4>1. pc'[d] = "unlink" /\ status' = status /\ status[d] # 200
        BY <1>1, <2>2, <3>2 DEF Goto, FilesInv, Deleting, BeginRemove
      <4>2. loc'[d].at = loc[d].at /\ loc'[d].file = loc[d].file
        BY <1>1, <3>2 DEF Locals
      <4>3. vertices' = vertices
        BY <2>2 DEF BeginRemove, graphVars
      <4> QED BY <2>2, <4>1, <4>2, <4>3 DEF FilesInv, Deleting, BeginRemove
    <3> QED BY <2>2, <3>1, <3>2 DEF BeginRemove
  <2> QED BY <2>1, <2>2
<1>6. InOrder' /\ KnownFiles' /\ FilesKept'
  BY <1>1, <1>2, <1>3, <1>4, <1>5, FilesStay
<1>7. Deleting' /\ Attaching'
  BY <1>1, <1>2, <1>3, <1>5, OthersStay
<1> QED BY <1>6, <1>7 DEF FilesPart

LEMMA CommitRemoveFiles ==
  ASSUME FilesInv, NEW d \in Deletes, CommitRemove(d)
  PROVE  FilesPart'
<1>1. /\ d \in Req /\ d \notin Uploads /\ d \notin Gets /\ TypeInv
      /\ pc \in [Req -> Steps] /\ pc[d] = "commit"
      /\ status \in [Req -> {0, 200, 201, 404, 500, 501}]
  BY Requests DEF FilesInv, TypeInv, RequestInv, RequestTypeOK, AnswerInv, AnswerTypeOK, Req,
                  CommitRemove
<1>2. /\ loc' = loc /\ slice' = slice /\ pc'[d] = "done"
      /\ \A q \in Req \ {d} : pc'[q] = pc[q] /\ status'[q] = status[q]
      /\ status'[d] = 200 => RemoveVertex(loc[d].at)
  BY <1>1 DEF CommitRemove, Reply
<1>3. /\ vertices' = vertices /\ removed \subseteq removed'
      /\ \A e \in edges : e \in edges' \/ {e[1], e[2]} \cap removed' # {}
  BY DEF CommitRemove, RemoveVertex, graphVars
<1>4. Beside(d)
  <2>1. faults' \in Nat /\ faults' >= faults
    BY DEF CommitRemove, Works, Fails, envVars, FilesInv, TypeInv, AnswerInv, AnswerTypeOK
  <2> QED BY <1>2, <1>3, <2>1 DEF CommitRemove, Beside, fileVars
<1>5. status'[d] = 200 => loc[d].at \in removed'
  BY <1>2 DEF RemoveVertex
<1>6. /\ loc[d].at \in DOMAIN vertices /\ vertices[loc[d].at].file = loc[d].file
      /\ loc[d].file \in onDisk' => loc[d].file \in Exact
  BY <1>1 DEF FilesInv, Deleting, CommitRemove, fileVars
<1>7. Only(d)
  BY <1>2 DEF Only
<1>8. InOrder' /\ KnownFiles' /\ FilesKept'
  BY <1>1, <1>2, <1>4, <1>7, FilesStay
<1>9. Deleting' /\ Attaching'
  BY <1>1, <1>2, <1>3, <1>4, <1>5, <1>6, <1>7, OthersStay
<1> QED BY <1>8, <1>9 DEF FilesPart

LEMMA DeleteFileFiles ==
  ASSUME FilesInv, NEW d \in Deletes, DeleteFile(d)
  PROVE  FilesPart'
<1>1. /\ d \in Req /\ d \notin Uploads /\ d \notin Gets /\ TypeInv
      /\ pc \in [Req -> Steps] /\ pc[d] = "unlink" /\ Uploads \subseteq Req /\ Gets \subseteq Req
      /\ status \in [Req -> {0, 200, 201, 404, 500, 501}]
      /\ Deletes \subseteq Req /\ loc \in [Req -> Locals]
  BY Requests DEF FilesInv, TypeInv, RequestInv, RequestTypeOK, AnswerInv, AnswerTypeOK, Req,
                  DeleteFile
<1>2. status[d] # 200 /\ loc[d].at \in DOMAIN vertices /\ vertices[loc[d].at].file = loc[d].file
  BY <1>1 DEF FilesInv, Deleting
<1>3. CASE /\ Works /\ onDisk' = onDisk \ {loc[d].file}
           /\ disk' = [u \in Uploads |-> IF u = loc[d].file THEN <<>> ELSE disk[u]]
           /\ Goto(d, "commit") /\ UNCHANGED loc
  <2>1. /\ pc'[d] = "commit" /\ \A q \in Req \ {d} : pc'[q] = pc[q]
        /\ slice' = slice /\ status' = status /\ loc' = loc /\ faults' = faults
        /\ vertices' = vertices /\ removed' = removed /\ edges' = edges
    BY <1>1, <1>3 DEF Goto, DeleteFile, Works, envVars, graphVars
  <2>2. /\ \A u \in Uploads : pc'[u] = pc[u] /\ (u # loc[d].file => disk'[u] = disk[u])
        /\ \A u \in Uploads : u # loc[d].file => (u \in onDisk' <=> u \in onDisk)
    BY <1>1, <1>3, <2>1
  <2>3. \A u \in Uploads : u = loc[d].file => pc[u] \notin {"new", "send"} /\ Unlinked(u)'
    BY <2>1, Requests DEF FilesInv, KnownFiles, NoFile, Unlinked
  <2>4. \A u \in Uploads : Unlinked(u) => Unlinked(u)'
    BY <1>1, <2>1 DEF Unlinked
  <2>5. InOrder'
    BY <2>1, <2>2, <2>3 DEF FilesInv, InOrder
  <2>6. KnownFiles'
    <3>1. \A x \in Deletes : loc[x].file \in Uploads \cup {NoFile}
      BY <1>1 DEF Locals
    <3> QED BY <2>1, <2>2, <3>1 DEF FilesInv, KnownFiles, HasVertex, IsVideo
  <2>7. FilesKept'
    <3>1. \A u \in Uploads : (Sent(u) \/ HasVertex(u))' => Sent(u) \/ HasVertex(u)
      BY <2>1, <2>2 DEF Sent, HasVertex
    <3>2. \A u \in Uploads : u # loc[d].file /\ Whole(u) => Whole(u)'
      BY <2>1, <2>2 DEF Whole
    <3> QED BY <2>1, <2>2, <2>3, <2>4, <3>1, <3>2 DEF FilesInv, FilesKept
  <2>8. Deleting'
    BY <1>1, <1>2, <1>3, <2>1 DEF FilesInv, Deleting
  <2>9. Attaching'
    BY <1>1, <2>1, <2>2 DEF FilesInv, Attaching, Attached
  <2> QED BY <2>5, <2>6, <2>7, <2>8, <2>9 DEF FilesPart
<1>4. CASE Fails /\ Reply(d, 501) /\ UNCHANGED fileVars
  <2>1. /\ loc' = loc /\ slice' = slice /\ pc'[d] = "done" /\ status'[d] = 501
        /\ \A q \in Req \ {d} : pc'[q] = pc[q] /\ status'[q] = status[q]
    BY <1>1, <1>4 DEF Reply
  <2>2. Only(d) /\ Beside(d)
    BY <1>1, <1>4, <2>1, SameGraphBeside DEF Only, DeleteFile, graphVars
  <2>3. InOrder' /\ KnownFiles' /\ FilesKept'
    BY <1>1, <2>1, <2>2, FilesStay
  <2>4. Deleting' /\ Attaching'
    BY <1>1, <2>1, <2>2, OthersStay
  <2> QED BY <2>3, <2>4 DEF FilesPart
<1> QED BY <1>3, <1>4 DEF DeleteFile

(***************************************************************************)
(* The steps that write the file of an upload, which no delete holds.       *)
(***************************************************************************)
LEMMA OwnFile ==
  ASSUME FilesInv, NEW u \in Uploads, Only(u), UNCHANGED graphVars,
         faults' \in Nat /\ faults' >= faults,
         \A q \in Req \ {u} : status'[q] = status[q],
         \A v \in Uploads \ {u} : disk'[v] = disk[v] /\ slice'[v] = slice[v],
         onDisk \subseteq onDisk' /\ onDisk' \subseteq onDisk \cup {u},
         u \in Exact \/ pc[u] \in {"new", "send"},
         pc'[u] \in {"new", "send"} =>
           /\ pc[u] \in {"new", "send"} /\ Len(disk'[u]) = slice'[u]
           /\ \A k \in 1 .. slice'[u] : disk'[u][k] = Slices[k],
         Sent(u)' \/ HasVertex(u) => Unlinked(u) \/ Whole(u)',
         /\ pc'[u] = "extra" => status'[u] = 201 /\ u \in Exact
         /\ pc'[u] \in {"extra", "done"} /\ status'[u] = 201 => Attached(u)'
  PROVE  FilesPart'
<1>1. /\ \A q \in Req \ {u} : pc'[q] = pc[q] /\ loc'[q] = loc[q]
      /\ Uploads \subseteq Req /\ Deletes \subseteq Req /\ Gets \subseteq Req
      /\ vertices' = vertices /\ removed' = removed /\ edges' = edges
      /\ loc \in [Req -> Locals]
  BY DEF Only, Req, graphVars, FilesInv, TypeInv, RequestInv, RequestTypeOK
<1>2. \A d \in Deletes : d # u /\ loc'[d] = loc[d] /\ pc'[d] = pc[d] /\ status'[d] = status[d]
  BY <1>1, Requests
<1>3. \A v \in Uploads : /\ HasVertex(v)' => HasVertex(v)
                         /\ Unlinked(v) => Unlinked(v)'
  BY <1>1, <1>2 DEF HasVertex, Unlinked
<1>4. InOrder'
  BY <1>1 DEF FilesInv, InOrder
<1>5. KnownFiles'
  <2>1. \A x \in Deletes : loc[x].file \in Uploads \cup {NoFile}
    BY <1>1 DEF Locals
  <2>2. \A v \in Uploads : pc'[v] \in {"new", "send"} => pc[v] \in {"new", "send"}
    BY <1>1
  <2> QED BY <1>1, <1>2, <1>3, <2>1, <2>2 DEF FilesInv, KnownFiles, IsVideo
<1>6. FilesKept'
  <2>1. ASSUME NEW v \in Uploads, v # u, (Sent(v) \/ HasVertex(v))'
        PROVE  Unlinked(v)' \/ Whole(v)'
    <3>1. Sent(v) \/ HasVertex(v)
      BY <1>1, <1>3, <2>1 DEF Sent
    <3>2. Whole(v) => Whole(v)'
      BY <2>1 DEF Whole, FilesInv, TypeInv, AnswerInv, AnswerTypeOK
    <3> QED BY <1>3, <3>1, <3>2 DEF FilesInv, FilesKept
  <2>2. ASSUME (Sent(u) \/ HasVertex(u))'
        PROVE  Unlinked(u)' \/ Whole(u)'
    BY <1>3, <2>2
  <2> QED BY <2>1, <2>2 DEF FilesKept
<1>7. Deleting'
  <2>1. ASSUME NEW d \in Deletes, loc[d].file \in onDisk' PROVE loc[d].file \in onDisk \/ loc[d].file \in Exact
    <3>1. loc[d].file \in Uploads \cup {NoFile} /\ (loc[d].file # NoFile => pc[loc[d].file] \notin {"new", "send"})
      BY <1>1 DEF Locals, FilesInv, KnownFiles
    <3>2. CASE loc[d].file = u
      BY <3>1, <3>2, Requests DEF NoFile
    <3>3. CASE loc[d].file \in Uploads \ {u}
      BY <2>1, <3>3
    <3>4. CASE loc[d].file = NoFile
      BY <2>1, <3>4, Requests DEF FilesInv, TypeInv, FileTypeOK, NoFile
    <3> QED BY <3>1, <3>2, <3>3, <3>4
  <2> QED BY <1>1, <1>2, <2>1 DEF FilesInv, Deleting
<1>8. Attaching'
  BY <1>1 DEF FilesInv, Attaching, Attached
<1> QED BY <1>4, <1>5, <1>6, <1>7, <1>8 DEF FilesPart

LEMMA SendFiles ==
  ASSUME FilesInv, NEW u \in Uploads, Send(u)
  PROVE  FilesPart'
<1>1. /\ u \in Req /\ pc[u] = "send" /\ pc \in [Req -> Steps] /\ RequestTypeOK
      /\ status \in [Req -> {0, 200, 201, 404, 500, 501}]
      /\ disk \in [Uploads -> Seq(0 .. Torn)] /\ disk[u] \in Seq(0 .. Torn)
      /\ slice \in [Uploads -> 0 .. Total] /\ slice[u] \in Nat /\ slice[u] < Total
      /\ Total \in Nat /\ Torn = Total + 1 /\ onDisk \subseteq Uploads
      /\ faults \in Nat
  BY TotalType DEF FilesInv, TypeInv, RequestInv, RequestTypeOK, AnswerInv, AnswerTypeOK, Req,
                   FileTypeOK, Send, Sending
<1>2. /\ Len(disk[u]) = slice[u] /\ \A k \in 1 .. slice[u] : disk[u][k] = Slices[k]
      /\ ~HasVertex(u)
  BY <1>1 DEF FilesInv, InOrder, KnownFiles
<1>3. /\ UNCHANGED graphVars /\ faults' \in Nat /\ faults' >= faults
      /\ Works => faults' = faults
      /\ Fails => faults' > 0
  BY <1>1 DEF Send, Works, Fails, envVars
<1>4. \A x \in 0 .. Torn : disk' = [disk EXCEPT ![u] = Append(@, x)] =>
        /\ \A v \in Uploads \ {u} : disk'[v] = disk[v]
        /\ Len(disk'[u]) = slice[u] + 1 /\ disk'[u][slice[u] + 1] = x
        /\ \A k \in 1 .. slice[u] : disk'[u][k] = Slices[k]
  BY <1>1, <1>2
<1>5. ASSUME Throw(u)
      PROVE  /\ Only(u) /\ slice' = slice /\ pc'[u] = "done" /\ status'[u] = 500
             /\ \A q \in Req \ {u} : status'[q] = status[q]
  BY <1>1, <1>5 DEF Throw, Reply, Only
<1>6. ASSUME StartTree(u)
      PROVE  /\ Only(u) /\ pc'[u] = "root" /\ status' = status
             /\ \A v \in Uploads \ {u} : slice'[v] = slice[v]
  BY <1>1, <1>6 DEF StartTree, Only, RequestTypeOK, Locals
<1>7. ASSUME NextSlice(u)
      PROVE  /\ Only(u) /\ pc'[u] = "send" /\ slice'[u] = slice[u] + 1
             /\ \A v \in Uploads \ {u} : slice'[v] = slice[v]
             /\ \A q \in Req \ {u} : status'[q] = status[q]
  BY <1>1, <1>7 DEF NextSlice, Only
<1>8. onDisk \subseteq onDisk' /\ onDisk' \subseteq onDisk \cup {u}
  BY DEF Send, WriteSlice, WriteTorn, fileVars
<1>9. \A v \in Uploads \ {u} : disk'[v] = disk[v]
  BY <1>1 DEF Send, WriteSlice, WriteTorn, fileVars
<1>10. \A k \in 1 .. Total : Slices[k] = k - 1
  BY DEF Slices
<1>11. CASE Throw(u)
  <2>1. ~Sent(u)'
    BY <1>5, <1>11 DEF Sent
  <2>2. Only(u) /\ slice' = slice /\ pc'[u] = "done" /\ status'[u] = 500
        /\ \A q \in Req \ {u} : status'[q] = status[q]
    BY <1>5, <1>11
  <2>3. \A v \in Uploads \ {u} : disk'[v] = disk[v] /\ slice'[v] = slice[v]
    BY <1>9, <2>2
  <2>4. Sent(u)' \/ HasVertex(u) => Unlinked(u) \/ Whole(u)'
    BY <1>2, <2>1
  <2>5. pc'[u] \in {"new", "send"} =>
          /\ pc[u] \in {"new", "send"} /\ Len(disk'[u]) = slice'[u]
          /\ \A k \in 1 .. slice'[u] : disk'[u][k] = Slices[k]
    BY <2>2
  <2>6. /\ pc'[u] = "extra" => status'[u] = 201 /\ u \in Exact
        /\ pc'[u] \in {"extra", "done"} /\ status'[u] = 201 => Attached(u)'
    BY <2>2
  <2>7. u \in Exact \/ pc[u] \in {"new", "send"}
    BY <1>1
  <2> QED BY <1>3, <1>8, <2>2, <2>3, <2>4, <2>5, <2>6, <2>7, OwnFile
<1>12. CASE /\ WriteSlice(u) /\ Works
            /\ IF slice[u] = Total - 1 THEN StartTree(u) ELSE NextSlice(u)
  <2>0. /\ disk' = [disk EXCEPT ![u] = Append(@, slice[u])] /\ u \in onDisk'
        /\ slice[u] \in 0 .. Torn
    BY <1>1, <1>12 DEF WriteSlice
  <2>1. /\ Len(disk'[u]) = slice[u] + 1 /\ disk'[u][slice[u] + 1] = slice[u]
        /\ \A k \in 1 .. slice[u] : disk'[u][k] = Slices[k]
        /\ u \in onDisk'
    BY <1>4, <2>0
  <2>2. ASSUME NEW k \in 1 .. slice[u] + 1 PROVE disk'[u][k] = Slices[k]
    <3>1. CASE k \in 1 .. slice[u]
      BY <2>1, <3>1
    <3>2. CASE k = slice[u] + 1
      <4>1. k \in 1 .. Total /\ k - 1 = slice[u]
        BY <1>1, <3>2
      <4> QED BY <1>10, <2>1, <3>2, <4>1
    <3> QED BY <1>1, <3>1, <3>2
  <2>3. CASE slice[u] = Total - 1
    <3>1. Whole(u)'
      BY <1>1, <2>1, <2>2, <2>3 DEF Whole
    <3>2. /\ Only(u) /\ pc'[u] = "root" /\ status' = status
          /\ \A v \in Uploads \ {u} : slice'[v] = slice[v]
      BY <1>6, <1>12, <2>3
    <3>3. Sent(u)' \/ HasVertex(u) => Unlinked(u) \/ Whole(u)'
      BY <2>1, <3>1
    <3> QED BY <1>1, <1>3, <1>8, <1>9, <3>2, <3>3, OwnFile
  <2>4. CASE slice[u] # Total - 1
    <3>1. ~Sent(u)'
      BY <1>7, <1>12, <2>4 DEF Sent
    <3>2. /\ Only(u) /\ pc'[u] = "send" /\ slice'[u] = slice[u] + 1
          /\ \A v \in Uploads \ {u} : slice'[v] = slice[v]
          /\ \A q \in Req \ {u} : status'[q] = status[q]
      BY <1>7, <1>12, <2>4
    <3>3. /\ pc[u] \in {"new", "send"} /\ Len(disk'[u]) = slice'[u]
          /\ \A k \in 1 .. slice'[u] : disk'[u][k] = Slices[k]
      BY <1>1, <2>1, <2>2, <3>2
    <3>4. ~(Sent(u)' \/ HasVertex(u))
      BY <1>2, <3>1
    <3> QED BY <1>3, <1>8, <1>9, <3>2, <3>3, <3>4, OwnFile
  <2> QED BY <2>3, <2>4
<1>13. CASE /\ WriteTorn(u) \/ UNCHANGED fileVars
            /\ Fails /\ slice[u] = Total - 1 /\ StartTree(u)
  <2>1. Len(disk'[u]) >= slice[u] /\ \A k \in 1 .. slice[u] : disk'[u][k] = Slices[k]
    BY <1>1, <1>2, <1>4, <1>13 DEF WriteTorn, fileVars
  <2>2. Whole(u)'
    BY <1>1, <1>3, <1>13, <2>1 DEF Whole
  <2> QED BY <1>1, <1>3, <1>6, <1>8, <1>9, <1>13, <2>2, OwnFile
<1> QED BY <1>11, <1>12, <1>13 DEF Send

LEMMA SendExtraFiles ==
  ASSUME FilesInv, NEW u \in Uploads, SendExtra(u)
  PROVE  FilesPart'
<1>1. /\ u \in Req /\ pc[u] = "extra" /\ pc \in [Req -> Steps] /\ RequestTypeOK
      /\ status \in [Req -> {0, 200, 201, 404, 500, 501}]
      /\ disk \in [Uploads -> Seq(0 .. Torn)] /\ disk[u] \in Seq(0 .. Torn)
      /\ slice \in [Uploads -> 0 .. Total] /\ slice[u] \in 0 .. Total
      /\ Total \in Nat /\ Torn = Total + 1 /\ faults \in Nat
  BY TotalType DEF FilesInv, TypeInv, RequestInv, RequestTypeOK, AnswerInv, AnswerTypeOK, Req,
                   FileTypeOK, SendExtra
<1>2. /\ UNCHANGED graphVars /\ faults' \in Nat /\ faults' >= faults
  BY <1>1 DEF SendExtra, Works, Fails, envVars
<1>3. u \in Exact /\ status[u] = 201 /\ Attached(u)
  BY <1>1 DEF FilesInv, Attaching
<1>4. /\ Only(u) /\ slice' = slice /\ loc' = loc /\ pc'[u] = "done"
      /\ \A q \in Req \ {u} : status'[q] = status[q]
  BY <1>1 DEF SendExtra, Throw, Reply, Only
<1>5. /\ onDisk \subseteq onDisk' /\ onDisk' \subseteq onDisk \cup {u}
      /\ \A v \in Uploads \ {u} : disk'[v] = disk[v]
  BY <1>1 DEF SendExtra, WriteSlice, WriteTorn, fileVars
<1>6. Len(disk'[u]) >= Len(disk[u]) /\ \A k \in 1 .. Len(disk[u]) : disk'[u][k] = disk[u][k]
  <2>1. \A x \in 0 .. Torn : disk' = [disk EXCEPT ![u] = Append(@, x)] =>
          Len(disk'[u]) >= Len(disk[u]) /\ \A k \in 1 .. Len(disk[u]) : disk'[u][k] = disk[u][k]
    BY <1>1
  <2>2. slice[u] \in 0 .. Torn /\ Torn \in 0 .. Torn
    BY <1>1
  <2> QED BY <1>1, <2>1, <2>2 DEF SendExtra, WriteSlice, WriteTorn, fileVars
<1>7. ASSUME Whole(u) PROVE Whole(u)'
  <2>1. Len(disk[u]) \in Nat /\ Len(disk'[u]) \in Nat
    <3>1. FileTypeOK'
      BY NextType DEF Next, Upload, FilesInv, TypeInv
    <3> QED BY <1>1, <3>1 DEF FileTypeOK
  <2>2. ASSUME NEW k \in Nat, k > 0, Len(disk[u]) >= k
        PROVE  Len(disk'[u]) >= k /\ disk'[u][k] = disk[u][k]
    BY <1>6, <2>1, <2>2
  <2>3. ASSUME NEW k \in 1 .. Total - 1
        PROVE  Len(disk'[u]) >= k /\ disk'[u][k] = Slices[k]
    <3>1. k \in Nat /\ k > 0
      BY TotalType
    <3>2. Len(disk[u]) >= k /\ disk[u][k] = Slices[k]
      BY <1>7 DEF Whole
    <3> QED BY <2>2, <3>1, <3>2
  <2>4. faults' = 0 => Len(disk'[u]) >= Total /\ disk'[u][Total] = Slices[Total]
    BY <1>1, <1>2, <1>7, <2>2, TotalType DEF Whole
  <2> QED BY <2>3, <2>4 DEF Whole
<1>8. Unlinked(u) \/ Whole(u)
  BY <1>1 DEF FilesInv, FilesKept, Sent
<1>9. Attached(u)'
  BY <1>2, <1>3, <1>4 DEF Attached, graphVars
<1>10. \A v \in Uploads \ {u} : disk'[v] = disk[v] /\ slice'[v] = slice[v]
  BY <1>4, <1>5
<1>11. Sent(u)' \/ HasVertex(u) => Unlinked(u) \/ Whole(u)'
  BY <1>7, <1>8
<1>12. pc'[u] \in {"new", "send"} =>
         /\ pc[u] \in {"new", "send"} /\ Len(disk'[u]) = slice'[u]
         /\ \A k \in 1 .. slice'[u] : disk'[u][k] = Slices[k]
  BY <1>4
<1>13. /\ pc'[u] = "extra" => status'[u] = 201 /\ u \in Exact
       /\ pc'[u] \in {"extra", "done"} /\ status'[u] = 201 => Attached(u)'
  BY <1>4, <1>9
<1>14. u \in Exact \/ pc[u] \in {"new", "send"}
  BY <1>3
<1> QED BY <1>2, <1>4, <1>5, <1>10, <1>11, <1>12, <1>13, <1>14, OwnFile

LEMMA CrashFiles ==
  ASSUME FilesInv, Crash
  PROVE  FilesPart'
<1>1. /\ UNCHANGED <<vertices, removed, edges, disk, onDisk, loc, slice, faults>>
      /\ \A r \in Req : \/ pc'[r] = pc[r] /\ status'[r] = status[r] /\ pc[r] \in {"new", "done"}
                        \/ pc'[r] = "done" /\ status'[r] = 0 /\ pc[r] # "new"
      /\ Uploads \subseteq Req /\ Deletes \subseteq Req /\ Gets \subseteq Req
      /\ loc \in [Req -> Locals]
  BY DEF Crash, Active, graphVars, fileVars, Req, FilesInv, TypeInv, RequestInv, RequestTypeOK
<1>2. InOrder'
  BY <1>1 DEF FilesInv, InOrder
<1>3. KnownFiles'
  <2>1. \A x \in Deletes : loc[x].file \in Uploads \cup {NoFile}
    BY <1>1 DEF Locals
  <2>2. \A u \in Uploads : pc'[u] \in {"new", "send"} => pc[u] \in {"new", "send"}
    BY <1>1
  <2>3. \A u \in Uploads : HasVertex(u)' => HasVertex(u)
    BY <1>1 DEF HasVertex
  <2> QED BY <1>1, <2>1, <2>2, <2>3 DEF FilesInv, KnownFiles, IsVideo
<1>4. FilesKept'
  <2>1. \A u \in Uploads : (Sent(u) \/ HasVertex(u))' => HasVertex(u)
    BY <1>1 DEF Sent, HasVertex
  <2>2. \A u \in Uploads : Unlinked(u) => Unlinked(u)'
    BY <1>1 DEF Unlinked
  <2>3. \A u \in Uploads : Whole(u) => Whole(u)'
    BY <1>1 DEF Whole
  <2> QED BY <1>1, <2>1, <2>2, <2>3 DEF FilesInv, FilesKept
<1>5. Deleting'
  BY <1>1 DEF FilesInv, Deleting
<1>6. Attaching'
  BY <1>1 DEF FilesInv, Attaching, Attached
<1> QED BY <1>2, <1>3, <1>4, <1>5, <1>6 DEF FilesPart

LEMMA StutterFiles ==
  ASSUME FilesInv, UNCHANGED vars
  PROVE  FilesPart'
<1>1. InOrder' /\ KnownFiles'
  BY DEF vars, FilesInv, InOrder, KnownFiles, HasVertex, IsVideo
<1>2. FilesKept'
  BY DEF vars, FilesInv, FilesKept, Sent, HasVertex, Unlinked, Whole
<1>3. Deleting' /\ Attaching'
  BY DEF vars, FilesInv, Deleting, Attaching, Attached
<1> QED BY <1>1, <1>2, <1>3 DEF FilesPart

LEMMA InitFiles ==
  ASSUME Init
  PROVE  FilesInv
<1>1. /\ TypeInv /\ \A r \in Req : pc[r] = "new" /\ status[r] = 0 /\ loc[r] = NewLocals
      /\ \A u \in Uploads : disk[u] = <<>> /\ slice[u] = 0
      /\ Uploads \subseteq Req /\ Deletes \subseteq Req /\ Gets \subseteq Req
  BY InitType DEF Init, Req
<1>2. \A n \in DOMAIN vertices : vertices[n].file = NoFile /\ ~IsVideo(n)
  <2>1. \A name : Directory(name).class = "Video_Directory" /\ Directory(name).file = NoFile
    BY DEF Directory
  <2>2. CASE vertices = <<>>
    BY <2>2 DEF IsVideo
  <2>3. CASE vertices = [n \in 1 .. Len(Stored) + 1 |->
                           Directory(IF n = 1 THEN RootName ELSE Stored[n - 1])]
    BY <2>1, <2>3 DEF IsVideo
  <2> QED BY <2>2, <2>3 DEF Init, StoredGraph, GraphInit
<1>3. \A u \in Uploads : ~HasVertex(u) /\ ~Sent(u)
  BY <1>1, <1>2, Requests DEF HasVertex, NoFile, Sent
<1>4. InOrder
  BY <1>1 DEF InOrder
<1>5. KnownFiles
  <2>0. NewLocals.file = NoFile
    BY DEF NewLocals
  <2>1. \A d \in Deletes : loc[d].file = NoFile
    BY <1>1, <2>0 DEF Req
  <2> QED BY <1>2, <1>3, <2>1 DEF KnownFiles
<1>6. FilesKept
  BY <1>3 DEF FilesKept
<1>7. Deleting /\ Attaching
  BY <1>1 DEF Deleting, Attaching
<1> QED BY <1>1, <1>4, <1>5, <1>6, <1>7 DEF FilesInv

LEMMA NextFiles ==
  ASSUME FilesInv, [Next]_vars
  PROVE  FilesInv'
<1>1. TypeInv'
  BY NextType DEF FilesInv
<1>2. TypeInv
  BY DEF FilesInv
<1>3. ASSUME NEW r \in Req, Start(r) \/ Tree(r) PROVE FilesPart'
  BY <1>2, <1>3, TreeCourse, CourseBeside, CourseKeeps
<1>4. ASSUME NEW u \in Uploads, Upload(u) PROVE FilesPart'
  BY <1>2, <1>4, OtherCourse, CourseBeside, CourseKeeps, SendFiles, AttachVideoFiles,
     SendExtraFiles DEF Upload, Req
<1>5. ASSUME NEW d \in Deletes, Delete(d) PROVE FilesPart'
  BY <1>2, <1>5, OtherCourse, CourseBeside, CourseKeeps, LoadNodeFiles, DeleteFileFiles,
     CommitRemoveFiles DEF Delete, Req
<1>6. ASSUME NEW g \in Gets, Get(g) PROVE FilesPart'
  BY <1>2, <1>6, OtherCourse, CourseBeside, CourseKeeps DEF Req
<1> QED BY <1>1, <1>3, <1>4, <1>5, <1>6, CrashFiles, StutterFiles DEF Next, Served, FilesPart, FilesInv

LEMMA AlwaysFiles == Spec => []FilesInv
BY InitFiles, NextFiles, PTL DEF Spec

(***************************************************************************)
(* The theorems.                                                           *)
(***************************************************************************)
\* What is registered can be played: for any number of slices, uploads and
\* failures, the file of a registered video starts with its slices in order,
\* until a delete has unlinked it.
THEOREM RegisteredCanBePlayed == Spec => []RegisteredIsStored
<1>1. FilesInv => RegisteredIsStored
  <2> SUFFICES ASSUME FilesInv, NEW n \in Live, IsVideo(n), ~Unlinked(vertices[n].file)
               PROVE  Whole(vertices[n].file)
    BY DEF RegisteredIsStored, Whole
  <2>1. vertices[n].file \in Uploads /\ HasVertex(vertices[n].file)
    BY DEF FilesInv, KnownFiles, HasVertex, Live
  <2> QED BY <2>1 DEF FilesInv, FilesKept
<1> QED BY <1>1, AlwaysFiles, PTL

\* What a delete has answered 200 is gone for good: its vertex is removed and
\* its file does not come back, but for the extra slice of an upload whose
\* size is a multiple of the slice size.
THEOREM DeletesAreFinal == Spec => []DeletedStaysDeleted
<1>1. FilesInv => DeletedStaysDeleted
  BY DEF FilesInv, Deleting, DeletedStaysDeleted
<1> QED BY <1>1, AlwaysFiles, PTL

\* A video whose upload was answered 201 stays attached to the folder its
\* handler had found until that folder or the video is deleted.
THEOREM AcknowledgedStaysAttached == Spec => []AcknowledgedIsAttached
<1>1. FilesInv => AcknowledgedIsAttached
  BY DEF FilesInv, Attaching, Attached, AcknowledgedIsAttached, Acknowledged
<1> QED BY <1>1, AlwaysFiles, PTL

=============================================================================
